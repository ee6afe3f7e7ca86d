SPECIFICATION Spec
CONSTANTS
    Home = "home"
    Others = {"other"}
    Groups = {"g1", "g2"}
    Carried <- Have
    Articles = {1, 2}
    Held = {1, 2}
    HeadLen = 1
    BodyLen = 1
    Slots = 1
    ListAct = {"home","other"}
    AuthNeeded = {"home"}
    ForceAuth = {"other"}
    LostSignon = FALSE
    HalfTyped = FALSE
    MaxFaults = 1
INVARIANTS
    NeverNested
