SPECIFICATION ServersSpec
CONSTANTS
    Names = {1, 2, 3}
    Lines <- TwoLines
    Unread = {{1, 2}}
    Bogus = {2}
    Orders <- SomeOrders
    Patterns <- OnePattern
    Commands = {"P", "p", "n", "-", "$", "g", "/", ":", "c", "u", "A", "a", "o", "^N"}
    RawCommands = {"u", "^N"}
    AutoSubscribe <- Subscribed
    AppendUnsub = TRUE
    Quick = TRUE
    MaxSlots = 4
    MaxCommands = 2
    MaxNews = 1
    Home = "home"
    Others = {"other"}
    Groups = {"g1", "g2"}
    Articles = {1, 2}
    ListAct = {"home", "other"}
    AuthNeeded = {"home"}
    ForceAuth = {"other"}
INVARIANTS
    ListWhole
    MovesWhereAsked
    KillsAllMarked
    ScanEnds
    RepliesPaired
    BodyIsArticle
