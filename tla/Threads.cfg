\* Articles that arrive in any order with references of every shape, and are
\* threaded again by a later In-Reply-To:, with a duplicate among them.
CONSTANTS
    a = a
    b = b
    c = c
    d = d
    u = u
    v = v
    w = w
    None = None
    Ids <- MCIds
    Subjects <- MCSubjects
    Posts <- MCPosts
    RefLists <- MCRefLists
    LateLists <- MCLateLists
    Modes = {"thread", "subject"}
    Orders = {"date", "count"}
    Lines <- MCLines
    Rank <- MCRank
    Prefix <- MCPrefix
    JoinSubjects = TRUE
    MayVanish = {2}
SPECIFICATION Spec
INVARIANTS
    ThreadsWhole
    WalksInOrder
PROPERTIES
    OthersKeepTheirParents
CHECK_DEADLOCK FALSE
