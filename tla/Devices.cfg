\* Side by side: the device list with its stores over two starts; two lights on two
\* networks; the move of two trees over three starts; the settings over four edits;
\* the login of two accounts with a code over two starts.
\* Answers, moves, starts and edits run out: the system may stop.
SPECIFICATION MCSpec
CONSTANTS
    None = None
    \* the device list
    l1 = l1  l2 = l2  s1 = s1  g1 = g1  m1 = m1  m2 = m2
    Lights <- MCLights
    LanLights <- MCLanLights
    Sensors <- MCSensors
    Groups <- MCGroups
    Sku <- MCSku
    Homes <- MCHomes
    MaxPasses = 1
    \* the LAN
    Bulbs <- MCPair
    Networks <- MCPair
    Hosts <- MCPair
    Houses <- MCHouses
    MaxDistinct = 2
    MaxMoves = 2
    MaxFlight = 2
    Missing = Missing
    \* the move of a tree
    Dev <- MCPair
    MaxStarts = 3
    Mishaps <- MCMishaps
    \* the settings
    a1 = a1  a2 = a2  k1 = k1  k2 = k2
    BindChoices <- MCBindChoices
    RetiredKeys <- MCRetiredKeys
    Everywhere = Everywhere
    Empty = Empty
    EditsEarly = FALSE
    ReadsFail = FALSE
    MaxEdits = 4
    \* the saved login
    Accounts = {u1, u2}
    Codes = {c1}
    WriteFaults = {"refused", "torn"}
    SwitchesEarly = FALSE
    MaxIssued = 2
    MaxBoots = 2
INVARIANTS CacheHoldsTheList MoveKeepsAll ChoiceSurvives
PROPERTIES LightsAreMet EvictionIsDebounced LoginIsKept
CHECK_DEADLOCK FALSE
