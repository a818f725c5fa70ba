\* Side by side: a lamp and a group that are built twice; two devices, one a light,
\* with the values shown of them; an appliance of twelve kinds.
\* Builds, runs and writes run out: the system may stop.
SPECIFICATION MCSpec
CONSTANTS
    None = None
    TreeNews = 4
    ShownNews = 4
    \* the object tree
    lamp1 = lamp1
    Lamps <- MCLamps
    Group = Group
    MaxBuilds = 2
    \* the values the adapter shows
    d1 = d1  d2 = d2
    Devs <- MCDevs
    LightDevs <- MCLightDevs
    Total = Total  Online = Online  All = All  GroupOnline = GroupOnline  Out = Out
    WritesFail = FALSE
    GoesSilent = TRUE
    Returns = FALSE
    MaxRuns = 1
    \* an appliance
    Shapes <- MCShapes
    Levels <- MCLevels
    Wishes <- MCWishes
INVARIANTS ShownIsTrue PairsFit
PROPERTY TreeConverges
CHECK_DEADLOCK FALSE
