\* Side by side: two writes to one light with the reports of every channel between
\* them; two overlapping writes to a group of two; two cards that want a report.
\* The writes and exports run out: the system may stop.
SPECIFICATION MCSpec
CONSTANTS
    MaxWrites = 2
    MaxValue = 1
    MaxEvents = 1
    Member = {m1, m2}
    Write = {w1, w2}
    MaxFlips = 1
    Card = {c1, c2}
    Reported = {d1, d2}
    Patience = 1
    Keep = 1
    MaxProcesses = 2
INVARIANT ConfirmedIsTrue
PROPERTIES GroupIsTold ReportsAreHonest
SYMMETRY Cards
CHECK_DEADLOCK FALSE
