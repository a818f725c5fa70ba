\* Every cap and window 2.  Time goes on for ever: no deadlock.
SPECIFICATION FairSpec
CONSTANTS
  MaxFails = 2
  MaxLogins = 2
  LoginWindow = 2
  MaxDials = 2
  DialWindow = 2
  ReuseTries = 2
INVARIANTS OneConnectLoop NoSocketAfterStop BudgetsAreKept
PROPERTY GetsThrough
