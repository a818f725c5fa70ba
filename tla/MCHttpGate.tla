----------------------------- MODULE MCHttpGate -----------------------------
EXTENDS HttpGate, TLC

CONSTANTS a, b, onB,     \* two hosts, and the requests that go to the second
          burst, minute

\* A burst per host and a longer window per account, like a counterpart's.
MCHostOf == [c \in Call |-> IF c \in onB THEN b ELSE a]
MCMaxOf == (burst :> 1) @@ (minute :> 2)
MCWindowOf == (burst :> 2) @@ (minute :> 4)
=============================================================================
