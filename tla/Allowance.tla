----------------------------- MODULE Allowance -----------------------------
(***************************************************************************)
(* What one counted allowance of the rate limiter promises: within a window *)
(* at most Limit calls are charged at any time, and a charge is taken back  *)
(* only from a call that was not delivered.  A new window forgets every     *)
(* charge; a charge of an earlier window never frees a slot of the new one, *)
(* because it is no longer held.                                            *)
(***************************************************************************)
EXTENDS Naturals, FiniteSets

CONSTANTS Call, Limit

VARIABLES charged, delivered    \* calls charged to the current window; those that reached Govee

vars == <<charged, delivered>>

Init == charged = {} /\ delivered = {}

Charge(c) ==
  /\ c \notin charged
  /\ Cardinality(charged) < Limit
  /\ charged' = charged \cup {c}
  /\ UNCHANGED delivered

Deliver(c) ==
  /\ c \in charged
  /\ delivered' = delivered \cup {c}
  /\ UNCHANGED charged

GiveBack(c) ==
  /\ c \in charged \ delivered
  /\ charged' = charged \ {c}
  /\ UNCHANGED delivered

NewWindow == charged' = {} /\ delivered' = {}

Next == NewWindow \/ \E c \in Call : Charge(c) \/ Deliver(c) \/ GiveBack(c)

Step == [Next]_vars

Spec == Init /\ [][Next]_vars
=============================================================================
