------------------------------- MODULE NoValue -------------------------------
(* What the modules about the devices write where the code has undefined,   *)
(* null or no entry.                                                        *)
CONSTANT None
=============================================================================
