--------------------------- MODULE MCCommandSend ---------------------------
EXTENDS CommandSend

CONSTANTS s

MCSlotOf == [w \in Command |-> s]
=============================================================================
