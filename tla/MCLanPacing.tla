---------------------------- MODULE MCLanPacing ----------------------------
EXTENDS LanPacing

CONSTANTS b, onB       \* one light, and the datagrams that go to it
ASSUME b \in Light /\ onB \subseteq Datagram

MCLightOf == [d \in Datagram |-> IF d \in onB THEN b ELSE CHOOSE l \in Light \ {b} : TRUE]
=============================================================================
