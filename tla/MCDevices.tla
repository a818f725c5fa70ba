----------------------------- MODULE MCDevices -----------------------------
(***************************************************************************)
(* What the adapter knows of the devices, checked side by side: the list   *)
(* and its stores, who an answer on the LAN belongs to, the move of the    *)
(* trees to new ids, the migration of old settings, and the saved account  *)
(* login.  The five share no variable, so each behaviour runs one of them  *)
(* and the others rest in an initial state.                                *)
(***************************************************************************)
EXTENDS DeviceList, LanDiscovery, IdMove, KeyMigration, SavedLogin

VARIABLE part

Part == {"list", "lan", "move", "keys", "login"}
allVars == <<part, deviceVars, discoveryVars, moveVars, keyVars, loginVars>>

\* Numbers of networks and addresses are names: the first light has the first address
\* of a network (of the other one, when a network is selected).
Placed == at[1][2] = 1 /\ (home.chosen \notin Networks => at[1][1] = 1)

\* A part at rest begins in one state, not in every one of its initial states.
AtRest ==
  /\ part # "list" => budget = CHOOSE h \in Homes : TRUE
  /\ IF part = "lan" THEN Placed
     ELSE /\ home = CHOOSE h \in Houses : TRUE
          /\ at = CHOOSE f \in [Bulbs -> LanAddresses] : \A l, m \in Bulbs : f[l] = f[m] => l = m
  /\ part # "move" => mishap = CHOOSE m \in Mishaps : TRUE
  /\ part # "keys" => networkInterface = Empty /\ retired = {}
  /\ part # "login" => issued = 0
  /\ goveeLogin.account = CHOOSE a \in Accounts : TRUE

\* An address is handed on by a second move.
MovesInHouse == IF home.reuse THEN 2 ELSE 1

MCInit ==
  /\ part \in Part
  /\ DeviceInit /\ DiscoveryInit /\ MoveInit /\ KeysInit /\ LoginInit
  /\ AtRest

MCNext ==
  /\ part' = part
  /\ \/ /\ part = "list" /\ DeviceNext /\ Cardinality(passes') <= MaxPasses
        /\ UNCHANGED <<discoveryVars, moveVars, keyVars, loginVars>>
     \/ /\ part = "lan" /\ DiscoveryNext /\ moves' <= MovesInHouse
        /\ UNCHANGED <<deviceVars, moveVars, keyVars, loginVars>>
     \/ part = "move" /\ MoveNext /\ UNCHANGED <<deviceVars, discoveryVars, keyVars, loginVars>>
     \/ part = "keys" /\ KeysNext /\ UNCHANGED <<deviceVars, discoveryVars, moveVars, loginVars>>
     \/ part = "login" /\ LoginNext /\ UNCHANGED <<deviceVars, discoveryVars, moveVars, keyVars>>

MCSpec == MCInit /\ [][MCNext]_allVars

-----------------------------------------------------------------------------
CONSTANTS
  l1, l2, s1, g1, m1, m2,    \* devices of the account, and their models
  a1, a2, k1, k2             \* addresses, and settings an update drops

MCLights == {l1, l2}
MCLanLights == {l2}
MCSensors == {s1}
MCGroups == {g1}
MCSku == [d \in Device |-> IF d \in Lights THEN m1 ELSE m2]

\* A device is evicted by the third answer: a list that names it and two of its source
\* that name the other, with a restart anywhere between, or with an answer of the light
\* on the LAN; a sensor, a group or a second light of the model beside the light; the
\* fallback by model takes two lights.
MCHomes == {[there |-> {l1, s1}, sessions |-> 2, answers |-> 3],
            [there |-> {l2, s1}, sessions |-> 1, answers |-> 3],
            [there |-> {s1, g1}, sessions |-> 1, answers |-> 3],
            [there |-> {l2, g1}, sessions |-> 2, answers |-> 2],
            [there |-> {l1, l2}, sessions |-> 1, answers |-> 2]}

MCPair == {1, 2}

\* Two lights of one model: both in the account, with a router that hands addresses
\* on and a network the host no longer has, which binds like no choice at all; one in
\* the account, so that the other's reply may be taken for it; or one light of a model
\* of its own and a network the host has.
MCHouses == {[account |-> {1, 2}, chosen |-> Missing, sameSku |-> TRUE, reuse |-> TRUE],
             [account |-> {1}, chosen |-> None, sameSku |-> TRUE, reuse |-> FALSE],
             [account |-> {1}, chosen |-> 1, sameSku |-> FALSE, reuse |-> FALSE]}

\* Two ids that collide, or calls that fail (both together: see the README).
MCMishaps == {[collide |-> TRUE, fails |-> FALSE], [collide |-> FALSE, fails |-> TRUE]}

MCBindChoices == {a1, a2}
MCRetiredKeys == {k1, k2}
=============================================================================
