--------------------------- MODULE CallGateProofs ---------------------------
(***************************************************************************)
(* The gate keeps every window of every limit, for all calls, hosts and     *)
(* limits.  What it remembers is what lies in the window ending now; a      *)
(* window that ends now gained what was let through now, and an older       *)
(* window does not change any more.  And the wait the gate names is enough: *)
(* when it is over, each full limit has let go of the call that was in the  *)
(* way.                                                                     *)
(***************************************************************************)
EXTENDS CallGate, FiniteSetTheorems, WellFoundedInduction, TLAPS

\* What the gate remembers of a window is what it let through in it.
Remembers ==
  /\ \A c \in passed : at[c] <= now
  /\ \A k \in Key : seen[k] \subseteq passed
  /\ \A l \in Limit, h \in Host : Window(l, h) = InWindow(l, h, now)

GateInv == GateTypeOK /\ Remembers /\ WindowsKept

\* A key is one of Key and names its limit.
LEMMA KeyFacts ==
  ASSUME NEW l \in Limit, NEW h
  PROVE  /\ h \in Host => KeyOf(l, h) \in Key
         /\ KeyOf(l, h)[1] = l
BY DEF KeyOf, Key

\* Windows are finite sets of calls.
LEMMA WindowFinite ==
  ASSUME GateTypeOK, NEW l \in Limit, NEW h \in Host, NEW t
  PROVE  IsFiniteSet(InWindow(l, h, t)) /\ Cardinality(InWindow(l, h, t)) \in Nat
<1>1. InWindow(l, h, t) \subseteq Call
  BY DEF InWindow, GateTypeOK
<1>2. IsFiniteSet(InWindow(l, h, t))
  BY <1>1, GateAssumption, FS_Subset
<1> QED BY <1>2, FS_CardinalityType

-----------------------------------------------------------------------------
LEMMA InitGateInv == GateInit => GateInv
<1> SUFFICES ASSUME GateInit PROVE GateInv
  OBVIOUS
<1>1. GateTypeOK
  BY GateAssumption DEF GateInit, GateTypeOK
<1>2. \A l \in Limit, h \in Host : Window(l, h) = {}
  BY KeyFacts DEF GateInit, Window
<1>3. \A l \in Limit, h \in Host : \A t : InWindow(l, h, t) = {}
  BY DEF GateInit, InWindow
<1>4. Remembers
  BY <1>2, <1>3 DEF GateInit, Remembers
<1>5. WindowsKept
  <2> SUFFICES ASSUME NEW l \in Limit, NEW h \in Host
               PROVE  \A t \in 0..now : Cardinality(InWindow(l, h, t)) <= maxOf[l]
    BY DEF WindowsKept
  <2>1. maxOf[l] \in Nat
    BY GateAssumption
  <2> QED BY <1>3, <2>1, FS_EmptySet
<1> QED BY <1>1, <1>4, <1>5 DEF GateInv

\* A moment later a window holds no call it did not hold before.
LEMMA TickKeeps == GateInv /\ GateTick => GateInv'
<1> SUFFICES ASSUME GateInv, GateTick PROVE GateInv'
  OBVIOUS
<1> USE DEF GateInv
<1>1. GateTypeOK'
  BY DEF GateTypeOK, GateTick
<1>2. \A l \in Limit, h \in Host : \A t : InWindow(l, h, t)' = InWindow(l, h, t)
  BY DEF InWindow, GateTick
<1>3. Remembers'
  <2>1. (\A c \in passed : at[c] <= now)' /\ (\A k \in Key : seen[k] \subseteq passed)'
    BY DEF Remembers, GateTick, GateTypeOK
  <2>2. ASSUME NEW l \in Limit, NEW h \in Host
        PROVE  Window(l, h)' = InWindow(l, h, now)'
    <3>1. Window(l, h) = InWindow(l, h, now)
      BY DEF Remembers
    <3>2. windowOf[l] \in Nat /\ now \in Nat /\ now' = now + 1
      BY GateAssumption DEF GateTypeOK, GateTick
    <3>3. \A c \in Call : at[c] \in Nat /\ at'[c] = at[c]
      BY DEF GateTypeOK, GateTick
    <3>4. seen' = seen /\ passed' = passed /\ passed \subseteq Call
      BY DEF GateTick, GateTypeOK
    <3>5. seen[KeyOf(l, h)] \subseteq passed
      BY KeyFacts DEF Remembers
    <3> QED BY <3>1, <3>2, <3>3, <3>4, <3>5 DEF Window, InWindow, Remembers
  <2> QED BY <2>1, <2>2 DEF Remembers
<1>4. WindowsKept'
  <2> SUFFICES ASSUME NEW l \in Limit, NEW h \in Host, NEW t \in 0..now'
               PROVE  Cardinality(InWindow(l, h, t)) <= maxOf[l]
    BY <1>2 DEF WindowsKept
  <2>1. CASE t \in 0..now
    BY <2>1 DEF WindowsKept
  <2>2. CASE t \notin 0..now
    <3>1. t = now + 1 /\ now \in Nat
      BY <2>2 DEF GateTick, GateTypeOK
    <3>2. windowOf[l] \in Nat /\ maxOf[l] \in Nat
      BY GateAssumption
    <3>3. InWindow(l, h, t) \subseteq InWindow(l, h, now)
      <4>1. \A c \in passed : at[c] \in Nat /\ at[c] <= now
        BY DEF GateTypeOK, Remembers
      <4> QED BY <3>1, <3>2, <4>1 DEF InWindow
    <3>4. Cardinality(InWindow(l, h, t)) <= Cardinality(InWindow(l, h, now))
      BY <3>3, WindowFinite, FS_Subset
    <3>5. Cardinality(InWindow(l, h, now)) <= maxOf[l]
      BY <3>1 DEF WindowsKept
    <3> QED BY <3>2, <3>4, <3>5, WindowFinite
  <2> QED BY <2>1, <2>2
<1> QED BY <1>1, <1>3, <1>4

\* Letting S through fills the windows that end now by S and no other.
LEMMA AdmitKeeps ==
  ASSUME GateInv, NEW h \in Host, NEW S \in SUBSET Call, TryAdmit(h, S)
  PROVE  GateInv'
<1> USE DEF GateInv
<1>1. S \subseteq Call \ passed /\ \A c \in S : hostOf[c] = h
  BY DEF TryAdmit
<1>2. now' = now /\ now \in Nat
  BY DEF TryAdmit, GateTypeOK
<1>3. passed' = passed \cup S /\ passed \subseteq Call
  BY DEF TryAdmit, GateTypeOK
<1>4. \A c \in Call : at'[c] = IF c \in S THEN now ELSE at[c]
  BY DEF TryAdmit
<1>5. \A c \in Call : at[c] \in Nat
  BY DEF GateTypeOK
<1>6. \A l \in Limit, g \in Host : Window(l, g) \subseteq passed
  BY KeyFacts DEF Window, Remembers
<1>7. GateTypeOK'
  <2>1. seen' \in [Key -> SUBSET Call]
    <3>1. ASSUME NEW k \in Key
          PROVE  (IF k = KeyOf(k[1], h) THEN Window(k[1], h) \cup S ELSE seen[k]) \in SUBSET Call
      <4>1. k[1] \in Limit
        BY DEF Key
      <4> QED BY <1>6, <4>1, <1>3 DEF GateTypeOK
    <3> QED BY <3>1 DEF TryAdmit
  <2>2. at' \in [Call -> Nat]
    BY <1>2, <1>5 DEF TryAdmit
  <2> QED BY <2>1, <2>2, <1>2, <1>3 DEF GateTypeOK
<1>8. ASSUME NEW l \in Limit, NEW g \in Host
      PROVE  /\ KeyOf(l, g) = KeyOf(l, h) => seen'[KeyOf(l, g)] = Window(l, g) \cup S
             /\ KeyOf(l, g) # KeyOf(l, h) => seen'[KeyOf(l, g)] = seen[KeyOf(l, g)]
  <2>1. KeyOf(l, g) \in Key /\ KeyOf(l, g)[1] = l
    BY KeyFacts
  <2>2. KeyOf(l, g) = KeyOf(l, h) => Window(l, g) = Window(l, h)
    BY DEF Window
  <2> QED BY <2>1, <2>2 DEF TryAdmit
<1>9. \A l \in Limit, g \in Host, c \in S :
        KeyOf(l, hostOf[c]) = KeyOf(l, g) <=> KeyOf(l, g) = KeyOf(l, h)
  BY <1>1
<1>10. Remembers'
  <2>1. \A c \in passed' : at'[c] <= now'
    BY <1>1, <1>2, <1>3, <1>4 DEF Remembers
  <2>2. \A k \in Key : seen'[k] \subseteq passed'
    <3> SUFFICES ASSUME NEW k \in Key PROVE seen'[k] \subseteq passed'
      OBVIOUS
    <3>1. k[1] \in Limit
      BY DEF Key
    <3>2. Window(k[1], h) \subseteq passed /\ seen[k] \subseteq passed
      BY <3>1, <1>6 DEF Remembers
    <3>3. seen'[k] = IF k = KeyOf(k[1], h) THEN Window(k[1], h) \cup S ELSE seen[k]
      BY DEF TryAdmit
    <3> QED BY <3>2, <3>3, <1>3
  <2>3. ASSUME NEW l \in Limit, NEW g \in Host
        PROVE  Window(l, g)' = InWindow(l, g, now)'
    <3>1. Window(l, g) = InWindow(l, g, now) /\ seen[KeyOf(l, g)] \subseteq passed
      BY KeyFacts DEF Remembers
    <3>2. windowOf[l] \in Nat \ {0}
      BY GateAssumption
    <3>3. CASE KeyOf(l, g) = KeyOf(l, h)
      <4>1. Window(l, g)' = Window(l, g) \cup S
        BY <3>2, <3>3, <1>1, <1>2, <1>3, <1>4, <1>5, <1>6, <1>8 DEF Window
      <4>2. InWindow(l, g, now)' = InWindow(l, g, now) \cup S
        BY <3>2, <3>3, <1>1, <1>2, <1>3, <1>4, <1>5, <1>9 DEF InWindow
      <4> QED BY <3>1, <4>1, <4>2
    <3>4. CASE KeyOf(l, g) # KeyOf(l, h)
      <4>1. Window(l, g)' = Window(l, g)
        BY <3>1, <3>4, <1>1, <1>2, <1>3, <1>4, <1>8 DEF Window
      <4>2. InWindow(l, g, now)' = InWindow(l, g, now)
        BY <3>4, <1>1, <1>2, <1>3, <1>4, <1>9 DEF InWindow
      <4> QED BY <3>1, <4>1, <4>2
    <3> QED BY <3>3, <3>4
  <2> QED BY <2>1, <2>2, <2>3 DEF Remembers
<1>11. WindowsKept'
  <2> SUFFICES ASSUME NEW l \in Limit, NEW g \in Host, NEW t \in 0..now
               PROVE  Cardinality(InWindow(l, g, t)') <= maxOf[l]
    BY <1>2 DEF WindowsKept
  <2>1. Cardinality(InWindow(l, g, t)) <= maxOf[l]
    BY DEF WindowsKept
  <2>2. windowOf[l] \in Nat \ {0} /\ maxOf[l] \in Nat
    BY GateAssumption
  <2>3. CASE KeyOf(l, g) # KeyOf(l, h) \/ t # now
    <3>1. InWindow(l, g, t)' = InWindow(l, g, t)
      BY <2>2, <2>3, <1>1, <1>2, <1>3, <1>4, <1>5, <1>9 DEF InWindow
    <3> QED BY <2>1, <3>1
  <2>4. CASE KeyOf(l, g) = KeyOf(l, h) /\ t = now
    <3>1. InWindow(l, g, now)' = Window(l, h) \cup S
      <4>1. InWindow(l, g, now)' = InWindow(l, g, now) \cup S
        BY <2>2, <2>4, <1>1, <1>2, <1>3, <1>4, <1>5, <1>9 DEF InWindow
      <4>2. Window(l, g) = Window(l, h)
        BY <2>4 DEF Window
      <4> QED BY <4>1, <4>2 DEF Remembers
    <3>2. IsFiniteSet(Window(l, h)) /\ IsFiniteSet(S)
      BY <1>3, <1>6, GateAssumption, FS_Subset
    <3>3. Cardinality(Window(l, h) \cup S) <= Cardinality(Window(l, h)) + Cardinality(S)
      <4>1. /\ Cardinality(Window(l, h) \cup S) =
                 Cardinality(Window(l, h)) + Cardinality(S) - Cardinality(Window(l, h) \cap S)
            /\ IsFiniteSet(Window(l, h) \cap S)
        BY <3>2, FS_Union, FS_Subset
      <4>2. /\ Cardinality(Window(l, h)) \in Nat /\ Cardinality(S) \in Nat
            /\ Cardinality(Window(l, h) \cap S) \in Nat
        BY <3>2, <4>1, FS_CardinalityType
      <4> QED BY <4>1, <4>2
    <3>4. Cardinality(Window(l, h)) + Cardinality(S) <= maxOf[l]
      BY DEF TryAdmit, Fits
    <3>5. /\ Cardinality(Window(l, h) \cup S) \in Nat
          /\ Cardinality(Window(l, h)) \in Nat /\ Cardinality(S) \in Nat
      BY <3>2, FS_Union, FS_CardinalityType
    <3>6. InWindow(l, g, t)' = InWindow(l, g, now)'
      BY <2>4, <1>2
    <3> QED BY <2>2, <3>1, <3>3, <3>4, <3>5, <3>6
  <2> QED BY <2>3, <2>4
<1> QED BY <1>7, <1>10, <1>11

LEMMA NextGateInv == GateInv /\ [GateNext]_gateVars => GateInv'
<1> SUFFICES ASSUME GateInv, [GateNext]_gateVars PROVE GateInv'
  OBVIOUS
<1>1. CASE GateTick
  BY <1>1, TickKeeps
<1>2. ASSUME NEW h \in Host, NEW S \in SUBSET Call, TryAdmit(h, S)
      PROVE  GateInv'
  BY <1>2, AdmitKeeps
<1>3. CASE UNCHANGED gateVars
  BY <1>3 DEF gateVars, GateInv, GateTypeOK, Remembers, WindowsKept, Window, InWindow
<1> QED BY <1>1, <1>2, <1>3 DEF GateNext

\* However the calls come, in every window of every limit the gate let through no
\* more calls than the limit (call-gate.ts, tryAdmit and window).
THEOREM GateKeepsWindows == GateSpec => []WindowsKept
<1>1. GateInv => WindowsKept
  BY DEF GateInv
<1> QED BY <1>1, InitGateInv, NextGateInv, PTL DEF GateSpec
-----------------------------------------------------------------------------
(* The wait.                                                               *)

\* Of finitely many things with a number each, one has the greatest and one the
\* smallest: no set of things beyond it is smaller than the empty one.
LEMMA Extremes ==
  ASSUME NEW S, IsFiniteSet(S), S # {}, NEW f, \A x \in S : f[x] \in Nat
  PROVE  /\ \E x \in S : \A y \in S : f[x] >= f[y]
         /\ \E x \in S : \A y \in S : f[x] <= f[y]
<1>1. \E x \in S : \A y \in S : f[x] >= f[y]
  <2> DEFINE Above(x) == {y \in S : f[y] > f[x]}
             Aboves == {Above(x) : x \in S}
  <2>1. \A x \in S : Above(x) \in FiniteSubsetsOf(S)
    BY FS_Subset DEF FiniteSubsetsOf
  <2>2. Aboves \subseteq FiniteSubsetsOf(S) /\ Aboves # {}
    BY <2>1
  <2>3. PICK U \in Aboves : \A V \in Aboves : ~ (<<V, U>> \in StrictSubsetOrdering(S))
    <3> HIDE DEF Aboves
    <3> QED BY <2>2, FS_StrictSubsetOrderingWellFounded, WFMin
  <2>4. PICK x \in S : U = Above(x)
    OBVIOUS
  <2>5. ASSUME NEW y \in S, f[y] > f[x]
        PROVE  FALSE
    <3>1. Above(y) \subseteq Above(x)
      <4> SUFFICES ASSUME NEW z \in S, f[z] > f[y] PROVE f[z] > f[x]
        OBVIOUS
      <4> QED BY <2>5
    <3>2. y \in Above(x) /\ y \notin Above(y)
      BY <2>5
    <3>3. <<Above(y), U>> \in StrictSubsetOrdering(S)
      BY <2>4, <3>1, <3>2 DEF StrictSubsetOrdering
    <3> QED BY <2>3, <3>3
  <2> QED BY <2>5
<1>2. \E x \in S : \A y \in S : f[x] <= f[y]
  <2> DEFINE Below(x) == {y \in S : f[y] < f[x]}
             Belows == {Below(x) : x \in S}
  <2>1. \A x \in S : Below(x) \in FiniteSubsetsOf(S)
    BY FS_Subset DEF FiniteSubsetsOf
  <2>2. Belows \subseteq FiniteSubsetsOf(S) /\ Belows # {}
    BY <2>1
  <2>3. PICK U \in Belows : \A V \in Belows : ~ (<<V, U>> \in StrictSubsetOrdering(S))
    <3> HIDE DEF Belows
    <3> QED BY <2>2, FS_StrictSubsetOrderingWellFounded, WFMin
  <2>4. PICK x \in S : U = Below(x)
    OBVIOUS
  <2>5. ASSUME NEW y \in S, f[y] < f[x]
        PROVE  FALSE
    <3>1. Below(y) \subseteq Below(x)
      <4> SUFFICES ASSUME NEW z \in S, f[z] < f[y] PROVE f[z] < f[x]
        OBVIOUS
      <4> QED BY <2>5
    <3>2. y \in Below(x) /\ y \notin Below(y)
      BY <2>5
    <3>3. <<Below(y), U>> \in StrictSubsetOrdering(S)
      BY <2>4, <3>1, <3>2 DEF StrictSubsetOrdering
    <3> QED BY <2>3, <3>3
  <2> QED BY <2>5
<1> QED BY <1>1, <1>2

\* What the gate counts in a window is finite, and its calls are there now.
LEMMA WindowFacts ==
  ASSUME GateInv, NEW l \in Limit, NEW h \in Host
  PROVE  /\ Window(l, h) \subseteq Call /\ IsFiniteSet(Window(l, h))
         /\ Cardinality(Window(l, h)) \in Nat
         /\ \A c \in Window(l, h) : at[c] \in Nat /\ now < at[c] + windowOf[l]
<1>1. Window(l, h) = InWindow(l, h, now)
  BY DEF GateInv, Remembers
<1>2. Window(l, h) \subseteq Call
  BY <1>1 DEF InWindow, GateInv, GateTypeOK
<1> QED BY <1>1, <1>2, WindowFinite DEF GateInv, GateTypeOK, Window

\* Of at least m calls there is an m-th from the end: the latest that m calls come
\* with or after, as the calls after it would have a first one of their own.
LEMMA LastExists ==
  ASSUME NEW W, IsFiniteSet(W), \A c \in W : at[c] \in Nat,
         NEW m \in Nat \ {0}, Cardinality(W) >= m
  PROVE  \E t \in {at[c] : c \in W} :
           /\ Cardinality({c \in W : at[c] > t}) < m
           /\ Cardinality({c \in W : at[c] >= t}) >= m
<1> DEFINE After(d) == {c \in W : at[c] > at[d]}
           From(d) == {c \in W : at[c] >= at[d]}
           Enough == {d \in W : Cardinality(From(d)) >= m}
<1>1. W # {}
  BY FS_EmptySet
<1>2. Enough # {}
  <2>1. PICK d \in W : \A c \in W : at[d] <= at[c]
    BY <1>1, Extremes
  <2>2. From(d) = W
    BY <2>1
  <2> QED BY <2>2
<1>3. PICK d \in Enough : \A e \in Enough : at[d] >= at[e]
  <2>1. IsFiniteSet(Enough) /\ \A e \in Enough : at[e] \in Nat
    BY FS_Subset
  <2> HIDE DEF Enough
  <2> QED BY <1>2, <2>1, Extremes
<1>4. After(d) \subseteq W /\ IsFiniteSet(After(d)) /\ Cardinality(After(d)) \in Nat
  BY FS_Subset, FS_CardinalityType
<1>5. ASSUME Cardinality(After(d)) >= m
      PROVE  FALSE
  <2>1. PICK e \in After(d) : \A c \in After(d) : at[e] <= at[c]
    <3>1. After(d) # {} /\ \A c \in After(d) : at[c] \in Nat
      BY <1>4, <1>5, FS_EmptySet
    <3> HIDE DEF After
    <3> QED BY <1>4, <3>1, Extremes
  <2>2. e \in W /\ d \in W /\ at[e] > at[d]
    BY <2>1
  <2>3. From(e) = After(d)
    <3>1. \A c \in W : at[c] >= at[e] => at[c] > at[d]
      BY <2>2
    <3> QED BY <2>1, <3>1
  <2>4. e \in Enough
    BY <2>2, <2>3, <1>5
  <2> QED BY <1>3, <2>2, <2>4
<1>6. Cardinality(After(d)) < m /\ Cardinality(From(d)) >= m /\ d \in W
  BY <1>4, <1>5
<1> QED BY <1>6

\* Once the wait for a full limit is over, fewer calls than the limit are left in its
\* window: the max-th from the end has gone, and with it all before it.
LEMMA RoomIsEnough ==
  ASSUME GateInv, NEW h \in Host, NEW l \in Full(h)
  PROVE  /\ RoomIn(l, h) \in Nat
         /\ \A w \in Nat :
              w >= RoomIn(l, h) =>
                Cardinality({c \in Window(l, h) : now + w < at[c] + windowOf[l]}) < maxOf[l]
<1> DEFINE W == Window(l, h)
           IsLast(t) == /\ Cardinality({c \in W : at[c] > t}) < maxOf[l]
                        /\ Cardinality({c \in W : at[c] >= t}) >= maxOf[l]
           last == CHOOSE t \in {at[c] : c \in W} : IsLast(t)
<1>1. l \in Limit /\ Cardinality(W) >= maxOf[l]
  BY DEF Full
<1>2. maxOf[l] \in Nat \ {0} /\ windowOf[l] \in Nat /\ now \in Nat
  BY <1>1, GateAssumption DEF GateInv, GateTypeOK
<1>3. IsFiniteSet(W) /\ \A c \in W : at[c] \in Nat /\ now < at[c] + windowOf[l]
  BY <1>1, WindowFacts
<1>4. last \in {at[c] : c \in W} /\ IsLast(last)
  <2>1. \E t \in {at[c] : c \in W} : IsLast(t)
    <3> HIDE DEF W
    <3> QED BY <1>1, <1>2, <1>3, LastExists
  <2> HIDE DEF IsLast, W
  <2> QED BY <2>1
<1>5. RoomIn(l, h) = last + windowOf[l] - now + 1
  BY DEF RoomIn
<1> HIDE DEF last
<1>6. last \in Nat /\ now < last + windowOf[l]
  BY <1>3, <1>4
<1>7. RoomIn(l, h) \in Nat
  BY <1>2, <1>5, <1>6
<1>8. ASSUME NEW w \in Nat, w >= RoomIn(l, h)
      PROVE  Cardinality({c \in W : now + w < at[c] + windowOf[l]}) < maxOf[l]
  <2> HIDE DEF W
  <2>1. {c \in W : now + w < at[c] + windowOf[l]} \subseteq {c \in W : at[c] > last}
    <3> SUFFICES ASSUME NEW c \in W, now + w < at[c] + windowOf[l]
                 PROVE  at[c] > last
      OBVIOUS
    <3>1. at[c] \in Nat
      BY <1>3
    <3> QED BY <1>2, <1>5, <1>6, <1>8, <3>1
  <2>2. IsFiniteSet({c \in W : at[c] > last})
    BY <1>3, FS_Subset
  <2>3. /\ Cardinality({c \in W : now + w < at[c] + windowOf[l]}) <= Cardinality({c \in W : at[c] > last})
        /\ Cardinality({c \in W : now + w < at[c] + windowOf[l]}) \in Nat
        /\ Cardinality({c \in W : at[c] > last}) \in Nat
    BY <2>1, <2>2, FS_Subset, FS_CardinalityType
  <2> QED BY <1>2, <1>4, <2>3
<1> QED BY <1>7, <1>8

\* The wait is a number no shorter than the wait for any full limit.
LEMMA WaitIsLongest ==
  ASSUME GateInv, NEW h \in Host
  PROVE  /\ WaitMs(h) \in Nat
         /\ \A l \in Full(h) : WaitMs(h) >= RoomIn(l, h)
<1> DEFINE Waits == {0} \cup {RoomIn(l, h) : l \in Full(h)}
           room == [l \in Full(h) |-> RoomIn(l, h)]
<1>1. \A l \in Full(h) : room[l] = RoomIn(l, h) /\ room[l] \in Nat
  BY RoomIsEnough
<1>2. Waits \subseteq Nat
  BY <1>1
<1>3. \E x \in Waits : \A y \in Waits : x >= y
  <2>1. CASE Full(h) = {}
    BY <2>1
  <2>2. CASE Full(h) # {}
    <3>1. IsFiniteSet(Full(h))
      BY GateAssumption, FS_Subset DEF Full
    <3>2. PICK l \in Full(h) : \A k \in Full(h) : room[l] >= room[k]
      <4> HIDE DEF room
      <4> QED BY <1>1, <2>2, <3>1, Extremes
    <3>3. room[l] \in Waits /\ \A y \in Waits : room[l] >= y
      BY <1>1, <3>2
    <3> QED BY <3>3
  <2> QED BY <2>1, <2>2
<1>4. WaitMs(h) \in Waits /\ \A y \in Waits : WaitMs(h) >= y
  BY <1>3 DEF WaitMs, Max
<1> QED BY <1>2, <1>4

\* Once the wait the gate names has passed, and nobody else was let through, every
\* limit has room for the call (call-gate.ts, waitMs).
LEMMA WaitsAreEnough == GateInv => WaitIsEnough
<1> SUFFICES ASSUME GateInv, NEW h \in Host, NEW l \in Limit
             PROVE  Cardinality({c \in Window(l, h) : now + WaitMs(h) < at[c] + windowOf[l]}) < maxOf[l]
  BY DEF WaitIsEnough
<1>1. WaitMs(h) \in Nat
  BY WaitIsLongest
<1>2. CASE l \in Full(h)
  BY <1>1, <1>2, WaitIsLongest, RoomIsEnough
<1>3. CASE l \notin Full(h)
  <2> DEFINE left == {c \in Window(l, h) : now + WaitMs(h) < at[c] + windowOf[l]}
  <2>1. IsFiniteSet(Window(l, h)) /\ Cardinality(Window(l, h)) \in Nat /\ maxOf[l] \in Nat
    BY WindowFacts, GateAssumption
  <2>2. Cardinality(Window(l, h)) < maxOf[l]
    BY <1>3, <2>1 DEF Full
  <2>3. left \subseteq Window(l, h)
    OBVIOUS
  <2>4. Cardinality(left) <= Cardinality(Window(l, h)) /\ Cardinality(left) \in Nat
    BY <2>1, <2>3, FS_Subset, FS_CardinalityType
  <2> QED BY <2>1, <2>2, <2>4
<1> QED BY <1>2, <1>3
=============================================================================
