---------------------------- MODULE SegmentProofs ----------------------------
(***************************************************************************)
(* The segments of a strip: what its count and its manual list call for is  *)
(* what the tree ends up with, a push alone takes no segment away, and what *)
(* is reported lands in datapoints that exist; and the session in which the *)
(* user counts them is watched while it is open.  For any strips, any lists *)
(* a user may enter, any messages and any number of pushes and edits.       *)
(***************************************************************************)
EXTENDS SegmentTree, SegmentWizard, FiniteSetTheorems, WellFoundedInduction, TLAPS

-----------------------------------------------------------------------------
(* The largest and the smallest of a set of numbers.                       *)

\* A set of natural numbers that is not empty has a smallest one: the one with
\* the fewest members of the set below it.
LEMMA Smallest ==
  ASSUME NEW S, S \subseteq Nat, S # {}
  PROVE  \E x \in S : \A y \in S : x <= y
<1> DEFINE Under(m) == {k \in S : k < m}
           Unders   == {Under(m) : m \in S}
<1>0. \A y \in S : y \in Nat
  OBVIOUS
<1>1. Unders \subseteq FiniteSubsetsOf(Nat) /\ Unders # {}
  <2>1. ASSUME NEW m \in S
        PROVE  Under(m) \in SUBSET Nat /\ IsFiniteSet(Under(m))
    <3>1. m \in Nat
      BY <1>0
    <3>2. Under(m) \in SUBSET Nat
      OBVIOUS
    <3>3. \A k \in Under(m) : k <= m
      BY <1>0
    <3> HIDE DEF Under
    <3> QED BY <3>1, <3>2, <3>3, FS_BoundedSetOfNaturals
  <2> QED BY <2>1 DEF FiniteSubsetsOf
<1>2. PICK U \in Unders : \A V \in Unders : ~ (<<V, U>> \in StrictSubsetOrdering(Nat))
  <2> HIDE DEF Unders
  <2> QED BY <1>1, FS_StrictSubsetOrderingWellFounded, WFMin
<1>3. PICK x \in S : U = Under(x)
  OBVIOUS
<1>4. ASSUME NEW y \in S, y < x
      PROVE  FALSE
  <2>1. y \in Under(x) /\ y \notin Under(y)
    BY <1>0, <1>4
  <2>3. \A k \in Under(y) : k \in Under(x)
    BY <1>0, <1>4
  <2>2. Under(y) \in SUBSET Nat /\ Under(x) \in SUBSET Nat /\ Under(y) \in Unders
    OBVIOUS
  <2> HIDE DEF Under, Unders
  <2> QED BY <1>2, <1>3, <2>1, <2>2, <2>3 DEF StrictSubsetOrdering
<1> QED BY <1>4

\* A non-empty set of numbers has a least one.
LEMMA MinOf ==
  ASSUME NEW S, S \subseteq Nat, S # {}
  PROVE  Min(S) \in S /\ \A y \in S : Min(S) <= y
BY Smallest DEF Min

\* A bounded set of natural numbers has a largest one.
LEMMA MaxOf ==
  ASSUME NEW n \in Nat, NEW S, S \subseteq 0 .. n, S # {}
  PROVE  Max(S) \in S /\ \A y \in S : Max(S) >= y
<1>1. \E x \in S : \A y \in S : x >= y
  <2> DEFINE T == {n - y : y \in S}
  <2>1. T \subseteq Nat /\ T # {}
    <3>1. \A y \in S : n - y \in Nat
      OBVIOUS
    <3> QED BY <3>1
  <2>2. PICK t \in T : \A u \in T : t <= u
    BY <2>1, Smallest
  <2>3. PICK x \in S : t = n - x
    OBVIOUS
  <2>4. \A y \in S : x >= y
    <3> SUFFICES ASSUME NEW y \in S PROVE x >= y
      OBVIOUS
    <3>1. t <= n - y
      BY <2>2
    <3> QED BY <3>1, <2>3
  <2> QED BY <2>4
<1> QED BY <1>1 DEF Max

\* A finite set of natural numbers is bounded: a smallest unbounded subset of it
\* would be unbounded without one of its members as well.
LEMMA Bounded ==
  ASSUME NEW S, S \subseteq Nat, IsFiniteSet(S)
  PROVE  \E n \in Nat : S \subseteq 0 .. n
<1> DEFINE Bad == {U \in SUBSET S : ~ \E n \in Nat : U \subseteq 0 .. n}
<1> SUFFICES ASSUME S \in Bad PROVE FALSE
  OBVIOUS
<1>1. Bad \subseteq FiniteSubsetsOf(S) /\ Bad # {}
  BY FS_Subset DEF FiniteSubsetsOf
<1>2. PICK U \in Bad : \A V \in Bad : ~ (<<V, U>> \in StrictSubsetOrdering(S))
  <2> HIDE DEF Bad
  <2> QED BY <1>1, FS_StrictSubsetOrderingWellFounded, WFMin
<1>3. U \subseteq S /\ ~ \E n \in Nat : U \subseteq 0 .. n
  OBVIOUS
<1>4. PICK x \in U : x \in Nat
  <2>1. U # {}
    BY <1>3
  <2> QED BY <2>1, <1>3
<1>5. U \ {x} \notin Bad
  <2>1. U \ {x} \in SUBSET S /\ U \in SUBSET S /\ U \ {x} # U
    BY <1>3, <1>4
  <2> HIDE DEF Bad
  <2> QED BY <1>2, <2>1 DEF StrictSubsetOrdering
<1>6. PICK n \in Nat : U \ {x} \subseteq 0 .. n
  BY <1>3, <1>5
<1>7. PICK m \in Nat : n <= m /\ x <= m
  BY <1>4
<1>8. U \subseteq 0 .. m
  BY <1>6, <1>7, <1>4
<1> QED BY <1>3, <1>8

-----------------------------------------------------------------------------
(* The count.                                                              *)

\* What the tree is built for, of a count and a manual list.
Reach(count, list) ==
  Min({Max({Resolve(strip, count)} \cup {i + 1 : i \in list}), CountMax})

\* What the length is resolved to.
LEMMA ResolveFacts ==
  ASSUME NEW s, NEW count
  PROVE  /\ Resolve(s, count) \in 0 .. CountMax
         /\ Plausible(s.quirk) => Resolve(s, count) = s.quirk
         /\ ~Plausible(s.quirk) /\ Plausible(count) => Resolve(s, count) = count
BY SegmentAssumption DEF Resolve, Plausible

\* The tree reaches over every segment of the count, and no further than the
\* protocol does.
LEMMA ReachFacts ==
  ASSUME NEW count, NEW list, list \subseteq Indices
  PROVE  /\ Reach(count, list) \in 0 .. CountMax
         /\ Resolve(strip, count) <= Reach(count, list)
<1> DEFINE r == Resolve(strip, count)
           ends == {r} \cup {i + 1 : i \in list}
           m == Max(ends)
<1>1. CountMax \in Nat /\ r \in 0 .. CountMax
  BY SegmentAssumption, ResolveFacts
<1>2. ends \subseteq 0 .. CountMax
  BY <1>1 DEF Indices
<1>3. r \in ends
  OBVIOUS
<1>4. m \in 0 .. CountMax /\ m >= r
  <2> HIDE DEF ends
  <2> QED BY <1>1, <1>2, <1>3, MaxOf
<1>5. Reach(count, list) = Min({m, CountMax})
  BY DEF Reach
<1> HIDE DEF r, m
<1>6. Min({m, CountMax}) \in {m, CountMax}
  <2>1. {m, CountMax} \subseteq Nat /\ {m, CountMax} # {}
    BY <1>1, <1>4
  <2> QED BY <2>1, MinOf
<1>7. Reach(count, list) \in 0 .. CountMax /\ r <= Reach(count, list)
  BY <1>1, <1>4, <1>5, <1>6
<1> QED BY <1>7 DEF r

\* The two operators the model is written with.
LEMMA EffectiveIsReach == Effective = Reach(learned, manual) /\ Current = Resolve(strip, learned)
BY DEF Effective, Reach, Current

\* A build that follows a change is called with the count after it.
LEMMA BuildAfterFacts ==
  ASSUME NEW count, NEW list, NEW keeps
  PROVE  BuildAfter(count, list, keeps) =
           [chained |-> FALSE, keeps |-> keeps, phase |-> "begin",
            count |-> Reach(count, list), valid |-> {}, todo |-> {}]
<1>1. BuildAfter(count, list, keeps) =
        [Build(FALSE, keeps) EXCEPT !.count = Reach(count, list)]
  BY DEF BuildAfter, Reach
<1> QED BY <1>1 DEF Build

\* The valid indices are ones the protocol can address.
LEMMA ValidFacts ==
  ASSUME NEW list, list \subseteq Indices, NEW count \in 0 .. CountMax
  PROVE  ValidIndices(list, count) \subseteq Indices
<1>1. CountMax \in Nat
  BY SegmentAssumption
<1> QED BY <1>1 DEF ValidIndices, Indices

-----------------------------------------------------------------------------
(* The invariant.                                                          *)

\* A build under way.
BuildType ==
  [chained : BOOLEAN, keeps : BOOLEAN, phase : {"begin", "create", "delete"},
   count : 0 .. CountMax, valid : SUBSET Indices, todo : SUBSET Indices]

\* The forms of the variables.
SegShape ==
  /\ strip \in Strips
  /\ mask \in 0 .. CountMax /\ learned \in 0 .. CountMax /\ deferred \in 0 .. CountMax
  /\ origin \in {"none", "push", "wizard", "cache"}
  /\ manual \subseteq Indices /\ tree \subseteq Indices /\ echo.into \subseteq Indices
  /\ saved \in [learned : 0 .. CountMax, manual : SUBSET Indices]
  /\ overlapped \in BOOLEAN

\* What the device calls for.
Wanted == ValidIndices(manual, Effective)

\* How far a build that runs alone has come.
Serves(b) ==
  /\ b.phase = "begin" => b.count = Effective
  /\ b.phase = "create" => b.valid = Wanted /\ Wanted \subseteq tree \cup b.todo
  /\ b.phase = "delete" => /\ b.valid = Wanted /\ Wanted \subseteq tree
                           /\ tree \ Wanted \subseteq b.todo
                           /\ b.todo \cap Wanted = {}

\* One build of a device list at a time; one that runs alone has come as far as it says.
BuildsFit ==
  /\ builds \subseteq BuildType
  /\ \A b, c \in builds : b.chained /\ c.chained => b = c
  /\ ~overlapped => /\ \A b, c \in builds : b = c
                    /\ \A b \in builds : Serves(b)

\* The inductive invariant.
SegInv ==
  /\ SegShape /\ BuildsFit
  /\ TreeMatchesDevice /\ EchoLandsInTree /\ UnsavedWhileBuilding

-----------------------------------------------------------------------------
\* The counts are ones the protocol can address.
CountsFit ==
  /\ Current \in 0 .. CountMax /\ Effective \in 0 .. CountMax
  /\ Current <= Effective /\ Wanted \subseteq Indices

\* They are in any such state.
LEMMA CountFacts == SegShape => CountsFit
<1> SUFFICES ASSUME SegShape PROVE CountsFit
  OBVIOUS
<1>1. manual \subseteq Indices
  BY DEF SegShape
<1>2. Current \in 0 .. CountMax /\ Effective \in 0 .. CountMax /\ Current <= Effective
  BY <1>1, EffectiveIsReach, ReachFacts, ResolveFacts
<1> QED BY <1>1, <1>2, ValidFacts DEF Wanted, CountsFit

\* The tree of the start.
LEMMA InitSeg == SegInit => SegInv
<1> SUFFICES ASSUME SegInit PROVE SegInv
  OBVIOUS
<1>1. SegShape
  <2>1. 0 \in 0 .. CountMax
    BY SegmentAssumption
  <2>2. echo.into = {} /\ saved \in [learned : 0 .. CountMax, manual : SUBSET Indices]
    BY <2>1 DEF SegInit, NoEcho
  <2> QED BY <2>1, <2>2 DEF SegInit, SegShape
<1>2. Effective \in 0 .. CountMax
  BY <1>1, CountFacts DEF CountsFit
<1>3. BuildsFit
  BY <1>2 DEF SegInit, BuildsFit, BuildType, Build, Serves
<1>4. TreeMatchesDevice /\ EchoLandsInTree /\ UnsavedWhileBuilding
  BY DEF SegInit, TreeMatchesDevice, EchoLandsInTree, UnsavedWhileBuilding, Build, Saved, NoEcho
<1> QED BY <1>1, <1>3, <1>4 DEF SegInv

\* A build of the count after the change is started: alone, it will bring the
\* tree to what the device calls for.
LEMMA StartKeeps ==
  ASSUME SegInv, SegShape', NEW b \in BuildType, Started(b),
         b.phase = "begin", b.count = Effective',
         \A c \in builds : b.chained => ~c.chained
  PROVE  BuildsFit' /\ builds' # {}
<1> USE DEF SegInv
<1>1. builds' = builds \cup {b} /\ overlapped' = (overlapped \/ builds # {})
  BY DEF Started
<1>2. builds' \subseteq BuildType
  BY <1>1 DEF BuildsFit
<1>3. \A c, d \in builds' : c.chained /\ d.chained => c = d
  BY <1>1 DEF BuildsFit
<1>4. ASSUME ~overlapped'
      PROVE  (\A c, d \in builds' : c = d) /\ \A c \in builds' : Serves(c)'
  <2>1. builds' = {b}
    BY <1>1, <1>4
  <2> QED BY <2>1 DEF Serves
<1> QED BY <1>1, <1>2, <1>3, <1>4 DEF BuildsFit

\* The change is followed by its build, and what it did not save the build will.
LEMMA ChangeKeeps ==
  ASSUME SegInv, SegShape', NEW keeps \in BOOLEAN,
         Started(BuildAfter(learned', manual', keeps)),
         strip' = strip,
         keeps \/ saved' = [learned |-> learned', manual |-> manual']
  PROVE  SegInv'
<1> DEFINE b == BuildAfter(learned', manual', keeps)
<1>1. b = [chained |-> FALSE, keeps |-> keeps, phase |-> "begin",
           count |-> Reach(learned', manual'), valid |-> {}, todo |-> {}]
  BY BuildAfterFacts
<1>2. Reach(learned', manual') = Effective'
  BY DEF Effective, Reach, Current
<1>3. Effective' \in 0 .. CountMax
  <2>1. SegShape' => CountsFit'
    BY CountFacts, PTL
  <2> QED BY <2>1 DEF CountsFit
<1>4. b \in BuildType
  BY <1>1, <1>2, <1>3 DEF BuildType
<1>5. BuildsFit' /\ builds' # {}
  <2>1. b.phase = "begin" /\ b.count = Effective' /\ ~b.chained /\ Started(b)
    BY <1>1, <1>2
  <2> HIDE DEF b
  <2> QED BY <1>4, <2>1, StartKeeps
<1>6. TreeMatchesDevice' /\ EchoLandsInTree'
  BY <1>5 DEF TreeMatchesDevice, EchoLandsInTree
<1>7. UnsavedWhileBuilding'
  <2>1. b \in builds' /\ b.keeps = keeps
    BY <1>1 DEF Started
  <2> QED BY <2>1 DEF UnsavedWhileBuilding, Saved
<1> QED BY <1>5, <1>6, <1>7 DEF SegInv

\* A step that touches no build, and leaves what the device calls for.
LEMMA QuietKeeps ==
  ASSUME SegInv, SegShape', Effective' = Effective,
         UNCHANGED <<manual, tree, builds, overlapped>>,
         echo'.by \in {"push", "user"} => echo'.into \subseteq Wanted,
         saved' = [learned |-> learned', manual |-> manual'] \/ UNCHANGED <<saved, learned>>
  PROVE  SegInv'
<1> USE DEF SegInv
<1>1. Wanted' = Wanted
  BY DEF Wanted, ValidIndices
<1>2. BuildsFit'
  BY <1>1 DEF BuildsFit, Serves
<1>3. TreeMatchesDevice' /\ TreeMatchesDevice
  BY DEF TreeMatchesDevice, ValidIndices
<1>4. EchoLandsInTree'
  BY <1>3 DEF EchoLandsInTree, TreeMatchesDevice, Wanted
<1>5. UnsavedWhileBuilding'
  BY DEF UnsavedWhileBuilding, Saved
<1> QED BY <1>2, <1>3, <1>4, <1>5 DEF SegInv

-----------------------------------------------------------------------------
(* The steps of a build.                                                   *)

\* What a build leaves alone.
BuildLeaves ==
  /\ echo' = NoEcho
  /\ UNCHANGED <<strip, mask, learned, origin, manual, deferred, overlapped>>

\* What the tree should hold changes only with what it is made of.
LEMMA WantedStays ==
  ASSUME BuildLeaves
  PROVE  Effective' = Effective /\ Wanted' = Wanted /\ Current' = Current
BY DEF BuildLeaves, Effective, Current, Wanted, ValidIndices

\* A build moves on.
LEMMA MoveKeeps ==
  ASSUME SegInv, BuildLeaves, UNCHANGED saved, tree' \subseteq Indices,
         NEW b \in builds, NEW n \in BuildType, Moves(b, n),
         n.chained = b.chained, n.keeps = b.keeps,
         ~overlapped => Serves(n)'
  PROVE  SegInv'
<1> USE DEF SegInv
<1>1. SegShape'
  BY DEF SegShape, BuildLeaves, NoEcho
<1>2. builds' = (builds \ {b}) \cup {n}
  BY DEF Moves
<1>3. BuildsFit'
  <2>1. builds' \subseteq BuildType
    BY <1>2 DEF BuildsFit
  <2>2. \A c, d \in builds' : c.chained /\ d.chained => c = d
    BY <1>2 DEF BuildsFit
  <2>3. ASSUME ~overlapped
        PROVE  (\A c, d \in builds' : c = d) /\ \A c \in builds' : Serves(c)'
    <3>1. builds' = {n}
      BY <1>2, <2>3 DEF BuildsFit
    <3> QED BY <3>1, <2>3
  <2> QED BY <2>1, <2>2, <2>3 DEF BuildsFit, BuildLeaves
<1>4. TreeMatchesDevice' /\ EchoLandsInTree'
  BY <1>2 DEF TreeMatchesDevice, EchoLandsInTree
<1>5. UnsavedWhileBuilding'
  <2>1. Saved' = Saved
    BY DEF Saved, BuildLeaves
  <2>2. ASSUME saved # Saved
        PROVE  \E c \in builds' : c.keeps
    <3>1. PICK c \in builds : c.keeps
      BY <2>2 DEF UnsavedWhileBuilding
    <3>2. CASE c = b
      BY <3>1, <3>2, <1>2
    <3>3. CASE c # b
      BY <3>1, <3>3, <1>2
    <3> QED BY <3>2, <3>3
  <2> QED BY <2>1, <2>2 DEF UnsavedWhileBuilding
<1> QED BY <1>1, <1>3, <1>4, <1>5

\* A build that runs alone leaves the tree as the device calls for when it ends.
LEMMA FinishKeeps ==
  ASSUME SegInv, BuildLeaves, NEW b \in builds, FinishBuild(b)
  PROVE  SegInv'
<1> USE DEF SegInv
<1>1. builds' = builds \ {b} /\ tree' = tree /\ b.phase = "delete" /\ b.todo = {}
  BY DEF FinishBuild
<1>2. Effective' = Effective /\ Wanted' = Wanted
  BY WantedStays
<1>3. Saved \in [learned : 0 .. CountMax, manual : SUBSET Indices] /\ Saved' = Saved
  BY DEF SegShape, Saved, BuildLeaves
<1>4. saved' = IF b.keeps THEN Saved ELSE saved
  BY DEF FinishBuild
<1>5. SegShape'
  BY <1>1, <1>3, <1>4 DEF SegShape, BuildLeaves, NoEcho
<1>6. BuildsFit'
  <2>1. ~overlapped => builds' = {}
    BY <1>1 DEF BuildsFit
  <2> QED BY <1>1, <2>1 DEF BuildsFit, BuildLeaves
<1>7. TreeMatchesDevice'
  <2>1. ~overlapped => Serves(b)
    BY DEF BuildsFit
  <2>2. ~overlapped => tree = Wanted
    BY <1>1, <2>1 DEF Serves
  <2> QED BY <1>1, <1>2, <2>2 DEF TreeMatchesDevice, Wanted, BuildLeaves
<1>8. EchoLandsInTree'
  BY DEF EchoLandsInTree, BuildLeaves, NoEcho
<1>9. UnsavedWhileBuilding'
  <2>1. ASSUME saved' # Saved'
        PROVE  \E c \in builds' : c.keeps
    <3>1. ~b.keeps /\ saved # Saved
      BY <2>1, <1>3, <1>4
    <3>2. PICK c \in builds : c.keeps
      BY <3>1 DEF UnsavedWhileBuilding
    <3> QED BY <3>1, <3>2, <1>1
  <2> QED BY <2>1 DEF UnsavedWhileBuilding
<1> QED BY <1>5, <1>6, <1>7, <1>8, <1>9

\* A build's own steps.
LEMMA BuildKeeps ==
  ASSUME SegInv, BuildStep
  PROVE  SegInv'
<1> USE DEF SegInv
<1>0. BuildLeaves
  BY DEF BuildStep, BuildLeaves
<1>1. PICK b \in builds : \/ BeginSegments(b) \/ CreateNext(b) \/ ListExcess(b)
                          \/ DeleteNext(b) \/ FinishBuild(b)
  BY DEF BuildStep
<1>2. /\ b \in BuildType /\ (~overlapped => Serves(b))
      /\ Wanted' = Wanted /\ manual' = manual /\ tree \subseteq Indices /\ manual \subseteq Indices
  BY <1>0, WantedStays DEF BuildsFit, BuildLeaves, SegShape
<1>3. CASE BeginSegments(b)
  <2>1. PICK v : v = ValidIndices(manual, b.count)
    OBVIOUS
  <2>2. PICK n : n = [b EXCEPT !.phase = "create", !.valid = v, !.todo = v]
    OBVIOUS
  <2>3. Moves(b, n) /\ tree' = tree /\ saved' = saved /\ b.phase = "begin"
    BY <1>3, <2>1, <2>2 DEF BeginSegments
  <2>4. v \subseteq Indices
    BY <1>2, <2>1, ValidFacts DEF BuildType
  <2>5. /\ n \in BuildType /\ n.chained = b.chained /\ n.keeps = b.keeps
        /\ n.phase = "create" /\ n.valid = v /\ n.todo = v
    BY <1>2, <2>2, <2>4 DEF BuildType
  <2>6. ASSUME ~overlapped PROVE Serves(n)'
    <3>1. v = Wanted
      BY <1>2, <2>1, <2>3, <2>6 DEF Serves, Wanted
    <3> QED BY <1>2, <2>5, <3>1 DEF Serves
  <2> QED BY <1>0, <1>2, <2>3, <2>5, <2>6, MoveKeeps
<1>4. CASE CreateNext(b)
  <2> DEFINE i == Min(b.todo)
             n == [b EXCEPT !.todo = @ \ {i}]
  <2>1. Moves(b, n) /\ saved' = saved /\ b.phase = "create" /\ b.todo # {} /\ tree' = tree \cup {i}
    BY <1>4 DEF CreateNext
  <2>2. i \in b.todo /\ b.todo \subseteq Indices
    <3>1. b.todo \subseteq Indices /\ Indices \subseteq Nat
      BY <1>2, SegmentAssumption DEF BuildType, Indices
    <3> QED BY <2>1, <3>1, MinOf
  <2> HIDE DEF i
  <2>3. n \in BuildType /\ n.chained = b.chained /\ n.keeps = b.keeps
    BY <1>2, <2>2 DEF BuildType
  <2>4. ASSUME ~overlapped PROVE Serves(n)'
    <3>2. n.phase = "create" /\ n.valid = b.valid /\ n.todo = b.todo \ {i}
      BY <1>2, <2>1 DEF BuildType
    <3>3. b.valid = Wanted /\ Wanted \subseteq tree \cup b.todo
      BY <1>2, <2>1, <2>4 DEF Serves
    <3> HIDE DEF n
    <3> QED BY <1>2, <2>1, <3>2, <3>3 DEF Serves
  <2>5. tree' \subseteq Indices
    BY <1>2, <2>1, <2>2
  <2> HIDE DEF n
  <2> QED BY <1>0, <2>1, <2>3, <2>4, <2>5, MoveKeeps
<1>5. CASE ListExcess(b)
  <2>1. PICK n : n = [b EXCEPT !.phase = "delete", !.todo = tree \ b.valid]
    OBVIOUS
  <2>2. Moves(b, n) /\ tree' = tree /\ saved' = saved /\ b.phase = "create" /\ b.todo = {}
    BY <1>5, <2>1 DEF ListExcess
  <2>3. /\ n \in BuildType /\ n.chained = b.chained /\ n.keeps = b.keeps
        /\ n.phase = "delete" /\ n.valid = b.valid /\ n.todo = tree \ b.valid
    BY <1>2, <2>1 DEF BuildType
  <2>4. ASSUME ~overlapped PROVE Serves(n)'
    <3>1. b.valid = Wanted /\ Wanted \subseteq tree
      BY <1>2, <2>2, <2>4 DEF Serves
    <3> QED BY <1>2, <2>2, <2>3, <3>1 DEF Serves
  <2> QED BY <1>0, <1>2, <2>2, <2>3, <2>4, MoveKeeps
<1>6. CASE DeleteNext(b)
  <2> DEFINE i == Min(b.todo)
             n == [b EXCEPT !.todo = @ \ {i}]
  <2>1. Moves(b, n) /\ saved' = saved /\ b.phase = "delete" /\ b.todo # {} /\ tree' = tree \ {i}
    BY <1>6 DEF DeleteNext
  <2>2. i \in b.todo
    <3>1. b.todo \subseteq Nat
      BY <1>2, SegmentAssumption DEF BuildType, Indices
    <3> QED BY <2>1, <3>1, MinOf
  <2> HIDE DEF i
  <2>3. n \in BuildType /\ n.chained = b.chained /\ n.keeps = b.keeps
    BY <1>2 DEF BuildType
  <2>4. ASSUME ~overlapped PROVE Serves(n)'
    <3>2. n.phase = "delete" /\ n.valid = b.valid /\ n.todo = b.todo \ {i}
      BY <1>2, <2>1 DEF BuildType
    <3>3. /\ b.valid = Wanted /\ Wanted \subseteq tree
          /\ tree \ Wanted \subseteq b.todo /\ b.todo \cap Wanted = {}
      BY <1>2, <2>1, <2>4 DEF Serves
    <3> HIDE DEF n
    <3> QED BY <1>2, <2>1, <2>2, <3>2, <3>3 DEF Serves
  <2>5. tree' \subseteq Indices
    BY <1>2, <2>1
  <2> HIDE DEF n
  <2> QED BY <1>0, <2>1, <2>3, <2>4, <2>5, MoveKeeps
<1>7. CASE FinishBuild(b)
  BY <1>0, <1>7, FinishKeeps
<1> QED BY <1>1, <1>3, <1>4, <1>5, <1>6, <1>7

-----------------------------------------------------------------------------
(* The push.                                                               *)

\* How far a push reaches.
Seen(parsed) == Max({0} \cup {i + 1 : i \in parsed.indices})

\* The layout the tree is built from.
LEMMA LayoutFacts ==
  ASSUME NEW s \in Strips
  PROVE  /\ s.length \in 1 .. CountMax /\ s.length \in Nat /\ CountMax \in Nat
         /\ s.layout \in {3, 4}
         /\ Ceil(s.length, s.layout) \in Nat
         /\ 1 <= Ceil(s.length, s.layout)
         /\ (Ceil(s.length, s.layout) - 1) * s.layout < s.length
         /\ s.length <= Ceil(s.length, s.layout) * s.layout
<1>1. s.length \in 1 .. CountMax /\ s.layout \in {3, 4} /\ CountMax \in Nat
  BY SegmentAssumption
<1>2. CASE s.layout = 3
  BY <1>1, <1>2 DEF Ceil
<1>3. CASE s.layout = 4
  BY <1>1, <1>3 DEF Ceil
<1> QED BY <1>1, <1>2, <1>3

\* The number of a slot: none is lost to a sign, and packets come one after another.
LEMMA SlotNumber ==
  ASSUME NEW per \in {3, 4}, NEW n \in Nat, 1 <= n, NEW k \in 1 .. per, NEW top \in Nat, n <= top
  PROVE  /\ (n - 1) * per + (k - 1) \in Nat
         /\ (n - 1) * per + (k - 1) + 1 <= 4 * top
<1>1. CASE per = 3
  BY <1>1
<1>2. CASE per = 4
  BY <1>2
<1> QED BY <1>1, <1>2

\* What a push is read as reaches over every segment it names.
LEMMA ReadingFacts ==
  ASSUME NEW s \in Strips, NEW parsed \in Readings[s]
  PROVE  /\ parsed.indices \subseteq Nat
         /\ Seen(parsed) \in Nat
         /\ \A i \in parsed.indices : i < Seen(parsed)
<1>1. PICK push \in PushesOf(s) : parsed = Parsed(s, push)
  BY DEF Readings
<1> DEFINE per == SlotsPerPacket(s, push)
           top == Ceil(s.length, s.layout)
<1>2. per \in {3, 4} /\ top \in Nat
  BY LayoutFacts DEF SlotsPerPacket
<1>3. push.packets \subseteq 1 .. top
  BY DEF PushesOf, PacketsOf
<1>4. \A i \in parsed.indices : \E p \in push.packets \X (1 .. per) :
        i = (p[1] - 1) * per + (p[2] - 1)
  BY <1>1 DEF Parsed
<1> HIDE DEF per, top
<1>5. ASSUME NEW i \in parsed.indices
      PROVE  i \in Nat /\ i + 1 <= 4 * top
  <2>1. PICK n \in push.packets, k \in 1 .. per : i = (n - 1) * per + (k - 1)
    BY <1>4
  <2>2. n \in Nat /\ 1 <= n /\ n <= top
    BY <1>2, <1>3
  <2> QED BY <1>2, <2>1, <2>2, SlotNumber
<1> DEFINE ends == {0} \cup {i + 1 : i \in parsed.indices}
<1>6. PICK t \in Nat : ends \subseteq 0 .. t /\ ends # {}
  <2>1. 4 * top \in Nat /\ ends \subseteq 0 .. 4 * top /\ ends # {}
    BY <1>2, <1>5
  <2> QED BY <2>1
<1>7. Seen(parsed) = Max(ends)
  BY DEF Seen
<1>8. \A i \in parsed.indices : i + 1 \in ends
  OBVIOUS
<1> HIDE DEF ends
<1>9. Max(ends) \in ends /\ \A y \in ends : Max(ends) >= y
  BY <1>6, MaxOf
<1>10. Seen(parsed) \in Nat
  <2>1. Max(ends) \in 0 .. t
    BY <1>6, <1>9
  <2> QED BY <2>1, <1>7
<1>11. ASSUME NEW i \in parsed.indices PROVE i < Seen(parsed)
  <2>1. i + 1 \in ends /\ i \in Nat
    BY <1>5, <1>8
  <2>2. Seen(parsed) >= i + 1
    BY <2>1, <1>7, <1>9
  <2> QED BY <2>1, <2>2, <1>10
<1>12. parsed.indices \subseteq Nat
  BY <1>5
<1> QED BY <1>10, <1>11, <1>12

-----------------------------------------------------------------------------
(* What the user, the wizard and the app do.                               *)

\* The strip stays the strip, and the rest of the shape is what a step wrote.
LEMMA PushKeeps ==
  ASSUME SegInv, NEW parsed \in Readings[strip], ReceivePush(parsed)
  PROVE  SegInv'
<1> USE DEF SegInv
<1> DEFINE seen == Seen(parsed)
<1>1. /\ SegShape /\ strip \in Strips /\ strip' = strip /\ manual' = manual /\ tree' = tree
      /\ mask' = mask
  BY DEF SegShape, ReceivePush
<1>2. parsed.indices \subseteq Nat /\ seen \in Nat /\ \A i \in parsed.indices : i < seen
  BY <1>1, ReadingFacts
<1>3. Plausible(seen) /\ seen \in 0 .. CountMax
  BY <1>2 DEF ReceivePush, Seen, Plausible
<1>4. CountsFit /\ CountMax \in Nat
  BY <1>1, CountFacts, SegmentAssumption
<1>5. deferred' \in 0 .. CountMax
  BY <1>1, <1>3 DEF ReceivePush, Seen, SegShape
<1>6. \/ Adopt(seen, parsed.hidden)
      \/ /\ \/ ~QuirkLocked /\ seen = Current /\ learned' = seen /\ origin' = "push"
               /\ saved' = [learned |-> seen, manual |-> manual]
            \/ UNCHANGED <<learned, origin, saved>>
         /\ echo' = [by |-> "push",
                     into |-> EchoInto(IF manual # {} THEN parsed.indices \cap manual
                                                      ELSE parsed.indices), hidden |-> {}]
         /\ UNCHANGED <<builds, overlapped>>
  BY DEF ReceivePush, Seen
<1> HIDE DEF seen
<1>7. CASE Adopt(seen, parsed.hidden)
  <2>1. /\ learned' = seen /\ origin' = "push" /\ echo'.into = {}
        /\ saved' = [learned |-> learned', manual |-> manual']
        /\ Started(BuildAfter(learned', manual', FALSE))
    BY <1>1, <1>7 DEF Adopt, NoEcho
  <2>2. saved' \in [learned : 0 .. CountMax, manual : SUBSET Indices]
    BY <1>1, <1>3, <2>1 DEF SegShape
  <2>3. overlapped' \in BOOLEAN /\ echo'.into = {}
    BY <1>1, <2>1 DEF Started, NoEcho, SegShape
  <2>4. SegShape'
    BY <1>1, <1>3, <1>5, <2>1, <2>2, <2>3 DEF SegShape
  <2> QED BY <1>1, <2>1, <2>4, ChangeKeeps
<1>8. CASE /\ \/ ~QuirkLocked /\ seen = Current /\ learned' = seen /\ origin' = "push"
                 /\ saved' = [learned |-> seen, manual |-> manual]
              \/ UNCHANGED <<learned, origin, saved>>
           /\ echo' = [by |-> "push",
                       into |-> EchoInto(IF manual # {} THEN parsed.indices \cap manual
                                                        ELSE parsed.indices), hidden |-> {}]
           /\ UNCHANGED <<builds, overlapped>>
  <2>1. Current' = Current
    <3>1. CASE ~QuirkLocked /\ seen = Current /\ learned' = seen
      BY <1>1, <1>3, <3>1, ResolveFacts DEF QuirkLocked, Current
    <3>2. CASE learned' = learned
      BY <1>1, <3>2 DEF Current
    <3> QED BY <1>8, <3>1, <3>2
  <2>2. Effective' = Effective
    BY <1>1, <2>1 DEF Effective
  <2>3. Resolve(strip, learned') = Current
    BY <1>1, <2>1 DEF Current
  <2>4. echo'.into \subseteq Wanted
    <3>1. CASE manual # {}
      BY <1>8, <3>1 DEF EchoInto, Wanted, ValidIndices
    <3>2. CASE manual = {}
      <4>1. echo'.into = {i \in parsed.indices : i < Current}
        BY <1>8, <2>3, <3>2 DEF EchoInto
      <4>2. Wanted = 0 .. Effective - 1
        BY <3>2 DEF Wanted, ValidIndices
      <4> QED BY <4>1, <4>2, <1>2, <1>4 DEF CountsFit
    <3> QED BY <3>1, <3>2
  <2>5. saved' \in [learned : 0 .. CountMax, manual : SUBSET Indices]
    BY <1>1, <1>3, <1>8 DEF SegShape
  <2>6. SegShape'
    <3>1. learned' \in 0 .. CountMax /\ origin' \in {"none", "push", "wizard", "cache"}
      BY <1>1, <1>3, <1>8 DEF SegShape
    <3>2. echo'.into \subseteq Indices /\ overlapped' \in BOOLEAN
      BY <1>1, <1>4, <1>8, <2>4 DEF CountsFit, SegShape
    <3> QED BY <1>1, <1>3, <1>5, <2>5, <3>1, <3>2 DEF SegShape
  <2>7. saved' = [learned |-> learned', manual |-> manual'] \/ UNCHANGED <<saved, learned>>
    BY <1>1, <1>8
  <2> QED BY <1>1, <1>8, <2>2, <2>4, <2>6, <2>7, QuietKeeps
<1> QED BY <1>6, <1>7, <1>8

\* A count that waited for the masks is taken over, or nothing changes.
LEMMA MasksKeep ==
  ASSUME SegInv, LoadMasks
  PROVE  SegInv'
<1> USE DEF SegInv
<1>1. /\ SegShape /\ strip' = strip /\ manual' = manual /\ tree' = tree /\ deferred' = 0
      /\ strip \in Strips
  BY DEF SegShape, LoadMasks
<1>2. mask' \in 0 .. CountMax /\ CountMax \in Nat
  BY <1>1, LayoutFacts DEF LoadMasks
<1>3. CASE Adopt(deferred, {})
  <2>1. /\ learned' = deferred /\ origin' = "push" /\ echo'.into = {}
        /\ saved' = [learned |-> learned', manual |-> manual']
        /\ Started(BuildAfter(learned', manual', FALSE))
    BY <1>1, <1>3 DEF Adopt, NoEcho
  <2>2. saved' \in [learned : 0 .. CountMax, manual : SUBSET Indices]
    BY <1>1, <2>1 DEF SegShape
  <2>3. overlapped' \in BOOLEAN /\ echo'.into = {}
    BY <1>1, <2>1 DEF Started, NoEcho, SegShape
  <2>4. SegShape'
    BY <1>1, <1>2, <2>1, <2>2, <2>3 DEF SegShape
  <2> QED BY <1>1, <2>1, <2>4, ChangeKeeps
<1>4. CASE echo' = NoEcho /\ UNCHANGED <<learned, origin, saved, builds, overlapped>>
  <2>1. Effective' = Effective
    BY <1>1, <1>4 DEF Effective, Current
  <2>2. SegShape' /\ echo'.by \notin {"push", "user"}
    BY <1>1, <1>2, <1>4 DEF SegShape, NoEcho
  <2> QED BY <1>1, <1>4, <2>1, <2>2, QuietKeeps
<1> QED BY <1>3, <1>4 DEF LoadMasks

\* The user's list.
LEMMA ManualKeeps ==
  ASSUME SegInv, NEW list \in SegmentLists \cup {{}}, SetManual(list)
  PROVE  SegInv'
<1> USE DEF SegInv
<1> DEFINE bound    == IF Current > 0 THEN Current ELSE CountMax
           accepted == IF \A i \in list : i < bound THEN list ELSE {}
<1>1. /\ SegShape /\ CountsFit /\ CountMax \in Nat /\ list \subseteq Nat
      /\ strip' = strip /\ tree' = tree /\ learned' = learned /\ saved' = saved
  BY CountFacts, SegmentAssumption DEF SegShape, SetManual
<1>2. manual' = accepted /\ Started(BuildAfter(learned, accepted, TRUE)) /\ echo' = NoEcho
  BY DEF SetManual
<1>3. accepted \subseteq Indices
  <2>1. bound \in 0 .. CountMax
    BY <1>1 DEF CountsFit
  <2> HIDE DEF bound
  <2> QED BY <1>1, <2>1 DEF Indices
<1>4. overlapped' \in BOOLEAN /\ echo'.into = {}
  BY <1>1, <1>2 DEF Started, NoEcho, SegShape
<1>5. SegShape'
  BY <1>1, <1>2, <1>3, <1>4 DEF SegShape, SetManual
<1> HIDE DEF accepted
<1> QED BY <1>1, <1>2, <1>5, ChangeKeeps

\* The list the wizard found.
LEMMA WizardKeeps ==
  ASSUME SegInv, NEW bright \in SegmentLists, ApplyWizardResult(bright)
  PROVE  SegInv'
<1> USE DEF SegInv
<1> DEFINE count == Max(bright) + 1
<1>1. /\ SegShape /\ CountMax \in Nat /\ bright \subseteq Nat /\ IsFiniteSet(bright) /\ bright # {}
      /\ strip' = strip /\ tree' = tree /\ saved' = saved /\ mask' = mask /\ deferred' = deferred
  BY SegmentAssumption DEF ApplyWizardResult
<1>2. /\ learned' = count /\ origin' = "wizard" /\ Plausible(count) /\ echo' = NoEcho
      /\ manual' \in {bright, {}} /\ Started(BuildAfter(count, manual', TRUE))
  BY DEF ApplyWizardResult
<1>3. PICK n \in Nat : bright \subseteq 0 .. n
  BY <1>1, Bounded
<1>4. Max(bright) \in bright /\ \A i \in bright : Max(bright) >= i
  BY <1>1, <1>3, MaxOf
<1>5. Max(bright) \in Indices /\ count \in 0 .. CountMax
  <2>1. Max(bright) \in Nat
    BY <1>1, <1>4
  <2>2. Max(bright) + 1 \in 1 .. CountMax
    BY <1>2 DEF Plausible
  <2> QED BY <1>1, <2>1, <2>2 DEF Indices
<1>6. bright \subseteq Indices
  BY <1>1, <1>4, <1>5 DEF Indices
<1>7. overlapped' \in BOOLEAN /\ echo'.into = {}
  BY <1>1, <1>2 DEF Started, NoEcho, SegShape
<1> HIDE DEF count
<1>8. SegShape'
  BY <1>1, <1>2, <1>5, <1>6, <1>7 DEF SegShape
<1> QED BY <1>1, <1>2, <1>8, ChangeKeeps

\* What a batch is echoed into is on the strip, when the user sent it.
LEMMA BatchKeeps ==
  ASSUME SegInv, NEW by \in {"user", "adapter"}, NEW batch, SendBatch(by, batch),
         batch \subseteq Indices, by = "user" => batch \subseteq ValidIndices(manual, Current)
  PROVE  SegInv'
<1> USE DEF SegInv
<1>1. /\ SegShape /\ CountsFit /\ CountMax \in Nat
      /\ UNCHANGED <<strip, learned, manual, saved, tree, builds, overlapped>>
  BY CountFacts, SegmentAssumption DEF SendBatch
<1>2. echo'.by = by /\ echo'.into = {i \in batch : i < Current}
  BY DEF SendBatch
<1>3. SegShape' /\ Effective' = Effective
  BY <1>1, <1>2 DEF SegShape, SendBatch, Effective, Current
<1>4. by = "user" => echo'.into \subseteq Wanted
  <2> SUFFICES ASSUME by = "user", NEW i \in echo'.into PROVE i \in Wanted
    OBVIOUS
  <2>1. i \in ValidIndices(manual, Current) /\ i < Current
    BY <1>2
  <2> QED BY <1>1, <2>1 DEF ValidIndices, Wanted, CountsFit
<1>5. echo'.by \in {"push", "user"} => echo'.into \subseteq Wanted
  BY <1>2, <1>4
<1> QED BY <1>1, <1>3, <1>5, QuietKeeps

\* The list of the account.
LEMMA ListKeeps ==
  ASSUME SegInv, CloudListBuild
  PROVE  SegInv'
<1> USE DEF SegInv
<1>1. PICK b : b = Build(TRUE, FALSE)
  OBVIOUS
<1>2. /\ SegShape /\ CountsFit /\ Started(b) /\ echo' = NoEcho /\ \A c \in builds : ~c.chained
      /\ UNCHANGED <<strip, mask, learned, origin, manual, deferred, saved, tree>>
  BY <1>1, CountFacts DEF CloudListBuild
<1>3. Effective' = Effective /\ SegShape'
  BY <1>2 DEF Effective, Current, SegShape, Started, NoEcho
<1>4. b \in BuildType /\ b.phase = "begin" /\ b.count = Effective'
  BY <1>1, <1>2, <1>3 DEF Build, BuildType, CountsFit
<1>5. BuildsFit' /\ builds' # {}
  BY <1>2, <1>3, <1>4, StartKeeps
<1>6. TreeMatchesDevice' /\ EchoLandsInTree'
  BY <1>5 DEF TreeMatchesDevice, EchoLandsInTree
<1>7. UnsavedWhileBuilding'
  BY <1>2 DEF UnsavedWhileBuilding, Saved, Started
<1> QED BY <1>3, <1>5, <1>6, <1>7

\* A restart has one build, of what the cache file holds.
LEMMA RestartKeeps ==
  ASSUME SegInv, Restart
  PROVE  SegInv'
<1> USE DEF SegInv
<1>1. PICK b : b = [BuildAfter(saved.learned, saved.manual, FALSE) EXCEPT !.chained = TRUE]
  OBVIOUS
<1>2. /\ learned' = saved.learned /\ manual' = saved.manual /\ origin' = "cache" /\ deferred' = 0
      /\ mask' \in {0, mask} /\ builds' = {b} /\ overlapped' = FALSE /\ echo' = NoEcho
      /\ UNCHANGED <<strip, saved, tree>>
  BY <1>1 DEF Restart
<1>3. /\ saved.learned \in 0 .. CountMax /\ saved.manual \subseteq Indices
      /\ CountMax \in Nat
  BY SegmentAssumption DEF SegShape
<1>4. SegShape'
  <2>1. mask' \in 0 .. CountMax /\ deferred' \in 0 .. CountMax
    BY <1>2, <1>3 DEF SegShape
  <2>2. echo'.into \subseteq Indices /\ tree' \subseteq Indices /\ strip' \in Strips
    BY <1>2 DEF SegShape, NoEcho
  <2>3. saved' \in [learned : 0 .. CountMax, manual : SUBSET Indices]
    BY <1>2 DEF SegShape
  <2> QED BY <1>2, <1>3, <2>1, <2>2, <2>3 DEF SegShape
<1>5. Reach(saved.learned, saved.manual) = Effective'
  BY <1>2 DEF Effective, Reach, Current
<1>6. Reach(saved.learned, saved.manual) \in 0 .. CountMax
  BY <1>3, ReachFacts
<1>7. b = [chained |-> TRUE, keeps |-> FALSE, phase |-> "begin",
           count |-> Reach(saved.learned, saved.manual), valid |-> {}, todo |-> {}]
  BY <1>1, BuildAfterFacts
<1>8. b \in BuildType /\ b.phase = "begin" /\ b.count = Effective'
  BY <1>5, <1>6, <1>7 DEF BuildType
<1>9. BuildsFit'
  BY <1>2, <1>8 DEF BuildsFit, Serves
<1>10. TreeMatchesDevice' /\ EchoLandsInTree'
  BY <1>2 DEF TreeMatchesDevice, EchoLandsInTree
<1>11. UnsavedWhileBuilding'
  BY <1>2 DEF UnsavedWhileBuilding, Saved, SegShape
<1> QED BY <1>4, <1>9, <1>10, <1>11

\* Nothing changes.
LEMMA StutterSeg ==
  ASSUME SegInv, UNCHANGED segVars
  PROVE  SegInv'
BY DEF SegInv, segVars, SegShape, BuildsFit, Serves, Wanted, Effective, Current, TreeMatchesDevice,
       EchoLandsInTree, UnsavedWhileBuilding, Saved, ValidIndices

\* Every step keeps it.
LEMMA NextSeg == SegInv /\ [SegNext]_segVars => SegInv'
<1> SUFFICES ASSUME SegInv, [SegNext]_segVars PROVE SegInv'
  OBVIOUS
<1>1. ASSUME NEW parsed \in Readings[strip], ReceivePush(parsed) PROVE SegInv'
  BY <1>1, PushKeeps
<1>2. CASE LoadMasks
  BY <1>2, MasksKeep
<1>3. ASSUME NEW list \in SegmentLists \cup {{}}, SetManual(list) PROVE SegInv'
  BY <1>3, ManualKeeps
<1>4. ASSUME NEW bright \in SegmentLists, ApplyWizardResult(bright) PROVE SegInv'
  BY <1>4, WizardKeeps
<1>5. SegShape /\ CountsFit /\ manual \subseteq Indices /\ CountMax \in Nat
  BY CountFacts, SegmentAssumption DEF SegInv, SegShape
<1>6. ASSUME NEW asked, SendBatch("user", ParsedBatch(asked)) PROVE SegInv'
  <2>1. ParsedBatch(asked) \subseteq ValidIndices(manual, Current)
    BY DEF ParsedBatch
  <2>2. ValidIndices(manual, Current) \subseteq Indices
    BY <1>5, ValidFacts DEF CountsFit
  <2> QED BY <1>6, <2>1, <2>2, BatchKeeps
<1>7. ASSUME NEW asked \in {Indices, 0 .. Effective - 1}, SendBatch("adapter", CoercedBatch(asked))
      PROVE  SegInv'
  <2>1. CoercedBatch(asked) \subseteq Indices
    BY <1>5 DEF CoercedBatch, CountsFit, Indices
  <2> QED BY <1>7, <2>1, BatchKeeps
<1>8. CASE CloudListBuild
  BY <1>8, ListKeeps
<1>9. CASE BuildStep
  BY <1>9, BuildKeeps
<1>10. CASE Restart
  BY <1>10, RestartKeeps
<1>11. CASE UNCHANGED segVars
  BY <1>11, StutterSeg
<1> QED BY <1>1, <1>2, <1>3, <1>4, <1>6, <1>7, <1>8, <1>9, <1>10, <1>11 DEF SegNext

\* It gives the types.
LEMMA InvTyped == SegInv => SegTypeOK
<1> SUFFICES ASSUME SegInv PROVE SegTypeOK
  OBVIOUS
<1> DEFINE chained == {b \in builds : b.chained}
<1>1. \A b, c \in chained : b = c
  BY DEF SegInv, BuildsFit
<1>2. Cardinality(chained) <= 1
  <2>1. CASE chained = {}
    BY <2>1, FS_EmptySet
  <2>2. CASE chained # {}
    <3>1. PICK b \in chained : chained = {b}
      BY <1>1, <2>2
    <3> QED BY <3>1, FS_Singleton
  <2> QED BY <2>1, <2>2
<1> QED BY <1>2 DEF SegTypeOK, SegInv, SegShape

\* Whatever the pushes, the user, the wizard and a restart do, the finished tree
\* has the channels the count and the manual list call for, an echo lands in it,
\* and what the cache file lacks is on its way there.
THEOREM TreeFollowsDevice ==
  SegSpec => [](SegTypeOK /\ TreeMatchesDevice /\ EchoLandsInTree /\ UnsavedWhileBuilding)
<1>1. SegInv => SegTypeOK /\ TreeMatchesDevice /\ EchoLandsInTree /\ UnsavedWhileBuilding
  BY InvTyped DEF SegInv
<1> QED BY <1>1, InitSeg, NextSeg, PTL DEF SegSpec

-----------------------------------------------------------------------------
(* The end of a strip. A complete report without a guess shows or hides it.*)

\* A complete report has the packets 1 .. n, and both status reports.
LEMMA CompleteFacts ==
  ASSUME NEW s \in Strips, NEW push \in PushesOf(s), Parsed(s, push).complete
  PROVE  /\ push.before /\ push.after /\ 1 \in push.packets
         /\ Cardinality(push.packets) < 2 => push.packets = {1}
<1> DEFINE n == Cardinality(push.packets)
           top == Ceil(s.length, s.layout)
<1>1. top \in Nat
  BY LayoutFacts
<1>2. push.packets \subseteq 1 .. top /\ push.packets # {}
  BY DEF PushesOf, PacketsOf
<1>3. push.packets = 1 .. n /\ push.before /\ push.after
  BY DEF Parsed
<1> HIDE DEF top
<1>4. n \in Nat
  <2>1. IsFiniteSet(push.packets)
    BY <1>1, <1>2, FS_Interval, FS_Subset
  <2> QED BY <2>1, FS_CardinalityType
<1> HIDE DEF n
<1>5. n >= 1
  <2>1. PICK m \in 1 .. n : TRUE
    BY <1>2, <1>3
  <2> QED BY <1>4, <2>1
<1>6. n < 2 => push.packets = {1}
  <2>1. n < 2 => n = 1
    BY <1>4, <1>5
  <2> QED BY <1>3, <2>1
<1> QED BY <1>3, <1>4, <1>5, <1>6 DEF n

\* Where a segment of a strip sits in the packets.
LEMMA SegmentSlot ==
  ASSUME NEW s \in Strips, NEW i \in 0 .. s.length - 1
  PROVE  LET n == i \div s.layout + 1
             k == (i % s.layout) + 1
         IN  /\ n \in 1 .. Ceil(s.length, s.layout) /\ k \in 1 .. s.layout
             /\ (n - 1) * s.layout + (k - 1) = i
<1>1. /\ s.length \in Nat /\ Ceil(s.length, s.layout) \in Nat
      /\ s.length <= Ceil(s.length, s.layout) * s.layout /\ s.layout \in {3, 4} /\ i \in Nat
  BY LayoutFacts
<1>2. CASE s.layout = 3
  BY <1>1, <1>2
<1>3. CASE s.layout = 4
  BY <1>1, <1>3
<1> QED BY <1>1, <1>2, <1>3

\* A complete report is read with a layout that finds each segment it does not hide.
LEMMA LayoutRead ==
  ASSUME NEW s \in Strips, NEW push \in PushesOf(s), Parsed(s, push).complete,
         NEW i \in 0 .. s.length - 1, i \notin HiddenIn(s, push)
  PROVE  LET per == SlotsPerPacket(s, push)
             n == i \div s.layout + 1
             k == (i % s.layout) + 1
         IN  k \in 1 .. per /\ (n - 1) * per + (k - 1) = i
<1> DEFINE n == i \div s.layout + 1
           k == (i % s.layout) + 1
<1>1. s.length \in Nat /\ s.layout \in {3, 4} /\ i \in Nat /\ i < s.length
  BY LayoutFacts
<1>2. n \in Nat /\ 1 <= n /\ k \in 1 .. s.layout /\ (n - 1) * s.layout + (k - 1) = i
  BY LayoutFacts, SegmentSlot
<1>3. 1 \in push.packets /\ (Cardinality(push.packets) < 2 => push.packets = {1})
      /\ push.before /\ push.after
  BY CompleteFacts
<1>4. n \in push.packets /\ i < s.length - push.dark /\ push.dark \in Nat
  <2>1. push.dark \in Nat
    BY <1>1 DEF PushesOf
  <2> QED BY <1>1, <1>3, <2>1 DEF HiddenIn
<1>5. SlotsPerPacket(s, push) \in {3, 4}
  BY DEF SlotsPerPacket
<1>6. CASE SlotsPerPacket(s, push) = s.layout
  BY <1>2, <1>6
<1>7. CASE s.layout = 3 /\ SlotsPerPacket(s, push) = 4
  <2>1. \A m \in push.packets : SlotOf(s, push, m, 4) = "zero"
    BY <1>7 DEF SlotOf
  <2>2. ~(Cardinality(push.packets) >= 2)
    BY <1>7, <2>1 DEF SlotsPerPacket
  <2>3. Cardinality(push.packets) < 2
    <3>1. Cardinality(push.packets) \in Nat
      <4>1. push.packets \subseteq 1 .. Ceil(s.length, s.layout) /\ Ceil(s.length, s.layout) \in Nat
        BY LayoutFacts DEF PushesOf, PacketsOf
      <4>2. IsFiniteSet(push.packets)
        BY <4>1, FS_Interval, FS_Subset
      <4> QED BY <4>2, FS_CardinalityType
    <3> QED BY <2>2, <3>1
  <2>4. n = 1
    BY <1>3, <1>4, <2>3
  <2> HIDE DEF n, k
  <2> QED BY <1>1, <1>2, <1>7, <2>4 DEF n, k
<1>8. CASE s.layout = 4 /\ SlotsPerPacket(s, push) = 3
  <2>1. SlotOf(s, push, 1, 4) = "zero"
    BY <1>3, <1>8 DEF SlotsPerPacket
  <2>2. 3 >= s.length \/ 3 >= s.length - push.dark
    BY <1>1, <1>4, <1>8, <2>1 DEF SlotOf
  <2>3. i < 3
    BY <1>1, <1>4, <2>2
  <2>4. n = 1 /\ k = i + 1
    BY <1>1, <1>8, <2>3
  <2> QED BY <1>1, <1>8, <2>3, <2>4
<1> QED BY <1>1, <1>5, <1>6, <1>7, <1>8

\* A complete report without a guess reaches over every segment it does not hide.
LEMMA CompleteReaches ==
  ASSUME NEW s \in Strips, NEW parsed \in Readings[s], parsed.complete, ~parsed.guess
  PROVE  Seen(parsed) .. s.length - 1 \subseteq parsed.hidden
<1>1. PICK push \in PushesOf(s) : parsed = Parsed(s, push)
  BY DEF Readings
<1>2. parsed.hidden = HiddenIn(s, push) /\ Parsed(s, push).complete
  BY <1>1 DEF Parsed
<1>3. s.length \in Nat /\ Seen(parsed) \in Nat
  BY LayoutFacts, ReadingFacts
<1> SUFFICES ASSUME NEW i \in 0 .. s.length - 1, i \notin HiddenIn(s, push)
             PROVE  i \in parsed.indices
  BY <1>2, <1>3, ReadingFacts
<1> DEFINE per == SlotsPerPacket(s, push)
           n   == i \div s.layout + 1
           k   == (i % s.layout) + 1
           p   == <<n, k>>
           read == push.packets \X (1 .. per)
           ends == {q \in read :
                      \/ SlotOf(s, push, q[1], q[2]) = "segment"
                      \/ SlotOf(s, push, q[1], q[2]) = "shift" /\ ~\E r \in read : Before(r, q)}
           kept == {q \in read : \E r \in ends : q = r \/ Before(q, r)}
<1>4. k \in 1 .. per /\ (n - 1) * per + (k - 1) = i
  BY <1>2, LayoutRead
<1>5. n \in push.packets /\ i < s.length /\ ~(i >= s.length - push.dark)
  <2>1. push.before /\ push.after
    BY <1>2, CompleteFacts
  <2> QED BY <1>3, <2>1 DEF HiddenIn
<1>6. SlotOf(s, push, n, k) \in {"segment", "shift"}
  <2>1. k \in 1 .. s.layout /\ (n - 1) * s.layout + (k - 1) = i /\ s.layout \in {3, 4}
    BY LayoutFacts, SegmentSlot
  <2> HIDE DEF n, k
  <2>2. ~(k > s.layout)
    BY <2>1
  <2> QED BY <1>3, <1>5, <2>1, <2>2 DEF SlotOf
<1>7. parsed.indices = {(q[1] - 1) * per + (q[2] - 1) : q \in kept}
  BY <1>1 DEF Parsed
<1>8. ~ \E q \in read \ kept : SlotOf(s, push, q[1], q[2]) = "shift"
  BY <1>1 DEF Parsed
<1> HIDE DEF per, n, k
<1>9. p \in read
  BY <1>4, <1>5
<1>10. p \in kept
  <2>1. CASE SlotOf(s, push, n, k) = "segment"
    BY <1>9, <2>1
  <2>2. CASE SlotOf(s, push, n, k) = "shift"
    BY <1>8, <1>9, <2>2
  <2> QED BY <1>6, <2>1, <2>2
<1> HIDE DEF kept
<1> QED BY <1>4, <1>7, <1>10

\* A push takes only what it hid, or what the masks do not know.
LEMMA ShrinkStep ==
  ASSUME SegInv, [SegNext]_segVars
  PROVE  ShrinkNeedsEvidence
<1>1. ASSUME NEW parsed \in Readings[strip], ReceivePush(parsed) PROVE ShrinkNeedsEvidence
  <2> DEFINE seen == Seen(parsed)
  <2>1. strip \in Strips /\ CountsFit /\ seen \in Nat /\ mask' = mask /\ strip' = strip
    BY <1>1, CountFacts, ReadingFacts DEF SegInv, SegShape, ReceivePush
  <2>2. learned' = learned \/ learned' = seen
    BY <1>1 DEF ReceivePush, Seen, Adopt
  <2>3. ASSUME learned' = seen, seen < Current, learned' # learned
        PROVE  MayLower(seen, parsed) /\ echo'.hidden = parsed.hidden
    <3>1. \/ seen > Current
          \/ seen < Current /\ MayLower(seen, parsed) /\ Adopt(seen, parsed.hidden)
          \/ seen = Current
          \/ learned' = learned
      BY <1>1 DEF ReceivePush, Seen
    <3>2. seen \in Nat /\ Current \in Nat
      BY <2>1 DEF CountsFit
    <3> HIDE DEF seen
    <3>3. MayLower(seen, parsed) /\ Adopt(seen, parsed.hidden)
      BY <2>3, <3>1, <3>2
    <3> QED BY <3>3 DEF Adopt, NoEcho
  <2>4. MayLower(seen, parsed) => mask = seen \/ seen .. strip.length - 1 \subseteq parsed.hidden
    BY <2>1, CompleteReaches DEF MayLower
  <2> HIDE DEF seen
  <2> QED BY <2>1, <2>2, <2>3, <2>4 DEF ShrinkNeedsEvidence
<1>2. CASE LoadMasks
  BY <1>2 DEF LoadMasks, Adopt, ShrinkNeedsEvidence
<1>3. ASSUME NEW list \in SegmentLists \cup {{}}, SetManual(list) PROVE ShrinkNeedsEvidence
  BY <1>3 DEF SetManual, ShrinkNeedsEvidence
<1>4. ASSUME NEW bright \in SegmentLists, ApplyWizardResult(bright) PROVE ShrinkNeedsEvidence
  BY <1>4 DEF ApplyWizardResult, ShrinkNeedsEvidence
<1>5. ASSUME NEW by, NEW batch, SendBatch(by, batch) PROVE ShrinkNeedsEvidence
  BY <1>5 DEF SendBatch, ShrinkNeedsEvidence
<1>6. CASE CloudListBuild \/ BuildStep \/ UNCHANGED segVars
  BY <1>6 DEF CloudListBuild, BuildStep, segVars, ShrinkNeedsEvidence
<1>7. CASE Restart
  BY <1>7 DEF Restart, ShrinkNeedsEvidence
<1> QED BY <1>1, <1>2, <1>3, <1>4, <1>5, <1>6, <1>7 DEF SegNext

\* All that is said of a strip, whatever frames its pushes lose and however many of its
\* last segments are off and black: without the masks a push takes away only what it hid.
THEOREM SegmentsHold == SegSpec => SegmentsAgree
<1>1. SegInv /\ [SegNext]_segVars => ShrinkNeedsEvidence
  BY ShrinkStep
<1>2. SegSpec => [][ShrinkNeedsEvidence]_segVars
  BY <1>1, InitSeg, NextSeg, PTL DEF SegSpec
<1> QED BY <1>2, TreeFollowsDevice, PTL DEF SegmentsAgree

-----------------------------------------------------------------------------
(* The wizard's session.                                                   *)

Places == {"new", "capturing", "preparing", "flashing", "answering",
           "applying", "restoring", "unread", "done"}

\* The messages whose handler has begun.
Begun == {m \in Message : pc[m] # "new"}

\* A segment is asked about for every answer, and each message answers once.
Counted ==
  /\ pc \in [Handler -> Places]
  /\ current \in [Message -> Nat]
  /\ \A s \in Message : current[s] <= Cardinality(Begun)

Sides ==
  /\ session \in Message \cup {NoSession} /\ timer \in BOOLEAN
  /\ mine \in [Handler -> Message \cup {NoSession}]
  /\ lit \in [Message -> BOOLEAN]
  /\ onStrip \in {"own", "forced"} /\ flashes \subseteq Message
  /\ {present, rolledBack, disposed} \subseteq BOOLEAN

\* The inductive invariant: the forms, the count, and who releases the lock.
WizardInv == Sides /\ Counted /\ OpenSessionIsWatched /\ TimerNeedsSession

\* A session is no absence of one.
LEMMA SessionFacts ==
  /\ NoSession \notin Message /\ Idle \notin Message /\ Message \subseteq Handler /\ Idle \in Handler
  /\ WizardInv /\ session # NoSession => session \in Message
BY WizardAssumption DEF NoSession, Idle, Handler, WizardInv, Sides

\* Where a handler goes next.
LEMMA Goes ==
  ASSUME WizardInv, NEW h \in Handler, NEW w \in Places, w = "new" => h \notin Message,
         At(h, w)
  PROVE  /\ pc' \in [Handler -> Places] /\ Begun \subseteq Begun' /\ pc'[h] = w
         /\ \A k \in Handler : k # h => pc'[k] = pc[k]
<1>1. pc \in [Handler -> Places] /\ pc' = [pc EXCEPT ![h] = w]
  BY DEF WizardInv, Counted, At
<1> QED BY <1>1, SessionFacts DEF Begun

\* A handler that ends.
LEMMA Ends ==
  ASSUME WizardInv, NEW h \in Handler, Finish(h)
  PROVE  /\ pc' \in [Handler -> Places] /\ Begun \subseteq Begun'
         /\ pc'[h] \in {"new", "done"} /\ (h \in Message => pc'[h] = "done")
         /\ \A k \in Handler : k # h => pc'[k] = pc[k]
<1>1. PICK w \in Places : /\ w = IF h = Idle THEN "new" ELSE "done"
                          /\ w = "new" => h \notin Message
  BY SessionFacts DEF Places
<1>2. At(h, w)
  BY <1>1 DEF Finish
<1> QED BY <1>1, <1>2, Goes, SessionFacts

\* The number of messages is one.
LEMMA BegunFacts == Begun \subseteq Message /\ IsFiniteSet(Begun) /\ Cardinality(Begun) \in Nat
                    /\ Cardinality(Begun) <= Cardinality(Message) /\ Cardinality(Message) \in Nat
<1>1. Begun \subseteq Message /\ IsFiniteSet(Message)
  BY WizardAssumption DEF Begun
<1> QED BY <1>1, FS_Subset, FS_CardinalityType

\* So long as nothing is answered the count stands.
LEMMA CountStays ==
  ASSUME WizardInv, pc' \in [Handler -> Places], Begun \subseteq Begun', UNCHANGED current
  PROVE  Counted'
<1>0. Begun' \subseteq Message /\ IsFiniteSet(Message)
  BY WizardAssumption DEF Begun
<1>1. Begun' \subseteq Message /\ IsFiniteSet(Begun')
  BY <1>0, FS_Subset
<1>2. Cardinality(Begun) <= Cardinality(Begun') /\ Cardinality(Begun) \in Nat /\ Cardinality(Begun') \in Nat
  BY <1>1, FS_Subset, FS_CardinalityType, BegunFacts
<1> QED BY <1>2 DEF WizardInv, Counted

\* An answer is one more, of a message more.
LEMMA CountGrows ==
  ASSUME WizardInv, pc' \in [Handler -> Places], Begun \subseteq Begun', NEW m \in Message,
         pc[m] = "new", pc'[m] # "new", NEW s \in Message, current' = [current EXCEPT ![s] = @ + 1]
  PROVE  Counted'
<1>0. Begun' \subseteq Message /\ IsFiniteSet(Message)
  BY WizardAssumption DEF Begun
<1>1. Begun' \subseteq Message /\ IsFiniteSet(Begun')
  BY <1>0, FS_Subset
<1>2. m \notin Begun /\ m \in Begun'
  BY DEF Begun
<1>3. IsFiniteSet(Begun \cup {m}) /\ Cardinality(Begun \cup {m}) = Cardinality(Begun) + 1
  BY <1>2, BegunFacts, FS_AddElement
<1>4. Begun \cup {m} \subseteq Begun'
  BY <1>2
<1>5. Cardinality(Begun) + 1 <= Cardinality(Begun') /\ Cardinality(Begun) \in Nat /\ Cardinality(Begun') \in Nat
  BY <1>1, <1>3, <1>4, FS_Subset, FS_CardinalityType, BegunFacts
<1> QED BY <1>5 DEF WizardInv, Counted

-----------------------------------------------------------------------------
(* Who releases the lock.                                                  *)

\* A closed session needs nobody.
LEMMA ClosedIsWatched == session' = NoSession /\ ~timer' => OpenSessionIsWatched' /\ TimerNeedsSession'
BY Zenon DEF OpenSessionIsWatched, TimerNeedsSession

\* An armed timeout watches.
LEMMA ArmedIsWatched == timer' /\ session' # NoSession => OpenSessionIsWatched' /\ TimerNeedsSession'
BY Zenon DEF OpenSessionIsWatched, TimerNeedsSession

\* A handler that restores closes it.
LEMMA RestoringIsWatched ==
  ASSUME NEW h \in Handler, pc'[h] = "restoring", session' # NoSession
  PROVE  OpenSessionIsWatched' /\ TimerNeedsSession'
BY Zenon DEF OpenSessionIsWatched, TimerNeedsSession

\* A handler that neither reads the baseline nor restores watches nothing.
LEMMA StaysWatched ==
  ASSUME WizardInv, NEW h \in Handler, UNCHANGED <<session, timer>>,
         \A k \in Handler : k # h => pc'[k] = pc[k],
         \/ pc[h] \notin {"capturing", "unread", "restoring"}
         \/ pc[h] = "capturing" /\ pc'[h] = "unread"
         \/ pc[h] = "capturing" /\ h # session
  PROVE  OpenSessionIsWatched' /\ TimerNeedsSession'
<1>1. TimerNeedsSession'
  BY DEF WizardInv, TimerNeedsSession
<1>2. CASE session = NoSession
  <2>1. session' = NoSession
    BY <1>2
  <2> QED BY <1>1, <2>1, Zenon DEF OpenSessionIsWatched
<1>3. CASE session # NoSession /\ timer
  <2>1. timer'
    BY <1>3
  <2> QED BY <1>1, <2>1, Zenon DEF OpenSessionIsWatched
<1>4. CASE session # NoSession /\ ~timer
  <2>1. session \in Handler /\ session' = session
    BY <1>4, SessionFacts
  <2>2. CASE pc[session] \in {"capturing", "unread"}
    <3>1. pc'[session] \in {"capturing", "unread"}
      BY <2>1, <2>2
    <3> QED BY <1>1, <2>1, <3>1, Zenon DEF OpenSessionIsWatched
  <2>3. CASE \E k \in Handler : pc[k] = "restoring"
    <3>1. PICK k \in Handler : pc[k] = "restoring"
      BY <2>3
    <3>2. pc'[k] = "restoring"
      BY <3>1
    <3> QED BY <1>1, <3>2, Zenon DEF OpenSessionIsWatched
  <2> QED BY <1>4, <2>2, <2>3, Zenon DEF WizardInv, OpenSessionIsWatched
<1> QED BY <1>1, <1>2, <1>3, <1>4

-----------------------------------------------------------------------------
(* The steps.                                                              *)

\* No session, no timeout, nothing answered.
LEMMA InitWizard == WizardInit => WizardInv
<1> SUFFICES ASSUME WizardInit PROVE WizardInv
  OBVIOUS
<1>1. session = NoSession /\ ~timer
  BY DEF WizardInit
<1>2. Sides
  BY DEF WizardInit, Sides
<1>3. Counted
  BY BegunFacts DEF WizardInit, Counted, Places
<1> QED BY <1>1, <1>2, <1>3, Zenon DEF WizardInv, OpenSessionIsWatched, TimerNeedsSession

\* The start, up to its first flash.
LEMMA StartWatched ==
  ASSUME WizardInv, NEW m \in Message,
         Start(m) \/ Captured(m) \/ CaptureFails(m) \/ Prepared(m) \/ Flashed(m) \/ StartRefused(m)
  PROVE  WizardInv'
<1>0. m \in Handler
  BY SessionFacts
<1>1. CASE Start(m)
  <2>1. /\ session = NoSession /\ session' = m /\ UNCHANGED <<timer, current>> /\ At(m, "capturing")
        /\ pc[m] = "new"
    BY <1>1 DEF Start
  <2>2. /\ pc' \in [Handler -> Places] /\ Begun \subseteq Begun' /\ pc'[m] = "capturing"
    BY <1>0, <2>1, Goes DEF Places
  <2>3. Sides'
    BY <1>0, <1>1 DEF Start, WizardInv, Sides
  <2>4. ~timer'
    BY <2>1, Zenon DEF WizardInv, TimerNeedsSession
  <2>5. OpenSessionIsWatched' /\ TimerNeedsSession'
    BY <2>1, <2>2, <2>4, SessionFacts DEF OpenSessionIsWatched, TimerNeedsSession
  <2> QED BY <2>1, <2>2, <2>3, <2>5, CountStays DEF WizardInv
<1>2. CASE Captured(m)
  <2>1. UNCHANGED current /\ pc[m] = "capturing"
    BY <1>2 DEF Captured
  <2>2. Sides'
    BY <1>2 DEF Captured, Flash, WizardInv, Sides
  <2>3. Finish(m) \/ At(m, "preparing")
    BY <1>2 DEF Captured
  <2>4. /\ pc' \in [Handler -> Places] /\ Begun \subseteq Begun'
        /\ \A k \in Handler : k # m => pc'[k] = pc[k]
    BY <1>0, <2>3, Goes, Ends DEF Places
  <2>5. CASE session # m
    <3>1. UNCHANGED <<session, timer>>
      BY <1>2, <2>5 DEF Captured
    <3> QED BY <1>0, <2>1, <2>2, <2>4, <2>5, <3>1, CountStays, StaysWatched DEF WizardInv
  <2>6. CASE session = m
    <3>1. timer' /\ session' # NoSession
      BY <1>2, <2>6, SessionFacts DEF Captured
    <3> QED BY <2>1, <2>2, <2>4, <3>1, CountStays, ArmedIsWatched DEF WizardInv
  <2> QED BY <2>5, <2>6
<1>3. CASE CaptureFails(m)
  <2>1. UNCHANGED <<session, timer, current>> /\ pc[m] = "capturing" /\ At(m, "unread")
    BY <1>3 DEF CaptureFails
  <2>2. Sides'
    BY <1>3 DEF CaptureFails, WizardInv, Sides
  <2>3. /\ pc' \in [Handler -> Places] /\ Begun \subseteq Begun' /\ pc'[m] = "unread"
        /\ \A k \in Handler : k # m => pc'[k] = pc[k]
    BY <1>0, <2>1, Goes DEF Places
  <2> QED BY <1>0, <2>1, <2>2, <2>3, CountStays, StaysWatched DEF WizardInv
<1>4. CASE Prepared(m) \/ Flashed(m)
  <2>1. /\ UNCHANGED <<session, timer, current>> /\ pc[m] \in {"preparing", "flashing", "answering"}
        /\ At(m, "flashing") \/ Finish(m)
    BY <1>4 DEF Prepared, Flashed
  <2>2. Sides'
    BY <1>4 DEF Prepared, Flashed, WizardInv, Sides
  <2>3. /\ pc' \in [Handler -> Places] /\ Begun \subseteq Begun'
        /\ \A k \in Handler : k # m => pc'[k] = pc[k]
    BY <1>0, <2>1, Goes, Ends DEF Places
  <2> QED BY <1>0, <2>1, <2>2, <2>3, CountStays, StaysWatched DEF WizardInv
<1>5. CASE StartRefused(m)
  <2>1. UNCHANGED current /\ Finish(m) /\ session' = NoSession /\ ~timer'
    BY <1>5 DEF StartRefused, Close
  <2>2. Sides'
    BY <1>5 DEF StartRefused, Close, WizardInv, Sides
  <2>3. pc' \in [Handler -> Places] /\ Begun \subseteq Begun'
    BY <1>0, <2>1, Ends
  <2> QED BY <2>1, <2>2, <2>3, CountStays, ClosedIsWatched DEF WizardInv
<1> QED BY <1>1, <1>2, <1>3, <1>4, <1>5

\* What closes a session.
LEMMA CloserKeeps ==
  ASSUME WizardInv, NEW h \in Handler, UNCHANGED <<current, lit, flashes, present, disposed>>,
         DropSession(h) \/ RestoreAndClose(h)
  PROVE  WizardInv'
<1>1. Finish(h) /\ session' = NoSession /\ ~timer'
  BY DEF DropSession, RestoreAndClose, Close
<1>2. Sides'
  BY DEF DropSession, RestoreAndClose, Close, WizardInv, Sides
<1>3. pc' \in [Handler -> Places] /\ Begun \subseteq Begun'
  BY <1>1, Ends
<1> QED BY <1>1, <1>2, <1>3, CountStays, ClosedIsWatched DEF WizardInv

\* A restore over the Cloud is begun by a handler of its own.
LEMMA RestoreKeeps ==
  ASSUME WizardInv, NEW h \in Handler, UNCHANGED <<current, lit, flashes, present, disposed>>,
         session # NoSession, TakeSession(h, "restoring"), timer' \in BOOLEAN
  PROVE  WizardInv'
<1>1. /\ At(h, "restoring") /\ session' = session /\ UNCHANGED <<onStrip, rolledBack>>
      /\ mine' = [mine EXCEPT ![h] = session]
  BY DEF TakeSession
<1>2. Sides'
  BY <1>1 DEF WizardInv, Sides
<1>3. pc' \in [Handler -> Places] /\ Begun \subseteq Begun' /\ pc'[h] = "restoring"
  BY <1>1, Goes DEF Places
<1>4. OpenSessionIsWatched' /\ TimerNeedsSession'
  BY <1>1, <1>3, RestoringIsWatched
<1> QED BY <1>2, <1>3, <1>4, CountStays DEF WizardInv

\* Abort, by a message or by the timeout.
LEMMA AbortKeeps ==
  ASSUME WizardInv, NEW h \in Handler, UNCHANGED <<current, lit, flashes, present, disposed>>,
         session # NoSession, AbortWith(h)
  PROVE  WizardInv'
<1>1. CASE ~present
  BY <1>1, CloserKeeps DEF AbortWith
<1>2. CASE present /\ session \in OverLan
  BY <1>2, CloserKeeps DEF AbortWith
<1>3. CASE present /\ session \notin OverLan
  <2>1. TakeSession(h, "restoring") /\ UNCHANGED timer
    BY <1>3 DEF AbortWith
  <2>2. timer' \in BOOLEAN
    BY <2>1 DEF WizardInv, Sides
  <2> QED BY <2>1, <2>2, RestoreKeeps
<1> QED BY <1>1, <1>2, <1>3

\* The end of a session: aborted, timed out, restored.
LEMMA EndingKeeps ==
  ASSUME WizardInv, \/ \E m \in Message : Abort(m)
                    \/ IdleFires
                    \/ \E h \in Handler : Restored(h)
  PROVE  WizardInv'
<1>1. ASSUME NEW m \in Message, Abort(m) PROVE WizardInv'
  <2>1. m \in Handler
    BY SessionFacts
  <2>2. session # NoSession /\ AbortWith(m) /\ UNCHANGED <<current, lit, flashes, present, disposed>>
    BY <1>1 DEF Abort
  <2> QED BY <2>1, <2>2, AbortKeeps
<1>2. CASE IdleFires
  <2>0. /\ UNCHANGED <<current, lit, flashes, present, disposed>> /\ Idle \in Handler
    BY <1>2, SessionFacts DEF IdleFires
  <2>1. CASE session = NoSession
    <3>1. timer' = FALSE /\ UNCHANGED <<session, pc, mine, onStrip, rolledBack>>
      BY <1>2, <2>1 DEF IdleFires
    <3>2. Sides'
      BY <2>0, <3>1 DEF WizardInv, Sides
    <3>3. pc' \in [Handler -> Places] /\ Begun \subseteq Begun'
      BY <3>1 DEF WizardInv, Counted, Begun
    <3>4. session' = NoSession /\ ~timer'
      BY <2>1, <3>1
    <3> QED BY <2>0, <3>2, <3>3, <3>4, CountStays, ClosedIsWatched DEF WizardInv
  <2>2. CASE session # NoSession /\ present /\ session \notin OverLan
    <3>1. TakeSession(Idle, "restoring") /\ timer' = FALSE
      BY <1>2, <2>2 DEF IdleFires
    <3> QED BY <2>0, <2>2, <3>1, RestoreKeeps
  <2>3. CASE session # NoSession /\ (~present \/ session \in OverLan)
    <3>1. AbortWith(Idle)
      BY <1>2, <2>3 DEF IdleFires
    <3> QED BY <2>0, <2>3, <3>1, AbortKeeps
  <2> QED BY <2>1, <2>2, <2>3
<1>3. ASSUME NEW h \in Handler, Restored(h) PROVE WizardInv'
  <2>1. Finish(h) /\ session' = NoSession /\ ~timer' /\ UNCHANGED current
    BY <1>3 DEF Restored, Close
  <2>2. Sides'
    BY <1>3 DEF Restored, Close, WizardInv, Sides
  <2>3. pc' \in [Handler -> Places] /\ Begun \subseteq Begun'
    BY <2>1, Ends
  <2> QED BY <2>1, <2>2, <2>3, CountStays, ClosedIsWatched DEF WizardInv
<1> QED BY <1>1, <1>2, <1>3

\* The result of a session.
LEMMA ApplyKeeps ==
  ASSUME WizardInv, NEW m \in Message,
         Apply(m) \/ Applied(m) \/ ApplyFails(m) \/ AnswerRefused(m)
  PROVE  WizardInv'
<1>0. m \in Handler
  BY SessionFacts
<1>1. CASE Apply(m)
  <2>1. /\ session # NoSession /\ pc[m] = "new"
        /\ UNCHANGED <<current, lit, flashes, present, disposed>>
    BY <1>1 DEF Apply
  <2>2. CASE ~present
    BY <1>0, <1>1, <2>1, <2>2, CloserKeeps DEF Apply
  <2>3. CASE present
    <3>1. /\ mine' = [mine EXCEPT ![m] = session] /\ At(m, "applying")
          /\ UNCHANGED <<session, onStrip, rolledBack, timer>>
      BY <1>1, <2>3 DEF Apply, TakeSession
    <3>2. Sides'
      BY <2>1, <3>1 DEF WizardInv, Sides
    <3>3. /\ pc' \in [Handler -> Places] /\ Begun \subseteq Begun'
          /\ \A k \in Handler : k # m => pc'[k] = pc[k]
      BY <1>0, <3>1, Goes DEF Places
    <3> QED BY <1>0, <2>1, <3>1, <3>2, <3>3, CountStays, StaysWatched DEF WizardInv
  <2> QED BY <2>2, <2>3
<1>2. CASE Applied(m)
  <2>1. pc[m] = "applying" /\ UNCHANGED <<current, lit, flashes, present, disposed>>
    BY <1>2 DEF Applied
  <2>2. CASE mine[m] \in OverLan
    BY <1>0, <1>2, <2>1, <2>2, CloserKeeps DEF Applied
  <2>3. CASE mine[m] \notin OverLan
    <3>1. At(m, "restoring") /\ UNCHANGED <<session, timer, onStrip, rolledBack, mine>>
      BY <1>2, <2>3 DEF Applied
    <3>2. Sides'
      BY <2>1, <3>1 DEF WizardInv, Sides
    <3>3. /\ pc' \in [Handler -> Places] /\ Begun \subseteq Begun'
          /\ \A k \in Handler : k # m => pc'[k] = pc[k]
      BY <1>0, <3>1, Goes DEF Places
    <3> QED BY <1>0, <2>1, <3>1, <3>2, <3>3, CountStays, StaysWatched DEF WizardInv
  <2> QED BY <2>2, <2>3
<1>3. CASE ApplyFails(m) \/ AnswerRefused(m)
  <2>1. /\ pc[m] \in {"applying", "answering"} /\ Finish(m)
        /\ UNCHANGED <<session, timer, mine, current, lit, onStrip, flashes, present, rolledBack, disposed>>
    BY <1>3 DEF ApplyFails, AnswerRefused
  <2>2. Sides'
    BY <2>1 DEF WizardInv, Sides
  <2>3. /\ pc' \in [Handler -> Places] /\ Begun \subseteq Begun'
        /\ \A k \in Handler : k # m => pc'[k] = pc[k]
    BY <1>0, <2>1, Ends
  <2> QED BY <1>0, <2>1, <2>2, <2>3, CountStays, StaysWatched DEF WizardInv
<1> QED BY <1>1, <1>2, <1>3

\* An answer arms the timeout anew, or finds the device gone.
LEMMA AnswerKeeps ==
  ASSUME WizardInv, NEW m \in Message, NEW seen \in BOOLEAN, Answer(m, seen)
  PROVE  WizardInv'
<1>0. m \in Handler
  BY SessionFacts
<1>1. /\ pc[m] = "new" /\ session # NoSession /\ session \in Message
      /\ current' = [current EXCEPT ![session] = @ + 1]
      /\ UNCHANGED <<present, disposed>>
  BY SessionFacts DEF Answer
<1>2. lit' \in [Message -> BOOLEAN]
  <2>1. PICK b \in BOOLEAN : b = (lit[session] \/ seen)
    OBVIOUS
  <2>2. lit' = [lit EXCEPT ![session] = b]
    BY <2>1 DEF Answer
  <2> QED BY <2>2 DEF WizardInv, Sides
<1>3. CASE ~present
  <2>1. DropSession(m) /\ UNCHANGED flashes
    BY <1>3 DEF Answer
  <2>2. Sides'
    BY <1>1, <1>2, <2>1 DEF DropSession, Close, WizardInv, Sides
  <2>3. session' = NoSession /\ ~timer' /\ Finish(m)
    BY <2>1 DEF DropSession, Close
  <2>4. pc' \in [Handler -> Places] /\ Begun \subseteq Begun' /\ pc'[m] # "new"
    BY <1>0, <2>3, Ends
  <2> QED BY <1>1, <2>2, <2>3, <2>4, CountGrows, ClosedIsWatched DEF WizardInv
<1>4. CASE present
  <2>1. /\ timer' = TRUE /\ UNCHANGED <<session, rolledBack>>
        /\ Finish(m) \/ At(m, "applying") \/ At(m, "answering")
        /\ mine' = mine \/ mine' = [mine EXCEPT ![m] = session]
        /\ onStrip' \in {onStrip, "forced"}
        /\ flashes' = flashes \/ flashes' = flashes \cup {m}
    <3>1. CASE current[session] >= LastIndex
      <4>1. /\ timer' = TRUE /\ UNCHANGED flashes
            /\ IF lit'[session] THEN TakeSession(m, "applying")
                               ELSE Finish(m) /\ UNCHANGED <<session, mine, onStrip, rolledBack>>
        <5>1. ~(~present)
          BY <1>4
        <5>2. present /\ current[session] >= LastIndex
          BY <1>4, <3>1
        <5>3. ~(present /\ current[session] < LastIndex)
          BY <3>1, <1>1, WizardAssumption DEF WizardInv, Counted
        <5> QED BY <5>1, <5>2, <5>3, Zenon DEF Answer
      <4>2. CASE lit'[session]
        BY <4>1, <4>2 DEF TakeSession
      <4>3. CASE ~lit'[session]
        BY <4>1, <4>3
      <4> QED BY <4>2, <4>3
    <3>2. CASE ~(current[session] >= LastIndex)
      <4>1. current[session] < LastIndex
        BY <1>1, <3>2, WizardAssumption DEF WizardInv, Counted
      <4> QED BY <1>4, <3>2, <4>1 DEF Answer, Flash
    <3> QED BY <3>1, <3>2
  <2>2. Sides'
    BY <1>0, <1>1, <1>2, <2>1 DEF WizardInv, Sides
  <2>3. pc' \in [Handler -> Places] /\ Begun \subseteq Begun' /\ pc'[m] # "new"
    BY <1>0, <2>1, Goes, Ends DEF Places
  <2>4. timer' /\ session' # NoSession
    BY <1>1, <2>1
  <2> QED BY <1>1, <2>2, <2>3, <2>4, CountGrows, ArmedIsWatched DEF WizardInv
<1> QED BY <1>3, <1>4

\* What happens beside the handlers.
LEMMA BesideKeeps ==
  ASSUME WizardInv, (\E m \in Message : FlashDue(m)) \/ DeviceRemoved \/ Dispose
  PROVE  WizardInv'
<1>1. UNCHANGED <<pc, current, mine, lit>>
  BY DEF FlashDue, DeviceRemoved, Dispose
<1>2. Counted'
  BY <1>1 DEF WizardInv, Counted, Begun
<1>3. CASE (\E m \in Message : FlashDue(m)) \/ DeviceRemoved
  <2>1. UNCHANGED <<session, timer>>
    BY <1>3 DEF FlashDue, DeviceRemoved
  <2>2. Sides'
    BY <1>3 DEF FlashDue, DeviceRemoved, WizardInv, Sides
  <2>3. OpenSessionIsWatched' /\ TimerNeedsSession'
    BY <1>1, <2>1 DEF WizardInv, OpenSessionIsWatched, TimerNeedsSession
  <2> QED BY <1>2, <2>2, <2>3 DEF WizardInv
<1>4. CASE Dispose
  <2>1. session' = NoSession /\ ~timer'
    BY <1>4 DEF Dispose, Close
  <2>2. Sides'
    BY <1>1, <1>4 DEF Dispose, Close, WizardInv, Sides
  <2> QED BY <1>2, <2>1, <2>2, ClosedIsWatched DEF WizardInv
<1> QED BY <1>3, <1>4

\* Every step keeps it.
LEMMA NextWizard == WizardInv /\ [WizardNext]_wizardVars => WizardInv'
<1> SUFFICES ASSUME WizardInv, [WizardNext]_wizardVars PROVE WizardInv'
  OBVIOUS
<1>1. CASE UNCHANGED wizardVars
  BY <1>1 DEF wizardVars, WizardInv, Sides, Counted, Begun, OpenSessionIsWatched, TimerNeedsSession
<1>2. CASE WizardNext
  BY <1>2, StartWatched, EndingKeeps, ApplyKeeps, AnswerKeeps, BesideKeeps DEF WizardNext
<1> QED BY <1>1, <1>2

\* What it says of a state.
LEMMA WizardInvSays == WizardInv => WizardTypeOK
<1> SUFFICES ASSUME WizardInv PROVE WizardTypeOK
  OBVIOUS
<1>1. current \in [Message -> 0..(LastIndex + 1 + Cardinality(Message))]
  <2>1. \A s \in Message : current[s] \in 0..(LastIndex + 1 + Cardinality(Message))
    BY BegunFacts, WizardAssumption DEF WizardInv, Counted
  <2> QED BY <2>1 DEF WizardInv, Counted
<1> QED BY <1>1 DEF WizardInv, Sides, Counted, Places, WizardTypeOK

\* The lock of the wizard is never left without somebody who releases it, unless its
\* baseline could not be read, and no timeout outlives its session: for any number of
\* messages that overlap, any refusals and any strip (segment-wizard.ts).
THEOREM WizardIsWatched == WizardSpec => []SessionIsWatched
<1>1. WizardInv => OpenSessionIsWatched /\ TimerNeedsSession
  BY DEF WizardInv
<1> QED BY <1>1, InitWizard, NextWizard, WizardInvSays, PTL DEF WizardSpec, SessionIsWatched
=============================================================================
