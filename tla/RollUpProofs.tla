---------------------------- MODULE RollUpProofs ----------------------------
(***************************************************************************)
(* What the tree of cards and the roll-up of ItemWorkflow do, for every    *)
(* tree, flow and finite set of cards: the subtree as a least closed set,  *)
(* the step derived for a parent, and the walk of syncParentStatus, whose  *)
(* recursive definition is shown to satisfy its equation and to end.       *)
(***************************************************************************)
EXTENDS ItemWorkflow, FiniteSetTheorems, TLAPS

Items == [Cards -> Item]

-----------------------------------------------------------------------------
(* The tree. *)

LEMMA SubtreeLeast ==
  ASSUME NEW K, NEW c, NEW S, NEW T \in SUBSET S, Closed(K, c, S, T)
  PROVE  Subtree(K, c, S) \subseteq T
BY DEF Subtree

LEMMA SubtreeWithin ==
  ASSUME NEW K, NEW c, NEW S
  PROVE  Subtree(K, c, S) \subseteq S
BY DEF Subtree

LEMMA SubtreeRoot ==
  ASSUME NEW K, NEW S, NEW c \in S
  PROVE  c \in Subtree(K, c, S)
BY DEF Subtree, Closed

LEMMA SubtreeDown ==
  ASSUME NEW K, NEW c, NEW S, NEW d \in S, K[d].parent \in Subtree(K, c, S)
  PROVE  d \in Subtree(K, c, S)
BY DEF Subtree, Closed

\* The subtree is itself closed.
LEMMA SubtreeClosed ==
  ASSUME NEW K, NEW c, NEW S
  PROVE  Closed(K, c, S, Subtree(K, c, S))
BY SubtreeRoot, SubtreeDown DEF Closed

\* A card below c has its parent there.
LEMMA SubtreeUp ==
  ASSUME NEW K, NEW c, NEW S, NEW d \in Subtree(K, c, S), d # c
  PROVE  K[d].parent \in Subtree(K, c, S)
<1> DEFINE T == {x \in Subtree(K, c, S) : x = c \/ K[x].parent \in Subtree(K, c, S)}
<1>1. T \in SUBSET S
  BY SubtreeWithin
<1>2. {c} \cap S \subseteq T
  BY SubtreeRoot
<1>3. ASSUME NEW x \in S, K[x].parent \in T PROVE x \in T
  BY <1>3, SubtreeDown
<1>4. Closed(K, c, S, T)
  BY <1>2, <1>3 DEF Closed
<1>5. QED
  BY <1>1, <1>4, SubtreeLeast

LEMMA SubtreeTransitive ==
  ASSUME NEW K, NEW b, NEW c, NEW S, b \in Subtree(K, c, S)
  PROVE  Subtree(K, b, S) \subseteq Subtree(K, c, S)
<1>1. Closed(K, b, S, Subtree(K, c, S))
  BY SubtreeClosed DEF Closed
<1>2. QED
  BY <1>1, SubtreeLeast, SubtreeWithin

\* The subtree is a matter of the parents alone.
LEMMA SubtreeOfParents ==
  ASSUME NEW K, NEW J, NEW c, NEW S, \A d \in S : J[d].parent = K[d].parent
  PROVE  Subtree(J, c, S) = Subtree(K, c, S)
BY DEF Subtree, Closed

\* Nothing of a set that holds the parents of its cards is below a card outside it.
LEMMA NotBelow ==
  ASSUME NEW K, NEW U, NEW p, p \notin U, \A d \in U \cap Cards : K[d].parent \notin Cards \ U
  PROVE  Subtree(K, p, Cards) \cap U = {}
<1>1. Closed(K, p, Cards, Cards \ U)
  BY DEF Closed
<1>2. QED
  BY <1>1, SubtreeLeast

\* Two cards above the same card are above one another.
LEMMA OneChain ==
  ASSUME NEW K, NEW S \in SUBSET Cards, NEW c, NEW p,
         NEW d \in Subtree(K, c, S), d \in Under(K, p)
  PROVE  p \in Subtree(K, c, S) \/ c \in Under(K, p)
<1> DEFINE T == {x \in Subtree(K, c, S) :
                   x \in Under(K, p) => (p \in Subtree(K, c, S) \/ c \in Under(K, p))}
<1>1. T \in SUBSET S
  BY SubtreeWithin
<1>2. {c} \cap S \subseteq T
  BY SubtreeRoot
<1>3. ASSUME NEW x \in S, K[x].parent \in T PROVE x \in T
  <2>1. x \in Subtree(K, c, S)
    BY <1>3, SubtreeDown
  <2>2. ASSUME x \in Under(K, p) PROVE p \in Subtree(K, c, S) \/ c \in Under(K, p)
    <3>1. K[x].parent \in Subtree(K, p, Cards)
      BY <2>2, SubtreeUp DEF Under
    <3>2. QED
      BY <1>3, <3>1 DEF Under
  <2>3. QED
    BY <2>1, <2>2
<1>4. Closed(K, c, S, T)
  BY <1>2, <1>3 DEF Closed
<1>5. d \in T
  BY <1>1, <1>4, SubtreeLeast
<1>6. QED
  BY <1>5

-----------------------------------------------------------------------------
(* The step derived for a parent. *)

LEMMA MinOfSteps ==
  ASSUME NEW S \in SUBSET Nat, S # {}
  PROVE  Min(S) \in S /\ \A x \in S : Min(S) <= x
<1> DEFINE R == OpToRel(<, Nat)
<1>1. \E x \in S : \A y \in S : <<y, x>> \notin R
  BY NatLessThanWellFounded, WFMin
<1>2. \A x, y \in Nat : <<y, x>> \notin R => x <= y
  BY DEF OpToRel
<1>3. \E x \in S : \A y \in S : x <= y
  BY <1>1, <1>2
<1>4. QED
  BY <1>3 DEF Min

\* The stop is where the last child stands, or a review before it that the parent
\* has yet to leave, and never past such a review.
LEMMA StopIs ==
  ASSUME NEW K, NEW p, NEW laggard \in Steps, K[p].status \in Steps
  PROVE  /\ Stop(K, p, laggard) \in Steps
         /\ Stop(K, p, laggard) <= laggard
         /\ \/ Stop(K, p, laggard) = laggard
            \/ (Stop(K, p, laggard) \in ReviewAt /\ K[p].status <= Stop(K, p, laggard))
         /\ \A i \in ReviewAt : K[p].status <= i => Stop(K, p, laggard) <= i
<1> DEFINE S == {laggard} \cup {i \in ReviewAt : K[p].status <= i /\ i < laggard}
<1>1. S \in SUBSET Nat /\ S # {} /\ S \subseteq Steps
  <2>1. ReviewAt \subseteq Steps
    BY WorkflowAssumption DEF Steps
  <2>2. Steps \subseteq Nat
    BY DEF Steps
  <2>3. QED
    BY <2>1, <2>2
<1>2. Min(S) \in S /\ \A x \in S : Min(S) <= x
  BY <1>1, MinOfSteps
<1>3. Stop(K, p, laggard) = Min(S)
  BY DEF Stop
<1> HIDE DEF S
<1>4. laggard \in S /\ \A i \in ReviewAt : K[p].status <= i /\ i < laggard => i \in S
  BY DEF S
<1>5. Min(S) = laggard \/ (Min(S) \in ReviewAt /\ K[p].status <= Min(S))
  BY <1>2 DEF S
<1>6. ASSUME NEW i \in ReviewAt, K[p].status <= i PROVE Min(S) <= i
  <2>1. i \in Nat /\ laggard \in Nat /\ Min(S) \in Nat
    BY <1>1, <1>2, WorkflowAssumption DEF Steps
  <2>2. CASE i < laggard
    BY <1>2, <1>4, <1>6, <2>2
  <2>3. CASE laggard <= i
    BY <1>2, <1>4, <2>1, <2>3
  <2>4. QED
    BY <2>1, <2>2, <2>3
<1>7. QED
  BY <1>1, <1>2, <1>3, <1>4, <1>5, <1>6

LEMMA PlacedIs ==
  ASSUME NEW K, NEW p
  PROVE  /\ Placed(K, p) \in SUBSET Nat
         /\ Placed(K, p) \subseteq Steps
         /\ \A d \in Cards : K[d].parent = p /\ K[d].status \in Steps
                             => K[d].status \in Placed(K, p)
BY WorkflowAssumption DEF Placed, Steps

\* All that the proofs below need of the derived step.
LEMMA DerivedIs ==
  ASSUME NEW K, NEW p
  PROVE  LET own == K[p].status  step == Derived(K, p) IN
         step # own =>
           /\ own \in Steps /\ step \in Steps /\ own < step
           /\ \A d \in Cards : K[d].parent = p /\ K[d].status \in Steps => step <= K[d].status
           /\ \A i \in ReviewAt : own <= i => step <= i
           /\ step = Last => OpenDescendants(K, p) = {} /\ ~OwesSuite(K, p)
           /\ step \in ReviewAt \/ (step = Last - 1 /\ OwesSuite(K, p))
                \/ (Placed(K, p) # {} /\ step = Min(Placed(K, p)))
<1> DEFINE own     == K[p].status
           laggard == Min(Placed(K, p))
           stop    == Stop(K, p, laggard)
           step    == IF stop = Last /\ OwesSuite(K, p) THEN Last - 1 ELSE stop
<1>1. SUFFICES ASSUME Derived(K, p) # own
               PROVE  /\ own \in Steps /\ Derived(K, p) \in Steps /\ own < Derived(K, p)
                      /\ \A d \in Cards : K[d].parent = p /\ K[d].status \in Steps
                                          => Derived(K, p) <= K[d].status
                      /\ \A i \in ReviewAt : own <= i => Derived(K, p) <= i
                      /\ Derived(K, p) = Last => OpenDescendants(K, p) = {} /\ ~OwesSuite(K, p)
                      /\ Derived(K, p) \in ReviewAt
                           \/ (Derived(K, p) = Last - 1 /\ OwesSuite(K, p))
                           \/ (Placed(K, p) # {} /\ Derived(K, p) = laggard)
  OBVIOUS
<1>2. own \in Steps /\ Placed(K, p) # {} /\ Derived(K, p) = step
      /\ ~(step <= own) /\ ~(step = Last /\ OpenDescendants(K, p) # {})
  BY <1>1 DEF Derived
<1>3. laggard \in Placed(K, p) /\ \A x \in Placed(K, p) : laggard <= x
  BY <1>2, PlacedIs, MinOfSteps
<1>4. laggard \in Steps
  BY <1>3, PlacedIs
<1>5. /\ stop \in Steps /\ stop <= laggard
      /\ stop = laggard \/ (stop \in ReviewAt /\ own <= stop)
      /\ \A i \in ReviewAt : own <= i => stop <= i
  BY <1>2, <1>4, StopIs
<1> HIDE DEF own, laggard, stop
<1>6. Last \in Nat /\ Last > 2
  BY WorkflowAssumption
<1>7. step \in Steps /\ step <= stop
  BY <1>5, <1>6 DEF Steps
<1>8. own < step
  BY <1>2, <1>6, <1>7 DEF Steps
<1>9. ASSUME NEW d \in Cards, K[d].parent = p, K[d].status \in Steps
      PROVE  step <= K[d].status
  <2>1. laggard <= K[d].status
    BY <1>3, <1>9, PlacedIs
  <2>2. QED
    BY <1>4, <1>5, <1>7, <1>9, <2>1, WorkflowAssumption DEF Steps
<1>10. ASSUME NEW i \in ReviewAt, own <= i PROVE step <= i
  BY <1>5, <1>6, <1>7, <1>10, WorkflowAssumption DEF Steps
<1>11. step = Last => OpenDescendants(K, p) = {} /\ ~OwesSuite(K, p)
  BY <1>2, <1>6
<1>12. step \in ReviewAt \/ (step = Last - 1 /\ OwesSuite(K, p)) \/ step = laggard
  BY <1>5
<1>13. QED
  BY <1>2, <1>7, <1>8, <1>9, <1>10, <1>11, <1>12

\* A card that is not below p has no say in the step of p.
LEMMA DerivedElsewhere ==
  ASSUME NEW K, NEW J, NEW p \in Cards, NEW x, x \notin Subtree(K, p, Cards),
         \A d \in Cards : J[d].parent = K[d].parent /\ J[d].deferredTo = K[d].deferredTo,
         \A d \in Cards \ {x} : J[d].status = K[d].status
  PROVE  Derived(J, p) = Derived(K, p)
<1>1. p # x
  BY SubtreeRoot
<1>2. \A d \in Cards : K[d].parent = p => d # x
  BY SubtreeRoot, SubtreeDown
<1>3. Placed(J, p) = Placed(K, p)
  BY <1>2 DEF Placed
<1>4. OwesSuite(J, p) = OwesSuite(K, p)
  BY <1>2 DEF OwesSuite
<1>5. OpenDescendants(J, p) = OpenDescendants(K, p)
  <2>1. Under(J, p) = Under(K, p)
    BY SubtreeOfParents DEF Under
  <2>2. x \notin Under(K, p) /\ Under(K, p) \subseteq Cards
    BY SubtreeWithin DEF Under
  <2>3. QED
    BY <2>1, <2>2 DEF OpenDescendants
<1>6. J[p].status = K[p].status
  BY <1>1
<1>7. \A l : Stop(J, p, l) = Stop(K, p, l)
  BY <1>6 DEF Stop
<1>8. QED
  BY <1>3, <1>4, <1>5, <1>6, <1>7 DEF Derived

\* Once derived, a card is not held: deriving it again would not close it.
LEMMA DerivedOnce ==
  ASSUME NEW K \in Items, NEW p \in Cards, NEW J,
         J = [K EXCEPT ![p].status = Derived(K, p)]
  PROVE  ~Held(J, p)
<1> SUFFICES ASSUME Held(J, p) PROVE FALSE
  OBVIOUS
<1> DEFINE own == K[p].status  step == Derived(K, p)
<1>1. J[p].status = step /\ \A d \in Cards \ {p} : J[d] = K[d]
  BY DEF Items, Item
<1>2. \A d \in Cards : J[d].parent = K[d].parent /\ J[d].deferredTo = K[d].deferredTo
  BY DEF Items, Item
<1>3. step \in 1..(Last - 1) /\ Derived(J, p) = Last
  BY <1>1 DEF Held
<1>4. Last \in Nat /\ Last > 2
  BY WorkflowAssumption
<1>5. step # own
  <2> SUFFICES ASSUME step = own PROVE FALSE
    OBVIOUS
  <2>1. J = K
    BY DEF Items, Item
  <2>2. QED
    BY <1>3, <1>4, <2>1
<1>6. /\ own \in Steps /\ own < step
      /\ \A d \in Cards : K[d].parent = p /\ K[d].status \in Steps => step <= K[d].status
      /\ \/ step \in ReviewAt
         \/ step = Last - 1 /\ OwesSuite(K, p)
         \/ (Placed(K, p) # {} /\ step = Min(Placed(K, p)))
  BY <1>5, DerivedIs
<1>7. K[p].parent # p
  BY <1>3, <1>4, <1>6 DEF Steps
<1>8. Derived(J, p) # J[p].status
  BY <1>1, <1>3, <1>4
<1>9. /\ \A d \in Cards : J[d].parent = p /\ J[d].status \in Steps => Last <= J[d].status
      /\ \A i \in ReviewAt : step <= i => Last <= i
      /\ ~OwesSuite(J, p)
  <2>1. /\ \A d \in Cards : J[d].parent = p /\ J[d].status \in Steps
                            => Derived(J, p) <= J[d].status
        /\ \A i \in ReviewAt : J[p].status <= i => Derived(J, p) <= i
        /\ Derived(J, p) = Last => ~OwesSuite(J, p)
    BY <1>8, DerivedIs
  <2>2. QED
    BY <1>1, <1>3, <2>1
<1>10. step \notin ReviewAt
  BY <1>3, <1>4, <1>9
<1>11. ~OwesSuite(K, p)
  BY <1>1, <1>2, <1>7, <1>9 DEF OwesSuite
<1>12. Placed(K, p) # {} /\ step = Min(Placed(K, p))
  BY <1>6, <1>10, <1>11
<1>13. PICK d \in Cards : K[d].parent = p /\ K[d].status = step
  <2>1. step \in Placed(K, p)
    BY <1>12, PlacedIs, MinOfSteps
  <2>2. QED
    BY <2>1 DEF Placed
<1>14. J[d].parent = p /\ J[d].status = step
  BY <1>1, <1>7, <1>13
<1>15. QED
  BY <1>3, <1>4, <1>9, <1>14 DEF Steps

-----------------------------------------------------------------------------
(* The walk.  SyncParentStatus is defined by recursion along Climb: an explicit *)
(* function, from a walk to where the walks reached from it end, shows that the *)
(* recursion has a solution; that the cards still unseen are finitely many and  *)
(* ever fewer shows that every walk ends.                                       *)

LEMMA ClimbTyped ==
  ASSUME NEW w \in Walk, ~Arrived(w)
  PROVE  /\ Climb(w) \in Walk
         /\ w.at \in Cards \ w.seen
         /\ Climb(w).items = [w.items EXCEPT ![w.at].status = Derived(w.items, w.at)]
         /\ Climb(w).seen = w.seen \cup {w.at}
         /\ Climb(w).released = Releases(w.items, w.at, w.released)
         /\ Climb(w).at = IF \/ Derived(w.items, w.at) # w.items[w.at].status
                             \/ Releases(w.items, w.at, w.released)
                          THEN w.items[w.at].parent ELSE NoCard
<1>1. w.at \in Cards \ w.seen /\ w.items \in [Cards -> Item]
      /\ w.released \in BOOLEAN /\ w.seen \subseteq Cards
  BY DEF Walk, Arrived
<1>2. w.items[w.at] \in Item
  BY <1>1
<1>3. Derived(w.items, w.at) \in Steps \cup {w.items[w.at].status}
  BY DerivedIs
<1>4. [w.items[w.at] EXCEPT !.status = Derived(w.items, w.at)] \in Item
  BY <1>2, <1>3 DEF Item
<1>5. [w.items EXCEPT ![w.at].status = Derived(w.items, w.at)] \in [Cards -> Item]
  BY <1>1, <1>4
<1>6. Releases(w.items, w.at, w.released) \in BOOLEAN
  BY DEF Releases
<1>7. w.items[w.at].parent \in Cards \cup {NoCard}
  BY <1>2 DEF Item
<1>8. QED
  BY <1>1, <1>5, <1>6, <1>7 DEF Climb, Walk

\* What a set of walks that goes on with each holds once it holds w.
GoesOn(U) == \A v \in U : ~Arrived(v) => Climb(v) \in U
Reached(w) == {v \in Walk : \A U \in SUBSET Walk : w \in U /\ GoesOn(U) => v \in U}
Landings(w) == {v \in Reached(w) : Arrived(v)}
Landing(w) == CHOOSE v \in Landings(w) : TRUE

LEMMA ReachedArrived ==
  ASSUME NEW w \in Walk, Arrived(w)
  PROVE  Landings(w) = {w}
<1>1. GoesOn({w})
  BY DEF GoesOn
<1>2. QED
  BY <1>1 DEF Landings, Reached

LEMMA ReachedClimb ==
  ASSUME NEW w \in Walk, ~Arrived(w)
  PROVE  Landings(w) = Landings(Climb(w))
<1>1. Climb(w) \in Walk
  BY ClimbTyped
<1>2. Reached(Climb(w)) \subseteq Reached(w)
  BY <1>1 DEF Reached, GoesOn
<1>3. Reached(w) \subseteq {w} \cup Reached(Climb(w))
  <2> DEFINE U == {w} \cup Reached(Climb(w))
  <2>1. U \in SUBSET Walk
    BY DEF Reached
  <2>2. Climb(w) \in Reached(Climb(w))
    BY <1>1 DEF Reached
  <2>3. GoesOn(Reached(Climb(w)))
    <3> SUFFICES ASSUME NEW v \in Reached(Climb(w)), ~Arrived(v)
                 PROVE  Climb(v) \in Reached(Climb(w))
      BY DEF GoesOn
    <3>1. Climb(v) \in Walk
      BY ClimbTyped DEF Reached
    <3>2. QED
      BY <3>1 DEF Reached, GoesOn
  <2>4. GoesOn(U)
    BY <2>2, <2>3 DEF GoesOn
  <2>5. QED
    BY <2>1, <2>4 DEF Reached
<1>4. QED
  BY <1>2, <1>3 DEF Landings

\* The recursion that defines syncParentStatus holds of it, in any tree: whatever
\* cycle the parents are in, some function satisfies it (server.ts:899).
THEOREM SyncEquation ==
  ASSUME NEW w \in Walk
  PROVE  SyncParentStatus[w] = IF Arrived(w) THEN w.items ELSE SyncParentStatus[Climb(w)]
<1> DEFINE g == [v \in Walk |-> Landing(v).items]
<1>1. ASSUME NEW v \in Walk PROVE g[v] = IF Arrived(v) THEN v.items ELSE g[Climb(v)]
  <2>1. CASE Arrived(v)
    <3>1. Landing(v) = v
      BY <2>1, ReachedArrived DEF Landing
    <3>2. QED
      BY <2>1, <3>1
  <2>2. CASE ~Arrived(v)
    <3>1. Landing(v) = Landing(Climb(v))
      BY <2>2, ReachedClimb DEF Landing
    <3>2. Climb(v) \in Walk
      BY <2>2, ClimbTyped
    <3>3. QED
      BY <2>2, <3>1, <3>2
  <2>3. QED
    BY <2>1, <2>2
<1>2. g = [v \in Walk |-> IF Arrived(v) THEN v.items ELSE g[Climb(v)]]
  BY <1>1
<1> HIDE DEF g
<1>3. SyncParentStatus = [v \in Walk |-> IF Arrived(v) THEN v.items ELSE SyncParentStatus[Climb(v)]]
  BY <1>2 DEF SyncParentStatus
<1>4. QED
  BY <1>3

\* What one step of the walk keeps is true when the walk ends, and it does end: the
\* cards it has seen only grow (server.ts:899, 1012).
THEOREM WalkEnds ==
  ASSUME NEW U \in SUBSET Walk, GoesOn(U), NEW w \in U
  PROVE  \E v \in U : Arrived(v) /\ SyncParentStatus[w] = v.items
<1> DEFINE Good(u) == \E v \in U : Arrived(v) /\ SyncParentStatus[u] = v.items
           Left(u) == Cards \ u.seen
           Bad     == {Left(u) : u \in {v \in U : ~Good(v)}}
           R       == StrictSubsetOrdering(Cards)
<1>1. IsWellFoundedOn(R, SUBSET Cards)
  BY FS_StrictSubsetOrderingWellFounded, FS_FiniteSubsetsOfFinite, WorkflowAssumption
<1>2. SUFFICES ASSUME ~Good(w) PROVE FALSE
  OBVIOUS
<1>3. Bad \subseteq SUBSET Cards /\ Bad # {}
  BY <1>2
<1>4. PICK m \in Bad : \A n \in Bad : <<n, m>> \notin R
  <2> HIDE DEF Bad, R
  <2>1. QED
    BY <1>1, <1>3, WFMin
<1>5. PICK u \in U : ~Good(u) /\ m = Left(u)
  OBVIOUS
<1>6. u \in Walk
  OBVIOUS
<1>7. ~Arrived(u)
  BY <1>5, <1>6, SyncEquation
<1>8. /\ Climb(u) \in U /\ Climb(u).seen = u.seen \cup {u.at} /\ u.at \in Cards \ u.seen
      /\ SyncParentStatus[u] = SyncParentStatus[Climb(u)]
  BY <1>6, <1>7, ClimbTyped, SyncEquation DEF GoesOn
<1>9. ~Good(Climb(u))
  BY <1>5, <1>8
<1>10. Left(Climb(u)) \in Bad
  BY <1>8, <1>9
<1>11. <<Left(Climb(u)), m>> \in R
  BY <1>5, <1>8 DEF StrictSubsetOrdering
<1>12. QED
  BY <1>4, <1>10, <1>11

-----------------------------------------------------------------------------
(* What a roll-up makes of the cards. *)

\* The cards differ in their status alone, and only forward along the flow.
Forward(K, J) ==
  /\ J \in Items
  /\ \A c \in Cards :
       /\ J[c].parent = K[c].parent /\ J[c].deferredTo = K[c].deferredTo
       /\ J[c].prev = K[c].prev /\ J[c].snapshot = K[c].snapshot
       /\ J[c].status # K[c].status
          => K[c].status \in Steps /\ J[c].status \in Steps /\ K[c].status < J[c].status

\* No card is carried past its review.
StopsAtReview(K, J) ==
  \A c \in Cards, i \in ReviewAt : K[c].status \in 1..i => J[c].status \in 1..i

\* Nothing under the card is open, and no suite run is owed to it.
Whole(J, c) ==
  /\ OpenDescendants(J, c) = {}
  /\ \A d \in Cards : J[d].parent = c /\ J[d].deferredTo = c
                      => J[d].status \in {TRASHED, ARCHIVED}

ShutsWhole(K, J) ==
  \A c \in Cards : J[c].status = Last /\ K[c].status # Last => Whole(J, c)

Raised(K, J) == Forward(K, J) /\ StopsAtReview(K, J) /\ ShutsWhole(K, J)

LEMMA ForwardSubtree ==
  ASSUME NEW K, NEW J, Forward(K, J), NEW c
  PROVE  Subtree(J, c, Cards) = Subtree(K, c, Cards) /\ Under(J, c) = Under(K, c)
BY SubtreeOfParents DEF Forward, Under

LEMMA RaisedNothing ==
  ASSUME NEW K \in Items
  PROVE  Raised(K, K)
BY DEF Raised, Forward, StopsAtReview, ShutsWhole

\* What is whole stays whole as cards go forward.
LEMMA WholeStays ==
  ASSUME NEW K \in Items, NEW J, Forward(K, J), NEW c \in Cards, Whole(K, c)
  PROVE  Whole(J, c)
<1>1. ASSUME NEW d \in Cards, K[d].status \in Finished PROVE J[d].status = K[d].status
  <2>1. K[d].status \in Steps => K[d].status = Last
    BY <1>1, WorkflowAssumption DEF Finished, Steps, IDEAS, ARCHIVED, TRASHED
  <2>2. J[d].status \in Steps => J[d].status <= Last
    BY WorkflowAssumption DEF Steps
  <2>3. QED
    BY <2>1, <2>2, WorkflowAssumption DEF Forward, Steps
<1>2. OpenDescendants(J, c) = {}
  <2>1. Under(K, c) \subseteq Cards
    BY SubtreeWithin DEF Under
  <2>2. QED
    BY <1>1, <2>1, ForwardSubtree DEF Whole, OpenDescendants
<1>3. ASSUME NEW d \in Cards, J[d].parent = c, J[d].deferredTo = c
      PROVE  J[d].status \in {TRASHED, ARCHIVED}
  <2>1. K[d].status \in {TRASHED, ARCHIVED}
    BY <1>3 DEF Whole, Forward
  <2>2. QED
    BY <1>1, <2>1 DEF Finished
<1>4. QED
  BY <1>2, <1>3 DEF Whole

LEMMA RaisedTwice ==
  ASSUME NEW K \in Items, NEW J, NEW I, Raised(K, J), Raised(J, I)
  PROVE  Raised(K, I)
<1>1. Forward(K, I)
  BY WorkflowAssumption DEF Raised, Forward, Steps
<1>2. StopsAtReview(K, I)
  BY DEF Raised, StopsAtReview
<1>3. J \in Items
  BY DEF Raised, Forward
<1>4. ASSUME NEW c \in Cards, I[c].status = Last, K[c].status # Last PROVE Whole(I, c)
  <2>1. CASE J[c].status = Last
    BY <1>3, <1>4, <2>1, WholeStays DEF Raised, ShutsWhole
  <2>2. CASE J[c].status # Last
    BY <1>4, <2>2 DEF Raised, ShutsWhole
  <2>3. QED
    BY <2>1, <2>2
<1>5. QED
  BY <1>1, <1>2, <1>4 DEF Raised, ShutsWhole

\* One card derived.
LEMMA RaisedByOne ==
  ASSUME NEW K \in Items, NEW p \in Cards, NEW J \in Items,
         J = [K EXCEPT ![p].status = Derived(K, p)]
  PROVE  Raised(K, J)
<1>1. \A d \in Cards \ {p} : J[d] = K[d]
  BY DEF Items
<1>2. /\ J[p].status = Derived(K, p)
      /\ J[p].parent = K[p].parent /\ J[p].deferredTo = K[p].deferredTo
      /\ J[p].prev = K[p].prev /\ J[p].snapshot = K[p].snapshot
  BY DEF Items, Item
<1>3. Forward(K, J)
  BY <1>1, <1>2, DerivedIs DEF Forward
<1>4. ASSUME NEW c \in Cards, NEW i \in ReviewAt, K[c].status \in 1..i
      PROVE  J[c].status \in 1..i
  <2>1. CASE c # p \/ Derived(K, p) = K[p].status
    BY <1>1, <1>2, <1>4, <2>1
  <2>2. CASE c = p /\ Derived(K, p) # K[p].status
    <3>1. Derived(K, p) \in Steps /\ Derived(K, p) <= i
      BY <1>4, <2>2, DerivedIs, WorkflowAssumption DEF Steps
    <3>2. QED
      BY <1>2, <2>2, <3>1, WorkflowAssumption DEF Steps
  <2>3. QED
    BY <2>1, <2>2
<1>5. ASSUME NEW c \in Cards, J[c].status = Last, K[c].status # Last PROVE Whole(J, c)
  <2>1. c = p /\ Derived(K, p) = Last /\ K[p].status # Last
    BY <1>1, <1>2, <1>5
  <2>2. OpenDescendants(K, p) = {} /\ ~OwesSuite(K, p)
    BY <2>1, DerivedIs
  <2>3. Whole(K, p)
    BY <2>2 DEF Whole, OwesSuite
  <2>4. QED
    BY <1>3, <2>1, <2>3, WholeStays
<1>6. QED
  BY <1>3, <1>4, <1>5 DEF Raised, StopsAtReview, ShutsWhole

LEMMA RollUpStarts ==
  ASSUME NEW K \in Items, NEW p \in Cards \cup {NoCard}, NEW r \in BOOLEAN
  PROVE  \E w \in Walk : /\ w.items = K /\ w.at = p /\ w.released = r /\ w.seen = {}
                         /\ RolledUp(K, p, r) = SyncParentStatus[w]
<1> DEFINE w == [items |-> K, at |-> p, released |-> r, seen |-> {}]
<1>1. w \in Walk
  BY DEF Walk, Items
<1>2. QED
  BY <1>1 DEF RolledUp

\* A roll-up moves cards forward alone, none past its review, and closes none over
\* open work or before a suite run that is owed to it (server.ts:934, 957, 979).
THEOREM RollUpRaises ==
  ASSUME NEW K \in Items, NEW p \in Cards \cup {NoCard}, NEW r \in BOOLEAN
  PROVE  Raised(K, RolledUp(K, p, r))
<1> DEFINE U == {w \in Walk : Raised(K, w.items)}
<1>1. PICK w \in Walk : w.items = K /\ RolledUp(K, p, r) = SyncParentStatus[w]
  BY RollUpStarts
<1>2. w \in U
  BY <1>1, RaisedNothing
<1>3. GoesOn(U)
  <2> SUFFICES ASSUME NEW v \in U, ~Arrived(v) PROVE Climb(v) \in U
    BY DEF GoesOn
  <2>1. v.items \in Items /\ v.at \in Cards /\ Climb(v) \in Walk /\ Climb(v).items \in Items
    BY ClimbTyped DEF Walk, Items
  <2>2. Raised(v.items, Climb(v).items)
    BY <2>1, ClimbTyped, RaisedByOne
  <2>3. QED
    BY <2>1, <2>2, RaisedTwice
<1>4. \E v \in U : SyncParentStatus[w] = v.items
  BY <1>2, <1>3, WalkEnds
<1>5. QED
  BY <1>1, <1>4

\* A roll-up set off below by a card that is at work closes nobody.
LEMMA RollUpOpen ==
  ASSUME NEW K \in Items, NEW c \in Cards, K[c].status \in 1..(Last - 1),
         NEW d \in Cards, RolledUp(K, K[c].parent, FALSE)[d].status = Last
  PROVE  K[d].status = Last
<1> DEFINE Shut(v)  == \A x \in Cards : v.items[x].status = Last => K[x].status = Last
           Open(v)  == v.at \in Cards => \E x \in Cards : /\ v.items[x].parent = v.at
                                                         /\ v.items[x].status \in 1..(Last - 1)
           U        == {v \in Walk : v.released = FALSE /\ Shut(v) /\ Open(v)}
<1>1. K[c].parent \in Cards \cup {NoCard}
  BY DEF Items, Item
<1>2. PICK w \in Walk : /\ w.items = K /\ w.at = K[c].parent /\ w.released = FALSE
                        /\ RolledUp(K, K[c].parent, FALSE) = SyncParentStatus[w]
  <2>1. \A r \in BOOLEAN :
          \E w \in Walk : /\ w.items = K /\ w.at = K[c].parent /\ w.released = r
                          /\ RolledUp(K, K[c].parent, r) = SyncParentStatus[w]
    BY <1>1, RollUpStarts
  <2>2. FALSE \in BOOLEAN
    OBVIOUS
  <2>3. QED
    BY <2>1, <2>2, Zenon
<1>3. w \in U
  BY <1>2
<1>4. GoesOn(U)
  <2> SUFFICES ASSUME NEW v \in U, ~Arrived(v) PROVE Climb(v) \in U
    BY DEF GoesOn
  <2> DEFINE x == v.at  I == v.items  J == Climb(v).items
  <2>1. I \in Items /\ x \in Cards /\ Climb(v) \in Walk /\ J \in Items
    BY ClimbTyped DEF Walk, Items
  <2>2. J = [I EXCEPT ![x].status = Derived(I, x)]
    BY ClimbTyped
  <2>3. /\ \A y \in Cards \ {x} : J[y] = I[y]
        /\ J[x].status = Derived(I, x) /\ J[x].parent = I[x].parent
    BY <2>1, <2>2 DEF Items, Item
  <2>4. PICK y \in Cards : I[y].parent = x /\ I[y].status \in 1..(Last - 1)
    BY <2>1
  <2>5. Derived(I, x) # I[x].status => Derived(I, x) \in 1..(Last - 1)
    BY <2>4, DerivedIs, WorkflowAssumption DEF Steps
  <2>6. Releases(I, x, v.released) = FALSE
    BY <2>5, WorkflowAssumption DEF Releases
  <2>7. Shut(Climb(v))
    BY <2>3, <2>5, WorkflowAssumption
  <2>8. Open(Climb(v))
    <3> SUFFICES ASSUME Climb(v).at \in Cards
                 PROVE  J[x].parent = Climb(v).at /\ J[x].status \in 1..(Last - 1)
      BY <2>1
    <3>1. Derived(I, x) # I[x].status /\ Climb(v).at = I[x].parent
      BY <2>6, ClimbTyped, WorkflowAssumption
    <3>2. QED
      BY <2>3, <2>5, <3>1
  <2>9. Climb(v).released = FALSE
    BY <2>6, ClimbTyped
  <2>10. QED
    BY <2>1, <2>7, <2>8, <2>9
<1>5. \E v \in U : SyncParentStatus[w] = v.items
  BY <1>3, <1>4, WalkEnds
<1>6. QED
  BY <1>2, <1>5

\* Something below p is finished, or out of play, that was not in O.
FreedBelow(O, K, p) ==
  \E d \in Under(K, p) : K[d].status \in Finished /\ O[d].status \notin Finished

\* A card with something freed below it is not held, unless the walk is yet to come by.
NotHeldYet(O, w) ==
  \A p \in Cards :
    FreedBelow(O, w.items, p)
    => ~Held(w.items, p) \/ (p \notin w.seen /\ w.released /\ w.at \in Subtree(w.items, p, Cards))

\* The cards seen are a chain that the walk's next card is the top of.
ChainSeen(w) ==
  /\ w.at \in Cards => \A s \in w.seen : s \in Subtree(w.items, w.at, Cards)
  /\ w.at \in Cards => \A s \in w.seen : w.items[s].parent \in w.seen \cup {w.at}

LEMMA ClimbChain ==
  ASSUME NEW w \in Walk, ~Arrived(w), ChainSeen(w)
  PROVE  ChainSeen(Climb(w))
<1> DEFINE x == w.at  K == w.items  J == Climb(w).items  y == Climb(w).at
<1>1. /\ K \in Items /\ x \in Cards \ w.seen /\ Climb(w) \in Walk /\ J \in Items
      /\ Climb(w).seen = w.seen \cup {x} /\ w.seen \subseteq Cards
  BY ClimbTyped DEF Walk, Items
<1>2. J = [K EXCEPT ![x].status = Derived(K, x)]
  BY ClimbTyped
<1>3. Forward(K, J)
  BY <1>1, <1>2, RaisedByOne DEF Raised
<1>4. SUFFICES ASSUME y \in Cards
               PROVE  /\ \A s \in w.seen \cup {x} : s \in Subtree(J, y, Cards)
                      /\ \A s \in w.seen \cup {x} : J[s].parent \in w.seen \cup {x, y}
  BY <1>1 DEF ChainSeen
<1>5. y = K[x].parent
  BY <1>4, ClimbTyped, WorkflowAssumption
<1>6. x \in Subtree(K, y, Cards)
  BY <1>1, <1>4, <1>5, SubtreeRoot, SubtreeDown
<1>7. Subtree(K, x, Cards) \subseteq Subtree(K, y, Cards)
  BY <1>6, SubtreeTransitive
<1>8. \A s \in w.seen \cup {x} : s \in Subtree(K, y, Cards)
  BY <1>1, <1>6, <1>7 DEF ChainSeen
<1>9. \A s \in w.seen \cup {x} : J[s].parent \in w.seen \cup {x, y}
  BY <1>1, <1>3, <1>5 DEF ChainSeen, Forward
<1>10. QED
  BY <1>3, <1>8, <1>9, ForwardSubtree

\* One card of the walk keeps the promise of NotHeldYet.
LEMMA ClimbFrees ==
  ASSUME NEW O, NEW w \in Walk, ~Arrived(w), ChainSeen(w), NotHeldYet(O, w)
  PROVE  NotHeldYet(O, Climb(w))
<1> DEFINE x == w.at  K == w.items  J == Climb(w).items  y == Climb(w).at
<1>1. /\ K \in Items /\ x \in Cards \ w.seen /\ Climb(w) \in Walk /\ J \in Items
      /\ Climb(w).seen = w.seen \cup {x} /\ w.seen \subseteq Cards
      /\ Climb(w).released = Releases(K, x, w.released)
  BY ClimbTyped DEF Walk, Items
<1>2. J = [K EXCEPT ![x].status = Derived(K, x)]
  BY ClimbTyped
<1>3. Forward(K, J)
  BY <1>1, <1>2, RaisedByOne DEF Raised
<1>4. /\ J[x].status = Derived(K, x)
      /\ \A d \in Cards \ {x} : J[d] = K[d]
  BY <1>1, <1>2 DEF Items, Item
<1>5. SUFFICES ASSUME NEW p \in Cards, FreedBelow(O, J, p), Held(J, p)
               PROVE  /\ p \notin w.seen \cup {x} /\ Releases(K, x, w.released)
                      /\ y \in Subtree(J, p, Cards)
  BY <1>1 DEF NotHeldYet
<1>6. p # x
  BY <1>1, <1>2, <1>5, DerivedOnce
<1>7. Subtree(J, p, Cards) = Subtree(K, p, Cards) /\ Under(J, p) = Under(K, p)
      /\ Under(K, p) \subseteq Cards
  BY <1>3, ForwardSubtree, SubtreeWithin DEF Under
\* The walk goes on to the parent of x, which is below p if x is.
<1>8. ASSUME Releases(K, x, w.released), x \in Under(K, p)
      PROVE  y \in Subtree(J, p, Cards)
  <2>1. y = K[x].parent
    BY <1>8, ClimbTyped
  <2>2. QED
    BY <1>7, <1>8, <2>1, SubtreeUp DEF Under
<1>9. OpenDescendants(J, p) = {}
  <2>1. Derived(J, p) # J[p].status /\ Derived(J, p) = Last
    BY <1>5, WorkflowAssumption DEF Held
  <2>2. QED
    BY <2>1, DerivedIs
<1>10. J[p].status = K[p].status /\ K[p].status \in 1..(Last - 1)
  BY <1>4, <1>5, <1>6 DEF Held
\* What the walk would owe p already, from K.
<1>11. ASSUME FreedBelow(O, K, p), Held(K, p)
       PROVE  p \notin w.seen /\ w.released /\ x \in Under(K, p)
  BY <1>6, <1>11 DEF NotHeldYet, Under
<1>12. CASE x \notin Under(K, p)
  <2>1. x \notin Subtree(K, p, Cards)
    BY <1>6, <1>12 DEF Under
  <2>2. Derived(J, p) = Derived(K, p)
    BY <1>3, <1>4, <2>1, DerivedElsewhere DEF Forward
  <2>3. Held(K, p)
    BY <1>5, <1>10, <2>2 DEF Held
  <2>4. FreedBelow(O, K, p)
    BY <1>4, <1>5, <1>7, <1>12 DEF FreedBelow
  <2>5. QED
    BY <1>11, <1>12, <2>3, <2>4
<1>13. CASE x \in Under(K, p)
  <2>1. J[x].status \in Finished
    BY <1>7, <1>9, <1>13 DEF OpenDescendants
  <2>2. CASE Derived(K, x) # K[x].status
    <3>1. Derived(K, x) \in Steps
      BY <2>2, DerivedIs
    <3>2. Derived(K, x) = Last
      BY <1>4, <2>1, <3>1 DEF Finished, Steps, IDEAS, ARCHIVED, TRASHED
    <3>3. Releases(K, x, w.released)
      BY <2>2, <3>2 DEF Releases
    <3>4. OpenDescendants(K, x) = {}
      BY <2>2, <3>2, DerivedIs
    <3>5. p \notin w.seen
      <4> SUFFICES ASSUME p \in w.seen PROVE FALSE
        OBVIOUS
      <4>1. p \in Under(K, x)
        BY <1>1, <1>6 DEF ChainSeen, Under
      <4>2. K[p].status \in Finished
        BY <3>4, <4>1 DEF OpenDescendants
      <4>3. QED
        BY <1>10, <4>2, WorkflowAssumption DEF Finished, IDEAS, ARCHIVED, TRASHED
    <3>6. QED
      BY <1>6, <1>8, <1>13, <3>3, <3>5
  <2>3. CASE Derived(K, x) = K[x].status
    <3>1. J = K
      BY <1>1, <1>2, <2>3 DEF Items, Item
    <3>2. p \notin w.seen /\ w.released
      BY <1>5, <1>11, <3>1
    <3>3. Releases(K, x, w.released)
      BY <1>4, <2>1, <2>3, <3>2 DEF Releases
    <3>4. QED
      BY <1>6, <1>8, <1>13, <3>2, <3>3
  <2>4. QED
    BY <2>2, <2>3
<1>14. QED
  BY <1>12, <1>13

\* A roll-up that starts from below every card something was freed under, and is told
\* so, leaves none of them held (server.ts:1003).
THEOREM RollUpFrees ==
  ASSUME NEW O, NEW K \in Items, NEW p \in Cards \cup {NoCard}, NEW r \in BOOLEAN,
         \A x \in Cards : FreedBelow(O, K, x)
                          => ~Held(K, x) \/ (r /\ p \in Subtree(K, x, Cards)),
         NEW x \in Cards, FreedBelow(O, RolledUp(K, p, r), x)
  PROVE  ~Held(RolledUp(K, p, r), x)
<1> DEFINE U == {v \in Walk : ChainSeen(v) /\ NotHeldYet(O, v)}
<1>1. PICK w \in Walk : /\ w.items = K /\ w.at = p /\ w.released = r /\ w.seen = {}
                        /\ RolledUp(K, p, r) = SyncParentStatus[w]
  BY RollUpStarts
<1>2. w \in U
  BY <1>1 DEF ChainSeen, NotHeldYet
<1>3. GoesOn(U)
  BY ClimbTyped, ClimbChain, ClimbFrees DEF GoesOn
<1>4. PICK v \in U : Arrived(v) /\ SyncParentStatus[w] = v.items
  BY <1>2, <1>3, WalkEnds
<1>5. SUFFICES ASSUME x \notin v.seen, v.at \in Subtree(v.items, x, Cards) PROVE FALSE
  BY <1>1, <1>4 DEF NotHeldYet
<1>6. v.at \in Cards /\ v.at \in v.seen
  BY <1>4, <1>5, SubtreeWithin, WorkflowAssumption DEF Arrived
<1>7. \A s \in v.seen : v.items[s].parent \in v.seen
  BY <1>6 DEF ChainSeen
<1>8. Subtree(v.items, x, Cards) \cap v.seen = {}
  BY <1>5, <1>7, NotBelow
<1>9. QED
  BY <1>5, <1>6, <1>8
=============================================================================
