------------------------- MODULE GroupUpgradeProofs -------------------------
(***************************************************************************)
(* Theorems of GroupUpgrade for every number of machines, replicas and     *)
(* dispatches, and every bound.                                            *)
(***************************************************************************)
EXTENDS GroupUpgrade, FiniteSetTheorems, TLAPS

Told   == [left : Int, updated : Int]
Queued == [kind : {"progress"} \cup Answers, d : Nat, seq : Nat, said : Told]
Held   == [kind : {"nothing", "upgrade", "flow", "cancel", "progress"}, d : Nat,
           seq : Nat, said : Told]
Phases == {"idle", "polling", "cancelling", "served", "fanning", "refusing", "stopping",
           "prompting", "reporting", "recording"}
States == {"none", "pending", "running", "cancel-pending"} \cup Closed \cup Answers

\* What a tick works on suits the point it has reached.
Fits(h, p) ==
  /\ h \in Held /\ p \in Phases
  /\ h # Nothing => h.d \in 1..issued
  /\ h.kind = "flow" => h.d \in Flows
  /\ h.kind \in {"upgrade", "cancel"} => h.d \in Upgrades
  /\ p = "fanning" => h.kind = "upgrade"
  /\ p \in {"cancelling", "refusing", "stopping"} => h.kind = "cancel"
  /\ p = "prompting" => h.kind \in {"upgrade", "cancel"}
  /\ p = "recording" => h.kind = "progress"

TicksFit ==
  /\ hand \in [Ticks -> Held]
  /\ \A t \in Ticks : Fits(hand[t], phase[t])

Shape ==
  /\ TypeOK /\ TicksFit
  /\ outbox \subseteq Queued
  /\ rep \in [Dispatch -> [seq : Nat, said : Told]]

\* Only an upgrade is asked to stop, and only what was issued is fanned out or shown.
Known ==
  /\ telling \subseteq Upgrades
  /\ \A d \in Dispatch : row[d].state = "cancel-pending" => d \in Upgrades
  /\ \A d \in Dispatch : fan[d] # "none" => d \in 1..issued
  /\ \A d \in Dispatch : d \notin 1..issued => row[d].state = "none"
  /\ \A t \in Ticks : phase[t] = "stopping" => fan[hand[t].d] # "none"

-----------------------------------------------------------------------------
(* Shapes. *)

LEMMA Dispatches ==
  ASSUME TypeOK
  PROVE  /\ Len(kind) \in Nat /\ Dispatch = 1..Len(kind) /\ 1..issued \subseteq Dispatch
         /\ kind \in [Dispatch -> {"upgrade", "flow"}]
<1>1. kind \in Seq({"upgrade", "flow"})
  BY GroupAssumption DEF TypeOK
<1>2. /\ Dispatch = 1..Len(kind) /\ Len(kind) \in Nat
      /\ kind \in [Dispatch -> {"upgrade", "flow"}]
  BY <1>1 DEF Dispatch
<1> QED BY <1>2 DEF TypeOK

\* The dispatches are those of the scenario for good.
LEMMA KindKept ==
  ASSUME kind' = kind
  PROVE  Dispatch' = Dispatch /\ Flows' = Flows /\ Upgrades' = Upgrades
BY DEF Dispatch, Flows, Upgrades

LEMMA NothingHeld == Nothing \in Held /\ Nothing.kind = "nothing" /\ Nothing.d = 0
BY DEF Nothing, Silence, Held, Told

LEMMA RowState ==
  ASSUME NEW r \in Row, NEW s \in States
  PROVE  [r EXCEPT !.state = s] \in Row
BY DEF Row, States

LEMMA RowAttempts ==
  ASSUME NEW r \in Row
  PROVE  [r EXCEPT !.attempts = r.attempts + 1] \in Row
BY DEF Row

\* A change of one row's state keeps the board well formed.
LEMMA RowsKept ==
  ASSUME NEW f \in [Dispatch -> Row], NEW d, NEW s \in States
  PROVE  [f EXCEPT ![d].state = s] \in [Dispatch -> Row]
BY RowState

\* Counts are numbers, and none is left exactly when nothing is counted.
LEMMA Counted ==
  ASSUME NEW d, NEW S
  PROVE  /\ Having(d, S) \in Nat
         /\ Having(d, S) = 0 <=> \A m \in Machines : target[d][m] \notin S
         /\ Having(d, S)' = 0 <=> \A m \in Machines : target'[d][m] \notin S
<1>1. \A P \in SUBSET Machines : Cardinality(P) \in Nat /\ (Cardinality(P) = 0 <=> P = {})
  BY GroupAssumption, FS_Subset, FS_CardinalityType, FS_EmptySet
<1>2. Having(d, S) \in Nat /\ (Having(d, S) = 0 <=> {m \in Machines : target[d][m] \in S} = {})
  BY <1>1 DEF Having
<1>3. Having(d, S)' = 0 <=> {m \in Machines : target'[d][m] \in S} = {}
  BY <1>1 DEF Having
<1> QED BY <1>2, <1>3

\* A tick that moves on holding h at the point p.
LEMMA TickMoved ==
  ASSUME Shape, NEW t \in Ticks, NEW h, NEW p, Fits(h, p), kind' = kind, issued' = issued,
         hand' = [hand EXCEPT ![t] = h], phase' = [phase EXCEPT ![t] = p]
  PROVE  /\ TicksFit' /\ Ticks' = Ticks
         /\ phase' \in [DOMAIN hand' -> Phases]
         /\ \A x \in Ticks' : hand'[x] # Nothing => hand'[x].d \in 1..issued'
<1>1. /\ DOMAIN phase = Ticks /\ DOMAIN hand = Ticks
      /\ phase \in [Ticks -> Phases] /\ hand \in [Ticks -> Held]
  BY DEF Shape, TypeOK, TicksFit, Ticks, Phases
<1>2. Ticks' = Ticks /\ phase' \in [Ticks -> Phases] /\ hand' \in [Ticks -> Held]
  BY <1>1 DEF Ticks, Fits
<1>3. \A x \in Ticks : Fits(hand'[x], phase'[x])
  <2> TAKE x \in Ticks
  <2>1. CASE x = t
    BY <2>1, <1>1
  <2>2. CASE x # t
    BY <2>2, <1>1 DEF Shape, TicksFit
  <2> QED BY <2>1, <2>2
<1>4. \A x \in Ticks : Fits(hand[x], phase[x])'
  BY <1>3, KindKept DEF Fits
<1>5. \A x \in Ticks : hand'[x] # Nothing => hand'[x].d \in 1..issued'
  BY <1>3 DEF Fits
<1> QED BY <1>2, <1>4, <1>5 DEF TicksFit

\* The ticks that stand still while dispatches are issued.
LEMMA TicksKept ==
  ASSUME Shape, kind' = kind, issued <= issued', issued' \in Nat, hand' = hand, phase' = phase
  PROVE  /\ TicksFit' /\ Ticks' = Ticks
         /\ phase' \in [DOMAIN hand' -> Phases]
         /\ \A x \in Ticks' : hand'[x] # Nothing => hand'[x].d \in 1..issued'
<1>1. Ticks' = Ticks /\ issued \in Nat
  BY Dispatches DEF Ticks, Shape, TypeOK
<1>2. \A x \in Ticks : Fits(hand[x], phase[x])
  BY DEF Shape, TicksFit
<1>3. \A x \in Ticks : Fits(hand[x], phase[x])'
  BY <1>1, <1>2, KindKept DEF Fits, Held
<1>4. \A x \in Ticks : hand'[x] # Nothing => hand'[x].d \in 1..issued'
  BY <1>3, <1>1 DEF Fits
<1> QED BY <1>1, <1>3, <1>4 DEF TicksFit, Shape, TypeOK, Phases

-----------------------------------------------------------------------------
(* Types. *)

\* A step of the parent, or of the outbox, leaves the ticks and the child alone.
LEMMA ParentSide ==
  ASSUME Shape, kind' = kind, issued' \in issued..Len(kind), row' \in [Dispatch -> Row],
         cancelled' \subseteq 1..issued', telling' \subseteq cancelled', gone' \subseteq Flows,
         outbox' \subseteq outbox, UNCHANGED <<childVars, tickVars>>,
         idle' \in Nat, faults' \in Nat
  PROVE  Shape'
<1>1. /\ issued \in Nat /\ issued' \in Nat /\ issued <= issued' /\ issued' \in 0..Len(kind)
      /\ Dispatch' = Dispatch /\ Flows' = Flows /\ Upgrades' = Upgrades
  BY Dispatches, KindKept DEF Shape, TypeOK
<1>2. /\ TicksFit' /\ phase' \in [DOMAIN hand' -> Phases]
      /\ \A x \in Ticks' : hand'[x] # Nothing => hand'[x].d \in 1..issued'
  BY <1>1, TicksKept DEF tickVars
<1>3. \A e \in outbox' : e.d \in 1..issued'
  BY <1>1 DEF Shape, TypeOK
<1>4. /\ outbox' \subseteq Queued /\ kind' \in {s.kind : s \in Scenarios}
      /\ rep' \in [Dispatch' -> [seq : Nat, said : Told]]
      /\ fan' \in [Dispatch' -> {"none", "applied", "nothing-to-do"}]
      /\ target' \in [Dispatch' -> [Machines ->
                       {"none", "succeeded", "failed", "cancelled"} \cup Unsettled]]
      /\ holds' \subseteq Flows' /\ stopped' \subseteq Upgrades'
      /\ row' \in [Dispatch' -> Row] /\ gone' \subseteq Flows'
      /\ issued' \in 0..Len(kind')
  BY <1>1 DEF Shape, TypeOK, childVars
<1> QED BY <1>2, <1>3, <1>4 DEF Shape, TypeOK, Phases

\* A step of a tick that comes to hold h at the point p.
LEMMA TickSide ==
  ASSUME Shape, NEW t \in Ticks, NEW h, NEW p, Fits(h, p),
         hand' = [hand EXCEPT ![t] = h], phase' = [phase EXCEPT ![t] = p],
         UNCHANGED <<kind, issued, cancelled, telling, gone>>,
         row' \in [Dispatch -> Row],
         fan' \in [Dispatch -> {"none", "applied", "nothing-to-do"}],
         target' \in [Dispatch -> [Machines ->
                       {"none", "succeeded", "failed", "cancelled"} \cup Unsettled]],
         rep' \in [Dispatch -> [seq : Nat, said : Told]],
         holds' \subseteq Flows, stopped' \subseteq Upgrades,
         outbox' \subseteq Queued, \A e \in outbox' : e.d \in 1..issued,
         idle' \in Nat, faults' \in Nat
  PROVE  Shape'
<1>1. Dispatch' = Dispatch /\ Flows' = Flows /\ Upgrades' = Upgrades
  BY KindKept
<1>2. /\ TicksFit' /\ phase' \in [DOMAIN hand' -> Phases]
      /\ \A x \in Ticks' : hand'[x] # Nothing => hand'[x].d \in 1..issued'
  BY TickMoved
<1>3. /\ kind' \in {s.kind : s \in Scenarios} /\ issued' \in 0..Len(kind')
      /\ cancelled' \subseteq 1..issued' /\ telling' \subseteq cancelled' /\ gone' \subseteq Flows'
  BY <1>1 DEF Shape, TypeOK
<1> QED BY <1>1, <1>2, <1>3 DEF Shape, TypeOK, Phases

\* What a tick of a well-formed state works on.
LEMMA TickKnown ==
  ASSUME Shape, NEW t \in Ticks
  PROVE  /\ Fits(hand[t], phase[t]) /\ hand[t] \in Held
         /\ hand = [hand EXCEPT ![t] = hand[t]]
         /\ hand[t].kind # "nothing" => hand[t].d \in 1..issued /\ hand[t].d \in Dispatch
         /\ \A p \in {"idle", "polling", "served", "reporting"} : Fits(hand[t], p)
         /\ \A p \in {"idle", "polling", "served", "reporting"} : Fits(Nothing, p)
<1>1. Fits(hand[t], phase[t]) /\ hand[t] \in Held /\ hand \in [Ticks -> Held]
  BY DEF Shape, TicksFit, Fits
<1>2. hand[t].kind # "nothing" => hand[t] # Nothing
  BY NothingHeld
<1>3. \A p \in {"idle", "polling", "served", "reporting"} : Fits(hand[t], p)
  BY <1>1 DEF Fits, Phases
<1>4. \A p \in {"idle", "polling", "served", "reporting"} : Fits(Nothing, p)
  BY NothingHeld DEF Fits, Phases
<1> QED BY <1>1, <1>2, <1>3, <1>4, Dispatches DEF Fits, Shape

\* What the child counts is what a report may say.
LEMMA Counts ==
  ASSUME NEW d
  PROVE  /\ Snapshot(d) \in Told /\ Snapshot(d).left = Having(d, Unsettled)
         /\ Having(d, Unsettled) \in Nat /\ Silence \in Told
<1>1. Having(d, Unsettled) \in Nat /\ Having(d, {"succeeded"}) \in Nat
  BY Counted
<1> QED BY <1>1 DEF Snapshot, Told, Silence

\* A question repeated, and the machines of one dispatch, keep their shape.
LEMMA PromptedRep ==
  ASSUME NEW d, rep \in [Dispatch -> [seq : Nat, said : Told]]
  PROVE  [rep EXCEPT ![d].said = Silence] \in [Dispatch -> [seq : Nat, said : Told]]
<1>1. \A r \in [seq : Nat, said : Told] : [r EXCEPT !.said = Silence] \in [seq : Nat,
said : Told]
  BY Counts
<1> QED BY <1>1

LEMMA TargetsKept ==
  ASSUME NEW T, target \in [Dispatch -> T], NEW d, NEW f \in T
  PROVE  [target EXCEPT ![d] = f] \in [Dispatch -> T]
OBVIOUS

\* An applied report leaves the board well formed.
LEMMA AppliedRow ==
  ASSUME Shape, NEW e \in outbox
  PROVE  Applied(e) \in [Dispatch -> Row]
<1>1. e \in Queued /\ e.d \in Dispatch /\ row \in [Dispatch -> Row] /\ row[e.d] \in Row
  BY Dispatches DEF Shape, TypeOK
<1>2. Shown(e) \in States /\ e.seq \in Nat /\ e.said \in Told
  BY <1>1 DEF Shown, States, Closed, Queued
<1>3. [row[e.d] EXCEPT !.state = Shown(e), !.seq = e.seq, !.said = e.said] \in Row
  BY <1>1, <1>2 DEF Row, States, Told
<1>4. [row EXCEPT ![e.d].state = Shown(e), ![e.d].seq = e.seq, ![e.d].said = e.said]
        \in [Dispatch -> Row]
  BY <1>1, <1>3
<1>5. e.kind # "progress" => e.kind \in States
  BY <1>1 DEF Queued, States, Answers
<1>6. e.kind # "progress" => [row EXCEPT ![e.d].state = e.kind] \in [Dispatch -> Row]
  BY <1>1, <1>5, RowsKept
<1> QED BY <1>1, <1>4, <1>6 DEF Applied

\* The parent's own steps.
LEMMA AdminTypes == Shape /\ (Admins \/ \E d \in Dispatch : CancelTell(d)) => Shape'
<1> SUFFICES ASSUME Shape, Admins \/ \E d \in Dispatch : CancelTell(d) PROVE Shape'
  OBVIOUS
<1> USE DEF bounds
<1>1. /\ row \in [Dispatch -> Row] /\ issued \in 0..Len(kind) /\ issued \in Nat
      /\ Len(kind) \in Nat /\ Dispatch = 1..Len(kind)
      /\ cancelled \subseteq 1..issued /\ telling \subseteq cancelled /\ gone \subseteq Flows
      /\ idle \in Nat /\ faults \in Nat
  BY Dispatches DEF Shape, TypeOK
<1>2. ASSUME NEW scope, Issue(scope) PROVE Shape'
  <2>1. "pending" \in States
    BY DEF States
  <2>2. row' \in [Dispatch -> Row]
    BY <1>1, <1>2, <2>1, RowsKept DEF Issue
  <2> QED BY <1>1, <1>2, <2>2, ParentSide DEF Issue
<1>3. ASSUME NEW d, CancelMark(d) PROVE Shape'
  BY <1>1, <1>3, ParentSide DEF CancelMark
<1>4. ASSUME NEW d \in Dispatch, CancelTell(d) PROVE Shape'
  <2>1. row[d].state \in States /\ "cancel-pending" \in States
    BY <1>1 DEF Row, States
  <2>2. AskedToStop(d) \in [Dispatch -> Row]
    BY <1>1, <2>1, RowsKept DEF AskedToStop
  <2> QED BY <1>1, <1>4, <2>2, ParentSide DEF CancelTell
<1>5. ASSUME NEW d, CancelTorn(d) PROVE Shape'
  BY <1>1, <1>5, ParentSide DEF CancelTorn, Fault
<1>6. ASSUME NEW d, CancelAgain(d) PROVE Shape'
  BY <1>1, <1>6, ParentSide DEF CancelAgain
<1>7. ASSUME NEW d, DeleteFlow(d) PROVE Shape'
  BY <1>1, <1>7, ParentSide DEF DeleteFlow, Fault
<1> QED BY <1>2, <1>3, <1>4, <1>5, <1>6, <1>7 DEF Admins

\* Reports on their way.
LEMMA OutboxTypes ==
  Shape /\ (\E e \in outbox : (\E answered \in BOOLEAN : Deliver(e, answered)) \/ Discard(e))
    => Shape'
<1> SUFFICES ASSUME Shape, NEW e \in outbox,
                    (\E answered \in BOOLEAN : Deliver(e, answered)) \/ Discard(e)
             PROVE  Shape'
  OBVIOUS
<1>1. /\ row' \in [Dispatch -> Row] /\ outbox' \subseteq outbox
      /\ kind' = kind /\ issued' = issued /\ cancelled' = cancelled /\ telling' = telling
      /\ gone' = gone /\ UNCHANGED <<childVars, tickVars>> /\ idle' = idle
      /\ faults' = faults \/ (faults > 0 /\ faults' = faults - 1)
  <2>1. row \in [Dispatch -> Row]
    BY DEF Shape, TypeOK
  <2> QED BY <2>1, AppliedRow DEF Deliver, Discard, Fault, parentVars
<1>2. issued' \in issued..Len(kind) /\ idle' \in Nat /\ faults' \in Nat
  BY <1>1, Dispatches DEF Shape, TypeOK
<1>3. cancelled' \subseteq 1..issued' /\ telling' \subseteq cancelled' /\ gone' \subseteq Flows
  BY <1>1 DEF Shape, TypeOK
<1> QED BY <1>1, <1>2, <1>3, ParentSide

\* A step of a tick, and a tick that fails.
LEMMA TickTypes ==
  ASSUME Shape, Known, NEW t \in Ticks, TickStep(t) \/ TickFails(t)
  PROVE  Shape'
<1> DEFINE h == hand[t]
<1> USE DEF bounds, tickVars, parentVars, childVars, GoesOn
<1>1. /\ row \in [Dispatch -> Row] /\ rep \in [Dispatch -> [seq : Nat, said : Told]]
      /\ fan \in [Dispatch -> {"none", "applied", "nothing-to-do"}]
      /\ target \in [Dispatch -> [Machines ->
                      {"none", "succeeded", "failed", "cancelled"} \cup Unsettled]]
      /\ holds \subseteq Flows /\ stopped \subseteq Upgrades
      /\ outbox \subseteq Queued /\ \A e \in outbox : e.d \in 1..issued
      /\ idle \in Nat /\ faults \in Nat /\ issued \in Nat /\ 1..issued \subseteq Dispatch
  BY Dispatches DEF Shape, TypeOK
<1>2. /\ Fits(h, phase[t]) /\ h \in Held /\ hand = [hand EXCEPT ![t] = h]
      /\ h.kind # "nothing" => h.d \in 1..issued /\ h.d \in Dispatch
      /\ \A p \in {"idle", "polling", "served", "reporting"} : Fits(h, p) /\ Fits(Nothing, p)
  BY TickKnown
<1>3. Fault => faults' \in Nat
  BY <1>1 DEF Fault
<1>4. CASE Poll(t)
  <2> DEFINE g == IF Candidate = {} THEN Nothing
                  ELSE LET d == CHOOSE x \in Candidate : TRUE
                       IN [Nothing EXCEPT !.kind = kind[d], !.d = d]
  <2>1. Fits(g, "polling")
    <3>1. CASE Candidate = {}
      BY <3>1, <1>2
    <3>2. CASE Candidate # {}
      <4> DEFINE d == CHOOSE x \in Candidate : TRUE
      <4>1. d \in Candidate
        BY <3>2
      <4>2. d \in Dispatch /\ d \in 1..issued /\ d \in Nat
        <5>1. \A S : Oldest(S) \subseteq S
          BY DEF Oldest
        <5>2. \A S : \A x \in Dispatch : Outstanding(x, S) => x \in 1..issued
          BY DEF Outstanding
        <5>3. d \in 1..issued
          BY <4>1, <5>1, <5>2 DEF Candidate, Flows, Upgrades
        <5> QED BY <5>3, <1>1
      <4>3. kind[d] \in {"upgrade", "flow"} /\ (d \in Upgrades <=> kind[d] = "upgrade")
            /\ (d \in Flows <=> kind[d] # "upgrade")
        BY <4>2, Dispatches DEF Shape, Flows, Upgrades
      <4> QED BY <3>2, <4>2, <4>3, Counts DEF Fits, Held, Nothing, Phases
    <3> QED BY <3>1, <3>2
  <2>2. idle' \in Nat /\ faults' \in Nat
    BY <1>4, <1>1, <1>3 DEF Poll
  <2> QED BY <1>4, <1>1, <2>1, <2>2, TickSide DEF Poll
<1>5. CASE Serve(t)
  <2>1. ASSUME NEW d \in CancelsOwed, SeeCancel(t, d) PROVE Shape'
    <3> DEFINE g == [Nothing EXCEPT !.kind = "cancel", !.d = d]
    <3>1. d \in 1..issued /\ d \in Dispatch /\ d \in Nat /\ row[d].state = "cancel-pending"
      BY <1>1 DEF CancelsOwed, Shape, TypeOK
    <3>2. d \in Upgrades
      BY <3>1 DEF Known
    <3>3. Fits(g, "cancelling")
      BY <3>1, <3>2, Counts DEF Fits, Held, Nothing, Phases
    <3> QED BY <1>5, <1>1, <2>1, <3>3, TickSide DEF SeeCancel, Serve
  <2>2. CASE h # Nothing /\ ServeDispatch(t)
    <3>1. h.d \in Dispatch /\ row[h.d].state \in States /\ "pending" \in States
      BY <1>1, <1>2, <2>2, Dispatches DEF Fits, Shape, Row, States
    <3>2. row' \in [Dispatch -> Row]
      BY <1>1, <2>2, <3>1, RowsKept DEF ServeDispatch
    <3> QED BY <1>5, <1>1, <1>2, <2>2, <3>2, TickSide DEF ServeDispatch, Serve
  <2>3. CASE ServeNothing(t)
    BY <1>5, <1>1, <1>2, <2>3, TickSide DEF ServeNothing, Serve
  <2> QED BY <1>5, <2>1, <2>2, <2>3 DEF Serve
<1>6. CASE TakeUpgrade(t)
  <2>1. Fits(h, "fanning") /\ Fits(h, "prompting")
    BY <1>6, <1>2 DEF TakeUpgrade, Fits, Phases
  <2>2. Fits(h, IF fan[h.d] = "none" THEN "fanning" ELSE "prompting")
    BY <2>1
  <2> QED BY <1>6, <1>1, <1>2, <2>2, TickSide DEF TakeUpgrade
<1>7. CASE FanOut(t)
  <2>1. h.d \in Dispatch
    BY <1>7, <1>2 DEF FanOut, Fits
  <2>2. PICK S \in SUBSET Machines : FansOut(h.d, S)
    BY <1>7 DEF FanOut
  <2>3. [m \in Machines |-> IF m \in S THEN "pending" ELSE target[h.d][m]]
          \in [Machines -> {"none", "succeeded", "failed", "cancelled"} \cup Unsettled]
    BY <1>1, <2>1 DEF Unsettled
  <2>4. fan' \in [Dispatch -> {"none", "applied", "nothing-to-do"}]
    BY <1>1, <2>1, <2>2 DEF FansOut
  <2>5. target' \in [Dispatch -> [Machines ->
                      {"none", "succeeded", "failed", "cancelled"} \cup Unsettled]]
    BY <1>1, <2>1, <2>2, <2>3, TargetsKept DEF FansOut
  <2> QED BY <1>7, <1>1, <1>2, <2>4, <2>5, TickSide DEF FanOut
<1>8. CASE TakeCancel(t)
  <2> DEFINE p == CASE fan[h.d] = "none"          -> "refusing"
                    [] fan[h.d] = "nothing-to-do" -> "prompting"
                    [] fan[h.d] = "applied"       -> "stopping"
  <2>1. h.kind = "cancel" /\ h.d \in Dispatch
    BY <1>8, <1>2 DEF TakeCancel
  <2>2. p \in {"refusing", "prompting", "stopping"}
    BY <1>1, <2>1
  <2>3. Fits(h, p)
    BY <1>2, <2>1, <2>2 DEF Fits, Phases
  <2> QED BY <1>8, <1>1, <1>2, <2>3, TickSide DEF TakeCancel
<1>9. CASE CancelUnknown(t)
  <2>1. h.d \in Dispatch /\ h.d \in Upgrades
    BY <1>9, <1>2 DEF CancelUnknown, Fits
  <2>2. fan' \in [Dispatch -> {"none", "applied",
  "nothing-to-do"}] /\ stopped' \subseteq Upgrades
    BY <1>1, <1>9, <2>1 DEF CancelUnknown, RecordsRefusal
  <2> QED BY <1>9, <1>1, <1>2, <2>2, TickSide DEF CancelUnknown
<1>15. CASE ServeCancel(t)
  <2>1. h.d \in Dispatch /\ row[h.d] \in Row
    BY <1>15, <1>1, <1>2 DEF ServeCancel, Fits
  <2>2. row' \in [Dispatch -> Row]
    BY <1>1, <1>15, <2>1, RowAttempts DEF ServeCancel
  <2> QED BY <1>15, <1>1, <1>2, <2>2, TickSide DEF ServeCancel
<1>16. CASE Prompt(t)
  <2>1. rep' \in [Dispatch -> [seq : Nat, said : Told]]
    BY <1>1, <1>16, PromptedRep DEF Prompt
  <2> QED BY <1>16, <1>1, <1>2, <2>1, TickSide DEF Prompt
<1>17. CASE StopPending(t)
  <2>1. h.d \in Dispatch /\ h.d \in Upgrades
    BY <1>17, <1>2 DEF StopPending, Fits
  <2>2. [m \in Machines |-> IF target[h.d][m] = "pending" THEN "cancelled" ELSE target[h.d][m]]
          \in [Machines -> {"none", "succeeded", "failed", "cancelled"} \cup Unsettled]
    BY <1>1, <2>1
  <2>3. target' \in [Dispatch -> [Machines ->
                      {"none", "succeeded", "failed", "cancelled"} \cup Unsettled]]
    BY <1>1, <1>17, <2>2, TargetsKept DEF StopPending
  <2>4. Fits(h, "prompting") /\ stopped' \subseteq Upgrades
    BY <1>1, <1>17, <1>2, <2>1 DEF StopPending, Fits, Phases
  <2> QED BY <1>17, <1>1, <1>2, <2>3, <2>4, TickSide DEF StopPending
<1>18. CASE Throws(t)
  BY <1>18, <1>1, <1>2, <1>3, TickSide DEF Throws
<1>10. ASSUME NEW answer \in Answers, NEW queued \in BOOLEAN, TakeFlow(t, answer, queued)
       PROVE  Shape'
  <2>1. h.d \in Flows /\ h.d \in 1..issued /\ h.d \in Nat
    BY <1>10, <1>2 DEF TakeFlow, Fits, Held
  <2>2. [Nothing EXCEPT !.kind = answer, !.d = h.d] \in Queued
    BY <2>1, Counts DEF Nothing, Queued
  <2>3. [Nothing EXCEPT !.kind = answer, !.d = h.d].d = h.d
    BY DEF Nothing
  <2>4. outbox' \subseteq Queued /\ (\A e \in outbox' : e.d \in 1..issued) /\ holds' \subseteq Flows
    BY <1>1, <1>10, <2>1, <2>2, <2>3 DEF TakeFlow
  <2>5. faults' \in Nat
    BY <1>1, <1>3, <1>10 DEF TakeFlow
  <2>6. Fits(Nothing, IF queued THEN "reporting" ELSE "idle")
    BY <1>2
  <2> QED BY <1>10, <1>1, <1>2, <2>4, <2>5, <2>6, TickSide DEF TakeFlow
<1>11. ASSUME NEW d \in Upgrades, Report(t, d) PROVE Shape'
  <2> DEFINE r == [kind |-> "progress", d |-> d, seq |-> rep[d].seq + 1, said |-> Snapshot(d)]
  <2>1. d \in Dispatch /\ d \in 1..issued /\ d \in Nat
    BY <1>1, <1>11 DEF Report, Reportable, Known, Upgrades
  <2>2. r \in Queued /\ r \in Held /\ r # Nothing
    BY <1>1, <2>1, Counts, NothingHeld DEF Queued, Held
  <2>3. Fits(r, "recording")
    BY <2>1, <2>2 DEF Fits, Phases
  <2>4. outbox' \subseteq Queued /\ (\A e \in outbox' : e.d \in 1..issued)
    BY <1>1, <1>11, <2>1, <2>2 DEF Report
  <2> QED BY <1>11, <1>1, <2>3, <2>4, TickSide DEF Report
<1>12. CASE Record(t)
  <2>1. h.d \in Dispatch /\ h.seq \in Nat /\ h.said \in Told
    BY <1>12, <1>2 DEF Record, Fits, Held
  <2>2. rep' \in [Dispatch -> [seq : Nat, said : Told]]
    BY <1>1, <1>12, <2>1 DEF Record
  <2> QED BY <1>12, <1>1, <1>2, <2>2, TickSide DEF Record
<1>13. CASE EndTick(t)
  BY <1>13, <1>1, <1>2, TickSide DEF EndTick
<1>14. CASE Crash(t)
  BY <1>14, <1>1, <1>2, <1>3, TickSide DEF Crash
<1> QED
  BY <1>4, <1>5, <1>6, <1>7, <1>8, <1>9, <1>10, <1>11, <1>12, <1>13, <1>14, <1>15, <1>16,
     <1>17, <1>18
     DEF TickStep, TickFails, Answers

\* The machines of the child.
LEMMA MachineTypes ==
  ASSUME Shape, NEW d \in Dispatch, NEW m \in Machines,
         MachineSteps(d, m) \/ CancelLocally(d, m) \/ FinishLate(d, m)
  PROVE  Shape'
<1>1. PICK from \in {"pending", "in_progress", "succeeded", "failed", "cancelled"},
           to \in {"in_progress", "succeeded", "failed", "cancelled"} :
        Moves(d, m, from, to)
  BY DEF MachineSteps, FinishLate, Start, Finish, CancelLocally, Outcomes, Unsettled
<1>2. target' \in [Dispatch -> [Machines ->
                    {"none", "succeeded", "failed", "cancelled"} \cup Unsettled]]
  BY <1>1 DEF Moves, Shape, TypeOK, Unsettled
<1>3. faults' \in Nat
  BY DEF MachineSteps, FinishLate, Start, Finish, CancelLocally, Fault, Shape, TypeOK
<1> QED
  BY <1>1, <1>2, <1>3 DEF Moves, Shape, TypeOK, TicksFit, Fits, Ticks, Dispatch, Flows,
                          Upgrades, parentVars, tickVars

-----------------------------------------------------------------------------
(* What a step may do to the board, and to the fleet. *)

\* Nothing runs under a dispatch that was not fanned out.
Unfanned == \A d \in Dispatch, m \in Machines : fan[d] = "none" => target[d][m] = "none"

\* What a queued report says stays true until it arrives.
ReportsTrue ==
  \A e \in outbox :
    /\ e.kind = "progress" =>
         fan[e.d] # "none" /\ (e.said.left > 0 \/ Having(e.d, Unsettled) = 0)
    /\ e.kind = "installed" => e.d \in holds

IInv == Shape /\ Known /\ Unfanned /\ ReportsTrue /\ StoppedStays /\ BoardTrue

\* The machines of a dispatch that is fanned out only settle.
OnlySettles(d) ==
  fan[d] # "none" =>
    /\ fan'[d] # "none"
    /\ \A m \in Machines :
         /\ target'[d][m] = "none" <=> target[d][m] = "none"
         /\ target'[d][m] = "pending" => target[d][m] = "pending"
         /\ target'[d][m] \in Unsettled => target[d][m] \in Unsettled

\* What any step does to the child.
LEMMA FleetSteps ==
  ASSUME Shape, Unfanned, [Next]_vars
  PROVE  /\ \A d \in Dispatch : OnlySettles(d)
         /\ Unfanned'
<1> USE DEF OnlySettles
<1> DEFINE Same == fan' = fan /\ target' = target
<1>1. /\ fan \in [Dispatch -> {"none", "applied", "nothing-to-do"}]
      /\ target \in [Dispatch -> [Machines ->
                      {"none", "succeeded", "failed", "cancelled"} \cup Unsettled]]
      /\ kind' = kind /\ Dispatch' = Dispatch
  <2>1. kind' = kind
    BY DEF Next, vars, Admins, Issue, CancelMark, CancelTorn, CancelAgain, DeleteFlow,
           CancelTell, TickStep, TickFails, Poll, Serve, ServeCancel, TakeUpgrade, Prompt,
           Throws, FanOut, TakeCancel, StopPending,
           CancelUnknown, TakeFlow, Report, Record, EndTick, Crash, Deliver, Discard,
           MachineSteps, FinishLate, Start, Finish, CancelLocally, Moves
  <2> QED BY <2>1, KindKept DEF Shape, TypeOK
<1>2. ASSUME NEW t \in Ticks, FanOut(t)
      PROVE  (\A d \in Dispatch : OnlySettles(d)) /\ Unfanned'
  <2>1. PICK S \in SUBSET Machines : FansOut(hand[t].d, S)
    BY <1>2 DEF FanOut
  <2>2. CASE fan[hand[t].d] # "none"
    BY <2>1, <2>2, <1>1 DEF FansOut, Unfanned
  <2>3. CASE fan[hand[t].d] = "none"
    <3>1. \A d \in Dispatch : d # hand[t].d => fan'[d] = fan[d] /\ target'[d] = target[d]
      BY <2>1, <2>3, <1>1 DEF FansOut
    <3>2. \A d \in Dispatch : d = hand[t].d => fan'[d] # "none"
      BY <2>1, <2>3, <1>1 DEF FansOut
    <3> QED BY <3>1, <3>2, <2>3, <1>1 DEF Unfanned
  <2> QED BY <2>2, <2>3
<1>3. ASSUME NEW t \in Ticks, StopPending(t)
      PROVE  (\A d \in Dispatch : OnlySettles(d)) /\ Unfanned'
  <2>1. CASE fan[hand[t].d] = "none"
    <3>1. fan' = fan /\ \A d \in Dispatch, m \in Machines : target'[d][m] = target[d][m]
      BY <1>3, <2>1, <1>1 DEF StopPending, Unfanned
    <3> QED BY <3>1, <1>1 DEF Unfanned
  <2>2. CASE fan[hand[t].d] # "none"
    <3>1. fan' = fan /\ \A d \in Dispatch : d # hand[t].d => target'[d] = target[d]
      BY <1>3, <2>2, <1>1 DEF StopPending
    <3>2. \A d \in Dispatch, m \in Machines : d = hand[t].d =>
            target'[d][m] = IF target[d][m] = "pending" THEN "cancelled" ELSE target[d][m]
      BY <1>3, <2>2, <1>1 DEF StopPending
    <3> QED BY <3>1, <3>2, <2>2, <1>1 DEF Unfanned, Unsettled
  <2> QED BY <2>1, <2>2
<1>4. ASSUME NEW t \in Ticks, CancelUnknown(t)
      PROVE  (\A d \in Dispatch : OnlySettles(d)) /\ Unfanned'
  BY <1>4, <1>1 DEF CancelUnknown, RecordsRefusal, Unfanned
<1>5. ASSUME NEW d \in Dispatch, NEW m \in Machines,
             MachineSteps(d, m) \/ CancelLocally(d, m) \/ FinishLate(d, m)
      PROVE  (\A x \in Dispatch : OnlySettles(x)) /\ Unfanned'
  <2>1. PICK from \in {"pending", "in_progress", "succeeded", "failed", "cancelled"},
             to \in {"in_progress", "succeeded", "failed", "cancelled"} :
          Moves(d, m, from, to) /\ (to = "in_progress" => from = "pending")
    BY <1>5 DEF MachineSteps, FinishLate, Start, Finish, CancelLocally, Outcomes, Unsettled
  <2>2. fan' = fan /\ fan[d] # "none" /\ target[d][m] = from
        /\ \A x \in Dispatch, y \in Machines :
             target'[x][y] = IF x = d /\ y = m THEN to ELSE target[x][y]
    BY <2>1, <1>1 DEF Moves, Unfanned
  <2> QED BY <2>1, <2>2, <1>1 DEF Unfanned, Unsettled
<1>6. CASE Same
  BY <1>6, <1>1 DEF Unfanned
<1> QED
  BY <1>2, <1>3, <1>4, <1>5, <1>6
     DEF Next, vars, Admins, Issue, CancelMark, CancelTorn, CancelAgain, DeleteFlow,
         CancelTell, TickStep, TickFails, Poll, Serve, ServeCancel, TakeUpgrade, Prompt,
         Throws, TakeCancel, TakeFlow, Report, Record,
         EndTick, Crash, Deliver, Discard, parentVars, childVars

\* A dispatch is fanned out by a tick that holds it.
LEMMA FanSteps ==
  ASSUME Shape, [Next]_vars, NEW d \in Dispatch, fan'[d] # "none", fan[d] = "none"
  PROVE  d \in 1..issued
<1>1. PICK t \in Ticks : FanOut(t) \/ CancelUnknown(t)
  BY DEF Next, vars, Admins, Issue, CancelMark, CancelTorn, CancelAgain, DeleteFlow,
         CancelTell, TickStep, TickFails, Poll, Serve, ServeCancel, TakeUpgrade, Prompt,
         Throws, TakeCancel, StopPending, TakeFlow,
         Report, Record, EndTick, Crash, Deliver, Discard, parentVars, childVars,
         MachineSteps, FinishLate, Start, Finish, CancelLocally, Moves
<1>2. hand[t].d \in 1..issued
  BY <1>1, TickKnown DEF FanOut, CancelUnknown, Fits
<1>3. d = hand[t].d
  BY <1>1 DEF FanOut, FansOut, CancelUnknown, RecordsRefusal, Shape, TypeOK
<1> QED BY <1>2, <1>3

\* A tick comes to stop machines only where it found them fanned out.
LEMMA StoppingSteps ==
  ASSUME Shape, [Next]_vars, NEW t \in Ticks', phase'[t] = "stopping"
  PROVE  /\ t \in Ticks /\ hand'[t] = hand[t]
         /\ phase[t] = "stopping" \/ (fan[hand[t].d] = "applied" /\ fan' = fan)
<1>1. /\ DOMAIN phase = Ticks /\ DOMAIN hand = Ticks
      /\ phase \in [Ticks -> Phases] /\ hand \in [Ticks -> Held]
      /\ fan \in [Dispatch -> {"none", "applied", "nothing-to-do"}]
  BY DEF Shape, TypeOK, TicksFit, Ticks, Phases
<1>2. ASSUME NEW x \in Ticks, NEW p, NEW h, p # "stopping",
             phase' = [phase EXCEPT ![x] = p], hand' = [hand EXCEPT ![x] = h]
      PROVE  t \in Ticks /\ hand'[t] = hand[t] /\ phase[t] = "stopping"
  BY <1>1, <1>2 DEF Ticks
<1>3. CASE UNCHANGED tickVars
  BY <1>1, <1>3 DEF tickVars, Ticks
<1>4. ASSUME NEW x \in Ticks, TakeCancel(x)
      PROVE  /\ t \in Ticks /\ hand'[t] = hand[t]
             /\ phase[t] = "stopping" \/ (fan[hand[t].d] = "applied" /\ fan' = fan)
  <2>1. hand[x].d \in Dispatch
    BY <1>4, TickKnown DEF TakeCancel
  <2> QED BY <1>1, <1>4, <2>1 DEF TakeCancel, Ticks, childVars
<1>5. ASSUME NEW x \in Ticks, TickStep(x) \/ TickFails(x), ~TakeCancel(x)
      PROVE  t \in Ticks /\ hand'[t] = hand[t] /\ phase[t] = "stopping"
  <2>1. hand = [hand EXCEPT ![x] = hand[x]]
    BY <1>1
  <2>2. CASE Poll(x)
    BY <1>2, <2>2 DEF Poll
  <2>3. CASE Serve(x)
    BY <1>2, <2>1, <2>3 DEF Serve, SeeCancel, ServeDispatch, ServeNothing, GoesOn
  <2>4. CASE ServeCancel(x) \/ TakeUpgrade(x) \/ StopPending(x)
    <3>1. PICK p \in {"served", "fanning", "prompting"} : phase' = [phase EXCEPT ![x] = p]
      BY <2>4 DEF ServeCancel, TakeUpgrade, StopPending
    <3>2. hand' = [hand EXCEPT ![x] = hand[x]]
      BY <2>1, <2>4 DEF ServeCancel, TakeUpgrade, StopPending
    <3> QED BY <1>2, <3>1, <3>2
  <2>5. CASE \E d \in Upgrades : Report(x, d)
    BY <1>2, <2>5 DEF Report
  <2>6. CASE \E p \in {"reporting", "idle"} : GoesOn(x, p)
    BY <1>2, <2>6 DEF GoesOn
  <2> QED
    BY <1>5, <2>2, <2>3, <2>4, <2>5, <2>6
       DEF TickStep, TickFails, FanOut, Prompt, CancelUnknown, TakeFlow, Record, EndTick, Crash,
           Throws
<1> QED
  BY <1>3, <1>4, <1>5
     DEF Next, vars, Admins, Issue, CancelMark, CancelTorn, CancelAgain, DeleteFlow, CancelTell,
         Deliver, Discard, MachineSteps, FinishLate, Start, Finish, CancelLocally, Moves

\* A row changes while it is open, and closes, or says installed, by a report alone.
RowStep(d) ==
  \/ /\ row'[d].state = row[d].state
     /\ row'[d].seq = row[d].seq /\ row'[d].said = row[d].said
  \/ /\ row[d].state \notin Closed /\ d \in 1..issued'
     /\ row'[d].state \in Closed \cup {"installed", "cancel-pending"} =>
          \/ row'[d].state = row[d].state
          \/ row'[d].state = "cancel-pending" /\ d \in telling
          \/ \E e \in outbox :
               /\ e.d = d
               /\ \/ e.kind = "progress" /\ ~(e.said.left > 0) /\ row'[d].state \in Closed
                  \/ e.kind = "installed" /\ row'[d].state = "installed"

\* So does every step of the system.
LEMMA RowSteps ==
  ASSUME Shape, Known, [Next]_vars
  PROVE  \A d \in Dispatch : RowStep(d)
<1> USE DEF RowStep
<1>1. /\ row \in [Dispatch -> Row] /\ 1..issued \subseteq Dispatch /\ outbox \subseteq Queued
      /\ issued \in Nat /\ cancelled \subseteq 1..issued /\ telling \subseteq cancelled
      /\ \A e \in outbox : e.d \in 1..issued
  BY Dispatches DEF Shape, TypeOK
<1>2. ASSUME NEW scope, Issue(scope) PROVE \A d \in Dispatch : RowStep(d)
  <2> DEFINE i == issued + 1
  <2>1. issued' = i /\ (row' = row \/ row' = [row EXCEPT ![i].state = "pending"])
    BY <1>2 DEF Issue
  <2>2. i \in Dispatch => row[i].state = "none"
    BY <1>1 DEF Known
  <2> QED BY <2>1, <2>2, <1>1 DEF Closed, Row
<1>3. ASSUME NEW d \in Dispatch, CancelTell(d) PROVE \A x \in Dispatch : RowStep(x)
  <2>1. d \in telling /\ issued' = issued /\ row' = [row EXCEPT ![d].state =
          IF row[d].state \in {"pending", "running"} THEN "cancel-pending" ELSE row[d].state]
    BY <1>3 DEF CancelTell, AskedToStop
  <2>2. CASE row[d].state \in {"pending", "running"}
    BY <2>1, <2>2, <1>1 DEF Closed
  <2>3. CASE row[d].state \notin {"pending", "running"}
    BY <2>1, <2>3, <1>1 DEF Row
  <2> QED BY <2>2, <2>3
<1>4. ASSUME NEW t \in Ticks, Serve(t) PROVE \A x \in Dispatch : RowStep(x)
  <2>1. ASSUME NEW d \in CancelsOwed, SeeCancel(t, d) PROVE \A x \in Dispatch : RowStep(x)
    BY <2>1 DEF SeeCancel
  <2>2. CASE hand[t] # Nothing /\ ServeDispatch(t)
    <3>1. hand[t].d \in 1..issued'
      BY <1>4, <2>2, TickKnown DEF Serve, Fits
    <3> QED BY <2>2, <3>1, <1>1 DEF ServeDispatch, Closed, Row
  <2>3. CASE ServeNothing(t)
    BY <2>3 DEF ServeNothing
  <2> QED BY <1>4, <2>1, <2>2, <2>3 DEF Serve
<1>6. ASSUME NEW t \in Ticks, ServeCancel(t) PROVE \A x \in Dispatch : RowStep(x)
  BY <1>6, <1>1 DEF ServeCancel, Row
<1>5. ASSUME NEW e \in outbox, issued' = issued, row' = Applied(e)
      PROVE  \A x \in Dispatch : RowStep(x)
  <2>1. e.kind \in {"progress"} \cup Answers
    BY <1>1 DEF Queued
  <2>2. CASE e.kind = "progress" /\ MovesRow(e)
    <3>1. /\ row' = [row EXCEPT ![e.d].state = Shown(e), ![e.d].seq = e.seq, ![e.d].said = e.said]
          /\ row[e.d].state \notin Closed
      BY <1>5, <2>2 DEF Applied, MovesRow, Closed
    <3>2. Shown(e) = "running" \/ (~(e.said.left > 0) /\ Shown(e) \in Closed)
      BY DEF Shown, Closed
    <3>3. \A x \in Dispatch : x # e.d => row'[x] = row[x]
      BY <3>1, <1>1
    <3>4. \A x \in Dispatch : x = e.d => row'[x].state = Shown(e)
      BY <3>1, <1>1 DEF Row
    <3> QED BY <1>1, <1>5, <3>1, <3>2, <3>3, <3>4, <2>2 DEF Closed
  <2>3. CASE e.kind # "progress" /\ row' # row
    <3>1. /\ row' = [row EXCEPT ![e.d].state = e.kind]
          /\ row[e.d].state \in {"pending", "failed"}
      BY <1>5, <2>3 DEF Applied
    <3> QED BY <1>5, <3>1, <2>1, <2>3, <1>1 DEF Closed, Answers, Row
  <2> QED BY <1>5, <2>2, <2>3 DEF Applied
<1>7. CASE row' = row
  BY <1>7
<1>8. ASSUME NEW t \in Ticks, TickStep(t) \/ TickFails(t) PROVE \A x \in Dispatch : RowStep(x)
  <2>1. Serve(t) \/ ServeCancel(t) \/ row' = row
    BY <1>8 DEF TickStep, TickFails, Poll, TakeUpgrade, Prompt, Throws, FanOut, TakeCancel,
         StopPending, CancelUnknown, TakeFlow, Report, Record, EndTick, Crash, parentVars
  <2> QED BY <2>1, <1>4, <1>6, <1>7
<1> QED
  BY <1>2, <1>3, <1>5, <1>7, <1>8
     DEF Next, vars, Admins, CancelMark, CancelTorn, CancelAgain, DeleteFlow, Deliver, Discard,
         parentVars, MachineSteps, FinishLate, Start, Finish, CancelLocally, Moves

\* A report that is queued says what its child counts, or holds.
LEMMA OutboxSteps ==
  ASSUME Shape, [Next]_vars
  PROVE  /\ holds \subseteq holds'
         /\ \A e \in outbox' \ outbox :
              \/ /\ e.kind = "progress" /\ fan[e.d] # "none" /\ UNCHANGED <<fan, target>>
                 /\ e.said.left = Having(e.d, Unsettled) /\ e.d \in Dispatch
              \/ e.kind \in Answers /\ (e.kind = "installed" => e.d \in holds')
<1> DEFINE New(e) ==
      \/ /\ e.kind = "progress" /\ fan[e.d] # "none" /\ UNCHANGED <<fan, target>>
         /\ e.said.left = Having(e.d, Unsettled) /\ e.d \in Dispatch
      \/ e.kind \in Answers /\ (e.kind = "installed" => e.d \in holds')
<1>1. ASSUME NEW t \in Ticks, NEW d \in Upgrades, Report(t, d)
      PROVE  holds' = holds /\ \A e \in outbox' \ outbox : New(e)
  BY <1>1, Counts DEF Report, Reportable, childVars, Upgrades
<1>2. ASSUME NEW t \in Ticks, NEW answer \in Answers, NEW queued \in BOOLEAN,
             TakeFlow(t, answer, queued)
      PROVE  holds \subseteq holds' /\ \A e \in outbox' \ outbox : New(e)
  <2>1. \A e \in outbox' \ outbox : e.kind = answer /\ e.d = hand[t].d
    BY <1>2 DEF TakeFlow, Nothing
  <2>2. holds' = IF answer = "installed" THEN holds \cup {hand[t].d} ELSE holds
    BY <1>2 DEF TakeFlow
  <2> QED BY <2>1, <2>2
<1>3. CASE holds' = holds /\ outbox' \subseteq outbox
  BY <1>3
<1> QED
  BY <1>1, <1>2, <1>3
     DEF Next, vars, Admins, Issue, CancelMark, CancelTorn, CancelAgain, DeleteFlow,
         CancelTell, TickStep, TickFails, Poll, Serve, ServeCancel, TakeUpgrade, Prompt,
         Throws, FanOut, TakeCancel, StopPending,
         CancelUnknown, Record, EndTick, Crash, Deliver, Discard, Answers, childVars,
         MachineSteps, FinishLate, Start, Finish, CancelLocally, Moves

\* An upgrade is stopped with none of its machines left in line.
LEMMA StopSteps ==
  ASSUME Shape, Known, Unfanned, [Next]_vars
  PROVE  \A d \in stopped' \ stopped :
           fan'[d] # "none" /\ \A m \in Machines : target'[d][m] # "pending"
<1> SUFFICES ASSUME NEW d \in stopped' \ stopped
             PROVE  fan'[d] # "none" /\ \A m \in Machines : target'[d][m] # "pending"
  OBVIOUS
<1>1. PICK t \in Ticks : StopPending(t) \/ CancelUnknown(t)
  BY DEF Next, vars, Admins, Issue, CancelMark, CancelTorn, CancelAgain, DeleteFlow,
         CancelTell, TickStep, TickFails, Poll, Serve, ServeCancel, TakeUpgrade, Prompt,
         Throws, FanOut, TakeCancel, TakeFlow,
         Report, Record, EndTick, Crash, Deliver, Discard, childVars,
         MachineSteps, FinishLate, Start, Finish, CancelLocally, Moves
<1>2. /\ hand[t].d \in Dispatch
      /\ fan \in [Dispatch -> {"none", "applied", "nothing-to-do"}]
      /\ target \in [Dispatch -> [Machines ->
                      {"none", "succeeded", "failed", "cancelled"} \cup Unsettled]]
  BY <1>1, TickKnown DEF StopPending, CancelUnknown, Fits, Shape, TypeOK
<1>3. CASE StopPending(t)
  <2>1. d = hand[t].d /\ fan[d] # "none" /\ fan' = fan
    BY <1>3 DEF StopPending, Known
  <2>2. \A m \in Machines :
          target'[d][m] = IF target[d][m] = "pending" THEN "cancelled" ELSE target[d][m]
    BY <1>2, <1>3, <2>1 DEF StopPending
  <2> QED BY <2>1, <2>2
<1>4. CASE CancelUnknown(t)
  <2>1. d = hand[t].d /\ fan[d] = "none" /\ fan'[d] # "none" /\ target' = target
    BY <1>2, <1>4 DEF CancelUnknown, RecordsRefusal
  <2> QED BY <2>1, <1>2 DEF Unfanned
<1> QED BY <1>1, <1>3, <1>4

-----------------------------------------------------------------------------
(* The invariant. *)

\* It holds at the start.
LEMMA IInvInit == Init => IInv
<1> SUFFICES ASSUME Init PROVE IInv
  OBVIOUS
<1>1. PICK s \in Scenarios :
        /\ kind = s.kind /\ faults = s.faults /\ idle = s.idle
        /\ phase = [t \in s.ticks |-> "idle"]
        /\ hand = [t \in s.ticks |-> Nothing]
  BY DEF Init
<1>2. kind \in Seq({"upgrade", "flow"}) /\ faults \in Nat /\ idle \in Nat
  BY <1>1, GroupAssumption
<1>3. [state |-> "none", seq |-> 0, said |-> Silence, attempts |-> 0] \in Row
  BY Counts DEF Row, Told
<1>4. TicksFit
  BY <1>1, NothingHeld DEF TicksFit, Fits, Ticks, Phases
<1>5. TypeOK
  BY <1>1, <1>2, <1>3, NothingHeld DEF Init, TypeOK, Ticks, Unsettled
<1>6. rep \in [Dispatch -> [seq : Nat, said : Told]] /\ outbox \subseteq Queued
  BY Counts DEF Init
<1>7. Known /\ Unfanned /\ ReportsTrue /\ StoppedStays /\ BoardTrue
  BY <1>1 DEF Init, Known, Unfanned, ReportsTrue, StoppedStays, BoardTrue, Closed, Ticks
<1> QED BY <1>4, <1>5, <1>6, <1>7 DEF IInv, Shape

\* Types are kept.
LEMMA ShapeStep == Shape /\ Known /\ [Next]_vars => Shape'
<1> SUFFICES ASSUME Shape, Known, [Next]_vars PROVE Shape'
  OBVIOUS
<1>1. CASE UNCHANGED vars
  BY <1>1 DEF vars, parentVars, childVars, tickVars, bounds, Shape, TypeOK, TicksFit, Fits,
              Ticks, Dispatch, Flows, Upgrades
<1>2. ASSUME NEW t \in Ticks, TickStep(t) \/ TickFails(t) PROVE Shape'
  BY <1>2, TickTypes
<1>3. ASSUME NEW d \in Dispatch, NEW m \in Machines,
             MachineSteps(d, m) \/ CancelLocally(d, m) \/ FinishLate(d, m)
      PROVE  Shape'
  BY <1>3, MachineTypes
<1> QED BY <1>1, <1>2, <1>3, AdminTypes, OutboxTypes DEF Next

\* The dispatches stay as they are, and none that was issued is forgotten.
LEMMA IssuedGrows ==
  ASSUME Shape, Known, [Next]_vars
  PROVE  /\ Dispatch' = Dispatch /\ Upgrades' = Upgrades /\ 1..issued \subseteq 1..issued'
         /\ telling' \subseteq Upgrades
<1>1. kind' = kind /\ (issued' = issued \/ issued' = issued + 1)
  BY DEF Next, vars, Admins, Issue, CancelMark, CancelTorn, CancelAgain,
         DeleteFlow, CancelTell, TickStep, TickFails, Poll, Serve, ServeCancel, TakeUpgrade,
         Prompt, Throws, FanOut,
         TakeCancel, StopPending, CancelUnknown, TakeFlow, Report, Record, EndTick, Crash,
         Deliver, Discard,
         MachineSteps, FinishLate, Start, Finish, CancelLocally, Moves
<1>2. telling' \subseteq Upgrades
  BY DEF Known, Next, vars, Admins, Issue, CancelMark, CancelTorn, CancelAgain,
         DeleteFlow, CancelTell, TickStep, TickFails, Poll, Serve, ServeCancel, TakeUpgrade,
         Prompt, Throws, FanOut,
         TakeCancel, StopPending, CancelUnknown, TakeFlow, Report, Record, EndTick, Crash,
         Deliver, Discard,
         MachineSteps, FinishLate, Start, Finish, CancelLocally, Moves, parentVars
<1>3. issued \in Nat
  BY Dispatches DEF Shape, TypeOK
<1> QED BY <1>1, <1>2, <1>3, KindKept

\* Every step keeps the invariant.
LEMMA IInvStep == IInv /\ [Next]_vars => IInv'
<1> SUFFICES ASSUME IInv, [Next]_vars PROVE IInv'
  OBVIOUS
<1> USE DEF IInv
<1>1. Shape' /\ Unfanned'
  BY ShapeStep, FleetSteps
<1>2. /\ Dispatch' = Dispatch /\ Upgrades' = Upgrades /\ 1..issued \subseteq 1..issued'
      /\ telling' \subseteq Upgrades
  BY IssuedGrows
<1>3. \A d \in Dispatch : RowStep(d)
  BY RowSteps
<1>4. \A d \in Dispatch : OnlySettles(d)
  BY FleetSteps
<1>5. \A d \in Dispatch : fan[d] # "none" => fan'[d] # "none"
  BY <1>4 DEF OnlySettles
<1>6. \A d \in Dispatch :
        fan[d] # "none" /\ Having(d, Unsettled) = 0 => Having(d, Unsettled)' = 0
  BY <1>4, Counted DEF OnlySettles
<1>7. Known'
  <2>1. \A d \in Dispatch : row'[d].state = "cancel-pending" => d \in Upgrades
    BY <1>3 DEF RowStep, Known, Closed
  <2>2. \A d \in Dispatch : fan'[d] # "none" => d \in 1..issued'
    BY <1>2, FanSteps DEF Known
  <2>3. \A d \in Dispatch : d \notin 1..issued' => row'[d].state = "none"
    BY <1>2, <1>3 DEF RowStep, Known
  <2>4. \A t \in Ticks' : phase'[t] = "stopping" => fan'[hand'[t].d] # "none"
    <3> SUFFICES ASSUME NEW t \in Ticks', phase'[t] = "stopping" PROVE fan'[hand'[t].d] # "none"
      OBVIOUS
    <3>1. /\ t \in Ticks /\ hand'[t] = hand[t]
          /\ phase[t] = "stopping" \/ (fan[hand[t].d] = "applied" /\ fan' = fan)
      BY StoppingSteps
    <3>2. CASE phase[t] = "stopping"
      <4>1. hand[t].d \in Dispatch /\ fan[hand[t].d] # "none"
        BY <3>1, <3>2, TickKnown DEF Known, Fits
      <4> QED BY <3>1, <4>1, <1>5
    <3> QED BY <3>1, <3>2
  <2> QED BY <1>2, <2>1, <2>2, <2>3, <2>4 DEF Known
<1>8. ReportsTrue'
  <2>1. \A e \in outbox : e.d \in Dispatch
    BY Dispatches DEF Shape, TypeOK
  <2>2. ASSUME NEW e \in outbox', e.kind = "progress"
        PROVE  fan'[e.d] # "none" /\ (e.said.left > 0 \/ Having(e.d, Unsettled)' = 0)
    <3>1. CASE e \in outbox
      BY <2>1, <2>2, <3>1, <1>5, <1>6 DEF ReportsTrue
    <3>2. CASE e \notin outbox
      <4>1. /\ fan[e.d] # "none" /\ UNCHANGED <<fan, target>>
            /\ e.said.left = Having(e.d, Unsettled)
        BY <2>2, <3>2, OutboxSteps DEF Answers
      <4>2. Having(e.d, Unsettled) = 0 => Having(e.d, Unsettled)' = 0
        BY <4>1 DEF Having
      <4>3. Having(e.d, Unsettled) \in Nat
        BY Counted
      <4> QED BY <4>1, <4>2, <4>3
    <3> QED BY <3>1, <3>2
  <2>3. ASSUME NEW e \in outbox', e.kind = "installed" PROVE e.d \in holds'
    BY <2>3, OutboxSteps DEF ReportsTrue
  <2> QED BY <2>2, <2>3 DEF ReportsTrue
<1>9. StoppedStays'
  <2> SUFFICES ASSUME NEW d \in stopped'
               PROVE  fan'[d] # "none" /\ Having(d, {"pending"})' = 0
    BY DEF StoppedStays
  <2>1. CASE d \in stopped
    <3>1. d \in Dispatch /\ fan[d] # "none" /\ Having(d, {"pending"}) = 0
      BY <2>1 DEF StoppedStays, Shape, TypeOK, Upgrades
    <3>2. \A m \in Machines : target'[d][m] # "pending"
      BY <3>1, <1>4, Counted DEF OnlySettles
    <3> QED BY <3>1, <3>2, <1>5, Counted
  <2>2. CASE d \notin stopped
    BY <2>2, StopSteps, Counted
  <2> QED BY <2>1, <2>2
<1>10. BoardTrue'
  <2> SUFFICES ASSUME NEW d \in Dispatch
               PROVE  /\ row'[d].state \in Closed /\ d \in Upgrades =>
                           fan'[d] # "none" /\ Having(d, Unsettled)' = 0
                      /\ row'[d].state = "installed" => d \in holds'
    BY <1>2 DEF BoardTrue
  <2>1. holds \subseteq holds'
    BY OutboxSteps
  <2>2. CASE row'[d].state = row[d].state
    BY <2>1, <2>2, <1>5, <1>6 DEF BoardTrue
  <2>3. CASE row'[d].state # row[d].state /\ row'[d].state \in Closed \cup {"installed"}
    <3>1. PICK e \in outbox :
            /\ e.d = d
            /\ \/ e.kind = "progress" /\ ~(e.said.left > 0) /\ row'[d].state \in Closed
               \/ e.kind = "installed" /\ row'[d].state = "installed"
      BY <2>3, <1>3 DEF RowStep, Closed
    <3> QED BY <2>1, <3>1, <1>5, <1>6 DEF ReportsTrue, Closed
  <2> QED BY <2>2, <2>3
<1> QED BY <1>1, <1>7, <1>8, <1>9, <1>10

-----------------------------------------------------------------------------
(* Theorems. *)

\* The invariant holds throughout.
LEMMA Invariant == Spec => []IInv
BY IInvInit, IInvStep, PTL DEF Spec

\* Every variable keeps its type.
THEOREM TypeCorrect == Spec => []TypeOK
<1>1. IInv => TypeOK
  BY DEF IInv, Shape
<1> QED BY Invariant, <1>1, PTL

\* The board never claims what the child has not done.
THEOREM BoardIsTrue == Spec => []BoardTrue
<1>1. IInv => BoardTrue
  BY DEF IInv
<1> QED BY Invariant, <1>1, PTL

\* A stopped upgrade puts no machine back in line.
THEOREM StoppedForGood == Spec => []StoppedStays
<1>1. IInv => StoppedStays
  BY DEF IInv
<1> QED BY Invariant, <1>1, PTL

\* A directive served again adds no machine, and starts none over.
THEOREM NoSecondFanOut == Spec => FannedOutOnce
<1>1. IInv /\ [Next]_vars =>
        \A d \in Dispatch, m \in Machines :
          fan[d] # "none" =>
            /\ target'[d][m] = "none" <=> target[d][m] = "none"
            /\ target'[d][m] = "pending" => target[d][m] = "pending"
  BY FleetSteps DEF IInv, OnlySettles
<1> QED BY Invariant, <1>1, PTL DEF Spec, FannedOutOnce

\* An answered row stays answered.
THEOREM ClosedForGood == Spec => ClosedStays
<1>1. IInv /\ [Next]_vars =>
        \A d \in Dispatch : row[d].state \in Closed =>
          /\ row'[d].state = row[d].state
          /\ row'[d].seq = row[d].seq /\ row'[d].said = row[d].said
  BY RowSteps DEF IInv, RowStep
<1> QED BY Invariant, <1>1, PTL DEF Spec, ClosedStays
=============================================================================
