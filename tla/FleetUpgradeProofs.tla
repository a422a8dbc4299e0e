-------------------------- MODULE FleetUpgradeProofs ------------------------
(***************************************************************************)
(* Theorems of FleetUpgrade for every number of directives, set of         *)
(* versions and bound.                                                     *)
(***************************************************************************)
EXTENDS FleetUpgrade, TLAPS

\* What every step preserves.
IInv ==
  /\ TypeOK /\ FileInHand /\ Attended /\ Unissued
  /\ StartsOwed /\ OutcomeOwed
  /\ ReportsTrue /\ SucceededMeansInstalled

-----------------------------------------------------------------------------
(* Reports under way. *)

\* Recording an event adds its report and takes none away.
LEMMA RecordedReports ==
  ASSUME NEW kind \in Kind, NEW x \in Directive, Recorded(kind, x), dead' = dead
  PROVE  \A kinds, d : Reports(kinds, d)' <=>
                         (Reports(kinds, d) \/ (d = x /\ kind \in kinds))
<1> DEFINE new == [n |-> clock + 1, kind |-> kind, d |-> x]
<1> SUFFICES ASSUME NEW kinds, NEW d
             PROVE  Reports(kinds, d)' <=> (Reports(kinds, d) \/ (d = x /\ kind \in kinds))
  OBVIOUS
<1>1. queue' \cup dead' = (queue \cup dead) \cup {new}
  BY DEF Recorded
<1>2. new.d = x /\ new.kind = kind
  OBVIOUS
<1> QED BY <1>1, <1>2 DEF Reports

\* Recording keeps the shape of the queue and of the clock.
LEMMA RecordedType ==
  ASSUME TypeOK, NEW kind \in Kind, NEW x \in Directive, Recorded(kind, x), dead' = dead
  PROVE  /\ queue' \subseteq Event /\ dead' \subseteq Event /\ clock' \in Nat
         /\ \A e \in queue' \cup dead' : e.n <= clock'
<1> DEFINE new == [n |-> clock + 1, kind |-> kind, d |-> x]
<1>1. new \in Event /\ new.n = clock + 1
  BY DEF Event, TypeOK
<1>2. queue' = queue \cup {new} /\ clock' = clock + 1
  BY DEF Recorded
<1>3. \A e \in queue \cup dead : e.n \in Nat /\ e.n <= clock
  BY DEF TypeOK, Event
<1> QED BY <1>1, <1>2, <1>3 DEF TypeOK

\* Reports depend on the queue and the deadletter only.
LEMMA SameReports ==
  ASSUME queue' \cup dead' = queue \cup dead
  PROVE  \A kinds, d : Reports(kinds, d)' <=> Reports(kinds, d)
BY DEF Reports

-----------------------------------------------------------------------------
(* What a step of the spoke must do for the board's invariants. *)

\* A step that leaves the board alone keeps what is owed, if every verdict that was
\* owed still is and every new started event brings one.
LEMMA OwedKept ==
  ASSUME StartsOwed, OutcomeOwed, target' = target, torn \subseteq torn',
         \A d \in Directive \ torn' : Owed(d) => Owed(d)',
         \A d \in Directive \ torn' :
           Reports({"started"}, d)' => (Reports({"started"}, d) \/ Owed(d)')
  PROVE  StartsOwed' /\ OutcomeOwed'
<1>1. SUFFICES ASSUME NEW d \in Directive, d \notin torn'
               PROVE  /\ Reports({"started"}, d)' => (Owed(d)' \/ target'[d] \in Terminal)
                      /\ target'[d] = "in_progress" => Owed(d)'
  BY DEF StartsOwed, OutcomeOwed
<1>2. d \notin torn
  BY <1>1
<1>3. Reports({"started"}, d) => (Owed(d) \/ target[d] \in Terminal)
  BY <1>2 DEF StartsOwed
<1>4. target[d] = "in_progress" => Owed(d)
  BY <1>2 DEF OutcomeOwed
<1> QED BY <1>1, <1>3, <1>4

\* A step that leaves the board alone keeps its successes true, if it reports no
\* success of a version that is not on disk.
LEMMA TruthKept ==
  ASSUME ReportsTrue, SucceededMeansInstalled, target' = target, wanted' = wanted,
         landed \subseteq landed', disk' \in landed',
         \A d \in Directive :
           Reports({"succeeded"}, d)' => (Reports({"succeeded"}, d) \/ wanted[d].to \in landed')
  PROVE  ReportsTrue' /\ SucceededMeansInstalled'
BY DEF ReportsTrue, SucceededMeansInstalled

\* Both, for a step that records nothing and leaves the state file alone.
LEMMA SilentStep ==
  ASSUME IInv, queue' \cup dead' = queue \cup dead, file' = file, torn' = torn,
         target' = target, wanted' = wanted, landed \subseteq landed', disk' \in landed'
  PROVE  StartsOwed' /\ OutcomeOwed' /\ ReportsTrue' /\ SucceededMeansInstalled'
<1>1. \A kinds, d : Reports(kinds, d)' <=> Reports(kinds, d)
  BY SameReports
<1>2. \A d : Owed(d)' <=> Owed(d)
  BY <1>1 DEF Owed
<1>3. StartsOwed' /\ OutcomeOwed'
  BY <1>1, <1>2, OwedKept DEF IInv
<1>4. ReportsTrue' /\ SucceededMeansInstalled'
  BY <1>1, TruthKept DEF IInv
<1> QED BY <1>3, <1>4

\* Both, for a step that records a verdict for x and writes no other file than one
\* for x.
LEMMA VerdictStep ==
  ASSUME IInv, NEW kind \in {"succeeded", "failed"}, NEW x \in Directive,
         Recorded(kind, x), dead' = dead, torn' = torn,
         file' = file \/ file.outcome # "started" \/ file.d = x,
         target' = target, wanted' = wanted, landed \subseteq landed', disk' \in landed',
         kind = "succeeded" => wanted[x].to \in landed'
  PROVE  StartsOwed' /\ OutcomeOwed' /\ ReportsTrue' /\ SucceededMeansInstalled'
<1>1. \A kinds, d : Reports(kinds, d)' <=> (Reports(kinds, d) \/ (d = x /\ kind \in kinds))
  BY RecordedReports DEF Kind
<1>2. \A d \in Directive : Owed(d) => Owed(d)'
  <2> SUFFICES ASSUME NEW d \in Directive, Owed(d) PROVE Owed(d)'
    OBVIOUS
  <2>1. CASE Reports({"succeeded", "failed"}, d)
    BY <2>1, <1>1 DEF Owed
  <2>2. CASE file = [d |-> d, outcome |-> "started"]
    <3>1. file.d = d /\ file.outcome = "started"
      BY <2>2
    <3>2. CASE file' = file
      BY <2>2, <3>2 DEF Owed
    <3>3. CASE d = x
      BY <3>3, <1>1 DEF Owed
    <3> QED BY <3>1, <3>2, <3>3
  <2> QED BY <2>1, <2>2 DEF Owed
<1>3. \A d : Reports({"started"}, d)' => Reports({"started"}, d)
  BY <1>1
<1>4. StartsOwed' /\ OutcomeOwed'
  BY <1>2, <1>3, OwedKept DEF IInv
<1>5. \A d \in Directive :
        Reports({"succeeded"}, d)' => (Reports({"succeeded"}, d) \/ wanted[d].to \in landed')
  BY <1>1
<1>6. ReportsTrue' /\ SucceededMeansInstalled'
  BY <1>5, TruthKept DEF IInv
<1> QED BY <1>4, <1>6

-----------------------------------------------------------------------------
(* The hub's steps. *)

\* What a step of the admins' side leaves alone.
LEMMA BoardQuiet ==
  ASSUME IInv, UNCHANGED <<wanted, spokeVars, queue, dead, clock, torn, runs>>,
         \A d \in Directive :
           /\ target'[d] = "in_progress" => target[d] = "in_progress"
           /\ target'[d] = "succeeded" => target[d] = "succeeded"
           /\ target[d] \in Terminal => target'[d] \in Terminal
           /\ d > issued' => d > issued /\ (target[d] = "none" => target'[d] = "none")
  PROVE  /\ FileInHand' /\ Attended' /\ Unissued' /\ StartsOwed' /\ OutcomeOwed'
         /\ ReportsTrue' /\ SucceededMeansInstalled'
<1>1. \A kinds, d : Reports(kinds, d)' <=> Reports(kinds, d)
  BY SameReports
<1>2. \A d : Owed(d)' <=> Owed(d)
  BY <1>1 DEF Owed, spokeVars
<1>3. FileInHand' /\ Attended'
  BY DEF IInv, FileInHand, Attended, spokeVars
<1>4. StartsOwed'
  <2> SUFFICES ASSUME NEW d \in Directive \ torn, Reports({"started"}, d)
               PROVE  Owed(d) \/ target'[d] \in Terminal
    BY <1>1, <1>2 DEF StartsOwed
  <2>1. Owed(d) \/ target[d] \in Terminal
    BY DEF IInv, StartsOwed
  <2> QED BY <2>1
<1>5. OutcomeOwed'
  BY <1>2 DEF IInv, OutcomeOwed
<1>6. ReportsTrue' /\ SucceededMeansInstalled'
  BY <1>1 DEF IInv, ReportsTrue, SucceededMeansInstalled, spokeVars
<1>7. Unissued'
  BY <1>1 DEF IInv, Unissued, spokeVars
<1> QED BY <1>3, <1>4, <1>5, <1>6, <1>7

\* Issuing a directive: its target was none.
LEMMA InsertedInv ==
  ASSUME IInv, Inserted(issued + 1), issued + 1 \in Directive,
         checks' \in 0..(NDirectives - issued'),
         UNCHANGED <<wanted, spokeVars, queue, dead, clock, torn, runs, ops>>
  PROVE  IInv'
<1>1. target[issued + 1] = "none"
  BY UpgradeAssumption DEF IInv, TypeOK, Unissued, Directive
<1>2. target' = [target EXCEPT ![issued + 1] = "pending"] /\ issued' = issued + 1
  BY DEF Inserted
<1>3. target \in [Directive -> Active \cup Terminal \cup {"none"}] /\ issued \in Nat
  BY DEF IInv, TypeOK
<1>4. \A d \in Directive :
        /\ target'[d] = "in_progress" => target[d] = "in_progress"
        /\ target'[d] = "succeeded" => target[d] = "succeeded"
        /\ target[d] \in Terminal => target'[d] \in Terminal
        /\ d > issued' => d > issued /\ (target[d] = "none" => target'[d] = "none")
  BY <1>1, <1>2, <1>3 DEF Terminal, Directive
<1>5. TypeOK'
  BY <1>2, <1>3, UpgradeAssumption DEF IInv, TypeOK, Active, Directive, spokeVars
<1>6. QED
  BY <1>4, <1>5, BoardQuiet DEF IInv

LEMMA AdminInv ==
  ASSUME IInv, AdminCheck \/ AdminInsert \/ FanOut
  PROVE  IInv'
<1>1. issued \in 0..NDirectives /\ checks \in 0..(NDirectives - issued) /\ NDirectives \in Nat
  BY UpgradeAssumption DEF IInv, TypeOK
<1>2. CASE AdminCheck
  <2>1. TypeOK'
    BY <1>1, <1>2 DEF AdminCheck, IInv, TypeOK, spokeVars
  <2>2. QED
    BY <1>2, <2>1, BoardQuiet DEF AdminCheck, IInv
<1>3. CASE AdminInsert
  <2>1. issued + 1 \in Directive /\ issued' = issued + 1 /\ checks' = checks - 1
    BY <1>1, <1>3 DEF AdminInsert, Inserted, Directive
  <2>2. checks' \in 0..(NDirectives - issued')
    BY <1>1, <1>3, <2>1 DEF AdminInsert
  <2>3. QED
    BY <1>3, <2>1, <2>2, InsertedInv DEF AdminInsert
<1>4. CASE FanOut
  <2>1. issued + 1 \in Directive /\ issued' = issued + 1 /\ checks' = checks
    BY <1>1, <1>4 DEF FanOut, Inserted, Directive
  <2>2. checks' \in 0..(NDirectives - issued')
    BY <1>1, <1>4, <2>1 DEF FanOut
  <2>3. QED
    BY <1>4, <2>1, <2>2, InsertedInv DEF FanOut
<1> QED BY <1>2, <1>3, <1>4

LEMMA OpType == ASSUME ops \in 0..MaxOps, Op PROVE ops' \in 0..MaxOps
BY UpgradeAssumption DEF Op

LEMMA CancelInv ==
  ASSUME IInv, NEW d \in Directive, NEW force \in BOOLEAN, Cancel(d, force)
  PROVE  IInv'
<1>1. target' = [target EXCEPT ![d] = "cancelled"] /\ target[d] \in Active
  BY DEF Cancel, Active
<1>2. target \in [Directive -> Active \cup Terminal \cup {"none"}]
  BY DEF IInv, TypeOK
<1>3. ops' \in 0..MaxOps
  BY OpType DEF Cancel, IInv, TypeOK
<1>4. TypeOK'
  BY <1>1, <1>2, <1>3 DEF Cancel, IInv, TypeOK, Terminal, spokeVars
<1>5. \A x \in Directive :
        /\ target'[x] = "in_progress" => target[x] = "in_progress"
        /\ target'[x] = "succeeded" => target[x] = "succeeded"
        /\ target[x] \in Terminal => target'[x] \in Terminal
        /\ x > issued' => x > issued /\ (target[x] = "none" => target'[x] = "none")
  BY <1>1, <1>2 DEF Cancel, Terminal, Active
<1>6. QED
  BY <1>4, <1>5, BoardQuiet DEF Cancel, IInv

\* An event arrives: a verdict settles its target, a started event is followed by
\* what StartsOwed promised.
LEMMA DeliverInv ==
  ASSUME IInv, NEW e \in queue, Deliver(e)
  PROVE  IInv'
<1>1. e \in Event /\ e.kind \in Kind /\ e.d \in Directive
  BY DEF IInv, TypeOK, Event
<1>2. queue' = queue \ {e} /\ dead' = dead /\ target' = Reported(e)
      /\ UNCHANGED <<wanted, issued, checks, spokeVars, clock, torn, runs, ops>>
  BY DEF Deliver
<1>3. target \in [Directive -> Active \cup Terminal \cup {"none"}]
  BY DEF IInv, TypeOK
<1>4. /\ \A d \in Directive : d # e.d => target'[d] = target[d]
      /\ target'[e.d] = IF e.kind # "started" THEN e.kind
                        ELSE IF target[e.d] \in Active THEN "in_progress" ELSE target[e.d]
  BY <1>1, <1>2, <1>3 DEF Reported
<1>5. TypeOK'
  <2>1. target' \in [Directive -> Active \cup Terminal \cup {"none"}]
    BY <1>1, <1>2, <1>3 DEF Reported, Kind, Active, Terminal
  <2>2. queue' \subseteq Event /\ \A x \in queue' \cup dead' : x.n <= clock'
    BY <1>2 DEF IInv, TypeOK
  <2> QED BY <1>2, <2>1, <2>2 DEF IInv, TypeOK, spokeVars
<1>6. FileInHand' /\ Attended'
  BY <1>2 DEF IInv, FileInHand, Attended, spokeVars
<1>7. \A kinds, d : Reports(kinds, d)' => Reports(kinds, d)
  BY <1>2 DEF Reports
<1>8. \A kinds, d : d # e.d \/ e.kind \notin kinds => (Reports(kinds, d)' <=> Reports(kinds, d))
  BY <1>2 DEF Reports
<1>9. Reports({e.kind}, e.d)
  BY DEF Reports
<1>11. ReportsTrue'
  BY <1>2, <1>7 DEF IInv, ReportsTrue, spokeVars
<1>12. Unissued'
  <2>1. e.d <= issued
    BY <1>1 DEF IInv, Unissued, TypeOK, Directive, Reports
  <2>2. \A d \in Directive : d > issued => d # e.d
    BY <1>1, <2>1 DEF IInv, TypeOK, Directive
  <2>3. \A d : ~Reports(Kind, d) => ~Reports(Kind, d)'
    BY <1>7
  <2> QED BY <1>2, <1>4, <2>2, <2>3 DEF IInv, Unissued, spokeVars
<1>10. CASE e.kind # "started"
  <2>1. target'[e.d] \in {"succeeded", "failed"} /\ target'[e.d] = e.kind
    BY <1>1, <1>4, <1>10 DEF Kind
  <2>2. \A d \in Directive \ {e.d} : Owed(d)' <=> Owed(d)
    BY <1>2, <1>8 DEF Owed, spokeVars
  <2>3. StartsOwed'
    <3> SUFFICES ASSUME NEW d \in Directive \ torn', Reports({"started"}, d)'
                 PROVE  Owed(d)' \/ target'[d] \in Terminal
      BY DEF StartsOwed
    <3>1. CASE d = e.d
      BY <3>1, <2>1 DEF Terminal
    <3>2. CASE d # e.d
      <4>1. Owed(d) \/ target[d] \in Terminal
        BY <1>2, <1>7 DEF IInv, StartsOwed
      <4> QED BY <3>2, <4>1, <1>4, <2>2
    <3> QED BY <3>1, <3>2
  <2>4. OutcomeOwed'
    <3> SUFFICES ASSUME NEW d \in Directive \ torn', target'[d] = "in_progress" PROVE Owed(d)'
      BY DEF OutcomeOwed
    <3>1. d # e.d
      BY <2>1
    <3>2. Owed(d)
      BY <1>2, <1>4, <3>1 DEF IInv, OutcomeOwed
    <3> QED BY <2>2, <3>1, <3>2
  <2>5. SucceededMeansInstalled'
    <3> SUFFICES ASSUME NEW d \in Directive, target'[d] = "succeeded"
                 PROVE  wanted[d].to \in landed
      BY <1>2 DEF SucceededMeansInstalled, spokeVars
    <3>1. CASE d = e.d
      BY <3>1, <2>1, <1>9 DEF IInv, ReportsTrue
    <3>2. CASE d # e.d
      BY <3>2, <1>4 DEF IInv, SucceededMeansInstalled
    <3> QED BY <3>1, <3>2
  <2> QED BY <1>5, <1>6, <1>11, <1>12, <2>3, <2>4, <2>5 DEF IInv
<1>13. CASE e.kind = "started"
  <2>1. \A d : Owed(d)' <=> Owed(d)
    BY <1>2, <1>8, <1>13 DEF Owed, spokeVars
  <2>2. \A d \in Directive : target[d] \in Terminal => target'[d] \in Terminal
    BY <1>4, <1>13 DEF Terminal, Active
  <2>3. StartsOwed'
    BY <1>2, <1>7, <2>1, <2>2 DEF IInv, StartsOwed
  <2>4. OutcomeOwed'
    <3> SUFFICES ASSUME NEW d \in Directive \ torn, target'[d] = "in_progress" PROVE Owed(d)
      BY <1>2, <2>1 DEF OutcomeOwed
    <3>1. CASE target[d] = "in_progress"
      BY <3>1 DEF IInv, OutcomeOwed
    <3>2. CASE target[d] # "in_progress"
      <4>1. d = e.d /\ target[d] \in Active
        BY <3>2, <1>4, <1>13
      <4> QED BY <4>1, <1>9, <1>13 DEF IInv, StartsOwed, Active, Terminal
    <3> QED BY <3>1, <3>2
  <2>5. SucceededMeansInstalled'
    BY <1>2, <1>4, <1>13 DEF IInv, SucceededMeansInstalled, spokeVars
  <2> QED BY <1>5, <1>6, <1>11, <1>12, <2>3, <2>4, <2>5 DEF IInv
<1> QED BY <1>10, <1>13

\* A refused event waits in the deadletter, a requeued one goes back.
LEMMA MovedInv ==
  ASSUME IInv, NEW e, Refuse(e) \/ Requeue(e)
  PROVE  IInv'
<1>1. queue' \cup dead' = queue \cup dead
  BY DEF Refuse, Requeue
<1>2. UNCHANGED <<wanted, hubVars, spokeVars, clock, torn, runs>> /\ ops' \in 0..MaxOps
  BY OpType DEF Refuse, Requeue, IInv, TypeOK
<1>3. queue' \subseteq Event /\ dead' \subseteq Event
  BY DEF Refuse, Requeue, IInv, TypeOK
<1>4. TypeOK'
  BY <1>1, <1>2, <1>3 DEF IInv, TypeOK, hubVars, spokeVars
<1>5. \A kinds, d : Reports(kinds, d)' <=> Reports(kinds, d)
  BY <1>1, SameReports
<1>6. FileInHand' /\ Attended' /\ Unissued'
  BY <1>2, <1>5 DEF IInv, FileInHand, Attended, Unissued, hubVars, spokeVars
<1>7. StartsOwed' /\ OutcomeOwed' /\ ReportsTrue' /\ SucceededMeansInstalled'
  BY <1>1, <1>2, SilentStep DEF hubVars, spokeVars, IInv, ReportsTrue
<1> QED BY <1>4, <1>6, <1>7 DEF IInv

LEMMA HubInv == ASSUME IInv, Hub PROVE IInv'
<1>1. CASE AdminCheck \/ AdminInsert \/ FanOut
  BY <1>1, AdminInv
<1>2. CASE \E d \in Directive, force \in BOOLEAN : Cancel(d, force)
  BY <1>2, CancelInv
<1>3. CASE \E e \in queue : Deliver(e) \/ Refuse(e)
  BY <1>3, DeliverInv, MovedInv
<1>4. CASE \E e \in dead : Requeue(e)
  BY <1>4, MovedInv
<1> QED BY <1>1, <1>2, <1>3, <1>4 DEF Hub

-----------------------------------------------------------------------------
(* The spoke's steps. *)

\* A step of the spoke that records nothing and writes no state file.
LEMMA QuietSpoke ==
  ASSUME IInv, UNCHANGED <<wanted, hubVars, file, queue, dead, clock, torn>>,
         runs' \in [Directive -> 0..MaxRuns], ops' \in 0..MaxOps,
         up' \in BOOLEAN, disk' \in Versions, phase' \in Phases,
         hand' \in {hand, None} \/ (hand' \in Directive /\ hand' <= issued),
         clis' \subseteq [d : Directive, own : BOOLEAN],
         landed' = landed \cup {disk'},
         FileInHand', Attended'
  PROVE  IInv'
<1>1. hand' \in Directive \cup {None}
  BY DEF IInv, TypeOK
<1>2. TypeOK'
  BY <1>1 DEF IInv, TypeOK, hubVars
<1>3. \A kinds, d : Reports(kinds, d)' <=> Reports(kinds, d)
  BY SameReports
<1>4. Unissued'
  <2> SUFFICES ASSUME NEW d \in Directive, d > issued
               PROVE  target[d] = "none" /\ ~Reports(Kind, d) /\ d \notin {hand', file.d}
    BY <1>3 DEF Unissued, hubVars
  <2>1. target[d] = "none" /\ ~Reports(Kind, d) /\ d \notin {hand, file.d}
    BY DEF IInv, Unissued
  <2>2. d # None /\ ~(d <= issued)
    BY DEF Directive, None, IInv, TypeOK
  <2> QED BY <2>1, <2>2
<1>5. StartsOwed' /\ OutcomeOwed' /\ ReportsTrue' /\ SucceededMeansInstalled'
  BY SilentStep DEF hubVars
<1> QED BY <1>2, <1>4, <1>5 DEF IInv

LEMMA OrphansType ==
  ASSUME clis \subseteq [d : Directive, own : BOOLEAN]
  PROVE  Orphans \subseteq [d : Directive, own : BOOLEAN] /\ \A c \in Orphans : ~c.own
<1> SUFFICES ASSUME NEW c \in Orphans
             PROVE  c \in [d : Directive, own : BOOLEAN] /\ ~c.own
  OBVIOUS
<1>1. PICK x \in clis : c = [d |-> x.d, own |-> FALSE]
  BY DEF Orphans
<1>2. x.d \in Directive
  OBVIOUS
<1> QED BY <1>1, <1>2

\* The process stops: nothing of the reconciler is left in memory.
LEMMA StoppedInv ==
  ASSUME IInv, Stopped,
         UNCHANGED <<wanted, hubVars, disk, file, landed, queue, dead, clock, torn, runs>>,
         ops' \in 0..MaxOps
  PROVE  IInv'
<1>1. clis' \subseteq [d : Directive, own : BOOLEAN] /\ \A c \in clis' : ~c.own
  BY OrphansType DEF Stopped, IInv, TypeOK
<1>2. FileInHand' /\ Attended'
  BY <1>1 DEF Stopped, FileInHand, Attended
<1>3. landed' = landed \cup {disk'}
  BY DEF IInv, ReportsTrue
<1>4. /\ up' \in BOOLEAN /\ disk' \in Versions /\ phase' \in Phases
      /\ hand' \in {hand, None} /\ runs' \in [Directive -> 0..MaxRuns]
  BY DEF Stopped, IInv, TypeOK, Phases
<1>5. UNCHANGED <<wanted, hubVars, file, queue, dead, clock, torn>>
  OBVIOUS
<1> QED BY <1>1, <1>2, <1>3, <1>4, <1>5, QuietSpoke

LEMMA TickInv ==
  ASSUME IInv, (\E d \in Directive : Fetch(d)) \/ Skip \/ Spawn
  PROVE  IInv'
<1>1. landed = landed \cup {disk}
  BY DEF IInv, ReportsTrue
<1>2. CASE \E d \in Directive : Fetch(d)
  <2>1. PICK d \in Directive : Fetch(d)
    BY <1>2
  <2>2. d <= issued
    BY <2>1 DEF Fetch, IInv, Unissued, TypeOK, Directive
  <2>3. up /\ phase = "idle" /\ phase' = "fetched" /\ hand' = d
        /\ UNCHANGED <<wanted, hubVars, up, disk, clis, file, landed, queue, dead, clock,
                       torn, runs, ops>>
    BY <2>1 DEF Fetch
  <2>4. FileInHand' /\ Attended'
    BY <2>1, <2>3 DEF Fetch, IInv, FileInHand, Attended
  <2> QED BY <1>1, <2>2, <2>3, <2>4, QuietSpoke DEF IInv, TypeOK, Phases
<1>3. CASE Skip
  <2>1. FileInHand' /\ Attended'
    BY <1>3 DEF Skip, IInv, FileInHand, Attended
  <2>2. /\ UNCHANGED <<wanted, hubVars, file, queue, dead, clock, torn>>
        /\ phase' \in Phases /\ hand' \in {hand, None}
        /\ UNCHANGED <<up, disk, clis, landed, runs, ops>>
    BY <1>3 DEF Skip, Phases
  <2>3. /\ up' \in BOOLEAN /\ disk' \in Versions /\ landed' = landed \cup {disk'}
        /\ clis' \subseteq [d : Directive, own : BOOLEAN]
        /\ runs' \in [Directive -> 0..MaxRuns] /\ ops' \in 0..MaxOps
    BY <1>1, <2>2 DEF IInv, TypeOK
  <2> QED BY <2>1, <2>2, <2>3, QuietSpoke
<1>4. CASE Spawn
  <2>1. hand \in Directive
    BY <1>4 DEF Spawn, IInv, Attended
  <2>2. clis' \subseteq [d : Directive, own : BOOLEAN]
    <3>1. [d |-> hand, own |-> TRUE] \in [d : Directive, own : BOOLEAN]
      BY <2>1
    <3>2. clis' = clis \cup {[d |-> hand, own |-> TRUE]}
      BY <1>4 DEF Spawn
    <3> QED BY <3>1, <3>2 DEF IInv, TypeOK
  <2>3. FileInHand'
    BY <1>4 DEF Spawn, IInv, FileInHand
  <2>4. Attended'
    BY <1>4, <2>1 DEF Spawn, IInv, Attended
  <2>5. /\ UNCHANGED <<wanted, hubVars, file, queue, dead, clock, torn>>
        /\ phase' \in Phases /\ UNCHANGED <<up, disk, hand, landed, runs, ops>>
    BY <1>4 DEF Spawn, Phases
  <2> QED BY <1>1, <2>2, <2>3, <2>4, <2>5, QuietSpoke DEF IInv, TypeOK
<1> QED BY <1>2, <1>3, <1>4

LEMMA CliInv ==
  ASSUME IInv, NEW c \in clis, CliStopsServer(c) \/ CliInstalls(c)
  PROVE  IInv'
<1>1. CASE CliStopsServer(c)
  BY <1>1, StoppedInv DEF CliStopsServer, IInv, TypeOK
<1>2. CASE CliInstalls(c)
  <2>1. disk' \in Versions
    BY <1>2 DEF CliInstalls, IInv, TypeOK
  <2>2. FileInHand' /\ Attended'
    BY <1>2 DEF CliInstalls, IInv, FileInHand, Attended
  <2> QED BY <1>2, <2>1, <2>2, QuietSpoke DEF CliInstalls, IInv, TypeOK
<1> QED BY <1>1, <1>2

LEMMA RestartInv == ASSUME IInv, RestartServer PROVE IInv'
<1>1. CASE Stopped
  BY <1>1, StoppedInv DEF RestartServer, IInv, TypeOK
<1>2. CASE phase' = "idle" /\ hand' = None /\ UNCHANGED <<up, clis>>
  <2>1. FileInHand' /\ Attended'
    BY <1>2 DEF RestartServer, IInv, FileInHand, Attended
  <2>2. landed' = landed \cup {disk'}
    BY DEF RestartServer, IInv, ReportsTrue
  <2> QED BY <1>2, <2>1, <2>2, QuietSpoke DEF RestartServer, IInv, TypeOK, Phases
<1> QED BY <1>1, <1>2 DEF RestartServer

-----------------------------------------------------------------------------
(* The steps that record. *)

\* An event about an issued directive leaves the others unheard of.
LEMMA RecordedUnissued ==
  ASSUME IInv, NEW kind \in Kind, NEW x \in Directive, x <= issued,
         Recorded(kind, x), dead' = dead, UNCHANGED <<target, issued>>,
         hand' \in {hand, None}, file'.d \in {file.d, None, x}
  PROVE  Unissued'
<1>1. \A kinds, d : Reports(kinds, d)' <=> (Reports(kinds, d) \/ (d = x /\ kind \in kinds))
  BY RecordedReports
<1>2. SUFFICES ASSUME NEW d \in Directive, d > issued
               PROVE  target[d] = "none" /\ ~Reports(Kind, d)' /\ d \notin {hand', file'.d}
  BY DEF Unissued
<1>3. target[d] = "none" /\ ~Reports(Kind, d) /\ d \notin {hand, file.d}
  BY <1>2 DEF IInv, Unissued
<1>4. d # None /\ d # x
  BY <1>2 DEF Directive, None, IInv, TypeOK
<1> QED BY <1>1, <1>3, <1>4

\* What a working reconciler holds was issued, and a started file is its own.
LEMMA HandIssued ==
  ASSUME IInv, phase # "idle"
  PROVE  /\ up /\ hand \in Directive /\ hand <= issued
         /\ file.outcome = "started" => file.d = hand \/ phase \in {"fetched", "restarting"}
BY DEF IInv, Attended, FileInHand, Unissued, TypeOK, Directive

\* A started event and its file.
LEMMA BeginInv == ASSUME IInv, Begin PROVE IInv'
<1>1. hand \in Directive /\ hand <= issued /\ up
  BY HandIssued DEF Begin
<1>2. /\ Recorded("started", hand) /\ file' = [d |-> hand, outcome |-> "started"]
      /\ phase = "fetched" /\ phase' = "flushing"
      /\ UNCHANGED <<wanted, hubVars, up, disk, hand, clis, landed, dead, torn, ops>>
  BY DEF Begin
<1>3. \A kinds, d : Reports(kinds, d)' <=> (Reports(kinds, d) \/ (d = hand /\ "started" \in kinds))
  BY <1>1, <1>2, RecordedReports DEF Kind
<1>4. file.outcome # "started"
  BY <1>1, <1>2 DEF IInv, FileInHand
<1>5. runs' \in [Directive -> 0..MaxRuns]
  <2>1. runs \in [Directive -> 0..MaxRuns] /\ runs[hand] < MaxRuns /\ MaxRuns \in Nat
    BY <1>2, UpgradeAssumption DEF IInv, TypeOK, Attended
  <2>2. runs' = [runs EXCEPT ![hand] = runs[hand] + 1]
    BY DEF Begin
  <2> QED BY <1>1, <2>1, <2>2
<1>6. TypeOK'
  <2>1. queue' \subseteq Event /\ dead' \subseteq Event /\ clock' \in Nat
        /\ \A e \in queue' \cup dead' : e.n <= clock'
    BY <1>1, <1>2, RecordedType DEF Kind, IInv
  <2> QED BY <1>1, <1>2, <1>5, <2>1 DEF IInv, TypeOK, hubVars, Phases
<1>7. FileInHand' /\ Attended'
  BY <1>1, <1>2 DEF IInv, FileInHand, Attended
<1>8. Unissued'
  BY <1>1, <1>2, RecordedUnissued DEF Kind, hubVars
<1>9. StartsOwed' /\ OutcomeOwed'
  <2>1. \A d \in Directive \ torn' : Owed(d) => Owed(d)'
    <3> SUFFICES ASSUME NEW d \in Directive, Owed(d) PROVE Owed(d)'
      OBVIOUS
    <3>1. file # [d |-> d, outcome |-> "started"]
      BY <1>4
    <3> QED BY <1>3, <3>1 DEF Owed
  <2>2. \A d : d = hand => Owed(d)'
    BY <1>2 DEF Owed
  <2>3. \A d \in Directive \ torn' :
          Reports({"started"}, d)' => (Reports({"started"}, d) \/ Owed(d)')
    BY <1>3, <2>2
  <2>4. target' = target /\ torn \subseteq torn' /\ StartsOwed /\ OutcomeOwed
    BY <1>2 DEF hubVars, IInv
  <2> QED BY <2>1, <2>3, <2>4, OwedKept
<1>10. ReportsTrue' /\ SucceededMeansInstalled'
  BY <1>2, <1>3, TruthKept DEF IInv, ReportsTrue, hubVars
<1> QED BY <1>6, <1>7, <1>8, <1>9, <1>10 DEF IInv

\* A verdict on the directive in hand, whether or not its state file was written.
LEMMA VerdictInv ==
  ASSUME IInv, NEW kind \in {"succeeded", "failed"}, NEW next \in {"idle", "restarting"},
         NEW saved \in BOOLEAN, Verdict(kind, next, saved),
         phase \in {"spawned", "extracting"},
         UNCHANGED <<wanted, hubVars, dead, torn, runs>>,
         disk' \in Versions, landed' = landed \cup {disk'},
         clis' \subseteq clis, \A c \in clis' : ~c.own,
         kind = "succeeded" => wanted[hand].to \in landed'
  PROVE  IInv'
<1>1. hand \in Directive /\ hand <= issued /\ up
  BY HandIssued
<1>2. file.outcome = "started" => file.d = hand
  BY HandIssued
<1>3. /\ Recorded(kind, hand)
      /\ file' \in {file, NoFile, [d |-> hand, outcome |-> "failed"]}
      /\ hand' \in {hand, None} /\ phase' \in {"idle", "restarting"}
      /\ phase' = "restarting" => (up' /\ hand' = hand)
      /\ up' => file' \in {NoFile, [d |-> hand, outcome |-> "failed"]}
      /\ up' \in BOOLEAN
  BY <1>1 DEF Verdict, IInv, TypeOK
<1>4. ops' \in 0..MaxOps
  BY OpType DEF Verdict, IInv, TypeOK
<1>5. TypeOK'
  <2>1. queue' \subseteq Event /\ dead' \subseteq Event /\ clock' \in Nat
        /\ \A e \in queue' \cup dead' : e.n <= clock'
    BY <1>1, <1>3, RecordedType DEF Kind, IInv
  <2>2. file' \in {NoFile} \cup [d : Directive, outcome : {"started", "failed"}]
    BY <1>1, <1>3 DEF IInv, TypeOK
  <2>3. phase' \in Phases /\ hand' \in Directive \cup {None}
    BY <1>1, <1>3 DEF Phases
  <2>4. clis' \subseteq [d : Directive, own : BOOLEAN] /\ landed' \subseteq Versions
    BY DEF IInv, TypeOK
  <2> QED BY <1>3, <1>4, <2>1, <2>2, <2>3, <2>4 DEF IInv, TypeOK, hubVars
<1>6. FileInHand'
  BY <1>3 DEF FileInHand, NoFile
<1>7. Attended'
  BY <1>1, <1>3 DEF Attended
<1>8. Unissued'
  BY <1>1, <1>3, RecordedUnissued DEF Kind, hubVars, NoFile
<1>9. StartsOwed' /\ OutcomeOwed' /\ ReportsTrue' /\ SucceededMeansInstalled'
  BY <1>1, <1>2, <1>3, VerdictStep DEF hubVars
<1> QED BY <1>5, <1>6, <1>7, <1>8, <1>9 DEF IInv

LEMMA CliExitsInv ==
  ASSUME IInv, NEW c \in clis, NEW report \in Report, NEW saved \in BOOLEAN,
         CliExits(c, report, saved)
  PROVE  IInv'
<1>1. /\ clis' = clis \ {c}
      /\ UNCHANGED <<wanted, hubVars, disk, landed, dead, torn, runs>>
  BY DEF CliExits
<1>2. landed = landed \cup {disk} /\ disk \in Versions /\ disk \in landed
  BY DEF IInv, ReportsTrue, TypeOK
<1>3. clis' \subseteq [d : Directive, own : BOOLEAN]
  BY <1>1 DEF IInv, TypeOK
<1>4. c.own \in BOOLEAN /\ \A x \in clis : x \in [d : Directive, own : BOOLEAN]
  BY DEF IInv, TypeOK
<1>5. c.own => phase = "spawned" /\ \A x \in clis' : ~x.own
  <2> SUFFICES ASSUME c.own, NEW x \in clis', x.own PROVE FALSE
    BY DEF IInv, Attended
  <2>1. c = [d |-> hand, own |-> TRUE] /\ x = [d |-> hand, own |-> TRUE]
    BY <1>1, <1>4 DEF IInv, Attended
  <2> QED BY <1>1, <2>1
<1>6. CASE UNCHANGED <<up, hand, file, queue, clock, ops>>
           /\ (phase' = phase \/ (c.own /\ phase' = "extracting"))
  <2>1. phase' \in Phases
    BY <1>6 DEF IInv, TypeOK, Phases
  <2>2. FileInHand'
    BY <1>5, <1>6 DEF IInv, FileInHand
  <2>3. Attended'
    BY <1>1, <1>5, <1>6 DEF IInv, Attended
  <2>4. /\ up' \in BOOLEAN /\ runs' \in [Directive -> 0..MaxRuns] /\ ops' \in 0..MaxOps
        /\ hand' \in {hand, None}
    BY <1>1, <1>6 DEF IInv, TypeOK
  <2> QED BY <1>1, <1>2, <1>3, <1>6, <2>1, <2>2, <2>3, <2>4, QuietSpoke
<1>7. CASE c.own /\ Succeeded(report) /\ Verdict("succeeded", "idle", saved)
  BY <1>1, <1>2, <1>5, <1>7, VerdictInv DEF Succeeded
<1>8. CASE c.own /\ Verdict("failed", "idle", saved)
  BY <1>1, <1>2, <1>5, <1>8, VerdictInv
<1> QED BY <1>6, <1>7, <1>8 DEF CliExits

LEMMA SelfExtractInv ==
  ASSUME IInv, NEW ok \in BOOLEAN, NEW replaced \in BOOLEAN, NEW saved \in BOOLEAN,
         SelfExtract(ok, replaced, saved)
  PROVE  IInv'
<1>1. /\ phase = "extracting"
      /\ landed' = landed \cup {disk'}
      /\ UNCHANGED <<wanted, hubVars, clis, dead, torn, runs>>
  BY DEF SelfExtract
<1>2. hand \in Directive
  BY <1>1, HandIssued
<1>3. disk' \in Versions
  BY <1>2 DEF SelfExtract, IInv, TypeOK
<1>4. \A c \in clis' : ~c.own
  BY <1>1 DEF IInv, Attended
<1>5. CASE disk' = wanted[hand].to /\ Verdict("succeeded", "restarting", saved)
  BY <1>1, <1>3, <1>4, <1>5, VerdictInv
<1>6. CASE Verdict("failed", "idle", saved)
  BY <1>1, <1>3, <1>4, <1>6, VerdictInv
<1> QED BY <1>5, <1>6 DEF SelfExtract

-----------------------------------------------------------------------------
(* The process. *)

\* The replay of a started file: one verdict, and the file is gone.
LEMMA ReplayInv ==
  ASSUME IInv, Replay, up' = TRUE,
         UNCHANGED <<wanted, hubVars, disk, phase, hand, clis, landed, dead, torn, runs>>,
         ops' \in 0..MaxOps
  PROVE  IInv'
<1>1. landed' = landed \cup {disk'} /\ disk \in landed
  BY DEF IInv, ReportsTrue
<1>2. up' \in BOOLEAN /\ phase' \in Phases /\ disk' \in Versions
  BY DEF IInv, TypeOK
<1>3. Attended'
  BY DEF IInv, Attended
<1>4. CASE file.outcome # "started"
  <2>1. UNCHANGED <<queue, clock, file>>
    BY <1>4 DEF Replay
  <2>2. FileInHand'
    BY <1>4, <2>1 DEF FileInHand
  <2>3. /\ clis' \subseteq [d : Directive, own : BOOLEAN]
        /\ runs' \in [Directive -> 0..MaxRuns] /\ hand' \in {hand, None}
    BY DEF IInv, TypeOK
  <2> QED BY <1>1, <1>2, <1>3, <2>1, <2>2, <2>3, QuietSpoke
<1>5. CASE file.outcome = "started"
  <2> DEFINE kind == ReplayVerdict
  <2>1. file.d \in Directive /\ file.d <= issued
    BY <1>5 DEF IInv, TypeOK, Unissued, NoFile, Directive
  <2>2. Recorded(kind, file.d) /\ file' = NoFile /\ kind \in {"succeeded", "failed"}
    BY <1>5 DEF Replay, ReplayVerdict
  <2>3. kind = "succeeded" => wanted[file.d].to \in landed'
    BY <1>1 DEF ReplayVerdict
  <2> HIDE DEF kind
  <2>4. PICK x \in Directive : x = file.d /\ x <= issued
    BY <2>1
  <2>5. queue' \subseteq Event /\ dead' \subseteq Event /\ clock' \in Nat
        /\ \A e \in queue' \cup dead' : e.n <= clock'
    BY <2>1, <2>2, RecordedType DEF Kind, IInv
  <2>6. TypeOK'
    BY <1>2, <2>2, <2>5 DEF IInv, TypeOK, hubVars
  <2>7. FileInHand'
    BY <2>2 DEF FileInHand, NoFile
  <2>8. Unissued'
    BY <2>2, <2>4, RecordedUnissued DEF Kind, NoFile, hubVars
  <2>9. StartsOwed' /\ OutcomeOwed' /\ ReportsTrue' /\ SucceededMeansInstalled'
    BY <1>1, <2>2, <2>3, <2>4, VerdictStep DEF hubVars
  <2> QED BY <1>3, <2>6, <2>7, <2>8, <2>9 DEF IInv
<1> QED BY <1>4, <1>5

\* A replay that dies before it clears the state file: the verdict is recorded, and
\* the file still promises another.
LEMMA ReplayTornInv == ASSUME IInv, ReplayTorn PROVE IInv'
<1> DEFINE kind == ReplayVerdict
<1>1. /\ Recorded(kind, file.d) /\ kind \in {"succeeded", "failed"}
      /\ up' = FALSE /\ phase' = "idle" /\ hand' = None /\ clis' = Orphans
      /\ UNCHANGED <<wanted, hubVars, disk, file, landed, dead, torn, runs>>
  BY DEF ReplayTorn, Stopped, ReplayVerdict
<1>2. file.d \in Directive /\ file.d <= issued
  BY DEF ReplayTorn, IInv, TypeOK, Unissued, NoFile, Directive
<1>3. kind = "succeeded" => wanted[file.d].to \in landed'
  BY <1>1 DEF ReplayVerdict, IInv, ReportsTrue
<1>4. disk' \in landed'
  BY <1>1 DEF IInv, ReportsTrue
<1>5. ops' \in 0..MaxOps
  BY OpType DEF ReplayTorn, IInv, TypeOK
<1> HIDE DEF kind
<1>6. PICK x \in Directive : x = file.d /\ x <= issued
  BY <1>2
<1>7. clis' \subseteq [d : Directive, own : BOOLEAN] /\ \A c \in clis' : ~c.own
  BY <1>1, OrphansType DEF IInv, TypeOK
<1>8. TypeOK'
  <2>1. queue' \subseteq Event /\ dead' \subseteq Event /\ clock' \in Nat
        /\ \A e \in queue' \cup dead' : e.n <= clock'
    BY <1>1, <1>2, RecordedType DEF Kind, IInv
  <2> QED BY <1>1, <1>5, <1>7, <2>1 DEF IInv, TypeOK, hubVars, Phases
<1>9. FileInHand' /\ Attended'
  BY <1>1, <1>7 DEF FileInHand, Attended
<1>10. Unissued'
  BY <1>1, <1>6, RecordedUnissued DEF Kind, hubVars
<1>11. StartsOwed' /\ OutcomeOwed' /\ ReportsTrue' /\ SucceededMeansInstalled'
  BY <1>1, <1>3, <1>4, <1>6, VerdictStep DEF hubVars
<1> QED BY <1>8, <1>9, <1>10, <1>11 DEF IInv

\* A crash, and the one that tears a directive.
LEMMA CrashInv ==
  ASSUME IInv, NEW machine \in BOOLEAN, NEW between \in BOOLEAN, Crash(machine, between)
  PROVE  IInv'
<1>1. /\ up' = FALSE /\ phase' = "idle" /\ hand' = None /\ clis' \subseteq Orphans
      /\ UNCHANGED <<wanted, hubVars, disk, file, landed, dead, runs>>
  BY DEF Crash
<1>2. ops' \in 0..MaxOps
  BY OpType DEF Crash, IInv, TypeOK
<1>3. clis' \subseteq [d : Directive, own : BOOLEAN] /\ \A c \in clis' : ~c.own
  BY <1>1, OrphansType DEF IInv, TypeOK
<1>4. FileInHand' /\ Attended'
  BY <1>1, <1>3 DEF FileInHand, Attended
<1>5. landed' = landed \cup {disk'} /\ disk' \in Versions /\ disk' \in landed'
  BY <1>1 DEF IInv, ReportsTrue, TypeOK
<1>6. CASE ~between
  <2>1. UNCHANGED <<queue, clock, torn>>
    BY <1>6 DEF Crash
  <2>2. phase' \in Phases /\ runs' \in [Directive -> 0..MaxRuns] /\ up' \in BOOLEAN
    BY <1>1 DEF Phases, IInv, TypeOK
  <2> QED BY <1>1, <1>2, <1>3, <1>4, <1>5, <2>1, <2>2, QuietSpoke
<1>7. CASE between
  <2>1. phase = "fetched" /\ Recorded("started", hand) /\ torn' = torn \cup {hand}
    BY <1>7 DEF Crash
  <2>2. PICK x \in Directive : x = hand /\ x <= issued
    BY <2>1, HandIssued
  <2>3. Recorded("started", x) /\ "started" \in Kind
    BY <2>1, <2>2 DEF Kind
  <2>4. \A kinds, d : Reports(kinds, d)' <=> (Reports(kinds, d) \/ (d = x /\ "started" \in kinds))
    BY <1>1, <2>3, RecordedReports
  <2>5. queue' \subseteq Event /\ dead' \subseteq Event /\ clock' \in Nat
        /\ \A e \in queue' \cup dead' : e.n <= clock'
    BY <1>1, <2>3, RecordedType DEF IInv
  <2>6. torn' \subseteq Directive
    BY <2>1, <2>2 DEF IInv, TypeOK
  <2>7. TypeOK'
    BY <1>1, <1>2, <1>3, <2>5, <2>6 DEF IInv, TypeOK, hubVars, Phases
  <2>8. Unissued'
    BY <1>1, <2>2, <2>3, RecordedUnissued DEF hubVars
  <2>9. StartsOwed' /\ OutcomeOwed'
    <3>1. \A d \in Directive \ torn' : Owed(d) => Owed(d)'
      BY <1>1, <2>4 DEF Owed
    <3>2. \A d \in Directive \ torn' :
            Reports({"started"}, d)' => (Reports({"started"}, d) \/ Owed(d)')
      BY <2>1, <2>2, <2>4
    <3>3. target' = target /\ torn \subseteq torn' /\ StartsOwed /\ OutcomeOwed
      BY <1>1, <2>1 DEF hubVars, IInv
    <3> QED BY <3>1, <3>2, <3>3, OwedKept
  <2>10. ReportsTrue' /\ SucceededMeansInstalled'
    BY <1>1, <1>5, <2>4, TruthKept DEF IInv, hubVars
  <2> QED BY <1>4, <2>7, <2>8, <2>9, <2>10 DEF IInv
<1> QED BY <1>6, <1>7

LEMMA ReconcileInv == ASSUME IInv, Reconcile PROVE IInv'
<1>1. CASE (\E d \in Directive : Fetch(d)) \/ Skip \/ Spawn
  BY <1>1, TickInv
<1>2. CASE Begin
  BY <1>2, BeginInv
<1>3. CASE Judge
  BY <1>3, CliExitsInv, SelfExtractInv DEF Judge
<1>4. CASE RestartServer
  BY <1>4, RestartInv
<1>5. CASE \E c \in clis : CliStopsServer(c) \/ CliInstalls(c)
  BY <1>5, CliInv
<1> QED BY <1>1, <1>2, <1>3, <1>4, <1>5 DEF Reconcile

LEMMA ProcessInv == ASSUME IInv, Process PROVE IInv'
<1>1. CASE Boot
  <2>1. ops' \in 0..MaxOps
    BY <1>1 DEF Boot, IInv, TypeOK
  <2> QED BY <1>1, <2>1, ReplayInv DEF Boot
<1>2. CASE Reload
  <2>1. ops' \in 0..MaxOps
    BY <1>2, OpType DEF Reload, IInv, TypeOK
  <2>2. up' = TRUE
    BY <1>2 DEF Reload, IInv, TypeOK
  <2> QED BY <1>2, <2>1, <2>2, ReplayInv DEF Reload
<1>3. CASE ReplayTorn
  BY <1>3, ReplayTornInv
<1>4. CASE \E machine, between \in BOOLEAN : Crash(machine, between)
  BY <1>4, CrashInv
<1> QED BY <1>1, <1>2, <1>3, <1>4 DEF Process

LEMMA InitInv == ASSUME Init PROVE IInv
<1>1. TypeOK
  BY UpgradeAssumption DEF Init, TypeOK, Phases, NoFile
<1>2. \A kinds, d : ~Reports(kinds, d)
  BY DEF Init, Reports
<1>3. FileInHand /\ Attended
  BY DEF Init, FileInHand, Attended, NoFile
<1>4. Unissued
  BY <1>2 DEF Init, Unissued, NoFile, None, Directive
<1>5. StartsOwed /\ OutcomeOwed /\ ReportsTrue /\ SucceededMeansInstalled
  BY <1>2 DEF Init, StartsOwed, OutcomeOwed, ReportsTrue, SucceededMeansInstalled
<1> QED BY <1>1, <1>3, <1>4, <1>5 DEF IInv

LEMMA StutterInv == ASSUME IInv, UNCHANGED vars PROVE IInv'
<1>1. \A kinds, d : Reports(kinds, d)' <=> Reports(kinds, d)
  BY SameReports DEF vars
<1>2. \A d : Owed(d)' <=> Owed(d)
  BY <1>1 DEF Owed, vars, spokeVars
<1> QED BY <1>1, <1>2
        DEF IInv, vars, hubVars, spokeVars, TypeOK, FileInHand, Attended, Unissued,
            StartsOwed, OutcomeOwed, ReportsTrue, SucceededMeansInstalled

LEMMA NextInv == ASSUME IInv, [Next]_vars PROVE IInv'
BY HubInv, ReconcileInv, ProcessInv, StutterInv DEF Next

LEMMA Inductive == Spec => []IInv
<1>1. Init => IInv
  BY InitInv
<1>2. IInv /\ [Next]_vars => IInv'
  BY NextInv
<1> QED BY <1>1, <1>2, PTL DEF Spec

-----------------------------------------------------------------------------
(* The theorems. *)

\* Every reachable state has the shape TypeOK gives it.
THEOREM TypeCorrect == Spec => []TypeOK
<1>1. IInv => TypeOK
  BY DEF IInv
<1> QED BY <1>1, Inductive, PTL

\* A target in progress always has its verdict to come (reconcileUpgradeDirective,
\* upgrade-state.json, replayPendingUpgradeOutcome), a torn one excepted.
THEOREM VerdictOwed == Spec => []OutcomeOwed
<1>1. IInv => OutcomeOwed
  BY DEF IInv
<1> QED BY <1>1, Inductive, PTL

\* The board's succeeded is a version that was on disk.
THEOREM SuccessTrue == Spec => []SucceededMeansInstalled
<1>1. IInv => SucceededMeansInstalled
  BY DEF IInv
<1> QED BY <1>1, Inductive, PTL

\* No step reopens a settled target: the ingest's state guard, the cancel routes and
\* the issuing of later directives.
LEMMA SettledStep ==
  ASSUME IInv, [Next]_vars
  PROVE  \A d \in Directive : target[d] \in Terminal => target'[d] \in Terminal
<1> SUFFICES ASSUME NEW d \in Directive, target[d] \in Terminal
             PROVE  target'[d] \in Terminal
  OBVIOUS
<1>1. target \in [Directive -> Active \cup Terminal \cup {"none"}] /\ target[d] # "none"
  BY DEF IInv, TypeOK, Terminal
<1>2. CASE target' = target
  BY <1>2
<1>3. CASE AdminInsert \/ FanOut
  <2>1. target' = [target EXCEPT ![issued + 1] = "pending"] /\ issued \in Nat
    BY <1>3 DEF AdminInsert, FanOut, Inserted, IInv, TypeOK
  <2>2. d # issued + 1
    BY <1>1, <2>1 DEF IInv, Unissued
  <2> QED BY <1>1, <2>1, <2>2
<1>4. CASE \E x \in Directive, force \in BOOLEAN : Cancel(x, force)
  BY <1>1, <1>4 DEF Cancel, Terminal
<1>5. CASE \E e \in queue : Deliver(e)
  <2>1. PICK e \in queue : Deliver(e)
    BY <1>5
  <2>2. e.kind \in Kind /\ target' = Reported(e)
    BY <2>1 DEF Deliver, IInv, TypeOK, Event
  <2> QED BY <1>1, <2>2 DEF Reported, Kind, Active, Terminal
<1>6. Hub => (target' = target \/ AdminInsert \/ FanOut
              \/ (\E x \in Directive, force \in BOOLEAN : Cancel(x, force))
              \/ (\E e \in queue : Deliver(e)))
  BY DEF Hub, AdminCheck, Refuse, Requeue, hubVars
<1>7. Reconcile => target' = target
  BY DEF Reconcile, Fetch, Skip, Begin, Spawn, Judge, CliExits, SelfExtract, RestartServer,
         CliStopsServer, CliInstalls, hubVars
<1>8. Process => target' = target
  BY DEF Process, Boot, Reload, ReplayTorn, Crash, hubVars
<1> QED BY <1>2, <1>3, <1>4, <1>5, <1>6, <1>7, <1>8 DEF Next, vars, hubVars

\* A settled target never blocks its installation again.
THEOREM NeverReopened == Spec => SettledStays
<1>1. IInv /\ [Next]_vars
        => [\A d \in Directive : target[d] \in Terminal => target'[d] \in Terminal]_vars
  BY SettledStep
<1> QED BY <1>1, Inductive, PTL DEF Spec, SettledStays

=============================================================================
