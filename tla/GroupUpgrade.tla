---------------------------- MODULE GroupUpgrade ----------------------------
(***************************************************************************)
(* A parent hub sends flows and upgrades to the hubs below it.  The parent *)
(* records a dispatch and one target row for each child, serves the oldest *)
(* outstanding one when the child polls, and moves the row only on what    *)
(* the child reports.  The child fans an upgrade out over its own machines *)
(* and reports the counts through its outbox, at least once and in any     *)
(* order, from replicas that share a database and no lock.                 *)
(* One child is modelled: the rows of two children never meet.  A step is  *)
(* what runs between two awaits, except that a poll reads its candidates   *)
(* in one step and the cancel with the row a dispatch inserts in the next, *)
(* and that a report reads its row, counts and is queued in one.  A queued *)
(* report is delivered by itself: backoff and bisection reorder them.  The *)
(* fan-out's 'invalid' is left out: the parent's own route refuses such a  *)
(* version by the same pattern, and it makes the dispatch ids.             *)
(***************************************************************************)
EXTENDS Integers, Sequences, FiniteSets

CONSTANTS
  Machines,           \* the installations of the child hub
  Replicas,           \* its processes, each with one tick at a time
  MaxCancelAttempts,
  Scenarios           \* what the admins issue, the replicas that run, and bounds on
                      \*   faults: crashes, lost answers, trimmed and refused rows,
                      \*           machines their own hub cancels, late outcomes
                      \*   idle: polls that only repeat a report the parent holds,
                      \*         or come before a queued one is delivered

ASSUME GroupAssumption ==
  /\ MaxCancelAttempts \in Nat
  /\ IsFiniteSet(Machines)
  /\ Scenarios \subseteq [kind : Seq({"upgrade", "flow"}), ticks : SUBSET Replicas,
                          faults : Nat, idle : Nat]
  /\ \A s, u \in Scenarios : s.kind = u.kind /\ s.ticks = u.ticks => s = u

VARIABLES
  kind,       \* the dispatches, numbered by created_at
  issued,
  row,        \* *_dispatch_targets of the child, for each dispatch
  cancelled,  \* dispatches with a cancelled_at
  telling,    \* those whose cancel has yet to move the target row
  gone,       \* flow dispatches whose flow was deleted
  taken,      \* ids of the reports in the parent's events
  phase,      \* what the tick of each replica awaits
  hand,       \* the directive, or the report, it works on
  fan,        \* upgrade_dispatch_fanout.outcome
  target,     \* upgrade_directive_targets.state, for each dispatch and machine
  rep,        \* upgrade_dispatch_fanout: reported_seq and reported_json
  holds,      \* dispatches whose flow the child installed
  outbox,     \* reports in federation_outbox
  stopped,    \* history: upgrades the child was told to stop, and did
  idle, faults   \* what is left of the bounds

parentVars == <<row, cancelled, telling, gone, taken>>
childVars  == <<fan, target, rep, holds, stopped>>
tickVars   == <<phase, hand>>
bounds     == <<idle, faults>>
vars == <<kind, issued, parentVars, childVars, tickVars, outbox, bounds>>

Dispatch == DOMAIN kind
Ticks    == DOMAIN phase
Upgrades == {d \in Dispatch : kind[d] = "upgrade"}
Flows    == Dispatch \ Upgrades

Unsettled == {"pending", "in_progress"}
Closed    == {"completed", "cancelled"}         \* a target row that moves no more
Answers   == {"installed", "failed"}

Silence == [left |-> -1, updated |-> -1]        \* reported_json IS NULL
Nothing == [kind |-> "nothing", d |-> 0, seq |-> 0, said |-> Silence]

Fault == faults > 0 /\ faults' = faults - 1

-----------------------------------------------------------------------------
(* The parent: its admins, and the feed. *)

\* Scope "selected" writes the target row now, scope "all" when the child is served.
Issue(scope) ==
  /\ issued < Len(kind)
  /\ issued' = issued + 1
  /\ row' = IF scope = "selected" THEN [row EXCEPT ![issued + 1].state = "pending"] ELSE row
  /\ UNCHANGED <<kind, cancelled, telling, gone, taken, childVars, tickVars, outbox, bounds>>

\* POST .../:id/cancel writes twice.  The cancel of a flow has no row to move.
CancelMark(d) ==
  /\ d \in (1..issued) \ cancelled
  /\ cancelled' = cancelled \cup {d}
  /\ telling' = IF d \in Upgrades THEN telling \cup {d} ELSE telling
  /\ UNCHANGED <<kind, issued, row, gone, taken, childVars, tickVars, outbox, bounds>>

AskedToStop(d) ==
  [row EXCEPT ![d].state = IF @ \in {"pending", "running"} THEN "cancel-pending" ELSE @]

CancelTell(d) ==
  /\ d \in telling
  /\ telling' = telling \ {d}
  /\ row' = AskedToStop(d)
  /\ UNCHANGED <<kind, issued, cancelled, gone, taken, childVars, tickVars, outbox, bounds>>

\* The parent stops between the two writes; an admin may ask again.
CancelTorn(d) ==
  /\ d \in telling
  /\ Fault
  /\ telling' = telling \ {d}
  /\ UNCHANGED <<kind, issued, row, cancelled, gone, taken, childVars, tickVars, outbox, idle>>

CancelAgain(d) ==
  /\ d \in (cancelled \cap Upgrades) \ telling
  /\ row[d].state \in {"pending", "running"}
  /\ telling' = telling \cup {d}
  /\ UNCHANGED <<kind, issued, row, cancelled, gone, taken, childVars, tickVars, outbox, bounds>>

DeleteFlow(d) ==
  /\ d \in (Flows \cap 1..issued) \ gone
  /\ Fault
  /\ gone' = gone \cup {d}
  /\ UNCHANGED <<kind, issued, row, cancelled, telling, taken, childVars, tickVars, outbox, idle>>

Outstanding(d, states) ==
  d \in 1..issued /\ d \notin cancelled /\ row[d].state \in states \cup {"none"}

Oldest(S) == {d \in S : \A e \in S : d <= e}

\* Mutant: a running upgrade is not outstanding, so a lost report is not asked for.
PendingOnly ==
  Oldest((Oldest({d \in Flows : Outstanding(d, {"pending"})}) \ gone)
         \cup Oldest({d \in Upgrades : Outstanding(d, {"pending"})}))

\* What the feed would serve: the older of the oldest outstanding upgrade and the
\* oldest outstanding flow dispatch, which drops out when its flow is deleted.
Candidate ==
  Oldest((Oldest({d \in Flows : Outstanding(d, {"pending"})}) \ gone)
         \cup Oldest({d \in Upgrades : Outstanding(d, {"pending", "running"})}))

\* Mutant: cancels are looked for among the outstanding dispatches.
OutstandingCancels ==
  {d \in cancelled \cap Candidate :
     row[d].state = "cancel-pending" /\ row[d].attempts < MaxCancelAttempts}

CancelsOwed ==
  {d \in cancelled : row[d].state = "cancel-pending" /\ row[d].attempts < MaxCancelAttempts}

\* Machines of a dispatch that took the upgrade, or have yet to.
Having(d, states) == Cardinality({m \in Machines : target[d][m] \in states})

Snapshot(d) == [left |-> Having(d, Unsettled), updated |-> Having(d, {"succeeded"})]

\* Serving this dispatch would only repeat a report the parent holds already.
Repeats(d) ==
  /\ d \in Upgrades /\ fan[d] # "none"
  /\ Having(d, Unsettled) > 0
  /\ row[d].state \in {"running", "cancel-pending"}
  /\ row[d].said = Snapshot(d)

\* A tick has delivered what is due before it ends: a report still queued is one
\* backed off, or another replica's.
Poll(t) ==
  /\ phase[t] = "idle"
  /\ IF outbox = {} /\ ~\E d \in Candidate \cup CancelsOwed : Repeats(d)
     THEN UNCHANGED bounds
     ELSE \/ Fault /\ UNCHANGED idle
          \/ idle > 0 /\ idle' = idle - 1 /\ UNCHANGED faults
  /\ phase' = [phase EXCEPT ![t] = "polling"]
  /\ hand' = [hand EXCEPT ![t] =
       IF Candidate = {} THEN Nothing
       ELSE LET d == CHOOSE x \in Candidate : TRUE
            IN [Nothing EXCEPT !.kind = kind[d], !.d = d]]
  /\ UNCHANGED <<kind, issued, parentVars, childVars, outbox>>

\* A cancel that is still asked for outranks what the poll found.
SeeCancel(t, d) ==
  /\ hand' = [hand EXCEPT ![t] = [Nothing EXCEPT !.kind = "cancel", !.d = d]]
  /\ phase' = [phase EXCEPT ![t] = "cancelling"]
  /\ UNCHANGED row

\* Mutant: what is served counts as taken, and is not served again.
ServedOnce(t) ==
  /\ row' = [row EXCEPT ![hand[t].d].state = "running"]
  /\ phase' = [phase EXCEPT ![t] = "served"]
  /\ UNCHANGED hand

ServeDispatch(t) ==
  /\ row' = [row EXCEPT ![hand[t].d].state = IF @ = "none" THEN "pending" ELSE @]
  /\ phase' = [phase EXCEPT ![t] = "served"]
  /\ UNCHANGED hand

\* What the poll brought is dealt with; reportUpgradeProgress comes next.
GoesOn(t, p) ==
  /\ phase' = [phase EXCEPT ![t] = p]
  /\ hand' = [hand EXCEPT ![t] = Nothing]

ServeNothing(t) == GoesOn(t, "reporting") /\ UNCHANGED row

Serve(t) ==
  /\ phase[t] = "polling"
  /\ IF CancelsOwed # {} THEN \E d \in CancelsOwed : SeeCancel(t, d)
     ELSE IF hand[t] # Nothing THEN ServeDispatch(t)
     ELSE ServeNothing(t)
  /\ UNCHANGED <<kind, issued, cancelled, telling, gone, taken, childVars, outbox, bounds>>

\* The attempt is counted whatever has become of the row since it was read.
ServeCancel(t) ==
  /\ phase[t] = "cancelling"
  /\ row' = [row EXCEPT ![hand[t].d].attempts = @ + 1]
  /\ phase' = [phase EXCEPT ![t] = "served"]
  /\ UNCHANGED <<kind, issued, cancelled, telling, gone, taken, childVars, hand, outbox,
                 bounds>>

-----------------------------------------------------------------------------
(* The child: a tick, step by step. *)

\* applyUpgradeDispatch reads what an earlier tick recorded.
TakeUpgrade(t) ==
  /\ phase[t] = "served" /\ hand[t].kind = "upgrade"
  /\ phase' = [phase EXCEPT ![t] = IF fan[hand[t].d] = "none" THEN "fanning" ELSE "prompting"]
  /\ UNCHANGED <<kind, issued, parentVars, childVars, hand, outbox, bounds>>

\* The next report speaks again, though nothing changed: the last may be lost.
Prompt(t) ==
  /\ phase[t] = "prompting"
  /\ rep' = [rep EXCEPT ![hand[t].d].said = Silence]
  /\ GoesOn(t, "reporting")
  /\ UNCHANGED <<kind, issued, parentVars, fan, target, holds, stopped, outbox, bounds>>

Free(m) == \A d \in Upgrades : target[d][m] \notin Unsettled

\* Mutant: a second fan-out of a dispatch is not refused.
FansOutAgain(d, S) ==
  /\ fan' = [fan EXCEPT ![d] = IF S = {} THEN "nothing-to-do" ELSE "applied"]
  /\ target' = [target EXCEPT ![d] =
       [m \in Machines |-> IF m \in S THEN "pending" ELSE target[d][m]]]

\* The transaction: S are the machines told to upgrade, and the key of the
\* fan-out row rolls a second one back.
FansOut(d, S) ==
  IF fan[d] # "none" THEN UNCHANGED <<fan, target>>
  ELSE /\ fan' = [fan EXCEPT ![d] = IF S = {} THEN "nothing-to-do" ELSE "applied"]
       /\ target' = [target EXCEPT ![d] =
            [m \in Machines |-> IF m \in S THEN "pending" ELSE target[d][m]]]

\* Which of the machines that are free it skips (retired, hidden, a downgrade)
\* is any choice.
FanOut(t) ==
  /\ phase[t] = "fanning"
  /\ \E S \in SUBSET {m \in Machines : Free(m)} : FansOut(hand[t].d, S)
  /\ GoesOn(t, "reporting")
  /\ UNCHANGED <<kind, issued, parentVars, rep, holds, stopped, outbox, bounds>>

\* applyUpgradeCancel reads the fan-out, then stops what has not started.
TakeCancel(t) ==
  /\ phase[t] = "served" /\ hand[t].kind = "cancel"
  /\ phase' = [phase EXCEPT ![t] =
       CASE fan[hand[t].d] = "none"          -> "refusing"
         [] fan[hand[t].d] = "nothing-to-do" -> "prompting"
         [] fan[hand[t].d] = "applied"       -> "stopping"]
  /\ UNCHANGED <<kind, issued, parentVars, childVars, hand, outbox, bounds>>

StopPending(t) ==
  /\ phase[t] = "stopping"
  /\ LET d == hand[t].d IN
     /\ target' = [target EXCEPT ![d] = [m \in Machines |->
                     IF target[d][m] = "pending" THEN "cancelled" ELSE target[d][m]]]
     /\ stopped' = stopped \cup {d}
  /\ phase' = [phase EXCEPT ![t] = "prompting"]
  /\ UNCHANGED <<kind, issued, parentVars, fan, rep, holds, hand, outbox, bounds>>

\* Mutant: a cancel of an unknown dispatch leaves no record.
LeavesNoRecord(d) == stopped' = stopped \cup {d} /\ UNCHANGED fan

\* INSERT OR IGNORE of a fan-out that is settled.
RecordsRefusal(d) ==
  IF fan[d] = "none"
  THEN fan' = [fan EXCEPT ![d] = "nothing-to-do"] /\ stopped' = stopped \cup {d}
  ELSE UNCHANGED <<fan, stopped>>

CancelUnknown(t) ==
  /\ phase[t] = "refusing"
  /\ RecordsRefusal(hand[t].d)
  /\ GoesOn(t, "reporting")
  /\ UNCHANGED <<kind, issued, parentVars, target, rep, holds, outbox, bounds>>

\* installDispatchedFlow and reportFlowDispatch.  An answer that is not queued
\* is one a crash took.
TakeFlow(t, answer, queued) ==
  /\ phase[t] = "served" /\ hand[t].kind = "flow"
  /\ IF answer = "installed" /\ queued THEN UNCHANGED faults ELSE Fault
  /\ holds' = IF answer = "installed" THEN holds \cup {hand[t].d} ELSE holds
  /\ outbox' = IF queued THEN outbox \cup {[Nothing EXCEPT !.kind = answer, !.d = hand[t].d]}
               ELSE outbox
  /\ GoesOn(t, IF queued THEN "reporting" ELSE "idle")
  /\ UNCHANGED <<kind, issued, parentVars, fan, target, rep, stopped, idle>>

Reportable(d) ==
  /\ fan[d] # "none"
  /\ rep[d].said.left # 0           \* not reported complete
  /\ rep[d].said # Snapshot(d)

Report(t, d) ==
  /\ phase[t] = "reporting"
  /\ Reportable(d)
  /\ LET report == [kind |-> "progress", d |-> d, seq |-> rep[d].seq + 1, said |-> Snapshot(d)]
     IN hand' = [hand EXCEPT ![t] = report] /\ outbox' = outbox \cup {report}
  /\ phase' = [phase EXCEPT ![t] = "recording"]
  /\ UNCHANGED <<kind, issued, parentVars, childVars, bounds>>

Record(t) ==
  /\ phase[t] = "recording"
  /\ rep' = [rep EXCEPT ![hand[t].d] = [seq |-> hand[t].seq, said |-> hand[t].said]]
  /\ GoesOn(t, "reporting")
  /\ UNCHANGED <<kind, issued, parentVars, fan, target, holds, stopped, outbox, bounds>>

EndTick(t) ==
  /\ phase[t] = "reporting"
  /\ \A d \in Upgrades : ~Reportable(d)
  /\ GoesOn(t, "idle")
  /\ UNCHANGED <<kind, issued, parentVars, childVars, outbox, bounds>>

\* The replica dies, or an answer of the parent is lost and the tick ends early.
Crash(t) ==
  /\ phase[t] # "idle"
  /\ Fault
  /\ GoesOn(t, "idle")
  /\ UNCHANGED <<kind, issued, parentVars, childVars, outbox, idle>>

\* applyUpgradeDispatch or applyUpgradeCancel throws: the tick goes on to its reports.
Throws(t) ==
  /\ \/ phase[t] = "served" /\ hand[t].kind \in {"upgrade", "cancel"}
     \/ phase[t] \in {"fanning", "refusing", "stopping", "prompting"}
  /\ Fault
  /\ GoesOn(t, "reporting")
  /\ UNCHANGED <<kind, issued, parentVars, childVars, outbox, idle>>

-----------------------------------------------------------------------------
(* Reports reach the parent. *)

Id(e) == <<e.kind, e.d, e.seq>>

\* Mutant: whatever is left, a report says that the upgrade has finished.
AlwaysDone(e) == IF e.d \in cancelled THEN "cancelled" ELSE "completed"

\* The state a progress report stands for.
Shown(e) ==
  IF e.said.left > 0 THEN "running"
  ELSE IF e.d \in cancelled THEN "cancelled" ELSE "completed"

\* Mutant: a higher number is enough, whatever the row says.
NewerOnly(e) == row[e.d].seq < e.seq

MovesRow(e) ==
  /\ row[e.d].seq < e.seq
  /\ row[e.d].state \in {"pending", "running"}
                        \cup (IF e.said.left = 0 THEN {"cancel-pending"} ELSE {})

\* Mutant: a report about an upgrade is taken for the answer to a flow.
AnyAnswer(e) == IF row[e.d].state = "pending" THEN [row EXCEPT ![e.d].state = e.kind] ELSE row

\* applyUpgradeProgressReport and applyFlowDispatchReport.
Applied(e) ==
  IF e.kind = "progress"
  THEN IF MovesRow(e)
       THEN [row EXCEPT ![e.d].state = Shown(e), ![e.d].seq = e.seq, ![e.d].said = e.said]
       ELSE row
  ELSE IF row[e.d].state = "pending" \/ (row[e.d].state = "failed" /\ e.kind = "installed")
       THEN [row EXCEPT ![e.d].state = e.kind]
       ELSE row

\* POST /deliver stores a report once.  Its answer may be lost: the row stays.
Deliver(e, answered) ==
  /\ e \in outbox
  /\ IF answered THEN UNCHANGED faults ELSE Fault
  /\ outbox' = IF answered THEN outbox \ {e} ELSE outbox
  /\ taken' = taken \cup {Id(e)}
  /\ row' = IF Id(e) \in taken THEN row ELSE Applied(e)
  /\ UNCHANGED <<kind, issued, cancelled, telling, gone, childVars, tickVars, idle>>

\* The cap of the outbox, or three refusals of the row by itself.
Discard(e) ==
  /\ e \in outbox
  /\ Fault
  /\ outbox' = outbox \ {e}
  /\ UNCHANGED <<kind, issued, parentVars, childVars, tickVars, idle>>

-----------------------------------------------------------------------------
(* The machines of the child: FleetUpgrade, seen from the board. *)

Moves(d, m, from, to) ==
  /\ target[d][m] = from
  /\ target' = [target EXCEPT ![d][m] = to]
  /\ UNCHANGED <<kind, issued, parentVars, fan, rep, holds, stopped, tickVars, outbox, idle>>

Outcomes == {"succeeded", "failed"}

Start(d, m)  == Moves(d, m, "pending", "in_progress") /\ UNCHANGED faults
Finish(d, m) == \E from \in Unsettled, to \in Outcomes : Moves(d, m, from, to) /\ UNCHANGED faults

\* An admin of the child cancels, with force or without; an outcome that comes
\* later still lands, and the last one stays.
CancelLocally(d, m) ==
  /\ Fault
  /\ \E from \in Unsettled : Moves(d, m, from, "cancelled")

FinishLate(d, m) ==
  /\ Fault
  /\ \E from \in Outcomes \cup {"cancelled"}, to \in Outcomes :
       from # to /\ Moves(d, m, from, to)

-----------------------------------------------------------------------------
Init ==
  /\ \E s \in Scenarios :
       /\ kind = s.kind /\ faults = s.faults /\ idle = s.idle
       /\ phase = [t \in s.ticks |-> "idle"]
       /\ hand = [t \in s.ticks |-> Nothing]
  /\ issued = 0
  /\ row = [d \in Dispatch |-> [state |-> "none", seq |-> 0, said |-> Silence, attempts |-> 0]]
  /\ cancelled = {} /\ telling = {} /\ gone = {} /\ taken = {}
  /\ fan = [d \in Dispatch |-> "none"]
  /\ target = [d \in Dispatch |-> [m \in Machines |-> "none"]]
  /\ rep = [d \in Dispatch |-> [seq |-> 0, said |-> Silence]]
  /\ holds = {} /\ outbox = {} /\ stopped = {}

TickStep(t) ==
  \/ Poll(t) \/ Serve(t) \/ ServeCancel(t)
  \/ TakeUpgrade(t) \/ FanOut(t) \/ Prompt(t)
  \/ TakeCancel(t) \/ CancelUnknown(t) \/ StopPending(t)
  \/ TakeFlow(t, "installed", TRUE)
  \/ (\E d \in Upgrades : Report(t, d)) \/ Record(t) \/ EndTick(t)

TickFails(t) ==
  \/ Crash(t) \/ Throws(t)
  \/ \E answer \in Answers, queued \in BOOLEAN :
       ~(answer = "installed" /\ queued) /\ TakeFlow(t, answer, queued)

Admins ==
  \/ \E scope \in {"selected", "all"} : Issue(scope)
  \/ \E d \in Dispatch : CancelMark(d) \/ CancelTorn(d) \/ CancelAgain(d) \/ DeleteFlow(d)

MachineSteps(d, m) == Start(d, m) \/ Finish(d, m)

Next ==
  \/ Admins
  \/ \E d \in Dispatch : CancelTell(d)
  \/ \E t \in Ticks : TickStep(t) \/ TickFails(t)
  \/ \E e \in outbox : (\E answered \in BOOLEAN : Deliver(e, answered)) \/ Discard(e)
  \/ \E d \in Dispatch, m \in Machines :
       MachineSteps(d, m) \/ CancelLocally(d, m) \/ FinishLate(d, m)

Spec == Init /\ [][Next]_vars

\* The timer of each replica ticks again and again, what is queued is tried again,
\* and a machine that took an upgrade ends it or is given up.  A parent that is up
\* completes its handler.
FairSpec ==
  /\ Spec
  /\ \A t \in Replicas : WF_vars(t \in Ticks /\ TickStep(t))
  /\ WF_vars(\E e \in outbox : Deliver(e, TRUE))
  /\ WF_vars(\E d \in Dispatch, m \in Machines : MachineSteps(d, m))
  /\ WF_vars(\E d \in Dispatch : CancelTell(d))

-----------------------------------------------------------------------------
(* Properties. *)

Row == [state : {"none", "pending", "running", "cancel-pending"} \cup Closed \cup Answers,
        seq : Nat, said : [left : Int, updated : Int], attempts : Nat]

TypeOK ==
  /\ idle \in Nat /\ faults \in Nat
  /\ kind \in {s.kind : s \in Scenarios} /\ issued \in 0..Len(kind)
  /\ row \in [Dispatch -> Row]
  /\ cancelled \subseteq 1..issued /\ telling \subseteq cancelled /\ gone \subseteq Flows
  /\ phase \in [DOMAIN hand -> {"idle", "polling", "cancelling", "served", "fanning",
                          "refusing", "stopping", "prompting", "reporting", "recording"}]
  /\ \A t \in Ticks : hand[t] # Nothing => hand[t].d \in 1..issued
  /\ fan \in [Dispatch -> {"none", "applied", "nothing-to-do"}]
  /\ target \in [Dispatch -> [Machines ->
                   {"none", "succeeded", "failed", "cancelled"} \cup Unsettled]]
  /\ \A e \in outbox : e.d \in 1..issued
  /\ holds \subseteq Flows /\ stopped \subseteq Upgrades

\* A row of the board that says finished, or stopped, is about a child none of
\* whose machines is still upgrading for that dispatch; one that says installed,
\* about a child that has the flow (upgradeProgress.ts: "the parent never assumes").
BoardTrue ==
  \A d \in Dispatch :
    /\ row[d].state \in Closed /\ d \in Upgrades => fan[d] # "none" /\ Having(d, Unsettled) = 0
    /\ row[d].state = "installed" => d \in holds

\* An upgrade the child has stopped puts no machine back in line, not even when a
\* replica that took the directive earlier goes on with it (upgradeCancel.ts:52).
StoppedStays == \A d \in stopped : fan[d] # "none" /\ Having(d, {"pending"}) = 0

\* A directive served again is no second upgrade of the fleet: once fanned out, no
\* machine is added to it, and none starts over (upgradeFanout.ts:92).
FannedOutOnce ==
  [][\A d \in Dispatch, m \in Machines :
       fan[d] # "none" =>
         /\ target'[d][m] = "none" <=> target[d][m] = "none"
         /\ target'[d][m] = "pending" => target[d][m] = "pending"]_vars

\* An answered row keeps its answer, by whichever order reports drain in: all that
\* still moves is the count of cancels asked (federation.ts:643).
ClosedStays ==
  [][\A d \in Dispatch : row[d].state \in Closed =>
       /\ row'[d].state = row[d].state
       /\ row'[d].seq = row[d].seq /\ row'[d].said = row[d].said]_vars

\* Whatever report is lost, and wherever a replica dies, the board of an upgrade
\* that nobody cancels says completed in the end (federation.ts:268).
BoardConverges ==
  <>[](\A d \in Upgrades \ cancelled : d <= issued => row[d].state \in Closed)

\* No fault so far, and no other replica that may use the number of a report.
Undisturbed ==
  /\ Cardinality(Ticks) = 1
  /\ \E s \in Scenarios : s.kind = kind /\ s.ticks = Ticks /\ s.faults = faults

\* A row whose cancel was recorded does not wait for ever: where nothing fails the
\* child's answer closes it, however often it was asked while its machines went on,
\* and otherwise it stays only once it was asked as often as the parent asks
\* (federation.ts:626).
CancelAnswered ==
  <>[](\A d \in Upgrades : row[d].state = "cancel-pending" =>
         ~Undisturbed /\ row[d].attempts >= MaxCancelAttempts)

\* A flow dispatch is answered in the end, or cancelled, unless a flow dispatch as
\* old as it is about a deleted flow (federation.ts:609).
FlowAnswered ==
  <>[](\A d \in Flows \ cancelled :
         d <= issued => row[d].state \in Answers \/ \E x \in gone : x <= d)
=============================================================================
