-------------------------- MODULE HubDeliveryProofs -------------------------
(***************************************************************************)
(* Theorems of HubDelivery for every number of events, orgs, Flusher       *)
(* objects, batch size, halt threshold and bound.                          *)
(***************************************************************************)
EXTENDS HubDelivery, TLAPS

-----------------------------------------------------------------------------
(* What the operators return. *)

\* The n oldest events of a set are events of that set.
LEMMA OldestSubset == ASSUME NEW S, NEW n PROVE Oldest(S, n) \subseteq S
BY DEF Oldest

\* The window holds only rows stamped for the org asked for.
LEMMA PeekStamped ==
  ASSUME NEW o, NEW box
  PROVE  /\ PeekDeliverable(o, box) \subseteq Event
         /\ \A e \in PeekDeliverable(o, box) : box[e] = o
BY OldestSubset DEF PeekDeliverable, Oldest

\* The cap takes pending rows only.
LEMMA PrunedPending ==
  ASSUME NEW box
  PROVE  /\ Pruned(box) \subseteq Event
         /\ \A e \in Pruned(box) : box[e] = Pending
BY OldestSubset DEF Pruned, Oldest

LEMMA AtMostHaltType ==
  ASSUME NEW n \in Nat PROVE AtMostHalt(n) \in 0..HaltAfter
BY DeliveryAssumption DEF AtMostHalt

\* A Flusher's state stays one when a cycle closes, and a fresh one is one.
LEMMA ClosedType ==
  ASSUME NEW r \in FlusherState PROVE Closed(r) \in FlusherState
BY DEF Closed, FlusherState

LEMMA FreshType ==
  ASSUME NEW o \in Orgs \cup {NoOrg} PROVE Fresh(o) \in FlusherState
BY DeliveryAssumption DEF Fresh, FlusherState

\* Opening a cycle for an org yields a batch of lines of that org.
LEMMA OpenedType ==
  ASSUME NEW r \in FlusherState, NEW box, NEW tried, r.org \in Orgs
  PROVE  /\ Opened(r, box, tried) \in FlusherState
         /\ Opened(r, box, tried).org = r.org
         /\ Opened(r, box, tried).halted = r.halted
         /\ Opened(r, box, tried).refusals = r.refusals
         /\ Opened(r, box, tried).refused = r.refused
         /\ Opened(r, box, tried).phase \in {"idle", "post"}
<1> DEFINE w == PeekDeliverable(r.org, box)
           B == {<<e, box[e]>> : e \in w}
           p == \E e \in w : tried[e] + 1 >= HaltAfter
<1>1. B \subseteq Line
  BY PeekStamped DEF Line
<1>2. p \in BOOLEAN
  OBVIOUS
<1>3. CASE w = {}
  BY <1>3 DEF Opened, FlusherState
<1>4. CASE w # {}
  <2>1. Opened(r, box, tried) = [r EXCEPT !.phase = "post", !.batch = B, !.ripe = p]
    BY <1>4 DEF Opened
  <2> HIDE DEF B, p
  <2> QED BY <2>1, <1>1, <1>2 DEF FlusherState
<1> QED BY <1>3, <1>4

-----------------------------------------------------------------------------
(* The shape of the state. *)

\* A cycle that fails leaves well-formed rows and a well-formed Flusher.
LEMMA FailCycleType ==
  ASSUME TypeOK, NEW f \in Flushers, NEW a \in BOOLEAN, FailCycle(f, a)
  PROVE  attempts' \in [Event -> 0..HaltAfter] /\ fl' \in [Flushers -> FlusherState]
<1>1. \A e \in Event : AtMostHalt(attempts[e] + 1) \in 0..HaltAfter
  BY AtMostHaltType DEF TypeOK
<1>2. attempts' \in [Event -> 0..HaltAfter]
  BY <1>1 DEF FailCycle, TypeOK
<1>3. AtMostHalt(fl[f].refusals + 1) \in 0..HaltAfter
  BY AtMostHaltType, ClosedType DEF TypeOK, FlusherState
<1>4. fl[f] \in FlusherState /\ Closed(fl[f]) \in FlusherState
  BY ClosedType DEF TypeOK
<1> DEFINE h == fl[f].halted \/ (a /\ fl[f].ripe)
           n == IF a THEN AtMostHalt(fl[f].refusals + 1) ELSE 0
<1>5. h \in BOOLEAN
  BY <1>4 DEF FlusherState
<1>6. n \in 0..HaltAfter
  BY <1>3, DeliveryAssumption
<1>7. fl' = [fl EXCEPT ![f] = [Closed(fl[f]) EXCEPT !.backoff = TRUE, !.halted = h,
                                                    !.refusals = n]]
  BY DEF FailCycle
<1> HIDE DEF h, n
<1>8. [Closed(fl[f]) EXCEPT !.backoff = TRUE, !.halted = h, !.refusals = n] \in FlusherState
  BY <1>4, <1>5, <1>6 DEF FlusherState
<1> QED BY <1>2, <1>7, <1>8 DEF TypeOK

\* Opening a cycle of a Flusher bound to an org keeps the Flushers well formed.
LEMMA OpenType ==
  ASSUME TypeOK, NEW f \in Flushers, NEW r \in FlusherState, NEW box, NEW tried,
         r.org \in Orgs, fl' = [fl EXCEPT ![f] = Opened(r, box, tried)]
  PROVE  fl' \in [Flushers -> FlusherState]
BY OpenedType DEF TypeOK

LEMMA DeleteType ==
  ASSUME TypeOK, NEW S, DeleteRows(S)
  PROVE  /\ outbox' \in [Event -> Orgs \cup {Pending, Gone}]
         /\ attempts' \in [Event -> 0..HaltAfter]
BY DeliveryAssumption DEF TypeOK, DeleteRows

\* The first components of lines are events.
LEMMA IdsType == ASSUME NEW L, L \subseteq Line PROVE Ids(L) \subseteq Event
BY DEF Ids, Line

LEMMA IngestType ==
  ASSUME TypeOK, NEW o, NEW B, B \subseteq Line, NEW R, Ingest(o, B, R)
  PROVE  stored' \in [Orgs -> SUBSET Event]
<1>1. Ids(B \ R) \subseteq Event
  BY IdsType
<1> QED BY <1>1 DEF Ingest, TypeOK

LEMMA FaultType == ASSUME TypeOK, Fault PROVE faults' \in 0..MaxFaults
BY DeliveryAssumption DEF TypeOK, Fault

LEMMA OpType == ASSUME TypeOK, Op PROVE ops' \in 0..MaxOps
BY DeliveryAssumption DEF TypeOK, Op

\* A cycle's steps preserve the shape.
LEMMA CycleType ==
  ASSUME TypeOK, OrgBound, NEW f \in Flushers, Cycle(f)
  PROVE  TypeOK'
<1>0. /\ fl \in [Flushers -> FlusherState] /\ fl[f] \in FlusherState
      /\ fl[f].refused \subseteq Line /\ fl[f].batch \subseteq Line
  BY DEF TypeOK, FlusherState
<1> DEFINE r1 == [fl[f] EXCEPT !.backoff = FALSE]
           r2 == [fl[f] EXCEPT !.halted = FALSE, !.backoff = FALSE, !.refusals = 0]
           r3 == [Closed(fl[f]) EXCEPT !.backoff = FALSE, !.refusals = 0]
<1>a. /\ r1 \in FlusherState /\ r1.org = fl[f].org
      /\ r2 \in FlusherState /\ r2.org = fl[f].org
      /\ r3 \in FlusherState /\ r3.org = fl[f].org
  <2>1. 0 \in 0..HaltAfter
    BY DeliveryAssumption
  <2>2. r1 \in FlusherState /\ r1.org = fl[f].org
    BY <1>0 DEF FlusherState
  <2>3. r2 \in FlusherState /\ r2.org = fl[f].org
    BY <2>1, <1>0 DEF FlusherState
  <2>4. Closed(fl[f]) \in FlusherState /\ Closed(fl[f]).org = fl[f].org
    BY <1>0, ClosedType DEF Closed, FlusherState
  <2>5. r3 \in FlusherState /\ r3.org = fl[f].org
    BY <2>1, <2>4 DEF FlusherState
  <2> QED BY <2>2, <2>3, <2>5
<1> HIDE DEF r1, r2, r3
<1>1. CASE Flush(f)
  <2>1. fl' \in [Flushers -> FlusherState]
    <3>1. CASE fl' = [fl EXCEPT ![f].phase = "ping", ![f].backoff = TRUE]
      BY <3>1, <1>0 DEF FlusherState
    <3>2. CASE fl' = [fl EXCEPT ![f] = Opened(fl[f], outbox, attempts)]
      BY <3>2, <1>1, <1>0, OpenType DEF Flush, OrgBound
    <3> QED BY <3>1, <3>2, <1>1 DEF Flush
  <2> QED BY <2>1, <1>1 DEF Flush, UnchangedSpoke, TypeOK
<1>2. CASE FlushNow(f)
  <2>1. fl' \in [Flushers -> FlusherState]
    <3>1. fl' = [fl EXCEPT ![f] = Opened(r1, outbox, attempts)]
      BY <1>2 DEF FlushNow, r1
    <3>2. r1.org \in Orgs
      BY <1>2, <1>a DEF FlushNow, OrgBound
    <3> QED BY <3>1, <3>2, <1>a, OpenType
  <2> QED BY <2>1, <1>2 DEF FlushNow, UnchangedSpoke, TypeOK
<1>3. CASE BackoffElapses(f)
  <2>1. fl' \in [Flushers -> FlusherState]
    BY <1>3, <1>0 DEF BackoffElapses, FlusherState
  <2> QED BY <2>1, <1>3 DEF BackoffElapses, UnchangedSpoke, TypeOK
<1>4. CASE PingOk(f)
  <2>1. fl' \in [Flushers -> FlusherState]
    <3>1. fl' = [fl EXCEPT ![f] = Opened(r2, outbox, attempts)]
      BY <1>4 DEF PingOk, r2
    <3>2. r2.org \in Orgs
      BY <1>4, <1>a DEF PingOk, OrgBound
    <3> QED BY <3>1, <3>2, <1>a, OpenType
  <2> QED BY <2>1, <1>4 DEF PingOk, UnchangedSpoke, TypeOK
<1>5. CASE PingFail(f)
  <2>1. fl' \in [Flushers -> FlusherState]
    BY <1>5, <1>0 DEF PingFail, FlusherState
  <2> QED BY <2>1, <1>5, FaultType DEF PingFail, UnchangedSpoke, TypeOK
<1>6. CASE PostFails(f)
  <2>1. attempts' \in [Event -> 0..HaltAfter] /\ fl' \in [Flushers -> FlusherState]
    BY <1>6, FailCycleType DEF PostFails
  <2>2. late' \subseteq [org : Orgs, batch : SUBSET Line]
    <3>1. fl[f].org \in Orgs
      BY <1>6 DEF PostFails, OrgBound
    <3>2. [org |-> fl[f].org, batch |-> fl[f].batch] \in [org : Orgs, batch : SUBSET Line]
      BY <3>1, <1>0
    <3> QED BY <3>2, <1>6 DEF PostFails, TypeOK
  <2> QED BY <2>1, <2>2, <1>6, FaultType DEF PostFails, UnchangedSpoke, TypeOK
<1>7. CASE KeyRefused(f)
  <2>1. attempts' \in [Event -> 0..HaltAfter] /\ fl' \in [Flushers -> FlusherState]
    BY <1>7, FailCycleType DEF KeyRefused
  <2> QED BY <2>1, <1>7, FaultType DEF KeyRefused, UnchangedSpoke, TypeOK
<1>8. CASE HubAnswers(f)
  <2>1. PICK R \in Refusals(fl[f].org, fl[f].batch) :
          /\ Ingest(fl[f].org, fl[f].batch, R)
          /\ fl' = [fl EXCEPT ![f].phase = "answered", ![f].refused = R]
    BY <1>8 DEF HubAnswers
  <2>2. R \subseteq Line
    BY <1>0 DEF Refusals
  <2>3. fl' \in [Flushers -> FlusherState]
    BY <2>1, <2>2, <1>0 DEF FlusherState
  <2>4. stored' \in [Orgs -> SUBSET Event]
    BY <2>1, <1>0, IngestType
  <2> QED BY <2>3, <2>4, <1>8 DEF HubAnswers, UnchangedSpoke, TypeOK
<1>9. CASE Settle(f)
  <2>1. fl' \in [Flushers -> FlusherState]
    <3>1. CASE fl' = [fl EXCEPT ![f] = r3]
      BY <3>1, <1>0, <1>a
    <3>2. CASE fl' = [fl EXCEPT ![f] = Opened(r3, outbox', attempts')]
      <4>1. r3.org \in Orgs
        BY <1>9, <1>a DEF Settle, OrgBound
      <4> QED BY <4>1, <3>2, <1>a, OpenType
    <3> QED BY <3>1, <3>2, <1>9 DEF Settle, r3
  <2>2. /\ outbox' \in [Event -> Orgs \cup {Pending, Gone}]
        /\ attempts' \in [Event -> 0..HaltAfter]
    BY <1>9, DeleteType DEF Settle
  <2>3. deadletter' \subseteq Line
    BY <1>9, <1>0 DEF Settle, TypeOK
  <2> QED BY <2>1, <2>2, <2>3, <1>9 DEF Settle, UnchangedSpoke, TypeOK
<1>10. CASE AppendFails(f)
  <2>1. attempts' \in [Event -> 0..HaltAfter] /\ fl' \in [Flushers -> FlusherState]
    BY <1>10, FailCycleType DEF AppendFails
  <2> QED BY <2>1, <1>10, FaultType DEF AppendFails, UnchangedSpoke, TypeOK
<1>11. CASE KeepBatch(f)
  <2>1. attempts' \in [Event -> 0..HaltAfter] /\ fl' \in [Flushers -> FlusherState]
    BY <1>11, FailCycleType DEF KeepBatch
  <2> QED BY <2>1, <1>11 DEF KeepBatch, UnchangedSpoke, TypeOK
<1> QED BY <1>1, <1>2, <1>3, <1>4, <1>5, <1>6, <1>7, <1>8, <1>9, <1>10, <1>11 DEF Cycle

\* The steps around the Flusher preserve the shape.
LEMMA OperateType ==
  ASSUME TypeOK, OrgBound, Operate
  PROVE  TypeOK'
<1>0. /\ fl \in [Flushers -> FlusherState] /\ outbox \in [Event -> Orgs \cup {Pending, Gone}]
      /\ \A f \in Flushers : fl[f].refused \subseteq Line /\ fl[f].batch \subseteq Line
  BY DEF TypeOK, FlusherState
<1>a. ASSUME NEW from, NEW to \in Orgs
      PROVE  Rewritten(from, to) \in [Event -> Orgs \cup {Pending, Gone}]
  BY <1>0 DEF Rewritten
<1>b. ASSUME NEW g \in Flushers, StartFlusher(g)
      PROVE  /\ config' \in Orgs \cup {NoOrg} /\ current' \in Flushers \cup {NoOrg}
             /\ outbox' \in [Event -> Orgs \cup {Pending, Gone}]
  <2>1. CASE hubJson = NoOrg
    BY <2>1, <1>b DEF StartFlusher, TypeOK
  <2>2. CASE hubJson # NoOrg
    BY <2>2, <1>a, <1>b DEF StartFlusher, TypeOK
  <2> QED BY <2>1, <2>2
<1>1. ASSUME NEW o \in Orgs \cup {NoOrg}, SetHubJson(o) PROVE TypeOK'
  BY <1>1, OpType DEF SetHubJson, TypeOK
<1>2. ASSUME NEW g \in Flushers, Reload(g) PROVE TypeOK'
  <2>1. fl' \in [Flushers -> FlusherState]
    BY <1>2, <1>0, FreshType DEF Reload, TypeOK
  <2> QED BY <2>1, <1>2, <1>b, OpType DEF Reload, TypeOK
<1>3. ASSUME NEW g \in Flushers, NEW A \in SUBSET Flushers, Restart(g, A) PROVE TypeOK'
  <2>1. \A f \in Flushers : Fresh(IF f = g THEN hubJson ELSE NoOrg) \in FlusherState
    BY FreshType DEF TypeOK
  <2>2. fl' \in [Flushers -> FlusherState]
    BY <2>1, <1>3 DEF Restart
  <2>3. deadletter' \subseteq Line
    BY <1>3, <1>0 DEF Restart, TypeOK
  <2>4. late' \subseteq [org : Orgs, batch : SUBSET Line]
    <3>1. \A h \in Flushers : fl[h].phase = "post" =>
            [org |-> fl[h].org, batch |-> fl[h].batch] \in [org : Orgs, batch : SUBSET Line]
      BY <1>0 DEF OrgBound
    <3> QED BY <3>1, <1>3 DEF Restart, TypeOK
  <2> QED BY <2>2, <2>3, <2>4, <1>3, <1>b, OpType DEF Restart, TypeOK
<1>4. ASSUME NEW from \in Orgs \cup {Pending}, NEW to \in Orgs, CarryOver(from, to)
      PROVE  TypeOK'
  BY <1>4, <1>a, OpType DEF CarryOver, TypeOK
<1>5. ASSUME NEW S \in SUBSET deadletter, NEW done \in BOOLEAN, Requeue(S, done)
      PROVE  TypeOK'
  <2>2. outbox' \in [Event -> Orgs \cup {Pending, Gone}]
    BY <1>0, <1>5 DEF Requeue, Inserted
  <2> QED BY <2>2, <1>5, OpType DEF Requeue, TypeOK
<1>6. ASSUME NEW S \in SUBSET deadletter, DiscardRead(S) PROVE TypeOK'
  BY <1>6, OpType DEF DiscardRead, TypeOK
<1>7. CASE DiscardWrite
  <2>1. /\ rewrite.kept \subseteq Line /\ rewrite.cut \subseteq Line
        /\ deadletter \subseteq Line
    BY DEF TypeOK
  <2>2. /\ Ids(rewrite.cut) \subseteq Event
        /\ Ids(deadletter \ (rewrite.kept \cup rewrite.cut)) \subseteq Event
    BY <2>1, IdsType
  <2> QED BY <2>1, <2>2, <1>7 DEF DiscardWrite, TypeOK
<1>8. ASSUME NEW o \in Orgs, UpgradeHub(o) PROVE TypeOK'
  BY <1>8, OpType DEF UpgradeHub, TypeOK
<1> QED BY <1>1, <1>2, <1>3, <1>4, <1>5, <1>6, <1>7, <1>8 DEF Operate

\* recordEvent preserves the shape.
LEMMA RecordType ==
  ASSUME TypeOK, NEW e \in Event, RecordEvent(e)
  PROVE  TypeOK'
<1> DEFINE box == [outbox EXCEPT ![e] = Stamp]
           cut == IF config = NoOrg THEN Pruned(box) ELSE {}
<1>1. box \in [Event -> Orgs \cup {Pending, Gone}]
  BY DEF TypeOK, Stamp
<1>2. cut \subseteq Event
  BY PrunedPending
<1>3. /\ outbox' = [d \in Event |-> IF d \in cut THEN Gone ELSE box[d]]
      /\ dropped' = dropped \cup cut
  BY DEF RecordEvent
<1> HIDE DEF box, cut
<1>4. outbox' \in [Event -> Orgs \cup {Pending, Gone}]
  BY <1>1, <1>3
<1> QED BY <1>2, <1>3, <1>4 DEF RecordEvent, TypeOK

\* So does a hub that processes a request nobody waits for.
LEMMA LateType ==
  ASSUME TypeOK, NEW m \in late, HubAnswersLate(m)
  PROVE  TypeOK'
<1>1. m.batch \subseteq Line
  BY DEF TypeOK
<1>2. PICK R \in Refusals(m.org, m.batch) : Ingest(m.org, m.batch, R)
  BY DEF HubAnswersLate
<1>3. stored' \in [Orgs -> SUBSET Event]
  BY <1>1, <1>2, IngestType
<1> QED BY <1>3 DEF HubAnswersLate, UnchangedSpoke, TypeOK

\* Every step preserves the shape.
LEMMA NextType == ASSUME TypeOK, OrgBound, [Next]_vars PROVE TypeOK'
<1>1. CASE UNCHANGED vars
  BY <1>1 DEF vars, TypeOK
<1> QED BY <1>1, RecordType, CycleType, LateType, OperateType DEF Next

-----------------------------------------------------------------------------
(* What one step of a Flusher may do, told once for every invariant below. *)

\* Ids distributes over a split of a set of lines, and is monotone.
LEMMA IdsSplit == ASSUME NEW A, NEW B PROVE Ids(A) \subseteq Ids(A \ B) \cup Ids(B)
BY DEF Ids

LEMMA IdsMonotone ==
  ASSUME NEW A, NEW B PROVE /\ Ids(A \cup B) = Ids(A) \cup Ids(B)
                            /\ A \subseteq B => Ids(A) \subseteq Ids(B)
BY DEF Ids

\* A batch is the old one or names rows of the outbox it was opened on.
LEMMA OpenedBatch ==
  ASSUME NEW r \in FlusherState, NEW box, NEW tried, r.org \in Orgs
  PROVE  /\ Ids(Opened(r, box, tried).batch)
               \subseteq Ids(r.batch) \cup {e \in Event : box[e] # Gone}
         /\ \A l \in Opened(r, box, tried).batch : l \in r.batch \/ l[2] = r.org
<1> DEFINE w == PeekDeliverable(r.org, box)
           B == {<<e, box[e]>> : e \in w}
           p == \E e \in w : tried[e] + 1 >= HaltAfter
<1>1. Ids(B) \subseteq {e \in Event : box[e] # Gone} /\ \A l \in B : l[2] = r.org
  BY PeekStamped, DeliveryAssumption DEF Ids
<1>2. CASE w = {}
  BY <1>2 DEF Opened, FlusherState
<1>3. CASE w # {}
  <2>1. Opened(r, box, tried) = [r EXCEPT !.phase = "post", !.batch = B, !.ripe = p]
    BY <1>3 DEF Opened
  <2> HIDE DEF B, p
  <2>2. Opened(r, box, tried).batch = B
    BY <2>1 DEF FlusherState
  <2> QED BY <2>2, <1>1
<1> QED BY <1>2, <1>3

\* What follows for the Flusher that took the step, and for the others.
FlusherStep(f) ==
  /\ \A g \in Flushers \ {f} : fl'[g] = fl[g]
  /\ fl'[f].org = fl[f].org
  /\ fl'[f].phase # "idle" => fl[f].org \in Orgs
  /\ fl'[f].phase # "answered" => fl'[f].refused = {}
  /\ fl'[f].phase = "answered" => Ids(fl'[f].batch \ fl'[f].refused) \subseteq Held'
  /\ Ids(fl'[f].batch) \subseteq Ids(fl[f].batch) \cup Queued
  /\ fl'[f].refused \subseteq fl[f].batch \cup fl[f].refused
  /\ \A l \in fl'[f].batch : l \in fl[f].batch \/ l[2] = fl[f].org
  /\ fl'[f].halted => fl'[f].phase \in {"idle", "ping"} /\ fl'[f].refusals > 0

\* A cycle that opens is such a step.
LEMMA OpenStep ==
  ASSUME TypeOK, NEW f \in Flushers, NEW r \in FlusherState, NEW box, NEW tried,
         fl' = [fl EXCEPT ![f] = Opened(r, box, tried)],
         r.org = fl[f].org, r.org \in Orgs, r.refused = {}, ~r.halted,
         r.batch \subseteq fl[f].batch,
         {e \in Event : box[e] # Gone} \subseteq Queued
  PROVE  FlusherStep(f)
<1> DEFINE n == Opened(r, box, tried)
<1>1. fl'[f] = n /\ \A g \in Flushers \ {f} : fl'[g] = fl[g]
  BY DEF TypeOK
<1>2. /\ n.org = r.org /\ n.halted = r.halted /\ n.refused = {}
      /\ n.phase \in {"idle", "post"}
  BY OpenedType
<1>3. Ids(n.batch) \subseteq Ids(r.batch) \cup {e \in Event : box[e] # Gone}
  BY OpenedBatch
<1>4. \A l \in n.batch : l \in r.batch \/ l[2] = r.org
  BY OpenedBatch
<1>5. Ids(r.batch) \subseteq Ids(fl[f].batch)
  BY IdsMonotone
<1> HIDE DEF n
<1> QED BY <1>1, <1>2, <1>3, <1>4, <1>5 DEF FlusherStep

\* So is one that fails.
LEMMA FailStep ==
  ASSUME TypeOK, HaltedRests, NEW f \in Flushers, NEW a \in BOOLEAN, FailCycle(f, a),
         fl[f].phase \in {"post", "answered"}
  PROVE  /\ FlusherStep(f)
         /\ fl'[f].phase = "idle" /\ fl'[f].batch = {} /\ fl'[f].refused = {}
<1>0. fl \in [Flushers -> FlusherState] /\ fl[f] \in FlusherState /\ ~fl[f].halted
  BY DEF TypeOK, HaltedRests
<1> DEFINE h == fl[f].halted \/ (a /\ fl[f].ripe)
           n == IF a THEN AtMostHalt(fl[f].refusals + 1) ELSE 0
           r == [Closed(fl[f]) EXCEPT !.backoff = TRUE, !.halted = h, !.refusals = n]
<1>1. fl' = [fl EXCEPT ![f] = r]
  BY DEF FailCycle
<1>2. h => n > 0
  <2>1. fl[f].refusals \in Nat
    BY <1>0, DeliveryAssumption DEF FlusherState
  <2>2. AtMostHalt(fl[f].refusals + 1) > 0
    BY <2>1, DeliveryAssumption DEF AtMostHalt
  <2> QED BY <2>2, <1>0
<1> HIDE DEF h, n
<1>3. /\ r.org = fl[f].org /\ r.phase = "idle" /\ r.batch = {} /\ r.refused = {}
      /\ r.halted = h /\ r.refusals = n
  BY <1>0 DEF Closed, FlusherState
<1> HIDE DEF r
<1>4. fl'[f] = r /\ \A g \in Flushers \ {f} : fl'[g] = fl[g]
  BY <1>0, <1>1
<1>5. Ids(fl'[f].batch) = {}
  BY <1>3, <1>4 DEF Ids
<1> QED BY <1>2, <1>3, <1>4, <1>5 DEF FlusherStep

\* Ingest adds to what some hub holds exactly what it did not refuse.
LEMMA IngestHeld ==
  ASSUME TypeOK, NEW o \in Orgs, NEW B, NEW R, Ingest(o, B, R)
  PROVE  Held' = Held \cup Ids(B \ R)
<1> DEFINE new == Ids(B \ R)
<1>1. stored' = [stored EXCEPT ![o] = stored[o] \cup new]
  BY DEF Ingest
<1> HIDE DEF new
<1>2. \A p \in Orgs : stored'[p] = IF p = o THEN stored[o] \cup new ELSE stored[p]
  BY <1>1 DEF TypeOK
<1>3. Held' \subseteq Held \cup new
  BY <1>2 DEF Held
<1>4. Held \subseteq Held' /\ new \subseteq Held'
  BY <1>2 DEF Held
<1> QED BY <1>3, <1>4 DEF new

\* Every step of a Flusher is one.
LEMMA CycleStep ==
  ASSUME TypeOK, OrgBound, AnsweredHeld, HaltedRests, HaltOnlyByHub,
         NEW f \in Flushers, Cycle(f)
  PROVE  FlusherStep(f)
<1>0. /\ fl \in [Flushers -> FlusherState] /\ fl[f] \in FlusherState
      /\ fl[f].phase # "answered" => fl[f].refused = {}
      /\ fl[f].phase = "answered" => Ids(fl[f].batch \ fl[f].refused) \subseteq Held
      /\ fl[f].phase # "idle" \/ f = current => fl[f].org \in Orgs
      /\ fl[f].halted => fl[f].phase \in {"idle", "ping"} /\ fl[f].refusals > 0
  BY DEF TypeOK, AnsweredHeld, OrgBound, HaltedRests, HaltOnlyByHub
<1> DEFINE r1 == [fl[f] EXCEPT !.backoff = FALSE]
           r2 == [fl[f] EXCEPT !.halted = FALSE, !.backoff = FALSE, !.refusals = 0]
           r3 == [Closed(fl[f]) EXCEPT !.backoff = FALSE, !.refusals = 0]
<1>a. /\ r1 \in FlusherState /\ r1.org = fl[f].org /\ r1.refused = fl[f].refused
      /\ r1.halted = fl[f].halted /\ r1.batch = fl[f].batch
  BY <1>0 DEF FlusherState
<1>b. /\ r2 \in FlusherState /\ r2.org = fl[f].org /\ r2.refused = fl[f].refused
      /\ ~r2.halted /\ r2.batch = fl[f].batch
  <2>1. 0 \in 0..HaltAfter
    BY DeliveryAssumption
  <2> QED BY <2>1, <1>0 DEF FlusherState
<1>c. /\ r3 \in FlusherState /\ r3.org = fl[f].org /\ r3.refused = {}
      /\ r3.halted = fl[f].halted /\ r3.batch = {} /\ r3.phase = "idle"
  <2>1. 0 \in 0..HaltAfter
    BY DeliveryAssumption
  <2>2. /\ Closed(fl[f]) \in FlusherState /\ Closed(fl[f]).org = fl[f].org
        /\ Closed(fl[f]).refused = {} /\ Closed(fl[f]).halted = fl[f].halted
        /\ Closed(fl[f]).batch = {} /\ Closed(fl[f]).phase = "idle"
    BY <1>0, ClosedType DEF Closed, FlusherState
  <2> QED BY <2>1, <2>2 DEF FlusherState
<1> HIDE DEF r1, r2, r3
<1>d. {e \in Event : outbox[e] # Gone} \subseteq Queued
  BY DEF Queued
<1>1. CASE Flush(f)
  <2>1. CASE fl[f].halted /\ fl' = [fl EXCEPT ![f].phase = "ping", ![f].backoff = TRUE]
    <3>1. fl' = [fl EXCEPT ![f] = [fl[f] EXCEPT !.phase = "ping", !.backoff = TRUE]]
      BY <2>1, <1>0
    <3> QED BY <3>1, <1>0, <1>1 DEF FlusherStep, Flush, FlusherState
  <2>2. CASE ~fl[f].halted /\ fl' = [fl EXCEPT ![f] = Opened(fl[f], outbox, attempts)]
    BY <2>2, <1>0, <1>d, <1>1, OpenStep DEF Flush
  <2> QED BY <2>1, <2>2, <1>1 DEF Flush
<1>2. CASE FlushNow(f)
  BY <1>2, <1>0, <1>a, <1>d, OpenStep DEF FlushNow, r1
<1>3. CASE BackoffElapses(f)
  <2>1. fl' = [fl EXCEPT ![f] = r1]
    BY <1>3, <1>0 DEF BackoffElapses, r1
  <2>2. r1.phase = "idle" /\ r1.refusals = fl[f].refusals
    BY <1>3, <1>0 DEF BackoffElapses, FlusherState, r1
  <2> QED BY <2>1, <2>2, <1>0, <1>a, <1>3 DEF FlusherStep, BackoffElapses
<1>4. CASE PingOk(f)
  BY <1>4, <1>0, <1>b, <1>d, OpenStep DEF PingOk, r2
<1>5. CASE PingFail(f)
  <2>1. fl' = [fl EXCEPT ![f] = [fl[f] EXCEPT !.phase = "idle"]]
    BY <1>5, <1>0 DEF PingFail
  <2> QED BY <2>1, <1>0, <1>5 DEF FlusherStep, PingFail, FlusherState
<1>6. CASE PostFails(f)
  BY <1>6, FailStep DEF PostFails
<1>7. CASE KeyRefused(f)
  BY <1>7, FailStep DEF KeyRefused
<1>8. CASE HubAnswers(f)
  <2>1. PICK R \in Refusals(fl[f].org, fl[f].batch) :
          /\ Ingest(fl[f].org, fl[f].batch, R)
          /\ fl' = [fl EXCEPT ![f].phase = "answered", ![f].refused = R]
    BY <1>8 DEF HubAnswers
  <2>2. fl[f].org \in Orgs /\ R \subseteq fl[f].batch /\ ~fl[f].halted
    BY <1>8, <1>0 DEF HubAnswers, Refusals
  <2>3. Ids(fl[f].batch \ R) \subseteq Held'
    BY <2>1, <2>2, IngestHeld
  <2>4. /\ fl'[f].org = fl[f].org /\ fl'[f].phase = "answered" /\ fl'[f].refused = R
        /\ fl'[f].batch = fl[f].batch /\ fl'[f].halted = fl[f].halted
        /\ \A g \in Flushers \ {f} : fl'[g] = fl[g]
    BY <2>1, <1>0 DEF FlusherState
  <2> QED BY <2>2, <2>3, <2>4 DEF FlusherStep
<1>9. CASE Settle(f)
  <2>1. CASE fl' = [fl EXCEPT ![f] = r3]
    <3>1. fl'[f] = r3 /\ \A g \in Flushers \ {f} : fl'[g] = fl[g]
      BY <2>1, <1>0
    <3>2. Ids(r3.batch) = {} /\ ~r3.halted
      BY <1>c, <1>0, <1>9 DEF Ids, Settle
    <3> QED BY <3>1, <3>2, <1>c DEF FlusherStep
  <2>2. CASE fl' = [fl EXCEPT ![f] = Opened(r3, outbox', attempts')]
    <3>1. {e \in Event : outbox'[e] # Gone} \subseteq Queued
      BY <1>9 DEF Settle, DeleteRows, Queued
    <3>2. r3.org \in Orgs /\ ~r3.halted
      BY <1>9, <1>0, <1>c DEF Settle
    <3> QED BY <3>1, <3>2, <2>2, <1>c, OpenStep
  <2> QED BY <2>1, <2>2, <1>9 DEF Settle, r3
<1>10. CASE AppendFails(f)
  BY <1>10, FailStep DEF AppendFails
<1>11. CASE KeepBatch(f)
  BY <1>11, FailStep DEF KeepBatch
<1> QED BY <1>1, <1>2, <1>3, <1>4, <1>5, <1>6, <1>7, <1>8, <1>9, <1>10, <1>11 DEF Cycle

\* What a step of a Flusher does to the rows, the lines and the hubs.
RowsStep(f) ==
  /\ UnchangedSpoke
  /\ Queued' \subseteq Queued
  /\ deadletter \subseteq deadletter' /\ deadletter' \subseteq deadletter \cup fl[f].refused
  /\ Held \subseteq Held' /\ Held' \subseteq Held \cup Ids(fl[f].batch)
  /\ Held' = Held \/ UNCHANGED <<outbox, deadletter>>
  /\ \A m \in late' : m \in late \/ (m.org = fl[f].org /\ m.batch = fl[f].batch)
  /\ Queued \ Queued' \subseteq Held' \cup Ids(deadletter')

\* A row is deleted only once its hub holds it or the file has its line.
LEMMA CycleRows ==
  ASSUME TypeOK, OrgBound, AnsweredHeld, NEW f \in Flushers, Cycle(f)
  PROVE  RowsStep(f)
<1>1. CASE UNCHANGED <<outbox, deadletter, late, stored>> /\ UnchangedSpoke
  <2>1. Held' = Held /\ Queued' = Queued
    BY <1>1 DEF Held, Queued
  <2> QED BY <2>1, <1>1 DEF RowsStep
<1>2. CASE PostFails(f)
  <2>1. Held' = Held /\ Queued' = Queued
    BY <1>2 DEF PostFails, Held, Queued
  <2>2. \A m \in late' : m \in late \/ (m.org = fl[f].org /\ m.batch = fl[f].batch)
    BY <1>2 DEF PostFails
  <2>3. UnchangedSpoke /\ outbox' = outbox /\ deadletter' = deadletter
    BY <1>2 DEF PostFails
  <2> QED BY <2>1, <2>2, <2>3 DEF RowsStep
<1>3. CASE HubAnswers(f)
  <2>1. fl[f].org \in Orgs
    BY <1>3, DeliveryAssumption DEF HubAnswers, OrgBound
  <2>2. PICK R \in Refusals(fl[f].org, fl[f].batch) : Ingest(fl[f].org, fl[f].batch, R)
    BY <1>3 DEF HubAnswers
  <2>3. Held' = Held \cup Ids(fl[f].batch \ R)
    BY <2>1, <2>2, IngestHeld
  <2>4. Ids(fl[f].batch \ R) \subseteq Ids(fl[f].batch)
    BY IdsMonotone
  <2>5. UnchangedSpoke /\ outbox' = outbox /\ deadletter' = deadletter /\ late' = late
    BY <1>3 DEF HubAnswers
  <2>6. Queued' = Queued
    BY <2>5 DEF Queued
  <2> QED BY <2>3, <2>4, <2>5, <2>6 DEF RowsStep
<1>4. CASE Settle(f)
  <2>1. Held' = Held
    BY <1>4 DEF Settle, Held
  <2>2. Queued' = Queued \ Ids(fl[f].batch)
    BY <1>4, DeliveryAssumption DEF Settle, DeleteRows, Queued
  <2>3. Ids(fl[f].batch) \subseteq Ids(fl[f].batch \ fl[f].refused) \cup Ids(fl[f].refused)
    BY IdsSplit
  <2>4. Ids(fl[f].batch \ fl[f].refused) \subseteq Held
    BY <1>4 DEF Settle, AnsweredHeld
  <2>5. deadletter' = deadletter \cup fl[f].refused
    BY <1>4 DEF Settle
  <2>6. Ids(fl[f].refused) \subseteq Ids(deadletter')
    BY <2>5, IdsMonotone
  <2>7. UnchangedSpoke /\ late' = late
    BY <1>4 DEF Settle
  <2> QED BY <2>1, <2>2, <2>3, <2>4, <2>5, <2>6, <2>7 DEF RowsStep
<1> QED BY <1>1, <1>2, <1>3, <1>4
     DEF Cycle, Flush, FlushNow, BackoffElapses, PingOk, PingFail, KeyRefused,
         AppendFails, KeepBatch

\* A hub that processes a request late only adds to what it holds.
LEMMA LateRows ==
  ASSUME TypeOK, NEW m \in late, HubAnswersLate(m)
  PROVE  /\ UnchangedSpoke /\ UNCHANGED <<outbox, deadletter, fl>>
         /\ late' \subseteq late
         /\ Held \subseteq Held' /\ Held' \subseteq Held \cup Ids(m.batch)
<1>1. m.org \in Orgs
  BY DEF TypeOK
<1>2. PICK R \in Refusals(m.org, m.batch) : Ingest(m.org, m.batch, R)
  BY DEF HubAnswersLate
<1>3. Held' = Held \cup Ids(m.batch \ R)
  BY <1>1, <1>2, IngestHeld
<1>4. Ids(m.batch \ R) \subseteq Ids(m.batch)
  BY IdsMonotone
<1> QED BY <1>3, <1>4 DEF HubAnswersLate

\* recordEvent adds one row, and the cap prunes pending ones.
LEMMA RecordRows ==
  ASSUME TypeOK, NEW e \in Event, RecordEvent(e)
  PROVE  /\ recorded' = recorded \cup {e} /\ e \notin recorded
         /\ Queued' \subseteq Queued \cup {e}
         /\ (Queued \cup {e}) \subseteq Queued' \cup dropped'
         /\ dropped \subseteq dropped' /\ dropped' \subseteq dropped \cup Queued \cup {e}
         /\ \A d \in Event \ {e} : outbox[d] \in Orgs => outbox'[d] = outbox[d]
<1> DEFINE box == [outbox EXCEPT ![e] = Stamp]
           cut == IF config = NoOrg THEN Pruned(box) ELSE {}
<1>1. cut \subseteq Event /\ \A d \in cut : box[d] = Pending
  BY PrunedPending
<1>2. \A d \in Event : /\ d # e => box[d] = outbox[d]
                       /\ d = e => box[d] # Gone
  BY DeliveryAssumption DEF TypeOK, Stamp
<1>3. /\ outbox' = [d \in Event |-> IF d \in cut THEN Gone ELSE box[d]]
      /\ dropped' = dropped \cup cut
  BY DEF RecordEvent
<1> HIDE DEF box, cut
<1>4. Queued' = {d \in Event : box[d] # Gone} \ cut
  BY <1>3 DEF Queued
<1>5. {d \in Event : box[d] # Gone} = Queued \cup {e}
  BY <1>2 DEF Queued
<1>6. cut \subseteq Queued \cup {e}
  BY <1>1, <1>5, DeliveryAssumption
<1>7. \A d \in Event \ {e} : outbox[d] \in Orgs => outbox'[d] = outbox[d]
  BY <1>1, <1>2, <1>3, DeliveryAssumption
<1> QED BY <1>3, <1>4, <1>5, <1>6, <1>7 DEF RecordEvent

\* Re-stamping moves no row in or out of the outbox.
LEMMA RewrittenQueued ==
  ASSUME TypeOK, NEW from \in Orgs \cup {Pending}, NEW to \in Orgs,
         outbox' = Rewritten(from, to)
  PROVE  Queued' = Queued
BY DeliveryAssumption DEF Rewritten, Queued, TypeOK

LEMMA StartQueued ==
  ASSUME TypeOK, NEW g, StartFlusher(g) PROVE Queued' = Queued
<1>1. CASE hubJson = NoOrg
  BY <1>1 DEF StartFlusher, Queued
<1>2. CASE hubJson # NoOrg
  BY <1>2, RewrittenQueued DEF StartFlusher, TypeOK
<1> QED BY <1>1, <1>2

\* What the steps around the Flusher do to the rows, the lines and the hubs.
AroundStep ==
  /\ recorded' = recorded /\ Held' = Held
  /\ Queued \subseteq Queued' /\ dropped \subseteq dropped' /\ raced \subseteq raced'
  /\ Ids(deadletter) \subseteq Queued' \cup Ids(deadletter') \cup dropped' \cup raced'
  /\ Queued' \cup Ids(deadletter') \cup dropped' \cup raced' \subseteq recorded
  /\ Ids(rewrite'.kept) \cup Ids(rewrite'.cut) \subseteq recorded

LEMMA OperateRows == ASSUME TypeOK, KnownEvents, Operate PROVE AroundStep
<1>0. /\ Queued \subseteq recorded /\ Ids(deadletter) \subseteq recorded
      /\ dropped \subseteq recorded /\ raced \subseteq recorded
      /\ Ids(rewrite.kept) \subseteq recorded /\ Ids(rewrite.cut) \subseteq recorded
      /\ \A f \in Flushers : Ids(fl[f].refused) \subseteq recorded
  BY DEF KnownEvents
<1>1. CASE UNCHANGED <<recorded, deadletter, stored, rewrite, dropped, raced>>
           /\ Queued' = Queued
  <2>1. Held' = Held
    BY <1>1 DEF Held
  <2> QED BY <2>1, <1>1, <1>0 DEF AroundStep
<1>2. ASSUME NEW o \in Orgs \cup {NoOrg}, SetHubJson(o) PROVE AroundStep
  BY <1>2, <1>1 DEF SetHubJson, Queued
<1>3. ASSUME NEW g \in Flushers, Reload(g) PROVE AroundStep
  BY <1>3, <1>1, StartQueued DEF Reload
<1>4. ASSUME NEW g \in Flushers, NEW A \in SUBSET Flushers, Restart(g, A) PROVE AroundStep
  <2>1. Queued' = Queued
    BY <1>4, StartQueued DEF Restart
  <2>2. deadletter' = deadletter \cup UNION {fl[f].refused : f \in A}
    BY <1>4 DEF Restart
  <2>3. Ids(UNION {fl[f].refused : f \in A}) \subseteq recorded
    BY <1>0 DEF Ids
  <2>4. Ids(deadletter') = Ids(deadletter) \cup Ids(UNION {fl[f].refused : f \in A})
    BY <2>2, IdsMonotone
  <2>5. Held' = Held /\ UNCHANGED <<recorded, rewrite, dropped, raced>>
    BY <1>4 DEF Restart, Held
  <2> QED BY <2>1, <2>3, <2>4, <2>5, <1>0 DEF AroundStep
<1>5. ASSUME NEW from \in Orgs \cup {Pending}, NEW to \in Orgs, CarryOver(from, to)
      PROVE  AroundStep
  BY <1>5, <1>1, RewrittenQueued DEF CarryOver
<1>6. ASSUME NEW S \in SUBSET deadletter, NEW done \in BOOLEAN, Requeue(S, done)
      PROVE  AroundStep
  <2>2. Ids(S) \subseteq Event
    BY IdsType DEF TypeOK
  <2>3. Queued' = Queued \cup Ids(S)
    BY <2>2, <1>6, DeliveryAssumption DEF Requeue, Inserted, Queued
  <2>4. Ids(deadletter') \subseteq Ids(deadletter) /\ Ids(S) \subseteq Ids(deadletter)
    BY <1>6, IdsMonotone DEF Requeue
  <2>5. Ids(deadletter) \subseteq Ids(deadletter') \cup Ids(S)
    BY <1>6, IdsSplit DEF Requeue
  <2>6. Held' = Held /\ UNCHANGED <<recorded, rewrite, dropped, raced>>
    BY <1>6 DEF Requeue, Held
  <2> QED BY <2>3, <2>4, <2>5, <2>6, <1>0 DEF AroundStep
<1>7. ASSUME NEW S \in SUBSET deadletter, DiscardRead(S) PROVE AroundStep
  <2>1. rewrite'.kept = deadletter \ S /\ rewrite'.cut = S
    BY <1>7 DEF DiscardRead
  <2>2. Ids(deadletter \ S) \subseteq Ids(deadletter) /\ Ids(S) \subseteq Ids(deadletter)
    BY IdsMonotone
  <2>3. Queued' = Queued /\ Held' = Held /\ UNCHANGED <<recorded, deadletter, dropped, raced>>
    BY <1>7 DEF DiscardRead, Queued, Held
  <2> QED BY <2>1, <2>2, <2>3, <1>0 DEF AroundStep
<1>8. CASE DiscardWrite
  <2> DEFINE unseen == deadletter \ (rewrite.kept \cup rewrite.cut)
  <2>1. /\ deadletter' = rewrite.kept
        /\ dropped' = dropped \cup Ids(rewrite.cut) /\ raced' = raced \cup Ids(unseen)
        /\ rewrite'.kept = {} /\ rewrite'.cut = {}
    BY <1>8 DEF DiscardWrite
  <2>2. Ids(deadletter) \subseteq Ids(unseen) \cup Ids(rewrite.kept) \cup Ids(rewrite.cut)
    BY DEF Ids
  <2>3. Ids(unseen) \subseteq Ids(deadletter)
    BY IdsMonotone
  <2>4. Queued' = Queued /\ Held' = Held /\ recorded' = recorded
    BY <1>8 DEF DiscardWrite, Queued, Held
  <2>5. Ids({}) = {}
    BY DEF Ids
  <2> HIDE DEF unseen
  <2> QED BY <2>1, <2>2, <2>3, <2>4, <2>5, <1>0 DEF AroundStep
<1>9. ASSUME NEW o \in Orgs, UpgradeHub(o) PROVE AroundStep
  BY <1>9, <1>1 DEF UpgradeHub, Queued
<1> QED BY <1>2, <1>3, <1>4, <1>5, <1>6, <1>7, <1>8, <1>9 DEF Operate

\* What they do to the Flushers: leave one alone, or replace it by a fresh one.
LEMMA OperateFlushers ==
  ASSUME TypeOK, OrgBound, Operate
  PROVE  /\ \A f \in Flushers : fl'[f] = fl[f] \/ \E o : fl'[f] = Fresh(o)
         /\ OrgBound'
         /\ \A m \in late' : m \in late
              \/ \E f \in Flushers : m.org = fl[f].org /\ m.batch = fl[f].batch
<1> DEFINE P == /\ \A f \in Flushers : fl'[f] = fl[f] \/ \E o : fl'[f] = Fresh(o)
                /\ OrgBound'
                /\ \A m \in late' : m \in late
                     \/ \E f \in Flushers : m.org = fl[f].org /\ m.batch = fl[f].batch
<1>1. CASE UNCHANGED <<fl, current, late>>
  BY <1>1 DEF OrgBound
<1>2. ASSUME NEW g \in Flushers, Reload(g) PROVE P
  <2>1. /\ fl'[g] = Fresh(hubJson) /\ \A f \in Flushers \ {g} : fl'[f] = fl[f]
        /\ current' = g /\ hubJson \in Orgs /\ late' = late
    BY <1>2 DEF Reload, StartFlusher, TypeOK
  <2>2. fl'[g].org = hubJson
    BY <2>1 DEF Fresh
  <2>3. OrgBound'
    BY <2>1, <2>2 DEF OrgBound
  <2> QED BY <2>1, <2>3
<1>3. ASSUME NEW g \in Flushers, NEW A \in SUBSET Flushers, Restart(g, A) PROVE P
  <2>1. /\ \A f \in Flushers : fl'[f] = Fresh(IF f = g THEN hubJson ELSE NoOrg)
        /\ late' = late \cup {[org |-> fl[f].org, batch |-> fl[f].batch] :
                                f \in {h \in Flushers : fl[h].phase = "post"}}
        /\ current' = IF hubJson = NoOrg THEN NoOrg ELSE g
    BY <1>3 DEF Restart, StartFlusher
  <2>2. \A o : Fresh(o).phase = "idle" /\ Fresh(o).org = o
    BY DEF Fresh
  <2>3. OrgBound'
    BY <2>1, <2>2, DeliveryAssumption DEF OrgBound, TypeOK
  <2> QED BY <2>1, <2>3
<1> QED BY <1>1, <1>2, <1>3
     DEF Operate, SetHubJson, CarryOver, Requeue, DiscardRead, DiscardWrite, UpgradeHub

-----------------------------------------------------------------------------
(* The inductive invariant. *)

IInv ==
  /\ TypeOK /\ OrgBound /\ HaltedRests /\ HaltOnlyByHub
  /\ AnsweredHeld /\ KnownEvents /\ NoSilentLoss /\ NoForeignShipped

\* It holds of an installation that has just booted.
LEMMA InitInv == Init => IInv
<1> SUFFICES ASSUME Init PROVE IInv
  OBVIOUS
<1>0. PICK g \in Flushers :
        /\ current = IF hubJson = NoOrg THEN NoOrg ELSE g
        /\ fl = [f \in Flushers |-> Fresh(IF f = g THEN hubJson ELSE NoOrg)]
  BY DEF Init
<1>1. \A f \in Flushers : /\ fl[f].org = (IF f = g THEN hubJson ELSE NoOrg)
                          /\ fl[f].phase = "idle" /\ fl[f].batch = {}
                          /\ fl[f].refused = {} /\ ~fl[f].halted
                          /\ fl[f] \in FlusherState
  BY <1>0, FreshType DEF Init, Fresh
<1>2. TypeOK
  BY <1>0, <1>1, DeliveryAssumption DEF Init, TypeOK
<1>3. OrgBound
  BY <1>0, <1>1, DeliveryAssumption DEF Init, OrgBound
<1>4. HaltedRests /\ HaltOnlyByHub /\ AnsweredHeld
  BY <1>1 DEF HaltedRests, HaltOnlyByHub, AnsweredHeld
<1>5. KnownEvents
  <2>1. Queued = {} /\ Held = {} /\ Ids({}) = {}
    BY DEF Init, Queued, Held, Ids
  <2> QED BY <2>1, <1>1 DEF Init, KnownEvents
<1>6. NoSilentLoss /\ NoForeignShipped
  BY <1>1 DEF Init, NoSilentLoss, NoForeignShipped
<1> QED BY <1>2, <1>3, <1>4, <1>5, <1>6 DEF IInv

\* recordEvent preserves it.
LEMMA RecordInv ==
  ASSUME IInv, NEW e \in Event, RecordEvent(e) PROVE IInv'
<1>1. TypeOK'
  BY RecordType DEF IInv
<1>2. UNCHANGED <<deadletter, fl, current, late, stored, rewrite, raced>> /\ Held' = Held
  BY DEF RecordEvent, Held
<1>3. /\ recorded' = recorded \cup {e}
      /\ Queued' \subseteq Queued \cup {e}
      /\ (Queued \cup {e}) \subseteq Queued' \cup dropped'
      /\ dropped \subseteq dropped' /\ dropped' \subseteq dropped \cup Queued \cup {e}
  BY RecordRows DEF IInv
<1>4. OrgBound' /\ HaltedRests' /\ HaltOnlyByHub' /\ AnsweredHeld' /\ NoForeignShipped'
  BY <1>2 DEF IInv, OrgBound, HaltedRests, HaltOnlyByHub, AnsweredHeld, NoForeignShipped
<1>5. KnownEvents'
  BY <1>2, <1>3 DEF IInv, KnownEvents
<1>6. NoSilentLoss'
  BY <1>2, <1>3 DEF IInv, NoSilentLoss, Accounted
<1> QED BY <1>1, <1>4, <1>5, <1>6 DEF IInv

\* A hub that answers nobody preserves it.
LEMMA LateInv ==
  ASSUME IInv, NEW m \in late, HubAnswersLate(m) PROVE IInv'
<1>1. TypeOK'
  BY LateType DEF IInv
<1>2. /\ UnchangedSpoke /\ UNCHANGED <<outbox, deadletter, fl>> /\ late' \subseteq late
      /\ Held \subseteq Held' /\ Held' \subseteq Held \cup Ids(m.batch)
      /\ Queued' = Queued
  BY LateRows DEF IInv, Queued
<1>3. OrgBound' /\ HaltedRests' /\ HaltOnlyByHub' /\ NoForeignShipped'
  BY <1>2 DEF IInv, OrgBound, HaltedRests, HaltOnlyByHub, NoForeignShipped, UnchangedSpoke
<1>4. AnsweredHeld'
  BY <1>2 DEF IInv, AnsweredHeld
<1>5. KnownEvents'
  BY <1>2 DEF IInv, KnownEvents, UnchangedSpoke
<1>6. NoSilentLoss'
  BY <1>2 DEF IInv, NoSilentLoss, Accounted, UnchangedSpoke
<1> QED BY <1>1, <1>3, <1>4, <1>5, <1>6 DEF IInv

\* A step of a Flusher preserves it.
LEMMA CycleInv ==
  ASSUME IInv, NEW f \in Flushers, Cycle(f) PROVE IInv'
<1>1. TypeOK'
  BY CycleType DEF IInv
<1>2. FlusherStep(f) /\ RowsStep(f)
  BY CycleStep, CycleRows DEF IInv
<1>3. OrgBound'
  BY <1>2 DEF IInv, FlusherStep, RowsStep, UnchangedSpoke, OrgBound
<1>4. HaltedRests' /\ HaltOnlyByHub'
  BY <1>2 DEF IInv, FlusherStep, HaltedRests, HaltOnlyByHub
<1>5. AnsweredHeld'
  BY <1>2 DEF IInv, FlusherStep, RowsStep, AnsweredHeld
<1>6. KnownEvents'
  <2>1. Ids(deadletter') \subseteq Ids(deadletter) \cup Ids(fl[f].refused)
    BY <1>2 DEF RowsStep, Ids
  <2>2. Ids(fl'[f].refused) \subseteq Ids(fl[f].batch) \cup Ids(fl[f].refused)
    BY <1>2 DEF FlusherStep, Ids
  <2>3. Queued' \cup Ids(deadletter') \cup Held' \cup dropped' \cup raced' \subseteq recorded'
    BY <1>2, <2>1 DEF IInv, KnownEvents, RowsStep, UnchangedSpoke
  <2>4. \A g \in Flushers : Ids(fl'[g].batch) \cup Ids(fl'[g].refused) \subseteq recorded'
    BY <1>2, <2>2 DEF IInv, KnownEvents, FlusherStep, RowsStep, UnchangedSpoke
  <2>5. \A m \in late' : Ids(m.batch) \subseteq recorded'
    BY <1>2 DEF IInv, KnownEvents, RowsStep, UnchangedSpoke
  <2>6. rewrite' = rewrite /\ recorded' = recorded
    BY <1>2 DEF RowsStep, UnchangedSpoke
  <2> QED BY <2>3, <2>4, <2>5, <2>6 DEF IInv, KnownEvents
<1>7. NoSilentLoss'
  <2>1. Ids(deadletter) \subseteq Ids(deadletter')
    BY <1>2, IdsMonotone DEF RowsStep
  <2> QED BY <2>1, <1>2 DEF IInv, NoSilentLoss, Accounted, RowsStep, UnchangedSpoke
<1>8. NoForeignShipped'
  <2>1. \A g \in Flushers : \A l \in fl'[g].batch : l[2] = fl'[g].org
    BY <1>2 DEF IInv, NoForeignShipped, FlusherStep
  <2>2. \A m \in late' : \A l \in m.batch : l[2] = m.org
    BY <1>2 DEF IInv, NoForeignShipped, RowsStep
  <2> QED BY <2>1, <2>2 DEF NoForeignShipped
<1> QED BY <1>1, <1>3, <1>4, <1>5, <1>6, <1>7, <1>8 DEF IInv

\* A step around the Flusher preserves it.
LEMMA OperateInv == ASSUME IInv, Operate PROVE IInv'
<1>1. TypeOK'
  BY OperateType DEF IInv
<1>2. AroundStep
  BY OperateRows DEF IInv
<1>3. /\ \A f \in Flushers : fl'[f] = fl[f] \/ \E o : fl'[f] = Fresh(o)
      /\ OrgBound'
      /\ \A m \in late' : m \in late
           \/ \E f \in Flushers : m.org = fl[f].org /\ m.batch = fl[f].batch
  BY OperateFlushers DEF IInv
<1>4. \A o : /\ Fresh(o).phase = "idle" /\ Fresh(o).batch = {} /\ Fresh(o).refused = {}
             /\ ~Fresh(o).halted
  BY DEF Fresh
<1>5. HaltedRests' /\ HaltOnlyByHub'
  BY <1>3, <1>4 DEF IInv, HaltedRests, HaltOnlyByHub
<1>6. AnsweredHeld'
  BY <1>2, <1>3, <1>4 DEF IInv, AnsweredHeld, AroundStep
<1>7. KnownEvents'
  <2>1. Ids({}) = {}
    BY DEF Ids
  <2>2. \A f \in Flushers : Ids(fl'[f].batch) \cup Ids(fl'[f].refused) \subseteq recorded
    BY <1>3, <1>4, <2>1 DEF IInv, KnownEvents
  <2>3. \A m \in late' : Ids(m.batch) \subseteq recorded
    BY <1>3 DEF IInv, KnownEvents
  <2>4. Queued' \cup Ids(deadletter') \cup Held' \cup dropped' \cup raced' \subseteq recorded
    BY <1>2 DEF IInv, KnownEvents, AroundStep
  <2> QED BY <2>2, <2>3, <2>4, <1>2 DEF KnownEvents, AroundStep
<1>8. NoSilentLoss'
  BY <1>2 DEF IInv, NoSilentLoss, Accounted, AroundStep
<1>9. NoForeignShipped'
  <2>1. \A f \in Flushers : \A l \in fl'[f].batch : l[2] = fl'[f].org
    BY <1>3, <1>4 DEF IInv, NoForeignShipped
  <2>2. \A m \in late' : \A l \in m.batch : l[2] = m.org
    BY <1>3 DEF IInv, NoForeignShipped
  <2> QED BY <2>1, <2>2 DEF NoForeignShipped
<1> QED BY <1>1, <1>3, <1>5, <1>6, <1>7, <1>8, <1>9 DEF IInv

LEMMA NextInv == ASSUME IInv, [Next]_vars PROVE IInv'
<1>1. CASE UNCHANGED vars
  <2>1. TypeOK' /\ OrgBound'
    BY <1>1 DEF vars, IInv, TypeOK, OrgBound
  <2>2. HaltedRests' /\ HaltOnlyByHub' /\ NoForeignShipped'
    BY <1>1 DEF vars, IInv, HaltedRests, HaltOnlyByHub, NoForeignShipped
  <2>3. Queued' = Queued /\ Held' = Held
    BY <1>1 DEF vars, Queued, Held
  <2>4. AnsweredHeld' /\ KnownEvents' /\ NoSilentLoss'
    BY <1>1, <2>3 DEF vars, IInv, AnsweredHeld, KnownEvents, NoSilentLoss, Accounted
  <2> QED BY <2>1, <2>2, <2>4 DEF IInv
<1> QED BY <1>1, RecordInv, CycleInv, LateInv, OperateInv DEF Next

\* It holds in every reachable state.
LEMMA Inductive == Spec => []IInv
<1>1. Init => IInv
  BY InitInv
<1>2. IInv /\ [Next]_vars => IInv'
  BY NextInv
<1> QED BY <1>1, <1>2, PTL DEF Spec

-----------------------------------------------------------------------------
(* The properties the runs check, for every value of the constants. *)

\* The state keeps its shape (HubDelivery's variables, every handler).
THEOREM TypeCorrect == Spec => []TypeOK
<1>1. IInv => TypeOK
  BY DEF IInv
<1> QED BY <1>1, Inductive, PTL

\* Whatever fails and whatever the user does, an event recordEvent queued is in
\* the outbox, in the deadletter file or at a hub, unless the cap or a discard
\* took it (flushOnce, recordEvent, requeueDeadletter, carry-over, discard).
THEOREM NothingLost == Spec => []NoSilentLoss
<1>1. IInv => NoSilentLoss
  BY DEF IInv
<1> QED BY <1>1, Inductive, PTL

\* No request, awaited or forgotten, carries another org's event
\* (hubOutboxPeekDeliverable with the reloads and carry-overs around it).
THEOREM NothingForeignShipped == Spec => []NoForeignShipped
<1>1. IInv => NoForeignShipped
  BY DEF IInv
<1> QED BY <1>1, Inductive, PTL

\* Failures the hub did not sign never halt a Flusher (isAuthoritativeRejection).
THEOREM OnlyHubHalts == Spec => []HaltOnlyByHub
<1>1. IInv => HaltOnlyByHub
  BY DEF IInv
<1> QED BY <1>1, Inductive, PTL

\* A stamped row that leaves the outbox is at a hub or in the deadletter file.
LEMMA StampedStep ==
  ASSUME IInv, [Next]_vars, NEW e \in Event, outbox[e] \in Orgs, outbox'[e] = Gone
  PROVE  e \in Held' \cup Ids(deadletter')
<1>0. e \in Queued /\ e \notin Queued'
  BY DeliveryAssumption DEF Queued
<1>1. CASE Queued \subseteq Queued'
  BY <1>0, <1>1
<1>2. ASSUME NEW d \in Event, RecordEvent(d) PROVE e \in Held' \cup Ids(deadletter')
  <2>1. d # e
    BY <1>0, <1>2 DEF RecordEvent, IInv, KnownEvents
  <2>2. outbox'[e] = outbox[e]
    BY <2>1, <1>2, RecordRows DEF IInv
  <2> QED BY <2>2, DeliveryAssumption
<1>3. ASSUME NEW f \in Flushers, Cycle(f) PROVE e \in Held' \cup Ids(deadletter')
  BY <1>0, <1>3, CycleRows DEF IInv, RowsStep
<1>4. ASSUME NEW m \in late, HubAnswersLate(m) PROVE Queued \subseteq Queued'
  BY <1>4 DEF HubAnswersLate, Queued
<1>5. CASE Operate
  BY <1>5, <1>1, OperateRows DEF IInv, AroundStep
<1>6. CASE UNCHANGED vars
  BY <1>6, <1>1 DEF vars, Queued
<1> QED BY <1>1, <1>2, <1>3, <1>4, <1>5, <1>6 DEF Next

\* The cap, a discard, a carry-over or a late answer never makes a stamped row
\* vanish: hubOutboxDelete and enforceOutboxCap.
THEOREM StampedRowsSafe == Spec => StampedRowsLeaveSafely
<1>1. IInv /\ [Next]_vars =>
        [\A e \in Event : outbox[e] \in Orgs /\ outbox'[e] = Gone
           => e \in Held' \cup Ids(deadletter')]_vars
  BY StampedStep
<1> QED BY <1>1, Inductive, PTL DEF Spec, StampedRowsLeaveSafely

-----------------------------------------------------------------------------
(* HubDelivery implements EventJournal. *)

\* The three journal sets are disjoint and make up what was recorded.
Partitioned ==
  /\ recorded = JournalOwed \cup JournalDelivered \cup JournalReleased
  /\ JournalOwed \cap JournalDelivered = {}
  /\ JournalReleased \cap (JournalOwed \cup JournalDelivered) = {}
  /\ recorded \subseteq Event

\* The invariant partitions them, before a step and after it.
LEMMA Partition == ASSUME IInv PROVE Partitioned
BY DEF Partitioned, IInv, TypeOK, NoSilentLoss, KnownEvents, Accounted,
   JournalOwed, JournalDelivered, JournalReleased

LEMMA PartitionNext == ASSUME IInv' PROVE Partitioned'
BY DEF Partitioned, IInv, TypeOK, NoSilentLoss, KnownEvents, Accounted,
   JournalOwed, JournalDelivered, JournalReleased

\* A step that records nothing and delivers nothing only gives events up, or
\* takes back ones given up.
LEMMA SettleStep ==
  ASSUME IInv, IInv', recorded' = recorded, Held' = Held
  PROVE  Journal!JournalNext
<1> DEFINE S == JournalOwed \ JournalOwed'
           T == JournalOwed' \ JournalOwed
<1>1. S \in SUBSET Event /\ T \in SUBSET Event
  BY Partition, PartitionNext DEF Partitioned
<1>2. JournalDelivered' = JournalDelivered
  BY DEF JournalDelivered
<1>3. /\ recorded' = JournalOwed' \cup JournalDelivered' \cup JournalReleased'
      /\ JournalOwed' \cap JournalDelivered' = {}
      /\ JournalReleased' \cap (JournalOwed' \cup JournalDelivered') = {}
  BY Partition, PartitionNext DEF Partitioned
<1>4. Journal!Settle(S, T)
  BY <1>2, <1>3, Partition DEF Partitioned, Journal!Settle
<1> QED BY <1>1, <1>4 DEF Journal!JournalNext

\* A step that only adds to what the hubs hold delivers.
LEMMA DeliverStep ==
  ASSUME IInv, IInv', recorded' = recorded, Held \subseteq Held',
         UNCHANGED <<outbox, deadletter, dropped, raced>>
  PROVE  Journal!JournalNext
<1> DEFINE S == Held' \ Held
<1>1. S \in SUBSET Event
  BY Partition, PartitionNext DEF Partitioned, JournalDelivered
<1>2. Queued' = Queued /\ Accounted' = Accounted \cup S
  BY DEF Queued, Accounted
<1>3. /\ JournalDelivered' = JournalDelivered \cup S
      /\ JournalOwed' = JournalOwed \ S
      /\ JournalReleased' = JournalReleased \ S
  BY <1>2 DEF JournalDelivered, JournalOwed, JournalReleased
<1>4. S \subseteq JournalOwed \cup JournalReleased
  BY Partition, PartitionNext DEF Partitioned, JournalDelivered
<1>5. Journal!Deliver(S)
  BY <1>3, <1>4 DEF Journal!Deliver
<1> QED BY <1>1, <1>5 DEF Journal!JournalNext

\* recordEvent accepts, and releases what the cap prunes.
LEMMA AcceptStep ==
  ASSUME IInv, IInv', NEW e \in Event, RecordEvent(e)
  PROVE  Journal!JournalNext
<1> DEFINE S == (JournalOwed \cup {e}) \ JournalOwed'
<1>1. /\ recorded' = recorded \cup {e} /\ e \notin recorded
      /\ Queued' \subseteq Queued \cup {e}
  BY RecordRows DEF IInv
<1>2. Held' = Held /\ deadletter' = deadletter
  BY DEF RecordEvent, Held
<1>3. JournalDelivered' = JournalDelivered /\ JournalOwed' \subseteq JournalOwed \cup {e}
  BY <1>1, <1>2 DEF JournalDelivered, JournalOwed
<1>4. e \notin JournalOwed \cup JournalDelivered \cup JournalReleased
  BY <1>1, Partition DEF Partitioned
<1>5. /\ recorded' = JournalOwed' \cup JournalDelivered' \cup JournalReleased'
      /\ JournalOwed' \cap JournalDelivered' = {}
      /\ JournalReleased' \cap (JournalOwed' \cup JournalDelivered') = {}
  BY Partition, PartitionNext DEF Partitioned
<1>6. JournalOwed' = (JournalOwed \cup {e}) \ S /\ JournalReleased' = JournalReleased \cup S
  BY <1>1, <1>3, <1>4, <1>5, Partition DEF Partitioned
<1>7. S \in SUBSET Event
  BY Partition, PartitionNext DEF Partitioned
<1>8. Journal!Accept(e, S)
  BY <1>3, <1>4, <1>6 DEF Journal!Accept
<1> QED BY <1>7, <1>8 DEF Journal!JournalNext

\* Every step is a journal step or none.
LEMMA JournalStep ==
  ASSUME IInv, IInv', [Next]_vars
  PROVE  [Journal!JournalNext]_(Journal!jvars)
<1>1. ASSUME NEW f \in Flushers, Cycle(f) PROVE Journal!JournalNext
  <2>1. RowsStep(f)
    BY <1>1, CycleRows DEF IInv
  <2>2. CASE Held' = Held
    BY <2>1, <2>2, SettleStep DEF RowsStep, UnchangedSpoke
  <2>3. CASE UNCHANGED <<outbox, deadletter>>
    BY <2>1, <2>3, DeliverStep DEF RowsStep, UnchangedSpoke
  <2> QED BY <2>1, <2>2, <2>3 DEF RowsStep
<1>2. ASSUME NEW m \in late, HubAnswersLate(m) PROVE Journal!JournalNext
  BY <1>2, LateRows, DeliverStep DEF IInv, UnchangedSpoke
<1>3. CASE Operate
  BY <1>3, OperateRows, SettleStep DEF IInv, AroundStep
<1>4. CASE UNCHANGED vars
  BY <1>4 DEF vars, Journal!jvars, JournalOwed, JournalDelivered, JournalReleased,
     Accounted, Queued, Held
<1> QED BY <1>1, <1>2, <1>3, <1>4, AcceptStep DEF Next

\* The spoke keeps the promise of the journal: an accepted event stays owed until
\* a hub holds it or the user or the cap releases it, and a held one stays held.
THEOREM JournalImplemented == Spec => ImplementsJournal
<1>1. Init => Journal!JournalInit
  <2>1. ASSUME Init PROVE Queued = {} /\ Held = {} /\ Ids(deadletter) = {}
    BY <2>1 DEF Init, Queued, Held, Ids
  <2> QED BY <2>1 DEF Init, Journal!JournalInit, JournalOwed, JournalDelivered, JournalReleased
<1>2. IInv /\ IInv' /\ [Next]_vars => [Journal!JournalNext]_(Journal!jvars)
  BY JournalStep
<1> QED BY <1>1, <1>2, Inductive, PTL DEF Spec, ImplementsJournal, Journal!JournalSpec
=============================================================================
