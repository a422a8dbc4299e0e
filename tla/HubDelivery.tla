---------------------------- MODULE HubDelivery -----------------------------
(***************************************************************************)
(* The spoke side of event delivery: the SQLite outbox, the Flusher that   *)
(* posts it to the hub of the configured org, the deadletter file that     *)
(* preserves what the hub refused, `agenfk hub carry-over`, `deadletter    *)
(* requeue` and `deadletter discard`, and the hub's ingest as far as the   *)
(* spoke can tell.  Everything between two awaits is one step; a POST, a   *)
(* ping and the CLI's read-then-write of the deadletter file are several.  *)
(* Hidden-user drops, rollups and the fleet transitions of the hub are not *)
(* here.  A row's attempts column, which in the code counts every failed   *)
(* try without bound, is kept only up to HaltAfter: with backoff a flag,   *)
(* attempts >= HaltAfter is all the code still asks of it.                 *)
(***************************************************************************)
EXTENDS Integers, FiniteSets

CONSTANTS
  NEvents,     \* events are 1..NEvents, numbered by occurredAt
  Orgs,        \* one hub per org
  Pending,     \* the '' stamp of events queued before any login
  NoOrg,       \* no hub.json / no Flusher
  Gone,        \* no outbox row
  Flushers,    \* Flusher objects, a replaced one may still be awaiting a reply
  BatchSize, HaltAfter, OutboxCap,
  PruneSlack, PruneWindow,   \* the rows one prune pass looks at, at most
  MaxFaults,   \* bound: lost replies, timeouts, portals, refusals of the key
  MaxOps       \* bound: restarts, CLI commands and hub upgrades

ASSUME DeliveryAssumption ==
  /\ NEvents \in Nat /\ BatchSize \in Nat \ {0} /\ HaltAfter \in Nat \ {0}
  /\ OutboxCap \in Nat \ {0} /\ PruneSlack \in Nat /\ PruneWindow \in Nat
  /\ MaxFaults \in Nat /\ MaxOps \in Nat
  /\ Orgs # {} /\ Pending \notin Orgs /\ NoOrg \notin Orgs
  /\ Gone \notin Orgs /\ Gone # Pending
  /\ NoOrg \notin Flushers

Event == 1..NEvents
Line  == Event \X Orgs          \* a deadletter line, or a row of a batch

VARIABLES
  hubJson, config,   \* ~/.agenfk/hub.json, and the copy HubClient holds
  recorded,          \* history: the events recordEvent was called for
  outbox,            \* hub_outbox: the stamp of each row, Gone without one
  attempts,          \* hub_outbox.attempts
  deadletter,        \* the lines of hub-deadletter.jsonl
  current,           \* server.ts hubFlusher
  fl,                \* the state of each Flusher object
  late,              \* requests the hub may still process, nobody waits
  stored,            \* per org, the events in the hub's table
  detailed,          \* per org, whether the hub answers with rejections[]
  rewrite,           \* `deadletter discard` between its read and its write
  dropped,           \* history: events pruned by the cap or discarded
  raced,             \* history: lines a discard overwrote unseen
  faults, ops

vars == <<hubJson, config, recorded, outbox, attempts, deadletter, current, fl,
          late, stored, detailed, rewrite, dropped, raced, faults, ops>>

FlusherState ==
  [org : Orgs \cup {NoOrg}, phase : {"idle", "post", "answered", "ping"},
   batch : SUBSET Line, refused : SUBSET Line, ripe : BOOLEAN,
   halted : BOOLEAN, backoff : BOOLEAN, refusals : 0..HaltAfter]

Fresh(o) == [org |-> o, phase |-> "idle", batch |-> {}, refused |-> {},
             ripe |-> FALSE, halted |-> FALSE, backoff |-> FALSE, refusals |-> 0]

Ids(L) == {l[1] : l \in L}
Queued == {e \in Event : outbox[e] # Gone}
Held   == UNION {stored[o] : o \in Orgs}
AtMostHalt(n) == IF n < HaltAfter THEN n ELSE HaltAfter

\* The n oldest events of S: ORDER BY occurred_at LIMIT n.
Oldest(S, n) == {e \in S : Cardinality({d \in S : d < e}) < n}

-----------------------------------------------------------------------------
(* One cycle of a Flusher. *)

\* Mutants: the window ignores the org; or the org filter is applied after it.
PeekAnyOrg(o, box) == Oldest({e \in Event : box[e] # Gone}, BatchSize)
PeekThenFilter(o, box) ==
  {e \in Oldest({d \in Event : box[d] # Gone}, BatchSize) : box[e] = o}

\* hubOutboxPeekDeliverable: the org boundary is inside the window.
PeekDeliverable(o, box) == Oldest({e \in Event : box[e] = o}, BatchSize)

\* flushOnce up to its POST.  A cycle with nothing deliverable ends at once.
Opened(r, box, tried) ==
  LET window == PeekDeliverable(r.org, box)
  IN  IF window = {} THEN [r EXCEPT !.phase = "idle"]
      ELSE [r EXCEPT !.phase = "post",
                     !.batch = {<<e, box[e]>> : e \in window},
                     !.ripe = \E e \in window : tried[e] + 1 >= HaltAfter]

Closed(r) == [r EXCEPT !.phase = "idle", !.batch = {}, !.refused = {}, !.ripe = FALSE]

Fault == faults < MaxFaults /\ faults' = faults + 1
Op    == ops < MaxOps /\ ops' = ops + 1

UnchangedSpoke == UNCHANGED <<hubJson, config, recorded, current, detailed, rewrite,
                              dropped, raced>>

\* flush() of the timer or of `agenfk hub flush`: deliver, or probe when halted.
\* Only the current Flusher has a timer, and backoff gates both branches.
Flush(f) ==
  /\ f = current
  /\ fl[f].phase = "idle" /\ ~fl[f].backoff
  /\ \/ /\ fl[f].halted
        /\ fl' = [fl EXCEPT ![f].phase = "ping", ![f].backoff = TRUE]
     \/ /\ ~fl[f].halted
        /\ PeekDeliverable(fl[f].org, outbox) # {}
        /\ fl' = [fl EXCEPT ![f] = Opened(fl[f], outbox, attempts)]
  /\ UnchangedSpoke
  /\ UNCHANGED <<outbox, attempts, deadletter, late, stored, faults, ops>>

\* flushNow of the upgrade and repoint reconcilers: not gated by backoff, and
\* a no-op while halted.
FlushNow(f) ==
  /\ f = current
  /\ fl[f].phase = "idle" /\ ~fl[f].halted
  /\ PeekDeliverable(fl[f].org, outbox) # {}
  /\ fl' = [fl EXCEPT ![f] = Opened([fl[f] EXCEPT !.backoff = FALSE], outbox, attempts)]
  /\ UnchangedSpoke
  /\ UNCHANGED <<outbox, attempts, deadletter, late, stored, faults, ops>>

\* The backoff window (60 s or more) outlasts the 15 s HTTP timeout.
BackoffElapses(f) ==
  /\ fl[f].phase = "idle" /\ fl[f].backoff
  /\ fl' = [fl EXCEPT ![f].backoff = FALSE]
  /\ UnchangedSpoke
  /\ UNCHANGED <<outbox, attempts, deadletter, late, stored, faults, ops>>

\* probeRecovery after its await: the right hub answered, deliver at once.
PingOk(f) ==
  /\ fl[f].phase = "ping"
  /\ fl' = [fl EXCEPT ![f] = Opened([fl[f] EXCEPT !.halted = FALSE, !.backoff = FALSE,
                                              !.refusals = 0], outbox, attempts)]
  /\ UnchangedSpoke
  /\ UNCHANGED <<outbox, attempts, deadletter, late, stored, faults, ops>>

PingFail(f) ==
  /\ fl[f].phase = "ping"
  /\ Fault
  /\ fl' = [fl EXCEPT ![f].phase = "idle"]
  /\ UnchangedSpoke
  /\ UNCHANGED <<outbox, attempts, deadletter, late, stored, ops>>

\* Mutant: any failure counts toward the halt, a proxy's 403 included.
HaltOnAny(f, authoritative) ==
  /\ attempts' = [e \in Event |->
       IF e \in Ids(fl[f].batch) /\ outbox[e] # Gone THEN AtMostHalt(attempts[e] + 1)
       ELSE attempts[e]]
  /\ fl' = [fl EXCEPT ![f] =
       [Closed(fl[f]) EXCEPT
          !.backoff = TRUE,
          !.halted = fl[f].halted \/ fl[f].ripe,
          !.refusals = IF authoritative THEN AtMostHalt(fl[f].refusals + 1) ELSE 0]]

\* The catch of flushOnce, and (not authoritative) its old-hub branch: the rows
\* stay and age.  HTTP failures the hub's own error body does not sign never halt.
FailCycle(f, authoritative) ==
  /\ attempts' = [e \in Event |->
       IF e \in Ids(fl[f].batch) /\ outbox[e] # Gone THEN AtMostHalt(attempts[e] + 1)
       ELSE attempts[e]]
  /\ fl' = [fl EXCEPT ![f] =
       [Closed(fl[f]) EXCEPT
          !.backoff = TRUE,
          !.halted = fl[f].halted \/ (authoritative /\ fl[f].ripe),
          !.refusals = IF authoritative THEN AtMostHalt(fl[f].refusals + 1) ELSE 0]]

\* hubOutboxDelete: by event id, whatever the row's stamp says by now.
DeleteRows(S) ==
  /\ outbox' = [e \in Event |-> IF e \in S THEN Gone ELSE outbox[e]]
  /\ attempts' = [e \in Event |-> IF e \in S THEN 0 ELSE attempts[e]]

\* Mutant: a 2xx without the hub's acknowledgement counts as delivery.
TrustAny2xx(f) ==
  /\ fl[f].phase = "post"
  /\ Fault
  /\ DeleteRows(Ids(fl[f].batch))
  /\ fl' = [fl EXCEPT ![f] = Closed(fl[f])]
  /\ UnchangedSpoke
  /\ UNCHANGED <<deadletter, late, stored, ops>>

\* A timeout, a 5xx, a portal's 2xx, a proxy's 4xx: whether the hub processed the
\* request, will process it later or never saw it, the spoke cannot tell.
PostFails(f) ==
  /\ fl[f].phase \in {"post", "answered"}
  /\ Fault
  /\ FailCycle(f, FALSE)
  /\ late' \in {late} \cup IF fl[f].phase = "post"
                           THEN {late \cup {[org |-> fl[f].org, batch |-> fl[f].batch]}}
                           ELSE {}
  /\ UnchangedSpoke
  /\ UNCHANGED <<outbox, deadletter, stored, ops>>

\* The hub itself answers 4xx: the key is revoked, or the request is refused whole.
KeyRefused(f) ==
  /\ fl[f].phase = "post"
  /\ Fault
  /\ FailCycle(f, TRUE)
  /\ UnchangedSpoke
  /\ UNCHANGED <<outbox, deadletter, late, stored, ops>>

\* POST /v1/events at the hub of org o: what it refuses (always a foreign stamp,
\* else for reasons of its own) and what it holds from then on.
Refusals(o, batch) == {R \in SUBSET batch : \A l \in batch \ R : l[2] = o}
Ingest(o, batch, R) == stored' = [stored EXCEPT ![o] = @ \cup Ids(batch \ R)]

HubAnswers(f) ==
  /\ fl[f].phase = "post"
  /\ \E R \in Refusals(fl[f].org, fl[f].batch) :
       /\ Ingest(fl[f].org, fl[f].batch, R)
       /\ fl' = [fl EXCEPT ![f].phase = "answered", ![f].refused = R]
  /\ UnchangedSpoke
  /\ UNCHANGED <<outbox, attempts, deadletter, late, faults, ops>>

HubAnswersLate(m) ==
  /\ m \in late
  /\ late' = late \ {m}
  /\ \E R \in Refusals(m.org, m.batch) : Ingest(m.org, m.batch, R)
  /\ UnchangedSpoke
  /\ UNCHANGED <<outbox, attempts, deadletter, fl, faults, ops>>

\* The 2xx of flushOnce.  A replaced Flusher may be inside a flushNow loop, which
\* stop() does not end, and open another cycle.
Settle(f) ==
  /\ fl[f].phase = "answered"
  /\ detailed[fl[f].org] \/ fl[f].refused = {}
  /\ deadletter' = deadletter \cup fl[f].refused
  /\ DeleteRows(Ids(fl[f].batch))
  /\ LET done == [Closed(fl[f]) EXCEPT !.backoff = FALSE, !.refusals = 0]
     IN  \/ fl' = [fl EXCEPT ![f] = done]
         \/ f # current /\ fl' = [fl EXCEPT ![f] = Opened(done, outbox', attempts')]
  /\ UnchangedSpoke
  /\ UNCHANGED <<late, stored, faults, ops>>

\* The deadletter append throws: the rows stay for retry.
AppendFails(f) ==
  /\ fl[f].phase = "answered"
  /\ detailed[fl[f].org] /\ fl[f].refused # {}
  /\ Fault
  /\ FailCycle(f, FALSE)
  /\ UnchangedSpoke
  /\ UNCHANGED <<outbox, deadletter, late, stored, ops>>

\* An old hub counts its refusals and names none: the whole batch stays.
KeepBatch(f) ==
  /\ fl[f].phase = "answered"
  /\ ~detailed[fl[f].org] /\ fl[f].refused # {}
  /\ FailCycle(f, FALSE)
  /\ UnchangedSpoke
  /\ UNCHANGED <<outbox, deadletter, late, stored, faults, ops>>

-----------------------------------------------------------------------------
(* The server process around the Flusher. *)

\* Mutant: the cap prunes the oldest rows whatever their stamp.
PrunedAnyOrg(box) ==
  LET rows == {e \in Event : box[e] # Gone}
  IN  Oldest(rows, Cardinality(rows) - OutboxCap)

\* recordEvent: the row carries HubClient's org, and the cap applies only while
\* there is none.  enforceOutboxCap looks at a window of the oldest rows and
\* prunes the pending ones in it, the new row included.
Pruned(box) ==
  LET rows     == {e \in Event : box[e] # Gone}
      overflow == Cardinality(rows) - OutboxCap
      window   == Oldest(rows, 2 * overflow + PruneSlack) \cap Oldest(rows, PruneWindow)
  IN  IF overflow <= 0 THEN {}
      ELSE Oldest({e \in window : box[e] = Pending}, overflow)

\* Mutant: an event of a logged-out installation is stamped with no org at all.
StampUnset == config

\* The orgId a new event carries.
Stamp == IF config = NoOrg THEN Pending ELSE config

RecordEvent(e) ==
  /\ e \notin recorded
  /\ recorded' = recorded \cup {e}
  /\ LET box == [outbox EXCEPT ![e] = Stamp]
         cut == IF config = NoOrg THEN Pruned(box) ELSE {}
     IN  /\ outbox' = [d \in Event |-> IF d \in cut THEN Gone ELSE box[d]]
         /\ dropped' = dropped \cup cut
  /\ UNCHANGED <<hubJson, config, attempts, deadletter, current, fl, late, stored,
                 detailed, rewrite, raced, faults, ops>>

\* `agenfk hub login`, `join`, `repoint`, `logout`: hub.json changes on disk.
SetHubJson(o) ==
  /\ Op
  /\ hubJson' = o
  /\ UNCHANGED <<config, recorded, outbox, attempts, deadletter, current, fl, late,
                 stored, detailed, rewrite, dropped, raced, faults>>

\* hubOutboxRewriteOrgId.
Rewritten(from, to) ==
  [e \in Event |-> IF outbox[e] = from THEN to ELSE outbox[e]]

\* startHubSubsystems: stamp what waited for a login, then a new Flusher object.
StartFlusher(g) ==
  /\ config' = hubJson
  /\ IF hubJson = NoOrg
     THEN current' = NoOrg /\ UNCHANGED outbox
     ELSE current' = g /\ outbox' = Rewritten(Pending, hubJson)

\* POST /internal/hub/reload, which the CLI calls after it wrote a hub.json.  The
\* replaced Flusher loses its timer and keeps what it is awaiting.
Reload(g) ==
  /\ Op
  /\ hubJson # NoOrg
  /\ g # current /\ fl[g].phase = "idle"
  /\ StartFlusher(g)
  /\ fl' = [fl EXCEPT ![g] = Fresh(hubJson)]
  /\ UNCHANGED <<hubJson, recorded, attempts, deadletter, late, stored, detailed,
                 rewrite, dropped, raced, faults>>

\* The server stops anywhere and boots again.  A POST under way may still reach
\* the hub, and the crash may fall between a deadletter append and its delete.
Restart(g, appended) ==
  /\ Op
  /\ \A f \in appended : fl[f].phase = "answered" /\ detailed[fl[f].org]
  /\ StartFlusher(g)
  /\ fl' = [f \in Flushers |-> Fresh(IF f = g THEN hubJson ELSE NoOrg)]
  /\ late' = late \cup {[org |-> fl[f].org, batch |-> fl[f].batch] :
                         f \in {h \in Flushers : fl[h].phase = "post"}}
  /\ deadletter' = deadletter \cup UNION {fl[f].refused : f \in appended}
  /\ UNCHANGED <<hubJson, recorded, attempts, stored, detailed, rewrite, dropped,
                 raced, faults>>

-----------------------------------------------------------------------------
(* What a person does about the queue. *)

\* `agenfk hub carry-over`, `repoint --carry-over`, and login's own stamping of
\* the pending rows: a set-based UPDATE, whatever a Flusher has in flight.
CarryOver(from, to) ==
  /\ Op
  /\ from # to
  /\ outbox' = Rewritten(from, to)
  /\ UNCHANGED <<hubJson, config, recorded, attempts, deadletter, current, fl, late,
                 stored, detailed, rewrite, dropped, raced, faults>>

\* INSERT OR IGNORE of lines, whichever comes first in the file.
Inserted(S) ==
  \E stamp \in [Ids(S) -> Orgs] :
    /\ \A e \in Ids(S) : <<e, stamp[e]>> \in S
    /\ outbox' = [e \in Event |-> IF outbox[e] = Gone /\ e \in Ids(S) THEN stamp[e]
                                  ELSE outbox[e]]

\* Mutant: the file is rewritten first, the insert may then fail.
RequeueFileFirst(S, inserted) ==
  /\ Op
  /\ IF inserted THEN Inserted(S) ELSE UNCHANGED outbox
  /\ deadletter' = deadletter \ S
  /\ UNCHANGED <<hubJson, config, recorded, attempts, current, fl, late, stored,
                 detailed, rewrite, dropped, raced, faults>>

\* requeueDeadletter: insert the lines, then rewrite the file, which may fail (or
\* the process die) and leave them in both places.
Requeue(S, rewritten) ==
  /\ Op
  /\ Inserted(S)
  /\ deadletter' = IF rewritten THEN deadletter \ S ELSE deadletter
  /\ UNCHANGED <<hubJson, config, recorded, attempts, current, fl, late, stored,
                 detailed, rewrite, dropped, raced, faults>>

\* `agenfk hub deadletter discard`, in the CLI's own process: it reads the file
\* again after the prompt, and replaces it with what the filter keeps.
DiscardRead(S) ==
  /\ Op
  /\ ~rewrite.open
  /\ rewrite' = [open |-> TRUE, kept |-> deadletter \ S, cut |-> S]
  /\ UNCHANGED <<hubJson, config, recorded, outbox, attempts, deadletter, current, fl,
                 late, stored, detailed, dropped, raced, faults>>

DiscardWrite ==
  /\ rewrite.open
  /\ deadletter' = rewrite.kept
  /\ rewrite' = [open |-> FALSE, kept |-> {}, cut |-> {}]
  /\ dropped' = dropped \cup Ids(rewrite.cut)
  /\ raced' = raced \cup Ids(deadletter \ (rewrite.kept \cup rewrite.cut))
  /\ UNCHANGED <<hubJson, config, recorded, outbox, attempts, current, fl, late, stored,
                 detailed, faults, ops>>

\* An old hub is upgraded and answers with rejections[] from then on.
UpgradeHub(o) ==
  /\ Op
  /\ ~detailed[o]
  /\ detailed' = [detailed EXCEPT ![o] = TRUE]
  /\ UNCHANGED <<hubJson, config, recorded, outbox, attempts, deadletter, current, fl,
                 late, stored, rewrite, dropped, raced, faults>>

-----------------------------------------------------------------------------
Init ==
  /\ hubJson \in Orgs \cup {NoOrg} /\ config = hubJson
  /\ recorded = {} /\ dropped = {} /\ raced = {}
  /\ outbox = [e \in Event |-> Gone] /\ attempts = [e \in Event |-> 0]
  /\ deadletter = {} /\ late = {}
  /\ \E g \in Flushers :
       /\ current = IF hubJson = NoOrg THEN NoOrg ELSE g
       /\ fl = [f \in Flushers |-> Fresh(IF f = g THEN hubJson ELSE NoOrg)]
  /\ stored = [o \in Orgs |-> {}]
  /\ detailed \in [Orgs -> BOOLEAN]
  /\ rewrite = [open |-> FALSE, kept |-> {}, cut |-> {}]
  /\ faults = 0 /\ ops = 0

Cycle(f) ==
  \/ Flush(f) \/ FlushNow(f) \/ BackoffElapses(f) \/ PingOk(f) \/ PingFail(f)
  \/ PostFails(f) \/ KeyRefused(f) \/ HubAnswers(f)
  \/ Settle(f) \/ AppendFails(f) \/ KeepBatch(f)

Operate ==
  \/ \E o \in Orgs \cup {NoOrg} : SetHubJson(o)
  \/ \E g \in Flushers : Reload(g)
  \/ \E g \in Flushers, A \in SUBSET Flushers : Restart(g, A)
  \/ \E from \in Orgs \cup {Pending}, to \in Orgs : CarryOver(from, to)
  \/ \E S \in SUBSET deadletter : S # {} /\ \E done \in BOOLEAN : Requeue(S, done)
  \/ \E S \in SUBSET deadletter : S # {} /\ DiscardRead(S)
  \/ DiscardWrite
  \/ \E o \in Orgs : UpgradeHub(o)

Next ==
  \/ \E e \in Event : RecordEvent(e)
  \/ \E f \in Flushers : Cycle(f)
  \/ \E m \in late : HubAnswersLate(m)
  \/ Operate

Spec == Init /\ [][Next]_vars

\* The timer, the HTTP timeout and a hub that answers are what the code relies on.
FairSpec ==
  /\ Spec
  /\ \A f \in Flushers :
       /\ WF_vars(Flush(f)) /\ WF_vars(BackoffElapses(f)) /\ WF_vars(PingOk(f))
       /\ WF_vars(HubAnswers(f)) /\ WF_vars(Settle(f)) /\ WF_vars(KeepBatch(f))

-----------------------------------------------------------------------------
(* What holds between the parts, the strengthening the proofs rest on. *)

\* A Flusher that can work was built for an org.
OrgBound ==
  \A f \in Flushers : fl[f].phase # "idle" \/ f = current => fl[f].org \in Orgs

\* A halted Flusher has no delivery under way.
HaltedRests == \A f \in Flushers : fl[f].halted => fl[f].phase \in {"idle", "ping"}

\* What a Flusher is about to delete is held, or is about to be deadlettered.
AnsweredHeld ==
  \A f \in Flushers :
    /\ fl[f].phase # "answered" => fl[f].refused = {}
    /\ fl[f].phase = "answered" => Ids(fl[f].batch \ fl[f].refused) \subseteq Held

\* Nothing anywhere names an event that was not recorded.
KnownEvents ==
  /\ Queued \cup Ids(deadletter) \cup Held \cup dropped \cup raced \subseteq recorded
  /\ \A f \in Flushers : Ids(fl[f].batch) \cup Ids(fl[f].refused) \subseteq recorded
  /\ \A m \in late : Ids(m.batch) \subseteq recorded
  /\ Ids(rewrite.kept) \cup Ids(rewrite.cut) \subseteq recorded

-----------------------------------------------------------------------------
(* Properties. *)

\* Shape of the state (every variable of the module).
TypeOK ==
  /\ hubJson \in Orgs \cup {NoOrg} /\ config \in Orgs \cup {NoOrg}
  /\ recorded \subseteq Event /\ dropped \subseteq Event /\ raced \subseteq Event
  /\ outbox \in [Event -> Orgs \cup {Pending, Gone}]
  /\ attempts \in [Event -> 0..HaltAfter]
  /\ deadletter \subseteq Line
  /\ current \in Flushers \cup {NoOrg}
  /\ fl \in [Flushers -> FlusherState]
  /\ late \subseteq [org : Orgs, batch : SUBSET Line]
  /\ stored \in [Orgs -> SUBSET Event]
  /\ detailed \in [Orgs -> BOOLEAN]
  /\ rewrite \in [open : BOOLEAN, kept : SUBSET Line, cut : SUBSET Line]
  /\ faults \in 0..MaxFaults /\ ops \in 0..MaxOps

\* Every event recordEvent queued is in the outbox, in the deadletter file or at a
\* hub, unless the cap pruned it or a discard removed it: a timeout, a portal, a
\* refusal, a crash between two writes or a failed rewrite loses nothing.
Accounted == Queued \cup Ids(deadletter) \cup Held
NoSilentLoss == recorded \subseteq Accounted \cup dropped \cup raced

\* As above without the race of a discard with the Flusher's append: "a rejected
\* event is never deleted without a preserved copy".
PreservedCopy == recorded \subseteq Accounted \cup dropped

\* Nothing stamped for one org is ever on the wire to the hub of another.
NoForeignShipped ==
  /\ \A f \in Flushers : \A l \in fl[f].batch : l[2] = fl[f].org
  /\ \A m \in late : \A l \in m.batch : l[2] = m.org

\* A row with an org's stamp leaves the outbox only into a hub or the deadletter:
\* the cap of a logged-out installation never takes it.
StampedRowsLeaveSafely ==
  [][\A e \in Event : outbox[e] \in Orgs /\ outbox'[e] = Gone
       => e \in Held' \cup Ids(deadletter')]_vars

\* "An installation bound to org A can never destroy an event stamped for any
\* other org": a row that leaves carried the stamp of a hub that took its copy.
NoForeignDestroy ==
  [][\A e \in Event : outbox[e] \in Orgs /\ outbox'[e] = Gone
       => e \in stored'[outbox[e]] \cup Ids(deadletter')]_vars

\* Timeouts, portals and proxies alone never halt a Flusher.
HaltOnlyByHub == \A f \in Flushers : fl[f].halted => fl[f].refusals > 0

\* A deliverable row leaves the outbox, is carried over, or the installation
\* re-joins: no stale row ahead of it, halt or backoff parks it for good.
Drains ==
  \A e \in Event, o \in Orgs :
    (outbox[e] = o /\ config = o /\ detailed[o]) ~> (outbox[e] # o \/ config # o)

\* The journal the module implements.
JournalDelivered == Held
JournalOwed == (Queued \cup Ids(deadletter)) \ Held
JournalReleased == (dropped \cup raced) \ Accounted
Journal == INSTANCE EventJournal WITH
  owed <- JournalOwed, delivered <- JournalDelivered, released <- JournalReleased
ImplementsJournal == Journal!JournalSpec
=============================================================================
