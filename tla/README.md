# TLA+ models of agenfk

agenfk is a TypeScript monorepo: a server on each developer's machine (the
*spoke*), a CLI and a UI beside it, and a *hub* that collects events from the
spokes of an organisation and manages them as a fleet. Hubs can be federated.
This directory holds TLA+ models of the parts whose correctness depends on the
order of steps of several actors, TLC configurations that check them, and
TLAPS proofs. All source paths below are relative to `src/`.

| File | What it is |
| --- | --- |
| `HubDelivery.tla` | outbox, Flusher, deadletter file, carry-over, hub ingest |
| `EventJournal.tla` | what HubDelivery promises, without saying how |
| `HubDeliveryProofs.tla` | theorems about HubDelivery |
| `FleetUpgrade.tla` | a fleet upgrade of one installation, hub and spoke |
| `FleetUpgradeProofs.tla` | theorems about FleetUpgrade |
| `SuiteSlots.tla` | the lines a suite run waits in |
| `SuiteSlotsProofs.tla` | theorems about SuiteSlots: settings and who goes |
| `SuiteLinesProofs.tla` | theorems about SuiteSlots: the two lines |
| `GroupUpgrade.tla` | a parent hub sends flows and upgrades to a child hub |
| `GroupUpgradeProofs.tla` | theorems about GroupUpgrade |
| `ItemWorkflow.tla` | the cards of a flow: verify, moves, roll-up, pause, archive, trash |
| `RollUpProofs.tla` | theorems about the tree of cards and the roll-up |
| `ItemWorkflowProofs.tla` | theorems about ItemWorkflow |
| `MC*.tla`, `MC*.cfg` | instances for TLC |
| `PROJECT.json` | components, runs, mutants, source map, findings, hazards, theorems |

## 1. Inventory

### Spoke: event delivery (modelled)

*State.* `hub_outbox` (SQLite: payload, org stamp, attempts), `~/.agenfk/hub.json`
and the copy `HubClient` holds, `hub-deadletter.jsonl`, one `Flusher` object per
configuration (`halted`, `nextEligibleAt`, `inflight`). A replaced Flusher may
still be waiting for its POST.
*Operations.* `recordEvent` with `enforceOutboxCap`; `flush`, `flushNow`,
`flushOnce`, `probeRecovery`; `/internal/hub/reload`; carry-over
(`/internal/hub/rewrite-outbox-org`); `requeueDeadletter`; the CLI's discard.
*Hard.* Lost replies, portals that answer 200, partial refusals, a crash between
the deadletter write and the delete, two Flushers over one outbox, re-stamping
under an in-flight POST, another process rewriting the file.
*Correct when* no event is lost in silence, none goes to a hub of another org,
only the hub itself can halt a Flusher, and what can be delivered is delivered.

### Hub: ingest (partly modelled)

`hub/src/routes/events.ts`: de-duplication by event id, refusals per event, fleet
and repoint transitions, key self-binding, the ingested days that rollups read.
It commits a batch in one transaction, so its interleavings are those of
requests. De-duplication, the refusals and the fleet transition are modelled.

### Fleet upgrade (modelled)

*State.* `upgrade_directives` and `upgrade_directive_targets` on the hub;
`upgrade-state.json`, the reconciler's place and the installed version on the
spoke.
*Operations.* create, fan out, cancel; fetch, begin, spawn, judge, self-extract,
restart; replay at boot and at reload; the report transition at ingest.
*Hard.* The CLI that the reconciler awaits stops the reconciler's own server; the
event and the state file are written apart; late and requeued reports; a fan-out or
a second admin between an admin's check and insert.
*Correct when* every started directive gets a verdict, a success is true, and a
settled target does not block the next directive.

### Suite-run slots (modelled)

*State.* the `running` counter and FIFO queue of the server's line and of each
project's line, the cached `exclusiveSuite` with its version, `projectRunning`.
*Operations.* `acquire`, release, `drain`, `recheck`; `acquireSuiteRun`;
`noteProjectExclusive`; `PUT /projects/:id`, `PUT /settings`.
*Hard.* settings that change while a run is between its two lines or while a read
is in flight; the retreat out of both lines; storage that fails.
*Correct when* no slot leaks or idles, limits hold, and every run ends.

### Federation: dispatches (partly modelled)

*State.* On the parent, `flow_dispatches` and `upgrade_dispatches` with a target row
for each child, and the ids of the events it has stored; on the child, the record of
its fan-out, the state of its machines, `reported_seq` and `reported_json`, the flows
it holds, and `federation_outbox`.
*Operations.* dispatch, cancel, delete a flow; the directive feed; the child's tick:
fan out, stop, install, report; delivery of reports.
*Hard.* Replicas of the child share a database and no lock; a directive is served
again until a report moves its row; reports drain in any order, are delivered more
than once, trimmed, or discarded; a crash between queueing a report and recording its
number; the cancel is two writes, and serving it a read and a write.
*Correct when* the board never says more than the child did, a directive is carried
out once, and every dispatch is answered. The child's binding to its parent (ping,
leave, join) and the forwarding of its spokes' events are not modelled.

### Item workflow (partly modelled)

*State.* The `items` table (status, `previousStatus`, parent, `suiteDeferredTo`,
pause snapshots), the flow with its settings, `activeValidateRunByItem` in memory.
*Operations.* verify (gate, command, step commit, joined sibling run, deferred
close), moves, re-parenting, creation, pause and resume, archive, trash, roll-up.
*Hard.* A verify is in the background for minutes while every other route goes on;
PUT reads a card, awaits git or the issue tracker, and writes what was sent, whatever
the card has become; a roll-up walks up over cards that other requests are about.
*Correct when* no card closes over open work, a suite that was put off is run before
its parent closes, a review is only left on purpose, nothing stays held for ever, and
every verify is answered.

### Not modelled

Repoint campaigns (`server/src/hub/repointSync.ts`, `events.ts`) share the reconciler
and the report transition of `FleetUpgrade`; what is theirs, a success that counts
only on the new host, is one guard in the ingest transaction. Core decision functions (circuit breaker, gatekeeper, dispatch, base drift, poll
backoff) are pure and small. Rollups and queries are SQL aggregation.
Authentication, passkeys, JIRA, GitHub, the flow registry and the flow sync are
clients of libraries and services or single-writer documents. Worktrees are git's
state. UI, desktop, telemetry and the rest of the CLI and installer are
presentation and process plumbing. `PROJECT.json` lists each with its reason.

### How the parts interact

Components of a spoke share its SQLite file, `hub.json` and one event loop: what
runs between two awaits is atomic, and another process (CLI, installer) is not.
Spoke and hub talk over HTTP in one direction; a directive reaches the spoke as
the answer to its poll, its outcome goes back as an event through the outbox.
`FleetUpgrade` therefore uses what `HubDelivery` shows of the outbox: events
arrive in order and are not lost, except that the hub may refuse one, which then
sits in the deadletter until it is requeued, behind its successors.

## 2. Order of the modules

| Module | Composes | Abstract specification | Theorems |
| --- | --- | --- | --- |
| `HubDelivery` | - | `EventJournal` | type, loss, isolation, halt, stamps, refinement |
| `FleetUpgrade` | the journal's promise, simplified | - | type, verdict owed, truth, no reopening |
| `SuiteSlots` | - | - | every safety property |
| `GroupUpgrade` | machines as `FleetUpgrade` shows them to a board | - | every safety property |
| `ItemWorkflow` | cards of one tree, two requests | - | every safety property, the roll-up's walk |

Left for later: the child's binding (a tick that writes back what it read before its
ping), flow migration of cards, and repoint campaigns.

## 3. HubDelivery

One action per method or route; a POST, a ping and the CLI's read-then-write of
the deadletter file are two or more. `outbox[e]` is the stamp of the row of event
`e`. `fl[f]` is the state of Flusher `f`; `late` holds requests that the hub may
still process though nobody waits for them any more.

| State | Code |
| --- | --- |
| `hubJson`, `config` | `~/.agenfk/hub.json`; `HubClient.config` |
| `outbox`, `attempts` | `hub_outbox` |
| `deadletter` | `hub-deadletter.jsonl` |
| `current`, `fl` | `hubFlusher`; each `Flusher` object |
| `stored`, `detailed` | the hub's `events` table; whether it answers with `rejections[]` |
| `rewrite` | `deadletter discard` between read and write |
| `recorded`, `dropped`, `raced`, `refusals` | history only |

| Action | Code |
| --- | --- |
| `RecordEvent`, `Pruned` | `hubClient.ts` `recordEvent`, `enforceOutboxCap` |
| `Flush`, `FlushNow`, `PingOk`, `PingFail`, `BackoffElapses` | `flusher.ts` `flush`, `flushNow`, `probeRecovery` |
| `HubAnswers`, `HubAnswersLate` | `events.ts` `POST /v1/events` |
| `Settle`, `AppendFails`, `KeepBatch`, `PostFails`, `KeyRefused` | the five ends of `flushOnce` |
| `SetHubJson`, `Reload`, `Restart`, `CarryOver` | `agenfk hub repoint` and join, `startHubSubsystems`, `/internal/hub/*` |
| `Requeue`, `DiscardRead`, `DiscardWrite` | `deadletter.ts`, `cli/src/commands/hub.ts` |

*Left out:* rows without a stamp or that do not parse, hidden-user drops,
`tokens.logged` skips. Backoff is a flag, since only "not yet eligible" matters.
The `attempts` column counts every failed try and has no bound in the code
(`flusher.ts:373-383`, `storage-sqlite/src/index.ts:450-456`); with backoff a flag the
code asks only whether it has reached the threshold, so the model keeps it up to
`HaltAfter`. That one column counts timeouts and refusals alike has a consequence:
one refusal of the key after four timeouts halts the Flusher, where
`HUB_ARCHITECTURE.md:479` speaks of "five consecutive 4xx responses". `HaltOnlyByHub` is
what does hold: at least one of the tries was the hub's own refusal, and the last.

*Run* `hub_delivery`: two events (one can be refused while the other passes, one
pushes the other over the cap), two orgs, two Flusher objects (one replaced while it
waits), batches of one (so a stale row can stand before a deliverable one), a halt
after one try, a cap of one row, a prune pass that looks at up to two, two faults and one
operator command. The safety properties and the refinement are also proved for all
constants (section 9), so these bounds are chosen for `Drains`: whatever stands between a
row and its hub - a halt, a backoff, a stale row before it, a late reply - needs no more
than this.

*Fairness* of `FairSpec`: the flush timer fires, backoff elapses, a POST is
answered or times out (axios has a timeout), a halted Flusher's ping
succeeds once it is tried again and again, and the reply is settled. Nothing is
assumed of operators. Deadlock is not checked because the bounded history ends.

*Two races that break what the docs promise* are kept as runs that TLC refutes:
`no_foreign_destroy` and `preserved_copy` (section 8).

## 4. FleetUpgrade

The directives of one installation, oldest first. `phase` is where
`reconcileUpgradeDirective` waits, `hand` its directive, `file`
`upgrade-state.json`, `clis` the running `agenfk upgrade` processes. A CLI whose
server died is an orphan: it still installs, nobody judges it; orphans of one
directive are merged. The outbox and the deadletter are sets of numbered events.

| Action | Code |
| --- | --- |
| `AdminCheck`, `AdminInsert` | `admin.ts` `POST /upgrade`: guard, later the transaction |
| `FanOut` | `upgradeFanout.ts`: the guard inside the INSERT |
| `Cancel` | `admin.ts` cancel, plain and forced |
| `Deliver`, `Refuse`, `Requeue` | `events.ts` fleet block and refusals, `deadletter.ts` |
| `Fetch`, `Skip`, `Begin`, `Spawn` | `upgradeSync.ts` up to the CLI |
| `CliStopsServer`, `CliInstalls` | `cli/src/index.ts` `upgrade`, `scripts/install.mjs` |
| `CliExits`, `SelfExtract`, `RestartServer` | `upgradeSync.ts` after the CLI |
| `Boot`, `Reload` | `startHubSubsystems` with `replayPendingUpgradeOutcome` |
| `ReplayTorn` | a replay that dies after recording its verdict, before clearing the file |
| `Crash` | a death of the process or of the machine, also between two writes |

*Left out:* scope selection, the downgrade confirmation, retiring (a cancel of all
active targets), malformed targets (refused with no state change), the hub's
de-duplication of redelivered events (a no-op for the target).

The restart after a self-extract is detached and may fail: `RestartServer` either stops
the server or leaves it on the old code, with the reconciler done.

*Run* `fleet_upgrade`: two directives (so one can wait behind, or be issued beside, the
other), two versions (so an upgrade may be no change), each
directive begun at most twice (a re-run after a success is possible), one crash,
reload, cancel, refusal or requeue. Versions are interchangeable, so any of them may
be the one on disk at first. Two more bounds keep `Settles` in the same run: only the
second directive may ask for the version that is there already, and only the first
may be written with a leading `v`. The safety properties are proved without them.
Fairness: both timers fire, a spawned CLI exits, the self-extract ends
(every step of it has a timeout or is a local command), queued events are
delivered, and somebody starts a server that is down - the installer, the
desktop app or a person. That last assumption is about the environment, and the
property would be false without it: a failed install leaves the server down.
`at_most_one_active` and `replay_truth` are refuted (section 8).
`OutcomeOwed` and `Settles` make one exception, the directives in `torn`: a crash
between `recordEvent(started)` and `writeUpgradeState` leaves a target
`in_progress` with no verdict to come until an admin forces a cancel.

## 5. SuiteSlots

A line is the pair of fields of `class SuiteSlots`; a run waits while it is in a
queue, so a drain grants places without a step of the run. `read[r]` is the last
read of `exclusiveSuite` by `r`; `current` turns false when a change is noted,
which is the comparison of versions in `refreshProjectExclusive`. `noting` holds
writes whose `noteProjectExclusive` is still to come, in the order storage got
them.

| Action | Code (`server/src/server.ts` unless named) |
| --- | --- |
| `Ask`, `TakeLine`, `TakeSlot`, `Reread`, `Decide`, `ReadFails`, `End` | `acquireSuiteRun`, await by await |
| `Acquired`, `Drained`, `Released` | `suiteSlots.ts` `acquire`, `drain`, `releaser` |
| `PutProject`, `NoteProjectExclusive` | `PUT /projects/:id`, `noteProjectExclusive` |
| `PutSettings` | `PUT /settings` |

*Run* `suite_slots`: three runs (one going, one retreating, one that was in line
before it), the third with or without a project, limits 1 and 2, two changes or
failed reads in any order. Both initial values of the setting are tried. Fairness:
storage answers, granted runs proceed, and a run ends (the caller kills it after
`verifyMaxMs`). Waiting in the report lock, which is taken before, and the place
in line that waiting runs are told are left out.

## 6. GroupUpgrade

Dispatches are numbered in the order of `created_at`; one child is modelled, since
the rows of two children never meet. `phase[t]` is what the tick of replica `t`
awaits, `hand[t]` what it works on. `row[d]` is the child's target row at the parent,
`target[d][m]` the state of a machine at the child.

| State | Code |
| --- | --- |
| `row`, `cancelled`, `gone`, `taken` | the parent's `*_dispatch_targets`, `cancelled_at`, deleted flows, `events` |
| `telling` | a cancel between its two writes |
| `fan`, `target`, `rep` | the child's `upgrade_dispatch_fanout`, `upgrade_directive_targets` |
| `holds`, `outbox` | installed flows, `federation_outbox` |
| `stopped` | history only |

| Action | Code (`hub/src/`) |
| --- | --- |
| `Issue`, `CancelMark`, `CancelTell`, `CancelTorn`, `CancelAgain`, `DeleteFlow` | `routes/admin.ts` |
| `Poll`, `Serve` | `routes/federation.ts` `GET /directives`: its candidates, then what it picks |
| `SeeCancel`, `ServeCancel` | the same route: the SELECT of a cancel, then the UPDATE that counts it |
| `TakeUpgrade`, `FanOut` | `services/federation/upgradeFanout.ts`, `readFanout` and its transaction |
| `TakeCancel`, `CancelUnknown`, `StopPending` | `upgradeCancel.ts`, await by await |
| `Prompt` | both: `reported_json = NULL`, so that the next report speaks again |
| `TakeFlow`, `EndTick`, `Crash` | `federationSync.ts` `federationTick` |
| `Throws`, `GoesOn` | the same: a directive that throws costs its own leg, and the tick reports |
| `Report`, `Record` | `upgradeProgress.ts`, the enqueue and the bookkeeping |
| `Deliver`, `Discard` | `POST /deliver`; the cap and the three refusals of a row |
| `Start`, `Finish`, `CancelLocally`, `FinishLate` | the machines, as `events.ts` moves them |

*Left out:* the downgrade guard and which machines a fan-out skips beyond those that
are busy (any choice is allowed), the bisection of a refused batch (rows are
delivered and discarded one by one, in any order), a child that leaves, and the fan-out
outcome `invalid`: the parent's route refuses a version by the same pattern before it
makes the dispatch (`admin.ts:2060`, `2592`), and the dispatch ids are its own UUIDs.

*Run* `group_upgrade`: one machine; one replica with two dispatches, of either kind in
either order, and one fault; one upgrade with two replicas that race; one upgrade with
one replica, one fault and a further poll. The parent asks a cancel at most twice, so
that being answered and having asked often enough are two things. A fault is a crash, a
lost answer, a trimmed or refused row, a backed-off row, a directive that throws, a torn
cancel, a deleted flow, a machine that the child's own admin cancels, or an outcome that
comes late. `idle` bounds the polls that bring nothing new: they repeat a report the
parent has, or come while another replica's report is still queued. Safety is proved for
any number of all of these; the bounds are for the liveness properties, whose worst case
is a report lost with the crash that should have repeated it.

`MaxCancelAttempts` bounds the servings whose SELECT saw fewer attempts, so two polls can
pass it by one, and the UPDATE has no guard on the row's state: it also counts on a row
that was closed meanwhile. `ClosedStays` therefore speaks of what a closed row says, and
`CancelAnswered` of a row still `cancel-pending` in the end: that never happens to a
single replica to which nothing failed, and otherwise only once the parent has asked as
often as it asks.

*Fairness:* each replica's timer ticks, queued reports are delivered in the end,
machines finish, and a parent that is up completes its handler.
`FlowAnswered` makes an exception that the code needs: a dispatch whose flow was
deleted stays the oldest outstanding one, and hides the flow dispatches behind it.

## 7. ItemWorkflow

Storage is a synchronous SQLite connection, so a route is one step except where it
awaits something else: the step's checks, the command, the step commit, a sibling's
run, and git or the tracker in a PUT. `req[q]` is a request that awaits, with what it
read before. A flow has the steps `1..Last`; `PAUSED`, `IDEAS`, `ARCHIVED`, `TRASHED`
are the platform statuses. `unproved` and `left` are history.

| Action or operator | Code (`server/src/server.ts`) |
| --- | --- |
| `Verify`, `GateEnds`, `Refuse` | `POST /items/:id/validate`, `handleValidateProgress` |
| `RunCommand`, `CommandPasses` | `runCommandAndFinalize` |
| `LeaveStep`, `CommitEnds` | `commitOnLeave` and what follows it |
| `Join`, `JoinEnds`, `CloseOnGreen` | `runOrJoin`, `closeOnGreen` |
| `DeferTo`, `Defer` | `parentToDeferTo`, the deferred close |
| `Subtree`, `OpenDescendants` | the walks down: recursive routes, `openDescendants` |
| `Derived`, `Placed`, `Stop`, `OwesSuite`, `Releases` | one turn of `syncParentStatus` |
| `Climb`, `Arrived`, `SyncParentStatus` | its walk up, with the `seen` set that ends it |
| `AskPut`, `Sendable`, `Assignable` | `PUT /items/:id`: what it reads and refuses |
| `PutEnds`, `Moves`, `Written` | the same: what it writes after its awaits, and rolls up |
| `LeftBehind` | the parent a PUT read, told that it lost the card |
| `Archived`, `Unarchived`, `Trashed`, `Delete`, `TrashArchived` | the recursive routes |
| `Create`, `Pause`, `Resume`, `SetVerifyAt`, `Restart` | the route of that name; a stop of the server |

*Left out:* BLOCKED (PAUSED that nothing resumes), approvals and who may ask for a
move, deferral across trees, the deprecated synchronous verify, steps in the middle
of a flow that end a stage, project moves and flow migration, bulk over several
cards, creation in a platform status, the scan bounds of `openDescendants`.

A PUT carries a status, a parent, both or neither. The refusals, that of the last step
included, stand in a block that runs only when the status sent differs from the one just
read (`server.ts:7678`); what was sent is written in any case (7778, 7781). So a PUT that
sends a card what it read writes it over whatever the card has become during the awaits
(7652, 7740): `Overwrites` is such a write. The write and the roll-ups that follow are
one step: the only await between them, `ensureWorktreeForItem`, returns at once for a
card with a parent (`shouldAutoWorktree` refuses children) and makes its worktree
synchronously for one without. `POST /items/bulk` has the same block (7578).

A subtree is the least set that holds a card and the children of what it holds, so
that it means something also where two re-parentings have made the tree cyclic (each
is checked alone, both may be under way). `SyncParentStatus` is a recursive function
over the states of the code's loop: the cards, the next one, the flag, what was seen.

*Run* `item_workflow`: ten starts - a parent with two children, with one, with one
beside a card of another tree, a chain of three - near the end of a flow of four steps,
with a review and a step commit on the second; in two of them the parent is closed
already, or the cards below it are. Two requests at once and two or three calls: two
requests are needed for every race (a run and the call that overtakes it); three levels,
for a card held past a parent that is already finished. *Fairness:* a check, a command
(killed at its cap) and a commit end; nothing is assumed of a PUT. `ticket_spent` and
`advances_from_its_step` use one card and four calls, `put_never_closes` one closed card,
two requests and two calls.

`ClosesWhole` lets a card close from a platform status only in the PUT that puts it on
a step: a parent whose children are all done follows them in that same call. A PUT that
overwrites closes its own card whatever is open below it, or before a suite run it owes:
`ClosesWhole` and `OwedRunIsMade` make that exception, for that card alone, and
`put_never_closes` shows the write itself. Every other card is held to both, also in the
step of such a PUT.
`HeldFreed` leaves out four routes that tell no parent: emptying the archive; a move
of a card that was archived when it was read; an archive whose card has another
parent than when it was read, since the archive branch rolls up the parent that was
read (`server.ts:7759`) and returns before the code that tells both; and a finished
status that overwrites another, since `released` is told only of a status that was
changed (7854). The third was found by a proof that did not go through: TLC confirms it
with the card of another tree, which is adopted while its archive awaits git.
`OwedRunIsMade` speaks of children still under their parent on the last step; one
archived or moved away first escapes it (see the hazards).

## 8. What the checks say of the code

Properties that hold: see `PROJECT.json`, one sentence per run. Each property of
a passing run has a mutant: a one-definition change of the model, the kind of bug
that would be plausible in that code, which the property catches.

Where code and documentation disagree (`findings`):

1. **A carry-over under an in-flight POST loses the new copy** (`NoForeignDestroy`).
   The batch is deleted by event id, whatever stamp the row has by then.
2. **Discard races the Flusher's append** (`PreservedCopy`). The window is small: the
   file is read again right before it is written; but they are two processes.
3. **A fan-out slips past the single-pending guard** (`AtMostOneActive`). An admin's
   check and insert are separate statements with awaits between. In TLC's trace the
   check passes, the child hub's own fan-out of a parent's dispatch inserts a target
   (its check is inside the INSERT, and sees nothing active yet), and the admin's insert
   makes a second one. Two admins would do as well.
4. **The replay does not strip a leading `v`** (`ReplayTruth`), so it reports a landed
   `v1.2.3` as failed; the reconciler does strip it.
5. **A PUT can close a card** (`PutNeverCloses`). A status equal to the one just read is
   not looked at, and is written after the awaits: a PUT that sends a closed card its own
   status, with a JIRA key say, puts it back on the last step though it was trashed or
   moved back meanwhile - over open work, before an owed suite run, and without telling
   the cards above.
6. **A pause ticket outlives its pause** (`TicketSpent`). Only `/resume` spends the
   snapshot; a PUT that takes the card out of PAUSED, or was under way when it was
   paused, keeps it, and a resume after a later pause puts the card back on the step of
   the first, past the one it had been moved back to.
7. **A verify moves a card that has left its step** (`AdvancesFromItsStep`). The card is
   read again after the command, but not after the step commit that follows, nor on
   the paths that run no command; a card trashed while git runs is put on the next step.

## 9. What is proved

Proofs hold for every value of the constants that satisfies the module's ASSUME.

**HubDelivery.** `TypeCorrect`, `NothingLost`, `NothingForeignShipped`,
`OnlyHubHalts`, `StampedRowsSafe`, and `JournalImplemented`, the refinement of
`EventJournal`. The invariant `IInv` adds four facts to the properties: `OrgBound`
(the current Flusher, and any that is at work, was built for an org), `HaltedRests` (a
halted Flusher holds no batch), `AnsweredHeld` (an answered POST's rows
are at the hub or refused) and `KnownEvents` (only recorded events are anywhere).
`NoSilentLoss` is not inductive without `AnsweredHeld`: deleting a batch is safe
only because the hub has what was accepted. The refinement maps `delivered` to
what hubs hold, `owed` to what the outbox or the deadletter still has, `released`
to what was given up; each action maps to `Accept`, `Deliver`, `Settle` or a
stutter.

**FleetUpgrade.** `TypeCorrect`, `VerdictOwed`, `SuccessTrue`, `NeverReopened`. The
invariant adds `FileInHand` (a started state file under a live server is in the
hands of a working reconciler), `Attended` (a reconciler awaits its own CLI),
`Unissued`, `StartsOwed` (a started event on its way is followed by its verdict)
and `ReportsTrue` (no success travels of a version that was never on disk).
`OutcomeOwed` needs `StartsOwed`, since a target goes in progress when a report
arrives and the verdict must be owed already at that time; that in turn needs
`FileInHand`, or a second `Begin` could overwrite the file that owes it.

**SuiteSlots.** Every safety property of the module. `NeverBeside` rests on
`ReadsSound`: a run that goes was let through by the cache and by `projectRunning`, so
the invariant says when each can be trusted: `CacheFresh` (with no note to come the
cache is the stored value or was never set), `ReadsFresh` (a read under way is of the
stored value, or of one whose note is to come, or was outdated by a note, which has
set the cache), `GoingCounted` and `Pathless` (a run without a project takes no
project's place). The lines play no part in that. They have an invariant of their own,
`LInv`, in `SuiteLinesProofs`: each line is `Whole` (nobody is twice in its queue, and
its counter is the number of its members who do not wait), whoever waits in it is at
that stage of `acquireSuiteRun`, and it is `Busy` (a queue means a full line). Three
lemmas about one line - `Joins`, `Drains`, `Leaves` - carry the proof; each action then
says which line does which. From `LInv` follow `TypeCorrect`, `NoSlotLeaks`,
`NobodyWaitsIdle` and, since a drain and a grant stay within the limit,
`GrantedWithin`. `NoIdleSlot` needs `CacheFresh`: a read that lands changes the limit
of a line without draining it, and may only lower it.

**GroupUpgrade.** `TypeCorrect`, `BoardIsTrue`, `StoppedForGood`, `NoSecondFanOut`,
`ClosedForGood`. The invariant adds `Unfanned` (nothing runs under a dispatch that was
not fanned out), `ReportsTrue` (a queued report that says nothing is left stays true
until it arrives, and one that says installed is of a flow the child holds) and
`Known` (only an upgrade is asked to stop; only what was issued is fanned out or
shown). `BoardTrue` is not inductive without `ReportsTrue`, since a row closes on a
report that was queued long before; and that holds because a fanned-out machine only
settles (`FleetSteps`), whatever replica acts. A row changes only while it is open,
and closes by a report alone (`RowSteps`).

**ItemWorkflow.** `TypeCorrect`, `CloseIsWhole`, `DeferralIsHonoured`, `ReviewIsKept`,
`NoneLeftHeld`: every safety property the run checks, for any number of cards and
requests, any flow, and any tree to start from, cyclic ones included. The assumptions
are `WorkflowAssumption` (finitely many cards, steps in the flow) and
`ScenarioAssumption` (a card that is yet to be created is under nothing).

`RollUpProofs` is about the operators. A recursive function means what its equation
says only if some function satisfies that equation, and an induction over the walk
would need an operator as a parameter. Both are done with sets. `SyncEquation` gives a
solution explicitly: where a walk lands is the arrived walk in the least set that holds
it and is closed under `Climb`. `WalkEnds`: a set of walks that holds the
first and is closed under `Climb` holds the one it ends as; among the walks for which
that fails, take one with a minimal set of cards not yet seen (strict inclusion of
finite sets is well-founded): its climb has fewer. Two theorems are proved with it.
`RollUpRaises`: a roll-up only moves cards forward on the flow, never past a review,
and closes one only over nothing open and with no suite owed; a card that it closed
stays so as the walk goes on (`WholeStays`).
`RollUpFrees`: told that a card was released, it leaves no card above that it would
close, which needs that the cards above a card are one chain (`OneChain`), since the
walk looks at one parent at a time.

`ItemWorkflowProofs` then says which direct write each route makes before its roll-up.
`CloseIsWhole` and `DeferralIsHonoured` hold but for the card a PUT overwrites, and
`NoneLeftHeld` but for the four routes of section 7: the exceptions are part of the
properties, and every other card is covered in those very steps.
The invariant `IInv` has `Typed`, `UnbornRoot`, `Sound` (what a request that waits is
about exists, and a PUT sends the last step only if it read it) and `SeesOwed`: a command
that runs has seen every close its card is owed a suite run for. `OwedRunIsMade` is not
inductive without it, since a parent's own green discharges only what it saw when it
began; and it holds because nobody defers to a card whose verify runs (the `RunOf` of
`DeferTo`). TLC checked `IInv` on the run's instance before it was proved. The three
action properties share one statement per card, `Well`, that each action is shown to
keep.

**Only model-checked:** liveness (`Drains`, `Settles`, `EveryRunEnds`, `BoardConverges`,
`CancelAnswered`, `FlowAnswered`, `EveryVerifyAnswered`), which is out of the prover's
reach, and the findings, which are counterexamples.

## 10. Running

    tlc -config MCHubDelivery.cfg MCHubDelivery
    tlc -config MCFleetUpgrade.cfg MCFleetUpgrade
    tlc -config MCSuiteSlots.cfg MCSuiteSlots
    tlc -config MCGroupUpgrade.cfg MCGroupUpgrade
    tlc -config MCItemWorkflow.cfg MCItemWorkflow
    for m in HubDelivery FleetUpgrade SuiteSlots SuiteLines GroupUpgrade RollUp ItemWorkflow; do
      tlapm ${m}Proofs.tla
    done

The configurations named in the findings are refuted on purpose. The passing runs
take between ten seconds and two and a half minutes each with two workers.
