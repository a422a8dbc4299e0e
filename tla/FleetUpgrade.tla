---------------------------- MODULE FleetUpgrade ----------------------------
(***************************************************************************)
(* A fleet upgrade as one installation lives it: the hub's board of        *)
(* directive targets, the reconciler of the installation's server, the CLI *)
(* it spawns, which stops that very server, upgrade-state.json, and the    *)
(* replay at boot.  Events travel by the outbox: in order and never lost,  *)
(* except that the hub may refuse one and a person requeue it later.       *)
(* A step is what runs between two awaits; Crash cuts it where the code    *)
(* writes twice.  Scope selection, the downgrade confirmation and retiring *)
(* (a cancel of every active target) are left out.                         *)
(***************************************************************************)
EXTENDS Integers, FiniteSets

CONSTANTS
  NDirectives,   \* directives are 1..NDirectives, numbered by created_at
  Versions,
  MaxRuns,       \* bound: times one directive is begun
  MaxOps         \* bound: crashes, reloads, cancels, refusals

ASSUME UpgradeAssumption ==
  /\ NDirectives \in Nat /\ MaxRuns \in Nat /\ MaxOps \in Nat
  /\ Versions # {}

Directive == 1..NDirectives
None      == 0                   \* no directive: no state file, nothing in hand

VARIABLES
  wanted,    \* the target_version of each directive, and whether it is written "v1.2.3"
  target,    \* upgrade_directive_targets.state
  issued,    \* directives inserted so far
  checks,    \* requests of admins that passed the single-pending guard
  up, disk,  \* the server process, and the version of package.json on disk
  phase,     \* of reconcileUpgradeDirective: what it awaits
  hand,      \* the directive it works on
  clis,      \* running `agenfk upgrade`s, own while a server awaits their exit
  file,      \* upgrade-state.json
  queue,     \* the outbox, and
  dead,      \* the deadletter file: fleet:upgrade:* events
  clock,     \* number of events recorded
  landed,    \* history: every version that was on disk
  torn,      \* history: directives a crash caught between event and state file
  runs, ops

hubVars   == <<target, issued, checks>>
spokeVars == <<up, disk, phase, hand, clis, file, landed>>
vars == <<wanted, hubVars, spokeVars, queue, dead, clock, torn, runs, ops>>

Kind     == {"started", "succeeded", "failed"}
Event    == [n : Nat, kind : Kind, d : Directive]
Active   == {"pending", "in_progress"}
Terminal == {"succeeded", "failed", "cancelled"}
Phases   == {"idle", "fetched", "flushing", "spawned", "extracting", "restarting"}
Report   == {"done", "failed", "silent", "killed"}

NoFile == [d |-> None, outcome |-> "none"]

Op == ops < MaxOps /\ ops' = ops + 1

-----------------------------------------------------------------------------
(* The hub. *)

InFlight == {d \in Directive : target[d] \in Active}

Inserted(d) == target' = [target EXCEPT ![d] = "pending"] /\ issued' = d

\* POST /v1/admin/upgrade: the guard reads, awaits, and a transaction inserts.
AdminCheck ==
  /\ issued + checks < NDirectives
  /\ InFlight = {}
  /\ checks' = checks + 1
  /\ UNCHANGED <<wanted, target, issued, spokeVars, queue, dead, clock, torn, runs, ops>>

AdminInsert ==
  /\ checks > 0
  /\ checks' = checks - 1
  /\ Inserted(issued + 1)
  /\ UNCHANGED <<wanted, spokeVars, queue, dead, clock, torn, runs, ops>>

\* A child hub's fan-out has the guard inside its INSERT.
FanOut ==
  /\ issued + checks < NDirectives
  /\ InFlight = {}
  /\ Inserted(issued + 1)
  /\ UNCHANGED <<wanted, checks, spokeVars, queue, dead, clock, torn, runs, ops>>

Cancel(d, force) ==
  /\ Op
  /\ target[d] \in IF force THEN Active ELSE {"pending"}
  /\ target' = [target EXCEPT ![d] = "cancelled"]
  /\ UNCHANGED <<wanted, issued, checks, spokeVars, queue, dead, clock, torn, runs>>

\* Mutant: a late 'started' transitions whatever the target's state.
Unguarded(e) ==
  [target EXCEPT ![e.d] = IF e.kind = "started" THEN "in_progress" ELSE e.kind]

\* POST /v1/events, its fleet:upgrade block.  A redelivered event is not
\* inserted, so it transitions nothing.
Reported(e) ==
  [target EXCEPT ![e.d] =
     IF e.kind # "started" THEN e.kind
     ELSE IF target[e.d] \in Active THEN "in_progress" ELSE target[e.d]]

Deliver(e) ==
  /\ up
  /\ e \in queue /\ \A x \in queue : e.n <= x.n
  /\ queue' = queue \ {e}
  /\ target' = Reported(e)
  /\ UNCHANGED <<wanted, issued, checks, spokeVars, dead, clock, torn, runs, ops>>

\* The hub refuses an event (its key is bound to another machine, say), and
\* `agenfk hub deadletter requeue` brings it back, later than its successors.
Refuse(e) ==
  /\ up /\ Op
  /\ e \in queue /\ \A x \in queue : e.n <= x.n
  /\ queue' = queue \ {e} /\ dead' = dead \cup {e}
  /\ UNCHANGED <<wanted, hubVars, spokeVars, clock, torn, runs>>

\* A refusal before it has used up the bound.
Requeue(e) ==
  /\ e \in dead
  /\ queue' = queue \cup {e} /\ dead' = dead \ {e}
  /\ UNCHANGED <<wanted, hubVars, spokeVars, clock, torn, runs, ops>>

-----------------------------------------------------------------------------
(* The reconciler: one tick, and what it awaits. *)

\* Mutant: two events share a place in the outbox.
ClockStuck(kind, d) ==
  /\ clock' = clock
  /\ queue' = queue \cup {[n |-> clock + 1, kind |-> kind, d |-> d]}

Recorded(kind, d) ==
  /\ clock' = clock + 1
  /\ queue' = queue \cup {[n |-> clock + 1, kind |-> kind, d |-> d]}

\* The process is gone, and what it awaited with it; a CLI it spawned is not.
Orphans == {[d |-> c.d, own |-> FALSE] : c \in clis}

Stopped ==
  /\ up' = FALSE /\ phase' = "idle" /\ hand' = None
  /\ clis' = Orphans

\* GET /v1/upgrade-directive answers with the oldest pending directive.
Fetch(d) ==
  /\ up /\ phase = "idle"
  /\ target[d] = "pending" /\ \A x \in Directive : x < d => target[x] # "pending"
  /\ runs[d] < MaxRuns
  /\ phase' = "fetched" /\ hand' = d
  /\ UNCHANGED <<wanted, hubVars, up, disk, clis, file, landed, queue, dead, clock,
                 torn, runs, ops>>

Skip ==
  /\ phase = "fetched" /\ file.d = hand
  /\ phase' = "idle" /\ hand' = None
  /\ UNCHANGED <<wanted, hubVars, up, disk, clis, file, landed, queue, dead, clock,
                 torn, runs, ops>>

\* Mutant: the intent is not persisted before the CLI is spawned.
BeginUnsaved ==
  /\ phase = "fetched" /\ file.d # hand
  /\ Recorded("started", hand)
  /\ phase' = "flushing"
  /\ runs' = [runs EXCEPT ![hand] = @ + 1]
  /\ UNCHANGED <<wanted, hubVars, up, disk, hand, clis, file, landed, dead, torn, ops>>

Begin ==
  /\ phase = "fetched" /\ file.d # hand
  /\ Recorded("started", hand)
  /\ file' = [d |-> hand, outcome |-> "started"]
  /\ phase' = "flushing"
  /\ runs' = [runs EXCEPT ![hand] = @ + 1]
  /\ UNCHANGED <<wanted, hubVars, up, disk, hand, clis, landed, dead, torn, ops>>

\* flushNow returns, delivered or not, and the CLI starts.
Spawn ==
  /\ phase = "flushing"
  /\ phase' = "spawned"
  /\ clis' = clis \cup {[d |-> hand, own |-> TRUE]}
  /\ UNCHANGED <<wanted, hubVars, up, disk, hand, file, landed, queue, dead, clock,
                 torn, runs, ops>>

\* The verdict: the event, then the state file, cleared only by a success.  The
\* process may die between the two.
Verdict(kind, next, saved) ==
  /\ Recorded(kind, hand)
  /\ IF saved
     THEN /\ file' = IF kind = "succeeded" THEN NoFile
                     ELSE [d |-> hand, outcome |-> "failed"]
          /\ phase' = next /\ hand' = IF next = "idle" THEN None ELSE hand
          /\ UNCHANGED <<up, ops>>
     ELSE Op /\ up' = FALSE /\ phase' = "idle" /\ hand' = None /\ UNCHANGED file

\* Mutant: the CLI's word counts, not the version on disk.
TrustTheCli(report) == report = "done"

\* "Trust the on-disk version over the CLI's word".
Succeeded(report) == disk = wanted[hand].to /\ report # "failed"

\* `agenfk upgrade` at work, attached to its server or orphaned by it: it stops the
\* server, replaces the files, and its installer restarts the server.
CliStopsServer(c) ==
  /\ c \in clis /\ up
  /\ Stopped
  /\ UNCHANGED <<wanted, hubVars, disk, file, landed, queue, dead, clock, torn, runs, ops>>

CliInstalls(c) ==
  /\ c \in clis
  /\ disk' = wanted[c.d].to
  /\ landed' = landed \cup {disk'}
  /\ UNCHANGED <<wanted, hubVars, up, phase, hand, clis, file, queue, dead, clock, torn,
                 runs, ops>>

\* It exits, and whoever awaits it judges: a clean exit that changed nothing is
\* followed by the forced self-extract, when the install root is known.
CliExits(c, report, saved) ==
  /\ c \in clis
  /\ clis' = clis \ {c}
  /\ \/ ~c.own /\ UNCHANGED <<up, phase, hand, file, queue, clock, ops>>
     \/ c.own /\ Succeeded(report) /\ Verdict("succeeded", "idle", saved)
     \/ c.own /\ ~Succeeded(report) /\ Verdict("failed", "idle", saved)
     \/ /\ c.own /\ ~Succeeded(report) /\ report = "silent"
        /\ phase' = "extracting"
        /\ UNCHANGED <<up, hand, file, queue, clock, ops>>
  /\ UNCHANGED <<wanted, hubVars, disk, landed, dead, torn, runs>>

\* defaultSelfExtract: it may fail after the files were replaced, at npm ci.
SelfExtract(ok, replaced, saved) ==
  /\ phase = "extracting"
  /\ disk' = IF replaced THEN wanted[hand].to ELSE disk
  /\ landed' = landed \cup {disk'}
  /\ IF ok /\ disk' = wanted[hand].to
     THEN Verdict("succeeded", "restarting", saved)
     ELSE Verdict("failed", "idle", saved)
  /\ UNCHANGED <<wanted, hubVars, clis, dead, torn, runs>>

\* `agenfk restart`, detached and on a best effort: it may never stop the server.
RestartServer ==
  /\ phase = "restarting"
  /\ \/ Stopped
     \/ phase' = "idle" /\ hand' = None /\ UNCHANGED <<up, clis>>
  /\ UNCHANGED <<wanted, hubVars, disk, file, landed, queue, dead, clock, torn, runs, ops>>

-----------------------------------------------------------------------------
(* The process, and the replay. *)

\* The server dies anywhere, alone or with the machine; between the event and the
\* state file of a new directive when torn' says so.
Crash(machine, between) ==
  /\ up /\ Op
  /\ up' = FALSE /\ phase' = "idle" /\ hand' = None
  /\ clis' = IF machine THEN {} ELSE Orphans
  /\ IF between
     THEN /\ phase = "fetched" /\ file.d # hand
          /\ Recorded("started", hand) /\ torn' = torn \cup {hand}
     ELSE UNCHANGED <<queue, clock, torn>>
  /\ UNCHANGED <<wanted, hubVars, disk, file, landed, dead, runs>>

\* Mutant: the replay forgets the state file without reporting.
ReplayForgets == file' = NoFile /\ UNCHANGED <<queue, clock>>

\* replayPendingUpgradeOutcome compares the strings, a leading v included.
ReplayVerdict ==
  IF disk = wanted[file.d].to /\ ~wanted[file.d].tagged THEN "succeeded" ELSE "failed"

Replay ==
  IF file.outcome = "started"
  THEN Recorded(ReplayVerdict, file.d) /\ file' = NoFile
  ELSE UNCHANGED <<queue, clock, file>>

\* A boot or a reload that dies between the event and clearing the state file: the
\* next boot replays it again.
ReplayTorn ==
  /\ Op
  /\ file.outcome = "started"
  /\ Recorded(ReplayVerdict, file.d)
  /\ Stopped
  /\ UNCHANGED <<wanted, hubVars, disk, file, landed, dead, torn, runs>>

\* A server starts: the installer's restart, the desktop, a person.
Boot ==
  /\ ~up
  /\ up' = TRUE
  /\ Replay
  /\ UNCHANGED <<wanted, hubVars, disk, phase, hand, clis, landed, dead, torn, runs, ops>>

\* POST /internal/hub/reload replays too, whatever the reconciler is doing.
Reload ==
  /\ up /\ Op
  /\ Replay
  /\ UNCHANGED <<wanted, hubVars, up, disk, phase, hand, clis, landed, dead, torn, runs>>

-----------------------------------------------------------------------------
Init ==
  /\ wanted \in [Directive -> [to : Versions, tagged : BOOLEAN]]
  /\ target = [d \in Directive |-> "none"] /\ issued = 0 /\ checks = 0
  /\ up = TRUE /\ disk \in Versions /\ landed = {disk}
  /\ phase = "idle" /\ hand = None /\ clis = {} /\ file = NoFile
  /\ queue = {} /\ dead = {} /\ clock = 0
  /\ torn = {} /\ runs = [d \in Directive |-> 0] /\ ops = 0

Hub ==
  \/ AdminCheck \/ AdminInsert \/ FanOut
  \/ \E d \in Directive, force \in BOOLEAN : Cancel(d, force)
  \/ \E e \in queue : Deliver(e) \/ Refuse(e)
  \/ \E e \in dead : Requeue(e)

Judge ==
  \/ \E c \in clis, report \in Report, saved \in BOOLEAN : CliExits(c, report, saved)
  \/ \E ok, replaced, saved \in BOOLEAN : SelfExtract(ok, replaced, saved)

Reconcile ==
  \/ \E d \in Directive : Fetch(d)
  \/ Skip \/ Begin \/ Spawn \/ Judge \/ RestartServer
  \/ \E c \in clis : CliStopsServer(c) \/ CliInstalls(c)

Process ==
  \/ Boot \/ Reload \/ ReplayTorn
  \/ \E machine, between \in BOOLEAN : Crash(machine, between)

Next == Hub \/ Reconcile \/ Process

Spec == Init /\ [][Next]_vars

\* The two timers, a CLI that exits, a self-extract that ends, and someone who
\* starts a server that is down.
Fairness ==
  /\ WF_vars(\E d \in Directive : Fetch(d))
  /\ WF_vars(Skip \/ Begin \/ Spawn \/ RestartServer)
  /\ WF_vars(\E c \in clis, report \in Report : CliExits(c, report, TRUE))
  /\ WF_vars(\E ok, replaced \in BOOLEAN : SelfExtract(ok, replaced, TRUE))
  /\ WF_vars(Boot)
  /\ WF_vars(\E e \in queue : Deliver(e))

FairSpec == Spec /\ Fairness

-----------------------------------------------------------------------------
(* What the proofs add to the properties. *)

Reports(kinds, d) == \E e \in queue \cup dead : e.d = d /\ e.kind \in kinds

\* A started directive has its verdict on the way, or a replay that will give it.
Owed(d) ==
  \/ Reports({"succeeded", "failed"}, d)
  \/ file = [d |-> d, outcome |-> "started"]

\* Only a working reconciler, or the server's absence, leaves a started file.
FileInHand ==
  (up /\ file.outcome = "started") =>
     phase \in {"flushing", "spawned", "extracting"} /\ hand = file.d

\* A started event never arrives where nothing will follow it.
StartsOwed ==
  \A d \in Directive \ torn :
    Reports({"started"}, d) => (Owed(d) \/ target[d] \in Terminal)

ReportsTrue ==
  /\ disk \in landed
  /\ \A d \in Directive : Reports({"succeeded"}, d) => wanted[d].to \in landed

\* Nobody has heard of a directive that was not issued.
Unissued ==
  \A d \in Directive : d > issued =>
     target[d] = "none" /\ ~Reports(Kind, d) /\ d \notin {hand, file.d}

\* A reconciler awaits its own CLI, for the directive in its hand.
Attended ==
  /\ phase # "idle" => up /\ hand \in Directive
  /\ phase = "fetched" => runs[hand] < MaxRuns
  /\ \A c \in clis : c.own => phase = "spawned" /\ hand = c.d

-----------------------------------------------------------------------------
(* Properties. *)

\* Shape of the state (every variable of the module).
TypeOK ==
  /\ wanted \in [Directive -> [to : Versions, tagged : BOOLEAN]]
  /\ target \in [Directive -> Active \cup Terminal \cup {"none"}]
  /\ issued \in 0..NDirectives /\ checks \in 0..(NDirectives - issued)
  /\ up \in BOOLEAN /\ disk \in Versions /\ landed \subseteq Versions
  /\ phase \in Phases /\ hand \in Directive \cup {None}
  /\ clis \subseteq [d : Directive, own : BOOLEAN]
  /\ file \in {NoFile} \cup [d : Directive, outcome : {"started", "failed"}]
  /\ queue \subseteq Event /\ dead \subseteq Event
  /\ clock \in Nat /\ \A e \in queue \cup dead : e.n <= clock
  /\ torn \subseteq Directive
  /\ runs \in [Directive -> 0..MaxRuns] /\ ops \in 0..MaxOps

\* A target the board shows in progress always gets a verdict to come: whatever
\* crashes, reloads, orphaned CLIs and refused events did, the outbox, the
\* deadletter or the state file still has one.  The one exception is a crash
\* between the started event and the state file.
OutcomeOwed ==
  \A d \in Directive \ torn : target[d] = "in_progress" => Owed(d)

\* The board says succeeded only of a version that was really on disk, whoever
\* reported it: the reconciler, the forced extract or the replay of a later process.
SucceededMeansInstalled ==
  \A d \in Directive : target[d] = "succeeded" => wanted[d].to \in landed

\* A settled target never blocks the installation again: a late or requeued report
\* moves it to another verdict at most.
SettledStays ==
  [][\A d \in Directive : target[d] \in Terminal => target'[d] \in Terminal]_vars

\* Every directive the board lists settles, unless one of its installation's
\* reports sits in the deadletter or a crash tore it.
Settles ==
  \A d \in Directive :
    (target[d] = "pending") ~> (target[d] \in Terminal \/ dead # {} \/ torn # {})

\* "Single-pending guard - refuses (409) if any in-scope installation already has a
\* pending or in_progress target on a prior directive."
AtMostOneActive == Cardinality(InFlight) <= 1

\* "If running version == intended version, emit fleet:upgrade:succeeded.  Else
\* emit fleet:upgrade:failed": a replay's failure is a version that is not there.
ReplayTruth ==
  [][(Boot \/ Reload \/ ReplayTorn) =>
       \A e \in queue' \ queue :
         e.kind = IF disk = wanted[e.d].to THEN "succeeded" ELSE "failed"]_vars
=============================================================================
