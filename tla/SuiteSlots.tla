----------------------------- MODULE SuiteSlots -----------------------------
(***************************************************************************)
(* Suite runs of one server: the server-wide line, a line for each         *)
(* project, and acquireSuiteRun, which takes a place in the one and then   *)
(* in the other, and gives both back when the project became exclusive     *)
(* meanwhile.  A step is what runs between two awaits.  A line's running   *)
(* and queue are the fields of the class; a run is waiting while it is in  *)
(* a queue.  The places told to waiting runs are left out, and storage     *)
(* answers two writes of one setting in the order it got them.             *)
(***************************************************************************)
EXTENDS Integers, Sequences, FiniteSets

CONSTANTS
  Runs, Projects,
  NoProject,        \* the projectId of an item without a project
  Assignments,      \* the projects the runs may be of
  Cpus, Settings,   \* os.cpus().length; values of maxConcurrentSuiteRuns
  MaxOps            \* bound: settings written and reads that failed

ASSUME SlotsAssumption ==
  /\ Cpus \in Nat /\ MaxOps \in Nat
  /\ Settings \subseteq Nat /\ Settings # {}
  /\ NoProject \notin Projects
  /\ Assignments \subseteq [Runs -> Projects \cup {NoProject}]
  /\ IsFiniteSet(Runs)

VARIABLES
  proj,      \* the project of each run
  at,        \* where acquireSuiteRun is, for each run
  server,    \* suiteSlots
  line,      \* projectSuiteSlots
  running,   \* projectRunning
  stored,    \* exclusiveSuite of each project in storage, and
  cache,     \* projectExclusive
  noting,    \* values written whose noteProjectExclusive is to come
  read,      \* the last read of each run: its value, and is its version still current
  setting,   \* suiteRunSetting
  ops

lines    == <<server, line>>
settings == <<stored, noting, setting, ops>>
vars     == <<proj, at, lines, running, cache, read, settings>>

Flag  == {"on", "off"}
Place == {"new", "reading", "project", "server", "rereading", "going", "done"}

Min2(a, b) == IF a < b THEN a ELSE b
Max2(a, b) == IF a < b THEN b ELSE a

SuiteRunLimit(cpus, s) ==
  LET machine == Max2(1, cpus)
  IN IF s > 0 THEN Min2(s, machine) ELSE Max2(1, machine \div 2)

Limit == SuiteRunLimit(Cpus, setting)

\* The limit of a project's line; "unlimited" is a place for every run.
LineLimit(flag) == IF flag = "on" THEN 1 ELSE Cardinality(Runs)

-----------------------------------------------------------------------------
(* class SuiteSlots. *)

Line == [running : Nat, queue : Seq(Runs)]
Free == [running |-> 0, queue |-> <<>>]

Waiting(l) == {l.queue[i] : i \in DOMAIN l.queue}

Acquired(l, limit, r) ==
  IF l.running < limit /\ l.queue = <<>>
  THEN [l EXCEPT !.running = @ + 1]
  ELSE [l EXCEPT !.queue = Append(@, r)]

\* Mutant: the drain starts one run too many.
OneTooMany(l, limit) ==
  LET n == Min2(Max2(0, limit + 1 - l.running), Len(l.queue))
  IN [running |-> l.running + n, queue |-> SubSeq(l.queue, n + 1, Len(l.queue))]

Drained(l, limit) ==
  LET n == Min2(Max2(0, limit - l.running), Len(l.queue))
  IN [running |-> l.running + n, queue |-> SubSeq(l.queue, n + 1, Len(l.queue))]

\* Mutant: a freed slot wakes nobody.
FreedOnly(l, limit) == [l EXCEPT !.running = @ - 1]

Released(l, limit) == Drained([l EXCEPT !.running = @ - 1], limit)

-----------------------------------------------------------------------------
(* acquireSuiteRun. *)

Read(r) == read' = [read EXCEPT ![r] = [value |-> stored[proj[r]], current |-> TRUE]]

\* Mutant: a read lands over a change made while it was in flight.
StaleLanding(r) == cache' = [cache EXCEPT ![proj[r]] = read[r].value]

\* The read lands, unless the setting changed in between.
Landed(r) ==
  cache' = IF read[r].current THEN [cache EXCEPT ![proj[r]] = read[r].value] ELSE cache

Ask(r) ==
  /\ at[r] = "new"
  /\ IF proj[r] = NoProject
     THEN /\ at' = [at EXCEPT ![r] = "server"]
          /\ server' = Acquired(server, Limit, r)
          /\ UNCHANGED read
     ELSE /\ at' = [at EXCEPT ![r] = "reading"]
          /\ Read(r)
          /\ UNCHANGED server
  /\ UNCHANGED <<proj, line, running, cache, settings>>

TakeLine(r) ==
  /\ at[r] = "reading"
  /\ Landed(r)
  /\ at' = [at EXCEPT ![r] = "project"]
  /\ line' = [line EXCEPT ![proj[r]] = Acquired(@, LineLimit(cache'[proj[r]]), r)]
  /\ UNCHANGED <<proj, server, running, read, settings>>

TakeSlot(r) ==
  /\ at[r] = "project" /\ r \notin Waiting(line[proj[r]])
  /\ at' = [at EXCEPT ![r] = "server"]
  /\ server' = Acquired(server, Limit, r)
  /\ UNCHANGED <<proj, line, running, cache, read, settings>>

Reread(r) ==
  /\ at[r] = "server" /\ r \notin Waiting(server)
  /\ IF proj[r] = NoProject
     THEN at' = [at EXCEPT ![r] = "going"] /\ UNCHANGED read
     ELSE at' = [at EXCEPT ![r] = "rereading"] /\ Read(r)
  /\ UNCHANGED <<proj, lines, running, cache, settings>>

\* Mutant: projectRunning does not count the run.
GoesUncounted(r) == at' = [at EXCEPT ![r] = "going"] /\ UNCHANGED <<running, lines>>

Go(r) ==
  /\ at' = [at EXCEPT ![r] = "going"]
  /\ running' = [running EXCEPT ![proj[r]] = @ + 1]
  /\ UNCHANGED lines

\* Mutant: the run keeps its project's place as it queues again.
KeepsItsPlace(r) ==
  /\ at' = [at EXCEPT ![r] = "project"]
  /\ server' = Released(server, Limit)
  /\ line' = [line EXCEPT ![proj[r]] = Acquired(@, LineLimit(cache'[proj[r]]), r)]
  /\ UNCHANGED running

\* Both places go back, and the run queues again, behind the one that is going.
QueueAgain(r) ==
  /\ at' = [at EXCEPT ![r] = "project"]
  /\ server' = Released(server, Limit)
  /\ LET limit == LineLimit(cache'[proj[r]])
     IN line' = [line EXCEPT ![proj[r]] = Acquired(Released(@, limit), limit, r)]
  /\ UNCHANGED running

Decide(r) ==
  /\ at[r] = "rereading"
  /\ Landed(r)
  /\ IF cache'[proj[r]] = "on" /\ running[proj[r]] > 0 THEN QueueAgain(r) ELSE Go(r)
  /\ UNCHANGED <<proj, read, settings>>

\* Storage throws: whatever the run holds goes back.
ReadFails(r) ==
  /\ ops < MaxOps /\ ops' = ops + 1
  /\ at[r] \in {"reading", "rereading"}
  /\ at' = [at EXCEPT ![r] = "done"]
  /\ IF at[r] = "rereading"
     THEN /\ server' = Released(server, Limit)
          /\ line' = [line EXCEPT ![proj[r]] = Released(@, LineLimit(cache[proj[r]]))]
     ELSE UNCHANGED lines
  /\ UNCHANGED <<proj, running, cache, read, stored, noting, setting>>

\* The run's command ended, or threw.
End(r) ==
  /\ at[r] = "going"
  /\ at' = [at EXCEPT ![r] = "done"]
  /\ server' = Released(server, Limit)
  /\ IF proj[r] = NoProject
     THEN UNCHANGED <<running, line>>
     ELSE /\ running' = [running EXCEPT ![proj[r]] = @ - 1]
          /\ line' = [line EXCEPT ![proj[r]] = Released(@, LineLimit(cache[proj[r]]))]
  /\ UNCHANGED <<proj, cache, read, settings>>

-----------------------------------------------------------------------------
(* The settings. *)

\* PUT /projects/:id: the row, and a later turn the cache.
PutProject(p, flag) ==
  /\ ops < MaxOps /\ ops' = ops + 1
  /\ stored' = [stored EXCEPT ![p] = flag]
  /\ noting' = [noting EXCEPT ![p] = Append(@, flag)]
  /\ UNCHANGED <<proj, at, lines, running, cache, read, setting>>

\* Every read in flight is of an older version now.
Outdated(p) ==
  read' = [r \in Runs |-> IF proj[r] = p THEN [read[r] EXCEPT !.current = FALSE]
                          ELSE read[r]]

NoteProjectExclusive(p) ==
  /\ noting[p] # <<>>
  /\ noting' = [noting EXCEPT ![p] = Tail(@)]
  /\ cache' = [cache EXCEPT ![p] = Head(noting[p])]
  /\ Outdated(p)
  /\ line' = [line EXCEPT ![p] = Drained(@, LineLimit(cache'[p]))]
  /\ UNCHANGED <<proj, at, server, running, stored, setting, ops>>

\* Mutant: a changed limit waits for the next run that ends.
NoRecheck(s) ==
  /\ ops < MaxOps /\ ops' = ops + 1
  /\ setting' = s
  /\ UNCHANGED <<proj, at, lines, running, stored, cache, noting, read>>

PutSettings(s) ==
  /\ ops < MaxOps /\ ops' = ops + 1
  /\ setting' = s
  /\ server' = Drained(server, Limit')
  /\ UNCHANGED <<proj, at, line, running, stored, cache, noting, read>>

-----------------------------------------------------------------------------
Init ==
  /\ proj \in Assignments
  /\ at = [r \in Runs |-> "new"]
  /\ server = Free /\ line = [p \in Projects |-> Free]
  /\ running = [p \in Projects |-> 0]
  /\ stored \in [Projects -> Flag] /\ cache = [p \in Projects |-> "unread"]
  /\ noting = [p \in Projects |-> <<>>]
  /\ read = [r \in Runs |-> [value |-> "off", current |-> FALSE]]
  /\ setting \in Settings /\ ops = 0

Advance(r) == TakeLine(r) \/ TakeSlot(r) \/ Reread(r) \/ Decide(r) \/ End(r)

Next ==
  \/ \E r \in Runs : Ask(r) \/ Advance(r) \/ ReadFails(r)
  \/ \E p \in Projects : NoteProjectExclusive(p) \/ \E flag \in Flag : PutProject(p, flag)
  \/ \E s \in Settings : PutSettings(s)

Spec == Init /\ [][Next]_vars

\* Storage answers, a granted place wakes its run, and a suite ends: the caller
\* kills it after verifyMaxMs.
FairSpec ==
  /\ Spec
  /\ \A r \in Runs : WF_vars(Advance(r))
  /\ \A p \in Projects : WF_vars(NoteProjectExclusive(p))

-----------------------------------------------------------------------------
(* Who holds what, read off the runs alone. *)

OfProject(p) == {r \in Runs : proj[r] = p}
Going(p)     == {r \in OfProject(p) : at[r] = "going"}

InLine(p) ==
  {r \in OfProject(p) : at[r] \in {"project", "server", "rereading", "going"}}
    \ Waiting(line[p])

Slotted ==
  {r \in Runs : at[r] \in {"server", "rereading", "going"}} \ Waiting(server)

-----------------------------------------------------------------------------
(* What the proofs add to the properties. *)

\* A run without a project never takes the way through a project's line.
Pathless ==
  \A r \in Runs : proj[r] = NoProject => at[r] \notin {"reading", "project", "rereading"}

\* Between two notes the cache is the stored value, or was never set.
CacheFresh ==
  \A p \in Projects :
    IF noting[p] = <<>> THEN cache[p] \in {stored[p], "unread"}
    ELSE noting[p][Len(noting[p])] = stored[p]

\* A read under way is of the stored value, of one whose note is still to come, or
\* outdated by a note, which has set the cache.
ReadsFresh ==
  \A r \in Runs : at[r] \in {"reading", "rereading"} =>
    IF read[r].current
    THEN read[r].value = stored[proj[r]] \/ noting[proj[r]] # <<>>
    ELSE cache[proj[r]] # "unread"

GoingCounted == \A p \in Projects : running[p] = Cardinality(Going(p))

-----------------------------------------------------------------------------
(* Properties. *)

\* Shape of the state (every variable of the module).
TypeOK ==
  /\ proj \in Assignments
  /\ at \in [Runs -> Place]
  /\ server \in Line /\ line \in [Projects -> Line]
  /\ running \in [Projects -> Nat]
  /\ stored \in [Projects -> Flag] /\ cache \in [Projects -> Flag \cup {"unread"}]
  /\ noting \in [Projects -> Seq(Flag)]
  /\ read \in [Runs -> [value : Flag, current : BOOLEAN]]
  /\ setting \in Settings /\ ops \in 0..MaxOps

\* No slot leaks and none is handed out twice, on any path through the two lines:
\* the counters of both lines are the runs that hold a place in them.
SlotsCounted ==
  /\ server.running = Cardinality(Slotted)
  /\ \A p \in Projects :
       line[p].running = Cardinality(InLine(p))
  /\ GoingCounted

\* Nobody waits while there is room: a changed limit, a project that is no longer
\* exclusive and every run that ends reach the queue at once.
NoIdleSlot ==
  /\ server.queue # <<>> => server.running >= Limit
  /\ \A p \in Projects :
       (line[p].queue # <<>> /\ noting[p] = <<>>) => line[p].running >= LineLimit(cache[p])

\* A run gets a server slot only within the limit of that moment, a lowered limit
\* or a drain of several waiters included.
WithinLimit ==
  [][\A r \in Runs : r \in Slotted' \ Slotted => Cardinality(Slotted') <= Limit']_vars

\* Once exclusiveSuite is on and its PUT has been noted, no suite of the project
\* starts beside another, however old the read it was admitted by.
ExclusiveAlone ==
  [][\A p \in Projects :
       (stored[p] = "on" /\ noting[p] = <<>> /\ Going(p)' \ Going(p) # {}) =>
         Going(p) = {}]_vars

\* A run that asked is not forgotten in a line, or sent back to it for ever: it
\* ends, or storage failed it.
EveryRunEnds == \A r \in Runs : (at[r] = "reading" \/ at[r] = "server") ~> at[r] = "done"
=============================================================================
