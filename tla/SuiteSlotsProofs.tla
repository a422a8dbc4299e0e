-------------------------- MODULE SuiteSlotsProofs --------------------------
(***************************************************************************)
(* Theorems of SuiteSlots for every number of runs and projects, every     *)
(* limit and bound.                                                        *)
(***************************************************************************)
EXTENDS SuiteSlots, FiniteSetTheorems, SequenceTheorems, TLAPS

\* The shape of what the two decisions read; the lines play no part in them.
Shape ==
  /\ proj \in [Runs -> Projects \cup {NoProject}]
  /\ at \in [Runs -> Place]
  /\ running \in [Projects -> Int]
  /\ stored \in [Projects -> Flag] /\ cache \in [Projects -> Flag \cup {"unread"}]
  /\ noting \in [Projects -> Seq(Flag)]
  /\ read \in [Runs -> [value : Flag, current : BOOLEAN]]

\* What every step preserves.
IInv == Shape /\ Pathless /\ CacheFresh /\ ReadsFresh /\ GoingCounted

-----------------------------------------------------------------------------
(* Who is going. *)

\* The runs of a project that are going are finitely many.
LEMMA GoingFinite ==
  \A p : IsFiniteSet(Going(p))
<1> SUFFICES ASSUME NEW p PROVE IsFiniteSet(Going(p))
  OBVIOUS
<1>1. Going(p) \in SUBSET Runs
  BY DEF Going, OfProject
<1> QED BY <1>1, FS_Subset, SlotsAssumption

\* A run that moves between two places, neither of them "going", leaves every
\* project's runs going as they were.
LEMMA SameGoing ==
  ASSUME Shape, proj' = proj, NEW r \in Runs, NEW place \in Place,
         at' = [at EXCEPT ![r] = place], at[r] # "going", place # "going"
  PROVE  \A p : Going(p)' = Going(p)
<1> SUFFICES ASSUME NEW p PROVE Going(p)' = Going(p)
  OBVIOUS
<1>1. \A s \in Runs : at'[s] = "going" <=> at[s] = "going"
  BY DEF Shape
<1> QED BY <1>1 DEF Going, OfProject

\* Who is going depends on proj and at only.
LEMMA AtGoing ==
  ASSUME proj' = proj, at' = at
  PROVE  \A p : Going(p)' = Going(p)
BY DEF Going, OfProject

\* A run that starts joins the runs of its own project.
LEMMA JoinGoing ==
  ASSUME Shape, proj' = proj, NEW r \in Runs, at' = [at EXCEPT ![r] = "going"]
  PROVE  \A p : Going(p)' = IF p = proj[r] THEN Going(p) \cup {r} ELSE Going(p)
<1> SUFFICES ASSUME NEW p
             PROVE  Going(p)' = IF p = proj[r] THEN Going(p) \cup {r} ELSE Going(p)
  OBVIOUS
<1>1. \A s \in Runs : at'[s] = "going" <=> (at[s] = "going" \/ s = r)
  BY DEF Shape
<1>2. Going(p)' = {s \in Runs : proj[s] = p /\ (at[s] = "going" \/ s = r)}
  BY <1>1 DEF Going, OfProject
<1>3. Going(p) = {s \in Runs : proj[s] = p /\ at[s] = "going"}
  BY DEF Going, OfProject
<1> QED BY <1>2, <1>3

\* A run that ends leaves the runs of its own project.
LEMMA LeaveGoing ==
  ASSUME Shape, proj' = proj, NEW r \in Runs, at' = [at EXCEPT ![r] = "done"]
  PROVE  \A p : Going(p)' = IF p = proj[r] THEN Going(p) \ {r} ELSE Going(p)
<1> SUFFICES ASSUME NEW p
             PROVE  Going(p)' = IF p = proj[r] THEN Going(p) \ {r} ELSE Going(p)
  OBVIOUS
<1>1. \A s \in Runs : at'[s] = "going" <=> (at[s] = "going" /\ s # r)
  BY DEF Shape
<1>2. Going(p)' = {s \in Runs : proj[s] = p /\ at[s] = "going" /\ s # r}
  BY <1>1 DEF Going, OfProject
<1>3. Going(p) = {s \in Runs : proj[s] = p /\ at[s] = "going"}
  BY DEF Going, OfProject
<1> QED BY <1>2, <1>3

-----------------------------------------------------------------------------
(* How a read reaches the cache. *)

\* A read that lands keeps the cache fresh; when the setting is on and noted, the
\* cache says so afterwards.
LEMMA LandedFresh ==
  ASSUME IInv, NEW r \in Runs, at[r] \in {"reading", "rereading"}, Landed(r),
         UNCHANGED <<proj, stored, noting>>
  PROVE  /\ cache' \in [Projects -> Flag \cup {"unread"}]
         /\ CacheFresh'
         /\ \A p \in Projects : cache[p] # "unread" => cache'[p] # "unread"
         /\ (stored[proj[r]] = "on" /\ noting[proj[r]] = <<>>) => cache'[proj[r]] = "on"
<1>1. proj[r] \in Projects
  BY DEF IInv, Shape, Pathless
<1>2. read[r].value \in Flag
  BY DEF IInv, Shape
<1>3. CASE read[r].current
  <2>1. cache' = [cache EXCEPT ![proj[r]] = read[r].value]
    BY <1>3 DEF Landed
  <2>2. read[r].value = stored[proj[r]] \/ noting[proj[r]] # <<>>
    BY <1>3 DEF IInv, ReadsFresh
  <2>3. cache' \in [Projects -> Flag \cup {"unread"}]
    BY <1>1, <1>2, <2>1 DEF IInv, Shape
  <2>4. \A p \in Projects :
          cache'[p] = IF p = proj[r] THEN read[r].value ELSE cache[p]
    BY <1>1, <2>1 DEF IInv, Shape
  <2>5. CacheFresh'
    BY <1>2, <2>2, <2>4 DEF IInv, CacheFresh
  <2> QED BY <1>1, <1>2, <2>2, <2>3, <2>4, <2>5 DEF Flag
<1>4. CASE ~ read[r].current
  <2>1. cache' = cache
    BY <1>4 DEF Landed
  <2>2. cache[proj[r]] # "unread"
    BY <1>4 DEF IInv, ReadsFresh
  <2> QED BY <1>1, <2>1, <2>2 DEF IInv, Shape, CacheFresh
<1> QED BY <1>3, <1>4

\* A step that neither writes a setting nor starts a read keeps reads fresh: it may
\* take runs out of their reads, and the cache never goes back to unread.
LEMMA ReadsKept ==
  ASSUME IInv, UNCHANGED <<proj, stored, noting, read>>,
         \A r \in Runs : at'[r] \in {"reading", "rereading"} => at'[r] = at[r],
         \A p \in Projects : cache[p] # "unread" => cache'[p] # "unread"
  PROVE  ReadsFresh'
<1> SUFFICES ASSUME NEW r \in Runs, at'[r] \in {"reading", "rereading"}
             PROVE  IF read[r].current
                    THEN read[r].value = stored[proj[r]] \/ noting[proj[r]] # <<>>
                    ELSE cache'[proj[r]] # "unread"
  BY DEF ReadsFresh
<1>1. at[r] \in {"reading", "rereading"}
  OBVIOUS
<1>2. proj[r] \in Projects
  BY <1>1 DEF IInv, Shape, Pathless
<1> QED BY <1>1, <1>2 DEF IInv, ReadsFresh

\* A read that starts is of the stored value.
LEMMA ReadStarts ==
  ASSUME IInv, NEW r \in Runs, proj[r] \in Projects, Read(r),
         NEW place \in {"reading", "rereading"}, at' = [at EXCEPT ![r] = place],
         UNCHANGED <<proj, stored, noting, cache>>
  PROVE  /\ ReadsFresh'
         /\ read' \in [Runs -> [value : Flag, current : BOOLEAN]]
<1> DEFINE new == [value |-> stored[proj[r]], current |-> TRUE]
<1>1. read' = [read EXCEPT ![r] = new]
  BY DEF Read
<1>2. new \in [value : Flag, current : BOOLEAN]
  BY DEF IInv, Shape
<1>3. read' \in [Runs -> [value : Flag, current : BOOLEAN]]
  BY <1>1, <1>2 DEF IInv, Shape
<1>4. ReadsFresh'
  <2> SUFFICES ASSUME NEW s \in Runs, at'[s] \in {"reading", "rereading"}
               PROVE  IF read'[s].current
                      THEN read'[s].value = stored[proj[s]] \/ noting[proj[s]] # <<>>
                      ELSE cache[proj[s]] # "unread"
    BY DEF ReadsFresh
  <2>1. CASE s = r
    BY <1>1, <2>1 DEF IInv, Shape
  <2>2. CASE s # r
    <3>1. at'[s] = at[s] /\ read'[s] = read[s]
      BY <1>1, <2>2 DEF IInv, Shape
    <3> QED BY <3>1 DEF IInv, ReadsFresh
  <2> QED BY <2>1, <2>2
<1> QED BY <1>3, <1>4

-----------------------------------------------------------------------------
(* Every step keeps IInv. *)

\* The initial states satisfy it.
LEMMA InitIInv == Init => IInv
<1> SUFFICES ASSUME Init PROVE IInv
  OBVIOUS
<1>1. Shape
  <2>1. proj \in [Runs -> Projects \cup {NoProject}]
    BY SlotsAssumption DEF Init
  <2>2. \A r \in Runs : read[r] \in [value : Flag, current : BOOLEAN]
    BY DEF Init, Flag
  <2>3. read \in [Runs -> [value : Flag, current : BOOLEAN]]
    BY <2>2 DEF Init
  <2> QED BY <2>1, <2>3 DEF Init, Shape, Place, Flag
<1>2. Pathless /\ CacheFresh /\ ReadsFresh
  BY DEF Init, Pathless, CacheFresh, ReadsFresh
<1>3. GoingCounted
  <2> SUFFICES ASSUME NEW p \in Projects PROVE running[p] = Cardinality(Going(p))
    BY DEF GoingCounted
  <2>1. Going(p) = {}
    BY DEF Init, Going, OfProject
  <2> QED BY <2>1, FS_EmptySet DEF Init
<1> QED BY <1>1, <1>2, <1>3 DEF IInv

\* A run whose project is its line's: Ask to TakeSlot and a failed read move it
\* between places that are not "going" and change no setting.
LEMMA MovesQuietly ==
  ASSUME IInv, NEW r \in Runs, NEW place \in Place \ {"going", "reading", "rereading"},
         place = "project" => proj[r] # NoProject,
         at[r] # "going", at' = [at EXCEPT ![r] = place],
         UNCHANGED <<proj, running, stored, noting, read>>,
         cache' \in [Projects -> Flag \cup {"unread"}],
         CacheFresh',
         \A p \in Projects : cache[p] # "unread" => cache'[p] # "unread"
  PROVE  IInv'
<1>1. at' \in [Runs -> Place]
  BY DEF IInv, Shape
<1>2. Shape'
  BY <1>1 DEF IInv, Shape
<1>3. Pathless'
  BY DEF IInv, Shape, Pathless
<1>4. \A s \in Runs : at'[s] \in {"reading", "rereading"} => at'[s] = at[s]
  BY DEF IInv, Shape
<1>5. ReadsFresh'
  BY <1>4, ReadsKept
<1>6. GoingCounted'
  BY SameGoing DEF IInv, GoingCounted
<1> QED BY <1>2, <1>3, <1>5, <1>6 DEF IInv

\* A run that begins a read of its project's setting.
LEMMA BeginsRead ==
  ASSUME IInv, NEW r \in Runs, proj[r] # NoProject, Read(r), at[r] # "going",
         NEW place \in {"reading", "rereading"}, at' = [at EXCEPT ![r] = place],
         UNCHANGED <<proj, running, stored, noting, cache>>
  PROVE  IInv'
<1>1. proj[r] \in Projects /\ place \in Place /\ place # "going"
  BY DEF IInv, Shape, Place
<1>2. at' \in [Runs -> Place]
  BY <1>1 DEF IInv, Shape
<1>3. ReadsFresh' /\ read' \in [Runs -> [value : Flag, current : BOOLEAN]]
  BY <1>1, ReadStarts
<1>4. Shape'
  BY <1>2, <1>3 DEF IInv, Shape
<1>5. Pathless'
  BY DEF IInv, Shape, Pathless
<1>6. CacheFresh'
  BY DEF IInv, CacheFresh
<1>7. Shape
  BY DEF IInv
<1>8. GoingCounted'
  BY <1>1, <1>7, SameGoing DEF IInv, GoingCounted
<1> QED BY <1>3, <1>4, <1>5, <1>6, <1>8 DEF IInv

\* The moves of a run through the two lines, a failed read included.
LEMMA LineSteps ==
  ASSUME IInv, NEW r \in Runs,
         Ask(r) \/ TakeLine(r) \/ TakeSlot(r) \/ ReadFails(r)
           \/ (Reread(r) /\ proj[r] # NoProject)
  PROVE  IInv'
<1>1. cache \in [Projects -> Flag \cup {"unread"}] /\ CacheFresh
  BY DEF IInv, Shape
<1>2. cache' = cache /\ UNCHANGED <<stored, noting>> =>
        cache' \in [Projects -> Flag \cup {"unread"}] /\ CacheFresh'
  BY <1>1 DEF CacheFresh
<1>3. CASE Ask(r)
  <2>1. at[r] # "going" /\ UNCHANGED <<proj, running, stored, noting, cache>>
    BY <1>3 DEF Ask, settings
  <2>2. CASE proj[r] = NoProject
    <3>1. at' = [at EXCEPT ![r] = "server"] /\ read' = read
      BY <1>3, <2>2 DEF Ask
    <3>2. "server" \in Place \ {"going", "reading", "rereading"}
      BY DEF Place
    <3> QED BY <1>2, <2>1, <3>1, <3>2, MovesQuietly
  <2>3. CASE proj[r] # NoProject
    <3>1. at' = [at EXCEPT ![r] = "reading"] /\ Read(r)
      BY <1>3, <2>3 DEF Ask
    <3> QED BY <2>1, <2>3, <3>1, BeginsRead
  <2> QED BY <2>2, <2>3
<1>4. CASE TakeLine(r)
  <2>1. /\ at[r] = "reading" /\ Landed(r) /\ at' = [at EXCEPT ![r] = "project"]
        /\ UNCHANGED <<proj, running, stored, noting, read>>
    BY <1>4 DEF TakeLine, settings
  <2>2. /\ cache' \in [Projects -> Flag \cup {"unread"}] /\ CacheFresh'
        /\ \A p \in Projects : cache[p] # "unread" => cache'[p] # "unread"
    BY <2>1, LandedFresh
  <2>3. proj[r] # NoProject /\ "project" \in Place \ {"going", "reading", "rereading"}
    BY <2>1 DEF IInv, Pathless, Place
  <2> QED BY <2>1, <2>2, <2>3, MovesQuietly
<1>5. CASE TakeSlot(r)
  <2>1. /\ at[r] # "going" /\ at' = [at EXCEPT ![r] = "server"]
        /\ UNCHANGED <<proj, running, stored, noting, read, cache>>
    BY <1>5 DEF TakeSlot, settings
  <2>2. "server" \in Place \ {"going", "reading", "rereading"}
    BY DEF Place
  <2> QED BY <1>2, <2>1, <2>2, MovesQuietly
<1>6. CASE ReadFails(r)
  <2>1. /\ at[r] # "going" /\ at' = [at EXCEPT ![r] = "done"]
        /\ UNCHANGED <<proj, running, stored, noting, read, cache>>
    BY <1>6 DEF ReadFails
  <2>2. "done" \in Place \ {"going", "reading", "rereading"}
    BY DEF Place
  <2> QED BY <1>2, <2>1, <2>2, MovesQuietly
<1>7. CASE Reread(r) /\ proj[r] # NoProject
  <2>1. /\ at[r] # "going" /\ at' = [at EXCEPT ![r] = "rereading"] /\ Read(r)
        /\ UNCHANGED <<proj, running, stored, noting, cache>>
    BY <1>7 DEF Reread, settings
  <2> QED BY <1>7, <2>1, BeginsRead
<1> QED BY <1>3, <1>4, <1>5, <1>6, <1>7

\* A run without a project goes: no project's runs change.
LEMMA ProjectlessGoes ==
  ASSUME IInv, NEW r \in Runs, Reread(r), proj[r] = NoProject
  PROVE  IInv' /\ \A p \in Projects : Going(p)' = Going(p)
<1>1. /\ at' = [at EXCEPT ![r] = "going"]
      /\ UNCHANGED <<proj, running, stored, noting, read, cache>>
  BY DEF Reread, settings
<1>2. Shape'
  BY <1>1 DEF IInv, Shape, Place
<1>3. Pathless' /\ CacheFresh'
  BY <1>1 DEF IInv, Shape, Pathless, CacheFresh
<1>4. \A s \in Runs : at'[s] \in {"reading", "rereading"} => at'[s] = at[s]
  BY <1>1 DEF IInv, Shape
<1>5. ReadsFresh'
  BY <1>1, <1>4, ReadsKept
<1>6. \A p \in Projects : p # proj[r]
  BY SlotsAssumption
<1>7. Shape
  BY DEF IInv
<1>8. \A p \in Projects : Going(p)' = Going(p)
  BY <1>1, <1>6, <1>7, JoinGoing
<1>9. GoingCounted'
  BY <1>1, <1>8 DEF IInv, GoingCounted
<1> QED BY <1>2, <1>3, <1>5, <1>8, <1>9 DEF IInv

\* The decision, taken with what the second read brought: a run of a project whose
\* setting is on and noted goes only when no other is going.
LEMMA DecideStep ==
  ASSUME IInv, NEW r \in Runs, Decide(r)
  PROVE  /\ IInv'
         /\ \A p \in Projects :
              (stored[p] = "on" /\ noting[p] = <<>> /\ Going(p)' \ Going(p) # {})
                => Going(p) = {}
<1>1. /\ at[r] = "rereading" /\ Landed(r)
      /\ UNCHANGED <<proj, stored, noting, read>>
  BY DEF Decide, settings
<1>2. /\ cache' \in [Projects -> Flag \cup {"unread"}] /\ CacheFresh'
      /\ \A p \in Projects : cache[p] # "unread" => cache'[p] # "unread"
      /\ (stored[proj[r]] = "on" /\ noting[proj[r]] = <<>>) => cache'[proj[r]] = "on"
  BY <1>1, LandedFresh
<1>3. proj[r] \in Projects /\ proj[r] # NoProject
  BY <1>1, SlotsAssumption DEF IInv, Shape, Pathless
<1>4. Shape
  BY DEF IInv
<1>5. CASE cache'[proj[r]] = "on" /\ running[proj[r]] > 0
  <2>1. at' = [at EXCEPT ![r] = "project"] /\ running' = running
    BY <1>5 DEF Decide, QueueAgain
  <2>2. "project" \in Place \ {"going", "reading", "rereading"}
    BY DEF Place
  <2>3. IInv'
    BY <1>1, <1>2, <1>3, <2>1, <2>2, MovesQuietly
  <2>4. \A p \in Projects : Going(p)' = Going(p)
    BY <1>1, <1>4, <2>1, <2>2, SameGoing
  <2> QED BY <2>3, <2>4
<1>6. CASE ~ (cache'[proj[r]] = "on" /\ running[proj[r]] > 0)
  <2>1. /\ at' = [at EXCEPT ![r] = "going"]
        /\ running' = [running EXCEPT ![proj[r]] = @ + 1]
    BY <1>6 DEF Decide, Go
  <2>2. \A p : Going(p)' = IF p = proj[r] THEN Going(p) \cup {r} ELSE Going(p)
    BY <1>1, <1>4, <2>1, JoinGoing
  <2>3. Shape'
    <3>1. running' \in [Projects -> Int]
      <4>1. running[proj[r]] + 1 \in Int
        BY <1>3, <1>4 DEF Shape
      <4> QED BY <2>1, <4>1, <1>4 DEF Shape
    <3>2. at' \in [Runs -> Place]
      BY <2>1, <1>4 DEF Shape, Place
    <3> QED BY <1>1, <1>2, <1>4, <3>1, <3>2 DEF Shape
  <2>4. Pathless'
    BY <1>1, <1>3, <2>1 DEF IInv, Shape, Pathless
  <2>5. \A s \in Runs : at'[s] \in {"reading", "rereading"} => at'[s] = at[s]
    BY <2>1 DEF IInv, Shape
  <2>6. ReadsFresh'
    BY <1>1, <1>2, <2>5, ReadsKept
  <2>7. GoingCounted'
    <3> SUFFICES ASSUME NEW p \in Projects PROVE running'[p] = Cardinality(Going(p)')
      BY DEF GoingCounted
    <3>1. CASE p = proj[r]
      <4>1. r \notin Going(p)
        BY <1>1 DEF Going
      <4>2. Cardinality(Going(p) \cup {r}) = Cardinality(Going(p)) + 1
        BY <4>1, GoingFinite, FS_AddElement
      <4>3. running'[p] = running[p] + 1
        BY <2>1, <3>1 DEF IInv, Shape
      <4> QED BY <2>2, <3>1, <4>2, <4>3 DEF IInv, GoingCounted
    <3>2. CASE p # proj[r]
      BY <2>1, <2>2, <3>2 DEF IInv, Shape, GoingCounted
    <3> QED BY <3>1, <3>2
  <2>8. ASSUME NEW p \in Projects,
               stored[p] = "on", noting[p] = <<>>, Going(p)' \ Going(p) # {}
        PROVE  Going(p) = {}
    <3>1. p = proj[r]
      BY <2>2, <2>8
    <3>2. running[p] <= 0 /\ running[p] = Cardinality(Going(p))
      BY <1>2, <1>6, <2>8, <3>1 DEF IInv, Shape, GoingCounted
    <3>3. Cardinality(Going(p)) \in Nat
      BY GoingFinite, FS_CardinalityType
    <3>4. Cardinality(Going(p)) = 0
      BY <3>2, <3>3
    <3> QED BY <3>4, GoingFinite, FS_EmptySet
  <2> QED BY <1>2, <2>3, <2>4, <2>6, <2>7, <2>8 DEF IInv
<1> QED BY <1>5, <1>6

\* A run that ends.
LEMMA EndStep ==
  ASSUME IInv, NEW r \in Runs, End(r)
  PROVE  /\ IInv'
         /\ \A p \in Projects : Going(p)' \subseteq Going(p)
<1>1. /\ at[r] = "going" /\ at' = [at EXCEPT ![r] = "done"]
      /\ UNCHANGED <<proj, stored, noting, read, cache>>
  BY DEF End, settings
<1>2. Shape
  BY DEF IInv
<1>3. \A p : Going(p)' = IF p = proj[r] THEN Going(p) \ {r} ELSE Going(p)
  BY <1>1, <1>2, LeaveGoing
<1>4. \A p \in Projects : running'[p] = IF p = proj[r] THEN running[p] - 1 ELSE running[p]
  BY <1>2, SlotsAssumption DEF End, Shape
<1>5. running' \in [Projects -> Int]
  <2>1. CASE proj[r] = NoProject
    BY <2>1, <1>2 DEF End, Shape
  <2>2. CASE proj[r] # NoProject
    <3>1. running' = [running EXCEPT ![proj[r]] = running[proj[r]] - 1]
      BY <2>2 DEF End
    <3>2. running[proj[r]] - 1 \in Int
      BY <2>2, <1>2 DEF Shape
    <3> QED BY <3>1, <3>2, <1>2 DEF Shape
  <2> QED BY <2>1, <2>2
<1>6. Shape'
  <2>1. at' \in [Runs -> Place]
    BY <1>1, <1>2 DEF Shape, Place
  <2> QED BY <1>1, <1>2, <1>5, <2>1 DEF Shape
<1>7. Pathless' /\ CacheFresh'
  BY <1>1, <1>2 DEF IInv, Shape, Pathless, CacheFresh
<1>8. \A s \in Runs : at'[s] \in {"reading", "rereading"} => at'[s] = at[s]
  BY <1>1, <1>2 DEF Shape
<1>9. ReadsFresh'
  BY <1>1, <1>8, ReadsKept
<1>10. GoingCounted'
  <2> SUFFICES ASSUME NEW p \in Projects PROVE running'[p] = Cardinality(Going(p)')
    BY DEF GoingCounted
  <2>1. CASE p = proj[r]
    <3>1. r \in Going(p)
      BY <1>1, <2>1 DEF Going, OfProject
    <3>2. Cardinality(Going(p) \ {r}) = Cardinality(Going(p)) - 1
      BY <3>1, GoingFinite, FS_RemoveElement
    <3> QED BY <1>3, <1>4, <2>1, <3>2 DEF IInv, GoingCounted
  <2>2. CASE p # proj[r]
    BY <1>3, <1>4, <2>2 DEF IInv, GoingCounted
  <2> QED BY <2>1, <2>2
<1> QED BY <1>3, <1>6, <1>7, <1>9, <1>10 DEF IInv

\* A project's setting is written.
LEMMA PutStep ==
  ASSUME IInv, NEW p \in Projects, NEW flag \in Flag, PutProject(p, flag)
  PROVE  IInv' /\ \A q \in Projects : Going(q)' = Going(q)
<1>1. /\ stored' = [stored EXCEPT ![p] = flag]
      /\ noting' = [noting EXCEPT ![p] = Append(noting[p], flag)]
      /\ UNCHANGED <<proj, at, running, cache, read>>
  BY DEF PutProject
<1>2. noting[p] \in Seq(Flag)
  BY DEF IInv, Shape
<1>3. /\ Append(noting[p], flag) \in Seq(Flag) /\ Append(noting[p], flag) # <<>>
      /\ Append(noting[p], flag)[Len(Append(noting[p], flag))] = flag
  BY <1>2
<1>4. Shape'
  BY <1>1, <1>3 DEF IInv, Shape
<1>5. \A q \in Projects : q # p => stored'[q] = stored[q] /\ noting'[q] = noting[q]
  BY <1>1 DEF IInv, Shape
<1>6. stored'[p] = flag /\ noting'[p] = Append(noting[p], flag)
  BY <1>1 DEF IInv, Shape
<1>7. CacheFresh'
  BY <1>1, <1>3, <1>5, <1>6 DEF IInv, CacheFresh
<1>8. Pathless'
  BY <1>1 DEF IInv, Pathless
<1>9. ReadsFresh'
  <2> SUFFICES ASSUME NEW r \in Runs, at[r] \in {"reading", "rereading"}
               PROVE  IF read[r].current
                      THEN read[r].value = stored'[proj[r]] \/ noting'[proj[r]] # <<>>
                      ELSE cache[proj[r]] # "unread"
    BY <1>1 DEF ReadsFresh
  <2>1. proj[r] \in Projects
    BY DEF IInv, Shape, Pathless
  <2> QED BY <1>3, <1>5, <1>6, <2>1 DEF IInv, ReadsFresh
<1>10. \A q : Going(q)' = Going(q)
  BY <1>1, AtGoing
<1>11. GoingCounted'
  BY <1>1, <1>10 DEF IInv, GoingCounted
<1> QED BY <1>4, <1>7, <1>8, <1>9, <1>10, <1>11 DEF IInv

\* Taking the first element of a sequence leaves its last, unless they are one.
LEMMA TailKeepsLast ==
  ASSUME NEW q \in Seq(Flag), q # <<>>
  PROVE  /\ Head(q) \in Flag /\ Tail(q) \in Seq(Flag)
         /\ Tail(q) = <<>> => Head(q) = q[Len(q)]
         /\ Tail(q) # <<>> => Tail(q)[Len(Tail(q))] = q[Len(q)]
<1>1. Head(q) \in Flag /\ Tail(q) \in Seq(Flag) /\ Head(q) = q[1]
  OBVIOUS
<1>2. Len(q) \in Nat \ {0} /\ Len(Tail(q)) = Len(q) - 1
  OBVIOUS
<1>3. Tail(q) = <<>> <=> Len(q) = 1
  <2>1. Tail(q) = <<>> <=> Len(Tail(q)) = 0
    BY <1>1, EmptySeq
  <2> QED BY <1>2, <2>1
<1>4. \A i \in 1..Len(Tail(q)) : Tail(q)[i] = q[i + 1]
  OBVIOUS
<1>5. ASSUME Tail(q) # <<>> PROVE Tail(q)[Len(Tail(q))] = q[Len(q)]
  <2>1. Len(Tail(q)) \in 1..Len(Tail(q)) /\ Len(Tail(q)) + 1 = Len(q)
    BY <1>2, <1>3, <1>5
  <2> QED BY <1>4, <2>1
<1> QED BY <1>1, <1>3, <1>5

\* A written setting is noted: the cache follows, and every read of it in flight is
\* outdated.
LEMMA NoteStep ==
  ASSUME IInv, NEW p \in Projects, NoteProjectExclusive(p)
  PROVE  IInv' /\ \A q \in Projects : Going(q)' = Going(q)
<1>1. /\ noting[p] # <<>>
      /\ noting' = [noting EXCEPT ![p] = Tail(noting[p])]
      /\ cache' = [cache EXCEPT ![p] = Head(noting[p])]
      /\ Outdated(p)
      /\ UNCHANGED <<proj, at, running, stored>>
  BY DEF NoteProjectExclusive
<1>2. noting[p] \in Seq(Flag)
  BY DEF IInv, Shape
<1>3. /\ Head(noting[p]) \in Flag /\ Tail(noting[p]) \in Seq(Flag)
      /\ Tail(noting[p]) = <<>> => Head(noting[p]) = noting[p][Len(noting[p])]
      /\ Tail(noting[p]) # <<>> =>
           Tail(noting[p])[Len(Tail(noting[p]))] = noting[p][Len(noting[p])]
  BY <1>1, <1>2, TailKeepsLast
<1>4. \A r \in Runs : read'[r] = IF proj[r] = p THEN [read[r] EXCEPT !.current = FALSE]
                                 ELSE read[r]
  BY <1>1 DEF Outdated
<1>5. read' \in [Runs -> [value : Flag, current : BOOLEAN]]
  <2>1. \A r \in Runs : read'[r] \in [value : Flag, current : BOOLEAN]
    BY <1>4 DEF IInv, Shape
  <2> QED BY <1>1, <2>1 DEF Outdated
<1>6. Shape'
  BY <1>1, <1>3, <1>5 DEF IInv, Shape
<1>7. /\ noting'[p] = Tail(noting[p]) /\ cache'[p] = Head(noting[p])
      /\ \A q \in Projects : q # p => noting'[q] = noting[q] /\ cache'[q] = cache[q]
  BY <1>1 DEF IInv, Shape
<1>8. CacheFresh'
  BY <1>1, <1>3, <1>7 DEF IInv, CacheFresh
<1>9. Pathless'
  BY <1>1 DEF IInv, Pathless
<1>10. ReadsFresh'
  <2> SUFFICES ASSUME NEW r \in Runs, at[r] \in {"reading", "rereading"}
               PROVE  IF read'[r].current
                      THEN read'[r].value = stored[proj[r]] \/ noting'[proj[r]] # <<>>
                      ELSE cache'[proj[r]] # "unread"
    BY <1>1 DEF ReadsFresh
  <2>1. proj[r] \in Projects
    BY DEF IInv, Shape, Pathless
  <2>2. CASE proj[r] = p
    <3>1. ~ read'[r].current
      BY <1>4, <2>2 DEF IInv, Shape
    <3> QED BY <1>3, <1>7, <2>2, <3>1 DEF Flag
  <2>3. CASE proj[r] # p
    BY <1>4, <1>7, <2>1, <2>3 DEF IInv, ReadsFresh
  <2> QED BY <2>2, <2>3
<1>11. \A q : Going(q)' = Going(q)
  BY <1>1, AtGoing
<1>12. GoingCounted'
  BY <1>1, <1>11 DEF IInv, GoingCounted
<1> QED BY <1>6, <1>8, <1>9, <1>10, <1>11, <1>12 DEF IInv

\* Nothing IInv speaks of changes.
LEMMA Unmoved ==
  ASSUME IInv, UNCHANGED <<proj, at, running, stored, cache, noting, read>>
  PROVE  IInv' /\ \A p \in Projects : Going(p)' = Going(p)
<1>1. \A p : Going(p)' = Going(p)
  BY AtGoing
<1> QED BY <1>1 DEF IInv, Shape, Pathless, CacheFresh, ReadsFresh, GoingCounted

\* What a step may not do to the runs of a project whose setting is on and noted.
Alone ==
  \A p \in Projects :
    (stored[p] = "on" /\ noting[p] = <<>> /\ Going(p)' \ Going(p) # {}) => Going(p) = {}

\* A run's moves through the lines make no run go.
LEMMA LineStepsAlone ==
  ASSUME IInv, NEW r \in Runs,
         Ask(r) \/ TakeLine(r) \/ TakeSlot(r) \/ ReadFails(r)
           \/ (Reread(r) /\ proj[r] # NoProject)
  PROVE  \A p \in Projects : Going(p)' = Going(p)
<1>1. Shape /\ proj' = proj /\ at[r] # "going"
  BY DEF IInv, Ask, TakeLine, TakeSlot, ReadFails, Reread
<1>2. \E place \in Place \ {"going"} : at' = [at EXCEPT ![r] = place]
  BY DEF Ask, TakeLine, TakeSlot, ReadFails, Reread, Place
<1>3. PICK place \in Place \ {"going"} : at' = [at EXCEPT ![r] = place]
  BY <1>2
<1> QED BY <1>1, <1>3, SameGoing

\* Every step keeps IInv and starts no run beside another.
LEMMA NextIInv == IInv /\ [Next]_vars => IInv' /\ Alone
<1> SUFFICES ASSUME IInv, [Next]_vars PROVE IInv' /\ Alone
  OBVIOUS
<1>1. ASSUME NEW r \in Runs, Ask(r) \/ Advance(r) \/ ReadFails(r)
      PROVE  IInv' /\ Alone
  <2>1. CASE Ask(r) \/ TakeLine(r) \/ TakeSlot(r) \/ ReadFails(r)
               \/ (Reread(r) /\ proj[r] # NoProject)
    BY <2>1, LineSteps, LineStepsAlone DEF Alone
  <2>2. CASE Reread(r) /\ proj[r] = NoProject
    BY <2>2, ProjectlessGoes DEF Alone
  <2>3. CASE Decide(r)
    BY <2>3, DecideStep DEF Alone
  <2>4. CASE End(r)
    BY <2>4, EndStep DEF Alone
  <2> QED BY <1>1, <2>1, <2>2, <2>3, <2>4 DEF Advance
<1>2. ASSUME NEW p \in Projects, NoteProjectExclusive(p)
      PROVE  IInv' /\ Alone
  BY <1>2, NoteStep DEF Alone
<1>3. ASSUME NEW p \in Projects, NEW flag \in Flag, PutProject(p, flag)
      PROVE  IInv' /\ Alone
  BY <1>3, PutStep DEF Alone
<1>4. ASSUME NEW s \in Settings, PutSettings(s)
      PROVE  IInv' /\ Alone
  <2>1. UNCHANGED <<proj, at, running, stored, cache, noting, read>>
    BY <1>4 DEF PutSettings
  <2> QED BY <2>1, Unmoved DEF Alone
<1>5. CASE UNCHANGED vars
  <2>1. UNCHANGED <<proj, at, running, stored, cache, noting, read>>
    BY <1>5 DEF vars, settings
  <2> QED BY <2>1, Unmoved DEF Alone
<1> QED BY <1>1, <1>2, <1>3, <1>4, <1>5 DEF Next

-----------------------------------------------------------------------------
(* Theorems. *)

\* The inductive invariant: what acquireSuiteRun's cached settings and reads in
\* flight may say, and projectRunning is exactly the runs of the project going.
THEOREM ReadsSound == Spec => []IInv
<1>1. Init => IInv
  BY InitIInv
<1>2. IInv /\ [Next]_vars => IInv'
  BY NextIInv
<1> QED BY <1>1, <1>2, PTL DEF Spec

\* Once exclusiveSuite is on and noted, acquireSuiteRun starts no suite of the
\* project beside another, for every number of runs, projects and settings.
THEOREM NeverBeside == Spec => ExclusiveAlone
<1>1. IInv /\ [Next]_vars => [Alone]_vars
  BY NextIInv
<1>2. Spec => []IInv
  BY ReadsSound
<1>3. Spec => [][Alone]_vars
  BY <1>1, <1>2, PTL DEF Spec
<1> QED BY <1>3 DEF ExclusiveAlone, Alone
=============================================================================
