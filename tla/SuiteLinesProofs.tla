--------------------------- MODULE SuiteLinesProofs ---------------------------
(***************************************************************************)
(* Theorems of SuiteSlots about its two lines, for every number of runs    *)
(* and projects, every limit and bound.                                    *)
(***************************************************************************)
EXTENDS SuiteSlotsProofs

\* A line whose members are M: nobody waits in it twice, and it counts the others.
Whole(l, M) ==
  /\ l \in Line
  /\ \A i, j \in DOMAIN l.queue : l.queue[i] = l.queue[j] => i = j
  /\ Waiting(l) \subseteq M
  /\ l.running = Cardinality(M \ Waiting(l))

\* Nobody waits in it while there is room.
Busy(l, limit) == l.queue # <<>> => l.running >= limit

\* Whoever holds a place in k and held none in l got it within the limit.
Grants(l, M, k, N, limit) ==
  (N \ Waiting(k)) \ (M \ Waiting(l)) # {} => k.running <= limit

-----------------------------------------------------------------------------
(* class SuiteSlots, one line at a time. *)

\* The shape of a line, spelled out.
LEMMA LineShape ==
  ASSUME NEW l \in Line
  PROVE  /\ l.running \in Nat /\ l.queue \in Seq(Runs) /\ Len(l.queue) \in Nat
         /\ DOMAIN l.queue = 1..Len(l.queue)
         /\ \A i \in 1..Len(l.queue) : l.queue[i] \in Runs
         /\ l.queue = <<>> <=> Len(l.queue) = 0
<1>1. l.running \in Nat /\ l.queue \in Seq(Runs)
  BY DEF Line
<1> QED BY <1>1, EmptySeq

\* A run that takes a place or queues.
LEMMA Joins ==
  ASSUME NEW M \in SUBSET Runs, NEW r \in Runs \ M, NEW l, Whole(l, M), NEW limit \in Nat
  PROVE  LET k == Acquired(l, limit, r)
         IN  /\ Whole(k, M \cup {r}) /\ Grants(l, M, k, M \cup {r}, limit)
             /\ Waiting(k) \subseteq Waiting(l) \cup {r}
             /\ Waiting(l) \subseteq Waiting(k)
             /\ Busy(l, limit) => Busy(k, limit)
<1> DEFINE k == Acquired(l, limit, r)
<1>1. /\ l \in Line /\ l.running \in Nat /\ l.queue \in Seq(Runs) /\ Len(l.queue) \in Nat
      /\ DOMAIN l.queue = 1..Len(l.queue) /\ (l.queue = <<>> <=> Len(l.queue) = 0)
      /\ l.running = Cardinality(M \ Waiting(l)) /\ r \notin Waiting(l)
      /\ \A i \in 1..Len(l.queue) : l.queue[i] # r
  BY LineShape DEF Whole, Waiting
<1>2. IsFiniteSet(M \ Waiting(l))
  BY FS_Subset, SlotsAssumption
<1>3. CASE l.running < limit /\ l.queue = <<>>
  <2>1. k.running = l.running + 1 /\ k.queue = l.queue /\ k \in Line
    BY <1>1, <1>3 DEF Acquired, Line
  <2>2. Waiting(k) = Waiting(l)
    BY <2>1 DEF Waiting
  <2>3. Cardinality((M \ Waiting(l)) \cup {r}) = l.running + 1
    BY <1>1, <1>2, FS_AddElement
  <2>4. (M \cup {r}) \ Waiting(l) = (M \ Waiting(l)) \cup {r}
    BY <1>1
  <2>5. Whole(k, M \cup {r})
    BY <2>1, <2>2, <2>3, <2>4 DEF Whole
  <2>6. Busy(k, limit) /\ k.running <= limit
    BY <1>1, <1>3, <2>1 DEF Busy
  <2> QED BY <2>2, <2>5, <2>6 DEF Grants
<1>4. CASE ~(l.running < limit /\ l.queue = <<>>)
  <2>0. k = [l EXCEPT !.queue = Append(l.queue, r)] /\ Append(l.queue, r) \in Seq(Runs)
    BY <1>1, <1>4 DEF Acquired
  <2>1. k.running = l.running /\ k.queue = Append(l.queue, r) /\ k \in Line
    BY <1>1, <2>0 DEF Line
  <2>2. /\ Len(k.queue) = Len(l.queue) + 1 /\ DOMAIN k.queue = 1..(Len(l.queue) + 1)
        /\ \A i \in 1..Len(l.queue) : k.queue[i] = l.queue[i]
        /\ k.queue[Len(l.queue) + 1] = r
    BY <1>1, <2>1
  <2>3. Waiting(k) = Waiting(l) \cup {r}
    <3>1. Waiting(l) \subseteq Waiting(k) /\ r \in Waiting(k)
      BY <1>1, <2>2 DEF Waiting
    <3>2. \A i \in DOMAIN k.queue : k.queue[i] \in Waiting(l) \cup {r}
      <4> TAKE i \in DOMAIN k.queue
      <4>1. i \in 1..Len(l.queue) \/ i = Len(l.queue) + 1
        BY <1>1, <2>2
      <4> QED BY <1>1, <2>2, <4>1 DEF Waiting
    <3> QED BY <3>1, <3>2 DEF Waiting
  <2>4. \A i, j \in DOMAIN k.queue : k.queue[i] = k.queue[j] => i = j
    <3> TAKE i, j \in DOMAIN k.queue
    <3>1. /\ i \in 1..Len(l.queue) \/ i = Len(l.queue) + 1
          /\ j \in 1..Len(l.queue) \/ j = Len(l.queue) + 1
      BY <1>1, <2>2
    <3> QED BY <1>1, <2>2, <3>1 DEF Whole
  <2>5. (M \cup {r}) \ Waiting(k) = M \ Waiting(l)
    BY <2>3
  <2>6. Waiting(k) \subseteq M \cup {r}
    BY <2>3 DEF Whole
  <2>7. Busy(l, limit) => Busy(k, limit)
    BY <1>1, <1>4, <2>1 DEF Busy
  <2> QED BY <1>1, <2>1, <2>3, <2>4, <2>5, <2>6, <2>7 DEF Whole, Grants
<1> QED BY <1>3, <1>4

\* The first n that wait are n runs.
LEMMA Foremost ==
  ASSUME NEW M, NEW l, Whole(l, M), NEW n \in 0..Len(l.queue)
  PROVE  LET F == {l.queue[i] : i \in 1..n}
         IN  IsFiniteSet(F) /\ Cardinality(F) = n /\ F \subseteq Waiting(l)
<1> DEFINE F == {l.queue[i] : i \in 1..n}
           f == [i \in 1..n |-> l.queue[i]]
<1>1. /\ Len(l.queue) \in Nat /\ DOMAIN l.queue = 1..Len(l.queue)
      /\ \A i, j \in DOMAIN l.queue : l.queue[i] = l.queue[j] => i = j
  BY LineShape DEF Whole
<1>2. n \in Nat /\ 1..n \subseteq DOMAIN l.queue
  BY <1>1
<1>3. f \in Surjection(1..n, F) /\ f \in Injection(1..n, F)
  <2>1. f \in [1..n -> F] /\ \A i \in 1..n : f[i] = l.queue[i]
    OBVIOUS
  <2>2. \A x \in F : \E i \in 1..n : f[i] = x
    OBVIOUS
  <2>3. \A i, j \in 1..n : f[i] = f[j] => i = j
    BY <1>1, <1>2, <2>1
  <2> HIDE DEF f, F
  <2>4. f \in Injection(1..n, F)
    BY <2>1, <2>3 DEF Injection, IsInjective
  <2>5. f \in Surjection(1..n, F)
    BY <2>1, <2>2 DEF Surjection
  <2> QED BY <2>4, <2>5
<1>4. IsFiniteSet(1..n) /\ Cardinality(1..n) = n
  BY <1>2, FS_Interval
<1>5. IsFiniteSet(F) /\ Cardinality(F) = n
  BY <1>3, <1>4, FS_Surjection
<1> QED BY <1>2, <1>5 DEF Waiting

\* A drain grants to the first that wait, up to the limit.
LEMMA Drains ==
  ASSUME NEW M \in SUBSET Runs, NEW l, Whole(l, M), NEW limit \in Nat
  PROVE  LET k == Drained(l, limit)
         IN  /\ Whole(k, M) /\ Grants(l, M, k, M, limit)
             /\ Waiting(k) \subseteq Waiting(l) /\ Busy(k, limit)
<1> DEFINE k == Drained(l, limit)
           n == Min2(Max2(0, limit - l.running), Len(l.queue))
           F == {l.queue[i] : i \in 1..n}
<1>1. /\ l \in Line /\ l.running \in Nat /\ l.queue \in Seq(Runs) /\ Len(l.queue) \in Nat
      /\ DOMAIN l.queue = 1..Len(l.queue)
      /\ \A i \in 1..Len(l.queue) : l.queue[i] \in Runs
      /\ \A i, j \in DOMAIN l.queue : l.queue[i] = l.queue[j] => i = j
      /\ Waiting(l) \subseteq M /\ l.running = Cardinality(M \ Waiting(l))
  BY LineShape DEF Whole
<1>2. /\ n \in 0..Len(l.queue) /\ n \in Nat
      /\ n > 0 => l.running + n <= limit
      /\ n = Len(l.queue) \/ l.running + n >= limit
  BY <1>1 DEF Min2, Max2
<1>3. /\ k.running = l.running + n /\ k.queue = SubSeq(l.queue, n + 1, Len(l.queue))
      /\ k.queue \in Seq(Runs) /\ Len(k.queue) = Len(l.queue) - n
      /\ DOMAIN k.queue = 1..(Len(l.queue) - n)
      /\ \A i \in 1..(Len(l.queue) - n) : k.queue[i] = l.queue[n + i]
  <2> HIDE DEF n
  <2>1. k = [running |-> l.running + n, queue |-> SubSeq(l.queue, n + 1, Len(l.queue))]
    BY DEF Drained, n
  <2>2. \A i \in (n + 1)..Len(l.queue) : l.queue[i] \in Runs
    BY <1>1, <1>2
  <2>3. /\ SubSeq(l.queue, n + 1, Len(l.queue)) \in Seq(Runs)
        /\ Len(SubSeq(l.queue, n + 1, Len(l.queue))) = Len(l.queue) - n
        /\ \A i \in 1..(Len(l.queue) - (n + 1) + 1) :
             SubSeq(l.queue, n + 1, Len(l.queue))[i] = l.queue[n + 1 + i - 1]
    BY <1>1, <1>2, <2>2, SubSeqProperties
  <2>4. \A i \in 1..(Len(l.queue) - n) : k.queue[i] = l.queue[n + i]
    BY <1>1, <1>2, <2>1, <2>3
  <2>5. k.queue \in Seq(Runs) /\ Len(k.queue) = Len(l.queue) - n
    BY <2>1, <2>3
  <2>6. DOMAIN k.queue = 1..(Len(l.queue) - n)
    BY <2>5
  <2> QED BY <2>1, <2>4, <2>5, <2>6
<1> HIDE DEF k, n
<1>4. k \in Line
  <2>1. k = [running |-> l.running + n, queue |-> SubSeq(l.queue, n + 1, Len(l.queue))]
    BY DEF Drained, n, k
  <2> QED BY <1>1, <1>2, <1>3, <2>1 DEF Line
<1>5. \A i, j \in DOMAIN k.queue : k.queue[i] = k.queue[j] => i = j
  <2> TAKE i, j \in DOMAIN k.queue
  <2>1. /\ n + i \in DOMAIN l.queue /\ n + j \in DOMAIN l.queue /\ i \in Int /\ j \in Int
        /\ k.queue[i] = l.queue[n + i] /\ k.queue[j] = l.queue[n + j]
    <3>1. i \in 1..(Len(l.queue) - n) /\ j \in 1..(Len(l.queue) - n)
      BY <1>3
    <3>2. /\ n + i \in 1..Len(l.queue) /\ n + j \in 1..Len(l.queue) /\ i \in Int /\ j \in Int
      BY <1>1, <1>2, <3>1
    <3> QED BY <1>1, <1>3, <3>1, <3>2
  <2>2. k.queue[i] = k.queue[j] => n + i = n + j
    BY <1>1, <2>1
  <2> QED BY <1>2, <2>1, <2>2
<1>6. /\ Waiting(k) \subseteq Waiting(l)
      /\ Waiting(k) = Waiting(l) \ F
  <2>1. \A i \in DOMAIN k.queue : k.queue[i] \in Waiting(l) /\ k.queue[i] \notin F
    <3> TAKE i \in DOMAIN k.queue
    <3>1. n + i \in DOMAIN l.queue /\ k.queue[i] = l.queue[n + i] /\ i \in Int /\ i >= 1
      BY <1>1, <1>2, <1>3
    <3>2. \A j \in 1..n : j \in DOMAIN l.queue /\ j # n + i
      BY <1>1, <1>2, <3>1
    <3> QED BY <1>1, <3>1, <3>2 DEF Waiting
  <2>2. \A i \in DOMAIN l.queue : l.queue[i] \notin F => l.queue[i] \in Waiting(k)
    <3> TAKE i \in DOMAIN l.queue
    <3> SUFFICES ASSUME l.queue[i] \notin F PROVE l.queue[i] \in Waiting(k)
      OBVIOUS
    <3>1. i \notin 1..n
      OBVIOUS
    <3>2. i - n \in DOMAIN k.queue /\ i - n \in 1..(Len(l.queue) - n) /\ n + (i - n) = i
      BY <1>1, <1>2, <1>3, <3>1
    <3>3. k.queue[i - n] = l.queue[i]
      BY <1>3, <3>2
    <3> QED BY <3>2, <3>3 DEF Waiting
  <2> QED BY <2>1, <2>2 DEF Waiting
<1>7. IsFiniteSet(F) /\ Cardinality(F) = n /\ F \subseteq Waiting(l)
  BY <1>2, Foremost
<1> HIDE DEF F
<1>8. Cardinality(M \ Waiting(k)) = l.running + n
  <2>1. M \ Waiting(k) = (M \ Waiting(l)) \cup F /\ (M \ Waiting(l)) \cap F = {}
    BY <1>1, <1>6, <1>7
  <2>2. IsFiniteSet(M \ Waiting(l))
    BY FS_Subset, SlotsAssumption
  <2>3. Cardinality((M \ Waiting(l)) \cup F)
          = Cardinality(M \ Waiting(l)) + Cardinality(F) - Cardinality((M \ Waiting(l)) \cap F)
    BY <1>7, <2>2, FS_Union
  <2>4. Cardinality((M \ Waiting(l)) \cap F) = 0
    BY <2>1, FS_EmptySet
  <2>5. Cardinality(M \ Waiting(k)) = Cardinality((M \ Waiting(l)) \cup F)
    BY <2>1
  <2>6. l.running \in Nat /\ n \in Nat /\ Cardinality(M \ Waiting(l)) = l.running
        /\ Cardinality(F) = n
    BY <1>1, <1>2, <1>7
  <2> QED BY <2>3, <2>4, <2>5, <2>6
<1>9. Grants(l, M, k, M, limit)
  <2> SUFFICES ASSUME (M \ Waiting(k)) \ (M \ Waiting(l)) # {} PROVE k.running <= limit
    BY DEF Grants
  <2>1. F # {}
    BY <1>6
  <2>2. n > 0
    BY <1>2, <1>7, <2>1, FS_EmptySet
  <2> QED BY <1>2, <1>3, <2>2
<1>10. Busy(k, limit)
  <2>1. k.queue # <<>> => n # Len(l.queue)
    BY <1>1, <1>2, <1>3, EmptySeq
  <2> QED BY <1>2, <1>3, <2>1 DEF Busy
<1>11. Whole(k, M)
  BY <1>1, <1>3, <1>4, <1>5, <1>6, <1>8 DEF Whole
<1> QED BY <1>6, <1>9, <1>10, <1>11 DEF k

\* A run that holds a place gives it back, and the drain that follows.
LEMMA Leaves ==
  ASSUME NEW M \in SUBSET Runs, NEW l, Whole(l, M), NEW r \in M \ Waiting(l),
         NEW limit \in Nat
  PROVE  LET k == Released(l, limit)
         IN  /\ Whole(k, M \ {r}) /\ Grants(l, M, k, M \ {r}, limit)
             /\ Waiting(k) \subseteq Waiting(l) /\ Busy(k, limit)
<1> DEFINE h == [l EXCEPT !.running = l.running - 1]
           k == Released(l, limit)
<1>1. l \in Line /\ l.running \in Nat /\ l.running = Cardinality(M \ Waiting(l))
  BY LineShape DEF Whole
<1>2. h.queue = l.queue /\ h.running = l.running - 1 /\ Waiting(h) = Waiting(l)
  BY <1>1 DEF Line, Waiting
<1>3. IsFiniteSet(M \ Waiting(l))
  BY FS_Subset, SlotsAssumption
<1>4. /\ Cardinality((M \ Waiting(l)) \ {r}) = l.running - 1
      /\ (M \ {r}) \ Waiting(l) = (M \ Waiting(l)) \ {r}
      /\ IsFiniteSet((M \ Waiting(l)) \ {r})
  <2>1. /\ IsFiniteSet((M \ Waiting(l)) \ {r})
        /\ Cardinality((M \ Waiting(l)) \ {r}) =
             IF r \in M \ Waiting(l) THEN Cardinality(M \ Waiting(l)) - 1
             ELSE Cardinality(M \ Waiting(l))
    BY <1>3, FS_RemoveElement
  <2> QED BY <1>1, <2>1
<1>5. l.running - 1 \in Nat
  BY <1>4, FS_CardinalityType
<1>6. h \in Line
  BY <1>1, <1>5 DEF Line
<1>7. Whole(h, M \ {r})
  BY <1>2, <1>4, <1>6 DEF Whole
<1>8. k = Drained(h, limit)
  BY DEF Released
<1> HIDE DEF h, k
<1>9. /\ Whole(k, M \ {r}) /\ Grants(h, M \ {r}, k, M \ {r}, limit)
      /\ Waiting(k) \subseteq Waiting(h) /\ Busy(k, limit)
  BY <1>7, <1>8, Drains
<1>10. Grants(l, M, k, M \ {r}, limit)
  BY <1>2, <1>9 DEF Grants
<1> QED BY <1>2, <1>9, <1>10 DEF k

-----------------------------------------------------------------------------
(* Who is in which line. *)

AtServer == {"server", "rereading", "going"}
AtLine   == {"project"} \cup AtServer

Served   == {r \in Runs : at[r] \in AtServer}
Lined(p) == {r \in OfProject(p) : at[r] \in AtLine}

\* A run waits where it is.
ServerWhole ==
  /\ Whole(server, Served) /\ Busy(server, Limit)
  /\ \A s \in Waiting(server) : at[s] = "server"

LineWhole(p) ==
  /\ Whole(line[p], Lined(p))
  /\ noting[p] = <<>> => Busy(line[p], LineLimit(cache[p]))
  /\ \A s \in Waiting(line[p]) : at[s] = "project"

LInv ==
  /\ IInv
  /\ proj \in Assignments /\ setting \in Settings /\ ops \in 0..MaxOps
  /\ line \in [Projects -> Line]
  /\ ServerWhole
  /\ \A p \in Projects : LineWhole(p)

Granted == Grants(server, Served, server', Served', Limit')

\* Limits are numbers, whatever a setting says.
LEMMA Limits ==
  ASSUME LInv
  PROVE  Limit \in Nat /\ \A flag : LineLimit(flag) \in Nat
<1>1. Cpus \in Nat /\ setting \in Nat
  BY SlotsAssumption DEF LInv
<1>2. Limit \in Nat
  BY <1>1 DEF Limit, SuiteRunLimit, Min2, Max2
<1>3. Cardinality(Runs) \in Nat
  BY SlotsAssumption, FS_CardinalityType
<1> QED BY <1>2, <1>3 DEF LineLimit

\* A run that moves to another place joins or leaves the lines of that place alone.
LEMMA Membership ==
  ASSUME LInv, NEW r \in Runs, NEW place, at' = [at EXCEPT ![r] = place], proj' = proj
  PROVE  /\ at'[r] = place /\ \A s \in Runs : s # r => at'[s] = at[s]
         /\ Served' = IF place \in AtServer THEN Served \cup {r} ELSE Served \ {r}
         /\ \A p : Lined(p)' = IF proj[r] = p /\ place \in AtLine THEN Lined(p) \cup {r}
                               ELSE Lined(p) \ {r}
         /\ Served \subseteq Runs /\ \A p : Lined(p) \subseteq Runs
<1>1. at'[r] = place /\ \A s \in Runs : s # r => at'[s] = at[s]
  BY DEF LInv, IInv, Shape
<1>2. Served' = IF place \in AtServer THEN Served \cup {r} ELSE Served \ {r}
  BY <1>1 DEF Served
<1>3. ASSUME NEW p
      PROVE  Lined(p)' = IF proj[r] = p /\ place \in AtLine THEN Lined(p) \cup {r}
                         ELSE Lined(p) \ {r}
  BY <1>1 DEF Lined, OfProject
<1> QED BY <1>1, <1>2, <1>3 DEF Served, Lined, OfProject

\* The server's line stays as it is.
LEMMA ServerKept ==
  ASSUME LInv, server' = server, setting' = setting, Served' = Served,
         \A s \in Waiting(server) : at'[s] = at[s]
  PROVE  ServerWhole' /\ Granted
BY DEF LInv, ServerWhole, Granted, Grants, Limit, Waiting, Whole, Busy

\* A project's line stays as it is, and its limit may only fall.
LEMMA LineKept ==
  ASSUME LInv, NEW p \in Projects, line'[p] = line[p], Lined(p)' = Lined(p),
         \A s \in Waiting(line[p]) : at'[s] = at[s],
         noting'[p] = <<>> =>
           noting[p] = <<>> /\ LineLimit(cache'[p]) <= LineLimit(cache[p])
  PROVE  LineWhole(p)'
<1>1. line[p].running \in Nat
  BY LineShape DEF LInv, LineWhole, Whole
<1>2. noting'[p] = <<>> => Busy(line[p], LineLimit(cache'[p]))
  <2>1. noting[p] = <<>> => Busy(line[p], LineLimit(cache[p]))
    BY DEF LInv, LineWhole
  <2>2. LineLimit(cache[p]) \in Nat /\ LineLimit(cache'[p]) \in Nat
    BY Limits
  <2> QED BY <1>1, <2>1, <2>2 DEF Busy
<1>3. Whole(line'[p], Lined(p)')
  BY DEF LInv, LineWhole
<1>4. Waiting(line[p])' = Waiting(line[p])
  BY DEF Waiting
<1>5. \A s \in Waiting(line[p])' : at'[s] = "project"
  BY <1>4 DEF LInv, LineWhole
<1>6. noting'[p] = <<>> => Busy(line'[p], LineLimit(cache'[p]))
  BY <1>2
<1> QED BY <1>3, <1>5, <1>6 DEF LineWhole

\* A setting that is noted and read afresh only lowers the limit of its line.
LEMMA LimitFalls ==
  ASSUME LInv, IInv', NEW r \in Runs, UNCHANGED <<stored, noting>>, NEW p \in Projects,
         cache[p] # "unread" => cache'[p] # "unread", noting[p] = <<>>
  PROVE  LineLimit(cache'[p]) <= LineLimit(cache[p])
<1>1. cache[p] \in {stored[p], "unread"} /\ cache'[p] \in {stored[p], "unread"}
  BY DEF LInv, IInv, CacheFresh
<1>2. Cardinality(Runs) \in Nat /\ Cardinality(Runs) # 0
  BY SlotsAssumption, FS_CardinalityType, FS_EmptySet
<1>3. stored[p] \in Flag
  BY DEF LInv, IInv, Shape
<1> QED BY <1>1, <1>2, <1>3 DEF LineLimit, Flag

\* Lines of other projects, of a run that takes part in none of them.
LEMMA OthersKept ==
  ASSUME LInv, IInv', NEW r \in Runs, NEW place, at' = [at EXCEPT ![r] = place],
         UNCHANGED <<proj, stored, noting>>,
         \A p \in Projects : cache[p] # "unread" => cache'[p] # "unread",
         NEW p \in Projects, line'[p] = line[p],
         \/ p # proj[r]
         \/ at[r] \in AtLine /\ place \in AtLine /\ r \notin Waiting(line[p])
         \/ at[r] \notin AtLine /\ place \notin AtLine
  PROVE  LineWhole(p)'
<1>1. /\ \A s \in Runs : s # r => at'[s] = at[s]
      /\ Lined(p)' = IF proj[r] = p /\ place \in AtLine THEN Lined(p) \cup {r} ELSE Lined(p) \ {r}
  BY Membership
<1>2. Waiting(line[p]) \subseteq Lined(p)
  BY DEF LInv, LineWhole, Whole
<1>3. Lined(p)' = Lined(p) /\ r \notin Waiting(line[p])
  BY <1>1, <1>2 DEF Lined, OfProject
<1>4. \A s \in Waiting(line[p]) : at'[s] = at[s]
  BY <1>1, <1>2, <1>3 DEF Lined, OfProject
<1>5. noting'[p] = <<>> => noting[p] = <<>> /\ LineLimit(cache'[p]) <= LineLimit(cache[p])
  BY LimitFalls
<1> QED BY <1>3, <1>4, <1>5, LineKept

\* The server's line, of a run that moves past it or not yet to it.
LEMMA ServerBystander ==
  ASSUME LInv, NEW r \in Runs, NEW place, at' = [at EXCEPT ![r] = place],
         proj' = proj, server' = server, setting' = setting,
         \/ at[r] \notin AtServer /\ place \notin AtServer
         \/ at[r] \in AtServer /\ place \in AtServer /\ r \notin Waiting(server)
  PROVE  ServerWhole' /\ Granted
<1>1. /\ \A s \in Runs : s # r => at'[s] = at[s]
      /\ Served' = IF place \in AtServer THEN Served \cup {r} ELSE Served \ {r}
  BY Membership
<1>2. Waiting(server) \subseteq Served
  BY DEF LInv, ServerWhole, Whole
<1>3. Served' = Served /\ r \notin Waiting(server)
  BY <1>1, <1>2 DEF Served
<1>4. \A s \in Waiting(server) : at'[s] = at[s]
  BY <1>1, <1>2, <1>3 DEF Served
<1> QED BY <1>3, <1>4, ServerKept

\* A run comes to the server's line.
LEMMA ServerJoined ==
  ASSUME LInv, NEW r \in Runs, at[r] \notin AtServer, at' = [at EXCEPT ![r] = "server"],
         proj' = proj, setting' = setting, server' = Acquired(server, Limit, r)
  PROVE  ServerWhole' /\ Granted
<1>1. /\ at'[r] = "server" /\ \A s \in Runs : s # r => at'[s] = at[s]
      /\ Served' = Served \cup {r} /\ Served \subseteq Runs
  BY Membership DEF AtServer
<1>2. r \notin Served /\ Limit \in Nat /\ Limit' = Limit
  BY Limits DEF Served, Limit
<1>3. /\ Whole(server', Served \cup {r}) /\ Grants(server, Served, server', Served \cup {r}, Limit)
      /\ Waiting(server') \subseteq Waiting(server) \cup {r} /\ Busy(server', Limit)
  BY <1>1, <1>2, Joins DEF LInv, ServerWhole
<1>4. \A s \in Waiting(server') : at'[s] = "server"
  BY <1>1, <1>3 DEF LInv, ServerWhole, Whole, Served
<1>5. Waiting(server)' = Waiting(server')
  BY DEF Waiting
<1> QED BY <1>1, <1>2, <1>3, <1>4, <1>5 DEF ServerWhole, Granted

\* A run gives its slot back.
LEMMA ServerLeft ==
  ASSUME LInv, NEW r \in Runs, at[r] \in {"rereading", "going"}, NEW place,
         place \notin AtServer, at' = [at EXCEPT ![r] = place],
         proj' = proj, setting' = setting, server' = Released(server, Limit)
  PROVE  ServerWhole' /\ Granted
<1>1. /\ \A s \in Runs : s # r => at'[s] = at[s]
      /\ Served' = Served \ {r} /\ Served \subseteq Runs
  BY Membership
<1>2. r \in Served \ Waiting(server) /\ Limit \in Nat /\ Limit' = Limit
  BY Limits DEF Served, Limit, AtServer, LInv, ServerWhole
<1>3. /\ Whole(server', Served \ {r}) /\ Grants(server, Served, server', Served \ {r}, Limit)
      /\ Waiting(server') \subseteq Waiting(server) /\ Busy(server', Limit)
  BY <1>1, <1>2, Leaves DEF LInv, ServerWhole
<1>4. \A s \in Waiting(server') : at'[s] = "server"
  BY <1>1, <1>2, <1>3 DEF LInv, ServerWhole, Whole, Served
<1>5. Waiting(server)' = Waiting(server')
  BY DEF Waiting
<1> QED BY <1>1, <1>2, <1>3, <1>4, <1>5 DEF ServerWhole, Granted

\* A run gives its place in its project's line back.
LEMMA LineLeft ==
  ASSUME LInv, NEW r \in Runs, at[r] \in {"rereading", "going"}, NEW place,
         place \notin AtLine, at' = [at EXCEPT ![r] = place],
         proj[r] \in Projects, proj' = proj, noting' = noting,
         line' = [line EXCEPT ![proj[r]] = Released(line[proj[r]], LineLimit(cache'[proj[r]]))]
  PROVE  LineWhole(proj[r])' /\ line' \in [Projects -> Line]
<1> DEFINE p == proj[r]
<1>1. /\ \A s \in Runs : s # r => at'[s] = at[s]
      /\ Lined(p)' = Lined(p) \ {r} /\ Lined(p) \subseteq Runs
  BY Membership
<1>2. r \in Lined(p) \ Waiting(line[p]) /\ LineLimit(cache'[p]) \in Nat
  BY Limits DEF Lined, OfProject, AtLine, AtServer, LInv, LineWhole
<1>3. line'[p] = Released(line[p], LineLimit(cache'[p]))
  BY DEF LInv
<1>4. /\ Whole(line'[p], Lined(p) \ {r}) /\ Waiting(line'[p]) \subseteq Waiting(line[p])
      /\ Busy(line'[p], LineLimit(cache'[p]))
  <2> DEFINE limit == LineLimit(cache'[p])
  <2>1. Whole(line[p], Lined(p))
    BY DEF LInv, LineWhole
  <2> HIDE DEF p, limit
  <2>2. limit \in Nat /\ line'[p] = Released(line[p], limit)
    BY <1>2, <1>3 DEF limit
  <2>3. /\ Whole(line'[p], Lined(p) \ {r}) /\ Waiting(line'[p]) \subseteq Waiting(line[p])
        /\ Busy(line'[p], limit)
    <3> DEFINE k == Released(line[p], limit)
    <3>1. Lined(p) \in SUBSET Runs /\ r \in Lined(p) \ Waiting(line[p])
      BY <1>1, <1>2
    <3>2. /\ Whole(k, Lined(p) \ {r}) /\ Waiting(k) \subseteq Waiting(line[p]) /\ Busy(k, limit)
      BY <2>1, <2>2, <3>1, Leaves
    <3> QED BY <2>2, <3>2
  <2> QED BY <2>3 DEF limit
<1>5. \A s \in Waiting(line'[p]) : at'[s] = "project"
  BY <1>1, <1>2, <1>4 DEF LInv, LineWhole, Whole
<1>6. Waiting(line[p])' = Waiting(line'[p]) /\ line' \in [Projects -> Line]
  BY <1>3, <1>4 DEF Waiting, Whole, LInv
<1> QED BY <1>1, <1>4, <1>5, <1>6 DEF LineWhole

\* A run enters its project's line, which was l with the members M.
LEMMA LineEntered ==
  ASSUME LInv, NEW r \in Runs, NEW p \in Projects, NEW M \in SUBSET Runs, NEW l, Whole(l, M),
         r \notin M, Lined(p)' = M \cup {r}, at'[r] = "project",
         \A s \in Waiting(l) : at'[s] = "project",
         noting'[p] = <<>> => Busy(l, LineLimit(cache'[p])),
         line' = [line EXCEPT ![p] = Acquired(l, LineLimit(cache'[p]), r)]
  PROVE  LineWhole(p)' /\ line' \in [Projects -> Line]
<1> DEFINE limit == LineLimit(cache'[p])
           k == Acquired(l, limit, r)
<1>1. line'[p] = k /\ limit \in Nat
  BY Limits DEF LInv
<1>2. /\ Whole(k, M \cup {r}) /\ Waiting(k) \subseteq Waiting(l) \cup {r}
      /\ Busy(l, limit) => Busy(k, limit)
  <2> HIDE DEF limit
  <2>1. r \in Runs \ M
    OBVIOUS
  <2> QED BY <1>1, <2>1, Joins
<1>3. k \in Line
  BY <1>2 DEF Whole
<1>4. line' \in [Projects -> Line]
  BY <1>3 DEF LInv
<1> HIDE DEF k
<1>5. Whole(line'[p], Lined(p)') /\ Waiting(line[p])' = Waiting(k)
  BY <1>1, <1>2 DEF Waiting
<1>6. \A s \in Waiting(k) : at'[s] = "project"
  BY <1>2
<1>7. noting'[p] = <<>> => Busy(line'[p], LineLimit(cache'[p]))
  BY <1>1, <1>2
<1> QED BY <1>4, <1>5, <1>6, <1>7 DEF LineWhole

-----------------------------------------------------------------------------
(* Every step. *)

LinesStep ==
  /\ proj' \in Assignments /\ setting' \in Settings /\ ops' \in 0..MaxOps
  /\ line' \in [Projects -> Line]
  /\ ServerWhole' /\ Granted
  /\ \A p \in Projects : LineWhole(p)'

\* A run asks, and queues for the server if it has no project.
LEMMA AskLines ==
  ASSUME LInv, IInv', NEW r \in Runs, Ask(r)
  PROVE  LinesStep
<1>1. /\ at[r] = "new" /\ UNCHANGED <<proj, line, running, cache, stored, noting, setting, ops>>
  BY DEF Ask, settings
<1>2. CASE proj[r] = NoProject
  <2>1. at' = [at EXCEPT ![r] = "server"] /\ server' = Acquired(server, Limit, r)
    BY <1>2 DEF Ask
  <2>2. ServerWhole' /\ Granted
    BY <1>1, <2>1, ServerJoined DEF AtServer
  <2>3. \A p \in Projects : LineWhole(p)'
    BY <1>1, <1>2, <2>1, OthersKept, SlotsAssumption
  <2> QED BY <1>1, <2>2, <2>3 DEF LinesStep, LInv
<1>3. CASE proj[r] # NoProject
  <2>1. at' = [at EXCEPT ![r] = "reading"] /\ server' = server
    BY <1>3 DEF Ask
  <2>2. ServerWhole' /\ Granted
    BY <1>1, <2>1, ServerBystander DEF AtServer
  <2>3. at[r] \notin AtLine /\ "reading" \notin AtLine
    BY <1>1 DEF AtServer, AtLine
  <2>4. \A p \in Projects : LineWhole(p)'
    BY <1>1, <2>1, <2>3, OthersKept
  <2> QED BY <1>1, <2>2, <2>4 DEF LinesStep, LInv
<1> QED BY <1>2, <1>3

\* A read has landed, and the run enters its project's line.
LEMMA TakeLineLines ==
  ASSUME LInv, IInv', NEW r \in Runs, TakeLine(r)
  PROVE  LinesStep
<1>0. at[r] = "reading" /\ proj[r] \in Projects
  BY DEF TakeLine, LInv, IInv, Shape, Pathless
<1> PICK p \in Projects : p = proj[r]
  BY <1>0
<1>1. /\ at[r] = "reading" /\ at' = [at EXCEPT ![r] = "project"] /\ Landed(r)
      /\ UNCHANGED <<proj, server, running, read, stored, noting, setting, ops>>
      /\ line' = [line EXCEPT ![p] = Acquired(line[p], LineLimit(cache'[p]), r)]
  BY DEF TakeLine, settings
<1>2. p \in Projects
  OBVIOUS
<1>3. \A q \in Projects : cache[q] # "unread" => cache'[q] # "unread"
  BY <1>1, LandedFresh DEF LInv
<1>4. ServerWhole' /\ Granted
  BY <1>1, ServerBystander DEF AtServer
<1>5. /\ at'[r] = "project" /\ \A s \in Runs : s # r => at'[s] = at[s]
      /\ Lined(p)' = Lined(p) \cup {r} /\ Lined(p) \subseteq Runs /\ r \notin Lined(p)
  BY <1>1, Membership DEF AtLine, AtServer, Lined
<1>6. /\ Whole(line[p], Lined(p))
      /\ \A s \in Waiting(line[p]) : at'[s] = "project"
  BY <1>2, <1>5 DEF LInv, LineWhole, Whole
<1>7. noting'[p] = <<>> => Busy(line[p], LineLimit(cache'[p]))
  <2> SUFFICES ASSUME noting[p] = <<>> PROVE Busy(line[p], LineLimit(cache'[p]))
    BY <1>1
  <2>1. LineLimit(cache'[p]) <= LineLimit(cache[p])
    BY <1>1, <1>2, <1>3, LimitFalls
  <2>2. LineLimit(cache[p]) \in Nat /\ LineLimit(cache'[p]) \in Nat
    BY Limits
  <2>3. line[p].running \in Nat
    BY <1>6, LineShape DEF Whole
  <2>4. Busy(line[p], LineLimit(cache[p]))
    BY <1>2 DEF LInv, LineWhole
  <2> QED BY <2>1, <2>2, <2>3, <2>4 DEF Busy
<1>8. LineWhole(p)' /\ line' \in [Projects -> Line]
  <2> DEFINE M == Lined(p)
             l == line[p]
  <2>1. M \in SUBSET Runs /\ Whole(l, M) /\ r \notin M /\ Lined(p)' = M \cup {r}
        /\ (\A s \in Waiting(l) : at'[s] = "project")
        /\ (noting'[p] = <<>> => Busy(l, LineLimit(cache'[p])))
        /\ line' = [line EXCEPT ![p] = Acquired(l, LineLimit(cache'[p]), r)]
    BY <1>1, <1>5, <1>6, <1>7
  <2> HIDE DEF M, l
  <2> QED BY <1>2, <1>5, <2>1, LineEntered
<1>9. \A q \in Projects : q # p => LineWhole(q)'
  <2> TAKE q \in Projects
  <2> HAVE q # p
  <2>1. line'[q] = line[q]
    BY <1>1 DEF LInv
  <2> QED BY <1>1, <1>3, <2>1, OthersKept
<1> QED BY <1>1, <1>4, <1>8, <1>9 DEF LinesStep, LInv

\* A run that has its project's place queues for the server.
LEMMA TakeSlotLines ==
  ASSUME LInv, IInv', NEW r \in Runs, TakeSlot(r)
  PROVE  LinesStep
<1>1. /\ at[r] = "project" /\ r \notin Waiting(line[proj[r]])
      /\ at' = [at EXCEPT ![r] = "server"] /\ server' = Acquired(server, Limit, r)
      /\ UNCHANGED <<proj, line, cache, stored, noting, setting, ops>>
  BY DEF TakeSlot, settings
<1>2. ServerWhole' /\ Granted
  BY <1>1, ServerJoined DEF AtServer
<1>3. \A p \in Projects : LineWhole(p)'
  BY <1>1, OthersKept DEF AtServer, AtLine
<1> QED BY <1>1, <1>2, <1>3 DEF LinesStep, LInv

\* A run that holds its places stays where it is while it reads again, or goes.
LEMMA MovesOn ==
  ASSUME LInv, IInv', NEW r \in Runs, NEW place \in {"rereading", "going"},
         at[r] \in AtServer, r \notin Waiting(server), at' = [at EXCEPT ![r] = place],
         UNCHANGED <<proj, server, line, stored, noting, setting, ops>>,
         \A p \in Projects : cache[p] # "unread" => cache'[p] # "unread"
  PROVE  LinesStep
<1>1. ServerWhole' /\ Granted
  BY ServerBystander DEF AtServer
<1>2. ASSUME NEW p \in Projects PROVE LineWhole(p)'
  <2>1. r \notin Waiting(line[p])
    BY <1>2 DEF LInv, LineWhole, AtServer
  <2>2. place \in AtLine /\ at[r] \in AtLine
    BY DEF AtLine, AtServer
  <2> QED BY <2>1, <2>2, OthersKept
<1> QED BY <1>1, <1>2 DEF LinesStep, LInv

\* Having the slot, it reads the setting again, or goes if it has no project.
LEMMA RereadLines ==
  ASSUME LInv, IInv', NEW r \in Runs, Reread(r)
  PROVE  LinesStep
<1>1. /\ at[r] = "server" /\ r \notin Waiting(server)
      /\ UNCHANGED <<proj, server, line, cache, stored, noting, setting, ops>>
      /\ \E place \in {"rereading", "going"} : at' = [at EXCEPT ![r] = place]
  BY DEF Reread, lines, settings
<1> QED BY <1>1, MovesOn DEF AtServer

\* A run that gives both places back, and goes nowhere near the lines again.
LEMMA GivesBack ==
  ASSUME LInv, IInv', NEW r \in Runs, at[r] \in {"rereading", "going"},
         at' = [at EXCEPT ![r] = "done"], server' = Released(server, Limit),
         UNCHANGED <<proj, cache, stored, noting, setting>>, ops' \in 0..MaxOps,
         IF proj[r] = NoProject THEN line' = line
         ELSE line' = [line EXCEPT ![proj[r]] = Released(line[proj[r]], LineLimit(cache[proj[r]]))]
  PROVE  LinesStep
<1>1. ServerWhole' /\ Granted
  BY ServerLeft DEF AtServer
<1>2. \A p \in Projects : line'[p] = line[p] /\ p # proj[r] => LineWhole(p)'
  BY OthersKept
<1>3. CASE proj[r] = NoProject
  BY <1>1, <1>2, <1>3, SlotsAssumption DEF LinesStep, LInv
<1>4. CASE proj[r] # NoProject
  <2>1. proj[r] \in Projects
    BY <1>4 DEF LInv, IInv, Shape
  <2>2. line' = [line EXCEPT ![proj[r]] = Released(line[proj[r]], LineLimit(cache'[proj[r]]))]
    BY <1>4
  <2>3. LineWhole(proj[r])' /\ line' \in [Projects -> Line]
    BY <2>1, <2>2, LineLeft DEF AtLine, AtServer
  <2>4. \A p \in Projects : p # proj[r] => line'[p] = line[p]
    BY <2>2 DEF LInv
  <2> QED BY <1>1, <1>2, <2>3, <2>4 DEF LinesStep, LInv
<1> QED BY <1>3, <1>4

\* Its command ended.
LEMMA EndLines ==
  ASSUME LInv, IInv', NEW r \in Runs, End(r)
  PROVE  LinesStep
<1>1. ops' \in 0..MaxOps
  BY DEF End, settings, LInv
<1> QED BY <1>1, GivesBack DEF End, settings

\* Storage failed it, before its first place or after both.
LEMMA ReadFailsLines ==
  ASSUME LInv, IInv', NEW r \in Runs, ReadFails(r)
  PROVE  LinesStep
<1>1. /\ UNCHANGED <<proj, cache, stored, noting, setting>> /\ ops' \in 0..MaxOps
      /\ at' = [at EXCEPT ![r] = "done"]
  <2>1. ops < MaxOps /\ ops' = ops + 1 /\ ops \in 0..MaxOps /\ MaxOps \in Nat
    BY SlotsAssumption DEF ReadFails, LInv
  <2> QED BY <2>1 DEF ReadFails
<1>2. CASE at[r] = "rereading"
  <2>1. proj[r] # NoProject
    BY <1>2 DEF LInv, IInv, Pathless
  <2> QED BY <1>1, <1>2, <2>1, GivesBack DEF ReadFails
<1>3. CASE at[r] = "reading"
  <2>1. UNCHANGED <<server, line>>
    BY <1>3 DEF ReadFails, lines
  <2>2. ServerWhole' /\ Granted
    BY <1>1, <1>3, <2>1, ServerBystander DEF AtServer
  <2>3. at[r] \notin AtLine /\ "done" \notin AtLine
    BY <1>3 DEF AtServer, AtLine
  <2>4. \A p \in Projects : LineWhole(p)'
    BY <1>1, <2>1, <2>3, OthersKept
  <2> QED BY <1>1, <2>1, <2>2, <2>4 DEF LinesStep, LInv
<1> QED BY <1>2, <1>3 DEF ReadFails

\* A run goes, or gives both places back and queues again.
LEMMA DecideLines ==
  ASSUME LInv, IInv', NEW r \in Runs, Decide(r)
  PROVE  LinesStep
<1>0. at[r] = "rereading" /\ proj[r] \in Projects
  BY DEF Decide, LInv, IInv, Shape, Pathless
<1> PICK p \in Projects : p = proj[r]
  BY <1>0
<1> DEFINE limit == LineLimit(cache'[p])
<1>1. /\ at[r] = "rereading" /\ Landed(r)
      /\ UNCHANGED <<proj, read, stored, noting, setting, ops>>
      /\ QueueAgain(r) \/ Go(r)
  BY DEF Decide, settings
<1>2. p \in Projects
  OBVIOUS
<1>3. \A q \in Projects : cache[q] # "unread" => cache'[q] # "unread"
  BY <1>1, LandedFresh DEF LInv
<1>4. CASE Go(r)
  <2>1. r \notin Waiting(server)
    BY <1>1 DEF LInv, ServerWhole
  <2> QED BY <1>1, <1>3, <1>4, <2>1, MovesOn DEF Go, lines, AtServer
<1>5. CASE QueueAgain(r)
  <2>1. /\ at' = [at EXCEPT ![r] = "project"] /\ server' = Released(server, Limit)
        /\ line' = [line EXCEPT ![p] = Acquired(Released(line[p], limit), limit, r)]
    BY <1>5 DEF QueueAgain
  <2>2. ServerWhole' /\ Granted
    BY <1>1, <2>1, ServerLeft DEF AtServer
  <2>3. /\ at'[r] = "project" /\ \A s \in Runs : s # r => at'[s] = at[s]
        /\ Lined(p)' = Lined(p) \cup {r} /\ Lined(p) \subseteq Runs /\ r \in Lined(p)
    <3>1. r \in Lined(p)
      BY <1>1 DEF AtLine, AtServer, Lined, OfProject
    <3>2. "project" \in AtLine
      BY DEF AtLine
    <3> QED BY <1>1, <2>1, <3>1, <3>2, Membership
  <2>4. /\ Whole(line[p], Lined(p)) /\ r \notin Waiting(line[p])
        /\ \A s \in Waiting(line[p]) : at[s] = "project" /\ s \in Runs
    BY <1>1, <1>2, <2>3 DEF LInv, LineWhole, Whole
  <2>5. LineWhole(p)' /\ line' \in [Projects -> Line]
    <3> DEFINE l == Released(line[p], limit)
               M == Lined(p) \ {r}
    <3>1. limit \in Nat
      BY Limits
    <3>2. Lined(p)' = M \cup {r} /\ r \notin M /\ M \in SUBSET Runs
      BY <2>3
    <3>3. Whole(l, M) /\ Waiting(l) \subseteq Waiting(line[p]) /\ Busy(l, limit)
      <4>1. Lined(p) \in SUBSET Runs /\ r \in Lined(p) \ Waiting(line[p])
        BY <2>3, <2>4
      <4> HIDE DEF limit
      <4> QED BY <2>4, <3>1, <4>1, Leaves
    <3>4. \A s \in Waiting(l) : at'[s] = "project"
      BY <2>3, <2>4, <3>3
    <3>5. line' = [line EXCEPT ![p] = Acquired(l, LineLimit(cache'[p]), r)]
      BY <2>1
    <3>6. Busy(l, LineLimit(cache'[p]))
      BY <3>3
    <3> HIDE DEF l, M, limit
    <3> QED BY <1>2, <2>3, <3>2, <3>3, <3>4, <3>5, <3>6, LineEntered
  <2>6. \A q \in Projects : q # p => LineWhole(q)'
    <3> TAKE q \in Projects
    <3> HAVE q # p
    <3>1. line'[q] = line[q]
      BY <2>1 DEF LInv
    <3> QED BY <1>1, <1>3, <2>1, <3>1, OthersKept
  <2> QED BY <1>1, <2>2, <2>5, <2>6 DEF LinesStep, LInv
<1> QED BY <1>1, <1>4, <1>5

\* A setting is written: its limit is not spoken of until it is noted.
LEMMA PutLines ==
  ASSUME LInv, NEW p \in Projects, NEW flag \in Flag, PutProject(p, flag)
  PROVE  LinesStep
<1>1. /\ UNCHANGED <<proj, at, server, line, cache, setting>>
      /\ noting' = [noting EXCEPT ![p] = Append(noting[p], flag)]
      /\ ops < MaxOps /\ ops' = ops + 1
  BY DEF PutProject, lines
<1>2. ops' \in 0..MaxOps
  BY <1>1, SlotsAssumption DEF LInv
<1>3. noting'[p] # <<>> /\ \A q \in Projects : q # p => noting'[q] = noting[q]
  <2>1. noting[p] \in Seq(Flag) /\ noting \in [Projects -> Seq(Flag)]
    BY DEF LInv, IInv, Shape
  <2>2. Append(noting[p], flag) # <<>>
    BY <2>1
  <2> QED BY <1>1, <2>1, <2>2
<1>4. Served' = Served /\ \A q : Lined(q)' = Lined(q)
  BY <1>1 DEF Served, Lined, OfProject
<1>5. ServerWhole' /\ Granted
  BY <1>1, <1>4, ServerKept
<1>6. ASSUME NEW q \in Projects PROVE LineWhole(q)'
  <2>1. LineLimit(cache[q]) \in Nat /\ cache'[q] = cache[q]
    BY <1>1, Limits
  <2>2. noting'[q] = <<>> => noting[q] = <<>> /\ LineLimit(cache'[q]) <= LineLimit(cache[q])
    BY <1>3, <2>1
  <2>3. line'[q] = line[q] /\ \A s \in Waiting(line[q]) : at'[s] = at[s]
    BY <1>1
  <2> QED BY <1>4, <2>2, <2>3, LineKept
<1> QED BY <1>1, <1>2, <1>5, <1>6 DEF LinesStep, LInv

\* The note reaches its project's line.
LEMMA NoteLines ==
  ASSUME LInv, NEW p \in Projects, NoteProjectExclusive(p)
  PROVE  LinesStep
<1> DEFINE limit == LineLimit(cache'[p])
           k == Drained(line[p], limit)
<1>1. /\ UNCHANGED <<proj, at, server, setting, ops>>
      /\ line' = [line EXCEPT ![p] = k]
      /\ noting' = [noting EXCEPT ![p] = Tail(noting[p])]
      /\ cache' = [cache EXCEPT ![p] = Head(noting[p])]
  BY DEF NoteProjectExclusive
<1>2. Served' = Served /\ \A q : Lined(q)' = Lined(q)
  BY <1>1 DEF Served, Lined, OfProject
<1>3. ServerWhole' /\ Granted
  BY <1>1, <1>2, ServerKept
<1>4. /\ Whole(k, Lined(p)) /\ Waiting(k) \subseteq Waiting(line[p]) /\ Busy(k, limit)
  <2>1. limit \in Nat /\ Lined(p) \in SUBSET Runs /\ Whole(line[p], Lined(p))
    BY Limits DEF Lined, OfProject, LInv, LineWhole
  <2> HIDE DEF limit
  <2> QED BY <2>1, Drains
<1> HIDE DEF k
<1>5. line'[p] = k /\ line' \in [Projects -> Line]
  BY <1>1, <1>4 DEF LInv, Whole
<1>6. LineWhole(p)'
  <2>1. Waiting(line[p])' = Waiting(k) /\ Whole(line'[p], Lined(p)') /\ Busy(line'[p], limit)
    BY <1>2, <1>4, <1>5 DEF Waiting
  <2>2. \A s \in Waiting(k) : at'[s] = "project"
    BY <1>1, <1>4 DEF LInv, LineWhole
  <2> QED BY <2>1, <2>2 DEF LineWhole
<1>7. ASSUME NEW q \in Projects, q # p PROVE LineWhole(q)'
  <2>1. line'[q] = line[q] /\ noting'[q] = noting[q] /\ cache'[q] = cache[q]
    BY <1>1, <1>7 DEF LInv, IInv, Shape
  <2>2. LineLimit(cache[q]) \in Nat
    BY Limits
  <2>3. noting'[q] = <<>> => noting[q] = <<>> /\ LineLimit(cache'[q]) <= LineLimit(cache[q])
    BY <2>1, <2>2
  <2>4. Lined(q)' = Lined(q) /\ \A s \in Waiting(line[q]) : at'[s] = at[s]
    BY <1>1, <1>2
  <2> QED BY <2>1, <2>3, <2>4, LineKept
<1> QED BY <1>1, <1>3, <1>5, <1>6, <1>7 DEF LinesStep, LInv

\* The limit of the server's line changes, and the line is drained with it.
LEMMA SettingLines ==
  ASSUME LInv, NEW s \in Settings, PutSettings(s)
  PROVE  LinesStep
<1>1. /\ UNCHANGED <<proj, at, line, cache, noting>> /\ setting' = s
      /\ server' = Drained(server, Limit') /\ ops < MaxOps /\ ops' = ops + 1
  BY DEF PutSettings
<1>2. ops' \in 0..MaxOps
  BY <1>1, SlotsAssumption DEF LInv
<1>3. Served' = Served /\ (\A q : Lined(q)' = Lined(q)) /\ Served \in SUBSET Runs
  BY <1>1 DEF Served, Lined, OfProject
<1>4. Limit' \in Nat
  <2>1. Cpus \in Nat /\ setting' \in Nat
    BY <1>1, SlotsAssumption
  <2> QED BY <2>1 DEF Limit, SuiteRunLimit, Min2, Max2
<1>5. /\ Whole(server', Served) /\ Grants(server, Served, server', Served, Limit')
      /\ Waiting(server') \subseteq Waiting(server) /\ Busy(server', Limit')
  <2> DEFINE limit == Limit'
  <2>1. limit \in Nat /\ server' = Drained(server, limit) /\ Whole(server, Served)
    BY <1>1, <1>4 DEF LInv, ServerWhole
  <2> HIDE DEF limit
  <2>2. /\ Whole(server', Served) /\ Grants(server, Served, server', Served, limit)
        /\ Waiting(server') \subseteq Waiting(server) /\ Busy(server', limit)
    BY <1>3, <2>1, Drains
  <2> QED BY <2>2 DEF limit
<1>6. Waiting(server)' = Waiting(server') /\ \A r \in Waiting(server') : at'[r] = "server"
  BY <1>1, <1>5 DEF Waiting, LInv, ServerWhole
<1>7. ServerWhole' /\ Granted
  BY <1>3, <1>5, <1>6 DEF ServerWhole, Granted
<1>8. ASSUME NEW q \in Projects PROVE LineWhole(q)'
  <2>1. LineLimit(cache[q]) \in Nat
    BY Limits
  <2>2. line'[q] = line[q] /\ noting'[q] = noting[q] /\ cache'[q] = cache[q] /\ at' = at
    BY <1>1
  <2> QED BY <1>3, <2>1, <2>2, LineKept
<1> QED BY <1>1, <1>2, <1>7, <1>8 DEF LinesStep, LInv

\* Nothing a line depends on changes.
LEMMA StillLines ==
  ASSUME LInv, UNCHANGED vars
  PROVE  LinesStep
<1>1. UNCHANGED <<proj, at, server, line, cache, noting, setting, ops>>
  BY DEF vars, lines, settings
<1>2. Served' = Served /\ \A q : Lined(q)' = Lined(q)
  BY <1>1 DEF Served, Lined, OfProject
<1>3. ServerWhole' /\ Granted
  BY <1>1, <1>2, ServerKept
<1>4. ASSUME NEW q \in Projects PROVE LineWhole(q)'
  <2>1. LineLimit(cache[q]) \in Nat
    BY Limits
  <2>2. line'[q] = line[q] /\ noting'[q] = noting[q] /\ cache'[q] = cache[q] /\ at' = at
    BY <1>1
  <2> QED BY <1>2, <2>1, <2>2, LineKept
<1> QED BY <1>1, <1>3, <1>4 DEF LinesStep, LInv

\* No run is in a line at the start.
LEMMA InitLInv == Init => LInv
<1> SUFFICES ASSUME Init PROVE LInv
  OBVIOUS
<1>1. IInv
  BY InitIInv
<1>2. Served = {} /\ \A p : Lined(p) = {}
  BY DEF Init, Served, Lined, OfProject, AtServer, AtLine
<1>3. Free \in Line /\ Waiting(Free) = {} /\ Free.queue = <<>> /\ Free.running = 0
  BY EmptySeq DEF Free, Line, Waiting
<1>4. Whole(Free, {}) /\ \A limit : Busy(Free, limit)
  BY <1>3, FS_EmptySet DEF Whole, Busy, Free
<1>5. 0 \in 0..MaxOps
  BY SlotsAssumption
<1> QED BY <1>1, <1>2, <1>3, <1>4, <1>5 DEF Init, LInv, ServerWhole, LineWhole

\* Every step keeps both lines whole, and grants within the limit.
LEMMA NextLInv == LInv /\ [Next]_vars => LInv' /\ Granted
<1> SUFFICES ASSUME LInv, [Next]_vars PROVE LInv' /\ Granted
  OBVIOUS
<1>1. IInv'
  BY NextIInv DEF LInv
<1>2. LinesStep
  <2>1. ASSUME NEW r \in Runs, Ask(r) \/ Advance(r) \/ ReadFails(r) PROVE LinesStep
    BY <1>1, <2>1, AskLines, TakeLineLines, TakeSlotLines, RereadLines, DecideLines, EndLines,
       ReadFailsLines DEF Advance
  <2> QED BY <2>1, NoteLines, PutLines, SettingLines, StillLines DEF Next
<1> QED BY <1>1, <1>2 DEF LinesStep, LInv

-----------------------------------------------------------------------------
(* Theorems. *)

\* The lines stay whole: each counts the runs that hold a place, no run waits twice
\* or after it has passed, and nobody waits while there is room.
THEOREM LinesWhole == Spec => []LInv
<1>1. Init => LInv
  BY InitLInv
<1>2. LInv /\ [Next]_vars => LInv'
  BY NextLInv
<1> QED BY <1>1, <1>2, PTL DEF Spec

\* Every variable keeps its type; projectRunning never falls below zero.
THEOREM TypeCorrect == Spec => []TypeOK
<1>1. LInv => TypeOK
  <2> SUFFICES ASSUME LInv PROVE TypeOK
    OBVIOUS
  <2>1. \A p \in Projects : running[p] \in Nat
    BY GoingFinite, FS_CardinalityType DEF LInv, IInv, GoingCounted
  <2>2. running \in [Projects -> Nat]
    BY <2>1 DEF LInv, IInv, Shape
  <2> QED BY <2>2 DEF TypeOK, LInv, IInv, Shape, ServerWhole, Whole
<1> QED BY <1>1, LinesWhole, PTL

\* No slot leaks and none is handed out twice.
THEOREM NoSlotLeaks == Spec => []SlotsCounted
<1>1. LInv => SlotsCounted
  <2> SUFFICES ASSUME LInv PROVE SlotsCounted
    OBVIOUS
  <2>1. Slotted = Served \ Waiting(server)
    BY DEF Slotted, Served, AtServer
  <2>2. \A p : InLine(p) = Lined(p) \ Waiting(line[p])
    BY DEF InLine, Lined, AtLine, AtServer
  <2> QED BY <2>1, <2>2 DEF SlotsCounted, LInv, IInv, ServerWhole, LineWhole, Whole
<1> QED BY <1>1, LinesWhole, PTL

\* Nobody waits while there is room.
THEOREM NobodyWaitsIdle == Spec => []NoIdleSlot
<1>1. LInv => NoIdleSlot
  BY DEF LInv, ServerWhole, LineWhole, Busy, NoIdleSlot
<1> QED BY <1>1, LinesWhole, PTL

\* A slot is granted only within the limit of that moment.
THEOREM GrantedWithin == Spec => WithinLimit
<1> DEFINE Fits == \A r \in Runs : r \in Slotted' \ Slotted => Cardinality(Slotted') <= Limit'
<1>1. LInv /\ [Next]_vars => Fits
  <2> SUFFICES ASSUME LInv, [Next]_vars PROVE Fits
    OBVIOUS
  <2>1. LInv' /\ Granted
    BY NextLInv
  <2>2. Slotted = Served \ Waiting(server) /\ Slotted' = Served' \ Waiting(server')
    BY DEF Slotted, Served, AtServer, Waiting
  <2>3. server'.running = Cardinality(Slotted')
    BY <2>1, <2>2 DEF LInv, ServerWhole, Whole, Waiting
  <2> QED BY <2>1, <2>2, <2>3 DEF Granted, Grants
<1>2. Spec => [][Fits]_vars
  BY <1>1, LinesWhole, PTL DEF Spec
<1> QED BY <1>2 DEF WithinLimit
=============================================================================
