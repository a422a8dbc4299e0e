------------------------- MODULE ItemWorkflowProofs -------------------------
(***************************************************************************)
(* Every safety property of ItemWorkflow, for any number of cards and      *)
(* requests, any flow with its reviews and commits, and any tree to start  *)
(* from - one that re-parenting has made cyclic included.                  *)
(***************************************************************************)
EXTENDS RollUpProofs

Request == [at : {"idle", "put"} \cup Verifying, card : Cards \cup {NoCard},
            from : Int, sends : SUBSET {"status", "parent"}, to : Int,
            prev : {0, PAUSED, IDEAS, TRASHED} \cup Steps,
            parent : Cards \cup {NoCard}, new : Cards \cup {NoCard},
            sees : SUBSET Cards, joined : BOOLEAN]

Typed ==
  /\ item \in Items /\ verifyAt \in {"card", "parent"}
  /\ req \in [Requests -> Request] /\ calls \in Nat /\ unproved \in SUBSET Cards

\* A card yet to be created is under nothing.
UnbornRoot(K) == \A c \in Cards : K[c].status = Unborn => K[c].parent = NoCard

\* A request that waits is about a card that was created, for steps its kind may have.
Sound(r, K) ==
  /\ r.at = "idle" => r = Rest
  /\ r.at # "idle" => r.card \in Cards /\ K[r.card].status # Unborn
  /\ r.at \in Verifying => r.from \in 1..(Last - 1)
  /\ r.at = "commit" => r.from \in CommitAt
  /\ r.at = "put" /\ "status" \in r.sends =>
       r.to \in Steps \cup Platform /\ (r.to = Last => r.from = Last)

\* A command that runs has seen every close its card is owed a suite run for: while
\* it runs, no child can defer to that card.
SeesOwed(r, K, u) ==
  r.at = "command" => \A c \in u : K[c].deferredTo = r.card => c \in r.sees

IInv ==
  /\ Typed
  /\ UnbornRoot(item)
  /\ \A q \in Requests : Sound(req[q], item) /\ SeesOwed(req[q], item, unproved)

-----------------------------------------------------------------------------
(* The direct writes of the handlers, before the roll-up. *)

LEMMA Numbers ==
  /\ Last \in Nat /\ Last > 2 /\ NoCard \notin Cards
  /\ Last \notin Platform /\ Unborn \notin Steps \cup Platform \cup Finished
  /\ Steps \cap Platform = {} /\ {TRASHED, ARCHIVED} \subseteq Finished
  /\ 1..(Last - 1) \subseteq Steps /\ Last \in Steps
  /\ (1..(Last - 1)) \cap Finished = {} /\ 0 \notin Steps
BY WorkflowAssumption
   DEF Platform, Unborn, Steps, Finished, PAUSED, IDEAS, ARCHIVED, TRASHED

LEMMA ItemFields ==
  ASSUME NEW K \in Items, NEW c \in Cards
  PROVE  /\ K[c].status \in Steps \cup Platform \cup {Unborn}
         /\ K[c].prev \in {0, PAUSED, IDEAS, TRASHED} \cup Steps
         /\ K[c].parent \in Cards \cup {NoCard} /\ K[c].deferredTo \in Cards \cup {NoCard}
         /\ K[c].snapshot \in 0..(Last - 1)
BY DEF Items, Item

Put(K, c, s) == [K EXCEPT ![c].status = s]

LEMMA WriteStatus ==
  ASSUME NEW K \in Items, NEW c \in Cards, NEW s \in Steps \cup Platform
  PROVE  LET J == Put(K, c, s) IN
         /\ J \in Items
         /\ J[c].status = s /\ \A d \in Cards \ {c} : J[d] = K[d]
         /\ \A d \in Cards : J[d].parent = K[d].parent /\ J[d].deferredTo = K[d].deferredTo
BY DEF Items, Item, Put

\* What every direct write keeps: a card that was created, and what it deferred to.
Keeps(K, J) ==
  /\ J \in Items
  /\ \A c \in Cards : K[c].status # Unborn => J[c].status # Unborn
  /\ \A c \in Cards : J[c].deferredTo = K[c].deferredTo

LEMMA RaisedKeeps ==
  ASSUME NEW K \in Items, NEW J, Raised(K, J)
  PROVE  Keeps(K, J) /\ (UnbornRoot(K) => UnbornRoot(J))
BY Numbers DEF Raised, Forward, Keeps, UnbornRoot

LEMMA KeepsTwice ==
  ASSUME NEW K \in Items, NEW J, NEW I, Keeps(K, J), Keeps(J, I)
  PROVE  Keeps(K, I)
BY DEF Keeps

LEMMA RollUpKeeps ==
  ASSUME NEW K \in Items, UnbornRoot(K), NEW p \in Cards \cup {NoCard}, NEW r \in BOOLEAN
  PROVE  Keeps(K, RolledUp(K, p, r)) /\ UnbornRoot(RolledUp(K, p, r))
BY RollUpRaises, RaisedKeeps

LEMMA LeftBehindRaises ==
  ASSUME NEW K \in Items, NEW old \in Cards \cup {NoCard}, NEW new
  PROVE  Raised(K, LeftBehind(K, old, new))
<1>1. CASE old # new
  <2>1. \A r \in BOOLEAN : Raised(K, RolledUp(K, old, r))
    BY RollUpRaises
  <2>2. Raised(K, RolledUp(K, old, TRUE))
    BY <2>1
  <2>3. QED
    BY <1>1, <2>2 DEF LeftBehind
<1>2. CASE old = new
  BY <1>2, RaisedNothing DEF LeftBehind
<1>3. QED
  BY <1>1, <1>2

\* The cards of a subtree were created, but for its root.
LEMMA SubtreeBorn ==
  ASSUME NEW K \in Items, UnbornRoot(K), NEW c, NEW S \in SUBSET Cards,
         NEW d \in Subtree(K, c, S), d # c
  PROVE  K[d].status # Unborn
BY SubtreeUp, SubtreeWithin, Numbers DEF UnbornRoot

LEMMA ArchivedIs ==
  ASSUME item \in Items, UnbornRoot(item), NEW c \in Cards, item[c].status # Unborn
  PROVE  LET S == Subtree(item, c, {d \in Cards : item[d].status # ARCHIVED}) IN
         /\ Keeps(item, Archived(c)) /\ UnbornRoot(Archived(c))
         /\ \A d \in S : Archived(c)[d].status = ARCHIVED
         /\ \A d \in Cards \ S : Archived(c)[d] = item[d]
         /\ \A d \in Cards : Archived(c)[d].parent = item[d].parent
<1> DEFINE S == Subtree(item, c, {d \in Cards : item[d].status # ARCHIVED})
<1>1. S \subseteq {d \in Cards : item[d].status # ARCHIVED}
  BY SubtreeWithin
<1>2. \A d \in S : item[d].status # Unborn
  BY SubtreeBorn
<1> HIDE DEF S
<1>3. Archived(c) = [d \in Cards |-> IF d \in S THEN [item[d] EXCEPT !.prev = item[d].status,
                                                                    !.status = ARCHIVED]
                                     ELSE item[d]]
  BY DEF Archived, S
<1>4. \A d \in Cards : item[d] \in Item
  BY DEF Items
<1>5. \A d \in S : item[d].status \in {PAUSED, IDEAS, TRASHED} \cup Steps
  BY <1>1, <1>2, ItemFields DEF Platform
<1>6. \A d \in S : [item[d] EXCEPT !.prev = item[d].status, !.status = ARCHIVED] \in Item
  BY <1>1, <1>4, <1>5 DEF Item, Platform
<1>7. Archived(c) \in Items
  BY <1>3, <1>4, <1>6 DEF Items
<1>8. \A d \in S : Archived(c)[d] = [item[d] EXCEPT !.prev = item[d].status, !.status = ARCHIVED]
  BY <1>1, <1>3
<1>9. \A d \in Cards \ S : Archived(c)[d] = item[d]
  BY <1>3
<1>10. \A d \in S : /\ Archived(c)[d].status = ARCHIVED /\ Archived(c)[d].parent = item[d].parent
                   /\ Archived(c)[d].deferredTo = item[d].deferredTo
  BY <1>1, <1>4, <1>8 DEF Item
<1>11. ARCHIVED # Unborn
  BY DEF ARCHIVED, Unborn
<1>12. QED
  BY <1>1, <1>7, <1>9, <1>10, <1>11 DEF Keeps, UnbornRoot, S

LEMMA UnarchivedIs ==
  ASSUME item \in Items, UnbornRoot(item), NEW c \in Cards
  PROVE  /\ Keeps(item, Unarchived(c)) /\ UnbornRoot(Unarchived(c))
         /\ \A d \in Cards : Unarchived(c)[d] = item[d] \/ item[d].status = ARCHIVED
<1> DEFINE S    == Subtree(item, c, {d \in Cards : item[d].status = ARCHIVED})
           B(d) == [item[d] EXCEPT !.status = IF item[d].prev = 0 THEN 1 ELSE item[d].prev,
                                   !.prev = 0]
<1>1. S \subseteq {d \in Cards : item[d].status = ARCHIVED}
  BY SubtreeWithin
<1> HIDE DEF S
<1>2. Unarchived(c) = [d \in Cards |-> IF d \in S THEN B(d) ELSE item[d]]
  BY DEF Unarchived, S
<1>3. \A d \in Cards : item[d] \in Item
  BY DEF Items
<1>4. \A d \in S : (IF item[d].prev = 0 THEN 1 ELSE item[d].prev)
                   \in {PAUSED, IDEAS, TRASHED} \cup Steps
  <2>1. 1 \in Steps
    BY Numbers DEF Steps
  <2>2. QED
    BY <1>1, <2>1, ItemFields
<1>5. \A d \in S : /\ B(d) \in Item /\ B(d).parent = item[d].parent
                  /\ B(d).deferredTo = item[d].deferredTo
                  /\ B(d).status \in {PAUSED, IDEAS, TRASHED} \cup Steps
  BY <1>1, <1>3, <1>4 DEF Item, Platform
<1> HIDE DEF B
<1>6. Unarchived(c) \in Items
  BY <1>1, <1>2, <1>3, <1>5 DEF Items
<1>7. \A d \in Cards : Unarchived(c)[d] = IF d \in S THEN B(d) ELSE item[d]
  BY <1>2
<1>8. Unborn \notin {PAUSED, IDEAS, TRASHED} \cup Steps
  BY Numbers DEF Platform
<1>9. QED
  BY <1>1, <1>5, <1>6, <1>7, <1>8 DEF Keeps, UnbornRoot

LEMMA TrashedIs ==
  ASSUME item \in Items, UnbornRoot(item),
         NEW R \in SUBSET Cards, \A c \in R : item[c].status # Unborn
  PROVE  LET S == UNION {Subtree(item, c, {d \in Cards : item[d].status # TRASHED}) : c \in R} IN
         /\ Keeps(item, Trashed(R)) /\ UnbornRoot(Trashed(R))
         /\ S \subseteq Cards
         /\ \A d \in S : Trashed(R)[d].status = TRASHED
         /\ \A d \in Cards \ S : Trashed(R)[d] = item[d]
         /\ \A d \in Cards : Trashed(R)[d].parent = item[d].parent
<1> DEFINE S == UNION {Subtree(item, c, {d \in Cards : item[d].status # TRASHED}) : c \in R}
<1>1. S \subseteq Cards
  <2>1. \A c \in R : Subtree(item, c, {d \in Cards : item[d].status # TRASHED}) \subseteq Cards
    BY SubtreeWithin
  <2>2. QED
    BY <2>1
<1> HIDE DEF S
<1>2. Trashed(R) = [d \in Cards |-> IF d \in S THEN [item[d] EXCEPT !.status = TRASHED]
                                   ELSE item[d]]
  BY DEF Trashed, S
<1>3. \A d \in Cards : item[d] \in Item
  BY DEF Items
<1>4. \A d \in S : LET B == [item[d] EXCEPT !.status = TRASHED] IN
                   /\ B \in Item /\ B.status = TRASHED
                   /\ B.parent = item[d].parent /\ B.deferredTo = item[d].deferredTo
  BY <1>1, <1>3 DEF Item, Platform
<1>5. Trashed(R) \in Items
  BY <1>1, <1>2, <1>3, <1>4 DEF Items
<1>6. \A d \in S : Trashed(R)[d] = [item[d] EXCEPT !.status = TRASHED]
  BY <1>1, <1>2
<1>7. \A d \in Cards \ S : Trashed(R)[d] = item[d]
  BY <1>2
<1>8. TRASHED # Unborn
  BY DEF TRASHED, Unborn
<1>9. Keeps(item, Trashed(R)) /\ UnbornRoot(Trashed(R))
  BY <1>1, <1>4, <1>5, <1>6, <1>7, <1>8 DEF Keeps, UnbornRoot
<1>10. QED
  BY <1>1, <1>4, <1>6, <1>7, <1>9 DEF S

-----------------------------------------------------------------------------
(* The invariant, action by action. *)

\* A step that ends requests, or none, and writes what every write keeps.
LEMMA InvEnds ==
  ASSUME IInv, Keeps(item, item'), UnbornRoot(item'), verifyAt' \in {"card", "parent"},
         calls' \in Nat, unproved' \in SUBSET unproved,
         req' \in [Requests -> Request],
         \A q \in Requests : req'[q] = req[q] \/ req'[q] = Rest
  PROVE  IInv'
<1>1. Typed'
  BY DEF IInv, Typed, Keeps
<1>2. UnbornRoot(item)'
  BY DEF UnbornRoot
<1>3. ASSUME NEW q \in Requests
      PROVE  Sound(req'[q], item') /\ SeesOwed(req'[q], item', unproved')
  <2>1. CASE req'[q] = Rest
    BY <2>1 DEF Sound, SeesOwed, Rest, Verifying
  <2>2. CASE req'[q] = req[q]
    <3>1. Sound(req[q], item) /\ SeesOwed(req[q], item, unproved)
      BY DEF IInv
    <3>2. unproved \subseteq Cards
      BY DEF IInv, Typed
    <3>3. QED
      BY <2>2, <3>1, <3>2 DEF Sound, SeesOwed, Keeps
  <2>3. QED
    BY <2>1, <2>2
<1>4. QED
  BY <1>1, <1>2, <1>3 DEF IInv, Sound, SeesOwed

LEMMA RestTyped == Rest \in Request /\ Rest.at = "idle"
BY WorkflowAssumption DEF Rest, Request

LEMMA AnswerTyped ==
  ASSUME IInv, NEW q \in Requests, req' = Answer(q)
  PROVE  /\ req' \in [Requests -> Request] /\ req'[q] = Rest
         /\ \A x \in Requests : req'[x] = req[x] \/ req'[x] = Rest
BY RestTyped DEF Answer, IInv, Typed

\* A step of one request that writes no card.
LEMMA InvAsks ==
  ASSUME IInv, item' = item, verifyAt' = verifyAt, calls' \in Nat, unproved' = unproved,
         NEW q \in Requests, NEW r \in Request, req' = [req EXCEPT ![q] = r],
         Sound(r, item), SeesOwed(r, item, unproved)
  PROVE  IInv'
<1>1. Typed'
  BY DEF IInv, Typed
<1>2. \A x \in Requests : req'[x] = IF x = q THEN r ELSE req[x]
  BY DEF IInv, Typed
<1>3. UnbornRoot(item)'
  BY DEF IInv, UnbornRoot
<1>4. \A x \in Requests : Sound(req'[x], item') /\ SeesOwed(req'[x], item', unproved')
  BY <1>2 DEF IInv
<1>5. QED
  BY <1>1, <1>3, <1>4 DEF IInv, Sound, SeesOwed

\* The move of a verify, from a step of the flow that is not the last.
LEMMA AdvancedIs ==
  ASSUME item \in Items, NEW q, NEW c \in Cards, c = req[q].card, req[q].from \in 1..(Last - 1),
         NEW K, K = Moved(c, req[q].from + 1)
  PROVE  /\ K \in Items /\ K[c].status = req[q].from + 1 /\ req[q].from + 1 \in Steps
         /\ \A d \in Cards \ {c} : K[d] = item[d]
         /\ \A d \in Cards : K[d].parent = item[d].parent /\ K[d].deferredTo = item[d].deferredTo
         /\ Raised(K, Advanced(q))
         /\ \/ Advanced(q) = K /\ req[q].from = 1
            \/ /\ req[q].from # 1
               /\ \E r \in BOOLEAN : /\ r <=> (req[q].from + 1 = Last)
                                    /\ Advanced(q) = RolledUp(K, item[c].parent, r)
<1>1. req[q].from + 1 \in Steps
  BY Numbers DEF Steps
<1>2. /\ K \in Items /\ K[c].status = req[q].from + 1
      /\ \A d \in Cards \ {c} : K[d] = item[d]
      /\ \A d \in Cards : K[d].parent = item[d].parent /\ K[d].deferredTo = item[d].deferredTo
  <2>1. K = Put(item, c, req[q].from + 1)
    BY DEF Moved, Put
  <2>2. QED
    BY <1>1, <2>1, WriteStatus
<1>3. item[c].parent \in Cards \cup {NoCard}
  BY ItemFields
<1>4. \A r \in BOOLEAN : Raised(K, RolledUp(K, item[c].parent, r))
  BY <1>2, <1>3, RollUpRaises
<1>5. CASE req[q].from = 1
  <2>1. Advanced(q) = K
    BY <1>5 DEF Advanced
  <2>2. QED
    BY <1>1, <1>2, <1>5, <2>1, RaisedNothing
<1>6. CASE req[q].from # 1
  <2>1. PICK r \in BOOLEAN : r = (req[q].from + 1 = Last)
    OBVIOUS
  <2>2. Advanced(q) = RolledUp(K, item[c].parent, r)
    BY <1>6, <2>1 DEF Advanced
  <2>3. Raised(K, Advanced(q))
    BY <1>4, <2>2
  <2>4. r <=> (req[q].from + 1 = Last)
    BY <2>1
  <2>5. QED
    BY <1>1, <1>2, <1>6, <2>2, <2>3, <2>4
<1>7. QED
  BY <1>5, <1>6

LEMMA AdvancedKeeps ==
  ASSUME IInv, NEW q \in Requests, req[q].at \in Verifying
  PROVE  Keeps(item, Advanced(q)) /\ UnbornRoot(Advanced(q))
<1> DEFINE c == req[q].card  K == Moved(c, req[q].from + 1)
<1>1. c \in Cards /\ item[c].status # Unborn /\ req[q].from \in 1..(Last - 1)
      /\ item \in Items /\ UnbornRoot(item)
  BY DEF IInv, Typed, Sound, Verifying
<1>2. /\ K \in Items /\ K[c].status \in Steps /\ Raised(K, Advanced(q))
      /\ \A d \in Cards \ {c} : K[d] = item[d]
      /\ \A d \in Cards : K[d].parent = item[d].parent /\ K[d].deferredTo = item[d].deferredTo
  BY <1>1, AdvancedIs
<1> HIDE DEF K
<1>3. Keeps(item, K)
  BY <1>1, <1>2, Numbers DEF Keeps
<1>4. UnbornRoot(K)
  BY <1>1, <1>2, Numbers DEF UnbornRoot
<1>5. QED
  BY <1>1, <1>2, <1>3, <1>4, RaisedKeeps, KeepsTwice

LEMMA InvAnswers ==
  ASSUME IInv, NEW q \in Requests, req' = Answer(q), Keeps(item, item'), UnbornRoot(item'),
         verifyAt' = verifyAt, calls' = calls, unproved' \in SUBSET unproved
  PROVE  IInv'
BY InvEnds, AnswerTyped DEF IInv, Typed

LEMMA InvRoute ==
  ASSUME IInv, req' = req, Keeps(item, item'), UnbornRoot(item'),
         verifyAt' = verifyAt, Call, unproved' = unproved
  PROVE  IInv'
<1>1. calls' \in Nat
  BY DEF Call, IInv, Typed
<1>2. QED
  BY <1>1, InvEnds DEF IInv, Typed

LEMMA KeepsNothing ==
  ASSUME IInv
  PROVE  Keeps(item, item) /\ UnbornRoot(item)
BY DEF IInv, Typed, Keeps

LEMMA InvRefuse ==
  ASSUME IInv, NEW q \in Requests, Refuse(q)
  PROVE  IInv'
BY InvAnswers, KeepsNothing DEF Refuse

LEMMA InvVerify ==
  ASSUME IInv, NEW q \in Requests, NEW c \in Cards, Verify(q, c)
  PROVE  IInv'
<1> DEFINE r == [Rest EXCEPT !.at = "gate", !.card = c, !.from = item[c].status]
<1>1. item[c].status \in 1..(Last - 1) /\ item[c].status # Unborn /\ item[c].status \in Int
  BY Numbers DEF Verify, Steps
<1>2. r \in Request
  BY <1>1, RestTyped DEF Request, Verifying
<1>3. Sound(r, item) /\ SeesOwed(r, item, unproved)
  BY <1>1 DEF Sound, SeesOwed, Rest, Verifying
<1>4. calls' \in Nat
  BY DEF Verify, Call, IInv, Typed
<1>5. QED
  BY <1>2, <1>3, <1>4, InvAsks DEF Verify

\* What a PUT may send was checked, or is what it has just read.
LEMMA Sent ==
  ASSUME item \in Items, NEW c \in Cards, item[c].status # Unborn
  PROVE  /\ Sendable(c) \subseteq Steps \cup Platform
         /\ Last \in Sendable(c) => item[c].status = Last
         /\ Assignable(c) \subseteq Cards \cup {NoCard}
<1>1. {1, 2} \subseteq Steps /\ \A i \in Steps : 1..i \subseteq Steps
  BY WorkflowAssumption DEF Steps
<1>2. Allowed(c) \subseteq Steps \cup Platform
  BY <1>1 DEF Allowed, Returnable
<1>3. QED
  BY <1>2, ItemFields DEF Sendable, Assignable

LEMMA InvAskPut ==
  ASSUME IInv, NEW q \in Requests, NEW c \in Cards, NEW sends \in SUBSET {"status", "parent"},
         AskPut(q, c, sends)
  PROVE  IInv'
<1>1. item \in Items /\ item[c].status # Unborn
  BY DEF IInv, Typed, AskPut
<1>2. PICK to \in IF "status" \in sends THEN Sendable(c) ELSE {0},
           p \in IF "parent" \in sends THEN Assignable(c) ELSE {NoCard} :
        req' = [req EXCEPT ![q] = [Rest EXCEPT !.at = "put", !.card = c, !.sends = sends,
                  !.from = item[c].status, !.to = to, !.prev = PreviousAfter(c, to),
                  !.parent = item[c].parent, !.new = p]]
  BY DEF AskPut
<1> DEFINE r == [Rest EXCEPT !.at = "put", !.card = c, !.sends = sends,
                   !.from = item[c].status, !.to = to, !.prev = PreviousAfter(c, to),
                   !.parent = item[c].parent, !.new = p]
<1>3. /\ "status" \in sends => to \in Steps \cup Platform /\ (to = Last => item[c].status = Last)
      /\ "status" \notin sends => to = 0
      /\ p \in Cards \cup {NoCard}
  BY <1>1, Sent
<1>4. item[c].status \in Int /\ to \in Int
  BY <1>1, <1>3, ItemFields, Numbers
     DEF Steps, Platform, PAUSED, IDEAS, ARCHIVED, TRASHED, Unborn
<1>5. PreviousAfter(c, to) \in {0, PAUSED, IDEAS, TRASHED} \cup Steps
  BY <1>1, ItemFields DEF PreviousAfter
<1>6. item[c].parent \in Cards \cup {NoCard}
  BY <1>1, ItemFields
<1>7. r \in Request
  BY <1>3, <1>4, <1>5, <1>6, RestTyped DEF Request
<1>8. /\ r.at = "put" /\ r.card = c /\ r.sends = sends /\ r.from = item[c].status /\ r.to = to
  BY DEF Rest
<1> HIDE DEF r
<1>9. Sound(r, item) /\ SeesOwed(r, item, unproved)
  BY <1>1, <1>3, <1>8 DEF Sound, SeesOwed, Verifying
<1>10. calls' \in Nat
  BY DEF AskPut, Call, IInv, Typed
<1>11. QED
  BY <1>2, <1>7, <1>9, <1>10, InvAsks DEF AskPut, r

\* A request that is being verified is about a card that was created.
LEMMA Verified ==
  ASSUME IInv, NEW q \in Requests, req[q].at \in Verifying
  PROVE  /\ req[q] \in Request /\ req[q].card \in Cards
         /\ item[req[q].card].status # Unborn
         /\ req[q].from \in 1..(Last - 1) /\ (req[q].at = "commit" => req[q].from \in CommitAt)
         /\ item \in Items /\ UnbornRoot(item)
BY DEF IInv, Typed, Sound, Verifying

\* A verify that goes on to its command, its commit or to wait for a sibling.
LEMMA InvGoesOn ==
  ASSUME IInv, NEW q \in Requests, req[q].at \in Verifying,
         item' = item, verifyAt' = verifyAt, calls' = calls, unproved' = unproved,
         RunCommand(q) \/ Join(q)
           \/ (req[q].from \in CommitAt /\ req' = [req EXCEPT ![q].at = "commit"])
  PROVE  IInv'
<1>1. /\ req[q] \in Request /\ req[q].card \in Cards /\ item[req[q].card].status # Unborn
      /\ req[q].from \in 1..(Last - 1)
  BY Verified
<1>2. calls' \in Nat /\ unproved \in SUBSET Cards
  BY DEF IInv, Typed
<1>3. CASE RunCommand(q)
  <2> DEFINE r == [req[q] EXCEPT !.at = "command", !.sees = unproved]
  <2>1. r \in Request /\ req' = [req EXCEPT ![q] = r]
    BY <1>1, <1>2, <1>3 DEF Request, RunCommand, Verifying
  <2>2. Sound(r, item) /\ SeesOwed(r, item, unproved)
    BY <1>1 DEF Sound, SeesOwed, Verifying, Request
  <2>3. QED
    BY <1>2, <2>1, <2>2, InvAsks
<1>4. CASE Join(q)
  <2> DEFINE r == [req[q] EXCEPT !.at = "join", !.joined = TRUE]
  <2>1. r \in Request /\ req' = [req EXCEPT ![q] = r]
    BY <1>1, <1>4 DEF Request, Join, Verifying
  <2>2. Sound(r, item) /\ SeesOwed(r, item, unproved)
    BY <1>1 DEF Sound, SeesOwed, Verifying, Request
  <2>3. QED
    BY <1>2, <2>1, <2>2, InvAsks
<1>5. CASE req[q].from \in CommitAt /\ req' = [req EXCEPT ![q].at = "commit"]
  <2> DEFINE r == [req[q] EXCEPT !.at = "commit"]
  <2>1. r \in Request /\ req' = [req EXCEPT ![q] = r]
    BY <1>1, <1>5 DEF Request, Verifying
  <2>2. Sound(r, item) /\ SeesOwed(r, item, unproved)
    BY <1>1, <1>5 DEF Sound, SeesOwed, Verifying, Request
  <2>3. QED
    BY <1>2, <2>1, <2>2, InvAsks
<1>6. QED
  BY <1>3, <1>4, <1>5

LEMMA InvLeaveStep ==
  ASSUME IInv, NEW q \in Requests, req[q].at \in Verifying, LeaveStep(q),
         verifyAt' = verifyAt, calls' = calls, unproved' = unproved
  PROVE  IInv'
<1>1. CASE req[q].from \in CommitAt
  BY <1>1, InvGoesOn DEF LeaveStep
<1>2. CASE req[q].from \notin CommitAt
  BY <1>2, AdvancedKeeps, InvAnswers DEF LeaveStep, Becomes
<1>3. QED
  BY <1>1, <1>2

\* No verify of the parent runs when its child defers to it, so that what its next
\* verify sees has the child.
LEMMA InvDefer ==
  ASSUME IInv, NEW q \in Requests, req[q].at \in Verifying,
         NEW p \in DeferTo(req[q].card), Defer(q, p),
         verifyAt' = verifyAt, calls' = calls
  PROVE  IInv'
<1> DEFINE c == req[q].card
           K == [item EXCEPT ![c].status = Last, ![c].deferredTo = p]
<1>1. c \in Cards /\ item[c].status # Unborn /\ item \in Items /\ UnbornRoot(item)
  BY Verified
<1>2. /\ p \in Cards /\ RunOf(p) = {} /\ item[c].parent \in Cards \cup {NoCard}
  BY <1>1, ItemFields DEF DeferTo
<1>3. /\ K \in Items /\ K[c].status = Last /\ K[c].deferredTo = p
      /\ \A d \in Cards \ {c} : K[d] = item[d]
      /\ \A d \in Cards : K[d].parent = item[d].parent
  BY <1>1, <1>2, Numbers DEF Items, Item
<1>4. UnbornRoot(K)
  BY <1>1, <1>3, Numbers DEF UnbornRoot
<1>5. Keeps(K, item') /\ UnbornRoot(item')
  <2>1. \A r \in BOOLEAN : Keeps(K, RolledUp(K, item[c].parent, r))
                           /\ UnbornRoot(RolledUp(K, item[c].parent, r))
    BY <1>2, <1>3, <1>4, RollUpKeeps
  <2>2. item' = RolledUp(K, item[c].parent, TRUE)
    BY DEF Defer, Becomes
  <2>3. QED
    BY <2>1, <2>2
<1>6. unproved' = unproved \cup {c}
      /\ req' = [x \in Requests |-> IF x = q THEN Rest ELSE [req[x] EXCEPT !.sees = @ \ {c}]]
  BY DEF Defer
<1> HIDE DEF K, c
<1>7. req' \in [Requests -> Request]
  <2>1. \A x \in Requests : req[x] \in Request
    BY DEF IInv, Typed
  <2>2. \A x \in Requests : [req[x] EXCEPT !.sees = @ \ {c}] \in Request
    BY <2>1 DEF Request
  <2>3. QED
    BY <1>6, <2>2, RestTyped
<1>8. Typed'
  BY <1>1, <1>5, <1>6, <1>7 DEF IInv, Typed, Keeps
<1>9. UnbornRoot(item)'
  BY <1>5 DEF UnbornRoot
<1>10. ASSUME NEW x \in Requests
       PROVE  Sound(req'[x], item') /\ SeesOwed(req'[x], item', unproved')
  <2>1. CASE x = q
    BY <1>6, <2>1 DEF Sound, SeesOwed, Rest, Verifying
  <2>2. CASE x # q
    <3>1. req'[x] = [req[x] EXCEPT !.sees = @ \ {c}] /\ req[x] \in Request
      BY <1>6, <2>2 DEF IInv, Typed
    <3>2. Sound(req[x], item) /\ SeesOwed(req[x], item, unproved)
      BY DEF IInv
    <3>3. /\ req'[x].at = req[x].at /\ req'[x].card = req[x].card
          /\ req'[x].from = req[x].from /\ req'[x].to = req[x].to
          /\ req'[x].sends = req[x].sends /\ req'[x].sees = req[x].sees \ {c}
      BY <3>1 DEF Request
    <3>4. ASSUME req[x].at = "idle"
          PROVE  req'[x] = Rest
      <4>1. Rest.sees \ {c} = Rest.sees
        BY DEF Rest
      <4>2. [Rest EXCEPT !.sees = Rest.sees \ {c}] = Rest
        BY <4>1, RestTyped DEF Request
      <4>3. QED
        BY <3>1, <3>2, <3>4, <4>2 DEF Sound
    <3>5. \A d \in Cards : item[d].status # Unborn => item'[d].status # Unborn
      BY <1>1, <1>3, <1>5, Numbers DEF Keeps
    <3>6. Sound(req'[x], item')
      BY <3>2, <3>3, <3>4, <3>5 DEF Sound
    <3>7. ASSUME req[x].at = "command", NEW d \in unproved', item'[d].deferredTo = req[x].card
          PROVE  d \in req[x].sees \ {c}
      <4>1. req[x].card # p
        BY <1>2, <3>7 DEF RunOf, Verifying
      <4>2. d \in Cards
        BY <1>1, <1>6 DEF IInv, Typed
      <4>3. d # c /\ item[d].deferredTo = req[x].card
        BY <1>3, <1>5, <3>7, <4>1, <4>2 DEF Keeps
      <4>4. QED
        BY <1>6, <3>2, <3>7, <4>3 DEF SeesOwed
    <3>8. SeesOwed(req'[x], item', unproved')
      BY <3>3, <3>7 DEF SeesOwed
    <3>9. QED
      BY <3>6, <3>8
  <2>3. QED
    BY <2>1, <2>2
<1>11. QED
  BY <1>8, <1>9, <1>10 DEF IInv, Sound, SeesOwed

LEMMA InvDecide ==
  ASSUME IInv, NEW q \in Requests, req[q].at \in Verifying, Decide(q)
  PROVE  IInv'
<1>1. verifyAt' = verifyAt /\ calls' = calls
  BY DEF Decide
<1>2. CASE \E p \in DeferTo(req[q].card) : Defer(q, p)
  BY <1>1, <1>2, InvDefer
<1>3. CASE CloseOnGreen(q)
  BY <1>1, <1>3, AdvancedKeeps, InvAnswers DEF CloseOnGreen, Becomes
<1>4. CASE (RunCommand(q) \/ Join(q)) /\ UNCHANGED <<item, unproved, left>>
  BY <1>1, <1>4, InvGoesOn
<1>5. CASE LeaveStep(q) /\ UNCHANGED unproved
  BY <1>1, <1>5, InvLeaveStep
<1>6. QED
  BY <1>2, <1>3, <1>4, <1>5 DEF Decide

LEMMA InvEndsRun ==
  ASSUME IInv, NEW q \in Requests, Ends(q)
  PROVE  IInv'
<1>1. CASE Refuse(q)
  BY <1>1, InvRefuse
<1>2. CASE GateEnds(q)
  BY <1>2, InvDecide DEF GateEnds, Verifying
<1>3. CASE JoinEnds(q)
  BY <1>3, InvDecide DEF JoinEnds, Verifying
<1>4. CASE CommandPasses(q)
  <2>1. req[q].at \in Verifying /\ verifyAt' = verifyAt /\ calls' = calls
    BY <1>4 DEF CommandPasses, Verifying
  <2>2. CASE EndsFlow(req[q].from)
    BY <1>4, <2>1, <2>2, AdvancedKeeps, InvAnswers DEF CommandPasses, Becomes
  <2>3. CASE ~EndsFlow(req[q].from)
    BY <1>4, <2>1, <2>3, InvLeaveStep DEF CommandPasses
  <2>4. QED
    BY <2>2, <2>3
<1>5. CASE CommitEnds(q)
  BY <1>5, AdvancedKeeps, InvAnswers DEF CommitEnds, Becomes, Verifying
<1>6. QED
  BY <1>1, <1>2, <1>3, <1>4, <1>5 DEF Ends

\* The cards as a creation writes them, before the roll-up.
Created(c, p, step) == [item EXCEPT ![c].status = step, ![c].parent = p]

\* And as a PUT writes them.
LEMMA WrittenIs ==
  ASSUME IInv, NEW q \in Requests, req[q].at = "put"
  PROVE  LET r == req[q]  c == r.card  K == Written(q) IN
         /\ c \in Cards /\ item[c].status # Unborn /\ r.parent \in Cards \cup {NoCard}
         /\ "status" \in r.sends =>
              r.to \in Steps \cup Platform /\ (r.to = Last => r.from = Last)
         /\ K \in Items /\ K[c].parent \in Cards \cup {NoCard}
         /\ K[c].status = IF "status" \in r.sends THEN r.to ELSE item[c].status
         /\ K[c].status # Unborn
         /\ \A d \in Cards \ {c} : K[d] = item[d]
         /\ \A d \in Cards : K[d].deferredTo = item[d].deferredTo
<1> DEFINE r == req[q]  c == r.card  K == Written(q)
           status == IF "status" \in r.sends THEN r.to ELSE item[c].status
           prev   == IF Moves(q) THEN r.prev ELSE item[c].prev
           parent == IF "parent" \in r.sends THEN r.new ELSE item[c].parent
           B      == [item[c] EXCEPT !.status = status, !.prev = prev, !.parent = parent]
<1>1. /\ c \in Cards /\ item[c].status # Unborn /\ r \in Request /\ item \in Items
      /\ "status" \in r.sends => r.to \in Steps \cup Platform /\ (r.to = Last => r.from = Last)
  BY DEF IInv, Typed, Sound
<1>2. item[c] \in Item
  BY <1>1 DEF Items
<1>3. /\ status \in Steps \cup Platform /\ status # Unborn
      /\ prev \in {0, PAUSED, IDEAS, TRASHED} \cup Steps
      /\ parent \in Cards \cup {NoCard} /\ r.parent \in Cards \cup {NoCard}
  BY <1>1, ItemFields, Numbers DEF Request
<1>4. K = [item EXCEPT ![c] = B]
  BY <1>1, <1>2 DEF Written, Items, Item
<1> HIDE DEF K, status, prev, parent
<1>5. /\ B \in Item /\ B.status = status /\ B.parent = parent
      /\ B.deferredTo = item[c].deferredTo
  BY <1>2, <1>3 DEF Item
<1> HIDE DEF B
<1>6. /\ K \in Items /\ K[c] = B /\ \A d \in Cards \ {c} : K[d] = item[d]
  BY <1>1, <1>4, <1>5 DEF Items
<1>7. QED
  BY <1>1, <1>3, <1>5, <1>6 DEF K, status

\* A write that keeps what it must, and a raise after it.
LEMMA WrittenAndRaised ==
  ASSUME NEW K, NEW J, Keeps(item, K), UnbornRoot(K), Raised(K, J)
  PROVE  Keeps(item, J) /\ UnbornRoot(J)
<1>1. K \in Items
  BY DEF Keeps
<1>2. Keeps(K, J) /\ UnbornRoot(J)
  BY <1>1, RaisedKeeps
<1>3. QED
  BY <1>2 DEF Keeps

LEMMA RolledUpTrue ==
  ASSUME NEW K \in Items, NEW p \in Cards \cup {NoCard}, NEW r
  PROVE  /\ Raised(K, RolledUp(K, p, TRUE)) /\ Raised(K, RolledUp(K, p, FALSE))
         /\ \A S : Raised(K, RolledUp(K, p, r \in S))
<1>1. \A b \in BOOLEAN : Raised(K, RolledUp(K, p, b))
  BY RollUpRaises
<1>2. Raised(K, RolledUp(K, p, TRUE)) /\ Raised(K, RolledUp(K, p, FALSE))
  BY <1>1
<1>3. ASSUME NEW S
      PROVE  Raised(K, RolledUp(K, p, r \in S))
  <2>1. (r \in S) = TRUE \/ (r \in S) = FALSE
    OBVIOUS
  <2>2. QED
    BY <1>2, <2>1
<1>4. QED
  BY <1>2, <1>3

\* A PUT that is no business of the archive: its write, and what the two roll-ups raise.
Plain(q) == ~(Moves(q) /\ (req[q].to = ARCHIVED \/ req[q].from = ARCHIVED))

LEMMA PlainPut ==
  ASSUME IInv, NEW q \in Requests, PutEnds(q), Plain(q)
  PROVE  LET K == Written(q)  parent == K[req[q].card].parent IN
         /\ Raised(K, item')
         /\ \E r \in BOOLEAN : /\ r <=> (Moves(q) /\ req[q].to \in Finished)
                              /\ RolledUp(K, parent, r) \in Items
                              /\ item' = LeftBehind(RolledUp(K, parent, r), req[q].parent, parent)
<1> DEFINE K == Written(q)  parent == K[req[q].card].parent
<1>1. /\ K \in Items /\ parent \in Cards \cup {NoCard}
      /\ req[q].parent \in Cards \cup {NoCard}
  BY WrittenIs DEF PutEnds
<1>2. PICK r \in BOOLEAN : r = (Moves(q) /\ req[q].to \in Finished)
  OBVIOUS
<1> DEFINE J == RolledUp(K, parent, r)
<1>3. item' = LeftBehind(J, req[q].parent, parent)
  BY <1>2 DEF PutEnds, Becomes, Plain
<1> HIDE DEF K, parent
<1>4. Raised(K, J)
  BY <1>1, RollUpRaises
<1>5. J \in Items
  BY <1>4 DEF Raised, Forward
<1> HIDE DEF J
<1>6. Raised(J, item')
  BY <1>1, <1>3, <1>5, LeftBehindRaises
<1>7. Raised(K, item')
  BY <1>1, <1>4, <1>5, <1>6, RaisedTwice
<1>8. r <=> (Moves(q) /\ req[q].to \in Finished)
  BY <1>2
<1>9. QED
  BY <1>3, <1>5, <1>7, <1>8 DEF K, parent, J

\* One that takes a card out of the archive, or puts one there.
LEMMA ArchivingPut ==
  ASSUME IInv, NEW q \in Requests, PutEnds(q), Moves(q), req[q].to = ARCHIVED
  PROVE  LET c == req[q].card IN
         /\ item' = RolledUp(Archived(c), req[q].parent, TRUE)
         /\ Raised(Archived(c), item')
         /\ Keeps(item, Archived(c)) /\ UnbornRoot(Archived(c))
<1> DEFINE c == req[q].card
<1>1. c \in Cards /\ item[c].status # Unborn /\ req[q].parent \in Cards \cup {NoCard}
  BY WrittenIs DEF PutEnds
<1>2. item' = RolledUp(Archived(c), req[q].parent, TRUE)
  BY DEF PutEnds, Becomes
<1>3. Keeps(item, Archived(c)) /\ UnbornRoot(Archived(c))
  BY <1>1, ArchivedIs DEF IInv, Typed
<1>4. Raised(Archived(c), RolledUp(Archived(c), req[q].parent, TRUE))
  BY <1>1, <1>3, RolledUpTrue DEF Keeps
<1>5. QED
  BY <1>2, <1>3, <1>4

LEMMA UnarchivingPut ==
  ASSUME IInv, NEW q \in Requests, PutEnds(q), Moves(q), req[q].to # ARCHIVED,
         req[q].from = ARCHIVED
  PROVE  LET c == req[q].card IN
         /\ item' \in Items /\ item'[c].status = req[q].to
         /\ \A d \in Cards \ {c} : item'[d] = Unarchived(c)[d]
         /\ \A d \in Cards : /\ item'[d].parent = Unarchived(c)[d].parent
                             /\ item'[d].deferredTo = Unarchived(c)[d].deferredTo
         /\ Keeps(item, Unarchived(c)) /\ UnbornRoot(Unarchived(c))
         /\ \A d \in Cards : Unarchived(c)[d] = item[d] \/ item[d].status = ARCHIVED
<1> DEFINE c == req[q].card  to == req[q].to  U == Unarchived(c)
<1>1. c \in Cards /\ to \in Steps \cup Platform
  BY WrittenIs DEF PutEnds, Moves
<1>2. /\ Keeps(item, U) /\ UnbornRoot(U)
      /\ \A d \in Cards : U[d] = item[d] \/ item[d].status = ARCHIVED
  BY <1>1, UnarchivedIs DEF IInv, Typed
<1>3. item' = Put(U, c, to)
  BY DEF PutEnds, Becomes, Put
<1> HIDE DEF U, c, to
<1>4. /\ Put(U, c, to) \in Items /\ Put(U, c, to)[c].status = to
      /\ \A d \in Cards \ {c} : Put(U, c, to)[d] = U[d]
      /\ \A d \in Cards : /\ Put(U, c, to)[d].parent = U[d].parent
                          /\ Put(U, c, to)[d].deferredTo = U[d].deferredTo
  BY <1>1, <1>2, WriteStatus DEF Keeps
<1>5. QED
  BY <1>2, <1>3, <1>4 DEF U, c, to

LEMMA InvPutEnds ==
  ASSUME IInv, NEW q \in Requests, PutEnds(q)
  PROVE  IInv'
<1> DEFINE c == req[q].card  K == Written(q)
<1>1. SUFFICES Keeps(item, item') /\ UnbornRoot(item')
  BY InvAnswers DEF PutEnds
<1>2. item \in Items /\ UnbornRoot(item)
  BY DEF IInv, Typed
<1>3. CASE Moves(q) /\ req[q].to = ARCHIVED
  BY <1>3, ArchivingPut, WrittenAndRaised
<1>4. CASE Moves(q) /\ req[q].to # ARCHIVED /\ req[q].from = ARCHIVED
  <2>1. req[q].to # Unborn /\ c \in Cards
    BY <1>4, WrittenIs, Numbers DEF PutEnds, Moves
  <2>2. /\ item' \in Items /\ item'[c].status = req[q].to
        /\ \A d \in Cards \ {c} : item'[d] = Unarchived(c)[d]
        /\ \A d \in Cards : /\ item'[d].parent = Unarchived(c)[d].parent
                            /\ item'[d].deferredTo = Unarchived(c)[d].deferredTo
        /\ Keeps(item, Unarchived(c)) /\ UnbornRoot(Unarchived(c))
    BY <1>4, UnarchivingPut
  <2>3. QED
    BY <2>1, <2>2 DEF Keeps, UnbornRoot
<1>5. CASE Plain(q)
  <2>1. /\ K \in Items /\ K[c].status # Unborn /\ c \in Cards
        /\ \A d \in Cards \ {c} : K[d] = item[d]
        /\ \A d \in Cards : K[d].deferredTo = item[d].deferredTo
    BY WrittenIs DEF PutEnds
  <2>2. Raised(K, item')
    BY <1>5, PlainPut
  <2> HIDE DEF K
  <2>3. Keeps(item, K) /\ UnbornRoot(K)
    BY <1>2, <2>1 DEF Keeps, UnbornRoot
  <2>4. QED
    BY <2>2, <2>3, WrittenAndRaised
<1>6. QED
  BY <1>3, <1>4, <1>5 DEF Plain

LEMMA CreatedIs ==
  ASSUME IInv, NEW c \in Cards, NEW p \in Cards, NEW step \in 1..(Last - 1)
  PROVE  LET K == Created(c, p, step) IN
         /\ K \in Items /\ K[c].status = step /\ K[c].parent = p
         /\ \A d \in Cards \ {c} : K[d] = item[d]
         /\ \A d \in Cards : K[d].deferredTo = item[d].deferredTo
<1>1. item \in Items /\ step \in Steps
  BY Numbers DEF IInv, Typed
<1>2. QED
  BY <1>1 DEF Items, Item, Created

LEMMA PausedIs ==
  ASSUME IInv, NEW c \in Cards, Pause(c)
  PROVE  /\ item' \in Items /\ item'[c].status = PAUSED /\ item[c].status \in 1..(Last - 1)
         /\ \A d \in Cards \ {c} : item'[d] = item[d]
         /\ \A d \in Cards : /\ item'[d].parent = item[d].parent
                             /\ item'[d].deferredTo = item[d].deferredTo
<1> DEFINE B == [item[c] EXCEPT !.status = PAUSED, !.prev = 0, !.snapshot = item[c].status]
<1>1. item \in Items /\ item[c] \in Item
  BY DEF IInv, Typed, Items
<1>2. item[c].status \in 1..(Last - 1) /\ item[c].status \in 0..(Last - 1)
  BY WorkflowAssumption DEF Pause
<1>3. item' = [item EXCEPT ![c] = B]
  BY <1>1 DEF Pause, Becomes, Items
<1>4. /\ B \in Item /\ B.status = PAUSED
      /\ B.parent = item[c].parent /\ B.deferredTo = item[c].deferredTo
  BY <1>1, <1>2 DEF Item, Platform
<1> HIDE DEF B
<1>5. QED
  BY <1>1, <1>2, <1>3, <1>4 DEF Items

LEMMA ResumedIs ==
  ASSUME IInv, NEW c \in Cards, Resume(c)
  PROVE  /\ item' \in Items /\ item'[c].status \in 1..(Last - 1) /\ item[c].status = PAUSED
         /\ \A d \in Cards \ {c} : item'[d] = item[d]
         /\ \A d \in Cards : /\ item'[d].parent = item[d].parent
                             /\ item'[d].deferredTo = item[d].deferredTo
<1> DEFINE B == [item[c] EXCEPT !.status = item[c].snapshot, !.prev = 0, !.snapshot = 0]
<1>1. item \in Items /\ item[c] \in Item
  BY DEF IInv, Typed, Items
<1>2. /\ item[c].snapshot \in 1..(Last - 1) /\ 0 \in 0..(Last - 1) /\ item[c].status = PAUSED
      /\ item[c].snapshot \in Steps
  BY <1>1, ItemFields, WorkflowAssumption DEF Resume, Steps
<1>3. item' = [item EXCEPT ![c] = B]
  BY <1>1 DEF Resume, Becomes, Items
<1>4. /\ B \in Item /\ B.status = item[c].snapshot
      /\ B.parent = item[c].parent /\ B.deferredTo = item[c].deferredTo
  BY <1>1, <1>2 DEF Item
<1> HIDE DEF B
<1>5. QED
  BY <1>1, <1>2, <1>3, <1>4 DEF Items

LEMMA InvRoutes ==
  ASSUME IInv, Routes
  PROVE  IInv'
<1>1. item \in Items /\ UnbornRoot(item)
  BY DEF IInv, Typed
<1>2. ASSUME NEW c \in Cards, Delete(c)
      PROVE  IInv'
  <2>1. Keeps(item, Trashed({c})) /\ UnbornRoot(Trashed({c}))
    BY <1>1, <1>2, TrashedIs DEF Delete
  <2>2. Raised(Trashed({c}), RolledUp(Trashed({c}), item[c].parent, TRUE))
    BY <1>1, <2>1, RolledUpTrue, ItemFields DEF Keeps
  <2>3. item' = RolledUp(Trashed({c}), item[c].parent, TRUE)
    BY <1>2 DEF Delete, Becomes
  <2>4. QED
    BY <1>2, <2>1, <2>2, <2>3, WrittenAndRaised, InvRoute DEF Delete
<1>3. ASSUME NEW c \in Cards, Pause(c)
      PROVE  IInv'
  <2>1. PAUSED # Unborn
    BY DEF PAUSED, Unborn
  <2>2. Keeps(item, item') /\ UnbornRoot(item')
    BY <1>1, <1>3, <2>1, PausedIs DEF Keeps, UnbornRoot
  <2>3. QED
    BY <1>3, <2>2, InvRoute DEF Pause
<1>4. ASSUME NEW c \in Cards, Resume(c)
      PROVE  IInv'
  <2>1. Unborn \notin 1..(Last - 1)
    BY Numbers
  <2>2. Keeps(item, item') /\ UnbornRoot(item')
    BY <1>1, <1>4, <2>1, ResumedIs DEF Keeps, UnbornRoot
  <2>3. QED
    BY <1>4, <2>2, InvRoute DEF Resume
<1>5. ASSUME NEW c \in Cards, NEW p \in Cards, NEW step \in 1..(Last - 1), Create(c, p, step)
      PROVE  IInv'
  <2> DEFINE K == Created(c, p, step)
  <2>1. /\ K \in Items /\ K[c].status = step /\ K[c].parent = p
        /\ \A d \in Cards \ {c} : K[d] = item[d]
        /\ \A d \in Cards : K[d].deferredTo = item[d].deferredTo
    BY CreatedIs
  <2>2. item' = RolledUp(K, p, FALSE)
    BY <1>5 DEF Create, Becomes, Created
  <2> HIDE DEF K
  <2>3. Raised(K, item')
    BY <2>1, <2>2, RolledUpTrue
  <2>4. Keeps(item, K) /\ UnbornRoot(K)
    BY <1>1, <2>1, Numbers DEF Keeps, UnbornRoot
  <2>5. QED
    BY <1>5, <2>3, <2>4, WrittenAndRaised, InvRoute DEF Create
<1>6. CASE TrashArchived
  <2> DEFINE R == {c \in Cards : item[c].status = ARCHIVED}
  <2>1. R \in SUBSET Cards /\ \A c \in R : item[c].status # Unborn
    BY DEF ARCHIVED, Unborn
  <2>2. Keeps(item, Trashed(R)) /\ UnbornRoot(Trashed(R))
    BY <1>1, <2>1, TrashedIs
  <2>3. QED
    BY <1>6, <2>2, InvRoute DEF TrashArchived, Becomes
<1>7. CASE SetVerifyAt
  <2>1. calls' \in Nat /\ verifyAt' \in {"card", "parent"}
    BY <1>7 DEF SetVerifyAt, Call, IInv, Typed
  <2>2. QED
    BY <1>7, <2>1, InvEnds, KeepsNothing DEF SetVerifyAt, IInv, Typed
<1>8. CASE Restart
  <2>1. calls' \in Nat /\ req' \in [Requests -> Request]
        /\ \A q \in Requests : req'[q] = Rest
    BY <1>8, RestTyped DEF Restart, Call, IInv, Typed
  <2>2. QED
    BY <1>8, <2>1, InvEnds, KeepsNothing DEF Restart, IInv, Typed
<1>9. QED
  BY <1>2, <1>3, <1>4, <1>5, <1>6, <1>7, <1>8 DEF Routes

LEMMA InvNext ==
  ASSUME IInv, [Next]_vars
  PROVE  IInv'
<1>1. CASE Routes
  BY <1>1, InvRoutes
<1>2. CASE \E q \in Requests : Asks(q)
  BY <1>2, InvVerify, InvAskPut DEF Asks
<1>3. CASE \E q \in Requests : Ends(q)
  BY <1>3, InvEndsRun
<1>4. CASE \E q \in Requests : PutEnds(q)
  BY <1>4, InvPutEnds
<1>5. CASE UNCHANGED vars
  BY <1>5 DEF vars, IInv, Typed, UnbornRoot, Sound, SeesOwed
<1>6. QED
  BY <1>1, <1>2, <1>3, <1>4, <1>5 DEF Next

LEMMA InvInit ==
  ASSUME Init
  PROVE  IInv
<1>1. PICK s \in Scenarios :
        /\ item = [c \in Cards |-> [status |-> s.status[c], prev |-> 0, parent |-> s.parent[c],
                                   deferredTo |-> NoCard, snapshot |-> 0]]
        /\ verifyAt = s.verifyAt
        /\ calls = s.calls
  BY DEF Init
<1>2. /\ s.parent \in [Cards -> Cards \cup {NoCard}]
      /\ s.status \in [Cards -> 1..Last \cup {-5}]
      /\ \A c \in Cards : s.status[c] = -5 => s.parent[c] = NoCard
      /\ s.verifyAt \in {"card", "parent"} /\ s.calls \in Nat
  BY ScenarioAssumption
<1>3. 0 \in 0..(Last - 1)
  BY WorkflowAssumption
<1>4. item \in Items /\ UnbornRoot(item)
  <2>1. \A c \in Cards : s.status[c] \in Steps \cup Platform \cup {Unborn}
    BY <1>2 DEF Steps, Unborn
  <2>2. \A c \in Cards : s.parent[c] \in Cards \cup {NoCard}
    BY <1>2
  <2>3. item \in Items
    BY <1>1, <1>3, <2>1, <2>2 DEF Items, Item
  <2>4. UnbornRoot(item)
    BY <1>1, <1>2 DEF UnbornRoot, Unborn
  <2>5. QED
    BY <2>3, <2>4
<1>5. req \in [Requests -> Request] /\ \A q \in Requests : req[q] = Rest
  BY RestTyped DEF Init
<1>6. unproved \in SUBSET Cards
  BY DEF Init
<1>7. \A q \in Requests : Sound(req[q], item) /\ SeesOwed(req[q], item, unproved)
  BY <1>5, RestTyped DEF Sound, SeesOwed, Verifying
<1>8. QED
  BY <1>1, <1>2, <1>4, <1>5, <1>6, <1>7 DEF IInv, Typed

LEMMA InvType ==
  ASSUME IInv
  PROVE  TypeOK
<1>1. item \in [Cards -> Item] /\ verifyAt \in {"card", "parent"}
      /\ calls \in Nat /\ unproved \subseteq Cards
  BY DEF IInv, Typed, Items
<1>2. ASSUME NEW q \in Requests
      PROVE  /\ req[q].at \in {"idle", "put"} \cup Verifying
             /\ req[q] # Rest => req[q].card \in Cards
             /\ req[q].at \in Verifying => req[q].from \in 1..(Last - 1)
  BY DEF IInv, Typed, Request, Sound
<1>3. QED
  BY <1>1, <1>2 DEF TypeOK

\* Every run of the board keeps the inductive invariant.
THEOREM Invariance == Spec => []IInv
<1>1. Init => IInv
  BY InvInit
<1>2. IInv /\ [Next]_vars => IInv'
  BY InvNext
<1>3. QED
  BY <1>1, <1>2, PTL DEF Spec

\* The cards, the requests and the histories are always of their types
\* (server.ts:9590, 7700).
THEOREM TypeCorrect == Spec => []TypeOK
<1>1. IInv => TypeOK
  BY InvType
<1>2. QED
  BY <1>1, Invariance, PTL

-----------------------------------------------------------------------------
(* Closes, suite runs that are owed, and reviews: one card at a time. *)

ClosesWell(c) ==
  Closes(c) => \/ \E q \in Requests : req[q].card = c /\ Overwrites(q)
               \/ /\ \/ item[c].status \in Steps
                     \/ \E q \in Requests : req[q].card = c /\ PutEnds(q)
                  /\ OpenDescendants(item', c) = {}

OwedWell(p) ==
  \A c \in Cards :
    /\ Closes(p) /\ p \notin unproved'
    /\ item'[c].parent = p /\ item'[c].deferredTo = p /\ item'[c].status = Last
    => c \notin unproved' \/ \E q \in Requests : req[q].card = p /\ Overwrites(q)

ReviewWell(c) ==
  \A i \in ReviewAt :
    item[c].status \in 1..i /\ item'[c].status \in (i + 1)..Last
    => \E q \in Requests : req[q].card = c /\ req'[q] = Rest

Well(c) == ClosesWell(c) /\ OwedWell(c) /\ ReviewWell(c)

\* The handler's own write leaves c where it is in the flow, or takes it out of the
\* flow or out of the archive.
Untouched(K, c) ==
  K[c].status = item[c].status \/ K[c].status \notin Steps \/ item[c].status = ARCHIVED

LEMMA CarriedWell ==
  ASSUME NEW K \in Items, Raised(K, item'), NEW c \in Cards, Untouched(K, c)
  PROVE  Well(c)
<1>1. /\ ARCHIVED \notin Steps /\ Last \in Steps /\ Last \notin {TRASHED, ARCHIVED}
      /\ \A i \in ReviewAt : 1..i \subseteq Steps /\ (i + 1)..Last \subseteq Steps
                             /\ (1..i) \cap ((i + 1)..Last) = {}
  BY WorkflowAssumption DEF Steps, ARCHIVED, TRASHED
<1>2. item'[c].status # K[c].status => K[c].status \in Steps /\ item'[c].status \in Steps
  BY DEF Raised, Forward
<1>3. ASSUME Closes(c)
      PROVE  item[c].status \in Steps /\ Whole(item', c)
  <2>1. K[c].status = item[c].status
    BY <1>1, <1>2, <1>3 DEF Untouched, Closes
  <2>2. QED
    BY <1>2, <1>3, <2>1 DEF Closes, Raised, ShutsWhole
<1>4. ClosesWell(c) /\ OwedWell(c)
  BY <1>1, <1>3 DEF ClosesWell, OwedWell, Whole
<1>5. ReviewWell(c)
  <2>1. ASSUME NEW i \in ReviewAt, item[c].status \in 1..i, item'[c].status \in (i + 1)..Last
        PROVE  FALSE
    <3>1. K[c].status = item[c].status
      BY <1>1, <1>2, <2>1 DEF Untouched
    <3>2. item'[c].status \in 1..i
      BY <2>1, <3>1 DEF Raised, StopsAtReview
    <3>3. QED
      BY <1>1, <2>1, <3>2
  <2>2. QED
    BY <2>1 DEF ReviewWell
<1>6. QED
  BY <1>4, <1>5 DEF Well

\* A step that writes no card.
LEMMA StillWell ==
  ASSUME IInv, item' = item
  PROVE  \A c \in Cards : Well(c)
<1>1. item \in Items
  BY DEF IInv, Typed
<1>2. Raised(item, item')
  BY <1>1, RaisedNothing
<1>3. \A c \in Cards : Untouched(item, c)
  BY DEF Untouched
<1>4. QED
  BY <1>1, <1>2, <1>3, CarriedWell

\* A request that is answered, and whose own write closes nothing.
LEMMA AnsweredWell ==
  ASSUME NEW K \in Items, Raised(K, item'), NEW q \in Requests, req'[q] = Rest,
         K[req[q].card].status # Last, req[q].card \in Cards,
         Closes(req[q].card) => PutEnds(q),
         \A d \in Cards \ {req[q].card} : Untouched(K, d)
  PROVE  \A c \in Cards : Well(c)
<1> DEFINE c == req[q].card
<1>1. ReviewWell(c)
  BY DEF ReviewWell
<1>2. Closes(c) => Whole(item', c)
  BY DEF Raised, ShutsWhole, Closes
<1>3. Last \notin {TRASHED, ARCHIVED}
  BY WorkflowAssumption DEF ARCHIVED, TRASHED
<1>4. ClosesWell(c) /\ OwedWell(c)
  BY <1>2, <1>3 DEF ClosesWell, OwedWell, Whole
<1>5. Well(c)
  BY <1>1, <1>4 DEF Well
<1>6. QED
  BY <1>5, CarriedWell

LEMMA FinishedStays ==
  ASSUME NEW K \in Items, NEW J, Forward(K, J), NEW c \in Cards, K[c].status \in Finished
  PROVE  J[c].status = K[c].status
BY WorkflowAssumption DEF Forward, Finished, Steps, IDEAS, ARCHIVED, TRASHED

\* A write that moves c, and nothing else in the flow or in the tree.
OnlyMoves(K, c) ==
  /\ K \in Items
  /\ \A d \in Cards \ {c} : K[d].status = item[d].status
  /\ \A d \in Cards : K[d].parent = item[d].parent

\* A verify that closes its card, on a green or by a deferral.
LEMMA ClosedWell ==
  ASSUME IInv, NEW q \in Requests, req[q].at \in Verifying, StillThere(q), MayClose(req[q].card),
         req'[q] = Rest, NEW K, OnlyMoves(K, req[q].card), Raised(K, item'),
         OwedWell(req[q].card)
  PROVE  \A c \in Cards : Well(c)
<1> DEFINE c == req[q].card
<1>0. /\ K \in Items
      /\ \A d \in Cards \ {c} : K[d].status = item[d].status
      /\ \A d \in Cards : K[d].parent = item[d].parent
  BY DEF OnlyMoves
<1>1. c \in Cards /\ item[c].status \in Steps
  BY Verified, Numbers DEF StillThere
<1>2. Under(item', c) = Under(item, c) /\ Under(item, c) \subseteq Cards \ {c}
  <2>1. Under(item', c) = Under(K, c)
    BY <1>0, ForwardSubtree DEF Raised
  <2>2. Under(K, c) = Under(item, c)
    BY <1>0, SubtreeOfParents DEF Under
  <2>3. QED
    BY <2>1, <2>2, SubtreeWithin DEF Under
<1>3. ASSUME NEW d \in Under(item', c)
      PROVE  item'[d].status \in Finished
  <2>1. K[d].status \in Finished
    BY <1>0, <1>2 DEF MayClose, OpenDescendants
  <2>2. QED
    BY <1>0, <1>2, <2>1, FinishedStays DEF Raised
<1>4. ClosesWell(c)
  BY <1>1, <1>3 DEF ClosesWell, OpenDescendants
<1>5. ReviewWell(c)
  BY DEF ReviewWell
<1>6. \A d \in Cards \ {c} : Untouched(K, d)
  BY <1>0 DEF Untouched
<1>7. QED
  BY <1>0, <1>4, <1>5, <1>6, CarriedWell DEF Well

\* A verify that moves its card mid-flow closes nothing, wherever the card is by then.
LEMMA AdvancedMid ==
  ASSUME IInv, NEW q \in Requests, req[q].at \in Verifying, req[q].from # Last - 1,
         NEW d \in Cards, Advanced(q)[d].status = Last
  PROVE  d # req[q].card /\ item[d].status = Last
<1> DEFINE c == req[q].card  K == Moved(c, req[q].from + 1)
<1>1. c \in Cards /\ req[q].from \in 1..(Last - 1) /\ item \in Items
  BY Verified
<1>2. /\ K \in Items /\ K[c].status = req[q].from + 1
      /\ \A x \in Cards \ {c} : K[x] = item[x]
      /\ \A x \in Cards : K[x].parent = item[x].parent
      /\ \/ Advanced(q) = K
         \/ \E r \in BOOLEAN : /\ r <=> (req[q].from + 1 = Last)
                               /\ Advanced(q) = RolledUp(K, item[c].parent, r)
  BY <1>1, AdvancedIs
<1> HIDE DEF K
<1>3. K[c].status \in 1..(Last - 1) /\ req[q].from + 1 # Last
  BY <1>1, <1>2, WorkflowAssumption
<1>4. K[c].status # Last
  BY <1>3, WorkflowAssumption
<1>5. K[d].status = Last
  <2>1. CASE Advanced(q) = K
    BY <2>1
  <2>2. CASE \E r \in BOOLEAN : /\ r <=> (req[q].from + 1 = Last)
                                /\ Advanced(q) = RolledUp(K, item[c].parent, r)
    <3>1. Advanced(q) = RolledUp(K, K[c].parent, FALSE)
      BY <1>1, <1>2, <1>3, <2>2
    <3>2. QED
      BY <1>1, <1>2, <1>3, <3>1, RollUpOpen
  <2>3. QED
    BY <1>2, <2>1, <2>2
<1>6. QED
  BY <1>1, <1>2, <1>4, <1>5

LEMMA AdvancesWell ==
  ASSUME IInv, NEW q \in Requests, req[q].at \in Verifying, req[q].from # Last - 1,
         item' = Advanced(q), req' = Answer(q)
  PROVE  \A c \in Cards : Well(c)
<1> DEFINE c == req[q].card  K == Moved(c, req[q].from + 1)
<1>1. c \in Cards /\ req[q].from \in 1..(Last - 1) /\ item \in Items
  BY Verified
<1>2. K \in Items /\ K[c].status = req[q].from + 1 /\ Raised(K, item')
      /\ \A x \in Cards \ {c} : K[x] = item[x]
  BY <1>1, AdvancedIs
<1> HIDE DEF K
<1>3. K[c].status # Last /\ ~Closes(c)
  BY <1>1, <1>2, AdvancedMid, WorkflowAssumption DEF Closes
<1>4. \A d \in Cards \ {c} : Untouched(K, d)
  BY <1>2 DEF Untouched
<1>5. req'[q] = Rest
  BY AnswerTyped
<1>6. QED
  BY <1>1, <1>2, <1>3, <1>4, <1>5, AnsweredWell

\* A verify of the flow's last working step: the close, and what it owes.
LEMMA LastStepWell ==
  ASSUME IInv, NEW q \in Requests, req[q].at \in Verifying, EndsFlow(req[q].from),
         StillThere(q), MayClose(req[q].card), item' = Advanced(q), req' = Answer(q),
         \A c \in unproved' : item[c].deferredTo # req[q].card
  PROVE  \A c \in Cards : Well(c)
<1> DEFINE c == req[q].card  K == Moved(c, req[q].from + 1)
<1>1. c \in Cards /\ req[q].from \in 1..(Last - 1) /\ item \in Items
  BY Verified
<1>2. /\ K \in Items /\ Raised(K, item')
      /\ \A x \in Cards \ {c} : K[x] = item[x]
      /\ \A x \in Cards : K[x].parent = item[x].parent /\ K[x].deferredTo = item[x].deferredTo
  BY <1>1, AdvancedIs
<1> HIDE DEF K
<1>3. OwedWell(c)
  BY <1>2 DEF OwedWell, Raised, Forward
<1>4. req'[q] = Rest
  BY AnswerTyped
<1>5. QED
  <2>1. OnlyMoves(K, c)
    BY <1>2 DEF OnlyMoves
  <2>2. QED
    BY <1>2, <1>3, <1>4, <2>1, ClosedWell

LEMMA DeferWell ==
  ASSUME IInv, NEW q \in Requests, req[q].at \in Verifying, EndsFlow(req[q].from),
         StillThere(q), MayClose(req[q].card), NEW p \in DeferTo(req[q].card), Defer(q, p)
  PROVE  \A c \in Cards : Well(c)
<1> DEFINE c == req[q].card
           K == [item EXCEPT ![c].status = Last, ![c].deferredTo = p]
<1>1. c \in Cards /\ item \in Items /\ p \in Cards
  BY Verified DEF DeferTo
<1>2. /\ K \in Items /\ item[c].parent \in Cards \cup {NoCard}
      /\ \A d \in Cards \ {c} : K[d].status = item[d].status
      /\ \A d \in Cards : K[d].parent = item[d].parent
  BY <1>1, Numbers, ItemFields DEF Items, Item
<1>3. item' = RolledUp(K, item[c].parent, TRUE) /\ c \in unproved' /\ req'[q] = Rest
  BY DEF Defer, Becomes
<1> HIDE DEF K
<1>4. Raised(K, item')
  BY <1>2, <1>3, RolledUpTrue
<1>5. OwedWell(c)
  BY <1>3 DEF OwedWell
<1>6. QED
  <2>1. OnlyMoves(K, c)
    BY <1>2 DEF OnlyMoves
  <2>2. QED
    BY <1>3, <1>4, <1>5, <2>1, ClosedWell

LEMMA LeaveStepWell ==
  ASSUME IInv, NEW q \in Requests, req[q].at \in Verifying, ~EndsFlow(req[q].from), LeaveStep(q)
  PROVE  \A c \in Cards : Well(c)
<1>1. CASE req[q].from \in CommitAt
  BY <1>1, StillWell DEF LeaveStep
<1>2. CASE req[q].from \notin CommitAt
  BY <1>2, AdvancesWell DEF LeaveStep, Becomes, EndsFlow
<1>3. QED
  BY <1>1, <1>2

LEMMA DecideWell ==
  ASSUME IInv, NEW q \in Requests, req[q].at \in Verifying, Decide(q)
  PROVE  \A c \in Cards : Well(c)
<1>1. CASE item' = item
  BY <1>1, StillWell
<1>2. CASE ~EndsFlow(req[q].from) /\ LeaveStep(q)
  BY <1>2, LeaveStepWell
<1>3. ASSUME EndsFlow(req[q].from), StillThere(q), MayClose(req[q].card),
             NEW p \in DeferTo(req[q].card), Defer(q, p)
      PROVE  \A c \in Cards : Well(c)
  BY <1>3, DeferWell
<1>4. CASE EndsFlow(req[q].from) /\ StillThere(q) /\ MayClose(req[q].card) /\ CloseOnGreen(q)
  BY <1>4, LastStepWell DEF CloseOnGreen, Becomes
<1>5. QED
  BY <1>1, <1>2, <1>3, <1>4 DEF Decide

LEMMA EndsWell ==
  ASSUME IInv, NEW q \in Requests, Ends(q)
  PROVE  \A c \in Cards : Well(c)
<1>1. CASE Refuse(q)
  BY <1>1, StillWell DEF Refuse
<1>2. CASE GateEnds(q) \/ JoinEnds(q)
  BY <1>2, DecideWell DEF GateEnds, JoinEnds, Verifying
<1>3. CASE CommandPasses(q)
  <2>1. req[q].at \in Verifying
    BY <1>3 DEF CommandPasses, Verifying
  <2>2. CASE EndsFlow(req[q].from)
    <3>1. \A c \in unproved : item[c].deferredTo = req[q].card => c \in req[q].sees
      BY <1>3 DEF IInv, SeesOwed, CommandPasses
    <3>2. \A c \in unproved' : item[c].deferredTo # req[q].card
      BY <1>3, <2>2, <3>1 DEF CommandPasses
    <3>3. QED
      BY <1>3, <2>1, <2>2, <3>2, LastStepWell DEF CommandPasses, StillHolds, Becomes
  <2>3. CASE ~EndsFlow(req[q].from)
    BY <1>3, <2>1, <2>3, LeaveStepWell DEF CommandPasses
  <2>4. QED
    BY <2>2, <2>3
<1>4. CASE CommitEnds(q)
  <2>1. req[q].at \in Verifying /\ req[q].from \in CommitAt
    BY <1>4, Verified DEF CommitEnds, Verifying
  <2>2. req[q].from # Last - 1
    BY <2>1, WorkflowAssumption
  <2>3. QED
    BY <1>4, <2>1, <2>2, AdvancesWell DEF CommitEnds, Becomes
<1>5. QED
  BY <1>1, <1>2, <1>3, <1>4 DEF Ends

\* One that overwrites its card closes nothing but that card.
LEMMA OverwritesWell ==
  ASSUME IInv, NEW q \in Requests, Overwrites(q), req'[q] = Rest,
         NEW K \in Items, Raised(K, item'),
         \A d \in Cards \ {req[q].card} : Untouched(K, d)
  PROVE  \A c \in Cards : Well(c)
<1>1. Well(req[q].card)
  BY DEF Well, ClosesWell, OwedWell, ReviewWell
<1>2. QED
  BY <1>1, CarriedWell

LEMMA PutWell ==
  ASSUME IInv, NEW q \in Requests, PutEnds(q)
  PROVE  \A c \in Cards : Well(c)
<1> DEFINE c == req[q].card  K == Written(q)
<1>1. /\ c \in Cards /\ item[c].status # Unborn
      /\ "status" \in req[q].sends => (req[q].to = Last => req[q].from = Last)
      /\ K \in Items
      /\ K[c].status = IF "status" \in req[q].sends THEN req[q].to ELSE item[c].status
      /\ \A d \in Cards \ {c} : K[d] = item[d]
  BY WrittenIs DEF PutEnds
<1>2. item \in Items /\ UnbornRoot(item)
  BY DEF IInv, Typed
<1>3. req'[q] = Rest
  BY AnswerTyped DEF PutEnds
<1>4. CASE Moves(q) /\ req[q].to = ARCHIVED
  <2>1. PICK S : /\ \A d \in S : Archived(c)[d].status = ARCHIVED
                 /\ \A d \in Cards \ S : Archived(c)[d] = item[d]
                 /\ Archived(c) \in Items
    BY <1>1, <1>2, ArchivedIs DEF Keeps
  <2>2. Raised(Archived(c), item')
    BY <1>4, ArchivingPut
  <2>3. ARCHIVED \notin Steps
    BY Numbers DEF Platform
  <2>4. \A d \in Cards : Untouched(Archived(c), d)
    BY <2>1, <2>3 DEF Untouched
  <2>5. QED
    BY <2>1, <2>2, <2>4, CarriedWell
<1>5. CASE Moves(q) /\ req[q].to # ARCHIVED /\ req[q].from = ARCHIVED
  <2>1. /\ item' \in Items /\ item'[c].status = req[q].to
        /\ \A d \in Cards \ {c} : item'[d] = Unarchived(c)[d]
        /\ \A d \in Cards : Unarchived(c)[d] = item[d] \/ item[d].status = ARCHIVED
    BY <1>5, UnarchivingPut
  <2>2. Raised(item', item')
    BY <2>1, RaisedNothing
  <2>3. \A d \in Cards \ {c} : Untouched(item', d)
    BY <2>1 DEF Untouched
  <2>4. item'[c].status # Last
    BY <1>1, <1>5, <2>1 DEF Moves
  <2>5. QED
    BY <1>1, <1>3, <2>1, <2>2, <2>3, <2>4, AnsweredWell
<1>6. CASE Plain(q)
  <2>1. Raised(K, item')
    BY <1>6, PlainPut
  <2>2. \A d \in Cards \ {c} : Untouched(K, d)
    BY <1>1 DEF Untouched
  <2>3. CASE Untouched(K, c)
    BY <1>1, <2>1, <2>2, <2>3, CarriedWell
  <2>4. CASE K[c].status # Last
    BY <1>1, <1>3, <2>1, <2>2, <2>4, AnsweredWell
  <2>5. CASE K[c].status = Last /\ ~Untouched(K, c)
    <3>1. Overwrites(q)
      BY <1>1, <2>5 DEF Overwrites, Moves, Untouched
    <3>2. QED
      BY <1>1, <1>3, <2>1, <2>2, <3>1, OverwritesWell
  <2>6. QED
    BY <2>3, <2>4, <2>5
<1>7. QED
  BY <1>4, <1>5, <1>6 DEF Plain

LEMMA CreateWell ==
  ASSUME IInv, NEW c \in Cards, NEW p \in Cards, NEW step \in 1..(Last - 1), Create(c, p, step)
  PROVE  \A d \in Cards : Well(d)
<1> DEFINE K == Created(c, p, step)
<1>1. /\ K \in Items /\ K[c].status = step /\ K[c].parent = p
      /\ \A d \in Cards \ {c} : K[d] = item[d]
  BY CreatedIs
<1>2. item' = RolledUp(K, p, FALSE) /\ item[c].status = Unborn
  BY DEF Create, Becomes, Created
<1> HIDE DEF K
<1>3. Raised(K, item')
  BY <1>1, <1>2, RolledUpTrue
<1>4. ~Closes(c)
  <2>1. item' = RolledUp(K, K[c].parent, FALSE) /\ step # Last
    BY <1>1, <1>2, WorkflowAssumption
  <2>2. item'[c].status # Last
    BY <1>1, <2>1, RollUpOpen
  <2>3. QED
    BY <2>2 DEF Closes
<1>5. \A i \in ReviewAt : item[c].status \notin 1..i
  BY <1>2, WorkflowAssumption DEF Unborn
<1>6. Well(c)
  BY <1>4, <1>5 DEF Well, ClosesWell, OwedWell, ReviewWell
<1>7. \A d \in Cards \ {c} : Untouched(K, d)
  BY <1>1 DEF Untouched
<1>8. QED
  BY <1>1, <1>3, <1>6, <1>7, CarriedWell

LEMMA TrashedWell ==
  ASSUME IInv, NEW R \in SUBSET Cards, \A c \in R : item[c].status # Unborn,
         Raised(Trashed(R), item')
  PROVE  \A d \in Cards : Well(d)
<1>1. item \in Items /\ UnbornRoot(item)
  BY DEF IInv, Typed
<1>2. PICK S : /\ \A d \in S : Trashed(R)[d].status = TRASHED
               /\ \A d \in Cards \ S : Trashed(R)[d] = item[d]
               /\ Trashed(R) \in Items
  BY <1>1, TrashedIs DEF Keeps
<1>3. TRASHED \notin Steps
  BY Numbers DEF Platform
<1>4. \A d \in Cards : Untouched(Trashed(R), d)
  BY <1>2, <1>3 DEF Untouched
<1>5. QED
  BY <1>2, <1>4, CarriedWell

LEMMA RoutesWell ==
  ASSUME IInv, Routes
  PROVE  \A d \in Cards : Well(d)
<1>1. item \in Items /\ UnbornRoot(item)
  BY DEF IInv, Typed
<1>2. ASSUME NEW c \in Cards, Delete(c)
      PROVE  \A d \in Cards : Well(d)
  <2>1. Trashed({c}) \in Items
    BY <1>1, <1>2, TrashedIs DEF Delete, Keeps
  <2>2. Raised(Trashed({c}), RolledUp(Trashed({c}), item[c].parent, TRUE))
    BY <1>1, <2>1, RolledUpTrue, ItemFields
  <2>3. item' = RolledUp(Trashed({c}), item[c].parent, TRUE)
    BY <1>2 DEF Delete, Becomes
  <2>4. QED
    <3>1. {c} \in SUBSET Cards /\ \A d \in {c} : item[d].status # Unborn
      BY <1>2 DEF Delete
    <3>2. Raised(Trashed({c}), item')
      BY <2>2, <2>3
    <3>3. QED
      BY <3>1, <3>2, TrashedWell
<1>3. ASSUME NEW c \in Cards, Pause(c)
      PROVE  \A d \in Cards : Well(d)
  <2>1. PAUSED \notin Steps
    BY Numbers DEF Platform
  <2>2. item' \in Items /\ \A d \in Cards : Untouched(item', d)
    BY <1>3, <2>1, PausedIs DEF Untouched
  <2>3. QED
    BY <2>2, RaisedNothing, CarriedWell
<1>4. ASSUME NEW c \in Cards, Resume(c)
      PROVE  \A d \in Cards : Well(d)
  <2>1. /\ item' \in Items /\ item'[c].status \in 1..(Last - 1) /\ item[c].status = PAUSED
        /\ \A d \in Cards \ {c} : item'[d] = item[d]
    BY <1>4, ResumedIs
  <2>2. item'[c].status # Last /\ \A i \in ReviewAt : item[c].status \notin 1..i
    BY <2>1, WorkflowAssumption DEF PAUSED
  <2>3. Well(c)
    BY <2>2 DEF Well, ClosesWell, OwedWell, ReviewWell, Closes
  <2>4. \A d \in Cards \ {c} : Untouched(item', d)
    BY <2>1 DEF Untouched
  <2>5. QED
    BY <2>1, <2>3, <2>4, RaisedNothing, CarriedWell
<1>5. CASE TrashArchived
  <2> DEFINE R == {c \in Cards : item[c].status = ARCHIVED}
  <2>1. R \in SUBSET Cards /\ \A c \in R : item[c].status # Unborn
    BY DEF ARCHIVED, Unborn
  <2>2. item' = Trashed(R)
    BY <1>5 DEF TrashArchived, Becomes
  <2>3. Trashed(R) \in Items
    BY <1>1, <2>1, TrashedIs DEF Keeps
  <2>4. QED
    BY <2>1, <2>2, <2>3, RaisedNothing, TrashedWell
<1>6. CASE SetVerifyAt \/ Restart
  BY <1>6, StillWell DEF SetVerifyAt, Restart
<1>7. QED
  BY <1>2, <1>3, <1>4, <1>5, <1>6, CreateWell DEF Routes

LEMMA NextWell ==
  ASSUME IInv, [Next]_vars
  PROVE  \A c \in Cards : Well(c)
<1>1. CASE Routes
  BY <1>1, RoutesWell
<1>2. CASE \E q \in Requests : Asks(q)
  BY <1>2, StillWell DEF Asks, Verify, AskPut
<1>3. CASE \E q \in Requests : Ends(q)
  BY <1>3, EndsWell
<1>4. CASE \E q \in Requests : PutEnds(q)
  BY <1>4, PutWell
<1>5. CASE UNCHANGED vars
  BY <1>5, StillWell DEF vars
<1>6. QED
  BY <1>1, <1>2, <1>3, <1>4, <1>5 DEF Next

\* A card closes only over a subtree that is all finished, whichever verify, move or
\* roll-up closes it, and never from outside the flow but by the board
\* (server.ts:9590, 10311).  A PUT that writes the status it read over a newer one is
\* the exception, for the card it is about and for no other.
THEOREM CloseIsWhole == Spec => ClosesWhole
<1>1. IInv /\ [Next]_vars =>
        \A c \in Cards :
          Closes(c) => \/ \E q \in Requests : req[q].card = c /\ Overwrites(q)
                       \/ /\ \/ item[c].status \in Steps
                             \/ \E q \in Requests : req[q].card = c /\ PutEnds(q)
                          /\ OpenDescendants(item', c) = {}
  BY NextWell DEF Well, ClosesWell
<1>2. QED
  BY <1>1, Invariance, PTL DEF Spec, ClosesWhole

\* A suite run that a child's close left to its parent is made before the parent closes,
\* or left to the grandparent, across restarts, moves and changes of the setting
\* (server.ts:957, 8559) - unless what closes the parent is a PUT about the parent that
\* writes the status it read over a newer one.
THEOREM DeferralIsHonoured == Spec => OwedRunIsMade
<1>1. IInv /\ [Next]_vars =>
        \A p, c \in Cards :
          /\ Closes(p) /\ p \notin unproved'
          /\ item'[c].parent = p /\ item'[c].deferredTo = p /\ item'[c].status = Last
          => c \notin unproved' \/ \E q \in Requests : req[q].card = p /\ Overwrites(q)
  BY NextWell DEF Well, OwedWell
<1>2. QED
  BY <1>1, Invariance, PTL DEF Spec, OwedRunIsMade

\* No roll-up carries a card past its own review, in any tree (server.ts:938).
THEOREM ReviewIsKept == Spec => ReviewHolds
<1>1. IInv /\ [Next]_vars =>
        \A c \in Cards, i \in ReviewAt :
          item[c].status \in 1..i /\ item'[c].status \in (i + 1)..Last
          => \E q \in Requests : req[q].card = c /\ req'[q] = Rest
  BY NextWell DEF Well, ReviewWell
<1>2. QED
  BY <1>1, Invariance, PTL DEF Spec, ReviewHolds

-----------------------------------------------------------------------------
(* What a card held back, once it is finished or out of play. *)

\* No card above something freed since the last state is left held in J.
Frees(J) == \A x \in Cards : FreedBelow(item, J, x) => ~Held(J, x)

\* A step that finishes no card.
LEMMA FreesNothing ==
  ASSUME NEW J, \A d \in Cards : J[d].status \in Finished => item[d].status \in Finished
  PROVE  Frees(J)
BY SubtreeWithin DEF Frees, FreedBelow, Under

LEMMA StillFrees ==
  ASSUME item' = item
  PROVE  Frees(item')
BY FreesNothing

\* One card moved, and the roll-up from its parent: a card above it is that parent,
\* or above it.
LEMMA FreesOnly ==
  ASSUME NEW K \in Items, NEW c \in Cards,
         \A d \in Cards \ {c} : K[d].status = item[d].status,
         NEW r \in BOOLEAN, K[c].status \in Finished => r
  PROVE  Frees(RolledUp(K, K[c].parent, r))
<1>1. K[c].parent \in Cards \cup {NoCard}
  BY ItemFields
<1>2. ASSUME NEW x \in Cards, FreedBelow(item, K, x)
      PROVE  r /\ K[c].parent \in Subtree(K, x, Cards)
  <2>1. PICK d \in Under(K, x) : K[d].status \in Finished /\ item[d].status \notin Finished
    BY <1>2 DEF FreedBelow
  <2>2. d \in Cards /\ d \in Subtree(K, x, Cards) /\ d # x
    BY SubtreeWithin DEF Under
  <2>3. d = c
    BY <2>1, <2>2
  <2>4. QED
    BY <2>1, <2>2, <2>3, SubtreeUp
<1>3. QED
  BY <1>1, <1>2, RollUpFrees DEF Frees

LEMMA FreesLeftBehind ==
  ASSUME NEW J \in Items, Frees(J), NEW old \in Cards \cup {NoCard}, NEW new
  PROVE  Frees(LeftBehind(J, old, new))
<1>1. \A r \in BOOLEAN : Frees(RolledUp(J, old, r))
  BY RollUpFrees DEF Frees
<1>2. Frees(RolledUp(J, old, TRUE))
  BY <1>1
<1>3. QED
  BY <1>2 DEF LeftBehind

\* The cards of S are taken out of play, and nothing else is written.
TakenOut(J, S) ==
  /\ J \in Items
  /\ \A d \in S : J[d].status \notin Steps
  /\ \A d \in Cards \ S : J[d] = item[d]
  /\ \A d \in Cards : J[d].parent = item[d].parent

\* A subtree taken out of play: a card above one of it is of it too, or above its root.
LEMMA FreesTakenOut ==
  ASSUME item \in Items, NEW A \in SUBSET Cards, NEW c \in Cards,
         NEW K, TakenOut(K, Subtree(item, c, A))
  PROVE  Frees(RolledUp(K, item[c].parent, TRUE))
<1> DEFINE S == Subtree(item, c, A)
<1>1. /\ K \in Items
      /\ \A d \in S : K[d].status \notin Steps
      /\ \A d \in Cards \ S : K[d] = item[d]
      /\ \A d \in Cards : K[d].parent = item[d].parent
  BY DEF TakenOut
<1>2. item[c].parent \in Cards \cup {NoCard}
  BY ItemFields
<1>3. ASSUME NEW x \in Cards, FreedBelow(item, K, x)
      PROVE  ~Held(K, x) \/ item[c].parent \in Subtree(K, x, Cards)
  <2>1. PICK d \in Under(K, x) : K[d].status \in Finished /\ item[d].status \notin Finished
    BY <1>3 DEF FreedBelow
  <2>2. Subtree(K, x, Cards) = Subtree(item, x, Cards) /\ Under(K, x) = Under(item, x)
    BY <1>1, SubtreeOfParents DEF Under
  <2>3. d \in Cards
    BY SubtreeWithin DEF Under
  <2>4. d \in S /\ d \in Under(item, x)
    BY <1>1, <2>1, <2>2, <2>3
  <2>5. x \in S \/ c \in Under(item, x)
    BY <2>4, OneChain
  <2>6. CASE x \in S
    BY <1>1, <2>6, Numbers DEF Held
  <2>7. CASE c \in Under(item, x)
    <3>1. item[c].parent \in Subtree(item, x, Cards)
      BY <2>7, SubtreeUp DEF Under
    <3>2. QED
      BY <2>2, <3>1
  <2>8. QED
    BY <2>5, <2>6, <2>7
<1>4. \A r \in BOOLEAN : r => Frees(RolledUp(K, item[c].parent, r))
  BY <1>1, <1>2, <1>3, RollUpFrees DEF Frees
<1>5. QED
  BY <1>4

LEMMA AdvancedFrees ==
  ASSUME IInv, NEW q \in Requests, req[q].at \in Verifying
  PROVE  Frees(Advanced(q))
<1> DEFINE c == req[q].card  K == Moved(c, req[q].from + 1)
<1>1. c \in Cards /\ req[q].from \in 1..(Last - 1) /\ item \in Items
  BY Verified
<1>2. /\ K \in Items /\ K[c].status = req[q].from + 1
      /\ \A x \in Cards \ {c} : K[x] = item[x]
      /\ \A x \in Cards : K[x].parent = item[x].parent
      /\ \/ Advanced(q) = K /\ req[q].from = 1
         \/ \E r \in BOOLEAN : /\ r <=> (req[q].from + 1 = Last)
                               /\ Advanced(q) = RolledUp(K, item[c].parent, r)
  BY <1>1, AdvancedIs
<1> HIDE DEF K
<1>3. K[c].status \in Finished => req[q].from + 1 = Last
  BY <1>1, <1>2, WorkflowAssumption DEF Finished, IDEAS, ARCHIVED, TRASHED
<1>4. CASE Advanced(q) = K /\ req[q].from = 1
  <2>1. K[c].status \notin Finished
    BY <1>3, <1>4, WorkflowAssumption
  <2>2. QED
    BY <1>2, <1>4, <2>1, FreesNothing
<1>5. ASSUME NEW r \in BOOLEAN, r <=> (req[q].from + 1 = Last),
             Advanced(q) = RolledUp(K, item[c].parent, r)
      PROVE  Frees(Advanced(q))
  <2>1. K[c].status \in Finished => r
    BY <1>3, <1>5
  <2>2. \A d \in Cards \ {c} : K[d].status = item[d].status
    BY <1>2
  <2>3. Frees(RolledUp(K, K[c].parent, r))
    BY <1>1, <1>2, <2>1, <2>2, FreesOnly
  <2>4. QED
    BY <1>1, <1>2, <1>5, <2>3
<1>6. QED
  BY <1>2, <1>4, <1>5

LEMMA DeferFrees ==
  ASSUME IInv, NEW q \in Requests, req[q].at \in Verifying,
         NEW p \in DeferTo(req[q].card), Defer(q, p)
  PROVE  Frees(item')
<1> DEFINE c == req[q].card
           K == [item EXCEPT ![c].status = Last, ![c].deferredTo = p]
<1>1. c \in Cards /\ item \in Items /\ p \in Cards
  BY Verified DEF DeferTo
<1>2. /\ K \in Items
      /\ \A d \in Cards \ {c} : K[d].status = item[d].status
      /\ K[c].parent = item[c].parent
  BY <1>1, Numbers DEF Items, Item
<1>3. item' = RolledUp(K, K[c].parent, TRUE)
  BY <1>2 DEF Defer, Becomes
<1> HIDE DEF K
<1>4. \A r \in BOOLEAN : r => Frees(RolledUp(K, K[c].parent, r))
  BY <1>1, <1>2, FreesOnly
<1>5. QED
  BY <1>3, <1>4

LEMMA EndsFrees ==
  ASSUME IInv, NEW q \in Requests, Ends(q)
  PROVE  Frees(item')
<1>1. req[q].at \in Verifying
  BY DEF Ends, Refuse, GateEnds, JoinEnds, CommandPasses, CommitEnds, Verifying
<1>2. CASE item' = item
  BY <1>2, StillFrees
<1>3. CASE item' = Advanced(q)
  BY <1>1, <1>3, AdvancedFrees
<1>4. CASE \E p \in DeferTo(req[q].card) : Defer(q, p)
  BY <1>1, <1>4, DeferFrees
<1>5. QED
  BY <1>2, <1>3, <1>4
     DEF Ends, Refuse, GateEnds, JoinEnds, CommandPasses, CommitEnds, Decide, CloseOnGreen,
         LeaveStep, Becomes

\* A write that finishes no card, and the roll-up from anywhere.
LEMMA FreesUnfinished ==
  ASSUME NEW K \in Items, NEW p \in Cards \cup {NoCard}, NEW r \in BOOLEAN,
         \A d \in Cards : K[d].status \in Finished => item[d].status \in Finished
  PROVE  Frees(RolledUp(K, p, r))
<1>1. \A x \in Cards : ~FreedBelow(item, K, x)
  BY SubtreeWithin DEF FreedBelow, Under
<1>2. QED
  BY <1>1, RollUpFrees DEF Frees

LEMMA PutFrees ==
  ASSUME IInv, NEW q \in Requests, PutEnds(q), ~Unheard(q)
  PROVE  Frees(item')
<1> DEFINE c == req[q].card  K == Written(q)  parent == K[c].parent
<1>1. /\ c \in Cards /\ item[c].status # Unborn
      /\ req[q].parent \in Cards \cup {NoCard} /\ parent \in Cards \cup {NoCard}
      /\ K \in Items
      /\ K[c].status = IF "status" \in req[q].sends THEN req[q].to ELSE item[c].status
      /\ \A d \in Cards \ {c} : K[d] = item[d]
  BY WrittenIs DEF PutEnds
<1>2. item \in Items /\ UnbornRoot(item)
  BY DEF IInv, Typed
<1>3. CASE Moves(q) /\ req[q].to = ARCHIVED
  <2> DEFINE A == {d \in Cards : item[d].status # ARCHIVED}
  <2>1. ARCHIVED \notin Steps
    BY Numbers DEF Platform
  <2>2. TakenOut(Archived(c), Subtree(item, c, A))
    BY <1>1, <1>2, <2>1, ArchivedIs DEF TakenOut, Keeps
  <2> HIDE DEF A
  <2>3. A \in SUBSET Cards
    BY DEF A
  <2>4. Frees(RolledUp(Archived(c), item[c].parent, TRUE))
    BY <1>1, <1>2, <2>2, <2>3, FreesTakenOut
  <2>5. item' = RolledUp(Archived(c), req[q].parent, TRUE)
    BY <1>3, ArchivingPut
  <2>6. req[q].parent = item[c].parent
    BY <1>3 DEF Unheard
  <2>7. QED
    BY <2>4, <2>5, <2>6
<1>4. CASE Plain(q)
  <2>1. PICK r \in BOOLEAN : /\ r <=> (Moves(q) /\ req[q].to \in Finished)
                             /\ RolledUp(K, parent, r) \in Items
                             /\ item' = LeftBehind(RolledUp(K, parent, r), req[q].parent, parent)
    BY <1>4, PlainPut
  <2>2. Frees(RolledUp(K, parent, r))
    <3>1. CASE K[c].status \in Finished /\ item[c].status \notin Finished
      <4>1. "status" \in req[q].sends /\ req[q].to \in Finished /\ req[q].to # item[c].status
        BY <1>1, <3>1
      <4>2. Moves(q)
        BY <4>1 DEF Unheard, Overwrites
      <4>3. r /\ \A d \in Cards \ {c} : K[d].status = item[d].status
        BY <1>1, <2>1, <4>1, <4>2
      <4>4. QED
        BY <1>1, <4>3, FreesOnly
    <3>2. CASE K[c].status \in Finished => item[c].status \in Finished
      <4>1. \A d \in Cards : K[d].status \in Finished => item[d].status \in Finished
        BY <1>1, <3>2
      <4>2. QED
        BY <1>1, <4>1, FreesUnfinished
    <3>3. QED
      BY <3>1, <3>2
  <2> HIDE DEF K
  <2>3. QED
    BY <1>1, <2>1, <2>2, FreesLeftBehind
<1>5. QED
  BY <1>3, <1>4 DEF Plain, Unheard

LEMMA RoutesFree ==
  ASSUME IInv, Routes, ~TrashArchived
  PROVE  Frees(item')
<1>1. item \in Items /\ UnbornRoot(item)
  BY DEF IInv, Typed
<1>2. ASSUME NEW c \in Cards, Delete(c)
      PROVE  Frees(item')
  <2> DEFINE A == {d \in Cards : item[d].status # TRASHED}
  <2>1. TRASHED \notin Steps
    BY Numbers DEF Platform
  <2>2. UNION {Subtree(item, x, A) : x \in {c}} = Subtree(item, c, A)
    OBVIOUS
  <2>3. TakenOut(Trashed({c}), UNION {Subtree(item, x, A) : x \in {c}})
    <3>1. {c} \in SUBSET Cards /\ \A x \in {c} : item[x].status # Unborn
      BY <1>2 DEF Delete
    <3>2. LET S == UNION {Subtree(item, x, A) : x \in {c}} IN
          /\ Keeps(item, Trashed({c})) /\ UnbornRoot(Trashed({c}))
          /\ S \subseteq Cards
          /\ \A d \in S : Trashed({c})[d].status = TRASHED
          /\ \A d \in Cards \ S : Trashed({c})[d] = item[d]
          /\ \A d \in Cards : Trashed({c})[d].parent = item[d].parent
      BY <1>1, <3>1, TrashedIs
    <3>3. QED
      BY <2>1, <3>2 DEF TakenOut, Keeps
  <2> HIDE DEF A
  <2>4. A \in SUBSET Cards
    BY DEF A
  <2>5. Frees(RolledUp(Trashed({c}), item[c].parent, TRUE))
    BY <1>1, <2>2, <2>3, <2>4, FreesTakenOut
  <2>6. item' = RolledUp(Trashed({c}), item[c].parent, TRUE)
    BY <1>2 DEF Delete, Becomes
  <2>7. QED
    BY <2>5, <2>6
<1>3. ASSUME NEW c \in Cards, Pause(c)
      PROVE  Frees(item')
  <2>1. PAUSED \notin Finished
    BY WorkflowAssumption DEF Finished, PAUSED, IDEAS, ARCHIVED, TRASHED
  <2>2. QED
    BY <1>3, <2>1, PausedIs, FreesNothing
<1>4. ASSUME NEW c \in Cards, Resume(c)
      PROVE  Frees(item')
  <2>1. \A d \in Cards : item'[d].status \in Finished => item[d].status \in Finished
    BY <1>4, ResumedIs, Numbers
  <2>2. QED
    BY <2>1, FreesNothing
<1>5. ASSUME NEW c \in Cards, NEW p \in Cards, NEW step \in 1..(Last - 1), Create(c, p, step)
      PROVE  Frees(item')
  <2> DEFINE K == Created(c, p, step)
  <2>1. /\ K \in Items /\ K[c].status = step /\ K[c].parent = p
        /\ \A d \in Cards \ {c} : K[d] = item[d]
    BY CreatedIs
  <2>2. item' = RolledUp(K, p, FALSE)
    BY <1>5 DEF Create, Becomes, Created
  <2> HIDE DEF K
  <2>3. K[c].status \notin Finished
    BY <2>1, Numbers
  <2>4. \A d \in Cards \ {c} : K[d].status = item[d].status
    BY <2>1
  <2>5. \A r \in BOOLEAN : Frees(RolledUp(K, K[c].parent, r))
    BY <2>1, <2>3, <2>4, FreesOnly
  <2>6. QED
    BY <2>1, <2>2, <2>5
<1>6. CASE SetVerifyAt \/ Restart
  BY <1>6, StillFrees DEF SetVerifyAt, Restart
<1>7. QED
  BY <1>2, <1>3, <1>4, <1>5, <1>6 DEF Routes

LEMMA NextFrees ==
  ASSUME IInv, [Next]_vars, ~TrashArchived, ~\E q \in Requests : Unheard(q)
  PROVE  Frees(item')
<1>1. CASE Routes
  BY <1>1, RoutesFree
<1>2. CASE \E q \in Requests : Asks(q)
  BY <1>2, StillFrees DEF Asks, Verify, AskPut
<1>3. CASE \E q \in Requests : Ends(q)
  BY <1>3, EndsFrees
<1>4. CASE \E q \in Requests : PutEnds(q)
  BY <1>4, PutFrees
<1>5. CASE UNCHANGED vars
  BY <1>5, StillFrees DEF vars
<1>6. QED
  BY <1>1, <1>2, <1>3, <1>4, <1>5 DEF Next

\* A card that is finished or taken out of play leaves no card above it that could
\* close and has not, however deep the tree, but on the four routes that the property
\* names: emptying the archive, and the three kinds of PUT in Unheard (server.ts:885).
THEOREM NoneLeftHeld == Spec => HeldFreed
<1>1. IInv /\ [Next]_vars =>
        \/ \A p \in Cards :
             Held(item', p) => \A d \in Under(item', p) :
                                 item'[d].status \in Finished => item[d].status \in Finished
        \/ TrashArchived
        \/ \E q \in Requests : Unheard(q)
  BY NextFrees DEF Frees, FreedBelow
<1>2. QED
  BY <1>1, Invariance, PTL DEF Spec, HeldFreed
=============================================================================
