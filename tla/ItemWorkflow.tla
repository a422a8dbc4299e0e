---------------------------- MODULE ItemWorkflow ----------------------------
(***************************************************************************)
(* The cards of one project on one flow, as server.ts moves them: verify,  *)
(* the board's moves, re-parenting, pause and resume, archive and trash,   *)
(* and the roll-up of a parent behind its children.  Storage is a          *)
(* synchronous SQLite connection, so a handler interleaves with others     *)
(* only where it awaits something else: the step's checks, the command,    *)
(* the step commit, a sibling's run, and, between what a move reads and    *)
(* what it writes, git or the issue tracker.                               *)
(*                                                                         *)
(* The flow has the steps 1..Last, the first an anchor and the last where  *)
(* a card is finished.  BLOCKED is left out: it is PAUSED that nothing     *)
(* resumes.  All cards share one working tree.                             *)
(***************************************************************************)
EXTENDS Integers, FiniteSetsExt

CONSTANTS
  Cards, NoCard,
  Requests,       \* verify and PUT requests under way at once
  Last,
  ReviewAt,       \* steps that only a card's own verify leaves: review record
  CommitAt,       \* steps that commit the card's work as it leaves (autoCommit)
  Scenarios       \* cards to start from, the setting, and a bound on calls

ASSUME WorkflowAssumption ==
  /\ NoCard \notin Cards /\ IsFiniteSet(Cards)
  /\ Last \in Nat /\ Last > 2
  /\ ReviewAt \subseteq 1..(Last - 1) /\ CommitAt \subseteq 1..(Last - 2)

\* A card that is yet to be created is under nothing.
ASSUME ScenarioAssumption ==
  \A s \in Scenarios :
    /\ s.parent \in [Cards -> Cards \cup {NoCard}]
    /\ s.status \in [Cards -> 1..Last \cup {-5}]
    /\ \A c \in Cards : s.status[c] = -5 => s.parent[c] = NoCard
    /\ s.verifyAt \in {"card", "parent"} /\ s.calls \in Nat

VARIABLES
  item,       \* the items table: status, previousStatus, parentId, suiteDeferredTo
              \*   and the step of an unspent pause snapshot (0 when there is none)
  verifyAt,   \* the flow's setting: who runs the project's suite
  req,        \* what each request awaits, and what it read before
  calls,      \* calls left
  unproved,   \* history: cards closed by a deferral that no suite run has seen since
  left        \* history: the step a card is on, or was on when it left the flow
vars == <<item, verifyAt, req, calls, unproved, left>>

Steps    == 1..Last
PAUSED   == -1
IDEAS    == -2
ARCHIVED == -3
TRASHED  == -4
Unborn   == -5
Platform == {PAUSED, IDEAS, ARCHIVED, TRASHED}

\* Where a card is finished, or out of play.
Finished == {Last, IDEAS, ARCHIVED, TRASHED}

Rest == [at |-> "idle", card |-> NoCard, from |-> 0, sends |-> {}, to |-> 0, prev |-> 0,
         parent |-> NoCard, new |-> NoCard, sees |-> {}, joined |-> FALSE]

Verifying == {"gate", "command", "join", "commit"}

\* activeValidateRunByItem: a verify holds its card from the guard to its answer.
RunOf(c) == {q \in Requests : req[q].at \in Verifying /\ req[q].card = c}

-----------------------------------------------------------------------------
(* The tree.  K stands for the cards as a step leaves them. *)

\* T holds c, if S does, and with a card of S every child it has in S.
Closed(K, c, S, T) == /\ {c} \cap S \subseteq T
                      /\ \A d \in S : K[d].parent \in T => d \in T

\* The cards of S that are c, or below it through cards of S.
Subtree(K, c, S) == {d \in S : \A T \in SUBSET S : Closed(K, c, S, T) => d \in T}

Under(K, c) == Subtree(K, c, Cards) \ {c}

\* openDescendants: what is open below a card, at any depth.
OpenDescendants(K, c) == {d \in Under(K, c) : K[d].status \notin Finished}

\* Mutant: only the setting, as it is now, holds a parent for the suite.
OwesBySetting(K, p) == verifyAt = "parent"

\* A suite run that only the parent's own verify makes: its flow says so, or a
\* child that is still in play deferred to it.
OwesSuite(K, p) ==
  \/ verifyAt = "parent"
  \/ \E c \in Cards : /\ K[c].parent = p /\ K[c].status \notin {TRASHED, ARCHIVED}
                      /\ K[c].deferredTo = p

\* Mutant: the roll-up walks a parent past its review.
NoStop(K, p, laggard) == laggard

\* The parent's own review stops it on the way to where its last child stands.
Stop(K, p, laggard) == Min({laggard} \cup {i \in ReviewAt : K[p].status <= i /\ i < laggard})

\* Where in the flow the children of p stand that have a place in it.
Placed(K, p) == {K[c].status : c \in {d \in Cards : K[d].parent = p}} \cap Steps

\* The step the roll-up derives for p, which is its own when it has nowhere to go.
Derived(K, p) ==
  LET own == K[p].status
  IN IF own \notin Steps \/ Placed(K, p) = {} THEN own
     ELSE LET stop == Stop(K, p, Min(Placed(K, p)))
              step == IF stop = Last /\ OwesSuite(K, p) THEN Last - 1 ELSE stop
          IN IF step <= own \/ (step = Last /\ OpenDescendants(K, p) # {}) THEN own ELSE step

\* Mutant: the walk up goes on only past a parent that moved.
MovedOnly(K, p, released) == Derived(K, p) # K[p].status /\ Derived(K, p) = Last

\* Whether the walk up tells the next parent that something below was released.
Releases(K, p, released) ==
  \/ Derived(K, p) # K[p].status /\ Derived(K, p) = Last
  \/ released /\ K[p].status \in Finished

Item == [status : Steps \cup Platform \cup {Unborn},
         prev : {0, PAUSED, IDEAS, TRASHED} \cup Steps,
         parent : Cards \cup {NoCard}, deferredTo : Cards \cup {NoCard},
         snapshot : 0..(Last - 1)]

Walk == [items : [Cards -> Item], at : Cards \cup {NoCard}, released : BOOLEAN,
         seen : SUBSET Cards]

\* One card derived, and whether its parent is next.
Climb(w) ==
  LET step  == Derived(w.items, w.at)
      moved == step # w.items[w.at].status
      free  == Releases(w.items, w.at, w.released)
  IN [items |-> [w.items EXCEPT ![w.at].status = step],
      at |-> IF moved \/ free THEN w.items[w.at].parent ELSE NoCard,
      released |-> free, seen |-> w.seen \cup {w.at}]

Arrived(w) == w.at \in w.seen \cup {NoCard}

\* syncParentStatus: from a card up, as long as cards move or are released.
SyncParentStatus[w \in Walk] == IF Arrived(w) THEN w.items ELSE SyncParentStatus[Climb(w)]

RolledUp(K, p, released) ==
  SyncParentStatus[[items |-> K, at |-> p, released |-> released, seen |-> {}]]

\* A parent that was read, and is the card's no more, is told that it lost the card.
LeftBehind(K, old, new) == IF old # new THEN RolledUp(K, old, TRUE) ELSE K

-----------------------------------------------------------------------------
(* Verify: POST /items/:id/validate, in the background. *)

Call == calls > 0 /\ calls' = calls - 1

\* What a step makes of the cards, and of the history of where they were.
Becomes(K) ==
  /\ item' = K
  /\ left' = [c \in Cards |-> IF item'[c].status \in Steps THEN item'[c].status ELSE left[c]]

Answer(q) == [req EXCEPT ![q] = Rest]

EndsFlow(step) == step = Last - 1

\* checkClose.
MayClose(c) == OpenDescendants(item, c) = {}

Verify(q, c) ==
  /\ Call
  /\ req[q] = Rest /\ RunOf(c) = {}
  /\ item[c].status \in 1..(Last - 1)
  /\ EndsFlow(item[c].status) => MayClose(c)
  /\ req' = [req EXCEPT ![q] = [Rest EXCEPT !.at = "gate", !.card = c, !.from = item[c].status]]
  /\ UNCHANGED <<item, verifyAt, unproved, left>>

\* Mutant: a verify that waits finds itself among those it waits for.
InFlightOrSelf(q) ==
  {x \in Requests : /\ req[x].at \in {"command", "join"} /\ EndsFlow(req[x].from)
                    /\ item[req[x].card].parent = item[req[q].card].parent
                    /\ item[req[q].card].parent # NoCard}

\* A sibling whose final command runs now.  Whether this verify would run the same
\* one, on the same state of the tree, is for the tree to say.
InFlight(q) ==
  {x \in Requests \ {q} : /\ req[x].at = "command" /\ EndsFlow(req[x].from)
                          /\ item[req[x].card].parent = item[req[q].card].parent
                          /\ item[req[q].card].parent # NoCard}

\* A failing check, command or required commit, or a card that moved meanwhile.
Refuse(q) ==
  /\ req[q].at \in Verifying
  /\ req[q].at = "join" => InFlight(q) = {}
  /\ req' = Answer(q)
  /\ UNCHANGED <<item, verifyAt, calls, unproved, left>>

Moved(c, to) == [item EXCEPT ![c].status = to]

\* The move of a verify.  Leaving the first anchor rolls nothing up.
Advanced(q) ==
  LET c == req[q].card  K == Moved(c, req[q].from + 1)
  IN IF req[q].from = 1 THEN K ELSE RolledUp(K, item[c].parent, req[q].from + 1 = Last)

StillThere(q) == item[req[q].card].status = req[q].from

\* Mid-flow: a commit of the card's work comes first where the step has one.
LeaveStep(q) ==
  IF req[q].from \in CommitAt
  THEN req' = [req EXCEPT ![q].at = "commit"] /\ UNCHANGED <<item, left>>
  ELSE req' = Answer(q) /\ Becomes(Advanced(q))

RunCommand(q) == req' = [req EXCEPT ![q].at = "command", ![q].sees = unproved]

\* parentToDeferTo: open, being worked, and with no verify of its own running.
DeferTo(c) ==
  {p \in Cards : /\ verifyAt = "parent" /\ p = item[c].parent
                 /\ item[p].status \in 1..(Last - 1) /\ RunOf(p) = {}}

\* A close without the suite, which the parent's verify owes from now on.
Defer(q, p) ==
  LET c == req[q].card
      K == [item EXCEPT ![c].status = Last, ![c].deferredTo = p]
  IN /\ req' = [x \in Requests |-> IF x = q THEN Rest ELSE [req[x] EXCEPT !.sees = @ \ {c}]]
     /\ unproved' = unproved \cup {c}
     /\ Becomes(RolledUp(K, item[c].parent, TRUE))

\* A close on a green that some run of this very tree has left.
CloseOnGreen(q) ==
  /\ req' = Answer(q)
  /\ unproved' = {}
  /\ Becomes(Advanced(q))

Join(q) == req' = [req EXCEPT ![q].at = "join", ![q].joined = TRUE]

\* What follows once the step's checks are answered, in one piece.  A gate that
\* judged the suite to be the card's own keeps to that, whatever the parent does.
Decide(q) ==
  LET c == req[q].card IN
  /\ StillThere(q)
  /\ IF EndsFlow(req[q].from)
     THEN /\ MayClose(c)
          /\ \/ \E p \in DeferTo(c) : Defer(q, p)
             \/ CloseOnGreen(q)
             \/ /\ RunCommand(q) \/ (InFlight(q) # {} /\ ~req[q].joined /\ Join(q))
                /\ UNCHANGED <<item, unproved, left>>
     ELSE /\ UNCHANGED unproved
          /\ \/ LeaveStep(q)
             \/ req[q].from # 1 /\ RunCommand(q) /\ UNCHANGED <<item, left>>
  /\ UNCHANGED <<verifyAt, calls>>

GateEnds(q) == req[q].at = "gate" /\ Decide(q)

\* The sibling's run has ended, for better or worse: decide again.
JoinEnds(q) ==
  /\ req[q].at = "join"
  /\ InFlight(q) = {}
  /\ Decide(q)

\* Mutant: the command's pass is applied without reading the card again.
StaleRead(q) == EndsFlow(req[q].from) => MayClose(req[q].card)

\* The card is where it was, and nothing below it has opened.
StillHolds(q) == StillThere(q) /\ (EndsFlow(req[q].from) => MayClose(req[q].card))

CommandPasses(q) ==
  /\ req[q].at = "command"
  /\ StillHolds(q)
  /\ IF EndsFlow(req[q].from)
     THEN /\ req' = Answer(q)
          /\ unproved' = unproved \ (req[q].sees \cup {req[q].card})
          /\ Becomes(Advanced(q))
     ELSE LeaveStep(q) /\ UNCHANGED unproved
  /\ UNCHANGED <<verifyAt, calls>>

\* The step commit is made, or may be missing; the card then moves.
CommitEnds(q) ==
  /\ req[q].at = "commit"
  /\ req' = Answer(q)
  /\ Becomes(Advanced(q))
  /\ UNCHANGED <<verifyAt, calls, unproved>>

-----------------------------------------------------------------------------
(* PUT /items/:id and POST /items/bulk: read, await, write. *)

Returnable(c) == IF item[c].status \in {PAUSED, ARCHIVED} /\ item[c].prev \in Steps
                 THEN 1..item[c].prev ELSE {}

\* buildAllowedTransitions.
Allowed(c) ==
  Platform \cup (IF item[c].status \in Steps
                 THEN {item[c].status - 1, item[c].status + 1} \cap Steps
                 ELSE {1, 2} \cup Returnable(c))

\* previousStatusAfter.
PreviousAfter(c, to) ==
  IF to # PAUSED THEN 0
  ELSE IF item[c].status \in Steps THEN item[c].status
  ELSE IF item[c].status = PAUSED THEN item[c].prev ELSE 0

\* Nothing but verify moves a card to the last step; but a status that is the one
\* just read is not looked at.  That a forward move is the board's alone says who may
\* ask, and changes nothing of what follows.
Sendable(c) == (Allowed(c) \ {Last}) \cup {item[c].status}

\* validateParentAssignment walks up from the parent proposed.
Assignable(c) ==
  {NoCard} \cup {p \in Cards : item[p].status # Unborn /\ p \notin Subtree(item, c, Cards)}

\* A PUT carries a status, a parent, both or neither.
AskPut(q, c, sends) ==
  /\ Call
  /\ req[q] = Rest /\ item[c].status # Unborn
  /\ \E to \in IF "status" \in sends THEN Sendable(c) ELSE {0},
        p \in IF "parent" \in sends THEN Assignable(c) ELSE {NoCard} :
       req' = [req EXCEPT ![q] = [Rest EXCEPT !.at = "put", !.card = c, !.sends = sends,
                 !.from = item[c].status, !.to = to, !.prev = PreviousAfter(c, to),
                 !.parent = item[c].parent, !.new = p]]
  /\ UNCHANGED <<item, verifyAt, unproved, left>>

\* archiveRecursively and unarchiveRecursively stop at what is archived, or is not.
Archived(c) ==
  LET S == Subtree(item, c, {d \in Cards : item[d].status # ARCHIVED})
  IN [d \in Cards |-> IF d \in S THEN [item[d] EXCEPT !.prev = item[d].status, !.status = ARCHIVED]
                      ELSE item[d]]

Unarchived(c) ==
  LET S == Subtree(item, c, {d \in Cards : item[d].status = ARCHIVED})
  IN [d \in Cards |-> IF d \in S
                      THEN [item[d] EXCEPT !.status = IF item[d].prev = 0 THEN 1 ELSE item[d].prev,
                                           !.prev = 0]
                      ELSE item[d]]

\* statusChanged, which compares with what was read.
Moves(q) == "status" \in req[q].sends /\ req[q].to # req[q].from

\* What was sent is written, whatever the card has become since it was read.
Written(q) ==
  LET r == req[q] IN
  [item EXCEPT ![r.card].status = IF "status" \in r.sends THEN r.to ELSE @,
               ![r.card].prev   = IF Moves(q) THEN r.prev ELSE @,
               ![r.card].parent = IF "parent" \in r.sends THEN r.new ELSE @]

\* Both parents are derived again.  The two branches of the archive return before
\* that, write no parent, and roll up the parent that was read, or none.
PutEnds(q) ==
  LET r == req[q]  K == Written(q)  parent == K[r.card].parent IN
  /\ r.at = "put"
  /\ req' = Answer(q)
  /\ Becomes(
       IF Moves(q) /\ r.to = ARCHIVED THEN RolledUp(Archived(r.card), r.parent, TRUE)
       ELSE IF Moves(q) /\ r.from = ARCHIVED
       THEN [Unarchived(r.card) EXCEPT ![r.card].status = r.to]
       ELSE LeftBehind(RolledUp(K, parent, Moves(q) /\ r.to \in Finished), r.parent, parent))
  /\ UNCHANGED <<verifyAt, calls, unproved>>

-----------------------------------------------------------------------------
(* The routes that run in one piece. *)

Create(c, p, step) ==
  /\ Call
  /\ item[c].status = Unborn /\ item[p].status # Unborn
  /\ Becomes(RolledUp([item EXCEPT ![c].status = step, ![c].parent = p], p, FALSE))
  /\ UNCHANGED <<verifyAt, req, unproved>>

Trashed(roots) ==
  LET S == UNION {Subtree(item, c, {d \in Cards : item[d].status # TRASHED}) : c \in roots}
  IN [d \in Cards |-> IF d \in S THEN [item[d] EXCEPT !.status = TRASHED] ELSE item[d]]

Delete(c) ==
  /\ Call
  /\ item[c].status \notin {TRASHED, Unborn}
  /\ Becomes(RolledUp(Trashed({c}), item[c].parent, TRUE))
  /\ UNCHANGED <<verifyAt, req, unproved>>

TrashArchived ==
  /\ Call
  /\ \E c \in Cards : item[c].status = ARCHIVED
  /\ Becomes(Trashed({c \in Cards : item[c].status = ARCHIVED}))
  /\ UNCHANGED <<verifyAt, req, unproved>>

\* Mutant: a card that is finished is paused too.
PauseFinished(c) ==
  /\ Call
  /\ item[c].status \in 2..Last
  /\ Becomes([item EXCEPT ![c].status = PAUSED, ![c].prev = 0, ![c].snapshot = item[c].status])
  /\ UNCHANGED <<verifyAt, req, unproved>>

Pause(c) ==
  /\ Call
  /\ item[c].status \in 2..(Last - 1)
  /\ Becomes([item EXCEPT ![c].status = PAUSED, ![c].prev = 0, ![c].snapshot = item[c].status])
  /\ UNCHANGED <<verifyAt, req, unproved>>

Resume(c) ==
  /\ Call
  /\ item[c].status = PAUSED /\ item[c].snapshot # 0
  /\ Becomes([item EXCEPT ![c].status = item[c].snapshot, ![c].prev = 0, ![c].snapshot = 0])
  /\ UNCHANGED <<verifyAt, req, unproved>>

SetVerifyAt ==
  /\ Call
  /\ verifyAt' = IF verifyAt = "card" THEN "parent" ELSE "card"
  /\ UNCHANGED <<item, req, unproved, left>>

\* The server stops: whatever a request had yet to write is not written.
Restart ==
  /\ Call
  /\ req' = [q \in Requests |-> Rest]
  /\ UNCHANGED <<item, verifyAt, unproved, left>>

-----------------------------------------------------------------------------
Init ==
  /\ \E s \in Scenarios :
       /\ item = [c \in Cards |-> [status |-> s.status[c], prev |-> 0, parent |-> s.parent[c],
                                  deferredTo |-> NoCard, snapshot |-> 0]]
       /\ verifyAt = s.verifyAt
       /\ calls = s.calls
  /\ req = [q \in Requests |-> Rest]
  /\ unproved = {}
  /\ left = [c \in Cards |-> item[c].status]

Ends(q) == Refuse(q) \/ GateEnds(q) \/ JoinEnds(q) \/ CommandPasses(q) \/ CommitEnds(q)

Asks(q) ==
  \/ \E c \in Cards : Verify(q, c)
  \/ \E c \in Cards, sends \in SUBSET {"status", "parent"} : AskPut(q, c, sends)

Routes ==
  \/ \E c \in Cards : Delete(c) \/ Pause(c) \/ Resume(c)
  \/ \E c, p \in Cards, step \in 1..(Last - 1) : Create(c, p, step)
  \/ TrashArchived \/ SetVerifyAt \/ Restart

Next ==
  \/ \E q \in Requests : Asks(q) \/ Ends(q) \/ PutEnds(q)
  \/ Routes

Spec == Init /\ [][Next]_vars

\* A check, a command (which is killed at its cap) and a commit end.
FairSpec == Spec /\ \A q \in Requests : WF_vars(Ends(q))

-----------------------------------------------------------------------------
(* Properties. *)

TypeOK ==
  /\ item \in [Cards -> Item]
  /\ verifyAt \in {"card", "parent"}
  /\ \A q \in Requests : /\ req[q].at \in {"idle", "put"} \cup Verifying
                         /\ req[q] # Rest => req[q].card \in Cards
                         /\ req[q].at \in Verifying => req[q].from \in 1..(Last - 1)
  /\ calls \in Nat /\ unproved \subseteq Cards

\* The step closes c; what an archived card comes back to was closed before.
Closes(c) == item[c].status \notin {Last, ARCHIVED} /\ item'[c].status = Last

\* A PUT that moves nothing writes the status it read back over a newer one.
Overwrites(q) == /\ PutEnds(q)
                 /\ "status" \in req[q].sends /\ ~Moves(q)
                 /\ item[req[q].card].status # req[q].to

\* A card closes from a step it is on, or that the board puts it on - never one that
\* was trashed, parked or paused while its suite ran - and over nothing open, however
\* deep below and whoever opened it meanwhile (server.ts:9590, 10311).  A PUT that
\* overwrites this very card is the exception, and PutNeverCloses tells of it.
ClosesWhole ==
  [][\A c \in Cards :
       Closes(c) => \/ \E q \in Requests : req[q].card = c /\ Overwrites(q)
                    \/ /\ \/ item[c].status \in Steps
                          \/ \E q \in Requests : req[q].card = c /\ PutEnds(q)
                       /\ OpenDescendants(item', c) = {}]_vars

\* A card whose child closed without the suite closes only after a suite run that
\* began after that, or defers in its turn, whatever the setting is changed to
\* (server.ts:957, 8559).  A PUT that overwrites that card is the exception.
OwedRunIsMade ==
  [][\A p, c \in Cards :
       /\ Closes(p) /\ p \notin unproved'
       /\ item'[c].parent = p /\ item'[c].deferredTo = p /\ item'[c].status = Last
       => c \notin unproved' \/ \E q \in Requests : req[q].card = p /\ Overwrites(q)]_vars

\* A card leaves its review by a request about that card, however far its children
\* carried the cards above them (server.ts:938).
ReviewHolds ==
  [][\A c \in Cards, i \in ReviewAt :
       item[c].status \in 1..i /\ item'[c].status \in (i + 1)..Last
       => \E q \in Requests : req[q].card = c /\ req'[q] = Rest]_vars

\* A PUT that tells nobody above its card that it is finished: a move of one that was
\* archived when it was read, an archive of one that has another parent than when it
\* was read, and a finished status that overwrites another.
Unheard(q) == /\ PutEnds(q)
              /\ \/ Moves(q) /\ req[q].from = ARCHIVED
                 \/ /\ Moves(q) /\ req[q].to = ARCHIVED
                    /\ req[q].parent # item[req[q].card].parent
                 \/ Overwrites(q) /\ req[q].to \in Finished

\* The roll-up would close p, and has not.
Held(K, p) == K[p].status \in 1..(Last - 1) /\ Derived(K, p) = Last

\* When a card is finished or taken out of play, no card above it that it alone
\* held back is left held (server.ts:885).  Four routes tell nobody, and are left
\* out: emptying the archive, and the three of Unheard.
HeldFreed ==
  [][\/ \A p \in Cards :
          Held(item', p) => \A d \in Under(item', p) :
                              item'[d].status \in Finished => item[d].status \in Finished
     \/ TrashArchived
     \/ \E q \in Requests : Unheard(q)]_vars

\* Every verify is answered, one that waits for the run of a sibling too, whatever
\* becomes of that run and of the tree meanwhile (server.ts:10250, 10478).
EveryVerifyAnswered == \A q \in Requests : req[q].at \in Verifying ~> req[q] = Rest

-----------------------------------------------------------------------------
(* What the code's comments say of it, and it does not keep. *)

\* A pause snapshot is spent when the card leaves its pause: a resume never puts the
\* card past the step it was last on (server.ts:11153, "a one-shot ticket back to
\* where you paused").
TicketSpent ==
  [][\A c \in Cards :
       item[c].snapshot # 0 /\ item'[c].snapshot = 0 => item'[c].status <= left[c]]_vars

\* A PUT never closes a card (server.ts:7902, "PUT refuses every route into DONE
\* (CGLAB-377), so it can never close a card").
PutNeverCloses ==
  [][\A q \in Requests :
       PutEnds(q) /\ item'[req[q].card].status = Last => item[req[q].card].status = Last]_vars

\* A verify moves its card from the step it verified, and from no other, whatever
\* was done to the card meanwhile (server.ts:10312, "refuse to apply a transition
\* computed from a flow position the item no longer occupies").
AdvancesFromItsStep ==
  [][\A q \in Requests :
       LET c == req[q].card IN
       req[q].at \in Verifying /\ req'[q] = Rest /\ item'[c].status # item[c].status
       => item[c].status = req[q].from]_vars
=============================================================================
