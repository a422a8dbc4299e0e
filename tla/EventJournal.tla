---------------------------- MODULE EventJournal ----------------------------
(***************************************************************************)
(* What an installation promises about the events it reports to a fleet    *)
(* hub, without saying how.  An event is accepted once.  From then on the  *)
(* installation owes it until some hub holds it, or until the event is     *)
(* released for a cause the user or the configured cap gave.  A held event *)
(* is never un-held.  A request that was under way when an event was given *)
(* up may still bring it to a hub, or back to the installation.            *)
(***************************************************************************)

CONSTANT Event

VARIABLES owed, delivered, released

jvars == <<owed, delivered, released>>

JournalInit == owed = {} /\ delivered = {} /\ released = {}

\* A new event is accepted.  Accepting it may push pending events over the
\* outbox cap, itself included, and those are released in the same step.
Accept(e, S) ==
  /\ e \notin owed \cup delivered \cup released
  /\ S \subseteq owed \cup {e}
  /\ owed' = (owed \cup {e}) \ S
  /\ released' = released \cup S
  /\ UNCHANGED delivered

Deliver(S) ==
  /\ S \subseteq owed \cup released
  /\ delivered' = delivered \cup S
  /\ owed' = owed \ S
  /\ released' = released \ S

\* Events are given up, and a copy of one given up earlier comes back: a refusal
\* that was still under way when its other copy was discarded.
Settle(S, T) ==
  /\ S \subseteq owed /\ T \subseteq released
  /\ owed' = (owed \ S) \cup T
  /\ released' = (released \ T) \cup S
  /\ UNCHANGED delivered

JournalNext ==
  \/ \E e \in Event, S \in SUBSET Event : Accept(e, S)
  \/ \E S \in SUBSET Event : Deliver(S)
  \/ \E S, T \in SUBSET Event : Settle(S, T)

JournalSpec == JournalInit /\ [][JournalNext]_jvars
=============================================================================
