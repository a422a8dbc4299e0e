---------------------------- MODULE MCSuiteSlots ----------------------------
EXTENDS SuiteSlots, TLC

CONSTANTS r1, r2, r3, p, none

MCRuns     == {r1, r2, r3}
MCProjects == {p}

\* Runs differ only by name, so that which of them has no project does not matter.
MCAssignments ==
  {(r1 :> p) @@ (r2 :> p) @@ (r3 :> q) : q \in {p, none}}
=============================================================================
