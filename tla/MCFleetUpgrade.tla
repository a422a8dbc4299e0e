--------------------------- MODULE MCFleetUpgrade ---------------------------
\* FleetUpgrade for TLC.  Versions are model values and interchangeable, so any of
\* them may be the one on disk at first.  Two bounds: it is the second directive that
\* may ask for the version which is there already, and the first that may be written
\* with a leading v.
EXTENDS FleetUpgrade

CONSTANT firstOnDisk

MCInit ==
  /\ Init
  /\ disk = firstOnDisk
  /\ wanted[1].to # firstOnDisk
  /\ \A d \in Directive \ {1} : ~wanted[d].tagged

MCSpec == MCInit /\ [][Next]_vars /\ Fairness
=============================================================================
