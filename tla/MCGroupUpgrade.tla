--------------------------- MODULE MCGroupUpgrade ---------------------------
EXTENDS GroupUpgrade

CONSTANTS t1, t2

\* One replica that may fail, with two dispatches in either order, and two
\* replicas that race over one upgrade.
MCScenarios ==
  [kind : {<<"upgrade", "flow">>, <<"flow", "upgrade">>, <<"flow", "flow">>},
   ticks : {{t1}}, faults : {1}, idle : {0}]
  \cup [kind : {<<"upgrade">>}, ticks : {{t1, t2}}, faults : {0}, idle : {1}]
  \cup [kind : {<<"upgrade">>}, ticks : {{t1}}, faults : {1}, idle : {1}]
=============================================================================
