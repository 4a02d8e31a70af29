SPECIFICATION Spec
CONSTANTS
  Lockers = {g1, g2}
  Connectors = {k1}
  Nobody = Nobody
  Cap = 2
  MaxTransitions = 5
INVARIANTS TypeOK InOrder
PROPERTIES NewestSurvives NeverStuck
\* The behaviours end with the last transition.
CHECK_DEADLOCK FALSE
