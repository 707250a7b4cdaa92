\* Both algorithms and the metrics on fourteen hundred graphs.  With weights
\* of 1 and 2 and an int of 20, all but the heaviest trees are moderate.
SPECIFICATION Spec
CONSTANTS
  MaxInt = 20
  Inputs <- AllInputs
CHECK_DEADLOCK FALSE
INVARIANTS
  TypeOK
  MinimumWhenDone
  AgreesWithOutcomes
  MetricsExact
PROPERTIES
  GrowsByLightest
  FindMSTReturns
