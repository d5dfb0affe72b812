\* Two configurations, or one and a trouble: inputs and troubles share one bound.
SPECIFICATION Spec
CONSTANTS
  Catalog <- MCCatalog
  Experts <- MCExperts
  Found <- MCFound
  Flush = TRUE
  MaxLag = 1
  MaxInputs = 2
INVARIANTS TypeOK IndexIsApplied MtsIsSet
PROPERTIES StopIsTrue ApplyEnds
CHECK_DEADLOCK FALSE
