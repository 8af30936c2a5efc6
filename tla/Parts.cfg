SPECIFICATION Spec
INVARIANTS PartsAreGoverned ReadingsAreRight AxisIsWhereItSays
CHECK_DEADLOCK FALSE
