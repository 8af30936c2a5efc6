SPECIFICATION SpecMachine
INVARIANTS MovesInTime HomedIsReal ResultIsTrue HeatIsSafe OutputsFollow DriversAgree
CHECK_DEADLOCK FALSE
