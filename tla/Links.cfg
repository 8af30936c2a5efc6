SPECIFICATION SpecLinks
INVARIANTS BoardAgrees ReportsAreDated LinesInOrder IdentifyIsWhole
PROPERTIES LinksRecover
CHECK_DEADLOCK FALSE
