\* An image at its preferred base and one so low that the search meets address
\* zero first; room in the 64th place, which is address zero for the low image,
\* in the last place tried, and nowhere.
CONSTANTS
  ReserveSize = 64
  Bases = {64, 81920}
  Vacancies = {{64}, {511}, {}}
  Engine = {g1}
  Peers = {p1}
SPECIFICATION Spec
INVARIANTS TypeOK JumpsLand ThrowsOnlyWhenFull
PROPERTIES FaultsExplained FailuresExplained
\* A process that has crashed takes no step.
CHECK_DEADLOCK FALSE
