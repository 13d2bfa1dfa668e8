SPECIFICATION Spec
CONSTANTS
  GROUPS <- MCGroups
  CATALOGUE <- MCCatalogue
  Ids = {1, 2}
  Contents <- MCContents
  Conns = {c1, c2}
  Free = Free
  Casts <- MCCasts
INVARIANTS SurfaceCurrent ClientInStep CallsFitTheList RunsOnWholeRows
PROPERTIES Answered StoreComesFree
CHECK_DEADLOCK FALSE
