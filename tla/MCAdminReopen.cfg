\* A cancelled trip that is selected and forced open.
CONSTANTS
  i1 = i1  i2 = i2  q1 = q1  q2 = q2
  View = {"trips"}
  Item = {i1, i2}
  Query = {q1, q2}
  Listed <- ListedOf
  ThisWeek = q1
  NoQuery = NoQuery
  f1 = f1  f2 = f2  p1 = p1  p2 = p2  p3 = p3
  Fetch = {f1, f2}
  FetchSlots <- FetchSlotsOf
  c1 = c1  c2 = c2
  Call = {c1, c2}
  CallSlots <- CallSlotsOf
  MaxChange = 2
  Filters <- FiltersOf
  Route = {ra, rb}
  NoRoute = NoRoute
  Pick = {p1, p2, p3}
SPECIFICATION Spec
SYMMETRY AdminSymmetry
INVARIANT CancellationPermanent
