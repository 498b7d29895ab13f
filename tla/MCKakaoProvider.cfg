SPECIFICATION Spec
CONSTANTS
  search = search
  nearby = nearby
  route = route
  Nothing = Nothing
  PlaceIds = {p1}
  Keys = {search, route}
  TTL = 1
  Workers = {w1, w2}
  Needs <- MCNeeds
  RouteKeys <- MCRouteKeys
  Lag = 0
  Horizon = 4
SYMMETRY WorkerSymmetry
INVARIANTS
  NoPartialAnswer
  ReturnedIsKnown
PROPERTIES
  EntriesServedFresh
