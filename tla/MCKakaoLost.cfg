SPECIFICATION Spec
CONSTANTS
  search = search
  nearby = nearby
  route = route
  Nothing = Nothing
  PlaceIds = {p1}
  Keys = {search}
  TTL = 1
  Workers = {w1, w2}
  Needs <- MCNeeds
  RouteKeys <- MCRouteKeys
  Lag = 1
  Horizon = 4
PROPERTY OnlyExpiredDeleted
