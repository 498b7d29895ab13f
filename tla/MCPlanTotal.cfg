SPECIFICATION Spec
CONSTANTS
  Places <- TownPlaces
  KnownBrands = {"b"}
  Order <- Town
  Locality = 5
  Metres <- Road
  Seconds <- Slow
  Never = 99999
  MaxNodes = 9
  Batches <- LegPlanBatches
  Itineraries <- TownItineraries
  Groups <- TownGroups
  Searches <- TownSearches
  Distances <- TownDistances
  Offers <- TownOffers
  MaxFailures = 1
INVARIANT OnlySourcesDropped
CHECK_DEADLOCK FALSE
