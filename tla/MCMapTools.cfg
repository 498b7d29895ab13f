SPECIFICATION Spec
CONSTANTS
  Places <- TownPlaces
  KnownBrands = {"b"}
  Order <- Town
  Locality = 5
  Metres <- Road
  Seconds <- Slow
  Never = 99999
  MaxNodes = 9
  Batches <- AllBatches
  Itineraries <- TownItineraries
  Groups <- TownGroups
  Searches <- TownSearches
  Distances <- TownDistances
  Offers <- TownOffers
  MaxFailures = 1
INVARIANTS
  ReconcileNeverLoses
  TourIsItsLegs
  ServedWhileOpen
  FreedomNeverCostsMore
  TimedLegIsItsOwn
  OnePlaceOneOption
  FailureTravels
  CountedOnce
  SelectionIsRounding
CHECK_DEADLOCK FALSE
