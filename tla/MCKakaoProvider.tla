-------------------------- MODULE MCKakaoProvider --------------------------
(* Instances of KakaoProvider for TLC. *)
EXTENDS KakaoProvider, TLC

CONSTANTS search, nearby, route

\* A nearby search around, and a route to, every place.
MCNeeds == [k \in Keys |-> IF k = search THEN {} ELSE PlaceIds]
MCRouteKeys == Keys \cap {route}
WorkerSymmetry == Permutations(Workers)
=============================================================================
