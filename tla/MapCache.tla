------------------------------ MODULE MapCache ------------------------------
(***************************************************************************)
(* The SQLite file every worker's SQLiteMapCache opens: the table of       *)
(* provider responses, the table of places, and the wall clock their       *)
(* expiry is read against. An operator is one statement or one             *)
(* transaction; what a worker does between two of them is KakaoProvider's. *)
(* A payload is the places it names and the second Kakao answered it in.   *)
(***************************************************************************)
EXTENDS Integers

CONSTANTS
  PlaceIds,  \* place_id values
  Keys,      \* cache_key values: one per operation and canonical arguments
  TTL,       \* ttl_seconds
  Nothing    \* the None of a SELECT without a row, and of an expiry

ASSUME CacheAssumption == TTL \in Nat /\ Nothing \notin Nat

VARIABLES
  clock,    \* int(time.time())
  entries,  \* cache_entries by cache_key
  places    \* places by place_id

cache == <<clock, entries, places>>

Second == Nat
Expiry == Nat \cup {Nothing}
EntryRow == [answer : SUBSET PlaceIds, whole : BOOLEAN, born : Second, expires : Expiry]
PlaceRow == [born : Second, expires : Expiry]

ASSUME RowsAreRecords == Nothing \notin EntryRow \cup PlaceRow

CacheTypeOK ==
  /\ clock \in Nat
  /\ entries \in [Keys -> EntryRow \cup {Nothing}]
  /\ places \in [PlaceIds -> PlaceRow \cup {Nothing}]

CacheInit ==
  /\ clock = 0
  /\ entries = [k \in Keys |-> Nothing]
  /\ places = [p \in PlaceIds |-> Nothing]

ExpiresAt(now) == IF TTL = 0 THEN Nothing ELSE now + TTL

\* Mutant of Expired: a row is served in the second it expires.
ExpiredLate(row) == row.expires # Nothing /\ row.expires < clock
Expired(row) == row.expires # Nothing /\ row.expires <= clock

\* _set: the row is whole or it is not written.
UpsertEntry(k, payload, now) ==
  entries' = [entries EXCEPT ![k] =
    [answer |-> payload.answer, whole |-> payload.whole, born |-> payload.born,
     expires |-> ExpiresAt(now)]]

\* store_places: every place of the list in one transaction, over whatever is there.
UpsertPlaces(payload, now) ==
  places' = [p \in PlaceIds |->
    IF p \in payload.answer
    THEN [born |-> payload.born, expires |-> ExpiresAt(now)]
    ELSE places[p]]

\* The DELETE after an expired SELECT names the row by its key alone.
DeleteEntry(k) == entries' = [entries EXCEPT ![k] = Nothing]
DeletePlace(p) == places' = [places EXCEPT ![p] = Nothing]

\* clear_expired: both tables in one transaction.
ClearExpired ==
  /\ TTL # 0
  /\ entries' = [k \in Keys |->
       IF entries[k] # Nothing /\ Expired(entries[k]) THEN Nothing ELSE entries[k]]
  /\ places' = [p \in PlaceIds |->
       IF places[p] # Nothing /\ Expired(places[p]) THEN Nothing ELSE places[p]]
=============================================================================
