--------------------------- MODULE KakaoProvider ---------------------------
(***************************************************************************)
(* The provider each worker owns: the places it remembers (_places), its   *)
(* calls, and the statements a call sends to the shared cache file. Between *)
(* two statements any other worker may run, the clock may move, and the    *)
(* call may end with an exception (a locked database, a failed request).   *)
(***************************************************************************)
EXTENDS MapCache

CONSTANTS
  Workers,   \* one provider, and one connection, per worker
  Needs,     \* by key: the place references the operation resolves first
  RouteKeys, \* the keys of directions, whose payload is a route and no places
  Lag,       \* bound: seconds between two statements of a call (busy_timeout)
  Horizon    \* bound on the clock

ASSUME ProviderAssumption ==
  /\ Needs \in [Keys -> SUBSET PlaceIds]
  /\ RouteKeys \subseteq Keys
  /\ Nothing \notin Keys
  /\ Lag \in Nat
  /\ Horizon \in Nat

VARIABLES
  pc,        \* where each worker stands in its call
  key,       \* the operation it runs; Nothing in place_details
  todo,      \* the references it has left to resolve
  place,     \* the place_id it last selected
  read,      \* the row its last SELECT returned
  got,       \* what Kakao has answered so far
  since,     \* the second of its last step, while a statement of its own is next
  known,     \* the place_ids in _places
  handed     \* history: the place_ids a search has returned to the agent

local == <<pc, key, todo, place, read, got, since, known, handed>>
vars == <<cache, local>>

Locations == {"free", "resolving", "place_read", "entry_read", "restoring", "asking",
              "storing_entry", "storing_places"}
Payload == [answer : SUBSET PlaceIds, whole : BOOLEAN, born : Second]
NoAnswer == [answer |-> {}, whole |-> FALSE, born |-> 0]

TypeOK ==
  /\ CacheTypeOK
  /\ pc \in [Workers -> Locations]
  /\ key \in [Workers -> Keys \cup {Nothing}]
  /\ todo \in [Workers -> SUBSET PlaceIds]
  /\ place \in [Workers -> PlaceIds \cup {Nothing}]
  /\ read \in [Workers -> EntryRow \cup PlaceRow \cup {Nothing}]
  /\ got \in [Workers -> Payload]
  /\ since \in [Workers -> Second]
  /\ known \in [Workers -> SUBSET PlaceIds]
  /\ handed \in [Workers -> SUBSET PlaceIds]

Init ==
  /\ CacheInit
  /\ pc = [w \in Workers |-> "free"]
  /\ key = [w \in Workers |-> Nothing]
  /\ todo = [w \in Workers |-> {}]
  /\ place = [w \in Workers |-> Nothing]
  /\ read = [w \in Workers |-> Nothing]
  /\ got = [w \in Workers |-> NoAnswer]
  /\ since = [w \in Workers |-> 0]
  /\ known = [w \in Workers |-> {}]
  /\ handed = [w \in Workers |-> {}]

\* Where a worker may stay for any time: between calls, or in a request.
Unhurried == {"free", "asking"}

Goto(w, l) ==
  /\ pc' = [pc EXCEPT ![w] = l]
  /\ since' = [since EXCEPT ![w] = IF l \in Unhurried THEN 0 ELSE clock]

\* A local that no later step reads is cleared.
Forget(w) ==
  /\ place' = [place EXCEPT ![w] = Nothing]
  /\ read' = [read EXCEPT ![w] = Nothing]

\* The call is over, with a result or an exception.
Leave(w) ==
  /\ Goto(w, "free")
  /\ Forget(w)
  /\ key' = [key EXCEPT ![w] = Nothing]
  /\ todo' = [todo EXCEPT ![w] = {}]
  /\ got' = [got EXCEPT ![w] = NoAnswer]

Remember(w, ps) == known' = [known EXCEPT ![w] = @ \cup ps]
Hand(w, ps) == handed' = [handed EXCEPT ![w] = @ \cup ps]

----------------------------------------------------------------------------
(* Resolving references: dereference, and place_details as a call of its   *)
(* own that never looks in _places.                                        *)
Begin(w) ==
  /\ pc[w] = "free"
  /\ Goto(w, "resolving")
  /\ \/ \E k \in Keys : key' = [key EXCEPT ![w] = k] /\ todo' = [todo EXCEPT ![w] = Needs[k]]
     \/ \E p \in PlaceIds : todo' = [todo EXCEPT ![w] = {p}] /\ UNCHANGED key
  /\ UNCHANGED <<cache, place, read, got, known, handed>>

ResolveKnown(w) ==
  /\ pc[w] = "resolving" /\ key[w] # Nothing
  /\ todo[w] \cap known[w] # {}
  /\ todo' = [todo EXCEPT ![w] = @ \ known[w]]
  /\ Goto(w, "resolving")
  /\ UNCHANGED <<cache, key, place, read, got, known, handed>>

SelectPlace(w) ==
  /\ pc[w] = "resolving"
  /\ \E p \in todo[w] :
       /\ key[w] = Nothing \/ p \notin known[w]
       /\ place' = [place EXCEPT ![w] = p]
       /\ read' = [read EXCEPT ![w] = places[p]]
  /\ Goto(w, "place_read")
  /\ UNCHANGED <<cache, key, todo, got, known, handed>>

HitPlace(w) ==
  /\ pc[w] = "place_read"
  /\ read[w] # Nothing /\ ~Expired(read[w])
  /\ Remember(w, {place[w]})
  /\ IF key[w] = Nothing
     THEN Leave(w)
     ELSE /\ todo' = [todo EXCEPT ![w] = @ \ {place[w]}]
          /\ Goto(w, "resolving")
          /\ Forget(w)
          /\ UNCHANGED <<key, got>>
  /\ UNCHANGED <<cache, handed>>

\* PlaceNotFoundError, after the DELETE of an expired row.
MissPlace(w) ==
  /\ pc[w] = "place_read"
  /\ \/ read[w] = Nothing /\ UNCHANGED places
     \/ read[w] # Nothing /\ Expired(read[w]) /\ DeletePlace(place[w])
  /\ Leave(w)
  /\ UNCHANGED <<clock, entries, known, handed>>

----------------------------------------------------------------------------
(* The cached operations.                                                  *)
SelectEntry(w) ==
  /\ pc[w] = "resolving" /\ key[w] # Nothing /\ todo[w] = {}
  /\ read' = [read EXCEPT ![w] = entries[key[w]]]
  /\ Goto(w, "entry_read")
  /\ UNCHANGED <<cache, key, todo, place, got, known, handed>>

\* A route is returned as it is; places are stored again before they are.
HitEntry(w) ==
  /\ pc[w] = "entry_read"
  /\ read[w] # Nothing /\ ~Expired(read[w])
  /\ IF key[w] \in RouteKeys
     THEN Leave(w)
     ELSE Goto(w, "restoring") /\ UNCHANGED <<key, todo, place, read, got>>
  /\ UNCHANGED <<cache, known, handed>>

\* Mutant of Restore: the places of a hit are not remembered.
RestoreForgetting(w) ==
  /\ pc[w] = "restoring"
  /\ \E now \in since[w] .. clock : UpsertPlaces(read[w], now)
  /\ Hand(w, read[w].answer)
  /\ Leave(w)
  /\ UNCHANGED <<clock, entries, known>>

\* now is read before the write lock is waited for.
Restore(w) ==
  /\ pc[w] = "restoring"
  /\ \E now \in since[w] .. clock : UpsertPlaces(read[w], now)
  /\ Remember(w, read[w].answer) /\ Hand(w, read[w].answer)
  /\ Leave(w)
  /\ UNCHANGED <<clock, entries>>

MissEntry(w) ==
  /\ pc[w] = "entry_read"
  /\ \/ read[w] = Nothing /\ UNCHANGED entries
     \/ read[w] # Nothing /\ Expired(read[w]) /\ DeleteEntry(key[w])
  /\ Goto(w, "asking")
  /\ Forget(w)
  /\ UNCHANGED <<clock, places, key, todo, got, known, handed>>

\* The only request of a route succeeds, and confirms its waypoints.
RouteAnswered(w) ==
  /\ pc[w] = "asking" /\ key[w] \in RouteKeys
  /\ got' = [got EXCEPT ![w] = [answer |-> {}, whole |-> TRUE, born |-> clock]]
  /\ Goto(w, "storing_entry")
  /\ UNCHANGED <<cache, key, todo, place, read, known, handed>>

\* One request for places that succeeds: a page of nearby_search, the regional or the
\* nationwide query of search_place, or the only request of the others. Another
\* one follows, or the answer is whole.
Answered(w) ==
  /\ pc[w] = "asking" /\ key[w] \notin RouteKeys
  /\ \E more \in BOOLEAN, ps \in SUBSET PlaceIds :
       /\ got' = [got EXCEPT ![w] = [answer |-> @.answer \cup ps, whole |-> ~more,
                                     born |-> clock]]
       /\ Remember(w, ps)
       /\ Goto(w, IF more THEN "asking" ELSE "storing_entry")
  /\ UNCHANGED <<cache, key, todo, place, read, handed>>

StoreEntry(w) ==
  /\ pc[w] = "storing_entry"
  /\ \E now \in since[w] .. clock : UpsertEntry(key[w], got[w], now)
  /\ IF key[w] \in RouteKeys
     THEN Leave(w)
     ELSE Goto(w, "storing_places") /\ UNCHANGED <<key, todo, place, read, got>>
  /\ UNCHANGED <<clock, places, known, handed>>

StorePlaces(w) ==
  /\ pc[w] = "storing_places"
  /\ \E now \in since[w] .. clock : UpsertPlaces(got[w], now)
  /\ Hand(w, got[w].answer)
  /\ Leave(w)
  /\ UNCHANGED <<clock, entries, known>>

\* Mutant of Raise: the pages a failed search did fetch are kept in the cache.
RaiseKeepingPages(w) ==
  /\ pc[w] # "free"
  /\ IF pc[w] = "asking" THEN UpsertEntry(key[w], got[w], clock) ELSE UNCHANGED entries
  /\ Leave(w)
  /\ UNCHANGED <<clock, places, known, handed>>

\* The request fails, or SQLite gives up on the lock: the exception leaves the call
\* and nothing of the statement happens. The provider goes on with what it knows.
Raise(w) ==
  /\ pc[w] # "free"
  /\ Leave(w)
  /\ UNCHANGED <<cache, known, handed>>

----------------------------------------------------------------------------
\* The process is killed and started again: only the file survives.
Restart ==
  /\ pc' = [w \in Workers |-> "free"]
  /\ key' = [w \in Workers |-> Nothing]
  /\ todo' = [w \in Workers |-> {}]
  /\ place' = [w \in Workers |-> Nothing]
  /\ read' = [w \in Workers |-> Nothing]
  /\ got' = [w \in Workers |-> NoAnswer]
  /\ since' = [w \in Workers |-> 0]
  /\ known' = [w \in Workers |-> {}]
  /\ handed' = [w \in Workers |-> {}]
  /\ UNCHANGED cache

Clear == ClearExpired /\ UNCHANGED <<clock, local>>

\* A request may take any time; between two statements a call takes at most Lag.
Tick ==
  /\ clock < Horizon
  /\ \A w \in Workers : pc[w] \in Unhurried \/ clock < since[w] + Lag
  /\ clock' = clock + 1
  /\ UNCHANGED <<entries, places, local>>

Call(w) ==
  \/ Begin(w) \/ ResolveKnown(w) \/ SelectPlace(w) \/ HitPlace(w) \/ MissPlace(w)
  \/ SelectEntry(w) \/ HitEntry(w) \/ Restore(w) \/ MissEntry(w)
  \/ RouteAnswered(w) \/ Answered(w) \/ StoreEntry(w) \/ StorePlaces(w) \/ Raise(w)

Next == (\E w \in Workers : Call(w)) \/ Restart \/ Clear \/ Tick

Spec == Init /\ [][Next]_vars
----------------------------------------------------------------------------
(* Properties.                                                             *)
Age(row) == clock - row.born

\* An operation answered from the cache is answered with what Kakao said less than
\* a life ago, whoever wrote, refreshed or deleted the row meanwhile.
EntriesServedFresh ==
  [][\A w \in Workers : HitEntry(w) => TTL = 0 \/ Age(read[w]) < TTL + Lag]_vars

\* A search that failed on a later page, or whose worker was killed, leaves nothing
\* a later search would take for Kakao's answer.
NoPartialAnswer == \A k \in Keys : entries[k] # Nothing => entries[k].whole

\* A place the agent was given is one its provider can dereference for the rest of
\* the session, whatever expires in the file or is deleted from it.
ReturnedIsKnown == \A w \in Workers : handed[w] \subseteq known[w]

\* A row lives its life: only an expired one is ever deleted, so place_details finds
\* what a search stored less than a life ago.
OnlyExpiredDeleted ==
  [][/\ \A k \in Keys : entries[k] # Nothing /\ entries'[k] = Nothing => Expired(entries[k])
     /\ \A p \in PlaceIds : places[p] # Nothing /\ places'[p] = Nothing => Expired(places[p])
    ]_vars
=============================================================================
