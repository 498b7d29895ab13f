------------------------- MODULE KakaoProviderProofs -------------------------
(***************************************************************************)
(* The provider and the cache file, for any number of workers, any life of *)
(* a row and any delay between two statements. The invariant says of each  *)
(* worker what the step it stands before relies on, and of each row what   *)
(* its writer knew.                                                        *)
(***************************************************************************)
EXTENDS KakaoProvider, TLAPS

\* Before a step, the worker holds what the step reads.
Placed(w) ==
  /\ pc[w] \in {"entry_read", "restoring", "asking", "storing_entry", "storing_places"} =>
       key[w] \in Keys
  /\ pc[w] = "place_read" => place[w] \in PlaceIds /\ read[w] \in PlaceRow \cup {Nothing}
  /\ pc[w] = "entry_read" => read[w] \in EntryRow \cup {Nothing}
  /\ pc[w] = "restoring" => read[w] \in EntryRow

\* A row dies at most Lag seconds later than a life after Kakao answered it.
LivesItsLife(row) == TTL # 0 => row.expires \in Nat /\ row.expires <= row.born + TTL + Lag

\* Between two statements at most Lag seconds pass, and an answer is stored in the
\* first of them: the second it carries is the second the worker last moved in.
Prompt(w) ==
  /\ pc[w] \notin Unhurried => since[w] <= clock /\ clock <= since[w] + Lag
  /\ pc[w] = "storing_entry" => got[w].born = since[w]
  /\ pc[w] = "entry_read" /\ read[w] # Nothing => LivesItsLife(read[w])

\* Only a whole answer is stored, and a place is confirmed before it is handed out.
Confirmed(w) ==
  /\ pc[w] \in {"storing_entry", "storing_places"} => got[w].whole
  /\ got[w].answer \subseteq known[w]
  /\ handed[w] \subseteq known[w]

WorkerInv(w) == Placed(w) /\ Prompt(w) /\ Confirmed(w)

\* What every row of cache_entries keeps, whoever wrote it.
RowsInv ==
  \A k \in Keys : entries[k] # Nothing => entries[k].whole /\ LivesItsLife(entries[k])

Inv ==
  /\ TypeOK
  /\ RowsInv
  /\ \A w \in Workers : WorkerInv(w)

----------------------------------------------------------------------------
(* What the operators of a statement and of a step do.                     *)

\* An expiry is None exactly when rows live for ever.
LEMMA ExpiryTyped ==
  ASSUME NEW now \in Nat
  PROVE  /\ ExpiresAt(now) \in Expiry
         /\ TTL # 0 => ExpiresAt(now) = now + TTL
BY CacheAssumption DEF ExpiresAt, Expiry

\* _set replaces one row, by the payload it is given.
LEMMA EntryStored ==
  ASSUME CacheTypeOK, NEW k \in Keys, NEW payload \in Payload, NEW now \in Nat,
         UpsertEntry(k, payload, now)
  PROVE  /\ entries' \in [Keys -> EntryRow \cup {Nothing}]
         /\ entries'[k].whole = payload.whole
         /\ entries'[k].born = payload.born
         /\ entries'[k].expires = ExpiresAt(now)
         /\ \A j \in Keys \ {k} : entries'[j] = entries[j]
<1> DEFINE row == [answer |-> payload.answer, whole |-> payload.whole, born |-> payload.born,
                   expires |-> ExpiresAt(now)]
<1>1. row \in EntryRow
  BY ExpiryTyped DEF EntryRow, Payload
<1>2. entries' = [entries EXCEPT ![k] = row]
  BY DEF UpsertEntry
<1>3. entries'[k] = row /\ \A j \in Keys \ {k} : entries'[j] = entries[j]
  BY <1>2 DEF CacheTypeOK
<1>4. entries' \in [Keys -> EntryRow \cup {Nothing}]
  BY <1>1, <1>2 DEF CacheTypeOK
<1>5. QED
  BY <1>3, <1>4

\* store_places writes places.
LEMMA PlacesStored ==
  ASSUME CacheTypeOK, NEW payload, payload.born \in Second, NEW now \in Nat,
         UpsertPlaces(payload, now)
  PROVE  places' \in [PlaceIds -> PlaceRow \cup {Nothing}]
<1>1. [born |-> payload.born, expires |-> ExpiresAt(now)] \in PlaceRow
  BY ExpiryTyped DEF PlaceRow
<1>2. QED
  BY <1>1 DEF UpsertPlaces, CacheTypeOK

\* A step moves one worker, and dates the move.
LEMMA Moved ==
  ASSUME TypeOK, NEW w \in Workers, NEW l \in Locations, Goto(w, l)
  PROVE  /\ pc' \in [Workers -> Locations]
         /\ since' \in [Workers -> Second]
         /\ pc'[w] = l
         /\ since'[w] = IF l \in Unhurried THEN 0 ELSE clock
         /\ \A v \in Workers \ {w} : pc'[v] = pc[v] /\ since'[v] = since[v]
BY DEF TypeOK, CacheTypeOK, Goto, Second

\* The end of a call clears what the worker held.
LEMMA Left ==
  ASSUME TypeOK, NEW w \in Workers, Leave(w)
  PROVE  /\ Goto(w, "free")
         /\ key' \in [Workers -> Keys \cup {Nothing}]
         /\ todo' \in [Workers -> SUBSET PlaceIds]
         /\ place' \in [Workers -> PlaceIds \cup {Nothing}]
         /\ read' \in [Workers -> EntryRow \cup PlaceRow \cup {Nothing}]
         /\ got' \in [Workers -> Payload]
         /\ got'[w] = NoAnswer
         /\ \A v \in Workers \ {w} : /\ key'[v] = key[v] /\ place'[v] = place[v]
                                     /\ read'[v] = read[v] /\ got'[v] = got[v]
<1>1. NoAnswer \in Payload
  BY DEF NoAnswer, Payload, Second
<1>2. QED
  BY <1>1 DEF Leave, Forget, TypeOK

\* The invariant of a worker reads its own locals, the clock, and nothing else.
LEMMA OthersKept ==
  ASSUME NEW v \in Workers, WorkerInv(v), UNCHANGED clock,
         pc'[v] = pc[v], key'[v] = key[v], place'[v] = place[v], read'[v] = read[v],
         got'[v] = got[v], since'[v] = since[v], known'[v] = known[v], handed'[v] = handed[v]
  PROVE  WorkerInv(v)'
BY DEF WorkerInv, Placed, Prompt, Confirmed, LivesItsLife

\* A worker between two calls promises nothing but what it handed out.
LEMMA FreeInv ==
  ASSUME NEW w \in Workers, pc'[w] = "free", got'[w] = NoAnswer, handed'[w] \subseteq known'[w]
  PROVE  WorkerInv(w)'
BY DEF WorkerInv, Placed, Prompt, Confirmed, Unhurried, NoAnswer

\* A call that ends keeps the invariant of every worker, if what it handed out is known.
LEMMA LeaveInv ==
  ASSUME Inv, NEW w \in Workers, Leave(w), UNCHANGED clock,
         known' \in [Workers -> SUBSET PlaceIds], handed' \in [Workers -> SUBSET PlaceIds],
         \A v \in Workers \ {w} : known'[v] = known[v] /\ handed'[v] = handed[v],
         handed'[w] \subseteq known'[w],
         entries' \in [Keys -> EntryRow \cup {Nothing}], RowsInv',
         places' \in [PlaceIds -> PlaceRow \cup {Nothing}]
  PROVE  Inv'
<1>1. "free" \in Locations
  BY DEF Locations
<1>2. TypeOK'
  BY <1>1, Moved, Left DEF Inv, TypeOK, CacheTypeOK
<1>3. WorkerInv(w)'
  BY <1>1, Moved, Left, FreeInv DEF Inv
<1>4. ASSUME NEW v \in Workers \ {w} PROVE WorkerInv(v)'
  BY <1>1, Moved, Left, OthersKept DEF Inv
<1>5. QED
  BY <1>2, <1>3, <1>4 DEF Inv

\* Nor does a call that goes on, if the worker it moves is left with its own.
LEMMA GotoInv ==
  ASSUME Inv, NEW w \in Workers, NEW l \in Locations, Goto(w, l), UNCHANGED clock,
         key' \in [Workers -> Keys \cup {Nothing}],
         todo' \in [Workers -> SUBSET PlaceIds],
         place' \in [Workers -> PlaceIds \cup {Nothing}],
         read' \in [Workers -> EntryRow \cup PlaceRow \cup {Nothing}],
         got' \in [Workers -> Payload],
         known' \in [Workers -> SUBSET PlaceIds], UNCHANGED handed,
         \A v \in Workers \ {w} : /\ key'[v] = key[v] /\ place'[v] = place[v]
                                  /\ read'[v] = read[v] /\ got'[v] = got[v]
                                  /\ known'[v] = known[v],
         entries' \in [Keys -> EntryRow \cup {Nothing}], RowsInv',
         places' \in [PlaceIds -> PlaceRow \cup {Nothing}],
         WorkerInv(w)'
  PROVE  Inv'
<1>1. TypeOK'
  BY Moved DEF Inv, TypeOK, CacheTypeOK
<1>2. ASSUME NEW v \in Workers \ {w} PROVE WorkerInv(v)'
  BY Moved, OthersKept DEF Inv
<1>3. QED
  BY <1>1, <1>2 DEF Inv

\* A step that leaves the tables alone leaves their rows alone.
LEMMA RowsKept ==
  ASSUME Inv, UNCHANGED <<entries, places>>
  PROVE  /\ entries' \in [Keys -> EntryRow \cup {Nothing}] /\ RowsInv'
         /\ places' \in [PlaceIds -> PlaceRow \cup {Nothing}]
BY DEF Inv, TypeOK, CacheTypeOK, RowsInv, LivesItsLife

\* A DELETE takes a row away and touches no other.
LEMMA RowsDeleted ==
  ASSUME Inv
  PROVE  /\ \A k : DeleteEntry(k) => /\ entries' \in [Keys -> EntryRow \cup {Nothing}]
                                     /\ RowsInv'
         /\ \A p : DeletePlace(p) => places' \in [PlaceIds -> PlaceRow \cup {Nothing}]
<1>1. ASSUME NEW k, DeleteEntry(k)
      PROVE  entries' \in [Keys -> EntryRow \cup {Nothing}] /\ RowsInv'
  <2>1. entries' \in [Keys -> EntryRow \cup {Nothing}]
    BY <1>1 DEF DeleteEntry, Inv, TypeOK, CacheTypeOK
  <2>2. \A j \in Keys : entries'[j] \in {entries[j], Nothing}
    BY <1>1 DEF DeleteEntry, Inv, TypeOK, CacheTypeOK
  <2>3. QED
    BY <2>1, <2>2 DEF Inv, RowsInv, LivesItsLife
<1>2. ASSUME NEW p, DeletePlace(p)
      PROVE  places' \in [PlaceIds -> PlaceRow \cup {Nothing}]
  BY <1>2 DEF DeletePlace, Inv, TypeOK, CacheTypeOK
<1>3. QED
  BY <1>1, <1>2

----------------------------------------------------------------------------
(* The actions.                                                            *)

\* An empty file and idle workers.
LEMMA InitInv == Init => Inv
<1> SUFFICES ASSUME Init PROVE Inv
  OBVIOUS
<1>1. NoAnswer \in Payload /\ "free" \in Locations
  BY DEF NoAnswer, Payload, Second, Locations
<1>2. TypeOK
  BY <1>1 DEF Init, CacheInit, TypeOK, CacheTypeOK, Second
<1>3. RowsInv
  BY DEF Init, CacheInit, RowsInv
<1>4. ASSUME NEW w \in Workers PROVE WorkerInv(w)
  BY DEF Init, WorkerInv, Placed, Prompt, Confirmed, Unhurried, NoAnswer
<1>5. QED
  BY <1>2, <1>3, <1>4 DEF Inv

\* Beginning a call, and resolving its references.
LEMMA ResolvingInv ==
  ASSUME Inv, NEW w \in Workers,
         Begin(w) \/ ResolveKnown(w) \/ SelectPlace(w) \/ SelectEntry(w)
  PROVE  Inv'
<1>1. /\ UNCHANGED <<clock, entries, places, got, known, handed>>
      /\ key' \in [Workers -> Keys \cup {Nothing}]
      /\ todo' \in [Workers -> SUBSET PlaceIds]
      /\ \A v \in Workers \ {w} : key'[v] = key[v]
  BY ProviderAssumption
  DEF Inv, TypeOK, Begin, ResolveKnown, SelectPlace, SelectEntry, cache
<1>2. clock \in Nat /\ clock <= clock + Lag
  BY ProviderAssumption DEF Inv, TypeOK, CacheTypeOK
<1>3. CASE Begin(w) \/ ResolveKnown(w)
  <2>1. Goto(w, "resolving") /\ UNCHANGED <<place, read>>
    BY <1>3 DEF Begin, ResolveKnown
  <2>2. "resolving" \in Locations
    BY DEF Locations
  <2>3. pc'[w] = "resolving" /\ since'[w] = clock
    BY <2>1, <2>2, Moved DEF Inv, Unhurried
  <2>4. WorkerInv(w)'
    BY <1>1, <1>2, <2>3 DEF Inv, WorkerInv, Placed, Prompt, Confirmed
  <2>5. QED
    BY <1>1, <2>1, <2>2, <2>4, RowsKept, GotoInv DEF Inv, TypeOK
<1>4. CASE SelectPlace(w)
  <2>1. PICK p \in PlaceIds : /\ place' = [place EXCEPT ![w] = p]
                              /\ read' = [read EXCEPT ![w] = places[p]]
    BY <1>4 DEF Inv, TypeOK, SelectPlace
  <2>2. Goto(w, "place_read") /\ "place_read" \in Locations
    BY <1>4 DEF SelectPlace, Locations
  <2>3. pc'[w] = "place_read" /\ since'[w] = clock
    BY <2>2, Moved DEF Inv, Unhurried
  <2>4. places[p] \in PlaceRow \cup {Nothing}
    BY DEF Inv, TypeOK, CacheTypeOK
  <2>5. /\ place' \in [Workers -> PlaceIds \cup {Nothing}]
        /\ read' \in [Workers -> EntryRow \cup PlaceRow \cup {Nothing}]
        /\ place'[w] = p /\ read'[w] = places[p]
        /\ \A v \in Workers \ {w} : place'[v] = place[v] /\ read'[v] = read[v]
    BY <2>1, <2>4 DEF Inv, TypeOK
  <2>6. WorkerInv(w)'
    BY <1>1, <1>2, <2>3, <2>4, <2>5 DEF Inv, WorkerInv, Placed, Prompt, Confirmed
  <2>7. QED
    BY <1>1, <2>2, <2>5, <2>6, RowsKept, GotoInv DEF Inv, TypeOK
<1>5. CASE SelectEntry(w)
  <2>1. /\ key[w] \in Keys
        /\ read' = [read EXCEPT ![w] = entries[key[w]]] /\ UNCHANGED <<key, place>>
    BY <1>5 DEF Inv, TypeOK, SelectEntry
  <2>2. Goto(w, "entry_read") /\ "entry_read" \in Locations
    BY <1>5 DEF SelectEntry, Locations
  <2>3. pc'[w] = "entry_read" /\ since'[w] = clock
    BY <2>2, Moved DEF Inv, Unhurried
  <2>4. entries[key[w]] \in EntryRow \cup {Nothing}
    BY <2>1 DEF Inv, TypeOK, CacheTypeOK
  <2>5. /\ read' \in [Workers -> EntryRow \cup PlaceRow \cup {Nothing}]
        /\ read'[w] = entries[key[w]]
        /\ \A v \in Workers \ {w} : read'[v] = read[v]
    BY <2>1, <2>4 DEF Inv, TypeOK
  <2>6. read'[w] # Nothing => LivesItsLife(read[w])'
    BY <2>1, <2>5 DEF Inv, RowsInv, LivesItsLife
  <2>7. WorkerInv(w)'
    BY <1>1, <1>2, <2>1, <2>3, <2>4, <2>5, <2>6
    DEF Inv, WorkerInv, Placed, Prompt, Confirmed
  <2>8. QED
    BY <1>1, <2>1, <2>2, <2>5, <2>7, RowsKept, GotoInv DEF Inv, TypeOK
<1>6. QED
  BY <1>3, <1>4, <1>5

\* A place found in the file is remembered.
LEMMA HitPlaceInv == ASSUME Inv, NEW w \in Workers, HitPlace(w) PROVE Inv'
<1>1. pc[w] = "place_read" /\ place[w] \in PlaceIds
  BY DEF HitPlace, Inv, WorkerInv, Placed
<1>2. /\ UNCHANGED <<clock, entries, places, handed>>
      /\ known' \in [Workers -> SUBSET PlaceIds]
      /\ known[w] \subseteq known'[w]
      /\ \A v \in Workers \ {w} : known'[v] = known[v]
  BY <1>1 DEF HitPlace, Remember, Inv, TypeOK, cache
<1>3. CASE Leave(w)
  BY <1>2, <1>3, RowsKept, LeaveInv DEF Inv, TypeOK, WorkerInv, Confirmed
<1>4. CASE /\ todo' = [todo EXCEPT ![w] = @ \ {place[w]}]
           /\ Goto(w, "resolving")
           /\ Forget(w)
           /\ UNCHANGED <<key, got>>
  <2>1. "resolving" \in Locations
    BY DEF Locations
  <2>2. /\ todo' \in [Workers -> SUBSET PlaceIds]
        /\ place' \in [Workers -> PlaceIds \cup {Nothing}]
        /\ read' \in [Workers -> EntryRow \cup PlaceRow \cup {Nothing}]
        /\ \A v \in Workers \ {w} : place'[v] = place[v] /\ read'[v] = read[v]
    BY <1>4 DEF Forget, Inv, TypeOK
  <2>3. pc'[w] = "resolving" /\ since'[w] = clock
    BY <1>4, <2>1, Moved DEF Inv, Unhurried
  <2>4. clock \in Nat /\ clock <= clock + Lag
    BY ProviderAssumption DEF Inv, TypeOK, CacheTypeOK
  <2>5. WorkerInv(w)'
    BY <1>2, <1>4, <2>3, <2>4 DEF Inv, WorkerInv, Placed, Prompt, Confirmed
  <2>6. QED
    BY <1>2, <1>4, <2>1, <2>2, <2>5, RowsKept, GotoInv DEF Inv, TypeOK
<1>5. QED
  BY <1>3, <1>4 DEF HitPlace

\* A call that fails keeps nothing: a missing place, and any exception.
LEMMA EndedInv ==
  ASSUME Inv, NEW w \in Workers, MissPlace(w) \/ Raise(w)
  PROVE  Inv'
<1>1. Leave(w) /\ UNCHANGED <<clock, entries, known, handed>>
      /\ (UNCHANGED places \/ DeletePlace(place[w]))
  BY DEF MissPlace, Raise, cache
<1>2. handed'[w] \subseteq known'[w]
  BY <1>1 DEF Inv, WorkerInv, Confirmed
<1>3. /\ entries' \in [Keys -> EntryRow \cup {Nothing}] /\ RowsInv'
      /\ places' \in [PlaceIds -> PlaceRow \cup {Nothing}]
  <2>1. RowsInv'
    BY <1>1 DEF Inv, RowsInv, LivesItsLife
  <2>2. QED
    BY <1>1, <2>1, RowsKept, RowsDeleted DEF Inv, TypeOK, CacheTypeOK
<1>4. QED
  BY <1>1, <1>2, <1>3, LeaveInv DEF Inv, TypeOK

\* A row that is served goes to the caller, or is stored again first.
LEMMA HitEntryInv == ASSUME Inv, NEW w \in Workers, HitEntry(w) PROVE Inv'
<1>1. UNCHANGED <<clock, entries, places, known, handed>>
  BY DEF HitEntry, cache
<1>2. CASE Leave(w)
  BY <1>1, <1>2, RowsKept, LeaveInv DEF Inv, TypeOK, WorkerInv, Confirmed
<1>3. CASE Goto(w, "restoring") /\ UNCHANGED <<key, todo, place, read, got>>
  <2>1. "restoring" \in Locations
    BY DEF Locations
  <2>2. pc'[w] = "restoring" /\ since'[w] = clock
    BY <1>3, <2>1, Moved DEF Inv, Unhurried
  <2>3. clock \in Nat /\ clock <= clock + Lag
    BY ProviderAssumption DEF Inv, TypeOK, CacheTypeOK
  <2>4. key[w] \in Keys /\ read[w] \in EntryRow
    BY DEF Inv, WorkerInv, Placed, HitEntry
  <2>5. WorkerInv(w)'
    BY <1>1, <1>3, <2>2, <2>3, <2>4 DEF Inv, WorkerInv, Placed, Prompt, Confirmed
  <2>6. QED
    BY <1>1, <1>3, <2>1, <2>5, RowsKept, GotoInv DEF Inv, TypeOK
<1>4. QED
  BY <1>2, <1>3 DEF HitEntry

\* The places of a row that was served are known and stored again.
LEMMA RestoreInv == ASSUME Inv, NEW w \in Workers, Restore(w) PROVE Inv'
<1>1. read[w] \in EntryRow
  BY DEF Inv, WorkerInv, Placed, Restore
<1>2. PICK now \in since[w] .. clock : UpsertPlaces(read[w], now)
  BY DEF Restore
<1>3. now \in Nat
  BY DEF Inv, TypeOK, CacheTypeOK, Second
<1>4. places' \in [PlaceIds -> PlaceRow \cup {Nothing}]
  BY <1>1, <1>2, <1>3, PlacesStored DEF Inv, TypeOK, EntryRow
<1>5. read[w].answer \subseteq PlaceIds
  BY <1>1 DEF EntryRow
<1>6. /\ known' \in [Workers -> SUBSET PlaceIds] /\ handed' \in [Workers -> SUBSET PlaceIds]
      /\ \A v \in Workers \ {w} : known'[v] = known[v] /\ handed'[v] = handed[v]
      /\ handed'[w] \subseteq known'[w]
  BY <1>5 DEF Restore, Remember, Hand, Inv, TypeOK, WorkerInv, Confirmed
<1>7. Leave(w) /\ UNCHANGED <<clock, entries>>
  BY DEF Restore
<1>8. entries' \in [Keys -> EntryRow \cup {Nothing}] /\ RowsInv'
  BY <1>7 DEF Inv, TypeOK, CacheTypeOK, RowsInv, LivesItsLife
<1>9. QED
  BY <1>4, <1>6, <1>7, <1>8, LeaveInv

\* A miss sends the worker to Kakao.
LEMMA MissEntryInv == ASSUME Inv, NEW w \in Workers, MissEntry(w) PROVE Inv'
<1>1. /\ Goto(w, "asking") /\ Forget(w) /\ UNCHANGED <<clock, places, key, todo, got, known, handed>>
      /\ (UNCHANGED entries \/ DeleteEntry(key[w]))
      /\ pc[w] = "entry_read"
  BY DEF MissEntry
<1>2. "asking" \in Locations
  BY DEF Locations
<1>3. /\ place' \in [Workers -> PlaceIds \cup {Nothing}]
      /\ read' \in [Workers -> EntryRow \cup PlaceRow \cup {Nothing}]
      /\ \A v \in Workers \ {w} : place'[v] = place[v] /\ read'[v] = read[v]
  BY <1>1 DEF Forget, Inv, TypeOK
<1>4. /\ entries' \in [Keys -> EntryRow \cup {Nothing}] /\ RowsInv'
      /\ places' \in [PlaceIds -> PlaceRow \cup {Nothing}]
  BY <1>1, RowsKept, RowsDeleted DEF Inv, TypeOK, CacheTypeOK
<1>5. pc'[w] = "asking"
  BY <1>1, <1>2, Moved DEF Inv
<1>6. WorkerInv(w)'
  BY <1>1, <1>5 DEF Inv, WorkerInv, Placed, Prompt, Confirmed, Unhurried
<1>7. QED
  BY <1>1, <1>2, <1>3, <1>4, <1>6, GotoInv DEF Inv, TypeOK

\* What a request confirms is known before it is stored; only the last one makes the
\* answer whole, and the answer carries the second of its last request.
LEMMA AskingInv ==
  ASSUME Inv, NEW w \in Workers, RouteAnswered(w) \/ Answered(w)
  PROVE  Inv'
<1>1. PICK ps \in SUBSET PlaceIds, whole \in BOOLEAN, all \in SUBSET PlaceIds,
           l \in {"asking", "storing_entry"} :
        /\ got' = [got EXCEPT ![w] = [answer |-> all, whole |-> whole, born |-> clock]]
        /\ all \subseteq got[w].answer \cup ps
        /\ Remember(w, ps)
        /\ l = "storing_entry" => whole
        /\ Goto(w, l)
  <2>1. CASE RouteAnswered(w)
    <3>1. Remember(w, {})
      BY <2>1 DEF RouteAnswered, Remember, Inv, TypeOK
    <3>2. /\ got' = [got EXCEPT ![w] = [answer |-> {}, whole |-> TRUE, born |-> clock]]
          /\ Goto(w, "storing_entry")
      BY <2>1 DEF RouteAnswered
    <3>3. {} \subseteq got[w].answer \cup {}
      OBVIOUS
    <3> WITNESS {} \in SUBSET PlaceIds, TRUE \in BOOLEAN, {} \in SUBSET PlaceIds,
                "storing_entry" \in {"asking", "storing_entry"}
    <3>4. QED
      BY <3>1, <3>2, <3>3
  <2>2. CASE Answered(w)
    <3>1. PICK more \in BOOLEAN, ps \in SUBSET PlaceIds :
            /\ got' = [got EXCEPT ![w] = [answer |-> @.answer \cup ps, whole |-> ~more,
                                          born |-> clock]]
            /\ Remember(w, ps)
            /\ Goto(w, IF more THEN "asking" ELSE "storing_entry")
      BY <2>2 DEF Answered
    <3>2. got[w].answer \cup ps \in SUBSET PlaceIds
      BY DEF Inv, TypeOK, Payload
    <3>3. QED
      BY <3>1, <3>2
  <2>3. QED
    BY <2>1, <2>2
<1>2. /\ UNCHANGED <<clock, entries, places, key, todo, place, read, handed>>
      /\ pc[w] = "asking"
  BY <1>1 DEF RouteAnswered, Answered, cache
<1>3. [answer |-> all, whole |-> whole, born |-> clock] \in Payload
  BY DEF Payload, Inv, TypeOK, CacheTypeOK, Second
<1>4. /\ got' \in [Workers -> Payload]
      /\ got'[w] = [answer |-> all, whole |-> whole, born |-> clock]
      /\ \A v \in Workers \ {w} : got'[v] = got[v]
  BY <1>1, <1>3 DEF Inv, TypeOK
<1>5. /\ known' \in [Workers -> SUBSET PlaceIds]
      /\ known'[w] = known[w] \cup ps
      /\ \A v \in Workers \ {w} : known'[v] = known[v]
  BY <1>1 DEF Remember, Inv, TypeOK
<1>6. l \in Locations
  BY DEF Locations
<1>7. pc'[w] = l /\ (l = "storing_entry" => since'[w] = clock)
  BY <1>1, <1>6, Moved DEF Inv, Unhurried
<1>8. WorkerInv(w)'
  <2>1. clock \in Nat /\ clock <= clock + Lag
    BY ProviderAssumption DEF Inv, TypeOK, CacheTypeOK
  <2>2. Placed(w)'
    BY <1>2, <1>7 DEF Inv, WorkerInv, Placed
  <2>3. Prompt(w)'
    BY <1>2, <1>4, <1>7, <2>1 DEF Prompt, Unhurried
  <2>4. Confirmed(w)'
    BY <1>1, <1>2, <1>4, <1>5, <1>7 DEF Inv, WorkerInv, Confirmed
  <2>5. QED
    BY <2>2, <2>3, <2>4 DEF WorkerInv
<1>9. QED
  BY <1>1, <1>2, <1>4, <1>5, <1>6, <1>8, RowsKept, GotoInv DEF Inv, TypeOK

\* The row stored is whole, and dated within Lag of the second Kakao answered in.
LEMMA StoreEntryInv == ASSUME Inv, NEW w \in Workers, StoreEntry(w) PROVE Inv'
<1>1. /\ pc[w] = "storing_entry" /\ key[w] \in Keys
      /\ got[w] \in Payload /\ got[w].whole /\ got[w].born = since[w]
      /\ clock \in Nat /\ since[w] \in Nat /\ clock <= since[w] + Lag
  BY DEF StoreEntry, Inv, TypeOK, CacheTypeOK, WorkerInv, Placed, Prompt, Confirmed,
         Unhurried, Second
<1>2. PICK now \in since[w] .. clock : UpsertEntry(key[w], got[w], now)
  BY DEF StoreEntry
<1>3. now \in Nat
  BY <1>1
<1>4. /\ entries' \in [Keys -> EntryRow \cup {Nothing}]
      /\ entries'[key[w]].whole
      /\ entries'[key[w]].born = since[w]
      /\ entries'[key[w]].expires = ExpiresAt(now)
      /\ \A j \in Keys \ {key[w]} : entries'[j] = entries[j]
  BY <1>1, <1>2, <1>3, EntryStored DEF Inv, TypeOK
<1>5. LivesItsLife(entries'[key[w]])
  BY <1>1, <1>3, <1>4, ExpiryTyped, CacheAssumption, ProviderAssumption DEF LivesItsLife
<1>6. RowsInv'
  <2>1. ASSUME NEW k \in Keys, entries'[k] # Nothing
        PROVE  entries'[k].whole /\ LivesItsLife(entries'[k])
    BY <1>4, <1>5, <2>1 DEF Inv, RowsInv
  <2>2. QED
    BY <2>1 DEF RowsInv, LivesItsLife
<1>7. UNCHANGED <<clock, places, known, handed>>
  BY DEF StoreEntry
<1>8. places' \in [PlaceIds -> PlaceRow \cup {Nothing}]
  BY <1>7 DEF Inv, TypeOK, CacheTypeOK
<1>9. CASE Leave(w)
  BY <1>4, <1>6, <1>7, <1>8, <1>9, LeaveInv DEF Inv, TypeOK, WorkerInv, Confirmed
<1>10. CASE Goto(w, "storing_places") /\ UNCHANGED <<key, todo, place, read, got>>
  <2>1. "storing_places" \in Locations
    BY DEF Locations
  <2>2. pc'[w] = "storing_places" /\ since'[w] = clock
    BY <1>10, <2>1, Moved DEF Inv, Unhurried
  <2>3. clock <= clock + Lag
    BY <1>1, ProviderAssumption
  <2>4. WorkerInv(w)'
    BY <1>1, <1>7, <1>10, <2>2, <2>3 DEF Inv, WorkerInv, Placed, Prompt, Confirmed
  <2>5. QED
    BY <1>4, <1>6, <1>7, <1>8, <1>10, <2>1, <2>4, GotoInv DEF Inv, TypeOK
<1>11. QED
  BY <1>9, <1>10 DEF StoreEntry

\* The places handed out are the ones the requests confirmed.
LEMMA StorePlacesInv == ASSUME Inv, NEW w \in Workers, StorePlaces(w) PROVE Inv'
<1>1. PICK now \in since[w] .. clock : UpsertPlaces(got[w], now)
  BY DEF StorePlaces
<1>2. now \in Nat /\ got[w] \in Payload
  BY DEF Inv, TypeOK, CacheTypeOK, Second
<1>3. places' \in [PlaceIds -> PlaceRow \cup {Nothing}]
  BY <1>1, <1>2, PlacesStored DEF Inv, TypeOK, Payload
<1>4. Leave(w) /\ UNCHANGED <<clock, entries, known>>
  BY DEF StorePlaces
<1>5. /\ handed' \in [Workers -> SUBSET PlaceIds]
      /\ \A v \in Workers \ {w} : handed'[v] = handed[v]
      /\ handed'[w] \subseteq known'[w]
  BY <1>2, <1>4 DEF StorePlaces, Hand, Inv, TypeOK, WorkerInv, Confirmed, Payload
<1>6. entries' \in [Keys -> EntryRow \cup {Nothing}] /\ RowsInv'
  BY <1>4 DEF Inv, TypeOK, CacheTypeOK, RowsInv, LivesItsLife
<1>7. QED
  BY <1>3, <1>4, <1>5, <1>6, LeaveInv DEF Inv, TypeOK

\* After a restart every worker is idle and the file is what it was.
LEMMA RestartInv == ASSUME Inv, Restart PROVE Inv'
<1>1. NoAnswer \in Payload /\ "free" \in Locations
  BY DEF NoAnswer, Payload, Second, Locations
<1>2. UNCHANGED <<clock, entries, places>>
  BY DEF Restart, cache
<1>3. TypeOK'
  BY <1>1, <1>2 DEF Restart, Inv, TypeOK, CacheTypeOK, Second
<1>4. ASSUME NEW w \in Workers PROVE WorkerInv(w)'
  BY FreeInv DEF Restart
<1>5. QED
  BY <1>2, <1>3, <1>4, RowsKept DEF Inv

\* clear_expired takes rows away.
LEMMA ClearInv == ASSUME Inv, Clear PROVE Inv'
<1>1. /\ \A k \in Keys : entries'[k] \in {entries[k], Nothing}
      /\ entries' \in [Keys -> EntryRow \cup {Nothing}]
      /\ places' \in [PlaceIds -> PlaceRow \cup {Nothing}]
  BY DEF Clear, ClearExpired, Inv, TypeOK, CacheTypeOK
<1>2. UNCHANGED clock /\ UNCHANGED <<pc, key, todo, place, read, got, since, known, handed>>
  BY DEF Clear, local
<1>3. TypeOK'
  BY <1>1, <1>2 DEF Inv, TypeOK, CacheTypeOK
<1>4. RowsInv'
  BY <1>1 DEF Inv, RowsInv, LivesItsLife
<1>5. ASSUME NEW w \in Workers PROVE WorkerInv(w)'
  BY <1>2, OthersKept DEF Inv
<1>6. QED
  BY <1>3, <1>4, <1>5 DEF Inv

\* The clock waits for a worker whose next statement is due.
LEMMA TickInv == ASSUME Inv, Tick PROVE Inv'
<1>1. /\ clock' = clock + 1 /\ clock \in Nat
      /\ \A w \in Workers : pc[w] \in Unhurried \/ clock < since[w] + Lag
      /\ UNCHANGED <<entries, places, pc, key, todo, place, read, got, since, known, handed>>
  BY DEF Tick, local, Inv, TypeOK, CacheTypeOK
<1>2. TypeOK'
  BY <1>1 DEF Inv, TypeOK, CacheTypeOK
<1>3. RowsInv'
  BY <1>1, RowsKept
<1>4. ASSUME NEW w \in Workers PROVE WorkerInv(w)'
  <2>1. since[w] \in Nat
    BY DEF Inv, TypeOK, Second
  <2>2. Prompt(w)'
    BY <1>1, <2>1, ProviderAssumption DEF Inv, WorkerInv, Prompt, LivesItsLife
  <2>3. Placed(w)' /\ Confirmed(w)'
    BY <1>1 DEF Inv, WorkerInv, Placed, Confirmed
  <2>4. QED
    BY <2>2, <2>3 DEF WorkerInv
<1>5. QED
  BY <1>2, <1>3, <1>4 DEF Inv

\* The invariant is inductive.
LEMMA Invariance == Spec => []Inv
<1>1. Inv /\ [Next]_vars => Inv'
  <2> SUFFICES ASSUME Inv, [Next]_vars PROVE Inv'
    OBVIOUS
  <2>1. ASSUME NEW w \in Workers, Call(w) PROVE Inv'
    BY <2>1, ResolvingInv, HitPlaceInv, EndedInv, HitEntryInv, RestoreInv, MissEntryInv,
       AskingInv, StoreEntryInv, StorePlacesInv
    DEF Call
  <2>2. CASE UNCHANGED vars
    <3>1. /\ UNCHANGED <<clock, entries, places>>
          /\ UNCHANGED <<pc, key, todo, place, read, got, since, known, handed>>
      BY <2>2 DEF vars, cache, local
    <3>2. TypeOK' /\ RowsInv'
      BY <3>1, RowsKept DEF Inv, TypeOK, CacheTypeOK
    <3>3. ASSUME NEW w \in Workers PROVE WorkerInv(w)'
      BY <3>1, OthersKept DEF Inv
    <3>4. QED
      BY <3>2, <3>3 DEF Inv
  <2>3. QED
    BY <2>1, <2>2, RestartInv, ClearInv, TickInv DEF Next
<1>2. QED
  BY <1>1, InitInv, PTL DEF Spec

----------------------------------------------------------------------------
\* Every variable of the workers and of the file keeps its type.
THEOREM ProviderTypeCorrect == Spec => []TypeOK
BY Invariance, PTL DEF Inv

\* No row of the file is part of an answer, whatever failed or was killed on the way.
THEOREM PartialAnswersNeverStored == Spec => []NoPartialAnswer
<1>1. Inv => NoPartialAnswer
  BY DEF Inv, RowsInv, NoPartialAnswer
<1>2. QED
  BY <1>1, Invariance, PTL

\* Every place an agent was given is one its provider dereferences from memory.
THEOREM ReturnedPlacesStayKnown == Spec => []ReturnedIsKnown
<1>1. Inv => ReturnedIsKnown
  BY DEF Inv, WorkerInv, Confirmed, ReturnedIsKnown
<1>2. QED
  BY <1>1, Invariance, PTL

\* A row that is served is younger than a life and the delay of one statement: its
\* writer read the clock at most Lag after Kakao answered, and the row died a life later.
THEOREM ServedEntriesAreFresh == Spec => EntriesServedFresh
<1>1. ASSUME Inv, NEW w \in Workers, HitEntry(w), TTL # 0
      PROVE  Age(read[w]) < TTL + Lag
  <2>1. /\ read[w] # Nothing /\ read[w] \in EntryRow /\ LivesItsLife(read[w])
        /\ ~Expired(read[w])
    BY <1>1 DEF HitEntry, Inv, WorkerInv, Placed, Prompt
  <2>2. /\ read[w].born \in Nat /\ read[w].expires \in Nat /\ clock \in Nat
        /\ read[w].expires <= read[w].born + TTL + Lag
    BY <1>1, <2>1 DEF LivesItsLife, EntryRow, Second, Inv, TypeOK, CacheTypeOK
  <2>3. clock < read[w].expires
    BY <2>1, <2>2, CacheAssumption DEF Expired
  <2>4. QED
    BY <2>2, <2>3, CacheAssumption, ProviderAssumption DEF Age
<1>2. Inv => \A w \in Workers : HitEntry(w) => TTL = 0 \/ Age(read[w]) < TTL + Lag
  BY <1>1
<1>3. QED
  BY <1>2, Invariance, PTL DEF EntriesServedFresh
=============================================================================
