-------------------------- MODULE AsyncSourceProofs --------------------------
(***************************************************************************)
(* Proofs about AsyncSource for any keys, clients, delays and bounds: the  *)
(* request set mirrors the queue, no request is lost, no wake-up is lost.  *)
(***************************************************************************)
EXTENDS AsyncSource, TLAPS

\* What the proofs need of the types.
IsRequest(r) ==
    /\ r = [m_available |-> r.m_available, m_callback |-> r.m_callback,
            m_start_time |-> r.m_start_time]
    /\ r.m_available \in BOOLEAN

MapType ==
    /\ m_value_map = [k \in DOMAIN m_value_map |-> m_value_map[k]]
    /\ \A k \in DOMAIN m_value_map : IsRequest(m_value_map[k])
QueueType == now \in Nat /\ m_request_queue \subseteq Nat \X Keys

\* A thread object is joinable exactly while it stands for a thread.
ThreadInv == joinable <=> tpc # "none"

AsyncInv ==
    /\ MapType /\ QueueType /\ ThreadInv
    /\ QueueAgrees /\ NoLostRequest /\ WakeupNotLost

\* The invariant holds initially.
LEMMA AsyncInit == Init => AsyncInv
<1> SUFFICES ASSUME Init PROVE AsyncInv
  OBVIOUS
<1>1. DOMAIN m_value_map = {}
  BY DEF Init
<1>2. MapType
  BY <1>1 DEF MapType, Init
<1>3. QueueType
  BY DEF QueueType, Init
<1>4. ThreadInv
  BY DEF ThreadInv, Init
<1>5. QueueAgrees /\ NoLostRequest /\ WakeupNotLost
  BY <1>1 DEF QueueAgrees, NoLostRequest, WakeupNotLost, Init
<1> QED
  BY <1>2, <1>3, <1>4, <1>5 DEF AsyncInv

-----------------------------------------------------------------------------
(* What the operators on the map do.                                       *)

\* Storing an entry adds its key and changes no other entry.
LEMMA PutFacts ==
    ASSUME NEW map, NEW k, NEW r
    PROVE  /\ DOMAIN Put(map, k, r) = DOMAIN map \cup {k}
           /\ Put(map, k, r) = [j \in DOMAIN Put(map, k, r) |-> Put(map, k, r)[j]]
           /\ Put(map, k, r)[k] = r
           /\ \A j \in DOMAIN map : j # k => Put(map, k, r)[j] = map[j]
BY DEF Put

\* Erasing keys changes no entry that stays.
LEMMA EraseFacts ==
    ASSUME NEW map, NEW ks
    PROVE  /\ DOMAIN Erase(map, ks) = DOMAIN map \ ks
           /\ Erase(map, ks) = [j \in DOMAIN Erase(map, ks) |-> Erase(map, ks)[j]]
           /\ \A j \in DOMAIN map \ ks : Erase(map, ks)[j] = map[j]
BY DEF Erase

\* Setting one field of a request leaves the others alone.
LEMMA RequestUpdate ==
    ASSUME NEW r, IsRequest(r), NEW cb
    PROVE  /\ IsRequest([r EXCEPT !.m_callback = cb])
           /\ [r EXCEPT !.m_callback = cb].m_available = r.m_available
           /\ IsRequest([r EXCEPT !.m_available = TRUE])
           /\ [r EXCEPT !.m_available = TRUE].m_available
<1>1. PICK a, b, c :
          a \in BOOLEAN /\ r = [m_available |-> a, m_callback |-> b, m_start_time |-> c]
  BY DEF IsRequest
<1>2. [r EXCEPT !.m_callback = cb]
        = [m_available |-> a, m_callback |-> cb, m_start_time |-> c]
  BY <1>1
<1>3. \A v : [r EXCEPT !.m_available = v]
        = [m_available |-> v, m_callback |-> b, m_start_time |-> c]
  BY <1>1
<1>5. [r EXCEPT !.m_available = TRUE]
        = [m_available |-> TRUE, m_callback |-> b, m_start_time |-> c]
  BY <1>3, Zenon
<1>4. r.m_available = a
  BY <1>1
<1> QED
  BY <1>2, <1>4, <1>5 DEF IsRequest

\* The entry a lookup works on is a request.
LEMMA EntryFacts ==
    ASSUME MapType, NEW k
    PROVE  /\ IsRequest(EntryFor(k))
           /\ k \in DOMAIN m_value_map => EntryFor(k) = m_value_map[k]
           /\ k \notin DOMAIN m_value_map => ~EntryFor(k).m_available
<1>1. CASE k \in DOMAIN m_value_map
  BY <1>1 DEF EntryFor, InMap, MapType
<1>2. CASE k \notin DOMAIN m_value_map
  <2>1. EntryFor(k) = [m_available |-> FALSE, m_callback |-> 0, m_start_time |-> now]
    BY <1>2 DEF EntryFor, InMap, NewRequest
  <2> QED
    BY <1>2, <2>1 DEF IsRequest
<1> QED
  BY <1>1, <1>2

\* What becomes of the map in a step: entries may vanish, be added by a lookup
\* (which enqueues the key), change their handler, or get their value.
MapStep ==
    \/ UNCHANGED m_value_map
    \/ \E ks : m_value_map' = Erase(m_value_map, ks)
    \/ \E k \in DOMAIN m_value_map : \E cb :
           m_value_map' = [m_value_map EXCEPT ![k].m_callback = cb]
    \/ \E k \in DOMAIN m_value_map :
           m_value_map' = [m_value_map EXCEPT ![k].m_available = TRUE]
    \/ \E k, cb : m_value_map' = Put(m_value_map, k, [EntryFor(k) EXCEPT !.m_callback = cb])
    \/ \E k : m_value_map' = Put(m_value_map, k, EntryFor(k))

\* Every such change leaves the map well-formed.
LEMMA MapStepType == MapType /\ MapStep => MapType'
<1> SUFFICES ASSUME MapType, MapStep PROVE MapType'
  OBVIOUS
<1> DEFINE D == DOMAIN m_value_map
<1>m. m_value_map = [k \in D |-> m_value_map[k]] /\ \A k \in D : IsRequest(m_value_map[k])
  BY DEF MapType
<1>1. CASE UNCHANGED m_value_map
  BY <1>1, <1>m DEF MapType
<1>2. ASSUME NEW ks, m_value_map' = Erase(m_value_map, ks) PROVE MapType'
  <2>1. m_value_map' = [j \in D \ ks |-> m_value_map[j]]
    BY <1>2 DEF Erase
  <2> QED
    BY <2>1, <1>m DEF MapType
<1>3. ASSUME NEW k \in D, NEW cb, m_value_map' = [m_value_map EXCEPT ![k].m_callback = cb]
      PROVE  MapType'
  <2> DEFINE r == [m_value_map[k] EXCEPT !.m_callback = cb]
  <2>1. m_value_map' = [j \in D |-> IF j = k THEN r ELSE m_value_map[j]]
    BY <1>3, <1>m
  <2>2. IsRequest(r)
    BY <1>m, RequestUpdate
  <2> HIDE DEF r
  <2> QED
    BY <2>1, <2>2, <1>m DEF MapType
<1>4. ASSUME NEW k \in D, m_value_map' = [m_value_map EXCEPT ![k].m_available = TRUE]
      PROVE  MapType'
  <2> DEFINE r == [m_value_map[k] EXCEPT !.m_available = TRUE]
  <2>1. m_value_map' = [j \in D |-> IF j = k THEN r ELSE m_value_map[j]]
    BY <1>4, <1>m
  <2>2. IsRequest(r)
    BY <1>m, RequestUpdate
  <2> HIDE DEF r
  <2> QED
    BY <2>1, <2>2, <1>m DEF MapType
<1>5. ASSUME NEW k, NEW r, IsRequest(r), m_value_map' = Put(m_value_map, k, r)
      PROVE  MapType'
  <2>1. DOMAIN m_value_map' = D \cup {k}
    BY <1>5, PutFacts
  <2>2. m_value_map' = [j \in DOMAIN m_value_map' |-> m_value_map'[j]]
    BY <1>5 DEF Put
  <2>3. ASSUME NEW j \in D \cup {k} PROVE IsRequest(m_value_map'[j])
    <3>1. m_value_map'[j] = IF j = k THEN r ELSE m_value_map[j]
      BY <1>5 DEF Put
    <3> QED
      BY <3>1, <1>5, <1>m
  <2> QED
    BY <2>1, <2>2, <2>3 DEF MapType
<1>6. ASSUME NEW k, NEW cb, m_value_map' = Put(m_value_map, k, [EntryFor(k) EXCEPT !.m_callback = cb])
      PROVE  MapType'
  <2>1. IsRequest([EntryFor(k) EXCEPT !.m_callback = cb])
    BY EntryFacts, RequestUpdate
  <2> QED
    BY <2>1, <1>5, <1>6
<1>7. ASSUME NEW k, m_value_map' = Put(m_value_map, k, EntryFor(k)) PROVE MapType'
  BY <1>5, <1>7, EntryFacts
<1> QED
  BY <1>1, <1>2, <1>3, <1>4, <1>6, <1>7 DEF MapStep

-----------------------------------------------------------------------------
(* Steps.                                                                  *)

\* Enqueue keeps the set and the queue in agreement, puts the key of a new
\* entry on the queue, and notifies the thread of what it puts there.
LEMMA EnqueueFacts ==
    ASSUME QueueType, QueueAgrees, NEW k \in Keys, NEW delay \in Nat,
           Enqueue(k, delay)
    PROVE  /\ m_request_queue' \subseteq Nat \X Keys
           /\ m_request_queue \subseteq m_request_queue'
           /\ QueueAgrees'
           /\ k \notin DOMAIN m_value_map => \E q \in m_request_queue' : q[2] = k
           /\ UNCHANGED <<m_request_queue, woken>> \/ woken'
<1>1. CASE InMap(k) \/ k \in m_request_set
  <2>1. UNCHANGED <<m_request_queue, m_request_set, woken>>
    BY <1>1 DEF Enqueue
  <2>2. QueueAgrees'
    BY <2>1 DEF QueueAgrees
  <2>3. k \notin DOMAIN m_value_map => \E q \in m_request_queue' : q[2] = k
    BY <1>1, <2>1 DEF QueueAgrees, InMap
  <2> QED
    BY <2>1, <2>2, <2>3 DEF QueueType
<1>2. CASE ~(InMap(k) \/ k \in m_request_set)
  <2> DEFINE n == <<now + delay, k>>
  <2>1. /\ m_request_queue' = m_request_queue \cup {n}
        /\ m_request_set' = m_request_set \cup {k}
        /\ woken'
    BY <1>2 DEF Enqueue
  <2>2. n \in Nat \X Keys /\ n[2] = k
    BY DEF QueueType
  <2>3. \A q \in m_request_queue : q[2] # k
    BY <1>2 DEF QueueAgrees
  <2> HIDE DEF n
  <2>4. QueueAgrees'
    BY <2>1, <2>2, <2>3 DEF QueueAgrees
  <2> QED
    BY <2>1, <2>2, <2>4 DEF QueueType
<1> QED
  BY <1>1, <1>2

\* StartThread does not touch a running thread.
LEMMA StartFacts ==
    ASSUME ThreadInv, StartThread
    PROVE  ThreadInv' /\ (tpc # "none" => tpc' = tpc) /\ (tpc' = tpc \/ tpc' = "start")
BY DEF ThreadInv, StartThread

\* A lookup that finds no value, whatever it then does with its handler.
LEMMA LookupStep ==
    ASSUME AsyncInv, NEW k \in Keys, NEW delay \in Nat, NEW r,
           r.m_available = EntryFor(k).m_available,
           StartThread, Enqueue(k, delay),
           m_value_map' = Put(m_value_map, k, r), MapType',
           UNCHANGED <<now, m_terminate, tkey, deadline>>
    PROVE  AsyncInv'
<1>i. /\ MapType /\ QueueType /\ ThreadInv
      /\ QueueAgrees /\ NoLostRequest /\ WakeupNotLost
  BY DEF AsyncInv
<1>e. /\ m_request_queue' \subseteq Nat \X Keys
      /\ m_request_queue \subseteq m_request_queue'
      /\ QueueAgrees'
      /\ k \notin DOMAIN m_value_map => \E q \in m_request_queue' : q[2] = k
      /\ UNCHANGED <<m_request_queue, woken>> \/ woken'
  BY <1>i, EnqueueFacts
<1>s. ThreadInv' /\ (tpc # "none" => tpc' = tpc) /\ (tpc' = tpc \/ tpc' = "start")
  BY <1>i, StartFacts
<1>1. QueueType'
  BY <1>e, <1>i DEF QueueType
<1>2. NoLostRequest'
  <2>1. DOMAIN m_value_map' = DOMAIN m_value_map \cup {k}
    BY DEF Put
  <2>2. ASSUME NEW j \in DOMAIN m_value_map, ~m_value_map'[j].m_available
        PROVE  ~m_value_map[j].m_available
    <3>1. m_value_map'[j] = IF j = k THEN r ELSE m_value_map[j]
      BY DEF Put
    <3>2. j = k => EntryFor(k) = m_value_map[j]
      BY EntryFacts, <1>i
    <3> QED
      BY <2>2, <3>1, <3>2
  <2>3. ASSUME NEW j \in DOMAIN m_value_map, ~m_value_map'[j].m_available
        PROVE  (\E q \in m_request_queue' : q[2] = j) \/ (tpc' = "collect" /\ tkey' = j)
    BY <2>2, <2>3, <1>e, <1>s, <1>i DEF NoLostRequest
  <2> QED
    BY <2>1, <2>3, <1>e DEF NoLostRequest
<1>3. WakeupNotLost'
  BY <1>e, <1>s, <1>i DEF WakeupNotLost
<1> QED
  BY <1>e, <1>s, <1>1, <1>2, <1>3 DEF AsyncInv

\* A step that leaves the queue alone, adds no entry, takes no value away and
\* does not interrupt a collection.
LEMMA QuietStep ==
    ASSUME AsyncInv, MapType', ThreadInv', WakeupNotLost', now' \in Nat,
           UNCHANGED <<m_request_queue, m_request_set>>,
           \A k \in DOMAIN m_value_map' :
               k \in DOMAIN m_value_map
               /\ (m_value_map[k].m_available => m_value_map'[k].m_available),
           tpc = "collect" => tpc' = "collect" /\ tkey' = tkey
    PROVE  AsyncInv'
<1>1. QueueType' /\ QueueAgrees'
  BY DEF AsyncInv, QueueType, QueueAgrees
<1>2. NoLostRequest'
  BY DEF AsyncInv, NoLostRequest
<1> QED
  BY <1>1, <1>2 DEF AsyncInv

\* A step that leaves m_value_map alone leaves it well-formed.
LEMMA MapSame == MapType /\ UNCHANGED m_value_map => MapType'
BY DEF MapType

\* Every step of the source keeps the invariant.
LEMMA AsyncNext == AsyncInv /\ [Next]_vars => AsyncInv'
<1> SUFFICES ASSUME AsyncInv, [Next]_vars PROVE AsyncInv'
  OBVIOUS
<1>i. /\ MapType /\ QueueType /\ ThreadInv
      /\ QueueAgrees /\ NoLostRequest /\ WakeupNotLost
  BY DEF AsyncInv
<1>1. ASSUME NEW c \in Clients, NEW k \in Keys, NEW h \in Handlers, LookupReturns(c, k, h)
      PROVE  AsyncInv'
  <2>1. MapType'
    BY <1>1, <1>i, MapStepType DEF LookupReturns, MapStep
  <2>2. m_value_map' = [j \in DOMAIN m_value_map \ {k} |-> m_value_map[j]]
    BY <1>1 DEF LookupReturns, Erase
  <2>3. ThreadInv' /\ (tpc # "none" => tpc' = tpc) /\ (tpc' = tpc \/ tpc' = "start")
    BY <1>1, <1>i, StartFacts DEF LookupReturns
  <2>4. WakeupNotLost'
    BY <1>1, <2>3, <1>i DEF WakeupNotLost, LookupReturns
  <2> QED
    BY <1>1, <2>1, <2>2, <2>3, <2>4, <1>i, QuietStep DEF LookupReturns, QueueType
<1>2. ASSUME NEW c \in Clients, NEW k \in Keys, NEW h \in Handlers, NEW d \in Delays,
             LookupNoWait(c, k, h, d)
      PROVE  AsyncInv'
  <2> DEFINE cb == IF h THEN Len(lookups) + 1 ELSE 0
             r  == [EntryFor(k) EXCEPT !.m_callback = cb]
  <2>1. m_value_map' = Put(m_value_map, k, r)
    BY <1>2 DEF LookupNoWait
  <2>2. MapType'
    BY <2>1, <1>i, MapStepType DEF MapStep
  <2>3. r.m_available = EntryFor(k).m_available
    BY <1>i, EntryFacts, RequestUpdate
  <2>4. d \in Nat
    BY AsyncAssumption
  <2>5. StartThread /\ Enqueue(k, d) /\ UNCHANGED <<now, m_terminate, tkey, deadline>>
    BY <1>2 DEF LookupNoWait
  <2> HIDE DEF r
  <2> QED
    BY <2>1, <2>2, <2>3, <2>4, <2>5, LookupStep
<1>3. ASSUME NEW c \in Clients, NEW k \in Keys, NEW h \in Handlers, NEW d \in Delays,
             LookupWaits(c, k, h, d)
      PROVE  AsyncInv'
  <2>1. m_value_map' = Put(m_value_map, k, EntryFor(k))
    BY <1>3 DEF LookupWaits
  <2>2. MapType'
    BY <2>1, <1>i, MapStepType DEF MapStep
  <2>3. d \in Nat
    BY AsyncAssumption
  <2>4. StartThread /\ Enqueue(k, d) /\ UNCHANGED <<now, m_terminate, tkey, deadline>>
    BY <1>3 DEF LookupWaits
  <2> QED
    BY <2>1, <2>2, <2>3, <2>4, LookupStep
<1>4. ASSUME NEW c \in Clients, LookupResumes(c) PROVE AsyncInv'
  <2> DEFINE k  == waiting[c].key
             cb == IF lookups[waiting[c].id].handler THEN waiting[c].id ELSE 0
  <2>1. UNCHANGED <<now, m_request_queue, m_request_set, thread>>
    BY <1>4 DEF LookupResumes
  <2>2. ThreadInv' /\ WakeupNotLost'
    BY <2>1, <1>i DEF ThreadInv, WakeupNotLost, thread
  <2>3. \/ UNCHANGED m_value_map
        \/ m_value_map' = Erase(m_value_map, {k})
        \/ k \in DOMAIN m_value_map /\ m_value_map' = [m_value_map EXCEPT ![k].m_callback = cb]
    BY <1>4 DEF LookupResumes, InMap
  <2> HIDE DEF k, cb
  <2>4. MapType'
    BY <2>3, <1>i, MapStepType DEF MapStep
  <2>5. ASSUME NEW j \in DOMAIN m_value_map'
        PROVE  j \in DOMAIN m_value_map /\ m_value_map'[j].m_available = m_value_map[j].m_available
    <3>1. CASE UNCHANGED m_value_map
      BY <3>1
    <3>2. CASE m_value_map' = Erase(m_value_map, {k})
      BY <3>2 DEF Erase
    <3>3. CASE k \in DOMAIN m_value_map /\ m_value_map' = [m_value_map EXCEPT ![k].m_callback = cb]
      <4> DEFINE r == [m_value_map[k] EXCEPT !.m_callback = cb]
      <4>1. m_value_map' = [i \in DOMAIN m_value_map |-> IF i = k THEN r ELSE m_value_map[i]]
        BY <3>3, <1>i DEF MapType
      <4>2. r.m_available = m_value_map[k].m_available
        BY <3>3, <1>i, RequestUpdate DEF MapType
      <4> HIDE DEF r
      <4> QED
        BY <4>1, <4>2
    <3> QED
      BY <2>3, <3>1, <3>2, <3>3
  <2> QED
    BY <2>1, <2>2, <2>4, <2>5, <1>i, QuietStep DEF thread, QueueType
<1>5. ASSUME NEW c \in Clients, GetCompleteResults(c) PROVE AsyncInv'
  <2> DEFINE ks == Complete
  <2>1. m_value_map' = Erase(m_value_map, ks)
        /\ UNCHANGED <<now, m_request_queue, m_request_set, thread>>
    BY <1>5 DEF GetCompleteResults
  <2>2. ThreadInv' /\ WakeupNotLost'
    BY <2>1, <1>i DEF ThreadInv, WakeupNotLost, thread
  <2> HIDE DEF ks
  <2>3. MapType'
    BY <2>1, <1>i, MapStepType DEF MapStep
  <2>4. m_value_map' = [j \in DOMAIN m_value_map \ ks |-> m_value_map[j]]
    BY <2>1 DEF Erase
  <2> QED
    BY <2>1, <2>2, <2>3, <2>4, <1>i, QuietStep DEF thread, QueueType
<1>6. CASE RunStart
  <2>1. ThreadInv' /\ WakeupNotLost'
    BY <1>6, <1>i DEF RunStart, ThreadInv, WakeupNotLost, table
  <2>2. MapType'
    BY <1>6, <1>i, MapSame DEF RunStart, table
  <2> QED
    BY <1>6, <2>1, <2>2, <1>i, QuietStep DEF RunStart, table, QueueType
<1>7. CASE RunExit
  <2>1. ThreadInv' /\ WakeupNotLost'
    BY <1>7, <1>i DEF RunExit, ThreadInv, WakeupNotLost, table
  <2>2. MapType'
    BY <1>7, <1>i, MapSame DEF RunExit, table
  <2> QED
    BY <1>7, <2>1, <2>2, <1>i, QuietStep DEF RunExit, table, QueueType
<1>8. CASE RunWakes
  <2>1. ThreadInv' /\ WakeupNotLost'
    BY <1>8, <1>i DEF RunWakes, ThreadInv, WakeupNotLost, table
  <2>2. MapType'
    BY <1>8, <1>i, MapSame DEF RunWakes, table
  <2> QED
    BY <1>8, <2>1, <2>2, <1>i, QuietStep DEF RunWakes, table, QueueType
<1>9. CASE RunImpl
  <2>1. ThreadInv' /\ WakeupNotLost'
    BY <1>9, <1>i DEF RunImpl, ThreadInv, WakeupNotLost, table
  <2>2. MapType'
    BY <1>9, <1>i, MapSame DEF RunImpl, table
  <2> QED
    BY <1>9, <2>1, <2>2, <1>i, QuietStep DEF RunImpl, table, QueueType
<1>10. CASE DequeueFails
  <2>1. ThreadInv' /\ WakeupNotLost'
    BY <1>10, <1>i DEF DequeueFails, ThreadInv, WakeupNotLost, table
  <2>2. MapType'
    BY <1>10, <1>i, MapSame DEF DequeueFails, table
  <2> QED
    BY <1>10, <2>1, <2>2, <1>i, QuietStep DEF DequeueFails, table, QueueType
<1>11. CASE RunWait
  <2>1. ThreadInv'
    BY <1>11, <1>i DEF RunWait, ThreadInv
  <2>2. WakeupNotLost'
    BY <1>11, <1>i DEF RunWait, WakeupNotLost, table, Tops
  <2>3. MapType'
    BY <1>11, <1>i, MapSame DEF RunWait, table
  <2> QED
    BY <1>11, <2>1, <2>2, <2>3, <1>i, QuietStep DEF RunWait, table, QueueType
<1>12. CASE RunPrune
  <2> DEFINE ks == {k \in DOMAIN m_value_map : Stale(k)}
  <2>1. m_value_map' = Erase(m_value_map, ks)
    BY <1>12 DEF RunPrune
  <2> HIDE DEF ks
  <2>2. MapType'
    BY <2>1, <1>i, MapStepType DEF MapStep
  <2>3. m_value_map' = [j \in DOMAIN m_value_map \ ks |-> m_value_map[j]]
    BY <2>1 DEF Erase
  <2>4. ThreadInv' /\ WakeupNotLost'
    BY <1>12, <1>i DEF RunPrune, ThreadInv, WakeupNotLost
  <2> QED
    BY <1>12, <2>2, <2>3, <2>4, <1>i, QuietStep DEF RunPrune, QueueType
<1>13. CASE Dequeue
  <2>1. PICK q \in m_request_queue :
           /\ m_request_queue' = m_request_queue \ {q}
           /\ m_request_set' = m_request_set \ {q[2]}
           /\ tkey' = q[2]
    BY <1>13 DEF Dequeue, Tops
  <2>2. tpc = "impl" /\ tpc' = "collect"
        /\ UNCHANGED <<now, m_value_map, joinable>>
    BY <1>13 DEF Dequeue
  <2>3. MapType' /\ QueueType' /\ ThreadInv' /\ WakeupNotLost'
    BY <2>1, <2>2, <1>i, MapSame DEF QueueType, ThreadInv, WakeupNotLost
  <2>4. QueueAgrees'
    BY <2>1, <1>i DEF QueueAgrees
  <2>5. NoLostRequest'
    BY <2>1, <2>2, <1>i DEF NoLostRequest
  <2> QED
    BY <2>3, <2>4, <2>5 DEF AsyncInv
<1>14. CASE StoreValue
  <2>1. /\ tpc = "collect" /\ tpc' = "impl"
        /\ UNCHANGED <<now, m_request_queue, m_request_set, joinable>>
    BY <1>14 DEF StoreValue
  <2>2. \/ UNCHANGED m_value_map /\ tkey \notin DOMAIN m_value_map
        \/ m_value_map' = Erase(m_value_map, {tkey})
        \/ tkey \in DOMAIN m_value_map
           /\ m_value_map' = [m_value_map EXCEPT ![tkey].m_available = TRUE]
    BY <1>14 DEF StoreValue, InMap
  <2>3. MapType'
    BY <2>2, <1>i, MapStepType DEF MapStep
  <2>4. QueueType' /\ ThreadInv' /\ WakeupNotLost' /\ QueueAgrees'
    BY <2>1, <1>i DEF QueueType, ThreadInv, WakeupNotLost, QueueAgrees
  <2>5. ASSUME NEW j \in DOMAIN m_value_map', ~m_value_map'[j].m_available
        PROVE  j \in DOMAIN m_value_map /\ j # tkey /\ ~m_value_map[j].m_available
    <3>1. CASE UNCHANGED m_value_map /\ tkey \notin DOMAIN m_value_map
      BY <2>5, <3>1
    <3>2. CASE m_value_map' = Erase(m_value_map, {tkey})
      BY <2>5, <3>2 DEF Erase
    <3>3. CASE /\ tkey \in DOMAIN m_value_map
               /\ m_value_map' = [m_value_map EXCEPT ![tkey].m_available = TRUE]
      <4> DEFINE r == [m_value_map[tkey] EXCEPT !.m_available = TRUE]
      <4>1. m_value_map' = [i \in DOMAIN m_value_map |-> IF i = tkey THEN r ELSE m_value_map[i]]
        BY <3>3, <1>i DEF MapType
      <4>2. r.m_available
        BY <3>3, <1>i, RequestUpdate DEF MapType
      <4> HIDE DEF r
      <4> QED
        BY <2>5, <4>1, <4>2
    <3> QED
      BY <2>2, <3>1, <3>2, <3>3
  <2>6. NoLostRequest'
    BY <2>1, <2>5, <1>i DEF NoLostRequest
  <2> QED
    BY <2>3, <2>4, <2>6 DEF AsyncInv
<1>15. CASE StopBegin
  <2>1. ThreadInv' /\ WakeupNotLost'
    BY <1>15, <1>i DEF StopBegin, ThreadInv, WakeupNotLost, table
  <2>2. MapType'
    BY <1>15, <1>i, MapSame DEF StopBegin, table
  <2> QED
    BY <1>15, <2>1, <2>2, <1>i, QuietStep DEF StopBegin, table, QueueType
<1>16. CASE StopJoin
  <2>1. ThreadInv' /\ WakeupNotLost'
    BY <1>16, <1>i DEF StopJoin, ThreadInv, WakeupNotLost
  <2>2. MapType'
    BY <1>16, <1>i, MapSame DEF StopJoin, table
  <2> QED
    BY <1>16, <2>1, <2>2, <1>i, QuietStep DEF StopJoin, table, QueueType
<1>17. CASE Tick
  <2>1. ThreadInv' /\ WakeupNotLost'
    BY <1>17, <1>i DEF Tick, ThreadInv, WakeupNotLost, thread, table
  <2>2. MapType'
    BY <1>17, <1>i, MapSame DEF Tick, table
  <2>3. now' \in Nat
    BY <1>17, <1>i DEF Tick, QueueType
  <2> QED
    BY <1>17, <2>1, <2>2, <2>3, QuietStep DEF Tick, table, thread
<1>18. CASE UNCHANGED vars
  <2>1. ThreadInv' /\ WakeupNotLost'
    BY <1>18, <1>i DEF vars, ThreadInv, WakeupNotLost, thread, table
  <2>2. MapType'
    BY <1>18, <1>i, MapSame DEF vars, table
  <2> QED
    BY <1>18, <2>1, <2>2, <1>i, QuietStep DEF vars, table, thread, QueueType
<1>19. CASE Destroy
  <2>1. ThreadInv' /\ WakeupNotLost'
    BY <1>19, <1>i DEF Destroy, ThreadInv, WakeupNotLost, thread, table
  <2>2. MapType'
    BY <1>19, <1>i, MapSame DEF Destroy, table
  <2> QED
    BY <1>19, <2>1, <2>2, <1>i, QuietStep DEF Destroy, table, thread, QueueType
<1> QED
  BY <1>1, <1>2, <1>3, <1>4, <1>5, <1>6, <1>7, <1>8, <1>9, <1>10, <1>11, <1>12, <1>13,
     <1>14, <1>15, <1>16, <1>17, <1>18, <1>19 DEF Next, Lookup, Run

\* The invariant holds in every reachable state.
THEOREM AsyncInvariance == Spec => []AsyncInv
<1> QED
  BY AsyncInit, AsyncNext, PTL DEF Spec

\* No request of lookup_delayed is lost, for any number of keys and clients.
THEOREM NoLostRequestTheorem == Spec => []NoLostRequest
<1>1. AsyncInv => NoLostRequest
  BY DEF AsyncInv
<1> QED
  BY <1>1, AsyncInvariance, PTL

\* run never sleeps through a request or a stop.
THEOREM WakeupTheorem == Spec => []WakeupNotLost
<1>1. AsyncInv => WakeupNotLost
  BY DEF AsyncInv
<1> QED
  BY <1>1, AsyncInvariance, PTL

\* m_request_set and the priority queue agree.
THEOREM QueueTheorem == Spec => []QueueAgrees
<1>1. AsyncInv => QueueAgrees
  BY DEF AsyncInv
<1> QED
  BY <1>1, AsyncInvariance, PTL
=============================================================================
