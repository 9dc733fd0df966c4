------------------------------ MODULE AsyncSource ------------------------------
(***************************************************************************)
(* async_key_value_source (userspace/async): clients ask for the value of  *)
(* a key, an asynchronous thread collects it, and the value comes back as  *)
(* the return value of a lookup or through the client's callback handler.  *)
(* The subclass's run_impl is the loop of docker_async_source and          *)
(* cri_async_source: dequeue a key, collect, store.                        *)
(*                                                                         *)
(* Every section under m_mutex is one step.  m_running and m_terminate are *)
(* also read and written outside the mutex, in steps of their own.         *)
(***************************************************************************)
EXTENDS Integers, Sequences

CONSTANTS
    Keys, Clients,
    m_max_wait_ms,   \* 0 is NO_WAIT_LOOKUP
    m_ttl_ms,
    Delays,          \* the delays passed to lookup_delayed; 0 for lookup
    Handlers,        \* {TRUE}: lookups pass a handler; {FALSE}: none does
    MaxLookups,      \* bound on the number of lookups
    MaxNow           \* bound on the clock

ASSUME AsyncAssumption ==
    /\ m_max_wait_ms \in Nat /\ m_ttl_ms \in Nat
    /\ Delays \subseteq Nat /\ Handlers \subseteq BOOLEAN
    /\ MaxLookups \in Nat /\ MaxNow \in Nat

VARIABLES
    now,               \* std::chrono::steady_clock
    m_value_map,       \* key -> lookup_request, for the keys in the map
    m_request_queue,   \* set of <<start time, key>>
    m_request_set,
    m_running, m_terminate,
    joinable,          \* m_thread.joinable()
    tpc, tkey,         \* where the async thread is; the key it collects
    deadline, woken,   \* its wait on m_queue_not_empty_condition
    waiting,           \* what a client blocked in lookup waits for
    lookups,           \* history: every lookup, with its outcome
    life,              \* the object: alive, in stop, stopped, destroyed
    ub                 \* the kinds of undefined behaviour met so far

thread == <<m_running, m_terminate, joinable, tpc, tkey, deadline, woken>>
table  == <<m_value_map, m_request_queue, m_request_set>>
vars   == <<now, table, thread, waiting, lookups, life, ub>>

Forever == MaxNow + 1   \* time_point::max()
NoKey   == "no key"
Idle    == [key |-> NoKey]

Init ==
    /\ now = 0
    /\ m_value_map = [k \in {} |-> 0]
    /\ m_request_queue = {}
    /\ m_request_set = {}
    /\ m_running = FALSE /\ m_terminate = FALSE
    /\ joinable = FALSE
    /\ tpc = "none" /\ tkey = NoKey
    /\ deadline = Forever /\ woken = FALSE
    /\ waiting = [c \in Clients |-> Idle]
    /\ lookups = << >>
    /\ life = "alive"
    /\ ub = {}

-----------------------------------------------------------------------------
InMap(k) == k \in DOMAIN m_value_map
Erase(map, ks) == [k \in DOMAIN map \ ks |-> map[k]]
Put(map, k, r) == [j \in DOMAIN map \cup {k} |-> IF j = k THEN r ELSE map[j]]

\* lookup_request().
NewRequest == [m_available |-> FALSE, m_callback |-> 0, m_start_time |-> now]

\* A client of cs sleeps on m_available_condition of an entry of ks and has not
\* been notified: erasing the entry destroys the condition under it.
Stranded(ks, cs) == \E c \in cs : waiting[c].key \in ks /\ ~waiting[c].notified

Erasing(ks, cs) == ub' = ub \cup IF Stranded(ks, cs) THEN {"condition"} ELSE {}

\* The queue's top elements.
Tops == {q \in m_request_queue : \A r \in m_request_queue : q[1] <= r[1]}

-----------------------------------------------------------------------------
(* lookup and lookup_delayed, up to the wait.                              *)

\* Every lookup starts the thread when there is none.
StartThread ==
    IF ~m_running /\ ~joinable
    THEN joinable' = TRUE /\ tpc' = "start"
    ELSE UNCHANGED <<joinable, tpc>>

\* Mutant: the request set is not consulted.
EnqueueAlways(k, delay) ==
    IF InMap(k)
    THEN UNCHANGED <<m_request_queue, m_request_set, woken>>
    ELSE /\ m_request_queue' = m_request_queue \cup {<<now + delay, k>>}
         /\ m_request_set' = m_request_set \cup {k}
         /\ woken' = TRUE

\* Mutant: the thread is not notified.
EnqueueSilent(k, delay) ==
    IF InMap(k) \/ k \in m_request_set
    THEN UNCHANGED <<m_request_queue, m_request_set, woken>>
    ELSE /\ m_request_queue' = m_request_queue \cup {<<now + delay, k>>}
         /\ m_request_set' = m_request_set \cup {k}
         /\ UNCHANGED woken

\* The request is made when the key is not in the map, unless one for the key
\* is on the queue already.
Enqueue(k, delay) ==
    IF InMap(k) \/ k \in m_request_set
    THEN UNCHANGED <<m_request_queue, m_request_set, woken>>
    ELSE /\ m_request_queue' = m_request_queue \cup {<<now + delay, k>>}
         /\ m_request_set' = m_request_set \cup {k}
         /\ woken' = TRUE

\* The entry a lookup finds or creates.
EntryFor(k) == IF InMap(k) THEN m_value_map[k] ELSE NewRequest

CanLookup(c, delay) ==
    /\ life = "alive" /\ waiting[c] = Idle
    /\ Len(lookups) < MaxLookups /\ now + delay < MaxNow

Log(k, h, state) == Append(lookups, [key |-> k, handler |-> h, state |-> state])

\* The value is there: it is returned and leaves the map.
LookupReturns(c, k, h) ==
    /\ CanLookup(c, 0)
    /\ InMap(k) /\ m_value_map[k].m_available
    /\ StartThread
    /\ m_value_map' = Erase(m_value_map, {k})
    /\ Erasing({k}, Clients)
    /\ lookups' = Log(k, h, "returned")
    /\ UNCHANGED <<now, m_request_queue, m_request_set, m_running, m_terminate,
                   tkey, deadline, woken, waiting, life>>

\* It is not there, and the source never waits: the handler, if any, replaces
\* the one in the entry.
LookupNoWait(c, k, h, delay) ==
    /\ CanLookup(c, delay)
    /\ m_max_wait_ms = 0
    /\ ~EntryFor(k).m_available
    /\ StartThread
    /\ Enqueue(k, delay)
    /\ m_value_map' = Put(m_value_map, k,
          [EntryFor(k) EXCEPT !.m_callback = IF h THEN Len(lookups) + 1 ELSE 0])
    /\ lookups' = Log(k, h, "pending")
    /\ UNCHANGED <<now, m_running, m_terminate, tkey, deadline, waiting, life, ub>>

\* It is not there, and the client waits on the entry's condition.
LookupWaits(c, k, h, delay) ==
    /\ CanLookup(c, delay)
    /\ m_max_wait_ms > 0
    /\ ~EntryFor(k).m_available
    /\ StartThread
    /\ Enqueue(k, delay)
    /\ m_value_map' = Put(m_value_map, k, EntryFor(k))
    /\ waiting' = [waiting EXCEPT ![c] = [key |-> k, id |-> Len(lookups) + 1,
                                            notified |-> FALSE]]
    /\ lookups' = Log(k, h, "waiting")
    /\ UNCHANGED <<now, m_running, m_terminate, tkey, deadline, life, ub>>

\* Mutant: the value is not looked for again after the wait.
LookupResumesBlind(c) ==
    /\ waiting[c] # Idle
    /\ waiting' = [waiting EXCEPT ![c] = Idle]
    /\ LET w == waiting[c]
       IN  /\ lookups' = [lookups EXCEPT ![w.id].state = "pending"]
           /\ IF InMap(w.key)
              THEN /\ m_value_map' = [m_value_map EXCEPT ![w.key].m_callback =
                                         IF lookups[w.id].handler THEN w.id ELSE 0]
                   /\ UNCHANGED ub
              ELSE ub' = ub \cup {"end"} /\ UNCHANGED m_value_map
    /\ UNCHANGED <<now, m_request_queue, m_request_set, thread, life>>

\* The wait is over: notified, timed out or for no reason.  The map is searched
\* again; without an entry the handler is stored through end().
LookupResumes(c) ==
    /\ waiting[c] # Idle
    /\ waiting' = [waiting EXCEPT ![c] = Idle]
    /\ LET w  == waiting[c]
           k  == w.key
           cb == IF lookups[w.id].handler THEN w.id ELSE 0
       IN  IF InMap(k) /\ m_value_map[k].m_available
           THEN /\ m_value_map' = Erase(m_value_map, {k})
                /\ Erasing({k}, Clients \ {c})
                /\ lookups' = [lookups EXCEPT ![w.id].state = "returned"]
           ELSE /\ lookups' = [lookups EXCEPT ![w.id].state = "pending"]
                /\ IF InMap(k)
                   THEN /\ m_value_map' = [m_value_map EXCEPT ![k].m_callback = cb]
                        /\ UNCHANGED ub
                   ELSE ub' = ub \cup {"end"} /\ UNCHANGED m_value_map
    /\ UNCHANGED <<now, m_request_queue, m_request_set, thread, life>>

Complete == {k \in DOMAIN m_value_map : m_value_map[k].m_available}

\* get_complete_results: the values that are there leave the map together.
GetCompleteResults(c) ==
    /\ life = "alive" /\ waiting[c] = Idle
    /\ Complete # {}
    /\ m_value_map' = Erase(m_value_map, Complete)
    /\ Erasing(Complete, Clients)
    /\ UNCHANGED <<now, m_request_queue, m_request_set, thread, waiting, lookups,
                   life>>

-----------------------------------------------------------------------------
(* run, on the async thread, with the subclass's run_impl.                 *)

RunStart ==
    /\ tpc = "start"
    /\ m_running' = TRUE
    /\ tpc' = "loop"
    /\ UNCHANGED <<now, table, m_terminate, joinable, tkey, deadline, woken,
                   waiting, lookups, life, ub>>

RunExit ==
    /\ tpc \in {"loop", "pruned"}
    /\ m_terminate
    /\ m_running' = FALSE
    /\ tpc' = "exited"
    /\ UNCHANGED <<now, table, m_terminate, joinable, tkey, deadline, woken,
                   waiting, lookups, life, ub>>

\* Mutant: the deadline is taken for a duration.
RunWaitRelative ==
    /\ tpc = "loop" /\ ~m_terminate
    /\ \A q \in m_request_queue : q[1] > now
    /\ \/ m_request_queue = {} /\ deadline' = Forever
       \/ \E q \in Tops : deadline' = now + q[1]
    /\ woken' = FALSE
    /\ tpc' = "wait"
    /\ UNCHANGED <<now, table, m_running, m_terminate, joinable, tkey, waiting,
                   lookups, life, ub>>

\* get_deadline lies in the future: wait for it, or for a notification.
RunWait ==
    /\ tpc = "loop" /\ ~m_terminate
    /\ \A q \in m_request_queue : q[1] > now
    /\ \/ m_request_queue = {} /\ deadline' = Forever
       \/ \E q \in Tops : deadline' = q[1]
    /\ woken' = FALSE
    /\ tpc' = "wait"
    /\ UNCHANGED <<now, table, m_running, m_terminate, joinable, tkey, waiting,
                   lookups, life, ub>>

RunWakes ==
    /\ tpc = "wait"
    /\ woken \/ now >= deadline
    /\ tpc' = "loop"
    /\ UNCHANGED <<now, table, m_running, m_terminate, joinable, tkey, deadline,
                   woken, waiting, lookups, life, ub>>

Stale(k) == now - m_value_map[k].m_start_time > m_ttl_ms

\* A request is due: prune_stale_requests, and leave the mutex.
RunPrune ==
    /\ tpc = "loop" /\ ~m_terminate
    /\ \E q \in m_request_queue : q[1] <= now
    /\ LET keys_to_prune == {k \in DOMAIN m_value_map : Stale(k)}
       IN  /\ m_value_map' = Erase(m_value_map, keys_to_prune)
           /\ Erasing(keys_to_prune, Clients)
    /\ tpc' = "pruned"
    /\ UNCHANGED <<now, m_request_queue, m_request_set, m_running, m_terminate,
                   joinable, tkey, deadline, woken, waiting, lookups, life>>

RunImpl ==
    /\ tpc = "pruned" /\ ~m_terminate
    /\ tpc' = "impl"
    /\ UNCHANGED <<now, table, m_running, m_terminate, joinable, tkey, deadline,
                   woken, waiting, lookups, life, ub>>

\* Mutant: the key stays in the request set.
DequeueKeepsSet ==
    /\ tpc = "impl"
    /\ \E q \in Tops :
         /\ q[1] < now
         /\ m_request_queue' = m_request_queue \ {q}
         /\ tkey' = q[2]
    /\ tpc' = "collect"
    /\ UNCHANGED <<now, m_value_map, m_request_set, m_running, m_terminate,
                   joinable, deadline, woken, waiting, lookups, life, ub>>

\* dequeue_next_key, of a request that is strictly in the past.
Dequeue ==
    /\ tpc = "impl"
    /\ \E q \in Tops :
         /\ q[1] < now
         /\ m_request_queue' = m_request_queue \ {q}
         /\ m_request_set' = m_request_set \ {q[2]}
         /\ tkey' = q[2]
    /\ tpc' = "collect"
    /\ UNCHANGED <<now, m_value_map, m_running, m_terminate, joinable, deadline,
                   woken, waiting, lookups, life, ub>>

DequeueFails ==
    /\ tpc = "impl"
    /\ \A q \in m_request_queue : q[1] >= now
    /\ tpc' = "loop"
    /\ UNCHANGED <<now, table, m_running, m_terminate, joinable, tkey, deadline,
                   woken, waiting, lookups, life, ub>>

\* Mutant: the entry is not erased after the handler was called.
StoreValueKeeps ==
    /\ tpc = "collect"
    /\ tpc' = "impl"
    /\ tkey' = NoKey
    /\ lookups' = IF InMap(tkey) /\ m_value_map[tkey].m_callback # 0
                  THEN [lookups EXCEPT ![m_value_map[tkey].m_callback].state = "called"]
                  ELSE lookups
    /\ UNCHANGED <<now, table, m_running, m_terminate, joinable, deadline, woken,
                   waiting, life, ub>>

\* m_available_condition.notify_one: one of the clients asleep on it, if any.
NotifyOne(k) ==
    LET asleep == {c \in Clients : waiting[c].key = k /\ ~waiting[c].notified}
    IN  IF asleep = {} THEN UNCHANGED waiting
        ELSE \E c \in asleep : waiting' = [waiting EXCEPT ![c].notified = TRUE]

\* store_value: the handler is called with m_mutex held, or the value is kept
\* for the next lookup; without an entry the value is dropped.
StoreValue ==
    /\ tpc = "collect"
    /\ tpc' = "impl"
    /\ tkey' = NoKey
    /\ IF ~InMap(tkey)
       THEN UNCHANGED <<m_value_map, lookups, waiting, ub>>
       ELSE LET cb == m_value_map[tkey].m_callback
            IN  IF cb # 0
                THEN /\ lookups' = [lookups EXCEPT ![cb].state = "called"]
                     /\ m_value_map' = Erase(m_value_map, {tkey})
                     /\ Erasing({tkey}, Clients)
                     /\ UNCHANGED waiting
                ELSE /\ m_value_map' = [m_value_map EXCEPT ![tkey].m_available = TRUE]
                     /\ NotifyOne(tkey)
                     /\ UNCHANGED <<lookups, ub>>
    /\ UNCHANGED <<now, m_request_queue, m_request_set, m_running, m_terminate,
                   joinable, deadline, woken, life>>

-----------------------------------------------------------------------------
(* stop and the destruction of the source.                                 *)

\* Mutant: m_terminate is set and the thread is not notified.
StopBeginSilent ==
    /\ life \in {"alive", "stopped"}
    /\ \A c \in Clients : waiting[c] = Idle
    /\ IF m_running THEN m_terminate' = TRUE /\ life' = "stopping"
       ELSE life' = "stopped" /\ UNCHANGED m_terminate
    /\ UNCHANGED <<now, table, m_running, joinable, tpc, tkey, deadline, woken,
                   waiting, lookups, ub>>

\* stop: from quiesce in ~sinsp, from the destructors of docker_async_source and
\* cri_async_source, and again from that of the base.  By then nobody looks
\* anything up.  A thread that has not set m_running yet is not joined.
StopBegin ==
    /\ life \in {"alive", "stopped"}
    /\ \A c \in Clients : waiting[c] = Idle
    /\ IF m_running
       THEN m_terminate' = TRUE /\ woken' = TRUE /\ life' = "stopping"
       ELSE life' = "stopped" /\ UNCHANGED <<m_terminate, woken>>
    /\ UNCHANGED <<now, table, m_running, joinable, tpc, tkey, deadline, waiting,
                   lookups, ub>>

\* m_thread.join(), and m_thread is replaced by an empty one.
StopJoin ==
    /\ life = "stopping"
    /\ tpc = "exited"
    /\ joinable' = FALSE
    /\ tpc' = "none"
    /\ life' = "stopped"
    /\ UNCHANGED <<now, table, m_running, m_terminate, tkey, deadline, woken,
                   waiting, lookups, ub>>

\* The end of the destructor destroys m_thread: std::terminate if it is joinable.
Destroy ==
    /\ life = "stopped"
    /\ life' = IF joinable THEN "aborted" ELSE "destroyed"
    /\ UNCHANGED <<now, table, thread, waiting, lookups, ub>>

Tick ==
    /\ now < MaxNow
    /\ now' = now + 1
    /\ UNCHANGED <<table, thread, waiting, lookups, life, ub>>

-----------------------------------------------------------------------------
Lookup(c, k) ==
    \E h \in Handlers : \/ LookupReturns(c, k, h)
                        \/ \E d \in Delays : LookupNoWait(c, k, h, d) \/ LookupWaits(c, k, h, d)

Run ==
    /\ life # "aborted"
    /\ \/ RunStart \/ RunExit \/ RunWait \/ RunWakes \/ RunPrune \/ RunImpl
       \/ Dequeue \/ DequeueFails \/ StoreValue

Next ==
    \/ \E c \in Clients, k \in Keys : Lookup(c, k)
    \/ \E c \in Clients : LookupResumes(c) \/ GetCompleteResults(c)
    \/ Run
    \/ StopBegin \/ StopJoin \/ Destroy
    \/ Tick

Spec == Init /\ [][Next]_vars

\* The async thread is scheduled, a collection ends, time passes, a wait with a
\* timeout returns, and join returns once the thread has ended.  Nothing forces
\* a client to look anything up.
Fairness ==
    /\ WF_vars(Run) /\ WF_vars(StopJoin) /\ WF_vars(Tick)
    /\ \A c \in Clients : WF_vars(LookupResumes(c))

FairSpec == Spec /\ Fairness
-----------------------------------------------------------------------------
States == {"waiting", "pending", "returned", "called"}

\* Types; deadlines and start times stay on the clock, as get_deadline returns
\* the absolute time of the queue's top element.
TypeOK ==
    /\ now \in 0 .. MaxNow
    /\ DOMAIN m_value_map \subseteq Keys
    /\ \A k \in DOMAIN m_value_map :
          m_value_map[k] \in [m_available : BOOLEAN, m_callback : 0 .. Len(lookups),
                              m_start_time : 0 .. MaxNow]
    /\ m_request_queue \subseteq (0 .. MaxNow) \X Keys
    /\ m_request_set \subseteq Keys
    /\ m_running \in BOOLEAN /\ m_terminate \in BOOLEAN /\ joinable \in BOOLEAN
    /\ tpc \in {"none", "start", "loop", "wait", "pruned", "impl", "collect", "exited"}
    /\ tkey \in Keys \cup {NoKey}
    /\ deadline \in 0 .. Forever
    /\ woken \in BOOLEAN
    /\ waiting \in [Clients -> {Idle} \cup [key : Keys, id : 1 .. MaxLookups,
                                          notified : BOOLEAN]]
    /\ lookups \in Seq([key : Keys, handler : BOOLEAN, state : States])
    /\ life \in {"alive", "stopping", "stopped", "destroyed", "aborted"}
    /\ ub \subseteq {"condition", "end"}

\* m_request_set holds exactly the keys on the priority queue, each once.
QueueAgrees ==
    /\ m_request_set = {q[2] : q \in m_request_queue}
    /\ \A q, r \in m_request_queue : q[2] = r[2] => q = r

\* A value somebody waits for is on its way: an entry without a value has its
\* request on the queue or in the hands of run_impl, however lookups, pruning
\* and stores interleave.
NoLostRequest ==
    \A k \in DOMAIN m_value_map :
        m_value_map[k].m_available
        \/ (\E q \in m_request_queue : q[2] = k)
        \/ (tpc = "collect" /\ tkey = k)

\* run never sleeps past work: while it waits un-notified there is no stop to
\* notice and no request earlier than its deadline.
WakeupNotLost ==
    tpc = "wait" /\ ~woken =>
        /\ ~m_terminate
        /\ \A q \in m_request_queue : deadline <= q[1]

\* store_value calls the right handler and calls it once: a handler in the map
\* is that of a lookup of this key that returned false and was not called.
CallbackOwned ==
    \A k \in DOMAIN m_value_map :
        LET cb == m_value_map[k].m_callback
        IN  cb # 0 => lookups[cb] = [key |-> k, handler |-> TRUE, state |-> "pending"]

\* The entry that holds the handler of lookup i, if it is still in the map.
HeldBy(i) == {k \in DOMAIN m_value_map : m_value_map[k].m_callback = i}

\* One answer per lookup, and never neither: a lookup that was answered, by its
\* return value or through its handler, gets no second answer; a lookup whose wait
\* ends without the value leaves its handler in the map, also when the thread
\* stores the value at that moment; and a handler leaves the map only by being
\* called, by giving way to that of a later lookup of the key, or by getting stale.
\* (Until the program loses its defined behaviour, see EndNotUsed.)
OneAnswer ==
    [][ub' = {} => \A i \in DOMAIN lookups :
          /\ lookups[i].state \in {"returned", "called"} => lookups'[i] = lookups[i]
          /\ lookups[i].state = "waiting" /\ lookups'[i].state = "pending" =>
                 ~lookups[i].handler \/ HeldBy(i)' # {}
          /\ HeldBy(i)' = {} => \A k \in HeldBy(i) :
                 \/ lookups'[i].state = "called"
                 \/ k \in DOMAIN m_value_map'
                 \/ tpc = "loop" /\ Stale(k)]_vars

\* "Replace the iterator in case something changed" (lookup_delayed): a lookup
\* that waited does not store its handler through the end() iterator.  (What
\* removes the entry has by then destroyed the condition the lookup sleeps on.)
EndNotUsed == "end" \notin ub

\* Every request on the queue is dequeued, unless the source is stopped.
RequestServed ==
    \A k \in Keys : k \in m_request_set ~> k \notin m_request_set \/ life # "alive"

\* A stop that joins the thread returns, whatever the thread was doing.
StopReturns == life = "stopping" ~> life = "stopped"

\* "to ensure that the async thread stops when the object is destroyed" (stop): no
\* thread is left when the destructor ends, in particular none that makes the
\* destruction of m_thread call std::terminate.
StopsThread == life \in {"destroyed", "aborted"} => tpc \in {"none", "exited"}

\* "that callback handler will be invoked by the async_key_value_source once
\* the value has been collected": store_value leaves no handler of the key
\* uncalled.
HandlersCalled ==
    [][StoreValue =>
          \A i \in DOMAIN lookups :
              lookups[i] = [key |-> tkey, handler |-> TRUE, state |-> "pending"]
                  => lookups'[i].state = "called"]_vars
=============================================================================
