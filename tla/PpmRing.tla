------------------------------- MODULE PpmRing -------------------------------
(***************************************************************************)
(* One ring buffer of the kernel module, as shared by the producer that    *)
(* runs on its CPU (record_event_consumer, driver/main.c) and the reader   *)
(* in user space (scap_next_live and the functions it calls,               *)
(* userspace/libscap/scap.c).                                              *)
(*                                                                         *)
(* The producer of a ring is one CPU, but not one thread of control: a     *)
(* probe can be interrupted by another probe of the same CPU.  Three       *)
(* nested execution contexts are told apart:                               *)
(*   "process"  a probe running on behalf of the current task,             *)
(*   "fault"    the page fault tracepoint, hit while the filler of a       *)
(*              process-context event copies user memory,                  *)
(*   "softirq"  a network probe run by an interrupt, at any point.         *)
(* An inner context runs to completion before an outer one resumes.        *)
(*                                                                         *)
(* The buffer is kept byte by byte, a byte being <<event, offset, length>>,*)
(* so that the overflow area behind the ring, the copy that wraps it, and  *)
(* the doubled read-only mapping of the reader are all represented.        *)
(*                                                                         *)
(* The device of the ring may be closed and opened again.  ppm_open then   *)
(* resets the ring, and nothing in it waits for a probe that is still      *)
(* inside.  libscap closes all devices of a capture, which frees their     *)
(* rings after a grace period (PpmConsumers), so its probes have left; a   *)
(* program that keeps another device of the consumer open has no such      *)
(* guarantee.  Overlap tells the two apart.                                *)
(***************************************************************************)
EXTENDS Integers, Sequences

CONSTANTS
    RING_BUF_SIZE,  \* bytes of the ring
    CUSHION,        \* 2 * PAGE_SIZE: overflow bytes behind the ring
    HDR,            \* sizeof(struct ppm_evt_hdr) plus the length array
    EvtSizes,       \* the sizes events can need, header included
    Overlap,        \* TRUE: the reset may meet a probe inside the gate
    MaxEvents,      \* bound: how many events the probes receive while the
                    \* device stays open
    MaxOpens        \* bound: how often the device is opened

ASSUME RingAssumption ==
    /\ RING_BUF_SIZE \in Nat \ {0}
    /\ CUSHION \in Nat \ {0}
    /\ HDR \in Nat \ {0}
    /\ EvtSizes \subseteq Nat
    /\ \A s \in EvtSizes : s >= HDR
    /\ Overlap \in BOOLEAN
    /\ MaxEvents \in Nat /\ MaxOpens \in Nat

VARIABLES
    \* struct ppm_ring_buffer_info, mapped by both sides
    head, tail, n_evts, n_drops_buffer, n_drops_pf, n_preemptions,
    \* struct ppm_ring_buffer_context, private to the driver
    buffer, nevents, capture_enabled, preempt_count,
    \* the activations of record_event_consumer: program counter and locals
    \* (a local is set to 0 when it goes out of use)
    pc, l_evts, l_head, l_room, l_size,
    \* struct scap_device of the reader, its program counter, and the event
    \* last handed to the caller
    m_sn_len, m_sn_next_event, m_lastreadsize, rpc, pevent,
    \* ring->open, and how often the device was opened
    open, opens,
    \* history: since the device was opened, the events that passed the
    \* capture_enabled test, those lost without a counter and those delivered;
    \* all events ever committed, in order
    received, n_silent, committed, delivered

info    == <<n_evts, n_drops_buffer, n_drops_pf, n_preemptions>>
locals  == <<l_evts, l_head, l_room, l_size>>
device  == <<open, opens>>
reader  == <<m_sn_len, m_sn_next_event, m_lastreadsize, rpc, pevent, delivered>>
vars    == <<head, tail, info, buffer, nevents, capture_enabled, preempt_count,
             pc, locals, reader, device, received, n_silent, committed>>

-----------------------------------------------------------------------------
Ctx == {"process", "fault", "softirq"}

\* The contexts that must be idle for c to be the one that executes.
Inner(c) == CASE c = "process" -> {"fault", "softirq"}
              [] c = "fault"   -> {"softirq"}
              [] c = "softirq" -> {}

Running(c) == \A d \in Inner(c) : pc[d] = "idle"

\* Program points between atomic_inc_return and the matching atomic_dec, with
\* the gate won.
InGate == {"space", "fill", "wrap", "publish", "leave"}
          \cup {"drop_buffer", "drop_pf", "drop_bug"}

PCs == {"idle", "count", "gate", "bounce"} \cup InGate

\* An activation enters a fault context only from a filler that copies user
\* memory; a softirq interrupts at any point.
CanEnter(c) ==
    /\ pc[c] = "idle"
    /\ Running(c)
    /\ c = "fault" => pc["process"] = "fill"

\* Bytes of the buffer that an event holds, and a byte no event owns.
Byte(id, off, len) == <<id, off, len>>
Junk == <<0, 0, 0>>

Min2(a, b) == IF a <= b THEN a ELSE b

\* Mutant: a full ring is allowed to look like an empty one.
FreespaceNoGap(h, t) == IF t > h THEN t - h ELSE RING_BUF_SIZE + t - h

\* Space the producer may still write, as record_event_consumer computes it.
Freespace(h, t) ==
    IF t > h THEN t - h - 1 ELSE RING_BUF_SIZE + t - h - 1

\* Room left before the end of the allocation, cushion included.
DeltaFromEnd(h) == RING_BUF_SIZE + CUSHION - h - 1

\* Bytes the reader may consume (get_buf_pointers).
ReadSize(h, t) ==
    IF t > h THEN RING_BUF_SIZE - t + h ELSE h - t

\* The reader maps the ring twice in a row, and never maps the cushion.
Mirror(addr) == IF addr < RING_BUF_SIZE THEN addr ELSE addr - RING_BUF_SIZE

Goto(c, label) == pc' = [pc EXCEPT ![c] = label]

\* 1 for an activation whose event is received and not yet accounted for.
InProgress(c) == IF pc[c] \in {"idle", "leave"} THEN 0 ELSE 1
Unsettled == InProgress("process") + InProgress("fault") + InProgress("softirq")

NoEvent == [addr |-> 0, id |-> 0, len |-> 0]

-----------------------------------------------------------------------------
\* init_ring_buffer, and the first ppm_open.
Init ==
    /\ head = 0 /\ tail = 0
    /\ n_evts = 0 /\ n_drops_buffer = 0 /\ n_drops_pf = 0 /\ n_preemptions = 0
    /\ buffer = [i \in 0 .. RING_BUF_SIZE + CUSHION - 1 |-> Junk]
    /\ nevents = 0
    /\ capture_enabled = FALSE
    /\ preempt_count = 0
    /\ pc = [c \in Ctx |-> "idle"]
    /\ l_evts = [c \in Ctx |-> 0]
    /\ l_head = [c \in Ctx |-> 0]
    /\ l_room = [c \in Ctx |-> 0]
    /\ l_size = [c \in Ctx |-> 0]
    /\ m_sn_len = 0 /\ m_sn_next_event = 0 /\ m_lastreadsize = 0
    /\ rpc = "idle"
    /\ pevent = NoEvent
    /\ open = TRUE /\ opens = 1
    /\ received = 0 /\ n_silent = 0
    /\ committed = <<>> /\ delivered = <<>>

-----------------------------------------------------------------------------
(* The producer: record_event_consumer, one program point per action.      *)

\* PPM_IOCTL_ENABLE_CAPTURE and PPM_IOCTL_DISABLE_CAPTURE.
SetCapture(b) ==
    /\ open
    /\ capture_enabled # b
    /\ capture_enabled' = b
    /\ UNCHANGED <<head, tail, info, buffer, nevents, preempt_count, pc, locals,
                   reader, device, received, n_silent, committed>>

\* The capture_enabled test passes and n_evts is loaded: ring_info->n_evts++
\* is a volatile read followed by a volatile write.
Enter(c) ==
    /\ CanEnter(c)
    /\ capture_enabled
    /\ received < MaxEvents
    /\ received' = received + 1
    /\ l_evts' = [l_evts EXCEPT ![c] = n_evts]
    /\ Goto(c, "count")
    /\ UNCHANGED <<head, tail, info, buffer, nevents, capture_enabled,
                   preempt_count, l_head, l_room, l_size, reader, device, n_silent,
                   committed>>

CountEvent(c) ==
    /\ pc[c] = "count" /\ Running(c)
    /\ n_evts' = l_evts[c] + 1
    /\ l_evts' = [l_evts EXCEPT ![c] = 0]
    /\ Goto(c, "gate")
    /\ UNCHANGED <<head, tail, n_drops_buffer, n_drops_pf, n_preemptions, buffer,
                   nevents, capture_enabled, preempt_count, l_head, l_room,
                   l_size, reader, device, received, n_silent, committed>>

\* The preemption gate: atomic_inc_return(&ring->preempt_count) != 1.
Gate(c) ==
    /\ pc[c] = "gate" /\ Running(c)
    /\ preempt_count' = preempt_count + 1
    /\ Goto(c, IF preempt_count + 1 # 1 THEN "bounce" ELSE "space")
    /\ UNCHANGED <<head, tail, info, buffer, nevents, capture_enabled, locals,
                   reader, device, received, n_silent, committed>>

\* Mutant: the gate is reset instead of decremented.
BounceResets(c) ==
    /\ pc[c] = "bounce" /\ Running(c)
    /\ n_preemptions' = n_preemptions + 1
    /\ preempt_count' = 0
    /\ Goto(c, "idle")
    /\ UNCHANGED <<head, tail, n_evts, n_drops_buffer, n_drops_pf, buffer, nevents,
                   capture_enabled, locals, reader, device, received, n_silent, committed>>

\* Mutant: an event turned away is not counted.
BounceUncounted(c) ==
    /\ pc[c] = "bounce" /\ Running(c)
    /\ preempt_count' = preempt_count - 1
    /\ Goto(c, "idle")
    /\ UNCHANGED <<head, tail, info, buffer, nevents, capture_enabled, locals,
                   reader, device, received, n_silent, committed>>

\* Turned away: counted as a preemption unless it is a page fault.
Bounce(c) ==
    /\ pc[c] = "bounce" /\ Running(c)
    /\ IF c = "fault"
       THEN n_silent' = n_silent + 1 /\ UNCHANGED n_preemptions
       ELSE n_preemptions' = n_preemptions + 1 /\ UNCHANGED n_silent
    /\ preempt_count' = preempt_count - 1
    /\ Goto(c, "idle")
    /\ UNCHANGED <<head, tail, n_evts, n_drops_buffer, n_drops_pf, buffer,
                   nevents, capture_enabled, locals, reader, device, received, committed>>

\* Mutant: only the end of the allocation limits the filler.
ComputeSpaceUnbounded(c) ==
    /\ pc[c] = "space" /\ Running(c)
    /\ l_head' = [l_head EXCEPT ![c] = head]
    /\ l_room' = [l_room EXCEPT ![c] = DeltaFromEnd(head)]
    /\ Goto(c, IF Freespace(head, tail) >= HDR THEN "fill" ELSE "drop_buffer")
    /\ UNCHANGED <<head, tail, info, buffer, nevents, capture_enabled,
                   preempt_count, l_evts, l_size, reader, device, received, n_silent,
                   committed>>

\* Load head and tail, compute the room for the event, test for the header.
ComputeSpace(c) ==
    /\ pc[c] = "space" /\ Running(c)
    /\ l_head' = [l_head EXCEPT ![c] = head]
    /\ l_room' = [l_room EXCEPT ![c] =
                     Min2(Freespace(head, tail), DeltaFromEnd(head))]
    /\ Goto(c, IF Freespace(head, tail) >= HDR THEN "fill" ELSE "drop_buffer")
    /\ UNCHANGED <<head, tail, info, buffer, nevents, capture_enabled,
                   preempt_count, l_evts, l_size, reader, device, received, n_silent,
                   committed>>

\* The filler returned PPM_SUCCESS: it wrote s bytes at head.
FillSuccess(c, s) ==
    /\ pc[c] = "fill" /\ Running(c)
    /\ s <= l_room[c]
    /\ buffer' = [i \in DOMAIN buffer |->
                     IF i \in l_head[c] .. l_head[c] + s - 1
                     THEN Byte(Len(committed) + 1, i - l_head[c], s) ELSE buffer[i]]
    /\ l_size' = [l_size EXCEPT ![c] = s]
    /\ Goto(c, "wrap")
    /\ UNCHANGED <<head, tail, info, nevents, capture_enabled, preempt_count,
                   l_evts, l_head, l_room, reader, device, received, n_silent, committed>>

\* The event is given up, after the filler wrote anything within the room it had:
\* "drop_buffer" for PPM_FAILURE_BUFFER_FULL, and for a filler that succeeds with
\* the wrong number of arguments or is not there, which is counted the same way;
\* "drop_pf" for PPM_FAILURE_INVALID_USER_MEMORY; "drop_bug" for any other error.
FillFailure(c, label) ==
    /\ pc[c] = "fill" /\ Running(c)
    /\ buffer' = [i \in DOMAIN buffer |->
                     IF i \in l_head[c] .. l_head[c] + l_room[c] - 1
                     THEN Junk ELSE buffer[i]]
    /\ Goto(c, label)
    /\ UNCHANGED <<head, tail, info, nevents, capture_enabled, preempt_count,
                   locals, reader, device, received, n_silent, committed>>

\* Mutant: the bytes in the cushion are not copied back.
WrapNoCopy(c) ==
    /\ pc[c] = "wrap" /\ Running(c)
    /\ Goto(c, "publish")
    /\ UNCHANGED <<head, tail, info, buffer, nevents, capture_enabled,
                   preempt_count, locals, reader, device, received, n_silent, committed>>

\* Copy what went into the cushion to the start of the buffer.
Wrap(c) ==
    /\ pc[c] = "wrap" /\ Running(c)
    /\ LET next == l_head[c] + l_size[c]
       IN  buffer' = [i \in DOMAIN buffer |->
                         IF i < next - RING_BUF_SIZE
                         THEN buffer[RING_BUF_SIZE + i] ELSE buffer[i]]
    /\ Goto(c, "publish")
    /\ UNCHANGED <<head, tail, info, nevents, capture_enabled, preempt_count,
                   locals, reader, device, received, n_silent, committed>>

\* Mutant: head reaching the end of the ring exactly is not wrapped.
PublishNoWrapAtEnd(c) ==
    /\ pc[c] = "publish" /\ Running(c)
    /\ LET next == l_head[c] + l_size[c]
       IN  head' = IF next > RING_BUF_SIZE THEN next - RING_BUF_SIZE ELSE next
    /\ nevents' = nevents + 1
    /\ committed' = Append(committed, [id |-> Len(committed) + 1, len |-> l_size[c]])
    /\ Goto(c, "leave")
    /\ UNCHANGED <<tail, info, buffer, capture_enabled, preempt_count, locals,
                   reader, device, received, n_silent>>

\* After the write barrier: move head, then ++ring->nevents.
Publish(c) ==
    /\ pc[c] = "publish" /\ Running(c)
    /\ LET next == l_head[c] + l_size[c]
       IN  head' = IF next >= RING_BUF_SIZE THEN next - RING_BUF_SIZE ELSE next
    /\ nevents' = nevents + 1
    /\ committed' = Append(committed, [id |-> Len(committed) + 1, len |-> l_size[c]])
    /\ Goto(c, "leave")
    /\ UNCHANGED <<tail, info, buffer, capture_enabled, preempt_count, locals,
                   reader, device, received, n_silent>>

Drop(c) ==
    /\ Running(c)
    /\ \/ /\ pc[c] = "drop_buffer"
          /\ n_drops_buffer' = n_drops_buffer + 1
          /\ UNCHANGED <<n_drops_pf, n_silent>>
       \/ /\ pc[c] = "drop_pf"
          /\ n_drops_pf' = n_drops_pf + 1
          /\ UNCHANGED <<n_drops_buffer, n_silent>>
       \/ /\ pc[c] = "drop_bug"
          /\ n_silent' = n_silent + 1
          /\ UNCHANGED <<n_drops_buffer, n_drops_pf>>
    /\ Goto(c, "leave")
    /\ UNCHANGED <<head, tail, n_evts, n_preemptions, buffer, nevents,
                   capture_enabled, preempt_count, locals, reader, device, received,
                   committed>>

Leave(c) ==
    /\ pc[c] = "leave" /\ Running(c)
    /\ preempt_count' = preempt_count - 1
    /\ l_head' = [l_head EXCEPT ![c] = 0]
    /\ l_room' = [l_room EXCEPT ![c] = 0]
    /\ l_size' = [l_size EXCEPT ![c] = 0]
    /\ Goto(c, "idle")
    /\ UNCHANGED <<head, tail, info, buffer, nevents, capture_enabled, l_evts,
                   reader, device, received, n_silent, committed>>

RecordEvent(c) ==
    \/ Enter(c) \/ CountEvent(c) \/ Gate(c) \/ Bounce(c) \/ ComputeSpace(c)
    \/ \E s \in EvtSizes : FillSuccess(c, s)
    \/ \E label \in {"drop_buffer", "drop_pf", "drop_bug"} : FillFailure(c, label)
    \/ Wrap(c) \/ Publish(c) \/ Drop(c) \/ Leave(c)

-----------------------------------------------------------------------------
(* The reader: scap_next_live on one device.                               *)

\* The byte the reader sees at an address of its mapping.
At(addr) == buffer[Mirror(addr)]

producer == <<head, info, buffer, nevents, capture_enabled, preempt_count, pc,
              locals, received, n_silent, committed>>

\* The device has data left: hand out the next event (pe->len is read from
\* its header) and step over it.
NextEvent ==
    /\ open /\ rpc = "idle"
    /\ m_sn_len > 0
    /\ LET len == At(m_sn_next_event)[3]
       IN  IF len > m_sn_len
           THEN /\ rpc' = "corrupt"
                /\ UNCHANGED <<m_sn_len, m_sn_next_event, pevent, delivered>>
           ELSE /\ pevent' = [addr |-> m_sn_next_event,
                              id   |-> At(m_sn_next_event)[1], len |-> len]
                /\ m_sn_len' = m_sn_len - len
                /\ m_sn_next_event' = m_sn_next_event + len
                /\ delivered' = Append(delivered,
                       [id |-> At(m_sn_next_event)[1], len |-> len])
                /\ UNCHANGED rpc
    /\ UNCHANGED <<producer, device, tail, m_lastreadsize>>

\* The device is empty: scap_advance_tail frees what the previous read
\* returned, and the event of the last call is given up.
AdvanceTail ==
    /\ open /\ rpc = "idle"
    /\ m_sn_len = 0
    /\ LET ttail == tail + m_lastreadsize
       IN  tail' = IF ttail < RING_BUF_SIZE THEN ttail ELSE ttail - RING_BUF_SIZE
    /\ m_lastreadsize' = 0
    /\ pevent' = NoEvent
    /\ rpc' = "refill"
    /\ UNCHANGED <<producer, device, m_sn_len, m_sn_next_event, delivered>>

\* Mutant: the tail is moved when the data is served.
RefillReleases ==
    /\ rpc = "refill"
    /\ m_lastreadsize' = 0
    /\ m_sn_len' = ReadSize(head, tail)
    /\ m_sn_next_event' = tail
    /\ tail' = head
    /\ rpc' = "idle"
    /\ UNCHANGED <<producer, device, pevent, delivered>>

\* refill_read_buffers: scap_readbuf takes whatever is in the ring.
Refill ==
    /\ rpc = "refill"
    /\ m_lastreadsize' = ReadSize(head, tail)
    /\ m_sn_len' = ReadSize(head, tail)
    /\ m_sn_next_event' = tail
    /\ rpc' = "idle"
    /\ UNCHANGED <<producer, device, tail, pevent, delivered>>

ScapNext == NextEvent \/ AdvanceTail \/ Refill

-----------------------------------------------------------------------------
(* Closing the device and opening it again, while its consumer lives on.   *)

\* scap_close unmaps the ring, and ppm_release turns its capture off.  A probe
\* that is past the test of capture_enabled goes on.  Only a device that is opened
\* again (MaxOpens) is closed: there is nothing left to check after the last close.
Release ==
    /\ open /\ rpc # "refill"
    /\ opens < MaxOpens
    /\ open' = FALSE
    /\ capture_enabled' = FALSE
    /\ m_sn_len' = 0 /\ m_sn_next_event' = 0 /\ m_lastreadsize' = 0
    /\ rpc' = "idle" /\ pevent' = NoEvent
    /\ UNCHANGED <<head, tail, info, buffer, nevents, preempt_count, pc, locals,
                   delivered, opens, received, n_silent, committed>>

\* Mutant: the gate is reset with the ring.
ReopenResetsGate ==
    /\ ~open
    /\ Overlap \/ \A c \in Ctx : pc[c] \notin InGate
    /\ open' = TRUE /\ opens' = opens + 1
    /\ head' = 0 /\ tail' = 0 /\ nevents' = 0
    /\ n_evts' = 0 /\ n_drops_buffer' = 0 /\ n_drops_pf' = 0 /\ n_preemptions' = 0
    /\ preempt_count' = 0
    /\ received' = Unsettled /\ n_silent' = 0 /\ delivered' = <<>>
    /\ UNCHANGED <<buffer, capture_enabled, pc, locals, m_sn_len, m_sn_next_event,
                   m_lastreadsize, rpc, pevent, committed>>

\* Mutant: tail is not reset.
ReopenKeepsTail ==
    /\ ~open
    /\ Overlap \/ \A c \in Ctx : pc[c] \notin InGate
    /\ open' = TRUE /\ opens' = opens + 1
    /\ head' = 0 /\ nevents' = 0
    /\ n_evts' = 0 /\ n_drops_buffer' = 0 /\ n_drops_pf' = 0 /\ n_preemptions' = 0
    /\ received' = Unsettled /\ n_silent' = 0 /\ delivered' = <<>>
    /\ UNCHANGED <<tail, buffer, capture_enabled, preempt_count, pc, locals, m_sn_len,
                   m_sn_next_event, m_lastreadsize, rpc, pevent, committed>>

\* ppm_open: reset_ring_buffer empties the ring and clears its counters.  The
\* bytes stay, and preempt_count "is not reset to 0 on purpose".
Reopen ==
    /\ ~open
    /\ Overlap \/ \A c \in Ctx : pc[c] \notin InGate
    /\ open' = TRUE /\ opens' = opens + 1
    /\ head' = 0 /\ tail' = 0 /\ nevents' = 0
    /\ n_evts' = 0 /\ n_drops_buffer' = 0 /\ n_drops_pf' = 0 /\ n_preemptions' = 0
    /\ received' = Unsettled /\ n_silent' = 0 /\ delivered' = <<>>
    /\ UNCHANGED <<buffer, capture_enabled, preempt_count, pc, locals, m_sn_len,
                   m_sn_next_event, m_lastreadsize, rpc, pevent, committed>>

-----------------------------------------------------------------------------
Next ==
    \/ \E b \in BOOLEAN : SetCapture(b)
    \/ \E c \in Ctx : RecordEvent(c)
    \/ ScapNext
    \/ Release \/ Reopen

Spec == Init /\ [][Next]_vars

\* The kernel resumes an interrupted probe, and a capture loop keeps calling
\* scap_next while the device is open.  Entering a probe, the ioctls, closing and
\* opening are the environment's.
Fairness ==
    /\ \A c \in Ctx : WF_vars(RecordEvent(c) /\ pc[c] # "idle")
    /\ WF_vars(ScapNext)

FairSpec == Spec /\ Fairness

-----------------------------------------------------------------------------
(* Properties.                                                             *)

EvtType == [id : Nat, len : Nat]

RingType ==
    /\ head \in 0 .. RING_BUF_SIZE - 1
    /\ tail \in 0 .. RING_BUF_SIZE - 1
    /\ buffer \in [0 .. RING_BUF_SIZE + CUSHION - 1 -> Nat \X Nat \X Nat]
    /\ preempt_count \in 0 .. 3

CounterType ==
    /\ n_evts \in Nat /\ n_drops_buffer \in Nat /\ n_drops_pf \in Nat
    /\ n_preemptions \in Nat /\ nevents \in Nat
    /\ received \in Nat /\ n_silent \in Nat

LocalType ==
    /\ pc \in [Ctx -> PCs]
    /\ l_evts \in [Ctx -> Nat] /\ l_head \in [Ctx -> Nat]
    /\ l_room \in [Ctx -> Nat] /\ l_size \in [Ctx -> Nat]

ReaderType ==
    /\ m_sn_len \in Nat /\ m_lastreadsize \in Nat
    /\ m_sn_next_event \in 0 .. 2 * RING_BUF_SIZE
    /\ rpc \in {"idle", "refill", "corrupt"}
    /\ pevent \in [addr : Nat, id : Nat, len : Nat]

DeviceType == capture_enabled \in BOOLEAN /\ open \in BOOLEAN /\ opens \in Nat

HistoryType == committed \in Seq(EvtType) /\ delivered \in Seq(EvtType)

\* Every variable has its type; head and tail stay inside the ring, which is
\* what the assertions on ttail and head in record_event_consumer say.
TypeOK ==
    /\ RingType /\ CounterType /\ LocalType /\ DeviceType /\ ReaderType
    /\ HistoryType

\* The contexts whose increment of preempt_count is not yet undone.
Counted(c) == IF pc[c] \in InGate \cup {"bounce"} THEN 1 ELSE 0

\* The preemption gate lets one activation at a time work on the ring, and is
\* open again when nobody is inside: preempt_count always equals the number of
\* activations between atomic_inc_return and atomic_dec.  So also when the device
\* is "quickly closed and then reopened" around an activation (ppm_open).
GateExclusive ==
    /\ \A c, d \in Ctx : pc[c] \in InGate /\ pc[d] \in InGate => c = d
    /\ preempt_count = Counted("process") + Counted("fault") + Counted("softirq")

\* The k-th unread byte lies at offset Mirror(tail + k).
Live(i) == \E k \in 0 .. ReadSize(head, tail) - 1 : i = Mirror(tail + k)

\* No step of a producer, nested or failing ones included, changes a byte
\* between tail and head: what is published stays until the reader releases it
\* ("the caller is using the buffer we give to her until she calls us again").
\* An activation that ran into a reset of the ring has nothing to overwrite.
NeverOverwrites ==
    [][\A i \in 0 .. RING_BUF_SIZE - 1 : Live(i) => buffer'[i] = buffer[i]]_vars

\* The events published since the device was opened.
Session == SubSeq(committed, Len(committed) - nevents + 1, Len(committed))

\* scap_next_live hands out exactly the events that were published since the
\* device was opened, in order, none twice, none skipped and none of an earlier
\* capture, and never reports "buffer corruption".
ReaderSound ==
    /\ rpc # "corrupt"
    /\ Len(delivered) <= nevents
    /\ delivered = SubSeq(Session, 1, Len(delivered))

\* The event returned by the last scap_next_live is complete in the reader's
\* mapping, also across the wrap, and stays so until the next call that
\* advances the tail.
EventIntact ==
    \A k \in 0 .. pevent.len - 1 :
        At(pevent.addr + k) = Byte(pevent.id, k, pevent.len)

\* Every event that passed the capture_enabled test is published, counted as a
\* drop or a preemption, lost silently (a page fault inside a filler, a filler
\* bug), or still in progress; none is counted twice, and one that is in progress
\* while the device is closed and opened again counts for the new capture.
Accounting ==
    received = nevents + n_drops_buffer + n_drops_pf + n_preemptions + n_silent
               + Unsettled

\* What an activation inside the gate relies on: its copy of head is current,
\* and the room it computed is still free, whatever the reader did meanwhile.
\* After a reset that met it inside, the ring is empty until it publishes.
HolderInv(c) ==
    /\ pc[c] \in {"fill", "wrap", "publish"} =>
           /\ l_head[c] < RING_BUF_SIZE /\ l_room[c] < RING_BUF_SIZE
           /\ l_room[c] <= DeltaFromEnd(l_head[c])
           /\ \/ l_head[c] = head /\ l_room[c] <= Freespace(head, tail)
              \/ Overlap /\ head = tail
    /\ pc[c] \in {"wrap", "publish"} => l_size[c] \in 1 .. l_room[c]

\* What the reader holds is a prefix of the unread bytes.
ReaderInv ==
    /\ m_sn_len <= m_lastreadsize
    /\ m_lastreadsize <= ReadSize(head, tail)
    /\ rpc = "refill" => m_lastreadsize = 0
    /\ rpc = "idle" => m_sn_next_event = tail + (m_lastreadsize - m_sn_len)
                         \/ m_lastreadsize = 0
    /\ ~open => m_lastreadsize = 0 /\ rpc = "idle"

\* The inductive invariant behind GateExclusive and NeverOverwrites: the space
\* the gate holder may write and the space the reader holds are disjoint.
RingInv ==
    /\ TypeOK
    /\ GateExclusive
    /\ \A c \in Ctx : HolderInv(c)
    /\ ReaderInv

\* Every published event is eventually handed to the caller of scap_next, unless
\* the device is closed first.
EventuallyDelivered ==
    \A n \in 1 .. MaxEvents :
        open /\ nevents >= n ~> Len(delivered) >= n \/ ~open

\* ASSERT(false) behind the preemption gate: only page faults are turned away.
OnlyFaultsBounce == n_preemptions = 0
=============================================================================
