# A TLA+ verification of agent-libs

agent-libs captures system events in the Linux kernel and turns them into a
stream enriched with threads, descriptors and containers. This directory models
the parts of it where several actors share state, checks them with TLC on small
instances, and proves the central invariants with TLAPS for every value of the
constants. Every definition is translated from the sources; `PROJECT.json` gives
the lines each one stands for.

## The system and its parts

| Part | Sources | Modelled |
|---|---|---|
| per-CPU ring buffer, its producer and its reader | driver/main.c, driver/ppm_ringbuffer.h, libscap/scap.c | PpmRing |
| consumers, devices, probe registration, CPU hotplug | driver/main.c | PpmConsumers (partly) |
| asynchronous key-value source | userspace/async | AsyncSource |
| dropping mode | driver/main.c | planned |
| eBPF probe and its reader | driver/bpf, libscap/scap_bpf.c | planned |
| opening and closing a capture, merge of the devices | libscap/scap.c | planned |
| udig | libscap/scap_udig.c | planned |
| capture files | libscap/scap_savefile.c | planned |
| thread and descriptor tables, parsers | libsinsp/threadinfo.cpp, fdinfo.cpp, parsers.cpp | planned |
| container manager and engines | libsinsp/container.cpp, container_engine/ | planned |
| filters, prefix search | libsinsp/filter.cpp, gen_filter.cpp, prefix_search.h | planned |
| tracers, user events, file rotation | libsinsp/tracers.cpp, user_event.cpp, cyclewriter.cpp | planned |
| Kubernetes and Mesos clients | libsinsp/k8s*.cpp, mesos*.cpp, socket_handler.h | planned |
| fillers, event tables, /proc scan, formatting, chisels, third-party code | see PROJECT.json | no |

How they interact. A probe of the driver walks the list of consumers and stores
the event in the ring that each consumer has for the current CPU. libscap maps
those rings, and scap_next merges them and hands out one event at a time.
libsinsp parses each event, updates its thread, descriptor and container tables,
and asks an engine for the metadata of a container it has not seen; docker and
CRI answer through an asynchronous source with a thread of its own.

## Modules

### PpmRing: one ring

Variables: the shared `ppm_ring_buffer_info` (`head`, `tail` and the counters),
the driver's private `ppm_ring_buffer_context`, the activations of
`record_event_consumer` (`pc` and the locals `l_*`), and the reader's
`scap_device`. The buffer is kept byte by byte; a byte is the event, its offset
and the event's length, so a torn or mixed event is visible.

A CPU runs one activation at a time, but activations nest: a page fault inside a
filler, and a network probe from a softirq at any point. An inner activation
finishes before an outer one goes on.

| Action | Code |
|---|---|
| Enter, CountEvent | capture_enabled test; `n_evts++` as a load and a store |
| Gate, Bounce | `atomic_inc_return(&preempt_count)` and the way out of a lost gate |
| ComputeSpace | head, tail, free space, distance to the end of the cushion |
| FillSuccess, FillFailure | the filler, reduced to a length or one of its error classes |
| Wrap, Publish | copy of the bytes behind the ring; store of head |
| Drop, Leave | the drop counters; `atomic_dec` |
| NextEvent, AdvanceTail, Refill | scap_next_live, scap_advance_tail, scap_readbuf |
| SetCapture | the ioctls that enable and disable capture |
| Release, Reopen | close of the device; reset_ring_buffer in ppm_open |

Sessions. The device may be closed and opened again while its consumer, and with
it the ring, lives on. Reopen empties the ring and clears the counters, leaves the
bytes and, on purpose, `preempt_count`. Nothing in ppm_open waits for a probe
that is still inside the ring. With `Overlap = FALSE` the reset finds nobody
inside the gate, which is what libscap's use gives: it closes all devices of a
capture, and the rings are freed after a grace period. With `Overlap = TRUE` it may
meet a probe, as when a program keeps another device of the consumer open (the
case that the comment at main.c:570-576 is about). The histories `received` and
`delivered` restart with each opening, `committed` does not.

### PpmConsumers: who owns the rings

Everything under `g_consumer_mutex` is the operation `op` in progress; it is cut
into steps where another actor can get in between: allocation, linking, the check
of the device, the registration of each tracepoint, `synchronize_rcu`, freeing.
Probes walk the list without the mutex, one per CPU: `inside` is the set of CPUs in
a read section, `walk` what such a probe has yet to leave. `gp` is the set of CPUs
a grace period still waits for. The hotplug callback changes `cpu_online` of linked
consumers only.

| Action | Code |
|---|---|
| OpenAlloc, OpenLink, OpenFound, OpenRefused, OpenRing | ppm_open up to `ring->open = true` |
| RegisterKprobes, Register, RegisterFails, Unwind, OpenFails | one tracepoint per step; the error labels, one tracepoint per step |
| Release, FreeConsumer | ppm_release, check_remove_consumer and its grace period |
| StopBegin, Unregister, SynchronizeUnregister, StopEnd | the last close: one tracepoint per step, the wait for running probes, then net_dev_xmit and the flag |
| IoctlCapture, IoctlSignalDeliver | the two pairs of ioctls |
| IoctlPageFaults, RegisterFault, RegisterFaultFails | the page-fault ioctl |
| ProbeStart, ProbeLeave, ProbeEnd | record_event_all_consumers |
| CpuCallback | do_cpu_callback |

Not in this module: ppm_mmap, the ioctls that only set a parameter, loading and
unloading the kernel module.

### AsyncSource: lookups answered by a thread

Each critical section of `m_mutex` is one step; `m_running` and `m_terminate` are
also accessed without it, in steps of their own. `lookups` is a history of all
lookups and their outcomes. A waiting lookup may resume at any time: notified,
timed out or spuriously. `run_impl` is the loop of docker_async_source and
cri_async_source. `get_value` has no caller and is left out.

| Action | Code |
|---|---|
| LookupReturns, LookupNoWait, LookupWaits, LookupResumes | lookup_delayed, cut at the wait |
| GetCompleteResults | get_complete_results |
| RunStart, RunWait, RunWakes, RunPrune, RunImpl, RunExit | run and prune_stale_requests |
| Dequeue, DequeueFails, StoreValue | dequeue_next_key, store_value |
| StopBegin, StopJoin | stop, before and after it leaves the mutex |
| Destroy | the destruction of m_thread: the program ends if it is joinable |

`ub` records undefined behaviour. "condition": an entry is erased while a lookup
sleeps on its `m_available_condition` un-notified. "end": a lookup stores its
handler through `end()`. stop may run more than once: quiesce in ~sinsp, the
destructor of the subclass, and the base destructor. Lookups are over by then.

## Runs

Every module `MCx` instantiates `x` for TLC.

| Run | Shows | Distinct states |
|---|---|---|
| ring_safety | nested probes, failing fillers, concurrent reader, two captures on the ring: no unread byte is overwritten, the events of the capture are delivered whole and in order, every event is accounted for | 547,257 |
| ring_reopen | the reset meets a probe inside: the gate stays exclusive and exact, no unread byte is overwritten | 630,297 |
| ring_liveness | every published event is delivered unless the device is closed first | 30,605 |
| consumers_hotplug | with registrations that succeed, opens, closes, probes and hotplug: no use after free, no probe left over from a removed consumer, files keep their rings, collection runs while a device is open and is undone with the last consumer | 452,844 |
| consumers_unwind | without hotplug, a failed registration of tracepoints 1 to 5 or of a page-fault tracepoint is undone completely and frees safely; the mutex is always released | 58,523 |
| async_nowait | no lost request or wake-up, handlers are called once | 511,030 |
| async_wait | two clients: the value or the handler, never both and never neither; every request is dequeued; stop returns | 145,312 |
| ring_bounce, consumers_stop, async_stop, async_handlers, async_end | violations, below | |

Bounds. A ring of 4 bytes with a cushion of 2 and events of 1 and 3 bytes reaches
the exact fit, the full ring, an event that ends at the end of the ring and one
that runs into the cushion; three events go round the ring more than once. Two
openings (`MaxOpens`) give a reset of a ring in any state; `MaxEvents` bounds the
events of one opening. The device is closed only when it may be opened again. Two
tasks and two CPUs give a consumer with two devices and two consumers, with a
probe on each CPU. Two keys and three lookups by one client (async_nowait) give a
repeated key, a second key with an earlier deadline, and a lookup after a prune;
the clock runs past every delay plus the ttl. Two clients with a lookup each
(async_wait) give two waits for one entry and a store between them. `MaxLookups`
and `MaxNow` bound otherwise unbounded histories. Symmetry is used in invariant
runs only.

OneAnswer speaks of executions without undefined behaviour: with a second waiter
the code reaches it (async_end), and nothing is promised afterwards.

Deadlock is not checked for AsyncSource: the object may be destroyed, or the program
ended, and the bounded clock and lookups run out.

Fairness. A probe that started runs on (it cannot be descheduled for ever inside
the kernel), the reader keeps calling scap_next, the holder of the mutex is
scheduled, probes leave their read section, the async thread and a blocked lookup
are scheduled, the clock advances. No fairness is assumed for new events, opens,
lookups or stops.

## Where the code and its comments disagree

- `ring_bounce`: the softirq kprobes reach the lost gate, where the code asserts
  that only page faults do.
- `consumers_stop`: an open refused with ENODEV leaves its consumer linked; the
  last close then does not stop collection.
- `async_stop`: stop before the thread has set `m_running` does nothing. The
  destructor then ends with a joinable `m_thread`, and std::terminate is called.
  docker_async_source calls stop twice (async_source.cpp:39 and the base
  destructor), so there the thread has to stay unscheduled across both calls.
- `async_handlers`: a handler is replaced by a later lookup of the key, or pruned,
  and never called.
- `async_end`: a lookup that waited can store its handler through `end()`. What
  erased the entry has already destroyed the condition variable the lookup sleeps
  on, so the behaviour is undefined before that. Both subclasses in the repository
  never wait, so the case is latent.

ReaderSound and EventIntact hold only when the reset of a ring finds no probe inside
(`Overlap = FALSE`). With `Overlap = TRUE` TLC shows a probe that loaded head, wrote
its event and was overtaken by a close and an open: it publishes the old head into
the emptied ring, and the new reader takes the bytes from 0 up to it, an event of
the previous capture first. The comment in ppm_open promises only that
`preempt_count` survives, which ring_reopen confirms.

Two properties of PpmConsumers hold only within the constants of their runs.
Outside them the code itself breaks them, and TLC shows how in a few steps:

- UnwindComplete fails when net_dev_xmit cannot be registered (`FailAt = {6}`):
  the labels at main.c:675-681 unregister net_dev_xmit, which was not registered,
  and skip signal_deliver, which was. It stays attached, and registering it at
  the next open fails.
- NoUseAfterFree fails when an open is refused with ENODEV and a later open by the
  same task fails to register (`Hotplug = TRUE`, `FailAt = {1}`): the second open
  finds the linked consumer, so `in_list` is false, and check_remove_consumer
  frees it without taking it off the list.

No comment or test of the repository speaks of these cases, so they are
described here and under the hazards and not as violation runs.

Seen with the same models in configurations that are not kept: `n_evts` loses an
increment when a softirq probe interrupts it (ppm_ringbuffer.h:26 calls it the
total number of events); a CPU that goes offline before `list_add_rcu` is still
marked online in the new consumer (main.c:540); a value older than its ttl is
returned by lookup, because pruning waits for a due request.

## Proofs

tlapm checks all of these, for every value of the constants that satisfies the
module's named assumption.

PpmRingProofs (from RingAssumption): `RingInvariance`, `TypeCorrect`,
`GateTheorem`, `NoOverwriteTheorem`. NeverOverwrites is not inductive alone: a
producer writes where it computed room some steps ago. `RingInv` adds that the
gate has one holder, that the holder's copy of head is current and its room still
within the free space (the reader only ever enlarges it), and that what the reader
holds is a prefix of the unread bytes. A holder that was inside during a reset has
an old head; for it the invariant says that the ring is empty until it publishes,
and that what it writes fits into the ring. The four theorems hold for both values
of `Overlap` and for any number of openings. The proof has a step per action.

AsyncSourceProofs (from AsyncAssumption): `AsyncInvariance`,
`NoLostRequestTheorem`, `WakeupTheorem`, `QueueTheorem`. The three properties
depend on each other: a key that is already in the request set is not queued
again, so no request is lost only because the set agrees with the queue; and
starting a thread must not discard one that is collecting, which needs that the
thread object is joinable exactly while there is a thread. `AsyncInv` is their
conjunction with those facts and the shape of the map. `LookupStep` treats the
lookups that find no value, `QuietStep` the steps that leave the queue alone.

Only model-checked: all liveness (fairness is out of the prover's reach),
ReaderSound, EventIntact and Accounting of the ring, everything about
PpmConsumers, and CallbackOwned, OneAnswer and the type invariant of AsyncSource.

## Plan

In this order; the number of runs stays small, so later modules take the place
of violation runs that have been reported.

1. EventQueue, an abstract queue with loss, and the refinement PpmRing => EventQueue.
2. ContainerLookup: container manager and engine composed with AsyncSource
   (lookup states that outlive the container, removal against a late answer).
3. ScapMerge: several devices, batches, time stamps, suppressed threads.
4. ScapOpen: descriptors and mappings on every error path of open and close.
5. ThreadTable and its descriptors, with the enter/exit matching of the parsers.
6. The eBPF scratch map and perf ring; udig; dropping mode.
7. Pure algorithms against reference definitions: filter evaluation, prefix
   search, capture-file blocks, tracer matching, file rotation.
8. Proofs: NoUseAfterFree and FileHasRing of PpmConsumers; ReaderSound through
   absolute positions; CallbackOwned; the refinement of step 1.
