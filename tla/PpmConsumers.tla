----------------------------- MODULE PpmConsumers -----------------------------
(***************************************************************************)
(* The lifetime of consumers in the kernel module (driver/main.c): opening *)
(* and closing the per-CPU devices, registering the probes, CPU hotplug,   *)
(* and the probes that walk g_consumer_list under RCU while all of that    *)
(* goes on.                                                                *)
(*                                                                         *)
(* A consumer is identified by the task that opened a device, as in        *)
(* ppm_find_consumer.  Everything that runs under g_consumer_mutex is the  *)
(* one operation `op' in progress; probes and the hotplug callback take no *)
(* mutex and interleave with its steps.                                    *)
(***************************************************************************)
EXTENDS Integers, FiniteSetsExt

CONSTANTS
    Tasks,          \* the threads that may open devices
    CPUs,           \* the possible CPUs, one device each
    max_consumers,  \* module parameter
    Hotplug,        \* TRUE when CPUs may go offline and come back
    FailAt          \* tracepoints (by position) whose registration may fail

ASSUME ConsumersAssumption ==
    /\ IsFiniteSet(Tasks) /\ IsFiniteSet(CPUs)
    /\ max_consumers \in Nat
    /\ Hotplug \in BOOLEAN
    /\ FailAt \subseteq 1 .. 8

\* Registration order in ppm_open: 1 sys_exit, 2 sys_enter,
\* 3 sched_process_exit, 4 sched_switch, 5 signal_deliver, 6 net_dev_xmit.  The
\* ioctl for page faults registers 7 page_fault_user and 8 page_fault_kernel.
Tracepoints == 1 .. 6
signal_deliver == 5
net_dev_xmit == 6
page_fault_user == 7
page_fault_kernel == 8

VARIABLES
    g_consumer_list,         \* tasks whose consumer is linked
    mem,                     \* memory of a task's consumer
    cpu_online, has_buffer,  \* per consumer: CPUs with that flag in their ring
    ring_open, capture_enabled,
    tps,                     \* tracepoints our probes are attached to
    g_tracepoint_registered, g_kprobe_registered, g_fault_tracepoint_registered,
    online,                  \* the kernel's mask of online CPUs
    files,                   \* <<task, cpu>>: open files of the devices
    op,                      \* what the holder of g_consumer_mutex is doing
    gp,                      \* CPUs a grace period still waits for
    inside,                  \* CPUs with a probe in its RCU read section
    walk                     \* consumers the probe on a CPU has yet to leave

rings  == <<cpu_online, has_buffer, ring_open, capture_enabled>>
probes == <<tps, g_tracepoint_registered, g_kprobe_registered,
            g_fault_tracepoint_registered>>
vars   == <<g_consumer_list, mem, rings, probes, online, files, op, gp, inside, walk>>

NoOp == [step |-> "none"]
Stop == [step |-> "stop"]
Registering(o) == [step |-> "register", i |-> 1, t |-> o.t, c |-> o.c,
                   in_list |-> o.in_list]
Open(step, t, c, in_list) == [step |-> step, t |-> t, c |-> c, in_list |-> in_list]

Init ==
    /\ g_consumer_list = {}
    /\ mem = [t \in Tasks |-> "none"]
    /\ cpu_online = [t \in Tasks |-> {}]
    /\ has_buffer = [t \in Tasks |-> {}]
    /\ ring_open = [t \in Tasks |-> {}]
    /\ capture_enabled = [t \in Tasks |-> {}]
    /\ tps = {}
    /\ g_tracepoint_registered = FALSE
    /\ g_kprobe_registered = FALSE
    /\ g_fault_tracepoint_registered = FALSE
    /\ online \in {s \in SUBSET CPUs : s # {} /\ (~Hotplug => s = CPUs)}
    /\ files = {}
    /\ op = NoOp
    /\ gp = {}
    /\ inside = {}
    /\ walk = [c \in CPUs |-> {}]

-----------------------------------------------------------------------------
(* check_remove_consumer: when no ring of the consumer is open, unlink it    *)
(* if asked to, wait for a grace period, and free it.                        *)

\* synchronize_rcu, then what is left of the operation.
SyncThen(next, t) == [step |-> "sync", t |-> t, next |-> next]

\* Mutant: the grace period is skipped.
CheckRemoveNoSync(t, remove_from_list, open, next) ==
    IF open # {}
    THEN op' = next /\ UNCHANGED <<g_consumer_list, mem, gp>>
    ELSE /\ g_consumer_list' = IF remove_from_list THEN g_consumer_list \ {t}
                               ELSE g_consumer_list
         /\ mem' = [mem EXCEPT ![t] = "freed"]
         /\ op' = next
         /\ UNCHANGED gp

\* Mutant: the consumer goes with the first ring that is closed.
CheckRemoveAlways(t, remove_from_list, open, next) ==
    IF remove_from_list
    THEN /\ g_consumer_list' = g_consumer_list \ {t}
         /\ gp' = inside
         /\ op' = SyncThen(next, t)
         /\ UNCHANGED mem
    ELSE op' = next /\ UNCHANGED <<g_consumer_list, mem, gp>>

\* The operation goes on with `next' once the consumer is dealt with.
CheckRemove(t, remove_from_list, open, next) ==
    IF open # {}
    THEN op' = next /\ UNCHANGED <<g_consumer_list, mem, gp>>
    ELSE IF remove_from_list
         THEN /\ g_consumer_list' = g_consumer_list \ {t}
              /\ gp' = inside
              /\ op' = SyncThen(next, t)
              /\ UNCHANGED mem
         ELSE /\ mem' = [mem EXCEPT ![t] = "freed"]
              /\ op' = next
              /\ UNCHANGED <<g_consumer_list, gp>>

\* Mutant: wait for a moment without any probe.
FreeConsumerQuiet ==
    /\ op.step = "sync"
    /\ inside = {}
    /\ mem' = [mem EXCEPT ![op.t] = "freed"]
    /\ op' = op.next
    /\ gp' = {}
    /\ UNCHANGED <<g_consumer_list, rings, probes, online, files, inside, walk>>

\* synchronize_rcu returned: the probes that could hold the consumer are gone.
FreeConsumer ==
    /\ op.step = "sync"
    /\ gp = {}
    /\ mem' = [mem EXCEPT ![op.t] = "freed"]
    /\ op' = op.next
    /\ UNCHANGED <<g_consumer_list, rings, probes, online, files, gp, inside, walk>>

-----------------------------------------------------------------------------
(* ppm_open.                                                               *)

\* No consumer for this task yet: allocate one, with a ring for each CPU that
\* is online now.  (At max_consumers, and when memory runs out, ppm_open
\* returns an error and changes nothing.)
OpenAlloc(t, c) ==
    /\ op = NoOp
    /\ t \notin g_consumer_list
    /\ Cardinality(g_consumer_list) < max_consumers
    /\ mem' = [mem EXCEPT ![t] = "alloc"]
    /\ cpu_online' = [cpu_online EXCEPT ![t] = online]
    /\ has_buffer' = [has_buffer EXCEPT ![t] = online]
    /\ ring_open' = [ring_open EXCEPT ![t] = {}]
    /\ capture_enabled' = [capture_enabled EXCEPT ![t] = {}]
    /\ op' = Open("link", t, c, FALSE)
    /\ UNCHANGED <<g_consumer_list, probes, online, files, gp, inside, walk>>

\* list_add_rcu.
OpenLink ==
    /\ op.step = "link"
    /\ g_consumer_list' = g_consumer_list \cup {op.t}
    /\ op' = [op EXCEPT !.step = "check", !.in_list = TRUE]
    /\ UNCHANGED <<mem, rings, probes, online, files, gp, inside, walk>>

\* The task has a consumer already.
OpenFound(t, c) ==
    /\ op = NoOp
    /\ t \in g_consumer_list
    /\ op' = Open("check", t, c, FALSE)
    /\ UNCHANGED <<g_consumer_list, mem, rings, probes, online, files, gp, inside,
                   walk>>

\* ENODEV when the device's CPU is offline or has no ring, EBUSY when the ring
\* is open already: the consumer stays as it is.
OpenRefused ==
    /\ op.step = "check"
    /\ \/ op.c \notin cpu_online[op.t] \cap has_buffer[op.t]
       \/ op.c \in ring_open[op.t]
    /\ op' = NoOp
    /\ UNCHANGED <<g_consumer_list, mem, rings, probes, online, files, gp, inside,
                   walk>>

\* reset_ring_buffer, ring->open = true; nothing to register when the
\* tracepoints are there.  What the reset does to the ring itself, and to a probe
\* that is inside it, is Reopen of PpmRing.
OpenRing ==
    /\ op.step = "check"
    /\ op.c \in (cpu_online[op.t] \cap has_buffer[op.t]) \ ring_open[op.t]
    /\ ring_open' = [ring_open EXCEPT ![op.t] = @ \cup {op.c}]
    /\ capture_enabled' = [capture_enabled EXCEPT ![op.t] = @ \ {op.c}]
    /\ IF g_tracepoint_registered
       THEN op' = NoOp /\ files' = files \cup {<<op.t, op.c>>}
       ELSE op' = Registering(op) /\ UNCHANGED files
    /\ UNCHANGED <<g_consumer_list, mem, cpu_online, has_buffer, probes, online,
                   gp, inside, walk>>

\* Registering tracepoint i is refused when our probe is already attached
\* (EEXIST), or by the kernel.
CanRegister(i) == i \notin tps

\* The kprobes go in before net_dev_xmit, and once: their errors are only logged.
RegisterKprobes ==
    /\ op.step = "register" /\ op.i = net_dev_xmit
    /\ ~g_kprobe_registered
    /\ g_kprobe_registered' = TRUE
    /\ UNCHANGED <<g_consumer_list, mem, rings, tps, g_tracepoint_registered,
                   g_fault_tracepoint_registered, online, files, op, gp, inside,
                   walk>>

KprobesDone == op.i = net_dev_xmit => g_kprobe_registered

\* Mutant: g_tracepoint_registered is not set.
RegisterForgets ==
    /\ op.step = "register" /\ KprobesDone
    /\ CanRegister(op.i)
    /\ tps' = tps \cup {op.i}
    /\ IF op.i = net_dev_xmit
       THEN op' = NoOp /\ files' = files \cup {<<op.t, op.c>>}
       ELSE op' = [op EXCEPT !.i = @ + 1] /\ UNCHANGED files
    /\ UNCHANGED <<g_consumer_list, mem, rings, g_tracepoint_registered,
                   g_kprobe_registered, g_fault_tracepoint_registered, online, gp,
                   inside, walk>>

\* One tracepoint is registered, and its probe may fire at once; after the last,
\* the device is open.
Register ==
    /\ op.step = "register" /\ KprobesDone
    /\ CanRegister(op.i)
    /\ tps' = tps \cup {op.i}
    /\ IF op.i = net_dev_xmit
       THEN /\ g_tracepoint_registered' = TRUE
            /\ op' = NoOp /\ files' = files \cup {<<op.t, op.c>>}
       ELSE /\ op' = [op EXCEPT !.i = @ + 1]
            /\ UNCHANGED <<g_tracepoint_registered, files>>
    /\ UNCHANGED <<g_consumer_list, mem, rings, g_kprobe_registered,
                   g_fault_tracepoint_registered, online, gp, inside, walk>>

\* Mutant: every label starts one tracepoint too low.
UnwoundShort(i) == 1 .. i - 2

\* What the error labels of ppm_open unregister when the i-th registration
\* failed: err_net_dev_xmit falls through err_signal_deliver, which starts at
\* sched_switch.
Unwound(i) == IF i = net_dev_xmit THEN {1, 2, 3, 4, net_dev_xmit} ELSE 1 .. i - 1

RegisterFails ==
    /\ op.step = "register" /\ KprobesDone
    /\ op.i \in FailAt \/ ~CanRegister(op.i)
    /\ op' = [step |-> "unwind", left |-> Unwound(op.i), t |-> op.t, c |-> op.c,
              in_list |-> op.in_list]
    /\ UNCHANGED <<g_consumer_list, mem, rings, probes, online, files, gp, inside,
                   walk>>

\* The error labels, from the last tracepoint to the first.
Unwind ==
    /\ op.step = "unwind" /\ op.left # {}
    /\ LET i == Max(op.left)
       IN  tps' = tps \ {i} /\ op' = [op EXCEPT !.left = @ \ {i}]
    /\ UNCHANGED <<g_consumer_list, mem, rings, g_tracepoint_registered,
                   g_kprobe_registered, g_fault_tracepoint_registered, online,
                   files, gp, inside, walk>>

\* err_sys_exit and err_init_ring_buffer.
OpenFails ==
    /\ op.step = "unwind" /\ op.left = {}
    /\ ring_open' = [ring_open EXCEPT ![op.t] = @ \ {op.c}]
    /\ CheckRemove(op.t, op.in_list, ring_open[op.t] \ {op.c}, NoOp)
    /\ UNCHANGED <<cpu_online, has_buffer, capture_enabled, probes, online, files,
                   inside, walk>>

-----------------------------------------------------------------------------
(* ppm_release and the ioctls, on an open file.                            *)

Release(t, c) ==
    /\ op = NoOp
    /\ <<t, c>> \in files
    /\ files' = files \ {<<t, c>>}
    /\ IF t \in g_consumer_list /\ c \in ring_open[t]
       THEN /\ capture_enabled' = [capture_enabled EXCEPT ![t] = @ \ {c}]
            /\ ring_open' = [ring_open EXCEPT ![t] = @ \ {c}]
            /\ CheckRemove(t, TRUE, ring_open[t] \ {c}, Stop)
       ELSE UNCHANGED <<capture_enabled, ring_open, g_consumer_list, mem, op, gp>>
    /\ UNCHANGED <<cpu_online, has_buffer, probes, online, inside, walk>>

\* Mutant: any closed device stops event collection.
StopBeginAny ==
    /\ op.step = "stop"
    /\ op' = [step |-> "unregister", left |-> 1 .. signal_deliver]
    /\ UNCHANGED <<g_consumer_list, mem, rings, probes, online, files, gp, inside,
                   walk>>

\* Mutant: the page fault tracepoints are forgotten.
StopBeginKeepsFaults ==
    /\ op.step = "stop"
    /\ op' = IF g_consumer_list = {} /\ g_tracepoint_registered
             THEN [step |-> "unregister", left |-> 1 .. signal_deliver]
             ELSE NoOp
    /\ UNCHANGED <<g_consumer_list, mem, rings, probes, online, files, gp, inside,
                   walk>>

\* The last closed device stops event collection.
StopBegin ==
    /\ op.step = "stop"
    /\ op' = IF g_consumer_list = {} /\ g_tracepoint_registered
             THEN [step |-> "unregister",
                   left |-> (1 .. signal_deliver) \cup
                            IF g_fault_tracepoint_registered
                            THEN {page_fault_user, page_fault_kernel} ELSE {}]
             ELSE NoOp
    /\ UNCHANGED <<g_consumer_list, mem, rings, probes, online, files, gp, inside,
                   walk>>

\* One tracepoint after the other, net_dev_xmit excepted.
Unregister ==
    /\ op.step = "unregister" /\ op.left # {}
    /\ LET i == Min(op.left)
       IN  /\ tps' = tps \ {i}
           /\ op' = [op EXCEPT !.left = @ \ {i}]
           /\ g_fault_tracepoint_registered' =
                  (g_fault_tracepoint_registered /\ i # page_fault_kernel)
    /\ UNCHANGED <<g_consumer_list, mem, rings, g_tracepoint_registered,
                   g_kprobe_registered, online, files, gp, inside, walk>>

\* tracepoint_synchronize_unregister starts waiting for the probes that run now.
\* net_dev_xmit and the kprobes are still attached and start new ones.
SynchronizeUnregister ==
    /\ op.step = "unregister" /\ op.left = {}
    /\ gp' = inside
    /\ op' = [step |-> "drain"]
    /\ UNCHANGED <<g_consumer_list, mem, rings, probes, online, files, inside, walk>>

\* The wait is over: net_dev_xmit goes, and the capture is stopped.
StopEnd ==
    /\ op.step = "drain" /\ gp = {}
    /\ tps' = tps \ {net_dev_xmit}
    /\ g_tracepoint_registered' = FALSE
    /\ op' = NoOp
    /\ UNCHANGED <<g_consumer_list, mem, rings, g_kprobe_registered,
                   g_fault_tracepoint_registered, online, files, gp, inside, walk>>

IoctlCapture(t, c) ==
    /\ op = NoOp
    /\ <<t, c>> \in files
    /\ t \in g_consumer_list
    /\ \E on \in BOOLEAN :
           capture_enabled' = [capture_enabled EXCEPT ![t] =
                                  IF on THEN @ \cup {c} ELSE @ \ {c}]
    /\ UNCHANGED <<g_consumer_list, mem, cpu_online, has_buffer, ring_open, probes,
                   online, files, op, gp, inside, walk>>

\* PPM_IOCTL_ENABLE_SIGNAL_DELIVER and PPM_IOCTL_DISABLE_SIGNAL_DELIVER.
IoctlSignalDeliver(t, c) ==
    /\ op = NoOp
    /\ <<t, c>> \in files
    /\ t \in g_consumer_list
    /\ g_tracepoint_registered
    /\ tps' \in {tps \cup {signal_deliver}, tps \ {signal_deliver}}
    /\ UNCHANGED <<g_consumer_list, mem, rings, g_tracepoint_registered,
                   g_kprobe_registered, g_fault_tracepoint_registered, online,
                   files, op, gp, inside, walk>>

\* PPM_IOCTL_ENABLE_PAGE_FAULTS; nothing to do when it is enabled already.
IoctlPageFaults(t, c) ==
    /\ op = NoOp
    /\ <<t, c>> \in files
    /\ t \in g_consumer_list
    /\ ~g_fault_tracepoint_registered
    /\ op' = [step |-> "faults", i |-> page_fault_user]
    /\ UNCHANGED <<g_consumer_list, mem, rings, probes, online, files, gp, inside,
                   walk>>

RegisterFault ==
    /\ op.step = "faults"
    /\ CanRegister(op.i)
    /\ tps' = tps \cup {op.i}
    /\ IF op.i = page_fault_kernel
       THEN g_fault_tracepoint_registered' = TRUE /\ op' = NoOp
       ELSE op' = [op EXCEPT !.i = @ + 1] /\ UNCHANGED g_fault_tracepoint_registered
    /\ UNCHANGED <<g_consumer_list, mem, rings, g_tracepoint_registered,
                   g_kprobe_registered, online, files, gp, inside, walk>>

\* err_page_fault_kernel takes page_fault_user back.
RegisterFaultFails ==
    /\ op.step = "faults"
    /\ op.i \in FailAt \/ ~CanRegister(op.i)
    /\ tps' = IF op.i = page_fault_kernel THEN tps \ {page_fault_user} ELSE tps
    /\ op' = NoOp
    /\ UNCHANGED <<g_consumer_list, mem, rings, g_tracepoint_registered,
                   g_kprobe_registered, g_fault_tracepoint_registered, online,
                   files, gp, inside, walk>>

-----------------------------------------------------------------------------
(* Probes and hotplug.                                                     *)

\* record_event_all_consumers: rcu_read_lock, walk the list.  An element added
\* later goes in front of the walker and is not seen.
ProbeStart(c) ==
    /\ c \in online \ inside
    /\ tps # {} \/ g_kprobe_registered
    /\ inside' = inside \cup {c}
    /\ walk' = [walk EXCEPT ![c] = g_consumer_list]
    /\ UNCHANGED <<g_consumer_list, mem, rings, probes, online, files, op, gp>>

\* The probe is done with one consumer.
ProbeLeave(c, t) ==
    /\ t \in walk[c]
    /\ walk' = [walk EXCEPT ![c] = @ \ {t}]
    /\ UNCHANGED <<g_consumer_list, mem, rings, probes, online, files, op, gp,
                   inside>>

\* rcu_read_unlock at the end of the list.
ProbeEnd(c) ==
    /\ c \in inside /\ walk[c] = {}
    /\ inside' = inside \ {c}
    /\ gp' = gp \ {c}
    /\ UNCHANGED <<g_consumer_list, mem, rings, probes, online, files, op, walk>>

\* do_cpu_callback: mark the CPU's ring in every linked consumer, then record
\* PPME_CPU_HOTPLUG_E for all of them.
CpuCallback(c, up) ==
    /\ Hotplug
    /\ c \notin inside
    /\ up <=> c \notin online
    /\ online' = IF up THEN online \cup {c} ELSE online \ {c}
    /\ online' # {}
    /\ cpu_online' = [t \in Tasks |->
          IF t \in g_consumer_list
          THEN IF up THEN cpu_online[t] \cup {c} ELSE cpu_online[t] \ {c}
          ELSE cpu_online[t]]
    /\ inside' = inside \cup {c}
    /\ walk' = [walk EXCEPT ![c] = g_consumer_list]
    /\ UNCHANGED <<g_consumer_list, mem, has_buffer, ring_open, capture_enabled,
                   probes, files, op, gp>>

-----------------------------------------------------------------------------
OpSteps ==
    \/ FreeConsumer \/ OpenLink \/ OpenRefused \/ OpenRing
    \/ RegisterKprobes \/ Register \/ RegisterFails \/ Unwind \/ OpenFails
    \/ StopBegin \/ Unregister \/ SynchronizeUnregister \/ StopEnd
    \/ RegisterFault \/ RegisterFaultFails

Next ==
    \/ OpSteps
    \/ \E t \in Tasks, c \in CPUs :
           \/ OpenAlloc(t, c) \/ OpenFound(t, c) \/ Release(t, c)
           \/ IoctlCapture(t, c) \/ IoctlSignalDeliver(t, c)
           \/ IoctlPageFaults(t, c) \/ ProbeLeave(c, t)
    \/ \E c \in CPUs : ProbeStart(c) \/ ProbeEnd(c)
    \/ \E c \in CPUs, up \in BOOLEAN : CpuCallback(c, up)

Spec == Init /\ [][Next]_vars

\* A system call that holds the mutex is scheduled, and a probe leaves its RCU
\* read section; neither sleeps on anything but the grace period.
Fairness ==
    /\ WF_vars(OpSteps)
    /\ \A c \in CPUs : WF_vars(ProbeEnd(c) \/ \E t \in Tasks : ProbeLeave(c, t))

FairSpec == Spec /\ Fairness
-----------------------------------------------------------------------------
\* A probe, the hotplug callback and whoever looks up the list only ever reach
\* consumers that are allocated: check_remove_consumer waits for the readers
\* of g_consumer_list before it frees.  (Fails when Hotplug and FailAt are
\* combined: an open that finds a consumer left linked by a refused open, and
\* then fails to register, has in_list FALSE and frees it without unlinking.)
NoUseAfterFree ==
    \A t \in g_consumer_list \cup UNION {walk[c] : c \in CPUs} : mem[t] = "alloc"

\* ppm_release and ppm_ioctl never meet "unknown consumer" or an unopened
\* device: the consumer of an open file is linked, and the file's ring is open
\* and has memory behind it.
FileHasRing ==
    \A f \in files : /\ f[1] \in g_consumer_list
                     /\ f[2] \in ring_open[f[1]] \cap has_buffer[f[1]]


\* While some device is open, events are collected: closing or failing to open
\* another one does not unregister the tracepoints (signal_deliver excepted,
\* which an ioctl controls).
OpenMeansCollecting ==
    files # {} => /\ g_tracepoint_registered
                  /\ Tracepoints \ {signal_deliver} \subseteq tps

\* ppm_release's ASSERT(false): when the last consumer goes, the tracepoints
\* are registered.
StopAssert ==
    op.step = "stop" /\ g_consumer_list = {} => g_tracepoint_registered

\* When the last consumer is gone, everything ppm_open and the page fault ioctl
\* attached is detached again, and the flags that would keep a later open from
\* attaching it are clear.
NothingLeftBehind ==
    op = NoOp /\ g_consumer_list = {} =>
        /\ tps = {}
        /\ ~g_tracepoint_registered /\ ~g_fault_tracepoint_registered

\* A failed or finished ppm_open leaves no tracepoint behind that
\* g_tracepoint_registered does not know of; one left behind would make every
\* later registration fail with EEXIST.  Likewise for page faults and their flag.
\* (Fails for net_dev_xmit, position 6: err_net_dev_xmit unregisters
\* net_dev_xmit and not signal_deliver.)
UnwindComplete ==
    /\ op.step \notin {"register", "unwind"} /\ ~g_tracepoint_registered => tps = {}
    /\ op = NoOp /\ ~g_fault_tracepoint_registered =>
           tps \cap {page_fault_user, page_fault_kernel} = {}

\* g_consumer_mutex is always released: a grace period ends although probes
\* keep starting.
MutexReleased == op # NoOp ~> op = NoOp

\* "The last closed device stops event collection" (ppm_release).
CollectionStops == op = NoOp /\ files = {} => tps = {}
=============================================================================
