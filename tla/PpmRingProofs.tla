---------------------------- MODULE PpmRingProofs ----------------------------
(***************************************************************************)
(* Proofs about PpmRing, for every ring size, cushion, set of event sizes, *)
(* number of events and number of openings, whether or not a reset of the  *)
(* ring may meet a probe inside it.                                        *)
(***************************************************************************)
EXTENDS PpmRing, TLAPS

USE DEF Ctx

\* What get_buf_pointers and record_event_consumer compute from the same head
\* and tail adds up: one byte of the ring always stays unused.
LEMMA SpaceSum ==
    ASSUME NEW h \in 0 .. RING_BUF_SIZE - 1, NEW t \in 0 .. RING_BUF_SIZE - 1
    PROVE  /\ Freespace(h, t) \in 0 .. RING_BUF_SIZE - 1
           /\ ReadSize(h, t) \in 0 .. RING_BUF_SIZE - 1
           /\ Freespace(h, t) + ReadSize(h, t) = RING_BUF_SIZE - 1
           /\ DeltaFromEnd(h) \in CUSHION .. RING_BUF_SIZE + CUSHION - 1
BY RingAssumption DEF Freespace, ReadSize, DeltaFromEnd

\* Moving head by at most the free space keeps it in the ring, and what is
\* unread grows by exactly what was recorded.
LEMMA HeadAdvance ==
    ASSUME NEW h \in 0 .. RING_BUF_SIZE - 1, NEW t \in 0 .. RING_BUF_SIZE - 1,
           NEW n \in Nat, n <= Freespace(h, t), NEW g,
           g = IF h + n >= RING_BUF_SIZE THEN h + n - RING_BUF_SIZE ELSE h + n
    PROVE  /\ g \in 0 .. RING_BUF_SIZE - 1
           /\ ReadSize(g, t) = ReadSize(h, t) + n
<1>1. CASE t > h
  <2>1. g = h + n /\ g < t
    BY <1>1, RingAssumption DEF Freespace
  <2> QED
    BY <1>1, <2>1, RingAssumption DEF ReadSize
<1>2. CASE ~(t > h) /\ h + n >= RING_BUF_SIZE
  <2>1. g = h + n - RING_BUF_SIZE /\ g >= 0 /\ g < t
    BY <1>2, RingAssumption DEF Freespace
  <2> QED
    BY <1>2, <2>1, RingAssumption DEF ReadSize
<1>3. CASE ~(t > h) /\ ~(h + n >= RING_BUF_SIZE)
  <2>1. g = h + n /\ g < RING_BUF_SIZE /\ ~(t > g)
    BY <1>3, RingAssumption
  <2> QED
    BY <1>3, <2>1, RingAssumption DEF ReadSize
<1> QED
  BY <1>1, <1>2, <1>3

\* The reset_ring_buffer state satisfies the invariant.
LEMMA InitInv == Init => RingInv
<1> SUFFICES ASSUME Init PROVE RingInv
  OBVIOUS
<1>1. TypeOK
  <2>1. RingType
    BY RingAssumption DEF Init, RingType, Junk
  <2>2. CounterType
    BY DEF Init, CounterType
  <2>3. LocalType
    BY DEF Init, LocalType, PCs
  <2>4. ReaderType
    BY RingAssumption DEF Init, ReaderType, NoEvent
  <2>5. HistoryType
    BY DEF Init, HistoryType
  <2>6. DeviceType
    BY DEF Init, DeviceType
  <2> QED
    BY <2>1, <2>2, <2>3, <2>4, <2>5, <2>6 DEF TypeOK
<1>2. GateExclusive
  BY DEF Init, GateExclusive, Counted, InGate
<1>3. \A c \in Ctx : HolderInv(c)
  BY DEF Init, HolderInv
<1>4. ReaderInv
  BY RingAssumption DEF Init, ReaderInv, ReadSize
<1> QED
  BY <1>1, <1>2, <1>3, <1>4 DEF RingInv

\* A step that moves one activation from one program point to another keeps
\* the others where they are.
LEMMA GotoType ==
    ASSUME LocalType, NEW c \in Ctx, NEW l \in PCs, Goto(c, l)
    PROVE  /\ pc' \in [Ctx -> PCs]
           /\ pc'[c] = l
           /\ \A d \in Ctx : d # c => pc'[d] = pc[d]
BY DEF LocalType, Goto

\* Steps outside the gate that leave preempt_count alone.
LEMMA GateUnchanged ==
    ASSUME LocalType, GateExclusive, NEW c \in Ctx, NEW l \in PCs, Goto(c, l),
           pc[c] \in InGate <=> l \in InGate,
           pc[c] = "bounce" <=> l = "bounce",
           preempt_count' = preempt_count
    PROVE  GateExclusive'
<1>1. \A d \in Ctx : pc'[d] \in InGate <=> pc[d] \in InGate
  BY GotoType
<1>2. \A d \in Ctx : pc'[d] = "bounce" <=> pc[d] = "bounce"
  BY GotoType
<1>3. \A d \in Ctx : Counted(d)' = Counted(d)
  BY <1>1, <1>2 DEF Counted
<1> QED
  BY <1>1, <1>3 DEF GateExclusive


\* The address the reader parses next lies in its doubled mapping, and what it
\* finds there is a byte of the ring.
LEMMA HeldAddress ==
    ASSUME RingInv, rpc = "idle", m_sn_len > 0
    PROVE  /\ m_sn_next_event = tail + (m_lastreadsize - m_sn_len)
           /\ Mirror(m_sn_next_event) \in 0 .. RING_BUF_SIZE - 1
           /\ At(m_sn_next_event)[1] \in Nat
           /\ At(m_sn_next_event)[3] \in Nat
<1>1. head \in 0 .. RING_BUF_SIZE - 1 /\ tail \in 0 .. RING_BUF_SIZE - 1
  BY DEF RingInv, TypeOK, RingType
<1>2. m_sn_len \in Nat /\ m_lastreadsize \in Nat
  BY DEF RingInv, TypeOK, ReaderType
<1>3. /\ m_sn_len <= m_lastreadsize
      /\ m_lastreadsize <= ReadSize(head, tail)
  BY DEF RingInv, ReaderInv
<1>4. m_sn_next_event = tail + (m_lastreadsize - m_sn_len)
  BY <1>2, <1>3 DEF RingInv, ReaderInv
<1>5. Mirror(m_sn_next_event) \in 0 .. RING_BUF_SIZE - 1
  BY <1>1, <1>2, <1>3, <1>4, RingAssumption DEF Mirror, ReadSize
<1>6. At(m_sn_next_event) \in Nat \X Nat \X Nat
  <2>1. buffer \in [0 .. RING_BUF_SIZE + CUSHION - 1 -> Nat \X Nat \X Nat]
    BY DEF RingInv, TypeOK, RingType
  <2>2. Mirror(m_sn_next_event) \in 0 .. RING_BUF_SIZE + CUSHION - 1
    BY <1>5, RingAssumption
  <2> QED
    BY <2>1, <2>2 DEF At
<1> QED
  BY <1>4, <1>5, <1>6

\* Publishing keeps head in the ring and takes no unread byte away, also when the
\* ring was reset under the activation that publishes.
LEMMA PublishMoves ==
    ASSUME RingInv, NEW c \in Ctx, Publish(c)
    PROVE  /\ head' \in 0 .. RING_BUF_SIZE - 1
           /\ ReadSize(head, tail) \in Nat /\ ReadSize(head', tail) \in Nat
           /\ ReadSize(head, tail) <= ReadSize(head', tail)
<1>i. head \in 0 .. RING_BUF_SIZE - 1 /\ tail \in 0 .. RING_BUF_SIZE - 1
  BY DEF RingInv, TypeOK, RingType
<1>l. /\ l_head[c] \in Nat /\ l_room[c] \in Nat /\ l_size[c] \in Nat
  BY DEF RingInv, TypeOK, LocalType
<1>1. HolderInv(c) /\ pc[c] = "publish"
  BY DEF Publish, RingInv
<1>2. /\ l_head[c] < RING_BUF_SIZE /\ l_room[c] < RING_BUF_SIZE
      /\ l_size[c] \in 1 .. l_room[c]
      /\ \/ l_head[c] = head /\ l_room[c] <= Freespace(head, tail)
         \/ head = tail
  BY <1>1 DEF HolderInv
<1>3. head' = IF l_head[c] + l_size[c] >= RING_BUF_SIZE
              THEN l_head[c] + l_size[c] - RING_BUF_SIZE ELSE l_head[c] + l_size[c]
  BY <1>l, RingAssumption DEF Publish
<1>4. l_size[c] <= l_room[c] /\ Freespace(head, tail) \in Int
  BY <1>2, <1>l, <1>i, SpaceSum
<1>5. head' \in 0 .. RING_BUF_SIZE - 1
  BY <1>2, <1>3, <1>4, <1>l, RingAssumption
<1>6. ReadSize(head, tail) \in Nat /\ ReadSize(head', tail) \in Nat
  BY <1>i, <1>5, SpaceSum
<1>7. CASE l_head[c] = head /\ l_room[c] <= Freespace(head, tail)
  <2>1. l_size[c] <= Freespace(head, tail)
    BY <1>4, <1>7, <1>l
  <2>2. ReadSize(head', tail) = ReadSize(head, tail) + l_size[c]
    BY <1>3, <1>7, <1>i, <1>l, <2>1, HeadAdvance
  <2> QED
    BY <1>5, <1>6, <1>l, <2>2
<1>8. CASE head = tail
  <2>1. ReadSize(head, tail) = 0
    BY <1>8, <1>i DEF ReadSize
  <2> QED
    BY <1>5, <1>6, <2>1
<1> QED
  BY <1>2, <1>7, <1>8

\* One step of Next preserves every part of the type invariant.
LEMMA TypeStep == RingInv /\ [Next]_vars => TypeOK'
<1> SUFFICES ASSUME RingInv, [Next]_vars PROVE TypeOK'
  OBVIOUS
<1>r. RingType
  BY DEF RingInv, TypeOK
<1>c. CounterType
  BY DEF RingInv, TypeOK
<1>l. LocalType
  BY DEF RingInv, TypeOK
<1>d. ReaderType
  BY DEF RingInv, TypeOK
<1>s. HistoryType
  BY DEF RingInv, TypeOK
<1>b. DeviceType
  BY DEF RingInv, TypeOK
<1>g. GateExclusive /\ LocalType
  BY DEF RingInv, TypeOK
<1>h. \A c \in Ctx : HolderInv(c)
  BY DEF RingInv
<1>e. ReaderInv
  BY DEF RingInv
<1>i. head \in 0 .. RING_BUF_SIZE - 1 /\ tail \in 0 .. RING_BUF_SIZE - 1
  BY <1>r DEF RingType
<1>1. ASSUME NEW b \in BOOLEAN, SetCapture(b) PROVE TypeOK'
  <2>1. RingType' /\ CounterType' /\ LocalType' /\ ReaderType' /\ HistoryType'
    BY <1>1, <1>r, <1>c, <1>l, <1>d, <1>s
    DEF SetCapture, info, locals, reader, producer,
        RingType, CounterType, LocalType, ReaderType, HistoryType
  <2>2. DeviceType'
    BY <1>1, <1>b DEF SetCapture, producer, device, DeviceType
  <2> QED
    BY <2>1, <2>2 DEF TypeOK
<1>2. ASSUME NEW c \in Ctx, Enter(c) PROVE TypeOK'
  <2>1. CounterType'
    BY <1>2, <1>c DEF Enter, Goto, info, locals, CounterType
  <2>2. LocalType'
    BY <1>2, <1>c, <1>l DEF Enter, Goto, LocalType, CounterType, PCs
  <2>3. RingType' /\ ReaderType' /\ HistoryType'
    BY <1>2, <1>r, <1>d, <1>s
    DEF Enter, info, locals, reader, producer,
        RingType, ReaderType, HistoryType
  <2>4. DeviceType'
    BY <1>2, <1>b DEF Enter, producer, device, DeviceType
  <2> QED
    BY <2>1, <2>2, <2>3, <2>4 DEF TypeOK
<1>3. ASSUME NEW c \in Ctx, CountEvent(c) PROVE TypeOK'
  <2>1. CounterType'
    BY <1>3, <1>c, <1>l DEF CountEvent, CounterType, LocalType
  <2>2. LocalType'
    BY <1>3, <1>l DEF CountEvent, Goto, info, locals, LocalType, PCs, InGate
  <2>3. RingType' /\ ReaderType' /\ HistoryType'
    BY <1>3, <1>r, <1>d, <1>s
    DEF CountEvent, info, locals, reader, producer,
        RingType, ReaderType, HistoryType
  <2>4. DeviceType'
    BY <1>3, <1>b DEF CountEvent, producer, device, DeviceType
  <2> QED
    BY <2>1, <2>2, <2>3, <2>4 DEF TypeOK
<1>4. ASSUME NEW c \in Ctx, Gate(c) PROVE TypeOK'
  <2>1. RingType'
    <3>1. preempt_count \in 0 .. 2
      BY <1>4, <1>g DEF Gate, GateExclusive, Counted, InGate
    <3> QED
      BY <1>4, <1>r, <3>1 DEF Gate, RingType
  <2>2. LocalType'
    BY <1>4, <1>l DEF Gate, Goto, info, locals, LocalType, PCs, InGate
  <2>3. CounterType' /\ ReaderType' /\ HistoryType'
    BY <1>4, <1>c, <1>d, <1>s
    DEF Gate, info, locals, reader, producer,
        CounterType, ReaderType, HistoryType
  <2>4. DeviceType'
    BY <1>4, <1>b DEF Gate, producer, device, DeviceType
  <2> QED
    BY <2>1, <2>2, <2>3, <2>4 DEF TypeOK
<1>5. ASSUME NEW c \in Ctx, Bounce(c) PROVE TypeOK'
  <2>1. RingType'
    <3>1. preempt_count \in 1 .. 3
      BY <1>5, <1>g DEF Bounce, GateExclusive, Counted, InGate
    <3> QED
      BY <1>5, <1>r, <3>1 DEF Bounce, RingType
  <2>2. CounterType'
    BY <1>5, <1>c DEF Bounce, Goto, info, locals, CounterType
  <2>3. LocalType'
    BY <1>5, <1>l DEF Bounce, Goto, info, locals, LocalType, PCs, InGate
  <2>4. ReaderType' /\ HistoryType'
    BY <1>5, <1>d, <1>s
    DEF Bounce, info, locals, reader, producer,
        ReaderType, HistoryType
  <2>5. DeviceType'
    BY <1>5, <1>b DEF Bounce, producer, device, DeviceType
  <2> QED
    BY <2>1, <2>2, <2>3, <2>4, <2>5 DEF TypeOK
<1>6. ASSUME NEW c \in Ctx, ComputeSpace(c) PROVE TypeOK'
  <2>1. LocalType'
    <3>1. Min2(Freespace(head, tail), DeltaFromEnd(head)) \in Nat
      BY <1>i, RingAssumption DEF Freespace, DeltaFromEnd, Min2
    <3> QED
      BY <1>6, <1>l, <1>i, <3>1 DEF ComputeSpace, Goto, LocalType, PCs, InGate
  <2>2. RingType' /\ CounterType' /\ ReaderType' /\ HistoryType'
    BY <1>6, <1>r, <1>c, <1>d, <1>s
    DEF ComputeSpace, info, locals, reader, producer,
        RingType, CounterType, ReaderType, HistoryType
  <2>3. DeviceType'
    BY <1>6, <1>b DEF ComputeSpace, producer, device, DeviceType
  <2> QED
    BY <2>1, <2>2, <2>3 DEF TypeOK
<1>7. ASSUME NEW c \in Ctx, NEW s \in EvtSizes, FillSuccess(c, s) PROVE TypeOK'
  <2>1. RingType'
    <3>1. s \in Nat /\ l_head[c] \in Nat /\ Len(committed) + 1 \in Nat
      BY <1>l, <1>s, RingAssumption DEF LocalType, HistoryType
    <3>2. \A i \in l_head[c] .. l_head[c] + s - 1 :
              Byte(Len(committed) + 1, i - l_head[c], s) \in Nat \X Nat \X Nat
      BY <3>1 DEF Byte
    <3> QED
      BY <1>7, <1>r, <3>2 DEF FillSuccess, RingType
  <2>2. LocalType'
    BY <1>7, <1>l, RingAssumption DEF FillSuccess, Goto, LocalType, PCs, InGate
  <2>3. CounterType' /\ ReaderType' /\ HistoryType'
    BY <1>7, <1>c, <1>d, <1>s
    DEF FillSuccess, info, locals, reader, producer,
        CounterType, ReaderType, HistoryType
  <2>4. DeviceType'
    BY <1>7, <1>b DEF FillSuccess, producer, device, DeviceType
  <2> QED
    BY <2>1, <2>2, <2>3, <2>4 DEF TypeOK
<1>8. ASSUME NEW c \in Ctx, NEW l \in {"drop_buffer", "drop_pf", "drop_bug"}, FillFailure(c, l) PROVE TypeOK'
  <2>1. RingType'
    BY <1>8, <1>r DEF FillFailure, RingType, Junk
  <2>2. LocalType'
    BY <1>8, <1>l DEF FillFailure, Goto, info, locals, LocalType, PCs, InGate
  <2>3. CounterType' /\ ReaderType' /\ HistoryType'
    BY <1>8, <1>c, <1>d, <1>s
    DEF FillFailure, info, locals, reader, producer,
        CounterType, ReaderType, HistoryType
  <2>4. DeviceType'
    BY <1>8, <1>b DEF FillFailure, producer, device, DeviceType
  <2> QED
    BY <2>1, <2>2, <2>3, <2>4 DEF TypeOK
<1>9. ASSUME NEW c \in Ctx, Wrap(c) PROVE TypeOK'
  <2>1. RingType'
    <3>1. l_head[c] + l_size[c] <= RING_BUF_SIZE + CUSHION - 1
      <4>1. HolderInv(c) /\ pc[c] = "wrap"
        BY <1>9, <1>h DEF Wrap
      <4>2. /\ l_head[c] < RING_BUF_SIZE /\ l_room[c] <= DeltaFromEnd(l_head[c])
            /\ l_size[c] \in 1 .. l_room[c]
        BY <4>1 DEF HolderInv
      <4> QED
        BY <4>2, <1>l, RingAssumption DEF DeltaFromEnd, LocalType
    <3> DEFINE next == l_head[c] + l_size[c]
               off == 0 .. RING_BUF_SIZE + CUSHION - 1
    <3>2. next \in Nat
      BY <1>l DEF LocalType
    <3>3. \A i \in off : i < next - RING_BUF_SIZE => RING_BUF_SIZE + i \in off
      BY <3>1, <3>2, RingAssumption
    <3>4. buffer \in [off -> Nat \X Nat \X Nat]
      BY <1>r DEF RingType
    <3>5. buffer' = [i \in off |-> IF i < next - RING_BUF_SIZE
                                   THEN buffer[RING_BUF_SIZE + i] ELSE buffer[i]]
      BY <1>9, <3>4 DEF Wrap
    <3> HIDE DEF next, off
    <3>6. buffer' \in [off -> Nat \X Nat \X Nat]
      BY <3>3, <3>4, <3>5
    <3> QED
      BY <1>9, <1>r, <3>6 DEF Wrap, RingType, off
  <2>2. LocalType'
    BY <1>9, <1>l DEF Wrap, Goto, info, locals, LocalType, PCs, InGate
  <2>3. CounterType' /\ ReaderType' /\ HistoryType'
    BY <1>9, <1>c, <1>d, <1>s
    DEF Wrap, info, locals, reader, producer,
        CounterType, ReaderType, HistoryType
  <2>4. DeviceType'
    BY <1>9, <1>b DEF Wrap, producer, device, DeviceType
  <2> QED
    BY <2>1, <2>2, <2>3, <2>4 DEF TypeOK
<1>10. ASSUME NEW c \in Ctx, Publish(c) PROVE TypeOK'
  <2>1. RingType'
    <3>1. head' \in 0 .. RING_BUF_SIZE - 1
      BY <1>10, PublishMoves
    <3> QED
      BY <1>10, <1>r, <3>1 DEF Publish, RingType
  <2>2. CounterType'
    BY <1>10, <1>c DEF Publish, Goto, info, locals, CounterType
  <2>3. LocalType'
    BY <1>10, <1>l DEF Publish, Goto, info, locals, LocalType, PCs, InGate
  <2>4. HistoryType'
    <3>1. [id |-> Len(committed) + 1, len |-> l_size[c]] \in EvtType
      BY <1>s, <1>l DEF EvtType, HistoryType, LocalType
    <3> QED
      BY <1>10, <1>s, <3>1 DEF Publish, HistoryType, reader
  <2>5. ReaderType'
    BY <1>10, <1>d
    DEF Publish, info, locals, reader, producer,
        ReaderType
  <2>6. DeviceType'
    BY <1>10, <1>b DEF Publish, producer, device, DeviceType
  <2> QED
    BY <2>1, <2>2, <2>3, <2>4, <2>5, <2>6 DEF TypeOK
<1>11. ASSUME NEW c \in Ctx, Drop(c) PROVE TypeOK'
  <2>1. CounterType'
    BY <1>11, <1>c DEF Drop, Goto, info, locals, CounterType
  <2>2. LocalType'
    BY <1>11, <1>l DEF Drop, Goto, info, locals, LocalType, PCs, InGate
  <2>3. RingType' /\ ReaderType' /\ HistoryType'
    BY <1>11, <1>r, <1>d, <1>s
    DEF Drop, info, locals, reader, producer,
        RingType, ReaderType, HistoryType
  <2>4. DeviceType'
    BY <1>11, <1>b DEF Drop, producer, device, DeviceType
  <2> QED
    BY <2>1, <2>2, <2>3, <2>4 DEF TypeOK
<1>12. ASSUME NEW c \in Ctx, Leave(c) PROVE TypeOK'
  <2>1. RingType'
    <3>1. preempt_count \in 1 .. 3
      BY <1>12, <1>g DEF Leave, GateExclusive, Counted, InGate
    <3> QED
      BY <1>12, <1>r, <3>1 DEF Leave, RingType
  <2>2. LocalType'
    BY <1>12, <1>l DEF Leave, Goto, info, locals, LocalType, PCs, InGate
  <2>3. CounterType' /\ ReaderType' /\ HistoryType'
    BY <1>12, <1>c, <1>d, <1>s
    DEF Leave, info, locals, reader, producer,
        CounterType, ReaderType, HistoryType
  <2>4. DeviceType'
    BY <1>12, <1>b DEF Leave, producer, device, DeviceType
  <2> QED
    BY <2>1, <2>2, <2>3, <2>4 DEF TypeOK
<1>13. ASSUME NextEvent PROVE TypeOK'
  <2>1. ReaderType'
    <3>1. At(m_sn_next_event)[1] \in Nat /\ At(m_sn_next_event)[3] \in Nat
      BY <1>13, HeldAddress DEF NextEvent
    <3>2. CASE At(m_sn_next_event)[3] > m_sn_len
      BY <1>13, <1>d, <3>2 DEF NextEvent, ReaderType
    <3>3. CASE ~(At(m_sn_next_event)[3] > m_sn_len)
      <4>1. m_sn_next_event + m_sn_len \in 0 .. 2 * RING_BUF_SIZE
        <5>1. m_sn_next_event = tail + (m_lastreadsize - m_sn_len)
          BY <1>13, HeldAddress DEF NextEvent
        <5> QED
          BY <5>1, <1>d, <1>e, <1>i, RingAssumption
          DEF ReaderType, ReaderInv, ReadSize
      <4>2. /\ m_sn_len' = m_sn_len - At(m_sn_next_event)[3]
            /\ m_sn_next_event' = m_sn_next_event + At(m_sn_next_event)[3]
            /\ rpc' = rpc /\ m_lastreadsize' = m_lastreadsize
        BY <1>13, <3>3 DEF NextEvent
      <4>3. pevent' \in [addr : Nat, id : Nat, len : Nat]
        <5>1. pevent' = [addr |-> m_sn_next_event, id |-> At(m_sn_next_event)[1],
                         len |-> At(m_sn_next_event)[3]]
          BY <1>13, <3>3 DEF NextEvent
        <5> QED
          BY <5>1, <1>d, <3>1 DEF ReaderType
      <4>4. m_sn_len' \in Nat /\ m_sn_next_event' \in 0 .. 2 * RING_BUF_SIZE
        BY <1>d, <3>1, <3>3, <4>1, <4>2, RingAssumption DEF ReaderType
      <4> QED
        BY <1>d, <4>2, <4>3, <4>4 DEF ReaderType
    <3> QED
      BY <3>2, <3>3
  <2>2. HistoryType'
    <3>1. [id |-> At(m_sn_next_event)[1], len |-> At(m_sn_next_event)[3]] \in EvtType
      BY <1>13, HeldAddress DEF NextEvent, EvtType
    <3>2. delivered' \in {delivered, Append(delivered,
              [id |-> At(m_sn_next_event)[1], len |-> At(m_sn_next_event)[3]])}
      BY <1>13 DEF NextEvent
    <3>3. committed' = committed
      BY <1>13 DEF NextEvent, producer
    <3> QED
      BY <1>s, <3>1, <3>2, <3>3 DEF HistoryType
  <2>3. RingType' /\ CounterType' /\ LocalType'
    BY <1>13, <1>r, <1>c, <1>l
    DEF NextEvent, info, locals, reader, producer,
        RingType, CounterType, LocalType
  <2>4. DeviceType'
    BY <1>13, <1>b DEF NextEvent, producer, device, DeviceType
  <2> QED
    BY <2>1, <2>2, <2>3, <2>4 DEF TypeOK
<1>14. ASSUME AdvanceTail PROVE TypeOK'
  <2>1. RingType'
    <3>1. tail' \in 0 .. RING_BUF_SIZE - 1
      BY <1>14, <1>i, <1>d, <1>e, RingAssumption
      DEF AdvanceTail, ReaderType, ReaderInv, ReadSize
    <3> QED
      BY <1>14, <1>r, <3>1 DEF AdvanceTail, producer, RingType
  <2>2. ReaderType'
    BY <1>14, <1>d DEF AdvanceTail, NoEvent, ReaderType
  <2>3. CounterType' /\ LocalType' /\ HistoryType'
    BY <1>14, <1>c, <1>l, <1>s
    DEF AdvanceTail, info, locals, reader, producer,
        CounterType, LocalType, HistoryType
  <2>4. DeviceType'
    BY <1>14, <1>b DEF AdvanceTail, producer, device, DeviceType
  <2> QED
    BY <2>1, <2>2, <2>3, <2>4 DEF TypeOK
<1>15. ASSUME Refill PROVE TypeOK'
  <2>1. ReaderType'
    <3>1. ReadSize(head, tail) \in Nat
      BY <1>i, SpaceSum
    <3> QED
      BY <1>15, <1>d, <1>i, <3>1, RingAssumption DEF Refill, ReaderType
  <2>2. RingType' /\ CounterType' /\ LocalType' /\ HistoryType'
    BY <1>15, <1>r, <1>c, <1>l, <1>s
    DEF Refill, info, locals, reader, producer,
        RingType, CounterType, LocalType, HistoryType
  <2>3. DeviceType'
    BY <1>15, <1>b DEF Refill, producer, device, DeviceType
  <2> QED
    BY <2>1, <2>2, <2>3 DEF TypeOK
<1>16. ASSUME UNCHANGED vars PROVE TypeOK'
  <2>1. RingType' /\ CounterType' /\ LocalType' /\ ReaderType' /\ HistoryType'
    BY <1>16, <1>r, <1>c, <1>l, <1>d, <1>s
    DEF vars, info, locals, reader, producer,
        RingType, CounterType, LocalType, ReaderType, HistoryType
  <2>2. DeviceType'
    BY <1>16, <1>b DEF vars, producer, device, DeviceType
  <2> QED
    BY <2>1, <2>2 DEF TypeOK
<1>17. ASSUME Release PROVE TypeOK'
  <2>1. ReaderType'
    BY <1>17, RingAssumption DEF Release, NoEvent, ReaderType
  <2>2. RingType' /\ CounterType' /\ LocalType' /\ HistoryType'
    BY <1>17, <1>r, <1>c, <1>l, <1>s
    DEF Release, info, locals, RingType, CounterType, LocalType, HistoryType
  <2>3. DeviceType'
    BY <1>17, <1>b DEF Release, DeviceType
  <2> QED
    BY <2>1, <2>2, <2>3 DEF TypeOK
<1>18. ASSUME Reopen PROVE TypeOK'
  <2>1. RingType'
    BY <1>18, <1>r, RingAssumption DEF Reopen, RingType
  <2>2. CounterType'
    BY <1>18 DEF Reopen, CounterType, Unsettled, InProgress
  <2>3. LocalType' /\ ReaderType'
    BY <1>18, <1>l, <1>d DEF Reopen, locals, LocalType, ReaderType
  <2>4. HistoryType'
    BY <1>18, <1>s DEF Reopen, HistoryType
  <2>5. DeviceType'
    BY <1>18, <1>b DEF Reopen, DeviceType
  <2> QED
    BY <2>1, <2>2, <2>3, <2>4, <2>5 DEF TypeOK
<1> QED
  BY <1>1, <1>2, <1>3, <1>4, <1>5, <1>6, <1>7, <1>8, <1>9, <1>10, <1>11, <1>12,
     <1>13, <1>14, <1>15, <1>16, <1>17, <1>18
  DEF Next, RecordEvent, ScapNext

\* One step of Next preserves the exclusion of the preemption gate.
LEMMA GateStep == RingInv /\ [Next]_vars => GateExclusive'
<1> SUFFICES ASSUME RingInv, [Next]_vars PROVE GateExclusive'
  OBVIOUS
<1>t. LocalType /\ GateExclusive
  BY DEF RingInv, TypeOK
<1>1. ASSUME NEW b \in BOOLEAN, SetCapture(b) PROVE GateExclusive'
  BY <1>t, <1>1 DEF SetCapture, GateExclusive, Counted
<1>2. ASSUME NEW c \in Ctx, Enter(c) \/ CountEvent(c) PROVE GateExclusive'
  BY <1>t, <1>2, GateUnchanged DEF Enter, CanEnter, CountEvent, PCs, InGate
<1>3. ASSUME NEW c \in Ctx, Gate(c) PROVE GateExclusive'
  <2>1. CASE preempt_count = 0
    <3>1. \A d \in Ctx : pc[d] \notin InGate /\ Counted(d) = 0
      BY <1>t, <2>1 DEF GateExclusive, Counted
    <3>2. /\ pc'[c] = "space"
          /\ \A d \in Ctx : d # c => pc'[d] = pc[d]
          /\ preempt_count' = 1
      BY <1>3, <1>t, <2>1, GotoType DEF Gate, PCs, InGate
    <3> QED
      BY <3>1, <3>2 DEF GateExclusive, Counted, InGate
  <2>2. CASE preempt_count # 0
    <3>1. /\ pc[c] = "gate" /\ pc'[c] = "bounce"
          /\ \A d \in Ctx : d # c => pc'[d] = pc[d]
          /\ preempt_count' = preempt_count + 1
      BY <1>3, <1>t, <2>2, GotoType DEF Gate, PCs, InGate, RingInv, TypeOK, RingType
    <3> QED
      BY <1>t, <3>1 DEF GateExclusive, Counted, InGate
  <2> QED
    BY <2>1, <2>2
<1>4. ASSUME NEW c \in Ctx, Bounce(c) \/ Leave(c) PROVE GateExclusive'
  <2>1. /\ pc[c] \in {"bounce", "leave"} /\ pc'[c] = "idle"
        /\ \A d \in Ctx : d # c => pc'[d] = pc[d]
        /\ preempt_count' = preempt_count - 1
    BY <1>4, <1>t, GotoType DEF Bounce, Leave, PCs
  <2> QED
    BY <1>t, <2>1 DEF GateExclusive, Counted, InGate
<1>5. ASSUME NEW c \in Ctx, ComputeSpace(c) PROVE GateExclusive'
  BY <1>t, <1>5, GateUnchanged DEF ComputeSpace, PCs, InGate
<1>6. ASSUME NEW c \in Ctx, NEW s \in EvtSizes, FillSuccess(c, s) PROVE GateExclusive'
  BY <1>t, <1>6, GateUnchanged DEF FillSuccess, PCs, InGate
<1>7. ASSUME NEW c \in Ctx, NEW l \in {"drop_buffer", "drop_pf", "drop_bug"},
             FillFailure(c, l)
      PROVE  GateExclusive'
  BY <1>t, <1>7, GateUnchanged DEF FillFailure, PCs, InGate
<1>8. ASSUME NEW c \in Ctx, Wrap(c) \/ Publish(c) \/ Drop(c) PROVE GateExclusive'
  BY <1>t, <1>8, GateUnchanged DEF Wrap, Publish, Drop, PCs, InGate
<1>9. ASSUME ScapNext \/ UNCHANGED vars PROVE GateExclusive'
  BY <1>t, <1>9 DEF ScapNext, NextEvent, AdvanceTail, Refill, producer, vars,
                    GateExclusive, Counted
<1>10. ASSUME Release \/ Reopen PROVE GateExclusive'
  BY <1>t, <1>10 DEF Release, Reopen, GateExclusive, Counted
<1> QED
  BY <1>1, <1>2, <1>3, <1>4, <1>5, <1>6, <1>7, <1>8, <1>9, <1>10
  DEF Next, RecordEvent

\* One step of Next preserves what the activation inside the gate relies on.
LEMMA HolderStep == RingInv /\ [Next]_vars => \A d \in Ctx : HolderInv(d)'
<1> SUFFICES ASSUME RingInv, [Next]_vars, NEW d \in Ctx PROVE HolderInv(d)'
  OBVIOUS
<1>t. LocalType /\ GateExclusive /\ HolderInv(d)
  BY DEF RingInv, TypeOK
<1>i. head \in 0 .. RING_BUF_SIZE - 1 /\ tail \in 0 .. RING_BUF_SIZE - 1
  BY DEF RingInv, TypeOK, RingType
<1>1. ASSUME \/ \E b \in BOOLEAN : SetCapture(b)
             \/ NextEvent \/ Refill \/ UNCHANGED vars
      PROVE  HolderInv(d)'
  BY <1>t, <1>1 DEF SetCapture, NextEvent, Refill, producer, vars, locals, HolderInv
<1>2. ASSUME NEW c \in Ctx,
             Enter(c) \/ CountEvent(c) \/ Gate(c) \/ Bounce(c) \/ Drop(c) \/ Leave(c)
      PROVE  HolderInv(d)'
  <2>1. /\ pc'[c] \notin {"fill", "wrap", "publish"}
        /\ d # c => pc'[d] = pc[d]
    <3>1. CASE Enter(c)
      BY <3>1, <1>t, GotoType DEF Enter, PCs, InGate
    <3>2. CASE CountEvent(c)
      BY <3>2, <1>t, GotoType DEF CountEvent, PCs, InGate
    <3>3. CASE Gate(c)
      BY <3>3, <1>t, GotoType DEF Gate, PCs, InGate
    <3>4. CASE Bounce(c)
      BY <3>4, <1>t, GotoType DEF Bounce, PCs, InGate
    <3>5. CASE Drop(c)
      BY <3>5, <1>t, GotoType DEF Drop, PCs, InGate
    <3>6. CASE Leave(c)
      <4>1. pc'[c] = "idle" /\ (d # c => pc'[d] = pc[d])
        BY <3>6, <1>t, GotoType DEF Leave, PCs
      <4> QED
        BY <4>1
    <3> QED
      BY <1>2, <3>1, <3>2, <3>3, <3>4, <3>5, <3>6
  <2>2. /\ head' = head /\ tail' = tail
        /\ d # c => l_head'[d] = l_head[d] /\ l_room'[d] = l_room[d]
                    /\ l_size'[d] = l_size[d]
    BY <1>2, <1>t
    DEF Enter, CountEvent, Gate, Bounce, Drop, Leave, locals, LocalType
  <2> QED
    BY <1>t, <2>1, <2>2 DEF HolderInv
<1>3. ASSUME NEW c \in Ctx, ComputeSpace(c) PROVE HolderInv(d)'
  <2>1. /\ pc'[c] \in {"fill", "drop_buffer"}
        /\ l_head'[c] = head
        /\ l_room'[c] = Min2(Freespace(head, tail), DeltaFromEnd(head))
        /\ d # c => /\ pc'[d] = pc[d] /\ l_head'[d] = l_head[d]
                    /\ l_room'[d] = l_room[d]
        /\ l_size' = l_size /\ head' = head /\ tail' = tail
    BY <1>3, <1>t, GotoType DEF ComputeSpace, LocalType, PCs, InGate
  <2>2. /\ Min2(Freespace(head, tail), DeltaFromEnd(head)) <= Freespace(head, tail)
        /\ Min2(Freespace(head, tail), DeltaFromEnd(head)) <= DeltaFromEnd(head)
        /\ Min2(Freespace(head, tail), DeltaFromEnd(head)) < RING_BUF_SIZE
        /\ head < RING_BUF_SIZE
    BY <1>i, RingAssumption DEF Min2, Freespace, DeltaFromEnd
  <2> QED
    BY <1>t, <2>1, <2>2 DEF HolderInv
<1>4. ASSUME NEW c \in Ctx, NEW s \in EvtSizes, FillSuccess(c, s) PROVE HolderInv(d)'
  <2>1. /\ pc[c] = "fill" /\ pc'[c] = "wrap" /\ l_size'[c] = s /\ s <= l_room[c]
        /\ d # c => pc'[d] = pc[d] /\ l_size'[d] = l_size[d]
        /\ l_head' = l_head /\ l_room' = l_room /\ head' = head /\ tail' = tail
    BY <1>4, <1>t, GotoType DEF FillSuccess, LocalType, PCs, InGate
  <2>2. s \in Nat \ {0} /\ l_room[c] \in Nat
    BY <1>t, RingAssumption DEF LocalType
  <2> QED
    BY <1>t, <2>1, <2>2 DEF HolderInv
<1>5. ASSUME NEW c \in Ctx,
             \/ \E l \in {"drop_buffer", "drop_pf", "drop_bug"} : FillFailure(c, l)
             \/ Wrap(c)
      PROVE  HolderInv(d)'
  <2>1. /\ \/ pc'[c] \notin {"fill", "wrap", "publish"}
           \/ pc[c] = "wrap" /\ pc'[c] = "publish"
        /\ d # c => pc'[d] = pc[d]
        /\ l_head' = l_head /\ l_room' = l_room /\ l_size' = l_size
        /\ head' = head /\ tail' = tail
    BY <1>5, <1>t, GotoType DEF FillFailure, Wrap, locals, PCs, InGate
  <2> QED
    BY <1>t, <2>1 DEF HolderInv
<1>6. ASSUME NEW c \in Ctx, Publish(c) PROVE HolderInv(d)'
  <2>1. pc[c] \in InGate /\ pc'[c] = "leave" /\ (d # c => pc'[d] = pc[d])
    BY <1>6, <1>t, GotoType DEF Publish, PCs, InGate
  <2>2. d # c => pc[d] \notin InGate
    BY <1>t, <2>1 DEF GateExclusive
  <2> QED
    BY <2>1, <2>2 DEF HolderInv, InGate
<1>7. ASSUME AdvanceTail PROVE HolderInv(d)'
  <2>1. /\ head' = head /\ pc' = pc /\ l_head' = l_head /\ l_room' = l_room
        /\ l_size' = l_size
    BY <1>7 DEF AdvanceTail, producer, locals
  <2>2. Freespace(head, tail') >= Freespace(head, tail)
    BY <1>7, <1>i, RingAssumption
    DEF AdvanceTail, RingInv, TypeOK, ReaderType, ReaderInv, ReadSize, Freespace
  <2>3. l_room[d] \in Nat /\ Freespace(head, tail') \in Int /\ Freespace(head, tail) \in Int
    BY <1>7, <1>t, <1>i, RingAssumption
    DEF AdvanceTail, LocalType, Freespace, RingInv, TypeOK, ReaderType
  <2>4. head = tail => tail' = tail
    <3>1. head = tail => m_lastreadsize = 0
      BY <1>i DEF RingInv, TypeOK, ReaderType, ReaderInv, ReadSize
    <3> QED
      BY <1>7, <1>i, <3>1, RingAssumption DEF AdvanceTail
  <2>5. l_room[d] <= Freespace(head, tail) => l_room[d] <= Freespace(head, tail')
    BY <2>2, <2>3
  <2> QED
    BY <1>t, <2>1, <2>4, <2>5 DEF HolderInv
<1>8. ASSUME Release PROVE HolderInv(d)'
  BY <1>8, <1>t DEF Release, locals, HolderInv
<1>9. ASSUME Reopen PROVE HolderInv(d)'
  <2>1. /\ head' = 0 /\ tail' = 0 /\ pc' = pc /\ l_head' = l_head
        /\ l_room' = l_room /\ l_size' = l_size
        /\ Overlap \/ pc[d] \notin InGate
    BY <1>9 DEF Reopen, locals
  <2> QED
    BY <1>t, <2>1 DEF HolderInv, InGate
<1> QED
  BY <1>1, <1>2, <1>3, <1>4, <1>5, <1>6, <1>7, <1>8, <1>9
  DEF Next, RecordEvent, ScapNext

\* One step of Next preserves what the reader relies on.
LEMMA ReaderStep == RingInv /\ [Next]_vars => ReaderInv'
<1> SUFFICES ASSUME RingInv, [Next]_vars PROVE ReaderInv'
  OBVIOUS
<1>t. ReaderInv /\ ReaderType /\ LocalType
  BY DEF RingInv, TypeOK
<1>i. head \in 0 .. RING_BUF_SIZE - 1 /\ tail \in 0 .. RING_BUF_SIZE - 1
  BY DEF RingInv, TypeOK, RingType
<1>1. ASSUME reader' = reader, open' = open, head' = head, tail' = tail
      PROVE  ReaderInv'
  BY <1>t, <1>1 DEF reader, ReaderInv
<1>2. ASSUME NEW c \in Ctx, Publish(c) PROVE ReaderInv'
  <2>1. /\ ReadSize(head, tail) \in Nat /\ ReadSize(head', tail) \in Nat
        /\ ReadSize(head, tail) <= ReadSize(head', tail)
    BY <1>2, PublishMoves
  <2>2. /\ tail' = tail /\ m_lastreadsize' = m_lastreadsize /\ m_sn_len' = m_sn_len
        /\ m_sn_next_event' = m_sn_next_event /\ rpc' = rpc /\ open' = open
    BY <1>2 DEF Publish, reader, device
  <2> QED
    BY <1>t, <2>1, <2>2 DEF ReaderInv, ReaderType
<1>3. ASSUME NextEvent PROVE ReaderInv'
  <2>1. At(m_sn_next_event)[3] \in Nat
    BY <1>3, HeldAddress DEF NextEvent
  <2>2. m_sn_next_event = tail + (m_lastreadsize - m_sn_len)
    BY <1>3, HeldAddress DEF NextEvent
  <2>3. /\ head' = head /\ tail' = tail /\ m_lastreadsize' = m_lastreadsize
        /\ open /\ open'
    BY <1>3 DEF NextEvent, producer, device
  <2>4. CASE At(m_sn_next_event)[3] > m_sn_len
    BY <1>3, <1>t, <2>3, <2>4 DEF NextEvent, ReaderInv, ReaderType
  <2>5. CASE ~(At(m_sn_next_event)[3] > m_sn_len)
    <3>1. /\ m_sn_len' = m_sn_len - At(m_sn_next_event)[3]
          /\ m_sn_next_event' = m_sn_next_event + At(m_sn_next_event)[3]
          /\ rpc' = rpc
      BY <1>3, <2>5 DEF NextEvent
    <3> QED
      BY <1>i, <1>t, <2>1, <2>2, <2>3, <2>5, <3>1 DEF ReaderInv, ReaderType
  <2> QED
    BY <2>4, <2>5
<1>4. ASSUME AdvanceTail PROVE ReaderInv'
  <2>1. /\ m_lastreadsize' = 0 /\ m_sn_len' = 0 /\ head' = head
        /\ rpc' = "refill" /\ open'
    BY <1>4 DEF AdvanceTail, producer, device
  <2>2. tail' \in 0 .. RING_BUF_SIZE - 1
    BY <1>4, <1>i, <1>t, RingAssumption
    DEF AdvanceTail, ReaderType, ReaderInv, ReadSize
  <2>3. 0 <= ReadSize(head, tail')
    <3>1. ReadSize(head, tail') \in 0 .. RING_BUF_SIZE - 1
      BY <1>i, <2>2, SpaceSum
    <3> QED
      BY <3>1
  <2> QED
    BY <2>1, <2>3 DEF ReaderInv
<1>5. ASSUME Refill PROVE ReaderInv'
  <2>1. open /\ open'
    BY <1>5, <1>t DEF Refill, device, ReaderInv
  <2> QED
    BY <1>5, <1>i, <2>1, RingAssumption DEF Refill, producer, ReaderInv, ReadSize
<1>6. ASSUME NEW c \in Ctx,
             \/ Enter(c) \/ CountEvent(c) \/ Gate(c) \/ Bounce(c) \/ ComputeSpace(c)
             \/ \E s \in EvtSizes : FillSuccess(c, s)
             \/ \E l \in {"drop_buffer", "drop_pf", "drop_bug"} : FillFailure(c, l)
             \/ Wrap(c) \/ Drop(c) \/ Leave(c)
      PROVE  reader' = reader /\ open' = open /\ head' = head /\ tail' = tail
  BY <1>6 DEF Enter, CountEvent, Gate, Bounce, ComputeSpace, FillSuccess,
              FillFailure, Wrap, Drop, Leave, reader, device
<1>7. ASSUME (\E b \in BOOLEAN : SetCapture(b)) \/ UNCHANGED vars
      PROVE  reader' = reader /\ open' = open /\ head' = head /\ tail' = tail
  BY <1>7 DEF SetCapture, vars, reader, device
<1>8. ASSUME Release PROVE ReaderInv'
  <2>1. ReadSize(head, tail) \in Nat
    BY <1>i, SpaceSum
  <2> QED
    BY <1>8, <2>1 DEF Release, ReaderInv
<1>9. ASSUME Reopen PROVE ReaderInv'
  <2>1. m_sn_len = 0 /\ m_lastreadsize = 0 /\ rpc = "idle"
    BY <1>9, <1>t DEF Reopen, ReaderInv, ReaderType
  <2> QED
    BY <1>9, <2>1 DEF Reopen, ReaderInv, ReadSize
<1> QED
  BY <1>1, <1>2, <1>3, <1>4, <1>5, <1>6, <1>7, <1>8, <1>9
  DEF Next, RecordEvent, ScapNext

\* The space the gate holder writes, directly or by wrapping the cushion, holds
\* no unread byte.
LEMMA FreeIsNotLive ==
    ASSUME head \in 0 .. RING_BUF_SIZE - 1, tail \in 0 .. RING_BUF_SIZE - 1,
           NEW s \in Nat, s <= Freespace(head, tail),
           NEW i \in 0 .. RING_BUF_SIZE - 1,
           i \in head .. head + s - 1 \/ i < head + s - RING_BUF_SIZE
    PROVE  ~Live(i)
BY RingAssumption DEF Live, Mirror, Freespace, ReadSize

\* An empty ring holds no unread byte.
LEMMA EmptyIsNotLive ==
    ASSUME head \in 0 .. RING_BUF_SIZE - 1, tail \in 0 .. RING_BUF_SIZE - 1,
           head = tail, NEW i \in 0 .. RING_BUF_SIZE - 1
    PROVE  ~Live(i)
BY RingAssumption DEF Live, ReadSize

\* A step that respects the invariant leaves unread bytes alone.
LEMMA OverwriteStep ==
    ASSUME RingInv, [Next]_vars, NEW i \in 0 .. RING_BUF_SIZE - 1, Live(i)
    PROVE  buffer'[i] = buffer[i]
<1>t. RingType /\ LocalType /\ \A c \in Ctx : HolderInv(c)
  BY DEF RingInv, TypeOK
<1>i. head \in 0 .. RING_BUF_SIZE - 1 /\ tail \in 0 .. RING_BUF_SIZE - 1
  BY <1>t DEF RingType
<1>d. i \in DOMAIN buffer
  BY <1>t, RingAssumption DEF RingType
<1>f. Freespace(head, tail) \in Int
  BY <1>i, RingAssumption DEF Freespace
<1>e. head # tail
  BY <1>i, EmptyIsNotLive
<1>1. ASSUME NEW c \in Ctx, NEW s \in EvtSizes, FillSuccess(c, s)
      PROVE  buffer'[i] = buffer[i]
  <2>1. /\ pc[c] = "fill" /\ s <= l_room[c]
        /\ i \notin l_head[c] .. l_head[c] + s - 1 => buffer'[i] = buffer[i]
    BY <1>1, <1>d DEF FillSuccess
  <2>2. /\ l_head[c] = head /\ l_room[c] <= Freespace(head, tail)
        /\ l_room[c] \in Nat /\ s \in Nat
    BY <1>t, <1>e, <2>1, RingAssumption DEF HolderInv, LocalType
  <2> QED
    BY <1>i, <1>f, <2>1, <2>2, FreeIsNotLive
<1>2. ASSUME NEW c \in Ctx, NEW l \in {"drop_buffer", "drop_pf", "drop_bug"},
             FillFailure(c, l)
      PROVE  buffer'[i] = buffer[i]
  <2>1. /\ pc[c] = "fill"
        /\ i \notin l_head[c] .. l_head[c] + l_room[c] - 1 => buffer'[i] = buffer[i]
    BY <1>2, <1>d DEF FillFailure
  <2>2. /\ l_head[c] = head /\ l_room[c] <= Freespace(head, tail)
        /\ l_room[c] \in Nat
    BY <1>t, <1>e, <2>1 DEF HolderInv, LocalType
  <2> QED
    BY <1>i, <2>1, <2>2, FreeIsNotLive
<1>3. ASSUME NEW c \in Ctx, Wrap(c) PROVE buffer'[i] = buffer[i]
  <2>1. /\ pc[c] = "wrap"
        /\ ~(i < l_head[c] + l_size[c] - RING_BUF_SIZE) => buffer'[i] = buffer[i]
    BY <1>3, <1>d, <1>t, RingAssumption DEF Wrap, LocalType
  <2>2. /\ l_head[c] = head /\ l_room[c] <= Freespace(head, tail)
        /\ l_size[c] \in 1 .. l_room[c] /\ l_room[c] \in Nat
    BY <1>t, <1>e, <2>1 DEF HolderInv, LocalType
  <2>3. l_size[c] \in Nat /\ l_size[c] <= Freespace(head, tail)
    BY <1>f, <2>2
  <2> QED
    BY <1>i, <2>1, <2>2, <2>3, FreeIsNotLive
<1>4. ASSUME NEW c \in Ctx,
             \/ Enter(c) \/ CountEvent(c) \/ Gate(c) \/ Bounce(c) \/ ComputeSpace(c)
             \/ Publish(c) \/ Drop(c) \/ Leave(c)
      PROVE  buffer'[i] = buffer[i]
  BY <1>4 DEF Enter, CountEvent, Gate, Bounce, ComputeSpace, Publish, Drop, Leave
<1>5. ASSUME (\E b \in BOOLEAN : SetCapture(b)) \/ ScapNext \/ UNCHANGED vars
      PROVE  buffer'[i] = buffer[i]
  BY <1>5 DEF SetCapture, ScapNext, NextEvent, AdvanceTail, Refill, producer, vars
<1>6. ASSUME Release \/ Reopen PROVE buffer'[i] = buffer[i]
  BY <1>6 DEF Release, Reopen
<1> QED
  BY <1>1, <1>2, <1>3, <1>4, <1>5, <1>6 DEF Next, RecordEvent

\* The inductive invariant holds in every reachable state, for every ring size,
\* cushion, set of event sizes and number of events.
THEOREM RingInvariance == Spec => []RingInv
<1>1. RingInv /\ [Next]_vars => RingInv'
  BY TypeStep, GateStep, HolderStep, ReaderStep DEF RingInv
<1> QED
  BY <1>1, InitInv, PTL DEF Spec

\* Type correctness: head and tail never leave the ring.
THEOREM TypeCorrect == Spec => []TypeOK
BY RingInvariance, PTL DEF RingInv

\* The preemption gate of record_event_consumer excludes nested probes from the
\* ring, and is never left closed.
THEOREM GateTheorem == Spec => []GateExclusive
BY RingInvariance, PTL DEF RingInv

\* The producer never changes a byte the reader has not released.
THEOREM NoOverwriteTheorem == Spec => NeverOverwrites
<1>1. RingInv /\ [Next]_vars
      => [\A i \in 0 .. RING_BUF_SIZE - 1 : Live(i) => buffer'[i] = buffer[i]]_vars
  BY OverwriteStep
<1> QED
  BY <1>1, RingInvariance, PTL DEF Spec, NeverOverwrites
=============================================================================
