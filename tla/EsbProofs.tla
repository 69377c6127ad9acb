----------------------------- MODULE EsbProofs -----------------------------
(***************************************************************************)
(* The radio driver for FIFOs of every size: no interleaving of its three  *)
(* contexts with the radio over- or underflows a FIFO or leaves its slots, *)
(* and the interrupts keep the receive FIFO the queue of EsbQueue.  First  *)
(* the lemmas about the ring of EsbFifo: a first-in first-out queue.       *)
(***************************************************************************)
EXTENDS EsbProps, SequenceTheorems, TLAPS

\* The points stay in the ring.
LEMMA AfterInRing ==
    ASSUME NEW i \in Indices
    PROVE  After(i) \in Indices /\ After(i) = Slot(i + 1)
  BY FifoSizeAssumption DEF After, Slot, Indices

\* A ring just initialised is empty, and in order.
LEMMA NewRingEmpty ==
    ASSUME NEW Payload, NEW payload \in Payload
    PROVE  /\ NewRing(payload) \in Rings(Payload)
           /\ InOrder(NewRing(payload))
           /\ Contents(NewRing(payload)) = <<>>
<1>1. 0 \in Indices /\ 0 \in 0 .. FifoSize
  BY FifoSizeAssumption DEF Indices
<1>2. NewRing(payload) \in Rings(Payload)
  BY <1>1 DEF NewRing, Rings
<1>3. InOrder(NewRing(payload))
  BY FifoSizeAssumption DEF NewRing, InOrder, Slot
<1>4. Contents(NewRing(payload)) = <<>>
  <2>1. NewRing(payload).count = 0
    BY DEF NewRing
  <2>. QED  BY <2>1 DEF Contents
<1>. QED  BY <1>2, <1>3, <1>4

\* The contents of a ring are a sequence.
LEMMA ContentsSeq ==
    ASSUME NEW Payload, NEW ring \in Rings(Payload)
    PROVE  /\ Len(Contents(ring)) = ring.count
           /\ \A k \in 1 .. ring.count : Contents(ring)[k] = ring.slots[Slot(ring.exit + k - 1)]
           /\ Contents(ring) \in Seq(Payload)
<1>1. /\ FifoSize \in Nat /\ FifoSize > 0
      /\ ring.slots \in [Indices -> Payload] /\ ring.exit \in Indices
      /\ ring.count \in 0 .. FifoSize
  BY FifoSizeAssumption DEF Rings
<1>2. \A k \in 1 .. ring.count : ring.slots[Slot(ring.exit + k - 1)] \in Payload
  BY <1>1 DEF Slot, Indices
<1>. QED  BY <1>1, <1>2 DEF Contents

\* Writing a payload (nrf_esb.c:385-424, 973-1011) appends it to the queue.
LEMMA PushAppends ==
    ASSUME NEW Payload, NEW ring \in Rings(Payload), NEW payload \in Payload, ~Full(ring)
    PROVE  /\ Push(ring, payload) \in Rings(Payload)
           /\ InOrder(ring) => /\ InOrder(Push(ring, payload))
                               /\ Contents(Push(ring, payload)) = Append(Contents(ring), payload)
<1>. DEFINE pushed == Push(ring, payload)
<1>0. /\ FifoSize \in Nat /\ FifoSize > 0
      /\ ring.slots \in [Indices -> Payload] /\ ring.entry \in Indices /\ ring.exit \in Indices
      /\ ring.count \in 0 .. FifoSize /\ ring.count < FifoSize
  BY FifoSizeAssumption DEF Rings, Full
<1>1. /\ pushed.slots = [ring.slots EXCEPT ![ring.entry] = payload]
      /\ pushed.entry = After(ring.entry) /\ pushed.exit = ring.exit
      /\ pushed.count = ring.count + 1
  BY DEF Push, Rings
<1>2. pushed \in Rings(Payload)
  <2>. DEFINE slots == [ring.slots EXCEPT ![ring.entry] = payload]
              entry == After(ring.entry)
              count == ring.count + 1
  <2>1. slots \in [Indices -> Payload] /\ entry \in Indices /\ count \in 0 .. FifoSize
    BY <1>0, AfterInRing
  <2>2. pushed = [ring EXCEPT !.slots = slots, !.entry = entry, !.count = count]
    BY DEF Push, Rings
  <2>. HIDE DEF slots, entry, count, pushed
  <2>. QED  BY <2>1, <2>2 DEF Rings
<1>3. ASSUME InOrder(ring)
      PROVE  InOrder(pushed)
  <2>1. ring.entry = Slot(ring.exit + ring.count)
    BY <1>3 DEF InOrder
  <2>2. After(ring.entry) = Slot(ring.exit + (ring.count + 1))
    BY <1>0, <2>1 DEF After, Slot, Indices
  <2>. QED  BY <1>1, <2>2 DEF InOrder
<1>4. ASSUME InOrder(ring)
      PROVE  Contents(pushed) = Append(Contents(ring), payload)
  <2>1. \A k \in 1 .. ring.count :
            pushed.slots[Slot(ring.exit + k - 1)] = ring.slots[Slot(ring.exit + k - 1)]
    <3>. SUFFICES ASSUME NEW k \in 1 .. ring.count
                  PROVE  pushed.slots[Slot(ring.exit + k - 1)] = ring.slots[Slot(ring.exit + k - 1)]
      OBVIOUS
    <3>1. Slot(ring.exit + k - 1) \in Indices /\ Slot(ring.exit + k - 1) # ring.entry
      <4>0. /\ ring.entry = Slot(ring.exit + ring.count) /\ k \in 1 .. ring.count
            /\ ring.count < FifoSize
        BY <1>0, <1>4 DEF InOrder
      <4>1. CASE ring.exit + ring.count >= FifoSize
        BY <1>0, <4>0, <4>1 DEF Slot, Indices
      <4>2. CASE ring.exit + ring.count < FifoSize
        BY <1>0, <4>0, <4>2 DEF Slot, Indices
      <4>. QED  BY <1>0, <4>1, <4>2 DEF Indices
    <3>. QED  BY <1>0, <1>1, <3>1
  <2>2. pushed.slots[Slot(ring.exit + (ring.count + 1) - 1)] = payload
    BY <1>0, <1>1, <1>4 DEF InOrder, Slot, Indices
  <2>3. /\ Len(Contents(ring)) = ring.count
        /\ \A k \in 1 .. ring.count : Contents(ring)[k] = ring.slots[Slot(ring.exit + k - 1)]
        /\ Contents(ring) \in Seq(Payload)
    BY ContentsSeq
  <2>4. /\ Len(Contents(pushed)) = ring.count + 1
        /\ \A k \in 1 .. ring.count + 1 :
               Contents(pushed)[k] = pushed.slots[Slot(ring.exit + k - 1)]
        /\ Contents(pushed) \in Seq(Payload)
    <3>. HIDE DEF pushed
    <3>1. pushed.count = ring.count + 1 /\ pushed.exit = ring.exit
      BY <1>1
    <3>. QED  BY <1>2, <3>1, ContentsSeq
  <2>. DEFINE longer == Append(Contents(ring), payload)
  <2>5. /\ longer \in Seq(Payload) /\ Len(longer) = ring.count + 1
        /\ \A k \in 1 .. ring.count : longer[k] = Contents(ring)[k]
        /\ longer[ring.count + 1] = payload
    BY <2>3, AppendProperties
  <2>6. \A k \in 1 .. ring.count + 1 : Contents(pushed)[k] = longer[k]
    <3>. HIDE DEF pushed, longer
    <3>1. \A k \in 1 .. ring.count : Contents(pushed)[k] = longer[k]
      BY <1>0, <2>1, <2>3, <2>4, <2>5
    <3>2. Contents(pushed)[ring.count + 1] = longer[ring.count + 1]
      BY <1>0, <2>2, <2>4, <2>5
    <3>. QED  BY <1>0, <3>1, <3>2
  <2>. HIDE DEF pushed, longer
  <2>7. Contents(pushed) = longer
    BY <2>4, <2>5, <2>6, SeqEqual
  <2>. QED  BY <2>7 DEF longer
<1>. QED  BY <1>2, <1>3, <1>4

\* Reading one (nrf_esb.c:357-371, 1014-1042) takes it from the head.
LEMMA PopRemoves ==
    ASSUME NEW Payload, NEW ring \in Rings(Payload), ring.count > 0
    PROVE  /\ Pop(ring) \in Rings(Payload) /\ Front(ring) \in Payload
           /\ InOrder(ring) => InOrder(Pop(ring))
           /\ Contents(ring) # <<>>
           /\ Front(ring) = Head(Contents(ring))
           /\ Contents(Pop(ring)) = Tail(Contents(ring))
<1>. DEFINE popped == Pop(ring)
<1>0. /\ FifoSize \in Nat /\ FifoSize > 0
      /\ ring.slots \in [Indices -> Payload] /\ ring.entry \in Indices /\ ring.exit \in Indices
      /\ ring.count \in 0 .. FifoSize
  BY FifoSizeAssumption DEF Rings
<1>1. /\ popped.slots = ring.slots /\ popped.entry = ring.entry
      /\ popped.exit = After(ring.exit) /\ popped.count = ring.count - 1
  BY DEF Pop, Rings
<1>2. popped \in Rings(Payload) /\ Front(ring) \in Payload
  <2>. DEFINE exit == After(ring.exit)
              count == ring.count - 1
  <2>1. exit \in Indices /\ count \in 0 .. FifoSize
    BY <1>0, AfterInRing
  <2>2. popped = [ring EXCEPT !.exit = exit, !.count = count]
    BY DEF Pop, Rings
  <2>3. Front(ring) \in Payload
    BY <1>0 DEF Front
  <2>. HIDE DEF exit, count, popped
  <2>. QED  BY <2>1, <2>2, <2>3 DEF Rings
<1>3. InOrder(ring) => InOrder(popped)
  BY <1>0, <1>1 DEF InOrder, Slot, After, Indices
<1>4. /\ Len(Contents(ring)) = ring.count
      /\ \A k \in 1 .. ring.count : Contents(ring)[k] = ring.slots[Slot(ring.exit + k - 1)]
      /\ Contents(ring) \in Seq(Payload)
  BY ContentsSeq
<1>5. Contents(ring) # <<>> /\ Front(ring) = Head(Contents(ring))
  <2>1. Slot(ring.exit + 1 - 1) = ring.exit
    BY <1>0 DEF Slot, Indices
  <2>. QED  BY <1>0, <1>4, <2>1 DEF Front
<1>6. Contents(popped) = Tail(Contents(ring))
  <2>1. /\ Len(Contents(popped)) = ring.count - 1
        /\ \A k \in 1 .. ring.count - 1 :
               Contents(popped)[k] = ring.slots[Slot(After(ring.exit) + k - 1)]
        /\ Contents(popped) \in Seq(Payload)
    BY <1>1, <1>2, ContentsSeq
  <2>2. \A k \in 1 .. ring.count - 1 : Slot(After(ring.exit) + k - 1) = Slot(ring.exit + (k + 1) - 1)
    <3>1. CASE ring.exit + 1 >= FifoSize
      BY <1>0, <3>1, SMTT(30) DEF Slot, After, Indices
    <3>2. CASE ring.exit + 1 < FifoSize
      BY <1>0, <3>2, SMTT(30) DEF Slot, After, Indices
    <3>. QED  BY <1>0, <3>1, <3>2 DEF Indices
  <2>. DEFINE shorter == Tail(Contents(ring))
  <2>3. /\ shorter \in Seq(Payload) /\ Len(shorter) = ring.count - 1
        /\ \A k \in 1 .. ring.count - 1 : shorter[k] = Contents(ring)[k + 1]
    BY <1>4, <1>5, HeadTailProperties
  <2>4. \A k \in 1 .. ring.count - 1 : Contents(popped)[k] = shorter[k]
    <3>. SUFFICES ASSUME NEW k \in 1 .. ring.count - 1
                  PROVE  Contents(popped)[k] = shorter[k]
      OBVIOUS
    <3>. HIDE DEF popped, shorter
    <3>1. Contents(popped)[k] = ring.slots[Slot(ring.exit + (k + 1) - 1)]
      BY <2>1, <2>2
    <3>2. k + 1 \in 1 .. ring.count
      BY <1>0
    <3>3. Contents(ring)[k + 1] = ring.slots[Slot(ring.exit + (k + 1) - 1)]
      BY <1>4, <3>2
    <3>. QED  BY <2>3, <3>1, <3>3
  <2>. HIDE DEF popped, shorter
  <2>5. Contents(popped) = shorter
    BY <2>1, <2>3, <2>4, SeqEqual
  <2>. QED  BY <2>5 DEF shorter
<1>. QED  BY <1>2, <1>3, <1>5, <1>6

-----------------------------------------------------------------------------
TxRings == Rings(Payloads \cup {None})
RxRings == Rings(Frames \cup {None})
Registered == [txen : BOOLEAN, end : BOOLEAN, inten : BOOLEAN, event : BOOLEAN,
               packet : {"rx", "tx"}]
Buffered == [tx : Payloads \cup {None}, rx : Frames \cup {None}, good : BOOLEAN]
EventBits == [enabled : BOOLEAN, pending : BOOLEAN]

\* Only received frames get into the receive FIFO.
HeardIsFrame == buffers.rx \in Frames \/ pipe_info = None

\* The slot to be read holds a payload or was cleared, whatever the count says.
LEMMA FrontIsPayload ==
    ASSUME NEW Payload, NEW ring \in Rings(Payload)
    PROVE  Front(ring) \in Payload
  BY DEF Front, Rings

\* Nothing waits for more than the numbers of its FIFO.
LEMMA RingNumbers ==
    ASSUME NEW Payload, NEW ring \in Rings(Payload)
    PROVE  /\ ring.count \in 0 .. FifoSize /\ ring.count \in Nat
           /\ [ring EXCEPT !.entry = 0] \in Rings(Payload)
           /\ [ring EXCEPT !.exit = 0] \in Rings(Payload)
           /\ [ring EXCEPT !.count = 0] \in Rings(Payload)
  BY FifoSizeAssumption DEF Rings, Indices

-----------------------------------------------------------------------------
\* The three contexts and the radio keep the types, one lemma each.
LEMMA HardwareType == EsbTypeOK /\ Hardware => EsbTypeOK'
<1>. SUFFICES ASSUME EsbTypeOK, Hardware PROVE EsbTypeOK'
  OBVIOUS
<1>0. reg \in Registered /\ buffers \in Buffered
  BY DEF EsbTypeOK, Registered, Buffered
<1>1. CASE Sent
  <2>1. reg' \in Registered /\ radio' \in {"off", "tx"}
    BY <1>0, <1>1 DEF Sent, Disabled, Registered
  <2>. QED  BY <1>1, <2>1 DEF Sent, EsbTypeOK, Registered, driver, app
<1>2. ASSUME NEW frame \in Frames, NEW good \in BOOLEAN, Receive(frame, good)
      PROVE  EsbTypeOK'
  <2>1. reg' \in Registered /\ radio' \in {"off", "tx", "ended"}
    BY <1>0, <1>2 DEF Receive, Disabled, Registered
  <2>2. buffers' \in Buffered
    BY <1>0, <1>2 DEF Receive, Buffered
  <2>. QED  BY <1>2, <2>1, <2>2 DEF Receive, EsbTypeOK, Registered, Buffered, app
<1>. QED  BY <1>1, <1>2 DEF Hardware

LEMMA RadioIrqType == EsbTypeOK /\ RadioIrq => EsbTypeOK'
<1>. SUFFICES ASSUME EsbTypeOK, RadioIrq PROVE EsbTypeOK'
  OBVIOUS
<1>0. app' = app /\ reg \in Registered /\ buffers \in Buffered /\ evt \in EventBits
  BY DEF RadioIrq, EsbTypeOK, Registered, Buffered, EventBits
<1>1. CASE on_radio_disabled = "rx" /\ OnRadioDisabledRx
  <2>1. rx' \in RxRings
    <3>1. CASE rx' = rx
      BY <3>1 DEF EsbTypeOK, RxRings
    <3>2. CASE ~Full(rx) /\ rx' = Push(rx, buffers.rx)
      <4>1. buffers.rx \in Frames \cup {None} /\ rx \in Rings(Frames \cup {None})
        BY DEF EsbTypeOK
      <4>. QED  BY <3>2, <4>1, PushAppends DEF RxRings
    <3>. QED  BY <1>1, <3>1, <3>2 DEF OnRadioDisabledRx
  <2>. QED  BY <1>0, <1>1, <2>1, ZenonT(30)
            DEF OnRadioDisabledRx, clear_events_restart_rx, EsbTypeOK, RxRings, app
<1>2. CASE on_radio_disabled = "tx" /\ OnRadioDisabledTx
  <2>1. tx' \in TxRings
    <3>1. tx \in Rings(Payloads \cup {None}) /\ (tx.count > 0 => Pop(tx) \in Rings(Payloads \cup {None}))
      BY PopRemoves DEF EsbTypeOK
    <3>. QED  BY <1>2, <3>1 DEF OnRadioDisabledTx, tx_fifo_remove_last, TxRings
  <2>2. Front(tx') \in Payloads \cup {None}
    BY <2>1, FrontIsPayload DEF TxRings
  <2>3. reg' \in Registered
    BY <1>0, <1>2 DEF OnRadioDisabledTx, Registered
  <2>4. buffers' \in Buffered /\ evt' \in EventBits
    BY <1>0, <1>2, <2>2 DEF OnRadioDisabledTx, Buffered, EventBits
  <2>5. radio' \in {"off", "rx", "tx", "ended"} /\ mainstate' \in {"idle", "tx"}
    BY <1>2 DEF OnRadioDisabledTx, EsbTypeOK
  <2>. QED  BY <1>0, <1>2, <2>1, <2>3, <2>4, <2>5
            DEF OnRadioDisabledTx, EsbTypeOK, TxRings, Registered, Buffered, EventBits, app
<1>3. CASE /\ on_radio_disabled = "none"
           /\ reg' = [reg EXCEPT !.event = FALSE]
           /\ UNCHANGED <<driver, radio>>
  <2>1. reg' \in Registered
    BY <1>0, <1>3 DEF Registered
  <2>. QED  BY <1>0, <1>3, <2>1 DEF EsbTypeOK, Registered, driver, app
<1>. QED  BY <1>1, <1>2, <1>3 DEF RadioIrq

LEMMA EventIrqType == EsbTypeOK /\ EventIrq => EsbTypeOK'
<1>. SUFFICES ASSUME EsbTypeOK, EventIrq PROVE EsbTypeOK'
  OBVIOUS
<1>1. CASE TakeFlags
  <2>1. evt' \in EventBits
    BY <1>1 DEF TakeFlags, EsbTypeOK, EventBits
  <2>2. handler' \in {"off", "read"} /\ flags' = {}
    BY <1>1 DEF TakeFlags
  <2>3. UNCHANGED <<tx, rx, mainstate, on_radio_disabled, pipe_info, buffers, radio, reg,
                    rx_payload, mode>>
    BY <1>1 DEF TakeFlags
  <2>. QED  BY <2>1, <2>2, <2>3 DEF EsbTypeOK, EventBits
<1>2. CASE read_rx_payload
  <2>1. rx \in Rings(Frames \cup {None}) /\ rx.count \in 0 .. FifoSize
    BY RingNumbers DEF EsbTypeOK
  <2>2. rx.count # 0 => Pop(rx) \in Rings(Frames \cup {None}) /\ Front(rx) \in Frames \cup {None}
    BY <2>1, PopRemoves, FifoSizeAssumption
  <2>. QED  BY <1>2, <2>2 DEF read_rx_payload, EsbTypeOK
<1>. QED  BY <1>1, <1>2 DEF EventIrq

LEMMA MainType == EsbTypeOK /\ Main => EsbTypeOK'
<1>. SUFFICES ASSUME EsbTypeOK, Main PROVE EsbTypeOK'
  OBVIOUS
<1>0. handler' = handler /\ rx_payload' = rx_payload
  BY DEF Main
<1>1. CASE Call
  BY <1>0, <1>1 DEF Call, EsbTypeOK, driver
<1>2. CASE Assign
  <2>. DEFINE s == Head(todo)
  <2>1. tx' \in TxRings
    BY <1>2, RingNumbers DEF Assign, EsbTypeOK, TxRings
  <2>2. rx' \in RxRings
    BY <1>2, RingNumbers DEF Assign, EsbTypeOK, RxRings
  <2>3. Front(tx) \in Payloads \cup {None}
    BY FrontIsPayload DEF EsbTypeOK
  <2>4. /\ mainstate' \in {"idle", "rx", "tx"} /\ on_radio_disabled' \in {"none", "rx", "tx"}
        /\ pipe_info' \in Frames \cup {None}
        /\ flags' \subseteq {"rx_received", "tx_success"}
    BY <1>2 DEF Assign, EsbTypeOK
  <2>5. evt' \in [enabled : BOOLEAN, pending : BOOLEAN]
    BY <1>2 DEF Assign, EsbTypeOK
  <2>6. buffers' \in [tx : Payloads \cup {None}, rx : Frames \cup {None}, good : BOOLEAN]
    BY <1>2, <2>3 DEF Assign, EsbTypeOK
  <2>7. UNCHANGED <<radio, reg, mode>>
    BY <1>2 DEF Assign
  <2>. QED  BY <1>0, <2>1, <2>2, <2>4, <2>5, <2>6, <2>7 DEF EsbTypeOK, TxRings, RxRings
<1>3. CASE Command
  <2>1. reg' \in [txen : BOOLEAN, end : BOOLEAN, inten : BOOLEAN, event : BOOLEAN,
                  packet : {"rx", "tx"}]
    BY <1>3 DEF Command, Registers, EsbTypeOK
  <2>2. radio' \in {"off", "rx", "tx", "ended"}
    BY <1>3 DEF Command, Disabled, EsbTypeOK
  <2>. QED  BY <1>0, <1>3, <2>1, <2>2 DEF Command, EsbTypeOK, driver
<1>4. CASE Delay
  BY <1>0, <1>4 DEF Delay, EsbTypeOK, driver
<1>5. CASE Return
  BY <1>0, <1>5 DEF Return, EsbTypeOK, driver
<1>. QED  BY <1>1, <1>2, <1>3, <1>4, <1>5 DEF Main

LEMMA ApplicationType == EsbTypeOK /\ Application => EsbTypeOK'
<1>. SUFFICES ASSUME EsbTypeOK, Application PROVE EsbTypeOK'
  OBVIOUS
<1>1. CASE TurnToReceive
  BY <1>1 DEF TurnToReceive, Turn, EsbTypeOK, driver
<1>2. CASE TurnToTransmit
  BY <1>2 DEF TurnToTransmit, Turn, EsbTypeOK, driver
<1>3. ASSUME NEW p \in Payloads, Write(p)
      PROVE  EsbTypeOK'
  <2>1. tx \in Rings(Payloads \cup {None}) /\ p \in Payloads \cup {None} /\ ~Full(tx)
    BY <1>3 DEF Write, EsbTypeOK
  <2>2. Push(tx, p) \in Rings(Payloads \cup {None})
    BY <2>1, PushAppends
  <2>. QED  BY <1>3, <2>2 DEF Write, EsbTypeOK
<1>. QED  BY <1>1, <1>2, <1>3 DEF Application

-----------------------------------------------------------------------------
\* The FIFOs of nrf_esb.c never over- or underflow, for every size, every timing of the
\* interrupts and every restart, also those of fifo_restart that leave them askew: the
\* guards of the driver suffice.
THEOREM EsbTypeCorrect == EsbSpec => []EsbTypeOK
<1>1. Init => EsbTypeOK
  <2>. SUFFICES ASSUME Init PROVE EsbTypeOK
    OBVIOUS
  <2>1. tx \in Rings(Payloads \cup {None}) /\ rx \in Rings(Frames \cup {None})
    BY NewRingEmpty DEF Init
  <2>. QED  BY <2>1 DEF Init, EsbTypeOK
<1>2. EsbTypeOK /\ [Next]_vars => EsbTypeOK'
  <2>1. EsbTypeOK /\ UNCHANGED vars => EsbTypeOK'
    BY DEF EsbTypeOK, vars, driver, app
  <2>. QED  BY <2>1, HardwareType, RadioIrqType, EventIrqType, MainType, ApplicationType
            DEF Next
<1>. QED  BY <1>1, <1>2, PTL DEF EsbSpec

\* What the receive FIFO is given, and the duplicate filter remembers, has been heard.
LEMMA HeardFrames == EsbSpec => []HeardIsFrame
<1>1. Init => HeardIsFrame
  BY DEF Init, HeardIsFrame
<1>2. EsbTypeOK /\ HeardIsFrame /\ [Next]_vars => HeardIsFrame'
  <2>. SUFFICES ASSUME EsbTypeOK, HeardIsFrame, [Next]_vars PROVE HeardIsFrame'
    OBVIOUS
  <2>0. buffers \in Buffered
    BY DEF EsbTypeOK, Buffered
  <2>1. CASE \E frame \in Frames, good \in BOOLEAN : Receive(frame, good)
    BY <2>0, <2>1 DEF Receive, HeardIsFrame, Buffered
  <2>2. CASE UNCHANGED <<buffers, pipe_info>>
    BY <2>2 DEF HeardIsFrame
  <2>3. CASE UNCHANGED pipe_info /\ buffers'.rx = buffers.rx
    BY <2>3 DEF HeardIsFrame
  <2>4. CASE UNCHANGED buffers /\ pipe_info' \in {buffers.rx, pipe_info}
    BY <2>0, <2>4 DEF HeardIsFrame, EsbTypeOK, Buffered
  <2>5. CASE RadioIrq
    <3>1. CASE OnRadioDisabledTx
      <4>1. buffers'.rx = buffers.rx
        BY <2>0, <3>1 DEF OnRadioDisabledTx, Buffered
      <4>. QED  BY <2>3, <3>1, <4>1 DEF OnRadioDisabledTx
    <3>. QED  BY <2>2, <2>4, <2>5, <3>1 DEF RadioIrq, OnRadioDisabledRx, driver
  <2>6. CASE Main
    <3>1. CASE Assign
      <4>1. buffers'.rx = buffers.rx
        BY <2>0, <3>1 DEF Assign, Buffered
      <4>2. pipe_info' \in {pipe_info, None}
        BY <3>1 DEF Assign
      <4>. QED  BY <4>1, <4>2 DEF HeardIsFrame
    <3>. QED  BY <2>2, <2>6, <3>1 DEF Main, Call, Command, Delay, Return, driver
  <2>7. CASE Application
    BY <2>2, <2>7 DEF Application, TurnToReceive, TurnToTransmit, Turn, Write, driver
  <2>8. CASE Sent \/ EventIrq \/ UNCHANGED vars
    BY <2>2, <2>8 DEF Sent, EventIrq, TakeFlags, read_rx_payload, vars, driver
  <2>. QED  BY <2>1, <2>5, <2>6, <2>7, <2>8 DEF Next, Hardware
<1>. QED  BY <1>1, <1>2, EsbTypeCorrect, PTL DEF EsbSpec

\* An interrupt takes a step of the queue, or none, as long as the receive FIFO is in
\* order, and leaves it so.
LEMMA InterruptsStep ==
    ASSUME EsbTypeOK, HeardIsFrame, InOrder(rx), Hardware \/ RadioIrq \/ EventIrq
    PROVE  InOrder(rx') /\ [Queue!QueueNext]_<<Contents(rx), rx_payload>>
<1>0. /\ rx \in Rings(Frames \cup {None})
      /\ rx.count \in 0 .. FifoSize /\ FifoSize \in Nat
  BY RingNumbers, FifoSizeAssumption DEF EsbTypeOK
<1>1. CASE UNCHANGED <<rx, rx_payload>>
  BY <1>1 DEF InOrder, Contents
<1>2. CASE /\ ~Full(rx) /\ rx' = Push(rx, buffers.rx) /\ UNCHANGED rx_payload
           /\ buffers.rx # pipe_info
  <2>1. buffers.rx \in Frames
    BY <1>2 DEF EsbTypeOK, HeardIsFrame
  <2>2. InOrder(rx') /\ Contents(rx') = Append(Contents(rx), buffers.rx)
    BY <1>0, <1>2, <2>1, PushAppends
  <2>3. Len(Contents(rx)) < FifoSize
    BY <1>0, <1>2, ContentsSeq DEF Full
  <2>4. Queue!Arrive(buffers.rx)
    BY <1>2, <2>2, <2>3 DEF Queue!Arrive
  <2>. QED  BY <2>1, <2>2, <2>4 DEF Queue!QueueNext
<1>3. CASE rx.count # 0 /\ rx' = Pop(rx) /\ rx_payload' = Front(rx)
  <2>1. rx.count > 0
    BY <1>0, <1>3
  <2>2. /\ InOrder(rx') /\ Contents(rx) # <<>> /\ Front(rx) = Head(Contents(rx))
        /\ Contents(rx') = Tail(Contents(rx))
    BY <1>0, <1>3, <2>1, PopRemoves
  <2>3. Queue!Read
    BY <1>3, <2>2 DEF Queue!Read
  <2>. QED  BY <2>2, <2>3 DEF Queue!QueueNext
<1>4. CASE Hardware
  BY <1>1, <1>4 DEF Hardware, Sent, Receive, app, driver
<1>5. CASE RadioIrq
  BY <1>1, <1>2, <1>5 DEF RadioIrq, OnRadioDisabledRx, OnRadioDisabledTx, app, driver
<1>6. CASE EventIrq
  BY <1>1, <1>3, <1>6 DEF EventIrq, TakeFlags, read_rx_payload
<1>. QED  BY <1>4, <1>5, <1>6

\* As long as the receive FIFO is in order, every interrupt and the radio keep it so and
\* take a step of the queue that nrf_esb.h promises, or none: only main's own stores, in
\* reset_fifos, can break it (as fifo_restart shows).
THEOREM InterruptsKeepQueue ==
    EsbSpec => [][ InOrder(rx) /\ (Hardware \/ RadioIrq \/ EventIrq) =>
                       InOrder(rx') /\ [Queue!QueueNext]_<<Contents(rx), rx_payload>> ]_vars
<1>1. EsbTypeOK /\ HeardIsFrame /\ InOrder(rx) /\ (Hardware \/ RadioIrq \/ EventIrq)
      => InOrder(rx') /\ [Queue!QueueNext]_<<Contents(rx), rx_payload>>
  BY InterruptsStep
<1>. QED  BY <1>1, EsbTypeCorrect, HeardFrames, PTL
=============================================================================
