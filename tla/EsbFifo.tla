------------------------------ MODULE EsbFifo ------------------------------
(***************************************************************************)
(* The ring of payloads that nrf_esb.c keeps twice, m_tx_fifo and          *)
(* m_rx_fifo: FifoSize slots, the slot written next (entry), the slot read *)
(* next (exit) and the number of payloads in between.                      *)
(***************************************************************************)
EXTENDS Naturals, Sequences

CONSTANT FifoSize       \* NRF_ESB_TX_FIFO_SIZE, NRF_ESB_RX_FIFO_SIZE

ASSUME FifoSizeAssumption == FifoSize \in Nat \ {0}

Indices == 0 .. FifoSize - 1

Rings(Payload) == [slots : [Indices -> Payload], entry : Indices, exit : Indices,
                   count : 0 .. FifoSize]

NewRing(payload) == [slots |-> [i \in Indices |-> payload], entry |-> 0, exit |-> 0,
                     count |-> 0]

\* Mutant: > for >=.
After_off_by_one(i) == IF i + 1 > FifoSize THEN 0 ELSE i + 1

(***************************************************************************)
(* if (++point >= SIZE) point = 0                                          *)
(***************************************************************************)
After(i) == IF i + 1 >= FifoSize THEN 0 ELSE i + 1

Push(ring, payload) ==
    [ring EXCEPT !.slots = [@ EXCEPT ![ring.entry] = payload],
                 !.entry = After(@),
                 !.count = @ + 1]

Pop(ring) == [ring EXCEPT !.exit = After(@), !.count = @ - 1]

Front(ring) == ring.slots[ring.exit]

Full(ring) == ring.count >= FifoSize

(***************************************************************************)
(* A ring is a queue of its contents, as long as the three numbers agree.  *)
(***************************************************************************)
Slot(i) == IF i >= FifoSize THEN i - FifoSize ELSE i

Contents(ring) == [k \in 1 .. ring.count |-> ring.slots[Slot(ring.exit + k - 1)]]

InOrder(ring) == ring.entry = Slot(ring.exit + ring.count)
=============================================================================
