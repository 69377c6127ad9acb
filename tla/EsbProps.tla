------------------------------ MODULE EsbProps ------------------------------
(***************************************************************************)
(* What the radio driver gives the applications.                           *)
(***************************************************************************)
EXTENDS EsbDriver

EsbTypeOK ==
    /\ tx \in Rings(Payloads \cup {None}) /\ rx \in Rings(Frames \cup {None})
    /\ mainstate \in {"idle", "rx", "tx"} /\ on_radio_disabled \in {"none", "rx", "tx"}
    /\ pipe_info \in Frames \cup {None} /\ rx_payload \in Frames \cup {None}
    /\ flags \subseteq {"rx_received", "tx_success"}
    /\ evt \in [enabled : BOOLEAN, pending : BOOLEAN]
    /\ radio \in {"off", "rx", "tx", "ended"}
    /\ reg \in [txen : BOOLEAN, end : BOOLEAN, inten : BOOLEAN, event : BOOLEAN,
                packet : {"rx", "tx"}]
    /\ buffers \in [tx : Payloads \cup {None}, rx : Frames \cup {None}, good : BOOLEAN]
    /\ handler \in {"off", "read"} /\ mode \in {"listening", "sending"}

AtRest == todo = <<>>

\* Whenever the application gets to write or to wait, both FIFOs are queues
\* (nrf_esb.c:81, 91 "First-in, first-out queue"): resetting them store by store, with
\* the radio's interrupt in between, has left nothing askew.
RingsInOrder == AtRest => InOrder(tx) /\ InOrder(rx)

\* A payload in the receive FIFO has its event pending, or is about to be read: events
\* that coalesce, and the reset of the flags by nrf_esb_init, lose none.
NothingLeftUnread ==
    AtRest /\ mode = "listening" /\ rx.count > 0 =>
        \/ handler = "read"
        \/ evt.pending /\ evt.enabled /\ "rx_received" \in flags

IsPrefixOf(s, t) == Len(s) <= Len(t) /\ \A i \in 1 .. Len(s) : s[i] = t[i]

\* What was written is what is sent, once and in order (nrf_esb.h:189 "packets are sent
\* automatically"), and it has been sent when the node listens again, although the
\* applications disable the driver in the middle of the transmission.
SentAsWritten ==
    /\ IsPrefixOf(aired, written)
    /\ AtRest /\ mode = "listening" => aired = written

\* The driver implements the queue of EsbQueue.
Queue == INSTANCE EsbQueue WITH queue <- Contents(rx), payload <- rx_payload,
                                Capacity <- FifoSize
ReceivesInOrder == Queue!QueueSpec
=============================================================================
