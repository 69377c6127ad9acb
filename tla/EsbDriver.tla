----------------------------- MODULE EsbDriver -----------------------------
(***************************************************************************)
(* nrf_esb.c as the two applications use it: pipe 0, transmitting mode     *)
(* PTX, automatic start, no acknowledges.  Three contexts run it: main,    *)
(* which can be interrupted after every store; ESB_EVT_IRQHandler, which   *)
(* interrupts main; RADIO_IRQHandler, which interrupts both and runs       *)
(* whole.  The radio goes on by itself.                                    *)
(*                                                                         *)
(* Abstracted: a frame is a model value that stands for its bytes, packet  *)
(* id and checksum, so an equal frame is a retransmission; addresses,      *)
(* frequency and lengths; NVIC's enable bit of the radio interrupt, which  *)
(* stays set once the radio has been started.                              *)
(***************************************************************************)
EXTENDS EsbFifo

CONSTANTS
    Payloads,   \* what this node sends
    Frames,     \* what other nodes send
    None,       \* no frame: a cleared slot, pipe_info or buffer
    MaxWrites,  \* bound: payloads written in one transmit session
    Drains,     \* the event handler reads until the FIFO is empty (remote)
    Restarts    \* the application enters a mode it is already in (car)

ASSUME DriverAssumption == None \notin Payloads \cup Frames /\ MaxWrites \in Nat

VARIABLES
    tx, rx,         \* m_tx_fifo, m_rx_fifo
    mainstate,      \* m_nrf_esb_mainstate
    on_radio_disabled,
    pipe_info,      \* m_rx_pipe_info of pipe 0
    flags,          \* m_interrupt_flags
    evt,            \* NVIC's enable and pending bits of ESB_EVT_IRQ
    buffers,        \* m_tx_payload_buffer, m_rx_payload_buffer, CRCSTATUS
    radio,          \* the state of the radio
    reg,            \* its registers: two SHORTS, INTEN, EVENTS_DISABLED, PACKETPTR
    handler,        \* the event handler: not running, or about to read
    rx_payload,     \* the payload it read last
    todo,           \* the statements main has before it, <<>> in the application
    mode,           \* what the application turned the radio to
    written, aired  \* history: payloads written, frames sent in this session

driver == <<tx, rx, mainstate, on_radio_disabled, pipe_info, flags, evt, buffers>>
app == <<handler, rx_payload, todo, mode, written>>
vars == <<driver, app, radio, reg, aired>>

-----------------------------------------------------------------------------
(***************************************************************************)
(* The radio, external.  The shortcut END_DISABLE ends a packet in state   *)
(* DISABLED; the shortcut DISABLED_TXEN starts a transmission from there.  *)
(* A disabled radio signals EVENTS_DISABLED again when it is told to       *)
(* disable.                                                                *)
(***************************************************************************)
InterruptDue == reg.inten /\ reg.event

Disabled(registers) == IF registers.txen THEN "tx" ELSE "off"

\* A packet arrives, damaged or not.
Receive(frame, good) ==
    /\ radio = "rx" /\ ~InterruptDue
    /\ buffers' = [buffers EXCEPT !.rx = frame, !.good = good]
    /\ IF reg.end THEN radio' = Disabled(reg) /\ reg' = [reg EXCEPT !.event = TRUE]
                  ELSE radio' = "ended" /\ UNCHANGED reg
    /\ UNCHANGED <<tx, rx, mainstate, on_radio_disabled, pipe_info, flags, evt, app,
                   aired>>

\* A packet has been sent.  The interrupt that is due runs first: its latency is a
\* fraction of the time the transmitter takes to ramp up.  The history has room for
\* one frame too many and no more.
Sent ==
    /\ radio = "tx" /\ ~InterruptDue
    /\ aired' = IF Len(aired) <= MaxWrites THEN Append(aired, buffers[reg.packet]) ELSE aired
    /\ radio' = Disabled(reg)
    /\ reg' = [reg EXCEPT !.event = TRUE]
    /\ UNCHANGED <<driver, app>>

-----------------------------------------------------------------------------
(***************************************************************************)
(* RADIO_IRQHandler.                                                       *)
(***************************************************************************)
clear_events_restart_rx ==
    /\ radio' = "rx"
    /\ reg' = [reg EXCEPT !.txen = TRUE, !.end = TRUE, !.event = FALSE, !.packet = "rx"]

OnRadioDisabledRx ==
    /\ clear_events_restart_rx
    /\ IF buffers.good /\ ~Full(rx)
       THEN /\ pipe_info' = buffers.rx
            /\ IF buffers.rx # pipe_info
               THEN /\ rx' = Push(rx, buffers.rx)
                    /\ flags' = flags \cup {"rx_received"}
                    /\ evt' = [evt EXCEPT !.pending = TRUE]
               ELSE UNCHANGED <<rx, flags, evt>>
       ELSE UNCHANGED <<pipe_info, rx, flags, evt>>
    /\ UNCHANGED <<tx, mainstate, on_radio_disabled, buffers>>

tx_fifo_remove_last == tx' = IF tx.count > 0 THEN Pop(tx) ELSE tx

OnRadioDisabledTx ==
    /\ flags' = flags \cup {"tx_success"}
    /\ tx_fifo_remove_last
    /\ evt' = [evt EXCEPT !.pending = TRUE]
    /\ IF tx'.count = 0
       THEN /\ mainstate' = "idle"
            /\ reg' = [reg EXCEPT !.event = FALSE]
            /\ UNCHANGED <<buffers, radio>>
       ELSE /\ buffers' = [buffers EXCEPT !.tx = Front(tx')]    \* start_tx_transaction
            /\ mainstate' = "tx"
            /\ radio' = "tx"
            /\ reg' = [reg EXCEPT !.event = FALSE, !.txen = FALSE, !.end = TRUE,
                                  !.packet = "tx"]
    /\ UNCHANGED <<rx, on_radio_disabled, pipe_info>>

RadioIrq ==
    /\ InterruptDue
    /\ \/ on_radio_disabled = "rx" /\ OnRadioDisabledRx
       \/ on_radio_disabled = "tx" /\ OnRadioDisabledTx
       \/ /\ on_radio_disabled = "none"
          /\ reg' = [reg EXCEPT !.event = FALSE]
          /\ UNCHANGED <<driver, radio>>
    /\ UNCHANGED <<app, aired>>

-----------------------------------------------------------------------------
(***************************************************************************)
(* ESB_EVT_IRQHandler and nrf_esb_event_handler, which reads one payload   *)
(* in the car and all of them in the remote.                               *)
(***************************************************************************)
EventDue == evt.enabled /\ evt.pending /\ handler = "off"

TakeFlags ==
    /\ EventDue /\ ~InterruptDue
    /\ evt' = [evt EXCEPT !.pending = FALSE]
    /\ flags' = {}
    /\ handler' = IF "rx_received" \in flags THEN "read" ELSE "off"
    /\ UNCHANGED <<tx, rx, mainstate, on_radio_disabled, pipe_info, buffers, radio, reg,
                   rx_payload, todo, mode, written, aired>>

\* Mutant: the exit point moves before the payload is copied.
read_rx_payload_after_pop ==
    /\ handler = "read" /\ ~InterruptDue
    /\ IF rx.count = 0
       THEN handler' = "off" /\ UNCHANGED <<rx, rx_payload>>
       ELSE /\ rx' = Pop(rx)
            /\ rx_payload' = Front(rx')
            /\ handler' = IF Drains THEN "read" ELSE "off"
    /\ UNCHANGED <<tx, mainstate, on_radio_disabled, pipe_info, flags, evt, buffers,
                   radio, reg, todo, mode, written, aired>>

\* Mutant: the remote reads one payload an event, as the car does.
read_one_payload ==
    /\ handler = "read" /\ ~InterruptDue
    /\ handler' = "off"
    /\ IF rx.count = 0 THEN UNCHANGED <<rx, rx_payload>>
                       ELSE rx_payload' = Front(rx) /\ rx' = Pop(rx)
    /\ UNCHANGED <<tx, mainstate, on_radio_disabled, pipe_info, flags, evt, buffers,
                   radio, reg, todo, mode, written, aired>>

read_rx_payload ==
    /\ handler = "read" /\ ~InterruptDue
    /\ IF rx.count = 0
       THEN handler' = "off" /\ UNCHANGED <<rx, rx_payload>>
       ELSE /\ rx_payload' = Front(rx)
            /\ rx' = Pop(rx)
            /\ handler' = IF Drains THEN "read" ELSE "off"
    /\ UNCHANGED <<tx, mainstate, on_radio_disabled, pipe_info, flags, evt, buffers,
                   radio, reg, todo, mode, written, aired>>

-----------------------------------------------------------------------------
(***************************************************************************)
(* What main executes, one store a statement.  A call is a statement that  *)
(* is replaced by the body of the function, after its early returns.       *)
(***************************************************************************)
\* Mutant: the entry point of the transmit FIFO is left as it is.
reset_fifos_keeps_entry == <<"tx.exit", "tx.count", "rx.entry", "rx.exit", "rx.count">>

reset_fifos == <<"tx.entry", "tx.exit", "tx.count", "rx.entry", "rx.exit", "rx.count">>

disable == <<"idle">> \o reset_fifos \o <<"forget", "evt_off", "shorts">>

init == <<"disable", "flags", "forget">> \o reset_fifos \o <<"evt_on", "idle">>

start_rx == <<"int_off", "clear", "on_rx", "shorts_txen", "int_on", "rx_state",
              "rx_packet", "clear", "rxen">>

\* Mutant: the handler of received packets stays installed.
stop_rx_keeps_handler == <<"no_shorts", "int_off", "clear", "stop", "idle">>

stop_rx == <<"no_shorts", "int_off", "on_none", "clear", "stop", "idle">>

start_tx_transaction == <<"load", "shorts", "int_on", "on_tx", "tx_state", "tx_packet",
                          "clear", "txen">>

radio_receive_mode == <<"disable", "delay", "init", "delay", "start_rx", "delay",
                        "listening">>

radio_transmit_mode == <<"delay", "stop_rx", "delay", "disable", "delay", "init",
                         "delay", "start_tx", "delay", "sending">>

Body(call) ==
    CASE call = "disable"  -> disable
      [] call = "init"     -> init
      [] call = "start_rx" -> IF mainstate = "idle" THEN start_rx ELSE <<>>
      [] call = "stop_rx"  -> IF mainstate = "rx" THEN stop_rx ELSE <<>>
      [] call = "start_tx" ->
             IF mainstate = "idle" /\ tx.count > 0 THEN start_tx_transaction ELSE <<>>
      [] call = "auto"     -> IF mainstate = "idle" THEN start_tx_transaction ELSE <<>>

Calls == {"disable", "init", "start_rx", "stop_rx", "start_tx", "auto"}

Call ==
    /\ Head(todo) \in Calls
    /\ todo' = Body(Head(todo)) \o Tail(todo)
    /\ UNCHANGED <<driver, radio, reg, mode>>

\* What the assignments of a statement make of the driver's variables.
Assign ==
    LET s == Head(todo) IN
    /\ s \in {"tx.entry", "tx.exit", "tx.count", "rx.entry", "rx.exit", "rx.count", "idle",
              "rx_state", "tx_state", "forget", "flags", "evt_off", "evt_on", "on_rx",
              "on_tx", "on_none", "load"}
    /\ tx' = CASE s = "tx.entry" -> [tx EXCEPT !.entry = 0]
               [] s = "tx.exit"  -> [tx EXCEPT !.exit = 0]
               [] s = "tx.count" -> [tx EXCEPT !.count = 0]
               [] OTHER -> tx
    /\ rx' = CASE s = "rx.entry" -> [rx EXCEPT !.entry = 0]
               [] s = "rx.exit"  -> [rx EXCEPT !.exit = 0]
               [] s = "rx.count" -> [rx EXCEPT !.count = 0]
               [] OTHER -> rx
    /\ mainstate' = CASE s = "idle" -> "idle" [] s = "rx_state" -> "rx"
                      [] s = "tx_state" -> "tx" [] OTHER -> mainstate
    /\ on_radio_disabled' = CASE s = "on_rx" -> "rx" [] s = "on_tx" -> "tx"
                              [] s = "on_none" -> "none" [] OTHER -> on_radio_disabled
    /\ pipe_info' = IF s = "forget" THEN None ELSE pipe_info
    /\ flags' = IF s = "flags" THEN {} ELSE flags
    /\ evt' = CASE s = "evt_off" -> [evt EXCEPT !.enabled = FALSE]
                [] s = "evt_on"  -> [evt EXCEPT !.enabled = TRUE]
                [] OTHER -> evt
    /\ buffers' = IF s = "load" THEN [buffers EXCEPT !.tx = Front(tx)] ELSE buffers
    /\ todo' = Tail(todo)
    /\ UNCHANGED <<radio, reg, mode>>

Registers(s) ==
    CASE s = "shorts"      -> [reg EXCEPT !.txen = FALSE, !.end = TRUE]
      [] s = "shorts_txen" -> [reg EXCEPT !.txen = TRUE, !.end = TRUE]
      [] s = "no_shorts"   -> [reg EXCEPT !.txen = FALSE, !.end = FALSE]
      [] s = "int_off"     -> [reg EXCEPT !.inten = FALSE]
      [] s = "int_on"      -> [reg EXCEPT !.inten = TRUE]
      [] s = "clear"       -> [reg EXCEPT !.event = FALSE]
      [] s = "rx_packet"   -> [reg EXCEPT !.packet = "rx"]
      [] s = "tx_packet"   -> [reg EXCEPT !.packet = "tx"]
      [] s = "stop"        -> [reg EXCEPT !.event = TRUE]
      [] s \in {"rxen", "txen"} -> reg

\* A store to the radio's registers.  RXEN and TXEN start a disabled radio only.
Command ==
    LET s == Head(todo) IN
    /\ s \in {"shorts", "shorts_txen", "no_shorts", "int_off", "int_on", "clear", "rx_packet",
              "tx_packet", "stop", "rxen", "txen"}
    /\ reg' = Registers(s)
    /\ radio' = CASE s = "stop" -> Disabled(reg)
                  [] s = "rxen" /\ radio = "off" -> "rx"
                  [] s = "txen" /\ radio = "off" -> "tx"
                  [] OTHER -> radio
    /\ todo' = Tail(todo)
    /\ UNCHANGED <<driver, mode>>

\* nrf_delay_ms: longer than a packet, unless the radio sends one after the other.
Delay ==
    /\ Head(todo) = "delay"
    /\ radio = "tx" => reg.txen
    /\ todo' = Tail(todo)
    /\ UNCHANGED <<driver, radio, reg, mode>>

Return ==
    /\ Head(todo) \in {"listening", "sending"}
    /\ mode' = Head(todo)
    /\ todo' = Tail(todo)
    /\ UNCHANGED <<driver, radio, reg>>

MainRuns == handler = "off" /\ ~EventDue /\ ~InterruptDue

Main ==
    /\ MainRuns /\ todo # <<>>
    /\ Call \/ Assign \/ Command \/ Delay \/ Return
    /\ UNCHANGED <<handler, rx_payload, written, aired>>

-----------------------------------------------------------------------------
(***************************************************************************)
(* The application.                                                        *)
(***************************************************************************)
Turn(from, to, procedure) ==
    /\ MainRuns /\ todo = <<>>
    /\ mode = from \/ (Restarts /\ mode = to)
    /\ todo' = procedure
    /\ UNCHANGED <<driver, radio, reg, mode, handler, rx_payload>>

TurnToReceive == Turn("sending", "listening", radio_receive_mode) /\ UNCHANGED <<written, aired>>

TurnToTransmit == Turn("listening", "sending", radio_transmit_mode)
                  /\ written' = <<>> /\ aired' = <<>>

\* nrf_esb_write_payload, then a delay (radio_send_ack, the five requests) or the turn
\* to receive mode (radio_send_and_ack_message).
Write(payload) ==
    /\ MainRuns /\ todo = <<>> /\ mode = "sending"
    /\ Len(written) < MaxWrites
    /\ ~Full(tx)
    /\ tx' = Push(tx, payload)
    /\ written' = Append(written, payload)
    /\ \E rest \in {<<"delay">>, radio_receive_mode} : todo' = <<"auto">> \o rest
    /\ UNCHANGED <<rx, mainstate, on_radio_disabled, pipe_info, flags, evt, buffers,
                   radio, reg, mode, handler, rx_payload, aired>>

-----------------------------------------------------------------------------
\* main() after its first esb_init: the car starts to receive, the remote does not.
Init ==
    /\ tx = NewRing(None) /\ rx = NewRing(None)
    /\ mainstate = "idle" /\ on_radio_disabled = "none" /\ pipe_info = None
    /\ flags = {}
    /\ evt = [enabled |-> TRUE, pending |-> FALSE]
    /\ buffers = [tx |-> None, rx |-> None, good |-> TRUE]
    /\ radio = "off"
    /\ reg = [txen |-> FALSE, end |-> TRUE, inten |-> FALSE, event |-> FALSE,
              packet |-> "rx"]
    /\ handler = "off" /\ rx_payload = None
    /\ todo = IF Restarts THEN <<"start_rx", "delay", "listening">> ELSE <<>>
    /\ mode = "listening"
    /\ written = <<>> /\ aired = <<>>

Hardware == Sent \/ \E frame \in Frames, good \in BOOLEAN : Receive(frame, good)

EventIrq == TakeFlags \/ read_rx_payload

Application == TurnToReceive \/ TurnToTransmit \/ \E p \in Payloads : Write(p)

Next == Hardware \/ RadioIrq \/ EventIrq \/ Main \/ Application

EsbSpec == Init /\ [][Next]_vars
=============================================================================
