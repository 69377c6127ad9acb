-------------------------- MODULE EsbRemoteProofs --------------------------
(***************************************************************************)
(* The radio driver as the remote uses it: it reads until the FIFO is      *)
(* empty (Drains) and never enters a mode it is in (~Restarts).  Where     *)
(* main is in the driver's procedures decides what the radio and its       *)
(* interrupts can still do; the invariant says so phase by phase, and from *)
(* it the FIFOs stay queues, nothing received is left unread, and what is  *)
(* written is sent.                                                        *)
(***************************************************************************)
EXTENDS EsbProofs

\* What main has before it: sequences of statements.

\* What main can execute.
Statements == {"idle", "tx.entry", "tx.exit", "tx.count", "rx.entry", "rx.exit", "rx.count",
               "forget", "flags", "evt_off", "evt_on", "shorts", "shorts_txen", "no_shorts",
               "int_off", "int_on", "clear", "on_rx", "on_tx", "on_none", "rx_state", "tx_state",
               "rx_packet", "tx_packet", "rxen", "txen", "stop", "load", "disable", "init",
               "start_rx", "stop_rx", "start_tx", "auto", "delay", "listening", "sending"}

\* What is left of a procedure.
From(code, i) == SubSeq(code, i, Len(code))

\* What is left of it and of the one that called it.
Left(code, i, rest) == From(code, i) \o rest

\* What is left of a procedure, and of the one that called it, is one statement and
\* what is left then.
LEMMA Suffix ==
    ASSUME NEW code \in Seq(Statements), NEW rest \in Seq(Statements), NEW i \in 1 .. Len(code)
    PROVE  /\ Left(code, i, rest) \in Seq(Statements) /\ Left(code, i, rest) # <<>>
           /\ Head(Left(code, i, rest)) = code[i]
           /\ Tail(Left(code, i, rest)) = IF i = Len(code) THEN rest ELSE Left(code, i + 1, rest)
<1>. DEFINE s == From(code, i) \o rest
            t == From(code, i + 1) \o rest
<1>1. /\ From(code, i) \in Seq(Statements) /\ Len(From(code, i)) = Len(code) - i + 1
      /\ \A j \in 1 .. Len(code) - i + 1 : From(code, i)[j] = code[i + j - 1]
  <2>1. \A j \in i .. Len(code) : code[j] \in Statements
    BY ElementOfSeq
  <2>. QED  BY <2>1, SubSeqProperties DEF From
<1>2. /\ From(code, i + 1) \in Seq(Statements) /\ Len(From(code, i + 1)) = Len(code) - i
      /\ \A j \in 1 .. Len(code) - i : From(code, i + 1)[j] = code[i + j]
  <2>1. \A j \in i + 1 .. Len(code) : code[j] \in Statements
    BY ElementOfSeq
  <2>2. i + 1 \in Int /\ Len(code) \in Int
    OBVIOUS
  <2>3. /\ From(code, i + 1) \in Seq(Statements)
        /\ Len(From(code, i + 1)) = IF i + 1 <= Len(code) THEN Len(code) - (i + 1) + 1 ELSE 0
        /\ \A j \in 1 .. Len(code) - (i + 1) + 1 : From(code, i + 1)[j] = code[i + 1 + j - 1]
    BY <2>1, <2>2, SubSeqProperties DEF From
  <2>. QED  BY <2>3
<1>. HIDE DEF From
<1>3. /\ s \in Seq(Statements) /\ Len(s) = Len(code) - i + 1 + Len(rest)
      /\ \A j \in 1 .. Len(s) : s[j] = IF j <= Len(code) - i + 1 THEN code[i + j - 1]
                                       ELSE rest[j - (Len(code) - i + 1)]
  <2>. DEFINE left == From(code, i)
  <2>1. left \in Seq(Statements)
    BY <1>1
  <2>. HIDE DEF left
  <2>2. /\ left \o rest \in Seq(Statements) /\ Len(left \o rest) = Len(left) + Len(rest)
        /\ \A j \in 1 .. Len(left) + Len(rest) :
               (left \o rest)[j] = IF j <= Len(left) THEN left[j] ELSE rest[j - Len(left)]
    BY <2>1, ConcatProperties, Zenon
  <2>3. Len(left) = Len(code) - i + 1 /\ \A j \in 1 .. Len(code) - i + 1 : left[j] = code[i + j - 1]
    BY <1>1 DEF left
  <2>4. /\ left \o rest \in Seq(Statements) /\ Len(left \o rest) = Len(code) - i + 1 + Len(rest)
        /\ \A j \in 1 .. Len(left \o rest) :
               (left \o rest)[j] = IF j <= Len(code) - i + 1 THEN code[i + j - 1]
                                  ELSE rest[j - (Len(code) - i + 1)]
    BY <2>2, <2>3
  <2>. QED  BY <2>4 DEF left
<1>4. /\ t \in Seq(Statements) /\ Len(t) = Len(code) - i + Len(rest)
      /\ \A j \in 1 .. Len(t) : t[j] = IF j <= Len(code) - i THEN code[i + j]
                                       ELSE rest[j - (Len(code) - i)]
  <2>. DEFINE left == From(code, i + 1)
  <2>1. left \in Seq(Statements)
    BY <1>2
  <2>. HIDE DEF left
  <2>2. /\ left \o rest \in Seq(Statements) /\ Len(left \o rest) = Len(left) + Len(rest)
        /\ \A j \in 1 .. Len(left) + Len(rest) :
               (left \o rest)[j] = IF j <= Len(left) THEN left[j] ELSE rest[j - Len(left)]
    BY <2>1, ConcatProperties, Zenon
  <2>3. Len(left) = Len(code) - i /\ \A j \in 1 .. Len(code) - i : left[j] = code[i + j]
    BY <1>2 DEF left
  <2>4. /\ left \o rest \in Seq(Statements) /\ Len(left \o rest) = Len(code) - i + Len(rest)
        /\ \A j \in 1 .. Len(left \o rest) :
               (left \o rest)[j] = IF j <= Len(code) - i THEN code[i + j]
                                  ELSE rest[j - (Len(code) - i)]
    BY <2>2, <2>3
  <2>. QED  BY <2>4 DEF left
<1>. HIDE DEF s, t
<1>5. s # <<>> /\ Head(s) = s[1] /\ s[1] = code[i]
  BY <1>3
<1>6. /\ Tail(s) \in Seq(Statements) /\ Len(Tail(s)) = Len(s) - 1
      /\ \A j \in 1 .. Len(Tail(s)) : Tail(s)[j] = s[j + 1]
  BY <1>3, <1>5, HeadTailProperties
<1>7. CASE i = Len(code)
  <2>1. Len(Tail(s)) = Len(rest) /\ \A j \in 1 .. Len(rest) : Tail(s)[j] = rest[j]
    BY <1>3, <1>6, <1>7
  <2>2. Tail(s) = rest
    BY <1>6, <2>1, SeqEqual
  <2>. QED  BY <1>3, <1>5, <1>7, <2>2 DEF s, Left
<1>8. CASE i # Len(code)
  <2>1. Len(Tail(s)) = Len(t) /\ \A j \in 1 .. Len(t) : Tail(s)[j] = t[j]
    BY <1>3, <1>4, <1>6, <1>8
  <2>2. Tail(s) = t
    BY <1>4, <1>6, <2>1, SeqEqual
  <2>. QED  BY <1>3, <1>5, <1>8, <2>2 DEF s, t, Left
<1>. QED  BY <1>7, <1>8

\* The same of a procedure nobody called.
LEMMA Rest ==
    ASSUME NEW code \in Seq(Statements), NEW i \in 1 .. Len(code)
    PROVE  /\ From(code, i) \in Seq(Statements) /\ From(code, i) # <<>>
           /\ Head(From(code, i)) = code[i]
           /\ Tail(From(code, i)) = IF i = Len(code) THEN <<>> ELSE From(code, i + 1)
<1>1. \A j \in 1 .. Len(code) :
          From(code, j) \in Seq(Statements) /\ From(code, j) \o <<>> = From(code, j)
  <2>. SUFFICES ASSUME NEW j \in 1 .. Len(code)
                PROVE  From(code, j) \in Seq(Statements) /\ From(code, j) \o <<>> = From(code, j)
    OBVIOUS
  <2>1. \A n \in j .. Len(code) : code[n] \in Statements
    BY ElementOfSeq
  <2>2. From(code, j) \in Seq(Statements)
    BY <2>1, SubSeqProperties DEF From
  <2>. QED  BY <2>2, ConcatEmptySeq
<1>2. <<>> \in Seq(Statements)
  BY EmptySeq
<1>3. /\ From(code, i) \o <<>> # <<>> /\ Head(From(code, i) \o <<>>) = code[i]
      /\ Tail(From(code, i) \o <<>>) = IF i = Len(code) THEN <<>> ELSE From(code, i + 1) \o <<>>
  BY <1>2, Suffix DEF Left
<1>4. Len(code) \in Nat
  OBVIOUS
<1>. QED  BY <1>1, <1>3, <1>4

\* A procedure that is called is before main from its first statement on.
LEMMA Called ==
    ASSUME NEW code \in Seq(Statements), NEW rest \in Seq(Statements)
    PROVE  code = From(code, 1) /\ code \o rest = Left(code, 1, rest)
  BY SubSeqFull DEF From, Left

\* Three pieces of code, one after the other.
LEMMA Joined ==
    ASSUME NEW S, NEW a \in Seq(S), NEW b \in Seq(S), NEW c \in Seq(S)
    PROVE  /\ a \o b \o c \in Seq(S) /\ Len(a \o b \o c) = Len(a) + Len(b) + Len(c)
           /\ \A j \in 1 .. Len(a) + Len(b) + Len(c) :
                  (a \o b \o c)[j] = IF j <= Len(a) THEN a[j]
                                     ELSE IF j <= Len(a) + Len(b) THEN b[j - Len(a)]
                                     ELSE c[j - (Len(a) + Len(b))]
<1>. DEFINE ab == a \o b
<1>1. /\ ab \in Seq(S) /\ Len(ab) = Len(a) + Len(b)
      /\ \A j \in 1 .. Len(a) + Len(b) : ab[j] = IF j <= Len(a) THEN a[j] ELSE b[j - Len(a)]
  BY ConcatProperties
<1>. HIDE DEF ab
<1>2. /\ ab \o c \in Seq(S) /\ Len(ab \o c) = Len(ab) + Len(c)
      /\ \A j \in 1 .. Len(ab) + Len(c) :
             (ab \o c)[j] = IF j <= Len(ab) THEN ab[j] ELSE c[j - Len(ab)]
  <2>1. ab \in Seq(S)
    BY <1>1
  <2>. QED  BY <2>1, ConcatProperties, Zenon
<1>3. Len(a) \in Nat /\ Len(b) \in Nat /\ Len(c) \in Nat
  OBVIOUS
<1>4. \A j \in 1 .. Len(a) + Len(b) + Len(c) :
          (ab \o c)[j] = IF j <= Len(a) THEN a[j]
                        ELSE IF j <= Len(a) + Len(b) THEN b[j - Len(a)]
                        ELSE c[j - (Len(a) + Len(b))]
  BY <1>1, <1>2, <1>3
<1>. QED  BY <1>1, <1>2, <1>4 DEF ab

\* The statements of each procedure, by their number: nrf_esb.c:329-338.
LEMMA ResetCode ==
    /\ reset_fifos \in Seq(Statements) /\ Len(reset_fifos) = 6
    /\ reset_fifos[1] = "tx.entry" /\ reset_fifos[2] = "tx.exit" /\ reset_fifos[3] = "tx.count"
    /\ reset_fifos[4] = "rx.entry" /\ reset_fifos[5] = "rx.exit" /\ reset_fifos[6] = "rx.count"
  BY DEF reset_fifos, Statements

\* nrf_esb.c:914-935, which calls it.
LEMMA DisableCode ==
    /\ disable \in Seq(Statements) /\ Len(disable) = 10
    /\ disable[1] = "idle"
    /\ disable[2] = "tx.entry" /\ disable[3] = "tx.exit" /\ disable[4] = "tx.count"
    /\ disable[5] = "rx.entry" /\ disable[6] = "rx.exit" /\ disable[7] = "rx.count"
    /\ disable[8] = "forget" /\ disable[9] = "evt_off" /\ disable[10] = "shorts"
<1>. DEFINE a == <<"idle">>
            c == <<"forget", "evt_off", "shorts">>
            code == a \o reset_fifos \o c
<1>1. /\ a \in Seq(Statements) /\ Len(a) = 1 /\ a[1] = "idle"
      /\ c \in Seq(Statements) /\ Len(c) = 3
      /\ c[1] = "forget" /\ c[2] = "evt_off" /\ c[3] = "shorts"
      /\ disable = code
  BY DEF disable, Statements
<1>. HIDE DEF a, c, code
<1>2. /\ code \in Seq(Statements) /\ Len(code) = Len(a) + Len(reset_fifos) + Len(c)
      /\ \A j \in 1 .. Len(a) + Len(reset_fifos) + Len(c) :
             code[j] = IF j <= Len(a) THEN a[j]
                       ELSE IF j <= Len(a) + Len(reset_fifos) THEN reset_fifos[j - Len(a)]
                       ELSE c[j - (Len(a) + Len(reset_fifos))]
  <2>1. a \in Seq(Statements) /\ reset_fifos \in Seq(Statements) /\ c \in Seq(Statements)
    BY <1>1, ResetCode
  <2>. QED  BY <2>1, Joined DEF code
<1>3. Len(a) = 1 /\ Len(reset_fifos) = 6 /\ Len(c) = 3 /\ disable = code
  BY <1>1, ResetCode
<1>4. /\ disable \in Seq(Statements) /\ Len(disable) = 10
      /\ \A j \in 1 .. 10 : disable[j] = IF j <= 1 THEN a[j]
                                     ELSE IF j <= 7 THEN reset_fifos[j - 1] ELSE c[j - 7]
  BY <1>2, <1>3
<1>. QED  BY <1>1, <1>4, ResetCode

\* nrf_esb.c:855-895, which calls both.
LEMMA InitCode ==
    /\ init \in Seq(Statements) /\ Len(init) = 11
    /\ init[1] = "disable" /\ init[2] = "flags" /\ init[3] = "forget"
    /\ init[4] = "tx.entry" /\ init[5] = "tx.exit" /\ init[6] = "tx.count"
    /\ init[7] = "rx.entry" /\ init[8] = "rx.exit" /\ init[9] = "rx.count"
    /\ init[10] = "evt_on" /\ init[11] = "idle"
<1>. DEFINE a == <<"disable", "flags", "forget">>
            c == <<"evt_on", "idle">>
            code == a \o reset_fifos \o c
<1>1. /\ a \in Seq(Statements) /\ Len(a) = 3
      /\ a[1] = "disable" /\ a[2] = "flags" /\ a[3] = "forget"
      /\ c \in Seq(Statements) /\ Len(c) = 2 /\ c[1] = "evt_on" /\ c[2] = "idle"
      /\ init = code
  BY DEF init, Statements
<1>. HIDE DEF a, c, code
<1>2. /\ code \in Seq(Statements) /\ Len(code) = Len(a) + Len(reset_fifos) + Len(c)
      /\ \A j \in 1 .. Len(a) + Len(reset_fifos) + Len(c) :
             code[j] = IF j <= Len(a) THEN a[j]
                       ELSE IF j <= Len(a) + Len(reset_fifos) THEN reset_fifos[j - Len(a)]
                       ELSE c[j - (Len(a) + Len(reset_fifos))]
  <2>1. a \in Seq(Statements) /\ reset_fifos \in Seq(Statements) /\ c \in Seq(Statements)
    BY <1>1, ResetCode
  <2>. QED  BY <2>1, Joined DEF code
<1>3. Len(a) = 3 /\ Len(reset_fifos) = 6 /\ Len(c) = 2 /\ init = code
  BY <1>1, ResetCode
<1>4. /\ init \in Seq(Statements) /\ Len(init) = 11
      /\ \A j \in 1 .. 11 : init[j] = IF j <= 3 THEN a[j]
                                     ELSE IF j <= 9 THEN reset_fifos[j - 3] ELSE c[j - 9]
  BY <1>2, <1>3
<1>. QED  BY <1>1, <1>4, ResetCode

\* nrf_esb.c:1060-1086.
LEMMA StartCode ==
    /\ start_rx \in Seq(Statements) /\ Len(start_rx) = 9
    /\ start_rx[1] = "int_off" /\ start_rx[2] = "clear" /\ start_rx[3] = "on_rx"
    /\ start_rx[4] = "shorts_txen" /\ start_rx[5] = "int_on" /\ start_rx[6] = "rx_state"
    /\ start_rx[7] = "rx_packet" /\ start_rx[8] = "clear" /\ start_rx[9] = "rxen"
  BY DEF start_rx, Statements

\* nrf_esb.c:1089-1105.
LEMMA StopCode ==
    /\ stop_rx \in Seq(Statements) /\ Len(stop_rx) = 6
    /\ stop_rx[1] = "no_shorts" /\ stop_rx[2] = "int_off" /\ stop_rx[3] = "on_none"
    /\ stop_rx[4] = "clear" /\ stop_rx[5] = "stop" /\ stop_rx[6] = "idle"
  BY DEF stop_rx, Statements

\* nrf_esb.c:452-525, for a payload without acknowledge.
LEMMA SendCode ==
    LET code == start_tx_transaction IN
    /\ code \in Seq(Statements) /\ Len(code) = 8
    /\ code[1] = "load" /\ code[2] = "shorts" /\ code[3] = "int_on" /\ code[4] = "on_tx"
    /\ code[5] = "tx_state" /\ code[6] = "tx_packet" /\ code[7] = "clear" /\ code[8] = "txen"
  BY DEF start_tx_transaction, Statements

\* rc_remote_propritary/main.c:159-166.
LEMMA ReceiveCode ==
    LET code == radio_receive_mode IN
    /\ code \in Seq(Statements) /\ Len(code) = 7
    /\ code[1] = "disable" /\ code[2] = "delay" /\ code[3] = "init" /\ code[4] = "delay"
    /\ code[5] = "start_rx" /\ code[6] = "delay" /\ code[7] = "listening"
  BY DEF radio_receive_mode, Statements

\* rc_remote_propritary/main.c:168-177.
LEMMA TransmitCode ==
    LET code == radio_transmit_mode IN
    /\ code \in Seq(Statements) /\ Len(code) = 10
    /\ code[1] = "delay" /\ code[2] = "stop_rx" /\ code[3] = "delay" /\ code[4] = "disable"
    /\ code[5] = "delay" /\ code[6] = "init" /\ code[7] = "delay" /\ code[8] = "start_tx"
    /\ code[9] = "delay" /\ code[10] = "sending"
  BY DEF radio_transmit_mode, Statements

\* A call puts main before the first statement of what it calls.
LEMMA Calling ==
    ASSUME NEW rest \in Seq(Statements)
    PROVE  /\ disable \o rest = Left(disable, 1, rest) /\ init \o rest = Left(init, 1, rest)
           /\ start_rx \o rest = Left(start_rx, 1, rest)
           /\ stop_rx \o rest = Left(stop_rx, 1, rest)
           /\ start_tx_transaction \o rest = Left(start_tx_transaction, 1, rest)
           /\ <<>> \o rest = rest
<1>1. \A code \in Seq(Statements) : code \o rest = Left(code, 1, rest)
  BY Called
<1>2. <<>> \o rest = rest
  BY ConcatEmptySeq
<1>. QED  BY <1>1, <1>2, DisableCode, InitCode, StartCode, StopCode, SendCode

\* After statement i of a procedure of n that the application called comes the next one.
Follows(code, n) ==
    \A i \in 1 .. n :
        /\ From(code, i) \in Seq(Statements) /\ From(code, i) # <<>>
        /\ Head(From(code, i)) = code[i]
        /\ Tail(From(code, i)) = IF i = n THEN <<>> ELSE From(code, i + 1)

\* The same of a procedure that a procedure called, which goes on with rest.
FollowsIn(code, n) ==
    \A i \in 1 .. n, rest \in Seq(Statements) :
        /\ Left(code, i, rest) \in Seq(Statements) /\ Left(code, i, rest) # <<>>
        /\ Head(Left(code, i, rest)) = code[i]
        /\ Tail(Left(code, i, rest)) = IF i = n THEN rest ELSE Left(code, i + 1, rest)

\* Where main gets to from each of the statements.
LEMMA Steps ==
    /\ Follows(radio_receive_mode, 7) /\ Follows(radio_transmit_mode, 10)
    /\ FollowsIn(disable, 10) /\ FollowsIn(init, 11) /\ FollowsIn(start_rx, 9)
    /\ FollowsIn(stop_rx, 6) /\ FollowsIn(start_tx_transaction, 8)
<1>1. \A code \in Seq(Statements) : Follows(code, Len(code))
  BY Rest DEF Follows
<1>2. \A code \in Seq(Statements) : FollowsIn(code, Len(code))
  BY Suffix DEF FollowsIn
<1>. QED  BY <1>1, <1>2, ReceiveCode, TransmitCode, DisableCode, InitCode, StartCode, StopCode,
             SendCode

-----------------------------------------------------------------------------
\* The phases of the remote's main.

\* What has been received is about to be read, or its event is pending.
Unread == rx.count > 0 =>
    \/ handler = "read"
    \/ evt.pending /\ evt.enabled /\ "rx_received" \in flags

\* The histories hold payloads, and what is written stays within the bound.
Counted == written \in Seq(Payloads) /\ Len(written) <= MaxWrites /\ aired \in Seq(Payloads)

\* The radio receives, or has begun to ramp up its transmitter and waits for the interrupt
\* that turns it round.
Hearing ==
    /\ on_radio_disabled = "rx" /\ mainstate = "rx" /\ evt.enabled
    /\ reg.inten /\ reg.txen /\ reg.end /\ reg.packet = "rx"
    /\ \/ radio = "rx" /\ ~reg.event
       \/ radio = "tx" /\ reg.event

\* The radio is off, and no interrupt of it is due.
Silent ==
    /\ radio = "off"
    /\ \/ on_radio_disabled = "none" /\ ~reg.inten
       \/ on_radio_disabled = "tx" /\ reg.inten /\ ~reg.event

\* Neither the radio nor an interrupt touches the driver: main has it for itself.
Quiet == Silent /\ mainstate = "idle" /\ rx.count = 0 /\ aired = written

\* Before the remote has sent for the first time, its radio has never been started.
Cold == mainstate = "idle" /\ on_radio_disabled = "none" /\ radio = "off" /\ ~reg.inten

\* The one payload in the FIFO is in the air, or has been.
Airing ==
    /\ on_radio_disabled = "tx" /\ reg.inten /\ ~reg.txen /\ rx.count = 0 /\ tx.count <= 1
    /\ \/ /\ radio = "tx" /\ ~reg.event /\ reg.packet = "tx"
          /\ Append(aired, buffers.tx) = written
       \/ radio = "off" /\ aired = written

\* What the application relies on between two procedures, or nearly.
Clean == InOrder(tx) /\ tx.count = 0 /\ InOrder(rx)

\* What the stores of nrf_esb_init before its i-th statement have left.
Zeroed(i) ==
    /\ i > 4 => tx.entry = 0
    /\ i > 5 => tx.exit = 0
    /\ i > 6 => tx.count = 0
    /\ i > 7 => rx.entry = 0
    /\ i > 8 => rx.exit = 0
    /\ i > 9 => rx.count = 0
    /\ i > 10 => evt.enabled

\* All of them.
Emptied == Zeroed(12)

\* Main is in nrf_esb_disable, or in nrf_esb_init, and will go on with rest.
Disabling(rest) == \E i \in 1 .. Len(disable) : todo = Left(disable, i, rest)
Initialising(rest) ==
    \/ Disabling(Left(init, 2, rest))
    \/ \E i \in 1 .. Len(init) : todo = Left(init, i, rest) /\ Zeroed(i)

\* The remote listens, has not yet begun to stop, or has just started.
Listening ==
    /\ Clean /\ aired = written
    /\ \/ /\ mode = "listening"
          /\ Hearing \/ Cold
          /\ todo = <<>> \/ \E k \in 1 .. 2 : todo = From(radio_transmit_mode, k)
       \/ /\ mode = "sending" /\ Hearing
          /\ \E k \in 6 .. 7 : todo = From(radio_receive_mode, k)

\* It is in nrf_esb_stop_rx.  The shortcuts go first: from then on a packet that
\* arrives raises no event.
Stopping ==
    /\ mode = "listening" /\ Clean /\ aired = written
    /\ \E i \in 1 .. Len(stop_rx) :
        /\ todo = Left(stop_rx, i, From(radio_transmit_mode, 3))
        /\ mainstate = "rx"
        /\ i = 1 => Hearing
        /\ i > 1 => rx.count = 0 /\ ~reg.txen /\ ~reg.end
        /\ i > 2 => ~reg.inten
        /\ on_radio_disabled = IF i > 3 THEN "none" ELSE "rx"
        /\ i \in 2 .. 5 => radio \in {"rx", "ended"} /\ ~reg.event
        /\ i = 6 => radio = "off"

\* It turns to transmit with the radio off.
ToTransmit ==
    /\ mode = "listening" /\ Quiet
    /\ \/ \E k \in 3 .. 6 : todo = From(radio_transmit_mode, k)
       \/ Disabling(From(radio_transmit_mode, 5))
       \/ Initialising(From(radio_transmit_mode, 7))
       \/ \E k \in 7 .. 10 : todo = From(radio_transmit_mode, k) /\ Emptied

\* It is between two writes.
Resting == mode = "sending" /\ todo = <<>> /\ Quiet /\ Clean

\* What a write is followed by: a delay, or the turn to receive.
Rests == {<<"delay">>, radio_receive_mode}

\* It is in start_tx_transaction: only the order of its stores decides whether an old event
\* meets the new handler.
Loading ==
    /\ mode = "sending" /\ radio = "off"
    /\ InOrder(tx) /\ tx.count = 1 /\ InOrder(rx) /\ rx.count = 0
    /\ \/ /\ \E rest \in Rests : todo = <<"auto">> \o rest
          /\ Silent /\ mainstate = "idle" /\ Append(aired, Front(tx)) = written
       \/ \E rest \in Rests, i \in 1 .. Len(start_tx_transaction) :
            /\ todo = Left(start_tx_transaction, i, rest)
            /\ Append(aired, IF i = 1 THEN Front(tx) ELSE buffers.tx) = written
            /\ i <= 3 => Silent
            /\ i > 2 => ~reg.txen
            /\ i > 3 => reg.inten
            /\ i = 4 => on_radio_disabled = "none" \/ (on_radio_disabled = "tx" /\ ~reg.event)
            /\ i > 4 => on_radio_disabled = "tx" /\ ~reg.event
            /\ i > 6 => reg.packet = "tx"

\* It waits while the payload is in the air.
Flying ==
    /\ mode = "sending" /\ todo = <<"delay">> /\ Airing
    /\ InOrder(tx) /\ InOrder(rx)
    /\ (radio = "off" /\ ~reg.event) => tx.count = 0 /\ mainstate = "idle"

\* It turns to receive; until the first delay has passed, a payload may still be in the air,
\* and its interrupt still meets a FIFO that nrf_esb_disable resets under it.
Leaving ==
    /\ mode = "sending"
    /\ Airing \/ Quiet
    /\ \/ todo = radio_receive_mode
       \/ \E i \in 1 .. Len(disable) :
             /\ todo = Left(disable, i, From(radio_receive_mode, 2))
             /\ i > 1 => mainstate = "idle"
       \/ todo = From(radio_receive_mode, 2) /\ mainstate = "idle"

\* It turns to receive with the radio off.
ToReceive ==
    /\ mode = "sending" /\ Quiet
    /\ \/ todo = From(radio_receive_mode, 3)
       \/ Initialising(From(radio_receive_mode, 4))
       \/ \E k \in 4 .. 5 : todo = From(radio_receive_mode, k) /\ Emptied

\* It is in nrf_esb_start_rx.
Starting ==
    /\ mode = "sending" /\ Emptied /\ aired = written /\ radio = "off"
    /\ \E i \in 1 .. Len(start_rx) :
        /\ todo = Left(start_rx, i, From(radio_receive_mode, 6))
        /\ i = 1 => Silent
        /\ i \in 2 .. 5 => ~reg.inten
        /\ i > 2 => ~reg.event
        /\ i > 3 => on_radio_disabled = "rx"
        /\ i > 4 => reg.txen /\ reg.end
        /\ i > 5 => reg.inten
        /\ i > 6 => mainstate = "rx"
        /\ i > 7 => reg.packet = "rx"

\* Main is somewhere.
Phase == \/ Listening \/ Stopping \/ ToTransmit \/ Resting \/ Loading \/ Flying \/ Leaving
         \/ ToReceive \/ Starting

\* The inductive invariant.
RemoteInv == EsbTypeOK /\ Counted /\ Unread /\ Phase

\* What a statement does to everything the phases speak of.
Effect(s, t) ==
    /\ todo' = IF s \in Calls THEN Body(s) \o t ELSE t
    /\ UNCHANGED <<handler, written, aired>>
    /\ mode' = IF s \in {"listening", "sending"} THEN s ELSE mode
    /\ s \notin {"tx.entry", "tx.exit", "tx.count"} => tx' = tx
    /\ tx'.entry = IF s = "tx.entry" THEN 0 ELSE tx.entry
    /\ tx'.exit = IF s = "tx.exit" THEN 0 ELSE tx.exit
    /\ tx'.count = IF s = "tx.count" THEN 0 ELSE tx.count
    /\ s \notin {"rx.entry", "rx.exit", "rx.count"} => rx' = rx
    /\ rx'.entry = IF s = "rx.entry" THEN 0 ELSE rx.entry
    /\ rx'.exit = IF s = "rx.exit" THEN 0 ELSE rx.exit
    /\ rx'.count = IF s = "rx.count" THEN 0 ELSE rx.count
    /\ mainstate' = IF s = "idle" THEN "idle" ELSE IF s = "rx_state" THEN "rx"
                    ELSE IF s = "tx_state" THEN "tx" ELSE mainstate
    /\ on_radio_disabled' = IF s = "on_rx" THEN "rx" ELSE IF s = "on_tx" THEN "tx"
                            ELSE IF s = "on_none" THEN "none" ELSE on_radio_disabled
    /\ evt'.enabled = IF s = "evt_on" THEN TRUE ELSE IF s = "evt_off" THEN FALSE
                      ELSE evt.enabled
    /\ buffers'.tx = IF s = "load" THEN Front(tx) ELSE buffers.tx
    /\ reg'.txen = IF s = "shorts_txen" THEN TRUE
                   ELSE IF s \in {"shorts", "no_shorts"} THEN FALSE ELSE reg.txen
    /\ reg'.end = IF s \in {"shorts", "shorts_txen"} THEN TRUE
                  ELSE IF s = "no_shorts" THEN FALSE ELSE reg.end
    /\ reg'.inten = IF s = "int_on" THEN TRUE ELSE IF s = "int_off" THEN FALSE
                    ELSE reg.inten
    /\ reg'.event = IF s = "stop" THEN TRUE ELSE IF s = "clear" THEN FALSE ELSE reg.event
    /\ reg'.packet = IF s = "rx_packet" THEN "rx" ELSE IF s = "tx_packet" THEN "tx"
                     ELSE reg.packet
    /\ radio' = IF s = "stop" THEN Disabled(reg)
                ELSE IF s = "rxen" /\ radio = "off" THEN "rx"
                ELSE IF s = "txen" /\ radio = "off" THEN "tx" ELSE radio
    /\ s = "delay" /\ radio = "tx" => reg.txen

\* Every step of main is such a statement.
LEMMA Executes ==
    ASSUME EsbTypeOK, Main
    PROVE  Effect(Head(todo), Tail(todo))
<1>. DEFINE s == Head(todo)
            t == Tail(todo)
<1>. SUFFICES Effect(s, t)
  OBVIOUS
<1>0. /\ handler' = handler /\ written' = written /\ aired' = aired
      /\ tx \in Rings(Payloads \cup {None}) /\ rx \in Rings(Frames \cup {None})
      /\ reg \in Registered /\ buffers \in Buffered /\ evt \in EventBits
  BY DEF Main, EsbTypeOK, Registered, Buffered, EventBits
<1>1. CASE Call
  BY <1>0, <1>1 DEF Effect, Call, Calls, driver
<1>2. CASE Assign
  <2>0. /\ s \notin Calls /\ s \notin {"listening", "sending", "stop", "rxen", "txen", "delay"}
        /\ s \notin {"shorts", "shorts_txen", "no_shorts", "int_on", "int_off", "clear"}
        /\ s \notin {"rx_packet", "tx_packet"}
        /\ todo' = Tail(todo) /\ UNCHANGED <<radio, reg, mode>>
    BY <1>2 DEF Assign, Calls
  <2>1. /\ s \notin {"tx.entry", "tx.exit", "tx.count"} => tx' = tx
        /\ tx'.entry = IF s = "tx.entry" THEN 0 ELSE tx.entry
        /\ tx'.exit = IF s = "tx.exit" THEN 0 ELSE tx.exit
        /\ tx'.count = IF s = "tx.count" THEN 0 ELSE tx.count
    BY <1>0, <1>2 DEF Assign, Rings
  <2>2. /\ s \notin {"rx.entry", "rx.exit", "rx.count"} => rx' = rx
        /\ rx'.entry = IF s = "rx.entry" THEN 0 ELSE rx.entry
        /\ rx'.exit = IF s = "rx.exit" THEN 0 ELSE rx.exit
        /\ rx'.count = IF s = "rx.count" THEN 0 ELSE rx.count
    BY <1>0, <1>2 DEF Assign, Rings
  <2>3. /\ mainstate' = IF s = "idle" THEN "idle" ELSE IF s = "rx_state" THEN "rx"
                        ELSE IF s = "tx_state" THEN "tx" ELSE mainstate
        /\ on_radio_disabled' = IF s = "on_rx" THEN "rx" ELSE IF s = "on_tx" THEN "tx"
                                ELSE IF s = "on_none" THEN "none" ELSE on_radio_disabled
    BY <1>2 DEF Assign
  <2>4. evt'.enabled = IF s = "evt_on" THEN TRUE ELSE IF s = "evt_off" THEN FALSE
                       ELSE evt.enabled
    BY <1>0, <1>2 DEF Assign, EventBits
  <2>5. buffers'.tx = IF s = "load" THEN Front(tx) ELSE buffers.tx
    BY <1>0, <1>2 DEF Assign, Buffered
  <2>. QED  BY <1>0, <2>0, <2>1, <2>2, <2>3, <2>4, <2>5 DEF Effect
<1>3. CASE Command
  <2>0. /\ s \notin Calls /\ s \notin {"listening", "sending", "delay", "load", "evt_on", "evt_off"}
        /\ s \notin {"tx.entry", "tx.exit", "tx.count", "rx.entry", "rx.exit", "rx.count"}
        /\ s \notin {"idle", "rx_state", "tx_state", "on_rx", "on_tx", "on_none"}
        /\ todo' = Tail(todo)
        /\ UNCHANGED <<mode, tx, rx, mainstate, on_radio_disabled, evt, buffers>>
    BY <1>3 DEF Command, Calls, driver
  <2>1. /\ reg'.txen = IF s = "shorts_txen" THEN TRUE
                       ELSE IF s \in {"shorts", "no_shorts"} THEN FALSE ELSE reg.txen
        /\ reg'.end = IF s \in {"shorts", "shorts_txen"} THEN TRUE
                      ELSE IF s = "no_shorts" THEN FALSE ELSE reg.end
        /\ reg'.inten = IF s = "int_on" THEN TRUE ELSE IF s = "int_off" THEN FALSE
                        ELSE reg.inten
        /\ reg'.event = IF s = "stop" THEN TRUE ELSE IF s = "clear" THEN FALSE ELSE reg.event
        /\ reg'.packet = IF s = "rx_packet" THEN "rx" ELSE IF s = "tx_packet" THEN "tx"
                         ELSE reg.packet
    BY <1>0, <1>3 DEF Command, Registers, Registered
  <2>2. radio' = IF s = "stop" THEN Disabled(reg)
                 ELSE IF s = "rxen" /\ radio = "off" THEN "rx"
                 ELSE IF s = "txen" /\ radio = "off" THEN "tx" ELSE radio
    BY <1>3 DEF Command
  <2>. QED  BY <1>0, <2>0, <2>1, <2>2 DEF Effect
<1>4. CASE Delay
  BY <1>0, <1>4 DEF Effect, Delay, Calls, driver
<1>5. CASE Return
  BY <1>0, <1>5 DEF Effect, Return, Calls, driver
<1>. QED  BY <1>1, <1>2, <1>3, <1>4, <1>5 DEF Main

\* Main runs only when what has been received is read.
LEMMA MainFindsEmpty ==
    ASSUME EsbTypeOK, Unread, MainRuns
    PROVE  rx.count = 0 /\ ~(reg.inten /\ reg.event)
<1>1. rx.count \in Nat
  BY RingNumbers DEF EsbTypeOK
<1>. QED  BY <1>1 DEF Unread, MainRuns, EventDue, InterruptDue

-----------------------------------------------------------------------------
\* Main's own steps, phase by phase.

\* From listening main gets to nrf_esb_stop_rx, or past it if it never started.
LEMMA ListeningMoves ==
    ASSUME EsbTypeOK, Unread, Main, Listening
    PROVE  Listening' \/ Stopping' \/ ToTransmit'
<1>. DEFINE s == Head(todo)
            t == Tail(todo)
<1>1. rx.count = 0 /\ ~(reg.inten /\ reg.event) /\ todo # <<>> /\ Effect(s, t)
  BY MainFindsEmpty, Executes DEF Main
<1>2. \/ mode = "listening" /\ todo = From(radio_transmit_mode, 1)
      \/ mode = "listening" /\ todo = From(radio_transmit_mode, 2)
      \/ mode = "sending" /\ Hearing /\ todo = From(radio_receive_mode, 6)
      \/ mode = "sending" /\ Hearing /\ todo = From(radio_receive_mode, 7)
  BY <1>1 DEF Listening
<1>3. /\ todo = From(radio_transmit_mode, 1) => s = "delay" /\ t = From(radio_transmit_mode, 2)
      /\ todo = From(radio_transmit_mode, 2) => s = "stop_rx" /\ t = From(radio_transmit_mode, 3)
      /\ todo = From(radio_receive_mode, 6) => s = "delay" /\ t = From(radio_receive_mode, 7)
      /\ todo = From(radio_receive_mode, 7) => s = "listening" /\ t = <<>>
  <2>1. ASSUME NEW k \in 1 .. 2, todo = From(radio_transmit_mode, k)
        PROVE  s = radio_transmit_mode[k] /\ t = From(radio_transmit_mode, k + 1)
    <3>1. Follows(radio_transmit_mode, 10) /\ k \in 1 .. 10 /\ k # 10
      BY Steps
    <3>. QED  BY <2>1, <3>1, Zenon DEF Follows
  <2>2. ASSUME NEW k \in 6 .. 7, todo = From(radio_receive_mode, k)
        PROVE  /\ s = radio_receive_mode[k]
               /\ t = IF k = 7 THEN <<>> ELSE From(radio_receive_mode, k + 1)
    <3>1. Follows(radio_receive_mode, 7) /\ k \in 1 .. 7
      BY Steps
    <3>. QED  BY <2>2, <3>1, Zenon DEF Follows
  <2>. HIDE DEF s, t
  <2>. QED  BY <2>1, <2>2, TransmitCode, ReceiveCode
<1>4. From(radio_transmit_mode, 3) \in Seq(Statements)
  BY Steps DEF Follows
<1>. HIDE DEF s, t
<1>5. Clean' /\ aired' = written'
  BY <1>1, <1>2, <1>3 DEF Effect, Listening, Clean, InOrder
<1>6. CASE s = "delay"
  <2>1. todo' = t /\ mode' = mode /\ (Hearing => Hearing') /\ (Cold => Cold')
    BY <1>1, <1>6 DEF Effect, Hearing, Cold, Calls
  <2>. QED  BY <1>2, <1>3, <1>5, <1>6, <2>1 DEF Listening
<1>7. CASE s = "listening"
  <2>1. todo' = t /\ mode' = "listening" /\ (Hearing => Hearing')
    BY <1>1, <1>7 DEF Effect, Hearing, Calls
  <2>. QED  BY <1>2, <1>3, <1>5, <1>7, <2>1 DEF Listening
<1>8. CASE s = "stop_rx"
  <2>1. /\ todo' = (IF mainstate = "rx" THEN stop_rx ELSE <<>>) \o t
        /\ mode' = mode /\ rx' = rx /\ mainstate' = mainstate /\ radio' = radio
        /\ on_radio_disabled' = on_radio_disabled
        /\ reg'.inten = reg.inten /\ reg'.event = reg.event
        /\ Hearing => Hearing'
    BY <1>1, <1>8 DEF Effect, Calls, Body, Hearing
  <2>2. /\ mode = "listening" /\ t = From(radio_transmit_mode, 3)
        /\ Hearing \/ Cold
    BY <1>2, <1>3, <1>8 DEF Listening
  <2>3. CASE Hearing
    <3>1. todo' = Left(stop_rx, 1, From(radio_transmit_mode, 3))
      <4>1. todo' = stop_rx \o From(radio_transmit_mode, 3)
        BY <2>1, <2>2, <2>3 DEF Hearing
      <4>. QED  BY <1>4, <4>1, Calling
    <3>. QED  BY <1>5, <2>1, <2>2, <2>3, <3>1, StopCode DEF Stopping, Hearing
  <2>4. CASE Cold
    <3>1. todo' = From(radio_transmit_mode, 3)
      <4>1. todo' = <<>> \o From(radio_transmit_mode, 3)
        BY <2>1, <2>2, <2>4 DEF Cold
      <4>. QED  BY <1>4, <4>1, Calling
    <3>2. Quiet' /\ mode' = "listening"
      BY <1>1, <1>5, <2>1, <2>2, <2>4 DEF Quiet, Silent, Cold
    <3>. QED  BY <3>1, <3>2 DEF ToTransmit
  <2>. QED  BY <2>2, <2>3, <2>4
<1>. QED  BY <1>2, <1>3, <1>6, <1>7, <1>8

\* nrf_esb_stop_rx leaves the radio off and quiet.
LEMMA StoppingMoves ==
    ASSUME EsbTypeOK, Unread, Main, Stopping
    PROVE  Stopping' \/ ToTransmit'
<1>. DEFINE s == Head(todo)
            t == Tail(todo)
<1>1. rx.count = 0 /\ ~(reg.inten /\ reg.event) /\ Effect(s, t)
  BY MainFindsEmpty, Executes DEF Main
<1>2. PICK i \in 1 .. 6 :
        /\ todo = Left(stop_rx, i, From(radio_transmit_mode, 3))
        /\ mainstate = "rx"
        /\ i = 1 => Hearing
        /\ i > 1 => rx.count = 0 /\ ~reg.txen /\ ~reg.end
        /\ i > 2 => ~reg.inten
        /\ on_radio_disabled = IF i > 3 THEN "none" ELSE "rx"
        /\ i \in 2 .. 5 => radio \in {"rx", "ended"} /\ ~reg.event
        /\ i = 6 => radio = "off"
  BY StopCode DEF Stopping
<1>3. From(radio_transmit_mode, 3) \in Seq(Statements)
  BY Steps DEF Follows
<1>4. /\ s = stop_rx[i]
      /\ t = IF i = 6 THEN From(radio_transmit_mode, 3)
                      ELSE Left(stop_rx, i + 1, From(radio_transmit_mode, 3))
  BY <1>2, <1>3, Steps DEF FollowsIn
<1>5. \/ i = 1 /\ s = "no_shorts"
      \/ i = 2 /\ s = "int_off"
      \/ i = 3 /\ s = "on_none"
      \/ i = 4 /\ s = "clear"
      \/ i = 5 /\ s = "stop"
      \/ i = 6 /\ s = "idle"
  BY <1>4, StopCode
<1>. HIDE DEF s, t
<1>6. todo' = t /\ mode' = "listening" /\ Clean' /\ aired' = written' /\ rx'.count = 0
  BY <1>1, <1>5 DEF Effect, Stopping, Clean, InOrder, Calls
<1>7. CASE i < 6
  <2>. DEFINE n == i + 1
  <2>1. n \in 1 .. 6 /\ todo' = Left(stop_rx, n, From(radio_transmit_mode, 3))
    BY <1>4, <1>6, <1>7
  <2>2. /\ mainstate' = "rx" /\ n # 1
        /\ n > 1 => rx'.count = 0 /\ ~reg'.txen /\ ~reg'.end
        /\ n > 2 => ~reg'.inten
        /\ on_radio_disabled' = IF n > 3 THEN "none" ELSE "rx"
        /\ n \in 2 .. 5 => radio' \in {"rx", "ended"} /\ ~reg'.event
        /\ n = 6 => radio' = "off"
    BY <1>1, <1>2, <1>5, <1>6, <1>7 DEF Effect, Hearing, Disabled
  <2>. HIDE DEF n
  <2>. QED  BY <1>6, <2>1, <2>2, StopCode DEF Stopping
<1>8. CASE i = 6
  <2>1. Quiet' /\ todo' = From(radio_transmit_mode, 3)
    BY <1>1, <1>2, <1>4, <1>5, <1>6, <1>8 DEF Effect, Quiet, Silent
  <2>. QED  BY <1>6, <2>1 DEF ToTransmit
<1>. QED  BY <1>7, <1>8

\* nrf_esb_disable on a quiet driver keeps it quiet.
LEMMA DisablingMoves ==
    ASSUME EsbTypeOK, Main, Quiet, NEW rest \in Seq(Statements), Disabling(rest)
    PROVE  Quiet' /\ mode' = mode /\ (Disabling(rest)' \/ todo' = rest)
<1>. DEFINE s == Head(todo)
            t == Tail(todo)
<1>1. Effect(s, t)
  BY Executes
<1>2. PICK i \in 1 .. 10 : todo = Left(disable, i, rest)
  BY DisableCode DEF Disabling
<1>3. s = disable[i] /\ t = IF i = 10 THEN rest ELSE Left(disable, i + 1, rest)
  BY <1>2, Steps DEF FollowsIn
<1>. HIDE DEF s, t
<1>4. s \in {"idle", "tx.entry", "tx.exit", "tx.count", "rx.entry", "rx.exit", "rx.count",
             "forget", "evt_off", "shorts"}
  BY <1>3, DisableCode
<1>5. Quiet' /\ mode' = mode /\ todo' = t
  BY <1>1, <1>4 DEF Effect, Calls, Quiet, Silent
<1>6. t = rest \/ \E n \in 1 .. 10 : t = Left(disable, n, rest)
  <2>. DEFINE n == i + 1
  <2>1. i = 10 \/ (n \in 1 .. 10 /\ t = Left(disable, n, rest))
    BY <1>3
  <2>. QED  BY <1>3, <2>1
<1>. QED  BY <1>5, <1>6, DisableCode DEF Disabling

\* nrf_esb_init on a quiet driver keeps it quiet, and empties it.
LEMMA InitialisingMoves ==
    ASSUME EsbTypeOK, Main, Quiet, NEW rest \in Seq(Statements), Initialising(rest)
    PROVE  Quiet' /\ mode' = mode /\ (Initialising(rest)' \/ (todo' = rest /\ Emptied'))
<1>. DEFINE s == Head(todo)
            t == Tail(todo)
            more == Left(init, 2, rest)
<1>1. Effect(s, t)
  BY Executes
<1>2. more \in Seq(Statements)
  BY Steps DEF FollowsIn
<1>3. CASE Disabling(more)
  <2>. HIDE DEF more
  <2>1. Quiet' /\ mode' = mode /\ (Disabling(more)' \/ todo' = more)
    BY <1>2, <1>3, DisablingMoves
  <2>2. CASE todo' = more
    BY <2>1, <2>2, InitCode DEF Initialising, Zeroed, more
  <2>. QED  BY <2>1, <2>2 DEF Initialising, more
<1>4. CASE \E i \in 1 .. 11 : todo = Left(init, i, rest) /\ Zeroed(i)
  <2>1. PICK i \in 1 .. 11 : todo = Left(init, i, rest) /\ Zeroed(i)
    BY <1>4
  <2>2. s = init[i] /\ t = IF i = 11 THEN rest ELSE Left(init, i + 1, rest)
    BY <2>1, Steps DEF FollowsIn
  <2>. HIDE DEF s, t, more
  <2>3. CASE i = 1
    <3>1. s = "disable" /\ t = more
      BY <2>2, <2>3, InitCode DEF more
    <3>2. todo' = disable \o more /\ Quiet' /\ mode' = mode
      BY <1>1, <3>1 DEF Effect, Calls, Body, Quiet, Silent
    <3>3. todo' = Left(disable, 1, more)
      BY <1>2, <3>2, Calling
    <3>4. Disabling(more)'
      BY <3>3, DisableCode DEF Disabling
    <3>. QED  BY <3>2, <3>4 DEF Initialising, more
  <2>4. CASE i > 1
    <3>1. \/ i = 2 /\ s = "flags"
          \/ i = 3 /\ s = "forget"
          \/ i = 4 /\ s = "tx.entry"
          \/ i = 5 /\ s = "tx.exit"
          \/ i = 6 /\ s = "tx.count"
          \/ i = 7 /\ s = "rx.entry"
          \/ i = 8 /\ s = "rx.exit"
          \/ i = 9 /\ s = "rx.count"
          \/ i = 10 /\ s = "evt_on"
          \/ i = 11 /\ s = "idle"
      BY <2>2, <2>4, InitCode
    <3>2. Quiet' /\ mode' = mode /\ todo' = t
      BY <1>1, <3>1 DEF Effect, Calls, Quiet, Silent
    <3>. DEFINE n == i + 1
    <3>3. n \in 2 .. 12 /\ Zeroed(n)'
      BY <1>1, <2>1, <2>4, <3>1 DEF Effect, Zeroed
    <3>4. IF n = 12 THEN t = rest ELSE t = Left(init, n, rest)
      BY <2>2
    <3>. HIDE DEF n
    <3>. QED  BY <3>2, <3>3, <3>4, InitCode DEF Initialising, Emptied
  <2>. QED  BY <2>3, <2>4
<1>. QED  BY <1>3, <1>4, InitCode DEF Initialising

\* The rest of radio_transmit_mode: nrf_esb_start_tx finds nothing to send.
LEMMA ToTransmitMoves ==
    ASSUME EsbTypeOK, Unread, Main, ToTransmit
    PROVE  ToTransmit' \/ Resting'
<1>. DEFINE s == Head(todo)
            t == Tail(todo)
            at(k) == From(radio_transmit_mode, k)
<1>1. Effect(s, t) /\ mode = "listening" /\ Quiet
  BY Executes DEF ToTransmit
<1>2. \A k \in 1 .. 10 : at(k) \in Seq(Statements)
  BY Steps DEF Follows
<1>3. CASE Disabling(at(5))
  <2>1. Quiet' /\ mode' = mode /\ (Disabling(at(5))' \/ todo' = at(5))
    BY <1>1, <1>2, <1>3, DisablingMoves
  <2>. QED  BY <1>1, <2>1 DEF ToTransmit
<1>4. CASE Initialising(at(7))
  <2>1. Quiet' /\ mode' = mode /\ (Initialising(at(7))' \/ (todo' = at(7) /\ Emptied'))
    BY <1>1, <1>2, <1>4, InitialisingMoves
  <2>. QED  BY <1>1, <2>1 DEF ToTransmit
<1>5. ASSUME NEW k \in 3 .. 10, todo = at(k), k > 6 => Emptied
      PROVE  ToTransmit' \/ Resting'
  <2>1. s = radio_transmit_mode[k] /\ t = IF k = 10 THEN <<>> ELSE at(k + 1)
    <3>1. Follows(radio_transmit_mode, 10) /\ k \in 1 .. 10
      BY Steps
    <3>. QED  BY <1>5, <3>1, Zenon DEF Follows
  <2>2. \/ k \in {3, 5, 7, 9} /\ s = "delay"
        \/ k = 4 /\ s = "disable"
        \/ k = 6 /\ s = "init"
        \/ k = 8 /\ s = "start_tx"
        \/ k = 10 /\ s = "sending"
    BY <2>1, TransmitCode
  <2>. HIDE DEF s, t
  <2>3. Quiet' /\ (k # 10 => mode' = "listening") /\ (k > 6 => Emptied')
    BY <1>1, <1>5, <2>2 DEF Effect, Quiet, Silent, Emptied, Zeroed
  <2>. DEFINE n == k + 1
  <2>4. k # 10 => t = at(n) /\ n \in 4 .. 10
    BY <2>1
  <2>5. CASE k \in {3, 5, 7, 9}
    <3>1. todo' = at(n) /\ n \in 3 .. 10 /\ (n > 6 => Emptied') /\ mode' = "listening"
      <4>1. todo' = t
        BY <1>1, <2>2, <2>5 DEF Effect, Calls
      <4>2. k # 6 /\ k # 10
        BY <2>5
      <4>. QED  BY <2>3, <2>4, <4>1, <4>2
    <3>. HIDE DEF n, at
    <3>2. n \in 3 .. 6 \/ n \in 7 .. 10
      BY <3>1
    <3>. QED  BY <2>3, <3>1, <3>2 DEF ToTransmit, at
  <2>6. CASE k = 4
    <3>1. todo' = disable \o at(5)
      BY <1>1, <2>2, <2>4, <2>6 DEF Effect, Calls, Body
    <3>2. todo' = Left(disable, 1, at(5))
      <4>1. at(5) \in Seq(Statements)
        BY <1>2
      <4>. HIDE DEF at
      <4>. QED  BY <3>1, <4>1, Calling
    <3>. QED  BY <2>3, <2>6, <3>2, DisableCode DEF ToTransmit, Disabling
  <2>7. CASE k = 6
    <3>1. todo' = init \o at(7)
      BY <1>1, <2>2, <2>4, <2>7 DEF Effect, Calls, Body
    <3>2. todo' = Left(init, 1, at(7))
      <4>1. at(7) \in Seq(Statements)
        BY <1>2
      <4>. HIDE DEF at
      <4>. QED  BY <3>1, <4>1, Calling
    <3>3. Zeroed(1)'
      BY DEF Zeroed
    <3>. QED  BY <2>3, <2>7, <3>2, <3>3, InitCode DEF ToTransmit, Initialising
  <2>8. CASE k = 8
    <3>1. tx.count = 0
      BY <1>5, <2>8 DEF Emptied, Zeroed
    <3>2. todo' = <<>> \o at(9)
      <4>1. Body(s) = <<>> /\ s \in Calls
        BY <2>2, <2>8, <3>1 DEF Body, Calls
      <4>. QED  BY <1>1, <2>4, <2>8, <4>1 DEF Effect
    <3>3. todo' = at(9)
      BY <1>2, <3>2, ConcatEmptySeq
    <3>. QED  BY <2>3, <2>8, <3>3 DEF ToTransmit
  <2>9. CASE k = 10
    <3>1. todo' = <<>> /\ mode' = "sending"
      BY <1>1, <2>1, <2>2, <2>9 DEF Effect, Calls
    <3>2. Clean'
      BY <2>3, <2>9, FifoSizeAssumption DEF Emptied, Zeroed, Clean, InOrder, Slot
    <3>. QED  BY <2>3, <3>1, <3>2 DEF Resting
  <2>. QED  BY <2>2, <2>5, <2>6, <2>7, <2>8, <2>9
<1>. QED  BY <1>3, <1>4, <1>5 DEF ToTransmit

\* The rest of radio_receive_mode, up to nrf_esb_start_rx.
LEMMA ToReceiveMoves ==
    ASSUME EsbTypeOK, Unread, Main, ToReceive
    PROVE  ToReceive' \/ Starting'
<1>. DEFINE s == Head(todo)
            t == Tail(todo)
            at(k) == From(radio_receive_mode, k)
<1>1. Effect(s, t) /\ mode = "sending" /\ Quiet
  BY Executes DEF ToReceive
<1>2. \A k \in 1 .. 7 : at(k) \in Seq(Statements)
  BY Steps DEF Follows
<1>3. CASE Initialising(at(4))
  <2>1. Quiet' /\ mode' = mode /\ (Initialising(at(4))' \/ (todo' = at(4) /\ Emptied'))
    BY <1>1, <1>2, <1>3, InitialisingMoves
  <2>. QED  BY <1>1, <2>1 DEF ToReceive
<1>4. ASSUME NEW k \in 3 .. 5, todo = at(k), k > 3 => Emptied
      PROVE  ToReceive' \/ Starting'
  <2>1. s = radio_receive_mode[k] /\ t = at(k + 1) /\ t \in Seq(Statements)
    <3>1. Follows(radio_receive_mode, 7) /\ k \in 1 .. 7 /\ k # 7 /\ k + 1 \in 1 .. 7
      BY Steps
    <3>. QED  BY <1>4, <3>1, Zenon DEF Follows
  <2>2. \/ k = 3 /\ s = "init" /\ t = at(4)
        \/ k = 4 /\ s = "delay" /\ t = at(5)
        \/ k = 5 /\ s = "start_rx" /\ t = at(6)
    <3>. DEFINE n == k + 1
    <3>1. t = at(n) /\ <<k, n>> \in {<<3, 4>>, <<4, 5>>, <<5, 6>>}
      BY <2>1
    <3>2. s = radio_receive_mode[k]
      BY <2>1
    <3>. HIDE DEF s, t, at, n
    <3>. QED  BY <3>1, <3>2, ReceiveCode
  <2>. HIDE DEF s, t
  <2>3. Quiet' /\ mode' = "sending" /\ (k > 3 => Emptied')
    BY <1>1, <1>4, <2>2 DEF Effect, Quiet, Silent, Emptied, Zeroed
  <2>4. CASE k = 3
    <3>1. todo' = init \o t
      BY <1>1, <2>2, <2>4 DEF Effect, Calls, Body
    <3>2. todo' = Left(init, 1, t)
      BY <2>1, <3>1, Calling
    <3>3. Zeroed(1)'
      BY DEF Zeroed
    <3>. QED  BY <2>2, <2>3, <2>4, <3>2, <3>3, InitCode DEF ToReceive, Initialising
  <2>5. CASE k = 4
    <3>1. todo' = t
      BY <1>1, <2>2, <2>5 DEF Effect, Calls
    <3>. QED  BY <2>2, <2>3, <2>5, <3>1 DEF ToReceive
  <2>6. CASE k = 5
    <3>1. todo' = start_rx \o t
      BY <1>1, <2>2, <2>6 DEF Effect, Calls, Body, Quiet
    <3>2. todo' = Left(start_rx, 1, t)
      BY <2>1, <3>1, Calling
    <3>. QED  BY <2>2, <2>3, <2>6, <3>2, StartCode DEF Starting, Quiet, Silent
  <2>. QED  BY <2>4, <2>5, <2>6
<1>. QED  BY <1>3, <1>4 DEF ToReceive

\* nrf_esb_start_rx makes the radio receive, with everything in place.
LEMMA StartingMoves ==
    ASSUME EsbTypeOK, Unread, Main, Starting
    PROVE  Starting' \/ Listening'
<1>. DEFINE s == Head(todo)
            t == Tail(todo)
<1>1. ~(reg.inten /\ reg.event) /\ Effect(s, t)
  BY MainFindsEmpty, Executes DEF Main
<1>2. PICK i \in 1 .. 9 :
        /\ todo = Left(start_rx, i, From(radio_receive_mode, 6))
        /\ i = 1 => Silent
        /\ i \in 2 .. 5 => ~reg.inten
        /\ i > 2 => ~reg.event
        /\ i > 3 => on_radio_disabled = "rx"
        /\ i > 4 => reg.txen /\ reg.end
        /\ i > 5 => reg.inten
        /\ i > 6 => mainstate = "rx"
        /\ i > 7 => reg.packet = "rx"
  BY StartCode DEF Starting
<1>3. From(radio_receive_mode, 6) \in Seq(Statements)
  BY Steps DEF Follows
<1>4. /\ s = start_rx[i]
      /\ t = IF i = 9 THEN From(radio_receive_mode, 6)
                      ELSE Left(start_rx, i + 1, From(radio_receive_mode, 6))
  BY <1>2, <1>3, Steps DEF FollowsIn
<1>5. \/ i = 1 /\ s = "int_off"
      \/ i = 2 /\ s = "clear"
      \/ i = 3 /\ s = "on_rx"
      \/ i = 4 /\ s = "shorts_txen"
      \/ i = 5 /\ s = "int_on"
      \/ i = 6 /\ s = "rx_state"
      \/ i = 7 /\ s = "rx_packet"
      \/ i = 8 /\ s = "clear"
      \/ i = 9 /\ s = "rxen"
  BY <1>4, StartCode
<1>. HIDE DEF s, t
<1>6. todo' = t /\ mode' = "sending" /\ Emptied' /\ aired' = written'
  BY <1>1, <1>5 DEF Effect, Starting, Emptied, Zeroed, Calls
<1>7. CASE i < 9
  <2>. DEFINE n == i + 1
  <2>1. n \in 1 .. 9 /\ todo' = Left(start_rx, n, From(radio_receive_mode, 6))
    BY <1>4, <1>6, <1>7
  <2>2. /\ n # 1 /\ radio' = "off"
        /\ n \in 2 .. 5 => ~reg'.inten
        /\ n > 2 => ~reg'.event
        /\ n > 3 => on_radio_disabled' = "rx"
        /\ n > 4 => reg'.txen /\ reg'.end
        /\ n > 5 => reg'.inten
        /\ n > 6 => mainstate' = "rx"
        /\ n > 7 => reg'.packet = "rx"
    BY <1>1, <1>2, <1>5, <1>6, <1>7 DEF Effect, Starting
  <2>. HIDE DEF n
  <2>. QED  BY <1>6, <2>1, <2>2, StartCode DEF Starting
<1>8. CASE i = 9
  <2>1. Hearing' /\ todo' = From(radio_receive_mode, 6)
    BY <1>1, <1>2, <1>4, <1>5, <1>6, <1>8 DEF Effect, Hearing, Starting, Emptied, Zeroed
  <2>2. Clean'
    BY <1>6, FifoSizeAssumption DEF Emptied, Zeroed, Clean, InOrder, Slot
  <2>. QED  BY <1>6, <2>1, <2>2 DEF Listening
<1>. QED  BY <1>7, <1>8

\* The delay after a write outlasts the packet.
LEMMA FlyingMoves ==
    ASSUME EsbTypeOK, Unread, Main, Flying
    PROVE  Resting'
<1>. DEFINE s == Head(todo)
            t == Tail(todo)
<1>1. ~(reg.inten /\ reg.event) /\ Effect(s, t)
  BY MainFindsEmpty, Executes DEF Main
<1>2. s = "delay" /\ t = <<>>
  BY DEF Flying
<1>. HIDE DEF s, t
<1>3. radio = "off" /\ ~reg.event /\ tx.count = 0 /\ mainstate = "idle"
  BY <1>1, <1>2 DEF Effect, Flying, Airing
<1>4. todo' = <<>> /\ mode' = "sending" /\ Quiet' /\ Clean'
  BY <1>1, <1>2, <1>3 DEF Effect, Calls, Flying, Airing, Quiet, Silent, Clean, InOrder
<1>. QED  BY <1>4 DEF Resting

\* start_tx_transaction puts in the air what was written.
LEMMA LoadingMoves ==
    ASSUME EsbTypeOK, Unread, Main, Loading
    PROVE  Loading' \/ Flying' \/ Leaving'
<1>. DEFINE s == Head(todo)
            t == Tail(todo)
<1>1. rx.count = 0 /\ ~(reg.inten /\ reg.event) /\ Effect(s, t)
  BY MainFindsEmpty, Executes DEF Main
<1>2. Rests \subseteq Seq(Statements) /\ radio_receive_mode = From(radio_receive_mode, 1)
  BY ReceiveCode, Called DEF Rests, Statements
<1>3. ASSUME NEW rest \in Rests, todo = <<"auto">> \o rest, Silent, mainstate = "idle",
             Append(aired, Front(tx)) = written
      PROVE  Loading'
  <2>1. s = "auto" /\ t = rest
    BY <1>2, <1>3
  <2>. HIDE DEF s, t
  <2>2. todo' = start_tx_transaction \o rest
    BY <1>1, <1>3, <2>1 DEF Effect, Calls, Body
  <2>3. todo' = Left(start_tx_transaction, 1, rest)
    BY <1>2, <2>2, Calling
  <2>4. /\ mode' = "sending" /\ radio' = "off" /\ tx' = tx /\ rx' = rx /\ Silent'
        /\ Append(aired', Front(tx')) = written'
    BY <1>1, <1>3, <2>1 DEF Effect, Loading, Silent
  <2>. QED  BY <2>3, <2>4, SendCode DEF Loading
<1>4. ASSUME NEW rest \in Rests, NEW i \in 1 .. 8,
             todo = Left(start_tx_transaction, i, rest),
             Append(aired, IF i = 1 THEN Front(tx) ELSE buffers.tx) = written,
             i <= 3 => Silent,
             i > 2 => ~reg.txen,
             i > 3 => reg.inten,
             i = 4 => on_radio_disabled = "none" \/ (on_radio_disabled = "tx" /\ ~reg.event),
             i > 4 => on_radio_disabled = "tx" /\ ~reg.event,
             i > 6 => reg.packet = "tx"
      PROVE  Loading' \/ Flying' \/ Leaving'
  <2>1. /\ s = start_tx_transaction[i]
        /\ t = IF i = 8 THEN rest ELSE Left(start_tx_transaction, i + 1, rest)
    BY <1>2, <1>4, Steps DEF FollowsIn
  <2>2. \/ i = 1 /\ s = "load"
        \/ i = 2 /\ s = "shorts"
        \/ i = 3 /\ s = "int_on"
        \/ i = 4 /\ s = "on_tx"
        \/ i = 5 /\ s = "tx_state"
        \/ i = 6 /\ s = "tx_packet"
        \/ i = 7 /\ s = "clear"
        \/ i = 8 /\ s = "txen"
    BY <2>1, SendCode
  <2>. HIDE DEF s, t
  <2>3. /\ todo' = t /\ mode' = "sending" /\ tx' = tx /\ rx' = rx
        /\ aired' = aired /\ written' = written
    BY <1>1, <2>2 DEF Effect, Loading, Calls
  <2>4. buffers'.tx = IF i = 1 THEN Front(tx) ELSE buffers.tx
    BY <1>1, <2>2 DEF Effect
  <2>5. Append(aired', buffers'.tx) = written'
    BY <1>4, <2>3, <2>4
  <2>6. CASE i < 8
    <3>. DEFINE n == i + 1
    <3>1. n \in 2 .. 8 /\ todo' = Left(start_tx_transaction, n, rest)
      BY <2>1, <2>3, <2>6
    <3>2. /\ radio' = "off"
          /\ n <= 3 => Silent'
          /\ n > 2 => ~reg'.txen
          /\ n > 3 => reg'.inten
          /\ n = 4 => on_radio_disabled' = "none" \/ (on_radio_disabled' = "tx" /\ ~reg'.event)
          /\ n > 4 => on_radio_disabled' = "tx" /\ ~reg'.event
          /\ n > 6 => reg'.packet = "tx"
      BY <1>1, <1>4, <2>2, <2>6 DEF Effect, Loading, Silent
    <3>. HIDE DEF n
    <3>. QED  BY <2>3, <2>5, <3>1, <3>2, SendCode DEF Loading
  <2>7. CASE i = 8
    <3>1. Airing' /\ radio' = "tx" /\ ~reg'.event
      BY <1>1, <1>4, <2>2, <2>3, <2>5, <2>7 DEF Effect, Loading, Airing
    <3>2. todo' = rest /\ InOrder(tx') /\ InOrder(rx')
      BY <2>1, <2>3, <2>7 DEF Loading
    <3>3. CASE rest = <<"delay">>
      BY <2>3, <3>1, <3>2, <3>3 DEF Flying
    <3>4. CASE rest = radio_receive_mode
      BY <2>3, <3>1, <3>2, <3>4 DEF Leaving
    <3>. QED  BY <3>3, <3>4 DEF Rests
  <2>. QED  BY <2>6, <2>7
<1>. QED  BY <1>3, <1>4, SendCode DEF Loading

\* The delay after nrf_esb_disable outlasts the packet, too.
LEMMA LeavingMoves ==
    ASSUME EsbTypeOK, Unread, Main, Leaving
    PROVE  Leaving' \/ ToReceive'
<1>. DEFINE s == Head(todo)
            t == Tail(todo)
            at(k) == From(radio_receive_mode, k)
<1>1. ~(reg.inten /\ reg.event) /\ Effect(s, t) /\ mode = "sending" /\ (Airing \/ Quiet)
  BY MainFindsEmpty, Executes DEF Main, Leaving
<1>2. radio_receive_mode = at(1) /\ at(2) \in Seq(Statements)
  <2>1. radio_receive_mode = From(radio_receive_mode, 1)
    BY Called, ReceiveCode, EmptySeq, Zenon
  <2>2. Follows(radio_receive_mode, 7)
    BY Steps
  <2>. QED  BY <2>1, <2>2 DEF Follows
<1>3. ASSUME s \in {"disable", "idle", "tx.entry", "tx.exit", "tx.count", "rx.entry", "rx.exit",
                    "rx.count", "forget", "evt_off", "shorts"}
      PROVE  /\ mode' = "sending" /\ (Airing' \/ Quiet')
             /\ mainstate' = IF s = "idle" THEN "idle" ELSE mainstate
  <2>. HIDE DEF s, t
  <2>1. mode' = "sending" /\ mainstate' = IF s = "idle" THEN "idle" ELSE mainstate
    BY <1>1, <1>3 DEF Effect
  <2>2. Quiet => Quiet'
    BY <1>1, <1>3 DEF Effect, Quiet, Silent
  <2>3. Airing => Airing'
    BY <1>1, <1>3 DEF Effect, Airing
  <2>. QED  BY <1>1, <2>1, <2>2, <2>3
<1>4. CASE todo = at(1)
  <2>1. s = "disable" /\ t = at(2)
    <3>1. Follows(radio_receive_mode, 7)
      BY Steps
    <3>. QED  BY <1>4, <3>1, ReceiveCode DEF Follows
  <2>. HIDE DEF s, t, at
  <2>2. todo' = disable \o at(2)
    BY <1>1, <2>1 DEF Effect, Calls, Body
  <2>3. todo' = Left(disable, 1, at(2))
    BY <1>2, <2>2, Calling
  <2>. QED  BY <1>3, <2>1, <2>3, DisableCode DEF Leaving, at
<1>5. ASSUME NEW i \in 1 .. 10, todo = Left(disable, i, at(2)), i > 1 => mainstate = "idle"
      PROVE  Leaving'
  <2>1. s = disable[i] /\ t = IF i = 10 THEN at(2) ELSE Left(disable, i + 1, at(2))
    BY <1>2, <1>5, Steps DEF FollowsIn
  <2>2. /\ s \in {"idle", "tx.entry", "tx.exit", "tx.count", "rx.entry", "rx.exit", "rx.count",
                  "forget", "evt_off", "shorts"}
        /\ i = 1 => s = "idle"
    BY <2>1, DisableCode
  <2>. HIDE DEF s, t
  <2>3. /\ mode' = "sending" /\ (Airing' \/ Quiet') /\ todo' = t /\ mainstate' = "idle"
    BY <1>1, <1>3, <1>5, <2>2 DEF Effect, Calls
  <2>. DEFINE n == i + 1
  <2>4. t = at(2) \/ (n \in 1 .. 10 /\ t = Left(disable, n, at(2)))
    BY <2>1
  <2>. HIDE DEF n
  <2>. QED  BY <2>3, <2>4, DisableCode DEF Leaving
<1>6. CASE todo = at(2) /\ mainstate = "idle"
  <2>1. s = "delay" /\ t = at(3)
    <3>1. Follows(radio_receive_mode, 7)
      BY Steps
    <3>. QED  BY <1>6, <3>1, ReceiveCode DEF Follows
  <2>. HIDE DEF s, t
  <2>2. Quiet
    BY <1>1, <1>6, <2>1 DEF Effect, Airing, Quiet, Silent
  <2>3. Quiet' /\ todo' = t /\ mode' = "sending"
    BY <1>1, <2>1, <2>2 DEF Effect, Calls, Quiet, Silent
  <2>. QED  BY <2>1, <2>3 DEF ToReceive
<1>. QED  BY <1>2, <1>4, <1>5, <1>6, DisableCode DEF Leaving

-----------------------------------------------------------------------------
\* The application, the radio and the interrupts.

\* Main is in the application only between two procedures.
LEMMA RestingPoints ==
    ASSUME Phase, todo = <<>>
    PROVE  (Listening /\ mode = "listening") \/ Resting
<1>1. /\ \A k \in 1 .. 7 : From(radio_receive_mode, k) # <<>>
      /\ \A k \in 1 .. 10 : From(radio_transmit_mode, k) # <<>>
      /\ \A k \in 1 .. 7 : From(radio_receive_mode, k) \in Seq(Statements)
      /\ \A k \in 1 .. 10 : From(radio_transmit_mode, k) \in Seq(Statements)
  BY Steps DEF Follows
<1>2. \A rest \in Seq(Statements) :
        /\ \A i \in 1 .. 10 : Left(disable, i, rest) # <<>>
        /\ \A i \in 1 .. 11 : Left(init, i, rest) # <<>> /\ Left(init, i, rest) \in Seq(Statements)
        /\ \A i \in 1 .. 9 : Left(start_rx, i, rest) # <<>>
        /\ \A i \in 1 .. 6 : Left(stop_rx, i, rest) # <<>>
        /\ \A i \in 1 .. 8 : Left(start_tx_transaction, i, rest) # <<>>
  BY Steps DEF FollowsIn
<1>3. \A rest \in Rests : rest \in Seq(Statements) /\ rest # <<>> /\ <<"auto">> \o rest # <<>>
  <2>1. <<"delay">> \in Seq(Statements) /\ <<"delay">> # <<>> /\ <<"auto">> \in Seq(Statements)
    BY DEF Statements
  <2>2. \A rest \in Seq(Statements) : <<"auto">> \o rest # <<>>
    BY <2>1, ConcatEqualIffEmpty
  <2>3. radio_receive_mode \in Seq(Statements) /\ radio_receive_mode # <<>>
    BY ReceiveCode
  <2>. QED  BY <2>1, <2>2, <2>3 DEF Rests
<1>4. ~Stopping
  <2>1. From(radio_transmit_mode, 3) \in Seq(Statements)
    BY <1>1
  <2>2. \A i \in 1 .. Len(stop_rx) : Left(stop_rx, i, From(radio_transmit_mode, 3)) # <<>>
    BY <1>2, <2>1, StopCode
  <2>. QED  BY <2>2 DEF Stopping
<1>5. \A rest \in Seq(Statements) : ~Disabling(rest) /\ ~Initialising(rest)
  <2>1. \A rest \in Seq(Statements) : ~Disabling(rest)
    BY <1>2, DisableCode DEF Disabling
  <2>. QED  BY <1>2, <2>1, InitCode DEF Initialising
<1>6. ~ToTransmit
  BY <1>1, <1>5 DEF ToTransmit
<1>7. ~ToReceive
  BY <1>1, <1>5 DEF ToReceive
<1>8. ~Loading
  BY <1>2, <1>3, SendCode DEF Loading
<1>9. ~Flying
  BY DEF Flying
<1>10. ~Leaving
  <2>1. radio_receive_mode # <<>>
    BY <1>3 DEF Rests
  <2>2. From(radio_receive_mode, 2) \in Seq(Statements) /\ From(radio_receive_mode, 2) # <<>>
    BY <1>1
  <2>3. \A i \in 1 .. Len(disable) : Left(disable, i, From(radio_receive_mode, 2)) # <<>>
    BY <1>2, <2>2, DisableCode
  <2>. QED  BY <2>1, <2>2, <2>3 DEF Leaving
<1>11. ~Starting
  <2>1. From(radio_receive_mode, 6) \in Seq(Statements)
    BY <1>1
  <2>2. \A i \in 1 .. Len(start_rx) : Left(start_rx, i, From(radio_receive_mode, 6)) # <<>>
    BY <1>2, <2>1, StartCode
  <2>. QED  BY <2>2 DEF Starting
<1>12. Listening => mode = "listening"
  BY <1>1 DEF Listening
<1>. QED  BY <1>4, <1>6, <1>7, <1>8, <1>9, <1>10, <1>11, <1>12 DEF Phase

\* What the application does when main is at rest.
LEMMA ApplicationMoves ==
    ASSUME ~Restarts, EsbTypeOK, Counted, Unread, Phase, Application
    PROVE  Counted' /\ Unread' /\ Phase'
<1>1. CASE TurnToReceive
  <2>1. /\ mode = "sending" /\ todo = <<>> /\ todo' = radio_receive_mode
        /\ UNCHANGED <<driver, radio, reg, mode, handler, written, aired>>
    BY <1>1 DEF TurnToReceive, Turn
  <2>2. Resting
    BY <2>1, RestingPoints
  <2>3. Leaving'
    BY <2>1, <2>2 DEF driver, Resting, Leaving, Quiet, Silent
  <2>. QED  BY <2>1, <2>3 DEF driver, Phase, Counted, Unread
<1>2. CASE TurnToTransmit
  <2>1. /\ mode = "listening" /\ todo = <<>> /\ todo' = radio_transmit_mode
        /\ UNCHANGED <<driver, radio, reg, mode, handler>> /\ written' = <<>> /\ aired' = <<>>
    BY <1>2 DEF TurnToTransmit, Turn
  <2>2. Listening
    BY <2>1, RestingPoints DEF Resting
  <2>3. radio_transmit_mode = From(radio_transmit_mode, 1)
    BY Called, TransmitCode, EmptySeq, Zenon
  <2>4. (Hearing => Hearing') /\ (Cold => Cold') /\ Clean'
    BY <2>1, <2>2 DEF driver, Listening, Hearing, Cold, Clean
  <2>5. Listening'
    <3>1. mode' = "listening" /\ aired' = written' /\ todo' = From(radio_transmit_mode, 1)
      BY <2>1, <2>3
    <3>2. Hearing \/ Cold
      BY <2>2 DEF Listening
    <3>. QED  BY <2>4, <3>1, <3>2 DEF Listening
  <2>6. Counted' /\ Unread'
    BY <2>1, DriverAssumption DEF driver, Counted, Unread
  <2>. QED  BY <2>5, <2>6 DEF Phase
<1>3. ASSUME NEW p \in Payloads, Write(p)
      PROVE  Counted' /\ Unread' /\ Phase'
  <2>1. /\ mode = "sending" /\ todo = <<>> /\ Len(written) < MaxWrites /\ ~Full(tx)
        /\ tx' = Push(tx, p) /\ written' = Append(written, p)
        /\ \E rest \in Rests : todo' = <<"auto">> \o rest
        /\ UNCHANGED <<rx, mainstate, on_radio_disabled, flags, evt, radio, reg, mode,
                       handler, aired>>
    BY <1>3 DEF Write, Rests
  <2>2. Resting
    BY <2>1, RestingPoints
  <2>3. tx \in TxRings /\ p \in Payloads \cup {None} /\ InOrder(tx) /\ tx.count = 0
    BY <2>2 DEF EsbTypeOK, TxRings, Resting, Clean
  <2>4. tx' \in TxRings /\ InOrder(tx') /\ tx'.count = 1 /\ Front(tx') = p
    <3>1. /\ tx' \in Rings(Payloads \cup {None}) /\ InOrder(tx')
          /\ Contents(tx') = Append(Contents(tx), p)
      BY <2>1, <2>3, PushAppends DEF TxRings
    <3>2. Contents(tx) = <<>>
      BY <2>3 DEF Contents
    <3>3. tx'.count = 1
      BY <2>1, <2>3 DEF Push, TxRings, Rings
    <3>4. Front(tx') = Head(Contents(tx'))
      <4>. DEFINE pushed == tx'
      <4>1. pushed \in Rings(Payloads \cup {None}) /\ pushed.count > 0
        BY <3>1, <3>3
      <4>. HIDE DEF pushed
      <4>2. Front(pushed) = Head(Contents(pushed))
        BY <4>1, PopRemoves
      <4>. QED  BY <4>2 DEF pushed, Front, Contents
    <3>. QED  BY <3>1, <3>2, <3>3, <3>4 DEF TxRings
  <2>5. Append(aired', Front(tx')) = written'
    BY <2>1, <2>2, <2>4 DEF Resting, Quiet
  <2>6. Loading'
    BY <2>1, <2>2, <2>4, <2>5 DEF Loading, Resting, Quiet, Silent, Clean
  <2>7. Counted' /\ Unread'
    BY <2>1, DriverAssumption DEF Counted, Unread
  <2>. QED  BY <2>6, <2>7 DEF Phase
<1>. QED  BY <1>1, <1>2, <1>3 DEF Application

\* A packet ends: only while the radio sends what was written.
LEMMA SentKeeps ==
    ASSUME EsbTypeOK, Counted, Unread, Phase, Sent
    PROVE  Counted' /\ Unread' /\ Phase'
<1>1. /\ radio = "tx" /\ ~(reg.inten /\ reg.event)
      /\ aired' = IF Len(aired) <= MaxWrites THEN Append(aired, buffers[reg.packet]) ELSE aired
      /\ radio' = Disabled(reg) /\ reg' = [reg EXCEPT !.event = TRUE]
      /\ UNCHANGED <<driver, app>>
  BY DEF Sent, InterruptDue
<1>2. ~Hearing /\ ~Silent
  BY <1>1 DEF Hearing, Silent
<1>3. Flying \/ Leaving
  BY <1>1, <1>2, StopCode DEF Phase, Listening, Cold, Stopping, ToTransmit, Resting, Loading,
                              ToReceive,
                    Starting, Quiet
<1>4. Airing
  BY <1>2, <1>3 DEF Flying, Leaving, Quiet
<1>5. aired' = written
  <2>1. Append(aired, buffers.tx) = written /\ reg.packet = "tx"
    BY <1>1, <1>4 DEF Airing
  <2>2. Len(aired) <= MaxWrites
    <3>1. Len(written) = Len(aired) + 1 /\ Len(aired) \in Nat
      BY <2>1 DEF Counted
    <3>. QED  BY <3>1, DriverAssumption DEF Counted
  <2>. QED  BY <1>1, <2>1, <2>2
<1>6. Airing' /\ radio' = "off" /\ reg'.event
  <2>1. reg \in Registered
    BY DEF EsbTypeOK, Registered
  <2>2. /\ reg'.event = TRUE /\ reg'.inten = reg.inten /\ reg'.txen = reg.txen
        /\ radio' = "off"
    BY <1>1, <1>4, <2>1 DEF Registered, Airing, Disabled
  <2>. QED  BY <1>1, <1>4, <1>5, <2>2 DEF Airing, driver, app
<1>7. CASE Flying
  <2>1. Flying'
    BY <1>1, <1>6, <1>7 DEF Flying, driver, app
  <2>. QED  BY <1>1, <1>5, <2>1 DEF Phase, Counted, Unread, driver, app
<1>8. CASE Leaving
  <2>1. Leaving'
    BY <1>1, <1>6, <1>8 DEF Leaving, driver, app
  <2>. QED  BY <1>1, <1>5, <2>1 DEF Phase, Counted, Unread, driver, app
<1>. QED  BY <1>3, <1>7, <1>8

\* The phases look at nothing else.
LEMMA PhaseLooksAt ==
    ASSUME Phase,
           UNCHANGED <<tx, rx, mainstate, on_radio_disabled, radio, reg, todo, mode, written,
                       aired>>,
           evt'.enabled = evt.enabled, buffers'.tx = buffers.tx
    PROVE  Phase'
<1>1. (Hearing => Hearing') /\ (Cold => Cold') /\ (Clean => Clean') /\ (Silent => Silent')
  BY DEF Hearing, Cold, Clean, Silent
<1>2. (Quiet => Quiet') /\ (Airing => Airing') /\ (Emptied => Emptied')
  BY <1>1 DEF Quiet, Airing, Emptied, Zeroed
<1>3. \A rest : (Disabling(rest) => Disabling(rest)') /\ (Initialising(rest) => Initialising(rest)')
  BY DEF Disabling, Initialising, Zeroed
<1>4. Listening => Listening'
  BY <1>1 DEF Listening
<1>5. Stopping => Stopping'
  BY <1>1 DEF Stopping
<1>6. ToTransmit => ToTransmit'
  BY <1>2, <1>3 DEF ToTransmit
<1>7. Resting => Resting'
  BY <1>1, <1>2 DEF Resting
<1>8. Loading => Loading'
  BY <1>1 DEF Loading
<1>9. Flying => Flying'
  BY <1>2 DEF Flying
<1>10. Leaving => Leaving'
  BY <1>2 DEF Leaving
<1>11. ToReceive => ToReceive'
  BY <1>2, <1>3 DEF ToReceive
<1>12. Starting => Starting'
  BY <1>1, <1>2 DEF Starting
<1>. QED  BY <1>4, <1>5, <1>6, <1>7, <1>8, <1>9, <1>10, <1>11, <1>12 DEF Phase

\* A packet arrives: only while main listens or has begun to stop.
LEMMA ReceiveKeeps ==
    ASSUME EsbTypeOK, Counted, Unread, Phase,
           NEW frame \in Frames, NEW good \in BOOLEAN, Receive(frame, good)
    PROVE  Counted' /\ Unread' /\ Phase'
<1>1. /\ radio = "rx" /\ ~(reg.inten /\ reg.event)
      /\ IF reg.end THEN radio' = Disabled(reg) /\ reg' = [reg EXCEPT !.event = TRUE]
                    ELSE radio' = "ended" /\ UNCHANGED reg
      /\ UNCHANGED <<tx, rx, mainstate, on_radio_disabled, flags, evt, handler, todo, mode,
                     written, aired>>
  BY DEF Receive, InterruptDue, app
<1>2. Counted' /\ Unread'
  BY <1>1 DEF Counted, Unread
<1>3. Listening \/ Stopping
  BY <1>1 DEF Phase, ToTransmit, Resting, Loading, Flying, Leaving, ToReceive, Starting, Quiet,
              Silent, Airing
<1>4. Hearing => Hearing'
  <2>1. reg \in Registered
    BY DEF EsbTypeOK, Registered
  <2>. QED  BY <1>1, <2>1 DEF Hearing, Disabled, Registered
<1>5. CASE Listening
  <2>1. Hearing
    BY <1>1, <1>5 DEF Listening, Cold
  <2>2. Listening'
    BY <1>1, <1>4, <1>5, <2>1 DEF Listening, Clean
  <2>. QED  BY <1>2, <2>2 DEF Phase
<1>6. CASE Stopping
  <2>1. PICK i \in 1 .. Len(stop_rx) :
        /\ todo = Left(stop_rx, i, From(radio_transmit_mode, 3))
        /\ mainstate = "rx"
        /\ i = 1 => Hearing
        /\ i > 1 => rx.count = 0 /\ ~reg.txen /\ ~reg.end
        /\ i > 2 => ~reg.inten
        /\ on_radio_disabled = IF i > 3 THEN "none" ELSE "rx"
        /\ i \in 2 .. 5 => radio \in {"rx", "ended"} /\ ~reg.event
        /\ i = 6 => radio = "off"
    BY <1>6 DEF Stopping
  <2>2. i > 1 => reg' = reg /\ radio' = "ended"
    BY <1>1, <2>1
  <2>3. i \in 1 .. 5
    BY <1>1, <2>1, StopCode
  <2>4. Stopping'
    <3>1. mode' = "listening" /\ Clean' /\ aired' = written'
      BY <1>1, <1>6 DEF Stopping, Clean
    <3>2. /\ todo' = Left(stop_rx, i, From(radio_transmit_mode, 3))
          /\ mainstate' = "rx"
          /\ i = 1 => Hearing'
          /\ i > 1 => rx'.count = 0 /\ ~reg'.txen /\ ~reg'.end
          /\ i > 2 => ~reg'.inten
          /\ on_radio_disabled' = IF i > 3 THEN "none" ELSE "rx"
          /\ i \in 2 .. 5 => radio' \in {"rx", "ended"} /\ ~reg'.event
          /\ i = 6 => radio' = "off"
      BY <1>1, <1>4, <2>1, <2>2, <2>3
    <3>. QED  BY <3>1, <3>2 DEF Stopping
  <2>. QED  BY <1>2, <2>4 DEF Phase
<1>. QED  BY <1>3, <1>5, <1>6

\* The interrupt of a packet.
LEMMA RadioIrqKeeps ==
    ASSUME EsbTypeOK, Counted, Unread, Phase, RadioIrq
    PROVE  Counted' /\ Unread' /\ Phase'
<1>1. /\ reg.inten /\ reg.event /\ reg \in Registered
      /\ UNCHANGED <<handler, todo, mode, written, aired>>
  BY DEF RadioIrq, InterruptDue, app, EsbTypeOK, Registered
<1>2. Counted'
  BY <1>1 DEF Counted
<1>3. \/ Listening /\ Hearing
      \/ Stopping /\ Hearing
      \/ Loading
      \/ (Flying \/ Leaving) /\ Airing /\ radio = "off"
  <2>1. Listening => Hearing
    BY <1>1 DEF Listening, Hearing, Cold
  <2>2. Stopping => Hearing
    BY <1>1, StopCode DEF Stopping
  <2>3. ~Silent /\ ~Quiet
    BY <1>1 DEF Silent, Quiet
  <2>4. ~ToTransmit /\ ~Resting /\ ~ToReceive
    BY <2>3 DEF ToTransmit, Resting, ToReceive
  <2>5. ~Starting
    BY <1>1, <2>3, StartCode DEF Starting
  <2>6. Flying \/ Leaving => Airing /\ radio = "off"
    BY <1>1, <2>3 DEF Flying, Leaving, Airing
  <2>. QED  BY <2>1, <2>2, <2>4, <2>5, <2>6 DEF Phase
<1>4. CASE Hearing /\ (Listening \/ Stopping)
  <2>1. OnRadioDisabledRx
    BY <1>4 DEF Hearing, RadioIrq
  <2>2. /\ radio' = "rx" /\ reg'.txen /\ reg'.end /\ ~reg'.event /\ reg'.packet = "rx"
        /\ reg'.inten = reg.inten
        /\ UNCHANGED <<tx, mainstate, on_radio_disabled, buffers>>
    BY <1>1, <2>1 DEF OnRadioDisabledRx, clear_events_restart_rx, Registered
  <2>3. Clean' /\ Unread' /\ evt'.enabled = evt.enabled
    <3>0. /\ rx \in Rings(Frames \cup {None}) /\ buffers.rx \in Frames \cup {None}
          /\ evt \in EventBits
          /\ Clean
      BY <1>4 DEF EsbTypeOK, EventBits, Listening, Stopping
    <3>1. CASE ~Full(rx) /\ rx' = Push(rx, buffers.rx) /\ flags' = flags \cup {"rx_received"}
               /\ evt' = [evt EXCEPT !.pending = TRUE]
      <4>1. InOrder(rx')
        BY <3>0, <3>1, PushAppends DEF Clean
      <4>2. evt'.pending /\ evt'.enabled /\ evt'.enabled = evt.enabled
        BY <1>4, <3>0, <3>1 DEF EventBits, Hearing
      <4>. QED  BY <2>2, <3>0, <3>1, <4>1, <4>2 DEF Clean, Unread
    <3>2. CASE UNCHANGED <<rx, flags, evt>>
      BY <1>1, <2>2, <3>0, <3>2 DEF Clean, Unread
    <3>. QED  BY <2>1, <3>1, <3>2 DEF OnRadioDisabledRx
  <2>4. Hearing'
    BY <1>4, <2>2, <2>3 DEF Hearing
  <2>5. CASE Listening
    <3>1. Listening'
      BY <1>1, <2>3, <2>4, <2>5 DEF Listening
    <3>. QED  BY <1>2, <2>3, <3>1 DEF Phase
  <2>6. CASE Stopping
    <3>1. /\ 1 \in 1 .. Len(stop_rx)
          /\ todo = Left(stop_rx, 1, From(radio_transmit_mode, 3))
      BY <1>1, <2>6, StopCode DEF Stopping
    <3>2. Stopping'
      BY <1>1, <2>2, <2>3, <2>4, <2>6, <3>1 DEF Stopping, Hearing
    <3>. QED  BY <1>2, <2>3, <3>2 DEF Phase
  <2>. QED  BY <1>4, <2>5, <2>6
<1>5. CASE Loading
  <2>0. ~Silent
    BY <1>1 DEF Silent
  <2>1. PICK rest \in Rests, i \in 1 .. Len(start_tx_transaction) :
            /\ todo = Left(start_tx_transaction, i, rest)
            /\ Append(aired, IF i = 1 THEN Front(tx) ELSE buffers.tx) = written
            /\ i <= 3 => Silent
            /\ i > 2 => ~reg.txen
            /\ i > 3 => reg.inten
            /\ i = 4 => on_radio_disabled = "none" \/ (on_radio_disabled = "tx" /\ ~reg.event)
            /\ i > 4 => on_radio_disabled = "tx" /\ ~reg.event
            /\ i > 6 => reg.packet = "tx"
    BY <1>5, <2>0 DEF Loading
  <2>2. i = 4 /\ on_radio_disabled = "none"
    BY <1>1, <2>0, <2>1, SendCode
  <2>3. reg' = [reg EXCEPT !.event = FALSE] /\ UNCHANGED <<driver, radio>>
    BY <2>2 DEF RadioIrq
  <2>4. /\ reg'.txen = reg.txen /\ reg'.inten = reg.inten /\ reg'.event = FALSE
        /\ reg'.packet = reg.packet
    BY <1>1, <2>3 DEF Registered
  <2>5. Loading'
    <3>1. /\ todo' = Left(start_tx_transaction, 4, rest)
          /\ Append(aired', buffers'.tx) = written'
          /\ ~reg'.txen /\ reg'.inten /\ on_radio_disabled' = "none"
      BY <1>1, <2>1, <2>2, <2>3, <2>4 DEF driver
    <3>2. /\ mode' = "sending" /\ radio' = "off" /\ InOrder(tx') /\ tx'.count = 1 /\ InOrder(rx')
          /\ rx'.count = 0
      BY <1>1, <1>5, <2>3 DEF driver, Loading, InOrder
    <3>3. \E j \in 1 .. Len(start_tx_transaction) :
            /\ todo' = Left(start_tx_transaction, j, rest)
            /\ Append(aired', IF j = 1 THEN Front(tx') ELSE buffers'.tx) = written'
            /\ j <= 3 => Silent'
            /\ j > 2 => ~reg'.txen
            /\ j > 3 => reg'.inten
            /\ j = 4 => on_radio_disabled' = "none" \/ (on_radio_disabled' = "tx" /\ ~reg'.event)
            /\ j > 4 => on_radio_disabled' = "tx" /\ ~reg'.event
            /\ j > 6 => reg'.packet = "tx"
      <4>1. 4 \in 1 .. Len(start_tx_transaction)
        BY SendCode
      <4>. QED  BY <3>1, <4>1
    <3>. QED  BY <3>2, <3>3 DEF Loading
  <2>6. Unread'
    BY <1>1, <2>3 DEF driver, Unread
  <2>. QED  BY <1>2, <2>5, <2>6 DEF Phase
<1>6. CASE (Flying \/ Leaving) /\ Airing /\ radio = "off"
  <2>1. OnRadioDisabledTx
    BY <1>6 DEF Airing, RadioIrq
  <2>2. tx \in Rings(Payloads \cup {None}) /\ tx.count \in Nat /\ tx.count <= 1
    BY <1>6, RingNumbers DEF EsbTypeOK, Airing
  <2>3. tx'.count = 0 /\ (InOrder(tx) => InOrder(tx'))
    <3>1. CASE tx.count > 0
      <4>1. tx' = Pop(tx) /\ tx.count = 1
        BY <2>1, <2>2, <3>1 DEF OnRadioDisabledTx, tx_fifo_remove_last
      <4>2. tx'.count = 0
        BY <2>2, <4>1 DEF Pop, Rings
      <4>3. InOrder(tx) => InOrder(tx')
        BY <2>2, <3>1, <4>1, PopRemoves
      <4>. QED  BY <4>2, <4>3
    <3>2. CASE ~(tx.count > 0)
      BY <2>1, <2>2, <3>2 DEF OnRadioDisabledTx, tx_fifo_remove_last, InOrder
    <3>. QED  BY <3>1, <3>2
  <2>4. /\ mainstate' = "idle" /\ reg' = [reg EXCEPT !.event = FALSE]
        /\ UNCHANGED <<buffers, radio, rx, on_radio_disabled>>
        /\ flags' = flags \cup {"tx_success"} /\ evt' = [evt EXCEPT !.pending = TRUE]
    BY <2>1, <2>3 DEF OnRadioDisabledTx
  <2>5. reg'.inten = reg.inten /\ reg'.txen = reg.txen /\ ~reg'.event
    BY <1>1, <2>4 DEF Registered
  <2>6. Airing'
    BY <1>1, <1>6, <2>3, <2>4, <2>5 DEF Airing
  <2>7. Unread'
    <3>1. evt \in EventBits
      BY DEF EsbTypeOK, EventBits
    <3>. QED  BY <1>1, <2>4, <3>1 DEF Unread, EventBits
  <2>8. CASE Flying
    <3>1. Flying'
      BY <1>1, <2>3, <2>4, <2>6, <2>8 DEF Flying, InOrder
    <3>. QED  BY <1>2, <2>7, <3>1 DEF Phase
  <2>9. CASE Leaving
    <3>1. Leaving'
      BY <1>1, <2>4, <2>6, <2>9 DEF Leaving
    <3>. QED  BY <1>2, <2>7, <3>1 DEF Phase
  <2>. QED  BY <1>6, <2>8, <2>9
<1>. QED  BY <1>3, <1>4, <1>5, <1>6

\* The event handler reads what there is.
LEMMA EventIrqKeeps ==
    ASSUME Drains, EsbTypeOK, Counted, Unread, Phase, EventIrq
    PROVE  Counted' /\ Unread' /\ Phase'
<1>1. CASE TakeFlags
  <2>1. /\ handler = "off" /\ evt' = [evt EXCEPT !.pending = FALSE]
        /\ handler' = IF "rx_received" \in flags THEN "read" ELSE "off"
        /\ UNCHANGED <<tx, rx, mainstate, on_radio_disabled, buffers, radio, reg, todo, mode,
                       written,
                       aired>>
    BY <1>1 DEF TakeFlags, EventDue
  <2>2. evt'.enabled = evt.enabled
    BY <2>1 DEF EsbTypeOK
  <2>3. Unread' /\ Counted'
    BY <2>1 DEF Unread, Counted
  <2>. QED  BY <2>1, <2>2, <2>3, PhaseLooksAt
<1>2. CASE read_rx_payload /\ rx.count = 0
  <2>1. UNCHANGED <<tx, rx, mainstate, on_radio_disabled, evt, buffers, radio, reg, todo, mode,
                    written,
                    aired>>
    BY <1>2 DEF read_rx_payload
  <2>2. Unread' /\ Counted'
    BY <1>2, <2>1 DEF Unread, Counted
  <2>. QED  BY <2>1, <2>2, PhaseLooksAt
<1>3. CASE read_rx_payload /\ rx.count # 0
  <2>1. /\ rx' = Pop(rx) /\ handler' = "read"
        /\ UNCHANGED <<tx, mainstate, on_radio_disabled, evt, buffers, radio, reg, todo, mode,
                       written,
                       aired>>
    BY <1>3 DEF read_rx_payload
  <2>2. Unread' /\ Counted'
    BY <2>1 DEF Unread, Counted
  <2>3. Listening \/ Stopping
    BY <1>3 DEF Phase, ToTransmit, Resting, Loading, Flying, Leaving, ToReceive, Starting,
                Quiet,
                Airing, Emptied, Zeroed
  <2>4. Clean'
    <3>0. rx \in Rings(Frames \cup {None}) /\ rx.count \in Nat
      BY RingNumbers DEF EsbTypeOK
    <3>1. rx.count > 0 /\ Clean
      BY <1>3, <2>3, <3>0 DEF Listening, Stopping
    <3>. QED  BY <2>1, <3>0, <3>1, PopRemoves DEF Clean
  <2>5. (Hearing => Hearing') /\ (Cold => Cold')
    BY <2>1 DEF Hearing, Cold
  <2>6. CASE Listening
    <3>1. Listening'
      BY <2>1, <2>4, <2>5, <2>6 DEF Listening
    <3>. QED  BY <2>2, <3>1 DEF Phase
  <2>7. CASE Stopping
    <3>1. /\ 1 \in 1 .. Len(stop_rx) /\ Hearing
          /\ todo = Left(stop_rx, 1, From(radio_transmit_mode, 3))
      BY <1>3, <2>7, StopCode DEF Stopping
    <3>2. Stopping'
      BY <2>1, <2>4, <2>5, <2>7, <3>1 DEF Stopping, Hearing
    <3>. QED  BY <2>2, <3>2 DEF Phase
  <2>. QED  BY <2>3, <2>6, <2>7
<1>. QED  BY <1>1, <1>2, <1>3 DEF EventIrq

\* What main does.
LEMMA MainKeeps ==
    ASSUME EsbTypeOK, Counted, Unread, Phase, Main
    PROVE  Counted' /\ Unread' /\ Phase' /\ rx.count = 0 /\ rx'.count = 0
<1>1. rx.count = 0 /\ rx'.count = 0 /\ UNCHANGED <<written, aired>>
  BY MainFindsEmpty, Executes DEF Main, Effect
<1>2. Counted' /\ Unread'
  BY <1>1 DEF Counted, Unread
<1>3. ~Resting
  BY DEF Main, Resting
<1>4. Phase'
  BY <1>3, ListeningMoves, StoppingMoves, ToTransmitMoves, LoadingMoves, FlyingMoves,
     LeavingMoves,
     ToReceiveMoves, StartingMoves DEF Phase
<1>. QED  BY <1>1, <1>2, <1>4

-----------------------------------------------------------------------------
\* The invariant, and what follows from it.

\* The phases are an invariant of a node that reads until the FIFO is empty and never enters
\* a mode twice, which is what the remote's main.c does.
LEMMA PhasesInvariant ==
    ASSUME Drains, ~Restarts
    PROVE  EsbSpec => []RemoteInv
<1>1. Init => Counted /\ Unread /\ Phase
  <2>. SUFFICES ASSUME Init PROVE Counted /\ Unread /\ Phase
    OBVIOUS
  <2>1. /\ tx = NewRing(None) /\ rx = NewRing(None) /\ mainstate = "idle"
        /\ on_radio_disabled = "none" /\ radio = "off" /\ ~reg.inten
        /\ todo = <<>> /\ mode = "listening" /\ written = <<>> /\ aired = <<>>
    BY DEF Init
  <2>2. Clean /\ Cold /\ rx.count = 0
    <3>1. InOrder(NewRing(None))
      BY NewRingEmpty
    <3>. QED  BY <2>1, <3>1 DEF Clean, Cold, NewRing
  <2>3. Listening
    BY <2>1, <2>2 DEF Listening
  <2>. QED  BY <2>1, <2>2, <2>3, DriverAssumption DEF Counted, Unread, Phase
<1>2. EsbTypeOK /\ (Counted /\ Unread /\ Phase) /\ [Next]_vars => (Counted /\ Unread /\ Phase)'
  <2>. SUFFICES ASSUME EsbTypeOK, Counted, Unread, Phase, [Next]_vars
                PROVE  Counted' /\ Unread' /\ Phase'
    OBVIOUS
  <2>1. CASE Hardware
    BY <2>1, SentKeeps, ReceiveKeeps DEF Hardware
  <2>2. CASE UNCHANGED vars
    <3>1. /\ UNCHANGED <<tx, rx, mainstate, on_radio_disabled, radio, reg, todo, mode, written,
                         aired>>
          /\ UNCHANGED <<evt, buffers, flags, handler>>
      BY <2>2 DEF vars, driver, app
    <3>2. Counted' /\ Unread'
      BY <3>1 DEF Counted, Unread
    <3>. QED  BY <3>1, <3>2, PhaseLooksAt
  <2>. QED  BY <2>1, <2>2, RadioIrqKeeps, EventIrqKeeps, MainKeeps, ApplicationMoves DEF Next
<1>. QED  BY <1>1, <1>2, EsbTypeCorrect, PTL DEF EsbSpec, RemoteInv

\* Whenever the remote's application writes or waits, both FIFOs are queues, for every size
\* and every timing of the interrupts: nrf_esb_stop_rx and the delays silence the radio before
\* reset_fifos goes through the FIFOs store by store.  The car enters a mode twice and loses
\* this (fifo_restart).
THEOREM FifosStayInOrder ==
    ASSUME Drains, ~Restarts
    PROVE  EsbSpec => []RingsInOrder
<1>1. RemoteInv => RingsInOrder
  BY RestingPoints DEF RemoteInv, RingsInOrder, AtRest, Listening, Resting, Clean
<1>. QED  BY <1>1, PhasesInvariant, PTL

\* No received payload of the remote is left in the FIFO without an event: neither events that
\* coalesce nor nrf_esb_init, which clears the flags, lose one.
THEOREM NothingIsLeftUnread ==
    ASSUME Drains, ~Restarts
    PROVE  EsbSpec => []NothingLeftUnread
<1>1. RemoteInv => NothingLeftUnread
  BY DEF RemoteInv, Unread, NothingLeftUnread
<1>. QED  BY <1>1, PhasesInvariant, PTL

\* One payload at most has not been sent yet.
LEMMA AtMostOneLeft ==
    ASSUME Phase, Counted
    PROVE  aired = written \/ \E x \in Payloads : Append(aired, x) = written
<1>1. aired = written \/ \E x : Append(aired, x) = written
  BY DEF Phase, Listening, Stopping, ToTransmit, Resting, Loading, Flying, Leaving, ToReceive,
         Starting, Quiet, Airing
<1>2. ASSUME NEW x, Append(aired, x) = written
      PROVE  x \in Payloads
  <2>1. aired \in Seq(Payloads) /\ written \in Seq(Payloads)
    BY DEF Counted
  <2>2. Len(written) = Len(aired) + 1 /\ written[Len(aired) + 1] = x /\ Len(aired) \in Nat
    BY <1>2, <2>1
  <2>3. Len(aired) + 1 \in 1 .. Len(written)
    BY <2>2
  <2>. QED  BY <2>1, <2>2, <2>3, ElementOfSeq
<1>. QED  BY <1>1, <1>2

\* The remote's payloads are sent as written, once and in order, and have been sent when it
\* listens again, although it disables the driver in the middle of a transmission.
THEOREM SendsAsWritten ==
    ASSUME Drains, ~Restarts
    PROVE  EsbSpec => []SentAsWritten
<1>1. RemoteInv => SentAsWritten
  <2>. SUFFICES ASSUME RemoteInv PROVE SentAsWritten
    OBVIOUS
  <2>1. aired \in Seq(Payloads) /\ written \in Seq(Payloads)
    BY DEF RemoteInv, Counted
  <2>2. CASE aired = written
    BY <2>1, <2>2 DEF SentAsWritten, IsPrefixOf
  <2>3. ASSUME NEW x \in Payloads, Append(aired, x) = written
        PROVE  IsPrefixOf(aired, written)
    BY <2>1, <2>3, AppendProperties DEF IsPrefixOf
  <2>4. AtRest /\ mode = "listening" => aired = written
    BY RestingPoints DEF RemoteInv, AtRest, Listening, Resting
  <2>. QED  BY <2>2, <2>3, <2>4, AtMostOneLeft DEF RemoteInv, SentAsWritten
<1>. QED  BY <1>1, PhasesInvariant, PTL

\* Whenever an interrupt uses the receive FIFO, it is in order.
LEMMA InOrderWhenUsed ==
    ASSUME Phase, rx.count # 0 \/ (on_radio_disabled = "rx" /\ InterruptDue)
    PROVE  InOrder(rx)
<1>1. CASE rx.count # 0
  BY <1>1 DEF Phase, Listening, Stopping, ToTransmit, Resting, Loading, Flying, Leaving,
              ToReceive,
              Starting, Quiet, Airing, Emptied, Zeroed, Clean
<1>2. CASE on_radio_disabled = "rx" /\ InterruptDue
  <2>1. reg.inten /\ reg.event /\ ~Silent /\ ~Quiet /\ ~Airing
    BY <1>2 DEF InterruptDue, Silent, Quiet, Airing
  <2>2. ~Starting
    BY <2>1, StartCode DEF Starting
  <2>. QED  BY <2>1, <2>2 DEF Phase, Listening, Stopping, ToTransmit, Resting, Loading, Flying,
                              Leaving, ToReceive, Clean
<1>. QED  BY <1>1, <1>2

\* The remote's driver implements the queue of nrf_esb.h: payloads come out in the order they
\* came in, each once, unless the FIFO was full or was reset, which finds it empty.
THEOREM ImplementsQueue ==
    ASSUME Drains, ~Restarts
    PROVE  EsbSpec => ReceivesInOrder
<1>1. Init => Contents(rx) = <<>> /\ rx_payload \notin Frames
  BY NewRingEmpty, DriverAssumption DEF Init
<1>2. RemoteInv /\ HeardIsFrame /\ [Next]_vars => [Queue!QueueNext]_<<Contents(rx), rx_payload>>
  <2>. SUFFICES ASSUME RemoteInv, HeardIsFrame, [Next]_vars
                PROVE  [Queue!QueueNext]_<<Contents(rx), rx_payload>>
    OBVIOUS
  <2>0. EsbTypeOK /\ Counted /\ Unread /\ Phase
    BY DEF RemoteInv
  <2>1. CASE UNCHANGED <<rx, rx_payload>>
    BY <2>1 DEF Contents
  <2>2. CASE RadioIrq \/ EventIrq
    <3>1. UNCHANGED <<rx, rx_payload>> \/ InOrder(rx)
      BY <2>0, <2>2, InOrderWhenUsed DEF RadioIrq, OnRadioDisabledTx, EventIrq, TakeFlags,
                                    read_rx_payload, driver, app
    <3>. QED  BY <2>0, <2>1, <2>2, <3>1, InterruptsStep
  <2>3. CASE Main
    <3>1. rx.count = 0 /\ rx'.count = 0 /\ rx_payload' = rx_payload
      BY <2>0, <2>3, MainKeeps DEF Main
    <3>2. Contents(rx') = <<>> /\ Contents(rx) = <<>>
      BY <3>1 DEF Contents
    <3>. QED  BY <3>1, <3>2
  <2>4. CASE Hardware \/ Application \/ UNCHANGED vars
    BY <2>1, <2>4 DEF Hardware, Sent, Receive, Application, TurnToReceive, TurnToTransmit,
                      Turn, Write,
                 vars, driver, app
  <2>. QED  BY <2>2, <2>3, <2>4 DEF Next
<1>. QED  BY <1>1, <1>2, PhasesInvariant, HeardFrames, PTL
          DEF EsbSpec, ReceivesInOrder, Queue!QueueSpec, Queue!queueVars
=============================================================================
