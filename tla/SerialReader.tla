---------------------------- MODULE SerialReader -----------------------------
(***************************************************************************)
(* The reader of the frames of the MCU, iotgo_U2art_schedule.c, over the   *)
(* receive ring of driver/uart.c.  A timer calls parseU2artData every      *)
(* 100 ms; the interrupt handler adds bytes between any two of its tests   *)
(* of uart0_rx_available, so the callback is cut into the steps from one   *)
(* test to the next.  A frame is 0xAA 0x55, a byte with the CRC flag and a *)
(* 7-bit length, the extended length if the 7 bits announce one, the CRC   *)
(* if flagged, and the data.  The line may lose or damage bytes.           *)
(***************************************************************************)
EXTENDS UartRing, SequencesExt

CONSTANTS
    Half,           \* 128: a header byte is Half * flag + length
    AA, B55,        \* the start signal
    Ext2Len,        \* bytes of the extended length announced by Half - 2
    Ext4Len,        \* and by Half - 1
    CrcLen,         \* bytes of a CRC
    BufMax,         \* READ_UART0_BUFFER
    IdxMod,         \* values of the uint8_t index of getData's loop
    TimeoutTime,    \* TIMEROUT_TIME, in calls of the reader
    Crc(_),         \* getCrc32, as CrcLen bytes
    IsArray(_),     \* the data are a JSON array
    Sent,           \* what the MCU sends: data, with CRC, with wide length
    Noise,          \* what a damaged byte turns into
    MaxSpent        \* frames the MCU sends and bytes the line damages

ASSUME SerialReaderAssumption ==
    /\ Half \in Nat /\ Half > 2
    /\ Byte = 0..(2 * Half - 1)
    /\ AA \in Byte /\ B55 \in Byte /\ AA # B55
    /\ {Ext2Len, Ext4Len, CrcLen} \subseteq Nat \ {0}
    /\ BufMax \in Nat /\ IdxMod \in Nat \ {0} /\ TimeoutTime \in Nat \ {0}
    /\ ~IsArray(<<>>)
    /\ Sent \subseteq [data : Seq(Byte), cf : BOOLEAN, wide : BOOLEAN]
    /\ \A m \in Sent : Crc(m.data) \in [1..CrcLen -> Byte]
    /\ Noise \subseteq Byte
    /\ MaxSpent \in Nat

VARIABLES
    pc,                 \* where the reader's callback is
    u2art_data,         \* start, cf, length, extend_length
    get_length,         \* statics of parseU2artData
    timerout_couter,
    sending,            \* the rest of the frame the MCU is sending
    spent,              \* frames begun and bytes lost or damaged so far
    seen,               \* history: bytes read of the frame being read
    failed              \* history: a frame has failed since the last command

reader == <<pc, u2art_data, get_length, timerout_couter>>
vars == <<buffer, head, tail, pc, u2art_data, get_length, timerout_couter,
          sending, spent, seen, failed>>

Cleared == [start |-> FALSE, cf |-> FALSE, length |-> 0, extend_length |-> 0]

\* The static state after a reset.
ReaderInit ==
    /\ pc = "idle"
    /\ u2art_data = Cleared
    /\ get_length = FALSE /\ timerout_couter = 0

Init ==
    /\ RingInit /\ ReaderInit
    /\ sending = <<>> /\ spent = 0 /\ seen = <<>> /\ failed = FALSE

------------------------------------------------------------------------------
\* Bytes as a number, the first of them the highest.
Number(s) ==
    LET value[k \in 0..Len(s)] == IF k = 0 THEN 0 ELSE 2 * Half * value[k - 1] + s[k]
    IN  value[Len(s)]

\* The k bytes that stand for n, if that many bytes can.
Digits(n, k) == {d \in [1..k -> Byte] : Number(d) = n}

\* A length is at most 32 bits.
ASSUME LengthAssumption == \A m \in Sent : Digits(Len(m.data), Ext4Len) # {}

\* The frame format, as cmdSendDataToMcu writes it and the MCU does too.
Header(cf, length) == IF cf THEN Half + length ELSE length

\* An MCU may also write a small length in the wide form.
Encode(data, cf, wide) ==
    LET n == Len(data)
        kind == CASE wide \/ Digits(n, Ext2Len) = {} -> Half - 1
                  [] ~wide /\ n < Half - 2 -> n
                  [] OTHER -> Half - 2
        size == IF kind = Half - 1 THEN Ext4Len ELSE Ext2Len
        digits == IF kind < Half - 2 THEN <<>> ELSE CHOOSE d \in Digits(n, size) : TRUE
    IN <<AA, B55, Header(cf, kind)>> \o digits
       \o (IF cf THEN Crc(data) ELSE <<>>) \o data

Frames == {Encode(m.data, m.cf, m.wide) : m \in Sent}

------------------------------------------------------------------------------
\* The MCU begins a frame.
McuSend(f) ==
    /\ sending = <<>>
    /\ sending' = f
    /\ spent < MaxSpent /\ spent' = spent + 1
    /\ UNCHANGED <<ring, reader, seen, failed>>

\* uart0_rx_intr_handler: the next byte arrives, perhaps damaged ...
Receive ==
    /\ sending # <<>>
    /\ sending' = Tail(sending)
    /\ \/ RxWrite(Head(sending)) /\ spent' = spent
       \/ /\ spent < MaxSpent /\ spent' = spent + 1
          /\ \E b \in Noise : RxWrite(b)
    /\ UNCHANGED <<reader, seen, failed>>

\* ... or it does not arrive at all.
Lose ==
    /\ sending # <<>>
    /\ sending' = Tail(sending)
    /\ spent < MaxSpent /\ spent' = spent + 1
    /\ UNCHANGED <<ring, reader, seen, failed>>

------------------------------------------------------------------------------
\* The first n unread bytes.
FirstBytes(n) == [k \in 1..n |-> Unread(k)]

\* What parseU2artData does with a frame that has started.
Stage == IF get_length THEN "data" ELSE "length"

\* readUart0TimerHandler, parseU2artData begins.
Tick ==
    /\ pc = "idle"
    /\ timerout_couter' = timerout_couter + 1
    /\ pc' = IF u2art_data.start THEN Stage ELSE "scan"
    /\ UNCHANGED <<ring, u2art_data, get_length, sending, spent, seen, failed>>

\* The loop that looks for the start signal: a byte that is not 0xAA is
\* dropped, and so are 0xAA and the byte after it if that is not 0x55.
Scan ==
    /\ pc = "scan" /\ RxAvailable >= 3
    /\ IF FirstBytes(2) = <<AA, B55>>
       THEN /\ RxRead(3)
            /\ u2art_data' = [u2art_data EXCEPT !.start = TRUE,
                                                !.cf = Unread(3) >= Half,
                                                !.length = Unread(3) % Half]
            /\ timerout_couter' = 0
            /\ pc' = Stage
            /\ seen' = FirstBytes(3)
       ELSE /\ RxRead(IF Unread(1) = AA THEN 2 ELSE 1)
            /\ UNCHANGED <<u2art_data, timerout_couter, pc, seen>>
    /\ UNCHANGED <<get_length, sending, spent, failed>>

NothingToScan ==
    /\ pc = "scan" /\ RxAvailable < 3
    /\ pc' = "end"
    /\ UNCHANGED <<ring, u2art_data, get_length, timerout_couter, sending, spent, seen, failed>>

LengthBytes == CASE u2art_data.length = Half - 2 -> Ext2Len
                 [] u2art_data.length = Half - 1 -> Ext4Len
                 [] OTHER -> 0

\* Mutant: the bytes of the length are read before they have arrived.
GetExtendLengthAtOnce ==
    /\ pc = "length" /\ u2art_data.length # 0
    /\ RxRead(LengthBytes)
    /\ u2art_data' = [u2art_data EXCEPT !.extend_length = Number(FirstBytes(LengthBytes))]
    /\ seen' = seen \o FirstBytes(LengthBytes)
    /\ get_length' = TRUE
    /\ pc' = "data"
    /\ UNCHANGED <<timerout_couter, sending, spent, failed>>

\* getExtendLength, called unless get_length says that it has been.
GetExtendLength ==
    /\ pc = "length" /\ u2art_data.length # 0
    /\ IF RxAvailable >= LengthBytes
       THEN /\ RxRead(LengthBytes)
            /\ u2art_data' = [u2art_data EXCEPT !.extend_length = Number(FirstBytes(LengthBytes))]
            /\ seen' = seen \o FirstBytes(LengthBytes)
            /\ get_length' = TRUE
            /\ pc' = "data"
       ELSE /\ pc' = "end"
            /\ UNCHANGED <<ring, u2art_data, seen, get_length>>
    /\ UNCHANGED <<timerout_couter, sending, spent, failed>>

\* processErrorCmd: forget the frame (and answer, which is left out).
ProcessErrorCmd ==
    /\ u2art_data' = Cleared
    /\ seen' = <<>>

\* A frame of length zero.
EmptyFrame ==
    /\ pc = "length" /\ u2art_data.length = 0
    /\ ProcessErrorCmd
    /\ pc' = "end"
    /\ failed' = TRUE
    /\ UNCHANGED <<ring, get_length, timerout_couter, sending, spent>>

------------------------------------------------------------------------------
\* getData.
Length == IF u2art_data.length >= Half - 2 THEN u2art_data.extend_length
          ELSE u2art_data.length

\* What has to be available.
Whole == IF u2art_data.cf THEN Length + CrcLen ELSE Length

\* The CRC is read by the first turn of the loop over the data.
Consumed == IF Length = 0 THEN 0 ELSE Whole

DataIsGood ==
    LET s == FirstBytes(Consumed)
        data == SubSeq(s, Consumed - Length + 1, Consumed)
    IN /\ Length > 0
       /\ u2art_data.cf => SubSeq(s, 1, CrcLen) = Crc(data)
       /\ IsArray(data)

DataTooLong ==
    /\ pc = "data" /\ Length > BufMax
    /\ ProcessErrorCmd
    /\ pc' = "end"
    /\ failed' = TRUE
    /\ UNCHANGED <<ring, get_length, timerout_couter, sending, spent>>

DataMissing ==
    /\ pc = "data" /\ Length <= BufMax /\ RxAvailable < Whole
    /\ pc' = "end"
    /\ UNCHANGED <<ring, u2art_data, get_length, timerout_couter, sending, spent, seen, failed>>

DataHere == pc = "data" /\ Length <= BufMax /\ RxAvailable >= Whole

\* The data are wrong: get_length stays as it is.
BadData ==
    /\ DataHere /\ Length < IdxMod /\ ~DataIsGood
    /\ RxRead(Consumed)
    /\ ProcessErrorCmd
    /\ pc' = "end"
    /\ failed' = TRUE
    /\ UNCHANGED <<get_length, timerout_couter, sending, spent>>

\* Mutant: the length is kept for the next frame.
CommandKeepsLength ==
    /\ DataHere /\ Length < IdxMod /\ DataIsGood
    /\ RxRead(Consumed)
    /\ ProcessErrorCmd
    /\ pc' = "end"
    /\ failed' = FALSE
    /\ UNCHANGED <<get_length, timerout_couter, sending, spent>>

\* processCmd calls the handler of the command; whatever it returns, the
\* frame is done.
ProcessCmd ==
    /\ DataHere /\ Length < IdxMod /\ DataIsGood
    /\ RxRead(Consumed)
    /\ get_length' = FALSE
    /\ ProcessErrorCmd
    /\ pc' = "end"
    /\ failed' = FALSE
    /\ UNCHANGED <<timerout_couter, sending, spent>>

\* The index of the loop wraps before it reaches the length: the loop does
\* not end and the watchdog resets the device.
EndlessLoop ==
    /\ DataHere /\ Length >= IdxMod
    /\ RingReset
    /\ pc' = "idle" /\ u2art_data' = Cleared
    /\ get_length' = FALSE /\ timerout_couter' = 0
    /\ seen' = <<>> /\ failed' = FALSE
    /\ UNCHANGED <<sending, spent>>

\* Mutant: the calls are counted only while no frame is being read.
EndNoTimeout ==
    /\ pc = "end"
    /\ pc' = "idle"
    /\ timerout_couter' = timerout_couter % TimeoutTime
    /\ UNCHANGED <<ring, u2art_data, get_length, sending, spent, seen, failed>>

\* The end of parseU2artData: TIMEROUT_TIME calls after its start signal a
\* frame is given up; get_length again stays as it is.
End ==
    /\ pc = "end"
    /\ pc' = "idle"
    /\ IF timerout_couter >= TimeoutTime
       THEN /\ timerout_couter' = 0
            /\ ProcessErrorCmd
            /\ failed' = (failed \/ u2art_data.start)
       ELSE UNCHANGED <<timerout_couter, u2art_data, seen, failed>>
    /\ UNCHANGED <<ring, get_length, sending, spent>>

Callback ==
    \/ Tick \/ Scan \/ NothingToScan
    \/ GetExtendLength \/ EmptyFrame
    \/ DataTooLong \/ DataMissing \/ BadData \/ ProcessCmd \/ EndlessLoop
    \/ End

Next ==
    \/ \E f \in Frames : McuSend(f)
    \/ Receive \/ Lose
    \/ Callback

Spec == Init /\ [][Next]_vars

\* The timer of the reader fires and its callback runs to its end.
FairSpec == Spec /\ WF_vars(Callback)

------------------------------------------------------------------------------
\* What has been read of the frame and what the ring holds begin with an
\* acceptable frame.
Acceptable(data) == Len(data) < IdxMod /\ Len(data) <= BufMax /\ IsArray(data)
Intact ==
    \E m \in Sent : /\ Acceptable(m.data)
                    /\ IsPrefix(Encode(m.data, m.cf, m.wide), seen \o Content)

\* A frame is rejected, other than by the timeout.
Rejected == u2art_data.start /\ ~u2art_data'.start /\ pc # "end"

(* A frame whose bytes have all arrived is rejected only if it announces an *)
(* extended length and a frame failed after the last command: then          *)
(* get_length may have been left set and the length bytes are taken for     *)
(* noise.  So one short command heals the reader, and nothing else makes it *)
(* reject a good frame.                                                     *)
GoodFrameAccepted ==
    [][(Rejected /\ Intact /\ failed') =>
          (failed /\ u2art_data.length >= Half - 2)]_vars

(* The reader takes from the ring only bytes that uart0_rx_available has    *)
(* counted, never the 0xFF of an empty ring, and leaves head to the         *)
(* interrupt handler: its steps are steps of the ring.                      *)
ReadsWhatIsThere == RingSpec

(* A frame never keeps the reader longer than its timeout, even if it is    *)
(* longer than the ring and its data can never all be available.            *)
FrameEnds == u2art_data.start ~> ~u2art_data.start
==============================================================================
