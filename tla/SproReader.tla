------------------------------ MODULE SproReader ------------------------------
(***************************************************************************)
(* The package reader of Spro.c.  It collects the segments of a TCP stream *)
(* in a fixed buffer and hands every complete HTTP message or WebSocket    *)
(* frame to the callback of its user.  A cell of the buffer holds a unit   *)
(* of the stream: a piece of text that the reader or the callback looks    *)
(* for, or a byte of a frame.  Nul is a zero byte, at which every string   *)
(* function of C stops; EndOfHead is the empty line after an HTTP head.    *)
(*                                                                         *)
(* The state of a reader is a record, the functions of Spro.c operators on *)
(* it; the modules that own a reader keep it in a variable.  What the      *)
(* reader writes outside of its buffer is not modelled: it sets wild.      *)
(***************************************************************************)
EXTENDS Integers, SequencesExt

CONSTANT Size       \* cells of the buffer

ASSUME ReaderAssumption == Size \in Nat \ {0}

\* Bytes of frames, what the reader and the callbacks look for in a text, and
\* any other character.
Unit == {"00", "01", "02", "7e", "7f", "81", "8a", "end", "length1", "length2", "101",
         "get", "post", "{host", "{all", "}", "hb", "m"}
Nul == "00"
EndOfHead == "end"
\* A Content-Length field with its number, and the numbers of length bytes.
Lengths == {"length1", "length2"}
Number(u) == CASE u \in {"length1", "01"} -> 1
               [] u \in {"length2", "02"} -> 2
               [] u = "7e" -> 126
               [] u = "7f" -> 127
               [] u = Nul -> 0
               [] OTHER -> 123      \* a character, read as a length

Blank == [i \in 1..Size |-> Nul]
Reader == [cell : [1..Size -> Unit], index : 0..Size,
           opened : BOOLEAN, armed : BOOLEAN, wild : BOOLEAN]
\* spCreateObject.
NewReader == [cell |-> Blank, index |-> 0, opened |-> FALSE, armed |-> FALSE, wild |-> FALSE]

\* serverRxFlush.
Flushed(r) == [r EXCEPT !.cell = Blank, !.index = 0]

\* serverRxWrite: what does not fit is dropped.
Written(r, data) ==
    LET top == IF r.index + Len(data) <= Size THEN r.index + Len(data) ELSE Size IN
    [r EXCEPT !.cell = [i \in 1..Size |-> IF i \in r.index + 1..top THEN data[i - r.index] ELSE @[i]],
              !.index = top]

\* A mutant: what follows the package in the buffer is lost.
ReadDropsRest(r, len) == Flushed(r)

\* serverRxRead: takes len cells from the front of the buffer.  What is left
\* moves down and as many cells after it as it has are cleared: with more than
\* half a buffer left the clearing runs past its end.  A length beyond the
\* index makes the index wrap and the clearing miss the buffer.
Read(r, len) ==
    LET rest == r.index - len IN
    IF rest = 0 THEN Flushed(r)
    ELSE IF rest < 0 THEN [r EXCEPT !.wild = TRUE]
    ELSE [r EXCEPT !.cell = [i \in 1..Size |-> IF i <= rest THEN @[i + len]
                                               ELSE IF i <= 2 * rest THEN Nul ELSE @[i]],
                   !.index = rest, !.wild = @ \/ 2 * rest > Size]

\* The string in the buffer: os_strstr and indexOf look no further.
Text(r) == SubSeq(r.cell, 1, IF \E i \in 1..Size : r.cell[i] = Nul
                             THEN (CHOOSE i \in 1..Size : r.cell[i] = Nul
                                                          /\ \A j \in 1..i - 1 : r.cell[j] # Nul) - 1
                             ELSE Size)
\* indexOf: the place of the first of the units, 0 if there is none.
IndexOf(r, units) == SelectInSeq(Text(r), LAMBDA u : u \in units)

\* The arguments of a callback: a pointer to the buffer, the length, the flag.
Call(r, len, flag) == [r |-> r, len |-> len, flag |-> flag]

\* startTime, unless the timer is open already.
Waiting(r) == IF r.opened THEN r ELSE [r EXCEPT !.opened = TRUE, !.armed = TRUE]

-------------------------------------------------------------------------------
(* Both protocols loop over the packages in the buffer: a pass takes a state *)
(* [r, calls, more] and leaves more FALSE when the loop ends.              *)

\* The length of the HTTP message at the front, 0 if it is not complete.
HttpLength(r) ==
    LET head == IndexOf(r, {EndOfHead})
        length == IndexOf(r, Lengths) IN
    IF length = 0 \/ head < length THEN head
    ELSE IF Number(r.cell[length]) <= r.index - head THEN Number(r.cell[length]) + head ELSE 0

HttpPass(s) ==
    LET r == s.r
        len == HttpLength(r)
        taken == Read([r EXCEPT !.armed = FALSE, !.opened = FALSE], len) IN
    IF IndexOf(r, {EndOfHead}) = 0 THEN [s EXCEPT !.more = FALSE]
    ELSE IF len = 0 THEN [s EXCEPT !.r = Waiting(r), !.more = FALSE]
    ELSE [r |-> [taken EXCEPT !.armed = taken.index > 0],
          calls |-> Append(s.calls, Call(r, len, TRUE)),
          more |-> len <= r.index]

\* The length of the frame at the front: 0 if it is not complete, -1 if it is
\* none that the reader knows.
WsLength(r) ==
    LET need == IF r.cell[1] = "8a" THEN 2
                ELSE IF Number(r.cell[2]) <= 125 THEN Number(r.cell[2]) + 2
                ELSE IF r.index < 4 THEN 4 ELSE 256 * Number(r.cell[3]) + Number(r.cell[4]) + 4 IN
    IF r.cell[1] \notin {"81", "8a"} THEN -1
    ELSE IF r.index < 2 THEN 0
    ELSE IF r.cell[1] = "8a" /\ r.cell[2] # Nul THEN -1
    ELSE IF r.cell[1] = "81" /\ Number(r.cell[2]) = 127 THEN -1
    ELSE IF r.index < need THEN 0 ELSE need

WsPass(s) ==
    LET r == s.r
        len == WsLength(r)
        taken == Read([r EXCEPT !.armed = FALSE, !.opened = FALSE], len) IN
    IF len = -1 THEN [r |-> Flushed(r), calls |-> Append(s.calls, Call(r, r.index, FALSE)), more |-> FALSE]
    ELSE IF len = 0 THEN [s EXCEPT !.r = Waiting(r), !.more = FALSE]
    ELSE [r |-> IF taken.index > 0 /\ taken.cell[1] \in {"81", "8a"} THEN Waiting(taken) ELSE taken,
          calls |-> Append(s.calls, Call(r, len, TRUE)),
          more |-> taken.index > 0]

\* The loop: every pass that goes on takes at least one cell.
Loop(Pass(_), r) ==
    LET after[n \in 0..Size + 1] ==
            LET s == after[n - 1] IN
            IF n = 0 THEN [r |-> r, calls |-> <<>>, more |-> TRUE]
            ELSE IF s.more THEN Pass(s) ELSE s
    IN after[Size + 1]

\* processHTTPPackage, processWebsocketPackage.
HttpRecv(r, data) ==
    LET w == Written(r, data) IN
    IF IndexOf(w, {EndOfHead}) = 0 THEN [r |-> Waiting(w), calls |-> <<>>]
    ELSE LET s == Loop(HttpPass, w) IN [r |-> s.r, calls |-> s.calls]

WsRecv(r, data) == LET s == Loop(WsPass, Written(r, data)) IN [r |-> s.r, calls |-> s.calls]

\* spro10sTimerCallback: hands over what there is and clears the buffer.
Expired(r) == [r |-> [Flushed(r) EXCEPT !.armed = FALSE, !.opened = FALSE],
               calls |-> <<Call(r, r.index, FALSE)>>]

\* spTcpRecv.
Recv(r, type, data) == IF type = "HTTP" THEN HttpRecv(r, data) ELSE WsRecv(r, data)
===============================================================================
