------------------------------ MODULE LocTimer -------------------------------
(***************************************************************************)
(* The local timers of iotgo_loctimer.c: a table of IOTGO_TIMER_NUM slots  *)
(* in RAM, its image in flash, the requests of the app and of the MCU that *)
(* change it, and the one-second tick that runs the timers.                *)
(*                                                                         *)
(* A request on several timers is a loop that changes the table in place;  *)
(* when one of its arguments is wrong the whole table is loaded again from *)
(* flash, and when all are right the table is saved.  Each turn of the     *)
(* loop is a step, so that the power can fail between two of them.         *)
(*                                                                         *)
(* The save is one step: timerSaveToFlash is the two-slot protocol of      *)
(* FlashParam (save1/save3 and save2/save4 for its two slots), which that  *)
(* module shows to be atomic under power failure.                          *)
(***************************************************************************)
EXTENDS Naturals, Sequences, FiniteSets

CONSTANTS
    Num,        \* IOTGO_TIMER_NUM
    VerMod,     \* timer_ver is an unsigned integer: 2^32
    MaxBatch,   \* the longest request, at most Num (see Batch)
    Once,       \* the schedules of timers of type ONCE
    Repeat,     \* those of types REPEAT and DURATION
    Blank       \* flash that was never initialised

Slot == 1..Num
Type == {"none"} \cup Once \cup Repeat   \* type, timing, interval and duration
Timer == [id : 0..Num, enabled : BOOLEAN, type : Type]
NoTimer == [id |-> 0, enabled |-> FALSE, type |-> "none"]

\* What timerSaveToFlash writes and timerLoadFromFlash reads.
Image == [timer : [Slot -> Timer], timer_id : [Slot -> 0..Num],
          timer_cnt : 0..Num, timer_ver : 0..(VerMod - 1)]
EmptyImage == [timer |-> [s \in Slot |-> NoTimer], timer_id |-> [s \in Slot |-> 0],
               timer_cnt |-> 0, timer_ver |-> 0]

ASSUME LocTimerAssumption ==
    /\ Num \in Nat \ {0}
    /\ VerMod \in Nat \ {0, 1}
    /\ MaxBatch \in 1..Num
    /\ Blank \notin Image
    /\ "none" \notin Once \cup Repeat

VARIABLES
    ram,        \* iotgo_timer, iotgo_timer_id and iotgo_timer_info
    saved,      \* the image a load would read
    op,         \* "off", "none" (no request runs), or the running request
    req,        \* the timers or the ids of the running request
    i,          \* its loop counter (from 1)
    before      \* history: ram when the running request began

vars == <<ram, saved, op, req, i, before>>

TimerOp == {"new", "edit"}                  \* requests that carry timers
IdOp == {"del", "enable", "disable"}        \* requests that carry ids
Op == TimerOp \cup IdOp

\* generateTimer: an entry that does not parse is refused before any of
\* this begins; one that does has a schedule, and an id the sender chose.
Entry == [id : 0..Num, enabled : BOOLEAN, type : Once \cup Repeat]

\* A request has at most Num arguments.  procNew and procEdit test that
\* before they copy their timers (1194, 1221).  procDel, procEnable and
\* procDisable do not: they copy any number of ids to an array of Num bytes
\* (1248, 1271, 1294), and for a longer request, whose effect is that of
\* writing past the array, nothing is said here.
Batch(A) == UNION {[1..n -> A] : n \in 1..MaxBatch}

TypeOK ==
    /\ ram \in Image
    /\ saved \in Image \cup {Blank}
    /\ op \in {"off", "none"} \cup Op
    /\ i \in 1..(MaxBatch + 1)
    /\ before \in Image
    /\ op \in TimerOp => req \in Batch(Entry)
    /\ op \in IdOp => req \in Batch(0..Num)
    /\ op \in Op => i <= Len(req) + 1

------------------------------------------------------------------------------
Init ==
    /\ ram = EmptyImage
    /\ saved = Blank
    /\ op = "off"
    /\ req = <<>>
    /\ i = 1
    /\ before = EmptyImage

Idle == op' = "none" /\ req' = <<>> /\ i' = 1 /\ before' = EmptyImage

\* timerInit, timerLoadFromFlash: flash that was never initialised (its
\* timer_num reads as all ones) is given an empty image first.
Boot ==
    /\ op = "off"
    /\ ram' = IF saved = Blank THEN EmptyImage ELSE saved
    /\ saved' = IF saved = Blank THEN EmptyImage ELSE saved
    /\ op' = "none"
    /\ UNCHANGED <<req, i, before>>

PowerLoss ==
    /\ op # "off"
    /\ ram' = EmptyImage
    /\ op' = "off"
    /\ req' = <<>> /\ i' = 1 /\ before' = EmptyImage
    /\ UNCHANGED saved

------------------------------------------------------------------------------
\* A request passes the tests before its loop.  One that does not is
\* answered with an error and changes nothing.
Begin(o, r) ==
    /\ op = "none"
    /\ op' = o /\ req' = r /\ i' = 1 /\ before' = ram
    /\ UNCHANGED <<ram, saved>>

BeginNew(r) == Len(r) + ram.timer_cnt <= Num /\ Begin("new", r)
BeginEdit(r) == Len(r) <= ram.timer_cnt /\ Begin("edit", r)
BeginDel(r) == Begin("del", r)
BeginSwitch(o, r) == Len(r) <= ram.timer_cnt /\ Begin(o, r)

\* Mutant: the error return leaves the table as the loop changed it.
RollbackSkipped == Idle /\ UNCHANGED <<ram, saved>>

\* A wrong argument: load the table from flash and answer with an error.
Rollback == Idle /\ ram' = saved /\ UNCHANGED saved

Known(s) == s # 0 /\ ram.timer_id[s] = s
Free == {s \in Slot : ram.timer_id[s] = 0}

\* timerProductId: the lowest free id, if there is one.
ProductId ==
    {s \in Slot : /\ ram.timer_cnt < Num /\ s \in Free
                  /\ \A t \in Free : s <= t}

Running(o) == op = o /\ i <= Len(req)
TurnDone == i' = i + 1 /\ UNCHANGED <<saved, op, req, before>>

\* Mutant: every new slot gets the first timer of the request.
NewTurnFirst ==
    /\ Running("new")
    /\ IF ProductId = {} \/ req[i].id # 0 THEN Rollback
       ELSE /\ \E p \in ProductId :
                   ram' = [ram EXCEPT !.timer[p] = [req[1] EXCEPT !.id = p],
                                      !.timer_id[p] = p,
                                      !.timer_cnt = @ + 1]
            /\ TurnDone

NewTurn ==
    /\ Running("new")
    /\ IF ProductId = {} \/ req[i].id # 0 THEN Rollback
       ELSE /\ \E p \in ProductId :
                   ram' = [ram EXCEPT !.timer[p] = [req[i] EXCEPT !.id = p],
                                      !.timer_id[p] = p,
                                      !.timer_cnt = @ + 1]
            /\ TurnDone

EditTurn ==
    /\ Running("edit")
    /\ IF ~Known(req[i].id) THEN Rollback
       ELSE ram' = [ram EXCEPT !.timer[req[i].id] = req[i]] /\ TurnDone

\* Mutant: the id of a deleted timer is not given back.
DelTurnKeepsId ==
    /\ Running("del")
    /\ IF ~Known(req[i]) \/ ram.timer_cnt = 0 THEN Rollback
       ELSE /\ ram' = [ram EXCEPT !.timer[req[i]] = NoTimer, !.timer_cnt = @ - 1]
            /\ TurnDone

DelTurn ==
    /\ Running("del")
    /\ IF ~Known(req[i]) \/ ram.timer_cnt = 0 THEN Rollback
       ELSE /\ ram' = [ram EXCEPT !.timer_id[req[i]] = 0,
                                  !.timer[req[i]] = NoTimer,
                                  !.timer_cnt = @ - 1]
            /\ TurnDone

SwitchTurn(o) ==
    /\ Running(o)
    /\ IF ~Known(req[i]) THEN Rollback
       ELSE ram' = [ram EXCEPT !.timer[req[i]].enabled = (o = "enable")] /\ TurnDone

\* Mutant: the changed table is not saved.
CommitUnsaved(img) ==
    /\ ram' = [img EXCEPT !.timer_ver = (@ + 1) % VerMod]
    /\ saved' = saved
    /\ Idle

\* The version goes up and the table is saved.
Commit(img) ==
    /\ ram' = [img EXCEPT !.timer_ver = (@ + 1) % VerMod]
    /\ saved' = ram'
    /\ Idle

LoopDone == op \in Op /\ i = Len(req) + 1 /\ Commit(ram)

------------------------------------------------------------------------------
\* Requests on the whole table, which cannot fail.
DelAll == op = "none" /\ Commit([EmptyImage EXCEPT !.timer_ver = ram.timer_ver])

SwitchAll(b) ==
    /\ op = "none"
    /\ Commit([ram EXCEPT !.timer = [s \in Slot |->
           IF ram.timer[s].id # 0 THEN [ram.timer[s] EXCEPT !.enabled = b] ELSE ram.timer[s]]])

\* timerDealTime: the one-second tick.  A timer of type ONCE that is due is
\* run and disabled, in RAM only; the other types change nothing here.
DealTime(due) ==
    /\ op = "none"
    /\ due # {}
    /\ \A s \in due : ram.timer[s].id # 0 /\ ram.timer[s].enabled /\ ram.timer[s].type \in Once
    /\ ram' = [ram EXCEPT !.timer = [s \in Slot |->
           IF s \in due THEN [ram.timer[s] EXCEPT !.enabled = FALSE] ELSE ram.timer[s]]]
    /\ UNCHANGED <<saved, op, req, i, before>>

Request ==
    \/ \E r \in Batch(Entry) : BeginNew(r) \/ BeginEdit(r)
    \/ \E r \in Batch(0..Num) : BeginDel(r) \/ \E o \in {"enable", "disable"} : BeginSwitch(o, r)
    \/ NewTurn \/ EditTurn \/ DelTurn
    \/ SwitchTurn("enable") \/ SwitchTurn("disable")
    \/ LoopDone
    \/ DelAll \/ \E b \in BOOLEAN : SwitchAll(b)

Next == Boot \/ PowerLoss \/ Request \/ \E due \in SUBSET Slot : DealTime(due)

Spec == Init /\ [][Next]_vars

------------------------------------------------------------------------------
Used(img) == {s \in Slot : img.timer_id[s] # 0}

\* An image whose three parts agree: the id table, the timers, the count.
Agrees(img) ==
    /\ \A s \in Slot :
           \/ img.timer_id[s] = 0 /\ img.timer[s] = NoTimer
           \/ img.timer_id[s] = s /\ img.timer[s].id = s /\ img.timer[s].type # "none"
    /\ img.timer_cnt = Cardinality(Used(img))

(* The id table, the timers and the count agree at every step of every     *)
(* request, in RAM and in flash: no timer without an id, no id without a   *)
(* timer, and a count that is the number of timers, which the tests of     *)
(* timerNew, timerEdit and timerEnable rely on.                            *)
Registry == Agrees(ram) /\ (saved # Blank => Agrees(saved))

(* A request that passed timerNew's test of the count always finds a free  *)
(* id: the error return of timerProductId is never taken.                  *)
RoomLeft == op = "new" => ram.timer_cnt + Len(req) - i < Num

\* a is b, but for timers of type ONCE that a has already run.
RanSince(a, b) ==
    /\ a.timer_id = b.timer_id /\ a.timer_cnt = b.timer_cnt /\ a.timer_ver = b.timer_ver
    /\ \A s \in Slot :
           \/ a.timer[s] = b.timer[s]
           \/ b.timer[s].type \in Once /\ a.timer[s] = [b.timer[s] EXCEPT !.enabled = FALSE]

(* Between requests what a power failure would bring back is the table in  *)
(* RAM, but for once-timers that ran since: an answered request is in      *)
(* flash, and no half-done request is.                                     *)
Mirror ==
    /\ op # "off" => saved # Blank
    /\ op = "none" => RanSince(ram, saved)
    /\ op \in Op => RanSince(before, saved)

(* A request that fails on any of its arguments leaves the table, the ids, *)
(* the count and the version as they were when it began (a once-timer that *)
(* ran since the last save is enabled again by the reload).                *)
FailedIsNoop ==
    [][(op \in Op /\ op' = "none" /\ saved' = saved) => RanSince(before, ram')]_vars

\* What the first n arguments of the running request make of the timers.
LastAt(n, s) == {k \in 1..n : req[k].id = s /\ \A m \in (k + 1)..n : req[m].id # s}
Named(n, s) == \E k \in 1..n : req[k] = s

\* The k-th timer is in the k-th slot that was free, with the id of the slot.
Placed(n, place) ==
    /\ \A k \in 1..n :
           /\ before.timer_id[place[k]] = 0
           /\ ram.timer[place[k]] = [req[k] EXCEPT !.id = place[k]]
           /\ \A j \in 1..(k - 1) : place[j] < place[k]
           /\ \A s \in 1..(place[k] - 1) :
                  before.timer_id[s] = 0 => \E j \in 1..(k - 1) : place[j] = s
    /\ \A s \in Slot : (\A k \in 1..n : place[k] # s) => ram.timer[s] = before.timer[s]

AppliedNew(n) ==
    /\ ram.timer_cnt = before.timer_cnt + n
    /\ \E place \in [1..n -> Slot] : Placed(n, place)
AppliedEdit(n) ==
    /\ ram.timer_id = before.timer_id
    /\ \A s \in Slot : IF LastAt(n, s) = {} THEN ram.timer[s] = before.timer[s]
                       ELSE \E k \in LastAt(n, s) : ram.timer[s] = req[k]
AppliedDel(n) ==
    \A s \in Slot : ram.timer[s] = IF Named(n, s) THEN NoTimer ELSE before.timer[s]
AppliedSwitch(n, b) ==
    \A s \in Slot : ram.timer[s] =
        IF Named(n, s) THEN [before.timer[s] EXCEPT !.enabled = b] ELSE before.timer[s]

(* At every turn of its loop a request has done exactly what the arguments *)
(* so far ask for, and nothing to any other timer: new timers are in the   *)
(* lowest free slots in the order of the request, edited ones hold their   *)
(* last entry, deleted ones are gone, switched ones are switched.  At the  *)
(* last turn this is what is saved and answered with success.              *)
Applied ==
    /\ op = "new" => AppliedNew(i - 1)
    /\ op = "edit" => AppliedEdit(i - 1)
    /\ op = "del" => AppliedDel(i - 1)
    /\ op = "enable" => AppliedSwitch(i - 1, TRUE)
    /\ op = "disable" => AppliedSwitch(i - 1, FALSE)
    /\ op \in Op => ram.timer_ver = before.timer_ver

LocTimerInv == TypeOK /\ Registry /\ RoomLeft /\ Mirror /\ Applied
==============================================================================
