--------------------------- MODULE LocTimerProofs ----------------------------
(* Proofs about the local timers, for every number of slots: the table of  *)
(* LocTimer first, then that it is still the table of LocTimer under the   *)
(* clock of TimedTimers, so that the theorems hold there too.              *)
EXTENDS TimedTimers, FiniteSetTheorems, SequenceTheorems, WellFoundedInduction, TLAPS

\* A request is a sequence of at most MaxBatch arguments.
LEMMA BatchFacts ==
    ASSUME NEW A, NEW r \in Batch(A)
    PROVE  /\ r \in Seq(A)
           /\ Len(r) \in 1..MaxBatch
           /\ \A k \in 1..Len(r) : r[k] \in A
<1>1. PICK n \in 1..MaxBatch : r \in [1..n -> A]
  BY DEF Batch
<1>2. n \in Nat
  BY <1>1, LocTimerAssumption
<1>3. r \in Seq(A)
  BY <1>1, <1>2, SeqDef
<1>4. /\ Len(r) \in Nat /\ r \in [1..Len(r) -> A] /\ DOMAIN r = 1..Len(r)
  BY <1>3, LenProperties
<1>5. 1..n = 1..Len(r)
  BY <1>1, <1>4
<1>6. Len(r) = n
  <2>1. 1 \in 1..n /\ n \in 1..n
    BY <1>1, <1>2
  <2>2. 1 \in 1..Len(r) /\ n \in 1..Len(r)
    BY ONLY <1>5, <2>1, Zenon
  <2>3. Len(r) \in 1..Len(r)
    BY <1>4, <2>2
  <2>4. Len(r) \in 1..n
    BY ONLY <1>5, <2>3, Zenon
  <2>5. \A k \in Nat : (n \in 1..k /\ k \in 1..n) => k = n
    BY <1>2
  <2> QED BY ONLY <1>4, <2>2, <2>4, <2>5, Zenon
<1> QED BY <1>1, <1>3, <1>4, <1>6

\* The used slots of an image are finitely many; taking an id adds one to
\* their number and giving one back removes one.
LEMMA UsedFacts ==
    ASSUME NEW a, NEW b, NEW s \in Slot
    PROVE  /\ IsFiniteSet(Used(a)) /\ Cardinality(Used(a)) \in 0..Num
           /\ (Used(b) = Used(a) \cup {s} /\ s \notin Used(a)) =>
                  Cardinality(Used(b)) = Cardinality(Used(a)) + 1
           /\ (Used(b) = Used(a) \ {s} /\ s \in Used(a)) =>
                  Cardinality(Used(b)) = Cardinality(Used(a)) - 1
<1>1. IsFiniteSet(Slot) /\ Cardinality(Slot) = Num
  BY FS_Interval, LocTimerAssumption DEF Slot
<1>2. IsFiniteSet(Used(a)) /\ Cardinality(Used(a)) <= Num
  <2>1. Used(a) \in SUBSET Slot
    BY DEF Used
  <2> QED BY <1>1, <2>1, FS_Subset
<1>3. Cardinality(Used(a)) \in Nat
  BY <1>2, FS_CardinalityType
<1>4. Cardinality(Used(a)) \in 0..Num
  BY <1>2, <1>3, LocTimerAssumption
<1> QED BY <1>2, <1>4, FS_AddElement, FS_RemoveElement

\* The empty image is an image whose parts agree.
LEMMA EmptyFacts == EmptyImage \in Image /\ Agrees(EmptyImage)
<1>1. EmptyImage \in Image
  BY LocTimerAssumption DEF EmptyImage, Image, Timer, NoTimer, Type
<1>2. Used(EmptyImage) = {}
  BY DEF Used, EmptyImage
<1> QED BY <1>1, <1>2, FS_EmptySet DEF Agrees, EmptyImage

\* Every image has run nothing since itself.
LEMMA RanSinceItself == \A a : RanSince(a, a)
  BY DEF RanSince

\* A step that ends a request keeps the invariant when the table and its
\* image are in order and the table is the image but for what ran.
LEMMA IdleInv ==
    ASSUME Idle, ram' \in Image, saved' \in Image, Agrees(ram'), Agrees(saved'),
           RanSince(ram', saved')
    PROVE  LocTimerInv'
<1> USE DEF Idle, Op, TimerOp, IdOp
<1>1. TypeOK'
  BY EmptyFacts, LocTimerAssumption DEF TypeOK
<1>2. Registry'
  BY DEF Registry
<1>3. RoomLeft'
  BY DEF RoomLeft
<1>4. Mirror'
  BY LocTimerAssumption DEF Mirror
<1>5. Applied'
  BY DEF Applied
<1> QED BY <1>1, <1>2, <1>3, <1>4, <1>5 DEF LocTimerInv

\* The reload of a failed request.
LEMMA RollbackInv ==
    ASSUME LocTimerInv, op \in Op, Rollback
    PROVE  LocTimerInv'
<1>1. saved \in Image /\ Agrees(saved)
  BY DEF LocTimerInv, TypeOK, Mirror, Registry, Op, TimerOp, IdOp
<1> QED BY <1>1, IdleInv, RanSinceItself DEF Rollback

\* The version and the save that end a successful request.
LEMMA CommitInv ==
    ASSUME NEW img \in Image, Agrees(img), Commit(img)
    PROVE  LocTimerInv'
<1>1. (img.timer_ver + 1) % VerMod \in 0..(VerMod - 1)
  BY LocTimerAssumption DEF Image
<1>2. /\ ram' \in Image /\ ram'.timer_id = img.timer_id
      /\ ram'.timer = img.timer /\ ram'.timer_cnt = img.timer_cnt
  BY <1>1 DEF Commit, Image
<1>3. Used(ram') = Used(img)
  BY <1>2 DEF Used
<1>4. Agrees(ram')
  BY <1>2, <1>3 DEF Agrees
<1>5. saved' = ram' /\ Idle
  BY DEF Commit
<1> QED BY <1>2, <1>4, <1>5, IdleInv, RanSinceItself

\* One successful turn of a loop.
LEMMA TurnInv ==
    ASSUME LocTimerInv, op \in Op, i <= Len(req), TurnDone,
           ram' \in Image, Agrees(ram'), RoomLeft', Applied'
    PROVE  LocTimerInv'
<1> USE DEF LocTimerInv, TurnDone
<1>1. Len(req) \in 1..MaxBatch
  BY BatchFacts DEF TypeOK, Op
<1>2. TypeOK'
  BY <1>1, LocTimerAssumption DEF TypeOK, Op, TimerOp, IdOp
<1>3. Registry'
  BY DEF Registry
<1>4. Mirror'
  BY DEF Mirror, Op, TimerOp, IdOp
<1> QED BY <1>2, <1>3, <1>4

\* The arguments of the turn that runs.
LEMMA TurnFacts ==
    ASSUME LocTimerInv, op \in Op, i <= Len(req)
    PROVE  /\ Len(req) \in 1..MaxBatch /\ i \in 1..Len(req)
           /\ op \in TimerOp => req[i] \in Entry
           /\ op \in IdOp => req[i] \in 0..Num
<1>1. /\ Len(req) \in 1..MaxBatch
      /\ op \in TimerOp => \A k \in 1..Len(req) : req[k] \in Entry
      /\ op \in IdOp => \A k \in 1..Len(req) : req[k] \in 0..Num
  BY BatchFacts DEF LocTimerInv, TypeOK, Op
<1>2. i \in 1..Len(req)
  BY <1>1, LocTimerAssumption DEF LocTimerInv, TypeOK
<1> QED BY <1>1, <1>2

\* The table a request found was in order.
LEMMA BeforeAgrees ==
    ASSUME LocTimerInv, op \in Op
    PROVE  Agrees(before)
<1>1. saved \in Image /\ Agrees(saved) /\ before \in Image /\ RanSince(before, saved)
  BY DEF LocTimerInv, TypeOK, Mirror, Registry, Op, TimerOp, IdOp
<1>2. Used(before) = Used(saved)
  BY <1>1 DEF Used, RanSince
<1>3. ASSUME NEW s \in Slot
      PROVE  \/ before.timer[s] = saved.timer[s]
             \/ /\ before.timer[s].id = saved.timer[s].id
                /\ before.timer[s].type = saved.timer[s].type
                /\ saved.timer[s].type \in Once
  BY <1>1 DEF RanSince, Image, Timer
<1> QED BY <1>1, <1>2, <1>3 DEF Agrees, RanSince, NoTimer

\* What generateTimer accepts is not the empty timer.
LEMMA EntryHasSchedule == \A e \in Entry : e.type # "none"
BY LocTimerAssumption DEF Entry

\* The slots of the first timers of a request, and the lowest free one as
\* the slot of the next, are the slots of one timer more.
LEMMA PlacedStep ==
    ASSUME LocTimerInv, op = "new", NEW p \in ProductId, TurnDone, NEW n, n = i, n \in 1..Len(req),
           p \in Slot, ram.timer_id[p] = 0, ram \in Image, Agrees(ram), req[n] \in Entry,
           ram'.timer = [ram.timer EXCEPT ![p] = [req[n] EXCEPT !.id = p]],
           NEW place \in [1..(n - 1) -> Slot], Placed(n - 1, place), Len(req) \in Nat
    PROVE  Placed(n, [k \in 1..n |-> IF k = n THEN p ELSE place[k]])'
<1> DEFINE next == [k \in 1..n |-> IF k = n THEN p ELSE place[k]]
<1>1. /\ n \in Nat /\ 1..n = (1..(n - 1)) \cup {n} /\ n \notin 1..(n - 1)
      /\ \A k \in 1..(n - 1) : 1..(k - 1) \subseteq 1..(n - 1)
  OBVIOUS
<1>2. /\ next[n] = p
      /\ \A k \in 1..(n - 1) : next[k] = place[k] /\ place[k] \in Slot
  BY <1>1
<1> HIDE DEF next
<1>3. before' = before /\ req' = req
  BY DEF TurnDone
\* What the earlier turns filled is filled, and p is not among it.
<1>4. ASSUME NEW k \in 1..(n - 1) PROVE place[k] # p /\ ram.timer_id[place[k]] # 0
  <2>1. ram.timer[place[k]] = [req[k] EXCEPT !.id = place[k]] /\ place[k] \in Slot /\ k \in 1..Len(req)
    BY DEF Placed
  <2>2. req[k] \in Entry
    BY <2>1, BatchFacts DEF LocTimerInv, TypeOK, TimerOp, Op
  <2>3. ram.timer[place[k]].id = place[k] /\ place[k] # 0
    BY <2>1, <2>2, LocTimerAssumption DEF Entry, Slot
  <2>4. ram.timer[place[k]] # NoTimer
    BY <2>3 DEF NoTimer
  <2> QED BY <2>1, <2>3, <2>4 DEF Agrees
\* A slot that was free, and was not filled, is free.
<1>5. ASSUME NEW s \in Slot, \A k \in 1..(n - 1) : place[k] # s
      PROVE  /\ ram.timer[s] = before.timer[s]
             /\ before.timer_id[s] = 0 <=> ram.timer_id[s] = 0
  <2>1. ram.timer[s] = before.timer[s]
    BY <1>5 DEF Placed
  <2>2. Agrees(before) /\ s # 0
    BY BeforeAgrees, LocTimerAssumption DEF Op, TimerOp, Slot
  <2> QED BY <2>1, <2>2 DEF Agrees, NoTimer
<1>6. before.timer_id[p] = 0
  BY <1>4, <1>5
<1>7. \A t \in Slot : ram.timer_id[t] = 0 => p <= t
  BY DEF ProductId, Free
<1>8. ASSUME NEW k \in 1..n
      PROVE  /\ before.timer_id[next[k]] = 0
             /\ ram'.timer[next[k]] = [req[k] EXCEPT !.id = next[k]]
             /\ \A j \in 1..(k - 1) : next[j] < next[k]
             /\ \A s \in 1..(next[k] - 1) :
                    before.timer_id[s] = 0 => \E j \in 1..(k - 1) : next[j] = s
  <2>1. CASE k = n
    <3>1. before.timer_id[p] = 0 /\ ram'.timer[p] = [req[n] EXCEPT !.id = p]
      BY <1>6 DEF Image
    <3>2. ASSUME NEW j \in 1..(n - 1) PROVE place[j] < p
      <4>1. CASE p < place[j]
        <5>1. p \in 1..(place[j] - 1)
          BY <4>1, LocTimerAssumption DEF Slot
        <5>2. PICK m \in 1..(j - 1) : place[m] = p
          BY <5>1, <1>6 DEF Placed
        <5> QED BY <5>2, <1>1, <1>4
      <4> QED BY <4>1, <1>4, LocTimerAssumption DEF Slot
    <3>3. ASSUME NEW s \in 1..(p - 1), before.timer_id[s] = 0
          PROVE  \E j \in 1..(n - 1) : place[j] = s
      <4>1. s \in Slot /\ ~(p <= s)
        BY LocTimerAssumption DEF Slot
      <4> QED BY <3>3, <4>1, <1>5, <1>7
    <3> QED BY <2>1, <3>1, <3>2, <3>3, <1>2
  <2>2. CASE k # n
    <3>1. k \in 1..(n - 1) /\ \A j \in 1..(k - 1) : j \in 1..(n - 1)
      BY <2>2, <1>1
    <3>2. /\ before.timer_id[place[k]] = 0
          /\ ram.timer[place[k]] = [req[k] EXCEPT !.id = place[k]]
          /\ \A j \in 1..(k - 1) : place[j] < place[k]
          /\ \A s \in 1..(place[k] - 1) :
                 before.timer_id[s] = 0 => \E j \in 1..(k - 1) : place[j] = s
      BY <3>1 DEF Placed
    <3>3. ram'.timer[place[k]] = ram.timer[place[k]]
      BY <3>1, <1>4, <1>2 DEF Image
    <3> QED BY <3>1, <3>2, <3>3, <1>2
  <2> QED BY <2>1, <2>2
<1>9. ASSUME NEW s \in Slot, \A k \in 1..n : next[k] # s
      PROVE  ram'.timer[s] = before.timer[s]
  <2>1. s # p /\ \A k \in 1..(n - 1) : place[k] # s
    BY <1>9, <1>1, <1>2
  <2> QED BY <2>1, <1>5 DEF Image
<1>10. Placed(n, next)'
  BY <1>3, <1>8, <1>9 DEF Placed
<1> QED BY <1>10 DEF next

\* A turn of timerNew: the lowest free id is taken and the entry stored.
LEMMA NewTurnInv ==
    ASSUME LocTimerInv, NewTurn
    PROVE  LocTimerInv'
<1> USE DEF Op, TimerOp, IdOp
<1>1. op = "new" /\ i <= Len(req)
  BY DEF NewTurn, Running
<1>2. CASE Rollback
  BY <1>1, <1>2, RollbackInv
<1>3. ASSUME NEW p \in ProductId, TurnDone,
             ram' = [ram EXCEPT !.timer[p] = [req[i] EXCEPT !.id = p],
                                !.timer_id[p] = p,
                                !.timer_cnt = @ + 1]
      PROVE  LocTimerInv'
  <2>1. p \in Slot /\ ram.timer_id[p] = 0 /\ ram.timer_cnt < Num
    BY <1>3 DEF ProductId, Free
  <2>2. req[i] \in Entry /\ Len(req) \in 1..MaxBatch /\ i \in 1..Len(req)
    BY <1>1, TurnFacts
  <2>3. /\ ram \in Image /\ Agrees(ram)
    BY DEF LocTimerInv, TypeOK, Registry
  <2>4. /\ ram' \in Image
        /\ ram'.timer = [ram.timer EXCEPT ![p] = [req[i] EXCEPT !.id = p]]
        /\ ram'.timer_id = [ram.timer_id EXCEPT ![p] = p]
        /\ ram'.timer_cnt = ram.timer_cnt + 1
        /\ ram'.timer_ver = ram.timer_ver
    <3> DEFINE t == [req[i] EXCEPT !.id = p]
    <3>1. t \in Timer
      BY <2>1, <2>2 DEF Timer, Entry, Type, Slot
    <3> HIDE DEF t
    <3>2. ram' = [ram EXCEPT !.timer = [ram.timer EXCEPT ![p] = t],
                             !.timer_id = [ram.timer_id EXCEPT ![p] = p],
                             !.timer_cnt = ram.timer_cnt + 1]
      BY <1>3 DEF t
    <3>3. /\ [ram.timer EXCEPT ![p] = t] \in [Slot -> Timer]
          /\ [ram.timer_id EXCEPT ![p] = p] \in [Slot -> 0..Num]
          /\ ram.timer_cnt + 1 \in 0..Num
      BY <3>1, <2>1, <2>3, LocTimerAssumption, SMTT(40) DEF Image, Slot
    <3> QED BY <3>2, <3>3, <2>3 DEF Image, t
  <2>5. Used(ram') = Used(ram) \cup {p} /\ p \notin Used(ram)
    BY <2>1, <2>3, <2>4, LocTimerAssumption, SMTT(40) DEF Used, Image, Slot
  <2>6. Cardinality(Used(ram')) = Cardinality(Used(ram)) + 1
    BY <2>1, <2>5, UsedFacts, SMTT(40)
  <2>7. Agrees(ram')
    <3>1. ram'.timer_cnt = Cardinality(Used(ram'))
      BY <2>3, <2>4, <2>6 DEF Agrees
    <3>2. ASSUME NEW s \in Slot
          PROVE  \/ ram'.timer_id[s] = 0 /\ ram'.timer[s] = NoTimer
                 \/ /\ ram'.timer_id[s] = s /\ ram'.timer[s].id = s
                    /\ ram'.timer[s].type # "none"
      <4>1. CASE s = p
        BY <4>1, <2>1, <2>2, <2>3, <2>4, EntryHasSchedule DEF Entry, Image
      <4>2. CASE s # p
        BY <4>2, <2>3, <2>4 DEF Agrees, Image
      <4> QED BY <4>1, <4>2
    <3> QED BY <3>1, <3>2 DEF Agrees
  <2>8. RoomLeft'
    BY <1>1, <1>3, <2>2, <2>3, <2>4, LocTimerAssumption, SMTT(40)
       DEF LocTimerInv, TypeOK, RoomLeft, TurnDone, Image
  <2>9. Applied'
    <3>1. before \in Image /\ AppliedNew(i - 1) /\ ram.timer_ver = before.timer_ver
      BY <1>1 DEF LocTimerInv, TypeOK, Applied
    <3>2. PICK n \in 1..Len(req) : n = i
      BY <2>2
    <3>3. PICK place \in [1..(n - 1) -> Slot] : Placed(n - 1, place)
      BY <3>1, <3>2 DEF AppliedNew
    <3> DEFINE next == [k \in 1..n |-> IF k = n THEN p ELSE place[k]]
    <3>4. next \in [1..n -> Slot]
      BY <3>2, <3>3, <2>1, <2>2
    <3>5. Placed(n, next)'
      BY <1>1, <1>3, <3>2, <3>3, <2>1, <2>2, <2>3, <2>4, PlacedStep
    <3>6. /\ i' = i + 1 /\ op' = op /\ before' = before /\ i' - 1 = n
          /\ ram'.timer_cnt = before.timer_cnt + n
      BY <3>1, <3>2, <2>2, <2>3, <2>4, <1>3 DEF AppliedNew, TurnDone, Image
    <3> HIDE DEF next
    <3>7. AppliedNew(i - 1)'
      BY <3>4, <3>5, <3>6, ZenonT(60) DEF AppliedNew, Placed
    <3> QED BY <1>1, <3>1, <3>6, <3>7, <2>4 DEF Applied
  <2> QED BY <1>1, <1>3, <2>4, <2>7, <2>8, <2>9, TurnInv
<1> QED BY <1>1, <1>2, <1>3 DEF NewTurn

\* A turn of timerEdit: the entry replaces the timer with its id.
LEMMA EditTurnInv ==
    ASSUME LocTimerInv, EditTurn
    PROVE  LocTimerInv'
<1> USE DEF Op, TimerOp, IdOp
<1>1. op = "edit" /\ i <= Len(req)
  BY DEF EditTurn, Running
<1>2. CASE Rollback
  BY <1>1, <1>2, RollbackInv
<1>3. ASSUME Known(req[i].id), TurnDone, ram' = [ram EXCEPT !.timer[req[i].id] = req[i]]
      PROVE  LocTimerInv'
  <2> DEFINE p == req[i].id
  <2>1. req[i] \in Entry /\ Len(req) \in 1..MaxBatch /\ i \in 1..Len(req)
    BY <1>1, TurnFacts
  <2>2. p \in Slot /\ ram.timer_id[p] = p
    BY <1>3, <2>1, LocTimerAssumption DEF Known, Entry, Slot
  <2>3. ram \in Image /\ Agrees(ram)
    BY DEF LocTimerInv, TypeOK, Registry
  <2>4. /\ ram' \in Image
        /\ ram'.timer = [ram.timer EXCEPT ![p] = req[i]]
        /\ ram'.timer_id = ram.timer_id /\ ram'.timer_cnt = ram.timer_cnt
        /\ ram'.timer_ver = ram.timer_ver
    <3>1. req[i] \in Timer
      BY <2>1 DEF Entry, Timer, Type
    <3>2. [ram.timer EXCEPT ![p] = req[i]] \in [Slot -> Timer]
      BY <3>1, <2>2, <2>3 DEF Image
    <3>3. ram' = [ram EXCEPT !.timer = [ram.timer EXCEPT ![p] = req[i]]]
      BY <1>3
    <3> QED BY <3>2, <3>3, <2>3 DEF Image
  <2>5. Used(ram') = Used(ram)
    BY <2>4 DEF Used
  <2>6. Agrees(ram')
    BY <2>1, <2>2, <2>3, <2>4, <2>5, EntryHasSchedule DEF Agrees, Image, Entry
  <2>7. RoomLeft'
    BY <1>1, <1>3 DEF RoomLeft, TurnDone
  <2>8. Applied'
    <3>1. before \in Image /\ AppliedEdit(i - 1) /\ ram.timer_ver = before.timer_ver
      BY <1>1 DEF LocTimerInv, TypeOK, Applied
    <3>2. LastAt(i, p) = {i}
      BY <2>1 DEF LastAt
    <3>3. \A s \in Slot : s # p => LastAt(i, s) = LastAt(i - 1, s)
      BY <2>1 DEF LastAt
    <3>4. req' = req /\ i' = i + 1 /\ before' = before /\ op' = op
      BY <1>3 DEF TurnDone
    <3>5. \A s \in Slot : IF LastAt(i, s) = {} THEN ram'.timer[s] = before.timer[s]
                           ELSE \E k \in LastAt(i, s) : ram'.timer[s] = req[k]
      <4>1. \A s \in Slot : s # p => ram'.timer[s] = ram.timer[s]
        BY <2>3, <2>4 DEF Image
      <4>2. ram'.timer[p] = req[i]
        BY <2>2, <2>3, <2>4 DEF Image
      <4> QED BY <3>1, <3>2, <3>3, <4>1, <4>2 DEF AppliedEdit
    <3>6. i' - 1 = i
      BY <3>4, <2>1
    <3>7. AppliedEdit(i - 1)'
      BY <3>1, <3>4, <3>5, <3>6, <2>4 DEF AppliedEdit, LastAt
    <3> QED BY <1>1, <3>1, <3>4, <3>7, <2>4 DEF Applied
  <2> QED BY <1>1, <1>3, <2>4, <2>6, <2>7, <2>8, TurnInv
<1> QED BY <1>1, <1>2, <1>3 DEF EditTurn

\* A turn of timerDel: the id is given back and the timer cleared.
LEMMA DelTurnInv ==
    ASSUME LocTimerInv, DelTurn
    PROVE  LocTimerInv'
<1> USE DEF Op, TimerOp, IdOp
<1>1. op = "del" /\ i <= Len(req)
  BY DEF DelTurn, Running
<1>2. CASE Rollback
  BY <1>1, <1>2, RollbackInv
<1>3. ASSUME Known(req[i]), ram.timer_cnt # 0, TurnDone,
             ram' = [ram EXCEPT !.timer_id[req[i]] = 0,
                                !.timer[req[i]] = NoTimer,
                                !.timer_cnt = @ - 1]
      PROVE  LocTimerInv'
  <2> DEFINE p == req[i]
  <2>1. p \in 0..Num /\ Len(req) \in 1..MaxBatch /\ i \in 1..Len(req)
    BY <1>1, TurnFacts
  <2>2. p \in Slot /\ ram.timer_id[p] = p
    BY <1>3, <2>1, LocTimerAssumption DEF Known, Slot
  <2>3. ram \in Image /\ Agrees(ram)
    BY DEF LocTimerInv, TypeOK, Registry
  <2>4. /\ ram' \in Image
        /\ ram'.timer = [ram.timer EXCEPT ![p] = NoTimer]
        /\ ram'.timer_id = [ram.timer_id EXCEPT ![p] = 0]
        /\ ram'.timer_cnt = ram.timer_cnt - 1
        /\ ram'.timer_ver = ram.timer_ver
    <3>1. NoTimer \in Timer
      BY LocTimerAssumption DEF NoTimer, Timer, Type
    <3>2. /\ [ram.timer EXCEPT ![p] = NoTimer] \in [Slot -> Timer]
          /\ [ram.timer_id EXCEPT ![p] = 0] \in [Slot -> 0..Num]
          /\ ram.timer_cnt - 1 \in 0..Num
      BY <3>1, <2>2, <2>3, <1>3, LocTimerAssumption DEF Image
    <3>3. ram' = [ram EXCEPT !.timer_id = [ram.timer_id EXCEPT ![p] = 0],
                             !.timer = [ram.timer EXCEPT ![p] = NoTimer],
                             !.timer_cnt = ram.timer_cnt - 1]
      BY <1>3
    <3> QED BY <3>2, <3>3, <2>3 DEF Image
  <2>5. Used(ram') = Used(ram) \ {p} /\ p \in Used(ram)
    <3>1. \A s \in Slot : ram'.timer_id[s] = IF s = p THEN 0 ELSE ram.timer_id[s]
      BY <2>3, <2>4 DEF Image
    <3>2. ram.timer_id[p] # 0
      BY <1>3 DEF Known
    <3> HIDE DEF p
    <3> QED BY <3>1, <3>2, <2>2 DEF Used
  <2>6. Cardinality(Used(ram')) = Cardinality(Used(ram)) - 1
    BY <2>2, <2>5, UsedFacts
  <2>7. Agrees(ram')
    <3>1. ram'.timer_cnt = Cardinality(Used(ram'))
      BY <2>3, <2>4, <2>6 DEF Agrees
    <3> QED BY <3>1, <2>2, <2>3, <2>4 DEF Agrees, Image
  <2>8. RoomLeft'
    BY <1>1, <1>3 DEF RoomLeft, TurnDone
  <2>9. Applied'
    <3>1. before \in Image /\ AppliedDel(i - 1) /\ ram.timer_ver = before.timer_ver
      BY <1>1 DEF LocTimerInv, TypeOK, Applied
    <3>2. \A s \in Slot : Named(i, s) <=> (Named(i - 1, s) \/ s = p)
      BY <2>1 DEF Named
    <3>3. req' = req /\ i' = i + 1 /\ before' = before /\ op' = op
      BY <1>3 DEF TurnDone
    <3>4. \A s \in Slot : ram'.timer[s] = IF Named(i, s) THEN NoTimer ELSE before.timer[s]
      BY <3>1, <3>2, <2>2, <2>3, <2>4 DEF AppliedDel, Image
    <3>5. i' - 1 = i
      BY <3>3, <2>1
    <3>6. AppliedDel(i - 1)'
      BY <3>3, <3>4, <3>5 DEF AppliedDel, Named
    <3> QED BY <1>1, <3>1, <3>3, <3>6, <2>4 DEF Applied
  <2> QED BY <1>1, <1>3, <2>4, <2>7, <2>8, <2>9, TurnInv
<1> QED BY <1>1, <1>2, <1>3 DEF DelTurn

\* A turn of timerEnable or timerDisable.
LEMMA SwitchTurnInv ==
    ASSUME LocTimerInv, NEW o \in {"enable", "disable"}, SwitchTurn(o)
    PROVE  LocTimerInv'
<1> USE DEF Op, TimerOp, IdOp
<1>1. op = o /\ i <= Len(req)
  BY DEF SwitchTurn, Running
<1>2. CASE Rollback
  BY <1>1, <1>2, RollbackInv
<1>3. ASSUME Known(req[i]), TurnDone,
             ram' = [ram EXCEPT !.timer[req[i]].enabled = (o = "enable")]
      PROVE  LocTimerInv'
  <2> DEFINE p == req[i]
             b == (o = "enable")
             t == [ram.timer[p] EXCEPT !.enabled = b]
  <2>1. p \in 0..Num /\ Len(req) \in 1..MaxBatch /\ i \in 1..Len(req)
    BY <1>1, TurnFacts
  <2>2. p \in Slot /\ ram.timer_id[p] = p /\ p # 0
    BY <1>3, <2>1, LocTimerAssumption DEF Known, Slot
  <2>3. ram \in Image /\ Agrees(ram)
    BY DEF LocTimerInv, TypeOK, Registry
  <2>4. t \in Timer /\ t.id = ram.timer[p].id /\ t.type = ram.timer[p].type
    BY <2>2, <2>3 DEF Image, Timer
  <2>5. ram' = [ram EXCEPT !.timer = [ram.timer EXCEPT ![p] = t]]
    BY <1>3
  <2>6. \A s \in Slot : t = [ram.timer[s] EXCEPT !.enabled = b] \/ s # p
    OBVIOUS
  <2> HIDE DEF t, b
  <2>7. /\ ram' \in Image
        /\ ram'.timer = [ram.timer EXCEPT ![p] = t]
        /\ ram'.timer_id = ram.timer_id /\ ram'.timer_cnt = ram.timer_cnt
        /\ ram'.timer_ver = ram.timer_ver
    <3>1. [ram.timer EXCEPT ![p] = t] \in [Slot -> Timer]
      BY <2>2, <2>3, <2>4 DEF Image
    <3> QED BY <3>1, <2>3, <2>5 DEF Image
  <2>8. Agrees(ram')
    <3>1. Used(ram') = Used(ram)
      BY <2>7 DEF Used
    <3> QED BY <3>1, <2>2, <2>3, <2>4, <2>7 DEF Agrees, Image
  <2>9. RoomLeft'
    BY <1>1, <1>3 DEF RoomLeft, TurnDone
  <2>10. Applied'
    <3>1. before \in Image /\ AppliedSwitch(i - 1, b) /\ ram.timer_ver = before.timer_ver
      BY <1>1 DEF LocTimerInv, TypeOK, Applied, b
    <3>2. \A s \in Slot : Named(i, s) <=> (Named(i - 1, s) \/ s = p)
      BY <2>1 DEF Named
    <3>3. req' = req /\ i' = i + 1 /\ before' = before /\ op' = op
      BY <1>3 DEF TurnDone
    <3>4. t = [before.timer[p] EXCEPT !.enabled = b]
      <4>1. CASE Named(i - 1, p)
        <5>1. ram.timer[p] = [before.timer[p] EXCEPT !.enabled = b]
          BY <4>1, <3>1, <2>2 DEF AppliedSwitch
        <5>2. before.timer[p] \in Timer
          BY <3>1, <2>2 DEF Image
        <5> QED BY <5>1, <5>2 DEF t, Timer
      <4>2. CASE ~Named(i - 1, p)
        BY <4>2, <3>1, <2>2 DEF AppliedSwitch, t
      <4> QED BY <4>1, <4>2
    <3>5. \A s \in Slot : ram'.timer[s] =
              IF Named(i, s) THEN [before.timer[s] EXCEPT !.enabled = b] ELSE before.timer[s]
      <4>1. \A s \in Slot : ram'.timer[s] = IF s = p THEN t ELSE ram.timer[s]
        BY <2>3, <2>7 DEF Image
      <4> QED BY <4>1, <3>1, <3>2, <3>4 DEF AppliedSwitch
    <3>6. i' - 1 = i
      BY <3>3, <2>1
    <3>7. /\ o = "enable" => AppliedSwitch(i - 1, TRUE)'
          /\ o = "disable" => AppliedSwitch(i - 1, FALSE)'
      BY <3>3, <3>5, <3>6 DEF AppliedSwitch, Named, b
    <3> QED BY <1>1, <3>1, <3>3, <3>7, <2>7 DEF Applied
  <2> QED BY <1>1, <1>3, <2>7, <2>8, <2>9, <2>10, TurnInv
<1> QED BY <1>1, <1>2, <1>3 DEF SwitchTurn

\* A request that has passed the tests before its loop.
LEMMA BeginInv ==
    ASSUME LocTimerInv, NEW o \in Op, NEW r, Begin(o, r),
           o \in TimerOp => r \in Batch(Entry),
           o \in IdOp => r \in Batch(0..Num),
           o = "new" => Len(r) + ram.timer_cnt <= Num
    PROVE  LocTimerInv'
<1> USE DEF Begin, LocTimerInv
<1>1. Len(r) \in 1..MaxBatch /\ ram \in Image /\ MaxBatch \in Nat
  BY BatchFacts, LocTimerAssumption DEF TypeOK, Op
<1>2. TypeOK'
  BY <1>1 DEF TypeOK, Op, TimerOp, IdOp
<1>3. Registry'
  BY DEF Registry
<1>4. RoomLeft'
  BY <1>1, LocTimerAssumption DEF RoomLeft, Image
<1>5. Mirror'
  BY DEF Mirror, Op, TimerOp, IdOp
<1>6. Applied'
  <2>1. \A s \in Slot : LastAt(0, s)' = {} /\ Named(0, s)' = FALSE
    BY DEF LastAt, Named
  <2>2. i' - 1 = 0 /\ before' = ram /\ ram' = ram
    OBVIOUS
  <2>3. AppliedNew(0)'
    <3>1. <<>> \in [1..0 -> Slot]
      OBVIOUS
    <3>2. Placed(0, <<>>)'
      BY <2>2 DEF Placed
    <3>3. ram'.timer_cnt = before'.timer_cnt + 0
      BY <2>2, <1>1 DEF Image
    <3> QED BY <3>1, <3>2, <3>3, Zenon DEF AppliedNew
  <2> QED BY <1>1, <2>1, <2>2, <2>3
          DEF Applied, AppliedEdit, AppliedDel, AppliedSwitch, Op, TimerOp, IdOp, Image
<1> QED BY <1>2, <1>3, <1>4, <1>5, <1>6

\* Rewriting the enabled bit of some timers keeps an image in order.
LEMMA SwitchedFacts ==
    ASSUME NEW a \in Image, Agrees(a), NEW T \in SUBSET Slot, NEW b \in BOOLEAN,
           \A s \in T : a.timer[s].id # 0
    PROVE  LET t == [s \in Slot |-> IF s \in T THEN [a.timer[s] EXCEPT !.enabled = b]
                                    ELSE a.timer[s]]
           IN  [a EXCEPT !.timer = t] \in Image /\ Agrees([a EXCEPT !.timer = t])
<1> DEFINE t == [s \in Slot |-> IF s \in T THEN [a.timer[s] EXCEPT !.enabled = b]
                                ELSE a.timer[s]]
           c == [a EXCEPT !.timer = t]
<1>1. ASSUME NEW s \in Slot
      PROVE  /\ t[s] \in Timer
             /\ t[s].id = a.timer[s].id /\ t[s].type = a.timer[s].type
             /\ a.timer[s] = NoTimer => t[s] = NoTimer
  BY <1>1 DEF Image, Timer, NoTimer
<1>2. t \in [Slot -> Timer]
  BY <1>1
<1> HIDE DEF t
<1>3. c \in Image /\ c.timer = t /\ c.timer_id = a.timer_id /\ c.timer_cnt = a.timer_cnt
  BY <1>2 DEF Image
<1>4. Used(c) = Used(a)
  BY <1>3 DEF Used
<1> HIDE DEF c
<1>5. Agrees(c)
  BY <1>1, <1>3, <1>4 DEF Agrees
<1> QED BY <1>3, <1>5 DEF c, t

\* A tick of the one-second timer.
LEMMA DealTimeInv ==
    ASSUME LocTimerInv, NEW due \in SUBSET Slot, DealTime(due)
    PROVE  LocTimerInv'
<1> DEFINE t == [s \in Slot |-> IF s \in due THEN [ram.timer[s] EXCEPT !.enabled = FALSE]
                                ELSE ram.timer[s]]
<1>1. /\ ram \in Image /\ Agrees(ram) /\ saved \in Image /\ Agrees(saved)
      /\ op = "none" /\ RanSince(ram, saved)
  BY DEF LocTimerInv, TypeOK, Registry, Mirror, DealTime
<1>2. ram' = [ram EXCEPT !.timer = t] /\ UNCHANGED <<saved, op, req, i, before>>
  BY DEF DealTime
<1>3. ram' \in Image /\ Agrees(ram')
  <2>1. \A s \in due : ram.timer[s].id # 0
    BY DEF DealTime
  <2>2. FALSE \in BOOLEAN
    OBVIOUS
  <2>3. [ram EXCEPT !.timer = t] \in Image /\ Agrees([ram EXCEPT !.timer = t])
    BY ONLY <1>1, <2>1, <2>2, due \in SUBSET Slot, SwitchedFacts, Zenon
  <2> QED BY <1>2, <2>3
<1>4. RanSince(ram', saved)
  <2>1. /\ ram'.timer_id = ram.timer_id /\ ram'.timer_cnt = ram.timer_cnt
        /\ ram'.timer_ver = ram.timer_ver /\ ram'.timer = t
    BY <1>1, <1>2 DEF Image
  <2>2. ASSUME NEW s \in Slot
        PROVE  \/ t[s] = saved.timer[s]
               \/ saved.timer[s].type \in Once /\ t[s] = [saved.timer[s] EXCEPT !.enabled = FALSE]
    <3>1. saved.timer[s] \in Timer /\ ram.timer[s] \in Timer
      BY <1>1 DEF Image
    <3>2. \/ ram.timer[s] = saved.timer[s]
          \/ /\ saved.timer[s].type \in Once
             /\ ram.timer[s] = [saved.timer[s] EXCEPT !.enabled = FALSE]
      BY <1>1 DEF RanSince
    <3>3. CASE s \notin due
      BY <3>2, <3>3
    <3>4. CASE s \in due
      <4>1. ram.timer[s].type \in Once /\ t[s] = [ram.timer[s] EXCEPT !.enabled = FALSE]
        BY <3>4 DEF DealTime
      <4> HIDE DEF t
      <4> QED BY <3>1, <3>2, <4>1 DEF Timer
    <3> QED BY <3>3, <3>4
  <2> QED BY <1>1, <2>1, <2>2 DEF RanSince
<1>5. TypeOK'
  BY <1>1, <1>2, <1>3 DEF LocTimerInv, TypeOK, Op, TimerOp, IdOp
<1> QED BY <1>1, <1>2, <1>3, <1>4, <1>5
        DEF LocTimerInv, Registry, RoomLeft, Mirror, Applied, Op, TimerOp, IdOp

\* One step of the program, or one power failure, keeps the invariant.
LEMMA LocTimerInvStep == LocTimerInv /\ [Next]_vars => LocTimerInv'
<1> SUFFICES ASSUME LocTimerInv, [Next]_vars PROVE LocTimerInv'
  OBVIOUS
<1> USE DEF Op, TimerOp, IdOp
<1>1. CASE Boot
  <2>1. ram' \in Image /\ Agrees(ram') /\ saved' = ram'
    BY <1>1, EmptyFacts DEF Boot, LocTimerInv, TypeOK, Registry
  <2>2. TypeOK'
    BY <1>1, <2>1 DEF Boot, LocTimerInv, TypeOK
  <2>3. Mirror'
    BY <1>1, <2>1, RanSinceItself, LocTimerAssumption DEF Boot, Mirror
  <2> QED BY <1>1, <2>1, <2>2, <2>3 DEF Boot, LocTimerInv, Registry, RoomLeft, Applied
<1>2. CASE PowerLoss
  <2>1. TypeOK'
    BY <1>2, EmptyFacts, LocTimerAssumption DEF PowerLoss, LocTimerInv, TypeOK
  <2> QED BY <1>2, <2>1, EmptyFacts DEF PowerLoss, LocTimerInv, Registry, RoomLeft, Mirror, Applied
<1>3. ASSUME NEW r \in Batch(Entry), BeginNew(r) \/ BeginEdit(r) PROVE LocTimerInv'
  BY <1>3, BeginInv DEF BeginNew, BeginEdit
<1>4. ASSUME NEW r \in Batch(0..Num),
             BeginDel(r) \/ \E o \in {"enable", "disable"} : BeginSwitch(o, r)
      PROVE LocTimerInv'
  BY <1>4, BeginInv DEF BeginDel, BeginSwitch
<1>5. CASE NewTurn \/ EditTurn \/ DelTurn
  BY <1>5, NewTurnInv, EditTurnInv, DelTurnInv
<1>6. CASE SwitchTurn("enable") \/ SwitchTurn("disable")
  BY <1>6, SwitchTurnInv
<1>7. CASE LoopDone
  BY <1>7, CommitInv DEF LoopDone, LocTimerInv, TypeOK, Registry
<1>8. CASE DelAll
  <2> DEFINE img == [EmptyImage EXCEPT !.timer_ver = ram.timer_ver]
  <2>1. /\ img \in Image /\ img.timer = EmptyImage.timer
        /\ img.timer_id = EmptyImage.timer_id /\ img.timer_cnt = EmptyImage.timer_cnt
    BY EmptyFacts DEF LocTimerInv, TypeOK, Image
  <2>2. Commit(img)
    BY <1>8 DEF DelAll
  <2> HIDE DEF img
  <2>3. Used(img) = Used(EmptyImage)
    BY <2>1 DEF Used
  <2>4. Agrees(img)
    BY <2>1, <2>3, EmptyFacts DEF Agrees
  <2> QED BY <2>1, <2>2, <2>4, CommitInv
<1>9. ASSUME NEW b \in BOOLEAN, SwitchAll(b) PROVE LocTimerInv'
  <2> DEFINE T == {s \in Slot : ram.timer[s].id # 0}
             t == [s \in Slot |-> IF s \in T THEN [ram.timer[s] EXCEPT !.enabled = b]
                                  ELSE ram.timer[s]]
  <2>1. ram \in Image /\ Agrees(ram)
    BY DEF LocTimerInv, TypeOK, Registry
  <2>2. t = [s \in Slot |-> IF ram.timer[s].id # 0 THEN [ram.timer[s] EXCEPT !.enabled = b]
                            ELSE ram.timer[s]]
    OBVIOUS
  <2>3. Commit([ram EXCEPT !.timer = t])
    BY <1>9, <2>2 DEF SwitchAll
  <2>4. T \in SUBSET Slot /\ \A s \in T : ram.timer[s].id # 0
    OBVIOUS
  <2>5. [ram EXCEPT !.timer = t] \in Image /\ Agrees([ram EXCEPT !.timer = t])
    BY <2>1, <2>4, SwitchedFacts
  <2> QED BY <2>3, <2>5, CommitInv
<1>10. ASSUME NEW due \in SUBSET Slot, DealTime(due) PROVE LocTimerInv'
  BY <1>10, DealTimeInv
<1>11. CASE UNCHANGED vars
  <2>1. ASSUME AppliedNew(i - 1) PROVE AppliedNew(i - 1)'
    <3>1. PICK place \in [1..(i - 1) -> Slot] : Placed(i - 1, place)
      BY <2>1 DEF AppliedNew
    <3>2. ram' = ram /\ before' = before /\ req' = req /\ i' = i
      BY <1>11 DEF vars
    <3>3. Placed(i - 1, place)'
      BY <3>1, <3>2 DEF Placed
    <3> QED BY <2>1, <3>1, <3>2, <3>3 DEF AppliedNew
  <2> QED BY <1>11, <2>1 DEF vars, LocTimerInv, TypeOK, Registry, RoomLeft, Mirror, Applied,
               AppliedEdit, AppliedDel, AppliedSwitch, LastAt, Named
<1> QED BY <1>1, <1>2, <1>3, <1>4, <1>5, <1>6, <1>7, <1>8, <1>9, <1>10, <1>11 DEF Next, Request

\* At every moment of every behaviour of the timer service, for any number
\* of slots: the ids, the timers and the count agree, in RAM and in flash;
\* a request for new timers finds room; flash holds the last answered
\* request; and a request in progress has done what its arguments ask.
THEOREM LocTimerCorrect == Spec => []LocTimerInv
<1>1. Init => LocTimerInv
  BY EmptyFacts, LocTimerAssumption
     DEF Init, LocTimerInv, TypeOK, Registry, RoomLeft, Mirror, Applied, Op, TimerOp, IdOp
<1> QED BY <1>1, LocTimerInvStep, PTL DEF Spec

\* The id table, the timers and the count agree at every moment.
THEOREM RegistryHolds == Spec => []Registry
<1>1. LocTimerInv => Registry
  BY DEF LocTimerInv
<1> QED BY <1>1, LocTimerCorrect, PTL

\* What a power failure brings back is the last answered request.
THEOREM MirrorHolds == Spec => []Mirror
<1>1. LocTimerInv => Mirror
  BY DEF LocTimerInv
<1> QED BY <1>1, LocTimerCorrect, PTL

\* A request does what its arguments ask for, and nothing else.
THEOREM AppliedHolds == Spec => []Applied
<1>1. LocTimerInv => Applied
  BY DEF LocTimerInv
<1> QED BY <1>1, LocTimerCorrect, PTL

\* A request that fails leaves the timers as it found them.
THEOREM FailedIsNoopHolds == Spec => FailedIsNoop
<1> DEFINE A == (op \in Op /\ op' = "none" /\ saved' = saved) => RanSince(before, ram')
<1>1. LocTimerInv /\ [Next]_vars => [A]_vars
  <2> SUFFICES ASSUME LocTimerInv, Next, op \in Op, op' = "none", saved' = saved
               PROVE  RanSince(before, ram')
    OBVIOUS
  <2> USE DEF Op, TimerOp, IdOp
  <2>1. RanSince(before, saved) /\ saved \in Image /\ ram \in Image /\ before \in Image
    BY DEF LocTimerInv, Mirror, TypeOK
  <2>2. CASE LoopDone
    <3>1. saved'.timer_ver = (ram.timer_ver + 1) % VerMod /\ ram.timer_ver \in 0..(VerMod - 1)
      BY <2>1, <2>2 DEF LoopDone, Commit, Image
    <3>2. (ram.timer_ver + 1) % VerMod # ram.timer_ver
      <4>1. CASE ram.timer_ver + 1 < VerMod
        BY <3>1, <4>1, LocTimerAssumption
      <4>2. CASE ram.timer_ver + 1 = VerMod
        BY <3>1, <4>2, LocTimerAssumption
      <4> QED BY <3>1, <4>1, <4>2, LocTimerAssumption
    <3>3. ram.timer_ver = before.timer_ver /\ before.timer_ver = saved.timer_ver
      BY <2>1 DEF LocTimerInv, Applied, RanSince
    <3> QED BY <3>1, <3>2, <3>3
  <2>3. CASE NewTurn \/ EditTurn \/ DelTurn \/ SwitchTurn("enable") \/ SwitchTurn("disable")
    <3>1. Rollback
      BY <2>3 DEF NewTurn, EditTurn, DelTurn, SwitchTurn, TurnDone
    <3> QED BY <3>1, <2>1 DEF Rollback
  <2> QED BY <2>2, <2>3 DEF Next, Request, Boot, PowerLoss, BeginNew, BeginEdit, BeginDel, BeginSwitch,
                            Begin, DelAll, SwitchAll, DealTime
<1>2. [][A]_vars => FailedIsNoop
  BY PTL DEF FailedIsNoop
<1> QED BY <1>1, <1>2, LocTimerCorrect, PTL DEF Spec

------------------------------------------------------------------------------
(* Every step of TimedTimers is a step of LocTimer or leaves the table     *)
(* alone.                                                                  *)
\* timerDealTime disables only timers that LocTimer's tick may find due.
LEMMA DealTimeStep == TimerDealTime => [Next]_vars
<1> SUFFICES ASSUME TimerDealTime PROVE [Next]_vars
  OBVIOUS
<1> DEFINE once == {s \in Due : ram.timer[s].type \in Once}
<1>1. UNCHANGED vars \/ DealTime(once)
  BY DEF TimerDealTime
<1>2. once \in SUBSET Slot
  BY DEF Due
<1> HIDE DEF once
<1> QED BY <1>1, <1>2 DEF Next

\* Whatever the clock does, the table of timers behaves as LocTimer allows.
THEOREM ImplementsLocTimer == TimedSpec => Spec
<1>1. TimedInit => Init
  BY DEF TimedInit
<1>2. [TimedNext]_timedVars => [Next]_vars
  <2> SUFFICES ASSUME [TimedNext]_timedVars PROVE [Next]_vars
    OBVIOUS
  <2>1. CASE TimedBoot \/ TimedPowerLoss \/ TimedRequest
    BY <2>1 DEF TimedBoot, TimedPowerLoss, TimedRequest, Next
  <2>2. CASE ServerDate
    BY <2>2 DEF ServerDate, SetGMTTime
  <2>3. ASSUME NEW e \in Elapsed, LocalRTC(e) PROVE [Next]_vars
    BY <2>3 DEF LocalRTC
  <2>4. CASE TimerDealTime
    BY <2>4, DealTimeStep
  <2>5. CASE UNCHANGED timedVars
    BY <2>5 DEF timedVars
  <2> QED BY <2>1, <2>2, <2>3, <2>4, <2>5 DEF TimedNext
<1> QED BY <1>1, <1>2, PTL DEF TimedSpec, Spec

\* With the clock running, set or drifting, for any schedules: ids, timers
\* and count agree, in RAM and in flash, also while requests are worked on.
THEOREM TimedRegistry == TimedSpec => []Registry
BY ImplementsLocTimer, RegistryHolds, PTL

\* With the clock, flash still holds the last answered request, but for
\* once-timers that have run since.
THEOREM TimedMirror == TimedSpec => []Mirror
BY ImplementsLocTimer, MirrorHolds, PTL

------------------------------------------------------------------------------
(* The clock: what its tick makes of a moment, and that its variables keep *)
(* their types.                                                            *)
\* Division of numbers.
LEMMA DivMod ==
    ASSUME NEW b \in Nat \ {0}, NEW a \in Nat
    PROVE  /\ a \div b \in Nat /\ a % b \in 0..b - 1
           /\ a % b = a - b * (a \div b)
OBVIOUS

\* A moment is its six numbers.
LEMMA MomentParts ==
    ASSUME NEW t \in Moment
    PROVE  \E y, mo, d, h, mi, s \in Nat :
              /\ t = Date(y, mo, d, h, mi, s)
              /\ 1 <= mo /\ mo <= 12 /\ 1 <= d /\ d <= 31 /\ h <= 23 /\ mi <= 59 /\ s <= 59
<1>1. /\ t.year \in Nat /\ t.month \in Nat /\ t.day \in Nat /\ t.hour \in Nat /\ t.minute \in Nat /\ t.second \in Nat
      /\ 1 <= t.month /\ t.month <= 12 /\ 1 <= t.day /\ t.day <= 31
      /\ t.hour <= 23 /\ t.minute <= 59 /\ t.second <= 59
  BY SMT DEF Moment
<1>2. t = Date(t.year, t.month, t.day, t.hour, t.minute, t.second)
  BY SMT DEF Moment, Date
<1> QED BY <1>1, <1>2, Zenon

LEMMA MomentMade ==
    ASSUME NEW y, NEW mo, NEW d, NEW h, NEW mi, NEW s,
           y \in Nat, mo \in 1..12, d \in 1..31, h \in 0..23, mi \in 0..59, s \in 0..59
    PROVE  Date(y, mo, d, h, mi, s) \in Moment
BY SMT DEF Moment, Date

\* Its parts can be changed one at a time.
LEMMA MomentParted ==
    ASSUME NEW y, NEW mo, NEW d, NEW h, NEW mi, NEW s, NEW v
    PROVE  LET t == Date(y, mo, d, h, mi, s)
           IN  /\ t.year = y /\ t.month = mo /\ t.day = d /\ t.hour = h /\ t.minute = mi /\ t.second = s
               /\ [t EXCEPT !.year = v] = Date(v, mo, d, h, mi, s)
               /\ [t EXCEPT !.month = v] = Date(y, v, d, h, mi, s)
               /\ [t EXCEPT !.day = v] = Date(y, mo, v, h, mi, s)
               /\ [t EXCEPT !.hour = v] = Date(y, mo, d, v, mi, s)
               /\ [t EXCEPT !.minute = v] = Date(y, mo, d, h, v, s)
               /\ [t EXCEPT !.second = v] = Date(y, mo, d, h, mi, v)
BY SMT DEF Date

\* The calendar's lengths of months.
LEMMA MonthLengths == ASSUME NEW y, NEW mo PROVE daysOfMonth(y, mo) \in {28, 29, 30, 31}
BY DEF daysOfMonth

\* The day after.
LEMMA NextDayIs ==
    ASSUME NEW y \in Nat, NEW mo \in Nat, NEW d \in Nat, NEW h, NEW mi, NEW s
    PROVE  NextDay(Date(y, mo, d, h, mi, s)) =
              IF d < daysOfMonth(y, mo) THEN Date(y, mo, d + 1, h, mi, s)
              ELSE IF mo < 12 THEN Date(y, mo + 1, 1, h, mi, s)
              ELSE Date(y + 1, 1, 1, h, mi, s)
<1> DEFINE t == Date(y, mo, d, h, mi, s)
<1>1. /\ t.year = y /\ t.month = mo /\ t.day = d
      /\ [t EXCEPT !.day = d + 1] = Date(y, mo, d + 1, h, mi, s)
      /\ [t EXCEPT !.day = 1, !.month = mo + 1] = Date(y, mo + 1, 1, h, mi, s)
      /\ [t EXCEPT !.day = 1, !.month = 1, !.year = y + 1] = Date(y + 1, 1, 1, h, mi, s)
  <2>1. /\ [t EXCEPT !.day = 1, !.month = mo + 1] = [[t EXCEPT !.day = 1] EXCEPT !.month = mo + 1]
        /\ [t EXCEPT !.day = 1, !.month = 1, !.year = y + 1]
               = [[[t EXCEPT !.day = 1] EXCEPT !.month = 1] EXCEPT !.year = y + 1]
    BY SMT
  <2>2. [t EXCEPT !.day = 1] = Date(y, mo, 1, h, mi, s)
    BY MomentParted, SMT
  <2>3. /\ [Date(y, mo, 1, h, mi, s) EXCEPT !.month = mo + 1] = Date(y, mo + 1, 1, h, mi, s)
        /\ [Date(y, mo, 1, h, mi, s) EXCEPT !.month = 1] = Date(y, 1, 1, h, mi, s)
        /\ [Date(y, 1, 1, h, mi, s) EXCEPT !.year = y + 1] = Date(y + 1, 1, 1, h, mi, s)
    BY SMT DEF Date
  <2>4. t.year = y /\ t.month = mo /\ t.day = d /\ [t EXCEPT !.day = d + 1] = Date(y, mo, d + 1, h, mi, s)
    BY MomentParted, SMT
  <2> HIDE DEF t
  <2> QED BY <2>1, <2>2, <2>3, <2>4, Zenon
<1> HIDE DEF t
<1>2. NextDay(t) = IF d < daysOfMonth(y, mo) THEN [t EXCEPT !.day = d + 1]
                   ELSE IF mo < 12 THEN [t EXCEPT !.day = 1, !.month = mo + 1]
                   ELSE [t EXCEPT !.day = 1, !.month = 1, !.year = y + 1]
  BY <1>1 DEF NextDay
<1> QED BY <1>1, <1>2 DEF t

LEMMA NextDayType == ASSUME NEW t \in Moment PROVE NextDay(t) \in Moment
<1>1. PICK y, mo, d, h, mi, s \in Nat :
              /\ t = Date(y, mo, d, h, mi, s)
              /\ 1 <= mo /\ mo <= 12 /\ 1 <= d /\ d <= 31 /\ h <= 23 /\ mi <= 59 /\ s <= 59
  BY MomentParts
<1>2. PICK k \in Nat : k = daysOfMonth(y, mo) /\ k <= 31
  BY MonthLengths, SMT
<1>3. NextDay(t) = IF d < k THEN Date(y, mo, d + 1, h, mi, s)
                   ELSE IF mo < 12 THEN Date(y, mo + 1, 1, h, mi, s) ELSE Date(y + 1, 1, 1, h, mi, s)
  BY <1>1, <1>2, NextDayIs, SMT
<1>4. h \in 0..23 /\ mi \in 0..59 /\ s \in 0..59 /\ mo \in 1..12 /\ 1 \in 1..12 /\ 1 \in 1..31 /\ y + 1 \in Nat
  BY <1>1, SMT
<1>5. Date(y + 1, 1, 1, h, mi, s) \in Moment
  BY <1>4, MomentMade, SMT
<1>6. d < k => Date(y, mo, d + 1, h, mi, s) \in Moment
  <2>1. d < k => d + 1 \in 1..31
    BY <1>2, SMT
  <2> QED BY <1>4, <2>1, MomentMade, SMT
<1>7. mo < 12 => Date(y, mo + 1, 1, h, mi, s) \in Moment
  <2>1. mo < 12 => mo + 1 \in 1..12
    BY SMT
  <2> QED BY <1>4, <2>1, MomentMade, SMT
<1> QED BY <1>3, <1>5, <1>6, <1>7

\* A number divided by sixty.
LEMMA SixtyFacts ==
    ASSUME NEW s \in Nat
    PROVE  \E q, r \in Nat : q = s \div 60 /\ r = s % 60 /\ r <= 59 /\ s = 60 * q + r
<1>1. s \div 60 \in Nat /\ s % 60 \in Nat /\ s % 60 <= 59 /\ s % 60 = s - 60 * (s \div 60)
  BY SMT
<1> QED BY <1>1, SMT

\* The tick adds its seconds to the time of day: the part below a day is the
\* time of day it shows, and there is at most one whole day.
\* The seconds that micro and a 32-bit measurement of microseconds may hold.
Longest == 4294

LEMMA CarryIs ==
    ASSUME NEW t \in Moment, NEW n \in Nat, n < Longest
    PROVE  \E l \in Moment :
              /\ l.year = t.year /\ l.month = t.month /\ l.day = t.day
              /\ \/ Carry(t, n) = l /\ SecondOfDay(l) = SecondOfDay(t) + n
                 \/ Carry(t, n) = NextDay(l) /\ SecondOfDay(l) = SecondOfDay(t) + n - 86400
<1>m. PICK y, mo, d, h, mi, s \in Nat :
              /\ t = Date(y, mo, d, h, mi, s)
              /\ 1 <= mo /\ mo <= 12 /\ 1 <= d /\ d <= 31 /\ h <= 23 /\ mi <= 59 /\ s <= 59
  BY MomentParts, SMTT(40)
<1>k. h <= 23 /\ mi <= 59 /\ s <= 59
  BY <1>m
<1>1. PICK a \in Nat : a = s + n
  BY SMT
<1>2. PICK q, s1 \in Nat : q = a \div 60 /\ s1 = a % 60 /\ s1 <= 59 /\ a = 60 * q + s1
  BY SixtyFacts, SMT
<1>3. PICK b \in Nat : b = mi + q
  BY SMT
<1>4. PICK p, mi1 \in Nat : p = b \div 60 /\ mi1 = b % 60 /\ mi1 <= 59 /\ b = 60 * p + mi1
  BY SixtyFacts, SMT
<1>5. PICK c \in Nat : c = h + p
  BY SMT
<1>6. p <= 2
  <2>1. a <= 4353
    BY <1>k, <1>1, SMT DEF Longest
  <2>2. q <= 73
    BY <1>2, <2>1, SMT
  <2> QED BY <1>k, <1>3, <1>4, <2>2, SMT
<1>7. PICK h1 \in Nat : h1 = c % 24 /\ h1 <= 23 /\ h1 = IF c < 24 THEN c ELSE c - 24
  <2>1. c <= 25
    BY <1>k, <1>5, <1>6, SMT
  <2>2. c % 24 \in Nat /\ c % 24 <= 23 /\ c % 24 = IF c < 24 THEN c ELSE c - 24
    BY <2>1, SMT
  <2> QED BY <2>2, SMT
<1> DEFINE l == Date(y, mo, d, h1, mi1, s1)
<1>p. /\ t.year = y /\ t.month = mo /\ t.day = d /\ t.second = s /\ t.minute = mi /\ t.hour = h
      /\ l.year = y /\ l.month = mo /\ l.day = d /\ l.second = s1 /\ l.minute = mi1 /\ l.hour = h1
  BY ONLY <1>m, MomentParted, SMT
<1>l. l \in Moment
  <2>1. h1 \in 0..23 /\ mi1 \in 0..59 /\ s1 \in 0..59 /\ mo \in 1..12 /\ d \in 1..31
    BY ONLY <1>m, <1>2, <1>4, <1>7, SMT
  <2> QED BY <2>1, MomentMade, SMT
<1>8. Carry(t, n) = IF c < 24 THEN l ELSE NextDay(l)
  <2>1. [t EXCEPT !.second = s1, !.minute = mi1, !.hour = h1]
               = [[[t EXCEPT !.second = s1] EXCEPT !.minute = mi1] EXCEPT !.hour = h1]
    BY SMT
  <2>2. /\ [Date(y, mo, d, h, mi, s) EXCEPT !.second = s1] = Date(y, mo, d, h, mi, s1)
        /\ [Date(y, mo, d, h, mi, s1) EXCEPT !.minute = mi1] = Date(y, mo, d, h, mi1, s1)
        /\ [Date(y, mo, d, h, mi1, s1) EXCEPT !.hour = h1] = l
    BY MomentParted, SMT
  <2>3. [t EXCEPT !.second = s1, !.minute = mi1, !.hour = h1] = l
    <3> HIDE DEF l
    <3> QED BY ONLY <1>m, <2>1, <2>2, Zenon
  <2>4. /\ s1 = (t.second + n) % 60 /\ b = t.minute + (t.second + n) \div 60 /\ mi1 = b % 60
        /\ c = t.hour + b \div 60 /\ h1 = c % 24
    BY ONLY <1>p, <1>1, <1>2, <1>3, <1>4, <1>5, <1>7, SMT
  <2> HIDE DEF l
  <2> QED BY ONLY <2>3, <2>4, Zenon DEF Carry
<1>9. /\ SecondOfDay(t) = (h * 60 + mi) * 60 + s
      /\ SecondOfDay(l) = (h1 * 60 + mi1) * 60 + s1
  <2> HIDE DEF l
  <2> QED BY ONLY <1>p, SMT DEF SecondOfDay
<1>10. SecondOfDay(l) = IF c < 24 THEN SecondOfDay(t) + n ELSE SecondOfDay(t) + n - 86400
  <2> HIDE DEF l
  <2> QED BY ONLY <1>1, <1>2, <1>3, <1>4, <1>5, <1>7, <1>9, SMT
<1> HIDE DEF l
<1> QED BY <1>p, <1>l, <1>8, <1>10, SMT

LEMMA CarryType == ASSUME NEW t \in Moment, NEW n \in Nat, n < Longest PROVE Carry(t, n) \in Moment
<1>1. PICK l \in Moment : Carry(t, n) = l \/ Carry(t, n) = NextDay(l)
  BY CarryIs, SMT
<1> QED BY <1>1, NextDayType, SMT

\* The whole seconds in what was measured and what was kept.
LEMMA Measured ==
    ASSUME NEW m \in 0..Unit - 1, NEW e \in Elapsed
    PROVE  \E n, r \in Nat : /\ n = (m + e) \div Unit /\ r = (m + e) % Unit
                             /\ m + e = Unit * n + r /\ r < Unit /\ n < Longest
                             /\ m \in Nat /\ e \in Nat
<1>1. PICK u \in Nat : u = Unit /\ u > 0
  BY TimedTimersAssumption, SMT
<1>2. PICK x \in Nat : x = e /\ x <= 4293 * u
  <2>1. e \in 0..4293 * u
    BY <1>1, TimedTimersAssumption, SMT
  <2> QED BY <2>1, SMT
<1>3. PICK v \in Nat : v = m /\ v < u
  BY <1>1, SMT
<1>4. PICK a \in Nat : a = v + x /\ a < 4294 * u
  BY <1>1, <1>2, <1>3, SMT
<1>5. PICK n, r \in Nat : n = a \div u /\ r = a % u /\ r < u /\ a = u * n + r
  <2>1. a \div u \in Nat /\ a % u \in Nat /\ a % u < u /\ a % u = a - u * (a \div u)
    BY <1>1, DivMod, SMT
  <2> QED BY <2>1, SMT
<1>6. n < Longest
  <2>1. u * n < u * 4294
    BY <1>1, <1>4, <1>5, SMT
  <2>2. n >= 4294 => u * n >= u * 4294
    BY ONLY <1>1, SMT
  <2>3. n < 4294
    BY ONLY <1>1, <2>1, <2>2, SMT
  <2> QED BY <2>3, SMT DEF Longest
<1> QED BY <1>1, <1>2, <1>3, <1>4, <1>5, <1>6, SMT

\* The clock's variables have their types: a tick keeps the time a moment.
ClockTypeOK ==
    /\ now \in Moment
    /\ micro \in 0..(Unit - 1)
    /\ started \in BOOLEAN /\ calm \in BOOLEAN
    /\ turn \in {"rtc", "deal"}
    /\ left \in Nat /\ odd \in 0..MaxOdd
    /\ acted \in [Slot -> 0..2]

LEMMA ClockOffType == ClockOff => ClockTypeOK'
<1> SUFFICES ASSUME ClockOff PROVE ClockTypeOK'
  OBVIOUS
<1>1. Epoch \in Moment
  BY MomentMade, SMT DEF Epoch
<1>2. 0 \in 0..Unit - 1 /\ 0 \in 0..MaxOdd
  BY TimedTimersAssumption, SMT
<1>3. NobodyActed \in [Slot -> 0..2]
  BY SMT DEF NobodyActed
<1>4. 1 \in Nat
  OBVIOUS
<1> QED BY <1>1, <1>2, <1>3, <1>4, Zenon DEF ClockOff, ClockTypeOK

LEMMA AdvanceType ==
    ASSUME now \in Moment, micro \in 0..Unit - 1, NEW e \in Elapsed, Advance(e)
    PROVE  now' \in Moment /\ micro' \in 0..Unit - 1
<1>1. PICK n, r \in Nat : n = (micro + e) \div Unit /\ r = (micro + e) % Unit /\ r < Unit /\ n < Longest
  BY Measured, SMT
<1>2. now' = Carry(now, n) /\ micro' = r
  BY <1>1, SMT DEF Advance
<1>3. r \in 0..Unit - 1
  BY <1>1, TimedTimersAssumption, SMT
<1> QED BY <1>1, <1>2, <1>3, CarryType, SMT

LEMMA ClockTypes == ClockTypeOK /\ [TimedNext]_timedVars => ClockTypeOK'
<1> SUFFICES ASSUME ClockTypeOK, [TimedNext]_timedVars PROVE ClockTypeOK'
  OBVIOUS
<1>1. CASE TimedBoot \/ TimedPowerLoss
  BY <1>1, ClockOffType DEF TimedBoot, TimedPowerLoss
<1>2. CASE TimedRequest
  BY <1>2 DEF TimedRequest, ClockTypeOK
<1>3. CASE ServerDate
  <2>1. PICK t \in Dates \cup CalendarDates, k \in {Ticks, CalendarTicks} : SetGMTTime(t, k)
    BY <1>3 DEF ServerDate
  <2>2. t \in Moment /\ k \in Nat /\ 0 \in 0..MaxOdd
    BY TimedTimersAssumption, SMT DEF Verified
  <2>3. NobodyActed \in [Slot -> 0..2]
    BY SMT DEF NobodyActed
  <2> QED BY <2>1, <2>2, <2>3 DEF SetGMTTime, ClockTypeOK
<1>4. ASSUME NEW e \in Elapsed, LocalRTC(e) PROVE ClockTypeOK'
  <2>1. now' \in Moment /\ micro' \in 0..Unit - 1
    BY <1>4, AdvanceType DEF LocalRTC, ClockTypeOK
  <2>2. NobodyActed \in [Slot -> 0..2]
    BY SMT DEF NobodyActed
  <2>3. acted' \in [Slot -> 0..2]
    BY <1>4, <2>2 DEF LocalRTC, ClockTypeOK
  <2>4. left' \in Nat
    BY <1>4 DEF LocalRTC, ClockTypeOK
  <2>5. odd' \in 0..MaxOdd
    BY <1>4, TimedTimersAssumption DEF LocalRTC, ClockTypeOK
  <2>6. calm' \in BOOLEAN
    <3>1. (now' = Carry(now, 1) /\ (calm \/ ~SameMinute(now, now'))) \in BOOLEAN
      OBVIOUS
    <3> QED BY <1>4, <3>1, Zenon DEF LocalRTC
  <2> QED BY <1>4, <2>1, <2>3, <2>4, <2>5, <2>6 DEF LocalRTC, ClockTypeOK
<1>5. CASE TimerDealTime
  <2>1. acted' \in [Slot -> 0..2]
    <3>1. ASSUME NEW s \in Slot PROVE (IF s \in Due /\ acted[s] < 2 THEN acted[s] + 1 ELSE acted[s]) \in 0..2
      BY DEF ClockTypeOK
    <3>2. acted' = [s \in Slot |-> IF s \in Due /\ acted[s] < 2 THEN acted[s] + 1 ELSE acted[s]]
      BY <1>5 DEF TimerDealTime
    <3> QED BY <3>1, <3>2
  <2> QED BY <1>5, <2>1 DEF TimerDealTime, ClockTypeOK
<1>6. CASE UNCHANGED timedVars
  BY <1>6 DEF timedVars, clockVars, ClockTypeOK
<1> QED BY <1>1, <1>2, <1>3, <1>4, <1>5, <1>6 DEF TimedNext

(* Every variable of the timers and of the clock has its type: no tick and *)
(* no date of the server makes the time anything but a moment.             *)
THEOREM TimedTypeOKHolds == TimedSpec => []TimedTypeOK
<1>1. TimedInit => ClockTypeOK
  <2> SUFFICES ASSUME TimedInit PROVE ClockTypeOK
    OBVIOUS
  <2>1. Epoch \in Moment
    BY MomentMade, SMT DEF Epoch
  <2>2. 0 \in 0..Unit - 1 /\ 0 \in 0..MaxOdd
    BY TimedTimersAssumption, SMT
  <2>3. NobodyActed \in [Slot -> 0..2]
    BY SMT DEF NobodyActed
  <2>4. 1 \in Nat
    OBVIOUS
  <2> QED BY <2>1, <2>2, <2>3, <2>4, Zenon DEF TimedInit, ClockTypeOK
<1>2. LocTimerInv /\ ClockTypeOK => TimedTypeOK
  BY DEF LocTimerInv, ClockTypeOK, TimedTypeOK
<1> QED BY <1>1, <1>2, ClockTypes, ImplementsLocTimer, LocTimerCorrect, PTL DEF TimedSpec

------------------------------------------------------------------------------
(* The reference calendar, and that the clock keeps to it.                 *)
\* The leap days before the 1st of March of a year, and the day number of the
\* first of a month.
Leaps(y) == y \div 4 - y \div 100 + y \div 400
Before == <<306, 337, 0, 31, 61, 92, 122, 153, 184, 214, 245, 275>>
March(y) == 365 * y + Leaps(y)
FirstDay(y, mo) == March(IF mo <= 2 THEN y - 1 ELSE y) + Before[mo]

LEMMA DivStep ==
    ASSUME NEW y \in Int
    PROVE  /\ (y + 1) \div 4 = y \div 4 + IF (y + 1) % 4 = 0 THEN 1 ELSE 0
           /\ (y + 1) \div 100 = y \div 100 + IF (y + 1) % 100 = 0 THEN 1 ELSE 0
           /\ (y + 1) \div 400 = y \div 400 + IF (y + 1) % 400 = 0 THEN 1 ELSE 0
           /\ y \div 4 \in Int /\ y \div 100 \in Int /\ y \div 400 \in Int
BY SMT

LEMMA LeapFacts ==
    ASSUME NEW y \in Int
    PROVE  (y % 100 = 0 => y % 4 = 0) /\ (y % 400 = 0 => y % 100 = 0)
BY SMT

\* A leap year has one leap day.
LEMMA LeapStep ==
    ASSUME NEW y \in Int
    PROVE  Leaps(y) \in Int /\ Leaps(y) = Leaps(y - 1) + IF isLeapYear(y) THEN 1 ELSE 0
<1>1. PICK x \in Int : x = y - 1 /\ y = x + 1
  BY SMT
<1>2. /\ y \div 4 = x \div 4 + IF y % 4 = 0 THEN 1 ELSE 0
      /\ y \div 100 = x \div 100 + IF y % 100 = 0 THEN 1 ELSE 0
      /\ y \div 400 = x \div 400 + IF y % 400 = 0 THEN 1 ELSE 0
      /\ x \div 4 \in Int /\ x \div 100 \in Int /\ x \div 400 \in Int
  BY <1>1, DivStep, SMT
<1>3. (y % 100 = 0 => y % 4 = 0) /\ (y % 400 = 0 => y % 100 = 0)
  BY LeapFacts, SMT
<1> QED BY <1>1, <1>2, <1>3, SMT DEF Leaps, isLeapYear

LEMMA FirstDayType == ASSUME NEW y \in Int, NEW mo \in 1..12 PROVE FirstDay(y, mo) \in Int /\ March(y) \in Int
<1>1. Leaps(y) \in Int /\ Leaps(y - 1) \in Int
  BY LeapStep, SMT
<1>2. Before[mo] \in Int
  BY SMT DEF Before
<1> QED BY <1>1, <1>2, SMT DEF FirstDay, March

\* The reference calendar counts whole months and the days of the last one.
LEMMA DayNumberIs ==
    ASSUME NEW y \in Int, NEW mo \in 1..12, NEW d \in Int, NEW t,
           t.year = y, t.month = mo, t.day = d
    PROVE  DayNumber(t) = FirstDay(y, mo) + d - 1
<1>1. (153 * ((mo + 9) % 12) + 2) \div 5 = Before[mo] /\ Before[mo] \in Int
  BY SMT DEF Before
<1>2. PICK z \in Int : z = IF mo <= 2 THEN y - 1 ELSE y
  BY SMT
<1>3. z \div 4 \in Int /\ z \div 100 \in Int /\ z \div 400 \in Int
  BY SMT
<1>4. DayNumber(t) = 365 * z + z \div 4 - z \div 100 + z \div 400 + (153 * ((mo + 9) % 12) + 2) \div 5 + d - 1
  BY <1>2, SMT DEF DayNumber
<1> QED BY <1>1, <1>2, <1>3, <1>4, SMT DEF FirstDay, March, Leaps

\* The length of a month is the distance to the next one.
LEMMA MonthLength ==
    ASSUME NEW y \in Int, NEW mo \in 1..12
    PROVE  FirstDay(IF mo = 12 THEN y + 1 ELSE y, IF mo = 12 THEN 1 ELSE mo + 1)
              = FirstDay(y, mo) + daysOfMonth(y, mo)
<1>1. March(y) \in Int /\ March(y - 1) \in Int
  BY FirstDayType, SMT
<1>2. March(y) = March(y - 1) + 365 + IF isLeapYear(y) THEN 1 ELSE 0
  BY LeapStep, SMT DEF March
<1>3. CASE mo \in 3..11
  BY <1>1, <1>3, SMT DEF FirstDay, Before, daysOfMonth
<1>4. CASE mo = 12
  BY <1>1, <1>4, SMT DEF FirstDay, Before, daysOfMonth
<1>5. CASE mo = 1
  BY <1>1, <1>5, SMT DEF FirstDay, Before, daysOfMonth
<1>6. CASE mo = 2
  BY <1>1, <1>2, <1>6, SMT DEF FirstDay, Before, daysOfMonth
<1> QED BY <1>3, <1>4, <1>5, <1>6, SMT

\* The dates of the calendar, by the lengths of its months.
LEMMA RealIs ==
    ASSUME NEW t \in Moment
    PROVE  /\ RealDate(t) <=> t.day <= daysOfMonth(t.year, t.month)
           /\ DayNumber(t) = FirstDay(t.year, t.month) + t.day - 1
           /\ DayNumber(t) \in Int
<1>1. t.year \in Nat /\ t.month \in 1..12 /\ t.day \in 1..31
  BY SMT DEF Moment
<1>2. PICK y \in Int, mo \in 1..12, d \in Int : y = t.year /\ mo = t.month /\ d = t.day /\ d >= 1
  BY <1>1, SMT
<1>3. DayNumber(t) = FirstDay(y, mo) + d - 1 /\ FirstDay(y, mo) \in Int
  <2>1. FirstDay(y, mo) \in Int
    BY FirstDayType, Zenon
  <2>2. t.year = y /\ t.month = mo /\ t.day = d
    BY <1>2
  <2>3. DayNumber(t) = FirstDay(y, mo) + d - 1
    BY ONLY <2>2, DayNumberIs, SMT
  <2> QED BY <2>1, <2>3
<1> DEFINE m1 == IF t.month = 12 THEN Date(t.year + 1, 1, 1, 0, 0, 0)
                 ELSE Date(t.year, t.month + 1, 1, 0, 0, 0)
           y1 == IF mo = 12 THEN y + 1 ELSE y
           mo1 == IF mo = 12 THEN 1 ELSE mo + 1
<1>4. m1.year = y1 /\ m1.month = mo1 /\ m1.day = 1
  BY <1>2, SMT DEF Date
<1>5. y1 \in Int /\ mo1 \in 1..12
  BY SMT
<1>6. DayNumber(m1) = FirstDay(y, mo) + daysOfMonth(y, mo)
  <2>1. FirstDay(y1, mo1) \in Int
    BY <1>5, FirstDayType, Zenon
  <2>2. DayNumber(m1) = FirstDay(y1, mo1) + 1 - 1
    <3> HIDE DEF m1, y1, mo1
    <3> QED BY <1>4, <1>5, DayNumberIs, SMT
  <2>3. FirstDay(y1, mo1) = FirstDay(y, mo) + daysOfMonth(y, mo)
    BY MonthLength, Zenon
  <2> HIDE DEF m1, y1, mo1
  <2> QED BY <2>1, <2>2, <2>3, SMT
<1>7. RealDate(t) <=> (t.month \in 1..12 /\ t.day >= 1 /\ DayNumber(t) < DayNumber(m1))
  BY Zenon DEF RealDate
<1>8. daysOfMonth(y, mo) \in Int
  BY MonthLengths, SMT
<1> HIDE DEF m1, y1, mo1
<1> QED BY <1>1, <1>2, <1>3, <1>6, <1>7, <1>8, SMT

\* The next day of the calendar has the next number.
LEMMA NextDayNumber ==
    ASSUME NEW t \in Moment, RealDate(t)
    PROVE  /\ DayNumber(NextDay(t)) = DayNumber(t) + 1
           /\ RealDate(NextDay(t))
           /\ SecondOfDay(NextDay(t)) = SecondOfDay(t)
<1>1. PICK y, mo, d, h, mi, s \in Nat :
              /\ t = Date(y, mo, d, h, mi, s)
              /\ 1 <= mo /\ mo <= 12 /\ 1 <= d /\ d <= 31 /\ h <= 23 /\ mi <= 59 /\ s <= 59
  BY MomentParts, SMT
<1>2. PICK k \in Nat : k = daysOfMonth(y, mo) /\ 28 <= k
  BY MonthLengths, SMT
<1> DEFINE n == NextDay(t)
           y1 == IF mo = 12 THEN y + 1 ELSE y
           mo1 == IF mo = 12 THEN 1 ELSE mo + 1
<1>3. n = IF d < k THEN Date(y, mo, d + 1, h, mi, s)
          ELSE IF mo < 12 THEN Date(y, mo + 1, 1, h, mi, s) ELSE Date(y + 1, 1, 1, h, mi, s)
  BY <1>1, <1>2, NextDayIs, SMT
<1>4. /\ t.year = y /\ t.month = mo /\ t.day = d /\ t.hour = h /\ t.minute = mi /\ t.second = s
      /\ n.hour = h /\ n.minute = mi /\ n.second = s
      /\ d < k => n.year = y /\ n.month = mo /\ n.day = d + 1
      /\ d >= k => n.year = y1 /\ n.month = mo1 /\ n.day = 1
  <2> HIDE DEF n
  <2> QED BY <1>1, <1>3, SMT DEF Date
<1>5. /\ n \in Moment
      /\ RealDate(n) <=> n.day <= daysOfMonth(n.year, n.month)
      /\ DayNumber(n) = FirstDay(n.year, n.month) + n.day - 1
      /\ RealDate(t) <=> d <= k
      /\ DayNumber(t) = FirstDay(y, mo) + d - 1
  <2>1. n \in Moment
    BY NextDayType
  <2> HIDE DEF n
  <2> QED BY <2>1, <1>2, <1>4, RealIs, Zenon
<1>6. SecondOfDay(n) = SecondOfDay(t)
  <2> HIDE DEF n
  <2> QED BY <1>4, Zenon DEF SecondOfDay
<1>7. mo \in 1..12 /\ y \in Int
  BY <1>1, SMT
<1>8. FirstDay(y1, mo1) = FirstDay(y, mo) + k /\ FirstDay(y, mo) \in Int
  BY <1>2, <1>7, MonthLength, FirstDayType, Zenon
<1>9. daysOfMonth(y1, mo1) \in Nat /\ 1 <= daysOfMonth(y1, mo1)
  BY MonthLengths, SMT
<1>10. CASE d < k
  <2>1. n.day <= daysOfMonth(n.year, n.month) /\ n.day = d + 1 /\ FirstDay(n.year, n.month) = FirstDay(y, mo)
    <3> HIDE DEF n
    <3> QED BY <1>2, <1>4, <1>10, SMT
  <2> HIDE DEF n
  <2> QED BY <1>5, <1>6, <1>8, <2>1, SMT DEF n
<1>11. CASE ~(d < k)
  <2>1. d = k
    BY <1>5, <1>11, SMT
  <2>2. n.day = 1 /\ n.day <= daysOfMonth(n.year, n.month) /\ FirstDay(n.year, n.month) = FirstDay(y, mo) + d
    <3>1. n.year = y1 /\ n.month = mo1 /\ n.day = 1
      BY <1>4, <2>1, SMT
    <3> HIDE DEF n, y1, mo1
    <3> QED BY <1>8, <1>9, <2>1, <3>1, SMT
  <2> HIDE DEF n, y1, mo1
  <2> QED BY <1>5, <1>6, <1>8, <2>1, <2>2, SMT DEF n
<1> QED BY <1>10, <1>11

\* A tick of e after m: n whole seconds, from a date of the calendar to one.
LEMMA CarryKeepsTime ==
    ASSUME NEW t \in Moment, RealDate(t), NEW n \in Nat, n < Longest
    PROVE  RealDate(Carry(t, n)) /\ SecondsBetween(t, Carry(t, n)) = n
<1>1. PICK l \in Moment :
              /\ l.year = t.year /\ l.month = t.month /\ l.day = t.day
              /\ \/ Carry(t, n) = l /\ SecondOfDay(l) = SecondOfDay(t) + n
                 \/ Carry(t, n) = NextDay(l) /\ SecondOfDay(l) = SecondOfDay(t) + n - 86400
  BY CarryIs, SMT
<1>2. RealDate(l) /\ DayNumber(l) = DayNumber(t) /\ DayNumber(t) \in Int
  <2>1. RealDate(t) <=> t.day <= daysOfMonth(t.year, t.month)
    BY RealIs
  <2>2. RealDate(l) <=> l.day <= daysOfMonth(l.year, l.month)
    BY RealIs
  <2>3. DayNumber(t) = FirstDay(t.year, t.month) + t.day - 1 /\ DayNumber(t) \in Int
    BY RealIs
  <2>4. DayNumber(l) = FirstDay(l.year, l.month) + l.day - 1
    BY RealIs
  <2> QED BY <1>1, <2>1, <2>2, <2>3, <2>4, SMT
<1>3. SecondOfDay(t) \in Int
  <2>1. t.hour \in Int /\ t.minute \in Int /\ t.second \in Int
    BY SMT DEF Moment
  <2> QED BY <2>1, SMT DEF SecondOfDay
<1>4. CASE Carry(t, n) = l /\ SecondOfDay(l) = SecondOfDay(t) + n
  BY <1>2, <1>3, <1>4, SMT DEF SecondsBetween
<1>5. CASE Carry(t, n) = NextDay(l) /\ SecondOfDay(l) = SecondOfDay(t) + n - 86400
  <2>1. DayNumber(NextDay(l)) = DayNumber(t) + 1 /\ RealDate(NextDay(l))
        /\ SecondOfDay(NextDay(l)) = SecondOfDay(t) + n - 86400
    BY <1>2, <1>5, NextDayNumber, SMT
  <2> QED BY <1>2, <1>3, <1>5, <2>1, SMT DEF SecondsBetween
<1> QED BY <1>1, <1>4, <1>5

(* The clock moves by exactly what was measured, for ever, over the ends   *)
(* of months, leap Februaries, years and centuries.                        *)
THEOREM ClockKeepsTimeHolds == TimedSpec => ClockKeepsTime
<1> DEFINE A == \A e \in Elapsed : (LocalRTC(e) /\ started /\ RealDate(now)) =>
          /\ RealDate(now')
          /\ Unit * SecondsBetween(now, now') + micro' - micro = e
<1>1. TimedTypeOK => A
  <2> SUFFICES ASSUME TimedTypeOK, NEW e \in Elapsed, LocalRTC(e), started, RealDate(now)
               PROVE  RealDate(now') /\ Unit * SecondsBetween(now, now') + micro' - micro = e
    BY DEF A
  <2>1. Advance(e) /\ now \in Moment /\ micro \in 0..Unit - 1
    BY DEF LocalRTC, TimedTypeOK
  <2>2. PICK n, r \in Nat : /\ n = (micro + e) \div Unit /\ r = (micro + e) % Unit
                            /\ micro + e = Unit * n + r /\ n < Longest
                            /\ micro \in Nat /\ e \in Nat
    BY <2>1, Measured, SMT
  <2>3. now' = Carry(now, n) /\ micro' = r
    BY <2>1, <2>2, SMT DEF Advance
  <2>4. RealDate(now') /\ SecondsBetween(now, now') = n
    BY <2>1, <2>2, <2>3, CarryKeepsTime, Zenon
  <2>5. Unit * n \in Int
    BY <2>2, TimedTimersAssumption, SMT
  <2> QED BY ONLY <2>2, <2>3, <2>4, <2>5, SMT
<1>2. [][A]_timedVars => ClockKeepsTime
  BY PTL DEF ClockKeepsTime
<1>3. []TimedTypeOK /\ [][TimedNext]_timedVars => [][A]_timedVars
  BY <1>1, PTL
<1> QED BY <1>2, <1>3, TimedTypeOKHolds, PTL DEF TimedSpec

------------------------------------------------------------------------------
(* The days that the firmware counts and its days of the week.             *)
\* A nonempty set of numbers has a least one, so that two sums over the same
\* terms are equal.
LEMMA LeastOfNumbers == ASSUME NEW T \in SUBSET Nat, T # {} PROVE \E x \in T : \A y \in T : x <= y
<1>1. IsWellFoundedOn({ss \in Nat \X Nat : ss[1] < ss[2]}, Nat)
  BY NatLessThanWellFounded DEF OpToRel
<1>2. PICK x \in T : \A y \in T : ~ (<<y, x>> \in {ss \in Nat \X Nat : ss[1] < ss[2]})
  BY <1>1, WFMin
<1>3. ASSUME NEW y \in T PROVE x <= y
  <2>1. <<y, x>> \notin {ss \in Nat \X Nat : ss[1] < ss[2]} /\ x \in Nat /\ y \in Nat
    BY <1>2
  <2> QED BY <2>1
<1> QED BY <1>3

SumsTo(f, d, a, k) == f[a] = 0 /\ \A n \in a + 1..k : f[n] = f[n - 1] + d[n]

LEMMA SameSums ==
    ASSUME NEW a \in Nat, NEW k \in Nat, NEW f, NEW g, NEW d, SumsTo(f, d, a, k), SumsTo(g, d, a, k)
    PROVE  \A n \in a..k : f[n] = g[n]
<1> DEFINE T == {n \in a..k : f[n] # g[n]}
<1>1. SUFFICES ASSUME T # {} PROVE FALSE
  OBVIOUS
<1>2. T \in SUBSET Nat
  OBVIOUS
<1>3. PICK n \in T : \A m \in T : n <= m
  <2> HIDE DEF T
  <2> QED BY <1>1, <1>2, LeastOfNumbers
<1>4. n \in a + 1..k /\ n - 1 \in a..k
  BY <1>3 DEF SumsTo
<1>5. n - 1 \notin T
  BY <1>2, <1>3
<1>6. f[n - 1] = g[n - 1]
  BY <1>4, <1>5
<1>7. f[n] = f[n - 1] + d[n] /\ g[n] = g[n - 1] + d[n] /\ f[a] = g[a]
  BY <1>4 DEF SumsTo
<1> QED BY <1>3, <1>6, <1>7

\* The number of days in the first k months of a year.
DaysBefore(y, k) ==
    FirstDay(IF k = 12 THEN y + 1 ELSE y, IF k = 12 THEN 1 ELSE k + 1) - FirstDay(y, 1)

LEMMA DaysBeforeStep ==
    ASSUME NEW y \in Int, NEW m \in 1..12
    PROVE  DaysBefore(y, m) = DaysBefore(y, m - 1) + daysOfMonth(y, m)
<1>1. FirstDay(IF m = 12 THEN y + 1 ELSE y, IF m = 12 THEN 1 ELSE m + 1) = FirstDay(y, m) + daysOfMonth(y, m)
  BY MonthLength, Zenon
<1>2. FirstDay(y, m) \in Int /\ FirstDay(y, 1) \in Int /\ daysOfMonth(y, m) \in Int
  <2>1. 1 \in 1..12
    OBVIOUS
  <2>2. FirstDay(y, m) \in Int /\ FirstDay(y, 1) \in Int
    BY <2>1, FirstDayType, Zenon
  <2>3. daysOfMonth(y, m) \in Int
    BY MonthLengths, SMT
  <2> QED BY <2>2, <2>3
<1>3. m - 1 # 12 /\ (m - 1) + 1 = m
  BY SMT
<1>4. DaysBefore(y, m) = FirstDay(y, m) + daysOfMonth(y, m) - FirstDay(y, 1)
  <2> DEFINE next == FirstDay(IF m = 12 THEN y + 1 ELSE y, IF m = 12 THEN 1 ELSE m + 1)
  <2>1. DaysBefore(y, m) = next - FirstDay(y, 1)
    BY Zenon DEF DaysBefore
  <2>2. next = FirstDay(y, m) + daysOfMonth(y, m)
    BY <1>1
  <2> HIDE DEF next
  <2> QED BY <1>2, <2>1, <2>2
<1>5. DaysBefore(y, m - 1) = FirstDay(y, m) - FirstDay(y, 1)
  BY <1>3, Zenon DEF DaysBefore
<1> QED BY <1>2, <1>4, <1>5, SMT

LEMMA DaysOfIs == ASSUME NEW y \in Int, NEW k \in 0..12 PROVE DaysOf(y, k) = DaysBefore(y, k)
<1> DEFINE Step(f) == [m \in 0..k |-> IF m = 0 THEN 0 ELSE f[m - 1] + daysOfMonth(y, m)]
           days == CHOOSE f : f = Step(f)
           g == [m \in 0..k |-> DaysBefore(y, m)]
           d == [m \in 0..k |-> daysOfMonth(y, m)]
<1>1. DaysOf(y, k) = days[k]
  BY DEF DaysOf
<1>2. \A m \in 0..k : g[m] = IF m = 0 THEN 0 ELSE g[m - 1] + daysOfMonth(y, m)
  <2> SUFFICES ASSUME NEW m \in 0..k PROVE g[m] = IF m = 0 THEN 0 ELSE g[m - 1] + daysOfMonth(y, m)
    OBVIOUS
  <2>1. CASE m = 0
    <3>1. FirstDay(y, 1) \in Int
      BY FirstDayType, SMT
    <3>2. DaysBefore(y, 0) = 0
      BY <3>1, SMT DEF DaysBefore
    <3> QED BY <2>1, <3>2
  <2>2. CASE m # 0
    <3>1. m \in 1..12 /\ m - 1 \in 0..k
      BY <2>2, SMT
    <3>2. DaysBefore(y, m) = DaysBefore(y, m - 1) + daysOfMonth(y, m)
      BY <3>1, DaysBeforeStep
    <3> QED BY <2>2, <3>1, <3>2
  <2> QED BY <2>1, <2>2
<1>3. g = Step(g)
  <2>1. g = [m \in 0..k |-> g[m]]
    OBVIOUS
  <2> HIDE DEF g
  <2> QED BY <1>2, <2>1
<1>4. days = Step(days)
  <2> HIDE DEF Step, g
  <2> QED BY <1>3
<1>5. \A m \in 0..k : days[m] = IF m = 0 THEN 0 ELSE days[m - 1] + daysOfMonth(y, m)
  <2>1. \A m \in 0..k : Step(days)[m] = IF m = 0 THEN 0 ELSE days[m - 1] + daysOfMonth(y, m)
    <3> HIDE DEF days
    <3> QED OBVIOUS
  <2> HIDE DEF days, Step
  <2> QED BY <1>4, <2>1
<1>6. \A m \in 0..k : d[m] = daysOfMonth(y, m)
  OBVIOUS
<1> HIDE DEF days, g, d, Step
<1>7. \A m \in 0..k : days[m] = g[m]
  <2>1. 0 \in Nat /\ k \in Nat /\ 0 \in 0..k /\ \A m \in 0 + 1..k : m \in 0..k /\ m # 0
    BY SMT
  <2>2. SumsTo(days, d, 0, k)
    BY <1>5, <1>6, <2>1 DEF SumsTo
  <2>3. SumsTo(g, d, 0, k)
    BY <1>2, <1>6, <2>1 DEF SumsTo
  <2> QED BY <2>1, <2>2, <2>3, SameSums
<1>8. g[k] = DaysBefore(y, k) /\ k \in 0..k
  BY SMT DEF g
<1> QED BY <1>1, <1>7, <1>8

\* Whole years likewise, from the year after a to the year k.
LEMMA YearType == \A y \in Int : FirstDay(y, 1) \in Int
BY FirstDayType, SMT

LEMMA YearDays ==
    ASSUME NEW n \in Int
    PROVE  DaysOf(n, 12) = FirstDay(n + 1, 1) - FirstDay(n, 1)
<1>1. 12 \in 0..12
  BY SMT
<1>2. DaysOf(n, 12) = DaysBefore(n, 12)
  BY <1>1, DaysOfIs, SMT
<1>3. DaysBefore(n, 12) = FirstDay(n + 1, 1) - FirstDay(n, 1)
  BY SMT DEF DaysBefore
<1> QED BY <1>2, <1>3, SMT

YearSum(a, k) ==
    LET days[n \in a..k] == IF n = a THEN 0 ELSE days[n - 1] + DaysOf(n, 12) IN days[k]

LEMMA YearSumIs ==
    ASSUME NEW a \in Nat, NEW k \in Nat, a <= k
    PROVE  YearSum(a, k) = FirstDay(k + 1, 1) - FirstDay(a + 1, 1)
<1> DEFINE Step(f) == [n \in a..k |-> IF n = a THEN 0 ELSE f[n - 1] + DaysOf(n, 12)]
           days == CHOOSE f : f = Step(f)
           g == [n \in a..k |-> FirstDay(n + 1, 1) - FirstDay(a + 1, 1)]
           c == [n \in a..k |-> DaysOf(n, 12)]
<1>1. YearSum(a, k) = days[k]
  BY DEF YearSum
<1>2. \A n \in a..k : g[n] = IF n = a THEN 0 ELSE g[n - 1] + DaysOf(n, 12)
  <2> SUFFICES ASSUME NEW n \in a..k PROVE g[n] = IF n = a THEN 0 ELSE g[n - 1] + DaysOf(n, 12)
    OBVIOUS
  <2>0. FirstDay(a + 1, 1) \in Int
    BY YearType, SMT
  <2>1. CASE n = a
    BY <2>0, <2>1
  <2>2. CASE n # a
    <3>1. n \in Int /\ n - 1 \in a..k /\ n + 1 \in Int /\ (n - 1) + 1 = n
      BY <2>2, SMT
    <3>2. FirstDay(n + 1, 1) \in Int /\ FirstDay(n, 1) \in Int
      BY <3>1, YearType, SMT
    <3>3. g[n] = FirstDay(n + 1, 1) - FirstDay(a + 1, 1) /\ g[n - 1] = FirstDay(n, 1) - FirstDay(a + 1, 1)
      BY <3>1
    <3> HIDE DEF g
    <3> QED BY <2>0, <2>2, <3>1, <3>2, <3>3, YearDays, SMT
  <2> QED BY <2>1, <2>2
<1>3. g = Step(g)
  <2>1. g = [n \in a..k |-> g[n]]
    OBVIOUS
  <2> HIDE DEF g
  <2> QED BY <1>2, <2>1
<1>4. days = Step(days)
  <2> HIDE DEF Step, g
  <2> QED BY <1>3
<1>5. \A n \in a..k : days[n] = IF n = a THEN 0 ELSE days[n - 1] + DaysOf(n, 12)
  <2>1. \A n \in a..k : Step(days)[n] = IF n = a THEN 0 ELSE days[n - 1] + DaysOf(n, 12)
    <3> HIDE DEF days
    <3> QED OBVIOUS
  <2> HIDE DEF days, Step
  <2> QED BY <1>4, <2>1
<1>6. \A n \in a..k : c[n] = DaysOf(n, 12)
  OBVIOUS
<1>7. g[k] = FirstDay(k + 1, 1) - FirstDay(a + 1, 1) /\ k \in a..k
  OBVIOUS
<1> HIDE DEF days, g, c, Step
<1>8. \A n \in a..k : days[n] = g[n]
  <2>1. a \in Nat /\ k \in Nat /\ a \in a..k /\ \A n \in a + 1..k : n \in a..k /\ n # a
    BY SMT
  <2>2. SumsTo(days, c, a, k)
    BY <1>5, <1>6, <2>1 DEF SumsTo
  <2>3. SumsTo(g, c, a, k)
    BY <1>2, <1>6, <2>1 DEF SumsTo
  <2> QED BY <2>1, <2>2, <2>3, SameSums
<1> QED BY <1>1, <1>7, <1>8

LEMMA DaySumIs ==
    ASSUME NEW y \in Nat, NEW mo \in 1..12, NEW d \in Int, NEW t, y >= 2016,
           t.year = y, t.month = mo, t.day = d
    PROVE  DaySum(t) = FirstDay(y, mo) + d - 1 - FirstDay(2016, 1)
<1>1. DaySum(t) = YearSum(2015, y - 1) + DaysOf(y, mo - 1) + d - 1
  BY SMT DEF DaySum, YearSum
<1>2. YearSum(2015, y - 1) = FirstDay(y, 1) - FirstDay(2016, 1)
  <2>1. 2015 \in Nat /\ y - 1 \in Nat /\ 2015 <= y - 1 /\ (y - 1) + 1 = y /\ 2015 + 1 = 2016
    BY SMT
  <2> QED BY <2>1, YearSumIs, SMT
<1>3. DaysOf(y, mo - 1) = FirstDay(y, mo) - FirstDay(y, 1)
  <2>1. mo - 1 \in 0..12 /\ mo - 1 # 12 /\ (mo - 1) + 1 = mo /\ y \in Int
    BY SMT
  <2>2. DaysOf(y, mo - 1) = DaysBefore(y, mo - 1)
    BY <2>1, DaysOfIs, SMT
  <2>3. DaysBefore(y, mo - 1) = FirstDay(y, mo) - FirstDay(y, 1)
    BY <2>1, SMT DEF DaysBefore
  <2> QED BY <2>2, <2>3, SMT
<1>4. FirstDay(y, 1) \in Int /\ FirstDay(2016, 1) \in Int
  BY YearType, SMT
<1>5. FirstDay(y, mo) \in Int
  <2>1. y \in Int
    OBVIOUS
  <2> QED BY ONLY <2>1, mo \in 1..12, FirstDayType
<1> QED BY <1>1, <1>2, <1>3, <1>4, <1>5, SMT

\* Zeller's congruence gives the weekday of the reference calendar.
LEMMA WeekdayIs ==
    ASSUME NEW y \in Int, NEW mo \in 1..12, NEW d \in Int
    PROVE  getWeek(y, mo, d) = (FirstDay(y, mo) + d - 1 + 3) % 7
<1>1. PICK z \in Int : z = IF mo < 3 THEN y - 1 ELSE y
  BY SMT
<1>2. PICK m \in Int : m = IF mo < 3 THEN mo + 12 ELSE mo
  BY SMT
<1>3. PICK c, x \in Int : c = z \div 100 /\ x = z % 100 /\ z = 100 * c + x /\ 0 <= x /\ x <= 99
  <2>1. z \div 100 \in Int /\ z % 100 \in Int /\ z % 100 = z - 100 * (z \div 100) /\ 0 <= z % 100 /\ z % 100 <= 99
    BY SMT
  <2> QED BY <2>1, SMT
<1>4. PICK q, p, w \in Int : q = x \div 4 /\ p = c \div 4 /\ w = (26 * (m + 1)) \div 10
  BY SMT
<1>5. z \div 4 = 25 * c + q /\ z \div 400 = p
  BY <1>3, <1>4, SMT
<1>6. PICK b \in Int : b = Before[mo]
  BY SMT DEF Before
<1>7. PICK j \in Int : j = 4 * ((mo + 9) % 12) - 1 /\ b + 3 = w + 7 * j
  BY <1>2, <1>4, <1>6, SMT DEF Before
<1>8. FirstDay(y, mo) = 365 * z + 25 * c + q - c + p + b
  <2>1. FirstDay(y, mo) = 365 * z + Leaps(z) + b
    BY <1>1, <1>6, SMT DEF FirstDay, March
  <2>2. Leaps(z) = 25 * c + q - c + p
    BY <1>3, <1>5, SMT DEF Leaps
  <2> QED BY <2>1, <2>2, SMT
<1>9. getWeek(y, mo, d) = (x + q + p - 2 * c + w + d - 1) % 7
  BY <1>1, <1>2, <1>3, <1>4, SMT DEF getWeek
<1>10. FirstDay(y, mo) + d - 1 + 3 = (x + q + p - 2 * c + w + d - 1) + 7 * (5218 * c + 52 * x + j)
  BY <1>3, <1>7, <1>8, SMT
<1>11. PICK e, r \in Int : e = x + q + p - 2 * c + w + d - 1 /\ r = 5218 * c + 52 * x + j
  BY SMT
<1>12. (e + 7 * r) % 7 = e % 7
  BY SMT
<1> QED BY <1>9, <1>10, <1>11, <1>12, SMT

(* From 2016 on, the firmware's days of the week are the calendar's, and   *)
(* so are the days that its nested loops count.                            *)
THEOREM CalendarAgreesHolds == TimedSpec => []CalendarAgrees
<1>1. TimedTypeOK => CalendarAgrees
  <2> SUFFICES ASSUME now \in Moment, RealDate(now), now.year >= 2016
               PROVE  /\ getWeek(now.year, now.month, now.day) = Weekday(now)
                      /\ compareTimeToKnowDate(now)[1] = DayNumber(now) - DayNumber(Date(2016, 1, 1, 0, 0, 0))
    BY SMT DEF CalendarAgrees, TimedTypeOK
  <2>1. now.year \in Nat /\ now.month \in 1..12 /\ now.day \in 1..31
    BY SMT DEF Moment
  <2>2. PICK y \in Nat, mo \in 1..12, d \in Int : now.year = y /\ now.month = mo /\ now.day = d /\ y >= 2016
    BY <2>1, SMT
  <2>3. FirstDay(y, mo) \in Int /\ y \in Int
    <3>1. y \in Int
      OBVIOUS
    <3> QED BY ONLY <3>1, mo \in 1..12, FirstDayType
  <2>4. DayNumber(now) = FirstDay(y, mo) + d - 1
    BY ONLY <2>2, <2>3, DayNumberIs, SMT
  <2>5. getWeek(y, mo, d) = (FirstDay(y, mo) + d - 1 + 3) % 7
    BY ONLY <2>3, WeekdayIs, SMT
  <2>6. getWeek(now.year, now.month, now.day) = Weekday(now)
    BY ONLY <2>2, <2>3, <2>4, <2>5, SMT DEF Weekday
  <2>7. compareTimeToKnowDate(now)[1] = DaySum(now)
    <3>1. ~(now.year < 2016)
      BY ONLY <2>2, SMT
    <3>2. compareTimeToKnowDate(now) = <<DaySum(now), SecondOfDay(now)>>
      BY ONLY <3>1, SMT DEF compareTimeToKnowDate
    <3> QED BY ONLY <3>2, SMT
  <2>8. DaySum(now) = FirstDay(y, mo) + d - 1 - FirstDay(2016, 1)
    BY ONLY <2>2, DaySumIs, SMT
  <2>9. DayNumber(Date(2016, 1, 1, 0, 0, 0)) = FirstDay(2016, 1)
    <3>1. /\ Date(2016, 1, 1, 0, 0, 0).year = 2016 /\ Date(2016, 1, 1, 0, 0, 0).month = 1
          /\ Date(2016, 1, 1, 0, 0, 0).day = 1
      BY SMT DEF Date
    <3>2. DayNumber(Date(2016, 1, 1, 0, 0, 0)) = FirstDay(2016, 1) + 1 - 1
      BY <3>1, DayNumberIs, SMT
    <3>3. FirstDay(2016, 1) \in Int
      BY YearType, SMT
    <3> QED BY <3>2, <3>3, SMT
  <2>10. FirstDay(2016, 1) \in Int
    BY YearType, SMT
  <2>11. compareTimeToKnowDate(now)[1] = DayNumber(now) - DayNumber(Date(2016, 1, 1, 0, 0, 0))
    BY ONLY <2>3, <2>4, <2>7, <2>8, <2>9, <2>10, d \in Int, SMT
  <2> QED BY <2>6, <2>11
<1> QED BY <1>1, TimedTypeOKHolds, PTL
------------------------------------------------------------------------------
(* When timers act: a schedule is due in one second of its minute, and a   *)
(* calm minute shows that second once.                                     *)
\* The second of its minute in which a schedule is due.
DueSecond(p) == IF p.kind = "duration" THEN p.gmt.second ELSE 0

\* compareTimeToKnowDate gives up before 2016 and at its very first second.
Counted(p) == p.kind = "duration" => /\ p.gmt.year >= 2016
                                     /\ p.gmt # Date(2016, 1, 1, 0, 0, 0)

LEMMA MomentTypes ==
    ASSUME NEW t \in Moment
    PROVE  /\ t.year \in Nat /\ t.month \in 1..12 /\ t.day \in 1..31
           /\ t.hour \in Nat /\ t.minute \in Nat /\ t.second \in Nat
           /\ t.hour <= 23 /\ t.minute <= 59 /\ t.second <= 59
           /\ SecondOfDay(t) \in Nat /\ SecondOfDay(t) = (t.hour * 60 + t.minute) * 60 + t.second
           /\ SecondOfDay(t) < 86400
<1>1. /\ t.year \in Nat /\ t.month \in 1..12 /\ t.day \in 1..31
      /\ t.hour \in Nat /\ t.minute \in Nat /\ t.second \in Nat
      /\ t.hour <= 23 /\ t.minute <= 59 /\ t.second <= 59
  BY SMT DEF Moment
<1>2. SecondOfDay(t) = (t.hour * 60 + t.minute) * 60 + t.second
  BY SMT DEF SecondOfDay
<1> QED BY <1>1, <1>2, SMT

\* The first second of a moment's minute.
LEMMA MinuteStart ==
    ASSUME NEW t \in Moment
    PROVE  LET b == [t EXCEPT !.second = 0]
           IN  /\ b \in Moment /\ b.second = 0
               /\ b.year = t.year /\ b.month = t.month /\ b.day = t.day /\ b.hour = t.hour /\ b.minute = t.minute
               /\ (t.second = 0) <=> (t = b)
               /\ SecondOfDay(b) = SecondOfDay(t) - t.second
               /\ DayNumber(b) = DayNumber(t)
<1> DEFINE b == [t EXCEPT !.second = 0]
<1>1. 0 \in 0..59
  BY SMT
<1>2. /\ b \in Moment /\ b.second = 0
      /\ b.year = t.year /\ b.month = t.month /\ b.day = t.day /\ b.hour = t.hour /\ b.minute = t.minute
  BY <1>1, SMT DEF Moment
<1>3. t.second = 0 => t = b
  BY SMT DEF Moment
<1> HIDE DEF b
<1>4. SecondOfDay(b) = SecondOfDay(t) - t.second
  <2>1. SecondOfDay(t) = (t.hour * 60 + t.minute) * 60 + t.second
        /\ t.hour \in Nat /\ t.minute \in Nat /\ t.second \in Nat
    BY MomentTypes, SMT
  <2>2. SecondOfDay(b) = (b.hour * 60 + b.minute) * 60 + b.second
    BY <1>2, MomentTypes, SMT
  <2> QED BY ONLY <1>2, <2>1, <2>2, SMT
<1>5. DayNumber(b) = DayNumber(t)
  BY <1>2, RealIs, Zenon
<1>6. t = b => t.second = 0
  BY <1>2
<1> QED BY <1>2, <1>3, <1>4, <1>5, <1>6 DEF b

LEMMA OnceDue ==
    ASSUME NEW p, p.kind = "once", NEW t \in Moment
    PROVE  IsDue(p, t) <=> DueInMinute(p, t) /\ t.second = DueSecond(p)
<1> DEFINE b == [t EXCEPT !.second = 0]
           g == [p.gmt EXCEPT !.second = 0]
<1>1. IsDue(p, t) <=> t = g
  BY DEF IsDue, gmtCompareWithNow
<1>2. DueInMinute(p, t) <=> b = g
  BY DEF DueInMinute
<1>3. DueSecond(p) = 0
  BY DEF DueSecond
<1>4. b.second = 0 /\ (t.second = 0 <=> t = b)
  BY MinuteStart
<1>5. t = g => t.second = 0
  BY SMT DEF Moment
<1> HIDE DEF b, g
<1> QED BY <1>1, <1>2, <1>3, <1>4, <1>5

LEMMA CronDue ==
    ASSUME NEW p, p.kind = "cron", NEW t \in Moment
    PROVE  IsDue(p, t) <=> DueInMinute(p, t) /\ t.second = DueSecond(p)
<1>1. IsDue(p, t) <=> /\ getWeek(t.year, t.month, t.day) \in p.weeks /\ p.hour \in {t.hour, 24}
                      /\ p.minute = t.minute /\ t.second = 0
  BY SMT DEF IsDue, cronCompareWitchNow
<1>2. DueInMinute(p, t) <=> /\ Weekday(t) \in p.weeks /\ p.hour \in {t.hour, 24} /\ p.minute = t.minute
  BY SMT DEF DueInMinute
<1>3. getWeek(t.year, t.month, t.day) = Weekday(t)
  <2>1. PICK y \in Int, mo \in 1..12, d \in Int : t.year = y /\ t.month = mo /\ t.day = d
    BY MomentTypes, SMT
  <2>2. DayNumber(t) = FirstDay(y, mo) + d - 1
    BY ONLY <2>1, DayNumberIs, SMT
  <2>3. getWeek(y, mo, d) = (FirstDay(y, mo) + d - 1 + 3) % 7
    BY ONLY WeekdayIs, SMT
  <2> QED BY ONLY <2>1, <2>2, <2>3, SMT DEF Weekday
<1>4. DueSecond(p) = 0
  BY DEF DueSecond
<1> QED BY <1>1, <1>2, <1>3, <1>4

\* The first day of 2016 and the days around it.
LEMMA Since2016 ==
    ASSUME NEW t \in Moment
    PROVE  LET first == FirstDay(2016, 1)
           IN  /\ first \in Int
               /\ t.year < 2016 => DayNumber(t) < first
               /\ t.year >= 2016 => DayNumber(t) >= first
               /\ t.year >= 2016 /\ DayNumber(t) = first => t.year = 2016 /\ t.month = 1 /\ t.day = 1
<1>1. PICK y \in Int, mo \in 1..12, d \in Int : t.year = y /\ t.month = mo /\ t.day = d /\ 1 <= d /\ d <= 31
  BY MomentTypes, SMT
<1>2. DayNumber(t) = FirstDay(y, mo) + d - 1
  BY ONLY <1>1, DayNumberIs, SMT
<1>3. PICK f \in Int : f = FirstDay(2016, 1)
  BY YearType, SMT
<1>4. f = 365 * 2015 + 2015 \div 4 - 2015 \div 100 + 2015 \div 400 + 306
  BY <1>3, SMT DEF FirstDay, March, Leaps, Before
<1>5. PICK z \in Int, b \in Int : z = (IF mo <= 2 THEN y - 1 ELSE y) /\ b = Before[mo]
  BY SMT DEF Before
<1>6. FirstDay(y, mo) = 365 * z + z \div 4 - z \div 100 + z \div 400 + b
  BY <1>5, SMT DEF FirstDay, March, Leaps
<1>7. (mo = 1 => b = 306) /\ (mo = 2 => b = 337) /\ 0 <= b /\ b <= 337 /\ (mo > 2 => b <= 275)
  BY <1>5, SMT DEF Before
<1>8. y < 2016 => FirstDay(y, mo) + d - 1 < f
  BY ONLY <1>1, <1>4, <1>5, <1>6, <1>7, SMT
<1>9. y >= 2016 => FirstDay(y, mo) + d - 1 >= f
  BY ONLY <1>1, <1>4, <1>5, <1>6, <1>7, SMT
<1>10. y >= 2016 /\ FirstDay(y, mo) + d - 1 = f => y = 2016 /\ mo = 1 /\ d = 1
  BY ONLY <1>1, <1>4, <1>5, <1>6, <1>7, SMT
<1> QED BY ONLY <1>1, <1>2, <1>3, <1>8, <1>9, <1>10, SMT

\* What durationCompareWithNow compares with: the days since 2016 and the
\* seconds of the day, or nothing.
LEMMA CountedIs ==
    ASSUME NEW t \in Moment
    PROVE  /\ t.year < 2016 => compareTimeToKnowDate(t) = <<0, 0>>
           /\ t.year >= 2016 => compareTimeToKnowDate(t) = <<DayNumber(t) - FirstDay(2016, 1), SecondOfDay(t)>>
<1>1. PICK y \in Nat, mo \in 1..12, d \in Int : t.year = y /\ t.month = mo /\ t.day = d
  BY MomentTypes, SMT
<1>2. FirstDay(y, mo) \in Int /\ FirstDay(2016, 1) \in Int
  <2>1. y \in Int
    OBVIOUS
  <2>2. FirstDay(2016, 1) \in Int
    BY YearType, SMT
  <2>3. FirstDay(y, mo) \in Int
    BY ONLY <2>1, mo \in 1..12, FirstDayType, Zenon
  <2> QED BY ONLY <2>2, <2>3
<1>3. CASE y < 2016
  <2>1. compareTimeToKnowDate(t) = <<0, 0>>
    BY ONLY <1>1, <1>3, SMT DEF compareTimeToKnowDate
  <2> QED BY ONLY <1>1, <1>3, <2>1, SMT
<1>4. CASE y >= 2016
  <2>1. compareTimeToKnowDate(t) = <<DaySum(t), SecondOfDay(t)>>
    BY ONLY <1>1, <1>4, SMT DEF compareTimeToKnowDate
  <2>2. DaySum(t) = FirstDay(y, mo) + d - 1 - FirstDay(2016, 1)
    BY ONLY <1>1, <1>4, DaySumIs, SMT
  <2>3. DayNumber(t) = FirstDay(y, mo) + d - 1
    <3>1. y \in Int
      OBVIOUS
    <3> QED BY ONLY <1>1, <3>1, DayNumberIs, SMT
  <2>4. DaySum(t) = DayNumber(t) - FirstDay(2016, 1)
    BY ONLY <1>2, <2>2, <2>3, SMT
  <2> QED BY ONLY <1>1, <1>4, <2>1, <2>4, SMT
<1> QED BY <1>3, <1>4, SMT

\* The arithmetic of a duration timer: x seconds after the start, with the
\* seconds v of the start and w of now within their minutes.
LEMMA WholeMinutes ==
    ASSUME NEW x \in Int, NEW n \in Int, NEW v \in Nat, NEW w \in Nat, v <= 59, w <= 59, x = 60 * n + w - v
    PROVE  (x % 60 = 0 <=> w = v) /\ (w = v => x = 60 * n)
BY SMT

\* Whether a duration timer starts or ends something x seconds after its gmt.
InPhase(p, x) ==
    LET phase == (x \div 60) % p.interval
    IN  phase = 0 \/ (p.duration > 0 /\ phase % p.duration = 0)

\* The seconds between two such pairs.
Gap(cur, time) == 86400 * (cur[1] - time[1]) + cur[2] - time[2]

LEMMA DurationIs ==
    ASSUME NEW p, p.kind = "duration", p.duration \in Nat, NEW t, NEW diff \in Int,
           NEW cur, NEW time, cur = compareTimeToKnowDate(t), time = compareTimeToKnowDate(p.gmt),
           diff = Gap(cur, time)
    PROVE  IsDue(p, t) <=> /\ cur # <<0, 0>> /\ time # <<0, 0>>
                           /\ diff >= 0 /\ diff % 60 = 0 /\ InPhase(p, diff)
<1>1. IsDue(p, t) <=> durationCompareWithNow(p, t) # -1
  BY SMT DEF IsDue
<1> DEFINE phase == (diff \div 60) % p.interval
           ends == phase % p.duration = 0
<1>2. durationCompareWithNow(p, t) =
          IF <<0, 0>> \in {cur, time} \/ diff < 0 \/ diff % 60 # 0 THEN -1
          ELSE IF phase = 0 THEN 0 ELSE IF p.duration # 0 /\ ends THEN 1 ELSE -1
  BY SMT DEF durationCompareWithNow, Gap
<1>3. InPhase(p, diff) <=> phase = 0 \/ (p.duration > 0 /\ ends)
  BY DEF InPhase
<1>4. PICK u \in Nat : u = p.duration
  OBVIOUS
<1>5. PICK r \in Int : r = diff % 60
  BY SMT
<1> HIDE DEF phase, ends
<1> QED BY <1>1, <1>2, <1>3, <1>4, <1>5, SMT

LEMMA MinuteIs ==
    ASSUME NEW p, p.kind = "duration", NEW t, NEW x,
           x = SecondsBetween(p.gmt, [t EXCEPT !.second = 0]) + p.gmt.second
    PROVE  DueInMinute(p, t) <=> x >= 0 /\ InPhase(p, x)
BY SMT DEF DueInMinute, InPhase

\* 1 January 2016, 0:00, is the only moment that counts as nothing.
LEMMA FirstMoment ==
    ASSUME NEW t \in Moment, t.year >= 2016, DayNumber(t) = FirstDay(2016, 1), SecondOfDay(t) = 0
    PROVE  t = Date(2016, 1, 1, 0, 0, 0)
<1>1. t.year = 2016 /\ t.month = 1 /\ t.day = 1
  BY Since2016
<1>2. PICK h, mi, s \in Nat : t.hour = h /\ t.minute = mi /\ t.second = s
  BY MomentTypes, SMT
<1>3. (h * 60 + mi) * 60 + s = 0
  BY <1>2, MomentTypes, SMT
<1>4. h = 0 /\ mi = 0 /\ s = 0
  BY ONLY <1>3, SMT
<1>5. t = [year |-> t.year, month |-> t.month, day |-> t.day, hour |-> t.hour, minute |-> t.minute, second |-> t.second]
  BY SMT DEF Moment
<1> QED BY ONLY <1>1, <1>2, <1>4, <1>5, SMT DEF Date

LEMMA DurationDue ==
    ASSUME NEW p, p.kind = "duration", Accepted(p), Counted(p), NEW t \in Moment
    PROVE  IsDue(p, t) <=> DueInMinute(p, t) /\ t.second = DueSecond(p)
<1>1. p.gmt \in Moment /\ p.duration \in Nat
  BY SMT DEF Accepted, Verified
<1>2. PICK g \in Moment : g = p.gmt
  BY <1>1
<1>3. g.year >= 2016 /\ g # Date(2016, 1, 1, 0, 0, 0)
  BY <1>2 DEF Counted
<1>4. PICK f, a, c, sa, sc \in Int :
          /\ f = FirstDay(2016, 1) /\ a = DayNumber(g) /\ c = DayNumber(t)
          /\ sa = SecondOfDay(g) /\ sc = SecondOfDay(t)
  <2>1. DayNumber(g) \in Int /\ DayNumber(t) \in Int
    BY RealIs, Zenon
  <2>2. SecondOfDay(g) \in Int /\ SecondOfDay(t) \in Int
    BY MomentTypes, SMT
  <2>3. FirstDay(2016, 1) \in Int
    BY YearType, SMT
  <2> QED BY ONLY <2>1, <2>2, <2>3
<1>5. PICK v, w \in Nat : g.second = v /\ t.second = w /\ v <= 59 /\ w <= 59
  BY MomentTypes, SMT
<1>6. PICK k, m \in Nat : sa = 60 * k + v /\ sc = 60 * m + w
  <2>1. PICK h, mi \in Nat : g.hour = h /\ g.minute = mi /\ SecondOfDay(g) = (h * 60 + mi) * 60 + v
    BY ONLY <1>5, g \in Moment, MomentTypes, SMT
  <2>2. PICK i1, j1 \in Nat : t.hour = i1 /\ t.minute = j1 /\ SecondOfDay(t) = (i1 * 60 + j1) * 60 + w
    BY ONLY <1>5, t \in Moment, MomentTypes, SMT
  <2>3. h * 60 + mi \in Nat /\ i1 * 60 + j1 \in Nat
    BY ONLY <2>1, <2>2, SMT
  <2>4. sa = 60 * (h * 60 + mi) + v /\ sc = 60 * (i1 * 60 + j1) + w
    BY ONLY <1>4, <2>1, <2>2, SMT
  <2> QED BY ONLY <2>3, <2>4
<1>7. 0 <= sa /\ sa < 86400 /\ 0 <= sc /\ sc < 86400
  BY <1>4, MomentTypes, SMT
<1>8. PICK x \in Int : x = 86400 * (c - a) + (sc - w) - sa + v
  BY SMT
<1>9. DueInMinute(p, t) <=> x >= 0 /\ InPhase(p, x)
  <2>1. DayNumber([t EXCEPT !.second = 0]) = c /\ SecondOfDay([t EXCEPT !.second = 0]) = sc - w
    BY <1>4, <1>5, MinuteStart, SMT
  <2>2. x = SecondsBetween(g, [t EXCEPT !.second = 0]) + g.second
    BY <1>4, <1>5, <1>8, <2>1, SMT DEF SecondsBetween
  <2> QED BY <1>2, <2>2, MinuteIs, Zenon
<1>10. DueSecond(p) = v
  BY <1>2, <1>5 DEF DueSecond
<1>11. a >= f /\ ~(a = f /\ sa = 0)
  BY <1>3, <1>4, Since2016, FirstMoment, SMT
<1>12. compareTimeToKnowDate(g) = <<a - f, sa>>
  BY <1>3, <1>4, CountedIs, SMT
<1>13. <<a - f, sa>> # <<0, 0>>
  BY <1>11, SMT
<1>14. CASE t.year < 2016
  <2>1. compareTimeToKnowDate(t) = <<0, 0>>
    BY <1>14, CountedIs, SMT
  <2>2. PICK z \in Int : z = 86400 * (0 - (a - f)) + 0 - sa
    BY SMT
  <2>3. z = Gap(<<0, 0>>, <<a - f, sa>>)
    BY <2>2, SMT DEF Gap
  <2>4. ~IsDue(p, t)
    <3>1. compareTimeToKnowDate(p.gmt) = <<a - f, sa>>
      BY <1>2, <1>12
    <3>2. IsDue(p, t) <=> /\ <<0, 0>> # <<0, 0>> /\ <<a - f, sa>> # <<0, 0>>
                          /\ z >= 0 /\ z % 60 = 0 /\ InPhase(p, z)
      BY ONLY p.kind = "duration", <1>1, z \in Int, <2>1, <2>3, <3>1, DurationIs, Zenon
    <3> QED BY ONLY <3>2
  <2>5. c < f
    BY <1>4, <1>14, Since2016, SMT
  <2>6. x < 0
    BY ONLY <1>4, <1>5, <1>6, <1>7, <1>8, <1>11, <2>5, SMT
  <2>7. ~(x >= 0)
    BY <2>6, SMT
  <2> QED BY <1>9, <2>4, <2>7, Zenon
<1>15. CASE t.year >= 2016
  <2>1. compareTimeToKnowDate(t) = <<c - f, sc>>
    BY <1>4, <1>15, CountedIs, SMT
  <2>2. PICK z \in Int : z = 86400 * ((c - f) - (a - f)) + sc - sa
    BY SMT
  <2>3. z = Gap(<<c - f, sc>>, <<a - f, sa>>)
    BY <2>2, SMT DEF Gap
  <2>4. IsDue(p, t) <=> <<c - f, sc>> # <<0, 0>> /\ z >= 0 /\ z % 60 = 0 /\ InPhase(p, z)
    <3>1. compareTimeToKnowDate(p.gmt) = <<a - f, sa>>
      BY <1>2, <1>12
    <3>2. IsDue(p, t) <=> /\ <<c - f, sc>> # <<0, 0>> /\ <<a - f, sa>> # <<0, 0>>
                          /\ z >= 0 /\ z % 60 = 0 /\ InPhase(p, z)
      BY ONLY p.kind = "duration", <1>1, z \in Int, <2>1, <2>3, <3>1, DurationIs, Zenon
    <3> QED BY ONLY <1>13, <3>2
  <2>5. <<c - f, sc>> # <<0, 0>> <=> ~(c = f /\ sc = 0)
    BY SMT
  <2>6. z = 60 * (1440 * (c - a) + m - k) + w - v /\ z = x + w - v
    BY ONLY <1>4, <1>5, <1>6, <1>8, <2>2, SMT
  <2>7. 1440 * (c - a) + m - k \in Int
    BY SMT
  <2>8. (z % 60 = 0 <=> w = v) /\ (w = v => z = x)
    <3>1. PICK n \in Int : n = 1440 * (c - a) + m - k
      BY <2>7
    <3>2. z % 60 = 0 <=> w = v
      BY ONLY <1>5, <2>2, <2>6, <3>1, WholeMinutes, SMT
    <3> QED BY ONLY <1>5, <1>8, <2>2, <2>6, <3>2, SMT
  <2>9. c = f /\ sc = 0 => z < 0
    <3>1. z = 86400 * (c - a) + sc - sa
      BY ONLY <2>2, SMT
    <3> QED BY ONLY <1>7, <1>11, <3>1, SMT
  <2>10. ~(z < 0 /\ z >= 0)
    BY ONLY <2>2, SMT
  <2> QED BY ONLY <1>5, <1>9, <1>10, <2>4, <2>5, <2>8, <2>9, <2>10, Zenon
<1> QED BY <1>14, <1>15, MomentTypes, SMT

\* A schedule is due in one second of its minute.
LEMMA DueIs ==
    ASSUME NEW p, Accepted(p), Counted(p), NEW t \in Moment
    PROVE  IsDue(p, t) <=> DueInMinute(p, t) /\ t.second = DueSecond(p)
<1>1. p.kind = "once" \/ p.kind = "cron" \/ p.kind = "duration"
  BY SMT DEF Accepted
<1> QED BY <1>1, OnceDue, CronDue, DurationDue, Zenon

LEMMA DueSecondType == ASSUME NEW p, Accepted(p) PROVE DueSecond(p) \in 0..59
<1>1. CASE p.kind = "duration"
  <2>1. p.gmt \in Moment
    BY <1>1, SMT DEF Accepted, Verified
  <2> QED BY <1>1, <2>1, SMT DEF DueSecond, Moment
<1>2. CASE p.kind # "duration"
  BY <1>2, SMT DEF DueSecond
<1> QED BY <1>1, <1>2

LEMMA SameMinuteIs ==
    ASSUME NEW a \in Moment, NEW b \in Moment, SameMinute(a, b)
    PROVE  /\ [a EXCEPT !.second = 0] = [b EXCEPT !.second = 0]
           /\ DayNumber(a) = DayNumber(b) /\ a.hour = b.hour /\ a.minute = b.minute
<1>1. [a EXCEPT !.second = 0] = [b EXCEPT !.second = 0]
  BY DEF SameMinute
<1> DEFINE c == [a EXCEPT !.second = 0]
           d == [b EXCEPT !.second = 0]
<1>2. DayNumber(c) = DayNumber(a) /\ c.hour = a.hour /\ c.minute = a.minute
  BY MinuteStart, Zenon
<1>3. DayNumber(d) = DayNumber(b) /\ d.hour = b.hour /\ d.minute = b.minute
  BY MinuteStart, Zenon
<1> HIDE DEF c, d
<1> QED BY ONLY <1>1, <1>2, <1>3, Zenon DEF c, d

LEMMA DueAllMinute ==
    ASSUME NEW p, NEW a \in Moment, NEW b \in Moment, SameMinute(a, b)
    PROVE  DueInMinute(p, a) <=> DueInMinute(p, b)
<1>1. Weekday(a) = Weekday(b)
  BY SameMinuteIs, Zenon DEF Weekday
<1> DEFINE start(n) == [n EXCEPT !.second = 0]
           passed(n) == SecondsBetween(p.gmt, start(n)) + p.gmt.second
           phase(n) == (passed(n) \div 60) % p.interval
<1>2. start(a) = start(b)
  BY SameMinuteIs, Zenon
<1>3. \A n : DueInMinute(p, n) <=>
          \/ p.kind = "once" /\ start(n) = [p.gmt EXCEPT !.second = 0]
          \/ p.kind = "cron" /\ Weekday(n) \in p.weeks
                /\ p.hour \in {n.hour, 24} /\ p.minute = n.minute
          \/ p.kind = "duration" /\ passed(n) >= 0
                /\ (phase(n) = 0 \/ (p.duration > 0 /\ phase(n) % p.duration = 0))
  BY DEF DueInMinute
<1>4. passed(a) = passed(b) /\ phase(a) = phase(b)
  BY <1>2
<1>5. a.hour = b.hour /\ a.minute = b.minute
  BY SameMinuteIs, Zenon
<1> HIDE DEF start, passed, phase
<1> QED BY ONLY <1>1, <1>2, <1>3, <1>4, <1>5, Zenon

LEMMA NextDayKeeps ==
    ASSUME NEW t \in Moment
    PROVE  NextDay(t).second = t.second /\ NextDay(t).minute = t.minute
<1>1. PICK y, mo, d, h, mi, s \in Nat : t = Date(y, mo, d, h, mi, s)
  BY MomentParts, SMT
<1>2. \E y1, mo1, d1 : NextDay(t) = Date(y1, mo1, d1, h, mi, s)
  BY <1>1, NextDayIs, SMT
<1> QED BY <1>1, <1>2, MomentParted, SMT

\* One second later it is the next second of the minute, or another minute.
LEMMA OneSecond ==
    ASSUME NEW t \in Moment
    PROVE  LET u == Carry(t, 1)
           IN  /\ u \in Moment
               /\ SameMinute(t, u) => t.second < 59 /\ u.second = t.second + 1
               /\ ~SameMinute(t, u) => t.second = 59 /\ u.second = 0
<1> DEFINE u == Carry(t, 1)
<1>1. u \in Moment
  BY CarryType, SMT DEF Longest
<1>2. PICK l \in Moment :
          /\ l.year = t.year /\ l.month = t.month /\ l.day = t.day
          /\ \/ u = l /\ SecondOfDay(l) = SecondOfDay(t) + 1
             \/ u = NextDay(l) /\ SecondOfDay(l) = SecondOfDay(t) + 1 - 86400
  BY CarryIs, SMT DEF Longest
<1>3. PICK y, mo, d, h, mi, s \in Nat :
          /\ t = Date(y, mo, d, h, mi, s)
          /\ 1 <= mo /\ mo <= 12 /\ 1 <= d /\ d <= 31 /\ h <= 23 /\ mi <= 59 /\ s <= 59
  BY MomentParts
<1>4. PICK y1, mo1, d1, h1, mi1, s1 \in Nat :
          /\ l = Date(y1, mo1, d1, h1, mi1, s1)
          /\ 1 <= mo1 /\ mo1 <= 12 /\ 1 <= d1 /\ d1 <= 31 /\ h1 <= 23 /\ mi1 <= 59 /\ s1 <= 59
  BY MomentParts
<1>5. /\ t.year = y /\ t.month = mo /\ t.day = d /\ t.minute = mi /\ t.second = s
      /\ l.year = y1 /\ l.month = mo1 /\ l.day = d1 /\ l.minute = mi1 /\ l.second = s1
      /\ [t EXCEPT !.second = 0] = Date(y, mo, d, h, mi, 0)
      /\ [l EXCEPT !.second = 0] = Date(y1, mo1, d1, h1, mi1, 0)
  <2>1. /\ t.year = y /\ t.month = mo /\ t.day = d /\ t.minute = mi /\ t.second = s
        /\ [t EXCEPT !.second = 0] = Date(y, mo, d, h, mi, 0)
    BY ONLY <1>3, MomentParted, SMT
  <2>2. /\ l.year = y1 /\ l.month = mo1 /\ l.day = d1 /\ l.minute = mi1 /\ l.second = s1
        /\ [l EXCEPT !.second = 0] = Date(y1, mo1, d1, h1, mi1, 0)
    BY ONLY <1>4, MomentParted, SMT
  <2> QED BY ONLY <2>1, <2>2
<1>6. /\ SecondOfDay(t) = (h * 60 + mi) * 60 + s
      /\ SecondOfDay(l) = (h1 * 60 + mi1) * 60 + s1
  BY <1>3, <1>4, SMT DEF SecondOfDay, Date
<1> HIDE DEF u
<1>7. CASE s < 59
  <2>1. u = l /\ h1 = h /\ mi1 = mi /\ s1 = s + 1
    BY <1>2, <1>3, <1>4, <1>6, <1>7, SMT
  <2>2. y1 = y /\ mo1 = mo /\ d1 = d
    BY <1>2, <1>5
  <2>3. SameMinute(t, u) /\ u.second = s + 1
    BY <1>5, <2>1, <2>2, Zenon DEF SameMinute
  <2> QED BY <1>1, <1>5, <1>7, <2>3 DEF u
<1>8. CASE s = 59
  <2>1. s1 = 0 /\ mi1 # mi
    BY <1>2, <1>3, <1>4, <1>6, <1>8, SMT
  <2>2. u.second = s1 /\ u.minute = mi1
    BY <1>2, <1>5, NextDayKeeps, SMT
  <2>3. ~SameMinute(t, u)
    BY <1>1, <1>5, <2>1, <2>2, SameMinuteIs, Zenon
  <2> QED BY <1>1, <1>5, <1>8, <2>1, <2>2, <2>3 DEF u
<1> QED BY <1>3, <1>7, <1>8, SMT

\* Whether the second in which a slot's timer is due has been looked at.
Passed(s) ==
    LET d == DueSecond(Plan[ram.timer[s].type])
    IN  d < now.second \/ (d = now.second /\ turn = "rtc")

\* A calm minute, at each of its seconds: the timers whose second has passed
\* have acted, once, and no others.
ActedInv == calm => \A s \in Slot : acted[s] = IF Expected(s) /\ Passed(s) THEN 1 ELSE 0

AllCounted == \A p \in Once \cup Repeat : Counted(Plan[p])

\* A timer with an id has a schedule, and its second is one of a minute.
LEMMA SlotFacts ==
    ASSUME TimedTypeOK, Registry, NEW s \in Slot, ram.timer[s].id # 0
    PROVE  /\ ram.timer[s].type \in Once \cup Repeat
           /\ Accepted(Plan[ram.timer[s].type])
           /\ DueSecond(Plan[ram.timer[s].type]) \in 0..59
<1>1. ram.timer[s] \in Timer
  BY DEF TimedTypeOK, TypeOK, Image
<1>2. ram.timer[s].type # "none"
  BY DEF Registry, Agrees, NoTimer
<1>3. ram.timer[s].type \in Once \cup Repeat
  BY <1>1, <1>2 DEF Timer, Type
<1>4. Accepted(Plan[ram.timer[s].type])
  BY <1>3, TimedTimersAssumption, SMT
<1> QED BY <1>3, <1>4, DueSecondType, Zenon

LEMMA TickActs ==
    ASSUME TimedTypeOK, Registry, ActedInv, NEW e \in Elapsed, LocalRTC(e)
    PROVE  ActedInv'
<1> SUFFICES ASSUME calm', NEW s \in Slot
             PROVE  (acted[s] = IF Expected(s) /\ Passed(s) THEN 1 ELSE 0)'
  BY DEF ActedInv
<1>1. now' = Carry(now, 1) /\ (calm \/ ~SameMinute(now, now')) /\ ram' = ram
      /\ turn = "rtc" /\ turn' = "deal"
  BY Zenon DEF LocalRTC, vars
<1>2. now \in Moment /\ now' \in Moment
  BY <1>1, OneSecond, Zenon DEF TimedTypeOK
<1> DEFINE d == DueSecond(Plan[ram.timer[s].type])
<1>3. ram.timer[s].id # 0 => d \in 0..59
  BY SlotFacts, Zenon
<1>4. CASE SameMinute(now, now')
  <2>1. now'.second = now.second + 1 /\ acted' = acted /\ calm
    BY <1>1, <1>2, <1>4, OneSecond, Zenon DEF LocalRTC
  <2>2. Expected(s)' <=> Expected(s)
    <3>1. DueInMinute(Plan[ram.timer[s].type], now) <=> DueInMinute(Plan[ram.timer[s].type], now')
      BY <1>2, <1>4, DueAllMinute, Zenon
    <3> QED BY <1>1, <2>1, <3>1, Zenon DEF Expected
  <2>3. ram.timer[s].id # 0 => (Passed(s)' <=> Passed(s))
    <3>1. PICK w \in Nat : now.second = w
      BY <1>2, MomentTypes, SMT
    <3>2. Passed(s) <=> d < w \/ d = w
      BY <1>1, <3>1, Zenon DEF Passed
    <3>3. Passed(s)' <=> d < w + 1
      <4>1. Passed(s)' <=> d < now'.second \/ (d = now'.second /\ turn' = "rtc")
        BY <1>1, Zenon DEF Passed
      <4>2. turn' # "rtc"
        BY <1>1
      <4> QED BY <2>1, <3>1, <4>1, <4>2, Zenon
    <3> HIDE DEF d
    <3>4. d \in 0..59 => (d < w + 1 <=> d < w \/ d = w)
      BY ONLY <3>1, SMT
    <3> QED BY <1>3, <3>2, <3>3, <3>4, Zenon
  <2>4. Expected(s) => ram.timer[s].id # 0
    BY DEF Expected
  <2>5. acted[s] = IF Expected(s) /\ Passed(s) THEN 1 ELSE 0
    BY <2>1, Zenon DEF ActedInv
  <2> QED BY <2>1, <2>2, <2>3, <2>4, <2>5, Zenon
<1>5. CASE ~SameMinute(now, now')
  <2>1. now'.second = 0 /\ acted' = NobodyActed
    BY <1>1, <1>2, <1>5, OneSecond, Zenon DEF LocalRTC
  <2>2. acted'[s] = 0
    BY <2>1 DEF NobodyActed
  <2>3. ~(Expected(s)' /\ Passed(s)')
    <3>1. Expected(s)' => ram.timer[s].id # 0
      BY <1>1, Zenon DEF Expected
    <3>2. Passed(s)' <=> d < 0
      <4>1. Passed(s)' <=> d < now'.second \/ (d = now'.second /\ turn' = "rtc")
        BY <1>1, Zenon DEF Passed
      <4>2. turn' # "rtc"
        BY <1>1
      <4> QED BY <2>1, <4>1, <4>2, Zenon
    <3> HIDE DEF d
    <3>3. d \in 0..59 => ~(d < 0)
      BY ONLY SMT
    <3> QED BY <1>3, <3>1, <3>2, <3>3, Zenon
  <2> QED BY <2>2, <2>3, Zenon
<1> QED BY <1>4, <1>5

\* What timerDealTime does to one slot.
LEMMA DealFacts ==
    ASSUME TimedTypeOK, TimerDealTime, NEW s \in Slot
    PROVE  /\ ram'.timer[s].id = ram.timer[s].id /\ ram'.timer[s].type = ram.timer[s].type
           /\ s \notin Due => ram'.timer[s] = ram.timer[s] /\ acted'[s] = acted[s]
           /\ s \in Due /\ acted[s] = 0 => acted'[s] = 1
<1> DEFINE once == {x \in Due : ram.timer[x].type \in Once}
<1>1. UNCHANGED vars \/ DealTime(once)
  BY DEF TimerDealTime
<1>2. ram.timer[s] \in Timer /\ ram \in Image
  BY DEF TimedTypeOK, TypeOK, Image
<1>3. s \in once => s \in Due
  OBVIOUS
<1>4. acted'[s] = IF s \in Due /\ acted[s] < 2 THEN acted[s] + 1 ELSE acted[s]
  BY DEF TimerDealTime
<1> HIDE DEF once
<1>5. /\ ram'.timer[s].id = ram.timer[s].id /\ ram'.timer[s].type = ram.timer[s].type
      /\ s \notin once => ram'.timer[s] = ram.timer[s]
  <2>1. CASE UNCHANGED vars
    BY <2>1 DEF vars
  <2>2. CASE DealTime(once)
    <3>1. ram'.timer[s] = IF s \in once THEN [ram.timer[s] EXCEPT !.enabled = FALSE] ELSE ram.timer[s]
      BY <1>2, <2>2 DEF DealTime, Image
    <3> QED BY <1>2, <3>1 DEF Timer
  <2> QED BY <1>1, <2>1, <2>2
<1> QED BY <1>3, <1>4, <1>5, SMT

LEMMA DealActs ==
    ASSUME AllCounted, TimedTypeOK, Registry, ActedInv, TimerDealTime
    PROVE  ActedInv'
<1> SUFFICES ASSUME calm', NEW s \in Slot
             PROVE  (acted[s] = IF Expected(s) /\ Passed(s) THEN 1 ELSE 0)'
  BY DEF ActedInv
<1>1. turn = "deal" /\ turn' = "rtc" /\ now' = now /\ calm
  BY Zenon DEF TimerDealTime
<1>2. acted[s] = IF Expected(s) /\ Passed(s) THEN 1 ELSE 0
  BY <1>1, Zenon DEF ActedInv
<1> DEFINE p == Plan[ram.timer[s].type]
           d == DueSecond(p)
<1>3. p' = p /\ ram'.timer[s].id = ram.timer[s].id
  BY DealFacts, Zenon
<1>4. CASE ram.timer[s].id = 0
  <2>1. ~Expected(s) /\ ~Expected(s)' /\ s \notin Due
    BY <1>3, <1>4, Zenon DEF Expected, Due
  <2>2. acted'[s] = acted[s]
    BY <2>1, DealFacts, Zenon
  <2> QED BY <1>2, <2>1, <2>2, Zenon
<1>5. CASE ram.timer[s].id # 0
  <2>1. /\ Expected(s) <=> (ram.timer[s].enabled \/ acted[s] > 0) /\ DueInMinute(p, now)
        /\ Expected(s)' <=> (ram'.timer[s].enabled \/ acted'[s] > 0) /\ DueInMinute(p, now)
    BY <1>1, <1>3, <1>5, Zenon DEF Expected
  <2>2. s \in Due <=> ram.timer[s].enabled /\ DueInMinute(p, now) /\ now.second = d
    <3>1. ram.timer[s].type \in Once \cup Repeat /\ Accepted(p) /\ now \in Moment
      BY <1>5, SlotFacts, Zenon DEF TimedTypeOK
    <3>2. Counted(p)
      BY <3>1, Zenon DEF AllCounted
    <3>3. IsDue(p, now) <=> DueInMinute(p, now) /\ now.second = d
      BY <3>1, <3>2, DueIs, Zenon
    <3> QED BY <1>5, <3>3, Zenon DEF Due
  <2>3. (Passed(s) <=> d < now.second) /\ (Passed(s)' <=> d < now.second \/ d = now.second)
    <3>1. /\ Passed(s) <=> d < now.second \/ (d = now.second /\ turn = "rtc")
          /\ Passed(s)' <=> d < now.second \/ (d = now.second /\ turn' = "rtc")
      BY <1>1, <1>3, Zenon DEF Passed
    <3> QED BY <1>1, <3>1
  <2>4. d = now.second => ~(d < now.second)
    <3>1. d \in 0..59
      BY <1>5, SlotFacts, Zenon
    <3> HIDE DEF d
    <3> QED BY <3>1, SMT
  <2>5. (0 > 0) = FALSE /\ (1 > 0) = TRUE /\ 1 # 0
    BY SMT
  <2> HIDE DEF p, d
  <2>6. CASE s \in Due
    <3>1. acted[s] = 0
      BY <1>2, <2>2, <2>3, <2>4, <2>6, Zenon
    <3>2. acted'[s] = 1
      BY <2>6, <3>1, DealFacts, Zenon
    <3>3. Expected(s)' /\ Passed(s)'
      BY <2>1, <2>2, <2>3, <2>5, <2>6, <3>2, Zenon
    <3> QED BY <3>2, <3>3, Zenon
  <2>7. CASE s \notin Due
    <3>1. acted'[s] = acted[s] /\ ram'.timer[s] = ram.timer[s]
      BY <2>7, DealFacts, Zenon
    <3>2. Expected(s)' <=> Expected(s)
      BY <2>1, <3>1, Zenon
    <3>3. Expected(s) => (Passed(s)' <=> Passed(s))
      BY <1>2, <2>1, <2>2, <2>3, <2>4, <2>5, <2>7, Zenon
    <3> QED BY <1>2, <3>1, <3>2, <3>3, Zenon
  <2> QED BY <2>6, <2>7
<1> QED BY <1>4, <1>5

LEMMA ActedStep ==
    AllCounted /\ TimedTypeOK /\ Registry /\ ActedInv /\ [TimedNext]_timedVars => ActedInv'
<1> SUFFICES ASSUME AllCounted, TimedTypeOK, Registry, ActedInv, [TimedNext]_timedVars PROVE ActedInv'
  OBVIOUS
<1>1. CASE TimedBoot \/ TimedPowerLoss \/ TimedRequest \/ ServerDate
  <2>1. calm' = FALSE
    BY <1>1 DEF TimedBoot, TimedPowerLoss, ClockOff, TimedRequest, ServerDate, SetGMTTime
  <2> QED BY <2>1 DEF ActedInv
<1>2. ASSUME NEW e \in Elapsed, LocalRTC(e) PROVE ActedInv'
  BY <1>2, TickActs
<1>3. CASE TimerDealTime
  BY <1>3, DealActs
<1>4. CASE UNCHANGED timedVars
  <2>1. ram' = ram /\ now' = now /\ turn' = turn /\ acted' = acted /\ calm' = calm
    BY <1>4 DEF timedVars, vars, clockVars
  <2> QED BY <2>1, Zenon DEF ActedInv, Expected, Passed
<1> QED BY <1>1, <1>2, <1>3, <1>4 DEF TimedNext

(* In a minute shown second by second to its end, in which neither clock   *)
(* nor table is changed, every enabled timer that timerDealTime should run *)
(* acts exactly once, and no other.  A duration timer from before 2016, or *)
(* from its first second, is one compareTimeToKnowDate cannot count, which *)
(* the code leaves alone.                                                  *)
THEOREM ActsWhenDueHolds ==
    ASSUME \A p \in Once \cup Repeat : Counted(Plan[p])
    PROVE  TimedSpec => ActsWhenDue
<1> DEFINE A == \A e \in Elapsed : (LocalRTC(e) /\ calm /\ calm' /\ ~SameMinute(now, now')) =>
                   \A s \in Slot : acted[s] = IF Expected(s) THEN 1 ELSE 0
<1>1. AllCounted
  BY DEF AllCounted
<1>2. TimedInit => ActedInv
  BY DEF TimedInit, ActedInv
<1>3. TimedTypeOK /\ Registry /\ ActedInv /\ [TimedNext]_timedVars => ActedInv'
  BY <1>1, ActedStep
<1>4. TimedTypeOK /\ Registry /\ ActedInv => A
  <2> SUFFICES ASSUME TimedTypeOK, Registry, ActedInv, NEW e \in Elapsed,
                      LocalRTC(e), calm, calm', ~SameMinute(now, now'), NEW s \in Slot
               PROVE  acted[s] = IF Expected(s) THEN 1 ELSE 0
    OBVIOUS
  <2>1. now' = Carry(now, 1) /\ turn = "rtc" /\ now \in Moment
    BY Zenon DEF LocalRTC, TimedTypeOK
  <2>2. now.second = 59
    BY <2>1, OneSecond, Zenon
  <2>3. Expected(s) => Passed(s)
    <3> SUFFICES ASSUME Expected(s) PROVE Passed(s)
      OBVIOUS
    <3> DEFINE d == DueSecond(Plan[ram.timer[s].type])
    <3>1. d \in 0..59
      BY SlotFacts, Zenon DEF Expected
    <3>2. Passed(s) <=> d < 59 \/ d = 59
      BY <2>1, <2>2, Zenon DEF Passed
    <3> HIDE DEF d
    <3>3. d < 59 \/ d = 59
      BY ONLY <3>1, SMT
    <3> QED BY <3>2, <3>3, Zenon
  <2> QED BY <2>3, Zenon DEF ActedInv
<1>5. [][A]_timedVars => ActsWhenDue
  BY PTL DEF ActsWhenDue
<1> HIDE DEF A
<1> QED BY <1>2, <1>3, <1>4, <1>5, TimedTypeOKHolds, TimedRegistry, PTL DEF TimedSpec
==============================================================================
