-------------------------- MODULE FlashParamProofs ---------------------------
(* Proofs about the two-slot flash store and about the production of a    *)
(* device on top of it, for every set of records.                          *)
EXTENDS FactoryData, TLAPS

\* The slot a save writes is the one a load does not read, and the flag it
\* writes makes that slot the live one.
LEMMA SaveSlotFacts ==
    /\ \A f \in FlagByte : SaveSlot(f) \in Slot /\ LiveSlot(f) \in Slot /\ SaveSlot(f) # LiveSlot(f)
    /\ \A s \in Slot : SaveFlag(s) \in FlagByte /\ LiveSlot(SaveFlag(s)) = s
    BY DEF SaveSlot, LiveSlot, SaveFlag, Slot, FlagByte

\* What a write leaves in a sector is a content of that sector.
LEMMA WrittenFacts ==
    /\ \A c \in Content, v \in Value : WrittenSlot(c, v) \subseteq Content
    /\ \A v \in Value : WrittenSlot(Blank, v) = {v}
    /\ \A f \in FlagByte, g \in FlagByte : WrittenFlag(f, g) \subseteq FlagByte
    /\ \A g \in FlagByte : WrittenFlag("erased", g) = {g}
    BY DEF WrittenSlot, WrittenFlag, Content, FlagByte

\* The sectors after a power loss: only the slot under work can change, and
\* the flag only while it is being erased or written.
LEMMA PowerLossFacts ==
    ASSUME TypeOK, SaveInv, PowerLoss
    PROVE  /\ slot' \in [Slot -> Content]
           /\ flag' \in FlagByte
           /\ \A s \in Slot : s \notin SlotUnderWork => slot'[s] = slot[s]
           /\ pc \notin {"erase_flag", "reset_flag", "write_flag"} => flag' = flag
           /\ pc = "erase_flag" => flag' = flag \/ LiveSlot(flag') = "SAVE_1"
           /\ pc = "write_flag" => flag' = flag \/ LiveSlot(flag') \in {"SAVE_1", target}
<1>1. \A s \in Slot : SlotAfterPowerLoss(s) \subseteq Content
  BY WrittenFacts DEF SlotAfterPowerLoss, TypeOK, SaveInv, Content, SavePc, SlotUnderWork, Slot
<1>2. PICK a \in SlotAfterPowerLoss("SAVE_0"), b \in SlotAfterPowerLoss("SAVE_1") :
          slot' = [s \in Slot |-> IF s = "SAVE_0" THEN a ELSE b]
  BY DEF PowerLoss
<1>3. slot' \in [Slot -> Content]
  BY <1>1, <1>2 DEF Slot
<1>4. \A s \in Slot : s \notin SlotUnderWork => slot'[s] = slot[s]
  BY <1>2 DEF SlotAfterPowerLoss, Slot
<1>5. /\ flag' \in FlagByte
      /\ pc \notin {"erase_flag", "reset_flag", "write_flag"} => flag' = flag
      /\ pc = "erase_flag" => flag' = flag \/ LiveSlot(flag') = "SAVE_1"
  <2>1. CASE pc \in {"erase_flag", "reset_flag"}
    BY <2>1 DEF PowerLoss, FlagAfterPowerLoss, TypeOK, FlagByte, LiveSlot
  <2>2. CASE pc = "write_flag"
    BY <2>2, WrittenFacts, SaveSlotFacts DEF PowerLoss, FlagAfterPowerLoss, TypeOK, SaveInv, FlagByte
  <2>3. CASE pc \notin {"erase_flag", "reset_flag", "write_flag"}
    BY <2>3 DEF PowerLoss, FlagAfterPowerLoss, TypeOK
  <2> QED BY <2>1, <2>2, <2>3
<1>6. pc = "write_flag" => flag' = flag \/ LiveSlot(flag') \in {"SAVE_1", target}
  BY WrittenFacts, SaveSlotFacts DEF PowerLoss, FlagAfterPowerLoss, TypeOK, SaveInv, LiveSlot, SaveFlag, Slot, FlagByte
<1> QED BY <1>3, <1>4, <1>5, <1>6

\* One step of the firmware, or one power loss, keeps the invariant.
LEMMA FlashInvStep == FlashInv /\ [Next]_vars => FlashInv'
<1> SUFFICES ASSUME FlashInv, [Next]_vars PROVE FlashInv'
  OBVIOUS
<1> USE FlashParamAssumption, SaveSlotFacts, WrittenFacts
        DEF FlashInv, TypeOK, SaveInv, IntactInv, Load, SavePc, ResetPc, Pc
<1>1. CASE Boot
  BY <1>1 DEF Boot, Content
<1>2. ASSUME NEW v \in Value, Save(v) PROVE FlashInv'
  BY <1>2 DEF Save, Content
<1>3. CASE EraseSlot
  BY <1>3 DEF EraseSlot, Content
<1>4. CASE WriteSlot
  BY <1>4 DEF WriteSlot, Content
<1>5. CASE EraseFlag
  <2>1. LiveSlot("erased") = "SAVE_1"
    BY DEF LiveSlot
  <2> QED BY <1>5, <2>1 DEF EraseFlag, Content, FlagByte, Slot, SaveSlot, LiveSlot
<1>6. CASE WriteFlag
  <2>1. flag' = SaveFlag(target) /\ LiveSlot(flag') = target
    BY <1>6 DEF WriteFlag
  <2>2. TypeOK' /\ SaveInv'
    BY <1>6 DEF WriteFlag
  <2>3. IntactInv'
    BY <1>6, <2>1 DEF WriteFlag
  <2> QED BY <2>2, <2>3
<1>7. CASE Reset
  BY <1>7 DEF Reset
<1>8. CASE ResetFlag
  BY <1>8 DEF ResetFlag, FlagByte
<1>9. CASE ResetSlot0
  BY <1>9 DEF ResetSlot0, Content
<1>10. CASE ResetSlot1
  BY <1>10 DEF ResetSlot1, Content, LiveSlot, Slot
<1>11. CASE PowerLoss
  <2>1. TypeOK'
    BY <1>11, PowerLossFacts DEF PowerLoss
  <2>2. SaveInv'
    BY <1>11 DEF PowerLoss
  <2>3. IntactInv'
    <3> SUFFICES ASSUME ~wiped, pc \notin ResetPc PROVE slot'[LiveSlot(flag')] # Torn
      BY <1>11 DEF PowerLoss
    <3>1. CASE pc \in {"idle", "erase_slot", "write_slot"}
      BY <3>1, <1>11, PowerLossFacts DEF SlotUnderWork
    <3>2. CASE pc = "erase_flag"
      BY <3>2, <1>11, PowerLossFacts DEF SlotUnderWork, SaveSlot, Slot, FlagByte, LiveSlot
    <3>3. CASE pc = "write_flag"
      BY <3>3, <1>11, PowerLossFacts DEF SlotUnderWork, LiveSlot, Slot
    <3> QED BY <3>1, <3>2, <3>3, <1>11 DEF PowerLoss
  <2> QED BY <2>1, <2>2, <2>3
<1>12. CASE UNCHANGED vars
  BY <1>12 DEF vars
<1> QED BY <1>1, <1>2, <1>3, <1>4, <1>5, <1>6, <1>7, <1>8, <1>9, <1>10, <1>11, <1>12 DEF Next

\* The invariant holds in every state of every run of the store.
THEOREM FlashInvariant == Spec => []FlashInv
<1>1. Init => FlashInv
  BY FlashParamAssumption DEF Init, FlashInv, TypeOK, SaveInv, IntactInv, Load, LiveSlot,
     Content, FlagByte, Pc, SavePc, ResetPc, Slot
<1> QED BY <1>1, FlashInvStep, PTL DEF Spec

\* iotgoFlashLoadParam never hands the firmware a torn record, whatever the
\* saves and the power losses before it, unless a reset was cut short.
THEOREM BootIntact == Spec => BootReadsIntact
<1>1. FlashInv => [Boot /\ ~wiped => ram' # Torn]_vars
  BY DEF FlashInv, IntactInv, Boot, ResetPc
<1> QED BY <1>1, FlashInvariant, PTL DEF BootReadsIntact

\* A save leaves the live slot alone at every step, and so does a power loss
\* during a save.
THEOREM LiveSlotSafe == Spec => LiveSlotUntouched
<1>1. FlashInv /\ [Next]_vars =>
          [pc \notin ResetPc => slot'[LiveSlot(flag)] = slot[LiveSlot(flag)]]_vars
  <2> SUFFICES ASSUME FlashInv, Next, pc \notin ResetPc
               PROVE  slot'[LiveSlot(flag)] = slot[LiveSlot(flag)]
    OBVIOUS
  <2> USE SaveSlotFacts DEF FlashInv, TypeOK, SaveInv
  <2>1. CASE PowerLoss
    BY <2>1, PowerLossFacts DEF SlotUnderWork, ResetPc
  <2>2. CASE EraseSlot \/ WriteSlot
    BY <2>2 DEF EraseSlot, WriteSlot
  <2>3. CASE Boot \/ EraseFlag \/ WriteFlag \/ Reset \/ \E v \in Value : Save(v)
    BY <2>3 DEF Boot, EraseFlag, WriteFlag, Reset, Save
  <2>4. CASE ResetFlag \/ ResetSlot0 \/ ResetSlot1
    BY <2>4 DEF ResetFlag, ResetSlot0, ResetSlot1, ResetPc
  <2> QED BY <2>1, <2>2, <2>3, <2>4 DEF Next
<1> QED BY <1>1, FlashInvariant, PTL DEF Spec, LiveSlotUntouched

\* Every step of the store is a step of the abstract store or a stutter.
LEMMA RefinementStep ==
    FlashInv /\ FlashInv' /\ [Next]_vars => [Abstract!ANext]_(Abstract!avars)
<1> SUFFICES ASSUME FlashInv, FlashInv', [Next]_vars
             PROVE  [Abstract!ANext]_(Abstract!avars)
  OBVIOUS
<1> DEFINE pend == IF pc \in SavePc \cup ResetPc THEN param ELSE NoValue
           wipe == pc \in ResetPc
<1> USE FlashParamAssumption, SaveSlotFacts
        DEF FlashInv, TypeOK, SaveInv, Load, SavePc, ResetPc
<1>1. CASE Boot
  BY <1>1 DEF Boot, Abstract!PowerOn, Abstract!ANext
<1>2. ASSUME NEW v \in Value, Save(v) PROVE Abstract!BeginSave(v)
  BY <1>2 DEF Save, Abstract!BeginSave
<1>3. CASE EraseSlot
  BY <1>3 DEF EraseSlot, Abstract!avars
<1>4. CASE WriteSlot
  BY <1>4 DEF WriteSlot, Abstract!avars
<1>5. CASE EraseFlag
  <2>1. Load' = Load \/ Load' = param
    BY <1>5 DEF EraseFlag, SaveSlot, LiveSlot, FlagByte, Slot
  <2>2. pend' = pend /\ wipe' = wipe /\ ~wipe /\ pend = param /\ param # NoValue
    BY <1>5 DEF EraseFlag
  <2>3. pc # "off" /\ pc' # "off"
    BY <1>5 DEF EraseFlag
  <2> QED BY <2>1, <2>2, <2>3 DEF Abstract!avars, Abstract!ANext, Abstract!Commit
<1>6. CASE WriteFlag
  <2>1. Load' = param /\ pend = param /\ param # NoValue /\ pend' = NoValue /\ ~wipe /\ ~wipe'
    BY <1>6, WrittenFacts DEF WriteFlag
  <2> QED BY <1>6, <2>1 DEF WriteFlag, Abstract!ANext, Abstract!Return
<1>7. CASE Reset
  BY <1>7 DEF Reset, Abstract!BeginReset, Abstract!ANext
<1>8. CASE ResetFlag \/ ResetSlot0
  BY <1>8 DEF ResetFlag, ResetSlot0, Abstract!Wipe, Abstract!ANext, Abstract!Content, Content
<1>9. CASE ResetSlot1
  BY <1>9 DEF ResetSlot1, Abstract!Wipe, Abstract!ANext, LiveSlot, Slot
<1>11. CASE PowerLoss
  <2>1. pc # "off" /\ pc' = "off" /\ pend' = NoValue /\ wipe' = FALSE
    BY <1>11 DEF PowerLoss
  <2>2. CASE pc = "idle"
    BY <2>1, <2>2, <1>11, PowerLossFacts DEF Abstract!PowerFailure, Abstract!ANext, SlotUnderWork
  <2>3. CASE pc \in {"erase_slot", "write_slot"}
    <3>1. Load' = Load
      BY <2>3, <1>11, PowerLossFacts DEF SlotUnderWork
    <3> QED BY <2>1, <2>3, <3>1 DEF Abstract!PowerFailure, Abstract!ANext
  <2>4. CASE pc \in {"erase_flag", "write_flag"}
    <3>1. Load' = Load \/ Load' = param
      BY <2>4, <1>11, PowerLossFacts DEF SlotUnderWork, SaveSlot, LiveSlot, Slot, FlagByte
    <3> QED BY <2>1, <2>4, <3>1 DEF Abstract!PowerFailure, Abstract!ANext
  <2>5. CASE pc \in ResetPc
    <3>1. Load' \in Content
      OBVIOUS
    <3> QED BY <2>1, <2>5, <3>1 DEF Abstract!PowerFailure, Abstract!ANext, Abstract!Content, Content
  <2> QED BY <2>2, <2>3, <2>4, <2>5, <1>11 DEF PowerLoss, Pc
<1>12. CASE UNCHANGED vars
  BY <1>12 DEF vars, Abstract!avars
<1> QED BY <1>1, <1>2, <1>3, <1>4, <1>5, <1>6, <1>7, <1>8, <1>9, <1>11, <1>12 DEF Next, Abstract!ANext

\* The two-slot store implements the atomic store: a save takes effect at
\* one instant whatever power losses interrupt it, and a save or reset that
\* returned is durable.
THEOREM SaveIsAtomic == Spec => AtomicSave
<1>1. Init => Abstract!AInit
  BY DEF Init, Abstract!AInit, Load, LiveSlot, Slot, SavePc, ResetPc
<1> QED BY <1>1, RefinementStep, FlashInvariant, PTL DEF Spec, AtomicSave, Abstract!ASpec

------------------------------------------------------------------------------
(* Production: FactoryData.                                                *)
\* What a load returns after an operation of a save, or after the power
\* failed: what it returned before, or the record being saved.
LEMMA LoadKept ==
    ASSUME FlashInv, pc \notin ResetPc,
           EraseSlot \/ WriteSlot \/ EraseFlag \/ WriteFlag \/ PowerLoss
    PROVE  \/ Load' = Load
           \/ pc \in {"erase_flag", "write_flag"} /\ param \in Value /\ Load' = param
<1> USE SaveSlotFacts DEF FlashInv, TypeOK, SaveInv, Load, SavePc, ResetPc
<1>1. CASE EraseSlot \/ WriteSlot
  BY <1>1 DEF EraseSlot, WriteSlot
<1>2. CASE EraseFlag
  BY <1>2 DEF EraseFlag, SaveSlot, LiveSlot, FlagByte, Slot
<1>3. CASE WriteFlag
  BY <1>3, WrittenFacts DEF WriteFlag
<1>4. CASE PowerLoss
  <2>1. CASE pc \in {"idle", "erase_slot", "write_slot"}
    BY <2>1, <1>4, PowerLossFacts DEF SlotUnderWork
  <2>2. CASE pc \in {"erase_flag", "write_flag"}
    BY <2>2, <1>4, PowerLossFacts DEF SlotUnderWork, SaveSlot, LiveSlot, Slot, FlagByte
  <2> QED BY <2>1, <2>2, <1>4 DEF PowerLoss, Pc
<1> QED BY <1>1, <1>2, <1>3, <1>4

\* The first record of a device goes to SAVE_0, which a load reads only when
\* the flag is zero: until then the flag stays another byte and a load finds
\* no record.
LEMMA FirstRecord ==
    ASSUME FlashInv, pc \notin ResetPc, flag # "zero", ~Flashed,
           EraseSlot \/ WriteSlot \/ EraseFlag \/ PowerLoss
    PROVE  \/ ~Flashed' /\ flag' # "zero"
           \/ PowerLoss /\ Flashed'
<1> USE SaveSlotFacts DEF FlashInv, TypeOK, SaveInv, Load, SavePc, ResetPc, Flashed
<1>1. CASE EraseSlot \/ WriteSlot
  BY <1>1 DEF EraseSlot, WriteSlot
<1>2. CASE EraseFlag
  BY <1>2 DEF EraseFlag, LiveSlot
<1>3. CASE PowerLoss
  <2>1. CASE pc \in {"idle", "erase_slot", "write_slot"}
    BY <2>1, <1>3, PowerLossFacts DEF SlotUnderWork
  <2>2. CASE pc = "erase_flag"
    BY <2>2, <1>3, PowerLossFacts DEF SlotUnderWork, LiveSlot, PowerLoss, FlagAfterPowerLoss
  <2>3. CASE pc = "write_flag"
    <3>1. flag = "erased" /\ slot[target] \in Value
      BY <2>3
    <3>2. slot' = slot
      BY <2>3, <1>3, PowerLossFacts DEF SlotUnderWork, Slot
    <3>3. flag' = "zero" => target = "SAVE_0"
      BY <2>3, <3>1, <1>3, PowerLossFacts DEF PowerLoss, FlagAfterPowerLoss, WrittenFlag, SaveFlag, Slot
    <3> QED BY <3>1, <3>2, <3>3, <1>3 DEF LiveSlot
  <2> QED BY <2>1, <2>2, <2>3, <1>3 DEF PowerLoss, Pc
<1> QED BY <1>1, <1>2, <1>3

\* One step of the production, of the firmware at work, or one power loss.
LEMMA FactoryInvStep == FactoryInv /\ [FactoryNext]_factoryVars => FactoryInv'
<1> SUFFICES ASSUME FactoryInv, [FactoryNext]_factoryVars PROVE FactoryInv'
  OBVIOUS
<1>0. FlashInv /\ ~wiped /\ pc \notin ResetPc /\ FactoryTypeOK
  BY DEF FactoryInv
<1>1. CASE Starts
  <2>1. FlashInv'
    BY <1>0, <1>1, FlashInvStep DEF Starts, Next
  <2> QED BY <2>1, <1>1 DEF Starts, Boot, FactoryInv, FactoryTypeOK, FactoryBoots, Flashed, Load, Stage, SavePc, ResetPc
<1>2. CASE ProcUART0 \/ RecvDataTimerout \/ NoMemoryForCipher \/ EraseCipher \/ WriteCipher \/ Decipher
  <2>1. UNCHANGED vars
    BY <1>2 DEF ProcUART0, RecvDataTimerout, NoMemoryForCipher, EraseCipher, WriteCipher, Decipher
  <2>2. FlashInv' /\ ~wiped' /\ pc' \notin ResetPc /\ Flashed' = Flashed /\ flag' = flag /\ pc' = pc
    BY <1>0, <2>1, FlashInvStep DEF vars, Flashed, Load
  <2> USE DEF FactoryInv, FactoryTypeOK, FactoryBoots, Stage, SavePc, ResetPc
  <2>3. CASE ProcUART0
    BY <2>2, <2>3 DEF ProcUART0
  <2>4. CASE RecvDataTimerout
    BY <2>2, <2>4 DEF RecvDataTimerout
  <2>5. CASE NoMemoryForCipher
    BY <2>2, <2>5 DEF NoMemoryForCipher
  <2>6. CASE EraseCipher
    BY <2>2, <2>6 DEF EraseCipher
  <2>7. CASE WriteCipher
    BY <2>2, <2>7 DEF WriteCipher
  <2>8. CASE Decipher
    BY <2>2, <2>8 DEF Decipher
  <2> QED BY <1>2, <2>3, <2>4, <2>5, <2>6, <2>7, <2>8
<1>3. ASSUME NEW v \in Value, RecvData(v) PROVE FactoryInv'
  <2>1. CASE Flashed
    <3>1. UNCHANGED vars /\ stage = "data" /\ stage' = "command" /\ UNCHANGED <<cipher, confirmed, interrupted>>
      BY <2>1, <1>3 DEF RecvData
    <3>2. FlashInv' /\ Flashed' = Flashed
      BY <1>0, <3>1, FlashInvStep DEF vars, Flashed, Load
    <3> QED BY <3>1, <3>2 DEF vars, FactoryInv, FactoryTypeOK, FactoryBoots, Stage
  <2>2. CASE ~Flashed
    <3>1. /\ stage' = "store" /\ param' = v /\ target' = SaveSlot(flag) /\ pc' = "erase_slot"
          /\ UNCHANGED <<slot, flag, ram, wiped, cipher, confirmed, interrupted>>
      BY <2>2, <1>3 DEF RecvData
    <3>2. FlashInv'
      BY <1>0, <3>1, SaveSlotFacts DEF FlashInv, TypeOK, SaveInv, IntactInv, Load, SavePc, ResetPc, Pc
    <3> QED BY <3>1, <3>2, <2>2 DEF FactoryInv, FactoryTypeOK, FactoryBoots, Flashed, Load, Stage, SavePc, ResetPc
  <2> QED BY <2>1, <2>2
<1>4. CASE StoreOperation
  <2>1. FlashInv'
    BY <1>0, <1>4, FlashInvStep DEF StoreOperation, Next
  <2>2. ~wiped' /\ pc' \notin ResetPc /\ pc \in SavePc /\ pc' \in SavePc \cup {"idle"}
    BY <1>0, <1>4 DEF StoreOperation, EraseSlot, WriteSlot, EraseFlag, WriteFlag, SavePc, ResetPc
  <2>3. Flashed => Flashed'
    BY <1>0, <1>4, LoadKept DEF StoreOperation, Flashed
  <2>4. UNCHANGED <<cipher, confirmed, interrupted>> /\ stage \in {"store", "work"}
    BY <1>4 DEF StoreOperation
  <2>5. CASE WriteFlag
    <3>1. Flashed' /\ pc = "write_flag" /\ pc' = "idle"
      BY <2>5, <1>0, SaveSlotFacts, WrittenFacts
         DEF WriteFlag, Flashed, FlashInv, TypeOK, SaveInv, Load, SavePc, ResetPc
    <3>2. stage' = IF stage = "store" THEN "cipher_erase" ELSE stage
      BY <3>1, <1>4 DEF StoreOperation
    <3> QED BY <3>1, <3>2, <2>1, <2>2, <2>4 DEF FactoryInv, FactoryTypeOK, FactoryBoots, Stage, SavePc, ResetPc
  <2>6. CASE EraseSlot \/ WriteSlot \/ EraseFlag
    <3>1. pc # "write_flag" /\ pc' \in SavePc /\ stage' = stage
      BY <2>6, <1>4 DEF StoreOperation, EraseSlot, WriteSlot, EraseFlag, SavePc
    <3>2. ~Flashed => ~Flashed' /\ flag' # "zero"
      BY <2>6, <1>0, FirstRecord DEF FactoryInv, EraseSlot, WriteSlot, EraseFlag, PowerLoss
    <3>3. ~Flashed' => flag' # "zero"
      BY <3>2, <2>3
    <3> QED BY <3>1, <3>2, <3>3, <2>1, <2>2, <2>3, <2>4
            DEF FactoryInv, FactoryTypeOK, FactoryBoots, Stage, SavePc, ResetPc
  <2> QED BY <2>5, <2>6, <1>4 DEF StoreOperation
<1>5. ASSUME NEW v \in Value, WorkSave(v) PROVE FactoryInv'
  <2>1. FlashInv'
    BY <1>0, <1>5, FlashInvStep DEF WorkSave, Next
  <2> QED BY <2>1, <1>5 DEF WorkSave, Save, FactoryInv, FactoryTypeOK, FactoryBoots, Flashed, Load, Stage, SavePc, ResetPc
<1>6. CASE FactoryPowerLoss
  <2>1. FlashInv'
    BY <1>0, <1>6, FlashInvStep DEF FactoryPowerLoss, Next
  <2>2. ~wiped' /\ pc' = "off" /\ pc' \notin ResetPc /\ pc # "off" /\ stage' = "off" /\ stage # "off" /\ confirmed' = confirmed
    BY <1>0, <1>6 DEF FactoryPowerLoss, PowerLoss, FactoryInv, ResetPc
  <2>3. Flashed => Flashed'
    BY <1>0, <1>6, LoadKept DEF FactoryPowerLoss, Flashed
  <2>4. ~Flashed' => flag' # "zero"
    <3> SUFFICES ASSUME ~Flashed' PROVE flag' # "zero"
      OBVIOUS
    <3>1. ~Flashed /\ flag # "zero"
      BY <2>3 DEF FactoryInv
    <3> QED BY <3>1, <1>0, <1>6, FirstRecord DEF FactoryPowerLoss
  <2>5. cipher' \in {"blank", "torn", "good"} /\ interrupted' \in BOOLEAN
    BY <1>0, <1>6 DEF FactoryPowerLoss, FactoryTypeOK
  <2>6. stage \notin {"cipher_erase", "cipher_write"} => cipher' = cipher
    BY <1>6 DEF FactoryPowerLoss
  <2>7. confirmed => Flashed' /\ cipher' = "good"
    BY <2>3, <2>6 DEF FactoryInv, FactoryBoots
  <2>8. Flashed' => cipher' = "good" \/ interrupted'
    <3>1. CASE stage \in {"store", "cipher_erase", "cipher_write"}
      BY <3>1, <1>6 DEF FactoryPowerLoss
    <3>2. CASE stage \in {"work", "check"}
      BY <3>2, <2>6 DEF FactoryInv
    <3>3. CASE stage \in {"command", "data", "halted"}
      <4>1. pc \notin {"erase_flag", "write_flag"}
        BY <3>3 DEF FactoryInv, SavePc
      <4>2. Flashed' = Flashed
        BY <4>1, <1>0, <1>6, LoadKept DEF FactoryPowerLoss, Flashed
      <4>3. interrupted => interrupted'
        BY <1>6 DEF FactoryPowerLoss
      <4> QED BY <4>2, <4>3, <3>3, <2>6 DEF FactoryInv
    <3> QED BY <3>1, <3>2, <3>3, <1>0, <2>2 DEF FactoryTypeOK, Stage
  <2> QED BY <2>1, <2>2, <2>4, <2>5, <2>7, <2>8, <1>0
          DEF FactoryInv, FactoryTypeOK, FactoryBoots, Stage, SavePc, ResetPc
<1>7. CASE UNCHANGED factoryVars
  <2>1. FlashInv'
    BY <1>0, <1>7, FlashInvStep DEF factoryVars
  <2> QED BY <2>1, <1>7 DEF factoryVars, vars, FactoryInv, FactoryTypeOK, FactoryBoots, Flashed, Load
<1> QED BY <1>1, <1>2, <1>3, <1>4, <1>5, <1>6, <1>7 DEF FactoryNext

\* A device that the production line was told is good starts to work ever
\* after, and a device that halts was interrupted before that.
THEOREM ConfirmedBoots == FactorySpec => []FactoryBoots
<1>1. FactoryInit => FactoryInv
  <2> SUFFICES ASSUME FactoryInit PROVE FactoryInv
    OBVIOUS
  <2>1. FlashInv
    BY FlashParamAssumption DEF FactoryInit, Init, FlashInv, TypeOK, SaveInv, IntactInv, Load, LiveSlot,
       Content, FlagByte, Pc, SavePc, ResetPc, Slot
  <2> QED BY <2>1, FlashParamAssumption DEF FactoryInit, Init, FactoryInv, FactoryTypeOK, FactoryBoots, Flashed,
             Load, LiveSlot, Slot, Stage, SavePc, ResetPc
<1>2. FactoryInv => FactoryBoots
  BY DEF FactoryInv
<1> QED BY <1>1, <1>2, FactoryInvStep, PTL DEF FactorySpec
==============================================================================
