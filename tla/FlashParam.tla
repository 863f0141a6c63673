----------------------------- MODULE FlashParam ------------------------------
(***************************************************************************)
(* The two-slot flash store of iotgo_flash.c (the parameters of the        *)
(* device) and iotgo_global.c (the configuration of the device type).      *)
(* Three flash sectors: two slots and a flag that says which one is live.  *)
(* A save writes the slot that is not live and then rewrites the flag.     *)
(* Every erase and every write is a step of its own, and the power may     *)
(* fail during any of them, leaving the sector it worked on in any of the  *)
(* states a partial erase or a partial write can leave.                    *)
(***************************************************************************)
CONSTANTS
    Value,      \* the records callers save
    Default,    \* the record switchInitDeviceConfig saves
    Blank,      \* content of an erased slot
    Torn,       \* content of a slot whose erase or write was interrupted
    NoValue     \* no buffer handed to a save

ASSUME FlashParamAssumption ==
    /\ Default \in Value
    /\ Blank \notin Value /\ Torn \notin Value /\ Blank # Torn
    /\ NoValue \notin Value /\ NoValue # Blank /\ NoValue # Torn

VARIABLES
    slot,       \* the sectors SAVE_0 and SAVE_1
    flag,       \* the first byte of the sector FLAG
    pc,         \* the next flash operation of the running save or reset
    target,     \* the slot the running save writes
    param,      \* the buffer the running save was given
    ram,        \* the copy of the record the firmware works with
    wiped       \* history: a reset was cut short and no save has ended since

vars == <<slot, flag, pc, target, param, ram, wiped>>

Slot == {"SAVE_0", "SAVE_1"}
Content == Value \cup {Blank, Torn}

\* The code only ever tests flag == 0.  "partial" is any other non-zero byte
\* that an interrupted erase or write of the flag sector can leave.
FlagByte == {"zero", "one", "partial", "erased"}

SavePc == {"erase_slot", "write_slot", "erase_flag", "write_flag"}
ResetPc == {"reset_flag", "reset_0", "reset_1"}
Pc == {"off", "idle"} \cup SavePc \cup ResetPc

TypeOK ==
    /\ slot \in [Slot -> Content]
    /\ flag \in FlagByte
    /\ pc \in Pc
    /\ target \in Slot
    /\ param \in Value \cup {NoValue}
    /\ ram \in Content \cup {NoValue}
    /\ wiped \in BOOLEAN

------------------------------------------------------------------------------
\* The slot a load reads.
LiveSlot(f) == IF f = "zero" THEN "SAVE_0" ELSE "SAVE_1"

SaveSlotIsLive(f) == IF f = "zero" THEN "SAVE_0" ELSE "SAVE_1"      \* mutant

\* The slot a save writes, and the flag it then writes.
SaveSlot(f) == IF f = "zero" THEN "SAVE_1" ELSE "SAVE_0"
SaveFlag(s) == IF s = "SAVE_1" THEN "one" ELSE "zero"

Load == slot[LiveSlot(flag)]

\* NOR flash: a write only clears bits, so it is exact on an erased sector
\* and unspecified on any other.
WrittenSlot(old, new) == IF old = Blank THEN {new} ELSE {Torn}
WrittenFlag(old, new) == IF old = "erased" THEN {new} ELSE FlagByte \ {"erased"}

Init ==
    /\ slot = [s \in Slot |-> Blank]
    /\ flag = "erased"
    /\ pc = "off"
    /\ target = "SAVE_0"
    /\ param = NoValue
    /\ ram = NoValue
    /\ wiped = FALSE

\* user_init: the firmware starts and loads its copy.
Boot ==
    /\ pc = "off"
    /\ pc' = "idle"
    /\ ram' = Load
    /\ UNCHANGED <<slot, flag, target, param, wiped>>

\* A caller changes the working copy and saves it.
Save(v) ==
    /\ pc = "idle"
    /\ ram' = v
    /\ param' = v
    /\ target' = SaveSlot(flag)
    /\ pc' = "erase_slot"
    /\ UNCHANGED <<slot, flag, wiped>>

\* Mutant: the sector is written without being erased.
EraseSlotSkipped ==
    /\ pc = "erase_slot"
    /\ pc' = "write_slot"
    /\ UNCHANGED <<slot, flag, target, param, ram, wiped>>

EraseSlot ==
    /\ pc = "erase_slot"
    /\ slot' = [slot EXCEPT ![target] = Blank]
    /\ pc' = "write_slot"
    /\ UNCHANGED <<flag, target, param, ram, wiped>>

WriteSlot ==
    /\ pc = "write_slot"
    /\ \E c \in WrittenSlot(slot[target], param) : slot' = [slot EXCEPT ![target] = c]
    /\ pc' = "erase_flag"
    /\ UNCHANGED <<flag, target, param, ram, wiped>>

\* Mutant: the flag is rewritten without being erased.
EraseFlagSkipped ==
    /\ pc = "erase_flag"
    /\ pc' = "write_flag"
    /\ UNCHANGED <<slot, flag, target, param, ram, wiped>>

EraseFlag ==
    /\ pc = "erase_flag"
    /\ flag' = "erased"
    /\ pc' = "write_flag"
    /\ UNCHANGED <<slot, target, param, ram, wiped>>

WriteFlag ==
    /\ pc = "write_flag"
    /\ flag' \in WrittenFlag(flag, SaveFlag(target))
    /\ pc' = "idle"
    /\ param' = NoValue
    /\ wiped' = FALSE
    /\ UNCHANGED <<slot, target, ram>>

\* switchInitDeviceConfig: erase the three sectors, then save the defaults
\* from a local buffer (the working copy is not touched).
Reset ==
    /\ pc = "idle"
    /\ pc' = "reset_flag"
    /\ param' = Default
    /\ UNCHANGED <<slot, flag, target, ram, wiped>>

ResetFlag ==
    /\ pc = "reset_flag"
    /\ flag' = "erased"
    /\ pc' = "reset_0"
    /\ UNCHANGED <<slot, target, param, ram, wiped>>

ResetSlot0 ==
    /\ pc = "reset_0"
    /\ slot' = [slot EXCEPT !["SAVE_0"] = Blank]
    /\ pc' = "reset_1"
    /\ UNCHANGED <<flag, target, param, ram, wiped>>

ResetSlot1 ==
    /\ pc = "reset_1"
    /\ slot' = [slot EXCEPT !["SAVE_1"] = Blank]
    /\ target' = SaveSlot(flag)
    /\ pc' = "erase_slot"
    /\ UNCHANGED <<flag, param, ram, wiped>>

------------------------------------------------------------------------------
\* What the interrupted operation leaves.  An interrupted write of the flag
\* 0x01 cannot clear bit 0, and one of 0x00 that has not cleared every bit
\* is still non-zero: both are "partial".
SlotUnderWork ==
    {s \in Slot : \/ pc \in {"erase_slot", "write_slot"} /\ s = target
                  \/ pc = "reset_0" /\ s = "SAVE_0"
                  \/ pc = "reset_1" /\ s = "SAVE_1"}

FlagAfterPowerLoss ==
    {flag} \cup
    (IF pc \in {"erase_flag", "reset_flag"} THEN {"partial", "erased"} ELSE {}) \cup
    (IF pc = "write_flag" THEN {"partial"} \cup WrittenFlag(flag, SaveFlag(target)) ELSE {})

SlotAfterPowerLoss(s) ==
    IF s \notin SlotUnderWork THEN {slot[s]}
    ELSE {slot[s], Torn} \cup
         (IF pc = "write_slot" THEN WrittenSlot(slot[s], param) ELSE {Blank})

PowerLoss ==
    /\ pc # "off"
    /\ \E a \in SlotAfterPowerLoss("SAVE_0"), b \in SlotAfterPowerLoss("SAVE_1") :
           slot' = [s \in Slot |-> IF s = "SAVE_0" THEN a ELSE b]
    /\ flag' \in FlagAfterPowerLoss
    /\ pc' = "off"
    /\ param' = NoValue
    /\ ram' = NoValue
    /\ wiped' = (wiped \/ pc \in ResetPc)
    /\ UNCHANGED target

Next ==
    \/ Boot
    \/ \E v \in Value : Save(v)
    \/ EraseSlot \/ WriteSlot \/ EraseFlag \/ WriteFlag
    \/ Reset \/ ResetFlag \/ ResetSlot0 \/ ResetSlot1
    \/ PowerLoss

Spec == Init /\ [][Next]_vars

------------------------------------------------------------------------------
(* The working copy is never read from a slot whose erase or write was cut *)
(* short: iotgoFlashLoadParam after any sequence of saves and power losses *)
(* returns a record some caller saved, or the blank of a device that never *)
(* completed a save.  The exception is a reset that the power cut short:   *)
(* until the next save ends, what it left is not covered.                  *)
BootReadsIntact == [][Boot /\ ~wiped => ram' # Torn]_vars

(* A save never erases, writes or, if the power fails, damages the slot a  *)
(* load would read at that moment; only a reset touches the live slot.     *)
LiveSlotUntouched ==
    [][pc \notin ResetPc => slot'[LiveSlot(flag)] = slot[LiveSlot(flag)]]_vars

(* The store implements AtomicStore: what a load would return changes from *)
(* the old record to the new one in one step of the save, power failures   *)
(* included, and a finished save or reset is durable.                      *)
Abstract == INSTANCE AtomicStore WITH
    up      <- pc # "off",
    stored  <- Load,
    pending <- IF pc \in SavePc \cup ResetPc THEN param ELSE NoValue,
    wiping  <- pc \in ResetPc

AtomicSave == Abstract!ASpec

(* The inductive invariant behind the three: while a save runs, its buffer *)
(* is a record, its slot is not the live one until the flag is rewritten,  *)
(* and each operation finds its sector as the one before it left it.       *)
SaveInv ==
    /\ pc \in SavePc \cup ResetPc => param \in Value
    /\ pc \in {"erase_slot", "write_slot", "erase_flag"} => target = SaveSlot(flag)
    /\ pc = "write_slot" => slot[target] = Blank
    /\ pc \in {"erase_flag", "write_flag"} => slot[target] = param
    /\ pc \in {"write_flag", "reset_0", "reset_1"} => flag = "erased"

(* The live slot is torn only during a reset, or after one was cut short.  *)
IntactInv == ~wiped /\ pc \notin ResetPc => Load # Torn

FlashInv == TypeOK /\ SaveInv /\ IntactInv

==============================================================================
