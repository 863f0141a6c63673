----------------------------- MODULE FactoryData ------------------------------
(***************************************************************************)
(* The production line's way of giving a device its identity               *)
(* (iotgo_factory.c), over the parameter store of FlashParam: the record   *)
(* with the magic number is saved, then the sector that ties the flash to  *)
(* the chip is written and read back, and the line gets its OK.  A device  *)
(* whose record has the magic number starts to work, or halts for good if  *)
(* that sector does not match (user_main.c); one without the number waits  *)
(* for the production line.                                                *)
(***************************************************************************)
EXTENDS FlashParam

VARIABLES
    stage,      \* what the firmware does
    cipher,     \* the cipher sector: "blank", "torn" or "good"
    confirmed,  \* the line got the digest and its OK
    interrupted \* history: the power failed, or memory ran out, between the
                \* magic number and the end of the cipher sector

factoryVars == <<vars, stage, cipher, confirmed, interrupted>>

\* The serial exchange, the flash operations of recvData, and the two ends.
Stage == {"off", "command", "data", "store", "cipher_erase", "cipher_write", "check", "work", "halted"}

FactoryTypeOK ==
    /\ stage \in Stage /\ cipher \in {"blank", "torn", "good"}
    /\ confirmed \in BOOLEAN /\ interrupted \in BOOLEAN

FactoryInit ==
    /\ Init
    /\ stage = "off" /\ cipher = "blank" /\ confirmed = FALSE /\ interrupted = FALSE

\* The magic number is in the record that a load returns.
Flashed == Load \in Value

\* user_init.
Starts ==
    /\ Boot
    /\ stage' = IF ~Flashed THEN "command" ELSE IF cipher = "good" THEN "work" ELSE "halted"
    /\ UNCHANGED <<cipher, confirmed, interrupted>>

\* procUART0: AT+SEND with a length.
ProcUART0 ==
    /\ stage = "command" /\ stage' = "data"
    /\ UNCHANGED <<vars, cipher, confirmed, interrupted>>

\* recvDataTimerout, and recvData with data that lack a field.
RecvDataTimerout ==
    /\ stage = "data" /\ stage' = "command"
    /\ UNCHANGED <<vars, cipher, confirmed, interrupted>>

\* recvData: a second record is refused, the first one is saved from a local
\* buffer.
RecvData(v) ==
    /\ stage = "data"
    /\ IF Flashed
       THEN stage' = "command" /\ UNCHANGED vars
       ELSE /\ stage' = "store"
            /\ param' = v /\ target' = SaveSlot(flag) /\ pc' = "erase_slot"
            /\ UNCHANGED <<slot, flag, ram, wiped>>
    /\ UNCHANGED <<cipher, confirmed, interrupted>>

\* iotgoFlashSaveParam, from recvData or from the firmware at work.
StoreOperation ==
    /\ stage \in {"store", "work"}
    /\ EraseSlot \/ WriteSlot \/ EraseFlag \/ WriteFlag
    /\ stage' = IF stage = "store" /\ pc = "write_flag" THEN "cipher_erase" ELSE stage
    /\ UNCHANGED <<cipher, confirmed, interrupted>>

\* A mutant: the OK is sent if the cipher was stored or is in flash.
NoMemoryForCipherConfirmed ==
    /\ stage = "cipher_erase" /\ stage' = "command"
    /\ confirmed' = TRUE /\ interrupted' = TRUE
    /\ UNCHANGED <<vars, cipher>>

\* iotgoFlashCipher without memory: "IO ERROR".
NoMemoryForCipher ==
    /\ stage = "cipher_erase" /\ stage' = "command"
    /\ interrupted' = TRUE
    /\ UNCHANGED <<vars, cipher, confirmed>>

\* userStoreIoTgoFlashCipher.
EraseCipher ==
    /\ stage = "cipher_erase" /\ stage' = "cipher_write"
    /\ cipher' = "blank"
    /\ UNCHANGED <<vars, confirmed, interrupted>>

WriteCipher ==
    /\ stage = "cipher_write" /\ stage' = "check"
    /\ cipher' = IF cipher = "blank" THEN "good" ELSE "torn"
    /\ UNCHANGED <<vars, confirmed, interrupted>>

\* iotgoFlashDecipher and the answer to the line.
Decipher ==
    /\ stage = "check" /\ stage' = "command"
    /\ confirmed' \in IF cipher = "good" THEN BOOLEAN ELSE {FALSE}
    /\ UNCHANGED <<vars, cipher, interrupted>>

\* The firmware at work saves its parameters.
WorkSave(v) ==
    /\ stage = "work" /\ Save(v)
    /\ UNCHANGED <<stage, cipher, confirmed, interrupted>>

FactoryPowerLoss ==
    /\ PowerLoss
    /\ stage' = "off"
    /\ cipher' \in CASE stage = "cipher_erase" -> {cipher, "torn", "blank"}
                     [] stage = "cipher_write" -> {cipher, "torn", "good"}
                     [] OTHER -> {cipher}
    /\ interrupted' = (interrupted \/ (stage \in {"store", "cipher_erase", "cipher_write"} /\ Flashed'))
    /\ UNCHANGED confirmed

FactoryNext ==
    \/ Starts \/ ProcUART0 \/ RecvDataTimerout \/ \E v \in Value : RecvData(v)
    \/ StoreOperation \/ NoMemoryForCipher \/ EraseCipher \/ WriteCipher \/ Decipher
    \/ \E v \in Value : WorkSave(v)
    \/ FactoryPowerLoss

FactorySpec == FactoryInit /\ [][FactoryNext]_factoryVars

------------------------------------------------------------------------------
(* A device for which the production line got its OK has its record and    *)
(* its cipher sector, whatever saves and power failures follow; and the    *)
(* device that halts in every start and refuses a new record is only the   *)
(* one that was interrupted between the magic number and the end of the    *)
(* cipher sector, before the OK.                                           *)
FactoryBoots ==
    /\ confirmed => Flashed /\ cipher = "good"
    /\ stage = "halted" => interrupted /\ ~confirmed

(* The inductive invariant: a record is without a good cipher sector only  *)
(* while recvData is at work on it or after it was interrupted.            *)
FactoryInv ==
    /\ FactoryTypeOK
    /\ FlashInv /\ ~wiped /\ pc \notin ResetPc
    /\ FactoryBoots
    /\ Flashed => \/ cipher = "good" \/ interrupted
                  \/ stage \in {"cipher_erase", "cipher_write"}
    /\ ~Flashed => flag # "zero"
    /\ stage = "off" <=> pc = "off"
    /\ stage = "store" => pc \in SavePc /\ ~confirmed /\ ~Flashed
    /\ stage \in {"cipher_erase", "cipher_write"} => pc = "idle" /\ Flashed /\ ~confirmed
    /\ stage = "cipher_write" => cipher = "blank"
    /\ stage = "check" => Flashed /\ cipher = "good"
    /\ pc \in SavePc => stage \in {"store", "work"}
    /\ stage = "work" => Flashed /\ cipher = "good"
==============================================================================
