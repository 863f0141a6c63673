----------------------------- MODULE AtomicStore -----------------------------
(***************************************************************************)
(* What a caller may rely on when it keeps a record in the two-sector      *)
(* flash store of the firmware (iotgoFlashSaveParam, devSaveConfigToFlash, *)
(* timerSaveToFlash): a save takes effect at one instant, or, if the power *)
(* fails, possibly not at all.  A factory reset of the store (the erase of *)
(* all its sectors followed by a save of the defaults) gives no promise    *)
(* while it runs, but a reset that runs to its end leaves the defaults.    *)
(***************************************************************************)
CONSTANTS
    Value,      \* the records callers may save
    Blank,      \* what an erased sector reads back as
    Torn,       \* what a half erased or half written sector reads back as
    Default,    \* the record a reset of the store saves
    NoValue     \* "no save is in progress"

VARIABLES
    up,         \* TRUE while the device is powered
    stored,     \* what a load would return now
    pending,    \* the record being saved, or NoValue
    wiping      \* TRUE while a reset erases the store

avars == <<up, stored, pending, wiping>>

Content == Value \cup {Blank, Torn}

AInit == up = FALSE /\ stored = Blank /\ pending = NoValue /\ wiping = FALSE

PowerOn ==
    /\ ~up
    /\ up' = TRUE
    /\ UNCHANGED <<stored, pending, wiping>>

BeginSave(v) ==
    /\ up /\ pending = NoValue
    /\ pending' = v
    /\ UNCHANGED <<up, stored, wiping>>

BeginReset ==
    /\ up /\ pending = NoValue
    /\ pending' = Default
    /\ wiping' = TRUE
    /\ UNCHANGED <<up, stored>>

Wipe ==
    /\ wiping
    /\ \/ stored' \in Content /\ wiping' = TRUE
       \/ stored' = Blank /\ wiping' = FALSE
    /\ UNCHANGED <<up, pending>>

\* The save takes effect before it returns ...
Commit ==
    /\ pending # NoValue /\ ~wiping
    /\ stored' = pending
    /\ UNCHANGED <<up, pending, wiping>>

\* ... or, at the latest, in the step in which it returns.
Return ==
    /\ pending # NoValue /\ ~wiping
    /\ stored' = pending
    /\ pending' = NoValue
    /\ UNCHANGED <<up, wiping>>

PowerFailure ==
    /\ up
    /\ up' = FALSE
    /\ \/ stored' = stored
       \/ pending # NoValue /\ ~wiping /\ stored' = pending
       \/ wiping /\ stored' \in Content
    /\ pending' = NoValue
    /\ wiping' = FALSE

ANext ==
    \/ PowerOn
    \/ \E v \in Value : BeginSave(v)
    \/ BeginReset
    \/ Wipe
    \/ Commit
    \/ Return
    \/ PowerFailure

ASpec == AInit /\ [][ANext]_avars
==============================================================================
