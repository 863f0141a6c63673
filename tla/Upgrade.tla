------------------------------- MODULE Upgrade -------------------------------
(***************************************************************************)
(* The firmware upgrade of iotgo_upgrade.c with the events of the core     *)
(* task that drive it.  The device runs one of two images in flash; an     *)
(* upgrade downloads a newer one sector by sector into the place of the    *)
(* other, checks its digest, records it, and three seconds later, or when  *)
(* the server asks for it, restarts into it.                               *)
(*                                                                         *)
(* An image is its version; a sector holds a numbered part of an image, or *)
(* Junk.  A digest matches exactly if every sector holds its own part.     *)
(* Using memory that an earlier exit has freed ends in an exception, which *)
(* resets the device (Reset): everything but the flash is lost.            *)
(***************************************************************************)
EXTENDS Integers, Sequences

CONSTANTS
    Latest,     \* images have the versions 0 (running at first) to Latest
    Size,       \* sectors of an image
    SectorLen,  \* SPI_FLASH_SEC_SIZE: the most that a package may hold
    LastLen,    \* what of its last sector the image fills
    Tries,      \* the connection is given up at this loss (the code: 4)
    MaxBacklog, \* bound: timers and callbacks run while fewer events wait
    OneAtATime, \* TRUE: the server awaits the end of an upgrade or a restart
                \* before its next request
    Junk,       \* content of a sector that is part of no image, or such an image
    None        \* no image

ASSUME UpgradeAssumption ==
    /\ Latest \in Nat \ {0} /\ Size \in Nat \ {0}
    /\ MaxBacklog \in Nat \ {0} /\ Tries \in Nat \ {0}
    /\ SectorLen \in Nat \ {0} /\ LastLen \in 1..SectorLen
    /\ OneAtATime \in BOOLEAN
    /\ None \notin 0..Latest /\ Junk \notin 0..Latest

VARIABLES
    running,    \* version of the running image
    sector,     \* flash: the place of the other image
    new_bin,    \* flash: iotgo_flash_param.new_bin_info; None: not for this place
    info,       \* iotgo_upgrade_info: the image to download, or None
    auto,       \* iotgo_upgrade_info->auto_restart
    buffers,    \* upgrade_spro and the two buffers are allocated
    flag,       \* upgrade_started_flag
    file,       \* [started, length, downloaded, counter]: started and upgrade_file;
                \* history: short, a package was shorter than its sector
    index,      \* flash_sector_index
    tries,      \* connect_server_again_counter
    conn,       \* upgrade_dl_conn
    asked,      \* ranges asked for on it and not answered yet
    old,        \* an earlier connection was abandoned before its end was reported
    stray,      \* ranges asked for on that one
    events,     \* the core task's event queue
    timers      \* the armed timers

flashVars == <<running, sector, new_bin>>
infoVars == <<info, auto>>
loadVars == <<buffers, flag, file, index, tries>>
connVars == <<conn, asked, old, stray>>
vars == <<flashVars, infoVars, loadVars, connVars, events, timers>>

Version == 0..Latest
Part == Version \X (0..Size - 1)
Asked == Version \X (0..Size)           \* a range: of sector k, or behind the image
Length == (Size - 1) * SectorLen + LastLen           \* of an image
Files == [started : BOOLEAN, length : {-1, 0, Length}, downloaded : 0..Length + 1,
          counter : 0..Size, short : BOOLEAN]
Code == {"OK", "DOWNLOAD", "DIGEST"}
Event == {"ENTER", "GET", "AGAIN"} \cup Code        \* a code: UPGRADE_EXIT with it
Timer == {"enter", "progress", "again", "reboot", "restart"}

TypeOK ==
    /\ running \in Version \cup {Junk}
    /\ sector \in [0..Size - 1 -> Part \cup {Junk}]
    /\ new_bin \in Version \cup {None}
    /\ info \in Version \cup {None}
    /\ {auto, buffers, flag, old} \subseteq BOOLEAN
    /\ file \in Files
    /\ index \in 0..Size /\ tries \in 0..Tries
    /\ conn \in {"none", "connecting", "up", "closing"}
    /\ asked \in Seq(Asked) /\ stray \subseteq Asked
    /\ events \in Seq(Event) /\ Len(events) <= MaxBacklog
    /\ timers \subseteq Timer

------------------------------------------------------------------------------
Image(v) == [k \in 0..Size - 1 |-> <<v, k>>]
NoFile == [started |-> FALSE, length |-> 0, downloaded |-> 0, counter |-> 0, short |-> FALSE]

\* The counts are followed up to the first value behind the image.
Sum(m, n, top) == IF m + n < top THEN m + n ELSE top
Capped(n, top) == Sum(n, 1, top)

\* verifyFlashData, iotgoUpgradeVerifyFlashData: the digest of the sectors.
Holds(v) == sector = Image(v)

\* verifyFirmwareVersion
Newer(v) == running # Junk /\ v > running

\* iotgoUpgradeVerifyNewBin
NewBinOk == new_bin # None /\ Newer(new_bin) /\ Holds(new_bin)

Take(e) == events # <<>> /\ Head(events) = e
Post(q, e) == events' = Append(q, e)
NoPost(q) == events' = q
Timers(disarm, arm) == timers' = (timers \ disarm) \cup arm

\* What a reset leaves of the RAM.
PowerOn ==
    /\ info' = None /\ auto' = FALSE
    /\ buffers' = FALSE /\ flag' = FALSE /\ file' = NoFile /\ index' = 0 /\ tries' = 0
    /\ conn' = "none" /\ asked' = <<>> /\ old' = FALSE /\ stray' = {}
    /\ events' = <<>> /\ timers' = {}

Reset == PowerOn /\ UNCHANGED flashVars

Init ==
    /\ running = 0 /\ sector = [k \in 0..Size - 1 |-> Junk] /\ new_bin = None
    /\ info = None /\ auto = FALSE
    /\ buffers = FALSE /\ flag = FALSE /\ file = NoFile /\ index = 0 /\ tries = 0
    /\ conn = "none" /\ asked = <<>> /\ old = FALSE /\ stray = {}
    /\ events = <<>> /\ timers = {}

------------------------------------------------------------------------------
\* Requests of the server, which arrive on the session with it.
Idle == info = None /\ events = <<>> /\ timers \cap {"reboot", "restart"} = {}

\* iotgoUpgradeProcessRequest: whatever is going on, a request for a newer
\* image replaces the information on the one before.
ProcessRequest(v, a) ==
    /\ OneAtATime => Idle
    /\ Newer(v)
    /\ info' = v /\ auto' = a
    /\ Timers({}, {"enter"})
    /\ UNCHANGED <<flashVars, loadVars, connVars, events>>

\* iotgoUpgradeRestartForNewBin
RestartForNewBin ==
    /\ OneAtATime => Idle
    /\ NewBinOk
    /\ Timers({}, {"restart"})
    /\ UNCHANGED <<flashVars, infoVars, loadVars, connVars, events>>

\* cbUpgradeEnterTimer, 50 ms after the request.
EnterTimer ==
    /\ "enter" \in timers
    /\ Timers({"enter"}, {})
    /\ Post(events, "ENTER")
    /\ UNCHANGED <<flashVars, infoVars, loadVars, connVars>>

------------------------------------------------------------------------------
\* connectToDownloadServer clears upgrade_dl_conn, whatever it was used for.
ConnectToDownloadServer ==
    /\ conn' = "connecting"
    /\ old' = (old \/ conn # "none")
    /\ stray' = stray \cup {asked[n] : n \in 1..Len(asked)}
    /\ asked' = <<>>

\* iotgoUpgradeStart; flash_sector_index is left as it is.
Start ==
    /\ Take("ENTER") /\ info # None
    /\ buffers' = TRUE /\ flag' = TRUE /\ file' = NoFile /\ tries' = 0
    /\ ConnectToDownloadServer
    /\ Timers({}, {"progress"})
    /\ NoPost(Tail(events))
    /\ UNCHANGED <<flashVars, infoVars, index>>

\* connectUpgradeServerAgain
AgainTimer ==
    /\ "again" \in timers /\ info # None
    /\ ConnectToDownloadServer
    /\ Timers({"again"}, {})
    /\ UNCHANGED <<flashVars, infoVars, loadVars, events>>

\* upgradeDownloadTCPConnectedCallback
Connected ==
    /\ conn = "connecting"
    /\ conn' = "up"
    /\ Post(events, "GET")
    /\ UNCHANGED <<flashVars, infoVars, loadVars, asked, old, stray, timers>>

\* upgradeDnsFoundCallback, establishTCP, upgradeDownloadTCPReconCallback and
\* upgradeDownloadTCPDisconCallback: no connection, or no more.
Disconnected ==
    /\ \/ conn # "none" /\ conn' = "none" /\ asked' = <<>> /\ UNCHANGED <<old, stray>>
       \/ old /\ old' = FALSE /\ stray' = {} /\ UNCHANGED <<conn, asked>>
    /\ Post(events, "AGAIN")
    /\ UNCHANGED <<flashVars, infoVars, loadVars, timers>>

\* iotgoUpgradeReconnect
Reconnect ==
    /\ Take("AGAIN")
    /\ IF ~flag
       THEN NoPost(Tail(events)) /\ UNCHANGED <<tries, timers>>
       ELSE /\ tries' = Capped(tries, Tries)
            /\ IF tries' < Tries
               THEN NoPost(Tail(events)) /\ Timers({}, {"again"})
               ELSE Post(Tail(events), "DOWNLOAD") /\ UNCHANGED timers
    /\ UNCHANGED <<flashVars, infoVars, buffers, flag, file, index, connVars>>

------------------------------------------------------------------------------
\* iotgoUpgradeDownload: ask for the range of the next sector, which is empty
\* or wrong behind the image.
Download ==
    /\ Take("GET") /\ buffers
    /\ IF conn = "up"
       THEN asked' = Append(asked, <<info, file.counter>>) /\ NoPost(Tail(events))
       ELSE UNCHANGED asked /\ Post(Tail(events), "AGAIN")
    /\ UNCHANGED <<flashVars, infoVars, loadVars, conn, old, stray, timers>>

\* An answer arrives, on this connection or on an abandoned one.
Answered(r) ==
    \/ /\ conn \in {"up", "closing"} /\ asked # <<>> /\ r = Head(asked)
       /\ asked' = Tail(asked) /\ UNCHANGED stray
    \/ /\ old /\ r \in stray
       /\ stray' = stray \ {r} /\ UNCHANGED asked

\* What a package with n bytes adds to the counts: one sector to the index
\* and the counter, n bytes to the length.
Counted(n) ==
    /\ index' = Capped(index, Size)
    /\ file' = [started |-> TRUE, length |-> Length,
                downloaded |-> Sum(file.downloaded, n, Length + 1),
                counter |-> Capped(file.counter, Size),
                short |-> file.short \/ n < (IF index = Size - 1 THEN LastLen ELSE SectorLen)]

\* Mutant: a complete file is taken for a good one.
StoreUnverified(part, n) ==
    /\ file.started => file.length = Length
    /\ sector' = IF index < Size THEN [sector EXCEPT ![index] = part] ELSE sector
    /\ Counted(n)
    /\ Post(events, IF file'.downloaded < Length THEN "GET" ELSE "OK")

\* storeUpgradeDataToFlash: the sector is written after the one before; when
\* as many bytes have come as the file is long, the digest is checked.
Store(part, n) ==
    /\ file.started => file.length = Length
    /\ sector' = IF index < Size THEN [sector EXCEPT ![index] = part] ELSE sector
    /\ Counted(n)
    /\ Post(events, IF file'.downloaded < Length THEN "GET"
                    ELSE IF sector' = Image(info) THEN "OK" ELSE "DIGEST")

\* upgradeTCPSproOnePkgCb with a 206 of any Content-Length up to a sector,
\* which a server has only for a range that begins within the image.  A sector
\* that the package does not fill is filled up with ones, so that even a short
\* answer may leave the right content, and any may leave Junk.
SectorPackage ==
    /\ buffers
    /\ \E r \in Asked, n \in 0..SectorLen :
           /\ Answered(r) /\ r[2] < Size
           /\ \E part \in {r, Junk} : Store(part, n)
    /\ UNCHANGED <<running, new_bin, infoVars, buffers, flag, tries, conn, old, timers>>

\* The sector could not be written.
FlashError ==
    /\ buffers /\ \E r \in Asked : Answered(r) /\ r[2] < Size
    /\ file.started => file.length = Length
    /\ sector' = IF index < Size THEN [sector EXCEPT ![index] = Junk] ELSE sector
    /\ file' = [file EXCEPT !.started = TRUE, !.length = Length]
    /\ Post(events, "DOWNLOAD")
    /\ UNCHANGED <<running, new_bin, infoVars, buffers, flag, index, tries, conn, old, timers>>

\* No 206, a 206 without a Content-Length or with one over a sector, or an
\* answer that Spro has given up waiting for, which alone does not begin a
\* file.  Without a Content-Range the file is -1 long; one that is too long
\* is not started.
ErrorPackage ==
    /\ buffers /\ \E r \in Asked : Answered(r)
    /\ \/ UNCHANGED file
       \/ /\ ~file.started
          /\ \E s \in BOOLEAN, l \in {-1, Length} :
                 (~s => l = -1) /\ file' = [file EXCEPT !.started = s, !.length = l]
    /\ Post(events, "DOWNLOAD")
    /\ UNCHANGED <<flashVars, infoVars, buffers, flag, index, tries, conn, old, timers>>

\* A sector of a file -1 long: the loop of verifyFlashData does not end, and
\* the watchdog resets the device.
EndlessVerify ==
    /\ buffers /\ \E r \in Asked : Answered(r) /\ r[2] < Size
    /\ file.started => file.length = -1
    /\ Reset

\* upgrade_spro is NULL.
IgnoredPackage ==
    /\ ~buffers /\ \E r \in Asked : Answered(r)
    /\ UNCHANGED <<flashVars, infoVars, loadVars, conn, old, events, timers>>

------------------------------------------------------------------------------
\* Mutant: there is no timeout.
ProgressTimerOff ==
    /\ "progress" \in timers
    /\ file.downloaded = file.length
    /\ Timers({"progress"}, {})
    /\ UNCHANGED <<events, flashVars, infoVars, loadVars, connVars>>

\* cbUpgradeTimer, every second.  It stops itself when the file is complete,
\* or, as both lengths are 0 then, when the first sector took more than a
\* second to come.  After 180 seconds it ends the upgrade.
ProgressTimer ==
    /\ "progress" \in timers
    /\ IF file.downloaded = file.length
       THEN Timers({"progress"}, {}) /\ NoPost(events)
       ELSE UNCHANGED timers /\ Post(events, "DOWNLOAD")
    /\ UNCHANGED <<flashVars, infoVars, loadVars, connVars>>

\* Mutant: the position in flash is not reset.
StopKeepsIndex(code) ==
    /\ Take(code) /\ info # None
    /\ new_bin' = IF code = "OK" THEN info ELSE new_bin
    /\ Timers({"again", "progress"}, IF code = "OK" /\ auto THEN {"reboot"} ELSE {})
    /\ conn' = IF conn = "up" THEN "closing" ELSE conn
    /\ info' = None /\ auto' = FALSE
    /\ buffers' = FALSE /\ flag' = FALSE /\ file' = NoFile /\ tries' = 0
    /\ NoPost(Tail(events))
    /\ UNCHANGED <<running, sector, index, asked, old, stray>>

\* iotgoUpgradeStop; iotgoFlashSaveParam is atomic (FlashParam).
Stop(code) ==
    /\ Take(code) /\ info # None
    /\ new_bin' = IF code = "OK" THEN info ELSE new_bin
    /\ Timers({"again", "progress"}, IF code = "OK" /\ auto THEN {"reboot"} ELSE {})
    /\ conn' = IF conn = "up" THEN "closing" ELSE conn
    /\ info' = None /\ auto' = FALSE
    /\ buffers' = FALSE /\ flag' = FALSE /\ file' = NoFile /\ index' = 0 /\ tries' = 0
    /\ NoPost(Tail(events))
    /\ UNCHANGED <<running, sector, asked, old, stray>>

\* An event is handled after the exit that freed what it needs.
NullPointer ==
    /\ \/ info = None /\ \E e \in {"ENTER"} \cup Code : Take(e)
       \/ ~buffers /\ Take("GET")
    /\ Reset

\* cbUpgradeExit0Timer, cbRestartForNewBinTimer: iotgoRestartForNewBin.  The
\* device runs the other image, whatever its place holds.
Reboot ==
    /\ timers \cap {"reboot", "restart"} # {}
    /\ running' = IF \E v \in Version : Holds(v) THEN sector[0][1] ELSE Junk
    /\ sector' = Image(running)
    /\ new_bin' = None
    /\ PowerOn

\* The power fails, perhaps while a sector is being written.
PowerLoss ==
    /\ \/ UNCHANGED sector
       \/ asked # <<>> /\ index < Size /\ sector' = [sector EXCEPT ![index] = Junk]
    /\ PowerOn
    /\ UNCHANGED <<running, new_bin>>

------------------------------------------------------------------------------
CoreTask ==
    \/ Start \/ Reconnect \/ Download \/ NullPointer
    \/ \E code \in Code : Stop(code)

Outside ==
    \/ \E v \in Version, a \in BOOLEAN : ProcessRequest(v, a)
    \/ RestartForNewBin \/ EnterTimer \/ AgainTimer \/ ProgressTimer
    \/ Connected \/ Disconnected
    \/ SectorPackage \/ FlashError \/ ErrorPackage \/ EndlessVerify \/ IgnoredPackage
    \/ Reboot \/ PowerLoss

Next == CoreTask \/ (Len(events) < MaxBacklog /\ Outside)

Spec == Init /\ [][Next]_vars

\* The core task handles its events and an armed timer fires.  The bound on
\* waiting events may disable the timer for a while; the code has no such bound.
FairSpec == Spec /\ WF_vars(CoreTask) /\ SF_vars(Len(events) < MaxBacklog /\ ProgressTimer)

------------------------------------------------------------------------------
(* The device only ever restarts into a complete image that is newer than  *)
(* the one it runs: the digest that was checked before still holds when    *)
(* the restart comes, three seconds later.                                 *)
BootsVerified == [][running' # running => running' # Junk /\ running' > running]_vars

(* What new_bin_info records for a later restart is the image that is in   *)
(* flash.                                                                  *)
RecordsWhatIsThere == [][new_bin' # new_bin /\ new_bin' # None => Holds(new_bin')]_vars

(* One upgrade after the other, the position in flash, the range asked for *)
(* and the bytes that came keep together, though Start and Stop reset them *)
(* in different places: the next package is written to the sector of the   *)
(* next range, the digest is not checked before the last sector of the     *)
(* image was written, and is then, unless a package was shorter than its   *)
(* sector: after such a package the download goes on behind the image (and *)
(* every variable has its type).                                           *)
IndexFollows ==
    /\ TypeOK
    /\ OneAtATime =>
        /\ index = file.counter
        /\ file.downloaded >= Length => index >= Size
        /\ ~file.short => IF index < Size THEN file.downloaded = index * SectorLen
                                          ELSE file.downloaded >= Length

(* From its first sector on, an upgrade whose progress timer runs ends,    *)
(* even if the server falls silent.                                        *)
TimeoutBites == (flag /\ "progress" \in timers /\ file.length # 0) ~> ~flag

==============================================================================
