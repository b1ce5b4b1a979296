-------------------------------- MODULE Wlan --------------------------------
(* The wireless module of src/uart/mi/mi_wlan.c: the status that its calls   *)
(* check and set, the shell scripts they run, and the detector thread that   *)
(* MI_WLAN_Detector starts, which every MI_WLAN_SCAN_INTERVAL seconds reads   *)
(* the state of the link from a file in /tmp and takes the address away from *)
(* the interface or asks for one.  MI_WLAN_GetStatus writes and reads that   *)
(* same file from the caller's thread.  The locks that LOCK_ENTER takes are  *)
(* empty functions in this build (NOUSING is not defined), so every call is  *)
(* interleaved with the detectors at each shell command.                     *)
(*                                                                           *)
(* _bAPMode and _bAPClient are never set to TRUE, and _bCustomerDevice, which *)
(* DeInit clears, is set again by every Connect, so that it is TRUE whenever *)
(* a connection is made or ended: the branches for an AP client and for a    *)
(* device that is not the customer's are dead and are left out.               *)
EXTENDS Naturals

CONSTANTS
    Modules,      \* the values of MI_WLAN_Module_e a caller passes
    Scripted,     \* those _MI_WLAN_Init has a script for
    Detectors,    \* the detector threads that may be started
    MaxFds        \* descriptors the process may still open

Caller == "caller"

ASSUME WlanAssumption == Caller \notin Detectors

(* MI_WLAN_Status_e: the calls compare the numbers. *)
EMPTY == 0
INITED == 1
OPENED == 2
CONNECTING == 4
CONNECTED == 5

(* wpa_state in the report of wpa_cli; "" is the text of an empty file. *)
Links == {"DISCONNECTED", "SCANNING", "COMPLETED"}

VARIABLES
    status,      \* _eWLanStatus
    link,        \* the state the supplicant is in
    address,     \* has the interface an address?
    file,        \* /tmp/wlan_status.txt
    pc,          \* the next step of the caller and of each detector
    wpa,         \* status.wpa_state of each detector, kept from round to round
    cancelled,   \* the detectors whose cancellation is pending
    latest,      \* detector_thread: the one started last
    fds,         \* descriptors left open
    calm,        \* detectors in whose round nobody else interfered so far
    station      \* the script run last, those of the access point not counted

vars == <<status, link, address, file, pc, wpa, cancelled, latest,
          fds, calm, station>>

net == <<link, address>>
threads == <<wpa, cancelled, latest>>

Threads == Detectors \cup {Caller}

Init ==
    /\ status = EMPTY
    /\ link = "DISCONNECTED" /\ address = FALSE /\ file = ""
    /\ pc = [t \in Threads |-> IF t = Caller THEN "idle" ELSE "unborn"]
    /\ wpa = [d \in Detectors |-> ""]
    /\ cancelled = {} /\ latest = {} /\ fds = 0 /\ calm = {}
    /\ station = "none"

Goto(t, step) == pc' = [pc EXCEPT ![t] = step]

(* The caller makes a call that runs to its end without a wait. *)
AtOnce ==
    /\ pc[Caller] = "idle"
    /\ UNCHANGED <<pc, file, threads>>

-----------------------------------------------------------------------------
(* The checks that a call begins with; one that fails ends it. *)
IsEmpty == status = EMPTY
IsInited == status = INITED
IsOpened == status >= OPENED

(* CHECK_HANDLE refuses MI_HANDLE_NULL and every handle that differs from    *)
(* _hWLanHandle, which is MI_HANDLE_NULL: it refuses them all.               *)
HandleHolds == FALSE

SetStatus(s) == status' = s

(* The scripts of MI_WLAN_Connect, by the type of the network; for a type it  *)
(* does not know, the name of the script is never written and may be any.     *)
Joining == {"Connect", "ConnectAP", "unknown"}

(* Those of MI_WLAN_StartAP and MI_WLAN_CloseAP. *)
AccessPoint == {"softap", "closeSoftAP"}

(* mi_sys_LaunchSystemCmd; most callers do not look at its result.  (The      *)
(* scripts getStatus.sh and getWlanChip.sh report and change nothing.)        *)
Runs(s) == station' = IF s \in AccessPoint THEN station ELSE s

(* _MI_WLAN_Init fails for a module it has no script for; otherwise it runs   *)
(* the script and does not look at its result.                                *)
RunInitScript == Runs("Init") /\ SetStatus(INITED)

InitOf(m) ==
    IF m \in Scripted THEN RunInitScript ELSE UNCHANGED <<status, station>>

InitModule(m) ==
    /\ AtOnce
    /\ IF IsEmpty THEN InitOf(m) ELSE UNCHANGED <<status, station>>
    /\ UNCHANGED <<net, fds, calm>>

(* _eModule is never set, so that the script is looked for where the          *)
(* customer's would be, in /, or, from the second time on, where an array      *)
(* that was never written says.                                               *)
RunDeInitScript == Runs("DeInit") /\ SetStatus(EMPTY)

DeInitModule ==
    /\ AtOnce
    /\ IF IsInited THEN RunDeInitScript ELSE UNCHANGED <<status, station>>
    /\ UNCHANGED <<net, fds, calm>>

(* The call that would give the caller a handle is commented out, so          *)
(* _hWLanHandle stays MI_HANDLE_NULL.                                         *)
OpenHandle == IF IsOpened THEN UNCHANGED status ELSE SetStatus(OPENED)

OpenModule ==
    /\ AtOnce
    /\ IF IsInited THEN OpenHandle ELSE UNCHANGED status
    /\ UNCHANGED <<net, fds, calm, station>>

CloseModule ==
    /\ AtOnce
    /\ IF IsOpened /\ HandleHolds THEN SetStatus(INITED) ELSE UNCHANGED status
    /\ UNCHANGED <<net, fds, calm, station>>

(* What MI_WLAN_GetAttr tells about the connection. *)
GetAttrConnected == IsOpened /\ status = CONNECTED

-----------------------------------------------------------------------------
(* MI_WLAN_Connect sets the status before CHECK_OPENED looks at it, so that  *)
(* the check always passes; without parameters it returns and leaves it so.   *)
ConnectBegin ==
    /\ pc[Caller] = "idle"
    /\ SetStatus(CONNECTING)
    /\ \/ UNCHANGED pc
       \/ Goto(Caller, "script")
    /\ UNCHANGED <<net, file, threads, fds, calm, station>>

Connected == SetStatus(CONNECTED) /\ Goto(Caller, "idle")

(* The script succeeds or not; _MI_WLAN_Connect returns TRUE either way, but *)
(* asks for an address only after a script that succeeded.  For an access     *)
(* point it first calls ifconfig and udhcpd with an interface and a path that *)
(* are never filled in, to no effect on wlan0.                                 *)
ConnectScript ==
    /\ pc[Caller] = "script"
    /\ \E s \in Joining : Runs(s)
    /\ \/ Connected /\ UNCHANGED <<link, calm>>
       \/ /\ Goto(Caller, "lease")
          /\ link' \in Links
          /\ calm' = IF link' = link THEN calm ELSE {}
          /\ UNCHANGED status
    /\ UNCHANGED <<address, file, threads, fds>>

(* udhcpc keeps asking until it has a lease, which takes a complete link; or *)
(* it cannot run, which nobody looks at.                                      *)
ConnectLease ==
    /\ pc[Caller] = "lease"
    /\ \/ link = "COMPLETED" /\ address' = TRUE
       \/ UNCHANGED address
    /\ Connected
    /\ UNCHANGED <<link, file, threads, fds, calm, station>>

(* The script ends the connection, or fails to. *)
EndConnection ==
    /\ Runs("Disconnect")
    /\ link' \in {link, "DISCONNECTED"}
    /\ calm' = IF link' = link THEN calm ELSE {}

(* What might go wrong: MI_WLAN_Disconnect leaves the status as it is. *)
DisconnectKeepsStatus ==
    /\ AtOnce
    /\ IF status < CONNECTED THEN UNCHANGED <<link, calm, station>> ELSE EndConnection
    /\ UNCHANGED <<address, fds, status>>

Disconnect ==
    /\ AtOnce
    /\ IF status < CONNECTED
       THEN UNCHANGED <<status, link, calm, station>>
       ELSE EndConnection /\ SetStatus(OPENED)
    /\ UNCHANGED <<address, fds>>

(* A script of the access point takes the interface over, or fails to; the   *)
(* status is left as it is.                                                    *)
APScript(s) ==
    /\ Runs(s)
    /\ link' \in {link, "DISCONNECTED"}
    /\ address' \in BOOLEAN
    /\ calm' = IF UNCHANGED net THEN calm ELSE {}

(* MI_WLAN_StartAP leaves the descriptor of hostapd.conf open, whether the     *)
(* file could be written or not; without it there is no access point.         *)
StartAP ==
    /\ AtOnce
    /\ \/ fds = MaxFds /\ UNCHANGED <<net, fds, calm, station>>
       \/ /\ fds < MaxFds /\ fds' = fds + 1
          /\ APScript("softap") \/ UNCHANGED <<net, calm, station>>
    /\ UNCHANGED status

CloseAP ==
    /\ AtOnce
    /\ APScript("closeSoftAP")
    /\ UNCHANGED <<status, fds>>

-----------------------------------------------------------------------------
(* _MI_WLAN_GetStatus, by the caller or by a detector whose sleep is over:   *)
(* the shell empties the file, wpa_cli writes its report into it or fails,    *)
(* which nobody looks at, and the function reads it back.                      *)
Ask(t) ==
    /\ pc[t] \in {"idle", "sleep"}
    /\ file' = ""
    /\ Goto(t, "report")
    /\ calm' = {t} \cap Detectors
    /\ UNCHANGED <<status, net, threads, fds, station>>

Report(t) ==
    /\ pc[t] = "report"
    /\ \/ file' = link /\ UNCHANGED calm
       \/ UNCHANGED file /\ calm' = calm \ {t}
    /\ Goto(t, "read")
    /\ UNCHANGED <<status, net, threads, fds, station>>

(* What the caller reads goes into its own structure. *)
GetStatusEnd ==
    /\ pc[Caller] = "read"
    /\ Goto(Caller, "idle")
    /\ UNCHANGED <<status, net, file, threads, fds, calm, station>>

(* A line that is not in the file leaves the field of the structure as it    *)
(* was; so does a file that cannot be opened.                                 *)
Known(d) == IF file = "" \/ fds = MaxFds THEN wpa[d] ELSE file

Detect(d) ==
    /\ pc[d] = "read"
    /\ wpa' = [wpa EXCEPT ![d] = Known(d)]
    /\ Goto(d, IF Known(d) \in {"SCANNING", "COMPLETED"} THEN "look" ELSE "sleep")
    /\ calm' = IF fds = MaxFds THEN calm \ {d} ELSE calm
    /\ UNCHANGED <<status, net, file, cancelled, latest, fds, station>>

(* What might go wrong: an address is taken away whatever the link is. *)
RemedySwapped(d, seen) ==
    CASE seen -> "flush"
      [] wpa[d] = "COMPLETED" /\ ~seen -> "lease"
      [] OTHER -> "sleep"

(* What _MI_WLAN_Detector_Thread does about an address that it has seen or   *)
(* not seen.                                                                  *)
Remedy(d, seen) ==
    CASE wpa[d] = "SCANNING" /\ seen -> "flush"
      [] wpa[d] = "COMPLETED" /\ ~seen -> "lease"
      [] OTHER -> "sleep"

Ended(d) == Goto(d, "ended") /\ wpa' = [wpa EXCEPT ![d] = ""]

(* The pipe to ifconfig is opened in each round and never closed; when no    *)
(* more can be opened the thread returns.  An ifconfig that fails shows no     *)
(* address.                                                                    *)
Look(d) ==
    /\ pc[d] = "look"
    /\ \/ fds = MaxFds /\ Ended(d) /\ UNCHANGED <<fds, calm>>
       \/ /\ fds < MaxFds /\ fds' = fds + 1
          /\ \/ Goto(d, Remedy(d, address)) /\ UNCHANGED calm
             \/ Goto(d, Remedy(d, FALSE)) /\ calm' = calm \ {d}
          /\ UNCHANGED wpa
    /\ UNCHANGED <<status, net, file, cancelled, latest, station>>

(* Either command may fail, and nobody looks. *)
Flush(d) ==
    /\ pc[d] = "flush"
    /\ \/ address' = FALSE /\ calm' = calm \cap {d}
       \/ UNCHANGED address /\ calm' = calm \ {d}
    /\ Goto(d, "sleep")
    /\ UNCHANGED <<status, link, file, threads, fds, station>>

Lease(d) ==
    /\ pc[d] = "lease"
    /\ \/ link = "COMPLETED" /\ address' = TRUE /\ UNCHANGED calm
       \/ UNCHANGED address /\ calm' = calm \ {d}
    /\ Goto(d, "sleep")
    /\ UNCHANGED <<status, link, file, threads, fds, station>>

(* MI_WLAN_Detector: the identifier of an earlier thread is overwritten. *)
StartDetector(d) ==
    /\ pc[Caller] = "idle"
    /\ pc[d] = "unborn"
    /\ Goto(d, "sleep")
    /\ latest' = {d}
    /\ UNCHANGED <<status, net, file, wpa, cancelled, fds, calm, station>>

(* MI_WLAN_Close_Detector_Thread cancels the thread that was started last;    *)
(* before any was, it would be called with an identifier that was never set.   *)
CloseDetector ==
    /\ pc[Caller] = "idle"
    /\ latest # {}
    /\ cancelled' = cancelled \cup {d \in latest : pc[d] # "ended"}
    /\ UNCHANGED <<status, net, file, pc, wpa, latest, fds, calm, station>>

(* A pending cancellation ends the thread wherever it waits: for a command,  *)
(* for a file or asleep.                                                      *)
Cancelled(d) ==
    /\ d \in cancelled
    /\ Ended(d)
    /\ cancelled' = cancelled \ {d}
    /\ calm' = calm \ {d}
    /\ UNCHANGED <<status, net, file, latest, fds, station>>

(* The supplicant finds, joins and loses networks on its own. *)
LinkChanges ==
    /\ link' \in Links \ {link}
    /\ calm' = {}
    /\ UNCHANGED <<status, address, file, pc, threads, fds, station>>

-----------------------------------------------------------------------------
Call ==
    \/ \E m \in Modules : InitModule(m)
    \/ DeInitModule \/ OpenModule \/ CloseModule
    \/ ConnectBegin \/ ConnectScript \/ ConnectLease \/ Disconnect
    \/ StartAP \/ CloseAP \/ GetStatusEnd \/ CloseDetector

Watch(d) ==
    \/ StartDetector(d) \/ Cancelled(d)
    \/ Detect(d) \/ Look(d) \/ Flush(d) \/ Lease(d)

Next ==
    \/ Call
    \/ \E t \in Threads : Ask(t) \/ Report(t)
    \/ \E d \in Detectors : Watch(d)
    \/ LinkChanges

Spec == Init /\ [][Next]_vars

-----------------------------------------------------------------------------
(* A round of the detector in which the link did not change, none of its      *)
(* commands failed, nobody else emptied the file and nobody else took the      *)
(* address away has put the interface right when it goes to sleep: an address  *)
(* on a complete link, none while the supplicant scans (mi_wlan.c:1826-1867).  *)
(* (Otherwise the round may flush an address that has just been leased, and    *)
(* only a later round makes up for it.)                                        *)
RoundSettles ==
    \A d \in calm :
        pc[d] = "sleep" =>
            /\ link = "COMPLETED" => address
            /\ link = "SCANNING" => ~address

(* The status that GetAttr reports as connected is that of the scripts: no     *)
(* call is under way, and the last script run, those of the access point not   *)
(* counted, was one that joins a network.  (They leave the status alone,       *)
(* mi_wlan.c:1679-1735, so that CONNECTED outlives the connection that         *)
(* softap.sh ends.)                                                            *)
ConnectedAfterScript ==
    GetAttrConnected =>
        station \in Joining /\ pc[Caller] \notin {"script", "lease"}

=============================================================================
