----------------------------- MODULE WlanProofs -----------------------------
(* The status of the wireless module and the rounds of its detectors, for any *)
(* number of detectors, modules and descriptors.                              *)
EXTENDS Wlan, TLAPS

Types ==
    /\ status \in {EMPTY, INITED, OPENED, CONNECTING, CONNECTED}
    /\ link \in Links
    /\ address \in BOOLEAN
    /\ pc \in [Threads -> {"unborn", "idle", "script", "lease", "report", "read",
                           "sleep", "look", "flush", "ended"}]
    /\ wpa \in [Detectors -> Links \cup {""}]
    /\ file \in Links \cup {""}
    /\ calm \subseteq Detectors

(* The right remedy is what a detector is about to take: in a round nobody    *)
(* came between, what it knows of the link is so, and the address is still    *)
(* what its look at it has shown.                                              *)
Knows(d) ==
    /\ pc[d] # "unborn"
    /\ pc[d] = "read" => file = link
    /\ pc[d] \in {"look", "flush", "lease"} => wpa[d] = link
    /\ pc[d] = "flush" => link = "SCANNING"
    /\ pc[d] = "lease" => link = "COMPLETED"

(* What the address is when it has taken it.                                  *)
Settled(d) ==
    pc[d] = "sleep" =>
        /\ link = "COMPLETED" => address
        /\ link = "SCANNING" => ~address

Right(d) == Knows(d) /\ Settled(d)

Rounds == \A d \in calm : Right(d)

(* Between the script and the lease the status is no longer that of before.   *)
Calls ==
    /\ pc[Caller] \in {"idle", "script", "lease", "report", "read"}
    /\ pc[Caller] \in {"script", "lease"} => status = CONNECTING
    /\ pc[Caller] = "lease" => station \in Joining
    /\ status = CONNECTED => station \in Joining

WlanInv == Types /\ Rounds /\ Calls

-----------------------------------------------------------------------------
(* No step of the program is without a type.                                  *)
LEMMA TypesStep == Types /\ [Next]_vars => Types'
<1> SUFFICES ASSUME Types, [Next]_vars PROVE Types'
  OBVIOUS
<1> USE DEF Types, Goto, net, threads, EMPTY, INITED, OPENED, CONNECTING, CONNECTED, Threads
<1>1. ASSUME NEW m \in Modules, InitModule(m) PROVE Types'
  BY <1>1 DEF InitModule, InitOf, RunInitScript, Runs, SetStatus, AtOnce
<1>2. CASE DeInitModule \/ OpenModule \/ CloseModule
  BY <1>2 DEF DeInitModule, RunDeInitScript, Runs, SetStatus, OpenModule, OpenHandle, CloseModule,
              HandleHolds, AtOnce
<1>3. CASE ConnectBegin \/ ConnectScript \/ ConnectLease
  BY <1>3 DEF ConnectBegin, ConnectScript, ConnectLease, Connected, SetStatus, Runs
<1>4. CASE Disconnect \/ StartAP \/ CloseAP \/ GetStatusEnd \/ CloseDetector
  BY <1>4 DEF Disconnect, EndConnection, SetStatus, Runs, StartAP, CloseAP, APScript, GetStatusEnd,
              CloseDetector, AtOnce, Links
<1>5. ASSUME NEW t \in Threads, Ask(t) \/ Report(t) PROVE Types'
  BY <1>5 DEF Ask, Report
<1>6. ASSUME NEW d \in Detectors, StartDetector(d) \/ Cancelled(d) PROVE Types'
  BY <1>6 DEF StartDetector, Cancelled, Ended
<1>7. ASSUME NEW d \in Detectors, Detect(d) \/ Look(d) PROVE Types'
  <2>1. CASE Detect(d)
    BY <2>1 DEF Detect, Known
  <2>2. CASE Look(d)
    BY <2>2 DEF Look, Remedy, Ended
  <2> QED BY <1>7, <2>1, <2>2
<1>8. ASSUME NEW d \in Detectors, Flush(d) \/ Lease(d) PROVE Types'
  BY <1>8 DEF Flush, Lease
<1>9. CASE LinkChanges
  BY <1>9 DEF LinkChanges
<1>10. CASE UNCHANGED vars
  BY <1>10 DEF vars
<1> QED
  BY <1>1, <1>2, <1>3, <1>4, <1>5, <1>6, <1>7, <1>8, <1>9, <1>10 DEF Next, Call, Watch

(* Where a thread stands after a step of its own or of another.               *)
LEMMA Gone ==
    ASSUME Types, NEW u \in Threads, NEW t, NEW step, Goto(t, step)
    PROVE  pc'[u] = IF t = u THEN step ELSE pc[u]
BY DEF Types, Goto

(* The detectors' rounds.  A change of the link begins no round and ends the  *)
(* calm of all; so does a new round, as it empties the file, and a flush.      *)
LEMMA RoundsStep ==
    ASSUME Types, Rounds, [Next]_vars
    PROVE  Rounds'
<1> SUFFICES ASSUME NEW d \in calm' PROVE Right(d)'
  BY DEF Rounds
<1>d. d \in Detectors /\ d \in Threads /\ d # Caller
  BY TypesStep, WlanAssumption DEF Types, Threads
<1>c. d \in calm => Right(d)
  BY DEF Rounds
<1>g. \A t, step : Goto(t, step) => pc'[d] = IF t = d THEN step ELSE pc[d]
  BY <1>d, Gone
<1>w. \A e \in Detectors : \A x : wpa' = [wpa EXCEPT ![e] = x] =>
                                 wpa'[d] = IF e = d THEN x ELSE wpa[d]
  BY <1>d DEF Types
<1>s. ASSUME UNCHANGED <<link, address, file, wpa>>, pc'[d] = pc[d], d \in calm
      PROVE  Right(d)'
  BY <1>s, <1>c DEF Right, Settled, Knows
<1>1. CASE \E m \in Modules : InitModule(m)
  BY <1>1, <1>s DEF InitModule, AtOnce, net, threads
<1>2. CASE DeInitModule \/ OpenModule \/ CloseModule
  BY <1>2, <1>s DEF DeInitModule, OpenModule, CloseModule, AtOnce, net, threads
<1>3. CASE ConnectBegin \/ ConnectScript
  <2>1. pc'[d] = pc[d]
    BY <1>3, <1>g, <1>d DEF ConnectBegin, ConnectScript, Connected
  <2> QED BY <1>3, <2>1, <1>s DEF ConnectBegin, ConnectScript, net, threads
<1>4. CASE ConnectLease
  BY <1>4, <1>g, <1>d, <1>c DEF ConnectLease, Connected, Right, Settled, Knows, threads
<1>5. CASE Disconnect \/ StartAP \/ CloseAP \/ GetStatusEnd \/ CloseDetector
  <2>1. pc'[d] = pc[d]
    BY <1>5, <1>g, <1>d DEF Disconnect, StartAP, CloseAP, GetStatusEnd, CloseDetector, AtOnce
  <2> QED BY <1>5, <2>1, <1>s DEF Disconnect, EndConnection, StartAP, CloseAP, APScript,
                                  GetStatusEnd, CloseDetector, AtOnce, net, threads
<1>6. ASSUME NEW t \in Threads, Ask(t) PROVE Right(d)'
  <2>1. t = d /\ pc'[d] = "report"
    BY <1>6, <1>g, <1>d DEF Ask
  <2> QED BY <2>1 DEF Right, Settled, Knows
<1>7. ASSUME NEW t \in Threads, Report(t) PROVE Right(d)'
  BY <1>7, <1>g, <1>c DEF Report, Right, Settled, Knows, net, threads
<1>8. ASSUME NEW e \in Detectors, StartDetector(e) PROVE Right(d)'
  BY <1>8, <1>g, <1>c, <1>s DEF StartDetector, Right, Settled, Knows, net
<1>9. ASSUME NEW e \in Detectors, Cancelled(e) PROVE Right(d)'
  BY <1>9, <1>g, <1>w, <1>c DEF Cancelled, Ended, Right, Settled, Knows, net
<1>10. ASSUME NEW e \in Detectors, Detect(e) PROVE Right(d)'
  <2>1. link \in Links
    BY DEF Types
  <2>2. CASE e = d
    <3>1. d \in calm /\ pc[d] = "read" /\ file = link /\ Known(d) = link
      BY <1>10, <2>1, <2>2, <1>c DEF Detect, Known, Right, Knows, Links
    <3>2. /\ wpa'[d] = link /\ UNCHANGED <<link, address>>
          /\ pc'[d] = IF link \in {"SCANNING", "COMPLETED"} THEN "look" ELSE "sleep"
      BY <1>10, <2>2, <3>1, <1>g, <1>w DEF Detect, net
    <3> QED BY <3>1, <3>2 DEF Right, Settled, Knows
  <2>3. CASE e # d
    BY <1>10, <2>3, <1>g, <1>w, <1>c DEF Detect, Right, Settled, Knows, net
  <2> QED BY <2>2, <2>3
<1>11. ASSUME NEW e \in Detectors, Look(e) PROVE Right(d)'
  <2>1. CASE e = d
    <3>1. CASE Ended(d)
      <4>1. pc'[d] = "ended"
        BY <2>1, <3>1, <1>g DEF Ended
      <4> QED BY <4>1 DEF Right, Settled, Knows
    <3>2. CASE Goto(d, Remedy(d, address)) /\ UNCHANGED <<calm, wpa>>
      <4>1. /\ pc'[d] = Remedy(d, address) /\ pc[d] = "look" /\ wpa[d] = link
            /\ UNCHANGED <<link, address, file, wpa>>
        BY <1>11, <2>1, <3>2, <1>g, <1>c DEF Look, Right, Settled, Knows, net
      <4>2. Remedy(d, address) = IF link = "SCANNING" /\ address THEN "flush"
                        ELSE IF link = "COMPLETED" /\ ~address THEN "lease" ELSE "sleep"
        BY <4>1 DEF Remedy
      <4> QED BY <4>1, <4>2 DEF Right, Settled, Knows
    <3>3. calm' # calm \ {d}
      OBVIOUS
    <3> QED BY <1>11, <2>1, <3>1, <3>2, <3>3 DEF Look
  <2>2. CASE e # d
    BY <1>11, <2>2, <1>g, <1>w, <1>c DEF Look, Ended, Right, Settled, Knows, net
  <2> QED BY <2>1, <2>2
<1>12. ASSUME NEW e \in Detectors, Flush(e) \/ Lease(e) PROVE Right(d)'
  BY <1>12, <1>g, <1>c DEF Flush, Lease, Right, Settled, Knows, threads
<1>13. CASE LinkChanges
  BY <1>13 DEF LinkChanges
<1>14. CASE UNCHANGED vars
  BY <1>14, <1>s DEF vars
<1> QED
  BY <1>1, <1>2, <1>3, <1>4, <1>5, <1>6, <1>7, <1>8, <1>9, <1>10, <1>11, <1>12, <1>13, <1>14
     DEF Next, Call, Watch

(* The caller makes one call at a time, and only it runs scripts and sets the *)
(* status; the detectors do neither.                                          *)
LEMMA CallsStep ==
    ASSUME Types, Calls, [Next]_vars
    PROVE  Calls'
<1>g. \A t, step : Goto(t, step) => pc'[Caller] = IF t = Caller THEN step ELSE pc[Caller]
  BY Gone DEF Threads
<1>d. \A d \in Detectors : d # Caller
  BY WlanAssumption
<1> USE <1>g, <1>d DEF Calls, EMPTY, INITED, OPENED, CONNECTING, CONNECTED
<1>1. ASSUME NEW m \in Modules, InitModule(m) PROVE Calls'
  BY <1>1 DEF InitModule, InitOf, RunInitScript, Runs, SetStatus, AtOnce
<1>2. CASE DeInitModule \/ OpenModule \/ CloseModule
  BY <1>2 DEF DeInitModule, RunDeInitScript, Runs, SetStatus, OpenModule, OpenHandle, CloseModule,
              HandleHolds, AtOnce
<1>3. CASE ConnectBegin \/ ConnectScript \/ ConnectLease
  <2>1. CASE ConnectBegin
    BY <2>1 DEF ConnectBegin, SetStatus
  <2>2. CASE ConnectScript
    <3>1. station' \in Joining
      BY <2>2 DEF ConnectScript, Runs, Joining, AccessPoint
    <3> QED BY <2>2, <3>1 DEF ConnectScript, Connected, SetStatus
  <2>3. CASE ConnectLease
    BY <2>3 DEF ConnectLease, Connected, SetStatus
  <2> QED BY <1>3, <2>1, <2>2, <2>3
<1>4. CASE Disconnect \/ StartAP \/ CloseAP \/ GetStatusEnd \/ CloseDetector
  <2>1. CASE StartAP \/ CloseAP
    <3>1. APScript("softap") \/ APScript("closeSoftAP") => station' = station
      BY DEF APScript, Runs, AccessPoint
    <3> QED BY <2>1, <3>1 DEF StartAP, CloseAP, AtOnce
  <2>2. CASE Disconnect
    BY <2>2 DEF Disconnect, EndConnection, SetStatus, AtOnce
  <2>3. CASE GetStatusEnd \/ CloseDetector
    BY <2>3 DEF GetStatusEnd, CloseDetector
  <2> QED BY <1>4, <2>1, <2>2, <2>3
<1>5. ASSUME NEW t \in Threads, Ask(t) \/ Report(t) PROVE Calls'
  <2>1. t = Caller => pc[Caller] \in {"idle", "sleep", "report"} /\ pc'[Caller] \in {"report", "read"}
    BY <1>5 DEF Ask, Report
  <2>2. t # Caller => pc'[Caller] = pc[Caller]
    BY <1>5 DEF Ask, Report
  <2>3. UNCHANGED <<status, station>>
    BY <1>5 DEF Ask, Report
  <2> QED BY <2>1, <2>2, <2>3
<1>6. ASSUME NEW d \in Detectors, Watch(d) PROVE Calls'
  BY <1>6 DEF Watch, StartDetector, Cancelled, Ended, Detect, Look, Flush, Lease
<1>7. CASE LinkChanges
  BY <1>7 DEF LinkChanges
<1>8. CASE UNCHANGED vars
  BY <1>8 DEF vars
<1> QED
  BY <1>1, <1>2, <1>3, <1>4, <1>5, <1>6, <1>7, <1>8 DEF Next, Call

-----------------------------------------------------------------------------
LEMMA WlanInvHolds == Spec => []WlanInv
<1>1. Init => WlanInv
  <2> SUFFICES ASSUME Init PROVE WlanInv
    OBVIOUS
  <2>1. Types
    <3>1. address \in BOOLEAN
      BY DEF Init
    <3> QED BY <3>1, WlanAssumption DEF Init, Types, Threads, Links, EMPTY
  <2>2. Rounds
    BY DEF Init, Rounds
  <2>3. pc[Caller] = "idle"
    BY DEF Init, Threads
  <2>4. Calls
    <3>1. status = EMPTY
      BY DEF Init
    <3> QED BY <2>3, <3>1 DEF Calls, EMPTY, CONNECTED
  <2> QED BY <2>1, <2>2, <2>4 DEF WlanInv
<1>2. WlanInv /\ [Next]_vars => WlanInv'
  BY TypesStep, RoundsStep, CallsStep DEF WlanInv
<1> QED BY <1>1, <1>2, PTL DEF Spec

(* A round of a detector that nobody came between, and none of whose commands  *)
(* failed, leaves an address on a complete link and none while the supplicant  *)
(* scans, however many detectors share the file.                                *)
THEOREM RoundsAreRight == Spec => []RoundSettles
<1>1. WlanInv => RoundSettles
  BY DEF WlanInv, Rounds, Right, Settled, RoundSettles
<1> QED BY <1>1, WlanInvHolds, PTL

(* CONNECTED is the status of a module whose last script, those of the access   *)
(* point not counted, was one that joins a network, and never while that script *)
(* or the lease is still awaited.                                               *)
THEOREM ConnectedIsSo == Spec => []ConnectedAfterScript
<1>1. WlanInv => ConnectedAfterScript
  BY DEF WlanInv, Calls, ConnectedAfterScript, GetAttrConnected, IsOpened,
         OPENED, CONNECTED, CONNECTING
<1> QED BY <1>1, WlanInvHolds, PTL

=============================================================================
