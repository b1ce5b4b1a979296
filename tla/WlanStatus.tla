------------------------------ MODULE WlanStatus ------------------------------
(* What _MI_WLAN_GetStatus of mi_wlan.c tells of the network: wpa_cli writes  *)
(* its report into one file of /tmp, from which the address of the access     *)
(* point is read, a script that is given this address writes the frequency    *)
(* into another, and the frequency becomes a channel.  The caller and the     *)
(* detector thread do this at any time, with the same two files, each into a  *)
(* structure that it keeps from call to call.                                 *)
EXTENDS Naturals

CONSTANTS
    Networks,    \* the access points: their addresses
    Frequency,   \* [Networks -> Nat], in MHz
    Readers      \* the threads that ask

VARIABLES
    joined,      \* the access point the interface is joined to, "" for none
    report,      \* wpa_status: the bssid in it, "" for none
    signal,      \* scan_result: the frequency in it, 0 for none
    turn,        \* the next step of each reader
    statu,       \* the structure of each reader
    told         \* the readers whose last call returned MI_OK and whom nobody
                 \* interfered with (history)

vars == <<joined, report, signal, turn, statu, told>>

Init ==
    /\ joined = "" /\ report = "" /\ signal = 0
    /\ turn = [t \in Readers |-> "idle"]
    /\ statu = [t \in Readers |-> [bssid |-> "", channel |-> 0]]
    /\ told = {}

Goto(t, step) == turn' = [turn EXCEPT ![t] = step]

(* The first command; it spoils the round of everybody else. *)
Ask(t) ==
    /\ turn[t] = "idle"
    /\ report' = joined
    /\ Goto(t, "report")
    /\ told' = {t}
    /\ UNCHANGED <<joined, signal, statu>>

(* A file that cannot be opened ends the call. *)
Fails(t) ==
    /\ Goto(t, "idle")
    /\ told' = told \ {t}
    /\ UNCHANGED statu

(* A line that is not in the report leaves the structure as it was. *)
ReadReport(t) ==
    /\ turn[t] = "report"
    /\ \/ Fails(t)
       \/ /\ statu' = [statu EXCEPT ![t].bssid = IF report = "" THEN @ ELSE report]
          /\ Goto(t, "script")
          /\ UNCHANGED told
    /\ UNCHANGED <<joined, report, signal>>

(* The script knows of the access point it is given, or of none. *)
AskSignal(t) ==
    /\ turn[t] = "script"
    /\ signal' \in {0} \cup {Frequency[b] : b \in {statu[t].bssid} \cap Networks}
    /\ Goto(t, "signal")
    /\ told' = told \cap {t}
    /\ UNCHANGED <<joined, report, statu>>

(* What might go wrong: a case of the switch falls through into the next. *)
ChoseChannelFalls(frequency) ==
    CASE frequency \in {2412 + 5 * k : k \in 0 .. 11} -> (frequency - 2407) \div 5
      [] frequency \in {2472, 2484} -> 14
      [] OTHER -> 0

(* A frequency that is in no case leaves the channel at the 0 of its start. *)
ChoseChannel(frequency) ==
    IF frequency \in {2412 + 5 * k : k \in 0 .. 12} THEN (frequency - 2407) \div 5
    ELSE IF frequency = 2484 THEN 14 ELSE 0

ReadSignal(t) ==
    /\ turn[t] = "signal"
    /\ \/ Fails(t)
       \/ /\ statu' = [statu EXCEPT ![t].channel = ChoseChannel(signal)]
          /\ Goto(t, "idle")
          /\ UNCHANGED told
    /\ UNCHANGED <<joined, report, signal>>

Roam ==
    /\ joined' \in (Networks \cup {""}) \ {joined}
    /\ UNCHANGED <<report, signal, turn, statu, told>>

Next ==
    \/ \E t \in Readers : Ask(t) \/ ReadReport(t) \/ AskSignal(t) \/ ReadSignal(t)
    \/ Roam

Spec == Init /\ [][Next]_vars

-----------------------------------------------------------------------------
(* A call of MI_WLAN_GetStatus that no other call came between and that       *)
(* returned MI_OK names the channel of the access point it names, or none,    *)
(* never that of an access point asked for before.                            *)
ChannelIsItsOwn ==
    \A t \in told :
        turn[t] = "idle" =>
            LET s == statu[t] IN
            s.channel # 0 =>
                /\ s.bssid \in Networks
                /\ Frequency[s.bssid] = IF s.channel = 14 THEN 2484 ELSE 2407 + 5 * s.channel
=============================================================================
