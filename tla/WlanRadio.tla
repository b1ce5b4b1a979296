------------------------------ MODULE WlanRadio ------------------------------
(* The calls of mi_wlan.c that tune the radio: GetWlanChipVersion asks a      *)
(* script which chip is plugged in and keeps its name, which the scripts for  *)
(* the start of the module and of an access point are called with, and which  *)
(* decides how SetChannel tells the driver the channel.                       *)
EXTENDS Naturals

CONSTANTS
    Chips,       \* the chips the script knows, MT7601 among them
    Numbers      \* channels

VARIABLES
    plugged,     \* the chip that is plugged in, "" for none
    _u8chipname,
    buffer,      \* ChipVersion, the caller's
    named,       \* did the last GetWlanChipVersion begin with an empty buffer
                 \* and return MI_OK, with the chip still plugged in? (history)
    mode,        \* the interface's network type
    command      \* the last command for a channel, and the chip it was for

vars == <<plugged, _u8chipname, buffer, named, mode, command>>

Monitor == "MonitorChBw"
NoCommand == [form |-> "none", channel |-> 0, chip |-> "", named |-> FALSE]

Init ==
    /\ plugged \in Chips \cup {""}
    /\ _u8chipname = "" /\ buffer = "" /\ named = FALSE
    /\ mode = "managed"
    /\ command = NoCommand

(* The caller may empty its buffer before it asks again. *)
ClearBuffer ==
    /\ buffer' = ""
    /\ UNCHANGED <<plugged, _u8chipname, named, mode, command>>

(* mi_sys_SystemCmdWithReturn passes on the script's number for the chip, or   *)
(* one that means none.                                                       *)
CmdAnswers == {plugged, ""}

(* What might go wrong: the name found goes into the caller's buffer only. *)
GetWlanChipVersionTells ==
    \E found \in CmdAnswers :
        /\ UNCHANGED _u8chipname
        /\ buffer' = IF found = "" THEN buffer ELSE found
        /\ named' = (buffer = "" /\ buffer' # "")
        /\ UNCHANGED <<plugged, mode, command>>

(* The name kept is cleared before the script is run.  A script that fails or *)
(* finds nothing leaves the buffer as it is, and whether the buffer is empty  *)
(* is what the call's result says.                                            *)
GetWlanChipVersion ==
    \E found \in CmdAnswers :
        /\ _u8chipname' = found
        /\ buffer' = IF found = "" THEN buffer ELSE found
        /\ named' = (buffer = "" /\ buffer' # "")
        /\ UNCHANGED <<plugged, mode, command>>

(* The command is run whether or not the interface can take the type, and its *)
(* result is not looked at; a type without a command is refused.              *)
SetNetworkType(type) ==
    /\ mode' \in IF type \in {"managed", "Ap", "Adhoc", "Monitor"} THEN {mode, type} ELSE {mode}
    /\ UNCHANGED <<plugged, _u8chipname, buffer, named, command>>

SetChannel(n) ==
    /\ command' =
         [form |-> IF _u8chipname = "MT7601" THEN Monitor ELSE "channel",
          channel |-> IF _u8chipname # "MT7601" THEN n
                      ELSE IF n < 8 THEN 200 + n ELSE 300 + n,
          chip |-> plugged, named |-> named]
    /\ UNCHANGED <<plugged, _u8chipname, buffer, named, mode>>

(* The device is pulled out or another one is plugged in. *)
Replug ==
    /\ plugged' \in (Chips \cup {""}) \ {plugged}
    /\ named' = FALSE
    /\ UNCHANGED <<_u8chipname, buffer, mode, command>>

Next ==
    \/ ClearBuffer \/ GetWlanChipVersion \/ Replug
    \/ \E type \in {"managed", "Ap", "Adhoc", "Monitor", "unknown"} : SetNetworkType(type)
    \/ \E n \in Numbers : SetChannel(n)

Spec == Init /\ [][Next]_vars

-----------------------------------------------------------------------------
(* Once the chip was asked for with an empty buffer and named, and until it   *)
(* is replugged, channels are set with the command of that chip.  (When the   *)
(* buffer holds a name from before, MI_OK is returned although nothing was    *)
(* found, and the name that was kept is gone.)                                 *)
SpeaksToItsChip ==
    command.named => ((command.form = Monitor) <=> (command.chip = "MT7601"))
=============================================================================
