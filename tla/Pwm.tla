--------------------------------- MODULE Pwm ---------------------------------
(* The PWM channels of mi_pwm.c.  Each call runs one shell command that       *)
(* writes a file of /sys/class/pwm, and reports whether the shell managed to; *)
(* the module itself keeps nothing.  What the kernel accepts depends on what  *)
(* was set before: a channel is exported once, its duty cycle lies within its *)
(* period, and a running channel keeps its polarity.                          *)
EXTENDS Naturals

CONSTANTS Channels, Times     \* channel numbers, and lengths in ns

VARIABLES
    pwm,      \* the channels as they run, "none" before the export
    settled   \* the values of the calls that returned MI_OK (history)

vars == <<pwm, settled>>

NoSetting == [period |-> 0, duty |-> 0, polarity |-> "normal", enable |-> FALSE,
              exported |-> FALSE]

Init ==
    /\ pwm = [c \in Channels |-> NoSetting]
    /\ settled = [c \in Channels |-> NoSetting]

-----------------------------------------------------------------------------
(* The kernel: what it makes of a write to a file of a channel. *)
Accepts(c, file, value) ==
    LET ch == pwm[c]
        new == [ch EXCEPT ![file] = value]
    IN  /\ IF file = "exported" THEN ~ch.exported ELSE ch.exported
        /\ new.duty <= new.period
        /\ file = "polarity" => ~ch.enable
        /\ new.enable => new.period > 0

(* MI_SYS_LaunchSystemCmd runs the command; a file that is not there or       *)
(* refuses the value makes the shell fail.                                    *)
LaunchSystemCmd(c, file, value) ==
    IF Accepts(c, file, value)
    THEN pwm' = [pwm EXCEPT ![c][file] = value]
    ELSE UNCHANGED pwm

Reported(c, file, value) ==
    settled' = IF Accepts(c, file, value)
               THEN [settled EXCEPT ![c][file] = value] ELSE settled

Sets(c, file, value) ==
    LaunchSystemCmd(c, file, value) /\ Reported(c, file, value)

RequestChannelNum(c) == Sets(c, "exported", TRUE)

(* What might go wrong: the two numbers of the command are swapped. *)
SetPeriodSwapped(c, t) ==
    \E d \in Channels :
        /\ d = t
        /\ LaunchSystemCmd(d, "period", c)
        /\ Reported(c, "period", t)

SetPeriod(c, t) == Sets(c, "period", t)

SetDutyCycle(c, t) == Sets(c, "duty", t)

SetPolarityNormal(c) == Sets(c, "polarity", "normal")

SetPolarityInversed(c) == Sets(c, "polarity", "inversed")

SetChannelEnable(c, on) == Sets(c, "enable", on)

Next ==
    \E c \in Channels :
        \/ RequestChannelNum(c)
        \/ \E t \in Times : SetPeriod(c, t) \/ SetDutyCycle(c, t)
        \/ SetPolarityNormal(c) \/ SetPolarityInversed(c)
        \/ \E on \in BOOLEAN : SetChannelEnable(c, on)

Spec == Init /\ [][Next]_vars

-----------------------------------------------------------------------------
(* Every channel runs with the values of the calls that reported success, in  *)
(* whatever order they came, and no call reaches a channel but its own.       *)
RunsAsReported == pwm = settled
=============================================================================
