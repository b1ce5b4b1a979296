-------------------------------- MODULE Delay --------------------------------
(* MI_Delayms and MI_Delayus of src/uart/mi/mi_sys.c: a wait that polls a     *)
(* counter of milliseconds or microseconds until it has moved far enough.     *)
(* The counter of milliseconds is unsigned and wraps; the one of microseconds *)
(* is computed in a signed word of the same width and then widened, so that   *)
(* the upper half of its values stands at the far end of the wide type.       *)
EXTENDS Naturals

CONSTANTS
    Word,       \* number of values of the 32-bit word, even
    Wide,       \* number of values of the 64-bit word, a multiple of Word
    Lengths,    \* delays asked for
    MaxJump,    \* the thread may be away for as long between two polls
    MaxTime     \* bound on time

VARIABLES
    time,       \* true time in the unit of the delay
    unit,       \* "ms" or "us"
    phase,      \* "idle", "waiting" or "over"
    wanted,     \* the delay asked for
    stamp,      \* currentTime
    begun       \* true time when the delay began

vars == <<time, unit, phase, wanted, stamp, begun>>

-----------------------------------------------------------------------------
(* The type of the counter and the value clock_gettime gives it. *)
Size(u) == IF u = "ms" THEN Word ELSE Wide

Signed(t) == IF t % Word < Word \div 2 THEN t % Word ELSE Wide - Word + (t % Word)

Counter(u, t) == IF u = "ms" THEN t % Word ELSE Signed(t)

(* get_time0_ms and get_time0_us: zero is taken for one. *)
GetTime0(u, t) == IF Counter(u, t) = 0 THEN 1 ELSE Counter(u, t)

(* What might go wrong: the distance without the wrap. *)
DiffAbsolute(u, now, time0) == IF now >= time0 THEN now - time0 ELSE time0 - now

(* time_ms_diff_from_now0 and time_us_diff_from_now0. *)
Diff(u, now, time0) ==
    IF now >= time0 THEN now - time0 ELSE Size(u) - 1 - time0 + now

-----------------------------------------------------------------------------
Init ==
    /\ time \in 0 .. Word - 1
    /\ unit \in {"ms", "us"}
    /\ phase = "idle"
    /\ wanted = 0 /\ stamp = 0 /\ begun = 0

(* MI_Delayms(length) or MI_Delayus(length) is called. *)
Begin ==
    /\ phase = "idle"
    /\ wanted' \in Lengths
    /\ stamp' = GetTime0(unit, time)
    /\ begun' = time
    /\ phase' = "waiting"
    /\ UNCHANGED <<time, unit>>

Pass ==
    /\ \E d \in 1 .. MaxJump : time + d <= MaxTime /\ time' = time + d
    /\ UNCHANGED <<unit, phase, wanted, stamp, begun>>

(* One turn of the loop. *)
Poll ==
    /\ phase = "waiting"
    /\ Diff(unit, Counter(unit, time), stamp) >= wanted
    /\ phase' = "over"
    /\ UNCHANGED <<time, unit, wanted, stamp, begun>>

Next == Begin \/ Pass \/ Poll

Spec == Init /\ [][Next]_vars

-----------------------------------------------------------------------------
(* A delay begun when the counter shows zero is over at once, and so is a     *)
(* delay in microseconds under way when the counter's sign changes, every 71  *)
(* minutes.                                                                   *)
CutShort ==
    \/ Counter(unit, begun) = 0
    \/ unit = "us" /\ \E t \in begun + 1 .. time : t % Word = Word \div 2

(* A delay that is over has lasted as long as was asked for, also when the    *)
(* counter has begun anew meanwhile and the thread was not always there to    *)
(* look, with the two exceptions above; the panel and the infrared chip rely  *)
(* on it for their pulses.                                                    *)
DelayKept ==
    [][phase = "waiting" /\ phase' = "over" /\ ~CutShort => time >= begun + wanted]_vars
=============================================================================
