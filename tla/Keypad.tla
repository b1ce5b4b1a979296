------------------------------- MODULE Keypad -------------------------------
(***************************************************************************)
(* The keypad on an analog input (mi_sar.c).  A thread samples the voltage *)
(* about every 30 ms; _Keypad_GetKey finds the key in the table and        *)
(* decides when it is reported to the callback: at release, or with        *)
(* repeats when it is held for long.  MI_SAR_Config clears and refills the *)
(* table while the thread goes on sampling.  A voltage is abstracted to    *)
(* the key it belongs to, to none, or to a keypad that is released; time   *)
(* is counted in ticks, as far as the longest delay.                       *)
(***************************************************************************)
EXTENDS Integers

CONSTANTS
  Keys,        \* the key codes of the table
  Stray,       \* a code that is in no table
  Dummy,       \* KEY_DUMMY
  None,        \* no key
  Gaps,        \* the times from one sample to the next, in ticks
  First,       \* KEYPAD_DEFAULT_INIT_DELAY_TIME_MS
  Second,      \* KEYPAD_DEFAULT_2ND_DELAY_TIME_MS
  Following,   \* KEYPAD_DEFAULT_FOLLOWING_DELAY_TIME_MS
  MaxSamples   \* bound: samples that fall into MI_SAR_Config, from one that
               \* finds a key or a release in a whole table to the next

ASSUME KeypadAssumption ==
  /\ Stray \notin Keys /\ Dummy \notin Keys /\ None \notin Keys \cup {Stray, Dummy}
  /\ Gaps \subseteq Nat \ {0}
  /\ First \in Nat /\ Second \in Nat /\ Following \in Nat
  /\ First < Second /\ Following < Second
  /\ MaxSamples \in Nat

VARIABLES
  property,   \* _Key_ePrevKeyProperty
  prevKey,    \* _Key_u8PrevKeyCode
  age,        \* the time since _Key_u32PrevKeyTime, up to Second + 1
  rep,        \* _u8RepFlag
  table,      \* _stSarKpdCfg
  samples,    \* MaxSamples budget used
  report,     \* what the last step reported
  press,      \* the key that is down, and what was reported of it (history)
  settled     \* the keypad has been seen released with a whole table (history)

keyVars == <<property, prevKey, age, rep>>
history == <<report, press, settled>>
vars == <<keyVars, table, samples, history>>

Codes == Keys \cup {Stray, Dummy}
Nothing == [key |-> None, flag |-> 0]
Up == [key |-> None, down |-> 0, long |-> FALSE, reports |-> 0, last |-> 0,
       spaced |-> TRUE, slid |-> FALSE]

Init ==
  /\ property = "FOLLOWING" /\ prevKey = Dummy /\ age = Second + 1 /\ rep = 0
  /\ table = "empty" /\ samples = 0
  /\ report = Nothing /\ press = Up /\ settled = FALSE

AtMost(n, top) == IF n > top THEN top ELSE n

-----------------------------------------------------------------------------
(* History: a press lasts until another code is seen or none. *)

Longer(p, gap) == [p EXCEPT !.down = AtMost(@ + gap, First + 1),
                            !.last = AtMost(@ + gap, Following + 1)]

Counted(p) ==
  IF report' = Nothing THEN p
  ELSE [p EXCEPT !.reports = AtMost(@ + 1, 2), !.last = 0,
                 !.spaced = @ /\ (p.reports > 0 => p.last > Following)]

\* A key that is seen after another one without a release in between has slid;
\* what matters is whether repeats had been reported on the way.
Pressed(key, gap) ==
  IF press.key = key
  THEN LET p == Longer(press, gap) IN [p EXCEPT !.long = p.down > First]
  ELSE [Up EXCEPT !.key = key, !.slid = press.slid \/ press.reports = 2]

-----------------------------------------------------------------------------
(* _Keypad_GetKey, on the code of a sample *)

Reports(key, flag) == report' = [key |-> key, flag |-> flag]
Silent == report' = Nothing

\* Mutant: a key that was reported while it was held is reported again.
ReleasedAgain ==
  /\ IF property \in {"2st", "FOLLOWING"} THEN Reports(prevKey, rep) ELSE Silent
  /\ property' = "INIT" /\ rep' = 0
  /\ UNCHANGED <<prevKey, age>>

\* u32KeyData above the highest key
Released ==
  /\ IF property = "2st" THEN Reports(prevKey, rep) ELSE Silent
  /\ property' = "INIT" /\ rep' = 0
  /\ UNCHANGED <<prevKey, age>>

\* a voltage that belongs to no key
NoKey(gap) ==
  /\ rep' = 0 /\ Silent
  /\ age' = AtMost(age + gap, Second + 1)
  /\ UNCHANGED <<property, prevKey>>

\* The step of the state machine, when `now` is the time since the last one.
Advance(now) ==
  \/ /\ property = "1st"
     /\ IF now > First THEN property' = "2st" /\ age' = 0
                       ELSE age' = now /\ UNCHANGED property
     /\ Silent /\ UNCHANGED rep
  \/ /\ property = "2st"
     /\ IF now > Second THEN property' = "FOLLOWING" /\ age' = 0 /\ Reports(prevKey, rep)
                        ELSE age' = now /\ Silent /\ UNCHANGED property
     /\ UNCHANGED rep
  \/ /\ property = "FOLLOWING"
     /\ IF now > Following THEN age' = 0 /\ rep' = 1 /\ Reports(prevKey, 1)
                           ELSE age' = now /\ Silent /\ UNCHANGED rep
     /\ UNCHANGED property

\* one of the table's voltages
Key(key, gap) ==
  /\ IF key # prevKey \/ property = "INIT"
       THEN property' = "1st" /\ age' = 0 /\ Silent /\ UNCHANGED rep
       ELSE Advance(AtMost(age + gap, Second + 1))
  /\ prevKey' = key

-----------------------------------------------------------------------------
(* SAR_Interrupt: one sample.  A sample that could not be read leaves an       *)
(* arbitrary voltage.  With an empty table the code of the key is not          *)
(* initialised; while the table is filled the channel, the bounds and the keys *)
(* are partly those of before.                                                 *)

CodesNow == IF table = "whole" THEN Keys ELSE Codes

Met(n) == IF table = "filling" THEN samples + 1 ELSE n

Sample ==
  /\ table = "filling" => samples < MaxSamples
  /\ UNCHANGED table
  /\ \E gap \in Gaps :
       \/ /\ Released
          /\ press' = Up
          /\ settled' = (settled \/ table = "whole")
          /\ samples' = Met(0)
       \/ /\ table # "empty" /\ NoKey(gap)
          /\ press' = IF press = Up THEN Up ELSE Longer(press, gap)
          /\ samples' = Met(samples)
          /\ UNCHANGED settled
       \/ \E key \in CodesNow :
            /\ Key(key, gap)
            /\ press' = Counted(Pressed(key, gap))
            /\ samples' = Met(0)
            /\ UNCHANGED settled

(* MI_SAR_Config: memset, and the fields one after the other. *)
ConfigBegins ==
  /\ table' = "filling" /\ Silent
  /\ UNCHANGED <<keyVars, samples, press, settled>>

ConfigEnds ==
  /\ table = "filling" /\ table' = "whole" /\ Silent
  /\ UNCHANGED <<keyVars, samples, press, settled>>

Next == Sample \/ ConfigBegins \/ ConfigEnds

Spec == Init /\ [][Next]_vars

-----------------------------------------------------------------------------
(* Properties *)

\* Whatever the samples see while MI_SAR_Config replaces the table, the callback
\* gets codes of the table only: the debouncing outlasts what is read wrong.
OnlyConfiguredKeys == [][settled /\ report' # Nothing => report'.key \in Keys]_vars

\* Repeats come no faster than every 330 ms, and the first one as long after the
\* report at two seconds, also when the voltage leaves the key's range for a while.
RepeatsSpaced == settled => press.spaced

\* A key is reported when it is released if it was down for more than 50 ms and
\* was not reported while it was held, and not otherwise: a press is neither
\* lost nor reported twice.
ReportedAtRelease ==
  [][settled /\ press # Up /\ press' = Up =>
       report' = IF press.long /\ press.reports = 0
                 THEN [key |-> press.key, flag |-> report'.flag] ELSE Nothing]_vars

\* The first report of a press carries flag 0 and all others 1, unless the finger
\* has slid to the key from one that was repeating.
FirstThenRepeats ==
  [][settled /\ report' # Nothing /\ ~press.slid =>
       report'.flag = IF press.reports = 0 THEN 0 ELSE 1]_vars

\* The reports of _Keypad_GetKey are those of the presses: at the release or by
\* repeats, the first one plain and the others flagged, spaced, and of codes in
\* the table only: the four above.
PressesReported ==
  []RepeatsSpaced /\ ReportedAtRelease /\ FirstThenRepeats /\ OnlyConfiguredKeys
=============================================================================
