----------------------------- MODULE CommandSlot -----------------------------
(***************************************************************************)
(* What SerialCommand promises about Now_cmd_e.                            *)
(*                                                                         *)
(* There is one slot for the command that is awaited.  An operation that   *)
(* starts puts its command there, over that of an operation that is still  *)
(* waiting; an operation that ends empties it, whoever filled it.  Start   *)
(* and end are atomic, and what was started ends.                          *)
(***************************************************************************)
CONSTANTS Callers, Commands, Unknown

VARIABLES
  busy,  \* the command each caller has under way, or Unknown
  slot   \* the command an answer is accepted for, or Unknown

Init ==
  /\ busy = [c \in Callers |-> Unknown]
  /\ slot = Unknown

Start(c, k) ==
  /\ busy[c] = Unknown
  /\ busy' = [busy EXCEPT ![c] = k]
  /\ slot' = k

Finish(c) ==
  /\ busy[c] # Unknown
  /\ busy' = [busy EXCEPT ![c] = Unknown]
  /\ slot' = Unknown

Next == \E c \in Callers : Finish(c) \/ \E k \in Commands : Start(c, k)

Spec == Init /\ [][Next]_<<busy, slot>>

FairSpec == Spec /\ \A c \in Callers : WF_<<busy, slot>>(Finish(c))
=============================================================================
