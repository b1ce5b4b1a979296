---------------------------- MODULE MCUartTool ----------------------------
(* UartTool with a short and a long payload: the environment has no room for
   a long one beside another. *)
EXTENDS UartTool

CONSTANTS mac_add, bar_code, upgrade_status

MCPayloads == {<<18>>, <<18, 3>>}
MCOne == {<<18>>}
MCShake == {ShakeHands}
MCExtras == {ShakeHands, Enter, Odd, Probe}

\* A host that sends its packets one by one and sticks to one payload for each
\* variable.
Sparse ==
  /\ \A t \in 1..Ttys : Len(line[t]) <= 8
  /\ \A n \in Targets : Cardinality(written[n]) <= 1 /\ Cardinality(announced[n]) <= 1
  /\ cuts + faults <= 1
=============================================================================
