---------------------------- MODULE MCFlashEnv ----------------------------
(* FlashEnv with three variables: a factory setting nobody changes, and two
   that clients set to a short and to a long value; only one of the long
   values fits beside the factory setting. *)
EXTENDS FlashEnv, TLC

CONSTANTS status, mac, bar, short, long

MCNames == {status, mac, bar}
MCSettable == {mac, bar}
MCValues == {short, long}
MCSize == short :> 1 @@ long :> 2
MCFactory == status :> short
Symmetry == Permutations(MCSettable)
=============================================================================
