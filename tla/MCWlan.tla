------------------------------- MODULE MCWlan -------------------------------
(* Bounds of Wlan: one module with a script and one without, two detectors,  *)
(* two descriptors left.                                                      *)
EXTENDS Wlan, TLC

CONSTANTS d1, d2

MCDetectors == {d1, d2}
Symmetry == Permutations(MCDetectors)
MCModules == {"MT7601U", "AUTO"}
MCScripted == {"MT7601U"}
=============================================================================
