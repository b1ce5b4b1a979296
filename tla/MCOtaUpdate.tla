---------------------------- MODULE MCOtaUpdate ----------------------------
(* OtaUpdate with images whose partitions begin and end within erase blocks,
   that fit or do not fit beside a bad block, and that change volumes. *)
EXTENDS OtaUpdate, TLC

CONSTANTS kernel, boot, recovery, system, user

Entry(p, h, s, o, l) ==
  [name |-> p, mtd |-> p \in Mtds, how |-> h, size |-> s, off |-> o, len |-> l]

MCTables ==
  { <<Entry(boot, "update", 6, 0, 3), Entry(kernel, "update", 6, 3, 3),
      Entry(system, "update", 4, 6, 3), Entry(recovery, "update", 6, 9, 4)>>,
    <<Entry(recovery, "update", 6, 0, 3), Entry(kernel, "update", 6, 3, 5),
      Entry(user, "add", 2, 8, 2)>>,
    <<Entry(system, "remove", 0, 0, 0), Entry(user, "add", 2, 0, 1)>>,
    <<Entry(kernel, "add", 6, 0, 1), Entry(system, "resize", 4, 2, 2)>>,
    <<Entry(system, "resize", 1, 0, 2)>> }
MCVolSizes == system :> 4 @@ user :> 0

Bad(b, k, r) == boot :> b @@ kernel :> k @@ recovery :> r
MCBadBlocks == {Bad({}, {}, {1}), Bad({1}, {}, {}), Bad({}, {0}, {}), Bad({0}, {2}, {})}

MCNameLen == boot :> 6 @@ kernel :> 6 @@ recovery :> 6
\* "bootloader", "kernel", "RECOVERY"
MCNameLens == boot :> 10 @@ kernel :> 6 @@ recovery :> 8
=============================================================================
