----------------------------- MODULE MCStorage -----------------------------
(* UBI and raw NAND, part by part: each behaviour is one of one part, and the *)
(* others stay where they began.                                              *)
(*                                                                            *)
(* UbiVolume has two threads and a volume of two blocks of two bytes: a call  *)
(* of three bytes covers a whole block and part of another, or runs over the  *)
(* end of the volume; one of none writes back a block it has not changed.     *)
(* UbiSlots has one device that two handles share.                            *)
EXTENDS Storage, TLC

CONSTANTS u1, u2, d1

VARIABLE
  which   \* the part that moves

\* Two partitions of one name, and one more than the table of names takes; a
\* device more than is looked for.
MCMtdNames == <<"ubi", "ubi", "data">>

\* The partition of the recovery system: an image that ends within a block and
\* one that fills its last block, and any bad blocks.
MCNameLen == [p \in {"RECOVERY"} |-> 8]
MCImages == {<<1, 2, 3, 4, 5, 6>>, <<1, 2, 3, 4>>}
MCBadBlocks == SUBSET (0..3)

tableVars == <<inited, slots, device, open, slips, orphans, stale, struck>>
attachVars == <<attacher, filled, known, devs, nodes, step, mtd, dev, told, stirred>>
readVars == <<lost, from, wanted, rpos, readin, block, data, rpc, rret>>
updateVars == <<cell, bad, curName, longest, skipped, wpc, wr, wpos, writein, mret, trips,
                hurt, prepared, ready, there, image, file, at, answer, starts>>
allVars == <<which, vars, tableVars, attachVars, readVars, updateVars>>

PartsInit ==
  /\ which \in {"volume", "table", "attaching", "reading", "updating"}
  /\ Init
  /\ Table!Init /\ (which # "table" => \A v \in {0, 1} : device[d1][v] = 0)
  /\ Attaching!Init
  /\ Reading!Init /\ (which # "reading" => lost = {} /\ from + wanted = 0)
  /\ Updating!Init
  /\ which # "updating" => bad["RECOVERY"] = {} /\ there /\ file /\ image = <<1, 2, 3, 4>>

Still(p) ==
  /\ UNCHANGED which
  /\ p # "volume" => UNCHANGED vars
  /\ p # "table" => UNCHANGED tableVars
  /\ p # "attaching" => UNCHANGED attachVars
  /\ p # "reading" => UNCHANGED readVars
  /\ p # "updating" => UNCHANGED updateVars

\* A read has ended; a write goes round for ever behind the partition's end.
Stops == which \in {"reading", "updating"} /\ UNCHANGED allVars

PartsNext ==
  \/ which = "volume" /\ Next /\ Still("volume")
  \/ which = "table" /\ Table!Next /\ Still("table")
  \/ which = "attaching" /\ Attaching!Next /\ Still("attaching")
  \/ which = "reading" /\ Reading!Next /\ Still("reading")
  \/ which = "updating" /\ Updating!Next /\ Still("updating")
  \/ Stops

PartsSpec == PartsInit /\ [][PartsNext]_allVars

-----------------------------------------------------------------------------
\* Volumes: three calls or two of which a system call fails, the first of them
\* alone without a byte.  Handles: what follows when a descriptor of others was
\* closed is not looked at; and beside the file of others that is open at first,
\* two of these at a time: another such file, a descriptor that a client did not
\* close, a call that failed, a volume of which a handle has missed a change.
Files == {f \in DOMAIN open : open[f] = Foreign}
Kept ==
  /\ calls + faults <= MaxCalls
  /\ \A u \in Users : req[u].len = 0 => req[u].id \in {0, 1}
  /\ ~struck
  /\ Cardinality(Files) + Cardinality(orphans) + slips
       + Cardinality(stale[1]) + Cardinality(stale[2]) <= 3

Symmetry == Permutations(Users)
=============================================================================
