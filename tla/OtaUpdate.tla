----------------------------- MODULE OtaUpdate -----------------------------
(***************************************************************************)
(* The loader of mi_loader.c: a download module parses the partition table *)
(* at the head of an OTA image (ms_parse_otainfo), and then hands over the *)
(* image, in chunks that end anywhere (ms_ota_update_start).  Each piece   *)
(* is appended to its MTD partition or UBI volume.  The running kernel     *)
(* updates only RECOVERY, the recovery system everything else (runMode).   *)
(* Before a kernel is written, the command that boots it is made to load   *)
(* all of it.                                                              *)
(***************************************************************************)
EXTENDS MtdWrite, SequencesExt

CONSTANTS
  Tables,     \* the partition tables of the images
  BadBlocks,  \* which blocks may be bad
  Ubis,       \* the UBI volumes
  Kernel,     \* KERNEL_PARTITION_NAME
  Recovery,   \* RECOVERY_PARTITION_NAME
  VolSizes,   \* the sizes of the volumes at first, 0: no such volume
  CmdSize,    \* the size bootcmd and recoverycmd load at first
  Chunks,     \* the lengths of chunks
  Trailer,    \* bytes of the image behind its last partition
  Old,        \* a byte from before the updates
  VolMax,     \* bound: bytes of a volume
  MaxRounds   \* bound: updates

Named == {Kernel, Recovery} \cap Mtds
Names == Mtds \cup Ubis
VolCells == 0..(VolMax - 1)

Entries == [name : Names, mtd : BOOLEAN, how : {"update", "add", "remove", "resize"},
            size : Nat, off : Nat, len : Nat]

ASSUME OtaAssumption ==
  /\ \A t \in Tables : t \in Seq(Entries)
  /\ VolMax \in Nat
  /\ \A t \in Tables : \A i \in DOMAIN t :
       /\ t[i].mtd <=> t[i].name \in Mtds
       /\ t[i].name \in Ubis => t[i].len <= VolMax
  /\ BadBlocks \subseteq [Mtds -> SUBSET (0..(Blocks - 1))]
  /\ Mtds \cap Ubis = {} /\ Recovery \in Mtds /\ VolSizes \in [Ubis -> Nat]
  /\ CmdSize \in Nat /\ Chunks \subseteq Nat \ {0} /\ Trailer \in Nat
  /\ MaxRounds \in Nat
  /\ Old \notin Nat \X Nat /\ Unsure \notin Nat \X Nat

VARIABLES
  mode,     \* runMode: 0 kernel, 1 recovery
  table,    \* ota_partition_info
  has,      \* haswrite, for each entry of the table
  total,    \* data_total_size
  round,    \* the number of the update
  next,     \* how much of the image the download module has handed over
  at,       \* where ms_ota_update_start stands
  cur,      \* cur_offset, from OTA_INFO_SIZE on
  left,     \* data_size - data_write
  vols,     \* the size and the bytes of each volume
  cmd,      \* the size in bootcmd and recoverycmd, in memory
  stored,   \* and in the environment partition
  flagged   \* RECOVERY_UPDATE_FLAG exists

tableVars == <<mode, table, total, round>>
chunkVars == <<next, cur, left>>
bootVars == <<cmd, stored>>
otaVars == <<tableVars, has, chunkVars, at, vols, bootVars, flagged>>
vars == <<mtdVars, otaVars>>

Init ==
  /\ cell = [p \in Mtds |-> [c \in Cells |-> Old]]
  /\ bad \in BadBlocks
  /\ curName = NoName /\ longest = 0 /\ skipped = 0
  /\ wpc = "idle" /\ wr = NoWrite /\ pos = 0 /\ writein = 0 /\ mret = 0
  /\ faults = 0 /\ hurt = {}
  /\ mode \in {0, 1} /\ table = << >> /\ total = 0 /\ round = 0
  /\ has = << >> /\ next = 0 /\ cur = 0 /\ left = 0 /\ at = "start"
  /\ vols = [v \in Ubis |-> [size |-> VolSizes[v], data |-> [c \in VolCells |-> Old]]]
  /\ cmd = [p \in Named |-> CmdSize] /\ stored = cmd /\ flagged = FALSE

TotalLen(t) == FoldLeft(LAMBDA s, e : s + e.len, 0, t)

\* The bytes of the image, by their place.
Image(from, n) == [k \in 1..n |-> <<round, from + k - 1>>]

-----------------------------------------------------------------------------
(* ms_parse_otainfo: a new image. *)
Parse(t) ==
  /\ at \in {"start", "failed"} \/ (at = "idle" /\ next = total + Trailer)
  /\ round < MaxRounds /\ round' = round + 1
  /\ table' = t /\ has' = [i \in DOMAIN t |-> 0]
  /\ total' = TotalLen(t)
  /\ at' = "idle" /\ next' = 0 /\ cur' = 0 /\ left' = 0
  /\ UNCHANGED <<mtdVars, mode, vols, bootVars, flagged>>

(* The download module hands over the next n bytes. *)
Hand(n) ==
  /\ at = "idle" /\ next + n <= total + Trailer
  /\ at' = "loop" /\ cur' = next /\ left' = n /\ next' = next + n
  /\ UNCHANGED <<mtdVars, tableVars, has, vols, bootVars, flagged>>

Answer(r) == at' = IF r = 1 THEN "idle" ELSE "failed"

\* get_date_write_info: the first entry that the current byte belongs to.
Hit(i) ==
  LET e == table[i]
  IN cur = e.off \/ (cur > e.off /\ cur < e.off + e.len)
First == {i \in DOMAIN table : Hit(i) /\ \A j \in DOMAIN table : j < i => ~Hit(j)}
Index == CHOOSE i \in First : TRUE
Here == table[Index]
PieceLen == Least(left, Here.len - has[Index])

InLoop == at = "loop" /\ left > 0 /\ cur < total
AtEntry == InLoop /\ First # {}

\* The next round of the loop.
Advance ==
  /\ at' = "loop"
  /\ left' = left - PieceLen /\ cur' = cur + PieceLen
  /\ UNCHANGED next
Wrote == has' = [has EXCEPT ![Index] = @ + PieceLen]

\* Mutant: behind the last partition the loop goes on.
LoopEndsAtLength ==
  /\ at = "loop" /\ left = 0
  /\ Answer(1)
  /\ UNCHANGED <<mtdVars, tableVars, has, chunkVars, vols, bootVars, flagged>>

LoopEnds ==
  /\ at = "loop" /\ (left = 0 \/ cur >= total)
  /\ Answer(1)
  /\ UNCHANGED <<mtdVars, tableVars, has, chunkVars, vols, bootVars, flagged>>

NoEntry ==
  /\ InLoop /\ First = {}
  /\ Answer(0)
  /\ UNCHANGED <<mtdVars, tableVars, has, chunkVars, vols, bootVars, flagged>>

\* Mutant: the recovery system writes everything.
ConcernsRecovery(e) == mode = 0 => e.name = Recovery

\* Which entries are written in which mode.
Concerns(e) == (mode = 0) <=> (e.name = Recovery)

\* Mutant: an entry that is passed over is not counted.
PassOverUncounted ==
  /\ AtEntry /\ ~Concerns(Here)
  /\ Advance
  /\ flagged' = (flagged \/ mode = 1)
  /\ UNCHANGED <<mtdVars, tableVars, has, vols, bootVars>>

PassOver ==
  /\ AtEntry /\ ~Concerns(Here)
  /\ Wrote /\ Advance
  /\ flagged' = (flagged \/ mode = 1)
  /\ UNCHANGED <<mtdVars, tableVars, vols, bootVars>>

-----------------------------------------------------------------------------
(* update_partition, MTD.  An entry without data changes nothing, not even
   the cursor: no step of the model. *)
AtMtd == AtEntry /\ Concerns(Here) /\ Here.mtd

RefuseMtd ==
  /\ AtMtd /\ Here.how # "update"
  /\ Answer(0)
  /\ UNCHANGED <<mtdVars, tableVars, has, chunkVars, vols, bootVars, flagged>>

NeedsCommand == Here.name \in Named /\ Here.len > cmd[Here.name]
\* Mutant: the size of the chunk for that of the partition's data.
NewCommandOfPiece == [cmd EXCEPT ![Here.name] = PieceLen]

NewCommand == [cmd EXCEPT ![Here.name] = Here.len]

(* update_bootcmd, update_recoverycmd, and then the piece. *)
MtdBegins ==
  /\ AtMtd /\ Here.how = "update" /\ Here.len > 0
  /\ IF NeedsCommand THEN cmd' = NewCommand /\ stored' = [stored EXCEPT ![Here.name] = cmd'[Here.name]]
     ELSE UNCHANGED bootVars
  /\ WriteBegins(Here.name, has[Index], Image(cur, PieceLen))
  /\ at' = "mtd"
  /\ UNCHANGED <<tableVars, has, chunkVars, vols, flagged>>

\* MI_FLASH_SetEnvVar fails, or MI_FLASH_StoreEnv, before it erases anything.
CommandFails ==
  /\ AtMtd /\ Here.how = "update" /\ NeedsCommand /\ Fault
  /\ cmd' \in {cmd, NewCommand} /\ UNCHANGED stored
  /\ Answer(0)
  /\ UNCHANGED <<cell, bad, nameVars, callVars, hurt, tableVars, has, chunkVars, vols, flagged>>

InMtd == at = "mtd" /\ MtdStep /\ UNCHANGED otaVars

MtdEnds ==
  /\ at = "mtd" /\ wpc = "done"
  /\ IF mret = PieceLen THEN Wrote /\ Advance ELSE Answer(0) /\ UNCHANGED <<has, chunkVars>>
  /\ wpc' = "idle"
  /\ UNCHANGED <<cell, bad, nameVars, wr, pos, writein, mret, faults, hurt,
                 tableVars, vols, bootVars, flagged>>

-----------------------------------------------------------------------------
(* update_partition, UBI.  A volume is added, or resized, for every piece. *)
AtUbi == AtEntry /\ Concerns(Here) /\ ~Here.mtd

Volume == vols[Here.name]
Exists == Volume.size > 0
Found == IF Here.how = "add" THEN ~Exists ELSE Exists

Prepared ==
  CASE Here.how = "update" -> Volume
    [] Here.how = "add" -> [size |-> Here.size, data |-> [c \in VolCells |-> Old]]
    [] Here.how = "resize" -> [Volume EXCEPT !.size = Here.size]

Filled(n) ==
  [Prepared EXCEPT !.data =
     [c \in VolCells |-> IF c \in has[Index]..(has[Index] + n - 1)
                         THEN <<round, Here.off + c>> ELSE @[c]]]
Becomes(v) == vols' = [vols EXCEPT ![Here.name] = v]

RemoveVolume ==
  /\ AtUbi /\ Here.how = "remove" /\ Found
  /\ Becomes([Volume EXCEPT !.size = 0])
  /\ Advance
  /\ UNCHANGED <<mtdVars, tableVars, has, bootVars, flagged>>

WriteVolume ==
  /\ AtUbi /\ Here.how # "remove" /\ Found /\ Prepared.size >= Here.len
  /\ Becomes(Filled(PieceLen))
  /\ Wrote /\ Advance
  /\ UNCHANGED <<mtdVars, tableVars, bootVars, flagged>>

RefuseVolume ==
  /\ AtUbi
  /\ \/ ~Found /\ UNCHANGED vols
     \/ Found /\ Here.how # "remove" /\ Prepared.size < Here.len /\ Becomes(Prepared)
  /\ Answer(0)
  /\ UNCHANGED <<mtdVars, tableVars, has, chunkVars, bootVars, flagged>>

\* A call of mi_ubi.c fails: nothing has been done, or part of the piece has
\* been written.
VolumeFails ==
  /\ AtUbi /\ Found /\ Fault
  /\ \/ UNCHANGED vols
     \/ /\ Here.how # "remove" /\ Prepared.size >= Here.len
        /\ \E n \in 0..(PieceLen - 1) : Becomes(Filled(n))
  /\ Answer(0)
  /\ UNCHANGED <<cell, bad, nameVars, callVars, hurt, tableVars, has, chunkVars,
                 bootVars, flagged>>

-----------------------------------------------------------------------------
Loader ==
  \/ LoopEnds \/ NoEntry \/ PassOver
  \/ RefuseMtd \/ MtdBegins \/ CommandFails \/ InMtd \/ MtdEnds
  \/ RemoveVolume \/ WriteVolume \/ RefuseVolume \/ VolumeFails

Next ==
  \/ \E t \in Tables : Parse(t)
  \/ \E n \in Chunks : Hand(n)
  \/ Loader

Spec == Init /\ [][Next]_vars

\* The thread that calls ms_ota_update_start is scheduled.
FairSpec == Spec /\ WF_vars(Loader)

-----------------------------------------------------------------------------
\* The k-th byte of a partition or volume, and whether it may be anything.
Content(p, k) == IF p \in Mtds THEN cell[p][Place(p, k)] ELSE vols[p].data[k]
Excused(p, k) == p \in Mtds /\ <<p, BlockOf(Place(p, k))>> \in hurt

(* However the image is cut into chunks, what was written of a partition is
   its part of the image, in order and around the bad blocks, except in
   blocks that the driver could not erase or read, or not write when a chunk began
   within them (mi_loader.c:714-722, mi_flash.c:445-451, 552-554). *)
ImageInPlace ==
  \A i \in DOMAIN table :
    Concerns(table[i]) =>
      \A k \in 0..(has[i] - 1) :
        \/ Content(table[i].name, k) = <<round, table[i].off + k>>
        \/ Excused(table[i].name, k)

(* haswrite of every entry is what the cursor says of it: no piece is left
   out or counted twice when a chunk ends within an entry or spans several
   (mi_loader.c:714-722, 838-839). *)
Passed(e) == IF cur <= e.off THEN 0 ELSE Least(cur - e.off, e.len)
CursorAgrees == \A i \in DOMAIN table : has[i] = Passed(table[i])

(* What the device runs from is not touched: the kernel and the volumes in
   mode 0, RECOVERY in mode 1 (mi_loader.c:809-824). *)
RunningSystemKept ==
  [][ /\ \A p \in Mtds : cell'[p] # cell[p] => ((mode = 0) <=> (p = Recovery))
      /\ mode = 0 => vols' = vols ]_vars

(* As soon as the new kernel, or recovery system, is being written, its boot
   command, "nand read <address> KERNEL <size>", loads all of it
   (mi_loader.c:340, 391-403, 534-543). *)
BeingWritten(e) ==
  \E c \in Cells : cell[e.name][c] \in {round} \X (e.off..(e.off + e.len - 1))
BootCommandLoadsAll ==
  \A i \in DOMAIN table :
    table[i].name \in Named /\ BeingWritten(table[i]) =>
      stored[table[i].name] >= table[i].len

(* It does if the command in memory is the one in the partition: if no
   MI_FLASH_StoreEnv has failed (mi_loader.c:390-391, 405-414). *)
BootLoadsAll == cmd = stored => BootCommandLoadsAll

(* Each call returns, unless an entry has no data or the image does not fit
   beside the bad blocks: the loop of ms_ota_update_start, and the one of
   mtd_write_data, then go round for ever (mi_loader.c:794-841,
   mi_flash.c:454, 519-524, 586-590). *)
Sound(e) == e.len > 0 /\ (e.mtd => e.len <= Room(e.name))
Sane == \A i \in DOMAIN table : Sound(table[i])
UpdateReturns == at \in {"loop", "mtd"} /\ Sane ~> at \in {"idle", "failed"}
=============================================================================
