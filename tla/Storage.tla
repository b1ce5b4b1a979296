------------------------------- MODULE Storage -------------------------------
(* The storage of the device, part by part: the bytes of a UBI volume, the    *)
(* table of open UBI devices, the devices attached by the names of their MTD  *)
(* partitions, the recovery system's image on its way from a file to the raw  *)
(* NAND, and reading from that.  The parts share no state in the code but     *)
(* descriptors, which UbiSlots has; a property of one of them is a property   *)
(* of the process.                                                            *)
EXTENDS UbiVolume, Sequences

CONSTANTS
  Devices, Vols, SlotMax, Sizes, DeviceBlocks, FdMax, TakenFds,            \* UbiSlots
  Foreign, Free, NoTable,
  MtdNames, MtdMax, DevMax, NoMtd,                                         \* UbiAttach
  Partitions, NameLen, EraseSize, MtdBlocks, NoName,                       \* MtdWrite, MtdRead
  Recovery, Images, BadBlocks, Found, Old, MaxStarts                       \* RecoveryImage

VARIABLES
  inited, slots, device, open, slips, orphans, stale, struck,              \* UbiSlots
  attacher, filled, known, devs, nodes, step, mtd, dev, told, stirred,     \* UbiAttach
  cell, bad, curName, longest, skipped, wpc, wr, wpos, writein, mret, trips, hurt,
  prepared, ready, there, image, file, at, answer, starts,                 \* RecoveryImage
  lost, from, wanted, rpos, readin, block, data, rpc, rret                 \* MtdRead

\* The daemon has descriptor 0 open before it opens a device; memory that was
\* not given is no table, and a free number refers to nothing.
ASSUME TableAssumption ==
  /\ IsFiniteSet(Vols) /\ Sizes \subseteq Nat
  /\ SlotMax \in Nat /\ FdMax \in Nat \ {0} /\ DeviceBlocks \in Nat
  /\ 0 \in TakenFds
  /\ Foreign # Free
  /\ Foreign \notin [dev : Devices, vol : SUBSET Vols]
  /\ Free \notin [dev : Devices, vol : SUBSET Vols]
  /\ NoTable \notin [Vols -> [fd : Int, size : Int]]

\* The names of partitions are a sequence, whose members are numbered from 0.
ASSUME AttachAssumption ==
  /\ Len(MtdNames) \in Nat /\ MtdMax \in Nat /\ DevMax \in Nat
  /\ NoMtd \notin 0..(Len(MtdNames) - 1)

\* The partition that is written is one of the device's, and has blocks.
ASSUME RecoveryAssumption ==
  /\ NoName \notin Partitions /\ NameLen \in [Partitions -> Nat \ {0}]
  /\ EraseSize \in Nat \ {0} /\ MtdBlocks \in Nat \ {0}
  /\ Recovery \in Partitions
  /\ \A i \in Images : Len(i) \in Nat
  /\ \A b \in BadBlocks : b \subseteq 0..(MtdBlocks - 1)

Table ==
  INSTANCE UbiSlots WITH
    Blocks <- DeviceBlocks, Taken <- TakenFds, faults <- slips, left <- orphans

Attaching == INSTANCE UbiAttach WITH inited <- attacher, pc <- step, ret <- told

Updating ==
  INSTANCE RecoveryImage WITH
    Mtds <- Partitions, Blocks <- MtdBlocks,
    pos <- wpos, faults <- trips, inited <- ready, ret <- answer

Reading ==
  INSTANCE MtdRead WITH
    Blocks <- MtdBlocks, Nought <- Unsure,
    bad <- lost, offset <- from, len <- wanted, pos <- rpos, buffer <- block

\* The handles of mi_ubi.c hold their memory and their descriptors.
HandlesHoldTheirs == Table!HandlesHoldTheirs

\* What a handle tells of volumes is so.
TableAgrees == Table!TableAgrees

\* MI_UBI_Open closes descriptor 0 of others, and nothing else is ever closed
\* that belongs to others.
OnlyZeroIsStruck == Table!OnlyZeroIsStruck

\* MI_UBI_Detach takes away the device of the partition it was asked to.
DetachesNamed == Attaching!DetachesNamed

\* MI_FLASH_MTD_READ returns what MI_FLASH_MTD_WRITE has written.
ReadsBack == Reading!ReadsBack

\* ms_update_recovery removes its file when the partition holds the image.
ImageNotLost == Updating!ImageNotLost
=============================================================================
