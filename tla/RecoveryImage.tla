---------------------------- MODULE RecoveryImage ----------------------------
(***************************************************************************)
(* ms_update_recovery of mi_loader.c: the image of the recovery system,    *)
(* which an update has left as a file, is written into its MTD partition,  *)
(* and the file is removed.  The device may lose its power at any time; it *)
(* then starts again, and the file is looked for again.                    *)
(***************************************************************************)
EXTENDS MtdWrite

CONSTANTS
  Recovery,   \* RECOVERY_PARTITION_NAME
  Images,     \* what the file may hold
  BadBlocks,  \* which blocks of the partition may be bad
  Found,      \* whether the partition may be there or not
  Old,        \* a byte from before
  MaxStarts   \* bound: starts of the device

VARIABLES
  prepared,   \* has_prepare_ota
  inited,     \* _bIsUBIModuleInit
  there,      \* mtd_find_partition_by_name finds the partition
  image,      \* the bytes of the image
  file,       \* RECOVERY_IMAGE exists
  at,         \* "idle", or "writing" within MI_FLASH_MTD_WRITE
  ret,        \* what ms_update_recovery returned
  starts      \* MaxStarts budget used

loaderVars == <<prepared, inited, there, image, file, at, ret, starts>>
vars == <<mtdVars, loaderVars>>

Init ==
  /\ cell = [p \in Mtds |-> [c \in Cells |-> Old]]
  /\ bad \in [Mtds -> BadBlocks]
  /\ curName = NoName /\ longest = 0 /\ skipped = 0
  /\ wpc = "idle" /\ wr = NoWrite /\ pos = 0 /\ writein = 0 /\ mret = 0
  /\ faults = 0 /\ hurt = {}
  /\ prepared = FALSE /\ inited = FALSE
  /\ there \in Found /\ image \in Images /\ file \in BOOLEAN
  /\ at = "idle" /\ ret = 0 /\ starts = 0

\* prepare_ota; a second call fails at MI_UBI_Init, and has taken back what the
\* first one has set.
Prepare ==
  /\ at = "idle"
  /\ \/ ~inited /\ inited' = TRUE /\ prepared' \in BOOLEAN
     \/ prepared' = FALSE /\ UNCHANGED inited
  /\ UNCHANGED <<mtdVars, there, image, file, at, ret, starts>>

\* Nothing is done without prepare_ota, a file and memory for it.
NotUpdated ==
  /\ at = "idle"
  /\ \/ ~prepared /\ ret' = 0
     \/ prepared /\ ~file /\ ret' = 1
     \/ prepared /\ file /\ ret' = -1
  /\ UNCHANGED <<mtdVars, prepared, inited, there, image, file, at, starts>>

UpdateRecovery ==
  /\ at = "idle" /\ prepared /\ file /\ there
  /\ WriteBegins(Recovery, 0, image)
  /\ at' = "writing"
  /\ UNCHANGED <<prepared, inited, there, image, file, ret, starts>>

Writes ==
  /\ at = "writing" /\ MtdStep
  /\ UNCHANGED loaderVars

\* "MI_FLASH_MTD_WRITE(...) > 0": the result is unsigned, so that -1 is greater.
\* The result of "rm" is not looked at.
Taken(r) ==
  IF r # 0 THEN ret' = 1 /\ file' \in {FALSE, file} ELSE ret' = -1 /\ UNCHANGED file

\* The partition is not found, or mtd_write_data cannot open it.
WriteRefused ==
  /\ at = "idle" /\ prepared /\ file
  /\ Fault \/ (~there /\ UNCHANGED faults)
  /\ Taken(-1)
  /\ UNCHANGED <<cell, bad, nameVars, callVars, hurt, prepared, inited, there, image, at, starts>>

UpdateEnds ==
  /\ at = "writing" /\ wpc = "done"
  /\ at' = "idle" /\ wpc' = "idle"
  /\ Taken(mret)
  /\ UNCHANGED <<cell, bad, nameVars, wr, pos, writein, mret, faults, hurt,
                 prepared, inited, there, image, starts>>

\* The power fails: a block that is being written holds anything.
Restart ==
  /\ starts < MaxStarts /\ starts' = starts + 1
  /\ \/ at = "writing" /\ OnGoodBlock /\ Program(Spoil)
     \/ UNCHANGED cell
  /\ curName' = NoName /\ longest' = 0 /\ skipped' = 0
  /\ wpc' = "idle" /\ wr' = NoWrite /\ pos' = 0 /\ writein' = 0 /\ mret' = 0
  /\ prepared' = FALSE /\ inited' = FALSE /\ at' = "idle" /\ ret' = 0
  /\ UNCHANGED <<bad, faults, hurt, there, image, file>>

Next ==
  Prepare \/ NotUpdated \/ UpdateRecovery \/ Writes \/ WriteRefused \/ UpdateEnds \/ Restart

Spec == Init /\ [][Next]_vars

-----------------------------------------------------------------------------
(* Properties *)

InPlace ==
  Len(image) <= Room(Recovery)
    /\ \A k \in 1..Len(image) : cell[Recovery][Place(Recovery, k - 1)] = image[k]

\* The file with the recovery system is removed only when the partition holds
\* it to the last byte, wherever its bad blocks are and however often the power
\* failed before; but also when MI_FLASH_MTD_WRITE has returned -1, or an erase,
\* read or write failure was passed over in mtd_write_data.
ImageNotLost ==
  [][file /\ ~file' => InPlace \/ WriteRefused \/ mret = -1 \/ hurt # {}]_vars
=============================================================================
