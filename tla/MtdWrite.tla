------------------------------ MODULE MtdWrite ------------------------------
(***************************************************************************)
(* mtd_write_data of mi_flash.c: writing into a raw NAND partition, erase  *)
(* block by erase block, around the bad ones.  A chunk that begins or ends *)
(* within a block is merged with what the block holds.  The number of bad  *)
(* blocks met so far is kept from one call to the next, together with the  *)
(* name of the partition, so that the next chunk finds its place.          *)
(***************************************************************************)
EXTENDS Integers, Sequences, FiniteSets

CONSTANTS
  Mtds,       \* the partitions
  NameLen,    \* the length of their names; none is a prefix of another
  EraseSize,  \* erase_size, in bytes
  Blocks,     \* the number of erase blocks of a partition
  NoName,     \* _gCurrentPartitionName is empty
  Unsure,     \* a byte of a block that an MTD call has failed on
  MaxFaults   \* bound: calls that fail

ASSUME MtdAssumption ==
  /\ NoName \notin Mtds /\ NameLen \in [Mtds -> Nat \ {0}]
  /\ EraseSize \in Nat \ {0} /\ Blocks \in Nat \ {0} /\ MaxFaults \in Nat

VARIABLES
  cell,     \* the bytes of each partition
  bad,      \* its bad blocks
  curName,  \* the name last copied to _gCurrentPartitionName
  longest,  \* and the length of the longest one
  skipped,  \* _gCurrentPartitionBadblock
  wpc,      \* where mtd_write_data stands
  wr,       \* its arguments
  pos,      \* its position in the partition
  writein,  \* the bytes it has counted
  mret,     \* what it returned
  faults,   \* MaxFaults budget used
  hurt      \* the blocks an MTD call has failed on (history)

nameVars == <<curName, longest, skipped>>
callVars == <<wpc, wr, pos, writein, mret>>
mtdVars == <<cell, bad, nameVars, callVars, faults, hurt>>

Size == Blocks * EraseSize
Cells == 0..(Size - 1)
BlockOf(c) == c \div EraseSize
Least(a, b) == IF a < b THEN a ELSE b

NoWrite == [part |-> NoName, off |-> 0, data |-> << >>]

Fault == faults < MaxFaults /\ faults' = faults + 1

-----------------------------------------------------------------------------
(* MI_FLASH_MTD_WRITE.  The name is copied without its terminating zero, so
   that behind a name the end of an earlier, longer one remains, and strcmp
   finds it different from then on. *)
WriteBegins(p, off, data) ==
  LET fresh == off = 0 \/ curName # p \/ longest # NameLen[p]
      start == IF fresh THEN 0 ELSE skipped
  IN /\ wpc = "idle" /\ wpc' = "busy"
     /\ wr' = [part |-> p, off |-> off, data |-> data]
     /\ curName' = p /\ skipped' = start
     /\ longest' = IF longest < NameLen[p] THEN NameLen[p] ELSE longest
     /\ pos' = off + start * EraseSize /\ writein' = 0
     /\ UNCHANGED <<cell, bad, mret, faults, hurt>>

Length == Len(wr.data)
Writing == wpc = "busy" /\ writein < Length
OnBadBlock == BlockOf(pos) \in bad[wr.part]

Returns(r) == wpc' = "done" /\ mret' = r

\* Mutant: the bad block is not counted for the next chunk.
SkipForgotten ==
  /\ Writing /\ OnBadBlock
  /\ pos' = pos + EraseSize
  /\ IF pos + EraseSize > Size THEN Returns(-1) ELSE UNCHANGED <<wpc, mret>>
  /\ UNCHANGED <<cell, bad, nameVars, wr, writein, faults, hurt>>

\* MEMGETBADBLOCK; behind the partition's end it finds no bad block.
SkipBadBlock ==
  /\ Writing /\ OnBadBlock
  /\ skipped' = skipped + 1 /\ pos' = pos + EraseSize
  /\ IF pos + EraseSize > Size THEN Returns(-1) ELSE UNCHANGED <<wpc, mret>>
  /\ UNCHANGED <<cell, bad, curName, longest, wr, writein, faults, hurt>>

Within == pos % EraseSize
\* Mutant: a last block that is written in full counts as a part of one.
IsLastAt == writein + EraseSize >= Length
IsLast == writein + EraseSize > Length

\* How many bytes go into this block, and where they begin in the data.
Count ==
  IF Within # 0 THEN Least(EraseSize - Within, Length)
  ELSE IF IsLast THEN (Length + wr.off) % EraseSize
  ELSE EraseSize
From == IF Within # 0 THEN 0 ELSE writein

\* The block as it was read, with the bytes of this chunk.
Merged(c) ==
  LET k == (c % EraseSize) - Within
  IN IF k \in 0..(Count - 1) THEN wr.data[From + k + 1] ELSE cell[wr.part][c]

Program(Byte(_)) ==
  cell' = [cell EXCEPT ![wr.part] =
             [c \in Cells |-> IF BlockOf(c) = BlockOf(pos) THEN Byte(c) ELSE @[c]]]

Spoil(c) == Unsure
Hurts == hurt' = hurt \cup {<<wr.part, BlockOf(pos)>>}

Counted ==
  /\ writein' = IF Within # 0 THEN Count ELSE Least(writein + EraseSize, Length)
  /\ pos' = IF Within # 0 THEN pos + Count
            ELSE IF IsLast THEN pos ELSE pos + EraseSize

OnGoodBlock == Writing /\ ~OnBadBlock /\ pos < Size

\* Behind the end every write() fails, and the loop goes round for ever: no
\* step of the model.
BlockIsWritten ==
  /\ OnGoodBlock
  /\ Program(Merged) /\ Counted
  /\ UNCHANGED <<bad, nameVars, wpc, wr, mret, faults, hurt>>

\* The rest of a block of which this chunk is a part is read first, and nobody
\* looks whether read() failed: what the buffer holds then is written.
Unread(c) ==
  LET k == (c % EraseSize) - Within
  IN IF k \in 0..(Count - 1) THEN wr.data[From + k + 1] ELSE Unsure

ReadFails ==
  /\ OnGoodBlock /\ (Within # 0 \/ IsLast) /\ Fault
  /\ Program(Unread) /\ Counted /\ Hurts
  /\ UNCHANGED <<bad, nameVars, wpc, wr, mret>>

\* Both attempts of MEMERASE fail.  The counter is then beyond 3 (or another
\* one, in the aligned branch), so that the block is not marked bad but
\* written to.
EraseFails ==
  /\ OnGoodBlock /\ Fault
  /\ Program(Spoil) /\ Counted /\ Hurts
  /\ UNCHANGED <<bad, nameVars, wpc, wr, mret>>

\* write() fails after the erase.  The aligned branch tries again; the other
\* one has counted the bytes already, and tries again unless they were the
\* last ones.
WriteFails ==
  /\ OnGoodBlock /\ Fault
  /\ Program(Spoil)
  /\ IF Within # 0 THEN writein' = Count /\ Hurts ELSE UNCHANGED <<writein, hurt>>
  /\ UNCHANGED <<bad, nameVars, wpc, wr, pos, mret>>

WriteEnds ==
  /\ wpc = "busy" /\ writein >= Length
  /\ Returns(writein)
  /\ UNCHANGED <<cell, bad, nameVars, wr, pos, writein, faults, hurt>>

MtdStep ==
  SkipBadBlock \/ BlockIsWritten \/ ReadFails \/ EraseFails \/ WriteFails \/ WriteEnds

-----------------------------------------------------------------------------
(* Where the k-th byte of a partition is, around its bad blocks. *)
Good(p) == (0..(Blocks - 1)) \ bad[p]
Nth(p, n) == CHOOSE b \in Good(p) : Cardinality({g \in Good(p) : g < b}) = n
Place(p, k) == Nth(p, k \div EraseSize) * EraseSize + (k % EraseSize)
Room(p) == Cardinality(Good(p)) * EraseSize

=============================================================================
