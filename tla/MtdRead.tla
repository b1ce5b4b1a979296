------------------------------- MODULE MtdRead -------------------------------
(***************************************************************************)
(* mtd_read_data of mi_flash.c: reading from a raw NAND partition, erase   *)
(* block by erase block, around the bad ones.  Unlike mtd_write_data it    *)
(* counts only the bad blocks it meets itself.  A byte of the partition is *)
(* its position.                                                           *)
(***************************************************************************)
EXTENDS Integers, Sequences, FiniteSets

CONSTANTS
  EraseSize,  \* erase_size, in bytes
  Blocks,     \* the number of erase blocks of the partition
  Nought      \* a byte that no read() has put into the buffer

Size == Blocks * EraseSize
BlockOf(c) == c \div EraseSize

VARIABLES
  bad,      \* the bad blocks
  offset,   \* u32StartOffset
  len,      \* u32Length
  pos,      \* the position
  readin,   \* the bytes that are counted
  buffer,   \* the block that was read
  data,     \* the caller's buffer, as far as it is filled
  rpc,      \* "busy" or "done"
  rret      \* what mtd_read_data returned

vars == <<bad, offset, len, pos, readin, buffer, data, rpc, rret>>

Init ==
  /\ bad \in SUBSET (0..(Blocks - 1))
  /\ offset \in 0..(Size - 1) /\ len \in 0..Size
  /\ pos = offset /\ readin = 0
  /\ buffer = [i \in 1..EraseSize |-> Nought] /\ data = << >>
  /\ rpc = "busy" /\ rret = 0

Reading == rpc = "busy" /\ readin < len
OnBadBlock == BlockOf(pos) \in bad
Within == pos % EraseSize
Call == <<bad, offset, len>>

\* MEMGETBADBLOCK; behind the partition's end it finds no bad block.
SkipBadBlock ==
  /\ Reading /\ OnBadBlock
  /\ pos' = pos + EraseSize
  /\ IF pos + EraseSize > Size THEN rpc' = "done" /\ rret' = -1
       ELSE UNCHANGED <<rpc, rret>>
  /\ UNCHANGED <<Call, readin, buffer, data>>

\* read(fd, buffer, n), whose result nobody looks at: at the partition's end it
\* returns nothing, and the buffer keeps the block before.
Take(n) ==
  buffer' = [i \in 1..EraseSize |->
               IF i <= n /\ pos + i - 1 < Size THEN pos + i - 1 ELSE buffer[i]]

\* Mutant: the rest of the first block is copied whole.
FirstPieceWhole ==
  /\ Reading /\ ~OnBadBlock /\ Within # 0
  /\ Take(EraseSize - Within)
  /\ data' = SubSeq(buffer', 1, EraseSize - Within)
  /\ readin' = EraseSize - Within
  /\ pos' = pos + EraseSize - Within
  /\ UNCHANGED <<Call, rpc, rret>>

FirstPiece ==
  /\ Reading /\ ~OnBadBlock /\ Within # 0
  /\ Take(EraseSize - Within)
  /\ readin' = IF EraseSize - Within > len THEN len ELSE EraseSize - Within
  /\ data' = SubSeq(buffer', 1, readin')
  /\ pos' = pos + readin'
  /\ UNCHANGED <<Call, rpc, rret>>

WholeBlock ==
  /\ Reading /\ ~OnBadBlock /\ Within = 0 /\ readin + EraseSize <= len
  /\ Take(EraseSize)
  /\ data' = data \o buffer'
  /\ readin' = readin + EraseSize /\ pos' = pos + EraseSize
  /\ UNCHANGED <<Call, rpc, rret>>

LastPiece ==
  /\ Reading /\ ~OnBadBlock /\ Within = 0 /\ readin + EraseSize > len
  /\ Take(EraseSize)
  /\ data' = data \o SubSeq(buffer', 1, (len + offset) % EraseSize)
  /\ readin' = len
  /\ UNCHANGED <<Call, pos, rpc, rret>>

Ends ==
  /\ rpc = "busy" /\ ~(readin < len)
  /\ rpc' = "done" /\ rret' = readin
  /\ UNCHANGED <<Call, pos, readin, buffer, data>>

\* malloc or open() fails.
NotOpened ==
  /\ rpc = "busy" /\ readin = 0 /\ pos = offset
  /\ rpc' = "done" /\ rret' = -1
  /\ UNCHANGED <<Call, pos, readin, buffer, data>>

Next == SkipBadBlock \/ FirstPiece \/ WholeBlock \/ LastPiece \/ Ends \/ NotOpened

Spec == Init /\ [][Next]_vars

-----------------------------------------------------------------------------
(* Where mtd_write_data has put the k-th byte, if no block before the one of
   the offset is bad: around the bad blocks. *)
Good == {b \in BlockOf(offset)..(Blocks - 1) : b \notin bad}
Nth(n) == CHOOSE b \in Good : Cardinality({g \in Good : g < b}) = n
Place(k) == Nth(BlockOf(k) - BlockOf(offset)) * EraseSize + (k % EraseSize)
Fits == len = 0 \/ BlockOf(offset + len - 1) - BlockOf(offset) < Cardinality(Good)

(* Properties *)

\* MI_FLASH_MTD_READ returns the bytes that MI_FLASH_MTD_WRITE has put from the
\* offset on, in their order, all that were asked for and no more, wherever the
\* range begins and ends and whichever blocks in it are bad.  A range that the
\* good blocks left do not hold fails, or is filled up with bytes of its end.
ReadsBack ==
  rpc = "done" /\ rret # -1 =>
    /\ rret = len /\ Len(data) = len
    /\ Fits => \A i \in 1..len : data[i] = Place(offset + i - 1)
=============================================================================
