-------------------------- MODULE OtaUpdateProofs --------------------------
(***************************************************************************)
(* Proofs about OtaUpdate, for images, partitions and bad blocks of any    *)
(* kind.  LoaderInv says what a piece that is being written to an MTD      *)
(* partition belongs to; CursorInv relates the cursor over the image to    *)
(* what was handed over and written; BootInv rests on AimInv, the          *)
(* arithmetic of mtd_write_data, by which a block only takes bytes of the  *)
(* chunk; ImageInv counts the bad blocks before each byte's place.         *)
(***************************************************************************)
EXTENDS OtaUpdate, FiniteSetTheorems, TLAPS

-----------------------------------------------------------------------------
(* The piece that is being written is the one the cursor stands at. *)
AtPiece ==
  /\ First # {} /\ Concerns(Here) /\ Here.mtd
  /\ wr.part = Here.name /\ cur < total /\ left > 0

LoaderInv ==
  /\ table \in Tables \cup {<< >>}
  /\ cell = [p \in Mtds |-> cell[p]]
  /\ mode \in {0, 1}
  /\ at = "mtd" => AtPiece

(* get_date_write_info, when it finds an entry, returns one of the table. *)
LEMMA HereIsEntry ==
  ASSUME table \in Tables \cup {<< >>}, First # {}
  PROVE  /\ Index \in DOMAIN table /\ Hit(Index) /\ Here \in Entries
         /\ table \in Tables
         /\ Here.mtd <=> Here.name \in Mtds
<1>1. Index \in First
  BY DEF Index
<1>2. Index \in DOMAIN table /\ Hit(Index)
  BY <1>1 DEF First
<1>3. table \in Tables
  BY <1>2
<1>4. table \in Seq(Entries)
  BY <1>3, OtaAssumption
<1>5. Here \in Entries
  BY <1>2, <1>4 DEF Here
<1>6. Here.mtd <=> Here.name \in Mtds
  BY <1>2, <1>3, OtaAssumption DEF Here
<1> QED BY <1>2, <1>3, <1>5, <1>6

(* The entry stays the same as long as the table and the cursor do. *)
LEMMA SameEntry ==
  ASSUME UNCHANGED <<table, cur>>
  PROVE  First' = First /\ Index' = Index /\ Here' = Here
<1>1. First' = First
  BY DEF First, Hit
<1> QED BY <1>1 DEF Index, Here

LEMMA InMtdKeepsPiece ==
  ASSUME LoaderInv, at = "mtd", UNCHANGED <<table, cur, mode, total, left, wr>>
  PROVE  AtPiece'
<1>1. First' = First /\ Index' = Index /\ Here' = Here
  BY SameEntry
<1> QED BY <1>1 DEF LoaderInv, AtPiece, Concerns

(* A step of mtd_write_data changes no partition but its own. *)
LEMMA MtdStepCells ==
  ASSUME cell = [p \in Mtds |-> cell[p]], MtdStep
  PROVE  /\ cell' = [p \in Mtds |-> cell'[p]]
         /\ \A p \in Mtds : cell'[p] # cell[p] => p = wr.part
         /\ wr' = wr /\ bad' = bad
BY Zenon DEF MtdStep, SkipBadBlock, BlockIsWritten, ReadFails, EraseFails, WriteFails, WriteEnds,
      Program, nameVars, Returns

LEMMA LoaderInit == Init => LoaderInv
BY DEF Init, LoaderInv

LEMMA LoaderStep == LoaderInv /\ [Next]_vars => LoaderInv'
<1> SUFFICES ASSUME LoaderInv, [Next]_vars PROVE LoaderInv'
  OBVIOUS
<1>1. CASE UNCHANGED vars
  <2>1. UNCHANGED <<table, cur, mode, total, left, wr, at, cell>>
    BY <1>1 DEF vars, otaVars, tableVars, chunkVars, mtdVars, callVars
  <2> QED BY <2>1, InMtdKeepsPiece DEF LoaderInv
<1>2. ASSUME NEW t \in Tables, Parse(t) PROVE LoaderInv'
  BY <1>2 DEF Parse, LoaderInv, mtdVars
<1>3. ASSUME NEW n \in Chunks, Hand(n) PROVE LoaderInv'
  BY <1>3 DEF Hand, LoaderInv, mtdVars, tableVars
<1>4. CASE LoopEnds \/ NoEntry \/ RefuseMtd
  BY <1>4 DEF LoopEnds, NoEntry, RefuseMtd, Answer, LoaderInv, mtdVars, tableVars
<1>5. CASE PassOver
  BY <1>5 DEF PassOver, Advance, LoaderInv, mtdVars, tableVars
<1>6. CASE MtdBegins
  <2>1. /\ First # {} /\ Concerns(Here) /\ Here.mtd /\ cur < total /\ left > 0
        /\ UNCHANGED <<table, cur, mode, total, left, cell>>
        /\ wr' = [part |-> Here.name, off |-> has[Index], data |-> Image(cur, PieceLen)]
    BY <1>6 DEF MtdBegins, AtMtd, AtEntry, InLoop, WriteBegins, tableVars, chunkVars
  <2>2. wr'.part = Here.name
    BY <2>1
  <2>3. First' = First /\ Index' = Index /\ Here' = Here
    BY <2>1, SameEntry
  <2>4. AtPiece'
    BY <2>1, <2>2, <2>3 DEF AtPiece, Concerns
  <2> QED BY <2>1, <2>4 DEF LoaderInv
<1>7. CASE CommandFails
  BY <1>7 DEF CommandFails, Answer, LoaderInv, tableVars
<1>8. CASE InMtd
  <2>1. UNCHANGED <<table, cur, mode, total, left, at>> /\ at = "mtd" /\ MtdStep
    BY <1>8 DEF InMtd, otaVars, tableVars, chunkVars
  <2>2. wr' = wr /\ cell' = [p \in Mtds |-> cell'[p]]
    BY <2>1, MtdStepCells DEF LoaderInv
  <2> QED BY <2>1, <2>2, InMtdKeepsPiece DEF LoaderInv
<1>9. CASE MtdEnds
  BY <1>9 DEF MtdEnds, Answer, Advance, LoaderInv, tableVars
<1>10. CASE RemoveVolume \/ WriteVolume
  BY <1>10 DEF RemoveVolume, WriteVolume, Advance, LoaderInv, mtdVars, tableVars
<1>11. CASE RefuseVolume \/ VolumeFails
  BY <1>11 DEF RefuseVolume, VolumeFails, Answer, LoaderInv, mtdVars, tableVars
<1> QED
  BY <1>1, <1>2, <1>3, <1>4, <1>5, <1>6, <1>7, <1>8, <1>9, <1>10, <1>11 DEF Next, Loader

-----------------------------------------------------------------------------
(* The running system is not touched. *)
KeptStep ==
  /\ \A p \in Mtds : cell'[p] # cell[p] => ((mode = 0) <=> (p = Recovery))
  /\ mode = 0 => vols' = vols

LEMMA UbiKeeps ==
  ASSUME LoaderInv, AtUbi, UNCHANGED cell
  PROVE  KeptStep
<1>1. First # {} /\ Concerns(Here) /\ ~Here.mtd
  BY DEF AtUbi, AtEntry
<1>2. Here.name \notin Mtds
  BY <1>1, HereIsEntry DEF LoaderInv
<1>3. mode # 0
  BY <1>1, <1>2, OtaAssumption DEF Concerns
<1> QED BY <1>3 DEF KeptStep

LEMMA KeepingStep == LoaderInv /\ [Next]_vars => KeptStep
<1> SUFFICES ASSUME LoaderInv, [Next]_vars PROVE KeptStep
  OBVIOUS
<1>1. CASE UNCHANGED vars
  BY <1>1 DEF vars, otaVars, mtdVars, KeptStep
<1>2. ASSUME NEW t \in Tables, Parse(t) PROVE KeptStep
  BY <1>2 DEF Parse, mtdVars, KeptStep
<1>3. ASSUME NEW n \in Chunks, Hand(n) PROVE KeptStep
  BY <1>3 DEF Hand, mtdVars, KeptStep
<1>4. CASE LoopEnds \/ NoEntry \/ RefuseMtd \/ PassOver
  BY <1>4 DEF LoopEnds, NoEntry, RefuseMtd, PassOver, mtdVars, KeptStep
<1>5. CASE MtdBegins \/ CommandFails \/ MtdEnds
  BY <1>5 DEF MtdBegins, WriteBegins, CommandFails, MtdEnds, KeptStep
<1>6. CASE InMtd
  <2>1. MtdStep /\ at = "mtd" /\ vols' = vols
    BY <1>6 DEF InMtd, otaVars
  <2>2. \A p \in Mtds : cell'[p] # cell[p] => p = wr.part
    BY <2>1, MtdStepCells DEF LoaderInv
  <2>3. (mode = 0) <=> (wr.part = Recovery)
    BY <2>1 DEF LoaderInv, AtPiece, Concerns
  <2> QED BY <2>1, <2>2, <2>3 DEF KeptStep
<1>7. CASE RemoveVolume \/ WriteVolume \/ RefuseVolume \/ VolumeFails
  <2>1. AtUbi /\ UNCHANGED cell
    BY <1>7 DEF RemoveVolume, WriteVolume, RefuseVolume, VolumeFails, mtdVars
  <2> QED BY <2>1, UbiKeeps
<1> QED
  BY <1>1, <1>2, <1>3, <1>4, <1>5, <1>6, <1>7 DEF Next, Loader

THEOREM LoaderInvHolds == Spec => []LoaderInv
<1> QED BY LoaderInit, LoaderStep, PTL DEF Spec

(* An update never writes to what the device runs from, whatever the image
   holds, however it is cut, and whatever fails. *)
THEOREM RunningSystemIsKept == Spec => RunningSystemKept
<1>1. LoaderInv /\ [Next]_vars => [KeptStep]_vars
  BY KeepingStep
<1>2. Spec => [][KeptStep]_vars
  BY <1>1, LoaderInvHolds, PTL DEF Spec
<1> QED BY <1>2 DEF RunningSystemKept, KeptStep

-----------------------------------------------------------------------------
(* The cursor.  A table is laid out soundly if no two entries share a byte,
   all of them lie within data_total_size, and an entry to be removed has no
   data. *)
Layout ==
  \A t \in Tables :
    /\ TotalLen(t) \in Nat
    /\ \A i \in DOMAIN t :
         /\ t[i].off + t[i].len <= TotalLen(t)
         /\ t[i].how = "remove" => t[i].len = 0
         /\ \A j \in DOMAIN t : i # j =>
              t[i].off + t[i].len <= t[j].off \/ t[j].off + t[j].len <= t[i].off

CursorTypes ==
  /\ has \in [DOMAIN table -> Nat]
  /\ cur \in Nat /\ left \in Nat /\ next \in Nat /\ total \in Nat
  /\ at # "start" => table \in Tables /\ total = TotalLen(table)

CursorInv ==
  /\ CursorTypes
  /\ CursorAgrees
  /\ table \in Tables \cup {<< >>} /\ (at = "start" => table = << >>)
  /\ at \in {"start", "idle", "loop", "mtd", "failed"}
  /\ at \in {"loop", "mtd"} => cur + left = next
  /\ at = "idle" => cur = next \/ (total <= cur /\ cur <= next)

LEMMA EntryTypes ==
  ASSUME NEW t \in Tables, NEW i \in DOMAIN t
  PROVE  t[i].off \in Nat /\ t[i].len \in Nat
<1>1. t \in Seq(Entries)
  BY OtaAssumption
<1>2. t[i] \in Entries
  BY <1>1
<1> QED BY <1>2 DEF Entries

(* Moving the cursor over a piece, and counting it, keeps them in step. *)
LEMMA PieceCounts ==
  ASSUME Layout, CursorInv, First # {}, cur < total, left > 0,
         table' = table, cur' = cur + PieceLen, left' = left - PieceLen,
         \/ has' = [has EXCEPT ![Index] = @ + PieceLen]
         \/ has' = has /\ Here.how = "remove"
  PROVE  /\ CursorAgrees' /\ has' \in [DOMAIN table -> Nat]
         /\ cur' \in Nat /\ left' \in Nat /\ cur' + left' = cur + left
<1>1. Index \in DOMAIN table /\ Hit(Index) /\ table \in Tables
  BY HereIsEntry DEF CursorInv
<1> DEFINE e == table[Index]
<1>2. e.off \in Nat /\ e.len \in Nat /\ has[Index] \in Nat /\ cur \in Nat /\ left \in Nat
  BY <1>1, EntryTypes DEF CursorInv, CursorTypes
<1>3. has[Index] = cur - e.off /\ cur >= e.off /\ cur <= e.off + e.len
  BY <1>1, <1>2 DEF CursorInv, CursorAgrees, Passed, Least, Hit
<1>4. PieceLen \in Nat /\ PieceLen <= left /\ PieceLen <= e.len - has[Index]
  BY <1>2, <1>3 DEF PieceLen, Here, Least
<1>5. cur' = cur + PieceLen /\ cur' <= e.off + e.len /\ cur' \in Nat /\ left' \in Nat
  BY <1>2, <1>3, <1>4
<1>6. has' = [has EXCEPT ![Index] = @ + PieceLen]
  <2>1. CASE has' = has /\ Here.how = "remove"
    <3>1. e.len = 0
      BY <1>1, <2>1 DEF Layout, Here
    <3>2. PieceLen = 0
      BY <1>2, <1>3, <1>4, <3>1
    <3>3. has = [has EXCEPT ![Index] = @ + PieceLen]
      BY <1>1, <1>2, <3>2 DEF CursorInv, CursorTypes
    <3> QED BY <2>1, <3>3
  <2> QED BY <2>1
<1>7. has'[Index] = has[Index] + PieceLen /\ has' \in [DOMAIN table -> Nat]
  BY <1>1, <1>2, <1>4, <1>6 DEF CursorInv, CursorTypes
<1>8. ASSUME NEW i \in DOMAIN table PROVE has'[i] = Passed(table[i])'
  <2>1. CASE i = Index
    BY <1>2, <1>3, <1>4, <1>5, <1>7, <2>1 DEF Passed, Least
  <2>2. CASE i # Index
    <3>1. table[i].off \in Nat /\ table[i].len \in Nat
      BY <1>1, EntryTypes
    <3>2. e.off + e.len <= table[i].off \/ table[i].off + table[i].len <= e.off
      BY <1>1, <2>2 DEF Layout
    <3>3. has'[i] = has[i] /\ has[i] = Passed(table[i])
      BY <1>1, <1>6, <2>2 DEF CursorInv, CursorTypes, CursorAgrees
    <3>4. Passed(table[i])' = Passed(table[i])
      BY <1>2, <1>3, <1>4, <1>5, <3>1, <3>2 DEF Passed, Least
    <3> QED BY <3>3, <3>4
  <2> QED BY <2>1, <2>2
<1>9. CursorAgrees'
  BY <1>8 DEF CursorAgrees
<1> QED BY <1>2, <1>4, <1>5, <1>7, <1>9

(* The next chunk begins where the last one ended, or behind the data. *)
LEMMA ChunkCounts ==
  ASSUME Layout, CursorInv, at = "idle", table' = table, has' = has, cur' = next
  PROVE  CursorAgrees'
<1>1. CASE cur = next
  BY <1>1 DEF CursorInv, CursorAgrees, Passed
<1>2. CASE total <= cur /\ cur <= next
  <2> SUFFICES ASSUME NEW i \in DOMAIN table PROVE has[i] = Passed(table[i])'
    BY DEF CursorAgrees
  <2>1. table \in Tables
    BY DEF CursorInv, CursorTypes
  <2>2. table[i].off \in Nat /\ table[i].len \in Nat /\ table[i].off + table[i].len <= total
    BY <2>1, EntryTypes DEF Layout, CursorInv, CursorTypes
  <2>3. has[i] = Passed(table[i]) /\ cur \in Nat /\ next \in Nat /\ total \in Nat
    BY DEF CursorInv, CursorTypes, CursorAgrees
  <2> QED BY <1>2, <2>2, <2>3 DEF Passed, Least
<1> QED BY <1>1, <1>2 DEF CursorInv

LEMMA CursorInit == Init => CursorInv
BY DEF Init, CursorInv, CursorTypes, CursorAgrees

(* A step that moves neither the cursor nor what it is compared with. *)
LEMMA CursorRests ==
  ASSUME CursorInv, UNCHANGED <<table, total, has, next, cur, left>>, at # "start",
         \/ at' = at
         \/ at' = "failed"
         \/ at' = "mtd" /\ at = "loop"
         \/ at' = "idle" /\ at = "loop" /\ (left = 0 \/ cur >= total)
  PROVE  CursorInv'
<1>1. CursorAgrees'
  BY DEF CursorInv, CursorAgrees, Passed
<1> QED BY <1>1 DEF CursorInv, CursorTypes

LEMMA CursorMoves ==
  ASSUME Layout, CursorInv, First # {}, cur < total, left > 0, at \in {"loop", "mtd"},
         UNCHANGED <<table, total>>, Advance,
         Wrote \/ (has' = has /\ Here.how = "remove")
  PROVE  CursorInv'
<1>1. /\ table' = table /\ cur' = cur + PieceLen /\ left' = left - PieceLen
      /\ next' = next /\ at' = "loop" /\ total' = total
  BY DEF Advance
<1>2. \/ has' = [has EXCEPT ![Index] = @ + PieceLen]
      \/ has' = has /\ Here.how = "remove"
  BY DEF Wrote
<1>3. /\ CursorAgrees' /\ has' \in [DOMAIN table -> Nat]
      /\ cur' \in Nat /\ left' \in Nat /\ cur' + left' = cur + left
  BY <1>1, <1>2, PieceCounts
<1> QED BY <1>1, <1>3 DEF CursorInv, CursorTypes

LEMMA CursorStep == Layout /\ LoaderInv /\ CursorInv /\ [Next]_vars => CursorInv'
<1> SUFFICES ASSUME Layout, LoaderInv, CursorInv, [Next]_vars PROVE CursorInv'
  OBVIOUS
<1>1. CASE UNCHANGED vars
  BY <1>1 DEF vars, otaVars, tableVars, chunkVars, CursorInv, CursorTypes, CursorAgrees, Passed
<1>2. ASSUME NEW t \in Tables, Parse(t) PROVE CursorInv'
  <2>1. /\ table' = t /\ has' = [i \in DOMAIN t |-> 0] /\ total' = TotalLen(t)
        /\ at' = "idle" /\ next' = 0 /\ cur' = 0 /\ left' = 0
    BY <1>2 DEF Parse
  <2>2. CursorAgrees'
    <3> SUFFICES ASSUME NEW i \in DOMAIN t PROVE 0 = Passed(t[i])'
      BY <2>1 DEF CursorAgrees
    <3>1. t[i].off \in Nat
      BY EntryTypes
    <3> QED BY <2>1, <3>1 DEF Passed
  <2> QED BY <2>1, <2>2 DEF CursorInv, CursorTypes, Layout
<1>3. ASSUME NEW n \in Chunks, Hand(n) PROVE CursorInv'
  <2>1. /\ at = "idle" /\ at' = "loop" /\ cur' = next /\ left' = n /\ next' = next + n
        /\ UNCHANGED <<table, has, total>>
    BY <1>3 DEF Hand, tableVars
  <2>2. CursorAgrees'
    BY <2>1, ChunkCounts
  <2>3. n \in Nat
    BY OtaAssumption
  <2> QED BY <2>1, <2>2, <2>3 DEF CursorInv, CursorTypes
<1>4. CASE LoopEnds \/ NoEntry \/ RefuseMtd
  <2>1. UNCHANGED <<table, total, has, next, cur, left>> /\ at = "loop"
    BY <1>4 DEF LoopEnds, NoEntry, RefuseMtd, AtMtd, AtEntry, InLoop, tableVars, chunkVars
  <2>2. at' = "failed" \/ (at' = "idle" /\ (left = 0 \/ cur >= total))
    BY <1>4 DEF LoopEnds, NoEntry, RefuseMtd, Answer
  <2> QED BY <2>1, <2>2, CursorRests
<1>5. CASE PassOver
  BY <1>5, CursorMoves DEF PassOver, AtEntry, InLoop, tableVars
<1>6. CASE MtdBegins
  BY <1>6, CursorRests DEF MtdBegins, AtMtd, AtEntry, InLoop, tableVars, chunkVars
<1>7. CASE CommandFails
  BY <1>7, CursorRests DEF CommandFails, Answer, AtMtd, AtEntry, InLoop, tableVars, chunkVars
<1>8. CASE InMtd
  BY <1>8, CursorRests DEF InMtd, otaVars, tableVars, chunkVars
<1>9. CASE MtdEnds
  <2>1. at = "mtd" /\ First # {} /\ cur < total /\ left > 0 /\ UNCHANGED <<table, total>>
    BY <1>9 DEF MtdEnds, LoaderInv, AtPiece, tableVars
  <2>2. CASE Wrote /\ Advance
    BY <2>1, <2>2, CursorMoves
  <2>3. CASE Answer(0) /\ UNCHANGED <<has, chunkVars>>
    BY <2>1, <2>3, CursorRests DEF Answer, chunkVars
  <2> QED BY <1>9, <2>2, <2>3 DEF MtdEnds
<1>10. CASE RemoveVolume
  BY <1>10, CursorMoves DEF RemoveVolume, AtUbi, AtEntry, InLoop, tableVars
<1>11. CASE WriteVolume
  BY <1>11, CursorMoves DEF WriteVolume, AtUbi, AtEntry, InLoop, tableVars
<1>12. CASE RefuseVolume \/ VolumeFails
  BY <1>12, CursorRests DEF RefuseVolume, VolumeFails, Answer, AtUbi, AtEntry, InLoop,
                            tableVars, chunkVars
<1> QED
  BY <1>1, <1>2, <1>3, <1>4, <1>5, <1>6, <1>7, <1>8, <1>9, <1>10, <1>11, <1>12
  DEF Next, Loader

(* For every table that is laid out soundly and every way of cutting the
   image, what is counted as written of each entry is what the cursor has
   passed of it. *)
THEOREM CursorIsRight == ASSUME Layout PROVE Spec => []CursorAgrees
<1>1. LoaderInv /\ CursorInv /\ [Next]_vars => CursorInv'
  BY CursorStep
<1>2. CursorInv => CursorAgrees
  BY DEF CursorInv
<1> QED BY <1>1, <1>2, CursorInit, LoaderInvHolds, PTL DEF Spec

-----------------------------------------------------------------------------
(* Arithmetic modulo EraseSize. *)
LEMMA ModDef ==
  ASSUME NEW a \in Nat
  PROVE  /\ a % EraseSize \in 0..(EraseSize - 1) /\ a \div EraseSize \in Nat
         /\ a = (a \div EraseSize) * EraseSize + (a % EraseSize)
BY MtdAssumption, SMT

LEMMA ModMono ==
  ASSUME NEW p \in Int, NEW q \in Int, p < q
  PROVE  p * EraseSize + EraseSize <= q * EraseSize
<1>1. q - p - 1 \in Nat
  OBVIOUS
<1>2. (q - p - 1) * EraseSize \in Nat
  BY <1>1, MtdAssumption
<1>3. (q - p - 1) * EraseSize = q * EraseSize - p * EraseSize - EraseSize
  BY MtdAssumption
<1> QED BY <1>2, <1>3, MtdAssumption

LEMMA ModIs ==
  ASSUME NEW a \in Nat, NEW q \in Int, NEW r \in 0..(EraseSize - 1),
         a = q * EraseSize + r
  PROVE  a % EraseSize = r
<1>1. PICK p \in Nat, s \in 0..(EraseSize - 1) : a = p * EraseSize + s /\ s = a % EraseSize
  BY ModDef, MtdAssumption
<1>2. p * EraseSize \in Int /\ q * EraseSize \in Int
  BY <1>1, MtdAssumption
<1>3. ~(p < q) /\ ~(q < p)
  BY <1>1, <1>2, ModMono, MtdAssumption
<1>4. p = q
  BY <1>1, <1>3
<1>5. p * EraseSize + s = p * EraseSize + r
  BY <1>1, <1>4
<1>6. ASSUME NEW x \in Int, x + s = x + r PROVE s = r
  BY <1>1, <1>6, MtdAssumption
<1>7. s = r
  BY <1>2, <1>5, <1>6
<1> QED BY <1>1, <1>7

LEMMA ModAdd ==
  ASSUME NEW a \in Nat, NEW k \in Nat
  PROVE  (a + k * EraseSize) % EraseSize = a % EraseSize
<1>1. PICK p \in Nat, s \in 0..(EraseSize - 1) : a = p * EraseSize + s /\ s = a % EraseSize
  BY ModDef, MtdAssumption
<1>2. a + k * EraseSize = (p + k) * EraseSize + s
  BY <1>1, MtdAssumption
<1>3. a + k * EraseSize \in Nat /\ p + k \in Int
  BY <1>1, MtdAssumption
<1> QED BY <1>1, <1>2, <1>3, ModIs

LEMMA ModNext ==
  ASSUME NEW a \in Nat
  PROVE  (a + EraseSize) % EraseSize = a % EraseSize
<1>1. a + 1 * EraseSize = a + EraseSize
  BY MtdAssumption
<1> QED BY <1>1, ModAdd

\* From within a block to its end.
LEMMA ModFill ==
  ASSUME NEW a \in Nat
  PROVE  (a + (EraseSize - (a % EraseSize))) % EraseSize = 0
<1>1. PICK p \in Nat, s \in 0..(EraseSize - 1) : a = p * EraseSize + s /\ s = a % EraseSize
  BY ModDef, MtdAssumption
<1>2. a + (EraseSize - s) = (p + 1) * EraseSize + 0
  BY <1>1, MtdAssumption
<1>3. a + (EraseSize - s) \in Nat /\ p + 1 \in Int /\ 0 \in 0..(EraseSize - 1)
  BY <1>1, MtdAssumption
<1> QED BY <1>1, <1>2, <1>3, ModIs

\* A multiple of EraseSize, and less than a block behind it.
LEMMA ModRest ==
  ASSUME NEW a \in Nat, a % EraseSize = 0, NEW d \in 0..(EraseSize - 1)
  PROVE  (a + d) % EraseSize = d
<1>1. PICK p \in Nat : a = p * EraseSize + 0
  BY ModDef, MtdAssumption
<1>2. a + d = p * EraseSize + d /\ a + d \in Nat
  BY <1>1, MtdAssumption
<1> QED BY <1>1, <1>2, ModIs

-----------------------------------------------------------------------------
(* mtd_write_data aims right: where it has come to in the partition and where
   in the data agree modulo a block, as long as there is something left. *)
Aimed ==
  /\ pos \in Nat /\ writein \in Nat /\ wr.off \in Nat /\ Length \in Nat
  /\ writein < Length =>
       IF Within = 0 THEN (wr.off + writein) % EraseSize = 0
       ELSE wr.off % EraseSize = Within

(* So that a block takes no bytes but those of the chunk. *)
LEMMA PieceInData ==
  ASSUME Aimed, writein < Length
  PROVE  Count \in Nat /\ From \in Nat /\ From + Count <= Length
<1>1. Within \in 0..(EraseSize - 1) /\ EraseSize \in Nat
  BY ModDef, MtdAssumption DEF Aimed, Within
<1>2. CASE Within # 0
  BY <1>1, <1>2 DEF Aimed, Count, From, Least
<1>3. CASE Within = 0 /\ ~IsLast
  BY <1>1, <1>3 DEF Aimed, Count, From, IsLast
<1>4. CASE Within = 0 /\ IsLast
  <2>1. Length - writein \in 0..(EraseSize - 1) /\ wr.off + writein \in Nat
    BY <1>1, <1>4 DEF Aimed, IsLast
  <2>2. (wr.off + writein) % EraseSize = 0
    BY <1>4 DEF Aimed
  <2>3. ((wr.off + writein) + (Length - writein)) % EraseSize = Length - writein
    BY <2>1, <2>2, ModRest
  <2>4. (wr.off + writein) + (Length - writein) = Length + wr.off
    BY DEF Aimed
  <2>5. Count = Length - writein /\ From = writein
    BY <1>4, <2>3, <2>4 DEF Count, From
  <2> QED BY <2>1, <2>5 DEF Aimed
<1> QED BY <1>2, <1>3, <1>4

LEMMA CountedAims ==
  ASSUME Aimed, writein < Length, Counted, wr' = wr
  PROVE  Aimed'
<1>1. Within \in 0..(EraseSize - 1) /\ EraseSize \in Nat \ {0} /\ Length' = Length
  BY ModDef, MtdAssumption DEF Aimed, Within, Length
<1>2. CASE Within # 0
  <2>1. writein' = Count /\ pos' = pos + Count /\ Count = Least(EraseSize - Within, Length)
    BY <1>2 DEF Counted, Count
  <2>2. CASE Count = Length
    BY <1>1, <2>1, <2>2 DEF Aimed
  <2>3. CASE Count = EraseSize - Within
    <3>1. (pos + (EraseSize - Within)) % EraseSize = 0
      BY ModFill DEF Aimed, Within
    <3>2. wr.off % EraseSize = Within
      BY <1>2 DEF Aimed
    <3>3. (wr.off + (EraseSize - Within)) % EraseSize = 0
      BY <3>2, ModFill DEF Aimed
    <3>4. Within' = 0 /\ (wr'.off + writein') % EraseSize = 0
      BY <2>1, <2>3, <3>1, <3>3 DEF Within
    <3>5. pos' \in Nat /\ writein' \in Nat
      BY <1>1, <2>1, <2>3 DEF Aimed
    <3> QED BY <1>1, <3>4, <3>5 DEF Aimed
  <2> QED BY <2>1, <2>2, <2>3 DEF Least
<1>3. CASE Within = 0 /\ IsLast
  <2>1. writein' = Length /\ pos' = pos
    BY <1>1, <1>3 DEF Counted, IsLast, Least, Aimed
  <2> QED BY <1>1, <2>1 DEF Aimed
<1>4. CASE Within = 0 /\ ~IsLast
  <2>1. writein' = writein + EraseSize /\ pos' = pos + EraseSize
    BY <1>1, <1>4 DEF Counted, IsLast, Least, Aimed
  <2>2. Within' = 0
    BY <1>4, <2>1, ModNext DEF Aimed, Within
  <2>3. ((wr.off + writein) + EraseSize) % EraseSize = (wr.off + writein) % EraseSize
    BY ModNext DEF Aimed
  <2>4. (wr.off + writein) + EraseSize = wr'.off + writein'
    BY <1>1, <2>1 DEF Aimed
  <2>5. (wr.off + writein) % EraseSize = 0
    BY <1>4 DEF Aimed
  <2> QED BY <1>1, <2>1, <2>2, <2>3, <2>4, <2>5 DEF Aimed
<1> QED BY <1>2, <1>3, <1>4

LEMMA MtdStepAims ==
  ASSUME Aimed, MtdStep
  PROVE  Aimed'
<1>1. CASE SkipBadBlock
  <2>1. pos' = pos + EraseSize /\ UNCHANGED <<wr, writein>>
    BY <1>1 DEF SkipBadBlock
  <2>2. Within' = Within /\ Length' = Length
    BY <2>1, ModNext DEF Within, Length, Aimed
  <2> QED BY <2>1, <2>2, MtdAssumption DEF Aimed
<1>2. CASE BlockIsWritten \/ ReadFails \/ EraseFails
  BY <1>2, CountedAims DEF BlockIsWritten, ReadFails, EraseFails, OnGoodBlock, Writing
<1>3. CASE WriteFails
  <2>1. UNCHANGED <<pos, wr>> /\ writein < Length
        /\ IF Within # 0 THEN writein' = Count ELSE writein' = writein
    BY <1>3 DEF WriteFails, OnGoodBlock, Writing
  <2>2. Within' = Within /\ Length' = Length /\ Count \in Nat
    BY <2>1, PieceInData DEF Within, Length
  <2> QED BY <2>1, <2>2 DEF Aimed
<1>4. CASE WriteEnds
  BY <1>4 DEF WriteEnds, Aimed, Within, Length
<1> QED BY <1>1, <1>2, <1>3, <1>4 DEF MtdStep

-----------------------------------------------------------------------------
(* The boot command.  A table names a partition once; then a kernel of which
   a byte has been written is the one its command was made to load. *)
OnceEach ==
  \A t \in Tables : \A i, j \in DOMAIN t : t[i].name = t[j].name => i = j

BytesUpTo(r) == {Old, Unsure} \cup ((0..r) \X Nat)

AimInv ==
  /\ Aimed /\ skipped \in Nat
  /\ at = "mtd" => wr.data = Image(cur, PieceLen)

BootInv ==
  /\ round \in Nat
  /\ cell \in [Mtds -> [Cells -> BytesUpTo(round)]]
  /\ cmd \in [Named -> Nat]
  /\ \A i \in DOMAIN table :
       table[i].name \in Named /\ BeingWritten(table[i]) => cmd[table[i].name] >= table[i].len
  /\ at = "mtd" /\ Here.name \in Named => cmd[Here.name] >= Here.len

LEMMA PieceNat ==
  ASSUME CursorInv, First # {}
  PROVE  PieceLen \in Nat /\ has[Index] \in Nat /\ Here.len \in Nat
<1>1. Index \in DOMAIN table /\ Hit(Index) /\ table \in Tables
  BY HereIsEntry DEF CursorInv
<1>2. /\ Here.off \in Nat /\ Here.len \in Nat /\ has[Index] \in Nat
      /\ cur \in Nat /\ left \in Nat
  BY <1>1, EntryTypes DEF Here, CursorInv, CursorTypes
<1>3. has[Index] <= Here.len
  BY <1>1, <1>2 DEF CursorInv, CursorAgrees, Passed, Least, Here
<1> QED BY <1>2, <1>3 DEF PieceLen, Least

LEMMA ImageData ==
  ASSUME NEW f \in Nat, NEW n \in Nat
  PROVE  /\ Len(Image(f, n)) = n
         /\ \A k \in 1..n : Image(f, n)[k] = <<round, f + k - 1>>
BY DEF Image

LEMMA AimInit == Init => AimInv
<1> SUFFICES ASSUME Init PROVE AimInv
  OBVIOUS
<1>1. pos = 0 /\ writein = 0 /\ wr.off = 0 /\ wr.data = << >> /\ skipped = 0 /\ at = "start"
  BY DEF Init, NoWrite
<1>2. Length = 0
  BY <1>1 DEF Length
<1> QED BY <1>1, <1>2 DEF AimInv, Aimed

LEMMA SameAim ==
  ASSUME UNCHANGED <<pos, writein, wr>>, Aimed
  PROVE  Aimed'
BY DEF Aimed, Within, Length

LEMMA MtdBeginsAims ==
  ASSUME LoaderInv, CursorInv, AimInv, MtdBegins
  PROVE  AimInv'
<1>1. /\ First # {} /\ UNCHANGED <<table, cur, has, left, round>>
      /\ WriteBegins(Here.name, has[Index], Image(cur, PieceLen))
  BY DEF MtdBegins, AtMtd, AtEntry, tableVars, chunkVars
<1>2. PieceLen \in Nat /\ has[Index] \in Nat /\ cur \in Nat
  BY <1>1, PieceNat DEF CursorInv, CursorTypes
<1>3. PICK start \in Nat :
        /\ pos' = has[Index] + start * EraseSize /\ skipped' = start
        /\ writein' = 0
        /\ wr' = [part |-> Here.name, off |-> has[Index], data |-> Image(cur, PieceLen)]
  BY <1>1 DEF WriteBegins, AimInv
<1>4. wr'.off = has[Index] /\ wr'.data = Image(cur, PieceLen) /\ Length' = PieceLen
  BY <1>2, <1>3, ImageData DEF Length
<1>5. Within' = has[Index] % EraseSize
  BY <1>2, <1>3, ModAdd DEF Within
<1>6. start * EraseSize \in Nat
  BY <1>3, MtdAssumption
<1>7. pos' \in Nat
  BY <1>2, <1>3, <1>6
<1>8. wr'.off + writein' = has[Index]
  BY <1>2, <1>3, <1>4
<1>9. Aimed'
  BY <1>2, <1>3, <1>4, <1>5, <1>7, <1>8 DEF Aimed
<1>10. First' = First /\ Index' = Index /\ Here' = Here
  BY <1>1, SameEntry
<1>11. Image(cur, PieceLen)' = Image(cur, PieceLen)
  BY <1>1, <1>10 DEF Image, PieceLen
<1> QED BY <1>3, <1>4, <1>9, <1>11 DEF AimInv

LEMMA AimStep == LoaderInv /\ CursorInv /\ AimInv /\ [Next]_vars => AimInv'
<1> SUFFICES ASSUME LoaderInv, CursorInv, AimInv, [Next]_vars PROVE AimInv'
  OBVIOUS
<1>1. CASE MtdBegins
  BY <1>1, MtdBeginsAims
<1>2. CASE InMtd
  <2>1. /\ at = "mtd" /\ at' = at /\ MtdStep
        /\ UNCHANGED <<table, cur, has, left, round>>
    BY <1>2 DEF InMtd, otaVars, tableVars, chunkVars
  <2>2. Aimed' /\ wr' = wr
    BY <2>1, MtdStepAims, MtdStepCells DEF AimInv, LoaderInv
  <2>3. skipped' \in Nat
    BY <2>1 DEF MtdStep, SkipBadBlock, BlockIsWritten, ReadFails, EraseFails, WriteFails, WriteEnds,
                nameVars, AimInv
  <2>4. First' = First /\ Index' = Index /\ Here' = Here
    BY <2>1, SameEntry
  <2>5. Image(cur, PieceLen)' = Image(cur, PieceLen)
    BY <2>1, <2>4 DEF Image, PieceLen
  <2> QED BY <2>1, <2>2, <2>3, <2>5 DEF AimInv
<1>3. CASE UNCHANGED vars
  <2>1. UNCHANGED <<pos, writein, wr, skipped, at, table, cur, has, left, round>>
    BY <1>3 DEF vars, otaVars, tableVars, chunkVars, mtdVars, nameVars, callVars
  <2>2. First' = First /\ Index' = Index /\ Here' = Here
    BY <2>1, SameEntry
  <2>3. Image(cur, PieceLen)' = Image(cur, PieceLen)
    BY <2>1, <2>2 DEF Image, PieceLen
  <2> QED BY <2>1, <2>3, SameAim DEF AimInv
<1>4. ASSUME UNCHANGED <<pos, writein, wr, skipped>>, at' # "mtd" PROVE AimInv'
  BY <1>4, SameAim DEF AimInv
<1>5. ASSUME NEW t \in Tables, Parse(t) PROVE AimInv'
  BY <1>4, <1>5 DEF Parse, mtdVars, nameVars, callVars
<1>6. ASSUME NEW n \in Chunks, Hand(n) PROVE AimInv'
  BY <1>4, <1>6 DEF Hand, mtdVars, nameVars, callVars
<1>7. CASE LoopEnds \/ NoEntry \/ RefuseMtd \/ RefuseVolume
  BY <1>4, <1>7 DEF LoopEnds, NoEntry, RefuseMtd, RefuseVolume, Answer,
                    mtdVars, nameVars, callVars
<1>8. CASE PassOver \/ RemoveVolume \/ WriteVolume
  BY <1>4, <1>8 DEF PassOver, RemoveVolume, WriteVolume, Advance, mtdVars, nameVars, callVars
<1>9. CASE CommandFails \/ VolumeFails
  BY <1>4, <1>9 DEF CommandFails, VolumeFails, Answer, nameVars, callVars
<1>10. CASE MtdEnds
  BY <1>4, <1>10 DEF MtdEnds, Advance, Answer, nameVars
<1> QED
  BY <1>1, <1>2, <1>3, <1>5, <1>6, <1>7, <1>8, <1>9, <1>10 DEF Next, Loader

(* What a block holds afterwards. *)
LEMMA MergedBytes ==
  ASSUME LoaderInv, CursorInv, AimInv, BootInv, at = "mtd", writein < Length,
         wr.part \in Mtds, NEW c \in Cells
  PROVE  Merged(c) \in BytesUpTo(round)
<1>1. First # {} /\ wr.data = Image(cur, PieceLen)
  BY DEF LoaderInv, AtPiece, AimInv
<1>2. PieceLen \in Nat /\ cur \in Nat /\ round \in Nat
  BY <1>1, PieceNat DEF CursorInv, CursorTypes, BootInv
<1>3. Length = PieceLen
  BY <1>1, <1>2, ImageData DEF Length
<1>4. Count \in Nat /\ From \in Nat /\ From + Count <= Length
  BY PieceInData DEF AimInv
<1> DEFINE k == (c % EraseSize) - Within
<1>5. CASE k \in 0..(Count - 1)
  <2>1. From + k + 1 \in 1..PieceLen
    BY <1>2, <1>3, <1>4, <1>5
  <2>2. wr.data[From + k + 1] = <<round, cur + (From + k + 1) - 1>>
    BY <1>1, <1>2, <2>1, ImageData
  <2>3. cur + (From + k + 1) - 1 \in Nat /\ round \in 0..round
    BY <1>2, <2>1
  <2>4. Merged(c) = wr.data[From + k + 1]
    BY <1>5 DEF Merged
  <2> HIDE DEF k
  <2> QED BY <2>2, <2>3, <2>4 DEF BytesUpTo
<1>6. CASE k \notin 0..(Count - 1)
  <2>1. Merged(c) = cell[wr.part][c]
    BY <1>6 DEF Merged
  <2> QED BY <2>1 DEF BootInv
<1> QED BY <1>5, <1>6

LEMMA MtdStepBytes ==
  ASSUME LoaderInv, CursorInv, AimInv, BootInv, at = "mtd", MtdStep
  PROVE  cell' \in [Mtds -> [Cells -> BytesUpTo(round)]]
<1>1. wr.part \in Mtds
  BY HereIsEntry DEF LoaderInv, AtPiece
<1>2. CASE SkipBadBlock \/ WriteEnds
  BY <1>2 DEF SkipBadBlock, WriteEnds, BootInv
<1>3. CASE BlockIsWritten
  <2>1. writein < Length /\ Program(Merged)
    BY <1>3 DEF BlockIsWritten, OnGoodBlock, Writing
  <2>2. \A c \in Cells : Merged(c) \in BytesUpTo(round)
    BY <1>1, <2>1, MergedBytes
  <2>3. cell' = [cell EXCEPT ![wr.part] =
                   [c \in Cells |-> IF BlockOf(c) = BlockOf(pos) THEN Merged(c)
                                    ELSE cell[wr.part][c]]]
    BY <2>1 DEF Program
  <2> QED BY <1>1, <2>2, <2>3 DEF BootInv
<1>4. CASE EraseFails \/ WriteFails
  <2>1. cell' = [cell EXCEPT ![wr.part] =
                   [c \in Cells |-> IF BlockOf(c) = BlockOf(pos) THEN Unsure
                                    ELSE cell[wr.part][c]]]
    BY <1>4 DEF EraseFails, WriteFails, Program, Spoil
  <2>2. Unsure \in BytesUpTo(round)
    BY DEF BytesUpTo
  <2> QED BY <1>1, <2>1, <2>2 DEF BootInv
<1>5. CASE ReadFails
  <2>1. writein < Length /\ Program(Unread)
    BY <1>5 DEF ReadFails, OnGoodBlock, Writing
  <2>2. \A c \in Cells : Merged(c) \in BytesUpTo(round)
    BY <1>1, <2>1, MergedBytes
  <2>3. \A c : Unread(c) \in {Merged(c), Unsure}
    BY DEF Unread, Merged
  <2>4. \A c \in Cells : Unread(c) \in BytesUpTo(round)
    BY <2>2, <2>3 DEF BytesUpTo
  <2>5. cell' = [cell EXCEPT ![wr.part] =
                   [c \in Cells |-> IF BlockOf(c) = BlockOf(pos) THEN Unread(c)
                                    ELSE cell[wr.part][c]]]
    BY <2>1 DEF Program
  <2> QED BY <1>1, <2>4, <2>5 DEF BootInv
<1> QED BY <1>2, <1>3, <1>4, <1>5 DEF MtdStep

LEMMA BytesGrow ==
  ASSUME NEW r \in Nat
  PROVE  BytesUpTo(r) \subseteq BytesUpTo(r + 1)
BY DEF BytesUpTo

\* No byte of a new image is anywhere yet.
LEMMA NothingWrittenYet ==
  ASSUME BootInv, UNCHANGED cell, round' = round + 1, NEW e, e.name \in Mtds, e.off \in Nat
  PROVE  ~BeingWritten(e)'
<1> SUFFICES ASSUME NEW c \in Cells, NEW k \in Nat, cell[e.name][c] = <<round + 1, k>>
             PROVE  FALSE
  <2>1. ASSUME BeingWritten(e)' PROVE \E c \in Cells, k \in Nat : cell[e.name][c] = <<round + 1, k>>
    <3>1. PICK c \in Cells : cell[e.name][c] \in {round + 1} \X (e.off..(e.off + e.len - 1))
      BY <2>1 DEF BeingWritten, Cells, Size
    <3>2. PICK k \in e.off..(e.off + e.len - 1) : cell[e.name][c] = <<round + 1, k>>
      BY <3>1
    <3> QED BY <3>2
  <2> QED BY <2>1
<1>1. cell[e.name][c] \in BytesUpTo(round) /\ round \in Nat
  BY DEF BootInv
<1>2. <<round + 1, k>> \in Nat \X Nat /\ <<round + 1, k>> \notin (0..round) \X Nat
  BY <1>1
<1> QED BY <1>1, <1>2, OtaAssumption DEF BytesUpTo

\* A larger command serves as well.
LEMMA LoadsStill ==
  ASSUME BootInv, UNCHANGED <<table, cell, round>>,
         cmd' \in [Named -> Nat], \A p \in Named : cmd'[p] >= cmd[p],
         table \in Tables \cup {<< >>},
         at' = "mtd" => UNCHANGED Here /\ (Here.name \in Named => cmd'[Here.name] >= Here.len)
  PROVE  BootInv'
<1>1. ASSUME NEW i \in DOMAIN table, table[i].name \in Named, BeingWritten(table[i])'
      PROVE  cmd'[table[i].name] >= table[i].len
  <2>1. BeingWritten(table[i])
    BY <1>1 DEF BeingWritten, Cells, Size
  <2>2. table[i].len \in Nat
    BY <1>1, EntryTypes
  <2>3. cmd[table[i].name] >= table[i].len /\ cmd[table[i].name] \in Nat
    BY <1>1, <2>1 DEF BootInv
  <2> QED BY <1>1, <2>2, <2>3
<1> QED BY <1>1 DEF BootInv, Cells, Size

LEMMA BootInit == Init => BootInv
<1> SUFFICES ASSUME Init PROVE BootInv
  OBVIOUS
<1>1. cell \in [Mtds -> [Cells -> BytesUpTo(0)]] /\ round = 0 /\ at = "start" /\ table = << >>
  BY DEF Init, BytesUpTo
<1>2. cmd \in [Named -> Nat]
  BY OtaAssumption DEF Init
<1> QED BY <1>1, <1>2 DEF BootInv

LEMMA MtdStepBoots ==
  ASSUME OnceEach, LoaderInv, CursorInv, AimInv, BootInv, InMtd
  PROVE  BootInv'
<1>1. /\ at = "mtd" /\ at' = "mtd" /\ MtdStep
      /\ UNCHANGED <<table, cur, round, cmd>>
  BY DEF InMtd, otaVars, tableVars, chunkVars, bootVars
<1>2. cell' \in [Mtds -> [Cells -> BytesUpTo(round)]]
  BY <1>1, MtdStepBytes
<1>3. First' = First /\ Index' = Index /\ Here' = Here
  BY <1>1, SameEntry
<1>4. First # {} /\ wr.part = Here.name /\ Index \in DOMAIN table /\ table \in Tables
  BY <1>1, HereIsEntry DEF LoaderInv, AtPiece
<1>5. \A p \in Mtds : cell'[p] # cell[p] => p = wr.part
  BY <1>1, MtdStepCells DEF LoaderInv
<1>6. ASSUME NEW i \in DOMAIN table, table[i].name \in Named, BeingWritten(table[i])'
      PROVE  cmd[table[i].name] >= table[i].len
  <2>1. CASE table[i].name = Here.name
    <3>1. i = Index
      BY <1>4, <2>1 DEF OnceEach, Here
    <3> QED BY <1>1, <1>6, <3>1 DEF BootInv, Here
  <2>2. CASE table[i].name # Here.name
    <3>1. cell'[table[i].name] = cell[table[i].name]
      BY <1>4, <1>5, <1>6, <2>2 DEF Named
    <3>2. BeingWritten(table[i])
      BY <1>1, <1>6, <3>1 DEF BeingWritten, Cells, Size
    <3> QED BY <1>6, <3>2 DEF BootInv
  <2> QED BY <2>1, <2>2
<1> QED BY <1>1, <1>2, <1>3, <1>6 DEF BootInv, Cells, Size

LEMMA MtdBeginsBoots ==
  ASSUME LoaderInv, CursorInv, BootInv, MtdBegins
  PROVE  BootInv'
<1>1. /\ First # {} /\ UNCHANGED <<table, cur, cell, round>>
      /\ IF NeedsCommand THEN cmd' = NewCommand ELSE cmd' = cmd
  BY DEF MtdBegins, AtMtd, AtEntry, WriteBegins, tableVars, chunkVars, bootVars
<1>2. First' = First /\ Index' = Index /\ Here' = Here
  BY <1>1, SameEntry
<1>3. Here.len \in Nat
  BY <1>1, PieceNat
<1>4. /\ cmd' \in [Named -> Nat] /\ \A p \in Named : cmd'[p] >= cmd[p]
      /\ Here.name \in Named => cmd'[Here.name] >= Here.len
  BY <1>1, <1>3 DEF NeedsCommand, NewCommand, BootInv
<1> QED BY <1>1, <1>2, <1>4, LoadsStill DEF LoaderInv

LEMMA CommandFailsBoots ==
  ASSUME LoaderInv, CursorInv, BootInv, CommandFails
  PROVE  BootInv'
<1>1. /\ First # {} /\ NeedsCommand /\ UNCHANGED <<table, cell, round>>
      /\ cmd' \in {cmd, NewCommand} /\ at' # "mtd"
  BY DEF CommandFails, AtMtd, AtEntry, Answer, tableVars
<1>2. Here.len \in Nat
  BY <1>1, PieceNat
<1>3. cmd' \in [Named -> Nat] /\ \A p \in Named : cmd'[p] >= cmd[p]
  BY <1>1, <1>2 DEF NeedsCommand, NewCommand, BootInv
<1> QED BY <1>1, <1>3, LoadsStill DEF LoaderInv

LEMMA BootStep ==
  OnceEach /\ LoaderInv /\ CursorInv /\ AimInv /\ BootInv /\ [Next]_vars => BootInv'
<1> SUFFICES ASSUME OnceEach, LoaderInv, CursorInv, AimInv, BootInv, [Next]_vars
             PROVE  BootInv'
  OBVIOUS
<1>1. CASE MtdBegins \/ CommandFails
  BY <1>1, MtdBeginsBoots, CommandFailsBoots
<1>2. CASE InMtd
  BY <1>2, MtdStepBoots
<1>3. ASSUME NEW t \in Tables, Parse(t) PROVE BootInv'
  <2>1. UNCHANGED <<cell, cmd>> /\ round' = round + 1 /\ table' = t /\ at' = "idle"
    BY <1>3 DEF Parse, mtdVars, bootVars
  <2>2. ASSUME NEW i \in DOMAIN t, t[i].name \in Named PROVE ~BeingWritten(t[i])'
    BY <2>1, <2>2, NothingWrittenYet, EntryTypes DEF Named
  <2>3. round + 1 \in Nat /\ cell \in [Mtds -> [Cells -> BytesUpTo(round + 1)]]
    BY BytesGrow DEF BootInv
  <2> QED BY <2>1, <2>2, <2>3 DEF BootInv, Cells, Size
<1>4. ASSUME UNCHANGED <<table, cell, round, cmd>>, at' # "mtd" PROVE BootInv'
  BY <1>4, LoadsStill DEF LoaderInv, BootInv
<1>5. CASE UNCHANGED vars
  <2>1. UNCHANGED <<table, cur, cell, round, cmd, at>>
    BY <1>5 DEF vars, otaVars, tableVars, chunkVars, bootVars, mtdVars
  <2>2. First' = First /\ Index' = Index /\ Here' = Here
    BY <2>1, SameEntry
  <2> QED BY <2>1, <2>2, LoadsStill DEF LoaderInv, BootInv
<1>6. ASSUME NEW n \in Chunks, Hand(n) PROVE BootInv'
  BY <1>4, <1>6 DEF Hand, mtdVars, tableVars, bootVars
<1>7. CASE LoopEnds \/ NoEntry \/ RefuseMtd \/ RefuseVolume
  BY <1>4, <1>7 DEF LoopEnds, NoEntry, RefuseMtd, RefuseVolume, Answer,
                    mtdVars, tableVars, bootVars
<1>8. CASE PassOver \/ RemoveVolume \/ WriteVolume
  BY <1>4, <1>8 DEF PassOver, RemoveVolume, WriteVolume, Advance, mtdVars, tableVars, bootVars
<1>9. CASE VolumeFails \/ MtdEnds
  BY <1>4, <1>9 DEF VolumeFails, MtdEnds, Advance, Answer, tableVars, bootVars
<1> QED
  BY <1>1, <1>2, <1>3, <1>5, <1>6, <1>7, <1>8, <1>9 DEF Next, Loader

(* If no store of the environment has failed, a kernel or recovery system of
   which a single byte is in its partition is one that the stored boot
   command loads to the end. *)
THEOREM BootCommandIsLarge == ASSUME Layout, OnceEach PROVE Spec => []BootLoadsAll
<1>1. CursorInv /\ LoaderInv /\ [Next]_vars => CursorInv'
  BY CursorStep
<1>2. LoaderInv /\ CursorInv /\ AimInv /\ [Next]_vars => AimInv'
  BY AimStep
<1>3. LoaderInv /\ CursorInv /\ AimInv /\ BootInv /\ [Next]_vars => BootInv'
  BY BootStep
<1>4. BootInv => BootLoadsAll
  BY DEF BootInv, BootLoadsAll, BootCommandLoadsAll
<1> QED
  BY <1>1, <1>2, <1>3, <1>4, LoaderInit, LoaderStep, CursorInit, AimInit, BootInit,
     PTL DEF Spec

-----------------------------------------------------------------------------
(* Where the bytes of a partition are: around its bad blocks.  The place of a
   byte is known by the number of good blocks before it, and so by the number
   of bad ones, which is what mtd_write_data counts. *)
Bads(p, n) == Cardinality({g \in bad[p] : g < n})
Rank(p, b) == Cardinality({g \in Good(p) : g < b})
HasPlace(p, k) == \E b \in Good(p) : Rank(p, b) = BlockOf(k)

LEMMA DivIs ==
  ASSUME NEW a \in Nat, NEW q \in Int, NEW r \in 0..(EraseSize - 1),
         a = q * EraseSize + r
  PROVE  BlockOf(a) = q
<1>1. PICK p \in Nat, s \in 0..(EraseSize - 1) : a = p * EraseSize + s /\ p = a \div EraseSize
  BY ModDef, MtdAssumption
<1>2. p * EraseSize \in Int /\ q * EraseSize \in Int
  BY <1>1, MtdAssumption
<1>3. ~(p < q) /\ ~(q < p)
  BY <1>1, <1>2, ModMono, MtdAssumption
<1>4. p = q
  BY <1>1, <1>3
<1> QED BY <1>1, <1>4 DEF BlockOf

LEMMA DivAdd ==
  ASSUME NEW a \in Nat, NEW k \in Nat
  PROVE  BlockOf(a + k * EraseSize) = BlockOf(a) + k /\ BlockOf(a) \in Nat
<1>1. PICK p \in Nat, s \in 0..(EraseSize - 1) : a = p * EraseSize + s /\ p = a \div EraseSize
  BY ModDef, MtdAssumption
<1>2. a + k * EraseSize = (p + k) * EraseSize + s
  BY <1>1, MtdAssumption
<1>3. a + k * EraseSize \in Nat /\ p + k \in Int
  BY <1>1, MtdAssumption
<1> QED BY <1>1, <1>2, <1>3, DivIs DEF BlockOf

\* d bytes further, within the block or just behind it.
LEMMA DivOn ==
  ASSUME NEW a \in Nat, NEW d \in Nat, (a % EraseSize) + d <= EraseSize
  PROVE  IF (a % EraseSize) + d < EraseSize
         THEN BlockOf(a + d) = BlockOf(a) /\ (a + d) % EraseSize = (a % EraseSize) + d
         ELSE BlockOf(a + d) = BlockOf(a) + 1
<1>1. PICK p \in Nat, s \in 0..(EraseSize - 1) :
        a = p * EraseSize + s /\ p = a \div EraseSize /\ s = a % EraseSize
  BY ModDef, MtdAssumption
<1>2. CASE s + d < EraseSize
  <2>1. a + d = p * EraseSize + (s + d) /\ s + d \in 0..(EraseSize - 1) /\ a + d \in Nat
    BY <1>1, <1>2, MtdAssumption
  <2>2. BlockOf(a + d) = p /\ (a + d) % EraseSize = s + d
    BY <2>1, DivIs, ModIs
  <2> QED BY <1>1, <1>2, <2>2 DEF BlockOf
<1>3. CASE s + d = EraseSize
  <2>1. a + d = (p + 1) * EraseSize + 0 /\ 0 \in 0..(EraseSize - 1) /\ a + d \in Nat
    BY <1>1, <1>3, MtdAssumption
  <2>2. BlockOf(a + d) = p + 1
    BY <2>1, DivIs
  <2> QED BY <1>1, <1>3, <2>2, MtdAssumption DEF BlockOf
<1> QED BY <1>1, <1>2, <1>3, MtdAssumption

LEMMA GoodBlocks ==
  ASSUME NEW p \in Mtds
  PROVE  /\ Good(p) \subseteq 0..(Blocks - 1)
         /\ \A b : IsFiniteSet({g \in Good(p) : g < b}) /\ Rank(p, b) \in Nat
<1>1. Good(p) \subseteq 0..(Blocks - 1) /\ IsFiniteSet(0..(Blocks - 1))
  BY FS_Interval, MtdAssumption DEF Good
<1> QED BY <1>1, FS_Subset, FS_CardinalityType DEF Rank

LEMMA RankMono ==
  ASSUME NEW p \in Mtds, NEW b \in Good(p), NEW d \in Good(p), b < d
  PROVE  Rank(p, b) < Rank(p, d)
<1> DEFINE S == {g \in Good(p) : g < b}
           T == {g \in Good(p) : g < d}
<1>1. b \in Int /\ d \in Int /\ Good(p) \subseteq Int
  BY GoodBlocks
<1>2. S \subseteq T /\ S # T
  <2>1. b \in T /\ b \notin S
    BY <1>1
  <2>2. S \subseteq T
    BY <1>1
  <2> QED BY <2>1, <2>2
<1>3. IsFiniteSet(T) /\ Cardinality(S) \in Nat /\ Cardinality(T) \in Nat
  BY GoodBlocks DEF Rank
<1>4. Cardinality(S) <= Cardinality(T) /\ Cardinality(S) # Cardinality(T)
  BY <1>2, <1>3, FS_Subset
<1> QED BY <1>3, <1>4 DEF Rank

LEMMA NthIs ==
  ASSUME NEW p \in Mtds, NEW b \in Good(p)
  PROVE  Nth(p, Rank(p, b)) = b
<1>1. ASSUME NEW d \in Good(p), Rank(p, d) = Rank(p, b) PROVE d = b
  <2>1. d \in Int /\ b \in Int
    BY GoodBlocks
  <2>2. Rank(p, d) \in Nat
    BY GoodBlocks
  <2>3. ~(d < b) /\ ~(b < d)
    BY <1>1, <2>1, <2>2, RankMono
  <2> QED BY <2>1, <2>3
<1> QED BY <1>1 DEF Nth, Rank

LEMMA RankIs ==
  ASSUME bad \in BadBlocks, NEW p \in Mtds, NEW b \in 0..(Blocks - 1)
  PROVE  Rank(p, b) = b - Bads(p, b) /\ Bads(p, b) \in Nat
<1> DEFINE S == 0..(b - 1)
           T == {g \in bad[p] : g < b}
<1>1. bad[p] \subseteq 0..(Blocks - 1)
  BY OtaAssumption
<1>2. IsFiniteSet(S) /\ Cardinality(S) = b
  <2>1. b \in Nat /\ 0 \in Int /\ b - 1 \in Int
    BY MtdAssumption
  <2>2. IsFiniteSet(S) /\ Cardinality(S) = IF 0 > b - 1 THEN 0 ELSE (b - 1) - 0 + 1
    BY <2>1, FS_Interval
  <2> HIDE DEF S
  <2> QED BY <2>1, <2>2
<1>3. {g \in Good(p) : g < b} = S \ T /\ T \subseteq S
  BY <1>1, MtdAssumption DEF Good
<1>4. S \cap T = T /\ IsFiniteSet(T)
  BY <1>2, <1>3, FS_Subset
<1> HIDE DEF S, T
<1>5. Cardinality(S \ T) = Cardinality(S) - Cardinality(T) /\ Cardinality(T) \in Nat
  BY <1>2, <1>4, FS_Difference, FS_CardinalityType
<1> USE DEF S, T
<1> QED BY <1>2, <1>3, <1>5 DEF Rank, Bads

LEMMA BadsNext ==
  ASSUME bad \in BadBlocks, NEW p \in Mtds, NEW b \in Nat
  PROVE  Bads(p, b + 1) = Bads(p, b) + (IF b \in bad[p] THEN 1 ELSE 0)
<1> DEFINE T == {g \in bad[p] : g < b}
<1>1. bad[p] \subseteq 0..(Blocks - 1)
  BY OtaAssumption
<1>2. IsFiniteSet(T) /\ Cardinality(T) \in Nat
  <2>1. IsFiniteSet(0..(Blocks - 1))
    BY FS_Interval, MtdAssumption
  <2>2. T \subseteq 0..(Blocks - 1)
    BY <1>1
  <2> HIDE DEF T
  <2> QED BY <2>1, <2>2, FS_Subset, FS_CardinalityType
<1>3. CASE b \in bad[p]
  <2>1. {g \in bad[p] : g < b + 1} = T \cup {b} /\ b \notin T
    BY <1>1, <1>3
  <2> QED BY <1>2, <1>3, <2>1, FS_AddElement DEF Bads
<1>4. CASE b \notin bad[p]
  <2>1. {g \in bad[p] : g < b + 1} = T
    BY <1>1, <1>4
  <2> QED BY <1>2, <1>4, <2>1 DEF Bads
<1> QED BY <1>3, <1>4

\* The place of the k-th byte: in the block before which there are as many good
\* blocks as k is blocks behind the start.
LEMMA PlaceIs ==
  ASSUME NEW p \in Mtds, NEW k \in Nat, NEW b \in Good(p), Rank(p, b) = BlockOf(k)
  PROVE  /\ Place(p, k) = b * EraseSize + (k % EraseSize)
         /\ Place(p, k) \in Cells
         /\ BlockOf(Place(p, k)) = b /\ Place(p, k) % EraseSize = k % EraseSize
<1>1. k % EraseSize \in 0..(EraseSize - 1) /\ b \in 0..(Blocks - 1)
  BY ModDef, GoodBlocks
<1>2. Place(p, k) = b * EraseSize + (k % EraseSize)
  BY NthIs DEF Place, BlockOf
<1>3. b * EraseSize \in Nat /\ b * EraseSize + EraseSize <= Blocks * EraseSize
  BY <1>1, ModMono, MtdAssumption
<1>4. b * EraseSize + (k % EraseSize) \in 0..(Blocks * EraseSize - 1)
  BY <1>1, <1>3, MtdAssumption
<1> QED BY <1>1, <1>2, <1>4, DivIs, ModIs DEF Cells, Size

LEMMA SameBlock ==
  ASSUME NEW a \in Nat, NEW k \in Nat, k < a, BlockOf(k) = BlockOf(a)
  PROVE  (k % EraseSize) < (a % EraseSize)
<1> DEFINE base == BlockOf(a) * EraseSize
<1>1. base \in Int
  BY DivAdd, MtdAssumption
<1>2. a = base + (a % EraseSize) /\ k = base + (k % EraseSize)
  BY ModDef DEF BlockOf
<1>3. a % EraseSize \in Int /\ k % EraseSize \in Int
  BY ModDef
<1> HIDE DEF base
<1> QED BY <1>1, <1>2, <1>3

-----------------------------------------------------------------------------
(* ImageInPlace, and what it rests on: the count of skipped blocks that is
   kept from one call of mtd_write_data to the next is right for the next byte
   of an entry that is under way. *)
ByteInPlace(e, k) ==
  \/ Content(e.name, k) = <<round, e.off + k>>
  \/ Excused(e.name, k)

Held(e, k) == (e.mtd => HasPlace(e.name, k)) /\ ByteInPlace(e, k)

EntriesHold ==
  \A i \in DOMAIN table :
    Concerns(table[i]) => \A k \in 0..(has[i] - 1) : Held(table[i], k)

Skips(p, k) == skipped = Bads(p, BlockOf(k + skipped * EraseSize))
Remembers(p) == curName = p /\ (bad[p] # {} => longest = NameLen[p])

Trail ==
  at \in {"idle", "loop"} =>
    \A i \in DOMAIN table :
      Concerns(table[i]) /\ table[i].mtd /\ has[i] \in 1..(table[i].len - 1) =>
        Remembers(table[i].name) /\ Skips(table[i].name, has[i])

\* The byte that goes to pos.
Reach == IF Within # 0 /\ writein < Length THEN wr.off ELSE wr.off + writein

UnderWay ==
  at = "mtd" =>
    /\ wr.off = has[Index] /\ writein <= Length
    /\ Remembers(wr.part) /\ Skips(wr.part, Reach)
    /\ writein < Length => pos = Reach + skipped * EraseSize
    /\ \A k \in 0..(wr.off + writein - 1) : Held(Here, k)
    /\ wpc \in {"busy", "done"}
    /\ wpc = "done" => mret = -1 \/ (mret = Length /\ writein = Length)

\* A volume that was added for an entry stays.
VolumesStay ==
  /\ DOMAIN vols = Ubis
  /\ \A v \in Ubis : vols[v].size \in Nat /\ DOMAIN vols[v].data = VolCells
  /\ \A i \in DOMAIN table :
       Concerns(table[i]) /\ ~table[i].mtd /\ table[i].how = "add" /\ has[i] > 0
         => vols[table[i].name].size > 0

ImageInv ==
  /\ bad \in BadBlocks /\ longest \in {0} \cup {NameLen[q] : q \in Mtds}
  /\ EntriesHold /\ Trail /\ UnderWay /\ VolumesStay

\* No partition with a bad block has a name shorter than that of another.
NamesFit ==
  \A b \in BadBlocks : \A p \in Mtds : b[p] # {} => \A q \in Mtds : NameLen[q] <= NameLen[p]

-----------------------------------------------------------------------------
(* The piece under way is the next one of its entry. *)
LEMMA HereAt ==
  ASSUME LoaderInv, CursorInv, AimInv, at = "mtd"
  PROVE  /\ wr.part \in Mtds /\ wr.part = Here.name /\ Here.mtd /\ Index \in DOMAIN table
         /\ Here.off \in Nat /\ has[Index] \in Nat /\ cur = Here.off + has[Index]
         /\ Length \in Nat /\ \A j \in 0..(Length - 1) : wr.data[j + 1] = <<round, cur + j>>
         /\ Length = PieceLen /\ wr.off \in Nat /\ writein \in Nat
<1>1. First # {} /\ wr.part = Here.name /\ Here.mtd /\ wr.data = Image(cur, PieceLen)
  BY DEF LoaderInv, AtPiece, AimInv
<1>2. /\ Index \in DOMAIN table /\ Hit(Index) /\ table \in Tables
      /\ Here.name \in Mtds
  BY <1>1, HereIsEntry DEF LoaderInv
<1>3. /\ Here.off \in Nat /\ Here.len \in Nat /\ has[Index] \in Nat /\ cur \in Nat
      /\ PieceLen \in Nat
  BY <1>1, <1>2, EntryTypes, PieceNat DEF Here, CursorInv, CursorTypes
<1>4. cur = Here.off + has[Index]
  BY <1>2, <1>3 DEF CursorInv, CursorAgrees, Passed, Least, Hit, Here
<1>5. Length = PieceLen /\ \A j \in 1..PieceLen : wr.data[j] = <<round, cur + j - 1>>
  <2>1. /\ Len(Image(cur, PieceLen)) = PieceLen
        /\ \A j \in 1..PieceLen : Image(cur, PieceLen)[j] = <<round, cur + j - 1>>
    BY <1>3, ImageData
  <2> QED BY <1>1, <2>1 DEF Length
<1>6. ASSUME NEW j \in 0..(Length - 1) PROVE wr.data[j + 1] = <<round, cur + j>>
  <2>1. j + 1 \in 1..PieceLen /\ cur + (j + 1) - 1 = cur + j
    BY <1>3, <1>5
  <2> QED BY <1>5, <2>1
<1> QED BY <1>1, <1>2, <1>3, <1>4, <1>5, <1>6 DEF AimInv, Aimed

(* The block that is written is the right one. *)
LEMMA Around ==
  ASSUME LoaderInv, CursorInv, AimInv, ImageInv, at = "mtd", OnGoodBlock
  PROVE  /\ Reach \in Nat /\ Reach = wr.off + From /\ pos = Reach + skipped * EraseSize
         /\ BlockOf(pos) \in Good(wr.part) /\ BlockOf(pos) \in Nat
         /\ Rank(wr.part, BlockOf(pos)) = BlockOf(Reach)
         /\ Within = Reach % EraseSize /\ Within \in 0..(EraseSize - 1)
         /\ Count \in Nat /\ From \in Nat /\ Within + Count <= EraseSize
         /\ From + Count <= Length /\ pos % EraseSize = Within
         /\ skipped = Bads(wr.part, BlockOf(pos))
<1>1. /\ writein < Length /\ ~OnBadBlock /\ pos < Size
      /\ pos \in Nat /\ writein \in Nat /\ wr.off \in Nat /\ Length \in Nat /\ skipped \in Nat
      /\ wr.part \in Mtds
  BY HereAt DEF OnGoodBlock, Writing, AimInv, Aimed
<1>2. pos = Reach + skipped * EraseSize /\ Skips(wr.part, Reach)
  BY <1>1 DEF ImageInv, UnderWay
<1>3. Reach \in Nat /\ Reach = wr.off + From
  BY <1>1 DEF Reach, From
<1>4. Within = Reach % EraseSize
  BY <1>1, <1>2, <1>3, ModAdd DEF Within
<1>5. BlockOf(pos) = BlockOf(Reach) + skipped /\ BlockOf(Reach) \in Nat
  BY <1>1, <1>2, <1>3, DivAdd
<1>6. Count \in Nat /\ From \in Nat /\ From + Count <= Length
  BY <1>1, PieceInData DEF AimInv
<1>7. Within \in 0..(EraseSize - 1) /\ EraseSize \in Nat
  BY <1>3, <1>4, ModDef, MtdAssumption
<1>8. Within + Count <= EraseSize
  <2>1. CASE Within # 0
    BY <1>1, <1>7, <2>1 DEF Count, Least
  <2>2. CASE Within = 0
    <3>1. (Length + wr.off) % EraseSize \in 0..(EraseSize - 1)
      BY <1>1, ModDef
    <3> QED BY <1>7, <2>2, <3>1 DEF Count
  <2> QED BY <2>1, <2>2
<1>9. BlockOf(pos) < Blocks
  <2>1. pos = BlockOf(pos) * EraseSize + Within /\ BlockOf(pos) \in Nat
    BY <1>1, ModDef DEF BlockOf, Within
  <2>2. BlockOf(pos) * EraseSize \in Nat /\ Blocks * EraseSize \in Nat /\ Blocks \in Nat
    BY <2>1, MtdAssumption
  <2>3. BlockOf(pos) * EraseSize < Blocks * EraseSize
    BY <1>1, <1>7, <2>1, <2>2 DEF Size
  <2>4. ~(Blocks < BlockOf(pos))
    BY <1>7, <2>1, <2>2, <2>3, ModMono
  <2>5. Blocks # BlockOf(pos)
    BY <2>2, <2>3
  <2> QED BY <2>1, <2>2, <2>4, <2>5
<1>10. BlockOf(pos) \in Good(wr.part) /\ BlockOf(pos) \in 0..(Blocks - 1)
  BY <1>1, <1>5, <1>9, MtdAssumption DEF Good, OnBadBlock
<1>11. skipped = Bads(wr.part, BlockOf(pos))
  BY <1>2 DEF Skips
<1>12. Rank(wr.part, BlockOf(pos)) = BlockOf(Reach)
  BY <1>1, <1>5, <1>10, <1>11, RankIs DEF ImageInv
<1> QED BY <1>2, <1>3, <1>4, <1>5, <1>6, <1>7, <1>8, <1>10, <1>11, <1>12 DEF Within

LEMMA Ahead ==
  ASSUME LoaderInv, CursorInv, AimInv, ImageInv, at = "mtd", OnGoodBlock
  PROVE  Skips(wr.part, wr.off + (From + Count))
<1>1. /\ Reach \in Nat /\ Reach = wr.off + From /\ pos = Reach + skipped * EraseSize
      /\ BlockOf(pos) \in Good(wr.part) /\ BlockOf(pos) \in Nat
      /\ Count \in Nat /\ From \in Nat /\ Within + Count <= EraseSize /\ pos % EraseSize = Within
      /\ skipped = Bads(wr.part, BlockOf(pos))
  BY Around
<1>2. wr.part \in Mtds /\ pos \in Nat /\ skipped \in Nat /\ wr.off \in Nat
  BY HereAt DEF AimInv, Aimed
<1>3. skipped * EraseSize \in Nat
  BY <1>2, MtdAssumption
<1>4. wr.off + (From + Count) + skipped * EraseSize = pos + Count
  BY <1>1, <1>2, <1>3
<1>5. BlockOf(pos + Count) \in {BlockOf(pos), BlockOf(pos) + 1}
  BY <1>1, <1>2, DivOn
<1>6. Bads(wr.part, BlockOf(pos) + 1) = Bads(wr.part, BlockOf(pos))
  <2>1. BlockOf(pos) \notin bad[wr.part] /\ Bads(wr.part, BlockOf(pos)) \in Nat
    BY <1>1, <1>2 DEF Good
  <2> QED BY <1>1, <1>2, <2>1, BadsNext DEF ImageInv
<1>7. Bads(wr.part, BlockOf(pos + Count)) = skipped
  BY <1>1, <1>5, <1>6
<1> QED BY <1>4, <1>7 DEF Skips

(* What is counted is what was put into the block. *)
LEMMA CountedUp ==
  ASSUME LoaderInv, CursorInv, AimInv, ImageInv, at = "mtd", OnGoodBlock, Counted, wr' = wr
  PROVE  /\ writein' = From + Count
         /\ writein' < Length => pos' = pos + Count /\ Within' = 0
<1>1. /\ writein < Length /\ writein \in Nat /\ wr.off \in Nat /\ Length \in Nat
      /\ Length' = Length
  BY HereAt DEF OnGoodBlock, Writing, Length
<1>2. Aimed /\ Aimed' /\ Count \in Nat /\ From \in Nat
  BY <1>1, Around, CountedAims DEF AimInv
<1>3. CASE Within # 0
  <2>1. writein' = Count /\ From = 0 /\ pos' = pos + Count
    BY <1>3 DEF Counted, From
  <2>2. CASE Count = Length
    BY <1>1, <1>2, <2>1, <2>2
  <2>3. CASE Count = EraseSize - Within
    <3>1. (pos + (EraseSize - Within)) % EraseSize = 0
      BY <1>2, ModFill DEF Aimed, Within
    <3> QED BY <1>2, <2>1, <2>3, <3>1 DEF Within
  <2> QED BY <1>3, <2>2, <2>3 DEF Count, Least
<1>4. CASE Within = 0 /\ IsLast
  <2>1. writein' = Length
    BY <1>1, <1>4, MtdAssumption DEF Counted, IsLast, Least
  <2>2. Length - writein \in 0..(EraseSize - 1) /\ (wr.off + writein) % EraseSize = 0
    BY <1>1, <1>2, <1>4, MtdAssumption DEF Aimed, IsLast
  <2>3. ((wr.off + writein) + (Length - writein)) % EraseSize = Length - writein
    BY <1>1, <2>2, ModRest
  <2>4. (wr.off + writein) + (Length - writein) = Length + wr.off
    BY <1>1
  <2>5. Count = Length - writein /\ From = writein
    BY <1>4, <2>3, <2>4 DEF Count, From
  <2> QED BY <1>1, <2>1, <2>5
<1>5. CASE Within = 0 /\ ~IsLast
  <2>1. writein' = writein + EraseSize /\ pos' = pos + EraseSize /\ Count = EraseSize
        /\ From = writein
    BY <1>1, <1>5, MtdAssumption DEF Counted, Count, From, IsLast, Least
  <2>2. (pos + EraseSize) % EraseSize = 0
    BY <1>2, <1>5, ModNext DEF Aimed, Within
  <2> QED BY <2>1, <2>2 DEF Within
<1> QED BY <1>3, <1>4, <1>5

\* Of a byte before those that are counted, or one of them.
LEMMA OldOrNew ==
  ASSUME LoaderInv, CursorInv, AimInv, ImageInv, at = "mtd", OnGoodBlock,
         NEW k \in 0..(wr.off + (From + Count) - 1)
  PROVE  /\ HasPlace(wr.part, k)
         /\ Place(wr.part, k) \in Cells
         /\ \/ k < Reach /\ ByteInPlace(Here, k)
               /\ (BlockOf(Place(wr.part, k)) = BlockOf(pos)
                     => (Place(wr.part, k) % EraseSize) < Within)
            \/ /\ BlockOf(Place(wr.part, k)) = BlockOf(pos)
               /\ k - Reach \in 0..(Count - 1)
               /\ Place(wr.part, k) % EraseSize = Within + (k - Reach)
<1>1. /\ Reach \in Nat /\ Reach = wr.off + From /\ BlockOf(pos) \in Good(wr.part)
      /\ Count \in Nat /\ From \in Nat /\ Within + Count <= EraseSize
      /\ Within = Reach % EraseSize /\ Within \in 0..(EraseSize - 1)
      /\ Rank(wr.part, BlockOf(pos)) = BlockOf(Reach)
  BY Around
<1>2. /\ wr.part \in Mtds /\ wr.part = Here.name /\ Here.mtd /\ wr.off \in Nat
      /\ writein \in Nat /\ (\A j \in 0..(wr.off + writein - 1) : Held(Here, j))
  BY HereAt DEF ImageInv, UnderWay
<1>3. k \in Nat
  BY <1>1, <1>2
<1>4. CASE k < Reach
  <2>1. k \in 0..(wr.off + writein - 1)
    BY <1>1, <1>2, <1>3, <1>4 DEF From
  <2>2. HasPlace(wr.part, k) /\ ByteInPlace(Here, k)
    BY <1>2, <2>1 DEF Held
  <2>3. PICK b \in Good(wr.part) : Rank(wr.part, b) = BlockOf(k)
    BY <2>2 DEF HasPlace
  <2>4. /\ Place(wr.part, k) \in Cells /\ BlockOf(Place(wr.part, k)) = b
        /\ Place(wr.part, k) % EraseSize = k % EraseSize
    BY <1>2, <1>3, <2>3, PlaceIs
  <2>5. ASSUME b = BlockOf(pos) PROVE (k % EraseSize) < Within
    BY <1>1, <1>3, <1>4, <2>3, <2>5, SameBlock
  <2> QED BY <1>4, <2>2, <2>4, <2>5
<1>5. CASE ~(k < Reach)
  <2> DEFINE j == k - Reach
  <2>1. j \in 0..(Count - 1) /\ k = Reach + j
    BY <1>1, <1>2, <1>3, <1>5
  <2> HIDE DEF j
  <2>2. j \in Nat /\ (Reach % EraseSize) + j < EraseSize
    BY <1>1, <2>1, MtdAssumption
  <2>3. (Reach % EraseSize) + j <= EraseSize
    BY <1>1, <2>2, MtdAssumption
  <2>4. BlockOf(Reach + j) = BlockOf(Reach) /\ (Reach + j) % EraseSize = (Reach % EraseSize) + j
    BY <1>1, <2>2, <2>3, DivOn
  <2>5. BlockOf(k) = BlockOf(Reach) /\ k % EraseSize = Within + j
    BY <1>1, <2>1, <2>4
  <2>6. /\ Place(wr.part, k) \in Cells /\ BlockOf(Place(wr.part, k)) = BlockOf(pos)
        /\ Place(wr.part, k) % EraseSize = k % EraseSize
    BY <1>1, <1>2, <1>3, <2>5, PlaceIs
  <2>7. HasPlace(wr.part, k)
    BY <1>1, <2>5 DEF HasPlace
  <2> QED BY <2>1, <2>5, <2>6, <2>7 DEF j
<1> QED BY <1>4, <1>5

LEMMA BlockBytes ==
  ASSUME LoaderInv, CursorInv, AimInv, ImageInv, at = "mtd", BlockIsWritten,
         NEW k \in 0..(wr.off + (From + Count) - 1)
  PROVE  \/ cell'[wr.part][Place(wr.part, k)] = <<round, Here.off + k>>
         \/ <<wr.part, BlockOf(Place(wr.part, k))>> \in hurt
<1> DEFINE c == Place(wr.part, k)
<1>1. OnGoodBlock /\ Program(Merged)
  BY DEF BlockIsWritten
<1>2. /\ c \in Cells
      /\ \/ k < Reach /\ ByteInPlace(Here, k)
            /\ (BlockOf(c) = BlockOf(pos) => (c % EraseSize) < Within)
         \/ /\ BlockOf(c) = BlockOf(pos) /\ k - Reach \in 0..(Count - 1)
            /\ c % EraseSize = Within + (k - Reach)
  BY <1>1, OldOrNew
<1>3. /\ Reach \in Nat /\ Reach = wr.off + From /\ Count \in Nat /\ From \in Nat
      /\ Within \in 0..(EraseSize - 1) /\ From + Count <= Length
  BY <1>1, Around
<1>4. /\ wr.part \in Mtds /\ wr.part = Here.name /\ Here.off \in Nat /\ has[Index] \in Nat
      /\ cur = Here.off + has[Index] /\ wr.off = has[Index] /\ Length \in Nat
      /\ \A j \in 0..(Length - 1) : wr.data[j + 1] = <<round, cur + j>>
  BY HereAt DEF ImageInv, UnderWay
<1>5. cell'[wr.part][c] = IF BlockOf(c) = BlockOf(pos) THEN Merged(c) ELSE cell[wr.part][c]
  BY <1>1, <1>2, <1>4 DEF Program, LoaderInv
<1>6. c % EraseSize \in Nat /\ k \in Nat
  <2>1. c \in Nat
    BY <1>2 DEF Cells
  <2> QED BY <1>3, <1>4, <2>1, ModDef
<1> HIDE DEF c
<1>7. CASE /\ k < Reach /\ ByteInPlace(Here, k)
           /\ (BlockOf(c) = BlockOf(pos) => (c % EraseSize) < Within)
  <2>1. cell'[wr.part][c] = cell[wr.part][c]
    BY <1>3, <1>5, <1>6, <1>7 DEF Merged
  <2> QED BY <1>4, <1>7, <2>1 DEF ByteInPlace, Content, Excused, c
<1>8. CASE /\ BlockOf(c) = BlockOf(pos) /\ k - Reach \in 0..(Count - 1)
           /\ c % EraseSize = Within + (k - Reach)
  <2>1. (c % EraseSize) - Within = k - Reach
    BY <1>3, <1>6, <1>8
  <2>2. cell'[wr.part][c] = wr.data[From + (k - Reach) + 1]
    BY <1>5, <1>8, <2>1 DEF Merged
  <2>3. From + (k - Reach) \in 0..(Length - 1) /\ cur + (From + (k - Reach)) = Here.off + k
    BY <1>3, <1>4, <1>6, <1>8
  <2>4. wr.data[From + (k - Reach) + 1] = <<round, Here.off + k>>
    BY <1>4, <2>3
  <2> QED BY <2>2, <2>4 DEF c
<1> QED BY <1>2, <1>7, <1>8

\* A call that fails leaves the other blocks as they are.
OthersStay ==
  \A c \in Cells : BlockOf(c) # BlockOf(pos) => cell'[wr.part][c] = cell[wr.part][c]

LEMMA FailureStays ==
  ASSUME LoaderInv, at = "mtd", Program(Spoil) \/ Program(Unread)
  PROVE  OthersStay
<1>1. wr.part \in Mtds
  BY HereIsEntry DEF LoaderInv, AtPiece
<1> QED BY <1>1 DEF Program, LoaderInv, OthersStay

LEMMA SpoiltBytes ==
  ASSUME LoaderInv, CursorInv, AimInv, ImageInv, at = "mtd", OnGoodBlock, OthersStay,
         NEW k \in 0..(wr.off + (From + Count) - 1), Hurts \/ (Within = 0 /\ k < Reach)
  PROVE  \/ cell'[wr.part][Place(wr.part, k)] = <<round, Here.off + k>>
         \/ <<wr.part, BlockOf(Place(wr.part, k))>> \in hurt
         \/ Hurts /\ <<wr.part, BlockOf(Place(wr.part, k))>> \in hurt'
<1> DEFINE c == Place(wr.part, k)
<1>1. /\ c \in Cells
      /\ \/ k < Reach /\ ByteInPlace(Here, k)
            /\ (BlockOf(c) = BlockOf(pos) => (c % EraseSize) < Within)
         \/ BlockOf(c) = BlockOf(pos) /\ k - Reach \in 0..(Count - 1)
  BY OldOrNew
<1>2. wr.part \in Mtds /\ wr.part = Here.name
  BY HereAt
<1>3. BlockOf(c) # BlockOf(pos) => cell'[wr.part][c] = cell[wr.part][c]
  BY <1>1 DEF OthersStay
<1>4. c % EraseSize \in Nat /\ k \in Nat /\ Reach \in Nat
  <2>1. c \in Nat
    BY <1>1 DEF Cells
  <2>2. Reach \in Nat /\ wr.off \in Nat /\ From \in Nat /\ Count \in Nat
    BY HereAt, Around
  <2> QED BY <2>1, <2>2, ModDef
<1> HIDE DEF c
<1>5. CASE BlockOf(c) # BlockOf(pos)
  BY <1>1, <1>2, <1>3, <1>5 DEF ByteInPlace, Content, Excused, c
<1>6. CASE BlockOf(c) = BlockOf(pos)
  <2>1. Hurts
    BY <1>1, <1>4, <1>6
  <2> QED BY <1>6, <2>1 DEF Hurts, c
<1> QED BY <1>5, <1>6

-----------------------------------------------------------------------------
LEMMA PlaceStays ==
  ASSUME bad' = bad, NEW p, NEW k
  PROVE  HasPlace(p, k)' = HasPlace(p, k) /\ Place(p, k)' = Place(p, k)
BY DEF HasPlace, Place, Nth, Good, Rank

(* Whatever a step of mtd_write_data does, what it has counted then is there. *)
LEMMA CountedBytes ==
  ASSUME LoaderInv, CursorInv, AimInv, ImageInv, at = "mtd", MtdStep,
         NEW k \in 0..(wr.off + writein' - 1)
  PROVE  /\ HasPlace(wr.part, k)
         /\ \/ cell'[wr.part][Place(wr.part, k)] = <<round, Here.off + k>>
            \/ <<wr.part, BlockOf(Place(wr.part, k))>> \in hurt'
<1>1. /\ wr.part \in Mtds /\ wr.part = Here.name /\ Here.mtd
      /\ wr.off \in Nat /\ writein \in Nat /\ (\A j \in 0..(wr.off + writein - 1) : Held(Here, j))
  BY HereAt DEF ImageInv, UnderWay
<1>2. CASE SkipBadBlock \/ WriteEnds
  <2>1. UNCHANGED <<cell, hurt, writein>>
    BY <1>2 DEF SkipBadBlock, WriteEnds
  <2> QED BY <1>1, <2>1 DEF Held, ByteInPlace, Content, Excused
<1>3. CASE BlockIsWritten
  <2>1. OnGoodBlock /\ hurt' = hurt /\ writein' = From + Count
    BY <1>3, CountedUp DEF BlockIsWritten
  <2> QED BY <1>3, <2>1, OldOrNew, BlockBytes
<1>4. CASE EraseFails
  <2>1. OnGoodBlock /\ Program(Spoil) /\ Hurts /\ hurt \subseteq hurt' /\ writein' = From + Count
    BY <1>4, CountedUp DEF EraseFails, Hurts
  <2> QED BY <2>1, OldOrNew, FailureStays, SpoiltBytes
<1>7. CASE ReadFails
  <2>1. OnGoodBlock /\ Program(Unread) /\ Hurts /\ hurt \subseteq hurt' /\ writein' = From + Count
    BY <1>7, CountedUp DEF ReadFails, Hurts
  <2> QED BY <2>1, OldOrNew, FailureStays, SpoiltBytes
<1>5. CASE WriteFails /\ Within # 0
  <2>1. OnGoodBlock /\ Program(Spoil) /\ Hurts /\ hurt \subseteq hurt' /\ writein' = Count
    BY <1>5 DEF WriteFails, Hurts
  <2>2. Count \in Nat /\ From = 0
    BY <1>5, <2>1, Around DEF From
  <2>3. writein' = From + Count
    BY <2>1, <2>2
  <2> QED BY <2>1, <2>3, OldOrNew, FailureStays, SpoiltBytes
<1>6. CASE WriteFails /\ Within = 0
  <2>1. OnGoodBlock /\ Program(Spoil) /\ UNCHANGED <<hurt, writein>>
    BY <1>6 DEF WriteFails
  <2>2. Reach \in Nat /\ Reach = wr.off + writein /\ From = writein /\ Count \in Nat
    BY <1>6, <2>1, Around DEF From
  <2>3. k < Reach /\ k \in 0..(wr.off + (From + Count) - 1)
    BY <1>1, <2>1, <2>2
  <2> QED BY <1>6, <2>1, <2>3, OldOrNew, FailureStays, SpoiltBytes
<1> QED BY <1>2, <1>3, <1>4, <1>5, <1>6, <1>7 DEF MtdStep

(* The count of skipped blocks stays right. *)
LEMMA StepAims ==
  ASSUME LoaderInv, CursorInv, AimInv, ImageInv, at = "mtd", MtdStep
  PROVE  /\ writein' \in Nat /\ writein' <= Length
         /\ Skips(wr.part, Reach)'
         /\ writein' < Length => pos' = Reach' + skipped' * EraseSize
<1>1. /\ wr.part \in Mtds /\ wr.off \in Nat /\ writein \in Nat /\ writein <= Length
      /\ Length \in Nat /\ pos \in Nat /\ skipped \in Nat
      /\ Skips(wr.part, Reach) /\ (writein < Length => pos = Reach + skipped * EraseSize)
  BY HereAt DEF ImageInv, UnderWay, AimInv, Aimed
<1>2. wr' = wr /\ bad' = bad /\ Length' = Length
  BY MtdStepCells DEF Length, LoaderInv
<1>3. CASE SkipBadBlock
  <2>1. /\ writein < Length /\ BlockOf(pos) \in bad[wr.part] /\ writein' = writein
        /\ skipped' = skipped + 1 /\ pos' = pos + EraseSize
    BY <1>3 DEF SkipBadBlock, Writing, OnBadBlock
  <2>2. Within' = Within
    BY <1>1, <2>1, ModNext DEF Within
  <2>3. Reach' = Reach /\ Reach \in Nat
    BY <1>1, <1>2, <2>1, <2>2 DEF Reach
  <2>4. pos' = Reach' + skipped' * EraseSize
    <3>1. skipped' * EraseSize = skipped * EraseSize + EraseSize
      BY <1>1, <2>1, MtdAssumption
    <3>2. skipped * EraseSize \in Nat /\ EraseSize \in Nat
      BY <1>1, MtdAssumption
    <3> QED BY <1>1, <2>1, <2>3, <3>1, <3>2
  <2>5. BlockOf(pos') = BlockOf(pos) + 1 /\ BlockOf(pos) \in Nat
    <3>1. pos + 1 * EraseSize = pos + EraseSize
      BY MtdAssumption
    <3> QED BY <1>1, <2>1, <3>1, DivAdd
  <2>6. Bads(wr.part, BlockOf(pos)) = skipped
    BY <1>1, <2>1 DEF Skips
  <2>7. Bads(wr.part, BlockOf(pos')) = skipped'
    BY <1>1, <2>1, <2>5, <2>6, BadsNext DEF ImageInv
  <2> QED BY <1>1, <1>2, <2>1, <2>4, <2>7 DEF Skips, Bads
<1>4. CASE BlockIsWritten \/ ReadFails \/ EraseFails
  <2>1. OnGoodBlock /\ Counted /\ skipped' = skipped
    BY <1>4 DEF BlockIsWritten, ReadFails, EraseFails, nameVars
  <2>2. /\ writein' = From + Count
        /\ writein' < Length => pos' = pos + Count /\ Within' = 0
    BY <1>2, <2>1, CountedUp
  <2>3. /\ Reach \in Nat /\ Reach = wr.off + From /\ pos = Reach + skipped * EraseSize
        /\ Count \in Nat /\ From \in Nat /\ From + Count <= Length
    BY <2>1, Around
  <2>4. Reach' = wr.off + (From + Count)
    BY <1>2, <2>2 DEF Reach
  <2>5. Skips(wr.part, Reach)'
    BY <1>2, <2>1, <2>4, Ahead DEF Skips, Bads
  <2>6. skipped * EraseSize \in Nat
    BY <1>1, MtdAssumption
  <2> QED BY <1>1, <2>1, <2>2, <2>3, <2>4, <2>5, <2>6
<1>5. CASE WriteFails
  <2>1. OnGoodBlock /\ UNCHANGED <<pos, skipped>>
        /\ (IF Within # 0 THEN writein' = Count ELSE writein' = writein)
    BY <1>5 DEF WriteFails, nameVars
  <2>2. Within' = Within
    BY <2>1 DEF Within
  <2>3. CASE Within = 0
    <3>1. Reach' = Reach
      BY <1>2, <2>1, <2>2, <2>3 DEF Reach
    <3> QED BY <1>1, <1>2, <2>1, <2>3, <3>1 DEF Skips, Bads
  <2>4. CASE Within # 0
    <3>1. Count \in Nat /\ From = 0 /\ From + Count <= Length /\ writein < Length
      BY <2>1, <2>4, Around DEF From, OnGoodBlock, Writing
    <3>2. writein' = Count
      BY <2>1, <2>4
    <3>3. CASE Count < Length
      <4>1. Reach' = wr.off /\ Reach = wr.off
        BY <1>2, <2>2, <2>4, <3>1, <3>2, <3>3 DEF Reach
      <4>2. Skips(wr.part, Reach)'
        BY <1>1, <1>2, <2>1, <4>1 DEF Skips, Bads
      <4> QED BY <1>1, <2>1, <3>1, <3>2, <3>3, <4>1, <4>2
    <3>4. CASE Count = Length
      <4>1. Reach' = wr.off + (From + Count)
        BY <1>1, <1>2, <3>1, <3>2, <3>4 DEF Reach
      <4>2. Skips(wr.part, Reach)'
        BY <1>2, <2>1, <4>1, Ahead DEF Skips, Bads
      <4> QED BY <1>1, <3>1, <3>2, <3>4, <4>2
    <3> QED BY <1>1, <3>1, <3>3, <3>4
  <2> QED BY <2>3, <2>4
<1>6. CASE WriteEnds
  <2>1. UNCHANGED <<pos, skipped, writein>> /\ writein >= Length
    BY <1>6 DEF WriteEnds, nameVars
  <2>2. Reach' = Reach
    BY <1>2, <2>1 DEF Reach, Within
  <2>3. Skips(wr.part, Reach)'
    BY <1>1, <1>2, <2>1, <2>2 DEF Skips, Bads
  <2> QED BY <1>1, <2>1, <2>3
<1> QED BY <1>3, <1>4, <1>5, <1>6 DEF MtdStep

LEMMA UnderWayStep ==
  ASSUME LoaderInv, CursorInv, AimInv, ImageInv, InMtd
  PROVE  UnderWay'
<1>1. /\ at = "mtd" /\ MtdStep /\ wr' = wr /\ bad' = bad
      /\ UNCHANGED <<table, cur, has, round, vols, mode>>
  BY MtdStepCells DEF InMtd, otaVars, tableVars, chunkVars, LoaderInv
<1>2. First' = First /\ Index' = Index /\ Here' = Here
  BY <1>1, SameEntry
<1>3. /\ wr.part \in Mtds /\ wr.part = Here.name /\ Here.mtd /\ wr.off \in Nat
      /\ wr.off = has[Index] /\ Remembers(wr.part) /\ Length \in Nat
      /\ writein \in Nat /\ writein <= Length /\ wpc \in {"busy", "done"}
  BY <1>1, HereAt DEF ImageInv, UnderWay
<1>4. wr'.off = has'[Index'] /\ Length' = Length
  BY <1>1, <1>2, <1>3 DEF Length
<1>5. Remembers(wr.part)'
  <2>1. UNCHANGED <<curName, longest>>
    BY <1>1 DEF MtdStep, SkipBadBlock, BlockIsWritten, ReadFails, EraseFails, WriteFails, WriteEnds, nameVars
  <2> QED BY <1>1, <1>3, <2>1 DEF Remembers
<1>6. /\ writein' <= Length' /\ Skips(wr.part, Reach)'
      /\ writein' < Length' => pos' = Reach' + skipped' * EraseSize
  BY <1>1, <1>4, StepAims
<1>7. ASSUME NEW k \in 0..(wr'.off + writein' - 1) PROVE Held(Here, k)'
  <2>1. k \in 0..(wr.off + writein' - 1)
    BY <1>1
  <2>2. /\ HasPlace(wr.part, k)
        /\ \/ cell'[wr.part][Place(wr.part, k)] = <<round, Here.off + k>>
           \/ <<wr.part, BlockOf(Place(wr.part, k))>> \in hurt'
    BY <1>1, <2>1, CountedBytes
  <2>3. HasPlace(Here.name, k)'
    BY <1>1, <1>2, <1>3, <2>2 DEF HasPlace, Good, Rank
  <2>4. \A p : Place(p, k)' = Place(p, k)
    BY <1>1, PlaceStays
  <2>5. Place(wr.part, k)' = Place(wr.part, k)
    BY <1>1, <2>4
  <2> QED BY <1>1, <1>2, <1>3, <2>2, <2>3, <2>5 DEF Held, ByteInPlace, Content, Excused
<1>8. wpc' \in {"busy", "done"} /\ (wpc' = "done" => mret' = -1 \/ (mret' = Length /\ writein' = Length))
  BY <1>1, <1>3 DEF MtdStep, SkipBadBlock, BlockIsWritten, ReadFails, EraseFails, WriteFails, WriteEnds,
     OnGoodBlock, Writing, Returns
<1> QED BY <1>4, <1>5, <1>6, <1>7, <1>8 DEF UnderWay

-----------------------------------------------------------------------------
\* Only the entry the cursor stands at is under way.
LEMMA OnlyHere ==
  ASSUME Layout, CursorInv, First # {}, NEW i \in DOMAIN table,
         has[i] \in 1..(table[i].len - 1)
  PROVE  i = Index
<1>1. Index \in DOMAIN table /\ Hit(Index) /\ table \in Tables
  BY HereIsEntry DEF CursorInv
<1>2. /\ table[i].off \in Nat /\ table[i].len \in Nat /\ cur \in Nat
      /\ table[Index].off \in Nat /\ table[Index].len \in Nat
  BY <1>1, EntryTypes DEF CursorInv, CursorTypes
<1>3. table[i].off < cur /\ cur < table[i].off + table[i].len
  BY <1>2 DEF CursorInv, CursorAgrees, Passed, Least
<1>4. CASE i # Index
  <2>1. \/ table[i].off + table[i].len <= table[Index].off
        \/ table[Index].off + table[Index].len <= table[i].off
    BY <1>1, <1>4 DEF Layout
  <2> QED BY <1>1, <1>2, <1>3, <2>1 DEF Hit
<1> QED BY <1>4

\* What is held stays, if neither the partition nor the volume of it changes.
LEMMA HeldStays ==
  ASSUME UNCHANGED <<table, bad, round>>, hurt \subseteq hurt', NEW i \in DOMAIN table,
         table[i].name \in Mtds => cell'[table[i].name] = cell[table[i].name],
         table[i].name \notin Mtds => vols'[table[i].name] = vols[table[i].name],
         NEW k, Held(table[i], k)
  PROVE  Held(table[i], k)'
<1>1. \A q : HasPlace(q, k)' = HasPlace(q, k) /\ Place(q, k)' = Place(q, k)
  BY PlaceStays
<1>2. Place(table[i].name, k)' = Place(table[i].name, k)
  BY <1>1 DEF Place, Nth, Good
<1>3. HasPlace(table[i].name, k)' = HasPlace(table[i].name, k)
  BY DEF HasPlace, Good, Rank
<1> QED BY <1>2, <1>3 DEF Held, ByteInPlace, Content, Excused

\* A step that changes nothing of it.
LEMMA ImageRests ==
  ASSUME ImageInv, at # "mtd", at' # "mtd", at' \in {"idle", "loop"} => at \in {"idle", "loop"},
         UNCHANGED <<cell, bad, curName, longest, skipped, hurt, mode, table, round, has, vols>>
  PROVE  ImageInv'
<1>1. EntriesHold'
  <2> SUFFICES ASSUME NEW i \in DOMAIN table, Concerns(table[i]), NEW k \in 0..(has[i] - 1)
               PROVE  Held(table[i], k)'
    BY DEF EntriesHold, Concerns
  <2>1. Held(table[i], k)
    BY DEF ImageInv, EntriesHold
  <2> QED BY <2>1, HeldStays
<1>2. Trail'
  <2> SUFFICES ASSUME at \in {"idle", "loop"}, NEW i \in DOMAIN table, Concerns(table[i]),
                      table[i].mtd, has[i] \in 1..(table[i].len - 1)
               PROVE  (Remembers(table[i].name) /\ Skips(table[i].name, has[i]))'
    BY DEF Trail, Concerns
  <2>1. Remembers(table[i].name) /\ Skips(table[i].name, has[i])
    BY DEF ImageInv, Trail
  <2> QED BY <2>1 DEF Remembers, Skips, Bads
<1>3. UnderWay'
  BY DEF UnderWay
<1>4. VolumesStay'
  BY DEF ImageInv, VolumesStay, Concerns
<1> QED BY <1>1, <1>2, <1>3, <1>4 DEF ImageInv

(* mtd_write_data is called: it finds where the last call has come to. *)
LEMMA BeginsRight ==
  ASSUME NamesFit, LoaderInv, CursorInv, ImageInv, MtdBegins
  PROVE  UnderWay' /\ longest' \in {0} \cup {NameLen[q] : q \in Mtds}
<1> DEFINE p == Here.name
           fresh == has[Index] = 0 \/ curName # p \/ longest # NameLen[p]
           start == IF fresh THEN 0 ELSE skipped
<1>1. /\ at = "loop" /\ First # {} /\ Concerns(Here) /\ Here.mtd /\ left > 0
      /\ WriteBegins(p, has[Index], Image(cur, PieceLen))
      /\ UNCHANGED <<table, cur, has, round, vols, mode, cell, bad, hurt>>
  BY DEF MtdBegins, AtMtd, AtEntry, InLoop, WriteBegins, tableVars, chunkVars
<1>2. First' = First /\ Index' = Index /\ Here' = Here
  BY <1>1, SameEntry
<1>3. /\ Index \in DOMAIN table /\ Hit(Index) /\ table \in Tables /\ p \in Mtds
      /\ Here = table[Index]
  BY <1>1, HereIsEntry DEF LoaderInv, Here
<1>4. /\ PieceLen \in Nat /\ has[Index] \in Nat /\ Here.len \in Nat /\ Here.off \in Nat
      /\ cur \in Nat
  BY <1>1, <1>3, PieceNat, EntryTypes DEF CursorInv, CursorTypes
<1>5. has[Index] = 0 \/ has[Index] \in 1..(Here.len - 1)
  BY <1>3, <1>4 DEF CursorInv, CursorAgrees, Passed, Least, Hit
<1>6. /\ wpc' = "busy" /\ wr' = [part |-> p, off |-> has[Index], data |-> Image(cur, PieceLen)]
      /\ curName' = p /\ skipped' = start /\ writein' = 0
      /\ longest' = (IF longest < NameLen[p] THEN NameLen[p] ELSE longest)
      /\ pos' = has[Index] + start * EraseSize
  BY <1>1 DEF WriteBegins
<1>7. wr'.part = p /\ wr'.off = has[Index] /\ Length' = PieceLen /\ Reach' = has[Index]
  <2>1. wr'.part = p /\ wr'.off = has[Index] /\ wr'.data = Image(cur, PieceLen)
    BY <1>6
  <2>2. Len(Image(cur, PieceLen)) = PieceLen
    BY <1>4, ImageData
  <2> QED BY <1>4, <1>6, <2>1, <2>2 DEF Length, Reach
<1>8. NameLen[p] \in Nat /\ \A q \in Mtds : NameLen[q] \in Nat
  BY <1>3, MtdAssumption
<1>9. bad[p] # {} => \A q \in Mtds : NameLen[q] <= NameLen[p]
  BY <1>3 DEF NamesFit, ImageInv
<1>10. longest' \in {0} \cup {NameLen[q] : q \in Mtds} /\ (bad[p] # {} => longest' = NameLen[p])
  <2>1. longest = 0 \/ \E q \in Mtds : longest = NameLen[q]
    BY DEF ImageInv
  <2>2. longest' = NameLen[p] \/ longest' = longest
    BY <1>6
  <2>3. longest' \in {0} \cup {NameLen[q] : q \in Mtds}
    BY <1>3, <2>1, <2>2
  <2>4. ASSUME bad[p] # {} PROVE longest' = NameLen[p]
    BY <1>6, <1>8, <1>9, <2>1, <2>4
  <2> QED BY <2>3, <2>4
<1>11. start = Bads(p, BlockOf(has[Index] + start * EraseSize))
  <2>1. CASE has[Index] = 0
    <3>1. start = 0 /\ has[Index] = 0
      BY <2>1
    <3>2. BlockOf(0) = 0
      BY DivIs, MtdAssumption
    <3>3. {g \in bad[p] : g < 0} = {}
      BY <1>3, OtaAssumption DEF ImageInv
    <3>4. Bads(p, 0) = 0
      BY <3>3, FS_EmptySet DEF Bads
    <3>5. start = 0 /\ has[Index] + start * EraseSize = 0
      BY <3>1, MtdAssumption
    <3> HIDE DEF start, fresh, p
    <3> QED BY <3>2, <3>4, <3>5
  <2>2. CASE has[Index] # 0 /\ fresh
    <3>1. Remembers(p)
      BY <1>1, <1>3, <1>5, <2>2 DEF ImageInv, Trail
    <3>2. bad[p] = {} /\ start = 0
      BY <2>2, <3>1 DEF Remembers
    <3>3. \A n : {g \in bad[p] : g < n} = {}
      BY <3>2
    <3>4. Bads(p, BlockOf(has[Index] + start * EraseSize)) = 0
      BY <3>3, FS_EmptySet DEF Bads
    <3> QED BY <3>2, <3>4
  <2>3. CASE ~fresh
    <3>1. Skips(p, has[Index])
      BY <1>1, <1>3, <1>5, <2>3 DEF ImageInv, Trail
    <3> QED BY <2>3, <3>1 DEF Skips
  <2> QED BY <2>1, <2>2, <2>3
<1> HIDE DEF start, fresh, p
<1>12. Skips(wr.part, Reach)'
  BY <1>1, <1>6, <1>7, <1>11 DEF Skips, Bads
<1>13. Remembers(wr.part)'
  BY <1>1, <1>6, <1>7, <1>10 DEF Remembers
<1>14. ASSUME NEW k \in 0..(wr'.off + writein' - 1) PROVE Held(Here, k)'
  <2>1. Held(table[Index], k)
    BY <1>1, <1>3, <1>4, <1>6, <1>7 DEF ImageInv, EntriesHold
  <2>2. Held(table[Index], k)'
    <3>1. \A i \in DOMAIN table : Held(table[i], k) => Held(table[i], k)'
      BY <1>1, HeldStays
    <3>2. PICK i \in DOMAIN table : i = Index /\ i = Index'
      BY <1>2, <1>3
    <3>3. Held(table[i], k)'
      BY <2>1, <3>1, <3>2
    <3> QED BY <3>2, <3>3 DEF Held, HasPlace, ByteInPlace, Content, Excused, Place, Nth, Good, Rank
  <2> QED BY <2>2 DEF Here
<1>15. wr'.off = has'[Index'] /\ writein' <= Length' /\ (pos' = Reach' + skipped' * EraseSize)
  BY <1>1, <1>2, <1>4, <1>6, <1>7
<1> QED BY <1>6, <1>10, <1>12, <1>13, <1>14, <1>15 DEF UnderWay

LEMMA BeginsImage ==
  ASSUME NamesFit, LoaderInv, CursorInv, ImageInv, MtdBegins
  PROVE  ImageInv'
<1>1. at' = "mtd" /\ UNCHANGED <<table, has, round, vols, mode, cell, bad, hurt>>
  BY DEF MtdBegins, WriteBegins, tableVars
<1>2. EntriesHold'
  <2> SUFFICES ASSUME NEW i \in DOMAIN table, Concerns(table[i]), NEW k \in 0..(has[i] - 1)
               PROVE  Held(table[i], k)'
    BY <1>1 DEF EntriesHold, Concerns
  <2>1. Held(table[i], k)
    BY DEF ImageInv, EntriesHold
  <2> QED BY <1>1, <2>1, HeldStays
<1>3. Trail'
  BY <1>1 DEF Trail
<1>4. VolumesStay'
  BY <1>1 DEF ImageInv, VolumesStay, Concerns
<1> QED BY <1>1, <1>2, <1>3, <1>4, BeginsRight DEF ImageInv

LEMMA InMtdImage ==
  ASSUME OnceEach, LoaderInv, CursorInv, AimInv, ImageInv, InMtd
  PROVE  ImageInv'
<1>1. /\ at = "mtd" /\ at' = "mtd" /\ MtdStep /\ bad' = bad
      /\ UNCHANGED <<table, cur, has, round, vols, mode>>
  BY MtdStepCells DEF InMtd, otaVars, tableVars, chunkVars, LoaderInv
<1>2. UnderWay'
  BY UnderWayStep
<1>3. First' = First /\ Index' = Index /\ Here' = Here
  BY <1>1, SameEntry
<1>4. hurt \subseteq hurt' /\ longest' = longest
  BY <1>1 DEF MtdStep, SkipBadBlock, BlockIsWritten, ReadFails, EraseFails, WriteFails, WriteEnds,
     Hurts, nameVars
<1>5. /\ Index \in DOMAIN table /\ wr.part = Here.name /\ table \in Tables
      /\ \A p \in Mtds : cell'[p] # cell[p] => p = wr.part
  BY <1>1, HereIsEntry, MtdStepCells DEF LoaderInv, AtPiece
<1>6. EntriesHold'
  <2> SUFFICES ASSUME NEW i \in DOMAIN table, Concerns(table[i]), NEW k \in 0..(has[i] - 1)
               PROVE  Held(table[i], k)'
    BY <1>1 DEF EntriesHold, Concerns
  <2>1. Held(table[i], k)
    BY DEF ImageInv, EntriesHold
  <2>2. CASE i = Index
    <3>1. wr'.off = has[i] /\ writein' \in Nat /\ has[i] \in Nat
      BY <1>1, <1>2, <1>3, <2>2, StepAims, HereAt DEF UnderWay
    <3>2. k \in 0..(wr'.off + writein' - 1)
      BY <3>1
    <3>3. Held(Here, k)'
      BY <1>1, <1>2, <3>2 DEF UnderWay
    <3> QED BY <1>1, <1>3, <2>2, <3>3 DEF Here, Held, HasPlace, ByteInPlace, Content, Excused,
                Place, Nth, Good, Rank
  <2>3. CASE i # Index
    <3>1. table[i].name # wr.part
      BY <1>5, <2>3 DEF OnceEach, Here
    <3> QED BY <1>1, <1>4, <1>5, <2>1, <3>1, HeldStays
  <2> QED BY <2>2, <2>3
<1>7. Trail'
  BY <1>1 DEF Trail
<1>8. VolumesStay'
  BY <1>1 DEF ImageInv, VolumesStay, Concerns
<1> QED BY <1>1, <1>2, <1>4, <1>6, <1>7, <1>8 DEF ImageInv

LEMMA EndsImage ==
  ASSUME Layout, LoaderInv, CursorInv, CursorInv', AimInv, ImageInv, MtdEnds
  PROVE  ImageInv'
<1>1. /\ at = "mtd" /\ wpc = "done" /\ at' # "mtd"
      /\ UNCHANGED <<cell, bad, curName, longest, skipped, wr, writein, hurt>>
      /\ UNCHANGED <<mode, table, round, vols>>
  BY DEF MtdEnds, Advance, Answer, nameVars, tableVars
<1>2. /\ First # {} /\ Index \in DOMAIN table /\ Here = table[Index]
      /\ wr.part = Here.name /\ Here.mtd /\ Length = PieceLen /\ Length \in Nat
      /\ wr.off = has[Index] /\ writein \in Nat /\ has[Index] \in Nat
      /\ Remembers(wr.part) /\ Skips(wr.part, Reach)
      /\ \A k \in 0..(wr.off + writein - 1) : Held(Here, k)
      /\ mret = -1 \/ (mret = Length /\ writein = Length)
  BY <1>1, HereAt DEF ImageInv, UnderWay, LoaderInv, AtPiece, Here
<1>3. has \in [DOMAIN table -> Nat]
  BY DEF CursorInv, CursorTypes
<1>4. CASE mret = PieceLen
  <2>1. /\ has' = [has EXCEPT ![Index] = @ + PieceLen] /\ at' = "loop" /\ writein = Length
    BY <1>2, <1>4 DEF MtdEnds, Wrote, Advance
  <2>2. has'[Index] = wr.off + writein /\ Reach = wr.off + writein
    BY <1>2, <1>3, <2>1 DEF Reach
  <2>3. \A i \in DOMAIN table : i # Index => has'[i] = has[i]
    BY <1>3, <2>1
  <2>4. EntriesHold'
    <3> SUFFICES ASSUME NEW i \in DOMAIN table, Concerns(table[i]), NEW k \in 0..(has'[i] - 1)
                 PROVE  Held(table[i], k)'
      BY <1>1 DEF EntriesHold, Concerns
    <3>1. Held(table[i], k)
      BY <1>2, <2>2, <2>3 DEF ImageInv, EntriesHold
    <3> QED BY <1>1, <3>1, HeldStays
  <2>5. Trail'
    <3> SUFFICES ASSUME NEW i \in DOMAIN table, table[i].mtd, has'[i] \in 1..(table[i].len - 1)
                 PROVE  (Remembers(table[i].name) /\ Skips(table[i].name, has[i]))'
      BY <1>1 DEF Trail
    <3>1. i = Index
      BY <1>2, <2>3, OnlyHere
    <3>2. Remembers(table[i].name) /\ Skips(table[i].name, has'[i])
      BY <1>2, <2>2, <3>1
    <3> QED BY <1>1, <3>2 DEF Remembers, Skips, Bads
  <2>6. VolumesStay'
    BY <1>1, <1>2, <2>3 DEF ImageInv, VolumesStay, Concerns
  <2> QED BY <1>1, <2>4, <2>5, <2>6 DEF ImageInv, UnderWay
<1>5. CASE mret # PieceLen
  <2>1. has' = has /\ at' = "failed"
    BY <1>5 DEF MtdEnds, Answer
  <2>2. EntriesHold'
    <3> SUFFICES ASSUME NEW i \in DOMAIN table, Concerns(table[i]), NEW k \in 0..(has[i] - 1)
                 PROVE  Held(table[i], k)'
      BY <1>1, <2>1 DEF EntriesHold, Concerns
    <3>1. Held(table[i], k)
      BY DEF ImageInv, EntriesHold
    <3> QED BY <1>1, <3>1, HeldStays
  <2>3. VolumesStay'
    BY <1>1, <2>1 DEF ImageInv, VolumesStay, Concerns
  <2> QED BY <1>1, <2>1, <2>2, <2>3 DEF ImageInv, UnderWay, Trail
<1> QED BY <1>4, <1>5

-----------------------------------------------------------------------------
(* Volumes.  What the calls of mi_ubi.c leave in the volume of the entry. *)
LEMMA PreparedIs ==
  ASSUME LoaderInv, CursorInv, ImageInv, AtUbi, Found, Here.how # "remove"
  PROVE  /\ Prepared.size \in Nat /\ DOMAIN Prepared.data = VolCells
         /\ \A k \in 0..(has[Index] - 1) : Prepared.data[k] = Volume.data[k]
         /\ Here.how = "add" => Prepared.size = Here.size
         /\ Here.how # "add" => Volume.size > 0
<1>1. First # {} /\ Concerns(Here) /\ ~Here.mtd
  BY DEF AtUbi, AtEntry
<1>2. /\ Index \in DOMAIN table /\ Here \in Entries /\ Here.name \in Ubis /\ Here = table[Index]
      /\ has[Index] \in Nat
  BY <1>1, HereIsEntry, PieceNat DEF LoaderInv, Entries, Names, Here
<1>3. Volume.size \in Nat /\ DOMAIN Volume.data = VolCells
  BY <1>2 DEF Volume, ImageInv, VolumesStay
<1>4. Here.size \in Nat /\ Here.how \in {"update", "add", "resize"}
  BY <1>2 DEF Entries
<1>5. CASE Here.how = "update"
  <2>1. Prepared = Volume
    BY <1>5, Zenon DEF Prepared
  <2> QED BY <1>3, <1>5, <2>1 DEF Found, Exists
<1>6. CASE Here.how = "add"
  <2>1. Prepared = [size |-> Here.size, data |-> [c \in VolCells |-> Old]]
    BY <1>6, Zenon DEF Prepared
  <2>2. has[Index] = 0
    BY <1>1, <1>2, <1>6 DEF Found, Exists, Volume, ImageInv, VolumesStay
  <2> QED BY <1>4, <1>6, <2>1, <2>2
<1>7. CASE Here.how = "resize"
  <2>1. Prepared = [Volume EXCEPT !.size = Here.size]
    BY <1>7, Zenon DEF Prepared
  <2>2. Prepared.size = Here.size /\ Prepared.data = Volume.data
    BY <1>2, <2>1 DEF Volume
  <2> QED BY <1>3, <1>4, <1>7, <2>2 DEF Found, Exists
<1> QED BY <1>4, <1>5, <1>6, <1>7

LEMMA FilledIs ==
  ASSUME LoaderInv, CursorInv, ImageInv, AtUbi, Found, Here.how # "remove",
         NEW n \in Nat, n <= PieceLen
  PROVE  /\ Filled(n).size = Prepared.size /\ DOMAIN Filled(n).data = VolCells
         /\ \A k \in 0..(has[Index] + n - 1) :
              \/ Filled(n).data[k] = <<round, Here.off + k>>
              \/ k \in 0..(has[Index] - 1) /\ Filled(n).data[k] = Volume.data[k]
<1>1. /\ Prepared.size \in Nat /\ DOMAIN Prepared.data = VolCells
      /\ \A k \in 0..(has[Index] - 1) : Prepared.data[k] = Volume.data[k]
  BY PreparedIs
<1>2. First # {} /\ Concerns(Here) /\ ~Here.mtd
  BY DEF AtUbi, AtEntry
<1>3. /\ Index \in DOMAIN table /\ Hit(Index) /\ Here \in Entries /\ Here.name \in Ubis
      /\ table \in Tables /\ Here = table[Index]
  BY <1>2, HereIsEntry DEF LoaderInv, Entries, Names, Here
<1>4. /\ has[Index] \in Nat /\ PieceLen \in Nat /\ Here.len \in Nat /\ Here.len <= VolMax
      /\ VolMax \in Nat
  BY <1>2, <1>3, PieceNat, OtaAssumption
<1>5. has[Index] + PieceLen <= Here.len
  <2>1. has[Index] <= Here.len
    BY <1>3, <1>4, EntryTypes DEF CursorInv, CursorTypes, CursorAgrees, Passed, Least
  <2>2. left \in Nat
    BY DEF CursorInv, CursorTypes
  <2> QED BY <1>4, <2>1, <2>2 DEF PieceLen, Least
<1>6. Filled(n).data = [c \in VolCells |-> IF c \in has[Index]..(has[Index] + n - 1)
                                            THEN <<round, Here.off + c>> ELSE Prepared.data[c]]
      /\ Filled(n).size = Prepared.size
  BY <1>1 DEF Filled
<1>7. ASSUME NEW k \in 0..(has[Index] + n - 1)
      PROVE  \/ Filled(n).data[k] = <<round, Here.off + k>>
             \/ k \in 0..(has[Index] - 1) /\ Filled(n).data[k] = Volume.data[k]
  <2>1. k \in VolCells
    BY <1>4, <1>5 DEF VolCells
  <2>2. CASE k \in has[Index]..(has[Index] + n - 1)
    BY <1>6, <2>1, <2>2
  <2>3. CASE k \notin has[Index]..(has[Index] + n - 1)
    <3>1. k \in 0..(has[Index] - 1)
      BY <1>4, <2>3
    <3> QED BY <1>1, <1>6, <2>1, <2>3, <3>1
  <2> QED BY <2>2, <2>3
<1> QED BY <1>6, <1>7

\* The volume of the entry becomes v, and m of its bytes are counted.
LEMMA VolumeImage ==
  ASSUME OnceEach, Layout, LoaderInv, CursorInv, ImageInv, AtUbi, at' \in {"loop", "failed"},
         UNCHANGED <<cell, bad, curName, longest, skipped, hurt, mode, table, round>>,
         NEW v, Becomes(v), v.size \in Nat, DOMAIN v.data = VolCells,
         NEW m \in Nat, has' = [has EXCEPT ![Index] = m],
         \A k \in 0..(m - 1) :
           \/ v.data[k] = <<round, Here.off + k>>
           \/ k \in 0..(has[Index] - 1) /\ v.data[k] = Volume.data[k],
         Here.how = "add" /\ m > 0 => v.size > 0
  PROVE  ImageInv'
<1>1. First # {} /\ Concerns(Here) /\ ~Here.mtd /\ at = "loop"
  BY DEF AtUbi, AtEntry, InLoop
<1>2. /\ Index \in DOMAIN table /\ Here \in Entries /\ Here.name \in Ubis /\ Here = table[Index]
      /\ table \in Tables
  BY <1>1, HereIsEntry DEF LoaderInv, Entries, Names, Here
<1>3. has \in [DOMAIN table -> Nat] /\ DOMAIN vols = Ubis
  BY DEF CursorInv, CursorTypes, ImageInv, VolumesStay
<1>4. /\ vols'[Here.name] = v /\ DOMAIN vols' = Ubis
      /\ \A q \in Ubis : q # Here.name => vols'[q] = vols[q]
  BY <1>2, <1>3 DEF Becomes
<1>5. has'[Index] = m /\ \A i \in DOMAIN table : i # Index => has'[i] = has[i]
  BY <1>2, <1>3
<1>6. \A i \in DOMAIN table : i # Index => table[i].name # Here.name
  BY <1>2 DEF OnceEach
<1>7. \A i \in DOMAIN table : table[i].name \in Mtds \cup Ubis
  <2> SUFFICES ASSUME NEW i \in DOMAIN table PROVE table[i].name \in Mtds \cup Ubis
    OBVIOUS
  <2>1. table \in Seq(Entries)
    BY <1>2, OtaAssumption
  <2>2. table[i] \in Entries
    BY <2>1
  <2> QED BY <2>2 DEF Entries, Names
<1>8. EntriesHold'
  <2> SUFFICES ASSUME NEW i \in DOMAIN table, Concerns(table[i]), NEW k \in 0..(has'[i] - 1)
               PROVE  Held(table[i], k)'
    BY DEF EntriesHold, Concerns
  <2>1. CASE i = Index
    <3>1. table[i] = Here /\ ~table[i].mtd /\ table[i].name \notin Mtds
      BY <1>1, <1>2, <2>1, OtaAssumption
    <3>2. vols'[table[i].name] = v
      BY <1>4, <3>1
    <3>3. \/ v.data[k] = <<round, Here.off + k>>
          \/ k \in 0..(has[Index] - 1) /\ v.data[k] = Volume.data[k]
      BY <1>5, <2>1
    <3>4. ASSUME k \in 0..(has[Index] - 1)
          PROVE  Volume.data[k] = <<round, Here.off + k>>
      <4>1. Held(table[i], k)
        BY <2>1, <3>4 DEF ImageInv, EntriesHold
      <4> QED BY <3>1, <4>1 DEF Held, ByteInPlace, Content, Excused, Volume
    <3>5. v.data[k] = <<round, Here.off + k>>
      BY <3>3, <3>4
    <3> QED BY <3>1, <3>2, <3>5 DEF Held, ByteInPlace, Content
  <2>2. CASE i # Index
    <3>1. Held(table[i], k)
      BY <1>5, <2>2 DEF ImageInv, EntriesHold
    <3>2. table[i].name \notin Mtds => vols'[table[i].name] = vols[table[i].name]
      BY <1>4, <1>6, <1>7, <2>2
    <3> QED BY <3>1, <3>2, HeldStays
  <2> QED BY <2>1, <2>2
<1>9. Trail'
  <2> SUFFICES ASSUME NEW i \in DOMAIN table, Concerns(table[i]), table[i].mtd,
                      has'[i] \in 1..(table[i].len - 1)
               PROVE  (Remembers(table[i].name) /\ Skips(table[i].name, has[i]))'
    BY DEF Trail, Concerns
  <2>1. i # Index /\ has'[i] = has[i]
    BY <1>1, <1>2, <1>5
  <2>2. Remembers(table[i].name) /\ Skips(table[i].name, has[i])
    BY <1>1, <2>1 DEF ImageInv, Trail
  <2> QED BY <2>1, <2>2 DEF Remembers, Skips, Bads
<1>10. VolumesStay'
  <2>1. \A q \in Ubis : vols'[q].size \in Nat /\ DOMAIN vols'[q].data = VolCells
    BY <1>2, <1>4 DEF ImageInv, VolumesStay
  <2>2. ASSUME NEW i \in DOMAIN table, Concerns(table[i]), ~table[i].mtd,
               table[i].how = "add", has'[i] > 0
        PROVE  vols'[table[i].name].size > 0
    <3>1. CASE i = Index
      BY <1>2, <1>4, <1>5, <2>2, <3>1
    <3>2. CASE i # Index
      <4>1. table[i].name \in Ubis /\ vols'[table[i].name] = vols[table[i].name]
        <5>1. table[i].name \notin Mtds
          BY <1>2, <2>2, OtaAssumption
        <5> QED BY <1>4, <1>6, <1>7, <3>2, <5>1
      <4> QED BY <1>5, <2>2, <3>2, <4>1 DEF ImageInv, VolumesStay
    <3> QED BY <3>1, <3>2
  <2> QED BY <1>4, <2>1, <2>2 DEF VolumesStay, Concerns
<1> QED BY <1>1, <1>8, <1>9, <1>10 DEF ImageInv, UnderWay

LEMMA UbiImage ==
  ASSUME OnceEach, Layout, LoaderInv, CursorInv, ImageInv,
         RemoveVolume \/ WriteVolume \/ RefuseVolume \/ VolumeFails
  PROVE  ImageInv'
<1>1. /\ AtUbi /\ at = "loop" /\ at' \in {"loop", "failed"}
      /\ UNCHANGED <<cell, bad, curName, longest, skipped, hurt, mode, table, round>>
  BY DEF RemoveVolume, WriteVolume, RefuseVolume, VolumeFails, AtUbi, AtEntry, InLoop,
     Advance, Answer, mtdVars, nameVars, tableVars
<1>2. First # {} /\ Concerns(Here) /\ ~Here.mtd
  BY <1>1 DEF AtUbi, AtEntry
<1>3. /\ Index \in DOMAIN table /\ Here \in Entries /\ Here.name \in Ubis
      /\ has[Index] \in Nat /\ PieceLen \in Nat /\ Here.len \in Nat
      /\ has \in [DOMAIN table -> Nat]
  BY <1>2, HereIsEntry, PieceNat DEF LoaderInv, Entries, Names, CursorInv, CursorTypes
<1>4. has = [has EXCEPT ![Index] = has[Index]]
  BY <1>3
<1>5. Volume.size \in Nat /\ DOMAIN Volume.data = VolCells
  BY <1>3 DEF Volume, ImageInv, VolumesStay
<1>6. Here.how = "add" /\ has[Index] > 0 => Volume.size > 0
  BY <1>2, <1>3 DEF ImageInv, VolumesStay, Here, Volume
<1>7. CASE RemoveVolume
  <2> DEFINE v == [Volume EXCEPT !.size = 0]
  <2>1. Becomes(v) /\ has' = has /\ Here.how = "remove"
    BY <1>7 DEF RemoveVolume
  <2>2. v.size = 0 /\ v.data = Volume.data
    OBVIOUS
  <2> HIDE DEF v
  <2> QED BY <1>1, <1>3, <1>4, <1>5, <2>1, <2>2, VolumeImage
<1>8. CASE WriteVolume
  <2> DEFINE v == Filled(PieceLen)
             m == has[Index] + PieceLen
  <2>1. /\ Becomes(v) /\ has' = [has EXCEPT ![Index] = m] /\ Found /\ Here.how # "remove"
        /\ Prepared.size >= Here.len
    BY <1>8 DEF WriteVolume, Wrote
  <2>2. /\ v.size = Prepared.size /\ DOMAIN v.data = VolCells /\ v.size \in Nat
        /\ \A k \in 0..(m - 1) :
             \/ v.data[k] = <<round, Here.off + k>>
             \/ k \in 0..(has[Index] - 1) /\ v.data[k] = Volume.data[k]
    BY <1>1, <1>3, <2>1, FilledIs, PreparedIs
  <2>3. m \in Nat /\ m <= Here.len
    <3>1. has[Index] <= Here.len
      BY <1>2, <1>3, HereIsEntry, EntryTypes
      DEF CursorInv, CursorTypes, CursorAgrees, Passed, Least, Here
    <3>2. left \in Nat
      BY DEF CursorInv, CursorTypes
    <3> QED BY <1>3, <3>1, <3>2 DEF PieceLen, Least
  <2>4. m > 0 => v.size > 0
    BY <1>3, <2>1, <2>2, <2>3
  <2> HIDE DEF v, m
  <2> QED BY <1>1, <2>1, <2>2, <2>3, <2>4, VolumeImage
<1>9. CASE RefuseVolume \/ VolumeFails
  <2>1. has' = has /\ at' = "failed"
    BY <1>9 DEF RefuseVolume, VolumeFails, Answer
  <2>2. CASE UNCHANGED vols
    BY <1>1, <2>1, <2>2, ImageRests
  <2>3. CASE Found /\ Here.how # "remove" /\ Becomes(Prepared)
    <3> DEFINE v == Prepared
    <3>1. /\ v.size \in Nat /\ DOMAIN v.data = VolCells
          /\ \A k \in 0..(has[Index] - 1) : v.data[k] = Volume.data[k]
          /\ Here.how = "add" => Volume.size = 0
      BY <1>1, <1>5, <2>3, PreparedIs DEF Found, Exists
    <3>2. Here.how = "add" => ~(has[Index] > 0)
      BY <1>5, <1>6, <3>1
    <3> HIDE DEF v
    <3> QED BY <1>1, <1>3, <1>4, <2>1, <2>3, <3>1, <3>2, VolumeImage DEF v
  <2>4. ASSUME Found, Here.how # "remove", Prepared.size >= Here.len,
               NEW n \in 0..(PieceLen - 1), Becomes(Filled(n))
        PROVE  ImageInv'
    <3> DEFINE v == Filled(n)
    <3>1. n \in Nat /\ n <= PieceLen
      BY <1>3
    <3>2. /\ v.size = Prepared.size /\ DOMAIN v.data = VolCells /\ v.size \in Nat
          /\ \A k \in 0..(has[Index] + n - 1) :
               \/ v.data[k] = <<round, Here.off + k>>
               \/ k \in 0..(has[Index] - 1) /\ v.data[k] = Volume.data[k]
      BY <1>1, <2>4, <3>1, FilledIs, PreparedIs
    <3>3. Here.how = "add" => ~(has[Index] > 0)
      BY <1>5, <1>6, <2>4 DEF Found, Exists
    <3> HIDE DEF v
    <3>4. ASSUME NEW k \in 0..(has[Index] - 1)
          PROVE  \/ v.data[k] = <<round, Here.off + k>>
                 \/ k \in 0..(has[Index] - 1) /\ v.data[k] = Volume.data[k]
      <4>1. k \in 0..(has[Index] + n - 1)
        BY <1>3, <3>1
      <4> QED BY <3>2, <4>1
    <3>5. Becomes(v)
      BY <2>4 DEF v
    <3> QED BY <1>1, <1>3, <1>4, <2>1, <3>2, <3>3, <3>4, <3>5, VolumeImage
  <2> QED BY <1>9, <2>2, <2>3, <2>4 DEF RefuseVolume, VolumeFails
<1> QED BY <1>7, <1>8, <1>9

LEMMA PassImage ==
  ASSUME LoaderInv, CursorInv, ImageInv, PassOver
  PROVE  ImageInv'
<1>1. /\ First # {} /\ ~Concerns(Here) /\ at = "loop" /\ at' = "loop"
      /\ UNCHANGED <<cell, bad, curName, longest, skipped, hurt, mode, table, round, vols>>
      /\ has' = [has EXCEPT ![Index] = @ + PieceLen]
  BY DEF PassOver, AtEntry, InLoop, Wrote, Advance, mtdVars, nameVars, tableVars
<1>2. has \in [DOMAIN table -> Nat]
  BY DEF CursorInv, CursorTypes
<1>3. \A i \in DOMAIN table : Concerns(table[i]) => has'[i] = has[i]
  BY <1>1, <1>2 DEF Here
<1>4. EntriesHold'
  <2> SUFFICES ASSUME NEW i \in DOMAIN table, Concerns(table[i]), NEW k \in 0..(has'[i] - 1)
               PROVE  Held(table[i], k)'
    BY <1>1 DEF EntriesHold, Concerns
  <2>1. Held(table[i], k)
    BY <1>3 DEF ImageInv, EntriesHold
  <2> QED BY <1>1, <2>1, HeldStays
<1>5. Trail'
  <2> SUFFICES ASSUME NEW i \in DOMAIN table, Concerns(table[i]), table[i].mtd,
                      has'[i] \in 1..(table[i].len - 1)
               PROVE  (Remembers(table[i].name) /\ Skips(table[i].name, has[i]))'
    BY <1>1 DEF Trail, Concerns
  <2>1. has'[i] = has[i] /\ Remembers(table[i].name) /\ Skips(table[i].name, has[i])
    BY <1>1, <1>3 DEF ImageInv, Trail
  <2> QED BY <1>1, <2>1 DEF Remembers, Skips, Bads
<1>6. VolumesStay'
  BY <1>1, <1>3 DEF ImageInv, VolumesStay, Concerns
<1> QED BY <1>1, <1>4, <1>5, <1>6 DEF ImageInv, UnderWay

LEMMA ImageStep ==
  Layout /\ OnceEach /\ NamesFit /\ LoaderInv /\ CursorInv /\ CursorInv' /\ AimInv
    /\ ImageInv /\ [Next]_vars => ImageInv'
<1> SUFFICES ASSUME Layout, OnceEach, NamesFit, LoaderInv, CursorInv, CursorInv', AimInv,
                    ImageInv, [Next]_vars
             PROVE  ImageInv'
  OBVIOUS
<1>1. CASE MtdBegins
  BY <1>1, BeginsImage
<1>2. CASE InMtd
  BY <1>2, InMtdImage
<1>3. CASE MtdEnds
  BY <1>3, EndsImage
<1>4. CASE RemoveVolume \/ WriteVolume \/ RefuseVolume \/ VolumeFails
  BY <1>4, UbiImage
<1>5. CASE PassOver
  BY <1>5, PassImage
<1>6. ASSUME NEW t \in Tables, Parse(t) PROVE ImageInv'
  <2>1. /\ at' = "idle" /\ table' = t /\ has' = [i \in DOMAIN t |-> 0]
        /\ UNCHANGED <<bad, longest, vols>>
    BY <1>6 DEF Parse, mtdVars, nameVars
  <2>2. \A i \in DOMAIN t : has'[i] = 0
    BY <2>1
  <2> QED BY <2>1, <2>2 DEF ImageInv, EntriesHold, Trail, UnderWay, VolumesStay
<1>7. ASSUME NEW n \in Chunks, Hand(n) PROVE ImageInv'
  BY <1>7, ImageRests DEF Hand, mtdVars, nameVars, tableVars
<1>8. CASE LoopEnds \/ NoEntry \/ RefuseMtd
  BY <1>8, ImageRests DEF LoopEnds, NoEntry, RefuseMtd, AtMtd, AtEntry, InLoop, Answer,
     mtdVars, nameVars, tableVars
<1>9. CASE CommandFails
  BY <1>9, ImageRests DEF CommandFails, AtMtd, AtEntry, InLoop, Answer, nameVars, tableVars
<1>10. CASE UNCHANGED vars
  <2>1. UNCHANGED <<table, cur, has, wr, pos, writein, mret, wpc, at, mode, round>>
    BY <1>10 DEF vars, otaVars, tableVars, chunkVars, mtdVars, callVars
  <2>2. UNCHANGED <<cell, bad, curName, longest, skipped, hurt, vols>>
    BY <1>10 DEF vars, otaVars, mtdVars, nameVars
  <2>3. CASE at # "mtd"
    BY <2>1, <2>2, <2>3, ImageRests
  <2>4. CASE at = "mtd"
    <3>1. EntriesHold'
      <4> SUFFICES ASSUME NEW i \in DOMAIN table, Concerns(table[i]), NEW k \in 0..(has[i] - 1)
                   PROVE  Held(table[i], k)'
        BY <2>1 DEF EntriesHold, Concerns
      <4>1. Held(table[i], k)
        BY DEF ImageInv, EntriesHold
      <4> QED BY <2>1, <2>2, <4>1, HeldStays
    <3>2. First' = First /\ Index' = Index /\ Here' = Here
      BY <2>1, SameEntry
    <3>3. ASSUME NEW k \in 0..(wr'.off + writein' - 1) PROVE Held(Here, k)'
      <4>1. Held(Here, k)
        BY <2>1, <2>4 DEF ImageInv, UnderWay
      <4>2. Place(Here.name, k)' = Place(Here.name, k)
        BY <2>2, <3>2 DEF Place, Nth, Good
      <4>3. HasPlace(Here.name, k)' = HasPlace(Here.name, k)
        BY <2>2, <3>2 DEF HasPlace, Good, Rank
      <4> QED BY <2>1, <2>2, <3>2, <4>1, <4>2, <4>3 DEF Held, ByteInPlace, Content, Excused
    <3>4. Remembers(wr.part)' /\ Skips(wr.part, Reach)' /\ Reach' = Reach /\ Length' = Length
      BY <2>1, <2>2, <2>4 DEF ImageInv, UnderWay, Remembers, Skips, Bads, Reach, Within, Length
    <3>5. UnderWay'
      BY <2>1, <2>2, <2>4, <3>2, <3>3, <3>4 DEF ImageInv, UnderWay
    <3> QED BY <2>1, <2>2, <2>4, <3>1, <3>5 DEF ImageInv, VolumesStay, Concerns, Trail
  <2> QED BY <2>3, <2>4
<1> QED
  BY <1>1, <1>2, <1>3, <1>4, <1>5, <1>6, <1>7, <1>8, <1>9, <1>10 DEF Next, Loader

LEMMA ImageInit == Init => ImageInv
<1> SUFFICES ASSUME Init PROVE ImageInv
  OBVIOUS
<1>1. table = << >> /\ at = "start" /\ bad \in BadBlocks /\ longest = 0
  BY DEF Init
<1>2. vols = [v \in Ubis |-> [size |-> VolSizes[v], data |-> [c \in VolCells |-> Old]]]
  BY DEF Init
<1>3. \A v \in Ubis : vols[v].size \in Nat /\ DOMAIN vols[v].data = VolCells
  BY <1>2, OtaAssumption
<1> QED BY <1>1, <1>2, <1>3 DEF ImageInv, EntriesHold, Trail, UnderWay, VolumesStay

(* However an image is cut into chunks, and whatever fails, each partition and
   volume holds its part of the image as far as it was counted as written, in
   order and around the bad blocks, but for blocks that the driver failed on. *)
THEOREM ImageIsInPlace == ASSUME Layout, OnceEach, NamesFit PROVE Spec => []ImageInPlace
<1>1. CursorInv /\ LoaderInv /\ [Next]_vars => CursorInv'
  BY CursorStep
<1>2. LoaderInv /\ CursorInv /\ AimInv /\ [Next]_vars => AimInv'
  BY AimStep
<1>3. LoaderInv /\ CursorInv /\ CursorInv' /\ AimInv /\ ImageInv /\ [Next]_vars => ImageInv'
  BY ImageStep
<1>4. ImageInv => ImageInPlace
  BY DEF ImageInv, EntriesHold, Held, ByteInPlace, ImageInPlace
<1> QED
  BY <1>1, <1>2, <1>3, <1>4, LoaderInit, LoaderStep, CursorInit, AimInit, ImageInit,
     PTL DEF Spec
=============================================================================
