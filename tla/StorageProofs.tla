---------------------------- MODULE StorageProofs ----------------------------
(***************************************************************************)
(* Proofs about the parts of Storage.  UbiVolume, for any number of        *)
(* threads and any size of the volume: the mutex excludes, a thread reads  *)
(* and writes where it means to, and no write is lost but by a race within *)
(* its erase block.  The table of open devices: by what UbiSlotsProofs     *)
(* proves.  Attaching: a partition is looked up and detached by its name.  *)
(* The image of the recovery system: wherever bad blocks are, it is whole  *)
(* when its file is removed.  The raw NAND: what is read is what was put.  *)
(***************************************************************************)
EXTENDS Storage, FiniteSetTheorems, SequenceTheorems, TLAPS

-----------------------------------------------------------------------------
(* Erase blocks lie side by side. *)
LEMMA BaseNat == ASSUME NEW n \in Nat PROVE Base(n) \in Nat
BY UbiAssumption DEF Base

LEMMA BaseNext == ASSUME NEW n \in Nat PROVE Base(n + 1) = Base(n) + LebSize
BY UbiAssumption DEF Base

LEMMA BaseOrder ==
  ASSUME NEW m \in Nat, NEW n \in Nat, m < n PROVE Base(m) + LebSize <= Base(n)
<1> DEFINE k == n - (m + 1)
<1>1. k \in Nat /\ n = (m + 1) + k
  OBVIOUS
<1>2. k * LebSize \in Nat
  BY <1>1, UbiAssumption
<1>3. ((m + 1) + k) * LebSize = (m * LebSize + LebSize) + k * LebSize
  BY <1>1, UbiAssumption
<1>4. m * LebSize \in Nat
  BY UbiAssumption
<1> HIDE DEF k
<1> QED BY <1>1, <1>2, <1>3, <1>4, UbiAssumption DEF Base

LEMMA BaseSplit ==
  ASSUME NEW n \in Nat
  PROVE  /\ n \div LebSize \in Nat /\ n % LebSize \in 0..(LebSize - 1)
         /\ Base(n \div LebSize) + (n % LebSize) = n
BY UbiAssumption DEF Base

LEMMA OffsetsNat == Offsets \subseteq Nat
BY BaseNat, UbiAssumption DEF Offsets, Size

(* A block below the last one lies within the volume, and two blocks share no
   byte. *)
LEMMA BlockInside ==
  ASSUME NEW n \in Nat, n < BlockCnt
  PROVE  /\ Block(n) \subseteq Offsets
         /\ Min2(Base(n) + LebSize, Size) = Base(n) + LebSize
<1>1. Base(n) \in Nat /\ Base(BlockCnt) \in Nat /\ Base(n) + LebSize <= Base(BlockCnt)
  BY BaseNat, BaseOrder, UbiAssumption
<1> QED BY <1>1, UbiAssumption DEF Block, Offsets, Size, Min2

LEMMA BlocksDisjoint ==
  ASSUME NEW m \in Nat, NEW n \in Nat, NEW b \in Block(m), b \in Block(n)
  PROVE  m = n
<1>1. Base(m) \in Nat /\ Base(n) \in Nat
  BY BaseNat
<1>2. ~(m < n) /\ ~(n < m)
  BY <1>1, BaseOrder, UbiAssumption DEF Block
<1> QED BY <1>2

-----------------------------------------------------------------------------
(* What the steps need of the types. *)
Calls == [kind : {"read", "write"}, off : Nat, len : Nat, id : 0..MaxCalls]

Typed ==
  /\ pc \in [Users -> Places]
  /\ req \in [Users -> Calls]
  /\ leb \in [Users -> Nat] /\ rem \in [Users -> 0..(LebSize - 1)]
  /\ done \in [Users -> Nat] /\ left \in [Users -> Nat]
  /\ DOMAIN buf = Users /\ DOMAIN ret = Users
  /\ calls \in 0..MaxCalls

LEMMA PieceTyped ==
  ASSUME Typed, NEW u \in Users
  PROVE  Piece(u) \in Nat /\ Piece(u) <= left[u] /\ rem[u] + Piece(u) <= LebSize
<1>1. rem[u] \in 0..(LebSize - 1) /\ left[u] \in Nat
  BY DEF Typed
<1> QED BY <1>1, UbiAssumption DEF Piece, Min2

LEMMA TypedInit == Init => Typed
BY UbiAssumption DEF Init, Typed, Calls, NoCall, Places

LEMMA TypedStep == Typed /\ [Next]_vars => Typed'
<1> SUFFICES ASSUME Typed, [Next]_vars PROVE Typed'
  OBVIOUS
<1> USE DEF Typed, Places, Goes, Returns, GivesUp
<1>1. CASE UNCHANGED vars
  BY <1>1 DEF vars, volVars, fdVars, callVars
<1>2. CASE Rest
  BY <1>2 DEF Rest, vars, volVars, fdVars, callVars
<1>3. ASSUME NEW u \in Users, Call(u) PROVE Typed'
  <2>1. PICK kind \in {"read", "write"}, off \in Starts, len \in Lengths :
          /\ req' = [req EXCEPT ![u] = [kind |-> kind, off |-> off, len |-> len, id |-> calls']]
          /\ leb' = [leb EXCEPT ![u] = off \div LebSize]
          /\ rem' = [rem EXCEPT ![u] = off % LebSize]
          /\ left' = [left EXCEPT ![u] = len]
          /\ done' = [done EXCEPT ![u] = 0]
    BY <1>3 DEF Call
  <2>2. off \div LebSize \in Nat /\ off % LebSize \in 0..(LebSize - 1)
    BY BaseSplit, UbiAssumption
  <2>3. calls' \in 0..MaxCalls
    BY <1>3, UbiAssumption DEF Call
  <2>4. len \in Nat /\ off \in Nat
    BY UbiAssumption
  <2>5. req' \in [Users -> Calls]
    BY <2>1, <2>3, <2>4 DEF Calls
  <2>6. pc' \in [Users -> Places] /\ DOMAIN ret' = Users /\ DOMAIN buf' = Users
    BY <1>3 DEF Call
  <2> QED BY <2>1, <2>2, <2>3, <2>4, <2>5, <2>6
<1>4. ASSUME NEW u \in Users, Open(u) PROVE Typed'
  BY <1>4 DEF Open, callVars
<1>5. ASSUME NEW u \in Users, OpenVolume(u) PROVE Typed'
  BY <1>5 DEF OpenVolume, callVars
<1>6. ASSUME NEW u \in Users, Ready(u) PROVE Typed'
  BY <1>6 DEF Ready, callVars
<1>7. ASSUME NEW u \in Users, Seek(u) PROVE Typed'
  BY <1>7 DEF Seek, callVars
<1>8. ASSUME NEW u \in Users, Fetch(u) PROVE Typed'
  BY <1>8 DEF Fetch, callVars
<1>9. ASSUME NEW u \in Users, Change(u) PROVE Typed'
  BY <1>9 DEF Change, callVars
<1>10. ASSUME NEW u \in Users, WriteBack(u) PROVE Typed'
  <2>1. Piece(u) \in Nat /\ Piece(u) <= left[u]
    BY PieceTyped
  <2>2. 0 \in 0..(LebSize - 1)
    BY UbiAssumption
  <2>3. CASE Stores(u)
    <3>1. /\ done' = [done EXCEPT ![u] = @ + Piece(u)]
          /\ left' = [left EXCEPT ![u] = @ - Piece(u)]
          /\ leb' = [leb EXCEPT ![u] = @ + 1]
          /\ UNCHANGED <<req, buf, calls>>
      BY <1>10, <2>3 DEF WriteBack, Stores
    <3>2. rem' \in [Users -> 0..(LebSize - 1)]
      BY <1>10, <2>2 DEF WriteBack, StoresNot
    <3>3. pc' \in [Users -> Places] /\ DOMAIN ret' = Users
      BY <2>3 DEF Stores
    <3>4. left[u] - Piece(u) \in Nat
      BY <2>1
    <3>5. done' \in [Users -> Nat] /\ leb' \in [Users -> Nat]
      BY <2>1, <3>1
    <3>6. left' \in [Users -> Nat]
      BY <3>1, <3>4
    <3>7. req' \in [Users -> Calls] /\ DOMAIN buf' = Users /\ calls' \in 0..MaxCalls
      BY <3>1
    <3> QED BY <3>2, <3>3, <3>5, <3>6, <3>7
  <2>4. CASE StoresNot(u)
    BY <1>10, <2>4 DEF WriteBack, StoresNot
  <2> QED BY <1>10, <2>3, <2>4 DEF WriteBack
<1> QED BY <1>1, <1>2, <1>3, <1>4, <1>5, <1>6, <1>7, <1>8, <1>9, <1>10 DEF Next

-----------------------------------------------------------------------------
(* UBI_LOCK excludes. *)
LEMMA MutexStep == Typed /\ MutexReleased /\ [Next]_vars => MutexReleased'
<1> SUFFICES ASSUME Typed, MutexReleased, [Next]_vars PROVE MutexReleased'
  OBVIOUS
<1> USE UbiAssumption DEF Typed, Places, Goes, Returns, GivesUp, MutexReleased
<1>1. CASE UNCHANGED vars
  BY <1>1 DEF vars
<1>2. CASE Rest
  BY <1>2 DEF Rest, vars
<1>3. ASSUME NEW u \in Users, Call(u) PROVE MutexReleased'
  BY <1>3 DEF Call
<1>4. ASSUME NEW u \in Users, Open(u) PROVE MutexReleased'
  BY <1>4 DEF Open
<1>5. ASSUME NEW u \in Users, OpenVolume(u) PROVE MutexReleased'
  BY <1>5 DEF OpenVolume
<1>6. ASSUME NEW u \in Users, Ready(u) PROVE MutexReleased'
  BY <1>6 DEF Ready
<1>7. ASSUME NEW u \in Users, Seek(u) PROVE MutexReleased'
  BY <1>7 DEF Seek
<1>8. ASSUME NEW u \in Users, Fetch(u) PROVE MutexReleased'
  BY <1>8 DEF Fetch
<1>9. ASSUME NEW u \in Users, Change(u) PROVE MutexReleased'
  BY <1>9 DEF Change
<1>10. ASSUME NEW u \in Users, WriteBack(u) PROVE MutexReleased'
  <2>1. Goes(u, "idle") \/ Goes(u, "open")
    BY <1>10 DEF WriteBack, Stores, StoresNot
  <2>2. mutex' = Nobody /\ pc[u] = "write"
    BY <1>10 DEF WriteBack
  <2> QED BY <2>1, <2>2
<1> QED BY <1>1, <1>2, <1>3, <1>4, <1>5, <1>6, <1>7, <1>8, <1>9, <1>10 DEF Next

(* UBI_LOCK excludes: whoever holds stMutex is between lseek and read, or      *)
(* between the LEB change and the end of the write, and nobody else is there,  *)
(* whatever fails on the way.                                                  *)
THEOREM MutexExcludes == Spec => []MutexReleased
<1>1. Init => Typed /\ MutexReleased
  BY TypedInit, UbiAssumption DEF Init, MutexReleased
<1>2. Typed /\ MutexReleased /\ [Next]_vars => (Typed /\ MutexReleased)'
  BY TypedStep, MutexStep
<1> QED BY <1>1, <1>2, PTL DEF Spec

-----------------------------------------------------------------------------
(* A thread that finds the volume closed may open it; once a descriptor is
   stored, only those can that have looked before. *)
Opening == {u \in Users : pc[u] = "opening"}

OpensBounded ==
  /\ pc \in [Users -> Places]
  /\ stored \in BOOLEAN /\ opens \in Nat
  /\ ~stored => opens = 0
  /\ stored => opens + Cardinality(Opening) <= Cardinality(Users)

LEMMA OpeningFinite ==
  ASSUME NEW S \in SUBSET Users
  PROVE  IsFiniteSet(S) /\ Cardinality(S) \in Nat /\ Cardinality(S) <= Cardinality(Users)
BY UbiAssumption, FS_Subset, FS_CardinalityType

LEMMA OneLess ==
  ASSUME NEW u \in Opening
  PROVE  /\ Cardinality(Opening \ {u}) \in Nat
         /\ Cardinality(Opening) = Cardinality(Opening \ {u}) + 1
<1>1. IsFiniteSet(Opening) /\ Cardinality(Opening) \in Nat
  BY OpeningFinite DEF Opening
<1>2. Cardinality(Opening \ {u}) = Cardinality(Opening) - 1
  BY <1>1, FS_RemoveElement
<1>3. Cardinality(Opening \ {u}) \in Nat
  BY OpeningFinite DEF Opening
<1> QED BY <1>1, <1>2, <1>3

LEMMA OpensStep == OpensBounded /\ [Next]_vars => OpensBounded'
<1> SUFFICES ASSUME OpensBounded, [Next]_vars PROVE OpensBounded'
  OBVIOUS
<1> USE DEF Goes, Returns, GivesUp
(* a step that nobody begins or ends to open in *)
<1>1. ASSUME UNCHANGED <<stored, opens>>, pc' \in [Users -> Places], Opening' = Opening
      PROVE  OpensBounded'
  BY <1>1 DEF OpensBounded
<1>2. CASE UNCHANGED vars
  BY <1>1, <1>2 DEF vars, fdVars, OpensBounded, Opening
<1>3. CASE Rest
  BY <1>1, <1>3 DEF Rest, vars, fdVars, OpensBounded, Opening
<1>4. ASSUME NEW u \in Users, pc[u] # "opening", UNCHANGED fdVars,
             NEW to \in Places \ {"opening"}, Goes(u, to)
      PROVE  OpensBounded'
  BY <1>1, <1>4 DEF fdVars, OpensBounded, Opening
<1>5. ASSUME NEW u \in Users, Call(u) PROVE OpensBounded'
  BY <1>4, <1>5 DEF Call, Places
<1>6. ASSUME NEW u \in Users, Open(u) PROVE OpensBounded'
  <2>1. CASE stored
    BY <1>4, <1>6, <2>1 DEF Open, Places
  <2>2. CASE ~stored
    BY <1>6, <2>2 DEF Open, fdVars, OpensBounded, Places
  <2> QED BY <2>1, <2>2
<1>7. ASSUME NEW u \in Users, OpenVolume(u) PROVE OpensBounded'
  <2>1. u \in Opening
    BY <1>7 DEF OpenVolume, Opening
  <2>2. Opening' = Opening \ {u} /\ pc' \in [Users -> Places]
    BY <1>7 DEF OpenVolume, Opening, OpensBounded, Places
  <2>3. Cardinality(Opening') \in Nat /\ Cardinality(Opening) = Cardinality(Opening') + 1
    BY <2>1, <2>2, OneLess
  <2>4. Cardinality(Opening) <= Cardinality(Users) /\ Cardinality(Users) \in Nat
    BY OpeningFinite DEF Opening
  <2>5. CASE stored' = TRUE /\ opens' = opens + 1
    BY <2>2, <2>3, <2>4, <2>5 DEF OpensBounded
  <2>6. CASE UNCHANGED fdVars
    BY <2>2, <2>3, <2>4, <2>6 DEF OpensBounded, fdVars
  <2> QED BY <1>7, <2>5, <2>6 DEF OpenVolume
<1>8. ASSUME NEW u \in Users, Ready(u) PROVE OpensBounded'
  BY <1>4, <1>8 DEF Ready, Places
<1>9. ASSUME NEW u \in Users, Seek(u) PROVE OpensBounded'
  BY <1>4, <1>9 DEF Seek, Places
<1>10. ASSUME NEW u \in Users, Fetch(u) PROVE OpensBounded'
  BY <1>4, <1>10 DEF Fetch, Places
<1>11. ASSUME NEW u \in Users, Change(u) PROVE OpensBounded'
  BY <1>4, <1>11 DEF Change, Places
<1>12. ASSUME NEW u \in Users, WriteBack(u) PROVE OpensBounded'
  <2>1. Goes(u, "idle") \/ Goes(u, "open")
    BY <1>12 DEF WriteBack, Stores, StoresNot
  <2>2. pc[u] = "write" /\ UNCHANGED fdVars
    BY <1>12 DEF WriteBack
  <2> QED BY <1>4, <2>1, <2>2 DEF Places
<1> QED BY <1>2, <1>3, <1>5, <1>6, <1>7, <1>8, <1>9, <1>10, <1>11, <1>12 DEF Next

(* The race in _MI_UBI_OpenVolume costs at most one descriptor for each thread, *)
(* however often they read and write.                                           *)
THEOREM OpensAreBounded == Spec => []FewDescriptors
<1>1. Init => OpensBounded
  <2>1. Init => ~stored
    BY Zenon DEF Init
  <2>2. Init => pc \in [Users -> Places] /\ stored \in BOOLEAN /\ opens = 0
    BY DEF Init, Places
  <2> QED BY <2>1, <2>2 DEF OpensBounded
<1>2. OpensBounded => FewDescriptors
  <2>1. Cardinality(Opening) \in Nat /\ Cardinality(Users) \in Nat
    BY OpeningFinite DEF Opening
  <2> QED BY <2>1 DEF OpensBounded, FewDescriptors
<1> QED BY <1>1, <1>2, OpensStep, PTL DEF Spec

-----------------------------------------------------------------------------
(* A thread changes its own call only. *)
Step(u) ==
  \/ Call(u) \/ Open(u) \/ OpenVolume(u) \/ Ready(u)
  \/ Seek(u) \/ Fetch(u) \/ Change(u) \/ WriteBack(u)

Same(v) ==
  /\ pc'[v] = pc[v] /\ req'[v] = req[v] /\ leb'[v] = leb[v] /\ rem'[v] = rem[v]
  /\ done'[v] = done[v] /\ left'[v] = left[v] /\ buf'[v] = buf[v]

LEMMA OthersStay ==
  ASSUME Typed, NEW u \in Users, NEW v \in Users \ {u}, Step(u) PROVE Same(v)
<1> USE DEF Typed, Goes, Returns, GivesUp, Same, callVars
<1>1. CASE Call(u)
  BY <1>1 DEF Call
<1>2. CASE Open(u)
  BY <1>2 DEF Open
<1>3. CASE OpenVolume(u)
  BY <1>3 DEF OpenVolume
<1>4. CASE Ready(u)
  BY <1>4 DEF Ready
<1>5. CASE Seek(u)
  BY <1>5 DEF Seek
<1>6. CASE Fetch(u)
  BY <1>6 DEF Fetch
<1>7. CASE Change(u)
  BY <1>7 DEF Change
<1>8. CASE WriteBack(u)
  BY <1>8 DEF WriteBack, Stores, StoresNot
<1> QED BY <1>1, <1>2, <1>3, <1>4, <1>5, <1>6, <1>7, <1>8 DEF Step

-----------------------------------------------------------------------------
(* A thread that holds the mutex for lseek and read finds the file offset where *)
(* it has put it; a write knows how far it has come, and stays in the volume.   *)
Writes(u) == req[u].kind = "write"

Aimed(u) ==
  /\ pc[u] = "fetch" /\ Target(u) <= Size => pos = Target(u)
  /\ Writes(u) /\ pc[u] \in {"seek", "fetch", "change", "write"} => leb[u] < BlockCnt
  /\ Writes(u) /\ pc[u] # "idle" => Base(leb[u]) + rem[u] = req[u].off + done[u]
  /\ pc[u] \in {"change", "write"} => Writes(u)

LEMMA AimedCall ==
  ASSUME Typed, NEW u \in Users, Call(u) PROVE Aimed(u)'
<1>1. PICK kind \in {"read", "write"}, off \in Starts, len \in Lengths :
        /\ req' = [req EXCEPT ![u] = [kind |-> kind, off |-> off, len |-> len, id |-> calls']]
        /\ leb' = [leb EXCEPT ![u] = off \div LebSize]
        /\ rem' = [rem EXCEPT ![u] = off % LebSize]
        /\ done' = [done EXCEPT ![u] = 0]
  BY DEF Call
<1>2. Base(leb'[u]) + rem'[u] = off /\ req'[u].off + done'[u] = off
  BY <1>1, BaseSplit, UbiAssumption DEF Typed
<1>3. pc'[u] \in {"idle", "open"}
  BY DEF Call, Goes, Returns, Typed
<1> QED BY <1>2, <1>3 DEF Aimed, Writes

LEMMA AimedWriteBack ==
  ASSUME Typed, NEW u \in Users, Aimed(u), WriteBack(u) PROVE Aimed(u)'
<1>1. CASE StoresNot(u)
  <2>1. pc'[u] = "idle"
    BY <1>1 DEF StoresNot, GivesUp, Returns, Goes, Typed
  <2> QED BY <2>1 DEF Aimed
<1>2. CASE Stores(u)
  <2>1. pc'[u] \in {"idle", "open"}
    BY <1>2 DEF Stores, Returns, Goes, Typed
  <2>2. pc'[u] # "idle" => left[u] # Piece(u)
    BY <1>2 DEF Stores, Returns, Goes, Typed
  <2>3. left[u] # Piece(u) => Piece(u) = LebSize - rem[u]
    BY DEF Piece, Min2
  <2>4. /\ leb'[u] = leb[u] + 1 /\ rem'[u] = 0
        /\ done'[u] = done[u] + Piece(u) /\ req'[u] = req[u]
    BY <1>2 DEF WriteBack, Stores, StoresNot, Typed
  <2>5. Base(leb'[u]) = Base(leb[u]) + LebSize /\ Base(leb[u]) \in Nat
    BY <2>4, BaseNext, BaseNat DEF Typed
  <2>6. Base(leb[u]) + rem[u] = req[u].off + done[u]
        \/ ~Writes(u)
    BY DEF Aimed, WriteBack
  <2>7. /\ done[u] \in Nat /\ rem[u] \in Nat /\ req[u].off \in Nat /\ Piece(u) \in Nat
        /\ LebSize \in Nat
    <3>1. done[u] \in Nat /\ rem[u] \in Nat /\ req[u] \in Calls
      BY UbiAssumption DEF Typed
    <3>2. req[u].off \in Nat
      BY <3>1 DEF Calls
    <3> QED BY <3>1, <3>2, PieceTyped, UbiAssumption
  <2>8. Writes(u)' /\ pc'[u] # "idle" => Base(leb'[u]) + rem'[u] = req'[u].off + done'[u]
    <3> SUFFICES ASSUME Writes(u)', pc'[u] # "idle"
                 PROVE  Base(leb'[u]) + rem'[u] = req'[u].off + done'[u]
      OBVIOUS
    <3>1. Writes(u)
      BY <2>4 DEF Writes
    <3>2. Piece(u) = LebSize - rem[u]
      BY <2>2, <2>3
    <3> QED BY <3>1, <3>2, <2>4, <2>5, <2>6, <2>7
  <2> QED BY <2>1, <2>8 DEF Aimed
<1> QED BY <1>1, <1>2 DEF WriteBack

LEMMA AimedStep ==
  Typed /\ MutexReleased /\ (\A u \in Users : Aimed(u)) /\ [Next]_vars
    => \A u \in Users : Aimed(u)'
<1> SUFFICES ASSUME Typed, MutexReleased, \A u \in Users : Aimed(u), [Next]_vars,
                    NEW v \in Users
             PROVE  Aimed(v)'
  OBVIOUS
<1>1. CASE UNCHANGED vars
  BY <1>1 DEF Aimed, Target, Writes, vars, callVars
<1>2. CASE Rest
  BY <1>2 DEF Aimed, Target, Writes, Rest, vars, callVars
<1>3. ASSUME NEW u \in Users, Step(u), v # u PROVE Aimed(v)'
  <2>1. Same(v) /\ Aimed(v)
    BY <1>3, OthersStay
  <2>2. pc[v] = "fetch" => UNCHANGED pos
    <3> SUFFICES ASSUME pc[v] = "fetch" PROVE UNCHANGED pos
      OBVIOUS
    <3>1. mutex = v /\ mutex # Nobody /\ pc[u] \notin {"fetch", "write"}
      BY <1>3, UbiAssumption DEF MutexReleased
    <3> QED BY <1>3, <3>1 DEF Step, Call, Open, OpenVolume, Ready, Seek, Fetch, Change, WriteBack
  <2> QED BY <2>1, <2>2 DEF Aimed, Target, Same, Writes
<1>4. ASSUME Step(v) PROVE Aimed(v)'
  <2> USE DEF Typed, Goes, Returns, GivesUp, Aimed, Target, Writes, callVars
  <2>1. CASE Call(v)
    BY <2>1, AimedCall
  <2>2. CASE Open(v)
    BY <2>2 DEF Open
  <2>3. CASE OpenVolume(v)
    BY <2>3 DEF OpenVolume
  <2>4. CASE Ready(v)
    BY <2>4, UbiAssumption DEF Ready
  <2>5. CASE Seek(v)
    BY <2>5 DEF Seek, Sought
  <2>6. CASE Fetch(v)
    BY <2>6 DEF Fetch, Calls
  <2>7. CASE Change(v)
    BY <2>7 DEF Change
  <2>8. CASE WriteBack(v)
    BY <2>8, AimedWriteBack
  <2> QED BY <1>4, <2>1, <2>2, <2>3, <2>4, <2>5, <2>6, <2>7, <2>8 DEF Step
<1> QED BY <1>1, <1>2, <1>3, <1>4 DEF Next, Step

-----------------------------------------------------------------------------
(* The buffer of a write that is under way holds its own bytes at their places, *)
(* and the bytes of the others but for those that the race has made unsure.     *)
InPiece(u, b) == b - req[u].off \in done[u]..(done[u] + Piece(u) - 1)

Fresh(u) ==
  pc[u] \in {"change", "write"} =>
    \A b \in Block(leb[u]) :
      IF InPiece(u, b) THEN buf[u][b] = <<req[u].id, b - req[u].off>>
      ELSE expect[b] # Unsure => buf[u][b] = expect[b]

(* Counted from the start of the piece or from the start of the call. *)
LEMMA SamePlace ==
  ASSUME Typed, NEW u \in Users, Aimed(u), Writes(u), pc[u] # "idle", NEW b \in Nat
  PROVE  LET i == b - Base(leb[u]) - rem[u]
         IN  /\ i \in 0..(Piece(u) - 1) <=> InPiece(u, b)
             /\ done[u] + i = b - req[u].off
<1>1. Base(leb[u]) + rem[u] = req[u].off + done[u]
  BY DEF Aimed
<1>2. Base(leb[u]) \in Nat /\ Piece(u) \in Nat
  BY BaseNat, PieceTyped DEF Typed
<1>3. done[u] \in Nat /\ rem[u] \in Nat /\ req[u] \in Calls
  BY UbiAssumption DEF Typed
<1>4. req[u].off \in Nat
  BY <1>3 DEF Calls
<1> QED BY <1>1, <1>2, <1>3, <1>4 DEF InPiece

LEMMA PieceInBlock ==
  ASSUME Typed, NEW u \in Users, Aimed(u), Writes(u), pc[u] # "idle",
         NEW b \in Nat, InPiece(u, b)
  PROVE  b \in Block(leb[u])
<1>1. b - Base(leb[u]) - rem[u] \in 0..(Piece(u) - 1)
  BY SamePlace
<1>2. Base(leb[u]) \in Nat /\ Piece(u) \in Nat /\ rem[u] + Piece(u) <= LebSize
  BY BaseNat, PieceTyped DEF Typed
<1>3. rem[u] \in Nat /\ LebSize \in Nat
  BY UbiAssumption DEF Typed
<1> QED BY <1>1, <1>2, <1>3 DEF Block

LEMMA FetchFresh ==
  ASSUME Typed, KeptIntact, NEW u \in Users, Aimed(u), Fetch(u) PROVE Fresh(u)'
<1> SUFFICES ASSUME pc'[u] \in {"change", "write"}, NEW b \in Block(leb[u])
             PROVE  IF InPiece(u, b) THEN buf'[u][b] = <<req[u].id, b - req[u].off>>
                    ELSE expect[b] # Unsure => buf'[u][b] = expect[b]
  <2>1. UNCHANGED <<expect, leb, req, done, left, rem>>
    BY DEF Fetch, volVars, callVars
  <2> QED BY <2>1 DEF Fresh, InPiece, Piece, Block
<1>1. /\ buf' = [buf EXCEPT ![u] = Changed(u, Bytes(LebSize))]
      /\ Writes(u) /\ pc[u] = "fetch" /\ leb[u] \in Nat
  BY DEF Fetch, Goes, Returns, GivesUp, Typed, Calls, Writes
<1>2. leb[u] < BlockCnt /\ pos = Base(leb[u]) /\ Base(leb[u]) \in Nat
  <2>1. leb[u] < BlockCnt /\ Base(leb[u]) \in Nat /\ Base(BlockCnt) \in Nat
    BY <1>1, BaseNat, UbiAssumption DEF Aimed, Writes
  <2>2. Base(leb[u]) + LebSize <= Size
    BY <1>1, <2>1, BaseOrder, UbiAssumption DEF Size
  <2>3. Target(u) = Base(leb[u]) /\ Target(u) <= Size
    BY <1>1, <2>1, <2>2, UbiAssumption DEF Target, Writes, Size
  <2> QED BY <1>1, <2>1, <2>3 DEF Aimed
<1>3. Min2(pos + LebSize, Size) = pos + LebSize /\ b \in Offsets
  BY <1>1, <1>2, BlockInside
<1>4. b \in DOMAIN Bytes(LebSize) /\ Bytes(LebSize)[b] = vol[b]
  BY <1>2, <1>3, UbiAssumption DEF Bytes, Block
<1>5. expect[b] # Unsure => vol[b] = expect[b]
  BY <1>3 DEF KeptIntact
<1>6. buf'[u] = Changed(u, Bytes(LebSize))
  BY <1>1 DEF Typed
<1> DEFINE i == b - Base(leb[u]) - rem[u]
<1>7. buf'[u][b] = IF i \in 0..(Piece(u) - 1) THEN <<req[u].id, done[u] + i>>
                   ELSE Bytes(LebSize)[b]
  BY <1>4, <1>6 DEF Changed
<1>8. (i \in 0..(Piece(u) - 1) <=> InPiece(u, b)) /\ done[u] + i = b - req[u].off
  BY <1>1, <1>3, SamePlace, OffsetsNat
<1> QED BY <1>4, <1>5, <1>7, <1>8, Zenon

(* What a whole block changes in the volume is what the write may change. *)
LEMMA StoresKeeps ==
  ASSUME Typed, KeptIntact, NEW u \in Users, Aimed(u), Fresh(u), WriteBack(u)
  PROVE  KeptIntact'
<1>1. CASE StoresNot(u)
  BY <1>1 DEF StoresNot, volVars, KeptIntact
<1>2. CASE Stores(u)
  <2> SUFFICES ASSUME NEW b \in Offsets, expect'[b] # Unsure PROVE vol'[b] = expect'[b]
    BY DEF KeptIntact
  <2>1. /\ pc[u] = "write" /\ Writes(u) /\ b \in Nat
        /\ vol'[b] = IF b \in Block(leb[u]) THEN buf[u][b] ELSE vol[b]
        /\ expect'[b] = IF InPiece(u, b)
                        THEN IF Stale(u) THEN Unsure ELSE <<req[u].id, b - req[u].off>>
                        ELSE expect[b]
    BY <1>2, OffsetsNat DEF WriteBack, Stores, Written, InPiece, Aimed
  <2>2. CASE InPiece(u, b)
    BY <2>1, <2>2, PieceInBlock DEF Fresh
  <2>3. CASE ~InPiece(u, b)
    BY <2>1, <2>3 DEF Fresh, KeptIntact
  <2> QED BY <2>2, <2>3
<1> QED BY <1>1, <1>2 DEF WriteBack

(* Whoever has read the block before makes the bytes of this write unsure. *)
LEMMA OthersFresh ==
  ASSUME Typed, MutexReleased, NEW u \in Users, NEW v \in Users \ {u},
         Aimed(u), Aimed(v), Fresh(v), Step(u)
  PROVE  Fresh(v)'
<1> SUFFICES ASSUME pc'[v] \in {"change", "write"}, NEW b \in Block(leb[v])
             PROVE  IF InPiece(v, b) THEN buf'[v][b] = <<req[v].id, b - req[v].off>>
                    ELSE expect'[b] # Unsure => buf'[v][b] = expect'[b]
  <2>1. Same(v)
    BY OthersStay
  <2> QED BY <2>1 DEF Same, Fresh, InPiece, Piece, Block
<1>1. Same(v)
  BY OthersStay
<1>2. pc[v] \in {"change", "write"} /\ buf'[v] = buf[v]
  BY <1>1 DEF Same
<1>3. expect'[b] # Unsure => expect'[b] = expect[b]
  <2>1. CASE WriteBack(u) /\ Stores(u)
    <3>1. pc[u] = "write" /\ Writes(u) /\ mutex = u
      BY <2>1 DEF WriteBack, Aimed, MutexReleased
    <3>2. pc[v] = "change"
      BY <1>2, <3>1 DEF MutexReleased
    <3>3. leb[v] < BlockCnt /\ leb[v] \in Nat /\ leb[u] \in Nat
      BY <3>2 DEF Aimed, Typed
    <3>4. b \in Offsets /\ b \in Nat
      BY <3>3, BlockInside, OffsetsNat
    <3>5. expect'[b] = IF InPiece(u, b)
                       THEN IF Stale(u) THEN Unsure ELSE <<req[u].id, b - req[u].off>>
                       ELSE expect[b]
      BY <2>1, <3>4 DEF Stores, Written, InPiece
    <3>6. InPiece(u, b) => Stale(u)
      BY <3>1, <3>2, <3>3, <3>4, PieceInBlock, BlocksDisjoint DEF Stale
    <3> QED BY <3>5, <3>6
  <2>2. CASE ~(WriteBack(u) /\ Stores(u))
    BY <2>2 DEF Step, Call, Open, OpenVolume, Ready, Seek, Fetch, Change, WriteBack,
       StoresNot, volVars
  <2> QED BY <2>1, <2>2
<1> QED BY <1>2, <1>3 DEF Fresh

(* A step that ends elsewhere than in "change" and "write" leaves nothing to    *)
(* prove, and nothing but Fetch comes to "change" from outside.                 *)
LEMMA OwnFresh ==
  ASSUME Typed, KeptIntact, NEW u \in Users, Aimed(u), Fresh(u), Step(u)
  PROVE  Fresh(u)'
<1> USE DEF Goes, Returns, GivesUp, Typed
<1>1. CASE Fetch(u)
  BY <1>1, FetchFresh
<1>2. CASE Change(u)
  BY <1>2 DEF Change, Fresh, InPiece, Piece, Block, volVars, callVars
<1>3. CASE ~Fetch(u) /\ ~Change(u)
  <2>1. pc'[u] \notin {"change", "write"}
    BY <1>3 DEF Step, Call, Open, OpenVolume, Ready, Seek, WriteBack, Stores, StoresNot
  <2> QED BY <2>1 DEF Fresh
<1> QED BY <1>1, <1>2, <1>3

LEMMA KeptStep ==
  ASSUME Typed, KeptIntact, NEW u \in Users, Aimed(u), Fresh(u), Step(u)
  PROVE  KeptIntact'
<1>1. CASE WriteBack(u)
  BY <1>1, StoresKeeps
<1>2. CASE ~WriteBack(u)
  BY <1>2 DEF Step, Call, Open, OpenVolume, Ready, Seek, Fetch, Change, volVars, KeptIntact
<1> QED BY <1>1, <1>2

-----------------------------------------------------------------------------
VolumeInv ==
  /\ Typed
  /\ MutexReleased
  /\ \A u \in Users : Aimed(u)
  /\ \A u \in Users : Fresh(u)
  /\ KeptIntact

LEMMA VolumeInit == Init => VolumeInv
<1>1. Init => Typed
  BY TypedInit
<1>2. Init => MutexReleased
  BY UbiAssumption DEF Init, MutexReleased
<1>3. Init => \A u \in Users : Aimed(u) /\ Fresh(u)
  BY DEF Init, Aimed, Fresh
<1>4. Init => KeptIntact
  BY DEF Init, KeptIntact
<1> QED BY <1>1, <1>2, <1>3, <1>4 DEF VolumeInv

LEMMA VolumeStep == VolumeInv /\ [Next]_vars => VolumeInv'
<1> SUFFICES ASSUME VolumeInv, [Next]_vars PROVE VolumeInv'
  OBVIOUS
<1>1. Typed' /\ MutexReleased' /\ \A u \in Users : Aimed(u)'
  BY TypedStep, MutexStep, AimedStep DEF VolumeInv
<1>2. CASE Rest \/ UNCHANGED vars
  <2>1. UNCHANGED <<pc, req, leb, rem, done, left, buf, vol, expect>>
    BY <1>2 DEF Rest, vars, callVars, volVars
  <2>2. KeptIntact' /\ \A u \in Users : Fresh(u)'
    BY <2>1 DEF VolumeInv, KeptIntact, Fresh, InPiece, Piece, Block
  <2> QED BY <1>1, <2>2 DEF VolumeInv
<1>3. ASSUME NEW u \in Users, Step(u) PROVE VolumeInv'
  <2>1. KeptIntact'
    BY <1>3, KeptStep DEF VolumeInv
  <2>2. ASSUME NEW v \in Users PROVE Fresh(v)'
    <3>1. CASE v = u
      BY <1>3, <3>1, OwnFresh DEF VolumeInv
    <3>2. CASE v # u
      BY <1>3, <3>2, OthersFresh DEF VolumeInv
    <3> QED BY <3>1, <3>2
  <2> QED BY <1>1, <2>1, <2>2 DEF VolumeInv
<1> QED BY <1>2, <1>3 DEF Next, Step

LEMMA VolumeInvHolds == Spec => []VolumeInv
BY VolumeInit, VolumeStep, PTL DEF Spec

(* Threads that share a handle exclude each other by stMutex between lseek and  *)
(* read and between the LEB change and the end of the write, and lose at most   *)
(* one descriptor each in _MI_UBI_OpenVolume.                                   *)
THEOREM SharingIsOrderly == Spec => []Sharing
<1>1. MutexReleased /\ FewDescriptors => Sharing
  BY DEF Sharing
<1> QED BY <1>1, MutexExcludes, OpensAreBounded, PTL

(* No byte that MI_UBI_WriteVolumeBytes has written is lost or moved by any     *)
(* other write, whatever the threads do together and whichever call fails,      *)
(* but for a byte whose block another thread had already read to write it back. *)
THEOREM WritesAreKept == Spec => []KeptIntact
<1>1. VolumeInv => KeptIntact
  BY DEF VolumeInv
<1> QED BY <1>1, VolumeInvHolds, PTL

(* MI_UBI_ReadVolumeBytes returns the bytes of the place it was asked for,      *)
(* although all threads move one file offset.                                   *)
THEOREM ReadsAreInPlace == Spec => ReadsItsPlace
<1> DEFINE Reads ==
      \A u \in Users :
        /\ pc[u] = "fetch" /\ pc'[u] = "idle" /\ req[u].kind = "read"
        /\ ret'[u] # -1 /\ req[u].off <= Size
        =>
          /\ buf'[u] = [b \in req[u].off..(Min2(req[u].off + req[u].len, Size) - 1) |-> vol[b]]
          /\ ret'[u] = Cardinality(DOMAIN buf'[u])
<1>1. VolumeInv /\ [Next]_vars => [Reads]_vars
  <2> SUFFICES ASSUME VolumeInv, [Next]_vars,
                      NEW v \in Users, pc[v] = "fetch", pc'[v] = "idle",
                      req[v].kind = "read", ret'[v] # -1, req[v].off <= Size
               PROVE  /\ buf'[v] = [b \in req[v].off..(Min2(req[v].off + req[v].len, Size) - 1)
                                      |-> vol[b]]
                      /\ ret'[v] = Cardinality(DOMAIN buf'[v])
    BY DEF Reads
  <2>1. PICK u \in Users : Step(u)
    BY DEF Next, Step, Rest, vars
  <2>2. u = v
    BY <2>1, OthersStay DEF VolumeInv, Same
  <2>3. Fetch(v)
    BY <2>1, <2>2 DEF Step, Call, Open, OpenVolume, Ready, Seek, Change, WriteBack
  <2>4. buf' = [buf EXCEPT ![v] = Bytes(req[v].len)] /\ Returns(v, Cardinality(DOMAIN buf'[v]))
    BY <2>3 DEF Fetch, GivesUp, Returns, VolumeInv, Typed
  <2>5. pos = req[v].off
    BY DEF VolumeInv, Aimed, Target
  <2> QED BY <2>4, <2>5 DEF Returns, Bytes, VolumeInv, Typed
<1> QED BY <1>1, VolumeInvHolds, PTL DEF Spec, ReadsItsPlace

-----------------------------------------------------------------------------
(* What a write has counted is in the volume.  Calls have numbers of their own. *)
Numbered ==
  /\ \A u \in Users : pc[u] # "idle" => req[u].id \in 1..calls
  /\ \A u, v \in Users :
       u # v /\ pc[u] # "idle" /\ pc[v] # "idle" => req[u].id # req[v].id

Reached(u, n) ==
  \A i \in 0..(n - 1) :
    LET b == req[u].off + i
    IN  /\ b \in Offsets
        /\ expect[b] # Unsure => expect[b][1] # 0
        /\ (expect[b] # Unsure /\ expect[b][1] = req[u].id) => expect[b][2] = i

Counted(u) == pc[u] # "idle" /\ Writes(u) => Reached(u, done[u])

LEMMA NumberedStep == Typed /\ Numbered /\ [Next]_vars => Numbered'
<1> SUFFICES ASSUME Typed, Numbered, [Next]_vars PROVE Numbered'
  OBVIOUS
<1>1. CASE Rest \/ UNCHANGED vars
  <2>1. UNCHANGED <<pc, req, calls>>
    BY <1>1 DEF Rest, vars, callVars
  <2> QED BY <2>1 DEF Numbered
<1>2. ASSUME NEW u \in Users, Step(u), ~Call(u) PROVE Numbered'
  <2>1. UNCHANGED <<req, calls>> /\ pc[u] # "idle"
    BY <1>2 DEF Step, Open, OpenVolume, Ready, Seek, Fetch, Change, WriteBack, callVars
  <2>2. \A v \in Users \ {u} : pc'[v] = pc[v]
    BY <1>2, OthersStay DEF Same
  <2> QED BY <2>1, <2>2 DEF Numbered
<1>3. ASSUME NEW u \in Users, Call(u) PROVE Numbered'
  <2>1. \A v \in Users \ {u} : pc'[v] = pc[v] /\ req'[v] = req[v]
    BY <1>3, OthersStay DEF Same, Step
  <2>2. calls' = calls + 1 /\ calls \in Nat
    BY <1>3, UbiAssumption DEF Call, Typed
  <2>3. req'[u].id = calls + 1
    BY <1>3, <2>2 DEF Call, Typed
  <2> QED BY <2>1, <2>2, <2>3 DEF Numbered
<1> QED BY <1>1, <1>2, <1>3 DEF Next, Step

\* A byte is only rewritten with the number of the call that does it, and its place.
LEMMA Rewritten ==
  ASSUME Typed, NEW u \in Users, Aimed(u), Step(u), NEW b \in Offsets
  PROVE  \/ expect'[b] = expect[b]
         \/ expect'[b] = Unsure
         \/ /\ pc[u] = "write" /\ Writes(u) /\ InPiece(u, b)
            /\ expect'[b] = <<req[u].id, b - req[u].off>>
<1>1. CASE WriteBack(u) /\ Stores(u)
  <2>1. expect'[b] = IF InPiece(u, b)
                     THEN IF Stale(u) THEN Unsure ELSE <<req[u].id, b - req[u].off>>
                     ELSE expect[b]
    BY <1>1 DEF Stores, Written, InPiece
  <2> QED BY <1>1, <2>1 DEF WriteBack, Aimed
<1>2. CASE ~(WriteBack(u) /\ Stores(u))
  BY <1>2 DEF Step, Call, Open, OpenVolume, Ready, Seek, Fetch, Change, WriteBack,
     StoresNot, volVars
<1> QED BY <1>1, <1>2

\* The i-th byte of the write of u is in the volume.
ByteReached(u, i) ==
  LET b == req[u].off + i
  IN  /\ b \in Offsets
      /\ expect[b] # Unsure => expect[b][1] # 0
      /\ (expect[b] # Unsure /\ expect[b][1] = req[u].id) => expect[b][2] = i

\* What was reached stays so, whoever takes the step.
LEMMA StaysReached ==
  ASSUME Typed, Numbered, NEW u \in Users, NEW v \in Users, Aimed(v), Step(v),
         pc[u] # "idle", req'[u] = req[u],
         NEW i \in 0..(done[u] - 1), ByteReached(u, i)
  PROVE  ByteReached(u, i)'
<1> DEFINE b == req[u].off + i
<1>1. /\ b \in Offsets
      /\ expect[b] # Unsure => expect[b][1] # 0
      /\ (expect[b] # Unsure /\ expect[b][1] = req[u].id) => expect[b][2] = i
  BY DEF ByteReached
<1>2. req[u].off \in Nat /\ done[u] \in Nat /\ i \in Nat /\ i < done[u]
  <2>1. req[u].off \in Nat /\ done[u] \in Nat
    BY DEF Typed, Calls
  <2> HIDE DEF b
  <2>2. i \in 0..(done[u] - 1)
    OBVIOUS
  <2>4. i \in Nat /\ i < done[u]
    BY <2>1, <2>2
  <2> QED BY <2>1, <2>4
<1>3. b - req[u].off = i
  BY <1>2
<1>4. SUFFICES /\ expect'[b] # Unsure => expect'[b][1] # 0
               /\ (expect'[b] # Unsure /\ expect'[b][1] = req[u].id) => expect'[b][2] = i
  BY <1>1 DEF ByteReached
<1> HIDE DEF b
<1>5. CASE expect'[b] = expect[b] \/ expect'[b] = Unsure
  BY <1>1, <1>5
<1>6. CASE /\ pc[v] = "write" /\ InPiece(v, b)
           /\ expect'[b] = <<req[v].id, b - req[v].off>>
  <2>1. expect'[b][1] = req[v].id /\ expect'[b][2] = b - req[v].off
    BY <1>6
  <2>2. req[v].id # 0
    BY <1>6, UbiAssumption DEF Numbered, Typed
  <2>3. u # v
    <3> SUFFICES ASSUME u = v PROVE FALSE
      OBVIOUS
    <3>1. i \in done[u]..(done[u] + Piece(u) - 1)
      BY <1>3, <1>6 DEF InPiece
    <3> QED BY <1>2, <3>1, PieceTyped
  <2>4. req[v].id # req[u].id
    BY <1>6, <2>3 DEF Numbered
  <2> QED BY <1>1, <2>1, <2>2, <2>4
<1> QED BY <1>1, <1>5, <1>6, Rewritten

\* The piece that was just stored is reached as well.
LEMMA ReachesPiece ==
  ASSUME Typed, Numbered, NEW u \in Users, Aimed(u), WriteBack(u), Stores(u),
         NEW i \in done[u]..(done[u] + Piece(u) - 1)
  PROVE  ByteReached(u, i)'
<1>1. pc[u] = "write" /\ Writes(u) /\ req'[u] = req[u]
  BY DEF WriteBack, Aimed
<1>2. /\ req[u].off \in Nat /\ done[u] \in Nat /\ Piece(u) \in Nat
      /\ leb[u] \in Nat /\ leb[u] < BlockCnt
  BY <1>1, PieceTyped DEF Typed, Calls, Aimed
<1> DEFINE b == req[u].off + i
<1>3. b \in Nat /\ b - req[u].off = i
  BY <1>2
<1>4. InPiece(u, b)
  BY <1>3 DEF InPiece
<1>5. b \in Offsets
  BY <1>1, <1>2, <1>3, <1>4, PieceInBlock, BlockInside
<1>6. SUFFICES /\ expect'[b] # Unsure => expect'[b][1] # 0
               /\ (expect'[b] # Unsure /\ expect'[b][1] = req[u].id) => expect'[b][2] = i
  BY <1>1, <1>5 DEF ByteReached
<1> HIDE DEF b
<1>7. expect'[b] = IF Stale(u) THEN Unsure ELSE <<req[u].id, i>>
  BY <1>3, <1>4, <1>5 DEF Stores, Written, InPiece
<1>8. req[u].id # 0
  BY <1>1, UbiAssumption DEF Numbered, Typed
<1> QED BY <1>7, <1>8

\* Whatever step is taken, what a write has counted is in the volume, at the
\* moment it returns too.
LEMMA CountsOn ==
  ASSUME Typed, Numbered, NEW u \in Users, NEW v \in Users, Aimed(v), Step(v),
         pc[u] # "idle", Writes(u), Counted(u)
  PROVE  Reached(u, done[u])' /\ req'[u] = req[u]
<1>1. req'[u] = req[u]
  <2>1. CASE u = v
    BY <2>1 DEF Step, Call, Open, OpenVolume, Ready, Seek, Fetch, Change, WriteBack, callVars
  <2>2. CASE u # v
    BY <2>2, OthersStay DEF Same
  <2> QED BY <2>1, <2>2
<1>2. \A i \in 0..(done[u] - 1) : ByteReached(u, i)'
  BY <1>1, StaysReached DEF Counted, Reached, ByteReached
<1>3. CASE u = v /\ WriteBack(u) /\ Stores(u)
  <2>1. done'[u] = done[u] + Piece(u)
    BY <1>3 DEF Stores, Typed
  <2>2. \A i \in done[u]..(done[u] + Piece(u) - 1) : ByteReached(u, i)'
    BY <1>3, ReachesPiece
  <2>3. done[u] \in Nat /\ Piece(u) \in Nat
    BY PieceTyped DEF Typed
  <2>4. \A i \in 0..(done'[u] - 1) : ByteReached(u, i)'
    BY <1>2, <2>1, <2>2, <2>3
  <2> QED BY <1>1, <2>4 DEF Reached, ByteReached
<1>4. CASE ~(u = v /\ WriteBack(u) /\ Stores(u))
  <2>1. done'[u] = done[u]
    <3>1. CASE u = v
      BY <1>4, <3>1 DEF Step, Call, Open, OpenVolume, Ready, Seek, Fetch, Change, WriteBack,
         StoresNot, callVars
    <3>2. CASE u # v
      BY <3>2, OthersStay DEF Same
    <3> QED BY <3>1, <3>2
  <2> QED BY <1>1, <1>2, <2>1 DEF Reached, ByteReached
<1> QED BY <1>1, <1>3, <1>4

LEMMA CountedStep ==
  Typed /\ Numbered /\ (\A u \in Users : Aimed(u) /\ Counted(u)) /\ [Next]_vars
    => \A u \in Users : Counted(u)'
<1> SUFFICES ASSUME Typed, Numbered, \A u \in Users : Aimed(u) /\ Counted(u), [Next]_vars,
                    NEW u \in Users
             PROVE  Counted(u)'
  OBVIOUS
<1>1. CASE Rest \/ UNCHANGED vars
  <2>1. UNCHANGED <<pc, req, done, expect>>
    BY <1>1 DEF Rest, vars, callVars, volVars
  <2> QED BY <2>1 DEF Counted, Writes, Reached
<1>2. ASSUME NEW v \in Users, Step(v), ~(u = v /\ Call(v)) PROVE Counted(u)'
  <2>1. pc[u] # "idle" \/ (pc'[u] = "idle" /\ u # v)
    <3>1. CASE u = v
      BY <1>2, <3>1 DEF Step, Open, OpenVolume, Ready, Seek, Fetch, Change, WriteBack
    <3>2. CASE u # v
      BY <1>2, <3>2, OthersStay DEF Same
    <3> QED BY <3>1, <3>2
  <2>2. ASSUME pc[u] # "idle" PROVE req'[u] = req[u]
    <3>1. CASE u = v
      BY <1>2, <3>1 DEF Step, Open, OpenVolume, Ready, Seek, Fetch, Change, WriteBack, callVars
    <3>2. CASE u # v
      BY <1>2, <3>2, OthersStay DEF Same
    <3> QED BY <3>1, <3>2
  <2>3. ASSUME pc[u] # "idle", Writes(u) PROVE Reached(u, done[u])'
    BY <1>2, <2>3, CountsOn
  <2> QED BY <2>1, <2>2, <2>3 DEF Counted, Writes
<1>3. ASSUME Call(u) PROVE Counted(u)'
  <2>1. done'[u] = 0
    BY <1>3 DEF Call, Typed
  <2> QED BY <2>1 DEF Counted, Reached
<1> QED BY <1>1, <1>2, <1>3 DEF Next, Step

\* What a write returns is what it has counted.
LEMMA ReturnsCount ==
  ASSUME Typed, NEW u \in Users, NEW v \in Users, Step(v),
         pc[u] # "idle", pc'[u] = "idle", Writes(u)
  PROVE  ret'[u] = done'[u]
<1>1. u = v
  BY OthersStay DEF Same
<1> USE <1>1 DEF Typed, Goes, Returns, GivesUp, Writes, callVars
<1>2. CASE OpenVolume(u)
  BY <1>2 DEF OpenVolume
<1>3. CASE Ready(u)
  BY <1>3 DEF Ready
<1>4. CASE Fetch(u)
  BY <1>4 DEF Fetch
<1>5. CASE Change(u)
  BY <1>5 DEF Change
<1>6. CASE WriteBack(u)
  BY <1>6 DEF WriteBack, Stores, StoresNot
<1> QED BY <1>2, <1>3, <1>4, <1>5, <1>6 DEF Step, Call, Open, Seek

(* MI_UBI_WriteVolumeBytes returns how many of its bytes, counted from the first, *)
(* have reached the volume, also when it stops half way, whatever other threads   *)
(* write meanwhile.                                                               *)
THEOREM CountIsTrue == Spec => CountsWritten
<1> DEFINE AllCounted == \A u \in Users : Counted(u)
           Counts ==
             \A u \in Users :
               pc[u] # "idle" /\ pc'[u] = "idle" /\ req[u].kind = "write" => ReturnsReached(u)
<1>1. Init => Numbered /\ AllCounted
  BY DEF Init, Numbered, Counted
<1>2. VolumeInv /\ Numbered /\ AllCounted /\ [Next]_vars => (Numbered /\ AllCounted)'
  BY NumberedStep, CountedStep DEF VolumeInv
<1>3. VolumeInv /\ Numbered /\ AllCounted /\ [Next]_vars => [Counts]_vars
  <2> SUFFICES ASSUME VolumeInv, Numbered, AllCounted, Next,
                      NEW u \in Users, pc[u] # "idle", pc'[u] = "idle", req[u].kind = "write"
               PROVE  ReturnsReached(u)
    BY DEF Counts
  <2>1. PICK v \in Users : Step(v)
    BY DEF Next, Step, Rest, vars
  <2>2. Reached(u, done[u])' /\ req'[u] = req[u]
    BY <2>1, CountsOn DEF VolumeInv, Writes
  <2>3. ret'[u] = done'[u]
    BY <2>1, ReturnsCount DEF VolumeInv, Writes
  <2> QED BY <2>2, <2>3 DEF Reached, ReturnsReached
<1> QED BY <1>1, <1>2, <1>3, VolumeInvHolds, PTL DEF Spec, CountsWritten

-----------------------------------------------------------------------------
(* The table of open devices: the proofs are in UbiSlotsProofs.            *)
TableP ==
  INSTANCE UbiSlotsProofs WITH
    Blocks <- DeviceBlocks, Taken <- TakenFds, faults <- slips, left <- orphans

(* Table and TableP name the same definitions. *)
LEMMA SameFit ==
  ASSUME NEW sizes
  PROVE  /\ Table!Fit(sizes) <=> TableP!Fit(sizes)
         /\ Table!Info(sizes) = TableP!Info(sizes)
<1>1. \A S : Table!Cardinality(S) = TableP!Cardinality(S)
  BY DEF Table!Cardinality, TableP!Cardinality
<1> QED
  BY <1>1, Zenon DEF Table!Fit, TableP!Fit, Table!Info, TableP!Info, Table!Existing, TableP!Existing

LEMMA SameCloses ==
  ASSUME NEW s, NEW F
  PROVE  /\ Table!Closes(s, F) <=> TableP!Closes(s, F)
         /\ Table!VolumeFds(s, F) = TableP!VolumeFds(s, F)
         /\ Table!Accepted(s) <=> TableP!Accepted(s)
BY Zenon
DEF Table!Closes, TableP!Closes, Table!Owned, TableP!Owned, Table!VolumeFds, TableP!VolumeFds,
    Table!HasTable, TableP!HasTable, Table!Vol, TableP!Vol, Table!DeviceNode, TableP!DeviceNode,
    Table!VolumeNode, TableP!VolumeNode, Table!Accepted, TableP!Accepted, Table!Fds, TableP!Fds

LEMMA SameRefused ==
  ASSUME NEW s, NEW V
  PROVE  Table!Refused(s, V) <=> TableP!Refused(s, V)
BY SameCloses, Zenon
DEF Table!Refused, TableP!Refused, Table!Cleared, TableP!Cleared, Table!NoVolume, TableP!NoVolume,
    Table!Vol, TableP!Vol

LEMMA SameChanged ==
  ASSUME NEW s, NEW V, NEW v, NEW n
  PROVE  Table!Changed(s, V, v, n) <=> TableP!Changed(s, V, v, n)
<1>1. \A sizes : Table!SetUp(s, V, sizes) <=> TableP!SetUp(s, V, sizes)
  BY SameFit, SameCloses, Zenon
  DEF Table!SetUp, TableP!SetUp, Table!FreeFds, TableP!FreeFds, Table!Fds, TableP!Fds,
      Table!Sound, TableP!Sound, Table!Read, TableP!Read, Table!Cleared, TableP!Cleared,
      Table!NoVolume, TableP!NoVolume, Table!Vol, TableP!Vol
<1>2. Table!SetupFails(s, V) <=> TableP!SetupFails(s, V)
  BY SameCloses, Zenon
  DEF Table!SetupFails, TableP!SetupFails, Table!Fault, TableP!Fault, Table!Sound, TableP!Sound,
      Table!FreeFds, TableP!FreeFds, Table!Fds, TableP!Fds, Table!Release, TableP!Release,
      Table!NoInfo, TableP!NoInfo
<1> QED
  BY <1>1, <1>2, SameCloses, Zenon
  DEF Table!Changed, TableP!Changed, Table!Sized, TableP!Sized, Table!Reread, TableP!Reread,
      Table!Existing, TableP!Existing, Table!Slots, TableP!Slots

LEMMA SameVolumes ==
  ASSUME NEW s, NEW v, NEW n
  PROVE  /\ Table!CreateVolume(s, n) <=> TableP!CreateVolume(s, n)
         /\ Table!DestroyVolume(s, v) <=> TableP!DestroyVolume(s, v)
         /\ Table!ResizeVolume(s, v, n) <=> TableP!ResizeVolume(s, v, n)
         /\ Table!Access(s, v) <=> TableP!Access(s, v)
<1>1. \A V, w, m : /\ Table!Changed(s, V, w, m) <=> TableP!Changed(s, V, w, m)
                   /\ Table!Refused(s, V) <=> TableP!Refused(s, V)
                   /\ Table!Sized(s, w, m) = TableP!Sized(s, w, m)
                   /\ Table!Fit(Table!Sized(s, w, m)) <=> TableP!Fit(TableP!Sized(s, w, m))
  BY SameChanged, SameRefused, SameFit, Zenon DEF Table!Sized, TableP!Sized
<1>2. /\ Table!Reachable(s) <=> TableP!Reachable(s)
      /\ Table!Obeys(s, v) <=> TableP!Obeys(s, v)
      /\ Table!FreeVols(s) = TableP!FreeVols(s)
      /\ Table!Exists(s, v) <=> TableP!Exists(s, v)
  BY SameCloses, Zenon
  DEF Table!Reachable, TableP!Reachable, Table!Obeys, TableP!Obeys, Table!Busy, TableP!Busy,
      Table!FreeVols, TableP!FreeVols, Table!Exists, TableP!Exists, Table!Fds, TableP!Fds,
      Table!DeviceNode, TableP!DeviceNode, Table!VolumeNode, TableP!VolumeNode
<1>3. Table!CreateVolume(s, n) <=> TableP!CreateVolume(s, n)
  BY <1>1, <1>2, SameCloses, Zenon
  DEF Table!CreateVolume, TableP!CreateVolume, Table!Fault, TableP!Fault
<1>4. Table!DestroyVolume(s, v) <=> TableP!DestroyVolume(s, v)
  BY <1>1, <1>2, SameCloses, Zenon
  DEF Table!DestroyVolume, TableP!DestroyVolume, Table!Fault, TableP!Fault, Table!Sound, TableP!Sound
<1>5. Table!ResizeVolume(s, v, n) <=> TableP!ResizeVolume(s, v, n)
  BY <1>1, <1>2, SameCloses, Zenon
  DEF Table!ResizeVolume, TableP!ResizeVolume, Table!Fault, TableP!Fault, Table!Sound, TableP!Sound
<1>6. Table!Access(s, v) <=> TableP!Access(s, v)
  BY <1>2, SameCloses, Zenon
  DEF Table!Access, TableP!Access, Table!Vol, TableP!Vol, Table!Lowest, TableP!Lowest,
      Table!FreeFds, TableP!FreeFds, Table!Fds, TableP!Fds, Table!VolumeNode, TableP!VolumeNode
<1> QED BY <1>3, <1>4, <1>5, <1>6

LEMMA SameDevices ==
  /\ Table!ModuleInit <=> TableP!ModuleInit
  /\ Table!ModuleDeInit <=> TableP!ModuleDeInit
  /\ Table!OthersOpen <=> TableP!OthersOpen
  /\ \A d : /\ Table!OpenDevice(d) <=> TableP!OpenDevice(d)
            /\ Table!OpenDeviceFails(d) <=> TableP!OpenDeviceFails(d)
  /\ \A s : Table!CloseDevice(s) <=> TableP!CloseDevice(s)
<1>1. Table!FirstFree = TableP!FirstFree /\ Table!Lowest = TableP!Lowest
  BY Zenon
  DEF Table!FirstFree, TableP!FirstFree, Table!Slots, TableP!Slots, Table!Lowest, TableP!Lowest,
      Table!FreeFds, TableP!FreeFds, Table!Fds, TableP!Fds
<1>2. /\ Table!ModuleInit <=> TableP!ModuleInit
      /\ Table!ModuleDeInit <=> TableP!ModuleDeInit
      /\ Table!OthersOpen <=> TableP!OthersOpen
  BY <1>1, Zenon
  DEF Table!ModuleInit, TableP!ModuleInit, Table!ModuleDeInit, TableP!ModuleDeInit,
      Table!OthersOpen, TableP!OthersOpen, Table!Slots, TableP!Slots, Table!Unopened, TableP!Unopened,
      Table!NoInfo, TableP!NoInfo, Table!Owned, TableP!Owned, Table!HasTable, TableP!HasTable,
      Table!Vol, TableP!Vol, Table!DeviceNode, TableP!DeviceNode, Table!VolumeNode, TableP!VolumeNode,
      Table!Fds, TableP!Fds
<1>3. ASSUME NEW d
      PROVE  /\ Table!OpenDevice(d) <=> TableP!OpenDevice(d)
             /\ Table!OpenDeviceFails(d) <=> TableP!OpenDeviceFails(d)
  <2>1. /\ Table!Fresh(d) = TableP!Fresh(d)
        /\ Table!Info(device[d]) = TableP!Info(device[d])
    BY SameFit, Zenon
    DEF Table!Fresh, TableP!Fresh, Table!Read, TableP!Read, Table!NoVolume, TableP!NoVolume
  <2>2. \A slot : Table!Release(slot) = TableP!Release(slot)
    BY Zenon DEF Table!Release, TableP!Release, Table!NoInfo, TableP!NoInfo
  <2>3. Table!OpenDevice(d) <=> TableP!OpenDevice(d)
    BY <1>1, <2>1, Zenon DEF Table!OpenDevice, TableP!OpenDevice
  <2>4. /\ Table!Fault <=> TableP!Fault
        /\ Table!Sound <=> TableP!Sound
    BY Zenon DEF Table!Fault, TableP!Fault, Table!Sound, TableP!Sound
  <2>5. \A s, F : Table!Closes(s, F) <=> TableP!Closes(s, F)
    BY SameCloses, Zenon
  <2>6. Table!OpenDeviceFails(d) <=> TableP!OpenDeviceFails(d)
    BY <1>1, <2>2, <2>4, <2>5, Zenon DEF Table!OpenDeviceFails, TableP!OpenDeviceFails
  <2> QED BY <2>3, <2>6
<1>4. ASSUME NEW s PROVE Table!CloseDevice(s) <=> TableP!CloseDevice(s)
  BY SameCloses, Zenon
  DEF Table!CloseDevice, TableP!CloseDevice, Table!Release, TableP!Release, Table!NoInfo, TableP!NoInfo
<1> QED BY <1>2, <1>3, <1>4, Zenon

LEMMA SameTable ==
  /\ Table!Init <=> TableP!Init
  /\ [Table!Next]_(Table!vars) <=> [TableP!Next]_(TableP!vars)
  /\ TableP!HandlesHoldTheirs => HandlesHoldTheirs
  /\ TableP!TableAgrees => TableAgrees
<1>1. Table!Init <=> TableP!Init
  BY SameFit, Zenon
  DEF Table!Init, TableP!Init, Table!Slots, TableP!Slots, Table!Fds, TableP!Fds,
      Table!Unopened, TableP!Unopened, Table!NoInfo, TableP!NoInfo
<1>2. [Table!Next]_(Table!vars) <=> [TableP!Next]_(TableP!vars)
  <2>1. Table!Next <=> TableP!Next
    BY SameVolumes, SameDevices, Zenon DEF Table!Next, TableP!Next, Table!Slots, TableP!Slots
  <2> QED BY <2>1, Zenon DEF Table!vars, TableP!vars
<1>3. TableP!HandlesHoldTheirs => HandlesHoldTheirs
  <2>1. Table!Fds = TableP!Fds /\ Table!Slots = TableP!Slots
    BY Zenon DEF Table!Fds, TableP!Fds, Table!Slots, TableP!Slots
  <2>2. Table!Nodes = TableP!Nodes
    BY DEF Table!Nodes, TableP!Nodes
  <2>3. \A s : Table!Accepted(s) <=> TableP!Accepted(s)
    BY Zenon DEF Table!Accepted, TableP!Accepted
  <2>4. \A s : Table!HasTable(s) <=> TableP!HasTable(s)
    BY Zenon DEF Table!HasTable, TableP!HasTable
  <2>5. \A s : Table!Reachable(s) <=> TableP!Reachable(s)
    BY Zenon
    DEF Table!Reachable, TableP!Reachable, Table!DeviceNode, TableP!DeviceNode, Table!Fds, TableP!Fds
  <2>6. \A s : Table!Owned(s) = TableP!Owned(s)
    BY Zenon
    DEF Table!Owned, TableP!Owned, Table!HasTable, TableP!HasTable, Table!Vol, TableP!Vol,
        Table!DeviceNode, TableP!DeviceNode, Table!VolumeNode, TableP!VolumeNode, Table!Fds, TableP!Fds
  <2> SUFFICES ASSUME TableP!HandlesHoldTheirs, ~struck
               PROVE  /\ \A s \in Table!Slots : Table!Accepted(s) =>
                           /\ Table!HasTable(s) /\ Table!Reachable(s)
                           /\ \A v \in Vols : Table!Vol(s, v).fd # -1 =>
                                open[Table!Vol(s, v).fd] = Table!VolumeNode(s, v)
                      /\ \A f \in Table!Fds : open[f] \in Table!Nodes =>
                           f \in orphans \/ \E s \in Table!Slots : f \in Table!Owned(s) /\ Table!Accepted(s)
    BY Zenon DEF HandlesHoldTheirs, Table!HandlesHoldTheirs
  <2>7. /\ \A s \in TableP!Slots : TableP!Accepted(s) =>
             /\ TableP!HasTable(s) /\ TableP!Reachable(s)
             /\ \A v \in Vols : TableP!Vol(s, v).fd # -1 =>
                  open[TableP!Vol(s, v).fd] = TableP!VolumeNode(s, v)
        /\ \A f \in TableP!Fds : open[f] \in TableP!Nodes =>
             f \in orphans \/ \E s \in TableP!Slots : f \in TableP!Owned(s) /\ TableP!Accepted(s)
    BY Zenon DEF TableP!HandlesHoldTheirs
  <2>8. \A s, v : /\ Table!Vol(s, v).fd = TableP!Vol(s, v).fd
                 /\ Table!VolumeNode(s, v) = TableP!VolumeNode(s, v)
    BY Zenon DEF Table!Vol, TableP!Vol, Table!VolumeNode, TableP!VolumeNode
  <2>9. \A s \in Table!Slots : Table!Accepted(s) =>
          /\ Table!HasTable(s) /\ Table!Reachable(s)
          /\ \A v \in Vols : Table!Vol(s, v).fd # -1 =>
               open[Table!Vol(s, v).fd] = Table!VolumeNode(s, v)
    BY <2>1, <2>3, <2>4, <2>5, <2>7, <2>8
  <2>10. \A f \in Table!Fds : open[f] \in Table!Nodes =>
           f \in orphans \/ \E s \in Table!Slots : f \in Table!Owned(s) /\ Table!Accepted(s)
    BY <2>1, <2>2, <2>3, <2>6, <2>7
  <2> QED BY <2>9, <2>10
<1>4. TableP!TableAgrees => TableAgrees
  <2>1. \A S : Table!Cardinality(S) = TableP!Cardinality(S)
    BY DEF Table!Cardinality, TableP!Cardinality
  <2> QED
    BY <2>1, SameCloses, Zenon
    DEF TableAgrees, Table!TableAgrees, TableP!TableAgrees, Table!Slots, TableP!Slots,
        Table!HasTable, TableP!HasTable, Table!Vol, TableP!Vol, Table!Exists, TableP!Exists,
        Table!GetVolumeSize, TableP!GetVolumeSize, Table!GetBlockSize, TableP!GetBlockSize,
        Table!GetVolumeBlockCount, TableP!GetVolumeBlockCount, Table!GetVolumeCount, TableP!GetVolumeCount,
        Table!CheckVolumeExist, TableP!CheckVolumeExist, Table!GetTotalSize, TableP!GetTotalSize
<1> QED BY <1>1, <1>2, <1>3, <1>4

LEMMA TableFits == TableP!SlotsAssumption
<1>1. TableP!IsFiniteSet(Vols)
  BY TableAssumption DEF IsFiniteSet, TableP!IsFiniteSet
<1>2. Foreign \notin TableP!Nodes /\ Free \notin TableP!Nodes
  <2>1. TableP!Nodes \subseteq [dev : Devices, vol : SUBSET Vols]
    BY DEF TableP!Nodes
  <2> QED BY <2>1, TableAssumption
<1>3. LebSize \in Nat
  BY UbiAssumption
<1> QED BY <1>1, <1>2, <1>3, TableAssumption DEF TableP!SlotsAssumption

\* The handles of mi_ubi.c hold their memory and their own descriptors.
THEOREM HandlesAreTheirs == Table!Spec => []HandlesHoldTheirs
<1>1. TableP!Spec => []TableP!HandlesHoldTheirs
  BY TableFits, TableP!HandlesAreTheirs
<1> QED BY <1>1, SameTable, PTL DEF Table!Spec, TableP!Spec

\* What they tell of volumes is so (MI_UBI_GetVolumeSize and the others).
THEOREM TableIsRight == Table!Spec => []TableAgrees
<1>1. TableP!Spec => []TableP!TableAgrees
  BY TableFits, TableP!TableIsRight
<1> QED BY <1>1, SameTable, PTL DEF Table!Spec, TableP!Spec

\* Of others' descriptors the first to be closed is 0, by MI_UBI_Open.
THEOREM ZeroIsStruck == Table!Spec => OnlyZeroIsStruck
<1>1. TableP!Spec => TableP!OnlyZeroIsStruck
  BY TableFits, TableP!ZeroIsStruck
<1>2. TableP!OnlyZeroIsStruck => OnlyZeroIsStruck
  BY DEF OnlyZeroIsStruck, Table!OnlyZeroIsStruck, TableP!OnlyZeroIsStruck, Table!Fds, TableP!Fds,
         Table!Slots, TableP!Slots, Table!vars, TableP!vars
<1> QED BY <1>1, <1>2, SameTable, PTL DEF Table!Spec, TableP!Spec

-----------------------------------------------------------------------------
(* Attaching and detaching by name (UbiAttach).                            *)
(* A partition is attached to one device at most, and the device that is      *)
(* about to be detached has the partition that was named.                      *)
AttachInv ==
  /\ known \in 0..Len(MtdNames)
  /\ devs \in [Attaching!Devs -> Attaching!Mtds \cup {NoMtd}]
  /\ step = "attach" => mtd \in Attaching!Mtds
  /\ \A d, e \in Attaching!Devs : devs[d] = devs[e] => devs[d] = NoMtd \/ d = e
  /\ step = "detach" /\ ~stirred => dev \in Attaching!Devs /\ devs[dev] = mtd

LEMMA AttachStep ==
  ASSUME AttachInv, [Attaching!Next]_(Attaching!vars)
  PROVE  AttachInv'
<1> USE DEF AttachInv
<1>f. Attaching!Filled \in 0..Len(MtdNames)
  BY AttachAssumption DEF Attaching!Filled
<1>m. \A n, entries : entries \in 0..Len(MtdNames) =>
        Attaching!MtdOf(n, entries) \subseteq Attaching!Mtds
  BY AttachAssumption DEF Attaching!MtdOf, Attaching!Mtds
<1>1. CASE Attaching!ModuleInit
  BY <1>1, <1>f DEF Attaching!ModuleInit
<1>2. CASE Attaching!ModuleDeInit
  BY <1>2 DEF Attaching!ModuleDeInit
<1>3. ASSUME NEW n, NEW entries \in 0..Len(MtdNames), Attaching!AttachBegins(n, entries),
             known' \in 0..Len(MtdNames), step = "idle"
      PROVE  AttachInv'
  <2>1. devs' = devs /\ dev' = dev /\ stirred' = stirred
    BY <1>3 DEF Attaching!AttachBegins
  <2>2. step' = "idle" \/ (step' = "attach" /\ mtd' \in Attaching!MtdOf(n, entries))
    BY <1>3 DEF Attaching!AttachBegins, Attaching!Returns
  <2>3. step' = "attach" => mtd' \in Attaching!Mtds
    BY <1>m, <2>2
  <2> QED BY <1>3, <2>1, <2>2, <2>3
<1>4. ASSUME NEW n \in Attaching!Names, Attaching!Attach(n) \/ Attaching!AttachEnvPart(n)
      PROVE  AttachInv'
  BY <1>3, <1>4, <1>f DEF Attaching!Attach, Attaching!AttachEnvPart
<1>5. CASE Attaching!UbiAttach
  <2>1. CASE devs' = devs
    BY <1>5, <2>1 DEF Attaching!UbiAttach, Attaching!Returns
  <2>2. CASE devs' # devs
    <3>1. PICK d \in Attaching!Given : devs' = [devs EXCEPT ![d] = mtd]
      BY <1>5, <2>2 DEF Attaching!UbiAttach
    <3>2. /\ \A e \in Attaching!Devs : devs[e] # mtd
          /\ mtd \in Attaching!Mtds /\ d \in Attaching!Devs
          /\ step' = "node" /\ known' = known
      BY <1>5, <2>2 DEF Attaching!UbiAttach, Attaching!Attached, Attaching!Given
    <3>3. devs' \in [Attaching!Devs -> Attaching!Mtds \cup {NoMtd}]
      BY <3>1, <3>2
    <3>4. \A c, e \in Attaching!Devs : devs'[c] = devs'[e] => devs'[c] = NoMtd \/ c = e
      BY <3>1, <3>2
    <3> QED BY <3>2, <3>3, <3>4
  <2> QED BY <2>1, <2>2
<1>6. CASE Attaching!MakeNode
  BY <1>6 DEF Attaching!MakeNode, Attaching!Returns
<1>7. ASSUME NEW n \in Attaching!Names, Attaching!Detach(n)
      PROVE  AttachInv'
  <2>1. devs' = devs /\ known' = known
    BY <1>7 DEF Attaching!Detach
  <2>2. \/ step' = "idle"
        \/ step' = "detach" /\ \E m \in Attaching!MtdOf(n, known) : mtd' = m /\ dev' \in Attaching!DevIdOf(m)
    BY <1>7 DEF Attaching!Detach, Attaching!Returns
  <2>3. step' = "detach" => dev' \in Attaching!Devs /\ devs[dev'] = mtd'
    BY <2>2 DEF Attaching!DevIdOf
  <2> QED BY <2>1, <2>2, <2>3
<1>8. CASE Attaching!UbiDetach
  <2>1. step' = "idle" /\ known' = known
    BY <1>8 DEF Attaching!UbiDetach, Attaching!Returns
  <2>2. devs' = devs \/ devs' = [devs EXCEPT ![dev] = NoMtd]
    BY <1>8 DEF Attaching!UbiDetach
  <2> QED BY <2>1, <2>2
<1>9. CASE Attaching!Others
  <2>1. stirred' = TRUE /\ UNCHANGED <<known, step, mtd>>
    BY <1>9 DEF Attaching!Others
  <2>2. CASE \E m \in Attaching!Mtds, d \in Attaching!Given :
               ~Attaching!Attached(m) /\ devs' = [devs EXCEPT ![d] = m]
    <3>1. PICK m \in Attaching!Mtds, d \in Attaching!Devs :
            (\A e \in Attaching!Devs : devs[e] # m) /\ devs' = [devs EXCEPT ![d] = m]
      BY <2>2 DEF Attaching!Attached, Attaching!Given
    <3>2. \A c, e \in Attaching!Devs : devs'[c] = devs'[e] => devs'[c] = NoMtd \/ c = e
      BY <3>1
    <3> QED BY <2>1, <3>1, <3>2
  <2>3. CASE \E d \in Attaching!Devs : devs[d] # NoMtd /\ devs' = [devs EXCEPT ![d] = NoMtd]
    BY <2>1, <2>3
  <2> QED BY <1>9, <2>2, <2>3 DEF Attaching!Others
<1>10. CASE UNCHANGED Attaching!vars
  BY <1>10 DEF Attaching!vars
<1> QED
  BY <1>1, <1>2, <1>4, <1>5, <1>6, <1>7, <1>8, <1>9, <1>10 DEF Attaching!Next

\* MI_UBI_Detach takes away the device of the named partition and no other,
\* and overlooks it only behind a free number or one that it does not look at,
\* for any partitions, their names, and any number of devices.
THEOREM DetachesTheNamed == Attaching!Spec => DetachesNamed
<1> DEFINE Right ==
             /\ step = "detach" /\ devs' # devs /\ ~stirred /\ ~stirred' =>
                  \A d \in Attaching!Devs : devs'[d] # devs[d] => devs[d] = mtd
             /\ \A n \in Attaching!Names :
                  Attaching!Detach(n) /\ step' = "idle" =>
                    \A i \in 0..(known - 1), d \in Attaching!Devs :
                      MtdNames[i + 1] = n /\ devs[d] = i =>
                        \/ d >= MtdMax \/ \E e \in 0..(d - 1) : devs[e] = NoMtd
                        \/ \E j \in 0..(i - 1) : MtdNames[j + 1] = n
<1>1. Attaching!Init => AttachInv
  BY AttachAssumption DEF Attaching!Init, AttachInv
<1>2. AttachInv /\ [Attaching!Next]_(Attaching!vars) => AttachInv'
  BY AttachStep
<1>3. AttachInv /\ [Attaching!Next]_(Attaching!vars) => [Right]_(Attaching!vars)
  <2> SUFFICES ASSUME AttachInv, Attaching!Next PROVE Right
    OBVIOUS
  <2>1. ASSUME step = "detach", devs' # devs, ~stirred, ~stirred',
               NEW d \in Attaching!Devs, devs'[d] # devs[d]
        PROVE  devs[d] = mtd
    <3>1. Attaching!UbiDetach
      BY <2>1
      DEF Attaching!Next, Attaching!ModuleInit, Attaching!ModuleDeInit, Attaching!UbiAttach,
          Attaching!MakeNode, Attaching!Others, Attaching!Attach, Attaching!AttachEnvPart, Attaching!Detach
    <3>2. devs' = [devs EXCEPT ![dev] = NoMtd]
      BY <2>1, <3>1 DEF Attaching!UbiDetach
    <3> QED BY <2>1, <3>2 DEF AttachInv
  <2>2. ASSUME NEW n \in Attaching!Names, Attaching!Detach(n), step' = "idle",
               NEW i \in 0..(known - 1), NEW d \in Attaching!Devs,
               MtdNames[i + 1] = n, devs[d] = i,
               ~ \E j \in 0..(i - 1) : MtdNames[j + 1] = n
        PROVE  d >= MtdMax \/ \E e \in 0..(d - 1) : devs[e] = NoMtd
    <3>1. i \in Attaching!MtdOf(n, known)
      BY <2>2 DEF Attaching!MtdOf
    <3>2. Attaching!DevIdOf(i) = {}
      BY <2>2, <3>1 DEF Attaching!Detach
    <3>3. ~(d < MtdMax) \/ \E e \in 0..(d - 1) : devs[e] \in {NoMtd, i}
      BY <2>2, <3>2 DEF Attaching!DevIdOf
    <3>4. i # NoMtd
      BY AttachAssumption DEF AttachInv, Attaching!Mtds
    <3>5. ASSUME NEW e \in 0..(d - 1) PROVE devs[e] # i
      <4>1. e \in Attaching!Devs /\ e # d
        BY AttachAssumption DEF Attaching!Devs
      <4> QED BY <2>2, <3>4, <4>1 DEF AttachInv
    <3>6. d \in Nat /\ MtdMax \in Nat
      BY AttachAssumption DEF Attaching!Devs
    <3> QED BY <3>3, <3>5, <3>6
  <2> QED BY <2>1, <2>2
<1>4. Attaching!Spec => [][Right]_(Attaching!vars)
  BY <1>1, <1>2, <1>3, PTL DEF Attaching!Spec
<1> QED BY <1>4 DEF DetachesNamed, Attaching!DetachesNamed

-----------------------------------------------------------------------------
(* The image of the recovery system (RecoveryImage).  mtd_write_data knows     *)
(* where it is by the bad blocks it has counted: as many blocks as it has      *)
(* filled are good before the one it is at.                                    *)
Blk == 0..(MtdBlocks - 1)
BadOnes == bad[Recovery]
GoodOnes == Blk \ BadOnes
BadsBelow(b) == Cardinality({g \in BadOnes : g < b})
GoodsBelow(b) == Cardinality({g \in GoodOnes : g < b})

\* Byte r of the m-th block's worth of the image is in the m-th good block.
Filled(m, r) ==
  \E b \in GoodOnes :
    GoodsBelow(b) = m /\ cell[Recovery][b * EraseSize + r] = image[m * EraseSize + r + 1]

FilledTo(n) ==
  \A m \in Nat, r \in 0..(EraseSize - 1) : m * EraseSize + r < n => Filled(m, r)

\* While there is more to write, it goes into the first block that is not filled.
Aligned ==
  \E m \in Nat : /\ writein = m * EraseSize
                 /\ wpos = (m + skipped) * EraseSize
                 /\ skipped = BadsBelow(m + skipped)

RecoveryInv ==
  /\ DOMAIN cell = Partitions /\ bad \in [Partitions -> BadBlocks] /\ image \in Images
  /\ at = "writing" =>
       /\ wr = [part |-> Recovery, off |-> 0, data |-> image]
       /\ wpc \in {"busy", "done"}
       /\ skipped \in Nat /\ writein \in 0..Len(image)
       /\ writein < Len(image) => Aligned
       /\ hurt = {} => FilledTo(writein)
       /\ wpc = "done" => mret = -1 \/ (mret = Len(image) /\ writein = mret)

LEMMA EraseNext ==
  ASSUME NEW p \in Int, NEW q \in Int, p < q
  PROVE  p * EraseSize + EraseSize <= q * EraseSize
<1>1. q - p - 1 \in Nat
  OBVIOUS
<1>2. (q - p - 1) * EraseSize \in Nat
  BY <1>1, RecoveryAssumption
<1>3. (q - p - 1) * EraseSize = q * EraseSize - p * EraseSize - EraseSize
  BY RecoveryAssumption
<1> QED BY <1>2, <1>3, RecoveryAssumption

LEMMA EraseSplit ==
  ASSUME NEW a \in Nat
  PROVE  /\ a % EraseSize \in 0..(EraseSize - 1) /\ a \div EraseSize \in Nat
         /\ a = (a \div EraseSize) * EraseSize + (a % EraseSize)
BY RecoveryAssumption, SMT

LEMMA EraseParts ==
  ASSUME NEW q \in Nat, NEW r \in 0..(EraseSize - 1)
  PROVE  /\ q * EraseSize + r \in Nat
         /\ (q * EraseSize + r) \div EraseSize = q
         /\ (q * EraseSize + r) % EraseSize = r
<1> DEFINE a == q * EraseSize + r
<1>1. a \in Nat
  BY RecoveryAssumption
<1> HIDE DEF a
<1>2. PICK p \in Nat, s \in 0..(EraseSize - 1) :
        a = p * EraseSize + s /\ p = a \div EraseSize /\ s = a % EraseSize
  BY <1>1, EraseSplit
<1>3. p * EraseSize \in Int /\ q * EraseSize \in Int
  BY <1>2, RecoveryAssumption
<1>4. ~(p < q) /\ ~(q < p)
  BY <1>2, <1>3, EraseNext, RecoveryAssumption DEF a
<1>5. p = q
  BY <1>2, <1>4
<1>6. p * EraseSize + s = p * EraseSize + r
  BY <1>2, <1>5 DEF a
<1>7. ASSUME NEW x \in Int, x + s = x + r PROVE s = r
  BY <1>2, <1>7, RecoveryAssumption
<1>8. s = r
  BY <1>3, <1>6, <1>7
<1> QED BY <1>1, <1>2, <1>5, <1>8 DEF a

LEMMA EraseInside ==
  ASSUME NEW b \in Blk, NEW r \in 0..(EraseSize - 1)
  PROVE  b * EraseSize + r \in Updating!Cells
<1>1. b \in Nat /\ b < MtdBlocks /\ MtdBlocks \in Int
  BY RecoveryAssumption DEF Blk
<1>2. b * EraseSize + EraseSize <= MtdBlocks * EraseSize
  BY <1>1, EraseNext
<1>3. b * EraseSize \in Nat /\ MtdBlocks * EraseSize \in Int
  BY <1>1, RecoveryAssumption
<1> QED BY <1>2, <1>3, RecoveryAssumption DEF Updating!Cells, Updating!Size

(* A good block is known by how many are before it, and those by the bad ones. *)
LEMMA BlkInts == Blk \subseteq Int /\ \A b : b \in Blk <=> b \in Nat /\ b < MtdBlocks
BY RecoveryAssumption DEF Blk

LEMMA BadsAre == ASSUME RecoveryInv PROVE BadOnes \subseteq Blk
<1>1. bad \in [Partitions -> BadBlocks] /\ Recovery \in Partitions
  BY RecoveryAssumption DEF RecoveryInv
<1>2. bad[Recovery] \in BadBlocks
  BY <1>1
<1> QED BY <1>2, RecoveryAssumption DEF BadOnes, Blk

LEMMA BlksFinite ==
  IsFiniteSet(Blk) /\ \A S \in SUBSET Blk : IsFiniteSet(S) /\ Cardinality(S) \in Nat
<1>1. IsFiniteSet(Blk)
  <2>1. 0 \in Int /\ MtdBlocks - 1 \in Int
    BY RecoveryAssumption
  <2> QED BY <2>1, FS_Interval DEF Blk
<1> QED BY <1>1, FS_Subset, FS_CardinalityType

LEMMA GoodsAre ==
  ASSUME BadOnes \subseteq Blk, NEW b \in Blk
  PROVE  GoodsBelow(b) = b - BadsBelow(b) /\ BadsBelow(b) \in Nat
<1> DEFINE S == 0..(b - 1)
           T == {g \in BadOnes : g < b}
<1>1. IsFiniteSet(S) /\ Cardinality(S) = b
  <2>1. b \in Nat /\ 0 \in Int /\ b - 1 \in Int
    BY RecoveryAssumption DEF Blk
  <2>2. IsFiniteSet(S) /\ Cardinality(S) = IF 0 > b - 1 THEN 0 ELSE (b - 1) - 0 + 1
    BY <2>1, FS_Interval
  <2> HIDE DEF S
  <2> QED BY <2>1, <2>2
<1>2. {g \in GoodOnes : g < b} = S \ T /\ T \subseteq S
  <2>1. b \in Nat /\ b < MtdBlocks /\ MtdBlocks \in Nat
    BY BlkInts, RecoveryAssumption
  <2>2. S = {g \in Blk : g < b}
    BY <2>1 DEF Blk
  <2> QED BY <2>2 DEF GoodOnes
<1>3. S \cap T = T /\ IsFiniteSet(T)
  BY <1>1, <1>2, FS_Subset
<1> HIDE DEF S, T
<1>4. Cardinality(S \ T) = Cardinality(S) - Cardinality(T) /\ Cardinality(T) \in Nat
  BY <1>1, <1>3, FS_Difference, FS_CardinalityType
<1> USE DEF S, T
<1> QED BY <1>1, <1>2, <1>4 DEF GoodsBelow, BadsBelow

\* Counting up in a set of blocks.
LEMMA CountUpTo ==
  ASSUME NEW S \in SUBSET Blk, NEW b \in Nat
  PROVE  /\ Cardinality({g \in S : g < b}) \in Nat
         /\ b \in S => Cardinality({g \in S : g < b + 1}) = Cardinality({g \in S : g < b}) + 1
         /\ b \notin S => Cardinality({g \in S : g < b + 1}) = Cardinality({g \in S : g < b})
<1> DEFINE T == {g \in S : g < b}
<1>1. IsFiniteSet(T) /\ Cardinality(T) \in Nat
  <2>1. T \in SUBSET Blk
    OBVIOUS
  <2> HIDE DEF T
  <2> QED BY <2>1, BlksFinite
<1>i. S \subseteq Int
  BY BlkInts
<1>2. CASE b \in S
  <2>1. {g \in S : g < b + 1} = T \cup {b} /\ b \notin T
    <3>1. \A g \in S : g < b + 1 <=> g < b \/ g = b
      BY <1>i
    <3>2. ~(b < b)
      OBVIOUS
    <3> QED BY <1>2, <3>1, <3>2
  <2> QED BY <1>1, <1>2, <2>1, FS_AddElement
<1>3. CASE b \notin S
  <2>1. {g \in S : g < b + 1} = T
    <3>1. \A g \in S : g < b + 1 <=> g < b
      BY <1>i, <1>3
    <3> QED BY <3>1
  <2> QED BY <1>1, <1>3, <2>1
<1> QED BY <1>1, <1>2, <1>3

LEMMA CountTells ==
  ASSUME NEW S \in SUBSET Blk, NEW b \in S, NEW d \in S, b < d
  PROVE  /\ Cardinality({g \in S : g < b}) \in Nat /\ Cardinality({g \in S : g < d}) \in Nat
         /\ Cardinality({g \in S : g < b}) < Cardinality({g \in S : g < d})
<1> DEFINE B == {g \in S : g < b}
           D == {g \in S : g < d}
<1>1. b \in Int /\ d \in Int /\ S \subseteq Int
  BY BlkInts
<1>2. B \subseteq D /\ b \in D /\ b \notin B
  <2>1. b \in D /\ b \notin B
    BY <1>1
  <2>2. \A g \in S : g < b => g < d
    BY <1>1
  <2>3. B \subseteq D
    BY <2>2
  <2> QED BY <2>1, <2>3
<1>3. D \in SUBSET Blk /\ B \in SUBSET Blk
  OBVIOUS
<1> HIDE DEF B, D
<1>4. /\ IsFiniteSet(D) /\ Cardinality(B) \in Nat /\ Cardinality(D) \in Nat
      /\ Cardinality(B) <= Cardinality(D) /\ Cardinality(B) # Cardinality(D)
  BY <1>2, <1>3, BlksFinite, FS_Subset
<1> USE DEF B, D
<1> QED BY <1>4

LEMMA BadsUpTo ==
  ASSUME BadOnes \subseteq Blk, NEW b \in Nat
  PROVE  /\ b \in BadOnes => BadsBelow(b + 1) = BadsBelow(b) + 1
         /\ b \notin BadOnes => BadsBelow(b + 1) = BadsBelow(b)
BY CountUpTo, Zenon DEF BadsBelow

LEMMA GoodsMono ==
  ASSUME NEW b \in GoodOnes, NEW d \in GoodOnes, b < d
  PROVE  /\ GoodsBelow(b) \in Nat /\ GoodsBelow(d) \in Nat
         /\ GoodsBelow(b) < GoodsBelow(d)
<1>1. GoodOnes \in SUBSET Blk
  BY DEF GoodOnes
<1> QED BY <1>1, CountTells, Zenon DEF GoodsBelow

LEMMA GoodsTell ==
  ASSUME NEW b \in GoodOnes, NEW d \in GoodOnes, GoodsBelow(b) = GoodsBelow(d)
  PROVE  b = d
<1>1. b \in Int /\ d \in Int
  BY RecoveryAssumption DEF GoodOnes, Blk
<1>2. ~(b < d) /\ ~(d < b)
  BY GoodsMono
<1> QED BY <1>1, <1>2

(* Where mtd_write_data is, while it has something to write. *)
LEMMA Here ==
  ASSUME RecoveryInv, at = "writing", Updating!Writing
  PROVE  /\ Updating!Length = Len(image) /\ Len(image) \in Nat /\ skipped \in Nat
         /\ wr = [part |-> Recovery, off |-> 0, data |-> image]
         /\ wpc = "busy" /\ writein < Len(image)
         /\ \E m \in Nat : /\ writein = m * EraseSize /\ m * EraseSize \in Nat
                           /\ wpos = (m + skipped) * EraseSize
                           /\ skipped = BadsBelow(m + skipped)
                           /\ Updating!BlockOf(wpos) = m + skipped
                           /\ Updating!Within = 0
<1>1. /\ image \in Images
      /\ wr = [part |-> Recovery, off |-> 0, data |-> image]
      /\ skipped \in Nat /\ (writein < Len(image) => Aligned)
  BY DEF RecoveryInv
<1>2. Updating!Length = Len(image) /\ Len(image) \in Nat
  BY <1>1, RecoveryAssumption DEF Updating!Length
<1>3. wpc = "busy" /\ writein < Len(image)
  BY <1>2 DEF Updating!Writing
<1>4. PICK m \in Nat : /\ writein = m * EraseSize
                       /\ wpos = (m + skipped) * EraseSize
                       /\ skipped = BadsBelow(m + skipped)
  BY <1>1, <1>3 DEF Aligned
<1>5. m + skipped \in Nat /\ 0 \in 0..(EraseSize - 1) /\ m * EraseSize \in Nat
      /\ (m + skipped) * EraseSize \in Nat
  BY <1>1, RecoveryAssumption
<1>6. /\ ((m + skipped) * EraseSize + 0) \div EraseSize = m + skipped
      /\ ((m + skipped) * EraseSize + 0) % EraseSize = 0
  BY <1>5, EraseParts
<1>7. (m + skipped) * EraseSize + 0 = wpos
  BY <1>4, <1>5
<1>8. Updating!BlockOf(wpos) = m + skipped /\ Updating!Within = 0
  BY <1>6, <1>7 DEF Updating!BlockOf, Updating!Within
<1> QED BY <1>1, <1>2, <1>3, <1>4, <1>5, <1>8

\* The block it is at, when that is a good one.
LEMMA HereGood ==
  ASSUME RecoveryInv, at = "writing", Updating!OnGoodBlock,
         NEW m \in Nat, wpos = (m + skipped) * EraseSize, skipped = BadsBelow(m + skipped),
         Updating!BlockOf(wpos) = m + skipped, skipped \in Nat
  PROVE  m + skipped \in GoodOnes /\ GoodsBelow(m + skipped) = m
<1>1. m + skipped < MtdBlocks
  <2>1. wpos < MtdBlocks * EraseSize
    BY DEF Updating!OnGoodBlock, Updating!Size
  <2>2. SUFFICES ASSUME MtdBlocks <= m + skipped PROVE FALSE
    BY RecoveryAssumption
  <2>3. MtdBlocks * EraseSize <= (m + skipped) * EraseSize
    <3>1. CASE MtdBlocks = m + skipped
      BY <3>1, RecoveryAssumption
    <3>2. CASE MtdBlocks < m + skipped
      <4>1. MtdBlocks * EraseSize + EraseSize <= (m + skipped) * EraseSize
        BY <3>2, EraseNext, RecoveryAssumption
      <4>2. MtdBlocks * EraseSize \in Int /\ (m + skipped) * EraseSize \in Int
        BY RecoveryAssumption
      <4> QED BY <4>1, <4>2, RecoveryAssumption
    <3> QED BY <2>2, <3>1, <3>2, RecoveryAssumption
  <2>4. MtdBlocks * EraseSize \in Int /\ (m + skipped) * EraseSize \in Int
    BY RecoveryAssumption
  <2> QED BY <2>1, <2>3, <2>4
<1>2. m + skipped \in Blk /\ m + skipped \in Int
  BY <1>1, BlkInts
<1>3. m + skipped \notin BadOnes
  <2>1. wr.part = Recovery
    BY DEF RecoveryInv
  <2>2. Updating!BlockOf(wpos) \notin bad[wr.part]
    BY DEF Updating!OnGoodBlock, Updating!OnBadBlock
  <2> QED BY <2>1, <2>2 DEF BadOnes
<1>4. GoodsBelow(m + skipped) = (m + skipped) - BadsBelow(m + skipped)
  BY <1>2, BadsAre, GoodsAre
<1> QED BY <1>2, <1>3, <1>4 DEF GoodOnes

\* Block n is programmed with new, and no other is touched.
Puts(n, new) ==
  cell' = [cell EXCEPT ![Recovery] =
             [c \in Updating!Cells |-> IF Updating!BlockOf(c) = n THEN new[c] ELSE @[c]]]
Elsewhere(n) ==
  \A b \in Blk, r \in 0..(EraseSize - 1) : b # n =>
    cell'[Recovery][b * EraseSize + r] = cell[Recovery][b * EraseSize + r]

LEMMA Programmed ==
  ASSUME RecoveryInv, wr.part = Recovery, NEW n, Updating!BlockOf(wpos) = n,
         NEW new, Puts(n, new)
  PROVE  /\ DOMAIN cell' = Partitions /\ Elsewhere(n)
         /\ \A r \in 0..(EraseSize - 1) : n \in Blk =>
              cell'[Recovery][n * EraseSize + r] = new[n * EraseSize + r]
<1>1. DOMAIN cell = Partitions /\ Recovery \in Partitions
  BY RecoveryAssumption DEF RecoveryInv
<1>2. /\ DOMAIN cell' = Partitions
      /\ cell'[Recovery] = [c \in Updating!Cells |->
                              IF Updating!BlockOf(c) = n THEN new[c] ELSE cell[Recovery][c]]
  BY <1>1 DEF Puts
<1>3. ASSUME NEW b \in Blk, NEW r \in 0..(EraseSize - 1)
      PROVE  /\ b * EraseSize + r \in Updating!Cells
             /\ Updating!BlockOf(b * EraseSize + r) = b
  <2>1. b \in Nat
    BY BlkInts
  <2> QED BY <2>1, EraseInside, EraseParts DEF Updating!BlockOf
<1>4. ASSUME NEW b \in Blk, NEW r \in 0..(EraseSize - 1)
      PROVE  cell'[Recovery][b * EraseSize + r] =
               IF b = n THEN new[b * EraseSize + r] ELSE cell[Recovery][b * EraseSize + r]
  <2> DEFINE c == b * EraseSize + r
  <2>1. c \in Updating!Cells /\ Updating!BlockOf(c) = b
    BY <1>3
  <2> HIDE DEF c
  <2>2. cell'[Recovery][c] = IF Updating!BlockOf(c) = n THEN new[c] ELSE cell[Recovery][c]
    BY <1>2, <2>1
  <2> QED BY <2>1, <2>2 DEF c
<1> QED BY <1>2, <1>4 DEF Elsewhere

\* What is filled stays so, when only a block that is not yet filled changes.
LEMMA StaysFilled ==
  ASSUME RecoveryInv, NEW m \in Nat, NEW n, GoodsBelow(n) = m, Elsewhere(n),
         FilledTo(m * EraseSize), bad' = bad, image' = image
  PROVE  FilledTo(m * EraseSize)'
<1> SUFFICES ASSUME NEW k \in Nat, NEW r \in 0..(EraseSize - 1), k * EraseSize + r < m * EraseSize
             PROVE  Filled(k, r)'
  BY DEF FilledTo
<1>1. PICK b \in GoodOnes : GoodsBelow(b) = k
                         /\ cell[Recovery][b * EraseSize + r] = image[k * EraseSize + r + 1]
  BY DEF FilledTo, Filled
<1>2. k < m
  <2>1. SUFFICES ASSUME m <= k PROVE FALSE
    OBVIOUS
  <2>2. m * EraseSize <= k * EraseSize
    <3>1. CASE m < k
      <4>1. m * EraseSize + EraseSize <= k * EraseSize
        BY <3>1, EraseNext
      <4>2. m * EraseSize \in Int /\ k * EraseSize \in Int
        BY RecoveryAssumption
      <4> QED BY <4>1, <4>2, RecoveryAssumption
    <3>2. CASE m = k
      BY <3>2, RecoveryAssumption
    <3> QED BY <2>1, <3>1, <3>2
  <2>3. m * EraseSize \in Int /\ k * EraseSize \in Int
    BY RecoveryAssumption
  <2> QED BY <2>2, <2>3, RecoveryAssumption
<1>3. b # n /\ b \in Blk
  BY <1>1, <1>2 DEF GoodOnes
<1>4. cell'[Recovery][b * EraseSize + r] = image[k * EraseSize + r + 1]
  BY <1>1, <1>3 DEF Elsewhere
<1>5. GoodOnes' = GoodOnes /\ GoodsBelow(b)' = GoodsBelow(b)
  BY DEF GoodOnes, BadOnes, GoodsBelow
<1> QED BY <1>1, <1>4, <1>5 DEF Filled

\* The count goes on to the next block, or to the end.
LEMMA CountsUp ==
  ASSUME RecoveryInv, at = "writing", Updating!OnGoodBlock, Updating!Counted,
         UNCHANGED <<bad, skipped, image>>
  PROVE  writein' \in 0..Len(image) /\ (writein' < Len(image)' => Aligned')
<1>1. Updating!Writing /\ Updating!BlockOf(wpos) \notin BadOnes
  BY DEF Updating!OnGoodBlock, Updating!OnBadBlock, RecoveryInv, BadOnes
<1>2. PICK m \in Nat : /\ writein = m * EraseSize /\ m * EraseSize \in Nat
                       /\ wpos = (m + skipped) * EraseSize
                       /\ skipped = BadsBelow(m + skipped)
                       /\ Updating!BlockOf(wpos) = m + skipped
                       /\ Updating!Within = 0
  BY <1>1, Here
<1>3. /\ Updating!Length = Len(image) /\ Len(image) \in Nat /\ skipped \in Nat
      /\ writein < Len(image)
  BY <1>1, Here
<1>4. /\ writein' = Updating!Least(writein + EraseSize, Len(image))
      /\ wpos' = IF Updating!IsLast THEN wpos ELSE wpos + EraseSize
  BY <1>2, <1>3 DEF Updating!Counted
<1>5. writein' \in 0..Len(image)
  BY <1>2, <1>3, <1>4, RecoveryAssumption DEF Updating!Least
<1>6. ASSUME writein' < Len(image) PROVE Aligned'
  <2>1. ~Updating!IsLast /\ writein' = writein + EraseSize
    BY <1>2, <1>3, <1>4, <1>6, RecoveryAssumption DEF Updating!Least, Updating!IsLast
  <2>2. wpos' = (m + skipped) * EraseSize + EraseSize
    BY <1>2, <1>4, <2>1
  <2>3. (m + skipped) * EraseSize + EraseSize = ((m + 1) + skipped) * EraseSize
    BY <1>3, RecoveryAssumption
  <2>4. writein' = (m + 1) * EraseSize
    BY <1>2, <2>1, RecoveryAssumption
  <2>5. skipped = BadsBelow((m + skipped) + 1)
    BY <1>1, <1>2, <1>3, BadsAre, BadsUpTo
  <2>6. (m + skipped) + 1 = (m + 1) + skipped /\ m + 1 \in Nat
    BY <1>3
  <2>7. skipped = BadsBelow((m + 1) + skipped)
    BY <2>5, <2>6
  <2>8. skipped' = skipped /\ skipped = BadsBelow((m + 1) + skipped)'
    BY <2>7 DEF BadsBelow, BadOnes
  <2>9. wpos' = ((m + 1) + skipped') * EraseSize /\ skipped' = BadsBelow((m + 1) + skipped)'
    BY <2>2, <2>3, <2>8
  <2> QED BY <2>4, <2>6, <2>9 DEF Aligned, BadsBelow
<1>7. Len(image)' = Len(image)
  OBVIOUS
<1> QED BY <1>5, <1>6, <1>7

\* The bytes that are put into the block.
LEMMA Fills ==
  ASSUME RecoveryInv, at = "writing", Updating!BlockIsWritten, hurt = {}, UNCHANGED image
  PROVE  DOMAIN cell' = Partitions /\ FilledTo(writein)'
<1>1. /\ Updating!OnGoodBlock /\ Updating!Writing
      /\ Updating!Program(Updating!Merged) /\ Updating!Counted
      /\ UNCHANGED <<bad, skipped>>
  BY DEF Updating!BlockIsWritten, Updating!OnGoodBlock, Updating!nameVars
<1>2. PICK m \in Nat : /\ writein = m * EraseSize /\ m * EraseSize \in Nat
                       /\ wpos = (m + skipped) * EraseSize
                       /\ skipped = BadsBelow(m + skipped)
                       /\ Updating!BlockOf(wpos) = m + skipped
                       /\ Updating!Within = 0
  BY <1>1, Here
<1>3. /\ Updating!Length = Len(image) /\ Len(image) \in Nat /\ skipped \in Nat
      /\ writein < Len(image)
      /\ wr.part = Recovery /\ wr.off = 0 /\ wr.data = image
      /\ FilledTo(writein)
  BY <1>1, Here DEF RecoveryInv
<1> DEFINE n == m + skipped
           new == [c \in Updating!Cells |-> Updating!Merged(c)]
<1>4. n \in GoodOnes /\ GoodsBelow(n) = m /\ n \in Blk
  BY <1>1, <1>2, <1>3, HereGood DEF GoodOnes
<1>5. Puts(n, new)
  BY <1>1, <1>2, <1>3 DEF Updating!Program, Puts
<1> HIDE DEF new
<1>6. /\ DOMAIN cell' = Partitions /\ Elsewhere(n)
      /\ \A r \in 0..(EraseSize - 1) : cell'[Recovery][n * EraseSize + r] = new[n * EraseSize + r]
  BY <1>2, <1>3, <1>4, <1>5, Programmed
<1>7. FilledTo(m * EraseSize)'
  BY <1>1, <1>2, <1>3, <1>4, <1>6, StaysFilled
<1>8. writein' = Updating!Least(m * EraseSize + EraseSize, Len(image))
  BY <1>1, <1>2, <1>3 DEF Updating!Counted
<1>9. ASSUME NEW r \in 0..(EraseSize - 1), m * EraseSize + r < writein'
      PROVE  new[n * EraseSize + r] = image[m * EraseSize + r + 1]
  <2> DEFINE c == n * EraseSize + r
  <2>1. n \in Nat
    BY <1>3
  <2>2. c \in Updating!Cells /\ c % EraseSize = r
    BY <1>4, <2>1, EraseInside, EraseParts
  <2> HIDE DEF c
  <2>3. r < Updating!Count /\ Updating!Count \in Nat
    <3>1. CASE Updating!IsLast
      <4>1. m * EraseSize + EraseSize > Len(image)
        BY <1>2, <1>3, <3>1 DEF Updating!IsLast
      <4> DEFINE s == Len(image) - m * EraseSize
      <4>2. s \in 0..(EraseSize - 1) /\ Len(image) = m * EraseSize + s
        BY <1>2, <1>3, <4>1, RecoveryAssumption
      <4> HIDE DEF s
      <4>3. Len(image) % EraseSize = s
        BY <4>2, EraseParts
      <4>4. Updating!Count = s
        <5>1. Len(image) + wr.off = Len(image)
          BY <1>3
        <5> QED BY <1>2, <1>3, <3>1, <4>3, <5>1 DEF Updating!Count
      <4>5. r < s
        BY <1>2, <1>3, <1>8, <1>9, <4>1, <4>2, RecoveryAssumption DEF Updating!Least
      <4> QED BY <4>2, <4>4, <4>5
    <3>2. CASE ~Updating!IsLast
      <4>1. Updating!Count = EraseSize
        BY <1>2, <3>2 DEF Updating!Count
      <4> QED BY <4>1, RecoveryAssumption
    <3> QED BY <3>1, <3>2
  <2>4. Updating!From = m * EraseSize
    BY <1>2 DEF Updating!From
  <2>5. (c % EraseSize) - Updating!Within = r
    BY <1>2, <2>2
  <2>6. r \in 0..(Updating!Count - 1)
    BY <2>3
  <2>7. Updating!Merged(c) = wr.data[Updating!From + r + 1]
    BY <2>5, <2>6 DEF Updating!Merged
  <2>8. new[c] = image[m * EraseSize + r + 1]
    BY <1>3, <2>2, <2>4, <2>7 DEF new
  <2> QED BY <2>8 DEF c
<1>10. FilledTo(writein)'
  <2> SUFFICES ASSUME NEW k \in Nat, NEW r \in 0..(EraseSize - 1), k * EraseSize + r < writein'
               PROVE  Filled(k, r)'
    BY DEF FilledTo
  <2>1. k * EraseSize \in Nat /\ m * EraseSize \in Nat
    BY RecoveryAssumption
  <2>2. CASE k < m
    <3>1. k * EraseSize + EraseSize <= m * EraseSize
      BY <2>2, EraseNext
    <3>2. k * EraseSize + r < m * EraseSize
      BY <2>1, <3>1, RecoveryAssumption
    <3> QED BY <1>7, <3>2 DEF FilledTo
  <2>3. CASE k = m
    <3>1. cell'[Recovery][n * EraseSize + r] = image[k * EraseSize + r + 1]
      BY <1>6, <1>9, <2>3
    <3>2. GoodOnes' = GoodOnes /\ GoodsBelow(n)' = Cardinality({g \in GoodOnes : g < n})
      BY <1>1 DEF GoodOnes, BadOnes, GoodsBelow
    <3> QED BY <1>4, <2>3, <3>1, <3>2 DEF Filled, GoodsBelow
  <2>4. CASE m < k
    <3>1. m * EraseSize + EraseSize <= k * EraseSize
      BY <2>4, EraseNext
    <3>2. writein' <= m * EraseSize + EraseSize
      BY <1>3, <1>8, <2>1, RecoveryAssumption DEF Updating!Least
    <3>3. writein' \in Int
      BY <1>3, <1>8, <2>1, RecoveryAssumption DEF Updating!Least
    <3> QED BY <2>1, <3>1, <3>2, <3>3, RecoveryAssumption
  <2> QED BY <2>2, <2>3, <2>4
<1> QED BY <1>6, <1>10

LEMMA Spoils ==
  ASSUME RecoveryInv, at = "writing", Updating!OnGoodBlock,
         Updating!Program(Updating!Spoil), UNCHANGED <<bad, image>>
  PROVE  DOMAIN cell' = Partitions /\ (hurt = {} /\ writein' = writein => FilledTo(writein)')
<1>1. Updating!Writing
  BY DEF Updating!OnGoodBlock
<1>2. PICK m \in Nat : /\ writein = m * EraseSize /\ m * EraseSize \in Nat
                       /\ wpos = (m + skipped) * EraseSize
                       /\ skipped = BadsBelow(m + skipped)
                       /\ Updating!BlockOf(wpos) = m + skipped
                       /\ Updating!Within = 0
  BY <1>1, Here
<1>3. wr.part = Recovery /\ skipped \in Nat /\ (hurt = {} => FilledTo(writein))
  BY DEF RecoveryInv
<1> DEFINE n == m + skipped
           new == [c \in Updating!Cells |-> Unsure]
<1>4. GoodsBelow(n) = m
  BY <1>2, <1>3, HereGood
<1>5. Puts(n, new)
  BY <1>2, <1>3 DEF Updating!Program, Updating!Spoil, Puts
<1> HIDE DEF new
<1>6. DOMAIN cell' = Partitions /\ Elsewhere(n)
  BY <1>2, <1>3, <1>5, Programmed
<1>7. ASSUME hurt = {}, writein' = writein PROVE FilledTo(writein)'
  <2>1. FilledTo(m * EraseSize)'
    BY <1>2, <1>3, <1>4, <1>6, <1>7, StaysFilled
  <2>2. writein' = m * EraseSize
    BY <1>2, <1>7
  <2> QED BY <2>1, <2>2 DEF FilledTo
<1> QED BY <1>6, <1>7

LEMMA RecoveryInit == Updating!Init => RecoveryInv
BY DEF Updating!Init, RecoveryInv

(* A step of mtd_write_data. *)
LEMMA MtdWrites ==
  ASSUME RecoveryInv, Updating!Writes
  PROVE  RecoveryInv'
<1> USE DEF RecoveryInv
<1>1. /\ at = "writing" /\ UNCHANGED <<at, image>> /\ Len(image) \in Nat
      /\ wr = [part |-> Recovery, off |-> 0, data |-> image] /\ Updating!Length = Len(image)
  BY RecoveryAssumption DEF Updating!Writes, Updating!loaderVars, Updating!Length
<1>2. CASE Updating!SkipBadBlock
  <2>1. /\ Updating!Writing /\ Updating!BlockOf(wpos) \in BadOnes
        /\ skipped' = skipped + 1 /\ wpos' = wpos + EraseSize
        /\ UNCHANGED <<cell, bad, wr, writein, hurt, image>>
        /\ wpc' \in {"busy", "done"} /\ (wpc' = "done" => mret' = -1)
    BY <1>1, <1>2 DEF Updating!SkipBadBlock, Updating!OnBadBlock, Updating!Returns, BadOnes, Updating!Writing
  <2>2. PICK m \in Nat : /\ writein = m * EraseSize /\ m * EraseSize \in Nat
                         /\ wpos = (m + skipped) * EraseSize
                         /\ skipped = BadsBelow(m + skipped)
                         /\ Updating!BlockOf(wpos) = m + skipped
                         /\ Updating!Within = 0
    BY <1>1, <2>1, Here
  <2>3. skipped \in Nat /\ writein \in 0..Len(image) /\ (hurt = {} => FilledTo(writein))
    BY <1>1
  <2>4. skipped + 1 = BadsBelow((m + skipped) + 1)
    BY <2>1, <2>2, <2>3, BadsAre, BadsUpTo
  <2>5. (m + skipped) * EraseSize + EraseSize = (m + (skipped + 1)) * EraseSize
        /\ (m + skipped) + 1 = m + (skipped + 1)
    BY <2>3, RecoveryAssumption
  <2>6. Aligned'
    <3>1. BadsBelow(m + (skipped + 1)) = skipped'
      BY <2>1, <2>4, <2>5
    <3>2. BadsBelow(m + skipped)' = skipped'
      BY <2>1, <3>1 DEF BadsBelow, BadOnes
    <3>3. writein' = m * EraseSize /\ wpos' = (m + skipped') * EraseSize
      BY <2>1, <2>2, <2>5
    <3> QED BY <3>2, <3>3 DEF Aligned, BadsBelow
  <2>7. FilledTo(writein)' <=> FilledTo(writein)
    BY <2>1 DEF FilledTo, Filled, GoodOnes, GoodsBelow, BadOnes
  <2>8. hurt' = {} => FilledTo(writein)'
    BY <2>1, <2>3, <2>7
  <2>9. image' = image /\ skipped' \in Nat
    BY <1>1, <2>1, <2>3
  <2> QED BY <1>1, <2>1, <2>3, <2>6, <2>8, <2>9
<1>3. CASE Updating!BlockIsWritten
  <2>1. /\ Updating!OnGoodBlock /\ Updating!Counted
        /\ UNCHANGED <<bad, skipped, wpc, wr, mret, hurt, image>>
    BY <1>1, <1>3 DEF Updating!BlockIsWritten, Updating!nameVars
  <2>2. writein' \in 0..Len(image) /\ (writein' < Len(image)' => Aligned')
    BY <1>1, <2>1, CountsUp
  <2>3. hurt = {} => FilledTo(writein)'
    BY <1>1, <1>3, Fills
  <2>4. wpc = "busy"
    BY <2>1 DEF Updating!OnGoodBlock, Updating!Writing
  <2>5. DOMAIN cell' = Partitions
    BY <1>1, <1>3 DEF Updating!BlockIsWritten, Updating!Program
  <2> QED BY <1>1, <2>1, <2>2, <2>3, <2>4, <2>5
<1>4. CASE Updating!EraseFails
  <2>1. /\ Updating!OnGoodBlock /\ Updating!Counted /\ hurt' # {}
        /\ UNCHANGED <<bad, skipped, wpc, wr, mret, image>>
        /\ Updating!Program(Updating!Spoil)
    BY <1>1, <1>4 DEF Updating!EraseFails, Updating!nameVars, Updating!Hurts
  <2>2. writein' \in 0..Len(image) /\ (writein' < Len(image)' => Aligned')
    BY <1>1, <2>1, CountsUp
  <2>3. wpc = "busy" /\ DOMAIN cell' = Partitions
    BY <1>1, <2>1, Spoils DEF Updating!OnGoodBlock, Updating!Writing
  <2> QED BY <1>1, <2>1, <2>2, <2>3
<1>7. CASE Updating!ReadFails
  <2>1. /\ Updating!OnGoodBlock /\ Updating!Counted /\ hurt' # {}
        /\ UNCHANGED <<bad, skipped, wpc, wr, mret, image>>
    BY <1>1, <1>7 DEF Updating!ReadFails, Updating!nameVars, Updating!Hurts
  <2>2. writein' \in 0..Len(image) /\ (writein' < Len(image)' => Aligned')
    BY <1>1, <2>1, CountsUp
  <2>3. wpc = "busy"
    BY <2>1 DEF Updating!OnGoodBlock, Updating!Writing
  <2>4. DOMAIN cell' = Partitions
    BY <1>1, <1>7 DEF Updating!ReadFails, Updating!Program
  <2> QED BY <1>1, <2>1, <2>2, <2>3, <2>4
<1>5. CASE Updating!WriteFails
  <2>1. /\ Updating!OnGoodBlock /\ Updating!Writing
        /\ UNCHANGED <<bad, skipped, wpc, wr, wpos, mret, image>>
        /\ Updating!Program(Updating!Spoil)
    BY <1>1, <1>5 DEF Updating!WriteFails, Updating!nameVars, Updating!OnGoodBlock
  <2>2. Updating!Within = 0
    BY <1>1, <2>1, Here
  <2>3. UNCHANGED <<writein, hurt>>
    BY <1>5, <2>2 DEF Updating!WriteFails
  <2>4. wpc = "busy" /\ DOMAIN cell' = Partitions /\ (hurt = {} => FilledTo(writein)')
    BY <1>1, <2>1, <2>3, Spoils DEF Updating!Writing
  <2>5. Aligned' <=> Aligned
    BY <2>1, <2>3 DEF Aligned, BadsBelow, BadOnes
  <2> QED BY <1>1, <2>1, <2>3, <2>4, <2>5
<1>6. CASE Updating!WriteEnds
  <2>1. /\ writein >= Len(image) /\ mret' = writein /\ wpc' = "done"
        /\ UNCHANGED <<cell, bad, skipped, wr, wpos, writein, hurt, image>>
    BY <1>1, <1>6 DEF Updating!WriteEnds, Updating!Returns, Updating!nameVars
  <2>2. writein = Len(image)
    BY <1>1, <2>1
  <2>3. FilledTo(writein)' <=> FilledTo(writein)
    BY <2>1 DEF FilledTo, Filled, GoodOnes, GoodsBelow, BadOnes
  <2> QED BY <1>1, <2>1, <2>2, <2>3
<1> QED
  BY <1>2, <1>3, <1>4, <1>5, <1>6, <1>7 DEF Updating!Writes, Updating!MtdStep

LEMMA RecoveryStep ==
  ASSUME RecoveryInv, [Updating!Next]_(Updating!vars)
  PROVE  RecoveryInv'
<1>1. CASE Updating!Prepare
  BY <1>1 DEF RecoveryInv, Updating!Prepare, Updating!mtdVars
<1>2. CASE Updating!NotUpdated
  BY <1>2 DEF RecoveryInv, Updating!NotUpdated, Updating!mtdVars
<1>3. CASE Updating!UpdateRecovery
  <2>1. /\ at' = "writing" /\ wpc' = "busy" /\ writein' = 0 /\ wpos' = 0 /\ skipped' = 0
        /\ wr' = [part |-> Recovery, off |-> 0, data |-> image]
        /\ UNCHANGED <<cell, bad, image>>
    BY <1>3, RecoveryAssumption DEF Updating!UpdateRecovery, Updating!WriteBegins
  <2>2. Len(image)' = Len(image) /\ Len(image) \in Nat
    BY <2>1, RecoveryAssumption DEF RecoveryInv
  <2>3. Aligned'
    <3>1. BadOnes \subseteq Nat
      BY BadsAre, BlkInts
    <3>2. {g \in BadOnes : g < 0} = {}
      <4>1. \A g \in BadOnes : ~(g < 0)
        BY <3>1
      <4> QED BY <4>1
    <3>3. BadsBelow(0) = 0
      BY <3>2, FS_EmptySet DEF BadsBelow
    <3>4. BadsBelow(0)' = 0
      BY <2>1, <3>3 DEF BadsBelow, BadOnes
    <3>5. 0 + skipped' = 0 /\ 0 * EraseSize = 0 /\ 0 \in Nat
      BY <2>1, RecoveryAssumption
    <3>6. BadsBelow(0 + skipped)' = skipped'
      BY <2>1, <3>4, <3>5 DEF BadsBelow
    <3>7. writein' = 0 * EraseSize /\ wpos' = (0 + skipped') * EraseSize
      BY <2>1, <3>5
    <3> QED BY <3>5, <3>6, <3>7 DEF Aligned, BadsBelow
  <2>4. FilledTo(writein)'
    <3>1. \A m \in Nat, r \in 0..(EraseSize - 1) : ~(m * EraseSize + r < 0)
      BY RecoveryAssumption
    <3> QED BY <2>1, <3>1 DEF FilledTo
  <2> QED BY <2>1, <2>2, <2>3, <2>4 DEF RecoveryInv
<1>4. CASE Updating!Writes
  BY <1>4, MtdWrites
<1>5. CASE Updating!WriteRefused
  BY <1>5 DEF RecoveryInv, Updating!WriteRefused
<1>6. CASE Updating!UpdateEnds
  BY <1>6 DEF RecoveryInv, Updating!UpdateEnds
<1>7. CASE Updating!Restart
  <2>1. at' = "idle" /\ UNCHANGED <<bad, image>> /\ DOMAIN cell' = DOMAIN cell
    BY <1>7 DEF Updating!Restart, Updating!Program
  <2> QED BY <2>1 DEF RecoveryInv
<1>8. CASE UNCHANGED Updating!vars
  <2>1. UNCHANGED <<cell, bad, wr, wpc, skipped, writein, wpos, mret, hurt, at, image>>
    BY <1>8 DEF Updating!vars, Updating!mtdVars, Updating!nameVars, Updating!callVars, Updating!loaderVars
  <2>2. Aligned' <=> Aligned
    BY <2>1 DEF Aligned, BadsBelow, BadOnes
  <2>3. FilledTo(writein)' <=> FilledTo(writein)
    BY <2>1 DEF FilledTo, Filled, GoodOnes, GoodsBelow, BadOnes
  <2> QED BY <2>1, <2>2, <2>3 DEF RecoveryInv
<1> QED
  BY <1>1, <1>2, <1>3, <1>4, <1>5, <1>6, <1>7, <1>8 DEF Updating!Next

(* What is filled to the end is in place: the m-th block of the image is in   *)
(* the only block before which m blocks are good.                             *)
LEMMA FilledIsInPlace ==
  ASSUME RecoveryInv, FilledTo(Len(image)), Len(image) \in Nat
  PROVE  Updating!InPlace
<1>1. Updating!Good(Recovery) = GoodOnes /\ \A S : Updating!Cardinality(S) = Cardinality(S)
  BY DEF Updating!Good, GoodOnes, BadOnes, Blk, Updating!Cardinality, Cardinality
<1>2. ASSUME NEW b \in GoodOnes, NEW m, GoodsBelow(b) = m
      PROVE  Updating!Nth(Recovery, m) = b
  BY <1>1, <1>2, GoodsTell DEF Updating!Nth, GoodsBelow
<1>3. ASSUME NEW k \in 1..Len(image)
      PROVE  /\ cell[Recovery][Updating!Place(Recovery, k - 1)] = image[k]
             /\ \E b \in GoodOnes : GoodsBelow(b) = (k - 1) \div EraseSize
  <2> DEFINE q == (k - 1) \div EraseSize
             r == (k - 1) % EraseSize
  <2>1. k - 1 \in Nat
    BY <1>3
  <2>2. q \in Nat /\ r \in 0..(EraseSize - 1) /\ k - 1 = q * EraseSize + r
    BY <2>1, EraseSplit
  <2>3. Updating!Place(Recovery, k - 1) = Updating!Nth(Recovery, q) * EraseSize + r
    BY DEF Updating!Place
  <2> HIDE DEF q, r
  <2>4. q * EraseSize + r < Len(image) /\ q * EraseSize + r + 1 = k
    BY <1>3, <2>1, <2>2
  <2>5. PICK b \in GoodOnes : GoodsBelow(b) = q /\ cell[Recovery][b * EraseSize + r] = image[k]
    BY <2>2, <2>4 DEF FilledTo, Filled
  <2>6. Updating!Nth(Recovery, q) = b
    BY <1>2, <2>5
  <2> QED BY <2>3, <2>5, <2>6 DEF q
<1>4. Len(image) <= Updating!Room(Recovery)
  <2>1. Updating!Room(Recovery) = Cardinality(GoodOnes) * EraseSize
    BY <1>1 DEF Updating!Room
  <2>2. GoodOnes \in SUBSET Blk
    BY DEF GoodOnes
  <2>3. IsFiniteSet(GoodOnes) /\ Cardinality(GoodOnes) \in Nat
    BY <2>2, BlksFinite
  <2>4. CASE Len(image) = 0
    BY <2>1, <2>3, <2>4, RecoveryAssumption
  <2>5. CASE Len(image) # 0
    <3> DEFINE q == (Len(image) - 1) \div EraseSize
    <3>1. Len(image) \in 1..Len(image) /\ Len(image) - 1 \in Nat
      BY <2>5
    <3>2. PICK b \in GoodOnes : GoodsBelow(b) = q
      BY <1>3, <3>1
    <3>3. q \in Nat /\ Len(image) <= q * EraseSize + EraseSize
      <4> DEFINE r == (Len(image) - 1) % EraseSize
      <4>1. q \in Nat /\ r \in 0..(EraseSize - 1) /\ Len(image) - 1 = q * EraseSize + r
        BY <3>1, EraseSplit
      <4> HIDE DEF q, r
      <4>2. q * EraseSize \in Nat
        BY <4>1, RecoveryAssumption
      <4> QED BY <4>1, <4>2, <3>1, RecoveryAssumption
    <3> HIDE DEF q
    <3>4. q < Cardinality(GoodOnes)
      <4> DEFINE S == {g \in GoodOnes : g < b}
      <4>1. S \subseteq GoodOnes /\ b \notin S
        <5>1. ~(b < b)
          BY <3>2, BlkInts DEF GoodOnes
        <5> QED BY <5>1
      <4> HIDE DEF S
      <4>2. Cardinality(S) <= Cardinality(GoodOnes) /\ Cardinality(S) # Cardinality(GoodOnes)
        BY <2>3, <3>2, <4>1, FS_Subset
      <4> USE DEF S
      <4> QED BY <2>3, <3>2, <3>3, <4>2 DEF GoodsBelow
    <3>5. q * EraseSize + EraseSize <= Cardinality(GoodOnes) * EraseSize
      BY <2>3, <3>3, <3>4, EraseNext
    <3>6. q * EraseSize \in Int /\ Cardinality(GoodOnes) * EraseSize \in Int
      BY <2>3, <3>3, RecoveryAssumption
    <3> QED BY <2>1, <3>3, <3>5, <3>6, RecoveryAssumption
  <2> QED BY <2>4, <2>5
<1> QED BY <1>3, <1>4 DEF Updating!InPlace

\* ms_update_recovery removes its file when the partition holds the image, to the
\* last byte and wherever the bad blocks are; or after the failures that its
\* comparison of an unsigned result, and mtd_write_data, pass over.
THEOREM RecoveryIsInPlace == Updating!Spec => ImageNotLost
<1> DEFINE Act == file /\ ~file' =>
                    Updating!InPlace \/ Updating!WriteRefused \/ mret = -1 \/ hurt # {}
<1>1. ASSUME RecoveryInv, [Updating!Next]_(Updating!vars) PROVE [Act]_(Updating!vars)
  <2> SUFFICES ASSUME Updating!Next, file, ~file', ~Updating!WriteRefused, mret # -1, hurt = {}
               PROVE  Updating!InPlace
    BY <1>1
  <2>1. Updating!UpdateEnds
    BY DEF Updating!Next, Updating!Prepare, Updating!NotUpdated, Updating!UpdateRecovery,
           Updating!Writes, Updating!Restart, Updating!loaderVars
  <2>2. writein = Len(image) /\ FilledTo(writein)
    BY <1>1, <2>1 DEF Updating!UpdateEnds, RecoveryInv
  <2>3. Len(image) \in Nat
    BY <1>1, RecoveryAssumption DEF RecoveryInv
  <2> QED BY <1>1, <2>2, <2>3, FilledIsInPlace
<1>2. Updating!Spec => [][Act]_(Updating!vars)
  BY <1>1, RecoveryInit, RecoveryStep, PTL DEF Updating!Spec
<1> QED BY <1>2 DEF ImageNotLost, Updating!ImageNotLost

-----------------------------------------------------------------------------
(* Reading the raw NAND (MtdRead).  mtd_read_data counts no bad blocks; but as *)
(* many good ones are behind it, from the one of the offset on, as the bytes   *)
(* it has read have filled.                                                    *)
FirstOne == from \div EraseSize
SoundOnes == {b \in FirstOne..(MtdBlocks - 1) : b \notin lost}
SoundBelow(b) == Cardinality({g \in SoundOnes : g < b})

\* Byte k of the partition as mtd_write_data numbers them, c that it reads.
SameByte(k, c) ==
  \E b \in SoundOnes : /\ SoundBelow(b) = (k \div EraseSize) - FirstOne
                       /\ c = b * EraseSize + (k % EraseSize)

ReadBytes == Int \cup {Unsure}

ReadTyped ==
  /\ lost \subseteq Blk /\ from \in Nat /\ wanted \in Nat /\ rpos \in Nat
  /\ readin \in 0..wanted /\ rpc \in {"busy", "done"}
  /\ block \in [1..EraseSize -> ReadBytes] /\ data \in Seq(ReadBytes)

\* While there is more to read, a block is begun at its beginning but the first.
Onward ==
  readin < wanted =>
    /\ rpos % EraseSize = (from + readin) % EraseSize
    /\ readin > 0 => rpos % EraseSize = 0
    /\ FirstOne <= rpos \div EraseSize
    /\ Reading!Fits => SoundBelow(rpos \div EraseSize)
                         = ((from + readin) \div EraseSize) - FirstOne

ReadInv ==
  /\ ReadTyped /\ Onward
  /\ Len(data) = readin
  /\ Reading!Fits => \A i \in 1..readin : SameByte(from + i - 1, data[i])
  /\ rpc = "done" => rret = -1 \/ (rret = readin /\ readin = wanted)

LEMMA SoundAre ==
  ASSUME lost \subseteq Blk, from \in Nat
  PROVE  /\ FirstOne \in Nat /\ SoundOnes \in SUBSET Blk
         /\ Cardinality(SoundOnes) \in Nat /\ IsFiniteSet(SoundOnes)
<1>1. FirstOne \in Nat
  BY EraseSplit DEF FirstOne
<1>2. SoundOnes \in SUBSET Blk
  BY <1>1, RecoveryAssumption DEF SoundOnes, Blk
<1> QED BY <1>1, <1>2, BlksFinite

LEMMA SameSound == Reading!Good = SoundOnes
<1>1. Reading!BlockOf(from) = FirstOne
  BY DEF Reading!BlockOf, FirstOne
<1> QED BY <1>1 DEF Reading!Good, SoundOnes

LEMMA FitsIs ==
  Reading!Fits <=> \/ wanted = 0
                   \/ ((from + wanted - 1) \div EraseSize) - FirstOne < Cardinality(SoundOnes)
<1>1. Reading!Cardinality(SoundOnes) = Cardinality(SoundOnes)
  BY DEF Reading!Cardinality, Cardinality
<1> QED BY <1>1, SameSound DEF Reading!Fits, Reading!BlockOf, FirstOne

LEMMA SoundUpTo ==
  ASSUME ReadTyped, NEW b \in Nat
  PROVE  /\ SoundBelow(b) \in Nat
         /\ b \in SoundOnes => SoundBelow(b + 1) = SoundBelow(b) + 1
         /\ b \notin SoundOnes => SoundBelow(b + 1) = SoundBelow(b)
<1>1. SoundOnes \in SUBSET Blk
  BY SoundAre DEF ReadTyped
<1> QED BY <1>1, CountUpTo, Zenon DEF SoundBelow

\* Behind the partition's end all good blocks are below.
LEMMA SoundAll ==
  ASSUME ReadTyped, NEW b \in Nat, b >= MtdBlocks
  PROVE  SoundBelow(b) = Cardinality(SoundOnes)
<1>1. SoundOnes \in SUBSET Blk
  BY SoundAre DEF ReadTyped
<1>2. \A g \in SoundOnes : g < b
  BY <1>1, BlkInts, RecoveryAssumption
<1>3. {g \in SoundOnes : g < b} = SoundOnes
  BY <1>2
<1> QED BY <1>3 DEF SoundBelow

LEMMA NoneBelow ==
  ASSUME ReadTyped
  PROVE  SoundBelow(FirstOne) = 0
<1>1. SoundOnes \subseteq Int /\ FirstOne \in Nat
  BY SoundAre, BlkInts DEF ReadTyped
<1>2. \A g \in SoundOnes : ~(g < FirstOne)
  BY <1>1, RecoveryAssumption DEF SoundOnes
<1>3. {g \in SoundOnes : g < FirstOne} = {}
  BY <1>2
<1> QED BY <1>3, FS_EmptySet DEF SoundBelow

LEMMA SoundTells ==
  ASSUME ReadTyped, NEW b \in SoundOnes, NEW d \in SoundOnes, b < d
  PROVE  SoundBelow(b) # SoundBelow(d)
<1>1. SoundOnes \in SUBSET Blk
  BY SoundAre DEF ReadTyped
<1>2. /\ SoundBelow(b) \in Nat /\ SoundBelow(d) \in Nat
      /\ SoundBelow(b) < SoundBelow(d)
  BY <1>1, CountTells, Zenon DEF SoundBelow
<1> QED BY <1>2

\* The place that MtdRead names is the one.
LEMMA PlaceIsSame ==
  ASSUME ReadTyped, NEW k \in Nat, NEW c, SameByte(k, c)
  PROVE  c = Reading!Place(k)
<1> DEFINE n == (k \div EraseSize) - FirstOne
<1>1. PICK b \in SoundOnes : SoundBelow(b) = n /\ c = b * EraseSize + (k % EraseSize)
  BY DEF SameByte
<1>2. SoundOnes \in SUBSET Blk
  BY SoundAre DEF ReadTyped
<1>3. ASSUME NEW d \in SoundOnes, SoundBelow(d) = SoundBelow(b) PROVE d = b
  <2>1. ~(d < b) /\ ~(b < d)
    BY <1>2, <1>3, SoundTells
  <2> QED BY <1>2, <2>1, BlkInts
<1>4. Reading!Nth(n) = CHOOSE d \in SoundOnes : SoundBelow(d) = n
  BY SameSound DEF Reading!Nth, SoundBelow, Reading!Cardinality, Cardinality
<1> HIDE DEF n
<1>5. Reading!Nth(n) = b
  BY <1>1, <1>3, <1>4
<1> USE DEF n
<1> QED BY <1>1, <1>5 DEF Reading!Place, Reading!BlockOf, FirstOne

LEMMA EraseOrder ==
  ASSUME NEW a \in Nat, NEW b \in Nat, a <= b
  PROVE  (a \div EraseSize) <= (b \div EraseSize)
<1>1. PICK p \in Nat, r \in 0..(EraseSize - 1) : a = p * EraseSize + r /\ p = a \div EraseSize
  BY EraseSplit
<1>2. PICK q \in Nat, s \in 0..(EraseSize - 1) : b = q * EraseSize + s /\ q = b \div EraseSize
  BY EraseSplit
<1>3. p * EraseSize \in Int /\ q * EraseSize \in Int
  BY RecoveryAssumption
<1>4. ~(q < p)
  BY <1>1, <1>2, <1>3, EraseNext, RecoveryAssumption
<1> QED BY <1>1, <1>2, <1>4

\* A block that is read, and not bad, is one of those that the range is in.
LEMMA AtSound ==
  ASSUME ReadInv, Reading!Reading, ~Reading!OnBadBlock, Reading!Fits
  PROVE  (rpos \div EraseSize) \in SoundOnes
<1> DEFINE cur == rpos \div EraseSize
           k == from + readin
           l == from + wanted - 1
<1>1. /\ readin < wanted /\ from \in Nat /\ wanted \in Nat /\ readin \in Nat /\ rpos \in Nat
      /\ lost \subseteq Blk
  BY DEF ReadInv, ReadTyped, Reading!Reading
<1>2. k \in Nat /\ l \in Nat /\ k <= l
  BY <1>1
<1>3. /\ cur \in Nat /\ FirstOne \in Nat /\ Cardinality(SoundOnes) \in Nat
      /\ k \div EraseSize \in Nat /\ l \div EraseSize \in Nat
  BY <1>1, <1>2, EraseSplit, SoundAre
<1>4. (k \div EraseSize) <= (l \div EraseSize)
  BY <1>2, EraseOrder
<1>5. (l \div EraseSize) - FirstOne < Cardinality(SoundOnes)
  BY <1>1, FitsIs
<1>6. SoundBelow(cur) = (k \div EraseSize) - FirstOne /\ FirstOne <= cur
  BY <1>1 DEF ReadInv, Onward
<1>7. cur \notin lost
  BY DEF Reading!OnBadBlock, Reading!BlockOf
<1> HIDE DEF cur, k, l
<1>8. SoundBelow(cur) # Cardinality(SoundOnes)
  BY <1>3, <1>4, <1>5, <1>6
<1>9. cur < MtdBlocks
  BY <1>3, <1>8, SoundAll, RecoveryAssumption DEF ReadInv
<1>10. cur \in SoundOnes
  BY <1>3, <1>6, <1>7, <1>9, RecoveryAssumption DEF SoundOnes
<1> QED BY <1>10 DEF cur

\* m bytes from where the position is, within its block: they are the next ones.
LEMMA NextOnes ==
  ASSUME ReadInv, Reading!Reading, ~Reading!OnBadBlock, Reading!Fits,
         NEW n \in 1..EraseSize, NEW i \in 1..n, Reading!Take(n),
         (rpos % EraseSize) + i <= EraseSize
  PROVE  SameByte(from + readin + i - 1, block'[i])
<1> DEFINE cur == rpos \div EraseSize
           w == rpos % EraseSize
           k == from + readin
           q == k \div EraseSize
<1>1. /\ readin < wanted /\ from \in Nat /\ readin \in Nat /\ rpos \in Nat
      /\ lost \subseteq Blk
  BY DEF ReadInv, ReadTyped, Reading!Reading
<1>2. /\ cur \in Nat /\ w \in 0..(EraseSize - 1) /\ rpos = cur * EraseSize + w
      /\ q \in Nat /\ k = q * EraseSize + (k % EraseSize)
  BY <1>1, EraseSplit
<1>3. k % EraseSize = w /\ SoundBelow(cur) = q - FirstOne
  BY <1>1 DEF ReadInv, Onward
<1>4. cur \in SoundOnes /\ cur \in Blk /\ w + i <= EraseSize
  BY <1>1, AtSound, SoundAre
<1> HIDE DEF cur, w, q
<1>5. w + i - 1 \in 0..(EraseSize - 1) /\ i \in 1..EraseSize /\ i <= n
  BY <1>2, <1>4, RecoveryAssumption
<1>6. q * EraseSize \in Int /\ cur * EraseSize \in Int /\ i \in Int /\ w \in Int
  BY <1>2, <1>5, RecoveryAssumption
<1>7. k + i - 1 = q * EraseSize + (w + i - 1) /\ rpos + i - 1 = cur * EraseSize + (w + i - 1)
  BY <1>1, <1>2, <1>3, <1>6
<1>8. /\ (k + i - 1) \div EraseSize = q /\ (k + i - 1) % EraseSize = w + i - 1
  BY <1>2, <1>5, <1>7, EraseParts
<1>9. rpos + i - 1 < Reading!Size
  <2>1. cur * EraseSize + (w + i - 1) \in Updating!Cells
    BY <1>4, <1>5, EraseInside
  <2>2. Updating!Size = Reading!Size /\ Updating!Size \in Int
    BY RecoveryAssumption DEF Updating!Size, Reading!Size
  <2> QED BY <1>7, <2>1, <2>2, <1>6 DEF Updating!Cells
<1>10. block'[i] = rpos + i - 1
  BY <1>5, <1>9 DEF Reading!Take
<1> QED BY <1>3, <1>4, <1>7, <1>8, <1>10 DEF SameByte

LEMMA Pieced ==
  ASSUME ReadInv, Reading!Reading, ~Reading!OnBadBlock,
         NEW n \in 1..EraseSize, NEW m \in 0..n, Reading!Take(n),
         (rpos % EraseSize) + m <= EraseSize, readin + m <= wanted,
         data' = data \o SubSeq(block', 1, m), readin' = readin + m
  PROVE  /\ block' \in [1..EraseSize -> ReadBytes] /\ data' \in Seq(ReadBytes)
         /\ readin' \in 0..wanted /\ Len(data') = readin'
         /\ Reading!Fits => \A i \in 1..readin' : SameByte(from + i - 1, data'[i])
<1>1. /\ readin \in 0..wanted /\ wanted \in Nat /\ from \in Nat /\ rpos \in Nat /\ m \in Nat
      /\ data \in Seq(ReadBytes) /\ Len(data) = readin
      /\ block \in [1..EraseSize -> ReadBytes] /\ n <= EraseSize /\ EraseSize \in Nat
  BY RecoveryAssumption DEF ReadInv, ReadTyped
<1>2. block' \in [1..EraseSize -> ReadBytes]
  BY <1>1 DEF Reading!Take, ReadBytes
<1>3. block' \in Seq(ReadBytes) /\ Len(block') = EraseSize
  BY <1>1, <1>2
<1>4. /\ SubSeq(block', 1, m) \in Seq(ReadBytes) /\ Len(SubSeq(block', 1, m)) = m
      /\ \A i \in 1..m : SubSeq(block', 1, m)[i] = block'[i]
  BY <1>1, <1>3
<1>5. /\ data' \in Seq(ReadBytes) /\ Len(data') = readin + m
      /\ \A i \in 1..(readin + m) :
           data'[i] = IF i <= readin THEN data[i] ELSE SubSeq(block', 1, m)[i - readin]
  <2> DEFINE s == SubSeq(block', 1, m)
  <2>1. s \in Seq(ReadBytes) /\ Len(s) = m
    BY <1>4
  <2> HIDE DEF s
  <2>2. /\ data \o s \in Seq(ReadBytes) /\ Len(data \o s) = readin + m
        /\ \A i \in 1..(readin + m) :
             (data \o s)[i] = IF i <= readin THEN data[i] ELSE s[i - readin]
    BY <1>1, <2>1, ConcatProperties
  <2> QED BY <2>2 DEF s
<1>6. ASSUME Reading!Fits, NEW i \in 1..readin' PROVE SameByte(from + i - 1, data'[i])
  <2>1. CASE i <= readin
    BY <1>1, <1>5, <1>6, <2>1 DEF ReadInv
  <2>2. CASE i > readin
    <3>w. PICK w \in Int : w = rpos % EraseSize /\ w + m <= EraseSize
      <4>1. (rpos % EraseSize) \in Int
        BY <1>1, EraseSplit
      <4> QED BY <4>1
    <3>1. /\ i - readin \in 1..m /\ i - readin \in 1..n
          /\ (rpos % EraseSize) + (i - readin) <= EraseSize
      <4>1. i - readin \in 1..m /\ i - readin \in 1..n /\ w + (i - readin) <= EraseSize
        BY <1>1, <1>6, <2>2, <3>w
      <4> QED BY <3>w, <4>1
    <3>2. SameByte(from + readin + (i - readin) - 1, block'[i - readin])
      BY <1>6, <3>1, NextOnes
    <3>3. from + readin + (i - readin) - 1 = from + i - 1
      BY <1>1
    <3>4. data'[i] = block'[i - readin]
      BY <1>1, <1>4, <1>5, <1>6, <2>2, <3>1
    <3> QED BY <3>2, <3>3, <3>4
  <2> QED BY <1>1, <2>1, <2>2
<1> QED BY <1>1, <1>2, <1>5, <1>6

LEMMA RangeStays ==
  ASSUME UNCHANGED <<lost, from, wanted>>
  PROVE  FirstOne' = FirstOne /\ SoundOnes' = SoundOnes /\ (Reading!Fits' <=> Reading!Fits)
<1>1. FirstOne' = FirstOne /\ SoundOnes' = SoundOnes
  BY DEF FirstOne, SoundOnes
<1>2. Reading!Good' = Reading!Good /\ Reading!BlockOf(from)' = Reading!BlockOf(from)
  BY DEF Reading!Good, Reading!BlockOf
<1>3. Reading!Fits' <=> Reading!Fits
  BY <1>2 DEF Reading!Fits, Reading!BlockOf
<1> QED BY <1>1, <1>3

\* The position is moved on by d, to the same place of the next block.
LEMMA MovesOn ==
  ASSUME ReadInv, Reading!Reading, UNCHANGED <<lost, from, wanted>>,
         NEW w \in 0..(EraseSize - 1),
         rpos' = ((rpos \div EraseSize) + 1) * EraseSize + w
  PROVE  /\ rpos' \in Nat /\ rpos' % EraseSize = w
         /\ FirstOne' <= (rpos' \div EraseSize)
         /\ Reading!Fits' => SoundBelow(rpos \div EraseSize)'
              = SoundBelow(rpos \div EraseSize)
                  + (IF (rpos \div EraseSize) \in SoundOnes THEN 1 ELSE 0)
<1> DEFINE cur == rpos \div EraseSize
<1>1. /\ cur \in Nat /\ FirstOne \in Nat /\ ReadTyped
  BY EraseSplit, SoundAre DEF ReadInv, ReadTyped
<1>2. FirstOne <= cur
  BY DEF ReadInv, Onward, Reading!Reading
<1> HIDE DEF cur
<1>3. cur + 1 \in Nat
  BY <1>1
<1>4. rpos' \in Nat /\ rpos' \div EraseSize = cur + 1 /\ rpos' % EraseSize = w
  BY <1>3, EraseParts DEF cur
<1>5. FirstOne' = FirstOne /\ SoundOnes' = SoundOnes
  BY RangeStays
<1>6. SoundBelow(cur + 1) = SoundBelow(cur) + (IF cur \in SoundOnes THEN 1 ELSE 0)
  BY <1>1, SoundUpTo
<1>7. SoundBelow(rpos \div EraseSize)' = SoundBelow(cur + 1)
  BY <1>4, <1>5 DEF SoundBelow
<1>8. SoundBelow(rpos \div EraseSize)'
        = SoundBelow(cur) + (IF cur \in SoundOnes THEN 1 ELSE 0)
  BY <1>6, <1>7
<1> QED BY <1>1, <1>2, <1>4, <1>5, <1>8 DEF cur

\* The block is read to its end: the next one is begun.
LEMMA GoesOn ==
  ASSUME ReadInv, Reading!Reading, ~Reading!OnBadBlock, UNCHANGED <<lost, from, wanted>>,
         rpos' = rpos + (EraseSize - (rpos % EraseSize)),
         readin' = readin + (EraseSize - (rpos % EraseSize))
  PROVE  rpos' \in Nat /\ Onward'
<1> DEFINE cur == rpos \div EraseSize
           w == rpos % EraseSize
           k == from + readin
           q == k \div EraseSize
<1>1. /\ readin < wanted /\ from \in Nat /\ readin \in Nat /\ rpos \in Nat /\ ReadTyped
  BY DEF ReadInv, ReadTyped, Reading!Reading
<1>2. /\ cur \in Nat /\ w \in 0..(EraseSize - 1) /\ rpos = cur * EraseSize + w
      /\ q \in Nat /\ k = q * EraseSize + (k % EraseSize) /\ k \in Nat
  BY <1>1, EraseSplit
<1>3. k % EraseSize = w /\ (Reading!Fits => SoundBelow(cur) = q - FirstOne)
  BY <1>1 DEF ReadInv, Onward
<1>4. Reading!Fits => cur \in SoundOnes
  BY AtSound
<1>5. rpos' = rpos + (EraseSize - w) /\ readin' = readin + (EraseSize - w)
  OBVIOUS
<1>6. /\ EraseSize \in Nat /\ EraseSize > 0
      /\ q * EraseSize \in Nat /\ cur * EraseSize \in Nat /\ FirstOne \in Nat
  BY <1>1, <1>2, SoundAre, RecoveryAssumption DEF ReadTyped
<1> HIDE DEF cur, w, q
<1>7. (cur + 1) * EraseSize = cur * EraseSize + EraseSize
      /\ (q + 1) * EraseSize = q * EraseSize + EraseSize
  BY <1>2, <1>6
<1>8. rpos' = (cur + 1) * EraseSize + 0 /\ from + readin' = (q + 1) * EraseSize + 0
  BY <1>1, <1>2, <1>3, <1>5, <1>6, <1>7
<1>9. /\ rpos' \in Nat /\ rpos' % EraseSize = 0
      /\ FirstOne' <= (rpos' \div EraseSize)
      /\ Reading!Fits' => SoundBelow(rpos \div EraseSize)'
              = SoundBelow(cur) + (IF cur \in SoundOnes THEN 1 ELSE 0)
  BY <1>6, <1>8, MovesOn DEF cur
<1>10. (from + readin') % EraseSize = 0 /\ (from + readin') \div EraseSize = q + 1
  <2>1. q + 1 \in Nat /\ 0 \in 0..(EraseSize - 1)
    BY <1>2, <1>6
  <2> QED BY <1>8, <2>1, EraseParts
<1>11. FirstOne' = FirstOne /\ (Reading!Fits' <=> Reading!Fits) /\ from' = from
  BY RangeStays
<1>12. Reading!Fits' => SoundBelow(rpos \div EraseSize)' = ((from' + readin') \div EraseSize) - FirstOne'
  BY <1>2, <1>3, <1>4, <1>6, <1>9, <1>10, <1>11
<1> QED BY <1>9, <1>10, <1>11, <1>12 DEF Onward

\* A bad block is passed over.
LEMMA PassesOver ==
  ASSUME ReadInv, Reading!SkipBadBlock
  PROVE  rpos' \in Nat /\ Onward'
<1> DEFINE cur == rpos \div EraseSize
           w == rpos % EraseSize
<1>1. /\ rpos \in Nat /\ Reading!Reading /\ Reading!OnBadBlock /\ readin < wanted
      /\ UNCHANGED <<lost, from, wanted, readin>> /\ rpos' = rpos + EraseSize
  BY DEF ReadInv, ReadTyped, Reading!SkipBadBlock, Reading!Reading, Reading!Call
<1>2. cur \in Nat /\ w \in 0..(EraseSize - 1) /\ rpos = cur * EraseSize + w
  BY <1>1, EraseSplit
<1>3. cur \notin SoundOnes
  BY <1>1 DEF Reading!OnBadBlock, Reading!BlockOf, SoundOnes
<1>4. /\ w = (from + readin) % EraseSize /\ (readin > 0 => w = 0)
      /\ Reading!Fits => SoundBelow(cur) = ((from + readin) \div EraseSize) - FirstOne
      /\ SoundBelow(cur) \in Nat
  BY <1>1, <1>2, SoundUpTo DEF ReadInv, Onward
<1> HIDE DEF cur, w
<1>5. rpos' = (cur + 1) * EraseSize + w
  BY <1>1, <1>2, RecoveryAssumption
<1>6. /\ rpos' \in Nat /\ rpos' % EraseSize = w
      /\ FirstOne' <= (rpos' \div EraseSize)
      /\ Reading!Fits' => SoundBelow(rpos \div EraseSize)'
              = SoundBelow(cur) + (IF cur \in SoundOnes THEN 1 ELSE 0)
  BY <1>1, <1>2, <1>5, MovesOn DEF cur
<1>7. FirstOne' = FirstOne /\ (Reading!Fits' <=> Reading!Fits)
  BY <1>1, RangeStays
<1>8. Reading!Fits' => SoundBelow(rpos \div EraseSize)' = ((from' + readin') \div EraseSize) - FirstOne'
  BY <1>1, <1>3, <1>4, <1>6, <1>7
<1> QED BY <1>1, <1>4, <1>6, <1>8 DEF Onward

LEMMA PlacedStays ==
  ASSUME UNCHANGED <<lost, from, wanted>>,
         Reading!Fits => \A i \in 1..readin' : SameByte(from + i - 1, data'[i])
  PROVE  (Reading!Fits => \A i \in 1..readin : SameByte(from + i - 1, data[i]))'
<1>1. FirstOne' = FirstOne /\ SoundOnes' = SoundOnes /\ (Reading!Fits' <=> Reading!Fits) /\ from' = from
  BY RangeStays
<1>2. ASSUME Reading!Fits', NEW i \in 1..readin' PROVE SameByte(from + i - 1, data[i])'
  <2>1. PICK b \in SoundOnes : /\ SoundBelow(b) = ((from + i - 1) \div EraseSize) - FirstOne
                              /\ data'[i] = b * EraseSize + ((from + i - 1) % EraseSize)
    BY <1>1, <1>2 DEF SameByte
  <2>2. SoundBelow(b)' = SoundBelow(b)
    BY <1>1 DEF SoundBelow
  <2> QED BY <1>1, <2>1, <2>2 DEF SameByte
<1> QED BY <1>2

LEMMA ReadInit == Reading!Init => ReadInv
<1> SUFFICES ASSUME Reading!Init PROVE ReadInv
  OBVIOUS
<1>1. Reading!Size \in Nat
  BY RecoveryAssumption DEF Reading!Size
<1>2. ReadTyped
  <2>1. lost \subseteq Blk
    BY DEF Reading!Init, Blk
  <2>2. from \in Nat /\ wanted \in Nat /\ rpos \in Nat /\ readin \in 0..wanted
    BY <1>1 DEF Reading!Init
  <2>3. data \in Seq(ReadBytes) /\ rpc \in {"busy", "done"}
    BY DEF Reading!Init
  <2>4. block \in [1..EraseSize -> ReadBytes]
    BY DEF Reading!Init, ReadBytes
  <2> QED BY <2>1, <2>2, <2>3, <2>4 DEF ReadTyped
<1>3. SoundBelow(FirstOne) = 0 /\ FirstOne \in Nat
  BY <1>2, NoneBelow, SoundAre DEF ReadTyped
<1>4. rpos = from /\ from + readin = from /\ readin = 0 /\ rpos \div EraseSize = FirstOne
  BY <1>2 DEF Reading!Init, FirstOne, ReadTyped
<1>5. Onward
  BY <1>3, <1>4 DEF Onward, FirstOne
<1>6. Len(data) = readin /\ 1..readin = {} /\ rpc # "done"
  BY <1>4 DEF Reading!Init
<1> QED BY <1>2, <1>5, <1>6 DEF ReadInv

\* Each of the pieces, but for where the position is left.
LEMMA ReadStep == ReadInv /\ [Reading!Next]_(Reading!vars) => ReadInv'
<1> SUFFICES ASSUME ReadInv, [Reading!Next]_(Reading!vars) PROVE ReadInv'
  OBVIOUS
<1>t. /\ lost \subseteq Blk /\ from \in Nat /\ wanted \in Nat /\ rpos \in Nat
      /\ readin \in 0..wanted /\ readin \in Nat /\ data \in Seq(ReadBytes) /\ Len(data) = readin
      /\ EraseSize \in Nat /\ EraseSize > 0
  BY RecoveryAssumption DEF ReadInv, ReadTyped
<1>p. PICK w \in 0..(EraseSize - 1) : w = rpos % EraseSize
  BY <1>t, EraseSplit
<1>u. UNCHANGED <<lost, from, wanted>>
  BY DEF Reading!vars, Reading!Next, Reading!SkipBadBlock, Reading!FirstPiece,
         Reading!WholeBlock, Reading!LastPiece, Reading!Ends, Reading!NotOpened, Reading!Call
<1>0. ASSUME UNCHANGED <<readin, block, data>>, rpos' \in Nat, Onward', rpc' \in {"busy", "done"},
             rpc' = "done" => rret' = -1 \/ (rret' = readin /\ readin = wanted)
      PROVE  ReadInv'
  <2>1. (Reading!Fits => \A i \in 1..readin : SameByte(from + i - 1, data[i]))'
    BY <1>u, <1>0, PlacedStays DEF ReadInv
  <2> QED BY <1>u, <1>0, <2>1 DEF ReadInv, ReadTyped
<1>5. ASSUME UNCHANGED <<rpos, readin>> PROVE Onward'
  <2>1. FirstOne' = FirstOne /\ SoundOnes' = SoundOnes /\ (Reading!Fits' <=> Reading!Fits)
    BY <1>u, RangeStays
  <2>2. SoundBelow(rpos \div EraseSize)' = SoundBelow(rpos \div EraseSize)
    BY <1>5, <2>1 DEF SoundBelow
  <2> QED BY <1>u, <1>5, <2>1, <2>2 DEF ReadInv, Onward
<1>1. CASE Reading!SkipBadBlock
  <2>1. rpos' \in Nat /\ Onward'
    BY <1>1, PassesOver
  <2> QED BY <1>0, <1>1, <2>1 DEF Reading!SkipBadBlock, Reading!Reading, ReadInv
<1>2. ASSUME Reading!Reading, ~Reading!OnBadBlock,
             NEW n \in 1..EraseSize, NEW m \in 0..n, Reading!Take(n),
             w + m <= EraseSize, readin + m <= wanted,
             data' = data \o SubSeq(block', 1, m), readin' = readin + m,
             rpc' = rpc, rpos' \in Nat, Onward'
      PROVE  ReadInv'
  <2>1. /\ block' \in [1..EraseSize -> ReadBytes] /\ data' \in Seq(ReadBytes)
        /\ readin' \in 0..wanted /\ Len(data') = readin'
        /\ Reading!Fits => \A i \in 1..readin' : SameByte(from + i - 1, data'[i])
    BY <1>2, <1>p, Pieced
  <2>2. (Reading!Fits => \A i \in 1..readin : SameByte(from + i - 1, data[i]))'
    BY <1>u, <2>1, PlacedStays
  <2>3. rpc' = "busy"
    BY <1>2 DEF Reading!Reading
  <2> QED BY <1>t, <1>u, <1>2, <2>1, <2>2, <2>3 DEF ReadInv, ReadTyped
<1>3. CASE Reading!FirstPiece
  <2> DEFINE n == EraseSize - w
  <2>1. /\ w # 0 /\ Reading!Reading /\ ~Reading!OnBadBlock /\ Reading!Take(n)
        /\ readin' = (IF n > wanted THEN wanted ELSE n) /\ data' = SubSeq(block', 1, readin')
        /\ rpos' = rpos + readin' /\ rpc' = rpc
    BY <1>3, <1>p DEF Reading!FirstPiece, Reading!Within
  <2>2. readin = 0
    BY <1>t, <1>p, <2>1 DEF ReadInv, Onward, Reading!Reading
  <2>3. data = << >>
    BY <1>t, <2>2
  <2>4. /\ n \in 1..EraseSize /\ readin' \in 0..n /\ w + readin' <= EraseSize /\ readin' <= wanted
    BY <1>t, <1>p, <2>1
  <2>5. block' \in Seq(ReadBytes) /\ Len(block') = EraseSize
    BY <1>t, <2>1 DEF Reading!Take, ReadInv, ReadTyped, ReadBytes
  <2>6. SubSeq(block', 1, readin') \in Seq(ReadBytes)
    BY <1>t, <2>4, <2>5
  <2>7. data' = data \o SubSeq(block', 1, readin')
    BY <2>1, <2>3, <2>6, ConcatEmptySeq
  <2>8. rpos' \in Nat /\ Onward'
    <3>1. CASE readin' = n
      <4>1. rpos' = rpos + (EraseSize - (rpos % EraseSize))
            /\ readin' = readin + (EraseSize - (rpos % EraseSize))
        BY <1>t, <1>p, <2>1, <2>2, <3>1
      <4> QED BY <1>u, <2>1, <4>1, GoesOn
    <3>2. CASE readin' = wanted
      BY <1>t, <1>u, <2>1, <2>4, <3>2 DEF Onward
    <3> QED BY <2>1, <3>1, <3>2
  <2>9. PICK m \in 0..n : m = readin'
    BY <2>4
  <2>10. readin' = readin + m /\ readin + m <= wanted /\ w + m <= EraseSize
    <3>1. m \in Nat
      BY <2>4, <2>9
    <3>2. w + m <= EraseSize
      BY <2>4, <2>9
    <3>3. m <= wanted
      BY <2>4, <2>9
    <3>4. 0 + m = m
      BY <3>1
    <3>5. readin + m = m
      BY <2>2, <3>4
    <3> QED BY <2>9, <3>2, <3>3, <3>5
  <2> HIDE DEF n
  <2> QED BY <1>2, <2>1, <2>4, <2>7, <2>8, <2>9, <2>10
<1>4. CASE Reading!WholeBlock
  <2>1. /\ w = 0 /\ Reading!Reading /\ ~Reading!OnBadBlock /\ Reading!Take(EraseSize)
        /\ readin + EraseSize <= wanted /\ data' = data \o block'
        /\ readin' = readin + EraseSize /\ rpos' = rpos + EraseSize /\ rpc' = rpc
    BY <1>4, <1>p DEF Reading!WholeBlock, Reading!Within
  <2>2. block' \in Seq(ReadBytes) /\ Len(block') = EraseSize
    BY <1>t, <2>1 DEF Reading!Take, ReadInv, ReadTyped, ReadBytes
  <2>3. block' = SubSeq(block', 1, EraseSize)
    BY <1>t, <2>2
  <2>4. rpos' \in Nat /\ Onward'
    <3>1. rpos' = rpos + (EraseSize - (rpos % EraseSize))
          /\ readin' = readin + (EraseSize - (rpos % EraseSize))
      BY <1>t, <1>p, <2>1
    <3> QED BY <1>u, <2>1, <3>1, GoesOn
  <2>5. EraseSize \in 1..EraseSize /\ EraseSize \in 0..EraseSize /\ w + EraseSize <= EraseSize
    BY <1>t, <2>1
  <2>6. data' = data \o SubSeq(block', 1, EraseSize)
    BY <2>1, <2>3
  <2> QED BY <1>2, <2>1, <2>4, <2>5, <2>6
<1>6. CASE Reading!LastPiece
  <2> DEFINE m == (wanted + from) % EraseSize
  <2>1. /\ w = 0 /\ Reading!Reading /\ ~Reading!OnBadBlock /\ Reading!Take(EraseSize)
        /\ readin + EraseSize > wanted /\ data' = data \o SubSeq(block', 1, m)
        /\ readin' = wanted /\ rpos' = rpos /\ rpc' = rpc
    BY <1>6, <1>p DEF Reading!LastPiece, Reading!Within
  <2>2. m = wanted - readin
    <3> DEFINE q == (from + readin) \div EraseSize
               r == wanted - readin
    <3>1. (from + readin) % EraseSize = 0 /\ readin < wanted
      BY <1>p, <2>1 DEF ReadInv, Onward, Reading!Reading
    <3>2. from + readin \in Nat /\ q \in Nat /\ from + readin = q * EraseSize + 0
      BY <1>t, <3>1, EraseSplit
    <3>3. r \in 0..(EraseSize - 1)
      BY <1>t, <2>1, <3>1
    <3>4. q * EraseSize \in Nat
      BY <1>t, <3>2
    <3> HIDE DEF q
    <3>5. wanted + from = q * EraseSize + r
      BY <1>t, <3>2, <3>4
    <3> QED BY <3>2, <3>3, <3>5, EraseParts
  <2> HIDE DEF m
  <2>3. m \in 0..EraseSize /\ w + m <= EraseSize /\ readin + m <= wanted /\ readin' = readin + m
        /\ EraseSize \in 1..EraseSize
    BY <1>t, <2>1, <2>2 DEF Reading!Reading
  <2>4. rpos' \in Nat /\ Onward'
    BY <1>t, <1>u, <2>1 DEF Onward
  <2> QED BY <1>2, <2>1, <2>3, <2>4
<1>7. CASE Reading!Ends
  <2>1. readin = wanted /\ rpc' = "done" /\ rret' = readin /\ UNCHANGED <<rpos, readin, block, data>>
    BY <1>t, <1>7 DEF Reading!Ends
  <2> QED BY <1>0, <1>5, <1>t, <2>1
<1>8. CASE Reading!NotOpened
  BY <1>0, <1>5, <1>t, <1>8 DEF Reading!NotOpened
<1>9. CASE UNCHANGED Reading!vars
  BY <1>0, <1>5, <1>t, <1>9 DEF Reading!vars, ReadInv, ReadTyped
<1> QED BY <1>1, <1>3, <1>4, <1>6, <1>7, <1>8, <1>9 DEF Reading!Next

\* mtd_read_data returns the bytes that mtd_write_data has put from the offset on, as
\* many as were asked for, wherever the range begins and ends, and whichever
\* of the partition's blocks are bad.
THEOREM ReadsItBack == Reading!Spec => []ReadsBack
<1>1. ReadInv => ReadsBack
  <2> SUFFICES ASSUME ReadInv, rpc = "done", rret # -1
               PROVE  /\ rret = wanted /\ Len(data) = wanted
                      /\ Reading!Fits => \A i \in 1..wanted : data[i] = Reading!Place(from + i - 1)
    BY DEF ReadsBack, Reading!ReadsBack
  <2>1. rret = wanted /\ Len(data) = wanted /\ readin = wanted
    BY DEF ReadInv
  <2>2. ASSUME Reading!Fits, NEW i \in 1..wanted PROVE data[i] = Reading!Place(from + i - 1)
    <3>1. SameByte(from + i - 1, data[i])
      BY <2>1, <2>2 DEF ReadInv
    <3>2. from + i - 1 \in Nat
      BY <2>2 DEF ReadInv, ReadTyped
    <3> QED BY <3>1, <3>2, PlaceIsSame DEF ReadInv
  <2> QED BY <2>1, <2>2
<1> QED BY <1>1, ReadInit, ReadStep, PTL DEF Reading!Spec
=============================================================================
