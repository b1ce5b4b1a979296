----------------------------- MODULE UbiVolume -----------------------------
(***************************************************************************)
(* Reading and writing the bytes of one UBI volume through one open handle *)
(* (mi_ubi.c).  A write is cut into logical erase blocks (LEBs); each of   *)
(* them is read, changed in memory and written back as a whole with an     *)
(* atomic LEB change.  Threads share the descriptor of the volume, with    *)
(* its file offset; stMutex (UBI_LOCK) is held around lseek and read, and  *)
(* around the LEB change and write, but not in between.                    *)
(***************************************************************************)
EXTENDS Integers, FiniteSets

CONSTANTS
  Users,      \* the threads that use the handle
  LebSize,    \* u32BlockSize, in bytes
  BlockCnt,   \* u32BlockCnt of the volume
  Starts,     \* the offsets they ask for, beyond the end of the volume too
  Lengths,    \* the lengths
  Unsure,     \* a byte of which nothing is known
  Nobody,     \* not a user
  MaxCalls,   \* bound: calls in a behaviour
  MaxFaults   \* bound: system calls that fail

ASSUME UbiAssumption ==
  /\ LebSize \in Nat \ {0} /\ BlockCnt \in Nat \ {0}
  /\ Starts \subseteq Nat /\ Lengths \subseteq Nat
  /\ Nobody \notin Users /\ IsFiniteSet(Users)
  /\ MaxCalls \in Nat /\ MaxFaults \in Nat

Base(n) == n * LebSize
Block(n) == Base(n)..(Base(n) + LebSize - 1)
Size == Base(BlockCnt)
Offsets == 0..(Size - 1)

\* The bytes of the n-th call, by their place in its buffer; 0 is what the
\* volume held before.
Byte == (0..MaxCalls) \X Nat

VARIABLES
  vol,      \* the volume
  stored,   \* s32VolFd > 0
  opens,    \* descriptors of the volume that were opened
  pos,      \* the file offset of the one that is used
  mutex,    \* the thread that holds stMutex
  pc,       \* where each thread stands
  req,      \* pstReadBytes or pstWriteBytes
  leb,      \* u32LebNum
  rem,      \* s32Remainder
  done,     \* u32BytesWritten
  left,     \* u32WriteLength
  buf,      \* pu8LebBuf, or what was read
  ret,      \* what the last call returned
  calls,    \* MaxCalls budget used
  faults,   \* MaxFaults budget used
  expect    \* the bytes that writes have put into the volume (history)

volVars  == <<vol, expect>>
fdVars   == <<stored, opens>>
callVars == <<req, leb, rem, done, left>>
vars == <<volVars, fdVars, pos, mutex, pc, callVars, buf, ret, calls, faults>>

Places == {"idle", "open", "opening", "ready", "seek", "fetch", "change", "write"}

NoBytes == [b \in {} |-> Unsure]
NoCall == [kind |-> "read", off |-> 0, len |-> 0, id |-> 0]

Init ==
  /\ vol = [b \in Offsets |-> <<0, b>>] /\ expect = vol
  /\ stored = FALSE /\ opens = 0 /\ pos = 0 /\ mutex = Nobody
  /\ pc = [u \in Users |-> "idle"]
  /\ req = [u \in Users |-> NoCall]
  /\ leb = [u \in Users |-> 0] /\ rem = [u \in Users |-> 0]
  /\ done = [u \in Users |-> 0] /\ left = [u \in Users |-> 0]
  /\ buf = [u \in Users |-> NoBytes] /\ ret = [u \in Users |-> 0]
  /\ calls = 0 /\ faults = 0

Fault == faults < MaxFaults /\ faults' = faults + 1
NoFault == UNCHANGED faults

Goes(u, to) == pc' = [pc EXCEPT ![u] = to]

Returns(u, code) == Goes(u, "idle") /\ ret' = [ret EXCEPT ![u] = code]

\* A read fails; a write returns what it has written before, ubi_wirte_exit.
GivesUp(u) == Returns(u, IF req[u].kind = "read" THEN -1 ELSE done[u])

Min2(a, b) == IF a < b THEN a ELSE b

-----------------------------------------------------------------------------
(* MI_UBI_ReadVolumeBytes and MI_UBI_WriteVolumeBytes *)

Call(u) ==
  /\ pc[u] = "idle" /\ calls < MaxCalls
  /\ calls' = calls + 1
  /\ \E kind \in {"read", "write"}, off \in Starts, len \in Lengths :
       /\ req' = [req EXCEPT ![u] = [kind |-> kind, off |-> off, len |-> len, id |-> calls']]
       /\ leb' = [leb EXCEPT ![u] = off \div LebSize]
       /\ rem' = [rem EXCEPT ![u] = off % LebSize]
       /\ left' = [left EXCEPT ![u] = len]
       /\ done' = [done EXCEPT ![u] = 0]
       /\ IF kind = "write" /\ off % LebSize = 0 /\ len = 0
            THEN Returns(u, 0) ELSE Goes(u, "open") /\ UNCHANGED ret
  /\ UNCHANGED <<volVars, fdVars, pos, mutex, buf, faults>>

\* Mutant: another open every time.
OpenAlways(u) ==
  /\ pc[u] = "open"
  /\ Goes(u, "opening")
  /\ UNCHANGED <<volVars, fdVars, pos, mutex, callVars, buf, ret, calls, faults>>

\* The check of _MI_UBI_OpenVolume, outside the lock.
Open(u) ==
  /\ pc[u] = "open"
  /\ Goes(u, IF stored THEN "ready" ELSE "opening")
  /\ UNCHANGED <<volVars, fdVars, pos, mutex, callVars, buf, ret, calls, faults>>

\* The rest of it; a descriptor that is there by now is replaced.
OpenVolume(u) ==
  /\ pc[u] = "opening" /\ mutex = Nobody
  /\ \/ /\ NoFault
        /\ stored' = TRUE /\ opens' = opens + 1 /\ pos' = 0
        /\ Goes(u, "ready") /\ UNCHANGED ret
     \/ Fault /\ GivesUp(u) /\ UNCHANGED <<fdVars, pos>>
  /\ UNCHANGED <<volVars, mutex, callVars, buf, calls>>

\* Mutant: a write is not stopped at the last block.
ReadyAnywhere(u) ==
  /\ pc[u] = "ready"
  /\ \/ NoFault /\ Goes(u, "seek") /\ UNCHANGED ret
     \/ req[u].kind = "write" /\ Fault /\ GivesUp(u)
  /\ UNCHANGED <<volVars, fdVars, pos, mutex, callVars, buf, calls>>

\* A write beyond the last block ends; so does one without memory.
Ready(u) ==
  /\ pc[u] = "ready"
  /\ \/ /\ NoFault
        /\ IF req[u].kind = "write" /\ leb[u] >= BlockCnt
             THEN GivesUp(u) ELSE Goes(u, "seek") /\ UNCHANGED ret
     \/ req[u].kind = "write" /\ Fault /\ GivesUp(u)
  /\ UNCHANGED <<volVars, fdVars, pos, mutex, callVars, buf, calls>>

Target(u) == IF req[u].kind = "read" THEN req[u].off ELSE Base(leb[u])

\* lseek to a place behind the end fails, and nobody looks: the file offset
\* stays where it is.
Sought(u) == pos' = IF Target(u) <= Size THEN Target(u) ELSE pos

\* Mutant: the mutex is not taken for lseek and read.
SeekUnlocked(u) ==
  /\ pc[u] = "seek"
  /\ Sought(u)
  /\ Goes(u, "fetch")
  /\ UNCHANGED <<mutex, volVars, fdVars, callVars, buf, ret, calls, faults>>

\* UBI_LOCK, lseek
Seek(u) ==
  /\ pc[u] = "seek" /\ mutex = Nobody
  /\ mutex' = u
  /\ Sought(u)
  /\ Goes(u, "fetch")
  /\ UNCHANGED <<volVars, fdVars, callVars, buf, ret, calls, faults>>

\* What read() returns, at most to the end of the volume.
Bytes(n) == [b \in pos..(Min2(pos + n, Size) - 1) |-> vol[b]]

\* How much of the write goes into this block: the end of the first one, then
\* whole ones, then the beginning of the last.
Piece(u) == Min2(LebSize - rem[u], left[u])

\* memcpy(pu8LebBuf + s32LebOffset, pu8Buf, u32WriteLen)
Changed(u, block) ==
  [b \in DOMAIN block |->
     LET i == b - Base(leb[u]) - rem[u]
     IN  IF i \in 0..(Piece(u) - 1) THEN <<req[u].id, done[u] + i>> ELSE block[b]]

\* read, UBI_UNLOCK
Fetch(u) ==
  /\ pc[u] = "fetch"
  /\ mutex' = Nobody
  /\ \/ /\ NoFault
        /\ IF req[u].kind = "read"
             THEN /\ buf' = [buf EXCEPT ![u] = Bytes(req[u].len)]
                  /\ Returns(u, Cardinality(DOMAIN buf'[u]))
             ELSE /\ buf' = [buf EXCEPT ![u] = Changed(u, Bytes(LebSize))]
                  /\ Goes(u, "change") /\ UNCHANGED ret
        /\ pos' = pos + Cardinality(DOMAIN buf'[u])
     \/ Fault /\ GivesUp(u) /\ UNCHANGED <<buf, pos>>
  /\ UNCHANGED <<volVars, fdVars, callVars, calls>>

\* UBI_LOCK, _MI_UBI_EnableVolumeLebChange; UBI_UNLOCK when it fails
Change(u) ==
  /\ pc[u] = "change" /\ mutex = Nobody
  /\ \/ NoFault /\ mutex' = u /\ Goes(u, "write") /\ UNCHANGED ret
     \/ Fault /\ GivesUp(u) /\ UNCHANGED mutex
  /\ UNCHANGED <<volVars, fdVars, pos, callVars, buf, calls>>

\* Bytes that another thread has read and will write back over this write.
Stale(u) == \E v \in Users \ {u} : pc[v] = "change" /\ leb[v] = leb[u]

Written(u) ==
  expect' = [b \in Offsets |->
               LET i == b - req[u].off
               IN  IF i \in done[u]..(done[u] + Piece(u) - 1)
                   THEN IF Stale(u) THEN Unsure ELSE <<req[u].id, i>>
                   ELSE expect[b]]

\* The block goes back as a whole; the loop of MI_UBI_WriteVolumeBytes goes on
\* to the next one, while something is left.
Stores(u) ==
  /\ NoFault
  /\ vol' = [b \in Offsets |-> IF b \in Block(leb[u]) THEN buf[u][b] ELSE vol[b]]
  /\ Written(u)
  /\ pos' = Base(leb[u] + 1)
  /\ done' = [done EXCEPT ![u] = @ + Piece(u)]
  /\ left' = [left EXCEPT ![u] = @ - Piece(u)]
  /\ leb' = [leb EXCEPT ![u] = @ + 1]
  /\ IF left[u] = Piece(u) THEN Returns(u, done[u] + Piece(u))
       ELSE Goes(u, "open") /\ UNCHANGED ret

StoresNot(u) == Fault /\ GivesUp(u) /\ UNCHANGED <<volVars, pos, done, left, leb, rem>>

\* Mutant: the offset in the first block is used in the following ones too.
WriteBackShifted(u) ==
  /\ pc[u] = "write"
  /\ mutex' = Nobody
  /\ Stores(u) /\ UNCHANGED rem
  /\ UNCHANGED <<fdVars, req, buf, calls>>

\* lseek, write, UBI_UNLOCK: the whole block, or nothing of it.
WriteBack(u) ==
  /\ pc[u] = "write"
  /\ mutex' = Nobody
  /\ \/ Stores(u) /\ rem' = [rem EXCEPT ![u] = 0]
     \/ StoresNot(u)
  /\ UNCHANGED <<fdVars, req, buf, calls>>

\* Nobody has anything left to do.
Rest ==
  /\ calls = MaxCalls /\ \A u \in Users : pc[u] = "idle"
  /\ UNCHANGED vars

Next ==
  \/ \E u \in Users :
       \/ Call(u) \/ Open(u) \/ OpenVolume(u) \/ Ready(u)
       \/ Seek(u) \/ Fetch(u) \/ Change(u) \/ WriteBack(u)
  \/ Rest

Spec == Init /\ [][Next]_vars

-----------------------------------------------------------------------------
(* Properties *)

\* UBI_LOCK excludes: a thread between lseek and read, or between the LEB change
\* and the end of the write, is the one that holds stMutex, and no thread holds
\* it anywhere else, whichever of the calls in between has failed.
MutexReleased ==
  \A u \in Users : mutex = u <=> pc[u] \in {"fetch", "write"}

\* _MI_UBI_OpenVolume looks at the descriptor before it locks: threads that come
\* together all open the volume and all but one of the descriptors are lost,
\* but never more than one for each thread, however many calls follow.
FewDescriptors == opens <= Cardinality(Users)

\* Threads that share a handle exclude each other where they must, and lose few
\* descriptors of _MI_UBI_OpenVolume where they do not: MutexReleased and
\* FewDescriptors.
Sharing == MutexReleased /\ FewDescriptors

\* MI_UBI_WriteVolumeBytes puts every byte at its place and, although it writes
\* whole blocks back, disturbs no other: a byte of the volume is the last one
\* written there, unless another thread had read the block before that write
\* and writes it back after it.
KeptIntact == \A b \in Offsets : expect[b] # Unsure => vol[b] = expect[b]

\* MI_UBI_ReadVolumeBytes returns what the volume holds from the offset asked
\* for to the end of the volume or of the length, although the file offset is
\* one for all threads.  Of an offset behind the end nothing is said: what is
\* returned is whatever is found where the last call left the file offset.
ReadsItsPlace ==
  [][\A u \in Users :
       /\ pc[u] = "fetch" /\ pc'[u] = "idle" /\ req[u].kind = "read"
       /\ ret'[u] # -1 /\ req[u].off <= Size
       =>
         /\ buf'[u] = [b \in req[u].off..(Min2(req[u].off + req[u].len, Size) - 1) |-> vol[b]]
         /\ ret'[u] = Cardinality(DOMAIN buf'[u])]_vars

\* The bytes a write has counted when it returns are in the volume, unless another
\* write has come over them since.
ReturnsReached(u) ==
  \A i \in 0..(ret'[u] - 1) :
    LET b == req[u].off + i
    IN  /\ b \in Offsets
        /\ expect'[b] # Unsure => expect'[b][1] # 0
        /\ (expect'[b] # Unsure /\ expect'[b][1] = req[u].id) => expect'[b][2] = i

\* What MI_UBI_WriteVolumeBytes returns is the number of bytes, counted from the
\* first, that reached the volume: also when it ends at the last block or a call
\* in one of its blocks fails.
CountsWritten ==
  [][\A u \in Users :
       pc[u] # "idle" /\ pc'[u] = "idle" /\ req[u].kind = "write" => ReturnsReached(u)]_vars
=============================================================================
