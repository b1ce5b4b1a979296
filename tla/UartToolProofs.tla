--------------------------- MODULE UartToolProofs ---------------------------
(***************************************************************************)
(* Proofs about UartTool: the daemon uses the environment as FlashEnv      *)
(* allows, so what was proved of the environment holds of the board, and   *)
(* what the host is told is stored is what the environment has promised.   *)
(***************************************************************************)
EXTENDS UartTool, FiniteSetTheorems, SequenceTheorems, TLAPS

Variables == {Mac, Bar, Status}

EnvP == INSTANCE FlashEnvProofs WITH
  Names <- Variables, Settable <- Targets, Values <- EnvValues,
  Size <- EnvSize, Factory <- FactoryImage

-----------------------------------------------------------------------------
(* Env and EnvP name the same definitions. *)
LEMMA SameRoom == ASSUME NEW n PROVE Env!Room(n) = EnvP!Room(n)
BY Zenon DEF Env!Room, EnvP!Room, Env!Total, EnvP!Total, Env!Others, EnvP!Others,
   Env!MapThenSumSet, EnvP!MapThenSumSet, Env!MapThenFoldSet, EnvP!MapThenFoldSet

LEMMA SameSet ==
  ASSUME NEW n, NEW v PROVE Env!SetEnvVar(n, v) <=> EnvP!SetEnvVar(n, v)
BY SameRoom, Zenon DEF Env!SetEnvVar, EnvP!SetEnvVar, Env!Appended, EnvP!Appended,
   Env!Overflow, EnvP!Overflow, Env!Others, EnvP!Others, Env!String, EnvP!String,
   Env!Returns, EnvP!Returns, Env!budgets, EnvP!budgets

LEMMA SameStore ==
  /\ Env!StoreEnv <=> EnvP!StoreEnv
  /\ Env!StoreErase <=> EnvP!StoreErase
  /\ Env!StoreWrite <=> EnvP!StoreWrite
BY Zenon DEF Env!StoreEnv, EnvP!StoreEnv, Env!StoreErase, EnvP!StoreErase,
   Env!StoreWrite, EnvP!StoreWrite, Env!MayStore, EnvP!MayStore, Env!Fault, EnvP!Fault,
   Env!Torn, EnvP!Torn, Env!WrittenInPart, EnvP!WrittenInPart, Env!Promised, EnvP!Promised,
   Env!NoValues, EnvP!NoValues, Env!Returns, EnvP!Returns, Env!budgets, EnvP!budgets,
   Env!history, EnvP!history, Variables

LEMMA SameLoad ==
  /\ Env!Init <=> EnvP!Init
  /\ Env!FlashInit <=> EnvP!FlashInit
  /\ Env!LoadEnv <=> EnvP!LoadEnv
  /\ Env!PowerCut <=> EnvP!PowerCut
BY Zenon DEF Env!Init, EnvP!Init, Env!FlashInit, EnvP!FlashInit, Env!LoadEnv, EnvP!LoadEnv,
   Env!ReadFails, EnvP!ReadFails, Env!PowerCut, EnvP!PowerCut, Env!Fault, EnvP!Fault, Env!Torn, EnvP!Torn,
   Env!WrittenInPart, EnvP!WrittenInPart, Env!NoValues, EnvP!NoValues,
   Env!Zeroed, EnvP!Zeroed, Env!String, EnvP!String, Env!Returns, EnvP!Returns,
   Env!budgets, EnvP!budgets, Env!history, EnvP!history, Variables

LEMMA SameNext == Env!Next <=> EnvP!Next
<1>1. Env!FlashDeInit <=> EnvP!FlashDeInit
  BY Zenon DEF Env!FlashDeInit, EnvP!FlashDeInit, Env!Returns, EnvP!Returns,
     Env!budgets, EnvP!budgets, Env!history, EnvP!history
<1> QED BY <1>1, SameSet, SameStore, SameLoad, Zenon DEF Env!Next, EnvP!Next

(* The constants of the daemon satisfy what FlashEnv assumes, and OTA_STATUS
   is the variable that nobody sets. *)
LEMMA EnvAssumption == EnvP!FlashAssumption /\ EnvP!Anchored
BY UartAssumption DEF EnvP!FlashAssumption, EnvP!Anchored, EnvSize, EnvValues,
   FactoryImage, Targets, Variables

LEMMA EnvKeepsPromises == Env!Spec => []Env!AckedIsDurable /\ []Env!FlashGood
<1>1. Env!Init <=> EnvP!Init
  BY SameLoad
<1>2. [Env!Next]_Env!flashVars <=> [EnvP!Next]_EnvP!flashVars
  BY SameNext, Zenon DEF Env!flashVars, EnvP!flashVars, Env!budgets, EnvP!budgets,
     Env!history, EnvP!history
<1>3. EnvP!AckedIsDurable => Env!AckedIsDurable
  BY DEF EnvP!AckedIsDurable, Env!AckedIsDurable, EnvP!Holds, Env!Holds, Variables
<1>4. EnvP!FlashGood => Env!FlashGood
  BY DEF EnvP!FlashGood, Env!FlashGood
<1>5. EnvP!Spec => []EnvP!AckedIsDurable
  BY EnvAssumption, EnvP!PromisesAreKept
<1>6. EnvP!Spec => []EnvP!FlashGood
  BY EnvAssumption, EnvP!PartitionStaysGood
<1> QED BY <1>1, <1>2, <1>3, <1>4, <1>5, <1>6, PTL DEF Env!Spec, EnvP!Spec

-----------------------------------------------------------------------------
(* What the steps need of the types: whatever the host sends and however it
   is cut up, what is staged is a sequence of bytes and what is stored one of
   numbers. *)
Typed ==
  /\ tty \in 1..Ttys
  /\ buf \in Seq(Byte)
  /\ line \in [1..Ttys -> Seq(Byte)]
  /\ stage \in [Targets -> Seq(Byte)]
  /\ job \in [name : Targets, value : EnvValues]

LEMMA ParityTyped ==
  ASSUME NEW data \in Seq(Nat), NEW bit \in Nat PROVE Parity(data, bit) \in 0..1
<1> DEFINE D == {j \in DOMAIN data : (data[j] \div bit) % 2 = 1}
<1>1. IsFiniteSet(1..Len(data)) /\ DOMAIN data = 1..Len(data)
  BY FS_Interval, LenProperties
<1>2. D \in SUBSET (1..Len(data))
  BY <1>1
<1>3. IsFiniteSet(D)
  BY <1>1, <1>2, FS_Subset, Zenon
<1>4. Cardinality(D) \in Nat
  BY <1>3, FS_CardinalityType
<1> HIDE DEF D
<1>5. Cardinality(D) % 2 \in 0..1
  BY <1>4
<1> QED BY <1>5 DEF Parity, D

(* Arithmetic on its own, without the sequences it is about. *)
LEMMA EightBits ==
  ASSUME NEW data,
         /\ Parity(data, 1) \in 0..1 /\ Parity(data, 2) \in 0..1
         /\ Parity(data, 4) \in 0..1 /\ Parity(data, 8) \in 0..1
         /\ Parity(data, 16) \in 0..1 /\ Parity(data, 32) \in 0..1
         /\ Parity(data, 64) \in 0..1 /\ Parity(data, 128) \in 0..1
  PROVE  Xor(data) \in Byte
BY DEF Xor, Byte

LEMMA BytesAreNumbers == Byte \subseteq Nat /\ 0 \in Byte /\ \A n : Code(n) \in Byte
BY DEF Byte, Code

LEMMA FunctionIsSeq == ASSUME NEW S, NEW n \in Nat, NEW f \in [1..n -> S] PROVE f \in Seq(S)
OBVIOUS

LEMMA XorTyped == ASSUME NEW data \in Seq(Nat) PROVE Xor(data) \in Byte
BY ParityTyped, EightBits, SMT

LEMMA SeqOfBytes == ASSUME NEW s \in Seq(Byte) PROVE s \in Seq(Nat)
<1>1. Len(s) \in Nat /\ s \in [1..Len(s) -> Byte]
  BY LenProperties, Zenon
<1>2. s \in [1..Len(s) -> Nat]
  BY <1>1, BytesAreNumbers, Zenon
<1> QED BY <1>1, <1>2

LEMMA PacketsTyped ==
  /\ \A packet \in Extras : packet \in Seq(Byte)
  /\ \A n \in Targets, d \in Payloads : Write(n, d) \in Seq(Byte) /\ Start(n, d) \in Seq(Byte)
<1>1. ASSUME NEW packet \in Extras PROVE packet \in Seq(Byte)
  BY UartAssumption
<1>2. ASSUME NEW n \in Targets, NEW d \in Payloads
      PROVE Write(n, d) \in Seq(Byte) /\ Start(n, d) \in Seq(Byte)
  <2>1. d \in Seq(Byte)
    BY UartAssumption
  <2>2. Xor(d) \in Byte /\ Code(n) \in Byte
    BY <2>1, SeqOfBytes, XorTyped, BytesAreNumbers, Zenon
  <2>3. Len(d) \in Byte /\ Len(d) + 6 \in Byte
    <3>1. Len(d) \in Nat /\ Len(d) + 6 \in Byte
      BY <2>1, LenProperties, UartAssumption
    <3>2. \A l \in Nat : l + 6 \in Byte => l \in Byte
      BY DEF Byte
    <3> QED BY <3>1, <3>2
  <2>4. <<Header, Len(d) + 6, Code(n), 0, 0>> \in Seq(Byte)
    BY <2>2, <2>3, BytesAreNumbers DEF Header, Byte
  <2>5. <<0>> \in Seq(Byte)
    BY BytesAreNumbers
  <2>6. <<Header, Len(d) + 6, Code(n), 0, 0>> \o d \o <<0>> \in Seq(Byte)
    BY <2>1, <2>4, <2>5, ConcatProperties, Zenon
  <2>7. Start(n, d) \in Seq(Byte)
    BY <2>2, <2>3 DEF Start, Header, Byte
  <2> QED BY <2>6, <2>7 DEF Write
<1> QED BY <1>1, <1>2

LEMMA AtTyped == ASSUME buf \in Seq(Byte), NEW k \in Nat PROVE At(k) \in Byte
<1>1. Len(buf) \in Nat
  BY LenProperties
<1>2. k < Len(buf) => buf[k + 1] \in Byte
  BY <1>1, ElementOfSeq
<1> QED BY <1>2, BytesAreNumbers DEF At

LEMMA StagedTyped ==
  ASSUME buf \in Seq(Byte)
  PROVE [j \in 1..(At(1) - 6) |-> At(4 + j)] \in Seq(Byte)
<1>1. At(1) \in Nat
  BY AtTyped, BytesAreNumbers
<1>2. ASSUME NEW j \in 1..(At(1) - 6) PROVE At(4 + j) \in Byte
  <2>1. 4 + j \in Nat
    BY <1>1
  <2> QED BY <2>1, AtTyped
<1>3. CASE At(1) < 6
  <2>1. 1..(At(1) - 6) = 1..0
    BY <1>1, <1>3
  <2>2. [j \in 1..(At(1) - 6) |-> At(4 + j)] \in [1..0 -> Byte]
    BY <1>2, <2>1
  <2>3. 0 \in Nat
    OBVIOUS
  <2> QED BY <2>2, <2>3, FunctionIsSeq, Zenon
<1>4. CASE At(1) >= 6
  <2>1. At(1) - 6 \in Nat
    BY <1>1, <1>4
  <2>2. [j \in 1..(At(1) - 6) |-> At(4 + j)] \in [1..(At(1) - 6) -> Byte]
    BY <1>2
  <2> QED BY <2>1, <2>2, FunctionIsSeq, Zenon
<1> QED BY <1>1, <1>3, <1>4

LEMMA HexTyped == ASSUME NEW s \in Seq(Nat) PROVE Str2BcdStr(s) \in EnvValues
<1>1. Len(s) \in Nat
  BY LenProperties
<1>2. ASSUME NEW j \in 1..(2 * Len(s))
      PROVE (IF j % 2 = 1 THEN s[(j + 1) \div 2] \div 16 ELSE s[j \div 2] % 16) \in Nat
  <2>1. CASE j % 2 = 1
    <3>1. (j + 1) \div 2 \in 1..Len(s)
      BY <1>1, <2>1
    <3>2. s[(j + 1) \div 2] \in Nat
      BY <3>1, ElementOfSeq
    <3> QED BY <2>1, <3>2
  <2>2. CASE j % 2 # 1
    <3>1. j \div 2 \in 1..Len(s)
      BY <1>1, <2>2
    <3>2. s[j \div 2] \in Nat
      BY <3>1, ElementOfSeq
    <3> QED BY <2>2, <3>2
  <2> QED BY <2>1, <2>2
<1>3. 2 * Len(s) \in Nat
  BY <1>1
<1> QED BY <1>2, <1>3 DEF Str2BcdStr, EnvValues

LEMMA NextTtyTyped == ASSUME tty \in 1..Ttys, NextTty PROVE tty' \in 1..Ttys
BY UartAssumption DEF NextTty

LEMMA ArrivedTyped ==
  ASSUME Typed, NEW t \in 1..Ttys, NEW k, Arrived(t, k)
  PROVE  line' \in [1..Ttys -> Seq(Byte)] /\ SubSeq(line[t], 1, k) \in Seq(Byte)
<1>1. line[t] \in Seq(Byte)
  BY DEF Typed
<1>2. Len(line[t]) \in Nat
  BY <1>1, LenProperties
<1>3. k \in 0..Len(line[t])
  BY DEF Arrived
<1>4. \A i \in 1..Len(line[t]) : line[t][i] \in Byte
  BY <1>1, ElementOfSeq
<1>5. SubSeq(line[t], k + 1, Len(line[t])) \in Seq(Byte)
  <2>1. k + 1 \in Int /\ Len(line[t]) \in Int
    BY <1>2, <1>3
  <2>2. \A i \in (k + 1)..Len(line[t]) : line[t][i] \in Byte
    BY <1>2, <1>3, <1>4
  <2> QED BY <2>1, <2>2, SubSeqProperties, Zenon
<1>6. SubSeq(line[t], 1, k) \in Seq(Byte)
  <2>1. 1 \in Int /\ k \in Int
    BY <1>2, <1>3
  <2>2. \A i \in 1..k : line[t][i] \in Byte
    BY <1>2, <1>3, <1>4
  <2> QED BY <2>1, <2>2, SubSeqProperties, Zenon
<1>7. line' = [line EXCEPT ![t] = SubSeq(line[t], k + 1, Len(line[t]))]
  BY DEF Arrived
<1>8. line' \in [1..Ttys -> Seq(Byte)]
  BY <1>5, <1>7, Zenon DEF Typed
<1> QED BY <1>6, <1>8

LEMMA HostTyped == Typed /\ Host => Typed'
<1> SUFFICES ASSUME Typed, NEW t \in 1..Ttys, NEW packet \in Seq(Byte), HostSends(t, packet)
             PROVE Typed'
  BY PacketsTyped, Zenon DEF Host
<1>1. line[t] \o packet \in Seq(Byte)
  BY ConcatProperties, Zenon DEF Typed
<1>2. line' = [line EXCEPT ![t] = line[t] \o packet]
  BY DEF HostSends
<1>3. line' \in [1..Ttys -> Seq(Byte)]
  BY <1>1, <1>2, Zenon DEF Typed
<1>4. UNCHANGED <<tty, buf, stage, job>>
  BY DEF HostSends, loopVars, stageVars
<1> QED BY <1>3, <1>4, Zenon DEF Typed

LEMMA BootTyped == Typed /\ Boot => Typed'
<1> SUFFICES ASSUME Typed, BootStays PROVE Typed'
  BY Zenon DEF Boot, BootInit, BootLoad, BootStatus, BootProps
<1> QED BY Zenon DEF Typed, BootStays, loopVars, stageVars, hostVars

LEMMA LoopTyped == Typed /\ (Loop \/ Exit \/ Lock \/ Read) => Typed'
<1> SUFFICES ASSUME Typed, Loop \/ Exit \/ Lock \/ Read PROVE Typed'
  OBVIOUS
<1>1. UNCHANGED <<stage, job>>
  BY DEF Loop, Exit, Lock, Read, stageVars
<1>2. CASE Loop
  <2>1. UNCHANGED <<buf, line>> /\ (tty' = tty \/ tty' = 1)
    BY <1>2 DEF Loop, hostVars
  <2>2. 1 \in 1..Ttys
    BY UartAssumption
  <2> QED BY <1>1, <2>1, <2>2, Zenon DEF Typed
<1>3. CASE Exit \/ Lock
  BY <1>1, <1>3, Zenon DEF Typed, Exit, Lock, loopVars, hostVars
<1>4. CASE Read
  <2>1. PICK k : Arrived(tty, k) /\ buf' = buf \o SubSeq(line[tty], 1, k)
                 /\ (NextTty \/ UNCHANGED tty)
    BY <1>4, Zenon DEF Read
  <2>2. line' \in [1..Ttys -> Seq(Byte)] /\ SubSeq(line[tty], 1, k) \in Seq(Byte)
    BY <2>1, ArrivedTyped, Zenon DEF Typed
  <2>3. buf' \in Seq(Byte)
    BY <2>1, <2>2, ConcatProperties, Zenon DEF Typed
  <2>4. tty' \in 1..Ttys
    BY <2>1, NextTtyTyped, Zenon DEF Typed
  <2> QED BY <1>1, <2>2, <2>3, <2>4, Zenon DEF Typed
<1> QED BY <1>2, <1>3, <1>4

LEMMA ParseTyped == Typed /\ Parse => Typed'
<1> SUFFICES ASSUME Typed, Parse PROVE Typed'
  OBVIOUS
<1>1. UNCHANGED job
  BY DEF Parse, Refuse, AnswerEnter, AnswerShakeHands, ShakenHands, Stage, AnswerStart, Joined
<1>2. buf' = buf \/ buf' = <<>>
  BY DEF Parse, Refuse, AnswerEnter, AnswerShakeHands, ShakenHands, Stage, AnswerStart, Joined,
         Reset
<1>3. NextTty \/ UNCHANGED tty
  BY Zenon DEF Parse, Refuse, AnswerEnter, AnswerShakeHands, ShakenHands, Stage, AnswerStart,
         Joined
<1>4. UNCHANGED line \/ ClearTty(tty)
  BY Zenon DEF Parse, Refuse, AnswerEnter, AnswerShakeHands, ShakenHands, Stage, AnswerStart,
         Joined, hostVars
<1>5. UNCHANGED stage \/ \E n \in Targets : Stage(n)
  BY Zenon DEF Parse, Refuse, AnswerEnter, AnswerShakeHands, ShakenHands, AnswerStart,
         Joined, stageVars
<1>6. buf' \in Seq(Byte)
  BY <1>2, EmptySeq, Zenon DEF Typed
<1>7. tty' \in 1..Ttys
  BY <1>3, NextTtyTyped, Zenon DEF Typed
<1>8. line' \in [1..Ttys -> Seq(Byte)]
  BY <1>4, ArrivedTyped, Zenon DEF ClearTty, Typed
<1>9. stage' \in [Targets -> Seq(Byte)]
  <2>1. ASSUME NEW n \in Targets, Stage(n) PROVE stage' \in [Targets -> Seq(Byte)]
    <3>1. stage' = [stage EXCEPT ![n] = [j \in 1..(At(1) - 6) |-> At(4 + j)]]
      BY <2>1 DEF Stage
    <3> QED BY <3>1, StagedTyped, Zenon DEF Typed
  <2> QED BY <1>5, <2>1, Zenon DEF Typed
<1> QED BY <1>1, <1>6, <1>7, <1>8, <1>9, Zenon DEF Typed

LEMMA WorkerTyped == Typed /\ Worker => Typed'
<1> SUFFICES ASSUME Typed, Worker PROVE Typed'
  OBVIOUS
<1>1. UNCHANGED <<tty, buf, line, stage>>
  BY DEF Worker, Check, SetVar, Store, Storing, Answer, SetProp, RefuseStart, WorkerStays,
         loopVars, stageVars, hostVars
<1>2. UNCHANGED job \/ \E n \in Targets : job' = [name |-> n, value |-> Str2BcdStr(stage[n])]
  BY Zenon DEF Worker, Check, SetVar, Store, Storing, Answer, SetProp, RefuseStart
<1>3. \A n \in Targets : Str2BcdStr(stage[n]) \in EnvValues
  BY HexTyped, SeqOfBytes, Zenon DEF Typed
<1>4. job' \in [name : Targets, value : EnvValues]
  BY <1>2, <1>3 DEF Typed
<1> QED BY <1>1, <1>4, Zenon DEF Typed

LEMMA StartTyped == (Init => Typed) /\ (Restart => Typed')
<1>1. NoJob \in [name : Targets, value : EnvValues]
  BY EmptySeq DEF NoJob, Targets, EnvValues
<1>2. /\ 1 \in 1..Ttys
      /\ <<>> \in Seq(Byte)
      /\ [t \in 1..Ttys |-> <<>>] \in [1..Ttys -> Seq(Byte)]
      /\ [n \in Targets |-> <<>>] \in [Targets -> Seq(Byte)]
  BY UartAssumption, EmptySeq
<1>3. Init => Typed
  BY <1>1, <1>2, Zenon DEF Init, Typed
<1>4. Restart => Typed'
  BY <1>1, <1>2, Zenon DEF Restart, Typed
<1> QED BY <1>3, <1>4

LEMMA StepTyped == Typed /\ [Next]_vars => Typed'
<1>1. Typed /\ UNCHANGED vars => Typed'
  BY Zenon DEF Typed, vars, loopVars, stageVars, hostVars
<1> QED BY <1>1, HostTyped, BootTyped, LoopTyped, ParseTyped, WorkerTyped, StartTyped, Zenon
        DEF Next, Reader

-----------------------------------------------------------------------------
(* The thread that serves a START runs only while the reading thread waits
   for it; nothing else stores; what it is about to store is what SetEnvVar
   accepted, and what it reports, and has reported, is promised. *)
Books ==
  /\ staged \in [Variables -> EnvValues \cup {Nothing}]
  /\ promise \in [Variables -> EnvValues \cup {Nothing}]
  /\ told \in [Targets -> EnvValues \cup {Nothing}]

Serving ==
  /\ worker # "none" => shands /\ pc = "join"
  /\ op # "idle" => worker = "storing"
  /\ worker \in {"store", "storing"} => staged[job.name] = job.value
  /\ worker = "answer" /\ ret = "ok" =>
       promise[job.name] = job.value /\ staged[job.name] = Nothing
  /\ \A n \in Targets : told[n] # Nothing => promise[n] = told[n] /\ staged[n] = Nothing

UartInv == Typed /\ Books /\ Serving

LEMMA JobFacts ==
  ASSUME Typed
  PROVE  /\ job.name \in Targets /\ job.name \in Variables
         /\ job.value \in EnvValues /\ job.value # Nothing
BY UartAssumption, Zenon DEF Typed, Targets, Variables

(* Steps that leave the environment and the job alone. *)
LEMMA QuietServes ==
  ASSUME UartInv, UNCHANGED <<envVars, job, told>>,
         worker' # "none" => shands' /\ pc' = "join",
         worker' = worker \/ (op = "idle" /\ worker' \notin {"store", "storing", "answer"})
  PROVE  Books' /\ Serving'
<1>1. UNCHANGED <<op, ret, staged, promise>>
  BY DEF envVars
<1>2. Books'
  BY <1>1 DEF UartInv, Books
<1>3. Serving'
  BY <1>1 DEF UartInv, Serving
<1> QED BY <1>2, <1>3

LEMMA ReaderServes ==
  ASSUME UartInv, Host \/ Loop \/ Exit \/ Lock \/ Read \/ Parse
         \/ BootStatus \/ BootProps \/ SetProp \/ RefuseStart
  PROVE  Books' /\ Serving'
<1>1. UNCHANGED <<envVars, job, told>>
  BY Zenon DEF Host, HostSends, Loop, Exit, Lock, Read, Parse, Refuse, AnswerEnter,
     AnswerShakeHands, ShakenHands, Stage, AnswerStart, Joined, ParseStays, BootStatus,
     BootProps, BootStays, SetProp, RefuseStart, WorkerStays
<1>2. CASE Host \/ SetProp \/ RefuseStart
  BY <1>1, <1>2, QuietServes DEF Host, HostSends, SetProp, RefuseStart, WorkerStays, stageVars,
     UartInv, Serving
<1>3. CASE Loop \/ Exit \/ Lock \/ Read \/ BootStatus \/ BootProps
  <2>1. UNCHANGED worker /\ pc # "join"
    BY <1>3 DEF Loop, Exit, Lock, Read, BootStatus, BootProps, BootStays
  <2> QED BY <1>1, <2>1, QuietServes DEF UartInv, Serving
<1>4. CASE Parse
  <2>1. \/ pc # "join" /\ UNCHANGED worker
        \/ pc # "join" /\ shands' /\ worker' = "check" /\ pc' = "join"
        \/ worker' = "none" /\ worker = "done"
    <3>1. CASE Refuse \/ AnswerEnter \/ AnswerShakeHands \/ ShakenHands
               \/ \E n \in Targets : Stage(n)
      BY <3>1 DEF Refuse, AnswerEnter, AnswerShakeHands, ShakenHands, Stage, Command
    <3>2. CASE AnswerStart \/ Joined
      BY <3>2 DEF AnswerStart, Joined, Command, stageVars
    <3> QED BY <1>4, <3>1, <3>2, Zenon DEF Parse
  <2> QED BY <1>1, <2>1, QuietServes DEF UartInv, Serving
<1> QED BY <1>2, <1>3, <1>4

LEMMA BootServes == UartInv /\ (BootInit \/ BootLoad) => Books' /\ Serving'
<1> SUFFICES ASSUME UartInv, BootInit \/ BootLoad PROVE Books' /\ Serving'
  OBVIOUS
<1>1. worker = "none" /\ op = "idle"
  BY DEF BootInit, BootLoad, UartInv, Serving
<1>2. UNCHANGED <<worker, told, promise, op>>
  BY DEF BootInit, BootLoad, BootStays, Env!FlashInit, Env!LoadEnv, Env!history
<1>3. staged' = staged \/ staged' = [n \in Variables |-> Nothing]
  BY DEF BootInit, BootLoad, Env!FlashInit, Env!LoadEnv, Env!history, Env!NoValues, Variables
<1>4. Books'
  BY <1>2, <1>3 DEF UartInv, Books
<1>5. Serving'
  BY <1>1, <1>2, <1>3 DEF UartInv, Serving, Targets, Variables
<1> QED BY <1>4, <1>5

LEMMA RestartServes == UartInv /\ Restart => Books' /\ Serving'
<1> SUFFICES ASSUME UartInv, Restart PROVE Books' /\ Serving'
  OBVIOUS
<1>1. worker' = "none" /\ op' = "idle" /\ UNCHANGED <<told, promise>>
  BY DEF Restart, Env!PowerCut
<1>2. staged' = [n \in Variables |-> Nothing]
  BY DEF Restart, Env!PowerCut, Env!NoValues, Variables
<1> QED BY <1>1, <1>2 DEF UartInv, Books, Serving, Targets, Variables

LEMMA SetVarServes == UartInv /\ (Check \/ SetVar) => Books' /\ Serving'
<1> SUFFICES ASSUME UartInv, Check \/ SetVar PROVE Books' /\ Serving'
  OBVIOUS
<1>1. worker # "none" /\ UNCHANGED <<pc, shands>>
  BY DEF Check, SetVar, WorkerStays, stageVars
<1>2. op = "idle"
  BY DEF Check, SetVar, UartInv, Serving
<1>3. CASE Check
  <2>1. UNCHANGED <<op, ret, staged, promise, told>> /\ worker' \in {"set", "refuse"}
    BY <1>3 DEF Check, envVars
  <2> QED BY <1>1, <1>2, <2>1 DEF UartInv, Books, Serving
<1>4. CASE SetVar
  <2>1. /\ job.name \in Targets /\ job.name \in Variables
        /\ job.value \in EnvValues /\ job.value # Nothing
    BY JobFacts DEF UartInv
  <2>2. /\ UNCHANGED <<job, op>>
        /\ told' = [told EXCEPT ![job.name] = Nothing]
        /\ worker' = IF ret' = "ok" THEN "store" ELSE "answer"
    BY <1>4 DEF SetVar, Env!SetEnvVar
  <2>3. /\ promise' = promise \/ promise' = [promise EXCEPT ![job.name] = Nothing]
        /\ \/ staged' = [staged EXCEPT ![job.name] = job.value]
           \/ staged' = staged /\ ret' # "ok"
           \/ staged' = [staged EXCEPT ![job.name] = Nothing] /\ ret' # "ok"
    BY <1>4 DEF SetVar, Env!SetEnvVar, Env!Appended, Env!Overflow, Env!Returns
  <2>4. Books'
    BY <2>1, <2>2, <2>3 DEF UartInv, Books
  <2>5. worker' = "store" => staged'[job'.name] = job'.value
    BY <2>1, <2>2, <2>3 DEF UartInv, Books
  <2>6. \A n \in Targets : told'[n] # Nothing => promise'[n] = told'[n] /\ staged'[n] = Nothing
    <3> TAKE n \in Targets
    <3> HAVE told'[n] # Nothing
    <3>1. n # job.name /\ told'[n] = told[n] /\ n \in Variables
      BY <2>1, <2>2 DEF UartInv, Books, Targets, Variables
    <3>2. promise'[n] = promise[n] /\ staged'[n] = staged[n]
      BY <2>3, <3>1 DEF UartInv, Books
    <3> QED BY <3>1, <3>2 DEF UartInv, Serving
  <2>7. Serving'
    BY <1>1, <1>2, <2>2, <2>5, <2>6 DEF UartInv, Serving
  <2> QED BY <2>4, <2>7
<1> QED BY <1>3, <1>4

LEMMA StoreServes == UartInv /\ (Store \/ Storing) => Books' /\ Serving'
<1> SUFFICES ASSUME UartInv, Store \/ Storing PROVE Books' /\ Serving'
  OBVIOUS
<1>1. worker # "none" /\ UNCHANGED <<pc, shands, job, told>>
  BY DEF Store, Storing, WorkerStays, stageVars
<1>2. /\ job.name \in Targets /\ job.name \in Variables
      /\ job.value \in EnvValues /\ job.value # Nothing
  BY JobFacts DEF UartInv
<1>3. staged[job.name] = job.value
  BY DEF Store, Storing, UartInv, Serving
<1>4. CASE UNCHANGED <<staged, promise>> /\ (op' = "idle" => ret' # "ok")
           /\ worker' = (IF op' = "idle" THEN "answer" ELSE "storing")
  BY <1>1, <1>3, <1>4 DEF UartInv, Books, Serving
<1>5. CASE worker = "storing" /\ Env!Promised /\ op' = "idle" /\ worker' = "answer"
  <2>1. \A n \in Variables : /\ promise'[n] = IF staged[n] = Nothing THEN promise[n] ELSE staged[n]
                             /\ staged'[n] = Nothing
    BY <1>5 DEF Env!Promised, Env!NoValues, Variables
  <2>2. Books'
    BY <1>1, <1>5 DEF UartInv, Books, Env!Promised, Env!NoValues, Variables
  <2>3. promise'[job'.name] = job'.value /\ staged'[job'.name] = Nothing
    BY <1>1, <1>2, <1>3, <2>1
  <2>4. \A n \in Targets : told'[n] # Nothing => promise'[n] = told'[n] /\ staged'[n] = Nothing
    BY <1>1, <2>1 DEF UartInv, Serving, Targets, Variables
  <2> QED BY <1>1, <1>5, <2>2, <2>3, <2>4 DEF UartInv, Serving
<1>6. CASE Store
  <2>1. UNCHANGED <<staged, promise>>
    BY <1>6 DEF Store, Env!StoreEnv, Env!history
  <2>2. op' = "idle" => ret' # "ok"
    BY <1>6 DEF Store, Env!StoreEnv, Env!Returns
  <2> QED BY <1>4, <1>6, <2>1, <2>2 DEF Store
<1>7. CASE Storing
  <2>1. CASE Env!StoreErase
    <3>1. UNCHANGED <<staged, promise>> /\ op' = "write"
      BY <2>1 DEF Env!StoreErase, Env!history
    <3> QED BY <1>4, <1>7, <3>1 DEF Storing
  <2>2. CASE Env!StoreWrite
    <3>1. \/ Env!Promised /\ op' = "idle"
          \/ UNCHANGED <<staged, promise>> /\ op' = "erase"
      BY <2>2 DEF Env!StoreWrite
    <3> QED BY <1>4, <1>5, <1>7, <3>1 DEF Storing
  <2> QED BY <1>7, <2>1, <2>2 DEF Storing
<1> QED BY <1>6, <1>7

LEMMA AnswerServes == UartInv /\ Answer => Books' /\ Serving'
<1> SUFFICES ASSUME UartInv, Answer PROVE Books' /\ Serving'
  OBVIOUS
<1>1. /\ worker = "answer" /\ worker' = "prop"
      /\ UNCHANGED <<pc, shands, job, op, staged, promise>>
  BY DEF Answer, WorkerStays, stageVars, envVars
<1>2. /\ job.name \in Targets /\ job.value \in EnvValues
  BY JobFacts DEF UartInv
<1>3. CASE ret = "ok" /\ told' = [told EXCEPT ![job.name] = job.value]
  <2>1. promise[job.name] = job.value /\ staged[job.name] = Nothing
    BY <1>1, <1>3 DEF UartInv, Serving
  <2> QED BY <1>1, <1>2, <1>3, <2>1 DEF UartInv, Books, Serving
<1>4. CASE told' = told
  BY <1>1, <1>4 DEF UartInv, Books, Serving
<1> QED BY <1>3, <1>4 DEF Answer

LEMMA InitServes == Init => Books /\ Serving
<1> SUFFICES ASSUME Init PROVE Books /\ Serving
  OBVIOUS
<1>1. /\ worker = "none" /\ op = "idle"
      /\ told = [n \in Targets |-> Nothing] /\ staged = [n \in Variables |-> Nothing]
      /\ promise = [n \in Variables |-> IF n \in DOMAIN FactoryImage
                                          THEN FactoryImage[n] ELSE Nothing]
  BY DEF Init, Env!Init, Env!NoValues, Variables
<1>2. \A n \in DOMAIN FactoryImage : FactoryImage[n] \in EnvValues
  BY DEF FactoryImage, EnvValues
<1> QED BY <1>1, <1>2 DEF Books, Serving

LEMMA StepServes == UartInv /\ [Next]_vars => UartInv'
<1> SUFFICES ASSUME UartInv, [Next]_vars PROVE UartInv'
  OBVIOUS
<1>1. Typed'
  BY StepTyped DEF UartInv
<1>2. Books' /\ Serving'
  <2>1. CASE UNCHANGED vars
    BY <2>1, QuietServes DEF vars, stageVars, UartInv, Serving
  <2>2. CASE Next
    BY <2>2, ReaderServes, BootServes, RestartServes, SetVarServes, StoreServes, AnswerServes,
       Zenon DEF Next, Reader, Boot, Worker
  <2> QED BY <2>1, <2>2
<1> QED BY <1>1, <1>2 DEF UartInv

(* In every state of the daemon the two threads, the environment and what the
   host was told are as Typed, Books and Serving say. *)
THEOREM InvariantHolds == Spec => []UartInv
<1>1. Init => UartInv
  BY StartTyped, InitServes DEF UartInv
<1>2. UartInv /\ [Next]_vars => UartInv'
  BY StepServes
<1> QED BY <1>1, <1>2, PTL DEF Spec

(* A block of the partition is erased or written only for a START of a host
   that has shaken hands, while the reading thread waits in pthread_join
   (main.cpp:561-576, 613-617). *)
THEOREM HandshakeGuardsStore == Spec => []StoreNeedsHandshake
<1>1. UartInv => StoreNeedsHandshake
  BY DEF UartInv, Serving, StoreNeedsHandshake
<1> QED BY <1>1, InvariantHolds, PTL

-----------------------------------------------------------------------------
(* The daemon is a client that FlashEnv allows: every step of either thread is
   a step of the environment or leaves it alone. *)
LEMMA EnvStep == UartInv /\ [Next]_vars => [Env!Next]_(Env!flashVars)
<1> SUFFICES ASSUME UartInv, [Next]_vars PROVE [Env!Next]_(Env!flashVars)
  OBVIOUS
<1>1. UNCHANGED envVars => UNCHANGED Env!flashVars
  BY Zenon DEF envVars, Env!flashVars, Env!budgets, Env!history
<1>2. CASE SetVar
  <2>1. job.name \in Targets /\ job.value \in EnvValues
    BY JobFacts DEF UartInv
  <2> QED BY <1>2, <2>1, Zenon DEF SetVar, Env!Next
<1>3. CASE BootInit \/ BootLoad \/ Store \/ Storing \/ Restart
  BY <1>3, Zenon DEF BootInit, BootLoad, Store, Storing, Restart, Env!Next
<1>4. CASE UNCHANGED vars
  BY <1>1, <1>4, Zenon DEF vars
<1>5. CASE Host \/ Loop \/ Exit \/ Lock \/ Read \/ Parse \/ BootStatus \/ BootProps
  BY <1>1, <1>5, Zenon DEF Host, HostSends, Loop, Exit, Lock, Read, Parse, Refuse, AnswerEnter,
     AnswerShakeHands, ShakenHands, Stage, AnswerStart, Joined, ParseStays, BootStatus,
     BootProps
<1>6. CASE Check \/ Answer \/ SetProp \/ RefuseStart
  BY <1>1, <1>6, Zenon DEF Check, Answer, SetProp, RefuseStart
<1> QED BY <1>2, <1>3, <1>4, <1>5, <1>6, Zenon DEF Next, Reader, Boot, Worker

(* The daemon implements the environment's specification: what holds of any
   client of mi_flash.c that keeps to its interface holds of this program. *)
THEOREM ImplementsEnv == Spec => Env!Spec
<1>1. Init => Env!Init
  BY DEF Init
<1>2. UartInv /\ [Next]_vars => [Env!Next]_(Env!flashVars)
  BY EnvStep
<1> QED BY <1>1, <1>2, InvariantHolds, PTL DEF Spec, Env!Spec

(* The environment is loaded before the first packet is served and never
   again: an image that a failed read left is one that was not loaded, and it
   is not stored. *)
Booting == {"flashInit", "loadEnv"}

LoadedOnce ==
  /\ ~lost
  /\ misread => ~loaded
  /\ op # "idle" => loaded
  /\ pc \in Booting => ~loaded

LEMMA StepLoads == LoadedOnce /\ [Next]_vars => LoadedOnce'
<1> SUFFICES ASSUME LoadedOnce, [Next]_vars PROVE LoadedOnce'
  OBVIOUS
<1>1. ASSUME UNCHANGED envVars, pc' \in Booting => pc \in Booting PROVE LoadedOnce'
  BY <1>1 DEF LoadedOnce, envVars
<1>2. CASE UNCHANGED vars
  BY <1>1, <1>2 DEF vars
<1>3. CASE Host \/ Loop \/ Exit \/ Lock \/ Read \/ BootStatus \/ BootProps
  BY <1>1, <1>3 DEF Host, HostSends, Loop, Exit, Lock, Read, NextTty, BootStatus, BootProps, Booting
<1>4. CASE Parse
  BY <1>1, <1>4 DEF Parse, Refuse, AnswerEnter, AnswerShakeHands, ShakenHands, Stage, AnswerStart,
     Joined, ParseStays, NextTty, Booting
<1>5. CASE Check \/ Answer \/ SetProp \/ RefuseStart
  BY <1>1, <1>5 DEF Check, Answer, SetProp, RefuseStart, WorkerStays
<1>6. CASE BootInit
  BY <1>6 DEF BootInit, LoadedOnce, Booting, Env!FlashInit, Env!history
<1>7. CASE BootLoad
  BY <1>7 DEF BootLoad, LoadedOnce, Booting, Env!LoadEnv, Env!ReadFails
<1>8. CASE SetVar
  BY <1>8 DEF SetVar, WorkerStays, LoadedOnce, Env!SetEnvVar
<1>9. CASE Store
  BY <1>9 DEF Store, WorkerStays, LoadedOnce, Env!StoreEnv, Env!MayStore, Env!history
<1>10. CASE Storing
  <2>1. UNCHANGED <<pc, loaded, misread>> /\ op # "idle"
    BY <1>10, Zenon DEF Storing, WorkerStays, Env!StoreErase, Env!StoreWrite, Env!history
  <2>2. loaded /\ ~misread
    BY <2>1 DEF LoadedOnce
  <2>3. lost' = lost \/ lost' = (lost \/ misread)
    BY <1>10, Zenon DEF Storing, Env!StoreErase, Env!StoreWrite, Env!history
  <2>4. ~lost'
    BY <2>2, <2>3, Zenon DEF LoadedOnce
  <2> QED BY <2>1, <2>2, <2>4, Zenon DEF LoadedOnce
<1>11. CASE Restart
  BY <1>11 DEF Restart, LoadedOnce, Env!PowerCut
<1> QED BY <1>2, <1>3, <1>4, <1>5, <1>6, <1>7, <1>8, <1>9, <1>10, <1>11, Zenon
        DEF Next, Reader, Boot, Worker

LEMMA LoadsOnce == Spec => []LoadedOnce
<1>1. Init => LoadedOnce
  BY DEF Init, Env!Init, LoadedOnce
<1> QED BY <1>1, StepLoads, PTL DEF Spec

(* What the host was told is stored is in the partition, for every number of
   devices and packets, wherever the power fails (main.cpp:537-545). *)
THEOREM ToldStaysStored == Spec => []ToldIsStored
<1>1. UartInv /\ LoadedOnce /\ Env!AckedIsDurable => ToldIsStored
  BY DEF UartInv, Serving, LoadedOnce, Env!AckedIsDurable, ToldIsStored, Targets
<1>2. Spec => []Env!AckedIsDurable
  BY ImplementsEnv, EnvKeepsPromises, PTL
<1> QED BY <1>1, <1>2, InvariantHolds, LoadsOnce, PTL

-----------------------------------------------------------------------------
(* The properties follow the environment: they are set from the image that    *)
(* was just read, and from what was just stored.                              *)

Booted == {"status", "props"}

\* A name occurs once in the image in memory.
OnceEach == \A e, f \in ram.vars : e.name = f.name => e = f

ReadBack ==
  loaded /\ ~damaged /\ pc \in Booted =>
    inited /\ \A n \in Targets : told[n] # Nothing => Env!Holds(ram, n, told[n])

PropSet ==
  loaded /\ ~damaged /\ pc \notin Booting \cup Booted \cup {"exited"} =>
    \A n \in Targets :
      told[n] # Nothing => prop[n] = told[n] \/ (worker = "prop" /\ n = job.name)

PropInv ==
  /\ pc \in Booting => ~loaded
  /\ worker \in {"store", "storing", "answer"} => told[job.name] = Nothing
  /\ worker = "prop" => told[job.name] \in {Nothing, job.value}
  /\ DOMAIN prop = Targets
  /\ ReadBack
  /\ PropSet

LEMMA QuietProps ==
  ASSUME PropInv, UNCHANGED <<envVars, told, prop>>,
         \/ worker' = worker /\ job' = job
         \/ worker # "prop" /\ worker' \notin {"store", "storing", "answer", "prop"},
         \/ pc' = pc
         \/ pc' = "exited"
         \/ pc = "status" /\ pc' = "props"
         \/ pc \notin Booting \cup Booted \cup {"exited"} /\ pc' \notin Booting \cup Booted
  PROVE  PropInv'
<1>1. UNCHANGED <<inited, loaded, damaged, ram>>
  BY DEF envVars
<1>2. ReadBack'
  BY <1>1 DEF PropInv, ReadBack, Booting, Booted, Env!Holds
<1>3. PropSet'
  BY <1>1 DEF PropInv, PropSet, Booting, Booted
<1>4. pc' \in Booting => pc \in Booting
  BY DEF Booting, Booted
<1> QED BY <1>1, <1>2, <1>3, <1>4 DEF PropInv

LEMMA ReaderKeepsProps ==
  ASSUME UartInv, PropInv, Host \/ Loop \/ Exit \/ Lock \/ Read \/ Parse \/ BootStatus
                           \/ Check \/ RefuseStart
  PROVE  PropInv'
<1>1. UNCHANGED <<envVars, told, prop>>
  BY Zenon DEF Host, HostSends, Loop, Exit, Lock, Read, Parse, Refuse, AnswerEnter,
     AnswerShakeHands, ShakenHands, Stage, AnswerStart, Joined, ParseStays, BootStatus,
     BootStays, Check, RefuseStart, WorkerStays
<1>2. CASE Host \/ BootStatus
  <2>1. worker' = worker /\ job' = job
    BY <1>2 DEF Host, HostSends, BootStatus, BootStays
  <2>2. pc' = pc \/ pc' = "exited" \/ (pc = "status" /\ pc' = "props")
    BY <1>2 DEF Host, HostSends, BootStatus
  <2> QED BY <1>1, <2>1, <2>2, QuietProps
<1>3. CASE Loop \/ Exit \/ Lock \/ Read
  <2>1. worker' = worker /\ job' = job
    BY <1>3 DEF Loop, Exit, Lock, Read
  <2>2. pc \in {"loop", "fail", "lock", "read"}
        /\ pc' \in {"exited", "fail", "lock", "read", "loop", "parse"}
    BY <1>3 DEF Loop, Exit, Lock, Read, NextTty
  <2> QED BY <1>1, <2>1, <2>2, QuietProps DEF Booting, Booted
<1>4. CASE Parse
  <2>1. /\ pc \in {"parse", "shands", "join"}
        /\ pc' \in {"lock", "loop", "shands", "join"}
        /\ job' = job
    BY <1>4 DEF Parse, Refuse, AnswerEnter, AnswerShakeHands, ShakenHands, Stage,
                AnswerStart, Joined, Command, NextTty
  <2>2. worker' = worker \/ (worker \in {"none", "done"} /\ worker' \in {"check", "none"})
    BY <1>4, <2>1 DEF Parse, Refuse, AnswerEnter, AnswerShakeHands, ShakenHands, Stage,
                AnswerStart, Joined, Command, UartInv, Serving
  <2> QED BY <1>1, <2>1, <2>2, QuietProps DEF Booting, Booted
<1>5. CASE Check \/ RefuseStart
  <2>1. /\ worker \in {"check", "refuse"} /\ worker' \in {"set", "refuse", "done"}
        /\ pc' = pc
    BY <1>5 DEF Check, RefuseStart, WorkerStays
  <2> QED BY <1>1, <2>1, QuietProps
<1> QED BY <1>2, <1>3, <1>4, <1>5

LEMMA BootKeepsProps ==
  ASSUME UartInv, LoadedOnce, PropInv, Env!AckedIsDurable, OnceEach, BootInit \/ BootLoad \/ BootProps
  PROVE  PropInv'
<1>1. worker = "none" /\ op = "idle" /\ UNCHANGED <<worker, told, promise, damaged>>
  BY DEF BootInit, BootLoad, BootProps, UartInv, Serving, BootStays, envVars,
         Env!FlashInit, Env!LoadEnv, Env!history
<1>2. CASE BootInit
  <2>1. /\ pc = "flashInit" /\ pc' \in {"props", "loadEnv"}
        /\ loaded' = loaded /\ prop' = prop
    BY <1>2 DEF BootInit, Env!FlashInit
  <2>2. ~loaded'
    BY <2>1 DEF PropInv, Booting
  <2> QED BY <1>1, <2>1, <2>2 DEF PropInv, ReadBack, PropSet, Booting, Booted
<1>3. CASE BootLoad
  <2>1. pc = "loadEnv" /\ pc' \in Booted /\ prop' = prop
    BY <1>3 DEF BootLoad, Booted
  <2>2. ~loaded
    BY <2>1 DEF PropInv, Booting
  <2>3. loaded' => inited' /\ ram' = flash
    BY <1>3, <2>2 DEF BootLoad, Env!LoadEnv, Env!ReadFails
  <2>4. ~damaged => \A n \in Targets : told[n] # Nothing => Env!Holds(flash, n, told[n])
    BY <1>1 DEF UartInv, Serving, LoadedOnce, Env!AckedIsDurable, Targets
  <2>5. ReadBack'
    BY <1>1, <2>3, <2>4 DEF ReadBack, Env!Holds
  <2>6. PropSet' /\ pc' \notin Booting
    BY <2>1 DEF PropSet, Booted, Booting
  <2> QED BY <1>1, <2>1, <2>5, <2>6 DEF PropInv
<1>4. CASE BootProps
  <2>1. /\ pc = "props" /\ pc' \in {"loop", "exited"}
        /\ UNCHANGED <<inited, loaded, ram>>
    BY <1>4 DEF BootProps, envVars
  <2>2. prop' = [n \in Targets |->
                  IF inited /\ \E e \in ram.vars : e.name = n
                    THEN (CHOOSE e \in ram.vars : e.name = n).value ELSE Default]
    BY <1>4 DEF BootProps
  <2>3. ASSUME loaded, ~damaged, NEW n \in Targets, told[n] # Nothing
        PROVE  prop'[n] = told[n]
    <3>1. inited /\ Env!Holds(ram, n, told[n])
      BY <2>1, <2>3 DEF PropInv, ReadBack, Booted
    <3>2. PICK e \in ram.vars : e.name = n /\ e.value = told[n]
      BY <3>1 DEF Env!Holds
    <3>3. (CHOOSE f \in ram.vars : f.name = n) = e
      BY <3>2 DEF OnceEach
    <3> QED BY <2>2, <3>1, <3>2, <3>3
  <2>4. PropSet'
    BY <1>1, <2>1, <2>3 DEF PropSet
  <2>5. ReadBack' /\ pc' \notin Booting
    BY <2>1 DEF ReadBack, Booted, Booting
  <2> QED BY <1>1, <2>2, <2>4, <2>5 DEF PropInv
<1> QED BY <1>2, <1>3, <1>4

LEMMA WorkerKeepsProps ==
  ASSUME UartInv, PropInv, SetVar \/ Store \/ Storing \/ Answer \/ SetProp
  PROVE  PropInv'
<1>1. /\ worker # "none" /\ pc' = pc
      /\ job' = job
  BY DEF SetVar, Store, Storing, Answer, SetProp, WorkerStays
<1>2. pc = "join"
  BY <1>1 DEF UartInv, Serving
<1>3. loaded' = loaded
  BY DEF SetVar, Store, Storing, Answer, SetProp, envVars, Env!SetEnvVar, Env!StoreEnv,
         Env!StoreErase, Env!StoreWrite
<1>4. damaged => damaged'
  BY DEF SetVar, Store, Storing, Answer, SetProp, envVars, Env!SetEnvVar, Env!StoreEnv,
         Env!StoreErase, Env!StoreWrite, Env!history
<1>5. job.name \in Targets /\ told \in [Targets -> EnvValues \cup {Nothing}]
  BY JobFacts DEF UartInv, Books
<1>6. ReadBack' /\ pc' \notin Booting
  BY <1>1, <1>2 DEF ReadBack, Booted, Booting
<1>7. \A n \in Targets : loaded /\ ~damaged /\ told[n] # Nothing =>
         prop[n] = told[n] \/ (worker = "prop" /\ n = job.name)
  BY <1>2 DEF PropInv, PropSet, Booting, Booted
<1>8. CASE SetVar
  <2>1. /\ worker = "set" /\ worker' \in {"store", "answer"}
        /\ told' = [told EXCEPT ![job.name] = Nothing] /\ prop' = prop
    BY <1>8 DEF SetVar
  <2>2. PropSet'
    BY <1>1, <1>3, <1>4, <1>5, <1>7, <2>1 DEF PropSet
  <2> QED BY <1>1, <1>5, <1>6, <2>1, <2>2 DEF PropInv
<1>9. CASE Store \/ Storing
  <2>1. /\ worker \in {"store", "storing"} /\ worker' \in {"answer", "storing"}
        /\ told' = told /\ prop' = prop
    BY <1>9 DEF Store, Storing
  <2>2. PropSet'
    BY <1>1, <1>3, <1>4, <1>7, <2>1 DEF PropSet
  <2> QED BY <1>1, <1>6, <2>1, <2>2 DEF PropInv
<1>10. CASE Answer
  <2>1. /\ worker = "answer" /\ worker' = "prop" /\ prop' = prop
        /\ (told' = [told EXCEPT ![job.name] = job.value] \/ told' = told)
    BY <1>10 DEF Answer
  <2>2. told[job.name] = Nothing
    BY <2>1 DEF PropInv
  <2>3. told'[job.name] \in {Nothing, job.value}
    BY <1>5, <2>1, <2>2
  <2>4. \A n \in Targets \ {job.name} : told'[n] = told[n]
    BY <1>5, <2>1
  <2>5. PropSet'
    BY <1>1, <1>3, <1>4, <1>7, <2>1, <2>4 DEF PropSet
  <2> QED BY <1>1, <1>6, <2>1, <2>3, <2>5 DEF PropInv
<1>11. CASE SetProp
  <2>1. /\ worker = "prop" /\ worker' = "done" /\ told' = told
        /\ prop' = [prop EXCEPT ![job.name] = job.value]
    BY <1>11 DEF SetProp
  <2>2. told[job.name] \in {Nothing, job.value} /\ DOMAIN prop = Targets
    BY <2>1 DEF PropInv
  <2>3. /\ prop'[job.name] = job.value /\ DOMAIN prop' = Targets
        /\ \A n \in Targets \ {job.name} : prop'[n] = prop[n]
    BY <1>5, <2>1, <2>2
  <2>4. PropSet'
    BY <1>3, <1>4, <1>7, <2>1, <2>2, <2>3 DEF PropSet
  <2> QED BY <1>6, <2>1, <2>3, <2>4 DEF PropInv
<1> QED BY <1>8, <1>9, <1>10, <1>11

LEMMA RestartKeepsProps == ASSUME PropInv, Restart PROVE PropInv'
<1>1. ~loaded'
  BY DEF Restart, Env!PowerCut
<1>2. worker' = "none" /\ prop' = [n \in Targets |-> Nothing]
  BY DEF Restart
<1> QED BY <1>1, <1>2 DEF PropInv, ReadBack, PropSet

LEMMA EnvNamesOnce == Env!Spec => []EnvP!NamesOnce
<1>1. Env!Init <=> EnvP!Init
  BY SameLoad
<1>2. [Env!Next]_Env!flashVars <=> [EnvP!Next]_EnvP!flashVars
  BY SameNext, Zenon DEF Env!flashVars, EnvP!flashVars, Env!budgets, EnvP!budgets,
     Env!history, EnvP!history
<1>3. EnvP!Spec => []EnvP!NamesOnce
  BY EnvAssumption, EnvP!NamesOccurOnce
<1> QED BY <1>1, <1>2, <1>3, PTL DEF Env!Spec, EnvP!Spec

(* The property of a variable holds the value the host was told is stored: set
   from the image at start-up, and by the thread that stored it, failed stores
   and restarts notwithstanding (main.cpp:547, 733-757). *)
THEOREM PropsFollow == Spec => []PropFollowsStore
<1>1. Init => PropInv
  BY DEF Init, Env!Init, PropInv, ReadBack, PropSet
<1>2. UartInv /\ LoadedOnce /\ PropInv /\ Env!AckedIsDurable /\ EnvP!NamesOnce /\ [Next]_vars
      => PropInv'
  <2> SUFFICES ASSUME UartInv, LoadedOnce, PropInv, Env!AckedIsDurable, EnvP!NamesOnce, [Next]_vars
               PROVE  PropInv'
    OBVIOUS
  <2>1. OnceEach
    BY DEF EnvP!NamesOnce, EnvP!Once, OnceEach
  <2>2. CASE UNCHANGED vars
    <3>1. UNCHANGED <<envVars, told, prop, worker, job, pc>>
      BY <2>2, Zenon DEF vars
    <3> QED BY <3>1, QuietProps
  <2> QED BY <2>1, <2>2, ReaderKeepsProps, BootKeepsProps, WorkerKeepsProps, RestartKeepsProps
          DEF Next, Reader, Boot, Worker
<1>3. UartInv /\ PropInv => PropFollowsStore
  BY DEF UartInv, Serving, PropInv, PropSet, PropFollowsStore, Booting, Booted
<1>4. Spec => []Env!AckedIsDurable /\ []EnvP!NamesOnce
  BY ImplementsEnv, EnvKeepsPromises, EnvNamesOnce, PTL
<1> QED BY <1>1, <1>2, <1>3, <1>4, InvariantHolds, LoadsOnce, PTL DEF Spec

-----------------------------------------------------------------------------
(* The digits that Str2BcdStr makes of a byte keep its bits, so that the XOR
   of the bytes can be told from them. *)
Bit(x, bit) == (x \div bit) % 2
Hi(x) == x \div 16
Lo(x) == x % 16
High(data) == [j \in 1..Len(data) |-> Hi(data[j])]
Low(data) == [j \in 1..Len(data) |-> Lo(data[j])]

LEMMA Halves ==
  \A j \in Nat : /\ (2 * j) \div 2 = j /\ (2 * j) % 2 = 0
                 /\ j > 0 => (2 * j - 1) % 2 = 1 /\ ((2 * j - 1) + 1) \div 2 = j
OBVIOUS

LEMMA DigitsAre ==
  ASSUME NEW data \in Seq(Byte)
  PROVE  /\ Len(Str2BcdStr(data)) = 2 * Len(data)
         /\ Digits(Str2BcdStr(data), 1) = High(data)
         /\ Digits(Str2BcdStr(data), 0) = Low(data)
<1> DEFINE v == Str2BcdStr(data)
           n == Len(data)
<1>1. n \in Nat /\ v = [j \in 1..(2 * n) |-> IF j % 2 = 1 THEN data[(j + 1) \div 2] \div 16
                                             ELSE data[j \div 2] % 16]
  BY LenProperties DEF Str2BcdStr
<1>2. Len(v) = 2 * n /\ Len(v) \div 2 = n
  <2>1. 2 * n \in Nat /\ DOMAIN v = 1..(2 * n)
    BY <1>1
  <2>2. Len(v) = 2 * n
    BY <2>1
  <2> QED BY <1>1, <2>2, Halves
<1>3. ASSUME NEW j \in 1..n
      PROVE  v[2 * j - 1] = data[j] \div 16 /\ v[2 * j] = data[j] % 16
  <2>1. 2 * j - 1 \in 1..(2 * n) /\ 2 * j \in 1..(2 * n) /\ j \in Nat /\ j > 0
    BY <1>1
  <2>2. (2 * j) \div 2 = j /\ (2 * j) % 2 = 0 /\ (2 * j - 1) % 2 = 1 /\ ((2 * j - 1) + 1) \div 2 = j
    BY <2>1, Halves
  <2> HIDE DEF v
  <2> QED BY <1>1, <2>1, <2>2
<1> HIDE DEF v
<1>4. Digits(v, 1) = High(data)
  BY <1>2, <1>3 DEF Digits, High, Hi
<1>5. Digits(v, 0) = Low(data)
  <2>1. \A j \in 1..n : v[2 * j - 0] = data[j] % 16
    BY <1>1, <1>3
  <2> QED BY <1>2, <2>1 DEF Digits, Low, Lo
<1> QED BY <1>2, <1>4, <1>5 DEF v

LEMMA SameParity ==
  ASSUME NEW a, NEW b, NEW p, NEW q, DOMAIN a = DOMAIN b,
         \A j \in DOMAIN a : Bit(a[j], p) = Bit(b[j], q)
  PROVE  Parity(a, p) = Parity(b, q)
<1>1. Parity(a, p) = Cardinality({j \in DOMAIN a : Bit(a[j], p) = 1}) % 2
      /\ Parity(b, q) = Cardinality({j \in DOMAIN b : Bit(b[j], q) = 1}) % 2
  BY Zenon DEF Parity, Bit
<1>2. {j \in DOMAIN a : Bit(a[j], p) = 1} = {j \in DOMAIN b : Bit(b[j], q) = 1}
  OBVIOUS
<1> QED BY <1>1, <1>2, Zenon

LEMMA NoParity ==
  ASSUME NEW a, NEW p, \A j \in DOMAIN a : Bit(a[j], p) = 0
  PROVE  Parity(a, p) = 0
<1>1. Parity(a, p) = Cardinality({j \in DOMAIN a : Bit(a[j], p) = 1}) % 2
  BY Zenon DEF Parity, Bit
<1>2. {j \in DOMAIN a : Bit(a[j], p) = 1} = {}
  OBVIOUS
<1> QED BY <1>1, <1>2, FS_EmptySet

LEMMA HighBits ==
  \A x \in Byte :
    /\ Bit(Hi(x), 1) = Bit(x, 16) /\ Bit(Hi(x), 2) = Bit(x, 32)
    /\ Bit(Hi(x), 4) = Bit(x, 64) /\ Bit(Hi(x), 8) = Bit(x, 128)
    /\ Bit(Hi(x), 16) = 0 /\ Bit(Hi(x), 32) = 0 /\ Bit(Hi(x), 64) = 0 /\ Bit(Hi(x), 128) = 0
BY DEF Byte, Bit, Hi

LEMMA LowBits ==
  \A x \in Byte :
    /\ Bit(Lo(x), 1) = Bit(x, 1) /\ Bit(Lo(x), 2) = Bit(x, 2)
    /\ Bit(Lo(x), 4) = Bit(x, 4) /\ Bit(Lo(x), 8) = Bit(x, 8)
    /\ Bit(Lo(x), 16) = 0 /\ Bit(Lo(x), 32) = 0 /\ Bit(Lo(x), 64) = 0 /\ Bit(Lo(x), 128) = 0
BY DEF Byte, Bit, Lo

LEMMA HighParity ==
  ASSUME NEW data \in Seq(Byte)
  PROVE  /\ Parity(High(data), 1) = Parity(data, 16) /\ Parity(High(data), 2) = Parity(data, 32)
         /\ Parity(High(data), 4) = Parity(data, 64) /\ Parity(High(data), 8) = Parity(data, 128)
         /\ Parity(High(data), 16) = 0 /\ Parity(High(data), 32) = 0
         /\ Parity(High(data), 64) = 0 /\ Parity(High(data), 128) = 0
<1>1. DOMAIN High(data) = DOMAIN data
      /\ \A j \in DOMAIN data : data[j] \in Byte /\ High(data)[j] = Hi(data[j])
  BY LenProperties, ElementOfSeq DEF High
<1> HIDE DEF High
<1>2. \A j \in DOMAIN data :
        /\ Bit(High(data)[j], 1) = Bit(data[j], 16) /\ Bit(High(data)[j], 2) = Bit(data[j], 32)
        /\ Bit(High(data)[j], 4) = Bit(data[j], 64) /\ Bit(High(data)[j], 8) = Bit(data[j], 128)
        /\ Bit(High(data)[j], 16) = 0 /\ Bit(High(data)[j], 32) = 0
        /\ Bit(High(data)[j], 64) = 0 /\ Bit(High(data)[j], 128) = 0
  BY <1>1, HighBits
<1> QED BY <1>1, <1>2, SameParity, NoParity

LEMMA LowParity ==
  ASSUME NEW data \in Seq(Byte)
  PROVE  /\ Parity(Low(data), 1) = Parity(data, 1) /\ Parity(Low(data), 2) = Parity(data, 2)
         /\ Parity(Low(data), 4) = Parity(data, 4) /\ Parity(Low(data), 8) = Parity(data, 8)
         /\ Parity(Low(data), 16) = 0 /\ Parity(Low(data), 32) = 0
         /\ Parity(Low(data), 64) = 0 /\ Parity(Low(data), 128) = 0
<1>1. DOMAIN Low(data) = DOMAIN data
      /\ \A j \in DOMAIN data : data[j] \in Byte /\ Low(data)[j] = Lo(data[j])
  BY LenProperties, ElementOfSeq DEF Low
<1> HIDE DEF Low
<1>2. \A j \in DOMAIN data :
        /\ Bit(Low(data)[j], 1) = Bit(data[j], 1) /\ Bit(Low(data)[j], 2) = Bit(data[j], 2)
        /\ Bit(Low(data)[j], 4) = Bit(data[j], 4) /\ Bit(Low(data)[j], 8) = Bit(data[j], 8)
        /\ Bit(Low(data)[j], 16) = 0 /\ Bit(Low(data)[j], 32) = 0
        /\ Bit(Low(data)[j], 64) = 0 /\ Bit(Low(data)[j], 128) = 0
  BY <1>1, LowBits
<1> QED BY <1>1, <1>2, SameParity, NoParity

(* Arithmetic on its own, as in EightBits. *)
LEMMA NibblesJoin ==
  ASSUME NEW a \in 0..1, NEW b \in 0..1, NEW c \in 0..1, NEW d \in 0..1,
         NEW e \in 0..1, NEW f \in 0..1, NEW g \in 0..1, NEW h \in 0..1,
         NEW x, NEW y, NEW z,
         x = a + 2 * b + 4 * c + 8 * d + 16 * e + 32 * f + 64 * g + 128 * h,
         y = e + 2 * f + 4 * g + 8 * h + 16 * 0 + 32 * 0 + 64 * 0 + 128 * 0,
         z = a + 2 * b + 4 * c + 8 * d + 16 * 0 + 32 * 0 + 64 * 0 + 128 * 0
  PROVE  x = 16 * y + z
OBVIOUS

LEMMA XorOfDigits ==
  ASSUME NEW data \in Seq(Byte)
  PROVE  Xor(data) = 16 * Xor(High(data)) + Xor(Low(data))
<1> DEFINE a == Parity(data, 1)
           b == Parity(data, 2)
           c == Parity(data, 4)
           d == Parity(data, 8)
           e == Parity(data, 16)
           f == Parity(data, 32)
           g == Parity(data, 64)
           h == Parity(data, 128)
<1>1. /\ a \in 0..1 /\ b \in 0..1 /\ c \in 0..1 /\ d \in 0..1
      /\ e \in 0..1 /\ f \in 0..1 /\ g \in 0..1 /\ h \in 0..1
  BY ParityTyped, SeqOfBytes
<1>2. Xor(data) = a + 2 * b + 4 * c + 8 * d + 16 * e + 32 * f + 64 * g + 128 * h
  BY DEF Xor
<1>3. Xor(High(data)) = e + 2 * f + 4 * g + 8 * h + 16 * 0 + 32 * 0 + 64 * 0 + 128 * 0
  BY HighParity DEF Xor
<1>4. Xor(Low(data)) = a + 2 * b + 4 * c + 8 * d + 16 * 0 + 32 * 0 + 64 * 0 + 128 * 0
  BY LowParity, Zenon DEF Xor
<1> HIDE DEF a, b, c, d, e, f, g, h
<1> QED BY <1>1, <1>2, <1>3, <1>4

-----------------------------------------------------------------------------
(* What the daemon receives, and when.  A packet is sent whole; what is read
   of a line is its beginning; nothing is read while a packet is parsed. *)
Parsing == {"parse", "shands", "join"}

Histories ==
  /\ splits \in Nat
  /\ written \in [Targets -> SUBSET Payloads]
  /\ DOMAIN announced = Targets

Grown ==
  /\ splits' = 0 => splits = 0
  /\ \A n \in Targets : written[n] \subseteq written'[n] /\ announced[n] \subseteq announced'[n]

\* A packet that the books say the host has sent.
Sent(x, w, a) ==
  \/ x \in Extras
  \/ \E n \in Targets : \E d \in w[n] : x = Write(n, d)
  \/ \E n \in Targets, d \in Payloads : <<Len(d), Xor(d)>> \in a[n] /\ x = Start(n, d)

LEMMA LinesStay == [Next]_vars => Host \/ Read \/ Refuse \/ Restart \/ UNCHANGED hostVars
<1> SUFFICES ASSUME [Next]_vars, ~Host, ~Read, ~Refuse, ~Restart PROVE UNCHANGED hostVars
  OBVIOUS
<1>1. UNCHANGED vars \/ Boot \/ Loop \/ Lock \/ Exit \/ Worker \/ AnswerEnter \/ AnswerShakeHands
      \/ ShakenHands \/ (\E n \in Targets : Stage(n)) \/ AnswerStart \/ Joined
  BY Zenon DEF Next, Reader, Parse
<1> QED BY <1>1, Zenon DEF vars, Boot, BootInit, BootLoad, BootStatus, BootProps, BootStays, Loop,
    Lock, Exit, Worker, Check, SetVar, Store, Storing, Answer, SetProp, RefuseStart, WorkerStays,
    AnswerEnter, AnswerShakeHands, ShakenHands, Stage, AnswerStart, Joined

LEMMA HistoriesGrow == ASSUME Histories, [Next]_vars PROVE Histories' /\ Grown
<1>1. CASE UNCHANGED hostVars
  BY <1>1 DEF Histories, Grown, hostVars
<1>2. CASE UNCHANGED <<written, announced>> /\ \E t, k : Arrived(t, k)
  <2>1. splits' = splits \/ splits' = splits + 1
    BY <1>2, Zenon DEF Arrived
  <2>2. splits' \in Nat /\ (splits' = 0 => splits = 0)
    BY <2>1 DEF Histories
  <2> QED BY <1>2, <2>2 DEF Histories, Grown
<1>3. CASE Host
  <2>1. splits' = splits
    BY <1>3, Zenon DEF Host, HostSends
  <2>2. \/ UNCHANGED <<written, announced>>
        \/ /\ written' = written
           /\ \E n \in Targets, d \in Payloads :
                announced' = [announced EXCEPT ![n] = @ \cup {<<Len(d), Xor(d)>>}]
        \/ /\ announced' = announced
           /\ \E n \in Targets, d \in Payloads : written' = [written EXCEPT ![n] = @ \cup {d}]
    BY <1>3, Zenon DEF Host
  <2> QED BY <2>1, <2>2 DEF Histories, Grown
<1>4. CASE Restart
  BY <1>4 DEF Restart, Histories, Grown
<1>5. CASE Read \/ Refuse
  BY <1>2, <1>5, Zenon DEF Read, Refuse, ClearTty, Arrived
<1> QED BY <1>1, <1>3, <1>4, <1>5, LinesStay

(* The lines: a packet more, or some of the beginning less; all of it or
   nothing, as long as nothing is cut. *)
LEMMA LineStep ==
  ASSUME Typed, Histories, [Next]_vars, NEW t \in 1..Ttys
  PROVE  \/ \E x : Sent(x, written', announced') /\ line'[t] = line[t] \o x
         \/ \E k \in 0..Len(line[t]) :
              /\ line'[t] = SubSeq(line[t], k + 1, Len(line[t]))
              /\ splits' = 0 => k \in {0, Len(line[t])}
<1>1. line[t] \in Seq(Byte) /\ Len(line[t]) \in Nat
  BY LenProperties DEF Typed
<1>2. CASE line'[t] = line[t]
  <2>1. SubSeq(line[t], 0 + 1, Len(line[t])) = line[t] /\ 0 \in 0..Len(line[t])
    BY <1>1
  <2> QED BY <1>2, <2>1
<1>3. CASE line'[t] = <<>>
  <2>1. SubSeq(line[t], Len(line[t]) + 1, Len(line[t])) = <<>> /\ Len(line[t]) \in 0..Len(line[t])
    BY <1>1
  <2> QED BY <1>3, <2>1
<1>4. ASSUME NEW i \in 1..Ttys, NEW k, Arrived(i, k)
      PROVE  \/ line'[t] = line[t]
             \/ /\ k \in 0..Len(line[t])
                /\ line'[t] = SubSeq(line[t], k + 1, Len(line[t]))
                /\ splits' = 0 => k \in {0, Len(line[t])}
  <2>1. line' = [line EXCEPT ![i] = SubSeq(line[i], k + 1, Len(line[i]))] /\ k \in 0..Len(line[i])
    BY <1>4 DEF Arrived
  <2>2. k = Len(line[i]) \/ splits' = splits + 1
    BY <1>4, Zenon DEF Arrived
  <2>3. splits' = 0 => k = Len(line[i])
    BY <2>2 DEF Histories
  <2>4. DOMAIN line = 1..Ttys
    BY DEF Typed
  <2> QED BY <2>1, <2>3, <2>4
<1>5. CASE Read \/ Refuse
  <2>1. PICK k : Arrived(tty, k)
    BY <1>5, Zenon DEF Read, Refuse, ClearTty
  <2>2. tty \in 1..Ttys
    BY DEF Typed
  <2> QED BY <2>1, <2>2, <1>2, <1>4
<1>6. CASE Host
  <2>1. PICK i, x : i \in 1..Ttys /\ HostSends(i, x) /\ Sent(x, written', announced')
    <3>1. CASE \E i \in 1..Ttys : \E x \in Extras : HostSends(i, x)
      BY <3>1, Zenon DEF Sent
    <3>2. ASSUME NEW i \in 1..Ttys, NEW n \in Targets, NEW d \in Payloads,
                 HostSends(i, Start(n, d)),
                 announced' = [announced EXCEPT ![n] = announced[n] \cup {<<Len(d), Xor(d)>>}]
          PROVE  Sent(Start(n, d), written', announced')
      <4>1. <<Len(d), Xor(d)>> \in announced'[n]
        BY <3>2 DEF Histories
      <4> QED BY <4>1, Zenon DEF Sent
    <3>3. ASSUME NEW i \in 1..Ttys, NEW n \in Targets, NEW d \in Payloads,
                 HostSends(i, Write(n, d)),
                 written' = [written EXCEPT ![n] = written[n] \cup {d}]
          PROVE  Sent(Write(n, d), written', announced')
      <4>1. d \in written'[n]
        BY <3>3 DEF Histories
      <4> QED BY <4>1, Zenon DEF Sent
    <3> QED BY <1>6, <3>1, <3>2, <3>3, Zenon DEF Host
  <2>2. line' = [line EXCEPT ![i] = line[i] \o x] /\ DOMAIN line = 1..Ttys
    BY <2>1 DEF HostSends, Typed
  <2>3. line'[t] = line[t] \/ line'[t] = line[t] \o x
    BY <2>2
  <2> QED BY <2>1, <2>3, <1>2
<1>7. CASE Restart
  BY <1>3, <1>7 DEF Restart
<1> QED BY <1>2, <1>5, <1>6, <1>7, LinesStay DEF hostVars

(* The buffer: as it was, emptied, or with what was read behind it. *)
LEMMA BufStep ==
  ASSUME Typed, Histories, [Next]_vars
  PROVE  \/ buf' = buf /\ (pc' \in Parsing \/ pc \notin Parsing)
         \/ buf' = <<>>
         \/ /\ pc = "read"
            /\ \E k \in 0..Len(line[tty]) :
                 /\ buf' = buf \o SubSeq(line[tty], 1, k)
                 /\ splits' = 0 => k = Len(line[tty])
                 /\ buf' = <<>> \/ k = OverReadLen \/ pc' = "parse"
<1>1. CASE Read
  <2>1. PICK k \in 0..Len(line[tty]) :
             /\ Arrived(tty, k)
             /\ buf' = buf \o SubSeq(line[tty], 1, k)
             /\ IF buf' = <<>> \/ k = OverReadLen THEN NextTty ELSE pc' = "parse" /\ UNCHANGED tty
    BY <1>1, Zenon DEF Read
  <2>2. k = Len(line[tty]) \/ splits' = splits + 1
    BY <2>1, Zenon DEF Arrived
  <2>3. splits' = 0 => k = Len(line[tty])
    BY <2>2 DEF Histories
  <2>4. pc = "read"
    BY <1>1 DEF Read
  <2> QED BY <2>1, <2>3, <2>4
<1>2. CASE Refuse \/ AnswerEnter \/ ShakenHands \/ (\E n \in Targets : Stage(n)) \/ Joined \/ Restart
  BY <1>2, Zenon DEF Refuse, AnswerEnter, ShakenHands, Stage, Joined, Restart, Reset
<1>3. CASE AnswerStart \/ AnswerShakeHands
  BY <1>3 DEF AnswerStart, AnswerShakeHands, Reset, Parsing
<1>4. CASE UNCHANGED vars \/ Host \/ Worker
  <2>1. buf' = buf /\ pc' = pc
    BY <1>4, Zenon DEF vars, Host, HostSends, Worker, Check, SetVar, Store, Storing, Answer,
       SetProp, RefuseStart, WorkerStays
  <2> QED BY <2>1
<1>5. CASE Boot \/ Loop \/ Lock \/ Exit
  <2>1. buf' = buf
    BY <1>5, Zenon DEF Boot, BootInit, BootLoad, BootStatus, BootProps, BootStays, Loop, Lock, Exit
  <2>2. pc \notin Parsing
    BY <1>5 DEF Boot, BootInit, BootLoad, BootStatus, BootProps, Loop, Lock, Exit, Parsing
  <2> QED BY <2>1, <2>2
<1> QED BY <1>1, <1>2, <1>3, <1>4, <1>5, Zenon DEF Next, Reader, Parse

(* What is staged changes with a WRITE, and what is to be stored with a START
   that the buffer holds. *)
LEMMA StageStep ==
  ASSUME [Next]_vars
  PROVE  \/ stage' = stage
         \/ stage' = [n \in Targets |-> <<>>]
         \/ \E n \in Targets : Stage(n)
<1>1. UNCHANGED vars \/ Host \/ Boot \/ Loop \/ Lock \/ Read \/ Exit \/ Worker \/ Refuse \/ AnswerEnter
      \/ AnswerShakeHands \/ ShakenHands \/ AnswerStart \/ Joined \/ Restart
      \/ \E n \in Targets : Stage(n)
  BY Zenon DEF Next, Reader, Parse
<1> QED BY <1>1, Zenon DEF vars, stageVars, Host, HostSends, Boot, BootInit, BootLoad, BootStatus,
    BootProps, BootStays, Loop, Lock, Read, Exit, Worker, Check, SetVar, Store, Storing, Answer,
    SetProp, RefuseStart, WorkerStays, Refuse, AnswerEnter, AnswerShakeHands, ShakenHands,
    AnswerStart, Joined, Restart

Asked == worker = "check" => At(0) = Header /\ At(2) = 141

LEMMA JobStep ==
  ASSUME UartInv, Asked, [Next]_vars
  PROVE  /\ Asked'
         /\ worker' = "set" =>
              \/ worker = "set" /\ job' = job
              \/ /\ worker = "check"
                 /\ \E n \in Targets :
                      Matches(n) /\ job' = [name |-> n, value |-> Str2BcdStr(stage[n])]
<1>1. worker \in {"check", "set"} => pc = "join"
  BY DEF UartInv, Serving
<1>2. buf' = buf => At(0)' = At(0) /\ At(2)' = At(2)
  BY DEF At
<1>3. CASE UNCHANGED vars \/ Host \/ Boot \/ Loop \/ Lock \/ Read \/ Exit
  <2>1. worker' = worker /\ job' = job /\ (buf' = buf \/ pc # "join")
    BY <1>3 DEF vars, Host, HostSends, Boot, BootInit, BootLoad, BootStatus, BootProps, BootStays,
       Loop, Lock, Read, Exit
  <2> QED BY <1>1, <1>2, <2>1 DEF Asked
<1>4. CASE Refuse \/ AnswerEnter \/ AnswerShakeHands \/ ShakenHands \/ (\E n \in Targets : Stage(n))
  <2>1. worker' = worker /\ pc # "join"
    BY <1>4 DEF Refuse, AnswerEnter, AnswerShakeHands, ShakenHands, Stage, Command
  <2> QED BY <1>1, <2>1 DEF Asked
<1>5. CASE AnswerStart
  <2>1. /\ pc = "parse" /\ At(0) = Header /\ At(2) = 141
        /\ worker' = worker \/ (worker' = "check" /\ buf' = buf)
    BY <1>5 DEF AnswerStart, Command
  <2> QED BY <1>1, <1>2, <2>1 DEF Asked
<1>6. CASE Joined \/ Restart \/ SetVar \/ Store \/ Storing \/ Answer \/ SetProp \/ RefuseStart
  <2>1. worker' \notin {"check", "set"}
    BY <1>6 DEF Joined, Restart, SetVar, Store, Storing, Answer, SetProp, RefuseStart
  <2> QED BY <2>1 DEF Asked
<1>7. CASE Check
  <2>1. worker = "check" /\ worker' \in {"set", "refuse"}
    BY <1>7 DEF Check
  <2>2. worker' = "set" => \E n \in Targets :
                             Matches(n) /\ job' = [name |-> n, value |-> Str2BcdStr(stage[n])]
    <3>1. (\E n \in Targets : /\ Matches(n)
                               /\ job' = [name |-> n, value |-> Str2BcdStr(stage[n])]
                               /\ worker' = "set")
          \/ worker' = "refuse"
      BY <1>7, Zenon DEF Check
    <3>2. "set" # "refuse"
      OBVIOUS
    <3> QED BY <3>1, <3>2, Zenon
  <2> QED BY <2>1, <2>2 DEF Asked
<1> QED BY <1>3, <1>4, <1>5, <1>6, <1>7, Zenon DEF Next, Reader, Parse, Worker

-----------------------------------------------------------------------------
(* The images hold of the daemon's variables what was given to SetEnvVar, or
   cut off. *)
LEMMA EnvBrings ==
  ASSUME [Next]_vars, NEW e \in ram'.vars \cup flash'.vars
  PROVE  \/ e \in ram.vars \cup flash.vars
         \/ worker = "set" /\ e.name = job.name /\ e.value \in {job.value, Cut}
<1>1. CASE UNCHANGED <<ram, flash>>
  BY <1>1
<1>2. CASE UNCHANGED envVars
  BY <1>1, <1>2, Zenon DEF envVars
<1>3. CASE BootInit \/ BootLoad
  BY <1>3 DEF BootInit, BootLoad, Env!FlashInit, Env!LoadEnv, Env!ReadFails, Env!Torn
<1>4. CASE SetVar
  <2>1. worker = "set" /\ flash' = flash
    BY <1>4 DEF SetVar, Env!SetEnvVar
  <2>2. \/ ram' = ram
        \/ Env!Appended(job.name, job.value)
        \/ Env!Overflow(job.name, job.value)
    BY <1>4, Zenon DEF SetVar, Env!SetEnvVar
  <2>3. Env!Others(job.name) \subseteq ram.vars
    BY DEF Env!Others
  <2>4. CASE Env!Appended(job.name, job.value)
    <3>1. ram'.vars \subseteq Env!Others(job.name) \cup {Env!String(job.name, job.value)}
      BY <2>4 DEF Env!Appended
    <3>2. /\ Env!String(job.name, job.value).name = job.name
          /\ Env!String(job.name, job.value).value = job.value
      BY DEF Env!String
    <3> QED BY <2>1, <2>3, <3>1, <3>2
  <2>5. CASE Env!Overflow(job.name, job.value)
    <3>1. \/ ram'.vars = Env!Others(job.name)
          \/ \E what \in {job.value, Cut} :
               ram'.vars = Env!Others(job.name)
                           \cup {[name |-> job.name, value |-> what, size |-> Env!Room(job.name)]}
      BY <2>5 DEF Env!Overflow
    <3> QED BY <2>1, <2>3, <3>1
  <2> QED BY <2>1, <2>2, <2>4, <2>5
<1>5. Env!WrittenInPart => flash'.vars \subseteq flash.vars \cup ram.vars
  BY DEF Env!WrittenInPart, Env!Torn
<1>6. CASE Store \/ Storing
  <2>1. ram' = ram
    BY <1>6 DEF Store, Storing, Env!StoreEnv, Env!StoreErase, Env!StoreWrite
  <2>2. \/ flash' = flash \/ flash' = ram \/ flash' = Env!Torn({}) \/ Env!WrittenInPart
    BY <1>6 DEF Store, Storing, Env!StoreEnv, Env!StoreErase, Env!StoreWrite
  <2> QED BY <1>5, <2>1, <2>2 DEF Env!Torn
<1>7. CASE Restart
  <2>1. ram' = Env!Zeroed /\ (flash' = flash \/ Env!WrittenInPart)
    BY <1>7 DEF Restart, Env!PowerCut
  <2> QED BY <1>5, <2>1 DEF Env!Zeroed
<1>8. CASE UNCHANGED vars \/ Host \/ BootStatus \/ BootProps \/ Loop \/ Lock \/ Read \/ Parse \/ Exit
           \/ Check \/ Answer \/ SetProp \/ RefuseStart
  <2>1. UNCHANGED envVars
    BY <1>8, Zenon DEF vars, Host, HostSends, BootStatus, BootProps, Loop, Lock, Read, Parse,
       Refuse, AnswerEnter, AnswerShakeHands, ShakenHands, Stage, AnswerStart, Joined, ParseStays,
       Exit, Check, Answer, SetProp, RefuseStart
  <2> QED BY <1>2, <2>1
<1> QED BY <1>3, <1>4, <1>6, <1>7, <1>8, Zenon DEF Next, Reader, Boot, Worker

-----------------------------------------------------------------------------
(* The first half: as long as no read cuts anything off, every line, and the
   buffer, begins with a packet of which the parser looks at no byte that is
   not its own.  A short packet of a host with other commands must not look
   like the beginning of a WRITE or a START. *)
ExtrasApart ==
  \A x \in Extras : x # <<>> /\ x[1] = Header => Len(x) >= 3 /\ x[3] \notin {130, 131, 141}

Begins(s, x) == Len(x) <= Len(s) /\ \A j \in 1..Len(x) : s[j] = x[j]

Leads(s, w, a) ==
  \/ s = <<>>
  \/ s[1] # Header
  \/ Len(s) >= 3 /\ s[3] \notin {130, 131, 141}
  \/ \E n \in Targets : \E d \in w[n] : Begins(s, Write(n, d))
  \/ \E n \in Targets, d \in Payloads :
       <<Len(d), Xor(d)>> \in a[n] /\ Begins(s, Start(n, d))

WholeInv ==
  splits = 0 =>
    /\ \A t \in 1..Ttys : Leads(line[t], written, announced)
    /\ Leads(buf, written, announced)
    /\ \A n \in Targets : stage[n] = <<>> \/ stage[n] \in written[n]
    /\ worker = "set" => WasWritten(job.name, job.value)
    /\ \A e \in Served(ram) \cup Served(flash) : WasWritten(e.name, e.value)

LEMMA Concat ==
  ASSUME NEW S, NEW s \in Seq(S), NEW x \in Seq(S)
  PROVE  /\ s \o x \in Seq(S) /\ Len(s) \in Nat /\ Len(x) \in Nat
         /\ Len(s \o x) = Len(s) + Len(x)
         /\ \A j \in 1..Len(s) : (s \o x)[j] = s[j]
         /\ \A j \in 1..Len(x) : (s \o x)[Len(s) + j] = x[j]
         /\ \A j \in 1..(Len(s) + Len(x)) : j > Len(s) => (s \o x)[j] = x[j - Len(s)]
BY ConcatProperties, LenProperties

LEMMA WriteIs ==
  ASSUME NEW n, NEW d \in Seq(Byte)
  PROVE  /\ Len(d) \in Nat /\ Len(Write(n, d)) = Len(d) + 6
         /\ Write(n, d)[1] = Header /\ Write(n, d)[2] = Len(d) + 6 /\ Write(n, d)[3] = Code(n)
         /\ Write(n, d)[4] = 0 /\ Write(n, d)[5] = 0
         /\ \A j \in 1..Len(d) : Write(n, d)[5 + j] = d[j]
         /\ Write(n, d)[Len(d) + 6] = 0
<1> DEFINE h == <<Header, Len(d) + 6, Code(n), 0, 0>>
           z == <<0>>
<1>1. Len(d) \in Nat
  BY LenProperties
<1>2. h \in Seq(Nat) /\ d \in Seq(Nat) /\ z \in Seq(Nat)
  <2>1. Code(n) \in Nat /\ d \in Seq(Nat)
    BY SeqOfBytes, BytesAreNumbers, Zenon
  <2> QED BY <1>1, <2>1 DEF Header
<1>3. Len(h) = 5 /\ h[1] = Header /\ h[2] = Len(d) + 6 /\ h[3] = Code(n) /\ h[4] = 0 /\ h[5] = 0
      /\ Len(z) = 1 /\ z[1] = 0
  OBVIOUS
<1>4. Write(n, d) = (h \o d) \o z
  BY DEF Write
<1> HIDE DEF h, z
<1>5. /\ h \o d \in Seq(Nat) /\ Len(h \o d) = 5 + Len(d)
      /\ \A j \in 1..5 : (h \o d)[j] = h[j]
      /\ \A j \in 1..Len(d) : (h \o d)[5 + j] = d[j]
  <2>1. /\ h \o d \in Seq(Nat) /\ Len(h \o d) = Len(h) + Len(d)
        /\ \A j \in 1..Len(h) : (h \o d)[j] = h[j]
        /\ \A j \in 1..Len(d) : (h \o d)[Len(h) + j] = d[j]
    BY <1>2, Concat
  <2> QED BY <1>3, <2>1, Zenon
<1>6. /\ Len((h \o d) \o z) = 5 + Len(d) + 1
      /\ \A j \in 1..(5 + Len(d)) : ((h \o d) \o z)[j] = (h \o d)[j]
      /\ ((h \o d) \o z)[5 + Len(d) + 1] = 0
  <2>1. /\ Len((h \o d) \o z) = Len(h \o d) + Len(z)
        /\ \A j \in 1..Len(h \o d) : ((h \o d) \o z)[j] = (h \o d)[j]
        /\ \A j \in 1..Len(z) : ((h \o d) \o z)[Len(h \o d) + j] = z[j]
    <3> DEFINE y == h \o d
    <3>1. y \in Seq(Nat)
      BY <1>5
    <3> HIDE DEF y
    <3>2. /\ Len(y \o z) = Len(y) + Len(z)
          /\ \A j \in 1..Len(y) : (y \o z)[j] = y[j]
          /\ \A j \in 1..Len(z) : (y \o z)[Len(y) + j] = z[j]
      BY <1>2, <3>1, Concat
    <3> QED BY <3>2 DEF y
  <2>2. 1 \in 1..Len(z)
    BY <1>3
  <2> QED BY <1>3, <1>5, <2>1, <2>2
<1> DEFINE y == h \o d
           w == Write(n, d)
<1>7. /\ Len(w) = 5 + Len(d) + 1
      /\ \A j \in 1..(5 + Len(d)) : w[j] = y[j]
      /\ w[5 + Len(d) + 1] = 0
      /\ \A j \in 1..5 : y[j] = h[j]
      /\ \A j \in 1..Len(d) : y[5 + j] = d[j]
  BY <1>4, <1>5, <1>6, Zenon
<1> HIDE DEF y, w
<1>8. w[1] = h[1] /\ w[2] = h[2] /\ w[3] = h[3] /\ w[4] = h[4] /\ w[5] = h[5]
  BY <1>1, <1>7
<1>9. ASSUME NEW j \in 1..Len(d) PROVE w[5 + j] = d[j]
  BY <1>1, <1>7
<1>10. 5 + Len(d) + 1 = Len(d) + 6
  BY <1>1
<1>11. Len(w) = Len(d) + 6 /\ w[Len(d) + 6] = 0
  BY <1>7, <1>10
<1> QED BY <1>1, <1>3, <1>8, <1>9, <1>11, Zenon DEF w

LEMMA StartIs ==
  ASSUME NEW n, NEW d
  PROVE  /\ Len(Start(n, d)) = 8
         /\ Start(n, d)[1] = Header /\ Start(n, d)[2] = 8 /\ Start(n, d)[3] = 141
         /\ Start(n, d)[4] = 0 /\ Start(n, d)[5] = Len(d) /\ Start(n, d)[6] = Xor(d)
         /\ Start(n, d)[7] = Code(n) /\ Start(n, d)[8] = 0
BY DEF Start

LEMMA CodesDiffer ==
  ASSUME NEW n \in Targets
  PROVE  Code(n) \in {130, 131} /\ \A m \in Targets : Code(m) = Code(n) => m = n
BY UartAssumption DEF Code, Targets

LEMMA BeginsMore ==
  ASSUME NEW s \in Seq(Byte), NEW r \in Seq(Byte), NEW x \in Seq(Byte), Begins(s, x)
  PROVE  Begins(s \o r, x)
BY Concat, LenProperties DEF Begins

LEMMA LeadsMore ==
  ASSUME Histories, [Next]_vars,
         NEW s \in Seq(Byte), NEW r \in Seq(Byte), s # <<>>, Leads(s, written, announced)
  PROVE  Leads(s \o r, written', announced')
<1>1. Len(s) \in Nat /\ Len(s) >= 1
  BY LenProperties, EmptySeq
<1>2. /\ Len(s \o r) >= Len(s) /\ s \o r # <<>>
      /\ \A j \in 1..Len(s) : (s \o r)[j] = s[j]
  BY <1>1, Concat
<1>3. Grown
  BY HistoriesGrow
<1>4. CASE s[1] # Header
  BY <1>1, <1>2, <1>4 DEF Leads
<1>5. CASE Len(s) >= 3 /\ s[3] \notin {130, 131, 141}
  <2>1. Len(s \o r) >= 3 /\ (s \o r)[3] = s[3]
    BY <1>1, <1>2, <1>5, Concat
  <2> QED BY <1>5, <2>1, Zenon DEF Leads
<1>6. ASSUME NEW n \in Targets, NEW d \in written[n], Begins(s, Write(n, d))
      PROVE  Leads(s \o r, written', announced')
  <2>1. d \in Payloads /\ d \in written'[n]
    BY <1>3, <1>6 DEF Histories, Grown
  <2>2. Begins(s \o r, Write(n, d))
    BY <1>6, <2>1, PacketsTyped, BeginsMore
  <2> QED BY <2>1, <2>2, Zenon DEF Leads
<1>7. ASSUME NEW n \in Targets, NEW d \in Payloads, <<Len(d), Xor(d)>> \in announced[n],
             Begins(s, Start(n, d))
      PROVE  Leads(s \o r, written', announced')
  <2>1. <<Len(d), Xor(d)>> \in announced'[n]
    BY <1>3, <1>7 DEF Grown
  <2>2. Begins(s \o r, Start(n, d))
    BY <1>7, PacketsTyped, BeginsMore
  <2> QED BY <2>1, <2>2, Zenon DEF Leads
<1> QED BY <1>4, <1>5, <1>6, <1>7, Zenon DEF Leads

LEMMA SentTyped ==
  ASSUME NEW w \in [Targets -> SUBSET Payloads], NEW a, NEW x, Sent(x, w, a)
  PROVE  x \in Seq(Byte)
BY PacketsTyped DEF Sent

LEMMA SentLeads ==
  ASSUME ExtrasApart, NEW w \in [Targets -> SUBSET Payloads], NEW a, NEW x, Sent(x, w, a)
  PROVE  Leads(x, w, a)
<1>1. CASE x \in Extras
  BY <1>1 DEF ExtrasApart, Leads
<1>2. Len(x) \in Nat
  BY SentTyped, LenProperties
<1>3. Begins(x, x)
  BY <1>2 DEF Begins
<1>4. CASE \E n \in Targets : \E d \in w[n] : x = Write(n, d)
  BY <1>3, <1>4, Zenon DEF Leads
<1>5. CASE \E n \in Targets, d \in Payloads : <<Len(d), Xor(d)>> \in a[n] /\ x = Start(n, d)
  <2>1. PICK n \in Targets, d \in Payloads : <<Len(d), Xor(d)>> \in a[n] /\ x = Start(n, d)
    BY <1>5
  <2>2. Begins(x, Start(n, d))
    BY <1>3, <2>1
  <2> QED BY <2>1, <2>2, Zenon DEF Leads
<1> QED BY <1>1, <1>4, <1>5, Zenon DEF Sent

LEMMA LeadsStays ==
  ASSUME Histories, [Next]_vars, NEW s \in Seq(Byte), Leads(s, written, announced)
  PROVE  Leads(s, written', announced')
<1>1. CASE s = <<>>
  BY <1>1 DEF Leads
<1>2. CASE s # <<>>
  <2>1. s \o <<>> = s /\ <<>> \in Seq(Byte)
    OBVIOUS
  <2>2. Leads(s \o <<>>, written', announced')
    BY <1>2, <2>1, LeadsMore
  <2> QED BY <2>1, <2>2
<1> QED BY <1>1, <1>2

(* What a WRITE at the beginning of the buffer stages is what it carries. *)
LEMMA WholeIsStaged ==
  ASSUME Typed, Histories, Leads(buf, written, announced), NEW n \in Targets, Command(Code(n))
  PROVE  [j \in 1..(At(1) - 6) |-> At(4 + j)] \in written[n]
<1>1. buf \in Seq(Byte) /\ Len(buf) \in Nat /\ Code(n) \in {130, 131}
  BY LenProperties, CodesDiffer DEF Typed
<1>2. Len(buf) >= 3 /\ buf[1] = Header /\ buf[3] = Code(n)
  BY <1>1 DEF Command, At, Header
<1>3. ASSUME NEW m \in Targets, NEW d \in Payloads, Begins(buf, Start(m, d)) PROVE FALSE
  <2>1. buf[3] = 141
    BY <1>3, StartIs DEF Begins
  <2> QED BY <1>1, <1>2, <2>1
<1>4. PICK m \in Targets : \E d \in written[m] : Begins(buf, Write(m, d))
  <2>1. buf # <<>>
    BY <1>1, <1>2
  <2>2. buf[3] \in {130, 131, 141}
    BY <1>1, <1>2
  <2> QED BY <1>2, <1>3, <2>1, <2>2, Zenon DEF Leads
<1>5. PICK d \in written[m] : Begins(buf, Write(m, d))
  BY <1>4
<1>6. d \in Seq(Byte)
  BY UartAssumption DEF Histories
<1>7. /\ Len(d) \in Nat /\ Len(d) + 6 <= Len(buf)
      /\ buf[2] = Len(d) + 6 /\ buf[3] = Code(m)
      /\ \A j \in 1..Len(d) : buf[5 + j] = d[j]
  <2> DEFINE x == Write(m, d)
  <2>1. /\ Len(d) \in Nat /\ Len(x) = Len(d) + 6 /\ x[2] = Len(d) + 6 /\ x[3] = Code(m)
        /\ \A j \in 1..Len(d) : x[5 + j] = d[j]
    BY <1>6, WriteIs
  <2>2. Len(x) <= Len(buf) /\ \A j \in 1..Len(x) : buf[j] = x[j]
    BY <1>5 DEF Begins
  <2> HIDE DEF x
  <2> QED BY <2>1, <2>2
<1>8. m = n
  <2>1. Code(m) = Code(n)
    BY <1>2, <1>7
  <2> QED BY <2>1, CodesDiffer, Zenon
<1>9. At(1) - 6 = Len(d)
  BY <1>1, <1>7 DEF At
<1>10. \A j \in 1..Len(d) : At(4 + j) = d[j]
  BY <1>1, <1>7 DEF At
<1>11. d = [j \in 1..Len(d) |-> d[j]]
  BY <1>6
<1> QED BY <1>5, <1>8, <1>9, <1>10, <1>11

(* A START at the beginning of the buffer never matches what was not staged. *)
LEMMA WholeMatches ==
  ASSUME Typed, Histories, Leads(buf, written, announced), At(0) = Header, At(2) = 141,
         NEW n \in Targets, Matches(n), stage[n] = <<>> \/ stage[n] \in written[n]
  PROVE  stage[n] \in written[n]
<1>1. buf \in Seq(Byte) /\ Len(buf) \in Nat
  BY LenProperties DEF Typed
<1>2. Len(buf) >= 3 /\ buf[1] = Header /\ buf[3] = 141
  BY <1>1 DEF At, Header
<1>3. ASSUME NEW m \in Targets, NEW d \in written[m], Begins(buf, Write(m, d)) PROVE FALSE
  <2>1. d \in Seq(Byte)
    BY UartAssumption DEF Histories
  <2> DEFINE x == Write(m, d)
  <2>2. Len(d) \in Nat /\ Len(x) = Len(d) + 6 /\ x[3] = Code(m)
    BY <2>1, WriteIs
  <2>3. \A j \in 1..Len(x) : buf[j] = x[j]
    BY <1>3 DEF Begins
  <2> HIDE DEF x
  <2>4. buf[3] = Code(m)
    BY <2>2, <2>3
  <2> QED BY <1>2, <2>4, CodesDiffer
<1>4. PICK m \in Targets, d \in Payloads : Begins(buf, Start(m, d))
  <2>1. buf # <<>>
    BY <1>1, <1>2
  <2> QED BY <1>2, <1>3, <2>1 DEF Leads
<1>5. Len(d) \in Nat /\ Len(d) # 0
  BY UartAssumption, LenProperties, EmptySeq
<1>6. Len(buf) >= 8 /\ buf[5] = Len(d)
  BY <1>4, StartIs DEF Begins
<1>7. Len(stage[n]) # 0
  BY <1>1, <1>5, <1>6 DEF Matches, At
<1> QED BY <1>7, EmptySeq

LEMMA WholeKeeps ==
  ASSUME ExtrasApart, UartInv, Histories, Asked, WholeInv, [Next]_vars
  PROVE  WholeInv'
<1> SUFFICES ASSUME splits' = 0
             PROVE  /\ \A t \in 1..Ttys : Leads(line'[t], written', announced')
                    /\ Leads(buf', written', announced')
                    /\ \A n \in Targets : stage'[n] = <<>> \/ stage'[n] \in written'[n]
                    /\ worker' = "set" => WasWritten(job.name, job.value)'
                    /\ \A e \in Served(ram') \cup Served(flash') : WasWritten(e.name, e.value)'
  BY DEF WholeInv
<1>1. /\ splits = 0 /\ Histories'
      /\ \A n \in Targets : written[n] \subseteq written'[n] /\ announced[n] \subseteq announced'[n]
  BY HistoriesGrow DEF Grown
<1>2. /\ \A t \in 1..Ttys : Leads(line[t], written, announced)
      /\ Leads(buf, written, announced)
      /\ \A n \in Targets : stage[n] = <<>> \/ stage[n] \in written[n]
      /\ worker = "set" => WasWritten(job.name, job.value)
      /\ \A e \in Served(ram) \cup Served(flash) : WasWritten(e.name, e.value)
  BY <1>1 DEF WholeInv
<1>3. Typed /\ tty \in 1..Ttys /\ buf \in Seq(Byte) /\ \A t \in 1..Ttys : line[t] \in Seq(Byte)
  BY DEF UartInv, Typed
<1>4. ASSUME NEW t \in 1..Ttys PROVE Leads(line'[t], written', announced')
  <2>1. CASE \E x : Sent(x, written', announced') /\ line'[t] = line[t] \o x
    <3>1. PICK x : Sent(x, written', announced') /\ line'[t] = line[t] \o x
      BY <2>1
    <3>2. written' \in [Targets -> SUBSET Payloads]
      BY <1>1 DEF Histories
    <3>3. x \in Seq(Byte) /\ Leads(x, written', announced')
      BY <3>1, <3>2, SentTyped, SentLeads
    <3>4. line[t] = <<>> => line'[t] = x
      BY <3>1, <3>3
    <3>5. ASSUME line[t] # <<>> PROVE Leads(line[t] \o x, written', announced')
      <4>1. line[t] \in Seq(Byte) /\ Leads(line[t], written, announced)
        BY <1>2, <1>3
      <4> QED BY <3>3, <3>5, <4>1, LeadsMore
    <3> QED BY <3>1, <3>3, <3>4, <3>5, Zenon
  <2>2. CASE \E k \in {0, Len(line[t])} : line'[t] = SubSeq(line[t], k + 1, Len(line[t]))
    <3>1. line'[t] = line[t] \/ line'[t] = <<>>
      BY <1>3, <2>2
    <3>2. Leads(<<>>, written', announced')
      BY DEF Leads
    <3>3. Leads(line[t], written', announced')
      BY <1>2, <1>3, LeadsStays
    <3> QED BY <3>1, <3>2, <3>3, Zenon
  <2> QED BY <1>3, <2>1, <2>2, LineStep
<1>5. Leads(buf', written', announced')
  <2>1. CASE buf' = buf
    BY <1>2, <1>3, <2>1, LeadsStays
  <2>2. CASE buf' = <<>>
    BY <2>2 DEF Leads
  <2>3. CASE buf' = buf \o SubSeq(line[tty], 1, Len(line[tty]))
    <3>1. buf' = buf \o line[tty]
      BY <1>3, <2>3
    <3>2. buf = <<>> => buf' = line[tty]
      BY <1>3, <3>1
    <3>3. Leads(line[tty], written', announced')
      BY <1>2, <1>3, LeadsStays
    <3> QED BY <1>2, <1>3, <3>1, <3>2, <3>3, LeadsMore
  <2> QED BY <1>3, <2>1, <2>2, <2>3, BufStep
<1>6. ASSUME NEW n \in Targets PROVE stage'[n] = <<>> \/ stage'[n] \in written'[n]
  <2>1. CASE stage' = stage \/ stage' = [m \in Targets |-> <<>>]
    BY <1>1, <1>2, <2>1
  <2>2. ASSUME NEW m \in Targets, Stage(m) PROVE stage'[n] = <<>> \/ stage'[n] \in written'[n]
    <3>1. /\ stage' = [stage EXCEPT ![m] = [j \in 1..(At(1) - 6) |-> At(4 + j)]]
          /\ Command(Code(m))
      BY <2>2 DEF Stage
    <3>2. [j \in 1..(At(1) - 6) |-> At(4 + j)] \in written[m]
      BY <1>2, <1>3, <3>1, WholeIsStaged
    <3>3. stage'[n] = stage[n] \/ (n = m /\ stage'[n] = [j \in 1..(At(1) - 6) |-> At(4 + j)])
      BY <1>3, <3>1 DEF Typed
    <3> QED BY <1>1, <1>2, <3>2, <3>3
  <2> QED BY <2>1, <2>2, StageStep
<1>7. ASSUME worker' = "set" PROVE WasWritten(job.name, job.value)'
  <2>1. CASE worker = "set" /\ job' = job
    <3>1. job.name \in Targets
      BY <1>3, JobFacts
    <3> QED BY <1>1, <1>2, <2>1, <3>1 DEF WasWritten
  <2>2. ASSUME NEW n \in Targets, worker = "check", Matches(n),
               job' = [name |-> n, value |-> Str2BcdStr(stage[n])]
        PROVE  WasWritten(job.name, job.value)'
    <3>1. stage[n] \in written[n]
      BY <1>2, <1>3, <2>2, WholeMatches DEF Asked
    <3>2. job'.name = n /\ job'.value = Str2BcdStr(stage[n])
      BY <2>2
    <3> QED BY <1>1, <3>1, <3>2, Zenon DEF WasWritten
  <2> QED BY <1>7, <2>1, <2>2, JobStep
<1>8. ASSUME NEW e \in Served(ram') \cup Served(flash') PROVE WasWritten(e.name, e.value)'
  <2>1. e \in ram'.vars \cup flash'.vars /\ e.name \in Targets /\ e.value # Cut
    BY DEF Served
  <2>2. CASE e \in ram.vars \cup flash.vars
    BY <1>1, <1>2, <2>1, <2>2 DEF Served, WasWritten
  <2>3. CASE worker = "set" /\ e.name = job.name /\ e.value = job.value
    BY <1>1, <1>2, <2>1, <2>3 DEF WasWritten
  <2> QED BY <2>1, <2>2, <2>3, EnvBrings
<1> QED BY <1>4, <1>5, <1>6, <1>7, <1>8

LEMMA StartServes == Init => Served(ram) \cup Served(flash) = {}
<1> SUFFICES ASSUME Init PROVE Served(ram) \cup Served(flash) = {}
  OBVIOUS
<1>1. ram.vars = {} /\ \A e \in flash.vars : e.name = Status
  BY DEF Init, Env!Init, Env!Zeroed, Env!String, FactoryImage
<1> QED BY <1>1, UartAssumption DEF Served, Targets

LEMMA StartReceives == Init => Histories /\ Asked /\ WholeInv
<1> SUFFICES ASSUME Init PROVE Histories /\ Asked /\ WholeInv
  OBVIOUS
<1>1. Histories
  BY DEF Init, Histories
<1>2. Asked
  BY DEF Init, Asked
<1>3. /\ \A t \in 1..Ttys : line[t] = <<>>
      /\ buf = <<>> /\ worker = "none"
      /\ \A n \in Targets : stage[n] = <<>>
  BY DEF Init
<1> QED BY <1>1, <1>2, <1>3, StartServes DEF WholeInv, Leads

LEMMA Receives == Spec => [](UartInv /\ Histories /\ Asked)
<1>1. Init => Histories /\ Asked
  BY StartReceives
<1>2. UartInv /\ Histories /\ Asked /\ [Next]_vars => Histories' /\ Asked'
  <2>1. UNCHANGED vars => [Next]_vars
    OBVIOUS
  <2> QED BY HistoriesGrow, JobStep
<1> QED BY <1>1, <1>2, InvariantHolds, PTL DEF Spec

(* As long as every read returns all that was sent, the partition holds of the
   two variables only what the host has written for that one, whatever stays
   in the buffer or on the other devices (main.cpp:599-611, 687-692). *)
THEOREM OnlyWrittenIsStored == ASSUME ExtrasApart PROVE Spec => []StoredWasWritten
<1>1. Init => WholeInv
  BY StartReceives
<1>2. UartInv /\ Histories /\ Asked /\ WholeInv /\ [Next]_vars => WholeInv'
  BY WholeKeeps
<1>3. WholeInv => StoredWasWritten
  BY DEF WholeInv, StoredWasWritten
<1> QED BY <1>1, <1>2, <1>3, Receives, PTL DEF Spec

-----------------------------------------------------------------------------
(* The second half: reads may cut packets anywhere.  Where the header's byte
   only begins packets, every one still in a line begins a packet that is there
   to its end, so that what the parser takes for a START is the beginning of
   one: at least seven bytes of it, since a shorter read is not added to. *)
Packets == Extras \cup {Write(n, d) : n \in Targets, d \in Payloads}
                  \cup {Start(n, d) : n \in Targets, d \in Payloads}

HeaderMarks ==
  /\ ExtrasApart
  /\ OverReadLen >= 7
  /\ \A x \in Packets : \A j \in 2..Len(x) : x[j] # Header

\* The header at p of s begins a packet whose code is there, and if it is a
\* START, what it announces is there and in the books.
Marked(s, p, a) ==
  /\ p + 2 <= Len(s)
  /\ s[p + 2] = 141 =>
       /\ p + 6 <= Len(s)
       /\ \A n \in Targets : s[p + 6] = Code(n) => <<s[p + 4], s[p + 5]>> \in a[n]

Marks(s, a) == \A p \in 1..Len(s) : s[p] = Header => Marked(s, p, a)

\* pszBuf[k] of a buffer s.
AtOf(s, k) == IF k < Len(s) THEN s[k + 1] ELSE 0

Heard(s, a) ==
  AtOf(s, 0) = Header /\ AtOf(s, 2) = 141 =>
    \A n \in Targets : AtOf(s, 6) = Code(n) => <<AtOf(s, 4), AtOf(s, 5)>> \in a[n]

MarkedInv ==
  /\ \A t \in 1..Ttys : Marks(line[t], announced)
  /\ pc \notin Parsing => buf = <<>> \/ Len(buf) >= 7
  /\ Heard(buf, announced)
  /\ worker = "set" => WasAnnounced(job.name, job.value)
  /\ \A e \in Served(ram) \cup Served(flash) : WasAnnounced(e.name, e.value)

LEMMA MarksGrow ==
  ASSUME NEW s, NEW a, NEW b, \A n \in Targets : a[n] \subseteq b[n]
  PROVE  (Marks(s, a) => Marks(s, b)) /\ (Heard(s, a) => Heard(s, b))
<1>1. \A p : Marked(s, p, a) => Marked(s, p, b)
  BY Zenon DEF Marked
<1>2. Marks(s, a) => Marks(s, b)
  BY <1>1, Zenon DEF Marks
<1>3. Heard(s, a) => Heard(s, b)
  BY DEF Heard
<1> QED BY <1>2, <1>3

LEMMA MarksJoin ==
  ASSUME NEW s \in Seq(Byte), NEW x \in Seq(Byte), NEW a, Marks(s, a), Marks(x, a)
  PROVE  Marks(s \o x, a)
<1> DEFINE y == s \o x
<1>1. /\ Len(s) \in Nat /\ Len(x) \in Nat /\ Len(y) = Len(s) + Len(x)
      /\ \A j \in 1..Len(s) : y[j] = s[j]
      /\ \A j \in 1..Len(x) : y[Len(s) + j] = x[j]
  BY Concat
<1> HIDE DEF y
<1>2. ASSUME NEW p \in 1..Len(y), y[p] = Header PROVE Marked(y, p, a)
  <2>1. CASE p <= Len(s)
    <3>1. p \in 1..Len(s) /\ s[p] = Header
      BY <1>1, <1>2, <2>1
    <3>2. Marked(s, p, a)
      BY <3>1 DEF Marks
    <3>3. p + 2 <= Len(s) /\ p + 2 <= Len(y) /\ y[p + 2] = s[p + 2]
      BY <1>1, <3>1, <3>2 DEF Marked
    <3>4. ASSUME s[p + 2] = 141
          PROVE  /\ p + 6 <= Len(y)
                 /\ y[p + 4] = s[p + 4] /\ y[p + 5] = s[p + 5] /\ y[p + 6] = s[p + 6]
      <4>1. p + 6 <= Len(s)
        BY <3>2, <3>4 DEF Marked
      <4>2. p + 4 \in 1..Len(s) /\ p + 5 \in 1..Len(s) /\ p + 6 \in 1..Len(s)
        BY <1>1, <3>1, <4>1
      <4> QED BY <1>1, <4>1, <4>2
    <3> QED BY <3>2, <3>3, <3>4 DEF Marked
  <2>2. CASE p > Len(s)
    <3>1. PICK q \in 1..Len(x) : p = Len(s) + q
      <4>1. p - Len(s) \in 1..Len(x) /\ p = Len(s) + (p - Len(s))
        BY <1>1, <2>2
      <4> QED BY <4>1
    <3>2. x[q] = Header
      BY <1>1, <1>2, <3>1
    <3>3. Marked(x, q, a)
      BY <3>2 DEF Marks
    <3>4. q + 2 <= Len(x) /\ y[p + 2] = x[q + 2]
      <4>1. q + 2 \in 1..Len(x) /\ p + 2 = Len(s) + (q + 2)
        BY <1>1, <3>1, <3>3 DEF Marked
      <4> QED BY <1>1, <4>1
    <3>5. ASSUME x[q + 2] = 141
          PROVE  /\ q + 6 <= Len(x)
                 /\ y[p + 4] = x[q + 4] /\ y[p + 5] = x[q + 5] /\ y[p + 6] = x[q + 6]
      <4>1. q + 6 <= Len(x)
        BY <3>3, <3>5 DEF Marked
      <4>2. /\ q + 4 \in 1..Len(x) /\ p + 4 = Len(s) + (q + 4)
            /\ q + 5 \in 1..Len(x) /\ p + 5 = Len(s) + (q + 5)
            /\ q + 6 \in 1..Len(x) /\ p + 6 = Len(s) + (q + 6)
        BY <1>1, <3>1, <4>1
      <4> QED BY <1>1, <4>1, <4>2
    <3>6. p + 2 <= Len(y) /\ (q + 6 <= Len(x) => p + 6 <= Len(y))
      BY <1>1, <3>1, <3>4
    <3> QED BY <3>3, <3>4, <3>5, <3>6 DEF Marked
  <2> QED BY <1>1, <2>1, <2>2
<1> QED BY <1>2 DEF Marks, y

LEMMA TailIs ==
  ASSUME NEW s \in Seq(Byte), NEW k \in 0..Len(s)
  PROVE  /\ Len(s) \in Nat
         /\ Len(SubSeq(s, k + 1, Len(s))) = Len(s) - k
         /\ \A j \in 1..(Len(s) - k) : SubSeq(s, k + 1, Len(s))[j] = s[k + j]
<1>1. Len(s) \in Nat /\ k \in Int
  BY LenProperties
<1>2. \A i \in (k + 1)..Len(s) : s[i] \in Byte
  BY <1>1, ElementOfSeq
<1> QED BY <1>1, <1>2, SubSeqProperties

LEMMA MarksTail ==
  ASSUME NEW s \in Seq(Byte), NEW k \in 0..Len(s), NEW a, Marks(s, a)
  PROVE  Marks(SubSeq(s, k + 1, Len(s)), a)
<1> DEFINE y == SubSeq(s, k + 1, Len(s))
<1>1. /\ Len(s) \in Nat /\ k \in Nat /\ k <= Len(s) /\ Len(y) = Len(s) - k
      /\ \A j \in 1..(Len(s) - k) : y[j] = s[k + j]
  BY TailIs, LenProperties
<1> HIDE DEF y
<1>2. ASSUME NEW p \in 1..Len(y), y[p] = Header PROVE Marked(y, p, a)
  <2>1. k + p \in 1..Len(s) /\ s[k + p] = Header
    BY <1>1, <1>2
  <2>2. Marked(s, k + p, a)
    BY <2>1 DEF Marks
  <2>3. p + 2 <= Len(y) /\ y[p + 2] = s[k + p + 2]
    <3>1. k + p + 2 <= Len(s)
      BY <2>2 DEF Marked
    <3>2. p + 2 \in 1..(Len(s) - k) /\ k + (p + 2) = k + p + 2
      BY <1>1, <3>1
    <3> QED BY <1>1, <3>2
  <2>4. ASSUME s[k + p + 2] = 141
        PROVE  /\ p + 6 <= Len(y)
               /\ y[p + 4] = s[k + p + 4] /\ y[p + 5] = s[k + p + 5] /\ y[p + 6] = s[k + p + 6]
    <3>1. k + p + 6 <= Len(s)
      BY <2>2, <2>4 DEF Marked
    <3>2. /\ p + 4 \in 1..(Len(s) - k) /\ k + (p + 4) = k + p + 4
          /\ p + 5 \in 1..(Len(s) - k) /\ k + (p + 5) = k + p + 5
          /\ p + 6 \in 1..(Len(s) - k) /\ k + (p + 6) = k + p + 6
      BY <1>1, <3>1
    <3> QED BY <1>1, <3>2
  <2> QED BY <2>2, <2>3, <2>4 DEF Marked
<1> QED BY <1>2 DEF Marks, y

LEMMA MarksSent ==
  ASSUME HeaderMarks, NEW w \in [Targets -> SUBSET Payloads], NEW a, NEW x, Sent(x, w, a)
  PROVE  Marks(x, a)
<1>1. x \in Packets
  <2>1. /\ Extras \subseteq Packets
        /\ \A n \in Targets, d \in Payloads : Write(n, d) \in Packets /\ Start(n, d) \in Packets
    BY DEF Packets
  <2>2. \A n \in Targets : w[n] \subseteq Payloads
    OBVIOUS
  <2> QED BY <2>1, <2>2, Zenon DEF Sent
<1>2. Len(x) \in Nat
  BY SentTyped, LenProperties
<1>3. ASSUME NEW p \in 1..Len(x), x[p] = Header PROVE p = 1
  BY <1>1, <1>2, <1>3 DEF HeaderMarks
<1>4. ASSUME 1 <= Len(x), x[1] = Header PROVE Marked(x, 1, a)
  <2>1. CASE x \in Extras
    <3>1. x # <<>>
      BY <1>2, <1>4
    <3>2. Len(x) >= 3 /\ x[3] # 141
      BY <1>4, <2>1, <3>1 DEF HeaderMarks, ExtrasApart
    <3> QED BY <3>2 DEF Marked
  <2>2. ASSUME NEW n \in Targets, NEW d \in w[n], x = Write(n, d) PROVE Marked(x, 1, a)
    <3>1. d \in Seq(Byte)
      BY UartAssumption
    <3>2. Len(d) \in Nat /\ Len(x) = Len(d) + 6 /\ x[3] = Code(n)
      BY <2>2, <3>1, WriteIs
    <3>3. Len(x) >= 3 /\ x[3] # 141
      BY <3>2, CodesDiffer
    <3> QED BY <3>3 DEF Marked
  <2>3. ASSUME NEW n \in Targets, NEW d \in Payloads, <<Len(d), Xor(d)>> \in a[n], x = Start(n, d)
        PROVE  Marked(x, 1, a)
    <3>1. Len(x) = 8 /\ x[5] = Len(d) /\ x[6] = Xor(d) /\ x[7] = Code(n)
      BY <2>3, StartIs
    <3>2. \A m \in Targets : x[7] = Code(m) => <<x[5], x[6]>> \in a[m]
      <4>1. <<x[5], x[6]>> \in a[n]
        BY <2>3, <3>1, Zenon
      <4>2. ASSUME NEW m \in Targets, x[7] = Code(m) PROVE m = n
        <5>1. Code(m) = Code(n)
          BY <3>1, <4>2
        <5> QED BY <5>1, CodesDiffer, Zenon
      <4> QED BY <4>1, <4>2, Zenon
    <3> QED BY <3>1, <3>2 DEF Marked
  <2> QED BY <2>1, <2>2, <2>3, Zenon DEF Sent
<1> QED BY <1>2, <1>3, <1>4 DEF Marks

(* The beginning of a line, as it comes into an empty buffer. *)
LEMMA HeardRead ==
  ASSUME NEW s \in Seq(Byte), NEW k \in 0..Len(s), NEW a, Marks(s, a)
  PROVE  Len(SubSeq(s, 1, k)) = k /\ Heard(SubSeq(s, 1, k), a)
<1> DEFINE y == SubSeq(s, 1, k)
<1>1. Len(s) \in Nat /\ k \in Nat /\ k <= Len(s)
  BY LenProperties
<1>2. Len(y) = k /\ \A j \in 1..k : y[j] = s[j]
  <2>1. \A i \in 1..k : s[i] \in Byte
    BY <1>1, ElementOfSeq
  <2> QED BY <1>1, <2>1, SubSeqProperties
<1> HIDE DEF y
<1>3. ASSUME AtOf(y, 0) = Header, AtOf(y, 2) = 141, NEW n \in Targets, AtOf(y, 6) = Code(n)
      PROVE  <<AtOf(y, 4), AtOf(y, 5)>> \in a[n]
  <2>1. k >= 3 /\ s[1] = Header /\ s[3] = 141
    BY <1>1, <1>2, <1>3 DEF AtOf, Header
  <2>2. 1 \in 1..Len(s)
    BY <1>1, <2>1
  <2>3. Marked(s, 1, a)
    BY <2>1, <2>2 DEF Marks
  <2>4. k >= 7 /\ s[7] = Code(n)
    BY <1>1, <1>2, <1>3, CodesDiffer DEF AtOf
  <2>5. AtOf(y, 4) = s[5] /\ AtOf(y, 5) = s[6]
    BY <1>1, <1>2, <2>4 DEF AtOf
  <2> QED BY <2>1, <2>3, <2>4, <2>5 DEF Marked
<1> QED BY <1>2, <1>3 DEF Heard, y

(* What is added behind seven bytes changes nothing. *)
LEMMA HeardMore ==
  ASSUME NEW s \in Seq(Byte), NEW r \in Seq(Byte), NEW a, Len(s) >= 7, Heard(s, a)
  PROVE  Len(s \o r) >= 7 /\ Heard(s \o r, a)
<1> DEFINE y == s \o r
<1>1. /\ Len(s) \in Nat /\ Len(r) \in Nat /\ Len(y) = Len(s) + Len(r)
      /\ \A j \in 1..Len(s) : y[j] = s[j]
  BY Concat
<1> HIDE DEF y
<1>2. Len(y) >= 7
  BY <1>1
<1>3. /\ AtOf(y, 0) = AtOf(s, 0) /\ AtOf(y, 2) = AtOf(s, 2) /\ AtOf(y, 4) = AtOf(s, 4)
      /\ AtOf(y, 5) = AtOf(s, 5) /\ AtOf(y, 6) = AtOf(s, 6)
  BY <1>1, <1>2 DEF AtOf
<1> QED BY <1>2, <1>3 DEF Heard, y

(* The value made of what is staged, if it has the length and XOR of a START
   that was sent. *)
LEMMA HeardMatches ==
  ASSUME Typed, Heard(buf, announced), At(0) = Header, At(2) = 141,
         NEW n \in Targets, Matches(n)
  PROVE  WasAnnounced(n, Str2BcdStr(stage[n]))
<1>1. At(0) = AtOf(buf, 0) /\ At(2) = AtOf(buf, 2) /\ At(4) = AtOf(buf, 4)
      /\ At(5) = AtOf(buf, 5) /\ At(6) = AtOf(buf, 6)
  BY DEF At, AtOf
<1>2. Len(stage[n]) = At(4) /\ Xor(stage[n]) = At(5) /\ At(6) = Code(n)
  BY DEF Matches
<1>3. <<At(4), At(5)>> \in announced[n]
  BY <1>1, <1>2 DEF Heard
<1>4. stage[n] \in Seq(Byte)
  BY DEF Typed
<1> DEFINE v == Str2BcdStr(stage[n])
<1>5. Len(v) = 2 * Len(stage[n]) /\ 16 * Xor(Digits(v, 1)) + Xor(Digits(v, 0)) = Xor(stage[n])
  BY <1>4, DigitsAre, XorOfDigits, Zenon
<1> HIDE DEF v
<1>6. \E a \in announced[n] : /\ Len(v) = 2 * a[1]
                              /\ 16 * Xor(Digits(v, 1)) + Xor(Digits(v, 0)) = a[2]
  BY <1>2, <1>3, <1>5
<1> QED BY <1>6 DEF WasAnnounced, v

LEMMA MarkedKeeps ==
  ASSUME HeaderMarks, UartInv, Histories, Asked, MarkedInv, [Next]_vars
  PROVE  MarkedInv'
<1>1. Histories' /\ \A n \in Targets : announced[n] \subseteq announced'[n]
  BY HistoriesGrow DEF Grown
<1>2. Typed /\ tty \in 1..Ttys /\ buf \in Seq(Byte) /\ \A t \in 1..Ttys : line[t] \in Seq(Byte)
  BY DEF UartInv, Typed
<1>3. \A t \in 1..Ttys : Marks(line[t], announced')
  BY <1>1, MarksGrow DEF MarkedInv
<1>4. Heard(buf, announced')
  BY <1>1, MarksGrow DEF MarkedInv
<1>5. ASSUME NEW t \in 1..Ttys PROVE Marks(line'[t], announced')
  <2>1. CASE \E x : Sent(x, written', announced') /\ line'[t] = line[t] \o x
    <3>1. PICK x : Sent(x, written', announced') /\ line'[t] = line[t] \o x
      BY <2>1
    <3>2. written' \in [Targets -> SUBSET Payloads]
      BY <1>1 DEF Histories
    <3>3. x \in Seq(Byte) /\ Marks(x, announced')
      BY <3>1, <3>2, SentTyped, MarksSent
    <3>4. Marks(line[t] \o x, announced')
      BY <1>2, <1>3, <3>3, MarksJoin
    <3> QED BY <3>1, <3>4
  <2>2. CASE \E k \in 0..Len(line[t]) : line'[t] = SubSeq(line[t], k + 1, Len(line[t]))
    <3>1. PICK k \in 0..Len(line[t]) : line'[t] = SubSeq(line[t], k + 1, Len(line[t]))
      BY <2>2
    <3>2. Marks(SubSeq(line[t], k + 1, Len(line[t])), announced')
      BY <1>2, <1>3, MarksTail
    <3> QED BY <3>1, <3>2
  <2> QED BY <1>2, <2>1, <2>2, LineStep
<1>6. (pc' \notin Parsing => buf' = <<>> \/ Len(buf') >= 7) /\ Heard(buf', announced')
  <2>1. CASE buf' = buf /\ (pc' \in Parsing \/ pc \notin Parsing)
    BY <1>4, <2>1 DEF MarkedInv
  <2>2. CASE buf' = <<>>
    <3>1. AtOf(<<>>, 0) # Header
      BY DEF AtOf, Header
    <3> QED BY <2>2, <3>1 DEF Heard
  <2>3. ASSUME pc = "read", NEW k \in 0..Len(line[tty]), buf' = buf \o SubSeq(line[tty], 1, k),
               buf' = <<>> \/ k = OverReadLen \/ pc' = "parse"
        PROVE  (pc' \notin Parsing => buf' = <<>> \/ Len(buf') >= 7) /\ Heard(buf', announced')
    <3> DEFINE r == SubSeq(line[tty], 1, k)
    <3>1. r \in Seq(Byte)
      <4>1. k \in Int /\ \A i \in 1..k : line[tty][i] \in Byte
        BY <1>2, LenProperties, ElementOfSeq
      <4> QED BY <4>1, SubSeqProperties
    <3>2. Len(r) = k /\ Heard(r, announced')
      BY <1>2, <1>3, HeardRead
    <3>3. buf' = buf \o r /\ (buf = <<>> \/ Len(buf) >= 7)
      BY <2>3 DEF MarkedInv, Parsing
    <3> HIDE DEF r
    <3>4. CASE buf = <<>>
      <4>1. buf' = r
        BY <3>1, <3>3, <3>4
      <4>2. k = OverReadLen => Len(buf') >= 7
        BY <3>2, <4>1 DEF HeaderMarks
      <4> QED BY <2>3, <3>2, <4>1, <4>2 DEF Parsing
    <3>5. CASE Len(buf) >= 7
      BY <1>2, <1>4, <3>1, <3>3, <3>5, HeardMore
    <3> QED BY <3>3, <3>4, <3>5
  <2> QED BY <1>2, <2>1, <2>2, <2>3, BufStep
<1>7. ASSUME worker' = "set" PROVE WasAnnounced(job.name, job.value)'
  <2>1. CASE worker = "set" /\ job' = job
    <3>1. job.name \in Targets
      BY <1>2, JobFacts
    <3> QED BY <1>1, <2>1, <3>1 DEF WasAnnounced, MarkedInv
  <2>2. ASSUME NEW n \in Targets, worker = "check", Matches(n),
               job' = [name |-> n, value |-> Str2BcdStr(stage[n])]
        PROVE  WasAnnounced(job.name, job.value)'
    <3>1. WasAnnounced(n, Str2BcdStr(stage[n]))
      BY <1>2, <2>2, HeardMatches DEF Asked, MarkedInv
    <3>2. job'.name = n /\ job'.value = Str2BcdStr(stage[n])
      BY <2>2
    <3> QED BY <1>1, <3>1, <3>2, Zenon DEF WasAnnounced
  <2> QED BY <1>7, <2>1, <2>2, JobStep
<1>8. ASSUME NEW e \in Served(ram') \cup Served(flash') PROVE WasAnnounced(e.name, e.value)'
  <2>1. e \in ram'.vars \cup flash'.vars /\ e.name \in Targets /\ e.value # Cut
    BY DEF Served
  <2>2. CASE e \in ram.vars \cup flash.vars
    BY <1>1, <2>1, <2>2 DEF Served, WasAnnounced, MarkedInv
  <2>3. CASE worker = "set" /\ e.name = job.name /\ e.value = job.value
    BY <1>1, <2>1, <2>3 DEF WasAnnounced, MarkedInv
  <2> QED BY <2>1, <2>2, <2>3, EnvBrings
<1> QED BY <1>5, <1>6, <1>7, <1>8 DEF MarkedInv

(* What the host has announced for a variable is what the partition holds of
   it, however reads cut the packets up, and what it has written for it as long
   as they did not (main.cpp:504-538), for hosts in whose packets only the
   first byte is the header's. *)
THEOREM OnlyAnnouncedIsStored == ASSUME HeaderMarks PROVE Spec => []StoredWasAnnounced
<1>1. Init => MarkedInv
  <2> SUFFICES ASSUME Init PROVE MarkedInv
    OBVIOUS
  <2>1. /\ \A t \in 1..Ttys : line[t] = <<>>
        /\ buf = <<>> /\ worker = "none"
    BY DEF Init
  <2>2. AtOf(<<>>, 0) # Header
    BY DEF AtOf, Header
  <2> QED BY <2>1, <2>2, StartServes DEF MarkedInv, Marks, Heard
<1>2. UartInv /\ Histories /\ Asked /\ MarkedInv /\ [Next]_vars => MarkedInv'
  BY MarkedKeeps
<1>3. MarkedInv => StoredAsAnnounced
  BY DEF MarkedInv, StoredAsAnnounced
<1>4. Spec => []StoredWasWritten
  BY OnlyWrittenIsStored DEF HeaderMarks
<1>5. StoredWasWritten /\ StoredAsAnnounced => StoredWasAnnounced
  BY DEF StoredWasAnnounced
<1> QED BY <1>1, <1>2, <1>3, <1>4, <1>5, Receives, PTL DEF Spec
=============================================================================
