------------------------- MODULE SerialCommandProofs -------------------------
(***************************************************************************)
(* Theorems about SerialCommand for any set of callers and commands and    *)
(* any value of the bounds.                                                *)
(***************************************************************************)
EXTENDS SerialCommand, SequenceTheorems, TLAPS

LEMMA ClearKeepsType ==
  ASSUME TypeOK, SerClear
  PROVE  tx' \in Seq(Request) /\ rx' \in Seq(Packet)
<1>1. PICK k \in 0..Len(tx) : tx' = SubSeq(tx, 1, k)
  BY DEF SerClear
<1>2. tx \in Seq(Request)
  BY DEF TypeOK, PacketsTyped
<1>3. k \in Nat /\ k <= Len(tx)
  BY <1>2, SMT
<1>4. \A i \in 1..k : tx[i] \in Request
  BY <1>2, <1>3, SMT
<1>5. tx' \in Seq(Request)
  BY <1>1, <1>2, <1>3, <1>4, SMT
<1>6. rx' \in Seq(Packet)
  BY DEF SerClear
<1> QED
  BY <1>5, <1>6

LEMMA WordsTyped ==
  /\ Blank \in Packet
  /\ Garbled \in Packet
  /\ \A p \in Unasked : p \in Packet
<1>1. Blank \in Packet
  BY DEF Blank, Packet
<1>2. Garbled \in Packet
  BY DEF Garbled, Packet
<1>3. ASSUME NEW p \in Unasked
      PROVE  p \in Packet
  <2>1. PICK k \in Commands \cup {Unknown} :
                p = [cmd |-> k, ticket |-> 0, sane |-> TRUE]
    BY DEF Unasked
  <2> QED
    BY <2>1 DEF Packet
<1> QED
  BY <1>1, <1>2, <1>3

(* Every variable stays in its domain. *)
THEOREM TypeCorrect == Spec => []TypeOK
<1>1. Init => TypeOK
  <2> SUFFICES ASSUME Init
               PROVE  TypeOK
    OBVIOUS
  <2>1. tx \in Seq(Request) /\ rx \in Seq(Packet)
    BY DEF Init
  <2>2. [cmd |-> Unknown, ticket |-> 0] \in Request
    BY DEF Request
  <2>3. req \in [Callers -> Request]
    BY <2>2 DEF Init
  <2>4. ret \in [Callers -> [code : {"none", "ok", "error", "timeout"},
                             packet : Packet]]
    BY WordsTyped DEF Init
  <2>5. ControlTyped
    <3>1. port \in BOOLEAN /\ disturbed \in BOOLEAN
      BY Zenon DEF Init
    <3> QED
      BY <3>1 DEF Init, ControlTyped
  <2>6. CallsTyped
    BY <2>3, <2>4 DEF Init, CallsTyped
  <2>7. PacketsTyped
    BY <2>1, WordsTyped DEF Init, PacketsTyped
  <2> QED
    BY <2>5, <2>6, <2>7 DEF TypeOK
<1>2. TypeOK /\ [Next]_vars => TypeOK'
  <2> SUFFICES ASSUME TypeOK, [Next]_vars
               PROVE  TypeOK'
    OBVIOUS
  <2> USE DEF TypeOK, ControlTyped, CallsTyped, PacketsTyped, InFlight
  <2>1. CASE IniSerOpenFails
    BY <2>1 DEF IniSerOpenFails, callVars, readerVars, lineVars
  <2>2. CASE IniSer
    <3>1. tx' \in Seq(Request) /\ rx' \in Seq(Packet)
      BY <2>2, ClearKeepsType DEF IniSer
    <3>2. ControlTyped'
      BY <2>2 DEF IniSer, callVars
    <3>3. CallsTyped'
      BY <2>2 DEF IniSer, callVars
    <3>4. PacketsTyped'
      BY <2>2, <3>1, WordsTyped DEF IniSer
    <3> QED
      BY <3>2, <3>3, <3>4, Zenon
  <2>3. CASE DeInitRequest
    BY <2>3 DEF DeInitRequest, callVars, readerVars, lineVars
  <2>11. CASE DeInitDestroy
    BY <2>11 DEF DeInitDestroy, callVars, readerVars, lineVars
  <2>10. CASE DeInitClose
    <3>1. port' \in BOOLEAN
      BY <2>10, Zenon DEF DeInitClose
    <3> QED
      BY <2>10, <3>1 DEF DeInitClose, callVars, readerVars, lineVars
  <2>4. ASSUME NEW c \in Callers, NEW k \in Commands, Call(c, k)
        PROVE  TypeOK'
    BY <2>4 DEF Call, lifeVars, readerVars, lineVars, Request
  <2>5. ASSUME NEW c \in Callers, Operation(c) \/ SpuriousWakeup(c)
        PROVE  TypeOK'
    <3>1. CASE Acquire(c)
      BY <3>1 DEF Acquire, lifeVars, readerVars, lineVars, Request
    <3>2. CASE WriteOk(c)
      BY <3>2 DEF WriteOk, lifeVars, readerVars
    <3>3. CASE WriteFails(c)
      BY <3>3, ClearKeepsType, WordsTyped
         DEF WriteFails, GiveUp, lifeVars, readerVars, lineVars
    <3>4. CASE Wait(c)
      BY <3>4 DEF Wait, lifeVars, readerVars, lineVars
    <3>5. CASE WaitRefused(c)
      BY <3>5, WordsTyped
         DEF WaitRefused, GiveUp, lifeVars, readerVars, lineVars
    <3>6. CASE Timeout(c)
      BY <3>6 DEF Timeout, Wake, lifeVars, readerVars, lineVars
    <3>7. CASE SpuriousWakeup(c)
      BY <3>7 DEF SpuriousWakeup, Wake, lifeVars, readerVars, lineVars
    <3>8. CASE Resume(c)
      <4>1. CASE woke[c] = "timeout"
        <5>1. ControlTyped' /\ PacketsTyped'
          BY <3>8, <4>1 DEF Resume, GiveUp, lifeVars, readerVars, lineVars
        <5>2. CallsTyped'
          <6>1. ret' \in [Callers -> [code : {"none", "ok", "error", "timeout"},
                                      packet : Packet]]
            BY <3>8, <4>1, WordsTyped DEF Resume, GiveUp
          <6>2. pc' \in [Callers -> InFlight \cup {"idle", "lock", "return"}]
            BY <3>8, <4>1 DEF Resume, GiveUp
          <6> QED
            BY <3>8, <6>1, <6>2 DEF Resume
        <5> QED
          BY <5>1, <5>2
      <4>2. CASE woke[c] # "timeout"
        BY <3>8, <4>2 DEF Resume, lifeVars, readerVars, lineVars
      <4> QED
        BY <4>1, <4>2
    <3>9. CASE ReturnReply(c)
      BY <3>9 DEF ReturnReply, lifeVars, readerVars, lineVars
    <3> QED
      BY <2>5, <3>1, <3>2, <3>3, <3>4, <3>5, <3>6, <3>7, <3>8, <3>9
         DEF Operation
  <2>6. CASE Reader
    <3>1. CASE ReaderTop
      BY <3>1 DEF ReaderTop, callVars, lineVars
    <3>2. CASE ReaderParse
      <4>1. Head(rx) \in Packet /\ Tail(rx) \in Seq(Packet)
        BY <3>2 DEF ReaderParse
      <4>2. parsed' \subseteq Nat
        BY <3>2, <4>1 DEF ReaderParse, Packet
      <4>3. tx' \in Seq(Request) /\ rx' \in Seq(Packet)
        BY <3>2, <4>1, ClearKeepsType DEF ReaderParse
      <4> QED
        BY <3>2, <4>1, <4>2, <4>3 DEF ReaderParse, lifeVars, callVars
    <3>3. CASE ReaderNothing \/ ReaderCompare \/ ReaderRecheck \/ ReaderNotify
      BY <3>3 DEF ReaderNothing, ReaderCompare, ReaderRecheck, ReaderNotify,
                  lifeVars, callVars, lineVars
    <3>4. CASE ReaderStore
      BY <3>4 DEF ReaderStore, lifeVars, callVars, lineVars
    <3>5. CASE ReaderSignal
      <4>1. CASE waiting = {}
        BY <3>5, <4>1 DEF ReaderSignal, lifeVars, lineVars
      <4>2. ASSUME NEW c \in waiting, Wake(c, "signal")
            PROVE  TypeOK'
        BY <3>5, <4>2 DEF ReaderSignal, Wake, lifeVars, lineVars
      <4> QED
        BY <3>5, <4>1, <4>2 DEF ReaderSignal
    <3> QED
      BY <2>6, <3>1, <3>2, <3>3, <3>4, <3>5 DEF Reader
  <2>7. CASE SpeakerTakes
    <3>1. Head(tx) \in Request /\ Tail(tx) \in Seq(Request)
      BY <2>7 DEF SpeakerTakes
    <3>2. Answer(Head(tx)) \in Packet
      BY <3>1 DEF Answer, Request, Packet
    <3>3. rx' \in Seq(Packet)
      <4>1. Append(rx, Answer(Head(tx))) \in Seq(Packet)
        BY <3>2, AppendProperties
      <4> QED
        BY <2>7, <4>1 DEF SpeakerTakes
    <3>4. PacketsTyped'
      BY <2>7, <3>1, <3>3 DEF SpeakerTakes, readerVars
    <3>5. ControlTyped' /\ CallsTyped'
      BY <2>7 DEF SpeakerTakes, lifeVars, callVars, readerVars
    <3> QED
      BY <3>4, <3>5, Zenon
  <2>8. ASSUME NEW p \in Unasked \cup {Garbled}, SpeakerSends(p)
        PROVE  TypeOK'
    <3>1. p \in Packet
      BY WordsTyped
    <3>2. rx' \in Seq(Packet)
      BY <2>8, <3>1 DEF SpeakerSends
    <3>3. ControlTyped' /\ CallsTyped'
      BY <2>8 DEF SpeakerSends, lifeVars, callVars, readerVars
    <3>4. PacketsTyped'
      BY <2>8, <3>2 DEF SpeakerSends, readerVars
    <3> QED
      BY <3>3, <3>4, Zenon
  <2>9. CASE UNCHANGED vars
    BY <2>9 DEF vars, lifeVars, callVars, readerVars, lineVars
  <2> QED
    BY <2>1, <2>2, <2>3, <2>4, <2>5, <2>6, <2>7, <2>8, <2>9,
       <2>10, <2>11 DEF Next
<1> QED
  BY <1>1, <1>2, PTL DEF Spec

-----------------------------------------------------------------------------
(* The inductive invariant *)

LEMMA InitSerialInv == Init => LifeInv /\ CallInv /\ OnlyHolderPublishes
                                /\ PendingBelongsToACall /\ ReaderHasPort
BY SerialAssumption
   DEF Init, LifeInv, CallInv, OnlyHolderPublishes, PendingBelongsToACall,
       ReaderHasPort, Holding

(* Steps that leave the operations, the mutex and Now_cmd_e alone. *)
LEMMA Bystanders ==
  ASSUME SerialInv, UNCHANGED <<pc, req, owner, nowCmd, waiting>>
  PROVE  CallInv' /\ OnlyHolderPublishes' /\ PendingBelongsToACall'
BY DEF SerialInv, CallInv, OnlyHolderPublishes, PendingBelongsToACall

(* A waiter wakes up. *)
LEMMA WakeKeepsInv ==
  ASSUME SerialInv, NEW c \in waiting, NEW why, Wake(c, why),
         UNCHANGED <<req, owner, nowCmd>>
  PROVE  CallInv' /\ OnlyHolderPublishes' /\ PendingBelongsToACall'
<1> USE DEF SerialInv, TypeOK, ControlTyped, CallsTyped
<1>1. c \in Callers /\ pc[c] = "waiting"
  BY DEF CallInv
<1>2. CallInv'
  BY <1>1 DEF CallInv, Wake
<1>3. OnlyHolderPublishes'
  BY <1>1 DEF OnlyHolderPublishes, Holding, Wake
<1>4. PendingBelongsToACall'
  BY <1>1 DEF PendingBelongsToACall, InFlight, Wake
<1> QED
  BY <1>2, <1>3, <1>4

(* An operation gives up while it holds the mutex, or with it free. *)
LEMMA GiveUpKeepsInv ==
  ASSUME SerialInv, NEW c \in Callers, NEW code, GiveUp(c, code),
         pc[c] \in Holding \/ (pc[c] = "woken" /\ owner = Nobody),
         UNCHANGED <<req, waiting>>
  PROVE  CallInv' /\ OnlyHolderPublishes' /\ PendingBelongsToACall'
<1> USE DEF SerialInv, TypeOK, ControlTyped, CallsTyped
<1>1. CallInv'
  BY DEF CallInv, GiveUp, Holding
<1>2. OnlyHolderPublishes'
  BY SerialAssumption DEF OnlyHolderPublishes, Holding, GiveUp
<1>3. PendingBelongsToACall'
  BY DEF PendingBelongsToACall, GiveUp
<1> QED
  BY <1>1, <1>2, <1>3

LEMMA OperationKeepsInv ==
  ASSUME SerialInv, NEW c \in Callers, Operation(c) \/ SpuriousWakeup(c)
  PROVE  CallInv' /\ OnlyHolderPublishes' /\ PendingBelongsToACall'
<1>3. CASE WriteFails(c) \/ WaitRefused(c)
  <2>1. UNCHANGED <<req, waiting>> /\ pc[c] \in Holding
    BY <1>3 DEF WriteFails, WaitRefused, Holding
  <2>2. GiveUp(c, "error") \/ GiveUp(c, "timeout")
    BY <1>3, Zenon DEF WriteFails, WaitRefused
  <2>3. CASE GiveUp(c, "error")
    BY <2>1, <2>3, GiveUpKeepsInv
  <2>4. CASE GiveUp(c, "timeout")
    BY <2>1, <2>4, GiveUpKeepsInv
  <2> QED
    BY <2>2, <2>3, <2>4
<1>5. CASE Timeout(c) \/ SpuriousWakeup(c)
  BY <1>5, WakeKeepsInv DEF Timeout, SpuriousWakeup
<1>6. CASE Resume(c) /\ woke[c] = "timeout"
  <2>1. GiveUp(c, "timeout") /\ UNCHANGED <<req, waiting>>
    BY <1>6, Zenon DEF Resume
  <2>2. pc[c] = "woken" /\ owner = Nobody
    BY <1>6 DEF Resume
  <2> QED
    BY <2>1, <2>2, GiveUpKeepsInv
<1> USE DEF SerialInv, TypeOK, ControlTyped, CallsTyped
<1>1. CASE Acquire(c)
  <2>1. CallInv'
    BY <1>1 DEF CallInv, Acquire
  <2>2. OnlyHolderPublishes'
    BY <1>1, SerialAssumption DEF OnlyHolderPublishes, Holding, Acquire
  <2>3. PendingBelongsToACall'
    BY <1>1 DEF PendingBelongsToACall, InFlight, Acquire
  <2> QED
    BY <2>1, <2>2, <2>3
<1>2. CASE WriteOk(c)
  <2>1. CallInv'
    BY <1>2 DEF CallInv, WriteOk
  <2>2. OnlyHolderPublishes'
    BY <1>2 DEF OnlyHolderPublishes, Holding, WriteOk
  <2>3. PendingBelongsToACall'
    BY <1>2 DEF PendingBelongsToACall, InFlight, WriteOk
  <2> QED
    BY <2>1, <2>2, <2>3
<1>4. CASE Wait(c)
  <2>1. CallInv'
    BY <1>4 DEF CallInv, Wait
  <2>2. OnlyHolderPublishes'
    BY <1>4, SerialAssumption DEF OnlyHolderPublishes, Holding, Wait
  <2>3. PendingBelongsToACall'
    BY <1>4 DEF PendingBelongsToACall, InFlight, Wait
  <2> QED
    BY <2>1, <2>2, <2>3
<1>7. CASE Resume(c) /\ woke[c] # "timeout"
  <2>1. CallInv'
    BY <1>7 DEF CallInv, Resume
  <2>2. OnlyHolderPublishes'
    BY <1>7, SerialAssumption DEF OnlyHolderPublishes, Holding, Resume
  <2>3. PendingBelongsToACall'
    BY <1>7 DEF PendingBelongsToACall, Resume
  <2> QED
    BY <2>1, <2>2, <2>3
<1>8. CASE ReturnReply(c)
  <2>1. CallInv'
    BY <1>8 DEF CallInv, ReturnReply
  <2>2. OnlyHolderPublishes'
    BY <1>8 DEF OnlyHolderPublishes, Holding, ReturnReply
  <2>3. PendingBelongsToACall'
    BY <1>8 DEF PendingBelongsToACall, InFlight, ReturnReply
  <2> QED
    BY <2>1, <2>2, <2>3
<1> QED
  BY <1>1, <1>2, <1>3, <1>4, <1>5, <1>6, <1>7, <1>8 DEF Operation

LEMMA ReaderKeepsInv ==
  ASSUME SerialInv, Reader
  PROVE  CallInv' /\ OnlyHolderPublishes' /\ PendingBelongsToACall'
<1>1. CASE ReaderSignal /\ waiting # {}
  <2>1. PICK c \in waiting : Wake(c, "signal")
    BY <1>1 DEF ReaderSignal
  <2>2. UNCHANGED <<req, owner, nowCmd>>
    BY <1>1 DEF ReaderSignal
  <2> QED
    BY <2>1, <2>2, WakeKeepsInv
<1>2. CASE ~(ReaderSignal /\ waiting # {})
  <2>1. UNCHANGED <<pc, req, owner, nowCmd, waiting>>
    BY <1>2 DEF Reader, ReaderTop, ReaderNothing, ReaderParse, ReaderCompare,
                ReaderRecheck, ReaderStore, ReaderSignal, ReaderNotify, callVars
  <2> QED
    BY <2>1, Bystanders
<1> QED
  BY <1>1, <1>2

LEMMA CallsKeepInv ==
  ASSUME SerialInv, [Next]_vars
  PROVE  CallInv' /\ OnlyHolderPublishes' /\ PendingBelongsToACall'
<1>1. CASE IniSer
  <2>1. phase = "new" /\ nowCmd = Unknown
    BY <1>1 DEF IniSer, SerialInv, LifeInv
  <2>2. UNCHANGED <<pc, req, owner, nowCmd, waiting>>
    BY <1>1, <2>1 DEF IniSer, callVars
  <2> QED
    BY <2>2, Bystanders
<1>2. ASSUME NEW c \in Callers, NEW k \in Commands, Call(c, k)
      PROVE  CallInv' /\ OnlyHolderPublishes' /\ PendingBelongsToACall'
  <2> USE DEF SerialInv, TypeOK, ControlTyped, CallsTyped
  <2>1. CallInv'
    BY <1>2 DEF CallInv, Call
  <2>2. OnlyHolderPublishes'
    BY <1>2 DEF OnlyHolderPublishes, Holding, Call
  <2>3. PendingBelongsToACall'
    BY <1>2 DEF PendingBelongsToACall, InFlight, Call
  <2> QED
    BY <2>1, <2>2, <2>3
<1>3. ASSUME NEW c \in Callers, Operation(c) \/ SpuriousWakeup(c)
      PROVE  CallInv' /\ OnlyHolderPublishes' /\ PendingBelongsToACall'
  BY <1>3, OperationKeepsInv
<1>4. CASE Reader
  BY <1>4, ReaderKeepsInv
<1>5. CASE \/ IniSerOpenFails \/ DeInitRequest \/ DeInitClose \/ DeInitDestroy
           \/ SpeakerTakes \/ UNCHANGED vars
           \/ \E p \in Unasked \cup {Garbled} : SpeakerSends(p)
  <2>1. UNCHANGED <<pc, req, owner, nowCmd, waiting>>
    BY <1>5 DEF IniSerOpenFails, DeInitRequest, DeInitClose, DeInitDestroy,
                SpeakerTakes, SpeakerSends, callVars, vars
  <2> QED
    BY <2>1, Bystanders
<1> QED
  BY <1>1, <1>2, <1>3, <1>4, <1>5 DEF Next

LEMMA LifeKeepsInv ==
  ASSUME SerialInv, [Next]_vars
  PROVE  LifeInv' /\ ReaderHasPort'
<1> USE DEF SerialInv, LifeInv, ReaderHasPort
<1>1. CASE \/ IniSer \/ IniSerOpenFails
           \/ DeInitRequest \/ DeInitClose \/ DeInitDestroy
  BY <1>1 DEF IniSer, IniSerOpenFails, DeInitRequest, DeInitClose,
              DeInitDestroy, callVars, readerVars
<1>2. ASSUME NEW c \in Callers, NEW k \in Commands, Call(c, k)
      PROVE  LifeInv' /\ ReaderHasPort'
  BY <1>2 DEF Call, lifeVars, readerVars
<1>3. ASSUME NEW c \in Callers, Operation(c) \/ SpuriousWakeup(c)
      PROVE  LifeInv' /\ ReaderHasPort'
  <2>1. pc[c] # "idle"
    BY <1>3 DEF Operation, Acquire, WriteOk, WriteFails, Wait, WaitRefused,
                Timeout, Resume, ReturnReply, SpuriousWakeup, CallInv
  <2>2. UNCHANGED <<phase, port, flag, rpc>>
    BY <1>3 DEF Operation, Acquire, WriteOk, WriteFails, Wait, WaitRefused,
                Timeout, Resume, ReturnReply, SpuriousWakeup, lifeVars,
                readerVars
  <2> QED
    BY <2>1, <2>2
<1>4. CASE Reader
  <2>1. rpc \notin {"absent", "exited"}
    BY <1>4 DEF Reader, ReaderTop, ReaderNothing, ReaderParse, ReaderCompare,
                ReaderRecheck, ReaderStore, ReaderSignal, ReaderNotify
  <2>2. UNCHANGED <<phase, port>>
    BY <1>4 DEF Reader, ReaderTop, ReaderNothing, ReaderParse, ReaderCompare,
                ReaderRecheck, ReaderStore, ReaderSignal, ReaderNotify, lifeVars
  <2>3. rpc' # "absent" /\ (flag' = 2 => rpc' = "exited")
    BY <1>4, <2>1 DEF Reader, ReaderTop, ReaderNothing, ReaderParse,
                ReaderCompare, ReaderRecheck, ReaderStore, ReaderSignal,
                ReaderNotify, lifeVars
  <2> QED
    BY <2>1, <2>2, <2>3
<1>5. CASE \/ SpeakerTakes \/ UNCHANGED vars
           \/ \E p \in Unasked \cup {Garbled} : SpeakerSends(p)
  BY <1>5 DEF SpeakerTakes, SpeakerSends, vars, lifeVars, callVars, readerVars
<1> QED
  BY <1>1, <1>2, <1>3, <1>4, <1>5 DEF Next

(* The invariant the safety theorems rest on. *)
THEOREM InvariantHolds == Spec => []SerialInv
<1>1. Init => LifeInv /\ CallInv /\ OnlyHolderPublishes
                /\ PendingBelongsToACall /\ ReaderHasPort
  BY InitSerialInv
<1>2. SerialInv /\ TypeOK' /\ [Next]_vars => SerialInv'
  BY CallsKeepInv, LifeKeepsInv DEF SerialInv
<1>3. TypeOK /\ LifeInv /\ CallInv /\ OnlyHolderPublishes
        /\ PendingBelongsToACall /\ ReaderHasPort => SerialInv
  BY DEF SerialInv
<1> QED
  BY <1>1, <1>2, <1>3, TypeCorrect, PTL DEF Spec

(* Between locking m_mutex and blocking on m_cond an operation is alone with
   Now_cmd_e. *)
THEOREM PublishingIsExclusive == Spec => []OnlyHolderPublishes
BY InvariantHolds, PTL DEF SerialInv

(* The port outlives the reader. *)
THEOREM PortOutlivesReader == Spec => []ReaderHasPort
BY InvariantHolds, PTL DEF SerialInv
-----------------------------------------------------------------------------
(* The operations implement CommandSlot *)

LEMMA SlotStutters ==
  ASSUME SerialInv, nowCmd' = nowCmd,
         \A c \in Callers : UnderWay'[c] = UnderWay[c]
  PROVE  UNCHANGED <<UnderWay, nowCmd>>
BY DEF UnderWay

LEMMA SlotFinishes ==
  ASSUME SerialInv, NEW c \in Callers, pc[c] \in InFlight,
         pc'[c] \notin InFlight, nowCmd' = Unknown, UNCHANGED req,
         \A d \in Callers \ {c} : pc'[d] = pc[d]
  PROVE  Slot!Finish(c)
<1>1. UnderWay[c] # Unknown
  BY SerialAssumption DEF UnderWay, SerialInv, CallInv, InFlight
<1>2. UnderWay' = [UnderWay EXCEPT ![c] = Unknown]
  <2>1. \A d \in Callers :
           UnderWay'[d] = IF d = c THEN Unknown ELSE UnderWay[d]
    BY DEF UnderWay
  <2>2. UnderWay' = [d \in Callers |-> UnderWay'[d]]
    BY DEF UnderWay
  <2>3. [UnderWay EXCEPT ![c] = Unknown]
           = [d \in Callers |-> IF d = c THEN Unknown ELSE UnderWay[d]]
    BY DEF UnderWay
  <2> QED
    BY <2>1, <2>2, <2>3
<1> QED
  BY <1>1, <1>2 DEF Slot!Finish

LEMMA OperationRefinesSlot ==
  ASSUME SerialInv, NEW c \in Callers, Operation(c) \/ SpuriousWakeup(c)
  PROVE  [Slot!Next]_<<UnderWay, nowCmd>>
<1> USE DEF SerialInv, TypeOK, ControlTyped, CallsTyped
<1>1. CASE Acquire(c)
  <2>1. UnderWay[c] = Unknown
    BY <1>1 DEF Acquire, UnderWay, InFlight
  <2>2. UnderWay' = [UnderWay EXCEPT ![c] = req[c].cmd]
    BY <1>1 DEF Acquire, UnderWay, InFlight
  <2>3. req[c].cmd \in Commands
    BY <1>1 DEF Acquire, CallInv
  <2>4. nowCmd' = req[c].cmd
    BY <1>1 DEF Acquire
  <2>5. Slot!Start(c, req[c].cmd)
    BY <2>1, <2>2, <2>4 DEF Slot!Start
  <2> QED
    BY <2>3, <2>5 DEF Slot!Next
<1>2. CASE \/ WriteOk(c) \/ Wait(c) \/ Timeout(c) \/ SpuriousWakeup(c)
           \/ ReturnReply(c)
  <2>1. nowCmd' = nowCmd /\ req' = req
    BY <1>2 DEF WriteOk, Wait, Timeout, SpuriousWakeup, ReturnReply
  <2>2. \A d \in Callers : pc'[d] \in InFlight <=> pc[d] \in InFlight
    BY <1>2 DEF WriteOk, Wait, Timeout, SpuriousWakeup, ReturnReply, Wake,
                InFlight, CallInv
  <2>3. \A d \in Callers : UnderWay'[d] = UnderWay[d]
    BY <2>1, <2>2 DEF UnderWay
  <2> QED
    BY <2>1, <2>3, SlotStutters
<1>3. CASE WriteFails(c) \/ WaitRefused(c) \/ Resume(c)
  <2>1. pc[c] \in InFlight /\ req' = req
    BY <1>3 DEF WriteFails, WaitRefused, Resume, InFlight
  <2>2. /\ pc'[c] \notin InFlight
        /\ nowCmd' = Unknown
        /\ \A d \in Callers \ {c} : pc'[d] = pc[d]
    BY <1>3 DEF WriteFails, WaitRefused, Resume, GiveUp, InFlight
  <2>3. Slot!Finish(c)
    BY <2>1, <2>2, SlotFinishes
  <2> QED
    BY <2>3 DEF Slot!Next
<1> QED
  BY <1>1, <1>2, <1>3 DEF Operation

(* Every step of the driver starts an operation's claim on the slot, ends
   one, or leaves slot and claims alone. *)
THEOREM ImplementsSlot == Spec => Slot!Spec
<1>1. Init => Slot!Init
  BY DEF Init, Slot!Init, UnderWay, InFlight
<1>2. SerialInv /\ [Next]_vars => [Slot!Next]_<<UnderWay, nowCmd>>
  <2> SUFFICES ASSUME SerialInv, [Next]_vars
               PROVE  [Slot!Next]_<<UnderWay, nowCmd>>
    OBVIOUS
  <2> USE DEF SerialInv, TypeOK, ControlTyped, CallsTyped
  <2>1. ASSUME NEW c \in Callers, Operation(c) \/ SpuriousWakeup(c)
        PROVE  [Slot!Next]_<<UnderWay, nowCmd>>
    BY <2>1, OperationRefinesSlot
  <2>2. ASSUME NEW c \in Callers, NEW k \in Commands, Call(c, k)
        PROVE  [Slot!Next]_<<UnderWay, nowCmd>>
    <3>1. \A d \in Callers : UnderWay'[d] = UnderWay[d]
      BY <2>2 DEF Call, UnderWay, InFlight
    <3> QED
      BY <2>2, <3>1, SlotStutters DEF Call
  <2>3. CASE Reader
    <3>1. nowCmd' = nowCmd /\ req' = req
      BY <2>3 DEF Reader, ReaderTop, ReaderNothing, ReaderParse,
                  ReaderCompare, ReaderRecheck, ReaderStore, ReaderSignal,
                  ReaderNotify, callVars
    <3>2. \A d \in Callers : pc'[d] \in InFlight <=> pc[d] \in InFlight
      BY <2>3 DEF Reader, ReaderTop, ReaderNothing, ReaderParse,
                  ReaderCompare, ReaderRecheck, ReaderStore, ReaderSignal,
                  ReaderNotify, callVars, Wake, InFlight, CallInv
    <3>3. \A d \in Callers : UnderWay'[d] = UnderWay[d]
      BY <3>1, <3>2 DEF UnderWay
    <3> QED
      BY <3>1, <3>3, SlotStutters
  <2>4. CASE \/ IniSer \/ IniSerOpenFails
             \/ DeInitRequest \/ DeInitClose \/ DeInitDestroy
             \/ SpeakerTakes \/ UNCHANGED vars
             \/ \E p \in Unasked \cup {Garbled} : SpeakerSends(p)
    <3>1. UNCHANGED <<pc, req, nowCmd>>
      BY <2>4 DEF IniSer, IniSerOpenFails, DeInitRequest, DeInitClose,
                  DeInitDestroy, SpeakerTakes, SpeakerSends, vars, callVars,
                  LifeInv
    <3>2. \A d \in Callers : UnderWay'[d] = UnderWay[d]
      BY <3>1 DEF UnderWay
    <3> QED
      BY <3>1, <3>2, SlotStutters
  <2> QED
    BY <2>1, <2>2, <2>3, <2>4 DEF Next
<1> QED
  BY <1>1, <1>2, InvariantHolds, PTL DEF Spec, Slot!Spec

-----------------------------------------------------------------------------
(* Answers do not shift: an operation that has its turn gets its own answer. *)

\* The reader holds a packet it has taken for the answer.
Carrying == {"compare", "recheck", "store", "signal"}

LineEmpty == tx = <<>> /\ rx = <<>> /\ rpc \notin Carrying \cup {"notify"}

\* Nothing but the request r, or the answer to it, is anywhere between the
\* operation and the reader; and it is in one place only.
LineHas(r) ==
  \/ LineEmpty
  \/ tx = <<r>> /\ rx = <<>> /\ rpc \notin Carrying \cup {"notify"}
  \/ tx = <<>> /\ rx = <<Answer(r)>> /\ rpc \notin Carrying \cup {"notify"}
  \/ /\ tx = <<>> /\ rx = <<>>
     /\ rpc \in Carrying /\ packet = Answer(r)
     /\ rpc = "signal" => sRead = packet

Awaits(c) == pc[c] \in {"armed", "waiting"} \/ (pc[c] = "woken" /\ woke[c] = "timeout")
Answered(c) == pc[c] = "return" \/ (pc[c] = "woken" /\ woke[c] # "timeout")

OneAtATime ==
  \A c, d \in Callers : pc[c] \in Unfinished /\ pc[d] \in Unfinished => c = d
Published == \A c \in Callers : pc[c] \in InFlight => nowCmd = req[c].cmd
OnTheLine ==
  /\ (\A c \in Callers : ~Awaits(c)) => LineEmpty
  /\ \A c \in Callers : Awaits(c) => LineHas(req[c])
AnswerKept == \A c \in Callers : Answered(c) => sRead.ticket = req[c].ticket
OwnReturned ==
  \A c \in Callers :
    pc[c] = "idle" /\ ret[c].code = "ok" => ret[c].packet.ticket = req[c].ticket

Orderly == OneAtATime /\ Published /\ OnTheLine /\ AnswerKept /\ OwnReturned
TurnsInv == ~disturbed => Orderly

LEMMA Singleton ==
  ASSUME NEW x
  PROVE  /\ <<x>> # <<>> /\ Head(<<x>>) = x /\ Tail(<<x>>) = <<>>
         /\ Append(<<>>, x) = <<x>>
OBVIOUS

LEMMA DisturbedForGood == SerialInv /\ [Next]_vars /\ ~disturbed' => ~disturbed
BY DEF Next, vars, IniSer, IniSerOpenFails, DeInitRequest, DeInitClose,
       DeInitDestroy, Call, Operation, Acquire, WriteOk, WriteFails, Wait,
       WaitRefused, Timeout, Resume, ReturnReply, GiveUp, SpuriousWakeup,
       Reader, ReaderTop, ReaderNothing, ReaderParse, ReaderCompare,
       ReaderRecheck, ReaderStore, ReaderSignal, ReaderNotify, SpeakerTakes,
       SpeakerSends

\* Whoever awaits an answer is the only one to do so, and its command is the
\* one published.
LEMMA TheAwaited ==
  ASSUME SerialInv, Orderly, ~LineEmpty
  PROVE  \E c \in Callers :
           /\ Awaits(c) /\ LineHas(req[c])
           /\ nowCmd = req[c].cmd /\ nowCmd # Unknown
           /\ \A d \in Callers : pc[d] \in Unfinished => d = c
<1>1. PICK c \in Callers : Awaits(c)
  BY DEF Orderly, OnTheLine
<1>2. pc[c] \in {"armed", "waiting", "woken"}
  BY <1>1 DEF Awaits
<1>3. LineHas(req[c])
  BY <1>1 DEF Orderly, OnTheLine
<1>4. nowCmd = req[c].cmd
  BY <1>2 DEF Orderly, Published, InFlight
<1>5. req[c].cmd # Unknown
  BY <1>2, SerialAssumption DEF SerialInv, CallInv
<1>6. \A d \in Callers : pc[d] \in Unfinished => d = c
  BY <1>2 DEF Orderly, OneAtATime, Unfinished, InFlight
<1> QED
  BY <1>1, <1>3, <1>4, <1>5, <1>6

\* What moves along the line leaves the operations as they are.
LEMMA LineMoves ==
  ASSUME SerialInv, Orderly, ~LineEmpty, UNCHANGED <<pc, req, woke, ret, nowCmd>>,
         NEW c \in Callers, Awaits(c), LineHas(req[c])',
         \A d \in Callers : pc[d] \in Unfinished => d = c
  PROVE  Orderly'
<1>1. OneAtATime' /\ Published' /\ OwnReturned'
  BY DEF Orderly, OneAtATime, Published, OwnReturned
<1>2. \A d \in Callers : Awaits(d)' <=> Awaits(d)
  BY DEF Awaits
<1>3. \A d \in Callers : Awaits(d) => d = c
  BY DEF Awaits, Unfinished, InFlight
<1>4. OnTheLine'
  BY <1>2, <1>3 DEF OnTheLine
<1>5. AnswerKept'
  <2>1. \A d \in Callers : ~Answered(d)
    BY DEF Answered, Awaits, Unfinished, InFlight
  <2> QED
    BY <2>1 DEF AnswerKept, Answered
<1> QED
  BY <1>1, <1>4, <1>5 DEF Orderly

LEMMA ReaderKeepsOrder ==
  ASSUME SerialInv, Orderly, Reader
  PROVE  Orderly'
<1> USE DEF SerialInv, TypeOK, ControlTyped, CallsTyped
<1>1. CASE ReaderTop \/ ReaderNothing
  <2>1. UNCHANGED <<pc, req, woke, ret, nowCmd, tx, rx, sRead, packet>>
    BY <1>1 DEF ReaderTop, ReaderNothing, callVars, lineVars
  <2>2. /\ rpc \notin Carrying \cup {"notify"}
        /\ rpc' \notin Carrying \cup {"notify"}
    BY <1>1 DEF ReaderTop, ReaderNothing, Carrying
  <2>3. LineEmpty' <=> LineEmpty
    BY <2>1, <2>2 DEF LineEmpty
  <2>4. \A c \in Callers : LineHas(req[c]) => LineHas(req[c])'
    BY <2>1, <2>2, <2>3 DEF LineHas
  <2>5. OnTheLine'
    BY <2>1, <2>3, <2>4 DEF Orderly, OnTheLine, Awaits
  <2> QED
    BY <2>1, <2>5 DEF Orderly, OneAtATime, Published, AnswerKept, Answered,
                      OwnReturned
<1>2. CASE ReaderParse
  <2>1. UNCHANGED <<pc, req, woke, ret, nowCmd>> /\ rpc = "read" /\ rx # <<>>
    BY <1>2 DEF ReaderParse, callVars
  <2>2. ~LineEmpty
    BY <2>1 DEF LineEmpty
  <2>3. PICK c \in Callers :
               /\ Awaits(c) /\ LineHas(req[c])
               /\ nowCmd = req[c].cmd /\ nowCmd # Unknown
               /\ \A d \in Callers : pc[d] \in Unfinished => d = c
    BY <2>2, TheAwaited
  <2>4. tx = <<>> /\ rx = <<Answer(req[c])>>
    BY <2>1, <2>2, <2>3 DEF LineHas, Carrying
  <2>5. Head(rx) = Answer(req[c]) /\ Tail(rx) = <<>>
    BY <2>4, Singleton
  <2>6. Head(rx).sane /\ Head(rx).cmd # Unknown
    BY <2>3, <2>5 DEF Answer
  <2>7. rpc' = "compare" /\ packet' = Answer(req[c]) /\ rx' = <<>> /\ tx' = <<>>
    BY <1>2, <2>4, <2>5, <2>6 DEF ReaderParse
  <2>8. LineHas(req[c])'
    BY <2>1, <2>7 DEF LineHas, Carrying, Answer
  <2> QED
    BY <2>1, <2>2, <2>3, <2>8, LineMoves
<1>3. CASE ReaderCompare \/ ReaderRecheck \/ ReaderStore
  <2>1. UNCHANGED <<pc, req, woke, ret, nowCmd, tx, rx, packet>>
    BY <1>3 DEF ReaderCompare, ReaderRecheck, ReaderStore, callVars, lineVars
  <2>2. rpc \in {"compare", "recheck", "store"}
    BY <1>3 DEF ReaderCompare, ReaderRecheck, ReaderStore
  <2>3. ~LineEmpty
    BY <2>2 DEF LineEmpty, Carrying
  <2>4. PICK c \in Callers :
               /\ Awaits(c) /\ LineHas(req[c])
               /\ nowCmd = req[c].cmd /\ nowCmd # Unknown
               /\ \A d \in Callers : pc[d] \in Unfinished => d = c
    BY <2>3, TheAwaited
  <2>5. tx = <<>> /\ rx = <<>> /\ packet = Answer(req[c])
    BY <2>2, <2>3, <2>4 DEF LineHas, Carrying
  <2>6. packet.cmd = nowCmd
    BY <2>4, <2>5 DEF Answer
  <2>7. rpc' \in Carrying /\ (rpc' = "signal" => sRead' = packet)
    BY <1>3, <2>4, <2>6 DEF ReaderCompare, ReaderRecheck, ReaderStore, Carrying
  <2>8. LineHas(req[c])'
    BY <2>1, <2>5, <2>7 DEF LineHas, Answer
  <2> QED
    BY <2>1, <2>3, <2>4, <2>8, LineMoves
<1>4. CASE ReaderSignal
  <2>1. UNCHANGED <<req, ret, nowCmd, tx, rx, sRead>>
    BY <1>4 DEF ReaderSignal, lineVars
  <2>2. rpc = "signal" /\ rpc' = "top"
    BY <1>4 DEF ReaderSignal
  <2>3. ~LineEmpty
    BY <2>2 DEF LineEmpty, Carrying
  <2>4. PICK c \in Callers :
               /\ Awaits(c) /\ LineHas(req[c])
               /\ nowCmd = req[c].cmd /\ nowCmd # Unknown
               /\ \A d \in Callers : pc[d] \in Unfinished => d = c
    BY <2>3, TheAwaited
  <2>5. tx = <<>> /\ rx = <<>> /\ packet = Answer(req[c]) /\ sRead = packet
    BY <2>2, <2>3, <2>4 DEF LineHas, Carrying
  <2>6. LineEmpty'
    BY <2>1, <2>2, <2>5 DEF LineEmpty, Carrying
  <2>7. \A d \in Callers : LineHas(req[d])'
    BY <2>6 DEF LineHas
  <2>8. OnTheLine'
    BY <2>6, <2>7 DEF OnTheLine
  <2>9. CASE waiting = {}
    <3>1. UNCHANGED <<pc, woke>>
      BY <1>4, <2>9 DEF ReaderSignal
    <3> QED
      BY <2>1, <2>8, <3>1 DEF Orderly, OneAtATime, Published, AnswerKept,
                              Answered, OwnReturned
  <2>10. CASE waiting # {}
    <3>1. PICK w \in waiting : Wake(w, "signal")
      BY <1>4, <2>10 DEF ReaderSignal
    <3>2. w = c /\ pc[c] = "waiting"
      BY <2>4, <3>1 DEF CallInv, Unfinished, InFlight
    <3>3. pc' = [pc EXCEPT ![c] = "woken"] /\ woke' = [woke EXCEPT ![c] = "signal"]
      BY <3>1, <3>2 DEF Wake
    <3>4. OneAtATime'
      BY <3>2, <3>3 DEF Orderly, OneAtATime, Unfinished, InFlight
    <3>5. Published'
      BY <2>1, <3>2, <3>3 DEF Orderly, Published, InFlight
    <3>6. AnswerKept'
      <4>1. sRead.ticket = req[c].ticket
        BY <2>5 DEF Answer
      <4>2. \A d \in Callers \ {c} : Answered(d)' => Answered(d)
        BY <3>3 DEF Answered
      <4> QED
        BY <2>1, <4>1, <4>2 DEF Orderly, AnswerKept
    <3>7. OwnReturned'
      BY <2>1, <3>2, <3>3 DEF Orderly, OwnReturned
    <3> QED
      BY <2>8, <3>4, <3>5, <3>6, <3>7 DEF Orderly
  <2> QED
    BY <2>9, <2>10
<1>5. CASE ReaderNotify
  <2>1. ~LineEmpty
    BY <1>5 DEF ReaderNotify, LineEmpty
  <2>2. \A r : ~LineHas(r)
    BY <1>5, <2>1 DEF ReaderNotify, LineHas, Carrying
  <2> QED
    BY <2>1, <2>2, TheAwaited
<1> QED
  BY <1>1, <1>2, <1>3, <1>4, <1>5 DEF Reader

LEMMA OperationKeepsOrder ==
  ASSUME SerialInv, Orderly, NEW c \in Callers,
         Operation(c) \/ SpuriousWakeup(c), ~disturbed'
  PROVE  Orderly'
<1> USE DEF SerialInv, TypeOK, ControlTyped, CallsTyped
<1>1. ASSUME pc[c] \in Unfinished
      PROVE  \A d \in Callers : pc[d] \in Unfinished => d = c
  BY <1>1 DEF Orderly, OneAtATime
<1>2. CASE Acquire(c)
  <2>1. /\ pc[c] = "lock" /\ pc' = [pc EXCEPT ![c] = "write"]
        /\ nowCmd' = req[c].cmd
        /\ UNCHANGED <<req, woke, ret, sRead, tx, rx, rpc, packet>>
    BY <1>2 DEF Acquire, readerVars, lineVars
  <2>2. \A d \in Callers : pc[d] \notin Unfinished
    BY <1>2 DEF Acquire
  <2>3. \A d \in Callers : pc'[d] \in Unfinished => d = c
    BY <2>1, <2>2
  <2>4. LineEmpty
    BY <2>2 DEF Orderly, OnTheLine, Awaits, Unfinished, InFlight
  <2>5. LineEmpty' /\ \A r : LineHas(r)'
    BY <2>1, <2>4 DEF LineEmpty, LineHas
  <2>6. OneAtATime' /\ OnTheLine'
    BY <2>3, <2>5 DEF OneAtATime, OnTheLine
  <2>7. Published'
    BY <2>1, <2>3 DEF Published, Unfinished
  <2>8. AnswerKept'
    BY <2>1, <2>3 DEF AnswerKept, Answered, Unfinished, InFlight
  <2>9. OwnReturned'
    BY <2>1 DEF Orderly, OwnReturned
  <2> QED
    BY <2>6, <2>7, <2>8, <2>9 DEF Orderly
<1>3. CASE WriteOk(c)
  <2>1. /\ pc[c] = "write" /\ pc' = [pc EXCEPT ![c] = "armed"]
        /\ tx' = Append(tx, req[c])
        /\ UNCHANGED <<req, woke, ret, nowCmd, sRead, rx, rpc, packet>>
    BY <1>3 DEF WriteOk, readerVars
  <2>2. \A d \in Callers : pc[d] \in Unfinished => d = c
    BY <1>1, <2>1 DEF Unfinished, InFlight
  <2>3. LineEmpty
    BY <2>1, <2>2 DEF Orderly, OnTheLine, Awaits, Unfinished, InFlight
  <2>4. tx' = <<req[c]>>
    BY <2>1, <2>3, Singleton DEF LineEmpty
  <2>5. LineHas(req[c])'
    BY <2>1, <2>3, <2>4 DEF LineEmpty, LineHas
  <2>6. \A d \in Callers : pc'[d] \in Unfinished => d = c
    BY <2>1, <2>2
  <2>7. Awaits(c)' /\ \A d \in Callers : Awaits(d)' => d = c
    BY <2>1, <2>6 DEF Awaits, Unfinished, InFlight
  <2>8. OneAtATime' /\ OnTheLine'
    BY <2>5, <2>6, <2>7 DEF OneAtATime, OnTheLine
  <2>9. Published' /\ AnswerKept' /\ OwnReturned'
    BY <2>1 DEF Orderly, Published, AnswerKept, Answered, OwnReturned, InFlight
  <2> QED
    BY <2>8, <2>9 DEF Orderly
<1>4. CASE WriteFails(c) \/ WaitRefused(c) \/ SpuriousWakeup(c)
  BY <1>4 DEF WriteFails, WaitRefused, SpuriousWakeup, GiveUp
<1>5. CASE Wait(c) \/ Timeout(c)
  <2>1. /\ pc[c] \in {"armed", "waiting"}
        /\ \/ pc' = [pc EXCEPT ![c] = "waiting"] /\ woke' = woke
           \/ /\ pc' = [pc EXCEPT ![c] = "woken"]
              /\ woke' = [woke EXCEPT ![c] = "timeout"]
        /\ UNCHANGED <<req, ret, nowCmd, sRead, tx, rx, rpc, packet>>
    BY <1>5 DEF Wait, Timeout, Wake, readerVars, lineVars, CallInv
  <2>2. \A d \in Callers : Awaits(d)' <=> Awaits(d)
    BY <2>1 DEF Awaits
  <2>3. LineEmpty' <=> LineEmpty
    BY <2>1 DEF LineEmpty
  <2>4. \A d \in Callers : LineHas(req[d]) => LineHas(req[d])'
    BY <2>1, <2>3 DEF LineHas
  <2>5. OnTheLine'
    BY <2>2, <2>3, <2>4 DEF Orderly, OnTheLine
  <2>6. OneAtATime'
    BY <2>1 DEF Orderly, OneAtATime, Unfinished, InFlight
  <2>7. Published' /\ AnswerKept' /\ OwnReturned'
    BY <2>1 DEF Orderly, Published, AnswerKept, Answered, OwnReturned, InFlight
  <2> QED
    BY <2>5, <2>6, <2>7 DEF Orderly
<1>6. CASE Resume(c)
  <2>1. woke[c] # "timeout"
    BY <1>6 DEF Resume, GiveUp
  <2>2. /\ pc[c] = "woken" /\ pc' = [pc EXCEPT ![c] = "return"]
        /\ UNCHANGED <<req, woke, ret, sRead, tx, rx, rpc, packet>>
    BY <1>6, <2>1 DEF Resume, readerVars, lineVars
  <2>3. \A d \in Callers : pc'[d] \in Unfinished => d = c
    BY <1>1, <2>2 DEF Unfinished, InFlight
  <2>4. \A d \in Callers : Awaits(d)' <=> Awaits(d)
    BY <2>1, <2>2 DEF Awaits
  <2>5. LineEmpty' <=> LineEmpty
    BY <2>2 DEF LineEmpty
  <2>6. \A d \in Callers : LineHas(req[d]) => LineHas(req[d])'
    BY <2>2, <2>5 DEF LineHas
  <2>7. OneAtATime' /\ OnTheLine'
    BY <2>3, <2>4, <2>5, <2>6 DEF Orderly, OneAtATime, OnTheLine
  <2>8. Published'
    BY <2>2, <2>3 DEF Published, Unfinished, InFlight
  <2>9. AnswerKept' /\ OwnReturned'
    BY <2>1, <2>2 DEF Orderly, AnswerKept, Answered, OwnReturned
  <2> QED
    BY <2>7, <2>8, <2>9 DEF Orderly
<1>7. CASE ReturnReply(c)
  <2>1. /\ pc[c] = "return" /\ pc' = [pc EXCEPT ![c] = "idle"]
        /\ ret' = [ret EXCEPT ![c] = [code |-> "ok", packet |-> sRead]]
        /\ UNCHANGED <<req, woke, nowCmd, sRead, tx, rx, rpc, packet>>
    BY <1>7 DEF ReturnReply, readerVars, lineVars
  <2>2. sRead.ticket = req[c].ticket
    BY <2>1 DEF Orderly, AnswerKept, Answered
  <2>3. ret'[c].packet.ticket = req[c].ticket
    BY <2>1, <2>2
  <2>4. OwnReturned'
    BY <2>1, <2>3 DEF Orderly, OwnReturned
  <2>5. \A d \in Callers : Awaits(d)' <=> Awaits(d)
    BY <2>1 DEF Awaits
  <2>6. LineEmpty' <=> LineEmpty
    BY <2>1 DEF LineEmpty
  <2>7. \A d \in Callers : LineHas(req[d]) => LineHas(req[d])'
    BY <2>1, <2>6 DEF LineHas
  <2>8. OnTheLine'
    BY <2>5, <2>6, <2>7 DEF Orderly, OnTheLine
  <2>9. OneAtATime' /\ Published' /\ AnswerKept'
    BY <2>1 DEF Orderly, OneAtATime, Published, AnswerKept, Answered,
                Unfinished, InFlight
  <2> QED
    BY <2>4, <2>8, <2>9 DEF Orderly
<1> QED
  BY <1>2, <1>3, <1>4, <1>5, <1>6, <1>7 DEF Operation

\* iniSer, deInitSer, a thread that enters an operation, and the speaker.
LEMMA OthersKeepOrder ==
  ASSUME SerialInv, Orderly, [Next]_vars, ~disturbed',
         ~Reader, \A c \in Callers : ~(Operation(c) \/ SpuriousWakeup(c))
  PROVE  Orderly'
<1> USE DEF SerialInv, TypeOK, ControlTyped, CallsTyped
<1>1. CASE IniSerOpenFails \/ DeInitRequest \/ DeInitClose \/ DeInitDestroy
           \/ UNCHANGED vars
  <2>1. UNCHANGED <<pc, req, woke, ret, nowCmd, sRead, tx, rx, rpc, packet>>
    BY <1>1 DEF IniSerOpenFails, DeInitRequest, DeInitClose, DeInitDestroy,
                vars, callVars, readerVars, lineVars
  <2>2. UNCHANGED LineEmpty /\ \A r : LineHas(r) => LineHas(r)'
    BY <2>1 DEF LineEmpty, LineHas
  <2>3. OnTheLine'
    BY <2>1, <2>2 DEF Orderly, OnTheLine, Awaits
  <2> QED
    BY <2>1, <2>3 DEF Orderly, OneAtATime, Published, AnswerKept, Answered,
                      OwnReturned
<1>2. CASE IniSer
  <2>1. phase = "new" /\ rpc = "absent"
    BY <1>2 DEF IniSer, LifeInv
  <2>2. \A c \in Callers : pc[c] = "idle"
    BY <2>1 DEF LifeInv
  <2>3. UNCHANGED <<pc, req, woke, ret>>
    BY <1>2 DEF IniSer, callVars
  <2>4. LineEmpty
    BY <2>2 DEF Orderly, OnTheLine, Awaits
  <2>5. PICK k \in 0..Len(tx) : tx' = SubSeq(tx, 1, k)
    BY <1>2 DEF IniSer, SerClear
  <2>6. tx = <<>> /\ k = 0
    BY <2>4 DEF LineEmpty
  <2>7. tx' = <<>>
    BY <2>5, <2>6
  <2>8. rx' = <<>> /\ rpc' \in {"top", "absent"}
    BY <1>2 DEF IniSer, SerClear
  <2>9. LineEmpty'
    BY <2>7, <2>8 DEF LineEmpty, Carrying
  <2> QED
    BY <2>2, <2>3, <2>9
       DEF Orderly, OneAtATime, Published, OnTheLine, Awaits, AnswerKept,
           Answered, OwnReturned, Unfinished, InFlight
<1>3. ASSUME NEW c \in Callers, NEW k \in Commands, Call(c, k)
      PROVE  Orderly'
  <2>1. /\ pc[c] = "idle" /\ pc' = [pc EXCEPT ![c] = "lock"]
        /\ \A d \in Callers \ {c} : req'[d] = req[d]
        /\ UNCHANGED <<woke, ret, nowCmd, sRead, tx, rx, rpc, packet>>
    BY <1>3 DEF Call, readerVars, lineVars
  <2>2. \A d \in Callers : pc'[d] \in Unfinished \cup {"idle"} => d # c /\ pc'[d] = pc[d]
    BY <2>1 DEF Unfinished, InFlight
  <2>3. \A d \in Callers : Awaits(d)' <=> Awaits(d)
    BY <2>1 DEF Awaits
  <2>4. UNCHANGED LineEmpty
    BY <2>1 DEF LineEmpty
  <2>5. \A d \in Callers : Awaits(d) => req'[d] = req[d]
    BY <2>1 DEF Awaits
  <2>6. ASSUME NEW d \in Callers, Awaits(d) PROVE LineHas(req[d])'
    <3>1. LineHas(req[d])
      BY <2>6 DEF Orderly, OnTheLine
    <3> QED
      BY <2>1, <2>5, <2>6, <3>1 DEF LineHas, LineEmpty
  <2>7. OnTheLine'
    BY <2>3, <2>4, <2>6 DEF Orderly, OnTheLine
  <2>8. OneAtATime'
    BY <2>2 DEF Orderly, OneAtATime, Unfinished
  <2>9. Published' /\ AnswerKept' /\ OwnReturned'
    BY <2>1, <2>2 DEF Orderly, Published, AnswerKept, Answered, OwnReturned,
                      Unfinished, InFlight
  <2> QED
    BY <2>7, <2>8, <2>9 DEF Orderly
<1>4. CASE SpeakerTakes
  <2>1. UNCHANGED <<pc, req, woke, ret, nowCmd, sRead, rpc, packet>> /\ tx # <<>>
    BY <1>4 DEF SpeakerTakes, callVars, readerVars
  <2>2. ~LineEmpty
    BY <2>1 DEF LineEmpty
  <2>3. PICK c \in Callers :
               /\ Awaits(c) /\ LineHas(req[c])
               /\ nowCmd = req[c].cmd /\ nowCmd # Unknown
               /\ \A d \in Callers : pc[d] \in Unfinished => d = c
    BY <2>2, TheAwaited
  <2>4. tx = <<req[c]>> /\ rx = <<>> /\ rpc \notin Carrying \cup {"notify"}
    BY <2>1, <2>2, <2>3 DEF LineHas
  <2>5. Head(tx) = req[c] /\ tx' = <<>>
    BY <1>4, <2>4, Singleton DEF SpeakerTakes
  <2>6. rx' = <<Answer(req[c])>> \/ rx' = <<>>
    BY <1>4, <2>4, <2>5, Singleton DEF SpeakerTakes
  <2>7. LineHas(req[c])'
    BY <2>1, <2>4, <2>5, <2>6 DEF LineHas, LineEmpty, Answer
  <2> QED
    BY <2>1, <2>2, <2>3, <2>7, LineMoves
<1>5. ASSUME NEW p \in Unasked \cup {Garbled}, SpeakerSends(p)
      PROVE  Orderly'
  BY <1>5 DEF SpeakerSends
<1> QED
  BY <1>1, <1>2, <1>3, <1>4, <1>5 DEF Next

(* As long as operations take turns and the line is quiet, every one of them
   returns the answer to its own frame. *)
THEOREM AnswersAreOwn == Spec => []OwnAnswer
<1>1. Init => TurnsInv
  BY DEF Init, TurnsInv, Orderly, OneAtATime, Published, OnTheLine, LineEmpty,
         Carrying, Awaits, AnswerKept, Answered, OwnReturned, Unfinished, InFlight
<1>2. SerialInv /\ TurnsInv /\ [Next]_vars => TurnsInv'
  <2> SUFFICES ASSUME SerialInv, TurnsInv, [Next]_vars, ~disturbed'
               PROVE  Orderly'
    BY DEF TurnsInv
  <2>1. Orderly
    BY DisturbedForGood DEF TurnsInv
  <2> QED
    BY <2>1, ReaderKeepsOrder, OperationKeepsOrder, OthersKeepOrder
<1>3. TurnsInv => OwnAnswer
  BY DEF TurnsInv, Orderly, OwnReturned, OwnAnswer
<1> QED
  BY <1>1, <1>2, <1>3, InvariantHolds, PTL DEF Spec
=============================================================================
