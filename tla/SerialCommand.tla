--------------------------- MODULE SerialCommand ---------------------------
(***************************************************************************)
(* The request/response driver of SerialCommand.cpp.                       *)
(*                                                                         *)
(* Any number of threads call an onXxx() operation; one reader thread      *)
(* takes packets from the serial line.  An operation holds m_mutex while   *)
(* it publishes its command in Now_cmd_e and writes the frame, and then    *)
(* waits on m_cond, WHICH RELEASES m_mutex: a second operation may publish *)
(* its own command while the first one waits.  The reader never takes      *)
(* m_mutex.                                                                *)
(*                                                                         *)
(* A packet carries the command it names and the ticket of the request it  *)
(* answers (0: the speaker sent it unasked).  The ticket is not on the     *)
(* wire; it lets the properties tell an answer from another answer to the  *)
(* same command.                                                           *)
(***************************************************************************)
EXTENDS Naturals, Sequences, FiniteSets

CONSTANTS
  Callers,     \* the threads that call the operations
  Commands,    \* the ser_cmd_e values an operation sends
  Unknown,     \* SERCMD_unknown
  Nobody,      \* m_mutex has no owner
  MaxCalls,    \* bound: operations started in a behaviour
  MaxEvents,   \* bound: packets the speaker sends unasked or garbled
  MaxSpurious  \* bound: spurious wake-ups of pthread_cond_timedwait

ASSUME SerialAssumption ==
  /\ Unknown \notin Commands
  /\ Nobody \notin Callers
  /\ MaxCalls \in Nat /\ MaxEvents \in Nat /\ MaxSpurious \in Nat

VARIABLES
  phase,     \* where iniSer / deInitSer stand
  port,      \* m_serial_handle is an open descriptor
  flag,      \* FLAG_READ_THREAD: 0 running, 1 need to exit, 2 exited
  owner,     \* the thread that holds m_mutex
  nowCmd,    \* Now_cmd_e
  sRead,     \* S_Read
  waiting,   \* the threads blocked on m_cond
  pc,        \* where each caller is in its operation
  req,       \* the operation each caller runs (or ran last)
  woke,      \* why pthread_cond_timedwait returned
  ret,       \* what the last operation of each caller returned
  rpc,       \* where the reader thread is
  packet,    \* the packet the reader has parsed
  tx,        \* frames written and not yet taken by the speaker
  rx,        \* packets received and not yet read
  calls,     \* operations started so far (the last ticket given)
  events,    \* MaxEvents budget used
  spurious,  \* MaxSpurious budget used
  parsed,    \* tickets of the answers the reader has parsed (history)
  disturbed  \* an operation gave up or overlapped another, a wake-up was
             \* spurious, or the speaker sent something unasked (history)

lifeVars   == <<phase, port, flag>>
callVars   == <<pc, req, woke, ret, calls>>
readerVars == <<rpc, packet, parsed>>
lineVars   == <<tx, rx>>
vars == <<lifeVars, owner, nowCmd, sRead, waiting, callVars, readerVars,
          lineVars, events, spurious, disturbed>>

Request == [cmd : Commands \cup {Unknown}, ticket : Nat]
Garbled == [cmd |-> Unknown, ticket |-> 0, sane |-> FALSE]
Packet  == [cmd : Commands \cup {Unknown}, ticket : Nat, sane : BOOLEAN]
Blank   == [cmd |-> Unknown, ticket |-> 0, sane |-> TRUE]

InFlight == {"write", "armed", "waiting", "woken"}
Holding  == {"write", "armed"}
Unfinished == InFlight \cup {"return"}

(***************************************************************************)
(* tcflush(TCIOFLUSH): what was received is gone, and so are the frames    *)
(* that had not left the host yet.                                         *)
(***************************************************************************)
SerClear ==
  /\ rx' = <<>>
  /\ \E k \in 0..Len(tx) : tx' = SubSeq(tx, 1, k)

Init ==
  /\ phase = "new" /\ port = FALSE /\ flag = 0
  /\ owner = Nobody /\ nowCmd = Unknown /\ sRead = Blank /\ waiting = {}
  /\ pc = [c \in Callers |-> "idle"]
  /\ req = [c \in Callers |-> [cmd |-> Unknown, ticket |-> 0]]
  /\ woke = [c \in Callers |-> "none"]
  /\ ret = [c \in Callers |-> [code |-> "none", packet |-> Blank]]
  /\ rpc = "absent" /\ packet = Blank
  /\ tx = <<>> /\ rx = <<>>
  /\ calls = 0 /\ events = 0 /\ spurious = 0 /\ parsed = {}
  /\ disturbed = FALSE

-----------------------------------------------------------------------------
(* iniSer and deInitSer *)

\* SerOpen failed: before (port' = FALSE) or after open() succeeded.
IniSerOpenFails ==
  /\ phase = "new"
  /\ phase' = "failed"
  /\ port' \in BOOLEAN
  /\ UNCHANGED <<flag, owner, nowCmd, sRead, waiting, callVars, readerVars,
                 lineVars, events, spurious, disturbed>>

\* The port is open, the globals are reset, and pthread_create may fail.
IniSer ==
  /\ phase = "new"
  /\ port' = TRUE /\ flag' = 0
  /\ nowCmd' = Unknown /\ sRead' = Blank
  /\ \/ phase' = "up" /\ rpc' = "top"
     \/ phase' = "failed" /\ rpc' = "absent"
  /\ SerClear
  /\ UNCHANGED <<owner, waiting, callVars, packet, parsed, events, spurious, disturbed>>

DeInitRequest ==
  /\ phase \in {"up", "failed"}
  /\ phase' = "stopping"
  /\ flag' = 1
  /\ UNCHANGED <<port, owner, nowCmd, sRead, waiting, callVars, readerVars,
                 lineVars, events, spurious, disturbed>>

\* The polling loop ends when the reader has answered 2; then SerClose.
DeInitClose ==
  /\ phase = "stopping"
  /\ flag = 2
  /\ phase' = "closing"
  /\ port' = FALSE
  /\ UNCHANGED <<flag, owner, nowCmd, sRead, waiting, callVars, readerVars,
                 lineVars, events, spurious, disturbed>>

\* pthread_cond_destroy returns when no thread waits on m_cond any more.
DeInitDestroy ==
  /\ phase = "closing"
  /\ waiting = {}
  /\ phase' = "closed"
  /\ UNCHANGED <<port, flag, owner, nowCmd, sRead, waiting, callVars,
                 readerVars, lineVars, events, spurious, disturbed>>

-----------------------------------------------------------------------------
(* The operations onBooting() ... onSetSoundMode() *)

Call(c, k) ==
  /\ pc[c] = "idle"
  /\ phase \in {"up", "stopping"} /\ rpc # "absent"
  /\ calls < MaxCalls
  /\ calls' = calls + 1
  /\ req' = [req EXCEPT ![c] = [cmd |-> k, ticket |-> calls + 1]]
  /\ pc' = [pc EXCEPT ![c] = "lock"]
  /\ UNCHANGED <<lifeVars, owner, nowCmd, sRead, waiting, woke, ret,
                 readerVars, lineVars, events, spurious, disturbed>>

\* pthread_mutex_lock(&m_mutex); Now_cmd_e = s_write.ser_cmd;
Acquire(c) ==
  /\ pc[c] = "lock"
  /\ owner = Nobody
  /\ owner' = c
  /\ nowCmd' = req[c].cmd
  /\ pc' = [pc EXCEPT ![c] = "write"]
  /\ disturbed' = (disturbed \/ \E d \in Callers : pc[d] \in Unfinished)
  /\ UNCHANGED <<lifeVars, sRead, waiting, req, woke, ret, calls, readerVars,
                 lineVars, events, spurious>>

WriteOk(c) ==
  /\ pc[c] = "write"
  /\ port
  /\ tx' = Append(tx, req[c])
  /\ pc' = [pc EXCEPT ![c] = "armed"]
  /\ UNCHANGED <<lifeVars, owner, nowCmd, sRead, waiting, req, woke, ret,
                 calls, readerVars, rx, events, spurious, disturbed>>

\* Now_cmd_e = SERCMD_unknown; pthread_mutex_unlock; return code
GiveUp(c, code) ==
  /\ nowCmd' = Unknown
  /\ owner' = Nobody
  /\ pc' = [pc EXCEPT ![c] = "idle"]
  /\ ret' = [ret EXCEPT ![c] = [code |-> code, packet |-> Blank]]
  /\ disturbed' = TRUE

\* select() timed out, or write() failed and SerWrite flushed the line.
WriteFails(c) ==
  /\ pc[c] = "write"
  /\ GiveUp(c, "error")
  /\ SerClear \/ UNCHANGED lineVars
  /\ UNCHANGED <<lifeVars, sRead, waiting, req, woke, calls, readerVars,
                 events, spurious>>

\* pthread_cond_timedwait releases m_mutex and blocks, in one step.
Wait(c) ==
  /\ pc[c] = "armed"
  /\ owner' = Nobody
  /\ waiting' = waiting \cup {c}
  /\ pc' = [pc EXCEPT ![c] = "waiting"]
  /\ UNCHANGED <<lifeVars, nowCmd, sRead, req, woke, ret, calls, readerVars,
                 lineVars, events, spurious, disturbed>>

\* abstime.tv_nsec = 10^9 exactly escapes the "> 1000000000" carry: EINVAL,
\* which the operation reports as a timeout without having waited.
WaitRefused(c) ==
  /\ pc[c] = "armed"
  /\ GiveUp(c, "timeout")
  /\ UNCHANGED <<lifeVars, sRead, waiting, req, woke, calls, readerVars,
                 lineVars, events, spurious>>

Wake(c, why) ==
  /\ waiting' = waiting \ {c}
  /\ woke' = [woke EXCEPT ![c] = why]
  /\ pc' = [pc EXCEPT ![c] = "woken"]

\* Mutant: pthread_cond_wait instead of pthread_cond_timedwait.
NeverTimesOut(c) == FALSE

\* B_TIMEOUTMS have passed.
Timeout(c) ==
  /\ c \in waiting
  /\ Wake(c, "timeout")
  /\ UNCHANGED <<lifeVars, owner, nowCmd, sRead, req, ret, calls, readerVars,
                 lineVars, events, spurious, disturbed>>

\* The call returns 0 although nobody signalled (POSIX allows it, and there
\* is no loop around it).
SpuriousWakeup(c) ==
  /\ c \in waiting
  /\ spurious < MaxSpurious
  /\ spurious' = spurious + 1
  /\ disturbed' = TRUE
  /\ Wake(c, "signal")
  /\ UNCHANGED <<lifeVars, owner, nowCmd, sRead, req, ret, calls, readerVars,
                 lineVars, events>>

\* Mutant: Now_cmd_e is reset before m_mutex has been taken back.
ResumeWithoutMutex(c) ==
  /\ pc[c] = "woken"
  /\ nowCmd' = Unknown
  /\ pc' = [pc EXCEPT ![c] = "return"]
  /\ UNCHANGED <<lifeVars, owner, sRead, waiting, req, woke, ret, calls,
                 readerVars, lineVars, events, spurious, disturbed>>

\* Mutant: the success path leaves Now_cmd_e as it is.
ResumeStillPending(c) ==
  /\ pc[c] = "woken"
  /\ owner = Nobody
  /\ pc' = [pc EXCEPT ![c] = "return"]
  /\ UNCHANGED <<lifeVars, owner, nowCmd, sRead, waiting, req, woke, ret, calls,
                 readerVars, lineVars, events, spurious, disturbed>>

\* m_mutex is taken back, Now_cmd_e reset and m_mutex released; after a
\* signal S_Read is still to be read, without the mutex.
Resume(c) ==
  /\ pc[c] = "woken"
  /\ owner = Nobody
  /\ IF woke[c] = "timeout"
       THEN GiveUp(c, "timeout")
       ELSE /\ nowCmd' = Unknown
            /\ pc' = [pc EXCEPT ![c] = "return"]
            /\ UNCHANGED <<owner, ret, disturbed>>
  /\ UNCHANGED <<lifeVars, sRead, waiting, req, woke, calls, readerVars,
                 lineVars, events, spurious>>

\* return S_Read.ser_data;
ReturnReply(c) ==
  /\ pc[c] = "return"
  /\ ret' = [ret EXCEPT ![c] = [code |-> "ok", packet |-> sRead]]
  /\ pc' = [pc EXCEPT ![c] = "idle"]
  /\ UNCHANGED <<lifeVars, owner, nowCmd, sRead, waiting, req, woke, calls,
                 readerVars, lineVars, events, spurious, disturbed>>

-----------------------------------------------------------------------------
(* thread_read_sercom_fun *)

\* Mutant: the loop is left without announcing it.
ReaderLeavesSilently ==
  /\ rpc = "top"
  /\ rpc' = IF flag = 1 THEN "exited" ELSE "read"
  /\ UNCHANGED <<lifeVars, owner, nowCmd, sRead, waiting, callVars, packet,
                 parsed, lineVars, events, spurious, disturbed>>

ReaderTop ==
  /\ rpc = "top"
  /\ IF flag = 1 THEN rpc' = "exited" /\ flag' = 2
                 ELSE rpc' = "read" /\ UNCHANGED flag
  /\ UNCHANGED <<phase, port, owner, nowCmd, sRead, waiting, callVars, packet,
                 parsed, lineVars, events, spurious, disturbed>>

\* select() timed out, or what was read does not complete a packet.
ReaderNothing ==
  /\ rpc = "read"
  /\ rpc' = "top"
  /\ UNCHANGED <<lifeVars, owner, nowCmd, sRead, waiting, callVars, packet,
                 parsed, lineVars, events, spurious, disturbed>>

\* A packet is complete: SerParse_rk3229_t refuses it (and flushes), or
\* yields its command; a command code it does not know flushes as well, and
\* the packet goes on as SERCMD_unknown.
ReaderParse ==
  /\ rpc = "read"
  /\ rx # <<>>
  /\ packet' = Head(rx)
  /\ parsed' = parsed \cup {Head(rx).ticket}
  /\ rpc' = IF Head(rx).sane THEN "compare" ELSE "top"
  /\ \/ Head(rx).sane /\ rx' = Tail(rx) /\ UNCHANGED tx
     \/ Head(rx).cmd = Unknown /\ SerClear
  /\ UNCHANGED <<lifeVars, owner, nowCmd, sRead, waiting, callVars, events,
                 spurious, disturbed>>

\* if (Now_cmd_e == ser_data.ser_cmd)
ReaderCompare ==
  /\ rpc = "compare"
  /\ rpc' = IF nowCmd = packet.cmd THEN "recheck" ELSE "notify"
  /\ UNCHANGED <<lifeVars, owner, nowCmd, sRead, waiting, callVars, packet,
                 parsed, lineVars, events, spurious, disturbed>>

\* if (Now_cmd_e != SERCMD_unknown): a second unlocked access to Now_cmd_e,
\* which the compiler may serve with the value of the first.
ReaderRecheck ==
  /\ rpc = "recheck"
  /\ \E seen \in {nowCmd, packet.cmd} :
        rpc' = IF seen # Unknown THEN "store" ELSE "top"
  /\ UNCHANGED <<lifeVars, owner, nowCmd, sRead, waiting, callVars, packet,
                 parsed, lineVars, events, spurious, disturbed>>

\* Mutant: the waiter is signalled and S_Read is not filled.
ReaderSkipsStore ==
  /\ rpc = "store"
  /\ rpc' = "signal"
  /\ UNCHANGED <<lifeVars, owner, nowCmd, sRead, waiting, callVars, packet,
                 parsed, lineVars, events, spurious, disturbed>>

ReaderStore ==
  /\ rpc = "store"
  /\ sRead' = packet
  /\ rpc' = "signal"
  /\ UNCHANGED <<lifeVars, owner, nowCmd, waiting, callVars, packet, parsed,
                 lineVars, events, spurious, disturbed>>

\* pthread_cond_signal: one waiter wakes, or the signal is lost.
ReaderSignal ==
  /\ rpc = "signal"
  /\ rpc' = "top"
  /\ IF waiting = {}
       THEN UNCHANGED <<waiting, woke, pc>>
       ELSE \E c \in waiting : Wake(c, "signal")
  /\ UNCHANGED <<lifeVars, owner, nowCmd, sRead, req, ret, calls, packet,
                 parsed, lineVars, events, spurious, disturbed>>

\* listener->notify(...)
ReaderNotify ==
  /\ rpc = "notify"
  /\ rpc' = "top"
  /\ UNCHANGED <<lifeVars, owner, nowCmd, sRead, waiting, callVars, packet,
                 parsed, lineVars, events, spurious, disturbed>>

-----------------------------------------------------------------------------
(* The speaker at the other end of the line *)

Answer(r) == [cmd |-> r.cmd, ticket |-> r.ticket, sane |-> TRUE]

\* It takes a frame and answers it, sooner or later, or never.
SpeakerTakes ==
  /\ tx # <<>>
  /\ tx' = Tail(tx)
  /\ \/ rx' = Append(rx, Answer(Head(tx)))
     \/ UNCHANGED rx
  /\ UNCHANGED <<lifeVars, owner, nowCmd, sRead, waiting, callVars,
                 readerVars, events, spurious, disturbed>>

\* A key was pressed on it, or noise came in.
SpeakerSends(p) ==
  /\ events < MaxEvents
  /\ events' = events + 1
  /\ disturbed' = TRUE
  /\ rx' = Append(rx, p)
  /\ UNCHANGED <<lifeVars, owner, nowCmd, sRead, waiting, callVars,
                 readerVars, tx, spurious>>

Unasked == {[cmd |-> k, ticket |-> 0, sane |-> TRUE] :
               k \in Commands \cup {Unknown}}

-----------------------------------------------------------------------------
Operation(c) ==
  \/ Acquire(c) \/ WriteOk(c) \/ WriteFails(c)
  \/ Wait(c) \/ WaitRefused(c) \/ Timeout(c)
  \/ Resume(c) \/ ReturnReply(c)

Reader ==
  \/ ReaderTop \/ ReaderNothing \/ ReaderParse \/ ReaderCompare
  \/ ReaderRecheck \/ ReaderStore \/ ReaderSignal \/ ReaderNotify

Next ==
  \/ IniSerOpenFails \/ IniSer
  \/ DeInitRequest \/ DeInitClose \/ DeInitDestroy
  \/ \E c \in Callers, k \in Commands : Call(c, k)
  \/ \E c \in Callers : Operation(c) \/ SpuriousWakeup(c)
  \/ Reader
  \/ SpeakerTakes
  \/ \E p \in Unasked \cup {Garbled} : SpeakerSends(p)

Spec == Init /\ [][Next]_vars

\* Threads are scheduled and time passes; the speaker and the threads that
\* decide to call an operation or deInitSer owe nothing.
Fairness ==
  /\ \A c \in Callers : WF_vars(Operation(c))
  /\ WF_vars(Reader)
  /\ WF_vars(DeInitClose) /\ WF_vars(DeInitDestroy)

FairSpec == Spec /\ Fairness

-----------------------------------------------------------------------------
ControlTyped ==
  /\ phase \in {"new", "failed", "up", "stopping", "closing", "closed"}
  /\ port \in BOOLEAN
  /\ flag \in 0..2
  /\ owner \in Callers \cup {Nobody}
  /\ nowCmd \in Commands \cup {Unknown}
  /\ waiting \subseteq Callers
  /\ rpc \in {"absent", "top", "read", "compare", "recheck", "store",
              "signal", "notify", "exited"}
  /\ calls \in Nat /\ events \in Nat /\ spurious \in Nat
  /\ parsed \subseteq Nat
  /\ disturbed \in BOOLEAN

CallsTyped ==
  /\ pc \in [Callers -> InFlight \cup {"idle", "lock", "return"}]
  /\ req \in [Callers -> Request]
  /\ woke \in [Callers -> {"none", "signal", "timeout"}]
  /\ ret \in [Callers -> [code : {"none", "ok", "error", "timeout"},
                          packet : Packet]]

PacketsTyped ==
  /\ sRead \in Packet
  /\ packet \in Packet
  /\ tx \in Seq(Request)
  /\ rx \in Seq(Packet)

TypeOK == ControlTyped /\ CallsTyped /\ PacketsTyped

(* From pthread_mutex_lock to pthread_cond_timedwait an operation is alone
   with Now_cmd_e: no other operation publishes, or resets, a command in
   between (SerialCommand.cpp:571-589 and its twelve copies). *)
OnlyHolderPublishes ==
  \A c \in Callers :
    /\ pc[c] \in Holding <=> owner = c
    /\ pc[c] \in Holding => nowCmd = req[c].cmd

(* No command is left behind in Now_cmd_e: it always is that of an operation
   that still has to reset it, so that once no operation runs every packet
   of the speaker goes to the listener. *)
PendingBelongsToACall ==
  nowCmd # Unknown =>
    \E c \in Callers : pc[c] \in InFlight /\ req[c].cmd = nowCmd

(* deInitSer never closes the port while the reader still runs: the thread
   that loops has an open descriptor to select() on. *)
ReaderHasPort == rpc \notin {"absent", "exited"} => port

(* What the two invariants above rest on. *)
LifeInv ==
  /\ phase = "new" => rpc = "absent" /\ nowCmd = Unknown
  /\ rpc = "absent" => \A c \in Callers : pc[c] = "idle"
  /\ flag = 2 => rpc = "exited"

CallInv ==
  \A c \in Callers :
    /\ c \in waiting <=> pc[c] = "waiting"
    /\ pc[c] # "idle" => req[c].cmd \in Commands

(* The inductive invariant: the variables stay in their domains, operations
   publish one at a time, nothing is left behind and the port outlives the
   reader. *)
SerialInv ==
  /\ TypeOK
  /\ LifeInv
  /\ CallInv
  /\ OnlyHolderPublishes
  /\ PendingBelongsToACall
  /\ ReaderHasPort

(* As long as the operations have run one after the other, each answered,
   and nothing else came in, every operation has returned the answer to its
   own frame: answers never shift by one.  m_mutex alone does not give this
   (it is released by the wait); callers have to take turns. *)
OwnAnswer ==
  ~disturbed =>
    \A c \in Callers :
      pc[c] = "idle" /\ ret[c].code = "ok" =>
        ret[c].packet.ticket = req[c].ticket

(* Every operation returns, whatever the speaker does, while another one
   runs, and during deInitSer. *)
CallReturns == \A c \in Callers : pc[c] # "idle" ~> pc[c] = "idle"

(* Once iniSer has succeeded deInitSer comes to its end. *)
DeInitReturns == phase = "stopping" /\ rpc # "absent" ~> phase = "closed"

(* -2 is "no response": B_TIMEOUTMS is the longest a response may take
   (SerialCommand.h:27), so the response to this frame was not already read
   from the line and done with when the wait of the operation times out. *)
TimeoutMeansNoResponse ==
  [][\A c \in Callers :
       /\ pc[c] = "waiting" /\ pc'[c] = "woken" /\ woke'[c] = "timeout"
       /\ rpc \in {"top", "read"}
       => req[c].ticket \notin parsed]_vars

(* What the thirteen operations promise about Now_cmd_e, as CommandSlot
   states it. *)
UnderWay ==
  [c \in Callers |-> IF pc[c] \in InFlight THEN req[c].cmd ELSE Unknown]

Slot == INSTANCE CommandSlot WITH busy <- UnderWay, slot <- nowCmd

SlotSpec == Slot!FairSpec
=============================================================================
