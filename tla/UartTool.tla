------------------------------ MODULE UartTool ------------------------------
(***************************************************************************)
(* The factory daemon of main.cpp: a host on the serial line writes the    *)
(* MAC address and the bar code of the board into the boot environment.    *)
(*                                                                         *)
(* WRITE packets are staged in MacAdd / BarCode; a START packet names one  *)
(* of the two, with the length and the XOR of what it should hold, and, if *)
(* the host has shaken hands, a thread of its own stores it with ms_setenv *)
(* (FlashEnv), answers, and sets the matching property.  The reading       *)
(* thread waits for that thread, and all of them send under ev_mutex.      *)
(*                                                                         *)
(* A packet is a sequence of bytes and read() returns whatever has come    *)
(* in: part of a packet, one, or several.                                  *)
(***************************************************************************)
EXTENDS Integers, Sequences, FiniteSets

CONSTANTS
  Ttys,         \* how many serial devices find_multi_tty_dev opens
  OverReadLen,  \* OVER_READ_LEN
  StartCount,   \* COUNT_TIME before the first byte came in
  RunCount,     \* COUNT_TIME after it
  Payloads,     \* what the host writes: sequences of bytes
  Extras,       \* the packets it sends that are neither WRITE nor START
  Mac, Bar,     \* MAC_ADD and BAR_CODE, the variables written
  Status,       \* OTA_STATUS, the variable prepare_ota insists on
  Default,      \* the property value "default"
  Capacity, Cut, Nothing, MaxCuts, MaxFaults,   \* those of FlashEnv
  MaxSends,     \* bound: packets the host sends
  MaxSplits     \* bound: reads that return less than what was sent

Byte == 0..255
Targets == {Mac, Bar}

\* The XOR of bytes: each of its bits is the parity of theirs.
Parity(data, bit) == Cardinality({j \in DOMAIN data : (data[j] \div bit) % 2 = 1}) % 2
Xor(data) ==
  Parity(data, 1) + 2 * Parity(data, 2) + 4 * Parity(data, 4) + 8 * Parity(data, 8)
  + 16 * Parity(data, 16) + 32 * Parity(data, 32) + 64 * Parity(data, 64)
  + 128 * Parity(data, 128)

\* Str2BcdStr: two hexadecimal digits a byte, high nibble first.
Str2BcdStr(data) ==
  [j \in 1..(2 * Len(data)) |-> IF j % 2 = 1 THEN data[(j + 1) \div 2] \div 16
                                             ELSE data[j \div 2] % 16]

\* The room that "name=value" takes beyond the value is taken as 1.
EnvValues == Seq(Nat)
EnvSize == [v \in EnvValues |-> Len(v) + 1]
FactoryImage == [n \in {Status} |-> <<0>>]

ASSUME UartAssumption ==
  /\ Ttys \in Nat \ {0} /\ OverReadLen \in Nat \ {0}
  /\ StartCount \in Nat /\ RunCount \in Nat
  /\ Payloads \subseteq Seq(Byte) \ {<<>>} /\ IsFiniteSet(Payloads)
  /\ \A d \in Payloads : Len(d) + 6 \in Byte   \* P_ALEN is one byte
  /\ Extras \subseteq Seq(Byte)
  /\ Mac # Bar /\ Status \notin {Mac, Bar}
  /\ MaxSends \in Nat /\ MaxSplits \in Nat
  /\ Capacity \in Nat /\ MaxCuts \in Nat /\ MaxFaults \in Nat
  /\ Cut \notin EnvValues /\ Nothing \notin EnvValues \cup {Cut}

VARIABLES
  inited, loaded, ram, flash, op, erased, ret, cuts, faults, staged, promise,
  misread, lost,
  damaged,    \* the environment: see FlashEnv
  pc,         \* where main and the reading thread stand
  worker,     \* where the thread that serves a START stands
  job,        \* what that thread stores: [name, value]
  mutex,      \* the thread that holds ev_mutex
  rCount,     \* r_count
  limit,      \* COUNT_TIME
  tty,        \* i, the device being served
  buf,        \* pReponsebuf up to n_store_bytes
  shands,     \* shands_flag = 0
  stage,      \* MacAdd and BarCode
  prop,       \* the properties set by setprop
  line,       \* for each device, the bytes sent and not yet read
  sends,      \* MaxSends budget used
  splits,     \* MaxSplits budget used
  written,    \* payloads the host has sent for each target (history)
  announced,  \* lengths and XORs it has sent in a START, likewise
  told        \* values reported stored, by target (history)

Env == INSTANCE FlashEnv WITH
  Names <- {Mac, Bar, Status}, Settable <- Targets, Values <- EnvValues,
  Size <- EnvSize, Factory <- FactoryImage

envVars   == <<inited, loaded, ram, flash, op, erased, ret, cuts, faults,
               staged, promise, misread, lost, damaged>>
loopVars  == <<rCount, limit, tty>>
stageVars == <<shands, stage>>
hostVars  == <<line, sends, splits, written, announced>>
vars == <<envVars, pc, worker, job, mutex, loopVars, buf, stageVars, prop,
          hostVars, told>>

NoJob == [name |-> Mac, value |-> <<>>]

Init ==
  /\ Env!Init
  /\ pc = "flashInit" /\ worker = "none" /\ job = NoJob /\ mutex = "free"
  /\ rCount = 0 /\ limit = StartCount /\ tty = 1 /\ buf = <<>>
  /\ shands = FALSE /\ stage = [n \in Targets |-> <<>>]
  /\ prop = [n \in Targets |-> Nothing]
  /\ line = [t \in 1..Ttys |-> <<>>]
  /\ sends = 0 /\ splits = 0
  /\ written = [n \in Targets |-> {}]
  /\ announced = [n \in Targets |-> {}]
  /\ told = [n \in Targets |-> Nothing]

-----------------------------------------------------------------------------
(* The host.  The Verify byte is 0 here: the daemon never looks at it. *)

Header == 90
Code(n) == IF n = Mac THEN 131 ELSE 130

Enter == <<Header, 4, 13, 0>>
Odd == <<Header, 4, 7, 0>>
Probe == <<3, 0, 10>>
ShakeHands == <<Header, 4, 128, 0>>
Write(n, d) == <<Header, Len(d) + 6, Code(n), 0, 0>> \o d \o <<0>>
Start(n, d) == <<Header, 8, 141, 0, Len(d), Xor(d), Code(n), 0>>

\* What is sent before the device is opened is flushed when it is.
Listening == pc \notin {"flashInit", "loadEnv", "status", "props", "exited"}

HostSends(t, packet) ==
  /\ Listening
  /\ sends < MaxSends /\ sends' = sends + 1
  /\ line' = [line EXCEPT ![t] = @ \o packet]
  /\ UNCHANGED <<envVars, pc, worker, job, mutex, loopVars, buf, stageVars,
                 prop, splits, told>>

Host ==
  \E t \in 1..Ttys :
    \/ \E packet \in Extras :
         HostSends(t, packet) /\ UNCHANGED <<written, announced>>
    \/ \E n \in Targets, d \in Payloads :
         \/ /\ HostSends(t, Start(n, d))
            /\ announced' = [announced EXCEPT ![n] = @ \cup {<<Len(d), Xor(d)>>}]
            /\ UNCHANGED written
         \/ /\ HostSends(t, Write(n, d))
            /\ written' = [written EXCEPT ![n] = @ \cup {d}]
            /\ UNCHANGED announced

\* What has come in of the bytes sent: all of them, or only the first k.
Arrived(t, k) ==
  /\ k \in 0..Len(line[t])
  /\ IF k = Len(line[t]) THEN UNCHANGED splits
                         ELSE splits < MaxSplits /\ splits' = splits + 1
  /\ line' = [line EXCEPT ![t] = SubSeq(@, k + 1, Len(@))]
  /\ UNCHANGED <<sends, written, announced>>

\* tcflush(fd, TCIOFLUSH)
ClearTty(t) == \E k \in 0..Len(line[t]) : Arrived(t, k)

-----------------------------------------------------------------------------
(* main and prepare_ota: their results are not looked at, except that a    *)
(* board without OTA_STATUS ends the program.                              *)

BootStays == UNCHANGED <<worker, job, mutex, loopVars, buf, stageVars,
                         hostVars, told>>

BootInit ==
  /\ pc = "flashInit"
  /\ Env!FlashInit
  /\ pc' = IF ret' = "failed" THEN "props" ELSE "loadEnv"
  /\ BootStays /\ UNCHANGED prop

BootLoad ==
  /\ pc = "loadEnv"
  /\ Env!LoadEnv
  /\ pc' = IF ret' = "ok" THEN "status" ELSE "props"
  /\ BootStays /\ UNCHANGED prop

BootStatus ==
  /\ pc = "status"
  /\ pc' = IF \E e \in ram.vars : e.name = Status THEN "props" ELSE "exited"
  /\ BootStays /\ UNCHANGED <<envVars, prop>>

\* Mutant: the properties are not set from the environment at start-up.
KeepProps ==
  /\ pc = "props"
  /\ pc' \in {"loop", "exited"}
  /\ BootStays /\ UNCHANGED <<envVars, prop>>

\* setprop with ms_getenv's value or "default"; then the serial devices are
\* opened, or there is none and the program ends.
BootProps ==
  /\ pc = "props"
  /\ prop' = [n \in Targets |->
                IF inited /\ \E e \in ram.vars : e.name = n
                  THEN (CHOOSE e \in ram.vars : e.name = n).value ELSE Default]
  /\ pc' \in {"loop", "exited"}
  /\ BootStays /\ UNCHANGED envVars

-----------------------------------------------------------------------------
(* thread_read_sercom_fun *)

NextTty == IF tty < Ttys THEN tty' = tty + 1 /\ pc' = "lock"
                         ELSE pc' = "loop" /\ UNCHANGED tty

\* Mutant: the loop is not counted.
NeverEnds ==
  /\ pc = "loop"
  /\ pc' = "lock" /\ tty' = 1
  /\ UNCHANGED <<envVars, worker, job, mutex, rCount, limit, buf, stageVars,
                 prop, hostVars, told>>

Loop ==
  /\ pc = "loop"
  /\ rCount' = rCount + 1
  /\ IF rCount' >= limit THEN pc' = "fail" /\ UNCHANGED tty
                         ELSE pc' = "lock" /\ tty' = 1
  /\ UNCHANGED <<envVars, worker, job, mutex, limit, buf, stageVars, prop,
                 hostVars, told>>

\* fail: the devices are flushed and closed; main returns from the join and
\* calls exit(0).
Exit ==
  /\ pc = "fail"
  /\ pc' = "exited"
  /\ UNCHANGED <<envVars, worker, job, mutex, loopVars, buf, stageVars, prop,
                 hostVars, told>>

Lock ==
  /\ pc = "lock" /\ mutex = "free"
  /\ mutex' = "reader" /\ pc' = "read"
  /\ UNCHANGED <<envVars, worker, job, loopVars, buf, stageVars, prop,
                 hostVars, told>>

\* A read, or its 10 ms timeout.  Nothing read and nothing stored: on to the
\* next device.  OVER_READ_LEN bytes: more is expected, possibly from the
\* next device.  Otherwise what is stored is taken for a packet.
Read ==
  /\ pc = "read"
  /\ mutex' = "free"
  /\ \E k \in 0..Len(line[tty]) :
       /\ Arrived(tty, k)
       /\ buf' = buf \o SubSeq(line[tty], 1, k)
       /\ limit' = IF buf' = <<>> THEN limit ELSE RunCount
       /\ IF buf' = <<>> \/ k = OverReadLen
            THEN NextTty
            ELSE pc' = "parse" /\ UNCHANGED tty
  /\ UNCHANGED <<envVars, worker, job, rCount, stageVars, prop, told>>

-----------------------------------------------------------------------------
(* uart_parse_scmd: send_Responecmd takes ev_mutex for each answer, and what
   became of it is not looked at. *)

\* pszBuf[k]; behind what was received the buffer is zero.
At(k) == IF k < Len(buf) THEN buf[k + 1] ELSE 0

MaySend == mutex = "free"

\* memset(pReponsebuf); n_store_bytes = 0;
Reset == buf' = <<>>

Command(code) == pc = "parse" /\ At(0) = Header /\ At(2) = code

ParseStays == UNCHANGED <<envVars, mutex, rCount, limit, prop, told>>

\* No header: CR LF keys are answered, everything is flushed.  A header and
\* an unknown command: ERR, and everything is flushed too.
Refuse ==
  /\ pc = "parse" /\ MaySend
  /\ \/ At(0) # Header
     \/ At(0) = Header /\ At(2) \notin {13, 10, 128, 130, 131, 141}
  /\ ClearTty(tty)
  /\ Reset /\ NextTty
  /\ ParseStays /\ UNCHANGED <<worker, job, stageVars>>

AnswerEnter ==
  /\ Command(13) \/ Command(10)
  /\ MaySend
  /\ Reset /\ NextTty
  /\ ParseStays /\ UNCHANGED <<worker, job, stageVars, hostVars>>

\* OK, 30 ms, the flag, and the handshake's own answer.
AnswerShakeHands ==
  /\ Command(128)
  /\ MaySend
  /\ pc' = "shands"
  /\ ParseStays /\ UNCHANGED <<worker, job, tty, buf, stageVars, hostVars>>

ShakenHands ==
  /\ pc = "shands" /\ MaySend
  /\ shands' = TRUE
  /\ Reset /\ NextTty
  /\ ParseStays /\ UNCHANGED <<worker, job, stage, hostVars>>

\* BarCode[0] = pszBuf[P_ALEN] - 6 and as many bytes, received or not.
Stage(n) ==
  /\ Command(Code(n)) /\ MaySend
  /\ stage' = [stage EXCEPT ![n] = [j \in 1..(At(1) - 6) |-> At(4 + j)]]
  /\ Reset /\ NextTty
  /\ ParseStays /\ UNCHANGED <<worker, job, shands, hostVars>>

\* Mutant: the handshake is not asked for.
StartAnyway ==
  /\ Command(141) /\ MaySend
  /\ worker' = "check" /\ pc' = "join"
  /\ ParseStays /\ UNCHANGED <<tty, buf, job, stageVars, hostVars>>

\* Mutant: ev_mutex is still held when the other thread is waited for.
StartLocked ==
  /\ Command(141) /\ MaySend
  /\ IF shands THEN worker' = "check" /\ pc' = "join" /\ UNCHANGED <<tty, buf>>
               ELSE Reset /\ NextTty /\ UNCHANGED worker
  /\ mutex' = "reader"
  /\ UNCHANGED <<envVars, rCount, limit, prop, told, job, stageVars, hostVars>>

\* OK; without a handshake that is all.
AnswerStart ==
  /\ Command(141) /\ MaySend
  /\ IF shands THEN worker' = "check" /\ pc' = "join" /\ UNCHANGED <<tty, buf>>
               ELSE Reset /\ NextTty /\ UNCHANGED worker
  /\ ParseStays /\ UNCHANGED <<job, stageVars, hostVars>>

\* pthread_join
Joined ==
  /\ pc = "join" /\ worker = "done"
  /\ worker' = "none"
  /\ Reset /\ NextTty
  /\ ParseStays /\ UNCHANGED <<job, stageVars, hostVars>>

-----------------------------------------------------------------------------
(* thread_process_scmd_fun *)

WorkerStays == UNCHANGED <<pc, mutex, loopVars, buf, stageVars, hostVars>>

\* Mutant: the XOR of the staged bytes is not compared.
MatchesLength(n) ==
  /\ At(6) = Code(n)
  /\ Len(stage[n]) = At(4)

Matches(n) ==
  /\ At(6) = Code(n)
  /\ Len(stage[n]) = At(4)
  /\ Xor(stage[n]) = At(5)

Check ==
  /\ worker = "check"
  /\ \/ \E n \in Targets :
          /\ Matches(n)
          /\ job' = [name |-> n, value |-> Str2BcdStr(stage[n])]
          /\ worker' = "set"
     \/ /\ \A n \in Targets : ~Matches(n)
        /\ worker' = "refuse" /\ UNCHANGED job
  /\ WorkerStays /\ UNCHANGED <<envVars, prop, told>>

\* ms_setenv: MI_FLASH_SetEnvVar, then MI_FLASH_StoreEnv.
SetVar ==
  /\ worker = "set"
  /\ Env!SetEnvVar(job.name, job.value)
  /\ worker' = IF ret' = "ok" THEN "store" ELSE "answer"
  /\ told' = [told EXCEPT ![job.name] = Nothing]
  /\ WorkerStays /\ UNCHANGED <<job, prop>>

Store ==
  /\ worker = "store"
  /\ Env!StoreEnv
  /\ worker' = IF op' = "idle" THEN "answer" ELSE "storing"
  /\ WorkerStays /\ UNCHANGED <<job, prop, told>>

Storing ==
  /\ worker = "storing"
  /\ Env!StoreErase \/ Env!StoreWrite
  /\ worker' = IF op' = "idle" THEN "answer" ELSE "storing"
  /\ WorkerStays /\ UNCHANGED <<job, prop, told>>

\* Mutant: success is reported whatever ms_setenv returned.
AnswerOk ==
  /\ worker = "answer" /\ MaySend
  /\ told' = [told EXCEPT ![job.name] = job.value]
  /\ worker' = "prop"
  /\ WorkerStays /\ UNCHANGED <<envVars, job, prop>>

\* 0x8E with data1 = 1, or 0 when ms_setenv failed.
Answer ==
  /\ worker = "answer" /\ MaySend
  /\ told' = IF ret = "ok" THEN [told EXCEPT ![job.name] = job.value] ELSE told
  /\ worker' = "prop"
  /\ WorkerStays /\ UNCHANGED <<envVars, job, prop>>

\* setprop, also when ms_setenv failed.
SetProp ==
  /\ worker = "prop"
  /\ prop' = [prop EXCEPT ![job.name] = job.value]
  /\ worker' = "done"
  /\ WorkerStays /\ UNCHANGED <<envVars, job, told>>

\* 0x8E with data1 = 0.
RefuseStart ==
  /\ worker = "refuse" /\ MaySend
  /\ worker' = "done"
  /\ WorkerStays /\ UNCHANGED <<envVars, job, prop, told>>

-----------------------------------------------------------------------------
\* The board is switched off and on: only the partition stays.
Restart ==
  /\ Env!PowerCut
  /\ pc' = "flashInit" /\ worker' = "none" /\ job' = NoJob /\ mutex' = "free"
  /\ rCount' = 0 /\ limit' = StartCount /\ tty' = 1 /\ buf' = <<>>
  /\ shands' = FALSE /\ stage' = [n \in Targets |-> <<>>]
  /\ prop' = [n \in Targets |-> Nothing]
  /\ line' = [t \in 1..Ttys |-> <<>>]
  /\ UNCHANGED <<sends, splits, written, announced, told>>

Boot == BootInit \/ BootLoad \/ BootStatus \/ BootProps
Parse ==
  \/ Refuse \/ AnswerEnter \/ AnswerShakeHands \/ ShakenHands
  \/ \E n \in Targets : Stage(n)
  \/ AnswerStart \/ Joined
Reader == Boot \/ Loop \/ Lock \/ Read \/ Parse \/ Exit
Worker == Check \/ SetVar \/ Store \/ Storing \/ Answer \/ SetProp \/ RefuseStart

Next == Host \/ Reader \/ Worker \/ Restart

Spec == Init /\ [][Next]_vars

\* Both threads are scheduled; the host and the power switch owe nothing.
FairSpec == Spec /\ WF_vars(Reader) /\ WF_vars(Worker)

-----------------------------------------------------------------------------
(* A value that the host was told is stored (0x8E, data1 = 1) is in the
   partition, whatever packets follow and after any restart, until a START
   for the same variable is served again or a store is damaged: the daemon
   loads the environment once, so that what a failed read left of it is never
   stored (main.cpp:537-545, mi_loader.c:758-776). *)
ToldIsStored ==
  op = "idle" /\ ~damaged =>
    \A n \in Targets : told[n] # Nothing => Env!Holds(flash, n, told[n])

(* It is also the value of the property rw.build.system.<name> whenever the
   daemon serves the line with its environment loaded (main.cpp:547, 733-757). *)
PropFollowsStore ==
  loaded /\ ~damaged /\ pc = "loop" =>
    \A n \in Targets : told[n] # Nothing => prop[n] = told[n]

Digits(v, r) == [j \in 1..(Len(v) \div 2) |-> v[2 * j - r]]

WasWritten(n, v) == \E d \in written[n] : v = Str2BcdStr(d)

WasAnnounced(n, v) ==
  \E a \in announced[n] :
    /\ Len(v) = 2 * a[1]
    /\ 16 * Xor(Digits(v, 1)) + Xor(Digits(v, 0)) = a[2]

\* The variables a START is about; a value that found no room may be in the
\* image cut off (Overflow of FlashEnv), and is stored with the next one.
Served(image) == {e \in image.vars : e.name \in Targets /\ e.value # Cut}

(* As long as every read returned all that had been sent, what gets into the
   partition is a value the host has written for that very variable: nothing
   is left over from an earlier packet, or mixed up between the two buffers
   (main.cpp:599-611, 687-692). *)
StoredWasWritten ==
  splits = 0 => \A e \in Served(flash) : WasWritten(e.name, e.value)

(* However the packets were cut up, run together, mixed between devices or
   lost, it has the length and the XOR that the host announced for that
   variable in a START (main.cpp:504-538), if no byte of a packet but its
   first is the header's, so that what is left of a packet cannot pass for a
   START. *)
StoredAsAnnounced == \A e \in Served(flash) : WasAnnounced(e.name, e.value)

(* Both: what the host has never sent for a variable is not stored in it. *)
StoredWasAnnounced == StoredWasWritten /\ StoredAsAnnounced

(* The partition is only rewritten between a START and its answer, in a
   session whose host has shaken hands (main.cpp:613-617). *)
StoreNeedsHandshake == op # "idle" => shands /\ pc = "join"

(* A START that is being served is answered, and the reading thread goes on,
   unless the power fails. *)
StartIsServed == pc = "join" ~> pc # "join"

(* The daemon ends by itself, after every start: it has a limited number of rounds, which the
   first byte raises once and nothing resets (main.cpp:653-656, 673). *)
DaemonEnds == <>[](pc = "exited")
=============================================================================
