-------------------------------- MODULE IrBus --------------------------------
(* The infrared receiver of src/uart/mi/mi_ir.c (HXD019C): a chip on two GPIO *)
(* pins that the learn thread moves up and down, and a third pin, BUSY, with  *)
(* which the chip tells that it has learnt a code.  A step is one change of a *)
(* pin, because each is a GPIO call whose failure the code ignores and at each *)
(* the process may end; the chip keeps its state through both.                *)
EXTENDS Naturals, Sequences

CONSTANTS
    Codes,      \* what the chip may learn: sequences of as many bytes as readI2C reads
    Stamps,     \* what the variable currentTime may hold before it is set: seconds ago
    MaxLosses   \* bound on the GPIO calls that fail and the restarts

VARIABLES
    pins,       \* what the host drives: SDA "low", "high" or "in", SCL 0 or 1
    slave,      \* the chip's side of the bus and what it is doing
    work,       \* the operations on the bus the thread has still to do
    buf,        \* ir_buf, as far as it was read
    waited,     \* seconds since currentTime was set
    whole,      \* has the present transaction lost no pin change so far?
    clean,      \* number of whole transactions in a row, up to 2
    losses

vars == <<pins, slave, work, buf, waited, whole, clean, losses>>

-----------------------------------------------------------------------------
(* The operations on the bus as pin changes.  SetSCLOutput drives SCL low;   *)
(* SetSDAOutput does nothing.                                                 *)
SDA(level) == << <<"SDA", level>> >>
SCL(level) == << <<"SCL", level>> >>

Flatten(seqs) ==
    LET all[n \in 0 .. Len(seqs)] ==
            IF n = 0 THEN <<>> ELSE all[n - 1] \o seqs[n]
    IN  all[Len(seqs)]

I2COpen == SCL(0) \o SCL(1) \o SDA("high")
I2CClose == SCL(0) \o SCL(1) \o SDA("high")

(* What might go wrong: SDA falls before SCL is up. *)
I2CStartEarly == SCL(0) \o SDA("high") \o SDA("low") \o SCL(1) \o SCL(0)

I2CStart == SCL(0) \o SCL(1) \o SDA("high") \o SDA("low") \o SCL(0)
I2CStop == SCL(0) \o SDA("low") \o SCL(1) \o SDA("high")

GetACKSign == SDA("in") \o SCL(1) \o SCL(0)
SendACKSign == SDA("low") \o SCL(1) \o SCL(0)

Bit(byte, k) == (byte \div 2 ^ k) % 2

I2CWriteData(byte) ==
    SCL(0)
    \o Flatten([i \in 1 .. 8 |->
           SDA(IF Bit(byte, 8 - i) = 1 THEN "high" ELSE "low") \o SCL(1) \o SCL(0)])
    \o GetACKSign

I2CReadData ==
    SDA("in")
    \o Flatten([i \in 1 .. 8 |-> SCL(1) \o << <<"ask">> >> \o SCL(0)])
    \o SendACKSign

(* The pulse on SCL that wakes the chip up 20 ms before the start. *)
WakeUp == I2COpen \o SCL(0) \o SCL(1)

Learn_start ==
    WakeUp \o I2CStart
    \o I2CWriteData(48) \o I2CWriteData(32) \o I2CWriteData(80)
    \o I2CStop \o I2CClose

(* Every byte is acknowledged, the last one too. *)
readI2C(n) ==
    WakeUp \o I2CStart
    \o I2CWriteData(48) \o I2CWriteData(98)
    \o I2CStart \o I2CWriteData(49)
    \o Flatten([i \in 1 .. n |-> I2CReadData])
    \o I2CStop \o I2CClose

remote_poweron_init == SDA("high") \o SCL(0) \o SCL(1)

-----------------------------------------------------------------------------
(* The chip, an ordinary slave of such a bus: its address is 48, or 49 to     *)
(* read; it takes a bit when SCL rises, changes SDA when SCL falls, and knows *)
(* a start and a stop by SDA falling and rising while SCL is up.              *)
Level(p, c) == IF p.SDA = "low" \/ c.pulls THEN 0 ELSE 1

NoCode == <<>>

Idle == [mode |-> "idle", count |-> 0, shift |-> 0, bytes |-> <<>>, sent |-> 0,
         pulls |-> FALSE, learning |-> FALSE, code |-> NoCode]

Start(c) == [c EXCEPT !.mode = "recv", !.count = 0, !.shift = 0, !.bytes = <<>>,
                      !.pulls = FALSE]

Stop(c) ==
    LET told == c.mode = "recv" /\ c.bytes = <<48, 32, 80>>
    IN  [c EXCEPT !.mode = "idle", !.pulls = FALSE, !.count = 0,
                  !.learning = @ \/ told,
                  !.code = IF told THEN NoCode ELSE @]

(* The bit the chip sends next; past the code, where readI2C's last           *)
(* acknowledgement leads, it lets go of SDA.                                  *)
Sends(c) ==
    IF c.sent < Len(c.code) THEN Bit(c.code[c.sent + 1], 7 - c.count) ELSE 1

Rise(c, level) ==
    CASE c.mode = "recv" /\ c.count < 8
           -> [c EXCEPT !.count = @ + 1, !.shift = (2 * @ + level) % 256]
      [] c.mode = "send" /\ c.count < 8 -> [c EXCEPT !.count = @ + 1]
      [] c.mode = "send" /\ c.count = 8
           -> IF level = 1 THEN [c EXCEPT !.mode = "idle"] ELSE [c EXCEPT !.count = 9]
      [] c.mode = "recv" /\ c.count = 8 -> [c EXCEPT !.count = 9]
      [] OTHER -> c

Fall(c) ==
    CASE c.mode = "recv" /\ c.count = 8
           -> IF c.bytes = <<>> /\ c.shift \notin {48, 49} THEN [c EXCEPT !.mode = "idle"]
              ELSE [c EXCEPT !.pulls = TRUE, !.bytes = Append(@, c.shift)]
      [] c.mode = "recv" /\ c.count = 9
           -> IF c.bytes = <<49>>
              THEN LET s == [c EXCEPT !.mode = "send", !.count = 0, !.sent = 0]
                   IN  [s EXCEPT !.pulls = Sends(s) = 0]
              ELSE [c EXCEPT !.pulls = FALSE, !.count = 0, !.shift = 0]
      [] c.mode = "send" /\ c.count < 8 -> [c EXCEPT !.pulls = Sends(c) = 0]
      [] c.mode = "send" /\ c.count = 8 -> [c EXCEPT !.pulls = FALSE]
      [] c.mode = "send" /\ c.count = 9
           -> LET s == [c EXCEPT !.count = 0, !.sent = @ + 1]
              IN  [s EXCEPT !.pulls = Sends(s) = 0]
      [] OTHER -> [c EXCEPT !.pulls = FALSE]

(* The chip after the host has changed its pins from p to q. *)
Sees(c, p, q) ==
    LET before == Level(p, c)
        after == Level(q, c)
    IN  CASE p.SCL = 0 /\ q.SCL = 1 -> Rise(c, after)
          [] p.SCL = 1 /\ q.SCL = 0 -> Fall(c)
          [] p.SCL = 1 /\ q.SCL = 1 /\ before = 1 /\ after = 0 -> Start(c)
          [] p.SCL = 1 /\ q.SCL = 1 /\ before = 0 /\ after = 1 -> Stop(c)
          [] OTHER -> c

BUSY == slave.code # NoCode

-----------------------------------------------------------------------------
(* The thread: Learn_start once; then a code is read out whenever BUSY is up,  *)
(* and learning begins anew after that and after 15 seconds without a code.   *)
Transaction(ops) == << <<"begin">> >> \o ops \o << <<"end">> >>

Powered == remote_poweron_init \o Transaction(Learn_start)
Relearn == Transaction(Learn_start) \o << <<"stamp">> >>
ReadOut(n) == Transaction(readI2C(n)) \o Relearn

Init ==
    /\ pins = [SDA |-> "in", SCL |-> 1]
    /\ slave = Idle
    /\ work = Powered
    /\ buf = <<>>
    /\ waited \in Stamps
    /\ whole = FALSE
    /\ clean = 0
    /\ losses = 0

Doing(op) == work # <<>> /\ Head(work)[1] = op

Done == work' = Tail(work)

(* SetSDAHigh, SetSDALow, SetSDAInput, SetSCLHigh and SetSCLLow. *)
SetPin ==
    /\ Doing("SDA") \/ Doing("SCL")
    /\ pins' = [pins EXCEPT ![Head(work)[1]] = Head(work)[2]]
    /\ slave' = Sees(slave, pins, pins')
    /\ Done
    /\ UNCHANGED <<buf, waited, whole, clean, losses>>

(* MI_GPIO_SetOutput or MI_GPIO_SetInput fails, which nobody asks about. *)
SetPinFails ==
    /\ Doing("SDA") \/ Doing("SCL")
    /\ losses < MaxLosses
    /\ losses' = losses + 1
    /\ whole' = FALSE
    /\ Done
    /\ UNCHANGED <<pins, slave, buf, waited, clean>>

(* GetDINStatus. *)
Ask ==
    /\ Doing("ask")
    /\ buf' = Append(buf, Level(pins, slave))
    /\ Done
    /\ UNCHANGED <<pins, slave, waited, whole, clean, losses>>

(* MI_GPIO_GetLevel fails: GetDINStatus returns what its variable held. *)
AskFails ==
    /\ Doing("ask")
    /\ losses < MaxLosses
    /\ losses' = losses + 1
    /\ whole' = FALSE
    /\ \E level \in {0, 1} : buf' = Append(buf, level)
    /\ Done
    /\ UNCHANGED <<pins, slave, waited, clean>>

Begin ==
    /\ Doing("begin")
    /\ buf' = <<>>
    /\ whole' = TRUE
    /\ Done
    /\ UNCHANGED <<pins, slave, waited, clean, losses>>

End ==
    /\ Doing("end")
    /\ clean' = IF ~whole THEN 0 ELSE IF clean = 2 THEN 2 ELSE clean + 1
    /\ Done
    /\ UNCHANGED <<pins, slave, buf, waited, whole, losses>>

Stamp ==
    /\ Doing("stamp")
    /\ waited' = 0
    /\ Done
    /\ UNCHANGED <<pins, slave, buf, whole, clean, losses>>

ReadLearnt ==
    /\ work = <<>> /\ BUSY
    /\ work' = ReadOut(Len(slave.code))
    /\ UNCHANGED <<pins, slave, buf, waited, whole, clean, losses>>

RelearnLate ==
    /\ work = <<>> /\ ~BUSY /\ waited > 15
    /\ work' = Relearn
    /\ UNCHANGED <<pins, slave, buf, waited, whole, clean, losses>>

(* So does GetBUSYStatus: the thread reads where there is nothing to read, or *)
(* gives up what is there.                                                    *)
BUSYFails ==
    /\ work = <<>>
    /\ losses < MaxLosses
    /\ losses' = losses + 1
    /\ clean' = 0
    /\ \/ ~BUSY /\ \E c \in Codes : work' = ReadOut(Len(c))
       \/ BUSY /\ waited > 15 /\ work' = Relearn
    /\ UNCHANGED <<pins, slave, buf, waited, whole>>

(* Time passes while the thread goes round, and the chip catches a code. *)
Tick ==
    /\ work = <<>> /\ waited <= 15
    /\ waited' = waited + 5
    /\ UNCHANGED <<pins, slave, work, buf, whole, clean, losses>>

Catch ==
    /\ slave.learning /\ slave.mode = "idle"
    /\ \E c \in Codes : slave' = [slave EXCEPT !.learning = FALSE, !.code = c]
    /\ UNCHANGED <<pins, work, buf, waited, whole, clean, losses>>

(* The process ends and is started again; the pins keep their levels. *)
Restart ==
    /\ losses < MaxLosses
    /\ losses' = losses + 1
    /\ work' = Powered
    /\ buf' = <<>>
    /\ waited' \in Stamps
    /\ whole' = FALSE
    /\ clean' = 0
    /\ UNCHANGED <<pins, slave>>

Next ==
    \/ SetPin \/ SetPinFails \/ Ask \/ AskFails \/ Begin \/ End \/ Stamp
    \/ ReadLearnt \/ RelearnLate \/ BUSYFails \/ Tick \/ Catch \/ Restart

Spec == Init /\ [][Next]_vars

-----------------------------------------------------------------------------
Bits(code) == Flatten([i \in DOMAIN code |-> [k \in 1 .. 8 |-> Bit(code[i], 8 - k)]])

(* The chip is waiting for a code, or has one to tell of, whenever the thread *)
(* goes round after two transactions that lost no pin change, wherever the    *)
(* bus was left before by a change that was lost or by the end of the process *)
(* in the middle of a byte.  One is not enough: the chip may hold SDA down    *)
(* when it begins, and then sees no start; nobody looks at what the chip      *)
(* acknowledged, the thread tries again after 15 seconds.  And what a whole   *)
(* transaction after another has read is the code that was learnt, bit for    *)
(* bit, though the host gives SDA away and takes it back for each byte.       *)
LearnsAndReads ==
    /\ work = <<>> /\ clean = 2 => slave.learning \/ BUSY
    /\ Doing("end") /\ whole /\ buf # <<>> /\ clean >= 1 => buf = Bits(slave.code)
=============================================================================
