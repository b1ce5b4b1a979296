---------------------------- MODULE SerialFrame ----------------------------
(***************************************************************************)
(* The frames of SerialCommand.cpp.  The host writes four bytes; the       *)
(* speaker answers in text: two hex digits and a space for each byte.  The *)
(* reader thread takes whatever characters have come, keeps them until     *)
(* there are four spaces among them, and decodes the frame.  SerialCommand *)
(* takes a frame as one packet; this module is about how it becomes one.   *)
(*                                                                         *)
(* A character is its ASCII code.                                          *)
(***************************************************************************)
EXTENDS Naturals, Sequences, SequencesExt

CONSTANTS
  Volumes,    \* the bytes that carry a volume, bit 7 being the mute switch
  Noise,      \* the characters that disturbances put on the line
  Followed,   \* bound: the commands sent in a row
  Backlog,    \* bound: characters unread when the next frame is sent
  MaxFrames,  \* bound: frames the speaker sends
  MaxFaults   \* bound: characters lost, changed or added

VARIABLES
  wire,    \* characters sent and not yet read
  store,   \* pReponse, its first n_store_bytes characters
  meant,   \* what the speaker has sent, in order (history)
  heard,   \* what SerParse_rk3229_t has returned, in order (history)
  faults,  \* MaxFaults budget used
  lost,    \* frames that were in the line when it was flushed (history)
  slow     \* a frame came in pieces, or before the one ahead was read (history)

vars == <<wire, store, meant, heard, faults, lost, slow>>

MaxPacketLen == 12
FrameLen == 4
Space == 32
DHead == 122     \* D_HEAD, 0x7A
Host == 1       \* ADD_rk3229
Speaker == 2    \* ADD_speaker

CommandByte ==
  [getvolume |-> 161, setvolume |-> 162, setmusmode |-> 163, booting |-> 164,
   connecting |-> 165, connectfail |-> 166, connectsecc |-> 167,
   afterwakeup |-> 168, searching |-> 169, playing |-> 170, alarm |-> 171,
   updating |-> 172, updatefail |-> 173, setnetworkconf |-> 174,
   setnewsmode |-> 175, setdefault |-> 176, setmovmode |-> 177]

Events == {"setnetworkconf", "setdefault"}
VolumeCommands == {"getvolume", "setvolume"}
Plain == DOMAIN CommandByte \ VolumeCommands
Asked == DOMAIN CommandByte \ Events

\* The operators | and ^ on bytes.
Weights == <<128, 64, 32, 16, 8, 4, 2, 1>>
Bits(x) == [i \in 1..8 |-> (x \div Weights[i]) % 2]
Byte(b) ==
  128 * b[1] + 64 * b[2] + 32 * b[3] + 16 * b[4] + 8 * b[5] + 4 * b[6] + 2 * b[7] + b[8]

Or(x, y) == Byte([i \in 1..8 |-> IF Bits(x)[i] + Bits(y)[i] > 0 THEN 1 ELSE 0])
Xor(x, y) == Byte([i \in 1..8 |-> (Bits(x)[i] + Bits(y)[i]) % 2])

Message(c, d) == [cmd |-> c, data |-> d % 128, mute |-> d >= 128]

Frame(addr, comd) == <<DHead, addr, comd, Xor(addr, comd)>>

-----------------------------------------------------------------------------
(* SerWrite_rk3229_t *)

\* The bytes written for ser_cmd = c and ser_data = d.  A command that is in no
\* case of the switch leaves 0, and is sent.
Encode(c, d) ==
  IF c = "setvolume" THEN Frame(CommandByte[c], d)
  ELSE Frame(Speaker, IF c \in Asked THEN CommandByte[c] ELSE 0)

-----------------------------------------------------------------------------
(* The speaker *)

Digit(n) == IF n < 10 THEN 48 + n ELSE 55 + n
Text(f) ==
  [k \in 1..MaxPacketLen |->
     LET byte == f[(k + 2) \div 3]
     IN  IF k % 3 = 0 THEN Space ELSE Digit(IF k % 3 = 1 THEN byte \div 16 ELSE byte % 16)]

\* A volume frame carries its command as the address; volume v is the answer to
\* getvolume.
Answer(f, v) ==
  IF f[2] # Speaker THEN f
  ELSE IF f[3] = CommandByte.getvolume THEN Frame(f[3], v)
  ELSE Frame(Host, f[3])

-----------------------------------------------------------------------------
(* thread_read_sercom_fun: is there a frame among the stored characters? *)

\* What might go wrong: upper-case letters are not counted from ten.
ValueFromA(c) == IF c \in 65..70 THEN c - 65 ELSE (256 + c - 48) % 256

Value(c) ==
  IF c \in 97..102 THEN c - 97 + 10
  ELSE IF c \in 65..70 THEN c - 65 + 10
  ELSE (256 + c - 48) % 256

Put(a, c) ==
  IF c = Space THEN [a EXCEPT !.spaces = @ + 1]
  ELSE IF a.spaces >= FrameLen THEN a
  ELSE [a EXCEPT !.bytes[a.spaces + 1] = Or((@ * 16) % 256, Value(c))]

Assemble(s) ==
  LET upto[n \in 0..Len(s)] ==
        IF n = 0 THEN [spaces |-> 0, bytes |-> [i \in 1..FrameLen |-> 0]]
        ELSE Put(upto[n - 1], s[n])
  IN upto[Len(s)]

-----------------------------------------------------------------------------
(* SerParse_rk3229_t.  ser_data has been cleared before.  *)

Unknown == Message("unknown", 0)
Named(b) == {c \in DOMAIN CommandByte : CommandByte[c] = b}

\* What might go wrong: the XOR is not compared.
SoundUnchecked(f) == f[1] = DHead

Sound(f) == f[4] = Xor(f[2], f[3]) /\ f[1] = DHead

Decode(f) ==
  LET byte == IF f[2] = Host THEN f[3] ELSE f[2]
      cmds == Named(byte) \cap (IF f[2] = Host THEN Plain ELSE VolumeCommands)
      cmd  == IF cmds = {} THEN "unknown" ELSE CHOOSE c \in cmds : TRUE
  IN  Message(cmd, IF f[2] = Host THEN 0 ELSE f[3])

-----------------------------------------------------------------------------
(* Steps *)

Init ==
  /\ wire = <<>> /\ store = <<>>
  /\ meant = <<>> /\ heard = <<>>
  /\ faults = 0 /\ lost = 0 /\ slow = FALSE

\* A frame as it may come through: with a character lost, changed or added.
Disturbed(line) ==
  {RemoveAt(line, i) : i \in DOMAIN line}
    \cup {ReplaceAt(line, i, c) : i \in DOMAIN line, c \in Noise}
    \cup {InsertAt(line, i, c) : i \in DOMAIN line, c \in Noise}

Send(f, m) ==
  /\ Len(meant) < MaxFrames /\ Len(wire) <= Backlog
  /\ meant # <<>> => {m.cmd, meant[1].cmd} \subseteq Followed
  /\ \/ wire' = wire \o Text(f) /\ UNCHANGED faults
     \/ /\ faults < MaxFaults /\ faults' = faults + 1
        /\ \E line \in Disturbed(Text(f)) : wire' = wire \o line
  /\ meant' = Append(meant, m)
  /\ slow' = (slow \/ wire # <<>>)
  /\ UNCHANGED <<store, heard, lost>>

\* The host writes a command; the speaker understands the frame and answers.
Ask(c, v) ==
  /\ c \in VolumeCommands \/ v = 0
  /\ Send(Answer(Encode(c, v), v), Message(c, v))

\* The thirteen operations, by the ser_cmd and ser_data they choose; how they lock,
\* write and wait is SerialCommand's.
OnBooting == Ask("booting", 0)
OnNetworkConnecting == Ask("connecting", 0)
OnNetworkConnectionSuccess == Ask("connectsecc", 0)
OnNetworkConnectionFailed == Ask("connectfail", 0)
OnWakeup == Ask("afterwakeup", 0)
OnSerchingOrLoading == Ask("searching", 0)
OnPlaying == Ask("playing", 0)
OnAlarm == Ask("alarm", 0)
OnSysUpgrading == Ask("updating", 0)
OnSysUpgradeFailed == Ask("updatefail", 0)
OnSetVolume(v) == Ask("setvolume", v)
OnGetVolume(v) == Ask("getvolume", v)   \* v: what the speaker is at

\* The case of i4SoundMode; any other mode leaves ser_cmd unset, and is not passed.
OnSetSoundMode == \E c \in {"setmusmode", "setnewsmode", "setmovmode"} : Ask(c, 0)

Operation ==
  \/ OnBooting \/ OnNetworkConnecting \/ OnNetworkConnectionSuccess
  \/ OnNetworkConnectionFailed \/ OnWakeup \/ OnSerchingOrLoading \/ OnPlaying
  \/ OnAlarm \/ OnSysUpgrading \/ OnSysUpgradeFailed \/ OnSetSoundMode
  \/ \E v \in Volumes \cup {0} : OnSetVolume(v) \/ OnGetVolume(v)

\* The speaker reports a key unasked.
Tell(c) == Send(Frame(Host, CommandByte[c]), Message(c, 0))

\* tcflush(TCIOFLUSH) drops what has been received so far.
SerClear(rest) ==
  \E k \in 0..Len(rest) :
    /\ wire' = SubSeq(rest, k + 1, Len(rest))
    /\ lost' = lost + (IF k > 0 THEN 1 ELSE 0)
    /\ slow' = (slow \/ k < Len(rest))

Full(s) == Len(s) >= MaxPacketLen

\* What the loop does with the characters s that are stored and with the rest of
\* the line; a is what Assemble makes of s.

KeepPart(s, rest, a) ==
  /\ a.spaces < FrameLen /\ ~Full(s)
  /\ store' = s /\ wire' = rest
  /\ slow' = (slow \/ rest # <<>>)
  /\ UNCHANGED <<meant, heard, faults, lost>>

DropOverlong(s, rest, a) ==
  /\ a.spaces < FrameLen /\ Full(s)
  /\ store' = <<>>
  /\ SerClear(rest)
  /\ UNCHANGED <<meant, heard, faults>>

Deliver(s, rest, a) ==
  /\ a.spaces >= FrameLen /\ Sound(a.bytes)
  /\ store' = <<>>
  /\ heard' = Append(heard, Decode(a.bytes))
  /\ IF Decode(a.bytes) = Unknown /\ a.bytes[2] = Host
     THEN SerClear(rest)
     ELSE wire' = rest /\ UNCHANGED <<lost, slow>>
  /\ UNCHANGED <<meant, faults>>

Refuse(s, rest, a) ==
  /\ a.spaces >= FrameLen /\ ~Sound(a.bytes)
  /\ store' = <<>>
  /\ SerClear(rest)
  /\ UNCHANGED <<meant, heard, faults>>

\* SerRead returned k characters.
Read(k) ==
  LET s    == store \o SubSeq(wire, 1, k)
      rest == SubSeq(wire, k + 1, Len(wire))
      a    == Assemble(s)
  IN  /\ k <= Len(wire) /\ k <= MaxPacketLen - Len(store)
      /\ \/ KeepPart(s, rest, a) \/ DropOverlong(s, rest, a)
         \/ Deliver(s, rest, a) \/ Refuse(s, rest, a)

Next ==
  \/ Operation
  \/ \E c \in Events : Tell(c)
  \/ \E k \in 1..MaxPacketLen : Read(k)

Spec == Init /\ [][Next]_vars

-----------------------------------------------------------------------------
(* Properties *)

\* What names a command: the packet of an unknown one is ignored, or given to the
\* listener as SERCMD_unknown.
Known == SelectSeq(heard, LAMBDA m : m.cmd # "unknown")

\* A volume equal to the byte of its command has the check 0, and is read as the
\* volume 0 when a space is doubled before it.
SameAs(h, m) ==
  \/ h = m
  \/ h.cmd = m.cmd /\ m = Message(m.cmd, CommandByte[m.cmd])

\* However the characters of undisturbed frames are cut into reads, every frame is
\* decoded to what it was sent for, in the order of sending and once, and when the
\* line is empty nothing is left over (the assembler's loop, the reset of
\* n_store_bytes between frames and the two tables of commands).
FramesArrive ==
  faults = 0 => /\ IsPrefix(heard, meant)
                /\ wire = <<>> => store = <<>> /\ heard = meant

\* What reaches the callers and the listener was sent, in that order and once:
\* a character that is lost, changed or added may cost frames but makes no other
\* command, and no other volume but that of SameAs (the check in
\* SerParse_rk3229_t).
DeliveredWasSent ==
  FoldLeft(LAMBDA due, m : IF due # <<>> /\ SameAs(Head(due), m) THEN Tail(due) ELSE due,
           Known, meant) = <<>>

\* As long as a frame has come whole before the reader looks, a disturbed character
\* costs no more than its own frame and the next one: the flushes bring the reader
\* back in step.
BackInStep ==
  ~slow /\ wire = <<>> => Len(meant) <= Len(Known) + 2 * faults
=============================================================================
