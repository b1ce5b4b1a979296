----------------------------- MODULE Peripherals -----------------------------
(* Parts of the process that share nothing in its code, side by side: the     *)
(* keypad, the descriptors (Board), the frames of SerialCommand.cpp, the      *)
(* drawing of mi_fb.c, the serial modes of mi_gpio_spi.c, the list of a       *)
(* wireless scan, the delays of mi_sys.c, and the calls that run shell        *)
(* commands, of mi_pwm.c, mi_rgbled.c and mi_wlan.c.  A property of one of    *)
(* them is a property of the process.                                         *)
EXTENDS Keypad, Sequences

CONSTANTS
    Numbers, Ttys, Left,                                     \* Board
    Volumes, Noise, Followed, Backlog, MaxFrames, MaxFaults, \* SerialFrame
    Width, Height, line_length, fb_mem_offset, Paints,       \* Framebuffer
    SpiWords, MaxBreaks,                                     \* SpiModes
    Cells, MaxCells, NameFirst,                              \* WlanScan
    Word, Wide, Lengths, MaxJump, MaxTime,                   \* Delay
    Channels, Times,                                         \* Pwm
    Lamps, Colours,                                          \* RgbLed
    Chips, RadioChannels,                                    \* WlanRadio
    Networks, Frequency, Readers                             \* WlanStatus

VARIABLES
    open, _gInputFd, _gI2cFd, gInitDoneFlag, fb, m_serial_handle,
    fds, source,                                             \* Board
    wire, store, meant, heard, faults, lost, slow,           \* SerialFrame
    mem, picture,                                            \* Framebuffer
    levels, seen, got, sent, breaks,                         \* SpiModes
    latest, pipe, scanning, list, number, at,                \* WlanScan
    time, unit, phase, wanted, stamp, begun,                 \* Delay
    pwm, reported,                                           \* Pwm
    shown, asked,                                            \* RgbLed
    plugged, _u8chipname, buffer, named, mode, command,      \* WlanRadio
    joined, bssid, signal, turn, statu, told                 \* WlanStatus

\* Descriptors, colours and frequencies are numbers, a volume is a byte; the
\* counters of mi_sys.c have an even number of values, half of them negative, and
\* the wide counter holds the narrow one.  Each information element of a cell has
\* its Group line.  A row of the screen's memory has room for its pixels.
ASSUME PeripheralsAssumption ==
    /\ Numbers \subseteq Nat
    /\ Left \subseteq [speed : Nat, bits : Nat, cooked : BOOLEAN, strip : BOOLEAN, edit : BOOLEAN]
    /\ Volumes \subseteq 0..255
    /\ Width \in Nat /\ Height \in Nat /\ line_length \in Nat /\ fb_mem_offset \in Nat
    /\ 4 * Width <= line_length
    /\ Paints \subseteq [r : Nat, g : Nat, b : Nat, t : Nat]
    /\ SpiWords \subseteq Nat
    /\ Word \in Nat \ {0} /\ Wide \in Nat /\ Wide >= Word /\ 2 * (Word \div 2) = Word
    /\ Lengths \subseteq Nat
    /\ Lamps \in Nat /\ Colours \subseteq Nat
    /\ Frequency \in [Networks -> Nat]
    /\ MaxCells \in Nat /\ NameFirst \subseteq BOOLEAN
    /\ \A c \in Cells :
           /\ c \in [hidden : BOOLEAN, key : BOOLEAN, psk : BOOLEAN,
                     ies : Seq(STRING), groups : Seq(STRING)]
           /\ Len(c.groups) = Len(c.ies)

Files == INSTANCE Board
Serial == INSTANCE SerialFrame
Drawing == INSTANCE Framebuffer WITH Colours <- Paints
Transfers == INSTANCE SpiModes WITH Words <- SpiWords
Scan == INSTANCE WlanScan
Wait == INSTANCE Delay
Pulses == INSTANCE Pwm WITH settled <- reported
Lights == INSTANCE RgbLed
Radio == INSTANCE WlanRadio WITH Numbers <- RadioChannels
Status == INSTANCE WlanStatus WITH report <- bssid

\* Each module of the library holds a descriptor of its own.
NumbersAreOwn == Files!NumbersAreOwn

\* Whoever reads a serial line gets what was sent, if nothing disturbs the line:
\* SerialCommand.cpp every frame, in its order and once, however the characters
\* are cut into reads, and uart_tool every byte, in whatever way the line was left.
SentIsRead ==
    /\ Serial!FramesArrive
    /\ Files!BytesPass

\* What is for a display comes to it as it was meant: the framebuffer of mi_fb.c
\* holds what was drawn, and nothing beside it, and a device behind one of the
\* serial modes of 8 or 9 bits of mi_gpio_spi.c takes the bytes that are sent, and
\* no others (the mode of 16 bits, excepted here, does not: mi_gpio_spi.c:191).
DisplayRight ==
    /\ Drawing!ScreenShowsPicture
    /\ Transfers!TakesWhatIsSent

\* The list of _MI_WLAN_Scan says of each cell what the cell has reported.
ListedAsReported == Scan!ListedAsReported

\* The delays of mi_sys.c last as long as they should, over a wrap of the counter.
DelayKept == Wait!DelayKept

\* What the calls that run shell commands report is so: the channels of
\* mi_pwm.c, the lamps of mi_rgbled.c, the radio of mi_wlan.c, which is
\* tuned in the way of its chip, and the channel that its status names.
CommandsTakeEffect ==
    /\ Pulses!RunsAsReported
    /\ Lights!ShowsColours
    /\ Radio!SpeaksToItsChip
    /\ Status!ChannelIsItsOwn
=============================================================================
