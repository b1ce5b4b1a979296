------------------------------ MODULE SpiModes ------------------------------
(* The transfer modes of src/uart/mi/mi_gpio_spi.c beside the one the display *)
(* uses (see Panel): 4 lines with 8 bits, whose fourth line nobody moves, 3   *)
(* lines with 9 bits, the first of which tells commands from data, and 3      *)
(* lines with 16 bits.  A step is one word with all changes of its pins, or   *)
(* as much of them as a process makes that ends in the middle; the device at  *)
(* the other end takes a word when CS rises after the right number of bits.   *)
EXTENDS Naturals, Sequences

CONSTANTS
    Words,     \* what is sent
    MaxBreaks  \* bound: words that are broken off

VARIABLES
    levels,    \* of the pins
    seen,      \* the bits the device has seen since CS fell
    got,       \* what it took for its last word, <<>> when nothing
    sent,      \* the mode and the bits of the last word, and whether it was
               \* begun with CS high and went to its end (history)
    breaks     \* MaxBreaks budget used

vars == <<levels, seen, got, sent, breaks>>

Modes == {"cmd8", "dat8", "cmd9", "dat9", "value16"}

\* The bits of a byte, the highest first.
Weights == <<128, 64, 32, 16, 8, 4, 2, 1>>
Bits(byte) == [k \in 1 .. 8 |-> (byte \div Weights[k]) % 2]

-----------------------------------------------------------------------------
(* What the pins are told: pairs of a pin and a level. *)
Clocked(bits) ==
    << <<"SCLK", 0>> >>
    \o [k \in 1 .. 3 * Len(bits) |->
           IF k % 3 = 1 THEN <<"SDI", bits[(k + 2) \div 3]>>
           ELSE <<"SCLK", IF k % 3 = 2 THEN 0 ELSE 1>>]
    \o << <<"SCLK", 0>> >>

\* What might go wrong: the lowest bit first.
SDI_write_8bitReversed(value) == Clocked([k \in 1 .. 8 |-> Bits(value % 256)[9 - k]])

\* _SDI_write_8bit
SDI_write_8bit(value) == Clocked(Bits(value % 256))

\* _SDI_write_16bit looks at bit 7 of the value that it shifts 16 times: the
\* low byte comes first, and zeros after it.
SDI_write_16bit(value) == Clocked(Bits(value % 256) \o Bits(0))

\* _WriteCmd_8bit and _WriteDat_8bit do the same.
Write8bit(value) ==
    << <<"SCLK", 0>>, <<"SDI", 0>>, <<"CS", 0>> >> \o SDI_write_8bit(value) \o << <<"CS", 1>> >>

\* _WriteCmd_9bit and _WriteDat_9bit: one more bit, and its clock, come first.
Write9bit(first, value) ==
    << <<"SCLK", 0>>, <<"SDI", first>>, <<"CS", 0>>, <<"SCLK", 1>> >>
    \o SDI_write_8bit(value) \o << <<"CS", 1>> >>

WriteValue16bit(value) ==
    << <<"SCLK", 0>>, <<"CS", 0>> >> \o SDI_write_16bit(value)
    \o << <<"CS", 1>>, <<"SCLK", 1>> >>

\* SPI_WriteCom_* and SPI_WriteData_* of each mode.
Transfer(mode, value) ==
    IF mode \in {"cmd8", "dat8"} THEN Write8bit(value)
    ELSE IF mode = "cmd9" THEN Write9bit(0, value)
    ELSE IF mode = "dat9" THEN Write9bit(1, value)
    ELSE WriteValue16bit(value)

-----------------------------------------------------------------------------
(* The device *)
Length(mode) ==
    IF mode \in {"cmd8", "dat8"} THEN 8 ELSE IF mode \in {"cmd9", "dat9"} THEN 9 ELSE 16

\* The device after one change of a pin: a bit is seen when SCLK rises; those
\* after the first that is too many do not matter.
See(mode, d, change) ==
    LET pin == change[1]
        level == change[2]
        rises == d.levels[pin] = 0 /\ level = 1
        after == [d EXCEPT !.levels[pin] = level]
    IN  IF pin = "CS" /\ rises
        THEN [after EXCEPT !.seen = <<>>,
                           !.got = IF Len(d.seen) = Length(mode) THEN d.seen ELSE <<>>]
        ELSE IF pin = "SCLK" /\ rises /\ d.levels.CS = 0
        THEN [after EXCEPT !.seen = IF Len(@) > Length(mode) THEN @
                                    ELSE Append(@, d.levels.SDI)]
        ELSE after

Init ==
    /\ levels \in [{"CS", "SCLK", "SDI"} -> {0, 1}]
    /\ seen = <<>> /\ got = <<>>
    /\ sent = [mode |-> "cmd8", word |-> 0, whole |-> FALSE]
    /\ breaks = 0

\* The pins and the device after the first n changes.  It is a device of the
\* mode's kind.
Clock(mode, changes, n) ==
    LET start == [levels |-> levels, seen |-> IF mode = sent.mode THEN seen ELSE <<>>, got |-> <<>>]
        after[k \in 0 .. n] == IF k = 0 THEN start ELSE See(mode, after[k - 1], changes[k])
        d == after[n]
    IN  levels' = d.levels /\ seen' = d.seen /\ got' = d.got

Send(mode, word) ==
    /\ LET changes == Transfer(mode, word) IN Clock(mode, changes, Len(changes))
    /\ sent' = [mode |-> mode, word |-> word, whole |-> levels.CS = 1]
    /\ UNCHANGED breaks

\* The process ends in the middle of a word.
BreakOff(mode, word) ==
    /\ breaks < MaxBreaks /\ breaks' = breaks + 1
    /\ LET changes == Transfer(mode, word)
       IN  \E n \in 1 .. Len(changes) - 1 : Clock(mode, changes, n)
    /\ sent' = [mode |-> mode, word |-> word, whole |-> FALSE]

Next == \E mode \in Modes, word \in Words : Send(mode, word) \/ BreakOff(mode, word)

Spec == Init /\ [][Next]_vars

-----------------------------------------------------------------------------
\* What the device should take: the word has room for a byte, behind the bit
\* that tells a command from data, or for two (mi_gpio_spi.h:149-154).
Meant ==
    IF sent.mode \in {"cmd8", "dat8"} THEN Bits(sent.word % 256)
    ELSE IF sent.mode = "cmd9" THEN <<0>> \o Bits(sent.word % 256)
    ELSE IF sent.mode = "dat9" THEN <<1>> \o Bits(sent.word % 256)
    ELSE Bits((sent.word \div 256) % 256) \o Bits(sent.word % 256)

\* In each mode of mi_gpio_spi.c with 8 or 9 bits the device takes the byte that
\* was sent, with the bit that tells a command from data, and nothing else; a
\* word that a process broke off, of any mode, costs at most the next one, which
\* does not come as another (mi_gpio_spi.c:167-182, 298-346). The mode with 16
\* bits is excepted: _SDI_write_16bit tests bit 7 of a value that it shifts 16
\* times, and so sends the low byte and zeros (mi_gpio_spi.c:191), where
\* mi_gpio_spi.h:151 has "2Bytes(ex.0xFF00)".
TakesWhatIsSent ==
    sent.mode # "value16" =>
        /\ sent.whole => got = Meant
        /\ got # <<>> => got = Meant
=============================================================================
