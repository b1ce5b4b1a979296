-------------------------------- MODULE Panel --------------------------------
(* MI_DISPLAY_INIT of src/uart/mi/mi_display.c for the ST7701S panel: the     *)
(* driver chip of the panel is reset and its registers are written, one byte  *)
(* at a time, over three GPIO pins that mi_gpio_spi.c moves up and down       *)
(* (transfer mode T_GPIO_SPI_WRITE_MODE_3LINE16B2, the one mi_gpio_spi.h      *)
(* selects).  A step is one 16-bit word, with every change of a pin that      *)
(* SPI_WriteCom or SPI_WriteData makes for it; the chip reads the pins as any *)
(* slave of such a bus does.                                                  *)
EXTENDS Naturals, Integers, Sequences, TLC

CONSTANT Starts     \* states of the pins and of the chip's shift register
                    \* that an earlier, broken off initialisation may leave

VARIABLES
    wires,     \* level of each pin
    chip,      \* count and shift: the word being received; address, bank, reg
    step,      \* number of table lines done; -1 before the reset
    part,      \* the word of the line that comes next: high, low or data
    awake      \* milliseconds since the chip left its sleep, -1 asleep

vars == <<wires, chip, step, part, awake>>

-----------------------------------------------------------------------------
(* The table: bank, register and the bytes of its parameters from 0 on.      *)
Bank0 ==
    << <<\hC0, <<\hE9, \h03>> >>, <<\hC1, <<\h13, \h02>> >>,
       <<\hC2, <<\h31, \h08>> >>, <<\hC3, <<\h0E>> >>, <<\hCC, <<\h38>> >>,
       <<\hB0, <<\h00, \h18, \h20, \h0E, \h11, \h07, \h0A, \h08,
                 \h07, \h22, \h03, \h0E, \h0C, \h28, \h31, \h1F>> >>,
       <<\hB1, <<\h00, \h0F, \h9A, \h0D, \h12, \h07, \h0D, \h09,
                 \h09, \h23, \h07, \h17, \h16, \hAB, \h31, \h9F>> >> >>

Power ==
    << <<\hB0, <<\h7D>> >>, <<\hB1, <<\h2A>> >>, <<\hB2, <<\h87>> >>,
       <<\hB3, <<\h80>> >>, <<\hB5, <<\h47>> >>, <<\hB7, <<\h85>> >>,
       <<\hB8, <<\h20>> >>, <<\hB9, <<\h00, \h13>> >>, <<\hC1, <<\h78>> >>,
       <<\hC2, <<\h78>> >>, <<\hD0, <<\h88>> >> >>

Gip ==
    << <<\hE0, <<\h00, \h00, \h02>> >>,
       <<\hE1, <<\h0B, \h3C, \h0D, \h3C, \h0C, \h3C, \h0E, \h3C, \h00, \h44, \h44>> >>,
       <<\hE2, <<\h33, \h33, \h44, \h44, \h64, \h3C, \h68, \h3C, \h67, \h3C, \h69,
                 \h3C, \h00>> >>,
       <<\hE3, <<\h00, \h00, \h33, \h33>> >>, <<\hE4, <<\h44, \h44>> >>,
       <<\hE5, <<\h0D, \h78, \h3C, \hA0, \h0F, \h78, \h3C, \hA0,
                 \h11, \h78, \h3C, \hA0, \h13, \h78, \h3C, \hA0>> >>,
       <<\hE6, <<\h00, \h00, \h33, \h33>> >>, <<\hE7, <<\h44, \h44>> >>,
       <<\hE8, <<\h0E, \h78, \h3C, \hA0, \h10, \h78, \h3C, \hA0,
                 \h12, \h78, \h3C, \hA0, \h14, \h78, \h3C, \hA0>> >>,
       <<\hEB, <<\h02, \h02, \h39, \h39, \hEE, \h44, \h00>> >>,
       <<\hEC, <<\h00, \h00>> >>,
       <<\hED, <<\hFF, \hF1, \h04, \h56, \h72, \h3F, \hFF, \hFF,
                 \hFF, \hFF, \hF3, \h27, \h65, \h40, \h1F, \hFF>> >> >>

(* The lines that select a bank, and the two after the table: the format of   *)
(* the pixels and the command that turns the display on.                      *)
Select(bank) == << <<\hFF, <<\h77, \h01, \h00, \h00, bank>> >> >>

Format == << <<\h3A, <<\h55>> >> >>

DisplayOn == << <<\h29, <<\h00>> >> >>

(* The 16-bit address of a parameter is the register and its index. *)
Lines(registers) ==
    LET Of(r) == [k \in 1 .. Len(r[2]) |-> [com |-> r[1] * 256 + k - 1, data |-> r[2][k]]]
        all[n \in 0 .. Len(registers)] ==
            IF n = 0 THEN <<>> ELSE all[n - 1] \o Of(registers[n])
    IN  all[Len(registers)]

(* The first line leaves the sleep and has no parameter. *)
Table ==
    << [com |-> \h1100, data |-> -1] >>
    \o Lines(Select(\h10) \o Bank0 \o Select(\h11) \o Power \o Gip
             \o Select(\h00) \o Format \o DisplayOn)

(* MI_Delayms(120) stands after the first line, MI_Delayms(100) after the power *)
(* registers and MI_Delayms(10) at the end.                                   *)
Delay(n) ==
    CASE n = 1 -> 120
      [] n = 1 + Len(Lines(Select(\h10) \o Bank0 \o Select(\h11) \o Power)) -> 100
      [] n = Len(Table) -> 10
      [] OTHER -> 0

-----------------------------------------------------------------------------
(* What the pins are told: MI_SetIO_Out_CS, _SCLK and _SDI, all active high.  *)
Bit(word, k) == (word \div 2 ^ k) % 2

Shift(word) ==
    LET bits[k \in 0 .. 16] ==
            IF k = 0 THEN <<>>
            ELSE bits[k - 1] \o << <<"SDI", Bit(word, 16 - k)>>,
                                   <<"SCLK", 1>>, <<"SCLK", 0>>, <<"SDI", 0>> >>
    IN  bits[16]

Opening == << <<"SDI", 0>>, <<"SCLK", 0>>, <<"CS", 0>> >>
Closing == << <<"CS", 1>>, <<"SDI", 1>> >>

(* The first byte of a word: the high half of an address, or a parameter. *)
High == 32 * 256
Param == 64 * 256

(* What might go wrong: both halves of an address in one transfer. *)
HalfEndsNot == <<>>

(* Between the halves of an address the transfer ends and a new one begins. *)
HalfEnds == << <<"CS", 1>>, <<"CS", 0>> >>

(* _WriteCmd_16bit: the high half of the address, then the low half. *)
CmdHigh(value) == Opening \o Shift(High + value \div 256) \o HalfEnds
CmdLow(value) == Shift(value % 256) \o Closing

(* _WriteDat_16bit. *)
Dat(value) == Opening \o Shift(Param + (value % 256)) \o Closing

-----------------------------------------------------------------------------
(* The chip: a word is what SDI showed at sixteen rising edges of SCLK while  *)
(* CS was low, and it is taken when CS rises.                                 *)
Take(c) ==
    LET head == c.shift \div 256
        low == c.shift % 256
    IN  IF c.count # 16 THEN c
        ELSE CASE head = 32 -> [c EXCEPT !.high = low]
               [] head = 0 ->
                    [c EXCEPT !.address = c.high * 256 + low,
                              !.asleep = @ /\ c.high * 256 + low # \h1100]
               [] head = 64 ->
                    LET a == c.address
                    IN  IF a = \hFF04 THEN [c EXCEPT !.bank = low]
                        ELSE IF a = \h2900 THEN [c EXCEPT !.on = TRUE]
                        ELSE IF a \div 256 = \hFF THEN c
                        ELSE [c EXCEPT !.reg =
                                 [x \in DOMAIN @ \cup {<<c.bank, a>>} |->
                                     IF x = <<c.bank, a>> THEN low ELSE @[x]]]
               [] OTHER -> c

See(c, old, pin, level) ==
    CASE pin = "CS" /\ old.CS = 0 /\ level = 1
           -> [Take(c) EXCEPT !.count = 0, !.shift = 0]
      [] pin = "SCLK" /\ old.SCLK = 0 /\ level = 1 /\ old.CS = 0
           -> [c EXCEPT !.count = @ + 1, !.shift = (2 * @ + old.SDI) % 65536]
      [] OTHER -> c

(* The pins and the chip after a sequence of pin changes. *)
After(pins, w, c) ==
    LET run[n \in 0 .. Len(pins)] ==
            IF n = 0 THEN [wires |-> w, chip |-> c]
            ELSE LET before == run[n - 1]
                     pin == pins[n][1]
                     level == pins[n][2]
                 IN  [wires |-> [before.wires EXCEPT ![pin] = level],
                      chip |-> See(before.chip, before.wires, pin, level)]
    IN  run[Len(pins)]

Drive(pins) ==
    LET end == After(pins, wires, chip)
    IN  wires' = end.wires /\ chip' = end.chip

NoReg == [x \in {} |-> 0]

Fresh == [count |-> 0, shift |-> 0, high |-> 0, address |-> 0, bank |-> 0,
          reg |-> NoReg, asleep |-> TRUE, on |-> FALSE]

-----------------------------------------------------------------------------
Init ==
    /\ \E s \in Starts :
           /\ wires = s.wires
           /\ chip = [Fresh EXCEPT !.count = s.count, !.bank = \h11,
                                   !.reg = (<<\h11, \hB000>> :> 0)]
    /\ step = -1
    /\ part = "high"
    /\ awake = -1

(* The reset sequence: the pins are set and the chip is reset, which clears   *)
(* its registers; after 120 ms it takes commands.                             *)
Reset ==
    /\ step = -1
    /\ wires' = After(<< <<"CS", 1>>, <<"SCLK", 1>>, <<"SDI", 1>> >>, wires, chip).wires
    /\ chip' = Fresh
    /\ step' = 0
    /\ UNCHANGED <<part, awake>>

EndLine ==
    /\ step' = step + 1
    /\ part' = "high"
    /\ awake' = IF chip'.asleep THEN -1
                ELSE (IF awake = -1 THEN 0 ELSE awake) + Delay(step + 1)

WriteHigh ==
    /\ step \in 0 .. Len(Table) - 1 /\ part = "high"
    /\ Drive(CmdHigh(Table[step + 1].com))
    /\ part' = "low"
    /\ UNCHANGED <<step, awake>>

WriteLow ==
    /\ part = "low"
    /\ Drive(CmdLow(Table[step + 1].com))
    /\ IF Table[step + 1].data = -1 THEN EndLine
       ELSE part' = "data" /\ UNCHANGED <<step, awake>>

WriteData ==
    /\ part = "data"
    /\ Drive(Dat(Table[step + 1].data))
    /\ EndLine

Next == Reset \/ WriteHigh \/ WriteLow \/ WriteData

Spec == Init /\ [][Next]_vars

-----------------------------------------------------------------------------
(* What the chip should hold: the value of each parameter of each register   *)
(* in the bank the data sheet puts it in.                                     *)
Held(bank, registers) ==
    {<<bank, l.com, l.data>> : l \in {Lines(registers)[i] : i \in 1 .. Len(Lines(registers))}}

Programme ==
    Held(\h10, Bank0) \cup Held(\h11, Power \o Gip) \cup Held(\h00, Format)

(* When the display goes on, and it does by the last line, the chip has been  *)
(* awake for 120 ms and holds the whole programme and nothing else, each value *)
(* in its register and its bank, whatever the pins and the chip were like when *)
(* the initialisation began.                                                  *)
OnWhenProgrammed ==
    chip.on \/ step = Len(Table) =>
        /\ chip.on
        /\ awake >= 120
        /\ {<<x[1], x[2], chip.reg[x]>> : x \in DOMAIN chip.reg} = Programme
=============================================================================
