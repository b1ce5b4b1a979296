------------------------------- MODULE RgbLed -------------------------------
(* MI_RGBLED_SetColor of mi_rgbled.c: the colours of all lamps are printed as *)
(* escaped bytes into one command that echoes them to the driver.  The last   *)
(* byte is cut out of its colour with a mask of sixteen bits, so that what is *)
(* printed may be three or four digits, of which echo takes two for the byte  *)
(* and the rest for characters.                                               *)
EXTENDS Naturals

CONSTANTS
    Lamps,     \* how many lamps there are
    Colours    \* the colours of a lamp, 0 .. 2^24 - 1

VARIABLES
    shown,     \* the bytes the driver has
    asked      \* the colours of the last call that returned MI_OK (history)

vars == <<shown, asked>>

Red(colour) == (colour \div 65536) % 256
Green(colour) == (colour \div 256) % 256
Blue(colour) == colour % 256

(* What echo makes of \x%02X: the first two digits are the byte. *)
EscapedByte(n) ==
    IF n < 256 THEN n ELSE IF n < 4096 THEN n \div 16 ELSE n \div 256

(* What might go wrong: the mask of sixteen bits cuts the first lamp's blue. *)
WideMaskedFirst(lamp, colour) == IF lamp = 1 THEN colour % 65536 ELSE Blue(colour)

WideMasked(lamp, colour) == IF lamp = Lamps THEN colour % 65536 ELSE Blue(colour)

Bytes(colours) ==
    [n \in 1 .. 3 * Lamps |->
        LET k == (n + 2) \div 3
        IN  IF n % 3 = 1 THEN Red(colours[k])
            ELSE IF n % 3 = 2 THEN Green(colours[k])
            ELSE EscapedByte(WideMasked(k, colours[k]))]

Init ==
    /\ asked = [k \in 1 .. Lamps |-> 0]
    /\ shown = [k \in 1 .. 3 * Lamps |-> 0]

(* The command succeeds and the driver takes its three bytes for each lamp,   *)
(* or it fails and the call says so.                                          *)
SetColor(colours) ==
    \/ shown' = Bytes(colours) /\ asked' = colours
    \/ UNCHANGED vars

Next == \E colours \in [1 .. Lamps -> Colours] : SetColor(colours)

Spec == Init /\ [][Next]_vars

-----------------------------------------------------------------------------
(* A lamp has the colour it was given, but the last one's blue, which is as   *)
(* given only when its green is 0.                                            *)
ShowsColours ==
    \A k \in 1 .. Lamps :
        /\ shown[3 * k - 2] = Red(asked[k])
        /\ shown[3 * k - 1] = Green(asked[k])
        /\ k < Lamps \/ Green(asked[k]) = 0 => shown[3 * k] = Blue(asked[k])
=============================================================================
