----------------------------- MODULE Framebuffer -----------------------------
(* The drawing of src/uart/mi/mi_fb.c: dots, lines and rectangles are written *)
(* as groups of four bytes into the mapped memory of the frame buffer.  What  *)
(* the caller asked for is kept beside the memory as a picture.               *)
EXTENDS Integers, Sequences

CONSTANTS
    Width, Height,    \* the visible screen in pixels
    line_length,      \* bytes of a row, those past the last pixel included
    fb_mem_offset,    \* where the memory begins in its page
    Colours           \* records of r, g, b and t, each a byte

VARIABLES
    mem,       \* the mapped bytes
    picture    \* the colour of each pixel as it should be

vars == <<mem, picture>>

Mapped == 0 .. fb_mem_offset + Height * line_length - 1

Screen == (0 .. Width - 1) \X (0 .. Height - 1)

Black == [r |-> 0, g |-> 0, b |-> 0, t |-> 0]

Opaque(c) == [c EXCEPT !.t = 0]

-----------------------------------------------------------------------------
(* What might go wrong: a row is taken for as long as it is visible. *)
OffsetVisible(p) == p[2] * 4 * Width + 4 * p[1]

(* MI_fb_draw_dot_with_trans; MI_fb_draw_dot does the same with t = 0. *)
Offset(p) == p[2] * line_length + 4 * p[1]

Dot(m, p, c) ==
    LET at == fb_mem_offset + Offset(p)
        bytes == <<c.b, c.g, c.r, c.t>>
    IN  [a \in DOMAIN m |-> IF a \in at .. at + 3 THEN bytes[a - at + 1] ELSE m[a]]

(* The loops of the lines and of the filled rectangle, dot after dot. *)
Dots(m, points, c) ==
    LET drawn[k \in 0 .. Len(points)] ==
            IF k = 0 THEN m ELSE Dot(drawn[k - 1], points[k], c)
    IN  drawn[Len(points)]

Steps(from, to) == IF from < to THEN to - from ELSE 0

HLine(m, from, to, c) ==
    Dots(m, [k \in 1 .. Steps(from[1], to[1]) |-> <<from[1] + k - 1, from[2]>>], c)

VLine(m, from, to, c) ==
    Dots(m, [k \in 1 .. Steps(from[2], to[2]) |-> <<from[1], from[2] + k - 1>>], c)

Rec(m, lu, rd, c) ==
    LET ld == <<lu[1], rd[2]>>
        ru == <<rd[1], lu[2]>>
    IN  VLine(VLine(HLine(HLine(m, lu, ru, c), ld, rd, c), lu, ld, c), ru, rd, c)

(* The inner loop of MI_fb_fill_rec draws a row as MI_fb_draw_h_line does. *)
Fill(m, lu, rd, c) ==
    LET Row(k) == lu[2] + k - 1
        filled[k \in 0 .. rd[2] - lu[2]] ==
            IF k = 0 THEN m
            ELSE HLine(filled[k - 1], <<lu[1], Row(k)>>, <<rd[1], Row(k)>>, c)
    IN  IF rd[2] <= lu[2] THEN m ELSE filled[rd[2] - lu[2]]

(* MI_fb_getRGBT: the two digits of a component stand in front of whatever    *)
(* malloc's memory holds; unless that ends the number, the component is read  *)
(* with more digits and cut to a byte (a number too long gives FF).           *)
Read(c) == {c, [r |-> 255, g |-> 255, b |-> 255, t |-> 255]}

-----------------------------------------------------------------------------
Init ==
    /\ mem = [a \in Mapped |-> 0]
    /\ picture = [p \in Screen |-> Black]

Painted(pixels, c) ==
    picture' = [p \in Screen |-> IF p \in pixels THEN c ELSE picture[p]]

(* Rectangles and lines reach to their right and lower ends, but not onto them. *)
Box(lu, rd) == {p \in Screen : lu[1] <= p[1] /\ p[1] < rd[1] /\ lu[2] <= p[2] /\ p[2] < rd[2]}

DrawDot ==
    \E p \in Screen, c \in Colours :
        mem' = Dot(mem, p, Opaque(c)) /\ Painted({p}, Opaque(c))

(* The forms with a colour as a string, MI_fb_draw_h_line_with_string and     *)
(* MI_fb_draw_x_y_color_dot_with_string.                                      *)
DrawDotWithString ==
    \E p \in Screen, s \in Colours : \E c \in Read(s) :
        mem' = Dot(mem, p, c) /\ Painted({p}, c)

DrawHLineWithString ==
    \E from, to \in Screen, s \in Colours : \E c \in Read(s) :
        /\ from[2] = to[2]
        /\ mem' = HLine(mem, from, to, c)
        /\ Painted(Box(from, <<to[1], to[2] + 1>>), c)

DrawRec ==
    \E lu, rd \in Screen, c \in Colours :
        /\ lu[1] <= rd[1] /\ lu[2] <= rd[2]
        /\ mem' = Rec(mem, lu, rd, Opaque(c))
        /\ Painted(Box(lu, <<rd[1] + 1, rd[2] + 1>>)
                     \ (Box(<<lu[1] + 1, lu[2] + 1>>, rd) \cup {rd}),
                   Opaque(c))

FillRec ==
    \E lu \in Screen, rd \in (0 .. Width) \X (0 .. Height), c \in Colours :
        /\ mem' = Fill(mem, lu, rd, Opaque(c))
        /\ Painted(Box(lu, rd), Opaque(c))

Next ==
    DrawDot \/ DrawDotWithString \/ DrawHLineWithString \/ DrawRec \/ FillRec

Spec == Init /\ [][Next]_vars

-----------------------------------------------------------------------------
(* The memory as the screen shows it. *)
Shown(p) ==
    LET at == fb_mem_offset + p[2] * line_length + 4 * p[1]
    IN  [r |-> mem[at + 2], g |-> mem[at + 1], b |-> mem[at], t |-> mem[at + 3]]

(* After any sequence of drawings inside the screen, overlapping or side by   *)
(* side, the screen shows each pixel in the colour of the last drawing that   *)
(* covers it, and no byte before the screen or past the end of a row was      *)
(* touched.                                                                   *)
ScreenShowsPicture ==
    /\ \A p \in Screen : Shown(p) = picture[p]
    /\ \A a \in Mapped :
           a < fb_mem_offset \/ (a - fb_mem_offset) % line_length >= 4 * Width => mem[a] = 0
=============================================================================
