---------------------------- MODULE FrameGeometry ----------------------------
(***************************************************************************)
(* Where pixels go: a rectangle or picture is clipped to its parent and to *)
(* the screen before it is drawn into fb.buffer, the ends of a line are    *)
(* moved into its parent, and the buffer is copied into the frame, turned  *)
(* by the device's rotation.  A frame has Xres times Yres pixels in rows   *)
(* of Virtual.                                                             *)
(***************************************************************************)
EXTENDS Integers

imin(a, b) == IF a < b THEN a ELSE b
imax(a, b) == IF a > b THEN a ELSE b

\* clamp_to_parent along one axis: the first and the last but one pixel of the item that
\* is drawn, counted from the item's own place.  "own" says the parent is the screen.
Parent(own, p, size, screen) ==
    LET start == IF ~own /\ p < 0 THEN 0 ELSE p
        cut == IF ~own /\ p < 0 THEN size + p ELSE size
    IN [at |-> start, size |-> IF own THEN cut ELSE imin(start + cut, screen) - start]

clamp_min(x, parent) == IF x >= parent.at THEN 0 ELSE parent.at - x
clamp_max(x, w, parent) == imin(w, parent.at + parent.size - x)

\* fb_draw_rect, fb_draw_img: the pixels written along one axis.
fb_draw_rect(x, w, parent) == {x + n : n \in clamp_min(x, parent)..(clamp_max(x, w, parent) - 1)}

\* No rectangle or picture writes outside the screen, wherever an animation has moved it
\* and its parent.
DrawnInside(Range, Screen) ==
    \A x, p \in Range, w, size \in Range \cap Nat, own \in BOOLEAN :
        fb_draw_rect(x, w, Parent(own, IF own THEN 0 ELSE p, IF own THEN Screen ELSE size, Screen))
            \subseteq 0..(Screen - 1)

\* fb_draw_line: the pixels along the axis on which it is longer, both ends among them.
\* They are moved into the parent as it is, whose own place is not clipped to the screen.
\* Across that axis the thickness is added on either side without a bound.
LineEnd(x, parent) == imin(imax(x, parent.at), parent.at + parent.size)

fb_draw_line(x, x2, parent) ==
    imin(LineEnd(x, parent), LineEnd(x2, parent))..imax(LineEnd(x, parent), LineEnd(x2, parent))

\* A line on the screen itself reaches, along its axis, at most the one row or column that
\* follows the screen's last.
LinesReach(Range, Screen) ==
    \A x, x2 \in Range : fb_draw_line(x, x2, Parent(TRUE, 0, Screen, Screen)) \subseteq 0..Screen

-----------------------------------------------------------------------------
\* The size of the picture, and of a row of fb.buffer.
fb_width(rotation, xres, yres) == IF rotation % 180 = 0 THEN xres ELSE yres
fb_height(rotation, xres, yres) == IF rotation % 180 = 0 THEN yres ELSE xres
stride(rotation, virtual, yres) == IF rotation % 180 = 0 THEN virtual ELSE yres

\* The offset into fb.buffer that is copied to row, column of the frame.
fb_rotate_90deg(row, col, height, st) == (height - 1 - col) * st + row
fb_rotate_270deg(row, col, width, st) == col * st + width - 1 - row
fb_rotate_180deg(row, col, virtual, yres, padding) ==
    virtual * yres - (row + 1) * padding - row * (virtual - padding) - (col + 1)

fb_cpy_fb_with_rotation(rotation, row, col, xres, yres, virtual) ==
    LET width == fb_width(rotation, xres, yres)
        height == fb_height(rotation, xres, yres)
        st == stride(rotation, virtual, yres)
    IN CASE rotation = 0 -> row * virtual + col
         [] rotation = 90 -> fb_rotate_90deg(row, col, height, st)
         [] rotation = 180 -> fb_rotate_180deg(row, col, virtual, yres, virtual - xres)
         [] rotation = 270 -> fb_rotate_270deg(row, col, width, st)

\* Where a turn by the rotation, clockwise, takes the pixel x, y of a picture.
Turned(rotation, x, y, width, height) ==
    CASE rotation = 0 -> <<x, y>>
      [] rotation = 90 -> <<height - 1 - y, x>>
      [] rotation = 180 -> <<width - 1 - x, height - 1 - y>>
      [] rotation = 270 -> <<y, width - 1 - x>>

CopyFaithful(Sizes, Paddings) ==
    \A rotation \in {0, 90, 180, 270}, xres, yres \in Sizes, pad \in Paddings :
        LET width == fb_width(rotation, xres, yres)
            height == fb_height(rotation, xres, yres)
        IN \A x \in 0..(width - 1), y \in 0..(height - 1) :
            LET to == Turned(rotation, x, y, width, height)
            IN fb_cpy_fb_with_rotation(rotation, to[2], to[1], xres, yres, xres + pad)
                 = y * stride(rotation, xres + pad, yres) + x

\* All of it over a screen of four pixels, items and parents within and around it, and frames
\* of up to three by three pixels.
GeometryHolds == DrawnInside(-4..5, 4) /\ LinesReach(-4..5, 4) /\ CopyFaithful(1..3, 0..2)
===============================================================================
