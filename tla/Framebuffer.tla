----------------------------- MODULE Framebuffer -----------------------------
(***************************************************************************)
(* Drawing and the text terminal of                                        *)
(* src/zarya-os/kernel/src/drivers/framebuffer.rs, used by one thread.     *)
(*                                                                         *)
(* Coordinates are u32.  A release build computes them modulo 2^32 and     *)
(* set_pixel drops what is not on the screen; a dev build panics at the    *)
(* first sum or difference that leaves the range.  A pixel is painted or   *)
(* has the colour the screen was cleared with.                             *)
(***************************************************************************)
EXTENDS Integers, Sequences

CONSTANTS
  Width, Height,         \* of the screen
  U32,                   \* 2^32 in the code
  CharWidth, CharHeight, \* 8 and 16 in the code
  Coords, Sizes, Radii,  \* coordinates, lengths and radii in calls
  MaxDraws, MaxChars     \* bounds: calls, characters since the last clear

Screen == (0 .. Width - 1) \X (0 .. Height - 1)

ASSUME FramebufferConstants ==
  /\ {Width, Height, CharWidth, CharHeight} \subseteq Nat \ {0}
  /\ U32 \in Nat /\ Coords \subseteq Nat /\ Sizes \subseteq Nat /\ Radii \subseteq Nat
  /\ MaxDraws \in Nat /\ MaxChars \in Nat
  /\ \A c \in Coords, s \in Sizes \cup Radii : c + 8 * s + 8 + Width + Height < U32
  /\ Width <= U32 /\ Height + CharHeight <= U32 /\ 4 * CharWidth * MaxChars <= U32

VARIABLES
  build,         \* "release" or "dev"
  painted,       \* pixels painted since the screen was cleared
  strokes,       \* rectangles that the call under way has still to paint
  circle,        \* draw_circle under way: its arguments and x, y and d
  cursor,        \* cursor_x and cursor_y of the terminal
  aborted,       \* has the dev build panicked?
  asked,         \* what was asked for, in the plane of integers (history)
  cell,          \* column and row of the terminal's next character (history)
  draws, chars   \* counters for the bounds

fbVars == <<build, painted, strokes, circle, cursor, aborted, asked, cell, draws, chars>>
terminalVars == <<cursor, cell, chars>>

NoCircle == [cx |-> 0, cy |-> 0, radius |-> 0, x |-> 1, y |-> 0, d |-> 0]
Drawing == strokes # <<>> \/ circle # NoCircle

-----------------------------------------------------------------------------
(* set_pixel for points in turn, given by the exact values of their        *)
(* coordinates.                                                            *)
InRange(p) == p[1] \in 0 .. U32 - 1 /\ p[2] \in 0 .. U32 - 1

SetPixels(points) ==
  LET stops == {i \in DOMAIN points : build = "dev" /\ ~InRange(points[i])}
      done  == {i \in DOMAIN points : \A s \in stops : i < s}
  IN  /\ painted' = painted \cup
           ({<<points[i][1] % U32, points[i][2] % U32>> : i \in done} \cap Screen)
      /\ aborted' = (stops # {})

(* draw_rect: row by row.                                                  *)
Rect(x, y, width, height) == [x |-> x, y |-> y, width |-> width, height |-> height]
PointsOf(rect) ==
  [i \in 1 .. rect.width * rect.height |->
     <<rect.x + ((i - 1) % rect.width), rect.y + ((i - 1) \div rect.width)>>]

(* draw_text draws a box for each of n letters; draw_shadow lines that     *)
(* begin further and further to the left.                                  *)
Text(n, x, y, size) ==
  [i \in 1 .. n |-> Rect(x + (i - 1) * ((size \div 2) + 4), y, size \div 2, size)]
Shadow(x, y, width, height, blur) ==
  [i \in 1 .. blur |-> Rect(x - (i - 1), y + height + (i - 1), width + 2 * (i - 1), 1)]

(* draw_rect, fill and draw_rounded_rect, draw_hline, draw_vline,          *)
(* draw_text and draw_shadow, as the rectangles they are made of.          *)
Calls(x, y) ==
  { <<Rect(x, y, w, h)>> : w \in Sizes, h \in Sizes }
    \cup { <<Rect(x, y, n, 1)>> : n \in Sizes } \cup { <<Rect(x, y, 1, n)>> : n \in Sizes }
    \cup { Text(2, x, y, n) : n \in Sizes }
    \cup { Shadow(x, y, n, 1, b) : n \in Sizes, b \in Sizes }

Block(rect) == (rect.x .. rect.x + rect.width - 1) \X (rect.y .. rect.y + rect.height - 1)

Draw(rects) ==
  /\ ~aborted /\ ~Drawing /\ draws < MaxDraws /\ rects # <<>>
  /\ strokes' = rects
  /\ asked' = asked \cup UNION { Block(rects[i]) : i \in DOMAIN rects }
  /\ draws' = draws + 1
  /\ UNCHANGED <<build, painted, circle, aborted, terminalVars>>

DrawStroke ==
  /\ ~aborted /\ strokes # <<>>
  /\ SetPixels(PointsOf(Head(strokes)))
  /\ strokes' = Tail(strokes)
  /\ UNCHANGED <<build, circle, asked, draws, terminalVars>>

-----------------------------------------------------------------------------
(* A circle is what one means by it on a grid: in each of the columns (or  *)
(* rows) nearer to an axis, the points whose distance from the centre is   *)
(* nearest to the radius.                                                  *)
Abs(n) == IF n < 0 THEN -n ELSE n
Error(a, b, radius) == Abs(a * a + b * b - radius * radius)
Octant(radius) ==
  {o \in (0 .. radius) \X (0 .. radius) :
     o[1] <= o[2] /\ \A k \in 0 .. radius : Error(o[1], o[2], radius) <= Error(o[1], k, radius)}

(* plot_circle_points: eight points by symmetry.                           *)
CirclePoints(cx, cy, x, y) ==
  << <<cx + x, cy + y>>, <<cx - x, cy + y>>, <<cx + x, cy - y>>, <<cx - x, cy - y>>,
     <<cx + y, cy + x>>, <<cx - y, cy + x>>, <<cx + y, cy - x>>, <<cx - y, cy - x>> >>

DrawCircle(cx, cy, radius) ==
  /\ ~aborted /\ ~Drawing /\ draws < MaxDraws
  /\ circle' = [cx |-> cx, cy |-> cy, radius |-> radius,
                x |-> 0, y |-> radius, d |-> 3 - 2 * radius]
  /\ asked' = asked \cup UNION { {CirclePoints(cx, cy, o[1], o[2])[i] : i \in 1 .. 8} :
                                  o \in Octant(radius) }
  /\ draws' = draws + 1
  /\ UNCHANGED <<build, painted, strokes, aborted, terminalVars>>

(* The step of Bresenham's algorithm.                                      *)
CircleStepLate(c) ==
  IF c.d > 0
    THEN [c EXCEPT !.d = c.d + 4 * (c.x - c.y) + 10, !.x = c.x + 1]
    ELSE [c EXCEPT !.d = c.d + 4 * c.x + 6, !.x = c.x + 1]

CircleStep(c) ==
  IF c.d > 0
    THEN [c EXCEPT !.d = c.d + 4 * (c.x - c.y) + 10, !.y = c.y - 1, !.x = c.x + 1]
    ELSE [c EXCEPT !.d = c.d + 4 * c.x + 6, !.x = c.x + 1]

(* One turn of the loop, until y < x.                                      *)
CircleTurn ==
  /\ ~aborted /\ circle.y >= circle.x
  /\ SetPixels(CirclePoints(circle.cx, circle.cy, circle.x, circle.y))
  /\ LET next == CircleStep(circle)
     IN  circle' = IF next.y >= next.x THEN next ELSE NoCircle
  /\ UNCHANGED <<build, strokes, asked, draws, terminalVars>>

-----------------------------------------------------------------------------
(* clear_color, and the terminal's clear, which also moves the cursor.     *)
ClearColor ==
  /\ ~aborted /\ ~Drawing
  /\ painted' = {} /\ asked' = {} /\ draws' = 0
  /\ UNCHANGED <<build, strokes, circle, aborted, terminalVars>>

Clear ==
  /\ ~aborted /\ ~Drawing
  /\ painted' = {} /\ asked' = {} /\ draws' = 0
  /\ cursor' = [x |-> 0, y |-> 0] /\ cell' = [column |-> 0, row |-> 0] /\ chars' = 0
  /\ UNCHANGED <<build, strokes, circle, aborted>>

(* Where write_char leaves the cursor: it goes back to the top from below  *)
(* the screen, and is not kept from leaving it on the right.               *)
Rows == (Height + CharHeight - 1) \div CharHeight

OnScreenOverrun(y) == IF y > Height THEN 0 ELSE y

OnScreen(y) == IF y >= Height THEN 0 ELSE y

Moved(c) ==
  [x |-> CASE c = "newline" \/ c = "return" -> 0
           [] c = "tab" -> cursor.x + 4 * CharWidth
           [] OTHER -> cursor.x + CharWidth,
   y |-> OnScreen(IF c = "newline" THEN cursor.y + CharHeight ELSE cursor.y)]

(* The same, in columns and rows of text.                                  *)
NextCell(c) ==
  [column |-> CASE c = "newline" \/ c = "return" -> 0
                [] c = "tab" -> cell.column + 4 [] OTHER -> cell.column + 1,
   row |-> IF c = "newline" THEN (cell.row + 1) % Rows ELSE cell.row]

WriteChar(c) ==
  /\ ~aborted /\ ~Drawing /\ chars < MaxChars
  /\ cursor' = Moved(c) /\ cell' = NextCell(c) /\ chars' = chars + 1
  /\ IF c = "letter"
       THEN /\ SetPixels(PointsOf(Rect(cursor.x, cursor.y, CharWidth, CharHeight)))
            /\ asked' = asked \cup Block(Rect(cell.column * CharWidth, cell.row * CharHeight,
                                             CharWidth, CharHeight))
       ELSE UNCHANGED <<painted, aborted, asked>>
  /\ UNCHANGED <<build, strokes, circle, draws>>

-----------------------------------------------------------------------------
FbInit ==
  /\ build \in {"release", "dev"}
  /\ painted = {} /\ asked = {} /\ draws = 0 /\ chars = 0
  /\ strokes = <<>> /\ circle = NoCircle /\ aborted = FALSE
  /\ cursor = [x |-> 0, y |-> 0] /\ cell = [column |-> 0, row |-> 0]

DrawNext ==
  \/ \E x, y \in Coords : \/ \E rects \in Calls(x, y) : Draw(rects)
                          \/ \E radius \in Radii : DrawCircle(x, y, radius)
  \/ DrawStroke \/ CircleTurn \/ ClearColor

TerminalNext ==
  \/ \E c \in {"newline", "tab", "return", "letter"} : WriteChar(c)
  \/ Clear

FbNext == DrawNext \/ TerminalNext

FbSpec == FbInit /\ [][FbNext]_fbVars

-----------------------------------------------------------------------------
(* Types: the cursor stays above the lower edge.                           *)
FbTypeOK ==
  /\ painted \subseteq Screen /\ aborted \in BOOLEAN
  /\ cursor.x \in Nat /\ cursor.y \in 0 .. Height - 1

(* What is painted in the end is what was asked for, as far as it is on    *)
(* the screen: shapes are cut off at the edges although the coordinates    *)
(* beyond the left and upper ones wrap, the steps of draw_circle find the  *)
(* points nearest to the circle, and write_char finds the next cell.  In   *)
(* between, nothing else is painted.  A dev build panics only over a shape *)
(* that crosses the left or upper edge.                                    *)
PaintedExactly ==
  /\ painted \subseteq asked
  /\ ~Drawing /\ ~aborted => asked \cap Screen \subseteq painted
  /\ aborted => \E p \in asked : p[1] < 0 \/ p[2] < 0
=============================================================================
