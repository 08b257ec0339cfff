---------------------------- MODULE Framebuffer ----------------------------
(***************************************************************************)
(* The drawing program C_Cpp/cdemo/demo/framebuff_demo.c: commands that    *)
(* paint points, lines, circles and pictures into the mapped memory of a   *)
(* screen.  A pixel is a location x + y * XRes of that memory; pixels of   *)
(* four bytes and lines without padding are assumed, as in the program's   *)
(* clear.  A colour is one value in place of its four bytes.  Arguments    *)
(* are counted from 1, pixels from 0.                                      *)
(***************************************************************************)
EXTENDS Integers, FiniteSets, Sequences

CONSTANTS
  XRes, YRes,   (* vinfo.xres, vinfo.yres                                     *)
  Xs, Ys,       (* arguments given for a point, wrong ones included           *)
  Radii,        (* radii, 0 (refused) included                                *)
  Sizes,        (* widths and heights of pictures                             *)
  FileLen,      (* pixels in a picture's file                                 *)
  MaxFds        (* descriptors the process may have open                      *)

ASSUME FramebufferAssumption ==
  /\ XRes \in Nat \ {0} /\ YRes \in Nat \ {0}
  /\ Xs \subseteq Int /\ Ys \subseteq Int /\ Radii \subseteq Nat /\ Sizes \subseteq Nat
  /\ FileLen \in Nat /\ MaxFds \in Nat

VARIABLES
  color,     (* the static color                                             *)
  last,      (* the last command that drew: its name and arguments           *)
  painted,   (* the locations it wrote, those outside the mapping included   *)
  paint,     (* the colour it wrote                                          *)
  fds        (* descriptors of the screen that were not closed               *)

fbVars == <<color, last, painted, paint, fds>>

Locations == 0 .. XRes * YRes - 1
At(x, y)  == x + y * XRes
BLACK     == 0
PICTURE   == 9
None      == [cmd |-> "none"]

(* Every function opens the screen, reads its size, checks its arguments    *)
(* and maps the memory.  What fails after the open returns without a close; *)
(* an open that fails leaves the descriptors alone.                         *)
Leak(f) == IF f < MaxFds THEN f + 1 ELSE f

(* info_print: what it leaves open.                                         *)
InfoPrint == {0, Leak(0)}

(* main prints the screen's size first.                                     *)
FbInit ==
  /\ color = 1 /\ last = None /\ painted = {} /\ paint = BLACK /\ fds \in InfoPrint

Within(x, y) == x > 0 /\ x <= XRes /\ y > 0 /\ y <= YRes

DrawFails == fds' = Leak(fds) /\ UNCHANGED <<color, last, painted, paint>>

Paints(what, cells, c) ==
  /\ fds < MaxFds
  /\ last' = what /\ painted' = cells /\ paint' = c
  /\ UNCHANGED <<color, fds>>

(* The color command.                                                       *)
Color(c) == color' = c /\ UNCHANGED <<last, painted, paint, fds>>

(* clear                                                                    *)
Clear == DrawFails \/ Paints([cmd |-> "clear"], Locations, BLACK)

DrawPoint(x, y) ==
  \/ DrawFails
  \/ Within(x, y) /\ Paints([cmd |-> "point", x |-> x, y |-> y], {At(x - 1, y - 1)}, color)

-----------------------------------------------------------------------------
(***************************************************************************)
(* draw_line                                                               *)
(***************************************************************************)
Between(a, b) == (a .. b) \cup (b .. a)
AbsOf(n)      == IF n < 0 THEN -n ELSE n

(* The height of the line at column x, times its length along x, rounded to *)
(* a pixel: y = (long)(a * x + b + 0.5f).  Where the exact height lies half *)
(* way between two pixels the float may fall on either side; low is the set *)
(* of columns where it falls below.                                         *)
Rise(x1, y1, x2, y2, x) == AbsOf(x2 - x1) * y1 + (IF x2 > x1 THEN 1 ELSE -1) * (y2 - y1) * (x - x1)

Ties(x1, y1, x2, y2) ==
  {x \in Between(x1, x2) :
     (2 * Rise(x1, y1, x2, y2, x) + AbsOf(x2 - x1)) % (2 * AbsOf(x2 - x1)) = 0}

Rounded(x1, y1, x2, y2, x, low) ==
  LET y == (2 * Rise(x1, y1, x2, y2, x) + AbsOf(x2 - x1)) \div (2 * AbsOf(x2 - x1))
             - (IF x \in low THEN 1 ELSE 0)
  IN IF y < 0 THEN 0 ELSE IF y > YRes THEN YRes ELSE y

(* A column of pixels, a row, or one pixel for every column.                *)
LineCells(x1, y1, x2, y2, low) ==
  IF x1 = x2 THEN {At(x1, y) : y \in Between(y1, y2)}
  ELSE IF y1 = y2 THEN {At(x, y1) : x \in Between(x1, x2)}
  ELSE {At(x, Rounded(x1, y1, x2, y2, x, low)) : x \in Between(x1, x2)}

DrawLine(x1, y1, x2, y2) ==
  \/ DrawFails
  \/ /\ Within(x1, y1) /\ Within(x2, y2)
     /\ \E low \in SUBSET (IF x1 = x2 THEN {} ELSE Ties(x1 - 1, y1 - 1, x2 - 1, y2 - 1)) :
          Paints([cmd |-> "line", x1 |-> x1, y1 |-> y1, x2 |-> x2, y2 |-> y2],
                 LineCells(x1 - 1, y1 - 1, x2 - 1, y2 - 1, low), color)

-----------------------------------------------------------------------------
(***************************************************************************)
(* draw_circle.  Each of the two loops goes over the middle part of one    *)
(* axis and looks along the other for the first pixel inside the circle;   *)
(* it paints the pixel before it and the one opposite, or, where that      *)
(* pixel is not on the screen, the one opposite only.  The centre is not   *)
(* counted from 0 here.                                                    *)
(***************************************************************************)
(* Mutant: the circle's own pixels count as inside it.                      *)
InsideOrOn(dx, dy, r) == dx * dx + dy * dy <= r * r

Inside(dx, dy, r) == dx * dx + dy * dy < r * r

(* The offsets i of the columns (or rows) from the centre.                  *)
Middle(r) == {i \in -r .. r : i >= ((-3 * r) \div 4) /\ 4 * i <= 3 * r}

(* The first pixel inside, as an offset from the centre; 1 for none.        *)
FirstInside(i, r) ==
  IF \E j \in -r .. 0 : Inside(i, j, r)
  THEN CHOOSE j \in -r .. 0 : Inside(i, j, r) /\ \A k \in -r .. j - 1 : ~Inside(i, k, r)
  ELSE 1

(* The one or two pixels painted at offset i, along an axis whose centre is *)
(* c and whose size is res.                                                 *)
PairAt(c, i, r, res) ==
  LET j == FirstInside(i, r)
      y == c + j
      near == IF y > 0 /\ y <= res THEN {y - 1} ELSE {}
      far  == IF near = {} THEN c - j ELSE c - j + 1
  IN near \cup (IF far >= 0 /\ far < res THEN {far} ELSE {})

CircleCells(px, py, r) ==
  LET found(c, res) == {i \in Middle(r) : c + i >= 0 /\ c + i < res /\ FirstInside(i, r) # 1}
  IN (UNION {{At(px + i, y) : y \in PairAt(py, i, r, YRes)} : i \in found(px, XRes)})
       \cup (UNION {{At(x, py + i) : x \in PairAt(px, i, r, XRes)} : i \in found(py, YRes)})

DrawCircle(x, y, r) ==
  \/ DrawFails
  \/ /\ Within(x, y) /\ r > 0
     /\ Paints([cmd |-> "circle", x |-> x, y |-> y, r |-> r], CircleCells(x, y, r), color)

-----------------------------------------------------------------------------
(***************************************************************************)
(* draw_pic and draw_bmp: x is moved twice and y not at all, and nothing   *)
(* keeps the picture on the screen.  A bmp is read from its last line, and *)
(* one line more than it has.  The file ends after FileLen pixels.         *)
(***************************************************************************)
PictureCells(x, y, w, h, bmp) ==
  LET row(k) == IF bmp THEN h - (k \div w) ELSE k \div w
      n      == w * (IF bmp THEN h + 1 ELSE h)
  IN IF w = 0 THEN {}
     ELSE {At(x - 2 + (k % w), y + row(k)) : k \in 0 .. (IF n < FileLen THEN n ELSE FileLen) - 1}

(* The pic and bmp commands clear the screen first; each of the two calls   *)
(* may fail, and a picture whose file cannot be opened is not drawn.        *)
DrawPicture(x, y, w, h, bmp) ==
  \E cleared, drawn, readable \in BOOLEAN :
    LET between == IF cleared THEN fds ELSE Leak(fds)
        cells   == IF readable THEN PictureCells(x, y, w, h, bmp) ELSE {}
    IN
    /\ cleared => fds < MaxFds
    /\ drawn => between < MaxFds /\ Within(x, y)
    /\ fds' = IF drawn THEN between ELSE Leak(between)
    /\ last' = IF drawn THEN [cmd |-> "picture"] ELSE IF cleared THEN [cmd |-> "clear"] ELSE last
    /\ painted' = IF drawn THEN cells ELSE IF cleared THEN Locations ELSE painted
    /\ paint' = IF drawn THEN PICTURE ELSE IF cleared THEN BLACK ELSE paint
    /\ UNCHANGED color

FbNext ==
  \/ \E c \in 1 .. 2 : Color(c)
  \/ Clear
  \/ \E x \in Xs, y \in Ys : DrawPoint(x, y)
  \/ \E x1, x2 \in Xs, y1, y2 \in Ys : DrawLine(x1, y1, x2, y2)
  \/ \E x \in Xs, y \in Ys, r \in Radii : DrawCircle(x, y, r)
  \/ \E x \in Xs, y \in Ys, w, h \in Sizes, bmp \in BOOLEAN : DrawPicture(x, y, w, h, bmp)

FbSpec == FbInit /\ [][FbNext]_fbVars

-----------------------------------------------------------------------------
(* Points, lines and circles write to the screen and nowhere else, however  *)
(* near the edge: only pictures leave the mapped memory.                    *)
DrawsOnScreen ==
  last.cmd \in {"point", "line", "circle"} => painted \subseteq Locations

(* A line has its two ends, and unless it is steeper than a diagonal there  *)
(* is no gap in it: the pixels of neighbouring columns touch.               *)
LineUnbroken ==
  last.cmd = "line" =>
    /\ At(last.x1 - 1, last.y1 - 1) \in painted /\ At(last.x2 - 1, last.y2 - 1) \in painted
    /\ AbsOf(last.y2 - last.y1) <= AbsOf(last.x2 - last.x1) =>
         \A l \in painted : (l % XRes) + 1 < (IF last.x1 > last.x2 THEN last.x1 ELSE last.x2) =>
           \E m \in painted : /\ (m % XRes) = (l % XRes) + 1
                              /\ AbsOf((m \div XRes) - (l \div XRes)) <= 1

(* What a circle paints lies within one pixel of the radius, also where the *)
(* screen cuts it, and a circle that fits on the screen is the same on both *)
(* sides of its centre.                                                     *)
CircleIsRing ==
  last.cmd = "circle" =>
    LET d2(l) == ((l % XRes) - last.x) * ((l % XRes) - last.x)
                   + ((l \div XRes) - last.y) * ((l \div XRes) - last.y)
    IN
    /\ \A l \in painted : d2(l) < (last.r + 1) * (last.r + 1) /\ d2(l) >= (last.r - 1) * (last.r - 1)
    /\ last.x > last.r /\ last.x + last.r < XRes /\ last.y > last.r /\ last.y + last.r < YRes =>
         \A l \in painted : At(2 * last.x - (l % XRes), 2 * last.y - (l \div XRes)) \in painted

(* What is drawn is the figure that was asked for, and only on the screen.  *)
DrawingExact == DrawsOnScreen /\ LineUnbroken /\ CircleIsRing
=============================================================================
