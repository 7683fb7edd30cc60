---------------------------- MODULE Framebuffer ----------------------------
(***************************************************************************)
(* What the shell draws (shell/src/shell.rs) with the framebuffer and math *)
(* crates: a bottom layer with a panel, a top layer with text, and the     *)
(* mouse pointer, composed onto the screen; after an input event only the  *)
(* damaged area is composed again.  Coordinates are floating-point numbers *)
(* in the code and multiples of 1/Unit here; a buffer is a function of     *)
(* pixel indices, so that a row which is too long runs into the next.      *)
(***************************************************************************)
EXTENDS Integers, Sequences, FiniteSetsExt

CONSTANTS Width, Height,              \* of the display
          Unit,                       \* positions between two pixels
          PointerWidth, PointerHeight, PointerHoles, \* holes: its Color::NONE pixels
          CharWidth, CharHeight, Text, Font,
          Placements,                 \* areas for the panel and points for the text
          Deltas,                     \* movements of the mouse
          MaxEvents                   \* bound: input events

ASSUME FramebufferAssumption ==
  /\ {Width, Height, Unit, PointerWidth, PointerHeight, CharWidth, CharHeight} \subseteq Nat \ {0}
  /\ MaxEvents \in Nat

VARIABLES
  placement,  \* where the panel and the text are
  screen,     \* the global framebuffer
  mouse,      \* input_state.mouse_pos
  before,     \* old_mouse_pos of the last event
  events,     \* events so far
  running     \* "starting", "running" or "left"

fbVars == <<placement, screen, mouse, before, events, running>>

-----------------------------------------------------------------------------
(* Conversions and the math crate                                             *)
AsUsize(v) == IF v < 0 THEN 0 ELSE v \div Unit
Greater(a, b) == IF a > b THEN a ELSE b
Lesser(a, b) == IF a < b THEN a ELSE b
Clamp(v, low, high) == Lesser(Greater(v, low), high)
Abs(v) == Greater(v, -v)
Pt(x, y) == [x |-> x, y |-> y]
Add(p, q) == Pt(p.x + q.x, p.y + q.y)
Sub(p, q) == Pt(p.x - q.x, p.y - q.y)
PtMin(p, q) == Pt(Lesser(p.x, q.x), Lesser(p.y, q.y))
PtMax(p, q) == Pt(Greater(p.x, q.x), Greater(p.y, q.y))
Area(pos, size) == [pos |-> pos, size |-> size]
AreaEnd(a) == Add(a.pos, a.size)
Origin == Pt(0, 0)

HasPoint(a, p) ==
  a.pos.x <= p.x /\ a.pos.y <= p.y /\ p.x < AreaEnd(a).x /\ p.y < AreaEnd(a).y
Intersects(a, b) ==
  /\ a.pos.x < AreaEnd(b).x /\ a.pos.y < AreaEnd(b).y
  /\ AreaEnd(a).x > b.pos.x /\ AreaEnd(a).y > b.pos.y

-----------------------------------------------------------------------------
(* A buffer: its width and height in pixels and its colours                   *)
Buffer(w, h, colors) == [w |-> w, h |-> h, colors |-> colors]
Cleared(w, h, color) == Buffer(w, h, [i \in 0 .. w * h - 1 |-> color])
BufferSize(b) == Pt(b.w * Unit, b.h * Unit)
Whole(b) == Area(Origin, BufferSize(b))
PointIndex(b, p) == b.w * AsUsize(p.y) + AsUsize(p.x)

(* Row by row from an index; a buffer ends where it ends.                     *)
FillArea(b, a, color) ==
  LET x == AsUsize(Clamp(a.pos.x, 0, b.w * Unit))
      y == AsUsize(Clamp(a.pos.y, 0, b.h * Unit))
      width == AsUsize(Clamp(a.size.x, 0, Unit * Greater(0, b.w - AsUsize(a.pos.x))))
      height == AsUsize(Clamp(a.size.y, 0, Unit * Greater(0, b.h - AsUsize(a.pos.y))))
      filled == {b.w * (y + r) + x + c : r \in 0 .. height - 1, c \in 0 .. width - 1}
  IN  [b EXCEPT !.colors = [i \in DOMAIN @ |-> IF i \in filled THEN color ELSE @[i]]]

(* draw_ascii_char: the steps of its loop in one direction, from the first    *)
(* that is inside; a pixel is skipped between two characters.                 *)
CharSteps(start, size, limit) ==
  LET offset == Greater(0, -start)
  IN  {a \in {offset + Unit * k : k \in 0 .. size} : a < size * Unit /\ start + a < limit * Unit}
CharColor(ch, x, y, fg, bg) ==
  IF x >= Unit /\ <<AsUsize(y), AsUsize(x - Unit)>> \in Font[ch] THEN fg ELSE bg
DrawAsciiChar(b, ch, fg, bg, pos, col) ==
  LET start == Add(pos, Pt(col * CharWidth * Unit, 0))
      drawn == {s \in CharSteps(start.x, CharWidth, b.w) \X CharSteps(start.y, CharHeight, b.h) :
                  HasPoint(Whole(b), Add(start, Pt(s[1], s[2])))}
      at(s) == PointIndex(b, Add(start, Pt(s[1], s[2])))
      color(i) == LET s == CHOOSE t \in drawn : at(t) = i IN CharColor(ch, s[1], s[2], fg, bg)
  IN  IF ~Intersects(Whole(b), Area(start, Pt(CharWidth * Unit, CharHeight * Unit))) THEN b
      ELSE [b EXCEPT !.colors =
              [i \in DOMAIN @ |-> IF \E s \in drawn : at(s) = i THEN color(i) ELSE @[i]]]

-----------------------------------------------------------------------------
(* composite_buffer: without damage, NoDamage, all of the source              *)
NoDamage == Area(Origin, Pt(-1, -1))
Opaque(color) == color # "none"

\* Mutant: the end of the damage is taken for its size.
DamagedEndSize(end, damage) == PtMin(end, damage.size)

DamagedEnd(end, damage) == PtMin(end, AreaEnd(damage))

CompositeBuffer(damage, source, target, point) ==
  LET ts == BufferSize(target)
      ss == BufferSize(source)
      targetStart == PtMax(point, Origin)
      targetEnd == PtMin(ts, Add(point, ss))
      small == damage # NoDamage /\ ss.x > damage.size.x /\ ss.y > damage.size.y
      start == LET s == Sub(targetStart, point) IN IF small THEN PtMax(s, damage.pos) ELSE s
      end == LET e == Sub(targetEnd, point) IN IF small THEN DamagedEnd(e, damage) ELSE e
      outside == \/ targetEnd.x < 0 \/ targetEnd.y < 0 \/ targetStart.x > ts.x \/ targetStart.y > ts.y
                 \/ damage # NoDamage /\ ~Intersects(Area(point, ss), damage)
                 \/ end.x < 0 \/ end.y < 0 \/ start.x > ss.x \/ start.y > ss.y
      from == PtMax(start, Origin)
      length == AsUsize(Lesser(ss.x, end.x) - from.x)
      height == AsUsize(Lesser(ss.y, end.y) - from.y)
      row(r) == Add(from, Pt(0, r * Unit))
      inside(r) == HasPoint(Whole(source), row(r)) /\ HasPoint(Whole(target), Add(row(r), point))
      rows == {r \in 0 .. height - 1 : \A q \in 0 .. r : inside(q)}
      covers(r, i) == LET first == PointIndex(target, Add(row(r), point))
                      IN  i \in first .. first + length - 1
      color(r, i) == source.colors[PointIndex(source, row(r)) + i - PointIndex(target, Add(row(r), point))]
  IN  IF outside THEN target
      ELSE [target EXCEPT !.colors =
              [i \in DOMAIN @ |-> LET over == {r \in rows : covers(r, i) /\ Opaque(color(r, i))}
                                  IN  IF over = {} THEN @[i] ELSE color(Max(over), i)]]

-----------------------------------------------------------------------------
(* The shell                                                                  *)
BottomLayer == FillArea(Cleared(Width, Height, "background"), placement.panel, "panel")

DrawText[n \in 0 .. Len(Text)] ==
  IF n = 0 THEN Cleared(Width, Height, "none")
  ELSE DrawAsciiChar(DrawText[n - 1], Text[n], "text", "none", placement.text, n - 1)
TopLayer == DrawText[Len(Text)]

PointerLayer ==
  Buffer(PointerWidth, PointerHeight,
         [i \in 0 .. PointerWidth * PointerHeight - 1 |-> IF i \in PointerHoles THEN "none" ELSE "pointer"])

Composite(damage, position) ==
  LET onBottom == CompositeBuffer(damage, BottomLayer, screen, Origin)
      onTop == CompositeBuffer(damage, TopLayer, onBottom, Origin)
  IN  screen' = CompositeBuffer(damage, PointerLayer, onTop, position)

FbInit ==
  /\ placement \in Placements /\ screen = Cleared(Width, Height, "background")
  /\ mouse = Pt((Width * Unit) \div 2, (Height * Unit) \div 2) /\ before = mouse
  /\ events = 0 /\ running = "starting"

Start ==
  /\ running = "starting" /\ running' = "running" /\ Composite(NoDamage, mouse)
  /\ UNCHANGED <<placement, mouse, before, events>>

KeyPress ==
  /\ running = "running" /\ events < MaxEvents /\ events' = events + 1
  /\ Composite(Whole(screen), mouse) /\ before' = mouse
  /\ UNCHANGED <<placement, mouse, running>>

Leave ==
  /\ running = "running" /\ running' = "left"
  /\ UNCHANGED <<placement, screen, mouse, before, events>>

Moved(delta) ==
  Pt(Greater(0, Lesser((Width - 1) * Unit, mouse.x + delta.x * Unit)),
     Greater(0, Lesser((Height - 1) * Unit, mouse.y + delta.y * Unit)))

MoveDamage(delta) ==
  Area(mouse, Pt((PointerWidth + Abs(delta.x)) * Unit, (PointerHeight + Abs(delta.y)) * Unit))

MouseMove ==
  /\ running = "running" /\ events < MaxEvents /\ events' = events + 1
  /\ \E delta \in Deltas :
       mouse' = Moved(delta) /\ before' = mouse /\ Composite(MoveDamage(delta), Moved(delta))
  /\ UNCHANGED <<placement, running>>

FbNext == Start \/ KeyPress \/ Leave \/ MouseMove

-----------------------------------------------------------------------------
(* What is seen at a pixel.  The pointer is drawn from the pixel it is in, as *)
(* far as it fits; after a movement to the left or up by its size or more it  *)
(* is not drawn before the next event.                                        *)
Pixel(x, y) == y * Width + x
PointerDrawn ==
  mouse.x + PointerWidth * Unit > before.x /\ mouse.y + PointerHeight * Unit > before.y
PointerAt(x, y) ==
  \E c \in 0 .. PointerWidth - 1, r \in 0 .. PointerHeight - 1 :
    /\ x = AsUsize(mouse.x) + c /\ mouse.x + (c + 1) * Unit <= Width * Unit
    /\ y = AsUsize(mouse.y) + r /\ mouse.y + (r + 1) * Unit <= Height * Unit
    /\ (PointerWidth * r + c) \notin PointerHoles
TowardZero(v) == IF v < 0 THEN -((-v) \div Unit) ELSE v \div Unit
TextAt(x, y) ==
  \E n \in 1 .. Len(Text) : \E bit \in Font[Text[n]] :
    /\ x = TowardZero(placement.text.x + (n - 1) * CharWidth * Unit) + 1 + bit[2]
    /\ y = TowardZero(placement.text.y) + bit[1]
PanelAt(x, y) ==
  LET a == placement.panel
  IN  /\ x \in AsUsize(a.pos.x) .. AsUsize(a.pos.x) + AsUsize(a.size.x) - 1
      /\ y \in AsUsize(a.pos.y) .. AsUsize(a.pos.y) + AsUsize(a.size.y) - 1

(* After every event each pixel shows the topmost of pointer, text, panel and *)
(* background: composing only the damaged area leaves no trace of where the   *)
(* pointer was.                                                               *)
ScreenIsComposed ==
  running # "starting" =>
    \A x \in 0 .. Width - 1, y \in 0 .. Height - 1 :
      screen.colors[Pixel(x, y)] =
        IF PointerDrawn /\ PointerAt(x, y) THEN "pointer"
        ELSE IF TextAt(x, y) THEN "text"
        ELSE IF PanelAt(x, y) THEN "panel" ELSE "background"
=============================================================================
