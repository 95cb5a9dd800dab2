------------------------------- MODULE Console -------------------------------
(***************************************************************************)
(* The video console, kernel/console.c: con_write puts characters at a     *)
(* cursor, wraps lines and scrolls.  Terminal says who calls it.           *)
(*                                                                         *)
(* A cell of video memory is a character and an attribute.  The expression *)
(* that blanks the last line after a scroll parses as                      *)
(* vidmem[i] & (0xff + 0x2800), so the character stays and the attribute   *)
(* is masked with 0x28: it turns 0x07 into 0, black on black.              *)
(***************************************************************************)
EXTENDS Integers, Sequences, SequencesExt

CONSTANTS
  Cols, Lines   \* the size of the part of the screen that scrolls

\* The cursor is kept in bytes.
ASSUME ConsoleAssumption == Cols \in 1..256 /\ Lines \in 2..256

VARIABLES
  vidmem,          \* position -> [c, attr]
  orig_x, orig_y,  \* the cursor
  text,            \* everything written
  start,           \* the line it began on
  topped           \* was there a carriage return on the first line?

consoleVars == <<vidmem, orig_x, orig_y, text, start, topped>>

CHAR_ATTR == 7
ScrollMask == 40   \* 0x28
Pos == 0..(Cols * Lines - 1)

\* Bitwise and of two bytes, from the lowest bit up.
And(a, b) ==
  FoldLeft(LAMBDA s, i : [sum  |-> s.sum + (s.a % 2) * (s.b % 2) * s.unit,
                          unit |-> 2 * s.unit, a |-> s.a \div 2, b |-> s.b \div 2],
           [sum |-> 0, unit |-> 1, a |-> a, b |-> b], [i \in 1..8 |-> i]).sum

\* Mutant: the last line is not touched.
Dimmed_Not(cell) == cell

\* A cell of the last line after a scroll.
Dimmed(cell) == [cell EXCEPT !.attr = And(@, ScrollMask)]

\* scroll(): the memcpy of all lines but the first, then the last line, which
\* still holds what it held.
scroll(v) ==
  [p \in Pos |-> IF p < Cols * (Lines - 1) THEN v[p + Cols] ELSE Dimmed(v[p])]

\* console_init leaves on the screen what the BIOS and the loader wrote, down
\* to the line the cursor is on.
Bios == "-"

ConsoleInit ==
  /\ start \in 0..(Lines - 1)
  /\ vidmem = [p \in Pos |-> [c |-> IF p < start * Cols THEN Bios ELSE " ",
                              attr |-> CHAR_ATTR]]
  /\ orig_x = 0 /\ orig_y = start
  /\ text = <<>>
  /\ topped = FALSE

\* Mutant: the line is full one column late.
LineFull_Late(x) == x > Cols

LineFull(x) == x >= Cols

\* The cursor goes to the start of the next line; s is [v, x, y, off].
NewLine(s) ==
  IF s.y + 1 >= Lines THEN [s EXCEPT !.v = scroll(@), !.x = 0]
                      ELSE [s EXCEPT !.x = 0, !.y = @ + 1]

\* The store into video memory; one outside of the screen is not seen.
Store(v, p, cell) == IF p \in Pos THEN [v EXCEPT ![p] = cell] ELSE v

\* One turn of con_write's loop.
PutChar(s, c) ==
  CASE c = "\n" -> NewLine(s)
    [] c = "\r" -> [s EXCEPT !.x = 0, !.y = @ - 1, !.off = @ \/ s.y = 0]
    [] OTHER ->
         LET cell == [c |-> IF c = "\t" THEN " " ELSE c, attr |-> CHAR_ATTR]
             t == [s EXCEPT !.v = Store(@, s.x + Cols * s.y, cell), !.x = @ + 1]
         IN  IF LineFull(t.x) THEN NewLine(t) ELSE t

\* One call: the cursor is kept in unsigned bytes between two of them.
Write(s, str) ==
  LET t == FoldLeft(PutChar, s, str)
  IN  [t EXCEPT !.x = @ % 256, !.y = @ % 256]

\* Calls of con_write with the texts strs, one after the other.
con_write(strs) ==
  /\ LET s == FoldLeft(Write, [v |-> vidmem, x |-> orig_x, y |-> orig_y,
                               off |-> topped], strs)
     IN  vidmem' = s.v /\ orig_x' = s.x /\ orig_y' = s.y /\ topped' = s.off
  /\ text' = FoldLeft(LAMBDA t, str : t \o str, text, strs)
  /\ UNCHANGED start

-----------------------------------------------------------------------------
\* What a line of the screen shows: its cells that are not black on black.
Shown(v, y) ==
  [x \in 1..Cols |-> LET cell == v[x - 1 + Cols * y]
                     IN  IF cell.attr = 0 THEN " " ELSE cell.c]

\* The lines a text makes on paper: wrapped at Cols, the last one open.
Paper ==
  FoldLeft(LAMBDA ls, c :
             LET l == Append(Last(ls), IF c = "\t" THEN " " ELSE c)
             IN  IF c = "\n" THEN Append(ls, <<>>)
                 ELSE IF Len(l) = Cols THEN Front(ls) \o <<l, <<>>>>
                 ELSE Append(Front(ls), l),
           Append([i \in 1..start |-> [x \in 1..Cols |-> Bios]], <<>>), text)

Padded(l) == [x \in 1..Cols |-> IF x <= Len(l) THEN l[x] ELSE " "]

\* The cursor stays on the screen, and no character is stored outside of it, as
\* long as no carriage return (which con_write takes for one line up) comes on
\* the first line.
CursorOnScreen ==
  ~topped => orig_x \in 0..(Cols - 1) /\ orig_y \in 0..(Lines - 1)

\* The screen shows the end of what was written, line by line, with the cursor
\* behind it, however often it wrapped and scrolled: the last line really
\* looks empty after a scroll, though its characters are still there.
ScreenShowsEnd ==
  "\r" \notin Range(text) =>
    LET n == Len(Paper)
        top == IF n > Lines THEN n - Lines ELSE 0   \* lines scrolled away
    IN  /\ \A y \in 0..(Lines - 1) :
             Shown(vidmem, y) = IF top + y + 1 <= n THEN Padded(Paper[top + y + 1])
                                                    ELSE Padded(<<>>)
        /\ orig_y = n - 1 - top /\ orig_x = Len(Last(Paper))
=============================================================================
