--------------------------- MODULE TerminalScreen ---------------------------
(***************************************************************************)
(* renderer/grid.ts, rows of cells written by the parser's events, and     *)
(* renderer/semantic.ts, the page that shows them: one element a row, and  *)
(* after each chunk only the rows that can have changed are filled again.  *)
(*                                                                         *)
(* A column is counted from zero, as in the code, and a cell from one.     *)
(* What the grid records as unsupported places nothing and is left out.    *)
(***************************************************************************)
EXTENDS Integers, Sequences, SequencesExt, FiniteSetsExt

CONSTANTS
  Pages,      \* the rows there may be at first
  Styles,     \* the default style and others
  Default,
  TabWidth,
  Cap,        \* maxRows
  MaxColumn,  \* bound on the cursor
  MaxEvents   \* bound on the parser's events

VARIABLES
  rows,      \* #rows of the buffer
  column,    \* #column
  style,     \* #style
  trimmed,   \* #trimmed of the buffer
  elements,  \* the runs each element of the page shows
  mirrored,  \* #trimmed of the terminal
  dirty,     \* the first row the chunk at work may change, or Quiet
  live,      \* not disposed
  wiped,     \* a sequence in the stream has cleared the buffer
  done       \* events so far

bufferVars == <<rows, column, style, trimmed>>
pageVars   == <<elements, mirrored, dirty, live>>
screenVars == <<bufferVars, pageVars, wiped, done>>

Quiet == -1      \* between two chunks
Mark  == "mark"  \* a character of no width

TypeOK ==
  /\ rows # <<>> /\ Len(rows) <= Cap /\ column \in Nat /\ style \in Styles
  /\ \A i \in DOMAIN rows : \A j \in DOMAIN rows[i] : rows[i][j].style \in Styles
  /\ live \in BOOLEAN /\ wiped \in BOOLEAN /\ (live \/ elements = <<>>)

-----------------------------------------------------------------------------
(* Cells and rows.                                                         *)

Cell(text, st) == [text |-> text, style |-> st]
Blank(st)      == Cell(<<" ">>, st)
Rest(st)       == Cell(<<>>, st)  \* the right half of a wide character
IsRest(row, i) == i \in DOMAIN row /\ row[i].text = <<>>

Padded(row, upto) == row \o [i \in 1..(IF upto > Len(row) THEN upto - Len(row) ELSE 0) |-> Blank(style)]
With(row, i, cell) == [j \in 1..(IF i > Len(row) THEN i ELSE Len(row)) |-> IF j = i THEN cell ELSE row[j]]

\* repairOverlap: blank the half that a write at i leaves behind.
Repaired(row, i) ==
  CASE IsRest(row, i) /\ i > 1 -> [row EXCEPT ![i - 1] = Blank(@.style)]
    [] i \in DOMAIN row /\ ~IsRest(row, i) /\ IsRest(row, i + 1) -> [row EXCEPT ![i + 1] = Blank(@.style)]
    [] OTHER -> row

BlankAt(row, i) == With(Repaired(row, i), i, Blank(style))
Blanked(row, from, to) ==
  LET n == IF to >= from THEN to - from + 1 ELSE 0
      blanked[k \in 0..n] == IF k = 0 THEN row ELSE BlankAt(blanked[k - 1], from + k - 1)
  IN blanked[n]

\* runsOf: cells that look the same; a right half goes with its left one.
Run(text, st, at, width) == [text |-> text, style |-> st, column |-> at, columns |-> width]
RunsWith(runs, row, i) ==
  CASE IsRest(row, i) -> IF runs = <<>> THEN runs
                         ELSE Append(Front(runs), [Last(runs) EXCEPT !.columns = @ + 1])
    [] runs # <<>> /\ row[i].text # <<>> /\ Last(runs).style = row[i].style ->
         Append(Front(runs), [Last(runs) EXCEPT !.columns = @ + 1, !.text = @ \o row[i].text])
    [] OTHER -> Append(runs, Run(row[i].text, row[i].style, i - 1, 1))
RunsOf(row) ==
  LET runs[i \in 0..Len(row)] == IF i = 0 THEN <<>> ELSE RunsWith(runs[i - 1], row, i)
  IN runs[Len(row)]

-----------------------------------------------------------------------------
Init ==
  /\ rows \in Pages /\ elements = [r \in DOMAIN rows |-> RunsOf(rows[r])]
  /\ column = 0 /\ style = Default /\ trimmed = 0
  /\ mirrored = 0 /\ dirty = Quiet /\ live = TRUE /\ wiped = FALSE /\ done = 0

\* write: the row that is about to be written into, counted from the first ever.
BeginWrite ==
  /\ live /\ dirty = Quiet /\ dirty' = trimmed + Len(rows) - 1
  /\ UNCHANGED <<bufferVars, elements, mirrored, live, wiped, done>>

Line == Last(rows)
Event == dirty # Quiet /\ done < MaxEvents /\ done' = done + 1 /\ UNCHANGED pageVars
Put(row, at, st) ==
  /\ Event /\ at <= MaxColumn /\ UNCHANGED <<trimmed, wiped>>
  /\ rows' = [rows EXCEPT ![Len(rows)] = row] /\ column' = at /\ style' = st
Goes(at)    == Put(Line, at, style)
Draws(row)  == Put(row, column, style)

Character(c) ==
  LET row == Padded(Line, column)
      at  == column + 1
  IN \/ c = "narrow" /\ Put(With(Repaired(row, at), at, Cell(<<c>>, style)), column + 1, style)
     \/ /\ c = "wide"
        /\ Put(With(With(Repaired(Repaired(row, at), at + 1), at, Cell(<<c>>, style)), at + 1, Rest(style)),
               column + 2, style)

\* A combining mark joins the last cell before the cursor that holds something.
Combine ==
  LET before == {i \in DOMAIN Line : i <= column /\ ~IsRest(Line, i)} IN
  IF before # {} THEN Draws([Line EXCEPT ![Max(before)].text = Append(@, Mark)])
  ELSE Put(With(Repaired(Padded(Line, column), column + 1), column + 1, Cell(<<Mark>>, style)),
           column + 1, style)

Back   == Goes(IF column > 0 THEN column - 1 ELSE 0)
Return == Goes(0)
Tab ==
  LET stop == ((column \div TabWidth) + 1) * TabWidth IN
  Put(Blanked(Padded(Line, column), column + 1, stop), stop, style)

NewLine ==
  /\ Event /\ column' = 0 /\ UNCHANGED <<style, wiped>>
  /\ LET over == Len(rows) = Cap IN
     rows' = Append(IF over THEN Tail(rows) ELSE rows, <<>>) /\ trimmed' = IF over THEN trimmed + 1 ELSE trimmed

\* slip: the cut at the cursor leaves half a character.
CutBare(row, at) == SubSeq(row, 1, at)

\* EL 0
Cut(row, at) == SubSeq(Repaired(row, at + 1), 1, at)

EraseInLine(mode) ==
  CASE mode = "right" -> Draws(Cut(Line, IF column < Len(Line) THEN column ELSE Len(Line)))
    [] mode = "left"  -> Draws(Blanked(Padded(Line, column + 1), 1, column + 1))
    [] mode = "all"   -> Draws(<<>>)

Forward(n)  == Put(Blanked(Padded(Line, column), column + 1, column + n), column + n, style)
Backward(n) == Goes(IF column > n THEN column - n ELSE 0)
To(n)       == Goes(n)
EraseNext(n) ==
  LET row == Padded(Line, column) IN Draws(Blanked(row, column + 1, Min({column + n, Len(row)})))
Sgr(st)     == Put(Line, column, st)

Emptied == rows' = <<<<>>>> /\ column' = 0 /\ trimmed' = 0

\* ED 2 and 3, and RIS.
EraseAll(st) == Event /\ Emptied /\ style' = st /\ wiped' = TRUE

\* slip: the row keeps its number when rows above it are dropped.
FilledByNumber(first) == first

\* reconcile, "held as an ABSOLUTE row number because the trim shifts every
\* relative index".
FilledFrom(first) == IF first > trimmed THEN first - trimmed ELSE 0

EndWrite ==
  LET drop == IF trimmed > mirrored THEN trimmed - mirrored ELSE 0
      kept == SubSeq(elements, drop + 1, Len(elements))
      all  == kept \o [i \in 1..(IF Len(rows) > Len(kept) THEN Len(rows) - Len(kept) ELSE 0) |-> <<>>]
  IN /\ live /\ dirty # Quiet
     /\ elements' = [i \in DOMAIN all |->
                       IF i \in DOMAIN rows /\ i > FilledFrom(dirty) THEN RunsOf(rows[i]) ELSE all[i]]
     /\ mirrored' = trimmed /\ dirty' = Quiet
     /\ UNCHANGED <<bufferVars, live, wiped, done>>

Clear ==
  /\ live /\ dirty = Quiet /\ done < MaxEvents /\ done' = done + 1
  /\ Emptied /\ elements' = <<<<>>>> /\ mirrored' = 0 /\ wiped' = FALSE
  /\ UNCHANGED <<style, dirty, live>>

Dispose ==
  /\ live /\ dirty = Quiet /\ live' = FALSE /\ elements' = <<>>
  /\ UNCHANGED <<bufferVars, mirrored, dirty, wiped, done>>

Moves == Back \/ Return \/ Tab \/ NewLine \/ \E n \in 1..2 : Forward(n) \/ Backward(n) \/ To(n)
Draw  == Combine \/ (\E c \in {"narrow", "wide"} : Character(c)) \/ \E st \in Styles : Sgr(st)
Erase == \/ \E mode \in {"right", "left", "all"} : EraseInLine(mode)
         \/ \E n \in 1..2 : EraseNext(n)
         \/ \E st \in {style, Default} : EraseAll(st)
Next  == BeginWrite \/ Moves \/ Draw \/ Erase \/ EndWrite \/ Clear \/ Dispose
Spec  == Init /\ [][Next]_screenVars

-----------------------------------------------------------------------------
(* A right half stands behind a wide character and nowhere else, and a wide
   character has one, whatever was written over it, erased or cut off. *)
NoHalfCharacters ==
  \A r \in DOMAIN rows : \A i \in DOMAIN rows[r] :
    /\ IsRest(rows[r], i) => i > 1 /\ Head(rows[r][i - 1].text) = "wide"
    /\ ~IsRest(rows[r], i) /\ Head(rows[r][i].text) = "wide" => IsRest(rows[r], i + 1)

\* The text of some cells or runs, one after the other.
TextOf(parts) ==
  LET text[i \in 0..Len(parts)] == IF i = 0 THEN <<>> ELSE text[i - 1] \o parts[i].text
  IN text[Len(parts)]

(* runsOf: the runs of a row stand side by side, as wide as the row, and their
   text is the row's. *)
RunsCoverTheRow ==
  \A r \in DOMAIN rows :
    LET runs == RunsOf(rows[r])
        end(k) == runs[k].column + runs[k].columns
    IN /\ \A k \in DOMAIN runs : runs[k].column = IF k = 1 THEN 0 ELSE end(k - 1)
       /\ rows[r] # <<>> => runs # <<>> /\ end(Len(runs)) = Len(rows[r])
       /\ TextOf(runs) = TextOf(rows[r])

(* "One element per buffer row, in the same order", each showing what its row
   holds, after every write and every clear.  A sequence in the stream that
   clears the buffer is not followed, until the terminal itself is cleared. *)
PageShowsTheRows ==
  live /\ dirty = Quiet /\ ~wiped => elements = [r \in DOMAIN rows |-> RunsOf(rows[r])]

ScreenSound == NoHalfCharacters /\ RunsCoverTheRow /\ PageShowsTheRows
=============================================================================
