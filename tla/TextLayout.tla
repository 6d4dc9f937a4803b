----------------------------- MODULE TextLayout -----------------------------
(***************************************************************************)
(* formatting/render.ts: where the lines of the Format commands break, how *)
(* the width of a table is handed to its columns, and what is left of a    *)
(* cell that is too long.  A text is its grapheme clusters, and of those   *)
(* only their width and which of them are spaces matter.                   *)
(***************************************************************************)
EXTENDS Integers, Sequences, SequencesExt, FiniteSetsExt, Folds, Functions

CONSTANTS
  Clusters,   \* the clusters
  CellWidth,  \* the columns each takes
  Spaces,     \* those that are a space or a tab
  MaxText,    \* clusters in a text
  MaxWidth,   \* columns of a line
  Columns     \* the natural widths of some tables

VARIABLE text

ELLIPSIS == "..."

TypeOK == text \in Seq(Clusters) /\ Len(text) <= MaxText

Width(s) == FoldLeft(LAMBDA n, c : n + (IF c = ELLIPSIS THEN 1 ELSE CellWidth[c]), 0, s)
From(s, i) == SubSeq(s, i, Len(s))
Lead(s, n) == SubSeq(s, 1, n)

-----------------------------------------------------------------------------
\* The longest beginning that fits: the widths are counted until one does not.
Fits(s, width) == CHOOSE n \in 0..Len(s) :
  Width(Lead(s, n)) <= width /\ (n < Len(s) => Width(Lead(s, n + 1)) > width)

\* slip: the space at the break takes no room.
BreakAtEdge(s, width) == Max({0} \cup {i \in DOMAIN s : s[i] \in Spaces /\ Width(Lead(s, i - 1)) <= width})

\* The last space whose chunk fits, the space included, unless the next word would
\* not fit on a line of its own.
BreakAt(s, width) ==
  LET at == Max({0} \cup {i \in 1..Fits(s, width) : s[i] \in Spaces})
      ends == Min({i \in at + 1..Len(s) : s[i] \in Spaces} \cup {Len(s) + 1})
  IN IF at # 0 /\ Width(SubSeq(s, at + 1, ends - 1)) > width THEN 0 ELSE at

\* Where the line is cut when no space helps: one cluster at the least.
CutAt(s, width) == Max({1, Fits(s, width)})

\* wrapText.
WrapText(s, width) ==
  LET Lines[i \in 1..Len(s) + 1] ==
        LET rest == From(s, i)
            end == IF BreakAt(rest, width) # 0 THEN BreakAt(rest, width) ELSE CutAt(rest, width)
        IN IF Width(rest) <= width THEN <<rest>> ELSE <<Lead(rest, end)>> \o Lines[i + end]
  IN IF width <= 0 THEN <<s>> ELSE Lines[1]

\* slip: the marker is not counted.
CutCellBesides(s, width) == Lead(s, Fits(s, width)) \o <<ELLIPSIS>>

\* truncateToWidth, with a marker of one column.
CutCell(s, width) == IF width <= 1 THEN <<>> ELSE Lead(s, Fits(s, width - 1)) \o <<ELLIPSIS>>

\* truncateCell: without room for the marker the text is simply cut; a number
\* keeps its end.
TruncateCell(s, width, alignment) ==
  LET back == Reverse(s) IN
  CASE width <= 0                                               -> <<>>
    [] width > 0 /\ Width(s) <= width                           -> s
    [] width = 1 /\ Width(s) > 1 /\ alignment = "left"          -> Lead(s, Fits(s, 1))
    [] width = 1 /\ Width(s) > 1 /\ alignment = "right"         -> Reverse(Lead(back, Fits(back, 1)))
    [] width > 1 /\ Width(s) > width /\ alignment = "left"      -> CutCell(s, width)
    [] OTHER                                 -> <<ELLIPSIS>> \o Reverse(Lead(back, Fits(back, width - 1)))

\* slip: a column that is not shown still has a space before it.
HandOutAll(w, natural) ==
  [widths |-> Append(w.widths, Max({0, Min({natural, w.left - 1})})),
   left |-> w.left - Max({0, Min({natural, w.left - 1})}) - (IF w.widths = <<>> THEN 0 ELSE 1)]

\* One column: what is left after the space before it, or nothing.
HandOut(w, natural) ==
  LET left == w.left - (IF w.widths = <<>> THEN 0 ELSE 1) IN
  IF left <= 0 THEN [w EXCEPT !.widths = Append(@, 0)]
  ELSE [widths |-> Append(w.widths, Min({natural, left})), left |-> left - Min({natural, left})]
FitColumns(natural, width) == FoldLeft(HandOut, [widths |-> <<>>, left |-> width], natural).widths

Init == text = <<>>
Type(c) == Len(text) < MaxText /\ text' = Append(text, c)
Next == \E c \in Clusters : Type(c)
Spec == Init /\ [][Next]_text

-----------------------------------------------------------------------------
Widths == 1..MaxWidth

(* What is wrapped is all there, in its order, and no line is too wide but for a
   single cluster that is. *)
NothingLostInWrapping ==
  \A w \in Widths : \A lines \in {WrapText(text, w)} :
    /\ FlattenSeq(lines) = text
    /\ \A line \in Range(lines) : Width(line) <= w \/ Len(line) = 1

(* A word that fits on a line is not cut: where a line ends in a word, the whole of
   that word was too wide. *)
WordsThatFitAreWhole ==
  \A w \in Widths : \A lines \in {WrapText(text, w)} : \A i \in 1..Len(lines) - 1 :
  \A at \in {Len(FlattenSeq(Lead(lines, i)))} :
    LET before == Max({0} \cup {j \in 1..at : text[j] \in Spaces})
        after == Min({j \in at + 1..Len(text) : text[j] \in Spaces} \cup {Len(text) + 1})
    IN at < Len(text) /\ text[at] \notin Spaces /\ text[at + 1] \notin Spaces
       => Width(SubSeq(text, before + 1, after - 1)) > w

(* A cell is never wider than its column; what is shown of it is a beginning, or of
   a number an end, and one cluster more would not have fitted. *)
CellsFit ==
  \A w \in 0..MaxWidth : \A side \in {"left", "right"} : \A cell \in {TruncateCell(text, w, side)} :
  \A shown \in {SelectSeq(cell, LAMBDA c : c # ELLIPSIS)} :
    LET n == Len(shown)
        marker == IF Len(cell) > n THEN 1 ELSE 0
    IN /\ Width(cell) <= w
       /\ IF side = "left" THEN shown = Lead(text, n) ELSE shown = From(text, Len(text) - n + 1)
       /\ n < Len(text) /\ w > 0 =>
            LET more == IF side = "left" THEN text[n + 1] ELSE text[Len(text) - n]
            IN Width(shown) + CellWidth[more] + marker > w

(* A table is never wider than the page, and a column is short of its natural width
   only when those before it have left no more. *)
TablesFit ==
  \A natural \in Columns : \A w \in Widths : \A widths \in {FitColumns(natural, w)} :
    LET drawn == SelectSeq(widths, LAMBDA n : n > 0)
        Total(ns) == FoldLeft(LAMBDA m, n : m + n, 0, ns) + Len(ns) - 1
    IN /\ drawn # <<>> => Total(drawn) <= w
       /\ \A i \in DOMAIN widths :
            /\ widths[i] <= natural[i]
            /\ widths[i] < natural[i] /\ (\A j \in 1..i : natural[j] > 0) =>
                 w - Total(SelectSeq(Lead(widths, i), LAMBDA n : n > 0)) <= 1

LayoutSound == NothingLostInWrapping /\ WordsThatFitAreWhole /\ CellsFit /\ TablesFit
=============================================================================
