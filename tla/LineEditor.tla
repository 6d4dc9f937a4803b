----------------------------- MODULE LineEditor -----------------------------
(***************************************************************************)
(* The prompt's line editor (line-editor/editor.ts) with the history it    *)
(* walks and searches, the completion menu and the prediction.  A key      *)
(* resolves to an action; a search takes it first, then an open menu, and  *)
(* what neither takes closes both and edits the line.                      *)
(*                                                                         *)
(* A grapheme is a letter or a blank.  How the history ranks its matches   *)
(* and which origin an entry carries are left open: any match may be the   *)
(* one on show.                                                            *)
(***************************************************************************)
EXTENDS Naturals, Sequences, FiniteSets, FiniteSetsExt, SequencesExt

CONSTANTS
  Letters,   \* what is typed; Blank separates words
  Blank,
  Commands,  \* the inventory, in the order of the menu
  Recalled,  \* the history at the start: records [source, mine]
  Capacity,  \* entries the history keeps
  MaxText    \* bound: graphemes of a line, a needle, a kill

None == [none |-> TRUE]
Line(text, caret) == [text |-> text, caret |-> caret]
Whole(text) == Line(text, Len(text))

VARIABLES
  line,       \* #buffer
  composing,  \* #composing
  menu,       \* #menu: [words, start, saved, at], or None
  search,     \* #search: [needle, saved], or None
  index,      \* #historyIndex plus one; 0 is null
  draft,      \* #draft, or None
  kill,       \* #kill
  log         \* HistoryEngine.#entries

editorVars == <<line, composing, menu, search, index, draft, kill, log>>

EditorInit ==
  /\ line = Whole(<<>>) /\ composing = FALSE /\ menu = None /\ search = None
  /\ index = 0 /\ draft = None /\ kill = <<>> /\ log = Recalled

-----------------------------------------------------------------------------
\* text-buffer.ts.
Before(l) == SubSeq(l.text, 1, l.caret)
After(l)  == SubSeq(l.text, l.caret + 1, Len(l.text))
Span(l, from, to) == SubSeq(l.text, from + 1, to)
AtEnd(l) == l.caret = Len(l.text)
Insert(l, s) == Line(Before(l) \o s \o After(l), l.caret + Len(s))
Cut(l, from, to) ==
  Line(SubSeq(l.text, 1, from) \o SubSeq(l.text, to + 1, Len(l.text)), from)

IsWord(l, p) == p \in 1..Len(l.text) /\ l.text[p] # Blank
LeftOf(l)    == Max({0, l.caret - 1})
RightOf(l)   == Min({Len(l.text), l.caret + 1})
WordLeft(l)  == Max({0} \cup {p \in 0..(l.caret - 1) : IsWord(l, p + 1) /\ ~IsWord(l, p)})
WordRight(l) == Min({Len(l.text)}
                    \cup {p \in (l.caret + 1)..Len(l.text) : IsWord(l, p) /\ ~IsWord(l, p + 1)})
Trimmed(s) ==
  LET words == {i \in DOMAIN s : s[i] # Blank} IN
  IF words = {} THEN <<>> ELSE SubSeq(s, Min(words), Max(words))

\* completion.ts: the word the caret ends, the list of what completes it (there is
\* one, in the order of the inventory), and the line with it.
WordStart(l) ==
  IF IsWord(l, l.caret)
  THEN Max({p \in 0..(l.caret - 1) : IsWord(l, p + 1) /\ ~IsWord(l, p)})
  ELSE l.caret
Completing(l) == {i \in DOMAIN Commands : IsPrefix(Span(l, WordStart(l), l.caret), Commands[i])}
InOrder(S)    == {ss \in [1..Cardinality(S) -> S] : \A i, j \in DOMAIN ss : i < j => ss[i] < ss[j]}
Completions(l) == {[k \in DOMAIN places |-> Commands[places[k]]] : places \in InOrder(Completing(l))}
Completed(l, start, word) ==
  Line(SubSeq(l.text, 1, start) \o word \o After(l), start + Len(word))

\* history.ts and prediction.ts.
Sources == {log[i].source : i \in DOMAIN log}
Occurs(s, needle) == \E i \in 0..(Len(s) - Len(needle)) : Span(Whole(s), i, i + Len(needle)) = needle
Matches(needle) == IF needle = <<>> THEN {} ELSE {s \in Sources : Occurs(s, needle)}
Older(from) == {i \in 1..(from - 1) : log[i].mine}
Newer(from) == {i \in (from + 1)..Len(log) : log[i].mine}
Rest(l, s)  == SubSeq(s, Len(l.text) + 1, Len(s))
Predicted(l) ==
  LET Longer(S) == {s \in S : IsPrefix(l.text, s) /\ Len(s) > Len(l.text)}
      known == Longer(ToSet(Commands))
  IN IF ~AtEnd(l) \/ l.text = <<>> THEN {<<>>}
     ELSE {Rest(l, s) : s \in Longer(Sources)}
          \cup (IF Longer(Sources) # {} /\ l.text \notin Sources THEN {}
                ELSE IF known = {} THEN {<<>>} ELSE {Rest(l, s) : s \in known})
FirstWord(s) == SubSeq(s, 1, WordRight(Line(s, 0)))

-----------------------------------------------------------------------------
\* slip: an edit leaves the menu open over a line it no longer describes.
EditedUnderMenu(l) ==
  /\ line' = l /\ index' = 0 /\ draft' = None
  /\ UNCHANGED menu

\* #afterEdit.
Edited(l) == line' = l /\ menu' = None /\ index' = 0 /\ draft' = None
Kept(l) == line' = l /\ menu' = None /\ UNCHANGED <<index, draft>>

\* #resetTransientState.
Fresh(l) == Edited(l) /\ search' = None

\* append, from submit.
Remember(text) ==
  LET all == Append(log, [source |-> Trimmed(text), mine |-> TRUE]) IN
  log' = IF Trimmed(text) = <<>> THEN log
         ELSE SubSeq(all, Max({1, Len(all) - Capacity + 1}), Len(all))

Kill(from, to) == kill' = Span(line, from, to) /\ Edited(Cut(line, from, to))
Delete(from, to) == Edited(Cut(line, from, to)) /\ UNCHANGED kill

HistoryBack ==
  LET from == IF index = 0 THEN Len(log) + 1 ELSE index IN
  /\ draft' = IF index = 0 THEN line ELSE draft
  /\ IF Older(from) = {} THEN index' = from /\ UNCHANGED line
     ELSE index' = Max(Older(from)) /\ line' = Whole(log[index'].source)
  /\ menu' = None

HistoryForward ==
  /\ IF index = 0 THEN UNCHANGED <<line, index, draft>>
     ELSE IF Newer(index) = {} THEN line' = draft /\ index' = 0 /\ draft' = None
     ELSE index' = Min(Newer(index)) /\ line' = Whole(log[index'].source) /\ UNCHANGED draft
  /\ menu' = None

\* slip: completing keeps the place in the history.
CompleteInPlace(last) == \E words \in Completions(line) :
  IF words = <<>> THEN Kept(line)
  ELSE /\ menu' = IF Len(words) = 1 THEN None
                  ELSE [words |-> words, start |-> WordStart(line), saved |-> line,
                        at |-> IF last THEN Len(words) ELSE 1]
       /\ line' = Completed(line, WordStart(line), words[IF last THEN Len(words) ELSE 1])
       /\ index' = 0 /\ UNCHANGED draft

\* #openOrCycle with no menu open.
Complete(last) == \E words \in Completions(line) :
  IF words = <<>> THEN Kept(line)
  ELSE /\ menu' = IF Len(words) = 1 THEN None
                  ELSE [words |-> words, start |-> WordStart(line), saved |-> line,
                        at |-> IF last THEN Len(words) ELSE 1]
       /\ line' = Completed(line, WordStart(line), words[IF last THEN Len(words) ELSE 1])
       /\ index' = 0 /\ draft' = None

Accept(amount, otherwise) ==
  \E p \in Predicted(line) :
    IF p = <<>> THEN Kept(otherwise)
    ELSE Edited(Insert(line, IF amount = "word" THEN FirstWord(p) ELSE p))

Moves == {"move-left", "move-right", "move-word-left", "move-word-right",
          "move-line-start", "move-line-end"}
Edits == {"delete-backward", "delete-forward", "kill-to-line-end", "kill-to-line-start",
          "kill-word-left", "kill-word-right", "yank", "cancel-line", "revert-line"}
Modal == {"accept-line", "history-previous", "history-next", "history-search-backward",
          "complete", "complete-previous", "complete-cancel"}
Actions == Moves \cup Edits \cup Modal

\* #editAction.
Move(a) ==
  /\ CASE a = "move-left"       -> Kept(Line(line.text, LeftOf(line)))
       [] a = "move-right"      -> Accept("all", Line(line.text, RightOf(line)))
       [] a = "move-word-left"  -> Kept(Line(line.text, WordLeft(line)))
       [] a = "move-word-right" -> Accept("word", Line(line.text, WordRight(line)))
       [] a = "move-line-start" -> Kept(Line(line.text, 0))
       [] a = "move-line-end"   -> Accept("all", Whole(line.text))
  /\ search' = None /\ UNCHANGED <<composing, kill, log>>

EditAction(a) ==
  /\ CASE a = "delete-backward"    -> Delete(LeftOf(line), line.caret)
       [] a = "delete-forward"     -> Delete(line.caret, RightOf(line))
       [] a = "kill-to-line-end"   -> Kill(line.caret, Len(line.text))
       [] a = "kill-to-line-start" -> Kill(0, line.caret)
       [] a = "kill-word-left"     -> Kill(WordLeft(line), line.caret)
       [] a = "kill-word-right"    -> Kill(line.caret, WordRight(line))
       [] a = "yank" -> (IF kill = <<>> THEN Kept(line) ELSE Edited(Insert(line, kill))) /\ UNCHANGED kill
       [] a = "cancel-line" -> Edited(Whole(<<>>)) /\ UNCHANGED kill
       [] a = "revert-line" ->
            (IF line.text = <<>> THEN Kept(line) ELSE Edited(Whole(<<>>))) /\ UNCHANGED kill
  /\ search' = None /\ UNCHANGED <<composing, log>>

ModalAction(a) ==
  /\ CASE a = "accept-line"       -> Remember(line.text) /\ Edited(Whole(<<>>))
       [] a = "history-previous"  -> HistoryBack /\ UNCHANGED log
       [] a = "history-next"      -> HistoryForward /\ UNCHANGED log
       [] a = "complete"          -> Complete(FALSE) /\ UNCHANGED log
       [] a = "complete-previous" -> Complete(TRUE) /\ UNCHANGED log
       [] OTHER                   -> Kept(line) /\ UNCHANGED log
  /\ search' = IF a = "history-search-backward" THEN [needle |-> <<>>, saved |-> line] ELSE None
  /\ UNCHANGED <<composing, kill>>

\* #searchAction: what a reverse search keeps to itself.
Shows(needle) ==
  line' \in IF Matches(needle) = {} THEN {search.saved}
            ELSE {Whole(s) : s \in Matches(needle)}
SearchTakes == {"history-search-backward", "delete-backward", "revert-line",
                "complete-cancel", "cancel-line", "accept-line"}
SearchAction(a) ==
  /\ CASE a = "history-search-backward" ->
            /\ IF Matches(search.needle) = {} THEN UNCHANGED line ELSE Shows(search.needle)
            /\ UNCHANGED search
       [] a = "delete-backward" ->
            IF search.needle = <<>> THEN UNCHANGED <<line, search>>
            ELSE /\ search' = [search EXCEPT !.needle = Front(@)]
                 /\ Shows(Front(search.needle))
       [] a = "accept-line" -> search' = None /\ UNCHANGED line
       [] OTHER             -> search' = None /\ line' = search.saved
  /\ UNCHANGED <<composing, menu, index, draft, kill, log>>

\* #menuAction: what an open menu keeps to itself.
MenuTakes == {"complete", "history-next", "complete-previous", "history-previous",
              "accept-line", "complete-cancel", "revert-line"}
Select(at) ==
  /\ menu' = [menu EXCEPT !.at = at]
  /\ line' = Completed(menu.saved, menu.start, menu.words[at])
  /\ index' = 0 /\ draft' = None
MenuAction(a) ==
  LET size == Len(menu.words) IN
  /\ CASE a \in {"complete", "history-next"} -> Select((menu.at % size) + 1)
       [] a \in {"complete-previous", "history-previous"} -> Select(((menu.at - 2 + size) % size) + 1)
       [] a = "accept-line" -> Kept(line)
       [] OTHER             -> Kept(menu.saved)
  /\ UNCHANGED <<composing, search, kill, log>>

\* perform.
Perform(a) ==
  IF search # None /\ a \in SearchTakes THEN SearchAction(a)
  ELSE IF menu # None /\ a \in MenuTakes THEN MenuAction(a)
  ELSE IF a \in Moves THEN Move(a) ELSE IF a \in Edits THEN EditAction(a) ELSE ModalAction(a)

\* perform with a printable key.
Type(letter) ==
  /\ IF search # None
     THEN /\ search' = [search EXCEPT !.needle = Append(@, letter)]
          /\ Shows(Append(search.needle, letter))
          /\ UNCHANGED <<menu, index, draft>>
     ELSE Edited(Insert(line, <<letter>>)) /\ UNCHANGED search
  /\ UNCHANGED <<composing, kill, log>>

\* setBuffer and setComposing.
SetBuffer(l) == Fresh(l) /\ UNCHANGED <<composing, kill, log>>
SetComposing == composing' = TRUE /\ menu' = None /\ UNCHANGED <<line, search, index, draft, kill, log>>

-----------------------------------------------------------------------------
EditorTypeOK ==
  LET Fits(l) == Len(l.text) <= MaxText /\ l.caret \in 0..Len(l.text) IN
  /\ Fits(line) /\ Len(kill) <= MaxText /\ composing \in BOOLEAN
  /\ index \in 0..(Len(log) + 1) /\ Len(log) <= Capacity
  /\ search # None => Fits(search.saved) /\ Len(search.needle) <= MaxText
  /\ menu # None => Fits(menu.saved) /\ menu.at \in DOMAIN menu.words
  /\ draft # None => Fits(draft)

(* What an open menu highlights is what Enter would leave on the line, and no
   menu is open under a search or a composition, whose keys are the same. *)
MenuShowsTheLine ==
  menu # None =>
    /\ line = Completed(menu.saved, menu.start, menu.words[menu.at])
    /\ search = None /\ ~composing

(* A walk through the history always has the typed line to come back to, and a
   typed line is never kept beyond the walk. *)
DraftWaits == (index = 0) <=> (draft = None)
=============================================================================
