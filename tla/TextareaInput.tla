--------------------------- MODULE TextareaInput ---------------------------
(***************************************************************************)
(* The textarea in front of the line editor (input/textarea.ts, ime.ts).   *)
(* The browser edits the field; keys, input and composition events tell    *)
(* the editor.  Input methods differ in what their events say, in whether  *)
(* compositionstart comes, in what follows compositionend, and a           *)
(* compositionend may be lost.                                             *)
(***************************************************************************)
EXTENDS LineEditor

CONSTANTS MaxEvents  \* bound: events

VARIABLES
  field,   \* the textarea: value and caret
  ime,     \* the composition: [kind, phase, base], base the field before it
  owing,   \* ghost: a lost compositionend has left the field ahead of the editor
  events

inputVars == <<line, composing, menu, search, index, draft, kill, log, field, ime, owing, events>>

\* "flagged": its events have isComposing.  "sentinel": its keys have keyCode
\* 229.  "silent": neither, but its compositionstart always comes.
Kinds  == {"flagged", "sentinel", "silent"}
Phases == {"idle", "begun", "open", "trailing"}

TypeOK ==
  /\ EditorTypeOK /\ field.caret \in 0..Len(field.text)
  /\ ime.kind \in Kinds /\ ime.phase \in Phases /\ owing \in BOOLEAN /\ events \in 0..MaxEvents

Init ==
  /\ EditorInit /\ field = line /\ owing = FALSE /\ events = 0
  /\ \E kind \in Kinds : ime = [kind |-> kind, phase |-> "idle", base |-> field]

Idle == ime.phase = "idle"
Event == events < MaxEvents /\ events' = events + 1
Goes(phase) == ime' = [ime EXCEPT !.phase = phase]

\* slip: the key is left to the field's next event.
Unsynced(l) == UNCHANGED <<field, owing>>

\* sync, with the line the handler has left.
Sync(l) == field' = l /\ owing' = FALSE

\* #reconcile, with the field the browser has left.
Reconcile(f) ==
  /\ IF f = line THEN UNCHANGED editorVars ELSE SetBuffer(f)
  /\ field' = f /\ owing' = FALSE

\* slip: keyCode 229 is not looked at.
GuardsFlagged == composing \/ (ime.kind = "flagged" /\ ime.phase \in {"begun", "open"})

\* imeGuardLeg.
Guards ==
  \/ composing
  \/ ime.kind = "flagged" /\ ime.phase \in {"begun", "open"}
  \/ ime.kind = "sentinel" /\ ~Idle

\* slip: only isComposing is looked at.
SkipsFlagged == ime.kind = "flagged"

\* The two guards of onInput.
SkipsInput == ime.kind = "flagged" \/ composing

\* onKeyDown.
PassesThrough(a) == a = "revert-line" /\ search = None /\ menu = None /\ line.text = <<>>
Press(a) ==
  /\ Event /\ Idle /\ ~Guards /\ Perform(a)
  /\ IF PassesThrough(a) THEN UNCHANGED <<field, owing>> ELSE Sync(line')
  /\ UNCHANGED ime
PressLetter(x) == Event /\ Idle /\ ~Guards /\ Type(x) /\ Sync(line') /\ UNCHANGED ime

\* A key of the composition, or the one that follows its end.
CandidateKey(a) ==
  /\ Event /\ ~Idle /\ UNCHANGED ime
  /\ (ime.phase = "trailing" => ime.kind = "sentinel")
  /\ IF Guards THEN UNCHANGED <<line, composing, menu, search, index, draft, kill, log, field, owing>>
     ELSE Perform(a) /\ Sync(line')

\* The browser edits the field itself: paste, drop, a touch keyboard, a click,
\* or a key the guard has passed through.  onInput and onSelectionChange.
NativeEdit(f) ==
  /\ Event /\ Idle /\ UNCHANGED ime
  /\ IF composing THEN field' = f /\ UNCHANGED <<line, composing, menu, search, index, draft, kill, log, owing>>
     ELSE Reconcile(f)
Natives == {Insert(field, <<x>>) : x \in Letters} \cup {Cut(field, LeftOf(field), field.caret)}
           \cup {Line(field.text, c) : c \in 0..Len(field.text)}

\* compositionstart; told says whether the event comes.
Start(told) ==
  /\ Event /\ Idle /\ (told \/ ime.kind # "silent")
  /\ ime' = [ime EXCEPT !.phase = "begun", !.base = field]
  /\ IF told THEN SetComposing ELSE UNCHANGED editorVars
  /\ UNCHANGED <<field, owing>>

\* compositionupdate and its input.
Update(preedit) ==
  /\ Event /\ ime.phase \in {"begun", "open"} /\ Goes("open")
  /\ SetComposing /\ field' = Insert(ime.base, preedit) /\ UNCHANGED owing

\* The commit: input before compositionend (Chrome) or after it (Gecko).
Commit(data, inputFirst) ==
  LET told == IF inputFirst /\ ~SkipsInput THEN Insert(ime.base, data) ELSE line IN
  /\ Event /\ (ime.phase = "open" \/ (ime.phase = "begun" /\ data = <<>>))
  /\ Goes(IF inputFirst /\ ime.kind # "sentinel" THEN "idle" ELSE "trailing")
  /\ composing' = FALSE
  /\ IF data = <<>> THEN UNCHANGED <<line, menu, index, draft>> ELSE Edited(Insert(told, data))
  /\ Sync(line') /\ UNCHANGED <<search, kill, log>>

\* The input that follows compositionend.
TrailingInput ==
  /\ Event /\ ime.phase = "trailing" /\ Goes("idle") /\ Reconcile(field)

\* The commit with its compositionend lost.
CommitUnheard(data) ==
  /\ Event /\ ime.phase = "open" /\ Goes("idle")
  /\ field' = Insert(ime.base, data) /\ owing' = TRUE
  /\ UNCHANGED editorVars

\* cancelComposition, by a host that noticed.
CancelComposition ==
  /\ Event /\ Idle /\ composing /\ composing' = FALSE
  /\ UNCHANGED <<line, menu, search, index, draft, kill, log, field, ime, owing>>

Data == {<<>>} \cup {<<x>> : x \in Letters}
Next ==
  /\ \/ \E a \in Actions : Press(a) \/ CandidateKey(a)
     \/ \E x \in Letters \cup {Blank} : PressLetter(x)
     \/ \E f \in Natives : NativeEdit(f)
     \/ \E told \in BOOLEAN : Start(told)
     \/ \E s \in Data : Update(s) \/ (\E first \in BOOLEAN : Commit(s, first)) \/ CommitUnheard(s)
     \/ TrailingInput \/ CancelComposition
  /\ Len(line'.text) <= MaxText /\ Len(field'.text) <= MaxText /\ Len(kill') <= MaxText
  /\ search' # None => Len(search'.needle) <= MaxText
Spec == Init /\ [][Next]_inputVars

-----------------------------------------------------------------------------
(* "After any event surface.value equals editor.view.text": outside a
   composition the field and the editor agree, unless a compositionend was lost
   and nothing has been handled since. *)
Mirror == ime.phase \in {"idle", "trailing"} /\ ~composing /\ ~owing => field = line

InputSound == Mirror /\ MenuShowsTheLine /\ DraftWaits

(* The keys of a composition are the input method's: none of them edits or runs
   the line, with or without isComposing, before compositionend or after. *)
KeysAreTheMethods ==
  ~Idle /\ ime'.phase \in {ime.phase, "open"} => UNCHANGED <<line, log>>

(* What is committed is inserted once, whichever of input and compositionend the
   engine sends first, and the input that trails it changes nothing. *)
CommitsOnce ==
  /\ ime.phase \in {"begun", "open"} /\ ime'.phase \in {"idle", "trailing"}
       /\ ~composing' /\ line = ime.base
     => line' \in {Insert(ime.base, s) : s \in Data}
  /\ ime.phase = "trailing" => UNCHANGED line

InputSteps == KeysAreTheMethods /\ CommitsOnce
=============================================================================
