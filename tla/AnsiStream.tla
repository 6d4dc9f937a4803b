----------------------------- MODULE AnsiStream -----------------------------
(***************************************************************************)
(* renderer/ansi.ts: the parser that tells text from escape sequences.  It *)
(* is resumable, "any split of the stream" is to give the same events, so  *)
(* what it keeps between two chunks is its state here.                     *)
(*                                                                         *)
(* A character is one of each class the parser tells apart; a digit is a   *)
(* one.  What a sequence means is TerminalScreen's business.               *)
(***************************************************************************)
EXTENDS Integers, Sequences, SequencesExt

CONSTANTS
  Characters,  \* what the stream may hold
  Openings,    \* what it may have held before it is looked at
  MaxGiven     \* bound: characters after the opening

VARIABLES
  parser,  \* its fields that outlive a character
  given,   \* every character so far
  events   \* every event reported so far, adjacent texts as one

streamVars == <<parser, given, events>>

Controls  == {"cr", "nul", "del"}  \* executed or dropped, wherever they stand
Between   == {" "}                 \* 0x20 to 0x2f
Finals    == {"m", "[", "]", "P"}  \* 0x40 to 0x7e
Privates  == {"?"}                 \* 0x3c to 0x3f
Digits    == {"1"}
Omitted   == -1
InString  == {"osc", "string"}

Fresh == [state |-> "ground", text |-> <<>>, collected |-> <<>>,
          params |-> <<>>, current |-> <<>>, hasCurrent |-> FALSE, hasDigits |-> FALSE,
          prefix |-> <<>>, between |-> <<>>]

TypeOK ==
  /\ given \in Seq(Characters) /\ DOMAIN parser = DOMAIN Fresh
  /\ parser.state \in {"ground", "escape", "escape-intermediate", "csi-entry", "csi-param",
                       "csi-intermediate", "csi-ignore"} \cup InString
  /\ parser.state # "ground" => parser.text = <<>>

-----------------------------------------------------------------------------
Text(chars) == [kind |-> "text", data |-> chars]

\* Two texts in a row are one: where a chunk ends between them does not count.
Joined(es, e) ==
  IF e.kind = "text" /\ es # <<>> /\ Last(es).kind = "text"
  THEN Append(Front(es), Text(Last(es).data \o e.data)) ELSE Append(es, e)
JoinedAll(es, more) ==
  LET joined[i \in 0..Len(more)] == IF i = 0 THEN es ELSE Joined(joined[i - 1], more[i])
  IN joined[Len(more)]

\* What a character does: the fields after it, and the events it completes.
To(p, state)          == [now |-> [p EXCEPT !.state = state], out |-> <<>>]
Cleared(p, state)     ==
  To([p EXCEPT !.params = <<>>, !.current = <<>>, !.hasCurrent = FALSE, !.hasDigits = FALSE,
               !.prefix = <<>>, !.between = <<>>], state)
Emit(p, state, event) == [Cleared(p, state) EXCEPT !.out = <<event>>]
Flushed(p) == [now |-> [p EXCEPT !.text = <<>>], out |-> IF p.text = <<>> THEN <<>> ELSE <<Text(p.text)>>]

ClosedParam(p) ==
  [p EXCEPT !.params = Append(@, IF p.hasCurrent THEN p.current ELSE <<Omitted>>),
            !.current = <<>>, !.hasCurrent = FALSE, !.hasDigits = FALSE]

Finished(p) ==
  LET closed == IF p.hasCurrent \/ p.params # <<>> THEN ClosedParam(p) ELSE p IN
  [kind |-> "csi", params |-> closed.params, prefix |-> p.prefix, between |-> p.between]

Slot(p, digit) ==
  CASE ~p.hasCurrent  -> Append(p.current, digit)
    [] p.hasDigits    -> Append(Front(p.current), 10 * Last(p.current) + digit)
    [] OTHER          -> Append(Front(p.current), digit)

Ground(p, c) ==
  CASE c = "esc" -> [Cleared(Flushed(p).now, "escape") EXCEPT !.out = Flushed(p).out]
    [] c = "cr"  -> [Flushed(p) EXCEPT !.out = Append(@, [kind |-> "execute"])]
    [] c \in {"nul", "del", "bel", "can", "c1"} -> Flushed(p)
    [] OTHER -> [now |-> [p EXCEPT !.text = Append(@, c)], out |-> <<>>]

Escape(p, c) ==
  IF p.state = "escape" /\ c = "[" THEN To(p, "csi-entry")
  ELSE IF p.state = "escape" /\ c \in {"]", "P"}
  THEN To([p EXCEPT !.collected = <<>>], IF c = "]" THEN "osc" ELSE "string")
  ELSE CASE c \in Between -> To([p EXCEPT !.between = Append(@, c)], "escape-intermediate")
         [] c \in Finals \cup Digits \cup Privates \cup {":", ";"} ->
              Emit(p, "ground", [kind |-> "esc", final |-> c, between |-> p.between])
         [] OTHER -> Cleared(p, "ground")

Csi(p, c) ==
  LET early == p.state # "csi-intermediate" IN
  CASE early /\ c \in Digits ->
         To([p EXCEPT !.current = Slot(p, 1), !.hasCurrent = TRUE, !.hasDigits = TRUE], "csi-param")
    [] early /\ c = ":" ->
         To([p EXCEPT !.current = (IF p.hasCurrent THEN @ ELSE Append(@, Omitted)) \o <<Omitted>>,
                      !.hasCurrent = TRUE, !.hasDigits = FALSE], "csi-param")
    [] early /\ c = ";" -> To(ClosedParam(p), "csi-param")
    [] p.state = "csi-entry" /\ c \in Privates -> To([p EXCEPT !.prefix = Append(@, c)], "csi-entry")
    [] c \in Between -> To([p EXCEPT !.between = Append(@, c)], "csi-intermediate")
    [] c \in Finals -> Emit(p, "ground", Finished(p))
    [] OTHER -> To(p, "csi-ignore")

Ignored(p, c) == IF c \in Finals THEN Cleared(p, "ground") ELSE To(p, "csi-ignore")

Body(p, c) ==
  LET whole == [kind |-> p.state, data |-> p.collected] IN
  CASE c = "bel" -> Emit([p EXCEPT !.collected = <<>>], "ground", whole)
    [] c = "esc" -> Emit([p EXCEPT !.collected = <<>>], "escape", whole)
    [] OTHER -> To([p EXCEPT !.collected = Append(@, c)], p.state)

\* slip: the first draft, where a control makes the sequence malformed.
ControlEnds(p, c) == To(p, IF p.state \in InString THEN p.state ELSE "csi-ignore")

\* A C0 control inside a sequence does not end it.
Control(p, c) ==
  [To(p, p.state) EXCEPT !.out = IF p.state \notin InString /\ c = "cr" THEN <<[kind |-> "execute"]>> ELSE <<>>]

\* slip: a cancel inside a string is dropped like any other control.
AbortsOutside(p) == p.state \notin InString

\* CAN and SUB abort any sequence, from any state.
Aborts(p) == p.state # "ground"

\* One turn of parse's loop.
Parsed(p, c) ==
  IF c = "can" /\ Aborts(p) THEN Cleared([p EXCEPT !.collected = <<>>], "ground")
  ELSE IF /\ p.state # "ground" /\ c \in Controls \cup {"bel", "can"}
          /\ ~(p.state \in InString /\ c = "bel")
  THEN Control(p, c)
  ELSE IF c = "esc" /\ p.state \notin InString \cup {"ground"} THEN Cleared(p, "escape")
  ELSE CASE p.state = "ground" -> Ground(p, c)
         [] p.state \in {"escape", "escape-intermediate"} -> Escape(p, c)
         [] p.state = "csi-ignore" -> Ignored(p, c)
         [] p.state \in InString -> Body(p, c)
         [] p.state \in {"csi-entry", "csi-param", "csi-intermediate"} -> Csi(p, c)

\* What comes of a stream that arrives in one piece, a character at a time.
ReadOn(s, c) ==
  LET step == Parsed(s.now, c) IN [now |-> step.now, out |-> JoinedAll(s.out, step.out)]
Read(chars) ==
  LET read[i \in 0..Len(chars)] ==
        IF i = 0 THEN [now |-> Fresh, out |-> <<>>] ELSE ReadOn(read[i - 1], chars[i])
  IN read[Len(chars)]
Whole(chars) == JoinedAll(Read(chars).out, Flushed(Read(chars).now).out)

-----------------------------------------------------------------------------
Init ==
  /\ given \in Openings
  /\ parser = Read(given).now /\ events = Read(given).out

Feed(c) ==
  LET step == Parsed(parser, c) IN
  /\ Len(given) < MaxGiven
  /\ parser' = step.now /\ events' = JoinedAll(events, step.out) /\ given' = Append(given, c)

\* slip: a chunk is parsed by a parser of its own.
EndsChunkFresh(p) == [Flushed(p) EXCEPT !.now = Fresh]

\* "Text goes out and sequences wait."
EndsChunk(p) == Flushed(p)

EndChunk ==
  LET end == EndsChunk(parser) IN
  parser' = end.now /\ events' = JoinedAll(events, end.out) /\ UNCHANGED given

Next == EndChunk \/ \E c \in Characters : Feed(c)
Spec == Init /\ [][Next]_streamVars

-----------------------------------------------------------------------------
(* "parse may be called with any split of the stream and produces the same
   events as one call with the whole of it." *)
SplitIsInvisible == JoinedAll(events, Flushed(parser).out) = Whole(given)

\* What is left of a sequence without the members of a set.
Unless(left, x, S) == IF x \in S THEN left ELSE Append(left, x)
Without(s, S) ==
  LET left[i \in 0..Len(s)] == IF i = 0 THEN <<>> ELSE Unless(left[i - 1], s[i], S)
  IN left[Len(s)]

(* A control inside a sequence neither ends it nor is part of it: without the
   controls, the stream gives the same texts and sequences. *)
ControlsPassThrough ==
  JoinedAll(<<>>, Without(Whole(given), {[kind |-> "execute"]})) = Whole(Without(given, Controls))

(* CAN and SUB: nothing before one changes what comes of what is after it, so a
   truncated sequence does not "poison every byte after it". *)
CancelStartsAfresh ==
  \A i \in 1..Len(given) :
    given[i] = "can" =>
      Whole(given) = JoinedAll(Whole(SubSeq(given, 1, i - 1)), Whole(SubSeq(given, i + 1, Len(given))))

StreamSound == SplitIsInvisible /\ ControlsPassThrough /\ CancelStartsAfresh
=============================================================================
