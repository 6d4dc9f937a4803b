---------------------------- MODULE Completion ------------------------------
(***************************************************************************)
(* What the Tab key makes of a line: the tokens of the one lexer, seen as  *)
(* words, parameters, operators, separators and redirections               *)
(* (line-editor/tokenize.ts); the word at the caret and what it is to the  *)
(* command before it (line-editor/completion.ts); and how a candidate is   *)
(* quoted to be written in its place.  Which candidates match, and their   *)
(* order, is left out.                                                     *)
(***************************************************************************)
EXTENDS Lexer

CONSTANTS
  Takes,      \* the parameters that take a value, each with its command
  Candidates  \* values that may be offered

Separators == {"Pipe", "AndAnd", "OrOr", "Semi", "Ampersand", "NewLine", "LParen", "RParen", "LCurly", "RCurly",
               "DollarParen", "AtParen", "AtCurly", "LBracket", "RBracket"}
Words      == {"Generic", "Identifier", "Variable", "SplattedVariable", "Number", "StringLiteral",
               "StringExpandable", "HereStringLiteral", "HereStringExpandable"}
Trivia     == {"Comment", "LineContinuation"}

Projection(kind) ==
  IF kind \in Separators THEN "separator" ELSE IF kind \in Words THEN "word" ELSE IF kind = "Parameter" THEN "parameter"
  ELSE IF kind \in {"Redirection", "RedirectInStd"} THEN "redirection" ELSE "operator"

Seen(tokens) ==
  FoldLeft(LAMBDA seen, t : IF t.kind \in Trivia THEN seen ELSE Append(seen, [t EXCEPT !.kind = Projection(@)]),
           <<>>, tokens)
Tokenize(s) == Seen(Lex(s).tokens)

-----------------------------------------------------------------------------
\* slip: in double quotes a quote is doubled, and the rest is left alone.
QuoteIfNeededDoubled(v, preferred) ==
  LET Doubled(q) == FlattenSeq([i \in DOMAIN v |-> IF v[i] = q THEN <<q, q>> ELSE <<v[i]>>])
      q == IF preferred = "\"" THEN preferred ELSE "'"
  IN <<q>> \o Doubled(q) \o <<q>>

\* quoteIfNeeded.
Special == Space \cup Quotes \cup {"\n", Tick, "$", ";", ",", "|", "&", "(", ")", "{", "}", "<", ">"}
QuoteIfNeeded(v, preferred) ==
  LET Each(S, mark) == FlattenSeq([i \in DOMAIN v |-> IF v[i] \in S THEN <<mark, v[i]>> ELSE <<v[i]>>])
  IN IF preferred = "" /\ Range(v) \cap Special = {} /\ v # <<>> THEN v
     ELSE IF preferred = "\"" THEN <<"\"">> \o Each({"\"", Tick, "$"}, Tick) \o <<"\"">>
     ELSE <<"'">> \o Each({"'"}, "'") \o <<"'">>

\* slip: a caret behind the last character of a word is not in it.
TargetsWithin(tokens, caret) ==
  {i \in DOMAIN tokens : /\ tokens[i].kind \notin {"separator", "redirection"}
                         /\ tokens[i].start <= caret /\ caret < tokens[i].end - 1}

\* "A caret sitting at the very start of a token is starting a new word."
Targets(tokens, caret) ==
  {i \in DOMAIN tokens : /\ tokens[i].kind \notin {"separator", "redirection"}
                         /\ tokens[i].start <= caret /\ caret <= tokens[i].end - 1}

Lead(s, n) == SubSeq(s, 1, n)
Dashed(word) == word # <<>> /\ Head(word) = "-" /\
  LET name == IF At(word, 2) = "-" THEN SubSeq(word, 3, Len(word)) ELSE Tail(word)
  IN name = <<>> \/ Head(name) \in Letters

\* What stands before the caret in its stage, told from where it began.
Preceding(tokens, boundary) ==
  LET segment == Max({0} \cup {i \in 1..boundary : tokens[i].kind = "separator"})
  IN SubSeq(tokens, segment + 1, boundary)

\* The parameter that still waits for its value, and how many values had none.
Walked(command, tokens) ==
  FoldLeft(LAMBDA w, t : CASE t.kind = "parameter" ->
                                [w EXCEPT !.pending = IF <<command, Tail(t.value)>> \in Takes THEN Tail(t.value) ELSE <<>>]
                           [] t.kind \in {"operator", "redirection"}           -> [w EXCEPT !.pending = <<>>]
                           [] t.kind \in {"word", "separator"} /\ w.pending # <<>> -> [w EXCEPT !.pending = <<>>]
                           [] OTHER                                            -> [w EXCEPT !.index = @ + 1],
           [pending |-> <<>>, index |-> 0], tokens)

\* What of the word is there before the caret.
StartOf(tokens, caret) ==
  IF Targets(tokens, caret) = {} THEN caret + 1 ELSE tokens[Min(Targets(tokens, caret))].start
Partial(s, tokens, caret) == SubSeq(s, StartOf(tokens, caret), caret)

\* resolveCompletionContext, from what is before the word in its stage and from the
\* tokens of the word up to the caret; a new word has none.
Context(start, before, heads, word) ==
  LET first == Min({i \in DOMAIN before : before[i].kind = "word"} \cup {Len(before) + 1})
      command == IF first > Len(before) THEN <<>> ELSE before[first].value
      walk == Walked(command, RemoveAt(before, Min({first, Len(before)})))
  IN [start |-> start, word |-> word, command |-> command,
      quote |-> IF heads = <<>> THEN "" ELSE Head(heads).quote,
      kind |-> IF first > Len(before) THEN "command" ELSE IF Dashed(word) THEN "parameter"
               ELSE IF walk.pending # <<>> THEN "parameter-value" ELSE "argument",
      index |-> IF first > Len(before) \/ Dashed(word) THEN 0 ELSE walk.index]
Word(heads, partial) == IF heads = <<>> THEN partial ELSE Head(heads).value

Contexts(s, tokens, caret) ==
  LET Boundary == IF Targets(tokens, caret) = {} THEN Len(tokens) ELSE Min(Targets(tokens, caret)) - 1
  IN {Context(StartOf(tokens, caret), before, heads, Word(heads, Partial(s, tokens, caret))) :
        before \in {Preceding(tokens, Boundary)}, heads \in {Tokenize(p) : p \in {Partial(s, tokens, caret)}}}

\* CompletionEngine.applyTo, up to the caret.
Applied(s, context, v) == Lead(s, context.start - 1) \o QuoteIfNeeded(v, context.quote)

-----------------------------------------------------------------------------
(* A value that is written for the user is one argument with that value, also when
   what is typed of it had opened a quote; but quoteIfNeeded leaves alone what begins
   with #, @, - or ], which begin something else. *)
QuotedIsOneArgument ==
  \A preferred \in Quotes \cup {""} :
    \A L \in {Lex(<<"f", " ">> \o QuoteIfNeeded(typed, preferred))} :
      preferred # "" \/ typed = <<>> \/ Head(typed) \notin {"#", "@", "-", "]"} =>
        /\ Len(L.tokens) = 2 /\ L.tokens[2].value = typed /\ Projection(L.tokens[2].kind) = "word"
        /\ L.diagnostics = <<>>

\* The carets in or at the end of a word of its own; a sign is a word only with its digits.
Blank(i) == i = 0 \/ typed[i] \in Space \cup {"\n"}
Carets(tokens) ==
  {n \in DOMAIN typed : \E t \in Range(tokens) :
     /\ t.kind = "word" /\ t.start <= n /\ n < t.end
     /\ Blank(t.start - 1) /\ typed[t.start] \notin {"-", "+"}}

(* Completing a word of a command leaves what is before it as it was, and puts there
   one argument with the value that was picked. *)
CompletionKeepsTheRest ==
  \A tokens \in {Seen(lexed.tokens)} : \A caret \in Carets(tokens) : \A context \in Contexts(typed, tokens, caret) :
    \A v \in Candidates :
      \A before \in {Lex(p) : p \in {Lead(typed, context.start - 1)}}, after \in {Lex(p) : p \in {Applied(typed, context, v)}} :
        before.mode = "argument" =>
          /\ Front(after.tokens) = before.tokens /\ Last(after.tokens).value = v
          /\ after.diagnostics = before.diagnostics

(* In a word, what is right of the caret has no say in whose argument the word is. *)
CommandIsTheOneBefore ==
  \A tokens \in {Seen(lexed.tokens)} : \A caret \in Carets(tokens) : \A cut \in {Tokenize(p) : p \in {Lead(typed, caret)}} :
    Contexts(typed, tokens, caret) = Contexts(typed, cut, caret)

CompletionSound == QuotedIsOneArgument /\ CompletionKeepsTheRest /\ CommandIsTheOneBefore

(* completion.ts says of what it looks at: "Everything in this pipeline segment that
   precedes the caret." *)
OnlyWhatPrecedes ==
  \A tokens \in {Seen(lexed.tokens)} : \A caret \in 0..Len(typed) : \A cut \in {Tokenize(Lead(typed, caret))} :
    \A context \in Contexts(typed, tokens, caret), sofar \in Contexts(typed, cut, caret) :
      context.start = caret + 1 => context.command = sofar.command
=============================================================================
