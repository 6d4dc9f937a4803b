------------------------------- MODULE Parser -------------------------------
(***************************************************************************)
(* language/parse.ts: one tolerant parser for every key, and the gate that *)
(* a line has to pass to run; kernel.ts #exec, which takes one pipeline of *)
(* commands; binding/from-ast.ts, what each command is handed; and         *)
(* language/highlight.ts, which paints what the gate refuses.              *)
(*                                                                         *)
(* Of a refusal there is where it is and whether typing on may cure it,    *)
(* not its name.  The nodes of the tree are a set, each with its extent.   *)
(***************************************************************************)
EXTENDS Completion

CONSTANTS
  Keywords,  \* UNIMPLEMENTED_KEYWORDS
  Literals   \* the variables that are values: true, false and null

Ends        == {"Pipe", "Semi", "NewLine", "AndAnd", "OrOr", "none"}  \* no expression goes beyond
CommandHeads == {"Generic", "Identifier"}

\* The node an argument is, by the kind of its token.
Expression(kind) ==
  CASE kind \in CommandHeads \cup {"StringLiteral", "HereStringLiteral"} -> "StringConstantExpressionAst"
    [] kind \in {"StringExpandable", "HereStringExpandable"}             -> "ExpandableStringExpressionAst"
    [] kind = "Number"                                                   -> "ConstantExpressionAst"
    [] kind = "Variable"                                                 -> "VariableExpressionAst"
    [] kind = "SplattedVariable"                                         -> "SplattedVariable"
    [] OTHER                                                             -> "UnsupportedSyntaxAst"

-----------------------------------------------------------------------------
(* A parser stands at token i of tokens, which are all but the trivia. *)
Node(kind, value, start, end) == [kind |-> kind, value |-> value, start |-> start, end |-> end, inside |-> <<>>]
None == Node("none", <<>>, 0, 0)

Start(L) ==
  [tokens |-> SelectSeq(L.tokens, LAMBDA t : t.kind \notin Trivia), i |-> 1, size |-> Len(L.text) + 1,
   diagnostics |-> Range(L.diagnostics), nodes |-> {}, last |-> None,
   elements |-> <<>>, stages |-> <<>>, background |-> FALSE, statements |-> <<>>]

Peek(P)    == IF P.i \in DOMAIN P.tokens THEN P.tokens[P.i].kind ELSE "none"
This(P)    == P.tokens[P.i]
Skip(P)    == [P EXCEPT !.i = @ + 1]
SkipTo(P, S) == [P EXCEPT !.i = Min({j \in P.i..Len(P.tokens) : P.tokens[j].kind \in S} \cup {Len(P.tokens) + 1})]
EndOf(P)   == P.tokens[P.i - 1].end
Build(P, node) == [P EXCEPT !.nodes = @ \cup {node}, !.last = node]
KeepTyping(P, id, start, end) ==
  [P EXCEPT !.diagnostics = @ \cup {[id |-> id, start |-> start, end |-> end, incomplete |-> TRUE]}]

ScriptBlock(P) ==
  LET Count(kind, j) == Cardinality({k \in P.i..j : P.tokens[k].kind = kind})
      closes == {j \in P.i..Len(P.tokens) : Count("LCurly", j) = Count("RCurly", j)}
      close == Min(closes)
      open == This(P).start
      Block(end) == Node("ScriptBlockExpressionAst", <<>>, open, end)
  IN IF closes = {}
     THEN KeepTyping(Build(SkipTo(P, {}), Block(P.size)), "MissingEndCurlyBrace", open, P.size)
     ELSE Build([P EXCEPT !.i = close + 1], Block(P.tokens[close].end))

Argument(P) ==
  IF Peek(P) = "none" THEN [P EXCEPT !.last = None]
  ELSE IF Peek(P) = "LCurly" THEN ScriptBlock(P)
  ELSE Build(Skip(P), Node(Expression(Peek(P)), This(P).value, This(P).start, This(P).end))

\* "-Name:value" is one element, "-Name value" is two.
Parameter(P) ==
  LET t == This(P)
      colon == Last(t.value) = ":"
      attached == colon /\ Peek(Skip(P)) # "none" /\ This(Skip(P)).start = t.end
      alone == Node("CommandParameterAst", IF colon THEN Front(Tail(t.value)) ELSE Tail(t.value), t.start, t.end)
  IN IF attached
     THEN The({Build(Q, [alone EXCEPT !.end = Q.last.end, !.inside = <<Q.last>>]) : Q \in {Argument(Skip(P))}})
     ELSE IF colon THEN KeepTyping(Build(Skip(P), alone), "MissingArgument", t.start, t.end)
     ELSE Build(Skip(P), alone)

Redirect(P) ==
  LET t == This(P)
      File(end) == Node("FileRedirectionAst", <<>>, t.start, end)
  IN IF t.kind = "RedirectInStd" THEN Build(Skip(P), File(t.end))
     ELSE IF "&" \in Range(t.value) THEN Build(Skip(P), Node("MergingRedirectionAst", <<>>, t.start, t.end))
     ELSE The({IF Q.last = None THEN KeepTyping(Build(Q, File(t.end)), "MissingFileSpecification", t.start, t.end)
               ELSE Build(Q, File(Q.last.end)) : Q \in {Argument(Skip(P))}})

\* slip: a command does not end with its line.
CommandEndsAtSigns == {"Pipe", "Semi", "AndAnd", "OrOr", "none", "Ampersand"}

CommandEnds == Ends \cup {"Ampersand"}

RECURSIVE Elements(_)
Elements(P) ==
  IF Peek(P) \in CommandEnds THEN P
  ELSE IF Peek(P) \in {"Redirection", "RedirectInStd"} THEN Elements(Redirect(P))
  ELSE The({Elements([Q EXCEPT !.elements = Append(@, Q.last)])
              : Q \in {IF Peek(P) = "Parameter" THEN Parameter(P) ELSE Argument(P)}})

Staged(P, kind) == [P EXCEPT !.stages = Append(@, [kind |-> kind, elements |-> P.elements])]
Command(P) == The({Staged(Elements([Q EXCEPT !.elements = <<Q.last>>]), "CommandAst") : Q \in {Argument(P)}})

\* Whatever follows an expression makes it a bigger one, and none is implemented.
ExpressionStatement(P) ==
  LET start == This(P).start
      Bigger(Q) == IF Peek(Q) \in Ends THEN Q
                   ELSE The({Build(R, Node("UnsupportedSyntaxAst", <<>>, start, EndOf(R))) : R \in {SkipTo(P, Ends)}})
  IN The({Staged(Build([Q EXCEPT !.elements = <<>>], Node("CommandExpressionAst", <<>>, start, Q.last.end)),
                 "CommandExpressionAst") : Q \in {Bigger(Argument(P))}})

RECURSIVE Pipeline(_)
Pipeline(P) ==
  IF Peek(P) \in Ends THEN KeepTyping(P, "EmptyPipeElement", P.tokens[P.i - 1].start, EndOf(P))
  ELSE The({CASE Peek(Q) = "Pipe"      -> Pipeline(Skip(Q))
              [] Peek(Q) = "Ampersand" -> [Skip(Q) EXCEPT !.background = TRUE]
              [] OTHER                 -> Q
              : Q \in {IF Peek(P) \in CommandHeads THEN Command(P) ELSE ExpressionStatement(P)}})

RECURSIVE Chain(_, _)
Chain(P, start) ==
  IF Peek(P) \notin {"AndAnd", "OrOr"} THEN P
  ELSE IF Peek(Skip(P)) \in Ends THEN KeepTyping(Skip(P), "EmptyPipeElement", This(P).start, This(P).end)
  ELSE The({Chain(Build(Q, Node("PipelineChainAst", <<>>, start, Q.last.end)), start) : Q \in {Pipeline(Skip(P))}})

Stated(P, kind) ==
  [P EXCEPT !.statements = Append(@, [kind |-> kind, stages |-> P.stages, background |-> P.background])]

\* A keyword takes all up to the next semicolon.
Statement(P) ==
  LET fresh == [P EXCEPT !.stages = <<>>, !.background = FALSE]
  IN IF Peek(P) \in CommandHeads /\ This(P).value \in Keywords
     THEN The({Stated(Build(Q, Node("UnsupportedSyntaxAst", <<>>, This(P).start, EndOf(Q))), "UnsupportedSyntaxAst")
                 : Q \in {SkipTo(fresh, {"Semi"})}})
     ELSE IF Peek(P) \in Ends THEN P
     ELSE The({Stated(Q, IF Q.last.kind = "PipelineChainAst" THEN "PipelineChainAst" ELSE "PipelineAst")
                 : Q \in {Chain(Pipeline(fresh), This(P).start)}})

\* slip: what no statement begins with is passed over in silence.
StatedInSilence(P, Q) == IF Q.i = P.i THEN Skip(P) ELSE Q

\* "A statement that consumed NOTHING would spin here forever."
Progressed(P, Q) == IF Q.i = P.i THEN KeepTyping(Skip(P), "UnexpectedToken", This(P).start, This(P).end) ELSE Q

\* The loop of parse.  Each turn takes a token.
Turn(P, t) ==
  IF Peek(P) = "none" THEN P
  ELSE IF Peek(P) \in {"Semi", "NewLine"} THEN Skip(P)
  ELSE The({Progressed(P, Q) : Q \in {Statement(P)}})
Parse(s) == The({FoldLeft(Turn, P, P.tokens) : P \in {Start(L) : L \in {Lex(s)}}})

-----------------------------------------------------------------------------
\* The nodes that are built and not run, and the variables that are no literals.
Refused(node) ==
  \/ node.kind \in {"UnsupportedSyntaxAst", "ScriptBlockExpressionAst", "FileRedirectionAst", "MergingRedirectionAst",
                    "CommandExpressionAst", "PipelineChainAst", "SplattedVariable"}
  \/ node.kind = "VariableExpressionAst" /\ node.value \notin Literals

Within(r, other) == other.start <= r.start /\ r.end <= other.end

\* parseForExecution.  An expression in the place of a command says nothing when
\* something in it has spoken.
Refusals(P) ==
  LET Refusal(x, incomplete, wraps) == [start |-> x.start, end |-> x.end, incomplete |-> incomplete, wraps |-> wraps]
      all == {Refusal(d, d.incomplete, FALSE) : d \in P.diagnostics}
               \cup {Refusal(n, FALSE, n.kind = "CommandExpressionAst") : n \in {x \in P.nodes : Refused(x)}}
      Informs(r) == r.wraps => \A other \in all \ {r} : ~Within(other, r)
  IN IF \E r \in all : Informs(r) THEN {r \in all : Informs(r)} ELSE all

\* bindCommandArguments: a parameter with what is attached to it, or a value.
TextOf(node) == IF node.kind = "VariableExpressionAst" THEN <<"$">> \o node.value ELSE node.value

\* slip: what begins with a dash is a parameter, quoted or not.
ArgumentOfText(node) ==
  IF node.kind = "CommandParameterAst" THEN [name |-> node.value, texts |-> [i \in DOMAIN node.inside |-> TextOf(node.inside[i])]]
  ELSE IF Dashed(TextOf(node)) THEN [name |-> Tail(TextOf(node)), texts |-> <<>>]
  ELSE [name |-> <<>>, texts |-> <<TextOf(node)>>]

ArgumentOf(node) ==
  IF node.kind = "CommandParameterAst"
  THEN [name |-> node.value, texts |-> [i \in DOMAIN node.inside |-> TextOf(node.inside[i])]]
  ELSE [name |-> <<>>, texts |-> <<TextOf(node)>>]
Bound(stage) ==
  [name |-> Head(stage.elements).value, arguments |-> [i \in 1..Len(stage.elements) - 1 |-> ArgumentOf(stage.elements[i + 1])]]

Clean(P) == Refusals(P) = {}
Commands(statement) == [i \in DOMAIN statement.stages |-> Bound(statement.stages[i])]
Script(P) == [i \in DOMAIN P.statements |-> Commands(P.statements[i])]

\* Kernel.#exec: one pipeline, not in the background.
Executable(P) == Clean(P) /\ Len(P.statements) = 1 /\ ~Head(P.statements).background

-----------------------------------------------------------------------------
(* highlight: what is painted as refused, and what as the name of a command. *)
Covers(r, t) == Within(t, r) \/ (t.start <= r.start /\ r.start < t.end)
Painted(P) == {r \in Refusals(P) : ~r.incomplete}

\* slip: only the first word of the line is a command.
ResetsOfLine == {}

Resets   == {"Pipe", "AndAnd", "OrOr", "Semi", "NewLine", "LCurly", "LParen", "DollarParen"}
Nameable == {"Generic", "Identifier", "StringLiteral", "StringExpandable"}
CommandNames(tokens) == {i \in DOMAIN tokens : tokens[i].kind \in Nameable /\ (i = 1 \/ tokens[i - 1].kind \in Resets)}

-----------------------------------------------------------------------------
(* Typed by itself, and behind the name of a command. *)
Lines == {typed, <<"f", " ">> \o typed}

Empty(x) == x.start = x.end  \* as behind --% with nothing there

(* The parser comes to the end of every line, and of a line that may run it leaves
   no word out and takes none twice. *)
NothingUnread(P) ==
  LET elements == FlattenSeq([i \in DOMAIN P.statements |->
                    FlattenSeq([j \in DOMAIN P.statements[i].stages |-> P.statements[i].stages[j].elements])])
  IN /\ P.i = Len(P.tokens) + 1
     /\ Clean(P) => \A t \in Range(P.tokens) :
          Cardinality({k \in DOMAIN elements : Within(t, elements[k]) /\ (Empty(t) <=> Empty(elements[k]))})
            = (IF t.kind \in {"Semi", "NewLine", "Pipe", "Ampersand"} THEN 0 ELSE 1)

(* A script may run when each of its lines may, and does what they do one by one. *)
LinesRunAlone(s, P) ==
  \A t \in {x \in Range(P.tokens) : x.kind \in {"Semi", "NewLine"}} :
    \A a \in {Parse(SubSeq(s, 1, t.start - 1))}, b \in {Parse(SubSeq(s, t.end, Len(s)))} :
      /\ Clean(P) <=> Clean(a) /\ Clean(b)
      /\ Clean(P) => Script(P) = Script(a) \o Script(b)

(* "It cannot colour syntax the engine rejects": each refusal that no typing cures
   paints something, and of a line that runs what is painted as the name of a command
   is what is run. *)
ColoursTellTheTruth(P) ==
  /\ \A r \in Painted(P) : \E t \in Range(P.tokens) : Covers(r, t)
  /\ Executable(P) =>
       {P.tokens[i].start : i \in CommandNames(P.tokens)}
         = {Head(stage.elements).start : stage \in Range(Head(P.statements).stages)}

Join(words, between) ==
  FoldLeft(LAMBDA all, word : IF all = <<>> THEN word ELSE all \o between \o word, <<>>, words)
Said(argument) ==
  LET InQuotes(text) == QuoteIfNeeded(text, "'") IN
  IF argument.name = <<>> THEN InQuotes(Head(argument.texts))
  ELSE IF argument.texts = <<>> THEN <<"-">> \o argument.name
  ELSE <<"-">> \o argument.name \o <<":">> \o InQuotes(Head(argument.texts))
SaidBy(command) ==
  Join(<<command.name>> \o [i \in DOMAIN command.arguments |-> Said(command.arguments[i])], <<" ">>)

(* What stands in quotes is one value, whatever it is: no parameter, no separator. *)
QuotedIsAValue ==
  \A quote \in Quotes : \A P \in {Parse(<<"f", " ">> \o QuoteIfNeeded(typed, quote))} :
    Executable(P) /\ Head(Script(P)) = <<[name |-> <<"f">>, arguments |-> <<[name |-> <<>>, texts |-> <<typed>>]>>]>>

(* What a line hands its commands can be said with every value in quotes, and is the
   same again: no value was taken for a parameter, and none was put together from two. *)
SaidAgain(P) ==
  Executable(P) /\ (\A stage \in Range(Head(Script(P))) : Range(stage.name) \subseteq Letters) =>
    \A again \in {Parse(Join([i \in DOMAIN Head(Script(P)) |-> SaidBy(Head(Script(P))[i])], <<"|">>))} :
      Executable(again) /\ Script(again) = Script(P)

ParserSound ==
  /\ QuotedIsAValue
  /\ \A s \in Lines : \A P \in {Parse(s)} :
       NothingUnread(P) /\ LinesRunAlone(s, P) /\ ColoursTellTheTruth(P) /\ SaidAgain(P)
=============================================================================
