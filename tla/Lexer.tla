------------------------------- MODULE Lexer --------------------------------
(***************************************************************************)
(* language/lexer.ts: the one lexer, run anew on every keystroke.  What a  *)
(* character means depends on the mode: at the head of a command, among    *)
(* its arguments, or in an expression.                                     *)
(*                                                                         *)
(* Of the numbers only signs, digits and the point are here; the \u{}      *)
(* escape, which only names a character, is not.                           *)
(***************************************************************************)
EXTENDS Integers, Sequences, SequencesExt, FiniteSetsExt, Folds, Functions, TLC

CONSTANTS
  Alphabets,  \* the characters of a session of typing
  Letters,    \* identifiers begin with one of these
  Digits,
  Operators,  \* what stands behind the dash of an operator, and its kind
  Escapes,    \* what a backtick makes of a character
  MaxTyped    \* characters of a line

VARIABLES
  keys,       \* the alphabet
  typed,      \* the line
  lexed       \* what the lexer makes of it

lexerVars == <<keys, typed, lexed>>

Tick     == "backtick"
Space    == {" ", "\t", "\r"}
Breaks   == {"&", "(", ")", ",", ";", "{", "|", "}"}  \* "only eight characters break a bare argument"
Quotes   == {"'", "\""}
Streams  == {"1", "2", "3", "4", "5", "6", "*"}
Parts    == Letters \cup Digits
Single   == "|" :> "Pipe" @@ ";" :> "Semi" @@ "&" :> "Ampersand" @@ "(" :> "LParen" @@ ")" :> "RParen"
              @@ "{" :> "LCurly" @@ "}" :> "RCurly"
Brackets == "[" :> "LBracket" @@ "]" :> "RBracket"
Twice    == "." :> "DotDot" @@ ":" :> "ColonColon" @@ "+" :> "PlusPlus" @@ "?" :> "QuestionQuestion"
Once     == "." :> "Dot" @@ ":" :> "Colon" @@ "=" :> "Equals" @@ "+" :> "Plus" @@ "*" :> "Multiply"
              @@ "/" :> "Divide" @@ "%" :> "Rem" @@ "!" :> "Exclaim" @@ "?" :> "QuestionMark"
Values   == {"Number", "Variable", "RParen", "RBracket", "RCurly", "Identifier", "Generic", "StringLiteral",
             "StringExpandable", "HereStringLiteral", "HereStringExpandable"}

-----------------------------------------------------------------------------
At(s, i) == IF i \in DOMAIN s THEN s[i] ELSE ""
\* The first place from i on with a character not in S, or the end.
Past(s, i, S) == Min({j \in i..Len(s) : s[j] \notin S} \cup {Max({i, Len(s) + 1})})
\* The first place from i on where P holds, or the end.
Until(s, i, P(_)) == Min({j \in i..Len(s) : P(j)} \cup {Max({i, Len(s) + 1})})
Unescaped(c) == IF c \in DOMAIN Escapes THEN Escapes[c] ELSE c
Before(s, rest) == [rest EXCEPT !.value = s \o @]
The(S) == CHOOSE x \in S : TRUE  \* the one element of S

\* slip: a doubled quote ends a string and opens the next.
ReadQuotedOnce(s, i, quote) ==
  LET Read[j \in i + 1..Len(s) + 2] ==
        CASE j > Len(s)                       -> [value |-> <<>>, end |-> Len(s) + 1, open |-> TRUE]
          [] At(s, j) = quote                 -> [value |-> <<>>, end |-> j + 1, open |-> FALSE]
          [] At(s, j) \notin {quote, ""}      -> Before(<<s[j]>>, Read[j + 1])
  IN Read[i + 1]

\* readQuoted.
ReadQuoted(s, i, quote) ==
  LET Read[j \in i + 1..Len(s) + 2] ==
        CASE j > Len(s)                                     -> [value |-> <<>>, end |-> Len(s) + 1, open |-> TRUE]
          [] At(s, j) = quote /\ At(s, j + 1) = quote       -> Before(<<quote>>, Read[j + 2])
          [] At(s, j) = quote /\ At(s, j + 1) # quote       -> [value |-> <<>>, end |-> j + 1, open |-> FALSE]
          [] At(s, j) = Tick /\ quote = "\"" /\ j < Len(s)   -> Before(<<Unescaped(s[j + 1])>>, Read[j + 2])
          [] OTHER                                          -> Before(<<s[j]>>, Read[j + 1])
  IN Read[i + 1]

\* decodeEscapes.
DecodeEscapes(s) ==
  LET Read[j \in 1..Len(s) + 1] ==
        CASE j > Len(s)                   -> <<>>
          [] At(s, j) = Tick /\ j < Len(s) -> <<Unescaped(s[j + 1])>> \o Read[j + 2]
          [] OTHER                        -> <<s[j]>> \o Read[j + 1]
  IN Read[1]

\* The loop of lexBareWord: quotes and escapes are taken up in the word.
ReadWord(s, i) ==
  LET Read[j \in i..Len(s) + 2] ==
        CASE At(s, j) \in Space \cup Breaks \cup {"\n", ""} -> [value |-> <<>>, end |-> Min({j, Len(s) + 1}), open |-> FALSE]
          [] At(s, j) = Tick /\ j < Len(s)                  -> Before(<<Unescaped(s[j + 1])>>, Read[j + 2])
          [] At(s, j) \in Quotes ->
               The({Before(quoted.value, [Read[quoted.end] EXCEPT !.open = @ \/ quoted.open])
                      : quoted \in {ReadQuoted(s, j, s[j])}})
          [] OTHER                                          -> Before(<<s[j]>>, Read[j + 1])
  IN Read[i]

Numeral(raw) ==
  LET digits == IF Head(raw) \in {"+", "-"} THEN Tail(raw) ELSE raw IN
  /\ Range(digits) \subseteq Digits \cup {"."} /\ Range(digits) \cap Digits # {}
  /\ Cardinality({i \in DOMAIN digits : digits[i] = "."}) <= 1

ClassifyWord(raw) ==
  IF Head(raw) \in Letters /\ Range(raw) \subseteq Parts THEN "Identifier"
  ELSE IF Head(raw) \notin {"+", "-"} /\ Numeral(raw) THEN "Number" ELSE "Generic"

-----------------------------------------------------------------------------
(* A lexer stands at i in text, in a mode, and has tokens and diagnostics. *)
Fresh(s) == [text |-> s, i |-> 1, mode |-> "command", tokens |-> <<>>, diagnostics |-> <<>>]

Here(L, n)   == At(L.text, L.i + n)
Raw(L, end)  == SubSeq(L.text, L.i, end - 1)
LastOf(L)    == IF L.tokens = <<>> THEN [kind |-> "none"] ELSE Last(L.tokens)

Take(L, token) == [L EXCEPT !.tokens = Append(@, token), !.i = token.end]
Token(L, kind, end, value) ==
  [kind |-> kind, value |-> value, start |-> L.i, end |-> end, quote |-> "", open |-> FALSE]
EmitAs(L, kind, end, value) == Take(L, Token(L, kind, end, value))
Emit(L, kind, end) == EmitAs(L, kind, end, Raw(L, end))
Named(L, end)      == Tail(Raw(L, end))
In(L, mode)        == [L EXCEPT !.mode = mode]
Diagnose(L, id, start, incomplete) ==
  [L EXCEPT !.diagnostics = Append(@, [id |-> id, start |-> start, end |-> L.i, incomplete |-> incomplete])]
\* "if (this.#inCommand) this.#mode = 'argument'".
Heads(L) == [L EXCEPT !.mode = IF @ = "command" THEN "argument" ELSE @]

\* slip: a comment takes the newline, too.
LineCommentWhole(L) == Emit(L, "Comment", Until(L.text, L.i, LAMBDA j : j > L.i /\ L.text[j - 1] = "\n"))

LineComment(L) == Emit(L, "Comment", Until(L.text, L.i, LAMBDA j : L.text[j] = "\n"))

BlockComment(L) ==
  LET ends == {j \in L.i + 2..Len(L.text) - 1 : L.text[j] = "#" /\ L.text[j + 1] = ">"}
      all  == Len(L.text) + 1
  IN IF ends # {} THEN Emit(L, "Comment", Min(ends) + 2)
     ELSE Diagnose(Take(L, [Token(L, "Comment", all, Raw(L, all)) EXCEPT !.open = TRUE]),
                   "MissingTerminatorMultiLineComment", L.i, TRUE)

IsSeparator(L) == Here(L, 0) \in DOMAIN Single \cup {",", "]"} \/ (Here(L, 0) = "[" /\ L.mode = "expression")
Separator(L) ==
  LET c == Here(L, 0) IN
  IF c \in {"&", "|"} /\ Here(L, 1) = c THEN In(Emit(L, IF c = "&" THEN "AndAnd" ELSE "OrOr", L.i + 2), "command")
  ELSE IF c \in DOMAIN Single
  THEN In(Emit(L, Single[c], L.i + 1), IF c \in {")", "}"} THEN "expression" ELSE "command")
  ELSE Emit(L, IF c = "," THEN "Comma" ELSE IF L.mode = "expression" THEN Brackets[c] ELSE "Generic", L.i + 1)

\* Only at the start of a word: "f a>b is one Generic word".
Stream(L) == IF Here(L, 0) \in Streams THEN 1 ELSE 0
IsRedirection(L) == Here(L, 0) = "<" \/ Here(L, Stream(L)) = ">"
Redirection(L) ==
  LET n == Stream(L) + 1
      merges == Here(L, n) = "&" /\ Here(L, n + 1) \in {"1", "2"}
      end == L.i + n + (IF Here(L, n) = ">" THEN 1 ELSE IF merges THEN 2 ELSE 0)
      one == Emit(L, "Redirection", end)
  IN IF Here(L, 0) = "<" THEN Diagnose(Emit(L, "RedirectInStd", L.i + 1), "RedirectionNotSupported", L.i, FALSE)
     ELSE IF merges /\ (Here(L, n + 1) # "1" \/ Here(L, 0) = "1")
     THEN Diagnose(one, "RedirectionNotSupported", L.i, FALSE) ELSE one

\* slip: a footer closes wherever it stands.
FootersAnywhere(s, from, quote) == {j \in from..Len(s) - 1 : s[j] = quote /\ s[j + 1] = "@"}

\* The footer must stand in the first column.
Footers(s, from, quote) ==
  {j \in from..Len(s) - 1 : s[j] = quote /\ s[j + 1] = "@" /\ (j = from \/ s[j - 1] = "\n")}

\* The newline before the footer is not part of the text.
Body(s, from, foot) ==
  LET cut == IF foot = from \/ s[foot - 1] # "\n" THEN 0 ELSE IF foot - 1 > from /\ s[foot - 2] = "\r" THEN 2 ELSE 1
  IN SubSeq(s, from, foot - 1 - cut)
Indented(s, from, quote) ==
  \E j \in from + 1..Len(s) - 1 : s[j] = quote /\ s[j + 1] = "@" /\
    \E line \in {Max({from - 1} \cup {k \in from..j - 1 : s[k] = "\n"}) + 1} :
      line < j /\ \A k \in line..j - 1 : s[k] \in Space

\* lexHereString, from the header up to one of the footers.
HereStringTo(L, quote, header, from, feet) ==
  LET s == L.text
      open == feet = {}
      foot == IF open THEN Len(s) + 1 ELSE Min(feet)
      kind == IF quote = "\"" THEN "HereStringExpandable" ELSE "HereStringLiteral"
      text == IF quote = "\"" THEN DecodeEscapes(Body(s, from, foot)) ELSE Body(s, from, foot)
      token == [Token(L, kind, IF open THEN foot ELSE foot + 2, text) EXCEPT !.quote = quote, !.open = open]
  IN IF open
     THEN Diagnose(Take(L, token), IF Indented(s, from, quote) THEN "WhitespaceBeforeHereStringFooter"
                                   ELSE "TerminatorExpectedAtEndOfString", L.i, TRUE)
     ELSE IF from = header
     THEN Take(Diagnose([L EXCEPT !.i = @ + 2], "UnexpectedCharactersAfterHereStringHeader", L.i, FALSE), token)
     ELSE Take(L, token)
HereString(L, quote) ==
  LET header == L.i + 2 + (IF Here(L, 2) = "\r" THEN 1 ELSE 0)
      from == header + (IF At(L.text, header) = "\n" THEN 1 ELSE 0)
  IN The({HereStringTo(L, quote, header, start, feet) : start \in {from}, feet \in {Footers(L.text, from, quote)}})

IsAtSign(L) == Here(L, 0) = "@" /\ Here(L, 1) \in {"(", "{", "$"} \cup Quotes \cup Letters
AtSign(L) ==
  LET next == Here(L, 1)
      end == Past(L.text, L.i + 1 + (IF next = "$" THEN 1 ELSE 0), Parts \cup {":"})
      splat == In(EmitAs(L, "SplattedVariable", end, Named(L, end)), "argument")
  IN IF next = "(" THEN In(Emit(L, "AtParen", L.i + 2), "command")
     ELSE IF next = "{" THEN In(Emit(L, "AtCurly", L.i + 2), "expression")
     ELSE IF next \in Quotes THEN HereString(L, next)
     ELSE IF L.mode = "expression" THEN Diagnose(splat, "SplattingNotPermitted", L.i, FALSE) ELSE splat

\* A word that may end in an open quote.
Ended(L, token) ==
  Heads(IF token.open THEN Diagnose(Take(L, token), "TerminatorExpectedAtEndOfString", L.i, TRUE) ELSE Take(L, token))

Quoted(L) ==
  LET quote == Here(L, 0)
      kind == IF quote = "\"" THEN "StringExpandable" ELSE "StringLiteral"
  IN The({Ended(L, [Token(L, kind, run.end, run.value) EXCEPT !.quote = quote, !.open = run.open])
            : run \in {ReadQuoted(L.text, L.i, quote)}})

\* ${weird name} runs to the brace, and its last character is cut off for the brace,
\* whether it is there or not; a trailing ? is part of a name.
Dollar(L) ==
  LET closed == Min({Until(L.text, L.i + 2, LAMBDA j : L.text[j] = "}"), Len(L.text)}) + 1
      special == L.i + 1 + (IF Here(L, 1) \in {"_", "$", "^", "?"} THEN 1 ELSE 0)
      name == Past(L.text, special, Parts \cup {":"})
      end == IF At(L.text, name) = "?" /\ L.text[name - 1] # "?" THEN name + 1 ELSE name
  IN IF Here(L, 1) = "(" THEN In(Emit(L, "DollarParen", L.i + 2), "command")
     ELSE IF Here(L, 1) = "{" THEN Heads(EmitAs(L, "Variable", closed, SubSeq(L.text, L.i + 2, closed - 2)))
     ELSE Heads(EmitAs(L, "Variable", end, Named(L, end)))

BareWord(L) ==
  The({Ended(L, [Token(L, ClassifyWord(Raw(L, word.end)), word.end, word.value) EXCEPT !.open = word.open])
         : word \in {ReadWord(L.text, L.i)}})

\* A sign belongs to the number where no value has ended; of 1..10 the first dot
\* is not the number's.
Signed(L) == Here(L, 0) \in {"+", "-"} /\ Here(L, 1) \in Digits \cup {"."} /\ LastOf(L).kind \notin Values
ExpressionAtom(L) ==
  LET c == Here(L, 0)
      number == Until(L.text, L.i + 1, LAMBDA j : \/ L.text[j] \notin Parts \cup {"."}
                                                  \/ L.text[j] = "." /\ At(L.text, j + 1) = ".")
  IN IF c \in Digits \/ Signed(L)
     THEN Emit(L, IF Numeral(Raw(L, number)) THEN "Number" ELSE "Generic", number)
     ELSE IF c \in Letters THEN Emit(L, "Identifier", Past(L.text, L.i, Parts))
     ELSE IF c \in DOMAIN Twice /\ Here(L, 1) = c THEN Emit(L, Twice[c], L.i + 2)
     ELSE IF c \in DOMAIN Once THEN Emit(L, Once[c], L.i + 1)
     ELSE BareWord(L)

\* slip: what follows --% ends at a semicolon too.
VerbatimStopsAt(L, j) == L.text[j] \in {"\n", "|", ";"} \/ (L.text[j] = "&" /\ At(L.text, j + 1) = "&")

\* "--% stops parsing at |, &&, || and newline — but not at ; or >."
VerbatimStops(L, j) == L.text[j] \in {"\n", "|"} \/ (L.text[j] = "&" /\ At(L.text, j + 1) = "&")
VerbatimRemainder(L) ==
  LET from == [L EXCEPT !.i = Past(L.text, L.i, Space)]
  IN Emit(from, "Generic", Until(L.text, from.i, LAMBDA j : VerbatimStops(L, j)))

Dash(L) ==
  LET next == Here(L, 1)
      word == Past(L.text, L.i + 1, Parts)
      name == SubSeq(L.text, L.i + 1, word - 1)
  IN IF next = "-" /\ Here(L, 2) = "%" THEN VerbatimRemainder(Emit(L, "Generic", L.i + 3))
     ELSE IF next = "-" /\ L.mode # "argument"
     THEN In(Diagnose(Emit(L, "MinusMinus", L.i + 2), "MissingExpressionAfterOperator", L.i, FALSE), "expression")
     ELSE IF next \in Letters /\ name \in DOMAIN Operators /\ L.mode = "expression"
     THEN Emit(L, Operators[name], word)
     ELSE IF next \in Letters
     THEN Heads(Emit(L, "Parameter", IF At(L.text, word) = ":" THEN word + 1 ELSE word))
     ELSE IF L.mode = "argument" THEN BareWord(L)
     ELSE IF next \in Digits \/ (next = "." /\ Here(L, 2) \in Digits) THEN ExpressionAtom(L)
     ELSE Diagnose(Emit(L, "Minus", L.i + 1), "MissingExpressionAfterOperator", L.i, FALSE)

\* maybeEnterExpression and lexMemberAccess: the mode this character is read in.
Entered(L) ==
  LET c == Here(L, 0)
      begins == L.mode = "command" /\ c \in Digits \cup Quotes \cup {"$", "["}
      member == /\ LastOf(L).kind \in {"Variable", "RParen"} /\ LastOf(L).end = L.i
                /\ (c = "." /\ Here(L, 1) \in Letters) \/ (c = ":" /\ Here(L, 1) = ":")
  IN IF begins \/ member THEN In(L, "expression") ELSE L

Continues(L) == Here(L, 0) = Tick /\ Here(L, IF Here(L, 1) = "\r" THEN 2 ELSE 1) = "\n"

Dispatch(L) ==
  LET c == Here(L, 0) IN
  IF c = "\n" THEN In(Emit(L, "NewLine", L.i + 1), "command")
  ELSE IF Continues(L) THEN EmitAs(L, "LineContinuation", L.i + (IF Here(L, 1) = "\r" THEN 3 ELSE 2), <<>>)
  ELSE IF c = "#" THEN LineComment(L)
  ELSE IF c = "<" /\ Here(L, 1) = "#" THEN BlockComment(L)
  ELSE IF IsSeparator(L) THEN Separator(L)
  ELSE IF IsRedirection(L) THEN Redirection(L)
  ELSE IF IsAtSign(L) THEN AtSign(L)
  ELSE IF c \in Quotes THEN Quoted(L)
  ELSE IF c = "$" THEN Dollar(L)
  ELSE IF c = "-" THEN Dash(L)
  ELSE IF L.mode = "expression" THEN ExpressionAtom(L)
  ELSE BareWord(L)

Step(L) ==
  IF Here(L, 0) \in Space THEN [L EXCEPT !.i = @ + 1] ELSE The({Dispatch(E) : E \in {Entered(L)}})
Run(L, n) == IF L.i > Len(L.text) THEN L ELSE Step(L)
Lex(s) == FoldLeft(Run, Fresh(s), s)

Init == keys \in Alphabets /\ typed = <<>> /\ lexed = Lex(<<>>)
Type(c) ==
  /\ Len(typed) < MaxTyped
  /\ typed' = Append(typed, c) /\ lexed' = Lex(Append(typed, c)) /\ UNCHANGED keys
Next == \E c \in keys : Type(c)
Spec == Init /\ [][Next]_lexerVars

TypeOK ==
  /\ keys \in Alphabets /\ typed \in Seq(keys)
  /\ lexed.mode \in {"command", "argument", "expression"} /\ lexed.i = Len(typed) + 1

-----------------------------------------------------------------------------
Open(L) == \E i \in DOMAIN L.diagnostics : L.diagnostics[i].incomplete
Unclosed(L) == Open(L) \/ (LastOf(L).kind = "Variable" /\ At(L.text, LastOf(L).start + 1) = "{" /\ Last(L.text) # "}")

(* "Always returns a token for every character": in order, each character but the
   spaces between in one token, and a token only once. *)
EveryCharacterOnce ==
  /\ \A i \in 1..Len(lexed.tokens) - 1 : lexed.tokens[i].end <= lexed.tokens[i + 1].start
  /\ \A k \in DOMAIN typed :
       \/ typed[k] \in Space
       \/ \E i \in DOMAIN lexed.tokens : k \in lexed.tokens[i].start..lexed.tokens[i].end - 1

(* A line means the same in a script as alone: what stands before a newline that is
   in no string, comment or name, and is not continued, is lexed as if nothing came
   after it, and what stands behind as if nothing came before. *)
LinesStandAlone ==
  \A k \in DOMAIN typed : \A a \in {Lex(SubSeq(typed, 1, k - 1))}, b \in {Lex(SubSeq(typed, k + 1, Len(typed)))} :
    LET Moved(x) == [x EXCEPT !.start = @ + k, !.end = @ + k]
        line == Token([a EXCEPT !.text = typed], "NewLine", k + 1, <<"\n">>)
    IN typed[k] = "\n" /\ ~Unclosed(a) /\ (k > 1 => typed[k - 1] # Tick) =>
         /\ lexed.tokens = Append(a.tokens, [line EXCEPT !.start = k]) \o [i \in DOMAIN b.tokens |-> Moved(b.tokens[i])]
         /\ lexed.diagnostics = a.diagnostics \o [i \in DOMAIN b.diagnostics |-> Moved(b.diagnostics[i])]

Closers == {<<"\"">>, <<"'">>, <<"\"", "\"">>, <<"#", ">">>, <<"\n", "'", "@">>, <<"\n", "\"", "@">>}

(* "Keep typing" is said only of what typing can cure, and then what was already
   lexed stays as it was. *)
IncompleteCanBeCured ==
  Open(lexed) =>
    \E closer \in Closers : \E cured \in {Lex(typed \o closer)} :
      ~Open(cured) /\ IsPrefix(Front(lexed.tokens), cured.tokens)

Halves == {<<"Redirection", "Ampersand">>, <<"Minus", "Generic">>, <<"Minus", "Dot">>}

(* A key changes only the token at the end of the line, or the halves of one that
   takes three characters, such as 2>&1 or -.5: the colours of the rest stay. *)
OnlyTheEndChanges ==
  LET last == Len(lexed.tokens)
      half == last > 1 /\ <<lexed.tokens[last - 1].kind, lexed.tokens[last].kind>> \in Halves
      kept == SubSeq(lexed.tokens, 1, last - (IF half THEN 2 ELSE 1))
  IN IsPrefix(kept, lexed'.tokens)

(* What is quoted is kept: in single quotes with its quotes doubled, in a here-string
   with no footer in it, and behind --% up to the end of its stage. *)
QuotedTextIsKept ==
  LET twice == FlattenSeq([i \in DOMAIN typed |-> IF typed[i] = "'" THEN <<"'", "'">> ELSE <<typed[i]>>])
      footer == \E i \in DOMAIN typed : typed[i] = "'" /\ At(typed, i + 1) = "@" /\ (i = 1 \/ typed[i - 1] = "\n")
      ends == Range(typed) \cap ({"\n", "|", "&"} \cup Space) # {}
      forms == {<<"'">> \o twice \o <<"'">>}
                 \cup (IF footer THEN {} ELSE {<<"@", "'", "\n">> \o typed \o <<"\n", "'", "@">>})
                 \cup (IF ends THEN {} ELSE {<<"-", "-", "%", " ">> \o typed})
  IN \A form \in forms : \A tokens \in {Lex(<<"f", " ">> \o form).tokens} :
       /\ Len(tokens) = (IF form[1] = "-" THEN 3 ELSE 2)
       /\ Last(tokens).value = typed

LexerSound == EveryCharacterOnce /\ LinesStandAlone /\ IncompleteCanBeCured /\ QuotedTextIsKept
=============================================================================
