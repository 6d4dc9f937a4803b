--------------------------- MODULE ObjectCommands ----------------------------
(***************************************************************************)
(* Where-Object, Sort-Object, Group-Object and Measure-Object: what they   *)
(* hold of a stream, and the comparisons of pipeline/psobject.ts they rest *)
(* on.  Where-Object passes on what it keeps at once; the others answer    *)
(* when the input has ended.  The reader may leave and Ctrl+C may come at  *)
(* every await.                                                            *)
(*                                                                         *)
(* A value is [kind, spells, n, text, has, elements]: spells says whether  *)
(* it holds or spells a number n, the NaN, or none; text is what it is     *)
(* written as, has its properties, elements those of a list.  How texts    *)
(* are collated and how long they are and what a pattern matches is given. *)
(* Averages, words, lines and -InputObject are left out.                   *)
(***************************************************************************)
EXTENDS Integers, Sequences, SequencesExt, FiniteSetsExt, Functions

CONSTANTS
  Asks,        \* the calls: [do, by, flags, op, given, value, stream]: stream is what may come
  Rank, Cased, \* the place of a text among all, without and with regard to case
  Lower,       \* a text in lower case
  Matches,     \* of the patterns that compile: the texts they match
  Size,        \* of a text: how many characters
  MaxItems

VARIABLES
  ask,
  taken,            \* what has been read of the stream
  held,             \* what the command keeps of it
  phase,            \* "ready", "read", "emit", "done", "refused", "failed" or "cancelled"
  todo, writing,    \* rows still to write; one is with the reader
  out, errors,
  open, aborted     \* the reader is there; Ctrl+C

objectVars == <<ask, taken, held, phase, todo, writing, out, errors, open, aborted>>

Outcomes == {"done", "refused", "failed", "cancelled"}

TypeOK ==
  /\ phase \in {"ready", "read", "emit"} \cup Outcomes
  /\ Len(taken) <= MaxItems /\ errors \in 0..MaxItems + 1 /\ (writing => phase \in {"read", "emit"})

Init ==
  /\ ask \in Asks /\ taken = <<>> /\ held = <<>> /\ phase = "ready" /\ todo = <<>> /\ writing = FALSE
  /\ out = <<>> /\ errors = 0 /\ open = TRUE /\ aborted = FALSE

Flag(f) == f \in ask.flags

-----------------------------------------------------------------------------
(* Comparing. *)
Null == [kind |-> "null", spells |-> "none", n |-> 0, text |-> "", has |-> [p \in {} |-> "none"], elements |-> <<>>]
IsNaN(v) == v.spells = "nan"

RECURSIVE IsTruthy(_)
IsTruthy(v) ==
  CASE v.kind = "null" -> FALSE
    [] v.kind \in {"bool", "number"} -> v.n # 0 \/ IsNaN(v)
    [] v.kind = "list" /\ Len(v.elements) <= 1 -> \E i \in DOMAIN v.elements : IsTruthy(v.elements[i])
    [] v.kind = "text" -> v.text # ""
    [] OTHER -> TRUE

Sign(x, y) == IF x < y THEN -1 ELSE IF x > y THEN 1 ELSE 0
Collate(a, b, cs) == IF cs THEN Sign(Cased[a.text], Cased[b.text]) ELSE Sign(Rank[a.text], Rank[b.text])

\* Neither below (-1), alike (0) nor above (1).
Unordered == 2
Refused == 3

Opaque(v) == v.kind = "object"

\* compareValues, with coerceToLeft: the right becomes what the left is.  Or it
\* cannot (Refused), or two numbers do not order (Unordered).
Compare(a, b, cs) ==
  IF a.kind = "null" \/ b.kind = "null"
  THEN Sign(IF a.kind = "null" THEN 0 ELSE 1, IF b.kind = "null" THEN 0 ELSE 1)
  ELSE CASE a.kind = "bool" -> Sign(a.n, IF IsTruthy(b) THEN 1 ELSE 0)
         [] a.kind = "number" ->
              (IF b.spells = "none" THEN Refused
               ELSE IF IsNaN(a) \/ IsNaN(b) THEN Unordered ELSE Sign(a.n, b.n))
         [] OTHER -> IF Opaque(a) /\ Opaque(b) THEN Refused ELSE Collate(a, b, cs)

\* slip: what does not order is compared as text.
ForSortingAsText(a, b, cs) ==
  LET c == Compare(a, b, cs) IN IF c \in {Unordered, Refused} THEN Collate(a, b, cs) ELSE c

\* compareForSorting: the cmdlets' own order, which never refuses.
ForSorting(a, b, cs) ==
  LET c == Compare(a, b, cs) IN
  IF c = Unordered THEN (IF IsNaN(a) THEN (IF IsNaN(b) THEN 0 ELSE -1) ELSE 1)
  ELSE IF c = Refused THEN Collate(a, b, cs)
  ELSE c

ValuesEqual(a, b, cs) == (a = b /\ ~IsNaN(a)) \/ Compare(a, b, cs) = 0

Has(v, p) == p \in DOMAIN v.has
Get(v, p) == IF Has(v, p) THEN v.has[p] ELSE Null

-----------------------------------------------------------------------------
(* Where-Object. *)

\* slip: what does not order is as good as equal.
OrderedLoosely(a, b, cs) ==
  IF Compare(a, b, cs) = Unordered \/ IsNaN(a) \/ IsNaN(b) THEN 0 ELSE Compare(a, b, cs)

Ordered(a, b, cs) == IF IsNaN(a) \/ IsNaN(b) THEN Unordered ELSE Compare(a, b, cs)

Several(v) == IF v.kind = "list" THEN Range(v.elements) ELSE {v}

\* applyOperator: "kept" or "dropped", "failed" for a comparison that throws,
\* "refused" for a pattern that does not compile.
Outcome(op, cs, l, r) ==
  LET truth(t) == IF t THEN "kept" ELSE "dropped"
      sign(S)  == LET c == Ordered(l, r, cs) IN
                  IF c = Refused THEN "failed" ELSE truth(c \in S)
      found    == IF op \in {"contains", "notcontains"}
                  THEN \E v \in Several(l) : ValuesEqual(v, r, cs)
                  ELSE \E v \in Several(r) : ValuesEqual(l, v, cs)
  IN CASE op = "eq" -> truth(ValuesEqual(l, r, cs)) [] op = "ne" -> truth(~ValuesEqual(l, r, cs))
       [] op = "gt" -> sign({1}) [] op = "ge" -> sign({0, 1})
       [] op = "lt" -> sign({-1}) [] op = "le" -> sign({-1, 0})
       [] op \in {"match", "notmatch"} ->
            (IF r.text \notin DOMAIN Matches THEN "refused"
             ELSE truth((l.text \in Matches[r.text]) = (op = "match")))
       [] op \in {"contains", "in"} -> truth(found)
       [] op \in {"notcontains", "notin"} -> truth(~found)
       [] op = "not" -> truth(~IsTruthy(l)) [] op = "truthy" -> truth(IsTruthy(l))

Kept(v) == Outcome(ask.op, Flag("cased"), Get(v, ask.by[1]), ask.value)

-----------------------------------------------------------------------------
(* What the others hold. *)

Keys == IF ask.by = <<>> THEN <<"itself">> ELSE ask.by
Of(v, key) == IF key = "itself" THEN v ELSE Get(v, key)
Counts(v, key) == key = "itself" \/ Has(v, key)
Written(v) == IF Flag("cased") THEN v.text ELSE Lower[v.text]

\* groupObject: the first of a key makes the group, the others join it.
Grouped(groups, v) ==
  LET values == [i \in DOMAIN Keys |-> Of(v, Keys[i])]
      key    == [i \in DOMAIN values |-> Written(values[i])]
  IN IF \E i \in DOMAIN groups : groups[i].key = key
     THEN [i \in DOMAIN groups |->
             IF groups[i].key = key THEN [groups[i] EXCEPT !.members = Append(@, v)] ELSE groups[i]]
     ELSE Append(groups, [key |-> key, values |-> values, members |-> <<v>>])

\* toNumber
IsNumber(v) == v.kind \in {"number", "bool", "text"} /\ v.spells = "number"
Fresh(v) == [count |-> 0, numbers |-> 0, sum |-> 0, least |-> 0, most |-> 0,
             first |-> v, last |-> v, odd |-> FALSE, size |-> 0]

\* slip: a property that is null is no number, and spoils the sum.
NumberedNull(t, v) ==
  IF ~IsNumber(v) THEN [t EXCEPT !.odd = TRUE]
  ELSE [t EXCEPT !.numbers = @ + 1, !.sum = @ + v.n,
                 !.least = IF t.numbers = 0 \/ v.n < @ THEN v.n ELSE @,
                 !.most  = IF t.numbers = 0 \/ v.n > @ THEN v.n ELSE @]

Numbered(t, v) ==
  IF ~IsNumber(v) THEN [t EXCEPT !.odd = @ \/ v.kind # "null"]
  ELSE [t EXCEPT !.numbers = @ + 1, !.sum = @ + v.n,
                 !.least = IF t.numbers = 0 \/ v.n < @ THEN v.n ELSE @,
                 !.most  = IF t.numbers = 0 \/ v.n > @ THEN v.n ELSE @]

Text == Flag("character")
Forced == Flag("sum")
Tallied(t, v) ==
  LET counted == [t EXCEPT !.count = @ + 1]
      extremes == [counted EXCEPT !.first = IF ForSorting(v, @, FALSE) = -1 THEN v ELSE @,
                                  !.last  = IF ForSorting(v, @, FALSE) = 1 THEN v ELSE @]
  IN IF Text THEN [counted EXCEPT !.size = @ + Size[v.text]] ELSE Numbered(extremes, v)

Measured(tallies, v) ==
  [i \in DOMAIN Keys |->
     LET key == Keys[i]
         before == IF tallies = <<>> THEN <<>> ELSE tallies[i]
     IN IF ~Counts(v, key) THEN before
        ELSE Tallied(IF before = <<>> THEN Fresh(Of(v, key)) ELSE before, Of(v, key))]

Complaints(v) ==
  Cardinality({i \in DOMAIN Keys : /\ Counts(v, Keys[i]) /\ Of(v, Keys[i]).kind # "null"
                                   /\ ~IsNumber(Of(v, Keys[i]))})

Invoke ==
  /\ phase = "ready"
  /\ IF \/ ask.do = "measure" /\ Text /\ (Flag("sum") \/ Flag("extremes"))
        \/ ask.do = "where" /\ ask.op \notin {"truthy", "not"} /\ ~ask.given
     THEN phase' = "refused" /\ errors' = errors + 1
     ELSE phase' = "read" /\ UNCHANGED errors
  /\ UNCHANGED <<ask, taken, held, todo, writing, out, open, aborted>>

\* What a command does with the next object; null is not for all but Where-Object.
Use(v) ==
  CASE ask.do = "where" ->
         LET kept == Kept(v) IN
         /\ IF kept = "failed" THEN phase' = "failed" /\ UNCHANGED errors
            ELSE IF kept = "refused" THEN phase' = "refused" /\ errors' = errors + 1
            ELSE UNCHANGED <<phase, errors>>
         /\ IF kept = "kept" THEN out' = Append(out, v) /\ writing' = TRUE ELSE UNCHANGED <<out, writing>>
         /\ UNCHANGED held
    [] ask.do # "where" /\ v.kind = "null" -> UNCHANGED <<held, phase, writing, out, errors>>
    [] ask.do = "sort" /\ v.kind # "null" ->
         held' = Append(held, v) /\ UNCHANGED <<phase, writing, out, errors>>
    [] ask.do = "group" /\ v.kind # "null" ->
         held' = Grouped(held, v) /\ UNCHANGED <<phase, writing, out, errors>>
    [] ask.do = "measure" /\ v.kind # "null" ->
         /\ held' = Measured(held, v)
         /\ errors' = IF Forced THEN errors + Complaints(v) ELSE errors
         /\ UNCHANGED <<phase, writing, out>>

Take ==
  /\ phase = "read" /\ ~writing /\ Len(taken) < MaxItems
  /\ \E v \in ask.stream :
       /\ taken' = Append(taken, v)
       /\ IF aborted THEN phase' = "cancelled" /\ UNCHANGED <<held, writing, out, errors>> ELSE Use(v)
  /\ UNCHANGED <<ask, todo, open, aborted>>

-----------------------------------------------------------------------------
(* The answer. *)

\* slip: -Descending turns the place of what has no such property as well.
MissingTurned(cmp, l, r, p) ==
  IF Has(l, p) = Has(r, p) THEN cmp ELSE IF Flag("descending") = Has(l, p) THEN 1 ELSE -1

Missing(cmp, l, r, p) ==
  IF Has(l, p) = Has(r, p) THEN cmp ELSE IF Has(l, p) THEN -1 ELSE 1

One(l, r) == IF Flag("descending") THEN -ForSorting(l, r, Flag("cased")) ELSE ForSorting(l, r, Flag("cased"))

\* makeComparer, without its tie-breaker.
Comparer(l, r) ==
  IF ask.by = <<>> THEN One(l, r)
  ELSE LET at(i) == Missing(IF Has(l, ask.by[i]) /\ Has(r, ask.by[i]) THEN One(Get(l, ask.by[i]), Get(r, ask.by[i])) ELSE 0,
                            l, r, ask.by[i])
           told == {i \in DOMAIN ask.by : at(i) # 0}
       IN IF told = {} THEN 0 ELSE at(Min(told))

ByKey(g, h) ==
  LET at(i) == ForSorting(g.values[i], h.values[i], FALSE)
      told == {i \in DOMAIN g.values : at(i) # 0}
  IN IF told = {} THEN 0 ELSE at(Min(told))

\* Which of two places in what is held comes first, by a comparison of the two;
\* the one that came first if they compare the same.
Places == (DOMAIN held) \X (DOMAIN held)
First(c, p) == c = -1 \/ (c = 0 /\ p[1] < p[2])
SortOrder  == {p \in Places : First(Comparer(held[p[1]], held[p[2]]), p)}
GroupOrder == {p \in Places : First(ByKey(held[p[1]], held[p[2]]), p)}

\* Array.prototype.sort: the order, when there is one; anything, when not.
Sorted(s, before) ==
  LET D == DOMAIN s
      after == [i \in D |-> {j \in D : <<i, j>> \in before}]
      ordered == /\ \A i, j \in D : i # j => (j \in after[i]) # (i \in after[j])
                 /\ \A i, j \in D : j \in after[i] => after[j] \subseteq after[i]
      turns == IF ordered
               THEN {[k \in D |-> CHOOSE i \in D : Cardinality(after[i]) = Cardinality(D) - k]}
               ELSE {p \in [D -> D] : IsInjective(p)}
  IN {[k \in D |-> s[p[k]]] : p \in turns}

\* slip: only a neighbour that is the very same value is dropped.
UniqueByValue(s) ==
  FoldLeft(LAMBDA kept, v : IF kept # <<>> /\ Last(kept) = v THEN kept ELSE Append(kept, v), <<>>, s)

Unique(s) ==
  FoldLeft(LAMBDA kept, v : IF kept # <<>> /\ Comparer(Last(kept), v) = 0 THEN kept ELSE Append(kept, v), <<>>, s)

\* buildNumeric, buildText: what there is to tell; the switches that blank a
\* column are left out.
Report(t) ==
  IF Text THEN [count |-> t.count, size |-> t.size]
  ELSE IF ~Forced /\ t.odd THEN [count |-> t.count, first |-> t.first, last |-> t.last]
  ELSE IF t.odd \/ t.numbers = 0 THEN [count |-> t.count]
  ELSE [count |-> t.count, sum |-> t.sum, least |-> t.least, most |-> t.most]

Nothing == IF Text THEN [count |-> 0, size |-> 0] ELSE [count |-> 0]

Reports ==
  LET asked == IF held = <<>> THEN [i \in DOMAIN Keys |-> <<>>] ELSE held
      report(i) == IF asked[i] # <<>> THEN << Report(asked[i]) >>
                   ELSE IF ask.by = <<>> THEN <<Nothing>> ELSE <<>>
  IN FlattenSeq([i \in DOMAIN asked |-> report(i)])

EndOfInput ==
  /\ phase = "read" /\ ~writing
  /\ \/ ask.do = "where" /\ phase' = "done" /\ UNCHANGED todo
     \/ /\ ask.do = "sort" /\ phase' = "emit"
        /\ todo' \in {IF Flag("unique") THEN Unique(s) ELSE s : s \in Sorted(held, SortOrder)}
     \/ ask.do = "group" /\ phase' = "emit" /\ todo' \in Sorted(held, GroupOrder)
     \/ ask.do = "measure" /\ phase' = "emit" /\ todo' = Reports
  /\ UNCHANGED <<ask, taken, held, writing, out, errors, open, aborted>>

\* emitAll; Measure-Object writes without asking who reads.
Emit ==
  /\ phase = "emit" /\ ~writing
  /\ IF todo = <<>> \/ (ask.do # "measure" /\ (~open \/ aborted))
     THEN phase' = "done" /\ UNCHANGED <<todo, writing, out>>
     ELSE out' = Append(out, todo[1]) /\ todo' = Tail(todo) /\ writing' = TRUE /\ UNCHANGED phase
  /\ UNCHANGED <<ask, taken, held, errors, open, aborted>>

Emitted ==
  /\ writing /\ writing' = FALSE
  /\ phase' = IF phase = "read" /\ ~open THEN "done" ELSE phase
  /\ UNCHANGED <<ask, taken, held, todo, out, errors, open, aborted>>

ReaderLeaves == open /\ open' = FALSE /\ UNCHANGED aborted
Abort        == ~aborted /\ aborted' = TRUE /\ UNCHANGED open

Next ==
  \/ Invoke \/ Take \/ EndOfInput \/ Emit \/ Emitted
  \/ /\ phase \notin Outcomes /\ (ReaderLeaves \/ Abort)
     /\ UNCHANGED <<ask, taken, held, phase, todo, writing, out, errors>>

Spec == Init /\ [][Next]_objectVars

-----------------------------------------------------------------------------
(* What has been promised. *)

\* Where a value belongs, told without comparing two of them.
Place(v, cs) ==
  CASE v.kind = "null" -> <<0, 0>> [] IsNaN(v) -> <<1, 0>> [] v.kind = "number" -> <<2, v.n>>
    [] OTHER -> <<3, IF cs THEN Cased[v.text] ELSE Rank[v.text]>>
Kindred(S) == {v.kind : v \in S} \subseteq {"null", "number"} \/ {v.kind : v \in S} \subseteq {"null", "text"}
Before(p, q) == p[1] < q[1] \/ (p[1] = q[1] /\ p[2] < q[2])

Whole(s) == SelectSeq(s, LAMBDA v : v.kind # "null")
Answered == phase = "done" /\ open /\ ~aborted
Values(i) == {Of(v, Keys[i]) : v \in {w \in Range(Whole(taken)) : Counts(w, Keys[i])}}
AllKindred == \A i \in DOMAIN Keys : Kindred(Values(i))

\* Whether u must come before w: by the first key that tells, what lacks the
\* property last in either direction.
MustPrecede(u, w) ==
  LET place(v, i) == Place(Of(v, Keys[i]), Flag("cased"))
      lacks(v, i) == ~Counts(v, Keys[i])
      precedes(i, a, b) ==
        \/ ~lacks(a, i) /\ lacks(b, i)
        \/ /\ ~lacks(a, i) /\ ~lacks(b, i)
           /\ IF Flag("descending") THEN Before(place(b, i), place(a, i)) ELSE Before(place(a, i), place(b, i))
  IN \E i \in DOMAIN Keys : /\ precedes(i, u, w)
                            /\ \A k \in 1..i - 1 : ~precedes(k, u, w) /\ ~precedes(k, w, u)
Alike(u, w) == ~MustPrecede(u, w) /\ ~MustPrecede(w, u)

\* Sort-Object gives what it was given, in order, what is alike as it came.
SortIsAnOrder ==
  LET given == Whole(taken) IN
  Answered /\ ask.do = "sort" =>
    /\ Range(out) \subseteq Range(given)
    /\ ~Flag("unique") => \A v \in Range(given) :
          Len(SelectSeq(out, LAMBDA w : w = v)) = Len(SelectSeq(given, LAMBDA w : w = v))
    /\ AllKindred =>
         /\ \A i, j \in DOMAIN out : i < j => ~MustPrecede(out[j], out[i])
         /\ \A v \in Range(given) :
              LET among(s) == SelectSeq(s, LAMBDA w : Alike(v, w)) IN
              among(out) = IF Flag("unique") THEN <<among(given)[1]>> ELSE among(given)

\* Group-Object parts what it was given: a group holds all that is written
\* alike, as it came, and the groups are in order of their keys.
GroupsAreAPartition ==
  LET given == Whole(taken)
      key(v) == [i \in DOMAIN Keys |-> Written(Of(v, Keys[i]))]
      place(g, i) == Place(g.values[i], FALSE)
  IN Answered /\ ask.do = "group" =>
       /\ {key(v) : v \in Range(given)} = {g.key : g \in Range(out)} /\ IsInjective([i \in DOMAIN out |-> out[i].key])
       /\ \A g \in Range(out) : g.members = SelectSeq(given, LAMBDA v : key(v) = g.key)
       /\ AllKindred /\ Len(Keys) = 1 =>
            \A i, j \in DOMAIN out : i < j => ~Before(place(out[j], 1), place(out[i], 1))

\* Measure-Object tells the truth of all that has the property, in whatever
\* order it came.
MeasureIsOfAll ==
  \A i \in DOMAIN Keys :
    LET all   == SelectSeq(Whole(taken), LAMBDA v : Counts(v, Keys[i]))
        of    == [k \in DOMAIN all |-> Of(all[k], Keys[i])]
        some  == SelectSeq(of, IsNumber)
        sound == \A v \in Range(of) : IsNumber(v) \/ v.kind = "null"
        total == FoldLeft(LAMBDA sum, v : sum + v.n, 0, some)
    IN Answered /\ ask.do = "measure" /\ Len(Keys) = 1 =>
         IF all = <<>> THEN out = IF ask.by = <<>> THEN <<Nothing>> ELSE <<>>
         ELSE /\ Len(out) = 1 /\ out[1].count = Len(all)
              /\ "sum" \in DOMAIN out[1] <=> ~Text /\ sound /\ some # <<>>
              /\ "sum" \in DOMAIN out[1] =>
                   /\ out[1].sum = total
                   /\ \A v \in Range(some) : out[1].least <= v.n /\ v.n <= out[1].most
                   /\ {out[1].least, out[1].most} \subseteq {v.n : v \in Range(some)}
              /\ "first" \in DOMAIN out[1] /\ Kindred(Range(of)) =>
                   \A v \in Range(of) : /\ ~Before(Place(v, FALSE), Place(out[1].first, FALSE))
                                        /\ ~Before(Place(out[1].last, FALSE), Place(v, FALSE))

\* Where-Object passes on what its test keeps and nothing else, null included,
\* and the six comparisons of one pair never contradict each other: what does
\* not order is kept by -NE alone.
WhereKeepsWhatItsTestKeeps ==
  /\ ask.do = "where" /\ phase # "ready" =>
       \E n \in {Len(taken), Len(taken) - 1} :
         out = SelectSeq(SubSeq(taken, 1, n), LAMBDA v : Kept(v) = "kept")
  /\ ask.do = "where" /\ ask.given => \A v \in Range(taken) :
       LET l == Get(v, ask.by[1])
          test(op) == Outcome(op, Flag("cased"), l, ask.value) = "kept"
          one(S) == Cardinality({op \in S : test(op)}) = 1
       IN /\ test("eq") = ~test("ne")
          /\ IF IsNaN(l) \/ IsNaN(ask.value) THEN \A op \in {"lt", "le", "gt", "ge"} : ~test(op)
             ELSE IF Outcome("lt", Flag("cased"), l, ask.value) = "failed" THEN ~test("eq")
             ELSE /\ one({"lt", "eq", "gt"})
                  /\ test("le") = (test("lt") \/ test("eq")) /\ test("ge") = (test("gt") \/ test("eq"))

\* The four commands of this module do what is written above.
ObjectsSound == SortIsAnOrder /\ GroupsAreAPartition /\ MeasureIsOfAll /\ WhereKeepsWhatItsTestKeeps

=============================================================================
