-------------------------- MODULE ParameterBinding --------------------------
(***************************************************************************)
(* binding/binder.ts and parameters.ts: from the arguments as the lexer    *)
(* classified them to the parameters of a command.  Named parameters first *)
(* and wherever they stand, then the sets they leave, then the values that *)
(* are left, by position.                                                  *)
(*                                                                         *)
(* A name is a sequence of letters, so that a part of it can be written.   *)
(* Coercion and validation are one question, does the parameter take this  *)
(* text; a bound value is the tokens it came from.                         *)
(***************************************************************************)
EXTENDS Naturals, Sequences, SequencesExt, FiniteSetsExt, Functions, TLC

CONSTANTS
  Manifests,  \* the commands: their parameters, sets, default set and tokens
  MaxArgs     \* arguments of a command

VARIABLES
  manifest,   \* the command
  args        \* what has been written after it

bindingVars == <<manifest, args>>

None == "none"
All  == "__AllParameterSets"
NowhereInIt == 99   \* no position

TypeOK ==
  /\ \A p \in Range(manifest.parameters) : DOMAIN p.sets # {}
  /\ \A a \in Range(args) : a.kind \in {"value", "parameter"}

-----------------------------------------------------------------------------
(* parameters.ts                                                           *)

\* slip: a whole name is one of the names it begins.
ResolveByPrefix(m, written) ==
  {k \in DOMAIN m.parameters :
     written # <<>> /\ \E n \in {m.parameters[k].name} \cup m.parameters[k].aliases : IsPrefix(written, n)}

\* resolveParameterName: none, the one, or those it may be.
Resolve(m, written) ==
  LET P == m.parameters
      named  == {k \in DOMAIN P : P[k].name = written}
      called == {k \in DOMAIN P : written \in P[k].aliases}
      begun  == {k \in DOMAIN P : \E n \in {P[k].name} \cup P[k].aliases : IsPrefix(written, n)}
  IN CASE written = <<>>                               -> {}
       [] written # <<>> /\ named # {}                 -> {Min(named)}
       [] written # <<>> /\ named = {} /\ called # {}  -> {Min(called)}
       [] OTHER                                        -> begun

InSet(p, set)        == {All, set} \cap DOMAIN p.sets # {}
BindingInSet(p, set) == IF set \in DOMAIN p.sets THEN p.sets[set] ELSE p.sets[All]

-----------------------------------------------------------------------------
(* bind, a phase at a time.                                                *)

\* waits: the parameter whose value is next.  loose: the values no name has taken.
Empty == [bound |-> <<>>, falses |-> {}, waits |-> 0, loose |-> <<>>, gathers |-> 0, rest |-> <<>>,
          error |-> None]
Failed(b, kind) == [b EXCEPT !.error = kind]

Takes(p, text) == p.number => text = "5"
Record(m, b, k, tokens) ==
  IF \A t \in Range(tokens) : Takes(m.parameters[k], t.text)
  THEN [b EXCEPT !.bound = (k :> tokens) @@ @]
  ELSE Failed(b, "ParameterArgumentTransformationError")
Token(i, text) == [at |-> i, text |-> text]

\* narrow: the sets that hold everything that is bound.
Candidates(m, b) == SelectSeq(m.sets, LAMBDA s : \A k \in DOMAIN b.bound : InSet(m.parameters[k], s))

\* slip: a set that what is bound has ruled out still offers its positions.
OpenInAny(m, b) ==
  {<<s, k>> \in (DOMAIN m.sets) \X (DOMAIN m.parameters) :
     LET p == m.parameters[k] IN
     k \notin DOMAIN b.bound /\ InSet(p, m.sets[s]) /\ BindingInSet(p, m.sets[s]).position # NowhereInIt}

\* The parameters a value may still go to, each with a set that offers it.
Open(m, b) ==
  {<<s, k>> \in (DOMAIN m.sets) \X (DOMAIN m.parameters) :
     LET p == m.parameters[k] IN
     /\ k \notin DOMAIN b.bound /\ m.sets[s] \in Range(Candidates(m, b)) /\ InSet(p, m.sets[s])
     /\ BindingInSet(p, m.sets[s]).position # NowhereInIt}

\* nextPositional: the lowest position, of the default set where it has one.
NextPositional(m, b) ==
  LET At(o)  == BindingInSet(m.parameters[o[2]], m.sets[o[1]]).position
      open   == Open(m, b)
      lowest == {o \in open : \A q \in open : At(o) <= At(q)}
      mine   == {o \in lowest : m.sets[o[1]] = m.default}
      among  == IF mine # {} THEN mine ELSE lowest
  IN (CHOOSE o \in among : \A q \in among : o[1] < q[1] \/ (o[1] = q[1] /\ o[2] <= q[2]))[2]

\* Phase 3.  One that gathers takes this value and all that follow.
Place(m, b, t) ==
  IF b.error # None THEN b
  ELSE IF b.gathers # 0 THEN Record(m, b, b.gathers, Append(b.bound[b.gathers], t))
  ELSE IF Open(m, b) = {}
       THEN IF m.passes THEN [b EXCEPT !.rest = Append(@, t)] ELSE Failed(b, "PositionalParameterNotFound")
  ELSE LET k == NextPositional(m, b) IN
       Record(m, [b EXCEPT !.gathers = IF m.parameters[k].gathers THEN k ELSE 0], k, <<t>>)

\* slip: a value goes to the lowest position that is open where it stands.
LooseAtOnce(m, b, t) == Place(m, b, t)

\* A value waits until every name has been read.
Loose(m, b, t) == [b EXCEPT !.loose = Append(@, t)]

Switch(m, b, k, i, a) ==
  LET said == IF a.attached = None THEN "true" ELSE a.attached
      held == IF said = "false" /\ ~m.parameters[k].honours THEN "true" ELSE said
  IN IF said \notin {"true", "false"} THEN Failed(b, "ParameterArgumentTransformationError")
     ELSE [b EXCEPT !.bound = (k :> <<Token(i, held)>>) @@ @,
                    !.falses = IF said = "false" THEN @ \cup {k} ELSE @]

\* Phase 1, an argument at a time: "the next token is the value whatever it
\* looks like".
Read(m, b, i, a) ==
  LET found == IF a.kind = "parameter" THEN Resolve(m, a.name) ELSE {}
      k     == Min(found)
      p     == m.parameters[k]
  IN IF b.error # None THEN b
     ELSE IF b.waits # 0 THEN Record(m, [b EXCEPT !.waits = 0], b.waits, <<Token(i, a.text)>>)
     ELSE IF a.kind = "value" THEN Loose(m, b, Token(i, a.text))
     ELSE IF found = {} THEN Failed(b, "NamedParameterNotFound")
     ELSE IF found # {k} THEN Failed(b, "AmbiguousParameter")
     ELSE IF k \in DOMAIN b.bound THEN Failed(b, "ParameterAlreadyBound")
     ELSE IF a.attached = "" THEN Failed(b, "MissingArgument")
     ELSE IF p.switch THEN Switch(m, b, k, i, a)
     ELSE IF a.attached # None THEN Record(m, b, k, <<Token(i, a.attached)>>)
     ELSE [b EXCEPT !.waits = k]

Named(m, as) ==
  LET b == FoldLeft(LAMBDA r, i : Read(m, r, i, as[i]), Empty, [i \in DOMAIN as |-> i])
  IN IF b.error = None /\ b.waits # 0 THEN Failed(b, "MissingArgument") ELSE b

\* Phases 2 and 3.
Placed(m, b) ==
  IF b.error # None THEN b
  ELSE IF Candidates(m, b) = <<>> THEN Failed(b, "AmbiguousParameterSet")
  ELSE FoldLeft(LAMBDA r, t : Place(m, r, t), b, b.loose)

\* Phases 4 and 5.
Result(b, set) == [ok |-> b.error = None, error |-> b.error, bound |-> b.bound, rest |-> b.rest,
                   falses |-> b.falses, set |-> set]
Chosen(m, b) ==
  LET fit == Candidates(m, b)
      set == IF Len(fit) = 1 THEN fit[1] ELSE m.default
      missing == {k \in DOMAIN m.parameters \ DOMAIN b.bound :
                    InSet(m.parameters[k], set) /\ BindingInSet(m.parameters[k], set).mandatory}
  IN IF b.error # None THEN Result(b, None)
     ELSE IF set \notin Range(fit) THEN Result(Failed(b, "AmbiguousParameterSet"), None)
     ELSE IF missing # {} THEN Result(Failed(b, "MissingMandatoryParameter"), None)
     ELSE Result(b, set)

Bind(m, as) == Chosen(m, Placed(m, Named(m, as)))

-----------------------------------------------------------------------------
Init == manifest \in Manifests /\ args = <<>>

Type(token) ==
  /\ Len(args) < MaxArgs /\ args' = Append(args, token) /\ UNCHANGED manifest

Next == \E token \in manifest.tokens : Type(token)
Spec == Init /\ [][Next]_bindingVars

-----------------------------------------------------------------------------
Texts(tokens) == [i \in DOMAIN tokens |-> tokens[i].text]
Held(r) == [k \in DOMAIN r.bound |-> Texts(r.bound[k])]

(* A command that is bound has lost nothing and used nothing twice: each argument
   is a name that was bound, the value of one parameter, or left over. *)
EachTokenOnce(r) ==
  r.ok =>
    \A places \in {[k \in DOMAIN r.bound |-> {t.at : t \in Range(r.bound[k])}]} :
    \A left \in {{t.at : t \in Range(r.rest)}} : \A taken \in {left \cup UNION Range(places)} :
       /\ \A k \in DOMAIN places : places[k] \cap left = {}
       /\ \A k, l \in DOMAIN places : k # l => places[k] \cap places[l] = {}
       /\ \A i \in DOMAIN args \ taken :
            args[i].kind = "parameter" /\ args[i].attached = None /\ i + 1 \in taken
            /\ \E k \in DOMAIN places : Resolve(manifest, args[i].name) = {k} /\ places[k] = {i + 1}

(* What is bound is of one set, with all that the set makes mandatory, and no
   other set would have done but for the default. *)
FitsItsSet(r) ==
  LET P == manifest.parameters
      Fits(s) == \A k \in DOMAIN r.bound : InSet(P[k], s)
  IN r.ok => /\ r.set \in Range(manifest.sets) /\ Fits(r.set)
             /\ \A k \in DOMAIN P : InSet(P[k], r.set) /\ BindingInSet(P[k], r.set).mandatory
                                    => k \in DOMAIN r.bound
             /\ r.set # manifest.default => \A s \in Range(manifest.sets) : Fits(s) => s = r.set

(* A named parameter may stand anywhere: with all names first the outcome is the
   same, unless the last of them is still without its value. *)
NamedAnywhere(r) ==
  LET Asks[i \in 0..Len(args)] ==
        /\ i > 0 /\ ~Asks[i - 1] /\ args[i].kind = "parameter" /\ args[i].attached = None
        /\ \E k \in Resolve(manifest, args[i].name) : ~manifest.parameters[k].switch
      values == {i \in DOMAIN args : args[i].kind = "value" /\ ~Asks[i - 1]}
      Those(S) == SetToSortSeq(S, <)
      namesFirst == Those(DOMAIN args \ values) \o Those(values)
  IN ~Asks[Len(args)] =>
       \A s \in {Bind(manifest, [i \in DOMAIN order |-> args[order[i]]]) : order \in {namesFirst}} :
       /\ s.error = r.error /\ s.set = r.set /\ s.falses = r.falses
       /\ r.ok => Held(s) = Held(r) /\ Texts(s.rest) = Texts(r.rest)

(* Names that agree on a set are not contradicted by where a value is put: it goes
   where one of the sets they leave has a place for it. *)
ValuesContradictNothing ==
  \A named \in {Named(manifest, args)} :
    named.error = None /\ Candidates(manifest, named) # <<>> =>
      \A placed \in {Placed(manifest, named)} : Candidates(manifest, placed) # <<>>

(* To write more of a parameter's name makes it no other parameter, unless it is
   then the whole name of that one. *)
MoreIsTheSame ==
  LET P == manifest.parameters IN
  args = <<>> =>
    \A k \in DOMAIN P : \A n \in {P[k].name} \cup P[k].aliases : \A i \in 1..Len(n) : \A j \in i..Len(n) :
      \A short \in {Resolve(manifest, SubSeq(n, 1, i))} : \A long \in {Resolve(manifest, SubSeq(n, 1, j))} :
         /\ Resolve(manifest, n) = {k}
         /\ short = {k} => \/ long = {k}
                           \/ \E l \in long : SubSeq(n, 1, j) \in {P[l].name} \cup P[l].aliases

(* "The user's actual intent is never lost": an explicit :$false is on the
   result, whether or not this version of the command honours it. *)
IntentKept(r) ==
  r.ok => \A k \in DOMAIN r.bound : manifest.parameters[k].switch =>
            LET said == args[r.bound[k][1].at].attached IN
            /\ (said = "false") = (k \in r.falses)
            /\ r.bound[k][1].text = "false" => k \in r.falses

BindingSound ==
  /\ \A r \in {Bind(manifest, args)} : EachTokenOnce(r) /\ FitsItsSet(r) /\ NamedAnywhere(r) /\ IntentKept(r)
  /\ ValuesContradictNothing /\ MoreIsTheSame
=============================================================================
