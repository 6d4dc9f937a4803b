---------------------------- MODULE SelectObject ----------------------------
(***************************************************************************)
(* commands/powershell/select-object.ts: windows on a stream.  -First and  *)
(* -Skip answer as the objects come and the first of them stops what is    *)
(* upstream; -Last and -SkipLast must hold objects back.  The reader of    *)
(* the output may leave at any time, and Ctrl+C may come.                  *)
(*                                                                         *)
(* An object is what it becomes on the way out: itself, the object that    *)
(* -Property builds, or whatever is in the property that -ExpandProperty   *)
(* names.                                                                  *)
(***************************************************************************)
EXTENDS Naturals, Sequences, SequencesExt, FiniteSetsExt, Functions

CONSTANTS
  Asks,       \* the parameters given, each as a function from names to values
  Items,      \* the objects: [name, inside], and those without a name are null
  Plain,      \* the values whose text tells them apart
  MaxItems    \* objects upstream has

VARIABLES
  ask,        \* the parameters of this call
  given,      \* what has been read
  seen, taken, tail, delay, stopped, seenKeys,   \* as in the code
  writing,    \* what is left to write of the object in hand
  out,        \* what has been written and taken
  refused,    \* errors written
  phase,      \* "ready", "waiting" for an object, "writing", "draining", "done", "cancelled", "invalid"
  open,       \* the reader of the output is there
  aborted

selectVars == <<ask, given, seen, taken, tail, delay, stopped, seenKeys, writing, out, refused, phase, open,
                aborted>>
held  == <<tail, delay>>
ends  == <<open, aborted>>

Has(p) == p \in DOMAIN ask
Skip   == IF Has("skip") THEN ask["skip"] ELSE 0

TypeOK ==
  /\ phase \in {"ready", "waiting", "writing", "draining", "done", "cancelled", "invalid"}
  /\ Len(given) <= MaxItems /\ taken <= seen /\ seen <= Len(given) /\ stopped \in BOOLEAN

Init ==
  /\ ask \in Asks
  /\ given = <<>> /\ seen = 0 /\ taken = 0 /\ tail = <<>> /\ delay = <<>> /\ stopped = FALSE /\ seenKeys = {}
  /\ writing = <<>> /\ out = <<>> /\ refused = 0 /\ phase = "ready" /\ open = TRUE /\ aborted = FALSE

-----------------------------------------------------------------------------
IsNull(item) == item.name = "null"

\* project: -ExpandProperty of what is not there shows nothing and is an error.
Project(item) == IF Has("expand") THEN item.inside ELSE <<item.name>>
Fails(item)   == Has("expand") /\ item.inside = <<>>

\* uniqueKey: the text of an object is empty, but one that -Property built is
\* compared by its properties.
UniqueKey(v) == IF v \in Plain \/ Has("property") THEN v ELSE ""

Emit(item) ==
  /\ writing' = Project(item) /\ phase' = "writing"
  /\ refused' = refused + (IF Fails(item) THEN 1 ELSE 0)
Pass == /\ phase' = "writing" /\ UNCHANGED <<writing, refused>>

Invoke ==
  /\ phase = "ready"
  /\ phase' = IF Has("skipLast") /\ (Has("first") \/ Has("last")) THEN "invalid" ELSE "waiting"
  /\ UNCHANGED <<ask, given, seen, taken, held, stopped, seenKeys, writing, out, refused, ends>>

\* slip: the first objects are all that is waited for.
StopsAnyway(n) == ask["first"] > 0 /\ n >= ask["first"]

\* "-First 0 emits nothing but does NOT stop the upstream."
Stops(n) == ask["first"] > 0 /\ n >= ask["first"] /\ ~Has("last") /\ ~Has("skipLast")

\* windowed.
Windowed(item) ==
  LET mine == seen >= Skip
      first == mine /\ Has("first") /\ taken < ask["first"]
      kept == mine /\ ~first /\ Has("last")
  IN /\ seen' = seen + 1
     /\ taken' = taken + (IF first THEN 1 ELSE 0)
     /\ stopped' = (stopped \/ (first /\ Stops(taken + 1)))
     /\ tail' = IF ~kept THEN tail
                ELSE IF Len(tail) = ask["last"] THEN Tail(Append(tail, item)) ELSE Append(tail, item)
     /\ IF first \/ (mine /\ ~kept /\ ~Has("first")) THEN Emit(item) ELSE Pass

\* slip: null is an object like any other.
CountsNull(item) == TRUE

Counts(item) == ~IsNull(item)

\* The loop's body up to the first write.  A null or an object that waits in the
\* delay line asks for the next at once.
Take(item) ==
  /\ phase = "waiting" /\ Len(given) < MaxItems
  /\ given' = Append(given, item)
  /\ UNCHANGED <<ask, seenKeys, out, ends>>
  /\ IF aborted
     THEN phase' = "cancelled" /\ UNCHANGED <<seen, taken, held, stopped, writing, refused>>
     ELSE IF ~Counts(item) THEN UNCHANGED <<seen, taken, held, stopped, writing, refused, phase>>
     ELSE IF ~Has("skipLast") THEN Windowed(item) /\ UNCHANGED delay
     ELSE LET line == Append(delay, item) IN
          IF Len(line) <= ask["skipLast"]
          THEN delay' = line /\ UNCHANGED <<seen, taken, tail, stopped, writing, refused, phase>>
          ELSE delay' = Tail(line) /\ Windowed(Head(line))

\* emit, a value at a time: what is written when nobody reads is dropped.
Write ==
  /\ phase \in {"writing", "draining"} /\ writing # <<>>
  /\ writing' = Tail(writing)
  /\ LET v == Head(writing)
         again == Has("unique") /\ UniqueKey(v) \in seenKeys
     IN /\ seenKeys' = IF Has("unique") THEN seenKeys \cup {UniqueKey(v)} ELSE seenKeys
        /\ out' = IF again \/ ~open THEN out ELSE Append(out, v)
  /\ UNCHANGED <<ask, given, seen, taken, held, stopped, refused, phase, ends>>

\* "if (stopped || sink.closed) break".
Again ==
  /\ phase = "writing" /\ writing = <<>>
  /\ phase' = IF stopped \/ ~open THEN "draining" ELSE "waiting"
  /\ UNCHANGED <<ask, given, seen, taken, held, stopped, seenKeys, writing, out, refused, ends>>

EndOfInput ==
  /\ phase = "waiting" /\ phase' = "draining"
  /\ UNCHANGED <<ask, given, seen, taken, held, stopped, seenKeys, writing, out, refused, ends>>

\* The objects -Last has kept, in the loop after the loop.
Drain ==
  /\ phase = "draining" /\ writing = <<>>
  /\ IF tail = <<>> \/ ~open \/ aborted
     THEN phase' = "done" /\ UNCHANGED <<tail, writing, refused>>
     ELSE /\ tail' = Tail(tail) /\ writing' = Project(Head(tail)) /\ phase' = phase
          /\ refused' = refused + (IF Fails(Head(tail)) THEN 1 ELSE 0)
  /\ UNCHANGED <<ask, given, seen, taken, delay, stopped, seenKeys, out, ends>>

\* The reader of the output goes away; Ctrl+C.
ReaderLeaves ==
  /\ open /\ open' = FALSE
  /\ UNCHANGED <<ask, given, seen, taken, held, stopped, seenKeys, writing, out, refused, phase, aborted>>
Abort ==
  /\ ~aborted /\ aborted' = TRUE
  /\ UNCHANGED <<ask, given, seen, taken, held, stopped, seenKeys, writing, out, refused, phase, open>>

Next ==
  \/ Invoke \/ Write \/ Again \/ EndOfInput \/ Drain
  \/ \E item \in Items : Take(item)
  \/ phase \in {"waiting", "writing", "draining"} /\ (ReaderLeaves \/ Abort)

Spec == Init /\ [][Next]_selectVars

-----------------------------------------------------------------------------
(* What the parameters mean, for a whole stream. *)
Least(m, n) == IF m < n THEN m ELSE n
Window(items) ==
  LET objects == SelectSeq(items, LAMBDA item : ~IsNull(item))
      Drop(s, n)   == SubSeq(s, n + 1, Len(s))
      Lead(s, n)   == SubSeq(s, 1, Least(n, Len(s)))
      Rear(s, n)   == Drop(s, Len(s) - Least(n, Len(s)))
      body  == IF Has("skipLast") THEN Lead(objects, Len(objects) - Least(ask["skipLast"], Len(objects)))
               ELSE objects
      mine  == Drop(body, Least(Skip, Len(body)))
      head  == IF Has("first") THEN Lead(mine, ask["first"]) ELSE <<>>
      rest  == Drop(mine, Len(head))
  IN CASE Has("last")                   -> head \o Rear(rest, ask["last"])
       [] ~Has("last") /\ Has("first")  -> head
       [] OTHER                         -> mine

Shown(items) ==
  LET values == FlattenSeq([i \in DOMAIN Window(items) |-> Project(Window(items)[i])])
      firsts == {i \in DOMAIN values : \A j \in 1..i - 1 : UniqueKey(values[j]) # UniqueKey(values[i])}
      Those(S) == SetToSortSeq(S, <)
  IN IF Has("unique") THEN [i \in 1..Cardinality(firsts) |-> values[Those(firsts)[i]]] ELSE values

Continuations == {given \o more : more \in SeqOf(Items, 2)}
Valid == ~(Has("skipLast") /\ (Has("first") \/ Has("last")))
Undisturbed == open /\ ~aborted

(* The window is the one asked for: of everything, when the input ended; and what
   the upstream was stopped from sending would have changed nothing. *)
RightWindow ==
  Undisturbed /\ phase = "done" =>
    /\ ~stopped => out = Shown(given)
    /\ stopped => \A all \in Continuations : Shown(all) = out

(* Nothing is held back that is known: while the next object is awaited, what has
   been written is all that every continuation has in common. *)
NothingHeldBack ==
  Undisturbed /\ phase = "waiting" =>
    LET ways == {Shown(all) : all \in Continuations}
    IN /\ \A w \in ways : IsPrefix(out, w)
       /\ \E w \in ways : \/ w = out
                          \/ \E v \in ways : Len(v) > Len(out) /\ Len(w) > Len(out)
                                             /\ v[Len(out) + 1] # w[Len(out) + 1]

(* "It must stop the upstream": no object is asked for when none could be shown,
   but for -First 0, and for -Last, which is answered by the end alone. *)
StopsTheUpstream ==
  Undisturbed /\ phase = "waiting" /\ Has("first") /\ ask["first"] > 0 /\ ~Has("last") =>
    \E all \in Continuations : Shown(all) # out

(* Objects held back are bounded by the parameter that holds them. *)
HoldsNoMore ==
  /\ Len(tail) <= (IF Has("last") THEN ask["last"] ELSE 0)
  /\ Len(delay) <= (IF Has("skipLast") THEN ask["skipLast"] ELSE 0)

SelectSound == RightWindow /\ NothingHeldBack /\ StopsTheUpstream /\ HoldsNoMore

=============================================================================
