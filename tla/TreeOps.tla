------------------------------ MODULE TreeOps ------------------------------
(***************************************************************************)
(* The tree of memory.ts as a value: what each mutation plans against it,  *)
(* and what applying a plan makes of it.                                   *)
(*                                                                         *)
(* A path is a sequence of names, the mount root is <<>>.  A node's mode   *)
(* is what its owner may do (own) and what anybody else may (oth), and     *)
(* mine says whether this user owns it.  Times are left out.               *)
(***************************************************************************)
EXTENDS Naturals, Sequences, FiniteSets, SequencesExt, FiniteSetsExt, Functions

CONSTANTS
  Inputs,    \* the paths callers name
  PathMax,   \* PATH_MAX, in names
  Contents,  \* what is written
  Modes      \* what mkdir and chmod leave the owner: subsets of {"r", "w", "x"}

rwx == {"r", "w", "x"}
FileMode == {"r", "w"}
Root == [kind |-> "dir", data |-> <<>>, own |-> rwx, oth |-> {}, mine |-> TRUE, origin |-> "seed"]

Node(tr, p) == IF p = <<>> THEN Root ELSE tr[p]
Has(tr, p)  == p = <<>> \/ p \in DOMAIN tr
IsDir(tr, p) == Has(tr, p) /\ Node(tr, p).kind = "dir"
Allows(n) == IF n.mine THEN n.own ELSE n.oth
Can(tr, p, perms) == perms \subseteq Allows(Node(tr, p))

Parent(p) == SubSeq(p, 1, Len(p) - 1)
Descends(p, q) == Len(q) < Len(p) /\ SubSeq(p, 1, Len(q)) = q
Below(tr, p) == {q \in DOMAIN tr : Descends(q, p)}
Family(tr, p) == Below(tr, p) \cup {p}
Children(tr, p) == {q \in DOMAIN tr : q # <<>> /\ Parent(q) = p}
Rebased(q, from, to) == to \o SubSeq(q, Len(from) + 1, Len(q))

Size(n) == IF n.kind = "file" THEN Len(n.data) ELSE 0
\* The bytes of all files, counted one by one.
Bytes(tr)     == UNION {{p} \X (1..Size(tr[p])) : p \in DOMAIN tr}
UsedBytes(tr) == Cardinality(Bytes(tr))
Part(tr, S)   == [p \in S |-> tr[p]]

-----------------------------------------------------------------------------
(* Finding a node, and the errors a plan can end in.                       *)

\* #walk: each directory on the way has to be one, and searchable, before its
\* entry is looked up.
Walk(tr, p) ==
  LET Stuck == {i \in 0..(Len(p) - 1) :
                  LET d == SubSeq(p, 1, i) IN
                  ~(IsDir(tr, d) /\ Can(tr, d, {"x"}) /\ Has(tr, SubSeq(p, 1, i + 1)))}
      d == SubSeq(p, 1, Min(Stuck))
  IN IF Stuck = {} THEN "ok"
     ELSE IF IsDir(tr, d) /\ Can(tr, d, {"x"}) THEN "missing" ELSE "refused"

\* #parent and #blocksCreateIn.
Enterable(tr, p) == Walk(tr, p) = "ok" /\ IsDir(tr, p) /\ Can(tr, p, {"w", "x"})

\* Refused, or nothing to do.
Refused == [ok |-> FALSE, steps |-> <<>>, delta |-> 0]
Plan(steps, delta) == [ok |-> TRUE, steps |-> steps, delta |-> delta]

Make(p, mode, origin) == [op |-> "mkdir", path |-> p, mode |-> mode, origin |-> origin]
Put(p, data, mode, origin) ==
  [op |-> "put", path |-> p, data |-> data, mode |-> mode, origin |-> origin]
Remove_(p)    == [op |-> "remove", path |-> p]
Move(p, from) == [op |-> "move", path |-> p, from |-> from, origin |-> "user"]
SetMode(p, mode) == [op |-> "mode", path |-> p, mode |-> mode]
SetTimes(p)   == [op |-> "times", path |-> p]

-----------------------------------------------------------------------------
(* The planners.  A request is [op, path, how, ...].                       *)

\* #deepestExisting
Deepest(tr, p) == SubSeq(p, 1, Max({i \in 0..Len(p) : \A j \in 0..i : IsDir(tr, SubSeq(p, 1, j))}))

\* #planMkdirp: a searchable way down to a writable place, then one step a name.
Mkdirp(tr, p, mode, origin) ==
  LET top == Deepest(tr, p) IN
  IF \/ \E i \in 0..(Len(top) - 1) : ~Can(tr, SubSeq(p, 1, i), {"x"})
     \/ top # p /\ (Has(tr, SubSeq(p, 1, Len(top) + 1)) \/ ~Can(tr, top, {"w", "x"}))
  THEN Refused
  ELSE Plan([i \in 1..(Len(p) - Len(top)) |-> Make(SubSeq(p, 1, Len(top) + i), mode, origin)], 0)

PlanMkdir(tr, r) ==
  IF r.how = "parents" THEN Mkdirp(tr, r.path, r.mode, "user")
  ELSE IF Walk(tr, r.path) = "ok" \/ ~Enterable(tr, Parent(r.path)) THEN Refused
  ELSE Plan(<<Make(r.path, r.mode, "user")>>, 0)

\* #write, with createParents, exclusive and append.
PlanWrite(tr, r) ==
  LET up    == Parent(r.path)
      made  == Mkdirp(tr, up, rwx, r.origin)
      file  == IF r.path \in DOMAIN tr THEN tr[r.path] ELSE Root
      next  == IF r.how = "append" THEN file.data \o r.data ELSE r.data
  IN IF Walk(tr, up) = "missing" /\ r.how = "parents" THEN
       IF made.ok /\ Can(tr, Deepest(tr, up), {"w", "x"})
       THEN Plan(Append(made.steps, Put(r.path, r.data, FileMode, r.origin)), Len(r.data))
       ELSE Refused
     ELSE IF Walk(tr, up) # "ok" \/ ~IsDir(tr, up) THEN Refused
     ELSE IF r.path \in DOMAIN tr THEN
       IF file.kind = "dir" \/ r.how = "exclusive" \/ "w" \notin Allows(file) THEN Refused
       ELSE Plan(<<Put(r.path, next, FileMode, r.origin)>>, Len(next) - Len(file.data))
     ELSE IF ~Can(tr, up, {"w", "x"}) THEN Refused
     ELSE Plan(<<Put(r.path, r.data, FileMode, r.origin)>>, Len(r.data))

\* One path of a set after the other, a deepest one first, and the other way round.
DeepestOf(S)    == CHOOSE p \in S : \A q \in S : Len(q) <= Len(p)
LeftOf(S)       == LET left[i \in 0..Cardinality(S)] ==
                         IF i = 0 THEN S ELSE LET T == left[i - 1] IN T \ {DeepestOf(T)}
                   IN left
DeepestFirst(S) == LET left == LeftOf(S) IN [i \in 1..Cardinality(S) |-> DeepestOf(left[i - 1])]
ShallowFirst(S) == LET left == LeftOf(S)
                   IN [i \in 1..Cardinality(S) |-> DeepestOf(left[Cardinality(S) - i])]

\* slip: only the directory that holds what is named has to be writable.
PlanRemoveShallow(tr, r) ==
  LET going == Family(tr, r.path) IN
  IF \/ Walk(tr, r.path) # "ok"
     \/ r.how # "recursive" /\ Below(tr, r.path) # {}
     \/ ~Enterable(tr, Parent(r.path))
  THEN Refused
  ELSE LET order == DeepestFirst(going) IN
       Plan([i \in 1..Cardinality(going) |-> Remove_(order[i])], 0 - UsedBytes(Part(tr, going)))

PlanRemove(tr, r) ==
  LET going == Family(tr, r.path) IN
  IF \/ Walk(tr, r.path) # "ok"
     \/ r.how # "recursive" /\ Below(tr, r.path) # {}
     \/ ~Enterable(tr, Parent(r.path))
     \/ \E q \in going : tr[q].kind = "dir" /\ ~Can(tr, q, {"w", "x"})
  THEN Refused
  ELSE LET order == DeepestFirst(going) IN
       Plan([i \in 1..Cardinality(going) |-> Remove_(order[i])], 0 - UsedBytes(Part(tr, going)))

PlanRename(tr, r) ==
  LET there == r.to \in DOMAIN tr IN
  IF      \/ r.path = r.to \/ Walk(tr, r.path) # "ok" \/ Descends(r.to, r.path)
          \/ ~Enterable(tr, Parent(r.to)) \/ ~Enterable(tr, Parent(r.path))
          \/ there /\ \/ r.how # "overwrite"
                      \/ tr[r.to].kind # tr[r.path].kind
                      \/ Below(tr, r.to) # {}
  THEN Refused
  ELSE Plan((IF there THEN <<Remove_(r.to)>> ELSE <<>>) \o <<Move(r.to, r.path)>>, 0)

\* slip: what is already there is not looked at below the first level.
CopyAllowedSource(tr, q, t) ==
  Len(t) <= PathMax /\ Can(tr, q, IF tr[q].kind = "file" THEN {"r"} ELSE {"r", "x"})

\* #copyLocked: what each node of the source needs of itself and of what is
\* already where it is going.
CopyAllowed(tr, q, t) ==
  LET there == t \in DOMAIN tr IN
  /\ Len(t) <= PathMax
  /\ IF tr[q].kind = "file"
     THEN Can(tr, q, {"r"}) /\ (there => tr[t].kind = "file" /\ Can(tr, t, {"w"}))
     ELSE /\ Can(tr, q, {"r", "x"})
          /\ there => /\ tr[t].kind = "dir" /\ Can(tr, t, {"x"})
                      /\ \/ Can(tr, t, {"w"})
                         \/ \A c \in Children(tr, q) : Rebased(c, q, t) \in DOMAIN tr

CopyStep(tr, q, t) ==
  IF tr[q].kind = "file" THEN Put(t, tr[q].data, tr[q].own, "user")
  ELSE Make(t, tr[q].own, "user")

PlanCopy(tr, r) ==
  LET from  == Family(tr, r.path)
      order == ShallowFirst(from)
      To(q) == Rebased(q, r.path, r.to)
      over  == {To(q) : q \in from} \cap DOMAIN tr
  IN IF \/ Walk(tr, r.path) # "ok" \/ r.path = r.to \/ Descends(r.to, r.path)
        \/ tr[r.path].kind = "dir" /\ r.how = "plain"
        \/ ~Enterable(tr, Parent(r.to))
        \/ r.to \in DOMAIN tr /\ r.how # "overwrite"
        \/ \E q \in from : ~CopyAllowed(tr, q, To(q))
     THEN Refused
     ELSE Plan([i \in 1..Cardinality(from) |-> CopyStep(tr, order[i], To(order[i]))],
               UsedBytes(Part(tr, from)) - UsedBytes(Part(tr, over)))

PlanChmod(tr, r) ==
  IF Walk(tr, r.path) = "ok" /\ Node(tr, r.path).mine
  THEN Plan(<<SetMode(r.path, r.mode)>>, 0) ELSE Refused

\* utimes: touch creates what is missing, with a plan of its own.
PlanTouch(tr, r) ==
  LET n == Node(tr, r.path) IN
  CASE Walk(tr, r.path) = "missing" ->
         PlanWrite(tr, [path |-> r.path, how |-> "plain", data |-> <<>>, origin |-> "user"])
    [] Walk(tr, r.path) = "ok" /\ ("w" \in Allows(n) \/ n.mine) -> Plan(<<SetTimes(r.path)>>, 0)
    [] OTHER -> Refused

Planned(tr, r) ==
  CASE r.op = "mkdir" -> PlanMkdir(tr, r)   [] r.op = "write" -> PlanWrite(tr, r)
    [] r.op = "remove" -> PlanRemove(tr, r) [] r.op = "rename" -> PlanRename(tr, r)
    [] r.op = "copy" -> PlanCopy(tr, r)     [] r.op = "chmod" -> PlanChmod(tr, r)
    [] r.op = "touch" -> PlanTouch(tr, r)

Requests ==
  [op : {"mkdir"}, path : Inputs, how : {"plain", "parents"}, mode : Modes]
  \cup [op : {"write"}, path : Inputs, how : {"plain", "append", "exclusive", "parents"},
        data : Contents, origin : {"user"}]
  \cup [op : {"remove"}, path : Inputs, how : {"plain", "recursive"}]
  \cup [op : {"rename"}, path : Inputs, to : Inputs, how : {"plain", "overwrite"}]
  \cup [op : {"copy"}, path : Inputs, to : Inputs, how : {"plain", "recursive", "overwrite"}]
  \cup [op : {"chmod"}, path : Inputs, how : {"plain"}, mode : Modes]
  \cup [op : {"touch"}, path : Inputs, how : {"plain"}]

-----------------------------------------------------------------------------
(* #apply, for a plan just made and for one replayed at a boot.            *)

Without(tr, gone) == [p \in DOMAIN tr \ gone |-> tr[p]]
With(tr, p, n)    == [q \in DOMAIN tr \cup {p} |-> IF q = p THEN n ELSE tr[q]]
Born(kind, s, origin) ==
  [kind |-> kind, data |-> IF kind = "file" THEN s.data ELSE <<>>, own |-> s.mode, oth |-> {},
   mine |-> TRUE, origin |-> origin]

Moved(tr, from, to) ==
  LET stay == DOMAIN tr \ Family(tr, from)
      kept == stay \ Family(tr, to)
      gone == {Rebased(q, from, to) : q \in Family(tr, from)}
  IN [p \in kept \cup gone |->
        IF p \in gone THEN tr[Rebased(p, to, from)] ELSE tr[p]]

Stepped(st, s) ==
  LET tr == st.tree
      up == IsDir(tr, Parent(s.path))
      old == IF s.path \in DOMAIN tr THEN tr[s.path] ELSE Root
      there == s.path \in DOMAIN tr
      Fail == [st EXCEPT !.ok = FALSE]
      To(t, bytes) == [ok |-> TRUE, tree |-> t, used |-> bytes]
  IN
  CASE ~st.ok -> st
    [] st.ok /\ s.op = "remove" ->
         IF up /\ there THEN To(Without(tr, Family(tr, s.path)), st.used - Size(old)) ELSE Fail
    [] st.ok /\ s.op = "move" ->
         IF IsDir(tr, Parent(s.from)) /\ s.from \in DOMAIN tr /\ up
         THEN To([Moved(tr, s.from, s.path) EXCEPT ![s.path].origin = s.origin], st.used)
         ELSE Fail
    [] st.ok /\ s.op = "mkdir" ->
         IF ~up \/ (there /\ old.kind # "dir") THEN Fail
         ELSE IF there THEN st
         ELSE To(With(tr, s.path, Born("dir", s, s.origin)), st.used)
    [] st.ok /\ s.op = "put" ->
         IF ~up \/ (there /\ old.kind # "file") THEN Fail
         ELSE IF there
         THEN To([tr EXCEPT ![s.path].data = s.data,
                            ![s.path].origin = s.origin],
                 st.used + Len(s.data) - Len(old.data))
         ELSE To(With(tr, s.path, Born("file", s, s.origin)), st.used + Len(s.data))
    [] st.ok /\ s.op = "mode" ->
         IF ~there THEN Fail ELSE To([tr EXCEPT ![s.path].own = s.mode], st.used)
    [] st.ok /\ s.op = "times" -> IF there THEN st ELSE Fail

\* How far the steps have got, one after the other, and where they end.
Run(tr, bytes, steps) ==
  LET run[i \in 0..Len(steps)] ==
        IF i = 0 THEN [ok |-> TRUE, tree |-> tr, used |-> bytes] ELSE Stepped(run[i - 1], steps[i])
  IN run
Applied(tr, bytes, steps) == Run(tr, bytes, steps)[Len(steps)]
=============================================================================
