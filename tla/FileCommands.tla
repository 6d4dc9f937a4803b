---------------------------- MODULE FileCommands ----------------------------
(***************************************************************************)
(* The commands that change the tree: Copy-Item and cp, Move-Item and mv,  *)
(* Rename-Item, Remove-Item and rm, Reset-FileSystem, New-Item, mkdir,     *)
(* Set-Content and Add-Content, Set-Location.  Each is a run of storage    *)
(* calls with an await between any two, so two pipelines of one session    *)
(* interleave, and what a command decided may no longer be so when it acts *)
(* on it.                                                                  *)
(*                                                                         *)
(* A storage call is one step here: MemoryTree is about what is in it.     *)
(* Nothing in these trees is read-only.                                    *)
(***************************************************************************)
EXTENDS TreeOps

CONSTANTS
  Jobs,       \* the pipelines
  Seeds,      \* the trees the behaviours start from
  Places,     \* where the session may stand at first
  Asked,      \* the requests each pipeline may be given
  Mark        \* the preamble of an encoding

VARIABLES
  tree,   \* the nodes under the root, by path
  here,   \* fs.location
  jobs,   \* each pipeline's command
  stops   \* the pipelines whose signal is aborted

commandVars == <<tree, here, jobs, stops>>

Removers == {"remove", "rm"}
Movers   == {"move", "rename"}
Copiers  == {"copy", "cp"}
Takers   == Removers \cup Movers \cup {"sweep"}

Idle == [at |-> "idle", req |-> [cmd |-> "none", path |-> <<>>], final |-> <<>>, kind |-> "none",
         todo |-> <<>>, known |-> {}, leaves |-> FALSE, out |-> "none", last |-> <<>>]

TypeOK ==
  /\ stops \subseteq Jobs /\ here \in Seq(Range(here))
  /\ \A p \in DOMAIN tree : tree[p].kind \in {"file", "dir"}
  /\ \A c \in Jobs : jobs[c].out \in {"none", "ok", "failed", "stopped", "declined"}
                     /\ (jobs[c].at = "done") = (jobs[c].out # "none")

-----------------------------------------------------------------------------
Init ==
  /\ tree \in Seeds /\ here \in Places
  /\ jobs = [c \in Jobs |-> Idle] /\ stops = {}

Exists(p) == Walk(tree, p) = "ok"
KindAt(p) == IF Exists(p) THEN Node(tree, p).kind ELSE "none"

Now(c, job)     == jobs' = [jobs EXCEPT ![c] = job]
Ended(job, out)  == [Idle EXCEPT !.at = "done", !.out = out, !.req = job.req, !.final = job.final]
Quiet            == UNCHANGED <<tree, here, stops>>
End(c, out)      == Now(c, Ended(jobs[c], out)) /\ Quiet

\* One storage call that changes the tree, and what follows from its answer.
Call(c, plan, job) ==
  LET done == Applied(tree, 0, plan.steps) IN
  /\ IF plan.ok THEN tree' = done.tree /\ Now(c, job)
     ELSE UNCHANGED tree /\ Now(c, Ended(jobs[c], "failed"))
  /\ UNCHANGED <<here, stops>>

Start(c, r) ==
  /\ jobs[c].at = "idle"
  /\ Now(c, [Idle EXCEPT !.at = "stat", !.req = r, !.final = IF "to" \in DOMAIN r THEN r.to ELSE r.path])
  /\ Quiet

\* context.signal, at any point of the command's life.
Stop(c) ==
  /\ jobs[c].at \notin {"idle", "done"} /\ c \notin stops
  /\ stops' = stops \cup {c} /\ UNCHANGED <<tree, here, jobs>>

-----------------------------------------------------------------------------
(* Copy-Item and cp: read everything, then write it.                       *)

\* The next piece of work, unless the signal has come in the meantime.
Resume(c, job) ==
  IF job.todo = <<>> THEN Ended(job, IF c \in stops /\ job.req.cmd \in Copiers THEN "stopped" ELSE "ok")
  ELSE IF c \in stops THEN [Ended(job, "stopped") EXCEPT !.last = Head(job.todo).path]
  ELSE job

\* landingOf: an existing directory receives the item under its own name.
Landing(path, to) ==
  IF path # to /\ KindAt(to) = "dir" THEN Append(to, Last(path)) ELSE to

SourceStat(c) ==
  LET j == jobs[c] IN
  /\ j.at = "stat" /\ j.req.cmd \in Copiers \cup Movers
  /\ IF \/ KindAt(j.req.path) = "none"
        \/ j.req.cmd = "rename" /\ Parent(j.req.to) # Parent(j.req.path)
     THEN End(c, "failed")
     ELSE /\ Now(c, [j EXCEPT !.kind = KindAt(j.req.path),
                              !.at = IF j.req.cmd = "rename" THEN "call" ELSE "land"])
          /\ Quiet

Reads(j, from, to, kind) == [j EXCEPT !.at = "read", !.todo = <<[path |-> from, to |-> to, kind |-> kind]>>]

CopyLand(c) ==
  LET j == jobs[c]
      final == Landing(j.req.path, j.req.to)
  IN /\ j.at = "land" /\ j.req.cmd \in Copiers
     /\ IF final = j.req.path \/ (j.kind = "dir" /\ Descends(final, j.req.path)) THEN End(c, "failed")
        ELSE /\ Now(c, IF j.kind = "dir" THEN [j EXCEPT !.at = "check", !.final = final]
                        ELSE [Reads(j, j.req.path, final, "file") EXCEPT !.final = final])
             /\ Quiet

\* A directory: what stands where it is going, and cp without -r.
CopyCheck(c) ==
  LET j == jobs[c] IN
  /\ j.at = "check" /\ j.req.cmd \in Copiers
  /\ IF KindAt(j.final) = "file" \/ (j.req.cmd = "cp" /\ j.req.how = "plain") THEN End(c, "failed")
     ELSE Now(c, Reads(j, j.req.path, j.final, "dir")) /\ Quiet

\* planCopy's walk.  What was read goes to the end of todo, behind what is
\* still to be read; the kind is that of the listing the entry was found in.
CopyRead(c) ==
  LET j == jobs[c]
      e == Head(j.todo)
      recurse == e.kind = "dir" /\ j.req.how = "recursive"
      under == SetToSeq(Children(tree, e.path))
      found == [i \in 1..Len(under) |->
                  [path |-> under[i], to |-> Append(e.to, Last(under[i])), kind |-> tree[under[i]].kind]]
      step  == IF e.kind = "file" THEN Put(e.to, tree[e.path].data, FileMode, "user")
               ELSE Make(e.to, rwx, "user")
      more  == IF recurse THEN found ELSE <<>>
      left  == more \o Tail(j.todo) \o <<step>>
      asked == e.kind = "file" \/ recurse
      read  == [j EXCEPT !.todo = left,
                         !.at = IF "op" \in DOMAIN Head(left) THEN "write" ELSE "read"]
  IN /\ j.at = "read"
     /\ IF asked /\ KindAt(e.path) # e.kind THEN End(c, "failed")
        ELSE Now(c, Resume(c, read)) /\ Quiet

\* slip: a directory that is already there is left as it is.
OntoSkips(j) == SelectSeq(Tail(j.todo), LAMBDA t : ~Descends(t.path, Head(j.todo).path))

\* A directory that is already there is reported, and the copy goes on into it.
Onto(j) == Tail(j.todo)

\* applyPlan
CopyWrite(c) ==
  LET j == jobs[c]
      s == Head(j.todo)
      next == [j EXCEPT !.at = "write", !.todo = Tail(j.todo)]
  IN CASE j.at = "write" /\ s.op = "put" ->
            Call(c, PlanWrite(tree, s @@ [how |-> "plain"]), Resume(c, next))
       [] j.at = "write" /\ s.op = "mkdir" ->
            /\ Now(c, IF KindAt(s.path) = "dir" THEN Resume(c, [next EXCEPT !.todo = Onto(j)])
                      ELSE [j EXCEPT !.at = "make"])
            /\ Quiet
       [] j.at = "make" -> Call(c, Mkdirp(tree, s.path, s.mode, "user"), Resume(c, next))
       [] OTHER -> FALSE

-----------------------------------------------------------------------------
(* Move-Item, mv and Rename-Item: one storage rename.                      *)

MoveLand(c) ==
  LET j == jobs[c]
      final == Landing(j.req.path, j.req.to)
  IN /\ j.at = "land" /\ j.req.cmd = "move"
     /\ Now(c, [j EXCEPT !.at = "call", !.final = final]) /\ Quiet

\* slip: the target was seen to be free a moment ago, so it is overwritten.
OverwritesSeen(j) == "overwrite"

\* -Force, and always for mv.
Overwrites(j) == j.req.how

\* moveOne; onto itself is a success.
Rename(c) ==
  LET j == jobs[c] IN
  /\ j.at = "call" /\ j.req.cmd \in Movers
  /\ IF j.final = j.req.path THEN End(c, "ok")
     ELSE Call(c, PlanRename(tree, [path |-> j.req.path, to |-> j.final, how |-> Overwrites(j)]),
               Ended(j, "ok"))

-----------------------------------------------------------------------------
(* Remove-Item and rm: one remove a node, children first.                  *)

Node_(p, kind) == [path |-> p, dir |-> kind = "dir", listed |-> FALSE]

\* slip: only the directory the session stands in counts.
LeavesItself(p) == here = p

\* The session stands in what is going, or under it.
Leaves(p) == here = p \/ Descends(here, p)

RemoveStat(c) ==
  LET j == jobs[c]
      p == j.req.path
      kind == KindAt(p)
      walk == [j EXCEPT !.at = "walk", !.todo = <<Node_(p, kind)>>, !.known = {p}, !.leaves = Leaves(p)]
  IN /\ j.at = "stat" /\ j.req.cmd \in Removers
     /\ IF \/ kind = "none"
           \/ j.req.cmd = "remove" /\ Leaves(p)
           \/ j.req.cmd = "rm" /\ kind = "dir" /\ j.req.how = "plain"
        THEN End(c, "failed")
        ELSE IF kind = "dir" /\ j.req.how = "plain" THEN Now(c, [walk EXCEPT !.at = "check"]) /\ Quiet
        ELSE Now(c, Resume(c, walk)) /\ Quiet

\* Remove-Item without -Recurse looks whether the directory is empty.
RemoveCheck(c) ==
  LET j == jobs[c] IN
  /\ j.at = "check" /\ j.req.cmd \in Removers
  /\ IF KindAt(j.req.path) # "dir" \/ Children(tree, j.req.path) # {} THEN End(c, "failed")
     ELSE Now(c, Resume(c, [j EXCEPT !.at = "walk"])) /\ Quiet

RemoveList(c) ==
  LET j == jobs[c]
      e == Head(j.todo)
      under == SetToSeq(Children(tree, e.path))
      found == [i \in 1..Len(under) |-> Node_(under[i], tree[under[i]].kind)]
      next == [j EXCEPT !.todo = found \o <<[e EXCEPT !.listed = TRUE]>> \o Tail(j.todo),
                        !.known = j.known \cup Range(under)]
  IN /\ j.at = "walk" /\ e.dir /\ ~e.listed
     /\ IF KindAt(e.path) # "dir" THEN End(c, "failed") ELSE Now(c, Resume(c, next)) /\ Quiet

\* slip: a listed directory is removed with whatever is in it by now.
TakenWhole(e) == "recursive"

\* "The directory is empty by now, so the non-recursive form is enough."
Taken(e) == "plain"

\* removeTree's remove; rm then has the directory that is gone to leave.
Take(c) ==
  LET j == jobs[c]
      e == Head(j.todo)
      plan == PlanRemove(tree, [path |-> e.path, how |-> Taken(e)])
      next == [j EXCEPT !.todo = Tail(j.todo)]
      moves == plan.ok /\ next.todo = <<>> /\ j.req.cmd = "rm" /\ j.leaves
  IN /\ j.at = "walk" /\ (e.dir => e.listed)
     /\ tree' = IF plan.ok THEN Applied(tree, 0, plan.steps).tree ELSE tree
     /\ Now(c, IF moves THEN [next EXCEPT !.at = "leave"]
               ELSE IF plan.ok THEN Resume(c, next) ELSE Ended(j, "failed"))
     /\ UNCHANGED <<here, stops>>

\* setLocation(HOME), the root here, which is always there.
GoHome(c) == jobs[c].at = "leave" /\ here' = <<>> /\ Now(c, Ended(jobs[c], "ok")) /\ UNCHANGED <<tree, stops>>

-----------------------------------------------------------------------------
(* Reset-FileSystem: everything of the user's, once the user has agreed.   *)

Sweep_(p) == [path |-> p, sweep |-> TRUE]
Skip_(p)  == [path |-> p, skip |-> TRUE]

\* slip: what came with the page is not looked into.
FateSkips(p, n) == IF n.origin = "user" THEN Node_(p, n.kind) ELSE Skip_(p)

\* "A seed directory is descended into rather than removed, because a user file
\* can live inside one.  A user directory is removed whole."
Fate(p, n) ==
  CASE n.origin = "user" -> Node_(p, n.kind)
    [] n.origin = "seed" /\ n.kind = "dir" -> Sweep_(p)
    [] OTHER -> Skip_(p)

\* The loop looks at the signal before each entry, one it skips included.
Sweeps(c, job) ==
  LET left == {i \in DOMAIN job.todo : "skip" \notin DOMAIN job.todo[i]} IN
  IF job.todo # <<>> /\ c \in stops THEN Ended(job, "stopped")
  ELSE IF left = {} THEN [job EXCEPT !.at = "leave", !.todo = <<>>]
  ELSE [job EXCEPT !.todo = SubSeq(@, Min(left), Len(@))]

SweepAsk(c) ==
  LET j == jobs[c] IN
  /\ j.at = "stat" /\ j.req.cmd = "sweep"
  /\ \/ End(c, "declined")
     \/ Now(c, Sweeps(c, [j EXCEPT !.at = "sweep", !.todo = <<Sweep_(<<>>)>>])) /\ Quiet

SweepList(c) ==
  LET j == jobs[c]
      e == Head(j.todo)
      under == SetToSeq(Children(tree, e.path))
      found == [i \in 1..Len(under) |-> Fate(under[i], tree[under[i]])]
  IN /\ j.at = "sweep" /\ "sweep" \in DOMAIN e
     /\ IF KindAt(e.path) # "dir" THEN End(c, "failed")
        ELSE Now(c, Sweeps(c, [j EXCEPT !.todo = found \o Tail(j.todo)])) /\ Quiet

\* removeTree of what the user made, a node or a listing at a time.
SweepTree(c) ==
  LET j == jobs[c]
      e == Head(j.todo)
      under == SetToSeq(Children(tree, e.path))
      found == [i \in 1..Len(under) |-> Node_(under[i], tree[under[i]].kind)]
      plan  == PlanRemove(tree, [path |-> e.path, how |-> Taken(e)])
  IN /\ j.at = "sweep" /\ "dir" \in DOMAIN e
     /\ IF e.dir /\ ~e.listed
        THEN IF KindAt(e.path) # "dir" THEN End(c, "failed")
             ELSE Now(c, Sweeps(c, [j EXCEPT !.todo = found \o <<[e EXCEPT !.listed = TRUE]>> \o Tail(j.todo)]))
                  /\ Quiet
        ELSE Call(c, plan, Sweeps(c, [j EXCEPT !.todo = Tail(j.todo)]))

-----------------------------------------------------------------------------
(* New-Item, mkdir, Set-Content, Add-Content and Set-Location: a look, and *)
(* one call that relies on it.                                             *)

MakeLook(c) ==
  LET j == jobs[c]
      kind == KindAt(j.req.path)
      force == j.req.how = "parents"
  IN /\ j.at = "stat" /\ j.req.cmd \in {"new-dir", "new-file", "mkdir"}
     /\ CASE kind = "none" \/ (j.req.cmd = "new-file" /\ kind = "file" /\ force) ->
               Now(c, [j EXCEPT !.at = "call"]) /\ Quiet
          [] j.req.cmd = "new-dir" /\ kind # "none" /\ force -> End(c, "ok")
          [] j.req.cmd = "mkdir" /\ kind = "dir" /\ force -> End(c, "ok")
          [] OTHER -> End(c, "failed")

MakeCall(c) ==
  LET j == jobs[c]
      dir == [path |-> j.req.path, mode |-> rwx, how |-> IF j.req.cmd = "new-dir" THEN "parents" ELSE j.req.how]
      file == [path |-> j.req.path, data |-> <<>>, origin |-> "user", how |-> j.req.how]
  IN /\ j.at = "call" /\ j.req.cmd \in {"new-dir", "new-file", "mkdir"}
     /\ IF j.req.cmd = "new-file" THEN Call(c, PlanWrite(tree, file), [j EXCEPT !.at = "emit"])
        ELSE Call(c, PlanMkdir(tree, dir), Ended(j, "ok"))

\* New-Item emits the file it finds.
MakeEmit(c) == jobs[c].at = "emit" /\ End(c, IF Exists(jobs[c].req.path) THEN "ok" ELSE "failed")

ContentLook(c) ==
  LET j == jobs[c]
      creating == ~Exists(j.req.path) \/ Size(Node(tree, j.req.path)) = 0
  IN /\ j.at = "stat" /\ j.req.cmd \in {"set", "add"}
     /\ Now(c, [j EXCEPT !.at = IF j.req.cmd = "add" /\ ~creating THEN "append" ELSE "call"]) /\ Quiet

\* slip: the encoded text is appended, preamble and all.
WrittenEncoded(j) == <<Mark>> \o j.req.data

\* encodeText, or appendableText: the preamble belongs at the start of a file.
Written(j) == IF j.at = "append" THEN j.req.data ELSE <<Mark>> \o j.req.data

ContentCall(c) ==
  LET j == jobs[c]
      put == [path |-> j.req.path, data |-> Written(j), origin |-> "user",
              how |-> IF j.at = "append" THEN "append" ELSE "plain"]
  IN /\ j.at \in {"call", "append"} /\ j.req.cmd \in {"set", "add"}
     /\ Call(c, PlanWrite(tree, put), Ended(j, "ok"))

\* setLocation looks twice, for the kind and for leave to enter, and moves when
\* the second answer comes.
Enter(c) ==
  LET j == jobs[c]
      look(next) == IF KindAt(j.req.path) # "dir" THEN End(c, "failed")
                    ELSE Now(c, [j EXCEPT !.at = next]) /\ Quiet
  IN /\ j.req.cmd = "cd"
     /\ CASE j.at = "stat"  -> look("check")
          [] j.at = "check" -> look("call")
          [] j.at = "call"  -> here' = j.req.path /\ Now(c, Ended(j, "ok")) /\ UNCHANGED <<tree, stops>>
          [] OTHER -> FALSE

-----------------------------------------------------------------------------
Copying(c)  == SourceStat(c) \/ CopyLand(c) \/ CopyCheck(c) \/ CopyRead(c) \/ CopyWrite(c)
Removing(c) == RemoveStat(c) \/ RemoveCheck(c) \/ RemoveList(c) \/ Take(c) \/ GoHome(c)
Sweeping(c) == SweepAsk(c) \/ SweepList(c) \/ SweepTree(c)
Making(c)   == MakeLook(c) \/ MakeCall(c) \/ MakeEmit(c) \/ ContentLook(c) \/ ContentCall(c) \/ Enter(c)
Works(c)    == Copying(c) \/ MoveLand(c) \/ Rename(c) \/ Removing(c) \/ Sweeping(c) \/ Making(c)

Next == \E c \in Jobs : Works(c) \/ Stop(c) \/ \E r \in Asked[c] : Start(c, r)
Spec == Init /\ [][Next]_commandVars

-----------------------------------------------------------------------------
\* The other pipelines' commands are none of these.
Apart(c, cmds) == \A d \in Jobs \ {c} : jobs[d].req.cmd \notin cmds

(* A removal that was stopped says where: "that item and everything above it"
   is still there, unless another command has taken it. *)
StoppedWalkLeavesAbove ==
  \A c \in Jobs :
    LET j == jobs[c] IN
    j.out = "stopped" /\ j.req.cmd \in Removers /\ Apart(c, Takers) =>
      \A n \in Len(j.req.path)..Len(j.last) : Has(tree, SubSeq(j.last, 1, n))

(* A preamble stands at the start of a file and nowhere else, however a
   Set-Content and an Add-Content to the same file interleave. *)
MarkStaysFirst ==
  \A p \in DOMAIN tree : \A i \in 2..Len(tree[p].data) : tree[p].data[i] # Mark

(* A recursive copy that has ended well, with nobody else at work, has left
   everything of its source at the landing: a directory that was there already
   is merged into. *)
CopyIsWhole ==
  \A c \in Jobs :
    LET j == jobs[c] IN
    /\ j.req.cmd \in Copiers /\ j.out = "ok" /\ j.req.how = "recursive"
    /\ \A d \in Jobs \ {c} : jobs[d].at \in {"idle", "stat"}
    /\ ~Descends(j.req.path, j.final)
    => \A q \in Family(tree, j.req.path) :
         LET t == Rebased(q, j.req.path, j.final) IN
         t \in DOMAIN tree /\ tree[t].kind = tree[q].kind /\ tree[t].data = tree[q].data

(* A Reset-FileSystem that has ended well, with nobody else at work, has left
   nothing that the user made. *)
SweepIsWhole ==
  \A c \in Jobs :
    /\ jobs[c].req.cmd = "sweep" /\ jobs[c].out = "ok"
    /\ \A d \in Jobs \ {c} : jobs[d].at \in {"idle", "stat"}
    => here = <<>> /\ \A p \in DOMAIN tree : tree[p].origin = "seed"

CommandsSound == StoppedWalkLeavesAbove /\ MarkStaysFirst /\ CopyIsWhole /\ SweepIsWhole

(* removeTree "cannot silently take a subtree the walk has not looked at": a step
   of a removal takes one node, that its walk has seen in a listing. *)
TakesWhatItSaw ==
  \A c \in Jobs : jobs[c].at = "walk" /\ jobs[c] # jobs'[c] =>
    \A p \in DOMAIN tree \ DOMAIN tree' : p \in jobs[c].known /\ Below(tree, p) = {}

(* A move loses nothing: without -Force, not even what another command put at
   the target after this one had looked; with it, at most that one node. *)
MoveLosesNothing ==
  \A c \in Jobs : jobs[c].at = "call" /\ jobs[c].req.cmd \in Movers /\ jobs[c] # jobs'[c] =>
    Cardinality(DOMAIN tree)
      <= Cardinality(DOMAIN tree') + (IF jobs[c].req.how = "overwrite" THEN 1 ELSE 0)

(* "The prompt must not be left standing in a directory that no longer exists":
   so for a removal that ends well while nobody else moves it or the session. *)
PromptStands ==
  \A c \in Jobs :
    /\ jobs[c].req.cmd \in Removers /\ jobs[c].out = "none" /\ jobs'[c].out = "ok"
    /\ Apart(c, Takers \cup {"cd"})
    => IsDir(tree', here')

(* A Reset-FileSystem takes what the user made and what is inside it, whatever
   another command moves or makes under it, and nothing once it is declined. *)
SweepSparesTheSeed ==
  \A c \in Jobs : jobs[c].req.cmd = "sweep" /\ jobs[c] # jobs'[c] =>
    \A p \in DOMAIN tree \ DOMAIN tree' :
      jobs[c].at = "sweep" /\ \E n \in 1..Len(p) : tree[SubSeq(p, 1, n)].origin = "user"

CommandSteps == TakesWhatItSaw /\ MoveLosesNothing /\ PromptStands /\ SweepSparesTheSeed
=============================================================================
