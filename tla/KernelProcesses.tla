--------------------------- MODULE KernelProcesses ---------------------------
(***************************************************************************)
(* The kernel's process core: Kernel, ProcessTable, SignalController and   *)
(* JobManager between a request and the exits that end it.                 *)
(*                                                                         *)
(* The kernel is one synchronous object.  What it still has to do before   *)
(* it returns to the event loop is the sequence `todo`, one step per event *)
(* it emits; a listener may answer an event with another request, whose    *)
(* steps then come first.  Commands settle only when `todo` is empty.      *)
(*                                                                         *)
(* A request is a process group: pids are never reused, so stage i of      *)
(* request r is the process <<r, i>> and the group is r.                   *)
(***************************************************************************)
EXTENDS Naturals, Sequences

CONSTANTS
  Requests,    \* request ids the page may submit
  Terminals,
  MaxStages,   \* bound: stages of a pipeline
  MaxSignals,  \* bound: signal, cancel and Ctrl+C requests
  None         \* no request

ASSUME KernelConstants ==
  MaxStages \in Nat \ {0} /\ MaxSignals \in Nat /\ None \notin Requests /\ Terminals # {}

Procs   == Requests \X (1 .. MaxStages)
Signals == {"SIGINT", "SIGTERM", "SIGKILL"}
\* The StageResult of a stage: an exit code of 0 or not, or the signal.
Results == {"ok", "fail"} \cup Signals
\* "ok" is a line that parses, resolves and binds; "unknown" one of which a
\* stage does not; "refused" one the parser's gate turns away.
Kinds == {"ok", "unknown", "refused"}

VARIABLES
  req,        \* what each submitted request is
  todo,       \* steps left in the synchronous call
  state,      \* ProcessTable: the state of each process
  code,       \* ProcessTable: what each process exited with
  finished,   \* Kernel: processes whose exit has been taken
  registered, \* SignalController: processes a signal can reach
  delivered,  \* SignalController: the last signal of each process
  aborted,    \* processes whose AbortSignal has fired
  fg,         \* SignalController: the foreground group of each terminal
  job,        \* JobManager: the state of a background request's job
  cancelled,  \* Kernel: requests whose cancellation is remembered
  drive,      \* the pipeline of each request: "none", "running", "ended"
  invoked,    \* processes whose command has been entered
  outcome,    \* what each command returned with
  status,     \* the request each terminal's $? is from
  signals,    \* counter
  exits,      \* ghost: exit events per process
  early,      \* ghost: requests cancelled before they were prepared
  committed,  \* ghost: requests whose status was recorded
  latest      \* ghost: the last foreground request of each terminal

tables == <<state, code, finished, registered, delivered, aborted>>
shell  == <<fg, job, cancelled, status, committed, latest>>
runs   == <<drive, invoked, outcome>>
ghosts == <<exits, early>>
vars   == <<req, todo, tables, shell, runs, signals, ghosts>>

NoReq == [n |-> 1, bg |-> FALSE, kind |-> "none", term |-> CHOOSE t \in Terminals : TRUE]

Stage(r, i)  == <<r, i>>
Stages(r)    == {Stage(r, i) : i \in 1 .. req[r].n}
Last(r)      == Stage(r, req[r].n)
Submitted    == {r \in Requests : req[r].kind # "none"}
Live(r)      == {p \in Stages(r) : state[p] \notin {"none", "exited"}}

Init ==
  /\ req = [r \in Requests |-> NoReq]
  /\ todo = <<>>
  /\ state = [p \in Procs |-> "none"] /\ code = [p \in Procs |-> "none"]
  /\ finished = {} /\ registered = {} /\ aborted = {}
  /\ delivered = [p \in Procs |-> "none"]
  /\ fg = [t \in Terminals |-> None] /\ job = [r \in Requests |-> "none"]
  /\ cancelled = {}
  /\ drive = [r \in Requests |-> "none"]
  /\ invoked = {} /\ outcome = [p \in Procs |-> "none"]
  /\ status = [t \in Terminals |-> None]
  /\ signals = 0
  /\ exits = [p \in Procs |-> 0] /\ early = {} /\ committed = {}
  /\ latest = [t \in Terminals |-> None]

-----------------------------------------------------------------------------
(* Steps of a synchronous call.                                            *)

Step(do, p)      == [do |-> do, p |-> p, with |-> "none"]
StepWith(do, p, w) == [do |-> do, p |-> p, with |-> w]
ForStages(do, r, n) == [i \in 1 .. n |-> Step(do, Stage(r, i))]

Next1 == Head(todo)
Then(steps) == todo' = steps \o Tail(todo)
Doing(what) == todo # <<>> /\ Next1.do = what
P == Next1.p
R == Next1.p[1]

\* slip: the exits are published before the status they describe is written.
TeardownExitsFirst(r, n, bg, res) ==
  [i \in 1 .. n |-> StepWith("finish", Stage(r, i), res[i])]
    \o (IF bg THEN <<>> ELSE <<Step("status", Stage(r, 1))>>)
    \o <<StepWith("end", Stage(r, 1), res[n])>>

\* slip: only the last stage's exit is reported.
TeardownLastOnly(r, n, bg, res) ==
  (IF bg THEN <<>> ELSE <<Step("status", Stage(r, 1))>>)
    \o <<StepWith("finish", Stage(r, n), res[n])>>
    \o <<StepWith("end", Stage(r, 1), res[n])>>

\* teardown: the terminal's status first, then an exit per stage, then the job,
\* the foreground and the remembered cancellation.
Teardown(r, n, bg, res) ==
  (IF bg THEN <<>> ELSE <<Step("status", Stage(r, 1))>>)
    \o [i \in 1 .. n |-> StepWith("finish", Stage(r, i), res[i])]
    \o <<StepWith("end", Stage(r, 1), res[n])>>

\* The steps of an accepted exec.
ExecSteps(r, n, bg, kind) ==
  CASE kind = "refused" -> <<>>
    [] kind = "unknown" ->
         <<Step("create", Stage(r, 1))>>
           \o (IF bg THEN <<Step("job", Stage(r, 1))>> ELSE <<>>)
           \o <<Step("run", Stage(r, 1)), StepWith("finish", Stage(r, 1), "fail")>>
           \o (IF bg THEN <<StepWith("jobend", Stage(r, 1), "fail")>>
                     ELSE <<Step("status", Stage(r, 1))>>)
    [] kind = "ok" ->
         ForStages("create", r, n)
           \o (IF bg THEN <<Step("job", Stage(r, 1))>> ELSE <<>>)
           \o <<Step("prepare", Stage(r, 1))>>

-----------------------------------------------------------------------------
(* The requests: from the page, or from a listener in the middle of a call. *)

\* send('exec') of an id that was not submitted before; a second one is refused.
Exec(r, t, n, bg, kind) ==
  /\ req[r].kind = "none"
  /\ kind # "ok" => n = 1
  /\ req' = [req EXCEPT ![r] = [n |-> n, bg |-> bg, kind |-> kind, term |-> t]]
  /\ todo' = ExecSteps(r, n, bg, kind) \o todo
  /\ UNCHANGED <<tables, shell, runs, signals, ghosts>>

RaiseAll(group, sig) ==
  [i \in 1 .. Len(group) |-> StepWith("raise", group[i], sig)]

\* The members of a group in registration order.  They are registered together
\* (Prepare), and one that no longer is gets nothing (Raise).
Members(r) == [i \in 1 .. req[r].n |-> Stage(r, i)]

\* slip: a cancel is remembered only when no process is found.
CancelFoundIsDelivered(r) ==
  /\ signals < MaxSignals /\ signals' = signals + 1
  /\ cancelled' = IF \A p \in Stages(r) : state[p] = "none"
                  THEN cancelled \cup {r} ELSE cancelled
  /\ todo' = (IF Live(r) = {} THEN <<>> ELSE RaiseAll(Members(r), "SIGINT")) \o todo
  /\ early' = IF drive[r] = "none" /\ registered \cap Stages(r) = {} /\ finished \cap Stages(r) = {}
              THEN early \cup {r} ELSE early
  /\ UNCHANGED <<req, tables, fg, job, status, committed, latest, runs, exits>>

\* send('cancel'): remembered unless the request has ended, and delivered.
Cancel(r) ==
  /\ signals < MaxSignals /\ signals' = signals + 1
  /\ cancelled' = IF (\A p \in Stages(r) : state[p] = "none") \/ Live(r) # {}
                  THEN cancelled \cup {r} ELSE cancelled
  /\ todo' = (IF Live(r) = {} THEN <<>> ELSE RaiseAll(Members(r), "SIGINT")) \o todo
  /\ early' = IF drive[r] = "none" /\ registered \cap Stages(r) = {} /\ finished \cap Stages(r) = {}
              THEN early \cup {r} ELSE early
  /\ UNCHANGED <<req, tables, fg, job, status, committed, latest, runs, exits>>

\* send('signal') to one process, or to a group (a negative pid).
Signal(targets, sig) ==
  /\ signals < MaxSignals /\ signals' = signals + 1
  /\ todo' = RaiseAll(targets, sig) \o todo
  /\ UNCHANGED <<req, tables, shell, runs, ghosts>>

\* interrupt(terminal), Ctrl+C.
Interrupt(t) == fg[t] # None /\ Signal(Members(fg[t]), "SIGINT")

-----------------------------------------------------------------------------
(* The steps.                                                              *)

\* ProcessTable.create; the leader's is what makes the group.
Create ==
  /\ Doing("create")
  /\ state' = [state EXCEPT ![P] = "created"]
  /\ Then(<<>>)
  /\ UNCHANGED <<req, code, finished, registered, delivered, aborted, shell, runs, signals, ghosts>>

\* A background pipeline is a job from here on.
StartJob ==
  /\ Doing("job")
  /\ job' = [job EXCEPT ![R] = "Running"]
  /\ Then(<<>>)
  /\ UNCHANGED <<req, tables, fg, cancelled, status, committed, latest, runs, signals, ghosts>>

\* A foreground pipeline takes the terminal's Ctrl+C and every stage gets its
\* AbortController; then the one check for a cancellation that has already
\* arrived: the pipeline is abandoned, or its stages are said to be running.
Prepare ==
  /\ Doing("prepare")
  /\ registered' = registered \cup Stages(R)
  /\ IF req[R].bg
     THEN UNCHANGED <<fg, latest>>
     ELSE /\ fg' = [fg EXCEPT ![req[R].term] = R]
          /\ latest' = [latest EXCEPT ![req[R].term] = R]
  /\ IF R \in cancelled
     THEN /\ cancelled' = cancelled \ {R}
          /\ drive' = [drive EXCEPT ![R] = "ended"]
          /\ outcome' = [p \in Procs |-> IF p \in Stages(R) THEN "SIGINT" ELSE outcome[p]]
          /\ Then(Teardown(R, req[R].n, req[R].bg, [i \in 1 .. req[R].n |-> "SIGINT"]))
          /\ UNCHANGED state
     ELSE /\ state' = [state EXCEPT ![Stage(R, 1)] = "running"]
          /\ Then(Tail(ForStages("run", R, req[R].n)) \o <<Step("start", Stage(R, 1))>>)
          /\ UNCHANGED <<cancelled, drive, outcome>>
  /\ UNCHANGED <<req, code, finished, delivered, aborted, job, status, committed, invoked,
                 signals, ghosts>>

\* ProcessTable.transition refuses to move out of "exited".
Run ==
  /\ Doing("run")
  /\ state' = IF state[P] = "exited" THEN state ELSE [state EXCEPT ![P] = "running"]
  /\ Then(<<>>)
  /\ UNCHANGED <<req, code, finished, registered, delivered, aborted, shell, runs, signals, ghosts>>

\* drive: the first pull on the pipeline enters the LAST command synchronously.
Start ==
  /\ Doing("start")
  /\ drive' = [drive EXCEPT ![R] = "running"]
  /\ invoked' = invoked \cup {Last(R)}
  /\ Then(<<>>)
  /\ UNCHANGED <<req, tables, shell, outcome, signals, ghosts>>

\* slip: a kill is one more signal the command may notice.
RaiseNoKill ==
  /\ Doing("raise")
  /\ IF P \in registered
     THEN /\ delivered' = [delivered EXCEPT ![P] = Next1.with]
          /\ aborted' = aborted \cup {P}
          /\ state' = IF state[P] = "exited" THEN state ELSE [state EXCEPT ![P] = "stopping"]
     ELSE UNCHANGED <<delivered, aborted, state>>
  /\ Then(<<>>)
  /\ UNCHANGED <<req, code, finished, registered, shell, runs, signals, ghosts>>

\* SignalController.raise and the kernel's listener: nothing for a process that
\* is not registered; a kill ends the process here and now.
Raise ==
  /\ Doing("raise")
  /\ IF P \in registered
     THEN /\ delivered' = [delivered EXCEPT ![P] = Next1.with]
          /\ aborted' = aborted \cup {P}
          /\ IF Next1.with = "SIGKILL"
             THEN Then(<<StepWith("finish", P, "SIGKILL")>>) /\ UNCHANGED state
             ELSE /\ Then(<<>>)
                  /\ state' = IF state[P] = "exited" THEN state
                              ELSE [state EXCEPT ![P] = "stopping"]
     ELSE Then(<<>>) /\ UNCHANGED <<delivered, aborted, state>>
  /\ UNCHANGED <<req, code, finished, registered, shell, runs, signals, ghosts>>

\* slip: a late report of a killed process is taken too.
FinishTwice ==
  /\ Doing("finish")
  /\ state' = [state EXCEPT ![P] = "exited"]
  /\ code' = [code EXCEPT ![P] = Next1.with]
  /\ finished' = finished \cup {P}
  /\ Then(<<StepWith("report", P, Next1.with)>>)
  /\ UNCHANGED <<req, registered, delivered, aborted, shell, runs, signals, ghosts>>

\* finish, up to the process-changed event: the first exit wins.
Finish ==
  /\ Doing("finish")
  /\ IF P \in finished
     THEN Then(<<>>) /\ UNCHANGED <<state, code, finished>>
     ELSE /\ state' = [state EXCEPT ![P] = "exited"]
          /\ code' = [code EXCEPT ![P] = Next1.with]
          /\ finished' = finished \cup {P}
          /\ Then(<<StepWith("report", P, Next1.with)>>)
  /\ UNCHANGED <<req, registered, delivered, aborted, shell, runs, signals, ghosts>>

\* slip: the job is left with the result it ended with.
JobEndUnnamed(r, res) == IF job[r] # "Running" THEN job ELSE [job EXCEPT ![r] = res]

\* JobManager.finish: out of Running once.
JobEnd(r, res) ==
  IF job[r] # "Running" THEN job
  ELSE [job EXCEPT ![r] = CASE res \in Signals -> "Stopped"
                            [] res = "ok"      -> "Completed"
                            [] OTHER           -> "Failed"]

\* slip: the job is looked up by the process that was stopped, not by its group.
ReportJobOfLeader ==
  /\ Doing("report")
  /\ registered' = registered \ {P}
  /\ job' = IF Next1.with \in Signals /\ P[2] = 1 THEN JobEnd(R, Next1.with) ELSE job
  /\ exits' = [exits EXCEPT ![P] = @ + 1]
  /\ Then(<<>>)
  /\ UNCHANGED <<req, state, code, finished, delivered, aborted, fg, cancelled, status,
                 committed, latest, runs, signals, early>>

\* finish, after it: no signal reaches the process any more, a job of which any
\* stage was stopped is Stopped, and the exit is published.
Report ==
  /\ Doing("report")
  /\ registered' = registered \ {P}
  /\ job' = IF Next1.with \in Signals THEN JobEnd(R, Next1.with) ELSE job
  /\ exits' = [exits EXCEPT ![P] = @ + 1]
  /\ Then(<<>>)
  /\ UNCHANGED <<req, state, code, finished, delivered, aborted, fg, cancelled, status,
                 committed, latest, runs, signals, early>>

\* recordStatus: $? and $LASTEXITCODE of the terminal.
Status ==
  /\ Doing("status")
  /\ status' = [status EXCEPT ![req[R].term] = R]
  /\ committed' = committed \cup {R}
  /\ Then(<<>>)
  /\ UNCHANGED <<req, tables, fg, job, cancelled, latest, runs, signals, ghosts>>

\* The background half of reportUnknownCommand.
EndJob ==
  /\ Doing("jobend")
  /\ job' = JobEnd(R, Next1.with)
  /\ Then(<<>>)
  /\ UNCHANGED <<req, tables, fg, cancelled, status, committed, latest, runs, signals, ghosts>>

\* slip: the foreground is cleared whoever holds it.
EndClearsForeground ==
  /\ Doing("end")
  /\ IF req[R].bg
     THEN job' = JobEnd(R, Next1.with) /\ UNCHANGED fg
     ELSE fg' = [fg EXCEPT ![req[R].term] = None] /\ UNCHANGED job
  /\ cancelled' = cancelled \ {R}
  /\ Then(<<>>)
  /\ UNCHANGED <<req, tables, status, committed, latest, runs, signals, ghosts>>

\* The end of teardown.
End ==
  /\ Doing("end")
  /\ IF req[R].bg
     THEN job' = JobEnd(R, Next1.with) /\ UNCHANGED fg
     ELSE /\ fg' = IF fg[req[R].term] = R THEN [fg EXCEPT ![req[R].term] = None] ELSE fg
          /\ UNCHANGED job
  /\ cancelled' = cancelled \ {R}
  /\ Then(<<>>)
  /\ UNCHANGED <<req, tables, status, committed, latest, runs, signals, ghosts>>

KernelStep ==
  \/ Create \/ StartJob \/ Prepare \/ Run \/ Start \/ Raise
  \/ Finish \/ Report \/ Status \/ EndJob \/ End

-----------------------------------------------------------------------------
(* The pipeline, on the event loop.                                        *)

\* A stage that was stopped, or whose own consumer has walked away, reads no
\* more of its input: the stage before it may never be entered.
Cut(r, i) == Stage(r, i) \in aborted \/ i < req[r].n

\* A stage pulls on its input: the command before it is entered.
Enter(r, i) ==
  /\ todo = <<>> /\ drive[r] = "running"
  /\ i < req[r].n /\ Stage(r, i) \notin invoked
  /\ Stage(r, i + 1) \in invoked /\ Stage(r, i + 1) \notin aborted
  /\ invoked' = invoked \cup {Stage(r, i)}
  /\ UNCHANGED <<req, todo, tables, shell, drive, outcome, signals, ghosts>>

\* A command returns or throws (guard).  One that was signalled reports the
\* last signal it got; one whose input was stopped is stopped too.
Settle(p) ==
  /\ todo = <<>> /\ p \in invoked /\ outcome[p] = "none" /\ drive[p[1]] = "running"
  /\ \E res \in Results :
       /\ IF p \in aborted THEN res = delivered[p]
          ELSE \/ res \in {"ok", "fail"}
               \/ res = "SIGINT" /\ \E i \in 1 .. p[2] - 1 : Stage(p[1], i) \in aborted
       /\ outcome' = [outcome EXCEPT ![p] = res]
  /\ UNCHANGED <<req, todo, tables, shell, drive, invoked, signals, ghosts>>

\* unstarted: what teardown reports for a stage that never returned.
Outcome(p) ==
  IF outcome[p] # "none" THEN outcome[p]
  ELSE IF delivered[p] # "none" THEN delivered[p] ELSE "fail"

\* The output ends when every command that was entered has returned.
DriveEnds(r) ==
  /\ todo = <<>> /\ drive[r] = "running"
  /\ outcome[Last(r)] # "none"
  /\ \A i \in 1 .. req[r].n :
       IF Stage(r, i) \in invoked THEN outcome[Stage(r, i)] # "none"
       ELSE Cut(r, i + 1)
  /\ drive' = [drive EXCEPT ![r] = "ended"]
  /\ todo' = Teardown(r, req[r].n, req[r].bg, [i \in 1 .. req[r].n |-> Outcome(Stage(r, i))])
  /\ UNCHANGED <<req, tables, shell, invoked, outcome, signals, ghosts>>

-----------------------------------------------------------------------------
Request ==
  \/ \E r \in Requests, t \in Terminals, n \in 1 .. MaxStages, bg \in BOOLEAN, kind \in Kinds :
       Exec(r, t, n, bg, kind)
  \/ \E r \in Requests : Cancel(r)
  \/ \E p \in Procs, sig \in Signals : state[p] # "none" /\ Signal(<<p>>, sig)
  \/ \E r \in Requests, sig \in Signals : state[Stage(r, 1)] # "none" /\ Signal(Members(r), sig)
  \/ \E t \in Terminals : Interrupt(t)

EventLoop ==
  \/ \E r \in Requests, i \in 1 .. MaxStages : Enter(r, i)
  \/ \E p \in Procs : Settle(p)
  \/ \E r \in Requests : DriveEnds(r)

Next == Request \/ KernelStep \/ EventLoop

\* A call runs to its end; the event loop gets to every command; every command
\* returns in the end (a stopped one because it notices, or because its channel
\* was abandoned).
Fairness ==
  /\ WF_vars(KernelStep)
  /\ \A r \in Requests : WF_vars(DriveEnds(r))
  /\ \A r \in Requests, i \in 1 .. MaxStages : WF_vars(Enter(r, i))
  /\ \A p \in Procs : WF_vars(Settle(p))

Spec == Init /\ [][Next]_vars /\ Fairness

-----------------------------------------------------------------------------
(* Properties.                                                             *)

TypeOK ==
  /\ req \in [Requests -> [n : 1 .. MaxStages, bg : BOOLEAN, kind : Kinds \cup {"none"},
                           term : Terminals]]
  /\ \A i \in DOMAIN todo : todo[i].p \in Procs
  /\ state \in [Procs -> {"none", "created", "running", "stopping", "exited"}]
  /\ code \in [Procs -> Results \cup {"none"}]
  /\ finished \subseteq Procs /\ registered \subseteq Procs /\ aborted \subseteq Procs
  /\ delivered \in [Procs -> Signals \cup {"none"}]
  /\ fg \in [Terminals -> Requests \cup {None}]
  /\ job \in [Requests -> {"none", "Running", "Completed", "Failed", "Stopped"}]
  /\ cancelled \subseteq Requests
  /\ drive \in [Requests -> {"none", "running", "ended"}]
  /\ invoked \subseteq Procs /\ outcome \in [Procs -> Results \cup {"none"}]
  /\ status \in [Terminals -> Requests \cup {None}]
  /\ signals \in Nat
  /\ exits \in [Procs -> Nat] /\ early \subseteq Requests
  /\ committed \subseteq Requests /\ latest \in [Terminals -> Requests \cup {None}]

Quiet == todo = <<>>
Ended(r) == Quiet /\ (drive[r] = "ended" \/ req[r].kind = "unknown")

\* The page's invariant, one exit per process: never two, whatever kill, cancel
\* and late return meet, and none missing once the request has ended.
OneExit ==
  /\ \A p \in Procs : exits[p] <= 1
  /\ \A r \in Submitted : Ended(r) => \A p \in Stages(r) : exits[p] = 1

\* A request cancelled before its stages were registered, from a listener
\* included, enters no command ("must mean it does not start").
EarlyCancelNeverRuns == \A r \in early : invoked \cap Stages(r) = {}

\* When a foreground pipeline that ran reports an exit, and no kill cut in, the
\* terminal's $? has already been written (the order of teardown).
StatusBeforeExit ==
  \A r \in Submitted :
    (req[r].kind = "ok" /\ ~req[r].bg) =>
      \A p \in Stages(r) : exits[p] > 0 /\ code[p] # "SIGKILL" => r \in committed

\* Between two calls, Ctrl+C reaches the last foreground pipeline of the
\* terminal for as long as any stage of it can be signalled.
CtrlCReachesLatest ==
  Quiet => \A t \in Terminals :
    latest[t] # None /\ Stages(latest[t]) \cap registered # {} => fg[t] = latest[t]

\* A job says what its pipeline did: not Running once the pipeline has ended or
\* any stage of it was stopped, and not finished before.
JobTellsTheTruth ==
  Quiet => \A r \in Submitted : req[r].bg /\ req[r].kind # "refused" =>
    (job[r] = "Running" <=> ~Ended(r) /\ \A p \in Stages(r) : code[p] \notin Signals)

\* A kill is not one a command can ignore: by the end of the call that delivers
\* it the process has exited, though its command may still be running.
KillIsNotIgnored ==
  Quiet => \A p \in Procs : delivered[p] = "SIGKILL" => state[p] = "exited"

\* An exit is final: a command that returns after it was killed changes nothing
\* of what was reported.
FirstExitWins ==
  [][\A p \in Procs : state[p] = "exited" => state'[p] = "exited" /\ code'[p] = code[p]]_vars

\* Every accepted exec that is not refused comes to an exit for each stage.
EveryExecExits ==
  \A r \in Requests :
    req[r].kind \in {"ok", "unknown"} ~> \A p \in Stages(r) : exits[p] = 1

\* The comment of teardown: "the terminal's $? and $LASTEXITCODE are committed
\* first, then the exits are published".
StatusAlwaysFirst ==
  \A r \in Submitted : ~req[r].bg =>
    \A p \in Stages(r) : exits[p] > 0 /\ code[p] # "SIGKILL" => r \in committed
=============================================================================
