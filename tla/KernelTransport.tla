--------------------------- MODULE KernelTransport ---------------------------
(***************************************************************************)
(* The terminal's client of the kernel (client.ts), the channel between    *)
(* them (transport.ts) and the wiring on the worker's side (serve.ts).     *)
(* The kernel itself is its transcript: what it publishes for a request,   *)
(* in which order; KernelProcesses has the reasons.                        *)
(*                                                                         *)
(* Channels keep their order.  A post that throws loses an event for good, *)
(* and the model also lets the far side repeat one.  #receive queues what  *)
(* arrives inside a listener's own call, so that an event is checked and   *)
(* routed at its own place in the order: one step here.                    *)
(***************************************************************************)
EXTENDS Naturals, Sequences, FiniteSets, SequencesExt

CONSTANTS
  Ids,        \* request ids
  MaxStages,  \* bound: stages of a pipeline
  MaxCalls,   \* bound: calls of exec and run
  MaxOutput,  \* bound: values and error records
  MaxFaults   \* bound: events lost or repeated

VARIABLES
  toKernel, toClient,  \* the channel, one way and the other
  seq,        \* #sequence of the kernel
  jobs,       \* per submitted request: its transcript
  forgone,    \* #cancelled of the kernel: requests cancelled before they came
  pending,    \* #pending: per request somebody waits for, what has arrived
  owner,      \* #processRequests
  lastSeq,    \* #lastSequence
  gaps,       \* #violationCount
  closed,
  outcomes,   \* per call of run: the outcomes its promise was settled with
  calls,      \* counter
  faults      \* counter

transportVars == <<toKernel, toClient, seq, jobs, forgone, pending, owner, lastSeq,
                   gaps, closed, outcomes, calls, faults>>
clientVars == <<pending, owner, lastSeq, gaps, closed, outcomes>>
kernelVars == <<seq, jobs, forgone>>

With(f, k, v) == [x \in DOMAIN f \cup {k} |-> IF x = k THEN v ELSE f[x]]
Without(f, K) == [x \in DOMAIN f \ K |-> f[x]]

TypeOK ==
  /\ DOMAIN jobs \subseteq Ids /\ forgone \subseteq Ids /\ DOMAIN pending \subseteq Ids
  /\ \A id \in DOMAIN jobs : jobs[id].live \subseteq 1..jobs[id].n
  /\ \A i \in DOMAIN toClient : toClient[i].seq \in 1..seq
  /\ lastSeq \in 0..seq /\ gaps \in Nat /\ calls \in 0..MaxCalls
  /\ DOMAIN outcomes \subseteq 1..MaxCalls

Init ==
  /\ toKernel = <<>> /\ toClient = <<>> /\ seq = 0 /\ jobs = <<>> /\ forgone = {}
  /\ pending = <<>> /\ owner = <<>> /\ lastSeq = 0 /\ gaps = 0
  /\ closed = FALSE /\ outcomes = <<>> /\ calls = 0 /\ faults = 0

-----------------------------------------------------------------------------
(* The client's requests.                                                  *)

\* The caller knows the id to be free: it is new, or run() has answered for it.
\* (An id that exec submitted is not refused by a run of it: see the README.)
Reusable(id) == /\ id \notin DOMAIN pending
                /\ \A i \in DOMAIN toKernel : toKernel[i].id # id
                /\ id \in DOMAIN jobs => jobs[id].call \in DOMAIN outcomes

Submit(id, waits) ==
  /\ ~closed /\ calls < MaxCalls /\ calls' = calls + 1 /\ Reusable(id)
  /\ pending' = IF waits
                THEN With(pending, id, [call |-> calls + 1, procs |-> {}, exits |-> <<>>,
                                        values |-> 0, errors |-> <<>>])
                ELSE pending
  /\ toKernel' = Append(toKernel, [kind |-> "exec", id |-> id, call |-> calls + 1])
  /\ UNCHANGED <<toClient, kernelVars, owner, lastSeq, gaps, closed, outcomes, faults>>

Cancel(id) ==
  /\ ~closed /\ calls < MaxCalls /\ calls' = calls + 1
  /\ toKernel' = Append(toKernel, [kind |-> "cancel", id |-> id, call |-> 0])
  /\ UNCHANGED <<toClient, kernelVars, clientVars, faults>>

Outcome(p, rejected) ==
  [rejected |-> rejected, exits |-> p.exits, values |-> p.values, errors |-> p.errors]
Settled(c, outcome) ==
  With(outcomes, c, Append(IF c \in DOMAIN outcomes THEN outcomes[c] ELSE <<>>, outcome))

\* Everything that waits is settled, and what is still under way is dropped.
Close ==
  /\ ~closed /\ closed' = TRUE
  /\ outcomes' = [c \in DOMAIN outcomes \cup {pending[id].call : id \in DOMAIN pending} |->
       IF \E id \in DOMAIN pending : pending[id].call = c
       THEN LET id == CHOOSE i \in DOMAIN pending : pending[i].call = c
            IN <<Outcome(pending[id], "closed")>>
       ELSE outcomes[c]]
  /\ pending' = <<>> /\ owner' = <<>> /\ toClient' = <<>>
  /\ UNCHANGED <<toKernel, kernelVars, lastSeq, gaps, calls, faults>>

-----------------------------------------------------------------------------
(* The kernel's side: it publishes, and serveKernel posts.  It is let      *)
(* publish when the client has caught up: how far behind the client is, it *)
(* only tells by what it calls meanwhile, and that is under way anyhow.    *)

Publish(events) ==
  /\ ~closed /\ toClient = <<>>
  /\ seq' = seq + Len(events)
  /\ toClient' = [i \in DOMAIN events |->
                     [kind |-> events[i].kind, id |-> events[i].id, pid |-> events[i].pid, seq |-> seq + i]]

Proc(id, s) == [kind |-> "process-changed", id |-> id, pid |-> <<id, s>>]
Exit(id, s) == [kind |-> "exit", id |-> id, pid |-> <<id, s>>]
Announced(id, n) == [s \in 1..n |-> Proc(id, s)]
Ended(id, ss)    ==
  [i \in 1..(2 * Len(ss)) |-> IF i % 2 = 1 THEN Proc(id, ss[(i + 1) \div 2]) ELSE Exit(id, ss[i \div 2])]
Rejected(id)     == <<[kind |-> "rejected", id |-> id, pid |-> <<>>]>>

Job(c, n, live, exits) ==
  [call |-> c, n |-> n, live |-> live, exits |-> exits, values |-> 0, errors |-> <<>>]

\* One message from the client.  An exec is refused, or its processes are all
\* announced before any of them runs; one that was cancelled before it came
\* ends without running.
Take(n) ==
  /\ ~closed /\ toKernel # <<>> /\ toKernel' = Tail(toKernel)
  /\ LET m == Head(toKernel) IN
     IF m.kind = "cancel"
     THEN \* The commands of a live pipeline notice in their own time.
          /\ n = 0
          /\ forgone' = IF m.id \in DOMAIN jobs /\ jobs[m.id].n > 0 THEN forgone
                        ELSE forgone \cup {m.id}
          /\ UNCHANGED <<toClient, seq, jobs>>
     ELSE IF m.id \in DOMAIN jobs
     THEN /\ n = 0 /\ Publish(Rejected(m.id)) /\ UNCHANGED <<jobs, forgone>>
     ELSE IF n = 0
     THEN /\ jobs' = With(jobs, m.id, Job(m.call, 0, {}, <<>>))
          /\ Publish(Rejected(m.id)) /\ UNCHANGED forgone
     ELSE IF m.id \in forgone
     THEN LET all == [s \in 1..n |-> s] IN
          /\ jobs' = With(jobs, m.id, Job(m.call, n, {}, all))
          /\ forgone' = forgone \ {m.id}
          /\ Publish(Announced(m.id, n) \o Ended(m.id, all))
     ELSE /\ jobs' = With(jobs, m.id, Job(m.call, n, 1..n, <<>>))
          /\ Publish(Announced(m.id, n) \o Announced(m.id, n)) /\ UNCHANGED forgone
  /\ UNCHANGED <<clientVars, calls, faults>>

Outputs == FoldSet(LAMBDA id, n : n + jobs[id].values + Len(jobs[id].errors), 0, DOMAIN jobs)

\* An object leaves the pipeline.
Emit(id) ==
  /\ jobs[id].live # {} /\ Outputs < MaxOutput
  /\ Publish(<<[kind |-> "objects", id |-> id, pid |-> <<>>]>>)
  /\ jobs' = [jobs EXCEPT ![id].values = @ + 1]
  /\ UNCHANGED <<toKernel, forgone, clientVars, calls, faults>>

\* A stage that has exited has its streams closed.
EmitError(id, s) ==
  /\ s \in jobs[id].live /\ Outputs < MaxOutput
  /\ Publish(<<[kind |-> "stream", id |-> id, pid |-> <<id, s>>]>>)
  /\ jobs' = [jobs EXCEPT ![id].errors = Append(@, s)]
  /\ UNCHANGED <<toKernel, forgone, clientVars, calls, faults>>

InOrder(S) == {ss \in [1..Cardinality(S) -> S] : \A i, j \in DOMAIN ss : i < j => ss[i] < ss[j]}

\* One stage is killed, or the teardown ends all that are left, in order.
Ends(id, S) ==
  /\ S # {} /\ S \subseteq jobs[id].live
  /\ Cardinality(S) = 1 \/ S = jobs[id].live
  /\ \E ss \in InOrder(S) :
     /\ jobs' = [jobs EXCEPT ![id].live = @ \ S, ![id].exits = @ \o ss]
     /\ Publish(Ended(id, ss))
  /\ UNCHANGED <<toKernel, forgone, clientVars, calls, faults>>

\* serve.ts: the post threw, and is not retried.
Lose ==
  /\ faults < MaxFaults /\ faults' = faults + 1
  /\ toClient # <<>> /\ toClient' = Tail(toClient)
  /\ UNCHANGED <<toKernel, kernelVars, clientVars, calls>>

Repeat ==
  /\ faults < MaxFaults /\ faults' = faults + 1
  /\ toClient # <<>> /\ toClient' = <<Head(toClient)>> \o toClient
  /\ UNCHANGED <<toKernel, kernelVars, clientVars, calls>>

-----------------------------------------------------------------------------
(* The client's events.                                                    *)

\* #settle.
Settle(id, p, rejected) ==
  /\ pending' = Without(pending, {id}) /\ owner' = Without(owner, p.procs)
  /\ outcomes' = Settled(p.call, Outcome(p, rejected))


\* slip: the exits of a pipeline are counted before its processes are known.
RouteExitFirst(e) ==
  LET p == [pending[e.id] EXCEPT !.exits = Append(@, e.pid)] IN
  Settle(e.id, p, "no")

RouteExit(e) ==
  LET p == [pending[e.id] EXCEPT !.exits = Append(@, e.pid)] IN
  IF p.procs # {} /\ Len(p.exits) >= Cardinality(p.procs)
  THEN Settle(e.id, p, "no")
  ELSE pending' = [pending EXCEPT ![e.id] = p] /\ UNCHANGED <<owner, outcomes>>

\* slip: a refusal is only looked for among the requests that have processes.
RouteRejectedLate(e) ==
  IF pending[e.id].procs # {} THEN Settle(e.id, pending[e.id], "yes")
  ELSE UNCHANGED <<pending, owner, outcomes>>

RouteRejected(e) == Settle(e.id, pending[e.id], "yes")

\* #route; a listener then does what it likes, which the other actions are.
Route(e) ==
  IF e.kind = "stream"
  THEN /\ pending' = IF e.pid \in DOMAIN owner /\ owner[e.pid] \in DOMAIN pending
                     THEN [pending EXCEPT ![owner[e.pid]].errors = Append(@, e.pid)]
                     ELSE pending
       /\ UNCHANGED <<owner, outcomes>>
  ELSE IF e.id \notin DOMAIN pending THEN UNCHANGED <<pending, owner, outcomes>>
  ELSE CASE e.kind = "process-changed" ->
              /\ pending' = [pending EXCEPT ![e.id].procs = @ \cup {e.pid}]
              /\ owner' = With(owner, e.pid, e.id) /\ UNCHANGED outcomes
         [] e.kind = "objects" ->
              /\ pending' = [pending EXCEPT ![e.id].values = @ + 1]
              /\ UNCHANGED <<owner, outcomes>>
         [] e.kind = "exit" -> RouteExit(e)
         [] e.kind = "rejected" -> RouteRejected(e)

\* slip: a number that repeats is delivered, like one that jumps.
ReceiveRepeats ==
  /\ toClient # <<>> /\ toClient' = Tail(toClient)
  /\ LET e == Head(toClient) IN
     /\ lastSeq' = e.seq /\ Route(e)
     /\ gaps' = IF e.seq > lastSeq + 1 THEN gaps + 1 ELSE gaps
  /\ UNCHANGED <<toKernel, kernelVars, closed, calls, faults>>

\* #receive: a repeat is dropped, a gap is reported and what came all the same
\* is delivered.
Receive ==
  /\ toClient # <<>> /\ toClient' = Tail(toClient)
  /\ LET e == Head(toClient) IN
     IF e.seq <= lastSeq
     THEN gaps' = gaps + 1 /\ UNCHANGED <<lastSeq, pending, owner, outcomes>>
     ELSE /\ lastSeq' = e.seq /\ Route(e)
          /\ gaps' = IF e.seq > lastSeq + 1 THEN gaps + 1 ELSE gaps
  /\ UNCHANGED <<toKernel, kernelVars, closed, calls, faults>>

-----------------------------------------------------------------------------
Finishes == \E id \in DOMAIN jobs : Ends(id, jobs[id].live)
Moves    == (\E n \in 0..MaxStages : Take(n)) \/ Receive
Next ==
  \/ \E id \in Ids, waits \in BOOLEAN : Submit(id, waits)
  \/ \E id \in Ids : Cancel(id)
  \/ Close \/ Moves \/ Lose \/ Repeat
  \/ \E id \in DOMAIN jobs : Emit(id)
  \/ \E id \in DOMAIN jobs, s \in 1..MaxStages : EmitError(id, s)
  \/ \E id \in DOMAIN jobs : \E S \in SUBSET (1..MaxStages) : Ends(id, S)
Fairness == WF_transportVars(Moves) /\ WF_transportVars(Finishes)
Spec == Init /\ [][Next]_transportVars /\ Fairness

-----------------------------------------------------------------------------
(* What a promise of run() is settled with is the kernel's answer: rejected
   exactly when the kernel refused that submission, and otherwise every exit
   and all that was published before the last of them, in order; unless an
   event was lost, which has then been reported. *)
Pids(id, ss) == [i \in DOMAIN ss |-> <<id, ss[i]>>]
OutcomeIsWhole ==
  \A c \in DOMAIN outcomes : LET o == outcomes[c][1] IN
    gaps = 0 /\ o.rejected # "closed" =>
      IF o.rejected = "yes"
      THEN ~\E id \in DOMAIN jobs : jobs[id].call = c /\ jobs[id].n > 0
      ELSE \E id \in DOMAIN jobs :
             /\ jobs[id].call = c /\ jobs[id].n > 0 /\ jobs[id].live = {}
             /\ o.exits = Pids(id, jobs[id].exits)
             /\ o.values = jobs[id].values /\ o.errors = Pids(id, jobs[id].errors)

(* A repeated event changes nothing: what has been delivered, and what waits to
   be, never has the same event twice, so no promise is settled by an exit that
   was counted twice. *)
NothingTwice ==
  /\ \A c \in DOMAIN outcomes :
       Len(outcomes[c]) = 1 /\ IsInjective(outcomes[c][1].exits)
  /\ \A id \in DOMAIN pending : IsInjective(pending[id].exits)

(* The map from processes to requests holds the processes of requests somebody
   waits for and no others: it does not grow with the session. *)
NoDeadPids == \A pid \in DOMAIN owner : owner[pid] \in DOMAIN pending
                                          /\ pid \in pending[owner[pid]].procs

TransportSound == OutcomeIsWhole /\ NothingTwice /\ NoDeadPids

(* Where every behaviour ends up: every promise of run() is settled, if the
   commands end and no event is lost ("the honest limit" of client.ts). *)
AllSettled == DOMAIN pending = {} \/ faults > 0
=============================================================================
