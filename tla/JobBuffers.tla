----------------------------- MODULE JobBuffers -----------------------------
(***************************************************************************)
(* The job manager (kernel/process/jobs.ts): a job per background process, *)
(* with bounded buffers for what the process emits.  record and finish     *)
(* come by pid, from a process that may outlive its job; receive,          *)
(* transition and remove come by job id.  Listeners get the read-only      *)
(* view, so an announcement changes nothing here.                          *)
(*                                                                         *)
(* What a process emits is numbered, values and errors apart.              *)
(***************************************************************************)
EXTENDS Naturals, Sequences, FiniteSets, FiniteSetsExt

CONSTANTS
  Pids,      \* background processes, each started once
  Limits,    \* [values |-> JOB_VALUE_LIMIT, errors |-> JOB_ERROR_LIMIT]
  MaxEmitted \* bound: what the processes emit between them

Streams == {"values", "errors"}
Finished == {"Stopped", "Completed", "Failed"}
Live     == {"Running", "Blocked", "Stopping"}
States   == Live \cup Finished

VARIABLES
  nextId,   \* #nextId
  jobs,     \* #jobs: per id, pid, state, hasMoreData, exitCode, dropped, buffers
  byPid,    \* #byPid
  emitted,  \* ghost: what each process has emitted, per stream
  taken     \* ghost: what receive has handed out of each job, per stream

jobVars == <<nextId, jobs, byPid, emitted, taken>>

Nothing == [s \in Streams |-> 0]
Buffers == [s \in Streams |-> <<>>]
Code == {0, 1}
NoCode == 2

TypeOK ==
  /\ nextId \in 1..(Cardinality(Pids) + 1) /\ DOMAIN jobs \subseteq 1..(nextId - 1)
  /\ DOMAIN byPid \subseteq Pids
  /\ \A id \in DOMAIN jobs :
       /\ jobs[id].state \in States /\ jobs[id].exitCode \in Code \cup {NoCode}
       /\ \A s \in Streams : Len(jobs[id].buffers[s]) <= Limits[s]

Init ==
  /\ nextId = 1 /\ jobs = <<>> /\ byPid = <<>>
  /\ emitted = [p \in Pids |-> Nothing] /\ taken = [p \in Pids |-> Nothing]

Restricted(f, S) == [x \in S |-> f[x]]
Extended(f, x, v) == [y \in DOMAIN f \cup {x} |-> IF y = x THEN v ELSE f[y]]

Start(pid) ==
  /\ \A id \in DOMAIN jobs : jobs[id].pid # pid
  /\ pid \notin DOMAIN byPid /\ emitted[pid] = Nothing /\ nextId <= Cardinality(Pids)
  /\ nextId' = nextId + 1
  /\ jobs' = Extended(jobs, nextId,
       [pid |-> pid, state |-> "Running", hasMoreData |-> FALSE, exitCode |-> NoCode,
        dropped |-> Nothing, buffers |-> Buffers])
  /\ byPid' = Extended(byPid, pid, nextId)
  /\ UNCHANGED <<emitted, taken>>

\* appendBounded: the buffer, and what fell out of it.
Bounded(buffer, item, limit) ==
  LET all == Append(buffer, item)
      excess == IF Len(all) > limit THEN Len(all) - limit ELSE 0
  IN [buffer |-> SubSeq(all, excess + 1, Len(all)), excess |-> excess]

Produced == MapThenSumSet(LAMBDA p : emitted[p]["values"] + emitted[p]["errors"], Pids)

\* slip: the drop is counted from the snapshot taken before it.
RecordUncounted(pid, stream) ==
  LET item == emitted[pid][stream] + 1 IN
  /\ Produced < MaxEmitted
  /\ emitted' = [emitted EXCEPT ![pid][stream] = item]
  /\ IF pid \notin DOMAIN byPid THEN UNCHANGED jobs
     ELSE LET b == Bounded(jobs[byPid[pid]].buffers[stream], item, Limits[stream]) IN
          jobs' = [jobs EXCEPT ![byPid[pid]].buffers[stream] = b.buffer,
                               ![byPid[pid]].dropped[stream] = b.excess,
                               ![byPid[pid]].hasMoreData = TRUE]
  /\ UNCHANGED <<nextId, byPid, taken>>

\* record and recordError.
Record(pid, stream) ==
  LET item == emitted[pid][stream] + 1 IN
  /\ Produced < MaxEmitted
  /\ emitted' = [emitted EXCEPT ![pid][stream] = item]
  /\ IF pid \notin DOMAIN byPid THEN UNCHANGED jobs
     ELSE LET b == Bounded(jobs[byPid[pid]].buffers[stream], item, Limits[stream]) IN
          jobs' = [jobs EXCEPT ![byPid[pid]].buffers[stream] = b.buffer,
                               ![byPid[pid]].dropped[stream] = @ + b.excess,
                               ![byPid[pid]].hasMoreData = TRUE]
  /\ UNCHANGED <<nextId, byPid, taken>>

\* receive without keep; with it nothing changes.
Receive(id) ==
  /\ id \in DOMAIN jobs
  /\ taken' = [taken EXCEPT ![jobs[id].pid] =
                 [s \in Streams |-> @[s] + Len(jobs[id].buffers[s])]]
  /\ jobs' = [jobs EXCEPT ![id].buffers = Buffers, ![id].hasMoreData = FALSE]
  /\ UNCHANGED <<nextId, byPid, emitted>>

Transition(id, state) ==
  /\ id \in DOMAIN jobs /\ jobs[id].state \notin Finished
  /\ jobs' = [jobs EXCEPT ![id].state = state]
  /\ UNCHANGED <<nextId, byPid, emitted, taken>>

Finish(pid, code, signalled) ==
  /\ pid \in DOMAIN byPid /\ jobs[byPid[pid]].state \notin Finished
  /\ jobs' = [jobs EXCEPT ![byPid[pid]].exitCode = code,
                          ![byPid[pid]].state = IF signalled THEN "Stopped"
                                                ELSE IF code = 0 THEN "Completed" ELSE "Failed"]
  /\ UNCHANGED <<nextId, byPid, emitted, taken>>

Remove(id, force) ==
  /\ id \in DOMAIN jobs /\ (force \/ jobs[id].state \in Finished)
  /\ byPid' = Restricted(byPid, DOMAIN byPid \ {jobs[id].pid})
  /\ jobs' = Restricted(jobs, DOMAIN jobs \ {id})
  /\ UNCHANGED <<nextId, emitted, taken>>

Next ==
  \/ \E p \in Pids : Start(p) \/ (\E s \in Streams : Record(p, s))
                     \/ (\E c \in Code, signalled \in BOOLEAN : Finish(p, c, signalled))
  \/ \E id \in DOMAIN jobs : Receive(id) \/ (\E f \in BOOLEAN : Remove(id, f))
                             \/ (\E st \in Live : Transition(id, st))
Spec == Init /\ [][Next]_jobVars

-----------------------------------------------------------------------------
(* A buffer holds the newest of what its process emitted, oldest first, and what
   it no longer holds was either handed out or is in the dropped count. *)
NothingUnaccounted ==
  \A id \in DOMAIN jobs : \A s \in Streams :
    LET j == jobs[id]  n == Len(j.buffers[s])  all == emitted[j.pid][s] IN
    /\ all = taken[j.pid][s] + n + j.dropped[s]
    /\ \A i \in 1..n : j.buffers[s][i] = all - n + i

(* hasMoreData says whether a receive would return anything. *)
MoreDataIsTrue ==
  \A id \in DOMAIN jobs : jobs[id].hasMoreData = (\E s \in Streams : jobs[id].buffers[s] # <<>>)

(* The two maps describe the same jobs, so nothing is recorded for another. *)
PidsAgree ==
  /\ \A id \in DOMAIN jobs : jobs[id].pid \in DOMAIN byPid /\ byPid[jobs[id].pid] = id
  /\ \A p \in DOMAIN byPid : byPid[p] \in DOMAIN jobs

JobsSound == NothingUnaccounted /\ MoreDataIsTrue /\ PidsAgree

(* A job that has ended keeps its end: no late transition, signal or second exit
   rewrites its state or its exit code. *)
EndsOnce ==
  \A id \in DOMAIN jobs \cap DOMAIN jobs' :
    jobs[id].state \in Finished
      => jobs'[id].state = jobs[id].state /\ jobs'[id].exitCode = jobs[id].exitCode
=============================================================================
