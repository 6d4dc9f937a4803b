--------------------------- MODULE StorageWorker ---------------------------
(***************************************************************************)
(* The OPFS backend behind postMessage (opfs-worker.ts, opfs.ts).  The     *)
(* page numbers its calls and has no timeout; the worker starts a handler  *)
(* for each message as it comes, reads go straight to the tree in memory,  *)
(* and mutations and checkpoints stand in the backend's own queue, whose   *)
(* operations await in the middle.  sync does not queue.                   *)
(*                                                                         *)
(* The tree is two files that every mutation changes together; a           *)
(* checkpoint exports them one after the other.                            *)
(***************************************************************************)
EXTENDS Naturals, Sequences, FiniteSets, SequencesExt

CONSTANTS MaxCalls  \* bound: calls of the page

Halves == {"left", "right"}
Empty  == [h \in Halves |-> <<>>]

VARIABLES
  calls,    \* what the page has called, in order: the id is the position
  waiting,  \* #waiting: ids without a reply
  inbox,    \* messages to the worker
  outbox,   \* replies to the page
  queue,    \* #queue: ids of mutations and checkpoints; the first one runs
  stage,    \* how far the first one has come
  halves,   \* the tree in memory: the mutations each half has seen
  draft,    \* what the running checkpoint has read
  saved,    \* the newest checkpoint
  answers,  \* per id: what the page was told
  known,    \* ghost, per id: the mutations the page had been told of by then
  alive

workerVars == <<calls, waiting, inbox, outbox, queue, stage, halves, draft, saved,
                answers, known, alive>>

Kinds == {"read", "write", "checkpoint", "sync"}
Told  == {id \in DOMAIN answers : calls[id] = "write" /\ answers[id].ok}

TypeOK ==
  /\ calls \in Seq(Kinds) /\ waiting \subseteq DOMAIN calls
  /\ DOMAIN known = DOMAIN calls /\ DOMAIN answers \subseteq DOMAIN calls
  /\ \A i \in DOMAIN queue : calls[queue[i]] \in {"write", "checkpoint"}
  /\ stage \in {"idle", "logged", "applied", "left", "right", "saving"}

Init ==
  /\ calls = <<>> /\ waiting = {} /\ inbox = <<>> /\ outbox = <<>> /\ queue = <<>>
  /\ stage = "idle" /\ halves = Empty /\ draft = Empty /\ saved = Empty
  /\ answers = <<>> /\ known = <<>> /\ alive = TRUE

\* #send and #control.
Call(kind) ==
  LET id == Len(calls) + 1 IN
  /\ id <= MaxCalls
  /\ calls' = Append(calls, kind) /\ waiting' = waiting \cup {id}
  /\ inbox' = Append(inbox, id) /\ known' = Append(known, Told)
  /\ UNCHANGED <<outbox, queue, stage, halves, draft, saved, answers, alive>>

Reply(id, answer) == outbox' = Append(outbox, [id |-> id, answer |-> answer])
Done(value) == [ok |-> TRUE, value |-> value]
Failed      == [ok |-> FALSE, value |-> <<>>]

\* slip: the worker has a queue of its own, and reads take their turn in it.
ReceiveInTurn ==
  /\ alive /\ inbox # <<>> /\ inbox' = Tail(inbox)
  /\ IF calls[Head(inbox)] \in {"read", "sync"}
     THEN queue = <<>> /\ Reply(Head(inbox), Done(halves["left"])) /\ UNCHANGED queue
     ELSE queue' = <<Head(inbox)>> \o queue /\ UNCHANGED outbox
  /\ UNCHANGED <<calls, waiting, stage, halves, draft, saved, answers, known, alive>>

\* The message handler: reads and sync answer at once, the rest queues.
Receive ==
  /\ alive /\ inbox # <<>> /\ inbox' = Tail(inbox)
  /\ IF calls[Head(inbox)] \in {"read", "sync"}
     THEN Reply(Head(inbox), Done(halves["left"])) /\ UNCHANGED queue
     ELSE queue' = Append(queue, Head(inbox)) /\ UNCHANGED outbox
  /\ UNCHANGED <<calls, waiting, stage, halves, draft, saved, answers, known, alive>>

Running == alive /\ queue # <<>>
Runs(kind, at) == Running /\ calls[Head(queue)] = kind /\ stage = at

\* The operation at the head is over, with or without an error.
Leave(answer) == Reply(Head(queue), answer) /\ queue' = Tail(queue) /\ stage' = "idle"

\* #commit: the plan is in the log ...
Log ==
  /\ Runs("write", "idle") /\ stage' = "logged"
  /\ UNCHANGED <<calls, waiting, inbox, outbox, queue, halves, draft, saved, answers, known, alive>>

\* ... and applied to the whole tree in one turn.
ApplyWrite ==
  /\ Runs("write", "logged") /\ stage' = "applied"
  /\ halves' = [h \in Halves |-> Append(halves[h], Head(queue))]
  /\ UNCHANGED <<calls, waiting, inbox, outbox, queue, draft, saved, answers, known, alive>>

\* #durable: the mutation is answered, unless a checkpoint is due first.
Answer ==
  /\ Runs("write", "applied") /\ Leave(Done(<<>>))
  /\ UNCHANGED <<calls, waiting, inbox, halves, draft, saved, answers, known, alive>>

BeginExport ==
  /\ Runs("write", "applied") \/ Runs("checkpoint", "idle")
  /\ stage' = "left"
  /\ UNCHANGED <<calls, waiting, inbox, outbox, queue, halves, draft, saved, answers, known, alive>>

\* createSnapshot, with an await for every node.
Export(h) ==
  /\ Running /\ stage = h
  /\ draft' = [draft EXCEPT ![h] = halves[h]]
  /\ stage' = IF h = "left" THEN "right" ELSE "saving"
  /\ UNCHANGED <<calls, waiting, inbox, outbox, queue, halves, saved, answers, known, alive>>

Save ==
  /\ Running /\ stage = "saving"
  /\ saved' = draft /\ Leave(Done(<<>>))
  /\ UNCHANGED <<calls, waiting, inbox, halves, draft, answers, known, alive>>

\* slip: an operation that failed is never answered.
FailsInSilence ==
  /\ Running /\ stage # "idle" /\ queue' = Tail(queue) /\ stage' = "idle"
  /\ UNCHANGED <<calls, waiting, inbox, outbox, halves, draft, saved, answers, known, alive>>

\* An error, or an exception the handler catches: the answer says so, and the
\* next operation starts all the same.
Fails ==
  /\ Running /\ stage # "idle" /\ Leave(Failed)
  /\ UNCHANGED <<calls, waiting, inbox, halves, draft, saved, answers, known, alive>>

\* The page's listener settles the call the reply names.
Settle ==
  /\ outbox # <<>> /\ outbox' = Tail(outbox)
  /\ LET r == Head(outbox) IN
     IF r.id \in waiting
     THEN /\ waiting' = waiting \ {r.id}
          /\ answers' = [id \in DOMAIN answers \cup {r.id} |->
                           IF id = r.id THEN r.answer ELSE answers[id]]
     ELSE UNCHANGED <<waiting, answers>>
  /\ UNCHANGED <<calls, inbox, queue, stage, halves, draft, saved, known, alive>>

Dies ==
  /\ alive /\ alive' = FALSE
  /\ UNCHANGED <<calls, waiting, inbox, outbox, queue, stage, halves, draft, saved, answers, known>>

Works == Receive \/ Log \/ ApplyWrite \/ Answer \/ BeginExport
         \/ (\E h \in Halves : Export(h)) \/ Save \/ Fails
Next == (\E kind \in Kinds : Call(kind)) \/ Works \/ Settle \/ Dies
Fairness == WF_workerVars(Works) /\ WF_workerVars(Settle)
Spec == Init /\ [][Next]_workerVars /\ Fairness

-----------------------------------------------------------------------------
(* A read sees every mutation whose answer the page had when it asked, however
   many handlers the worker has started since. *)
ReadsAreNotStale ==
  \A id \in DOMAIN answers : calls[id] = "read"
    => known[id] \subseteq ToSet(answers[id].value)

(* "Overlapping calls are legal, well-defined and ordered": mutations take
   effect in the order they were called. *)
CallsTakeEffectInOrder ==
  \A h \in Halves : \A i, j \in DOMAIN halves[h] : i < j => halves[h][i] < halves[h][j]

(* A checkpoint is a tree that existed, although its export awaits between one
   node and the next. *)
CheckpointIsATree == saved["left"] = saved["right"]

WorkerSound == ReadsAreNotStale /\ CallsTakeEffectInOrder /\ CheckpointIsATree

(* Where every behaviour ends up.  There is no timeout: a call is answered
   unless the worker dies. *)
AllAnswered == waiting = {} \/ ~alive
=============================================================================
