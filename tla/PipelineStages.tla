---------------------------- MODULE PipelineStages ----------------------------
(***************************************************************************)
(* A pipeline of N commands: runPipelineStages over runCommand, each       *)
(* command between the guard around its input and the channel of its       *)
(* output.                                                                 *)
(*                                                                         *)
(* Stage i is three parties that run in turns: its command, the generator  *)
(* gen[i] that reads its channel for whoever comes after it, and guard[i]  *)
(* on the input, which asks gen[i - 1].  gen[0] is the empty input of the  *)
(* first command, guard[N + 1] the loop of runPipelineStages and whoever   *)
(* iterates it.  A step is what runs between two awaits; the order of      *)
(* steps that wait for different things is left open.                      *)
(***************************************************************************)
EXTENDS ObjectChannel

CONSTANTS
  N,          \* commands in the pipeline
  MaxValues   \* bound: values a command writes

ASSUME PipelineConstants == N \in Nat \ {0} /\ MaxValues \in Nat \ {0}

Stages  == 1 .. N
Sources == 0 .. N          \* the generators
Readers == 1 .. (N + 1)    \* who reads generator i - 1

VARIABLES
  ch,        \* the channel of each stage
  gen,       \* runCommand's generator: where it is suspended
  exit,      \* why it stopped yielding
  cmd,       \* the command: what it awaits, or how it settled
  guard,     \* guardedInput, and the loop of runPipelineStages
  sig,       \* stages whose process has been signalled
  stop,      \* stages whose consumer is gone (stageStop)
  received,  \* ghost: values each generator has yielded
  cut        \* ghost: stages signalled before their command had settled

vars == <<ch, gen, exit, cmd, guard, sig, stop, received, cut>>

Settled == {"returned", "threw"}

Init ==
  /\ ch = [i \in Stages |-> NewChannel]
  /\ gen = [i \in Sources |-> IF i = 0 THEN "done" ELSE "fresh"]
  /\ exit = [i \in Sources |-> IF i = 0 THEN "end" ELSE "none"]
  /\ cmd = [i \in Stages |-> "none"]
  /\ guard = [i \in Readers |-> "fresh"]
  /\ sig = {} /\ stop = {}
  /\ received = [i \in Stages |-> 0] /\ cut = {}

-----------------------------------------------------------------------------
(* Asking a generator for its next value, and telling it to stop.          *)

\* Reader i asks generator i - 1.  A generator that never ran enters its
\* command, whose channel has failed already if the signal came first.
Pull(i, commands) ==
  LET j == i - 1 IN
  /\ guard' = [guard EXCEPT ![i] = "pulling"]
  /\ \/ /\ gen[j] = "fresh"
        /\ gen' = [gen EXCEPT ![j] = "starting"]
        /\ cmd' = [commands EXCEPT ![j] = "ready"]
        /\ ch' = IF j \in sig THEN [ch EXCEPT ![j] = Fail(@)] ELSE ch
     \/ /\ gen[j] = "yielded"
        /\ gen' = [gen EXCEPT ![j] = "waiting"]
        /\ cmd' = commands
        /\ ch' = [ch EXCEPT ![j] = Ask(@)]
     \/ /\ gen[j] = "done"
        /\ cmd' = commands
        /\ UNCHANGED <<gen, ch>>

\* slip: the signal is looked at only once there is a value.
GuardNextLate(i, commands) == Pull(i, commands)

\* guardedInput: the signal is checked before the pull.
GuardNext(i, commands) ==
  IF i \in sig \cup stop
  THEN /\ guard' = [guard EXCEPT ![i] = "leaving"]
       /\ cmd' = commands
       /\ UNCHANGED <<gen, ch>>
  ELSE Pull(i, commands)

\* runCommand's finally: abandon and abort come before the command released
\* by the one can run, so it finds the other done.
Closing(i, why) ==
  /\ gen' = [gen EXCEPT ![i] = "closing"]
  /\ exit' = [exit EXCEPT ![i] = why]
  /\ ch' = [ch EXCEPT ![i] = [Abandon(@) EXCEPT !.reader = "none"]]
  /\ stop' = stop \cup {i}

\* The reader's return(): a generator that never ran is over at once.
Leave(i) ==
  LET j == i - 1 IN
  /\ guard[i] = "leaving"
  /\ guard' = [guard EXCEPT ![i] = "finishing"]
  /\ \/ /\ gen[j] = "fresh"
        /\ gen' = [gen EXCEPT ![j] = "done"]
        /\ exit' = [exit EXCEPT ![j] = "returned"]
        /\ UNCHANGED <<ch, stop>>
     \/ gen[j] = "yielded" /\ Closing(j, "returned")
     \/ gen[j] = "done" /\ UNCHANGED <<gen, exit, ch, stop>>
  /\ UNCHANGED <<cmd, sig, received, cut>>

-----------------------------------------------------------------------------
(* The generator of a stage.                                               *)

\* The first ask of the channel ends the turn in which its command was entered.
FirstAsk(i) ==
  /\ gen[i] = "starting"
  /\ gen' = [gen EXCEPT ![i] = "waiting"]
  /\ ch' = [ch EXCEPT ![i] = Ask(@)]
  /\ UNCHANGED <<exit, cmd, guard, sig, stop, received, cut>>

\* A value reaches the next command, or the drain that discards it, or the
\* loop of runPipelineStages, which checks the last stage's signal.
Receive(i) ==
  LET k == i + 1 IN
  /\ gen[i] = "waiting" /\ ch[i].reader = "value" /\ guard[k] = "pulling"
  /\ gen' = [gen EXCEPT ![i] = "yielded"]
  /\ ch' = [ch EXCEPT ![i].reader = "none"]
  /\ received' = [received EXCEPT ![i] = @ + 1]
  /\ guard' = [guard EXCEPT ![k] = IF i = N /\ N \in sig THEN "leaving" ELSE "yielded"]
  /\ cmd' = IF i < N /\ cmd[k] = "reading" THEN [cmd EXCEPT ![k] = "ready"] ELSE cmd
  /\ UNCHANGED <<exit, sig, stop, cut>>

\* The channel has ended or failed, and so does the generator.
ReaderEnds(i) ==
  /\ gen[i] = "waiting" /\ ch[i].reader \in {"end", "fail"}
  /\ Closing(i, ch[i].reader)
  /\ UNCHANGED <<cmd, guard, sig, received, cut>>

\* slip: the generator does not wait for its command.
GenDoneAtOnce(i) ==
  /\ gen[i] = "closing"
  /\ gen' = [gen EXCEPT ![i] = "done"]
  /\ UNCHANGED <<ch, exit, cmd, guard, sig, stop, received, cut>>

\* await running
GenDone(i) ==
  /\ gen[i] = "closing" /\ cmd[i] \in Settled
  /\ gen' = [gen EXCEPT ![i] = "done"]
  /\ UNCHANGED <<ch, exit, cmd, guard, sig, stop, received, cut>>

-----------------------------------------------------------------------------
(* The command of a stage.                                                 *)

\* The command has settled and, if it returned, its input is at its end.
Settle(i, how, input) ==
  /\ cmd' = [cmd EXCEPT ![i] = how]
  /\ ch' = [ch EXCEPT ![i] = IF how = "threw" \/ input = "fail" THEN Fail(@) ELSE Close(@)]

\* for await over the guarded input.
Read(i) ==
  /\ cmd[i] = "ready" /\ guard[i] \in {"fresh", "yielded"}
  /\ GuardNext(i, [cmd EXCEPT ![i] = "reading"])
  /\ UNCHANGED <<exit, sig, stop, received, cut>>

\* The guard's own loop is over, and with it what the command was doing: a
\* failed input is thrown into the command's loop, which may catch it.
LoopEnds(i) ==
  LET input == exit[i - 1] IN
  /\ guard[i] \in {"pulling", "finishing"} /\ gen[i - 1] = "done"
  /\ guard' = [guard EXCEPT ![i] = "done"]
  /\ \/ /\ cmd[i] = "breaking" \/ cmd[i] = "reading"
        /\ cmd' = [cmd EXCEPT ![i] = "ready"]
        /\ UNCHANGED ch
     \/ cmd[i] = "reading" /\ input = "fail" /\ Settle(i, "threw", input)
     \/ cmd[i] = "throwing" /\ Settle(i, "threw", input)
     \/ cmd[i] = "draining" /\ Settle(i, "returned", input)
  /\ UNCHANGED <<gen, exit, sig, stop, received, cut>>

\* A write of a closed channel returns at once.
Write(i) ==
  /\ cmd[i] = "ready" /\ ~Closed(ch[i]) /\ ch[i].writes < MaxValues
  /\ ch' = [ch EXCEPT ![i] = Written(@)]
  /\ cmd' = [cmd EXCEPT ![i] = IF Parks(ch'[i]) THEN "writing" ELSE "ready"]
  /\ UNCHANGED <<gen, exit, guard, sig, stop, received, cut>>

\* A parked write wakes, and parks again unless it is acknowledged or closed.
Wake(i) ==
  /\ cmd[i] = "writing" /\ ch[i].woken
  /\ ch' = [ch EXCEPT ![i].woken = FALSE]
  /\ cmd' = [cmd EXCEPT ![i] = IF Parks(ch[i]) THEN "writing" ELSE "ready"]
  /\ UNCHANGED <<gen, exit, guard, sig, stop, received, cut>>

\* break, or a return from inside the loop over the input.
Break(i) ==
  /\ cmd[i] = "ready" /\ guard[i] = "yielded"
  /\ cmd' = [cmd EXCEPT ![i] = "breaking"]
  /\ guard' = [guard EXCEPT ![i] = "leaving"]
  /\ UNCHANGED <<ch, gen, exit, sig, stop, received, cut>>

\* A throw from inside the loop leaves the loop first.
Throw(i) ==
  /\ cmd[i] = "ready"
  /\ \/ /\ guard[i] = "yielded"
        /\ cmd' = [cmd EXCEPT ![i] = "throwing"]
        /\ guard' = [guard EXCEPT ![i] = "leaving"]
        /\ UNCHANGED ch
     \/ /\ guard[i] # "yielded"
        /\ Settle(i, "threw", "none")
        /\ UNCHANGED guard
  /\ UNCHANGED <<gen, exit, sig, stop, received, cut>>

\* slip: an input nobody read is never asked for.
ReturnUndrained(i) ==
  /\ cmd[i] = "ready" /\ guard[i] \in {"fresh", "done"}
  /\ Settle(i, "returned", "end")
  /\ UNCHANGED <<gen, exit, guard, sig, stop, received, cut>>

\* The command returns and what is left of its input is drained.
Return(i) ==
  /\ cmd[i] = "ready"
  /\ \/ guard[i] = "done" /\ Settle(i, "returned", "end") /\ UNCHANGED <<gen, guard>>
     \/ guard[i] = "fresh" /\ GuardNext(i, [cmd EXCEPT ![i] = "draining"])
  /\ UNCHANGED <<exit, sig, stop, received, cut>>

\* The drained value is discarded.
Drain(i) ==
  /\ cmd[i] = "draining" /\ guard[i] = "yielded"
  /\ GuardNext(i, cmd)
  /\ UNCHANGED <<exit, sig, stop, received, cut>>

-----------------------------------------------------------------------------
(* The loop of runPipelineStages, whoever iterates it, and the signals.    *)

\* The first next() starts the last stage, and nothing runs before it.
Next1 ==
  /\ guard[N + 1] \in {"fresh", "yielded"}
  /\ Pull(N + 1, cmd)
  /\ UNCHANGED <<exit, sig, stop, received, cut>>

\* Whoever iterates the pipeline has enough, or throws.
Abandoned ==
  /\ guard[N + 1] = "yielded"
  /\ guard' = [guard EXCEPT ![N + 1] = "leaving"]
  /\ UNCHANGED <<ch, gen, exit, cmd, sig, stop, received, cut>>

PipelineEnds ==
  /\ guard[N + 1] \in {"pulling", "finishing"} /\ gen[N] = "done"
  /\ guard' = [guard EXCEPT ![N + 1] = "done"]
  /\ UNCHANGED <<ch, gen, exit, cmd, sig, stop, received, cut>>

\* slip: the listener aborts the command and leaves the channel alone.
SignalUnheard(i) ==
  /\ i \notin sig
  /\ sig' = sig \cup {i}
  /\ cut' = IF cmd[i] \in Settled THEN cut ELSE cut \cup {i}
  /\ UNCHANGED <<ch, gen, exit, cmd, guard, stop, received>>

\* The stage's AbortSignal fires; runCommand listens until its finally.
Signal(i) ==
  /\ i \notin sig
  /\ sig' = sig \cup {i}
  /\ cut' = IF cmd[i] \in Settled THEN cut ELSE cut \cup {i}
  /\ ch' = IF gen[i] \in {"starting", "waiting", "yielded"}
           THEN [ch EXCEPT ![i] = Fail(@)] ELSE ch
  /\ UNCHANGED <<gen, exit, cmd, guard, stop, received>>

Ended == guard[N + 1] = "done"

Command(i) == Read(i) \/ Write(i) \/ Break(i) \/ Throw(i) \/ Return(i) \/ Drain(i)

Runtime(i) ==
  Receive(i) \/ ReaderEnds(i) \/ GenDone(i) \/ LoopEnds(i) \/ Wake(i)

Entering == {i \in Stages : gen[i] = "starting"}

\* The turn in which a command is entered: up to its first await it may read,
\* which may enter the command before it, and write; then comes the first ask.
Enter ==
  \E i \in Entering :
    /\ \A j \in Entering : i <= j
    /\ FirstAsk(i) \/ Read(i) \/ Write(i)

Step ==
  \/ Enter
  \/ /\ Entering = {}
     /\ \/ \E i \in Stages : Command(i) \/ Runtime(i)
        \/ \E i \in Readers : Leave(i)
        \/ Next1 \/ Abandoned \/ PipelineEnds

\* A signal can come from a listener in the middle of any turn.
Next == Step \/ \E i \in Stages : ~Ended /\ Signal(i)

Spec == Init /\ [][Next]_vars

\* Promises settle, a command goes on when what it awaits has come, and
\* whoever iterates the pipeline asks again or leaves.
FairSpec == Spec /\ WF_vars(Step)

-----------------------------------------------------------------------------
(* Every variable in its type; one write ahead of the reader at most is    *)
(* buffered (ObjectChannel's "one-value-at-a-time").                       *)
TypeOK ==
  /\ ch \in [Stages -> Channels(MaxValues)]
  /\ gen \in [Sources -> {"fresh", "starting", "waiting", "yielded", "closing", "done"}]
  /\ exit \in [Sources -> {"none", "end", "fail", "returned"}]
  /\ cmd \in [Stages -> {"none", "ready", "reading", "writing", "breaking",
                         "throwing", "draining"} \cup Settled]
  /\ guard \in [Readers -> {"fresh", "pulling", "yielded", "leaving", "finishing", "done"}]
  /\ sig \subseteq Stages /\ stop \subseteq Stages /\ cut \subseteq sig
  /\ received \in [Stages -> 0 .. MaxValues]

(* Backpressure and early termination (the 1,2,3 of the file's header): a  *)
(* command has never written more than its reader holds while the reader   *)
(* holds it, and nothing more once the reader has walked away.             *)
NeverAhead ==
  \A i \in Stages :
    gen[i] = "yielded" \/ exit[i] = "returned" => ch[i].writes <= received[i] + Slack

(* A reader that is told its input has ended or failed has been handed     *)
(* every value that was written before: neither close, nor a throw, nor    *)
(* Ctrl+C overtakes a value (fail, close and next of ObjectChannel).       *)
NothingLost ==
  \A i \in Stages : exit[i] \in {"end", "fail"} => received[i] = ch[i].writes

(* When a stage is over no command at or above it is still running,        *)
(* however it was brought to its end (runCommand's `await running`).       *)
NoLeak ==
  \A i \in Stages : gen[i] = "done" =>
    \A j \in 1 .. i : cmd[j] \in Settled \cup {"none"}

(* Push-based: the command before one that returned on its own account has *)
(* run and settled, whether or not its output was read.                    *)
PushBased ==
  \A i \in Stages \ {1} :
    cmd[i] = "returned" /\ i \notin sig /\ exit[i] # "returned"
      => cmd[i - 1] \in Settled

(* What was cut short is not passed off as complete: the guard ends a      *)
(* signalled command's loop as if its input were over, and the command     *)
(* returns; its reader is told of the failure all the same (onCancel).     *)
CutIsNotAnEnd == \A i \in cut : exit[i] # "end"

(* A stage that is signalled, or whose consumer is gone, asks for no       *)
(* further object: one pull it had made may be answered, and no other is   *)
(* made, not by its drain either (guardedInput's check before the pull).   *)
StoppedAsksNoMore ==
  [][\A i \in Stages \ {1} : i \in sig \cup stop /\ guard[i] # "pulling" =>
       ch'[i - 1].demand = ch[i - 1].demand /\ (gen[i - 1] = "fresh" => cmd'[i - 1] = "none")]_vars

(* A pipeline that is iterated comes to its end: nobody stays parked, in a *)
(* write, a next or an await, whatever order ends, breaks, throws and      *)
(* signals come in.                                                        *)
Terminates == <>Ended
=============================================================================
