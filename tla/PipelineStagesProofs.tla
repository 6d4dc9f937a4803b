------------------------ MODULE PipelineStagesProofs ------------------------
(***************************************************************************)
(* Proofs about PipelineStages, for every number of commands and values    *)
(* and every slack: types, NeverAhead and NothingLost, and how the stages  *)
(* hang together: NoLeak, PushBased, CutIsNotAnEnd and StoppedAsksNoMore.  *)
(*                                                                         *)
(* What carries the first three is local to a stage: StageOK relates its   *)
(* channel, the state and the exit of its generator, its command and the   *)
(* values its reader has had.  The lemmas say that each thing that can     *)
(* happen to a stage keeps StageOK; the proof of an action then only says  *)
(* which of them happens to which stage.                                   *)
(***************************************************************************)
EXTENDS PipelineStages, WellFoundedInduction, TLAPS

Chan ==
  [buffer : Nat, reader : Answers, demand : Nat, writes : Nat, ended : BOOLEAN,
   abandoned : BOOLEAN, failed : BOOLEAN, woken : BOOLEAN]

GenStates   == {"fresh", "starting", "waiting", "yielded", "closing", "done"}
Exits       == {"none", "end", "fail", "returned"}
CmdStates   == {"none", "ready", "reading", "writing", "breaking", "throwing",
                "draining"} \cup Settled
GuardStates == {"fresh", "pulling", "yielded", "leaving", "finishing", "done"}

InHand(c) == IF c.reader = "value" THEN 1 ELSE 0

\* Every written value was read, is in the reader's hand, or is buffered.
Conserved(c, g, r) ==
  /\ g \notin {"closing", "done"} => ~c.abandoned /\ r + c.buffer + InHand(c) = c.writes
  /\ g \in {"closing", "done"} => c.buffer = 0 /\ r <= c.writes

\* The asks are the values read, and the one that is pending.
AsksCounted(c, g, r) ==
  /\ g = "waiting" => c.demand = r + 1
  /\ g \in {"fresh", "starting", "yielded"} => c.demand = r
  /\ c.demand <= r + 1
  /\ g = "yielded" => r >= 1
  /\ g # "waiting" => c.reader = "none"

\* A write is parked until the ask after the one that fetches its value.
Paced(c, m) ==
  /\ c.writes <= MaxValues
  /\ c.writes <= 1 \/ c.writes <= c.demand + Slack
  /\ m # "writing" /\ ~Closed(c) => c.writes = 0 \/ c.writes + 1 <= c.demand + Slack

\* A command that was not entered has done nothing.
Unentered(c, g, m) ==
  /\ g = "fresh" => m = "none"
  /\ m = "none" => g \in {"fresh", "done"} /\ c = NewChannel

\* Why a generator stopped, and what that says of its channel for ever after.
Exited(c, g, x, m, r) ==
  /\ x = "none" <=> g \notin {"closing", "done"}
  /\ c.failed => c.ended
  /\ c.reader \in {"end", "fail"} => c.ended
  /\ c.reader \in {"waiting", "end", "fail"} => c.buffer = 0
  /\ x \in {"end", "fail"} => Closed(c) /\ r = c.writes
  /\ x = "returned" => (Closed(c) \/ m = "none") /\ c.writes <= r + Slack

StageOK(c, g, x, m, r) ==
  /\ c \in Chan /\ g \in GenStates /\ x \in Exits /\ m \in CmdStates /\ r \in Nat
  /\ Conserved(c, g, r) /\ AsksCounted(c, g, r) /\ Paced(c, m)
  /\ Unentered(c, g, m) /\ Exited(c, g, x, m, r)

Shapes ==
  /\ ch \in [Stages -> Chan] /\ received \in [Stages -> Nat]
  /\ gen \in [Sources -> GenStates] /\ exit \in [Sources -> Exits]
  /\ cmd \in [Stages -> CmdStates] /\ guard \in [Readers -> GuardStates]
  /\ sig \subseteq Stages /\ stop \subseteq Stages /\ cut \subseteq sig
  /\ gen[0] = "done"

StagesInv == \A i \in Stages : StageOK(ch[i], gen[i], exit[i], cmd[i], received[i])

IInv == Shapes /\ StagesInv

-----------------------------------------------------------------------------
(* What the methods of a channel leave, field by field.                    *)

Fields(c, b, rd, d, w, e, a, f) ==
  /\ c \in Chan /\ c.buffer = b /\ c.reader = rd /\ c.demand = d /\ c.writes = w
  /\ c.ended = e /\ c.abandoned = a /\ c.failed = f

(* Releasing the acks touches nothing the reader sees. *)
LEMMA ReleaseFields ==
  ASSUME NEW c \in Chan
  PROVE  Fields(ReleaseAcks(c), c.buffer, c.reader, c.demand, c.writes, c.ended,
                c.abandoned, c.failed)
  BY DEF Chan, Fields, ReleaseAcks

(* What a waiting reader sees when the waiters are flushed. *)
Flushed(c) ==
  IF c.reader # "waiting" THEN c.reader ELSE IF c.failed THEN "fail" ELSE "end"

(* Only a waiting reader is answered. *)
LEMMA FlushFields ==
  ASSUME NEW c \in Chan
  PROVE  Fields(FlushWaiters(c), c.buffer, Flushed(c), c.demand, c.writes, c.ended,
                c.abandoned, c.failed)
<1> DEFINE d == [c EXCEPT !.reader = Flushed(c)]
<1>1. Fields(d, c.buffer, Flushed(c), c.demand, c.writes, c.ended, c.abandoned, c.failed)
  BY DEF Chan, Fields, Flushed, Answers
<1>2. FlushWaiters(c) = ReleaseAcks(d)
  BY DEF FlushWaiters, Flushed
<1> HIDE DEF d
<1> QED
  BY <1>1, <1>2, ReleaseFields DEF Fields

(* What an ask finds. *)
Found(c) ==
  IF c.buffer > 0 THEN "value"
  ELSE IF c.failed THEN "fail" ELSE IF Closed(c) THEN "end" ELSE "waiting"

(* An ask counts, and takes what is buffered. *)
LEMMA AskFields ==
  ASSUME NEW c \in Chan
  PROVE  Fields(Ask(c), IF c.buffer > 0 THEN c.buffer - 1 ELSE c.buffer, Found(c),
                c.demand + 1, c.writes, c.ended, c.abandoned, c.failed)
<1> DEFINE d == [c EXCEPT !.demand = @ + 1]
           a == ReleaseAcks(d)
<1>1. Fields(d, c.buffer, c.reader, c.demand + 1, c.writes, c.ended, c.abandoned, c.failed)
  BY DEF Chan, Fields
<1>2. Fields(a, c.buffer, c.reader, c.demand + 1, c.writes, c.ended, c.abandoned, c.failed)
  BY <1>1, ReleaseFields DEF Fields
<1>3. Ask(c) = IF c.buffer > 0 THEN [a EXCEPT !.buffer = @ - 1, !.reader = "value"]
               ELSE [a EXCEPT !.reader = Found(c)]
  BY DEF Ask, Found
<1> HIDE DEF a
<1>4. c.buffer \in Nat
  BY DEF Chan
<1>5. CASE c.buffer > 0
  <2> DEFINE b == [a EXCEPT !.buffer = @ - 1]
  <2>1. Fields(b, c.buffer - 1, c.reader, c.demand + 1, c.writes, c.ended, c.abandoned, c.failed)
    BY <1>2, <1>4, <1>5 DEF Chan, Fields
  <2>2. Ask(c) = [b EXCEPT !.reader = "value"]
    BY <1>2, <1>3, <1>5 DEF Chan, Fields
  <2> HIDE DEF b
  <2> QED
    BY <2>1, <2>2, <1>5 DEF Chan, Fields, Found, Answers
<1>6. CASE ~(c.buffer > 0)
  <2>1. Ask(c) = [a EXCEPT !.reader = Found(c)]
    BY <1>3, <1>6
  <2> QED
    BY <1>2, <1>6, <2>1 DEF Chan, Fields, Found, Answers
<1> QED
  BY <1>5, <1>6

(* A failure keeps what is buffered. *)
LEMMA FailFields ==
  ASSUME NEW c \in Chan, ~(c.failed \/ c.ended)
  PROVE  Fields(Fail(c), c.buffer, IF c.reader = "waiting" THEN "fail" ELSE c.reader,
                c.demand, c.writes, TRUE, c.abandoned, TRUE)
<1> DEFINE d == [c EXCEPT !.failed = TRUE]
           e == [d EXCEPT !.ended = TRUE]
<1>1. Fields(d, c.buffer, c.reader, c.demand, c.writes, c.ended, c.abandoned, TRUE)
  BY DEF Chan, Fields
<1>2. Fields(e, c.buffer, c.reader, c.demand, c.writes, TRUE, c.abandoned, TRUE)
  <2> HIDE DEF d
  <2> QED
    BY <1>1 DEF Chan, Fields
<1>3. Fail(c) = FlushWaiters(e)
  BY DEF Fail, Chan
<1> HIDE DEF e
<1> QED
  BY <1>2, <1>3, FlushFields DEF Fields, Flushed

(* Abandoning drops what is buffered; whoever waited waits no more. *)
LEMMA AbandonFields ==
  ASSUME NEW c \in Chan, ~c.abandoned
  PROVE  Fields([Abandon(c) EXCEPT !.reader = "none"], 0, "none", c.demand, c.writes,
                c.ended, TRUE, c.failed)
<1> DEFINE d == [c EXCEPT !.abandoned = TRUE]
           e == [d EXCEPT !.buffer = 0]
           f == FlushWaiters(e)
<1>1. Fields(d, c.buffer, c.reader, c.demand, c.writes, c.ended, TRUE, c.failed)
  BY DEF Chan, Fields
<1>2. Fields(e, 0, c.reader, c.demand, c.writes, c.ended, TRUE, c.failed)
  <2> HIDE DEF d
  <2> QED
    BY <1>1 DEF Chan, Fields
<1>3. Abandon(c) = f
  BY DEF Abandon, Chan
<1> HIDE DEF e
<1>4. Fields(f, 0, Flushed(e), c.demand, c.writes, c.ended, TRUE, c.failed)
  BY <1>2, FlushFields DEF Fields
<1> HIDE DEF f
<1> QED
  BY <1>3, <1>4 DEF Chan, Fields, Answers

(* Clearing the wake of a parked write touches nothing the reader sees. *)
LEMMA WokenFields ==
  ASSUME NEW c \in Chan
  PROVE  Fields([c EXCEPT !.woken = FALSE], c.buffer, c.reader, c.demand, c.writes,
                c.ended, c.abandoned, c.failed)
  BY DEF Chan, Fields

(* A written value goes to the waiting reader, or is buffered. *)
LEMMA WrittenFields ==
  ASSUME NEW c \in Chan
  PROVE  Fields(Written(c), IF c.reader = "waiting" THEN c.buffer ELSE c.buffer + 1,
                IF c.reader = "waiting" THEN "value" ELSE c.reader,
                c.demand, c.writes + 1, c.ended, c.abandoned, c.failed)
<1> DEFINE d == Deliver(c)
           e == [d EXCEPT !.writes = @ + 1]
<1>1. Fields(d, IF c.reader = "waiting" THEN c.buffer ELSE c.buffer + 1,
             IF c.reader = "waiting" THEN "value" ELSE c.reader,
             c.demand, c.writes, c.ended, c.abandoned, c.failed)
  BY DEF Chan, Fields, Deliver, Answers
<1> HIDE DEF d
<1>2. Fields(e, IF c.reader = "waiting" THEN c.buffer ELSE c.buffer + 1,
             IF c.reader = "waiting" THEN "value" ELSE c.reader,
             c.demand, c.writes + 1, c.ended, c.abandoned, c.failed)
  BY <1>1 DEF Chan, Fields
<1>3. Written(c) = [e EXCEPT !.woken = FALSE]
  BY <1>1 DEF Written, d, Chan, Fields
<1> HIDE DEF e
<1> QED
  BY <1>2, <1>3, WokenFields DEF Fields

-----------------------------------------------------------------------------
(* What can happen to a stage.                                             *)

(* A stage before anything has happened. *)
LEMMA NewStageOK == StageOK(NewChannel, "fresh", "none", "none", 0)
  BY ChannelConstants, PipelineConstants
  DEF StageOK, NewChannel, Chan, GenStates, Exits, CmdStates, Answers, Conserved,
      AsksCounted, Paced, Unentered, Exited, InHand, Closed

(* An ask of a generator that has just been entered, or holds a value. *)
LEMMA AskOK ==
  ASSUME NEW c, NEW g \in {"starting", "yielded"}, NEW x, NEW m, NEW r,
         StageOK(c, g, x, m, r)
  PROVE  StageOK(Ask(c), "waiting", x, m, r)
<1>1. c \in Chan
  BY DEF StageOK
<1> QED
  BY <1>1, AskFields, ChannelConstants, PipelineConstants
  DEF StageOK, Chan, GenStates, Exits, CmdStates, Settled, Answers, Conserved, AsksCounted,
      Paced, Unentered, Exited, InHand, Closed, NewChannel, Fields, Found

(* A signal, or a failing command, fails the channel of a stage that runs. *)
LEMMA FailOK ==
  ASSUME NEW c, NEW g, NEW x, NEW m, NEW r, NEW n \in CmdStates \ {"none", "writing"},
         m # "none", StageOK(c, g, x, m, r)
  PROVE  /\ StageOK(Fail(c), g, x, m, r)
         /\ m # "writing" => StageOK(Fail(c), g, x, n, r)
<1>1. c \in Chan
  BY DEF StageOK
<1>2. CASE c.failed \/ c.ended
  BY <1>2, ChannelConstants, PipelineConstants
  DEF StageOK, Chan, GenStates, Exits, CmdStates, Settled, Answers, Conserved, AsksCounted,
      Paced, Unentered, Exited, InHand, Closed, NewChannel, Fail
<1>3. CASE ~(c.failed \/ c.ended)
  BY <1>1, <1>3, FailFields, ChannelConstants, PipelineConstants
  DEF StageOK, Chan, GenStates, Exits, CmdStates, Settled, Answers, Conserved, AsksCounted,
      Paced, Unentered, Exited, InHand, Closed, NewChannel, Fields
<1> QED
  BY <1>2, <1>3

(* A command that has returned closes its channel. *)
LEMMA CloseOK ==
  ASSUME NEW c, NEW g, NEW x, NEW m, NEW r, NEW n \in CmdStates \ {"none", "writing"},
         m \notin {"none", "writing"}, StageOK(c, g, x, m, r)
  PROVE  StageOK(Close(c), g, x, n, r)
  BY ChannelConstants, PipelineConstants
  DEF StageOK, Chan, GenStates, Exits, CmdStates, Settled, Answers, Conserved, AsksCounted,
      Paced, Unentered, Exited, InHand, Closed, Close, FlushWaiters, ReleaseAcks

(* A command that has not a write parked goes from one await to another. *)
LEMMA CommandOK ==
  ASSUME NEW c, NEW g, NEW x, NEW m, NEW r, NEW n \in CmdStates \ {"none", "writing"},
         m \notin {"none", "writing"}, StageOK(c, g, x, m, r)
  PROVE  StageOK(c, g, x, n, r)
  BY DEF StageOK, CmdStates, Settled, Conserved, AsksCounted, Paced, Unentered, Exited

(* A generator enters its command, whose signal may have come before it. *)
LEMMA EnterOK ==
  ASSUME NEW c, NEW x, NEW m, NEW r, StageOK(c, "fresh", x, m, r)
  PROVE  /\ StageOK(c, "starting", x, "ready", r)
         /\ StageOK(Fail(c), "starting", x, "ready", r)
<1>1. StageOK(c, "starting", x, "ready", r)
  BY ChannelConstants, PipelineConstants
  DEF StageOK, Chan, GenStates, Exits, CmdStates, Settled, Answers, Conserved, AsksCounted,
      Paced, Unentered, Exited, InHand, Closed, NewChannel
<1> QED
  BY <1>1, FailOK DEF CmdStates

(* A written value, and whether the write parks. *)
LEMMA WriteOK ==
  ASSUME NEW c, NEW g, NEW x, NEW r, StageOK(c, g, x, "ready", r),
         ~Closed(c), c.writes < MaxValues
  PROVE  StageOK(Written(c), g, x, IF Parks(Written(c)) THEN "writing" ELSE "ready", r)
<1>1. c \in Chan
  BY DEF StageOK
<1> QED
  BY <1>1, WrittenFields, ChannelConstants, PipelineConstants
  DEF StageOK, Chan, GenStates, Exits, CmdStates, Settled, Answers, Conserved, AsksCounted,
      Paced, Unentered, Exited, InHand, Closed, NewChannel, Fields, Parks

(* A write that was woken, and whether it parks again. *)
LEMMA WakeOK ==
  ASSUME NEW c, NEW g, NEW x, NEW r, StageOK(c, g, x, "writing", r)
  PROVE  StageOK([c EXCEPT !.woken = FALSE], g, x, IF Parks(c) THEN "writing" ELSE "ready", r)
<1>1. c \in Chan
  BY DEF StageOK
<1> QED
  BY <1>1, WokenFields, ChannelConstants, PipelineConstants
  DEF StageOK, Chan, GenStates, Exits, CmdStates, Settled, Answers, Conserved, AsksCounted,
      Paced, Unentered, Exited, InHand, Closed, NewChannel, Fields, Parks

(* A value is handed to the reader. *)
LEMMA ReceiveOK ==
  ASSUME NEW c, NEW x, NEW m, NEW r, StageOK(c, "waiting", x, m, r), c.reader = "value"
  PROVE  StageOK([c EXCEPT !.reader = "none"], "yielded", x, m, r + 1)
  BY ChannelConstants, PipelineConstants
  DEF StageOK, Chan, GenStates, Exits, CmdStates, Settled, Answers, Conserved, AsksCounted,
      Paced, Unentered, Exited, InHand, Closed

(* A generator stops: its channel has ended, or its reader is gone. *)
LEMMA ClosingOK ==
  ASSUME NEW c, NEW g, NEW x, NEW y, NEW m, NEW r, StageOK(c, g, x, m, r),
         \/ g = "waiting" /\ c.reader \in {"end", "fail"} /\ y = c.reader
         \/ g = "yielded" /\ y = "returned"
  PROVE  StageOK([Abandon(c) EXCEPT !.reader = "none"], "closing", y, m, r)
<1>1. c \in Chan
  BY DEF StageOK
<1>2. ~c.abandoned
  BY DEF StageOK, Conserved
<1> DEFINE d == [Abandon(c) EXCEPT !.reader = "none"]
<1>3. Fields(d, 0, "none", c.demand, c.writes, c.ended, TRUE, c.failed)
  BY <1>1, <1>2, AbandonFields
<1> HIDE DEF d
<1>4. StageOK(d, "closing", y, m, r)
  BY <1>3, ChannelConstants, PipelineConstants
  DEF StageOK, Chan, GenStates, Exits, CmdStates, Settled, Answers, Conserved, AsksCounted,
      Paced, Unentered, Exited, InHand, Closed, NewChannel, Fields
<1> QED
  BY <1>4 DEF d

(* A generator is over, after its command or before it was ever asked. *)
LEMMA DoneOK ==
  ASSUME NEW c, NEW g, NEW x, NEW y, NEW m, NEW r, StageOK(c, g, x, m, r),
         \/ g = "closing" /\ y = x
         \/ g = "fresh" /\ y = "returned"
  PROVE  StageOK(c, "done", y, m, r)
  BY ChannelConstants, PipelineConstants
  DEF StageOK, Chan, GenStates, Exits, CmdStates, Settled, Answers, Conserved, AsksCounted,
      Paced, Unentered, Exited, InHand, Closed, NewChannel

-----------------------------------------------------------------------------
(* Shapes: every variable in its type, and the source is at its end.       *)

(* The methods of a channel leave a channel. *)
LEMMA ChanClosed ==
  ASSUME NEW c \in Chan
  PROVE  /\ Ask(c) \in Chan /\ Fail(c) \in Chan /\ Close(c) \in Chan
         /\ Written(c) \in Chan /\ [c EXCEPT !.woken = FALSE] \in Chan
         /\ [c EXCEPT !.reader = "none"] \in Chan
         /\ [Abandon(c) EXCEPT !.reader = "none"] \in Chan
<1>1. Ask(c) \in Chan /\ Written(c) \in Chan /\ [c EXCEPT !.woken = FALSE] \in Chan
  BY AskFields, WrittenFields, WokenFields DEF Fields
<1>2. Fail(c) \in Chan
  BY FailFields DEF Fields, Fail
<1>3. Close(c) \in Chan
  <2> DEFINE d == [c EXCEPT !.ended = TRUE]
  <2>1. d \in Chan
    BY DEF Chan
  <2>2. Close(c) = c \/ Close(c) = FlushWaiters(d)
    BY DEF Close
  <2> HIDE DEF d
  <2> QED
    BY <2>1, <2>2, FlushFields DEF Fields
<1>4. [c EXCEPT !.reader = "none"] \in Chan
  BY DEF Chan, Answers
<1>5. [Abandon(c) EXCEPT !.reader = "none"] \in Chan
  <2>1. CASE c.abandoned
    BY <1>4, <2>1 DEF Abandon
  <2>2. CASE ~c.abandoned
    BY <2>2, AbandonFields DEF Fields
  <2> QED
    BY <2>1, <2>2
<1> QED
  BY <1>1, <1>2, <1>3, <1>4, <1>5

(* A pull keeps the shapes. *)
LEMMA PullShapes ==
  ASSUME Shapes, NEW i \in Readers, NEW commands \in [Stages -> CmdStates],
         Pull(i, commands), UNCHANGED <<exit, sig, stop, received, cut>>
  PROVE  Shapes'
<1> DEFINE j == i - 1
<1>1. j \in Sources /\ (gen[j] # "done" => j \in Stages /\ j # 0)
  BY PipelineConstants DEF Shapes, Readers, Sources, Stages
<1>2. /\ guard' \in [Readers -> GuardStates] /\ exit' \in [Sources -> Exits]
      /\ sig' \subseteq Stages /\ stop' \subseteq Stages /\ cut' \subseteq sig'
      /\ received' \in [Stages -> Nat]
  BY DEF Pull, GuardStates, Shapes
<1>3. CASE gen[j] = "fresh"
  <2>1. gen' = [gen EXCEPT ![j] = "starting"] /\ cmd' = [commands EXCEPT ![j] = "ready"]
    BY <1>3 DEF Pull
  <2>2. ch' = ch \/ ch' = [ch EXCEPT ![j] = Fail(@)]
    BY <1>3 DEF Pull
  <2>3. Fail(ch[j]) \in Chan
    BY <1>1, <1>3, ChanClosed DEF Shapes
  <2> QED
    BY <1>1, <1>2, <1>3, <2>1, <2>2, <2>3 DEF Shapes, GenStates, CmdStates
<1>4. CASE gen[j] = "yielded"
  <2>1. gen' = [gen EXCEPT ![j] = "waiting"] /\ cmd' = commands
        /\ ch' = [ch EXCEPT ![j] = Ask(@)]
    BY <1>4 DEF Pull
  <2>2. Ask(ch[j]) \in Chan
    BY <1>1, <1>4, ChanClosed DEF Shapes
  <2> QED
    BY <1>1, <1>2, <1>4, <2>1, <2>2 DEF Shapes, GenStates
<1>5. CASE gen[j] \notin {"fresh", "yielded"}
  BY <1>2, <1>5 DEF Pull, Shapes
<1> QED
  BY <1>3, <1>4, <1>5

(* So does what the guard does before it. *)
LEMMA GuardNextShapes ==
  ASSUME Shapes, NEW i \in Stages, NEW commands \in [Stages -> CmdStates],
         GuardNext(i, commands), UNCHANGED <<exit, sig, stop, received, cut>>
  PROVE  Shapes'
<1> i \in Readers
  BY PipelineConstants DEF Stages, Readers
<1>1. CASE i \in sig \cup stop
  BY <1>1 DEF GuardNext, Shapes, GuardStates
<1>2. CASE i \notin sig \cup stop
  BY <1>2, PullShapes DEF GuardNext
<1> QED
  BY <1>1, <1>2

(* Leave, and the turns of a generator. *)
LEMMA ClosingShapes ==
  ASSUME Shapes, NEW i \in Stages, NEW why \in Exits, Closing(i, why),
         UNCHANGED <<cmd, sig, received, cut>>, guard' \in [Readers -> GuardStates]
  PROVE  Shapes'
<1>1. [Abandon(ch[i]) EXCEPT !.reader = "none"] \in Chan
  BY ChanClosed DEF Shapes
<1>2. i \in Sources /\ i # 0
  BY PipelineConstants DEF Stages, Sources
<1> QED
  BY <1>1, <1>2 DEF Closing, Shapes, GenStates

(* A command settles. *)
LEMMA SettleShapes ==
  ASSUME Shapes, NEW i \in Stages, NEW how \in Settled, NEW input, Settle(i, how, input),
         UNCHANGED <<gen, exit, sig, stop, received, cut>>,
         guard' \in [Readers -> GuardStates]
  PROVE  Shapes'
<1>1. Fail(ch[i]) \in Chan /\ Close(ch[i]) \in Chan
  BY ChanClosed DEF Shapes
<1> QED
  BY <1>1 DEF Settle, Shapes, CmdStates

(* Every step keeps the shapes. *)
LEMMA ShapesStep == Shapes /\ [Next]_vars => Shapes'
<1> SUFFICES ASSUME Shapes, [Next]_vars PROVE Shapes'
  OBVIOUS
<1>r. \A i \in Stages : i \in Readers /\ i + 1 \in Readers /\ i \in Sources /\ i # 0
  BY PipelineConstants DEF Stages, Readers, Sources
<1>n. N + 1 \in Readers
  BY PipelineConstants DEF Readers
<1>1. ASSUME NEW i \in Stages, Read(i) PROVE Shapes'
  <2>1. [cmd EXCEPT ![i] = "reading"] \in [Stages -> CmdStates]
    BY DEF Shapes, CmdStates
  <2> QED
    BY <1>1, <2>1, GuardNextShapes DEF Read
<1>2. ASSUME NEW i \in Stages, Write(i) PROVE Shapes'
  <2>1. Written(ch[i]) \in Chan
    BY ChanClosed DEF Shapes
  <2> QED
    BY <1>2, <2>1 DEF Write, Shapes, CmdStates
<1>3. ASSUME NEW i \in Stages, Break(i) PROVE Shapes'
  BY <1>3, <1>r DEF Break, Shapes, CmdStates, GuardStates
<1>4. ASSUME NEW i \in Stages, Throw(i) PROVE Shapes'
  <2>1. CASE guard[i] = "yielded"
    BY <1>4, <2>1, <1>r DEF Throw, Shapes, CmdStates, GuardStates
  <2>2. CASE guard[i] # "yielded"
    BY <1>4, <2>2, SettleShapes DEF Throw, Shapes, Settled
  <2> QED
    BY <2>1, <2>2
<1>5. ASSUME NEW i \in Stages, Return(i) PROVE Shapes'
  <2>1. CASE guard[i] = "done"
    BY <1>5, <2>1, SettleShapes DEF Return, Shapes, Settled
  <2>2. CASE guard[i] # "done"
    <3>1. [cmd EXCEPT ![i] = "draining"] \in [Stages -> CmdStates]
      BY DEF Shapes, CmdStates
    <3> QED
      BY <1>5, <2>2, <3>1, GuardNextShapes DEF Return
  <2> QED
    BY <2>1, <2>2
<1>6. ASSUME NEW i \in Stages, Drain(i) PROVE Shapes'
  BY <1>6, GuardNextShapes DEF Drain, Shapes
<1>7. ASSUME NEW i \in Stages, Receive(i) PROVE Shapes'
  <2>1. [ch[i] EXCEPT !.reader = "none"] \in Chan
    BY ChanClosed DEF Shapes
  <2>2. ch' = [ch EXCEPT ![i] = [@ EXCEPT !.reader = "none"]]
    BY <1>7 DEF Receive
  <2>3. ch' \in [Stages -> Chan]
    BY <2>1, <2>2 DEF Shapes
  <2>4. cmd' \in [Stages -> CmdStates]
    BY <1>7 DEF Receive, Shapes, CmdStates
  <2>5. /\ gen' \in [Sources -> GenStates] /\ gen'[0] = "done"
        /\ guard' \in [Readers -> GuardStates]
    BY <1>7, <1>r DEF Receive, Shapes, GenStates, GuardStates
  <2> QED
    BY <1>7, <2>3, <2>4, <2>5 DEF Receive, Shapes
<1>8. ASSUME NEW i \in Stages, ReaderEnds(i) PROVE Shapes'
  BY <1>8, ClosingShapes DEF ReaderEnds, Shapes, Exits
<1>9. ASSUME NEW i \in Stages, GenDone(i) PROVE Shapes'
  BY <1>9, <1>r DEF GenDone, Shapes, GenStates
<1>10. ASSUME NEW i \in Stages, LoopEnds(i) PROVE Shapes'
  <2>1. guard' \in [Readers -> GuardStates]
    BY <1>10, <1>r DEF LoopEnds, Shapes, GuardStates
  <2>2. CASE cmd' = [cmd EXCEPT ![i] = "ready"] /\ UNCHANGED ch
    BY <1>10, <2>1, <2>2 DEF LoopEnds, Shapes, CmdStates
  <2>3. CASE \E how \in Settled : Settle(i, how, exit[i - 1])
    BY <1>10, <2>1, <2>3, SettleShapes DEF LoopEnds
  <2> QED
    BY <1>10, <2>2, <2>3 DEF LoopEnds, Settled
<1>11. ASSUME NEW i \in Stages, Wake(i) PROVE Shapes'
  <2>1. [ch[i] EXCEPT !.woken = FALSE] \in Chan
    BY ChanClosed DEF Shapes
  <2>2. ch' = [ch EXCEPT ![i] = [@ EXCEPT !.woken = FALSE]]
    BY <1>11 DEF Wake
  <2> QED
    BY <1>11, <2>1, <2>2 DEF Wake, Shapes, CmdStates
<1>12. ASSUME NEW i \in Stages, FirstAsk(i) PROVE Shapes'
  <2>1. Ask(ch[i]) \in Chan
    BY ChanClosed DEF Shapes
  <2> QED
    BY <1>12, <2>1, <1>r DEF FirstAsk, Shapes, GenStates
<1>13. ASSUME NEW i \in Readers, Leave(i) PROVE Shapes'
  <2> DEFINE j == i - 1
  <2>1. j \in Sources /\ (gen[j] # "done" => j \in Stages /\ j # 0)
    BY PipelineConstants DEF Shapes, Readers, Sources, Stages
  <2>2. guard' \in [Readers -> GuardStates]
    BY <1>13 DEF Leave, Shapes, GuardStates
  <2>3. CASE gen[j] = "yielded"
    BY <1>13, <2>1, <2>2, <2>3, ClosingShapes DEF Leave, Exits
  <2>4. CASE gen[j] = "fresh"
    <3>1. gen' = [gen EXCEPT ![j] = "done"] /\ exit' = [exit EXCEPT ![j] = "returned"]
      BY <1>13, <2>4 DEF Leave
    <3> QED
      BY <1>13, <2>1, <2>2, <2>4, <3>1 DEF Leave, Shapes, GenStates, Exits
  <2>5. CASE gen[j] \notin {"fresh", "yielded"}
    BY <1>13, <2>2, <2>5 DEF Leave, Shapes
  <2> QED
    BY <2>3, <2>4, <2>5
<1>14. ASSUME Next1 PROVE Shapes'
  BY <1>14, <1>n, PullShapes DEF Next1, Shapes
<1>15. ASSUME Abandoned PROVE Shapes'
  BY <1>15, <1>n DEF Abandoned, Shapes, GuardStates
<1>16. ASSUME PipelineEnds PROVE Shapes'
  BY <1>16, <1>n DEF PipelineEnds, Shapes, GuardStates
<1>17. ASSUME NEW i \in Stages, Signal(i) PROVE Shapes'
  <2>1. Fail(ch[i]) \in Chan
    BY ChanClosed DEF Shapes
  <2> QED
    BY <1>17, <2>1 DEF Signal, Shapes
<1>18. CASE UNCHANGED vars
  BY <1>18 DEF vars, Shapes
<1> QED
  BY <1>1, <1>2, <1>3, <1>4, <1>5, <1>6, <1>7, <1>8, <1>9, <1>10, <1>11, <1>12, <1>13,
     <1>14, <1>15, <1>16, <1>17, <1>18
  DEF Next, Step, Enter, Entering, Command, Runtime

-----------------------------------------------------------------------------
(* StagesInv: what a step does to the one stage it touches keeps it.       *)

\* What the invariant says of a stage, and of the same stage after a step.
StageNow(i)  == StageOK(ch[i], gen[i], exit[i], cmd[i], received[i])
StageNext(i) == StageOK(ch'[i], gen'[i], exit'[i], cmd'[i], received'[i])

Untouched(i) ==
  /\ ch'[i] = ch[i] /\ gen'[i] = gen[i] /\ exit'[i] = exit[i] /\ cmd'[i] = cmd[i]
  /\ received'[i] = received[i]

(* It is enough to look at the one stage a step touches. *)
LEMMA OneStage ==
  ASSUME StagesInv, NEW i \in Stages, StageNext(i),
         \A k \in Stages \ {i} : Untouched(k)
  PROVE  StagesInv'
  BY DEF StagesInv, StageNext, Untouched

(* A pull: the generator asked is entered, asks its channel, or is over. *)
LEMMA PullStages ==
  ASSUME IInv, NEW i \in Readers, NEW commands \in [Stages -> CmdStates],
         \A k \in Stages : StageOK(ch[k], gen[k], exit[k], commands[k], received[k]),
         Pull(i, commands), UNCHANGED <<exit, received>>
  PROVE  StagesInv'
<1> DEFINE j == i - 1
<1>1. j \in Sources /\ (gen[j] # "done" => j \in Stages)
  BY PipelineConstants DEF IInv, Shapes, Readers, Sources, Stages
<1>2. \A k \in Stages : k \in Sources
  BY PipelineConstants DEF Sources, Stages
<1> SUFFICES ASSUME NEW k \in Stages PROVE StageNext(k)
  BY DEF StagesInv, StageNext
<1>3. CASE gen[j] = "fresh"
  <2>1. gen' = [gen EXCEPT ![j] = "starting"] /\ cmd' = [commands EXCEPT ![j] = "ready"]
    BY <1>3 DEF Pull
  <2>2. ch' = ch \/ ch' = [ch EXCEPT ![j] = Fail(@)]
    BY <1>3 DEF Pull
  <2>3. CASE k = j
    BY <1>1, <1>2, <1>3, <2>1, <2>2, <2>3, EnterOK DEF IInv, Shapes, StageNext
  <2>4. CASE k # j
    BY <1>2, <2>1, <2>2, <2>4 DEF IInv, Shapes, StageNext
  <2> QED
    BY <2>3, <2>4
<1>4. CASE gen[j] = "yielded"
  <2>1. gen' = [gen EXCEPT ![j] = "waiting"] /\ cmd' = commands
        /\ ch' = [ch EXCEPT ![j] = Ask(@)]
    BY <1>4 DEF Pull
  <2>2. CASE k = j
    BY <1>1, <1>2, <1>4, <2>1, <2>2, AskOK DEF IInv, Shapes, StageNext
  <2>3. CASE k # j
    BY <1>2, <2>1, <2>3 DEF IInv, Shapes, StageNext
  <2> QED
    BY <2>2, <2>3
<1>5. CASE gen[j] \notin {"fresh", "yielded"}
  BY <1>5 DEF Pull, StageNext
<1> QED
  BY <1>3, <1>4, <1>5

(* What the guard does next, for a command that goes from await to await. *)
LEMMA GuardNextStages ==
  ASSUME IInv, NEW i \in Stages, NEW n \in CmdStates \ {"none", "writing"},
         cmd[i] \notin {"none", "writing"},
         GuardNext(i, [cmd EXCEPT ![i] = n]), UNCHANGED <<exit, received>>
  PROVE  StagesInv'
<1> DEFINE commands == [cmd EXCEPT ![i] = n]
<1>1. commands \in [Stages -> CmdStates]
  BY DEF IInv, Shapes
<1>2. ASSUME NEW k \in Stages
      PROVE  StageOK(ch[k], gen[k], exit[k], commands[k], received[k])
  BY CommandOK DEF IInv, Shapes, StagesInv
<1>3. i \in Readers
  BY PipelineConstants DEF Stages, Readers
<1>4. CASE i \in sig \cup stop
  BY <1>2, <1>4 DEF GuardNext, StagesInv
<1>5. CASE i \notin sig \cup stop
  BY <1>1, <1>2, <1>3, <1>5, PullStages DEF GuardNext
<1> QED
  BY <1>4, <1>5

(* A command settles, and its channel ends or fails. *)
LEMMA SettleStages ==
  ASSUME IInv, NEW i \in Stages, NEW how \in Settled, NEW input,
         cmd[i] \notin {"none", "writing"}, Settle(i, how, input),
         UNCHANGED <<gen, exit, received>>
  PROVE  StagesInv'
<1>1. how \in CmdStates \ {"none", "writing"}
  BY DEF CmdStates, Settled
<1>2. StageNow(i)
  BY DEF IInv, StagesInv, StageNow
<1>3. StageNext(i)
  <2> DEFINE c == IF how = "threw" \/ input = "fail" THEN Fail(ch[i]) ELSE Close(ch[i])
  <2>1. StageOK(c, gen[i], exit[i], how, received[i])
    BY <1>1, <1>2, FailOK, CloseOK DEF StageNow
  <2>2. ch'[i] = c /\ cmd'[i] = how
    BY DEF Settle, IInv, Shapes
  <2> HIDE DEF c
  <2> QED
    BY <2>1, <2>2 DEF StageNext
<1>4. \A k \in Stages \ {i} : Untouched(k)
  BY DEF Settle, Untouched, IInv, Shapes
<1> QED
  BY <1>3, <1>4, OneStage DEF IInv

(* A generator stops for its reader, or for its channel. *)
LEMMA ClosingStages ==
  ASSUME IInv, NEW i \in Stages, NEW why, Closing(i, why), UNCHANGED <<cmd, received>>,
         \/ gen[i] = "waiting" /\ ch[i].reader \in {"end", "fail"} /\ why = ch[i].reader
         \/ gen[i] = "yielded" /\ why = "returned"
  PROVE  StagesInv'
<1>1. i \in Sources /\ \A k \in Stages : k \in Sources
  BY PipelineConstants DEF Sources, Stages
<1>2. StageNow(i)
  BY DEF IInv, StagesInv, StageNow
<1>3. StageNext(i)
  <2> DEFINE c == [Abandon(ch[i]) EXCEPT !.reader = "none"]
  <2>1. StageOK(c, "closing", why, cmd[i], received[i])
    BY <1>2, ClosingOK DEF StageNow
  <2>2. ch'[i] = c /\ gen'[i] = "closing" /\ exit'[i] = why
    BY <1>1 DEF Closing, IInv, Shapes
  <2> HIDE DEF c
  <2> QED
    BY <2>1, <2>2 DEF StageNext
<1>4. \A k \in Stages \ {i} : Untouched(k)
  BY <1>1 DEF Closing, Untouched, IInv, Shapes
<1> QED
  BY <1>3, <1>4, OneStage DEF IInv

(* Every step keeps what the invariant says of each stage. *)
LEMMA StagesStep == IInv /\ [Next]_vars => StagesInv'
<1> SUFFICES ASSUME IInv, [Next]_vars PROVE StagesInv'
  OBVIOUS
<1>s. \A i \in Stages : i \in Sources
  BY PipelineConstants DEF Stages, Sources
<1>t. ASSUME NEW i \in Stages PROVE StageNow(i)
  BY DEF IInv, StagesInv, StageNow
<1>1. ASSUME NEW i \in Stages, Read(i) PROVE StagesInv'
  BY <1>1, GuardNextStages DEF Read, CmdStates
<1>2. ASSUME NEW i \in Stages, Write(i) PROVE StagesInv'
  <2> DEFINE c == Written(ch[i])
             m == IF Parks(c) THEN "writing" ELSE "ready"
  <2>1. StageOK(c, gen[i], exit[i], m, received[i])
    BY <1>2, <1>t, WriteOK DEF Write, StageNow
  <2>2. ch'[i] = c /\ cmd'[i] = m
    BY <1>2 DEF Write, IInv, Shapes
  <2>3. StageNext(i)
    <3> HIDE DEF c, m
    <3> QED
      BY <1>2, <2>1, <2>2 DEF StageNext, Write
  <2>4. \A k \in Stages \ {i} : Untouched(k)
    BY <1>2 DEF Write, Untouched, IInv, Shapes
  <2> QED
    BY <2>3, <2>4, OneStage DEF IInv
<1>3. ASSUME NEW i \in Stages, Break(i) PROVE StagesInv'
  <2>1. StageNext(i)
    BY <1>3, <1>t, CommandOK DEF Break, StageNow, StageNext, IInv, Shapes, CmdStates
  <2>2. \A k \in Stages \ {i} : Untouched(k)
    BY <1>3 DEF Break, Untouched, IInv, Shapes
  <2> QED
    BY <2>1, <2>2, OneStage DEF IInv
<1>4. ASSUME NEW i \in Stages, Throw(i) PROVE StagesInv'
  <2>1. CASE guard[i] = "yielded"
    <3>1. StageNext(i)
      BY <1>4, <2>1, <1>t, CommandOK DEF Throw, StageNow, StageNext, IInv, Shapes, CmdStates
    <3>2. \A k \in Stages \ {i} : Untouched(k)
      BY <1>4, <2>1 DEF Throw, Untouched, IInv, Shapes
    <3> QED
      BY <3>1, <3>2, OneStage DEF IInv
  <2>2. CASE guard[i] # "yielded"
    BY <1>4, <2>2, SettleStages DEF Throw, Settled
  <2> QED
    BY <2>1, <2>2
<1>5. ASSUME NEW i \in Stages, Return(i) PROVE StagesInv'
  <2>1. CASE guard[i] = "done"
    BY <1>5, <2>1, SettleStages DEF Return, Settled
  <2>2. CASE guard[i] # "done"
    BY <1>5, <2>2, GuardNextStages DEF Return, CmdStates
  <2> QED
    BY <2>1, <2>2
<1>6. ASSUME NEW i \in Stages, Drain(i) PROVE StagesInv'
  <2>1. cmd = [cmd EXCEPT ![i] = "draining"]
    BY <1>6 DEF Drain, IInv, Shapes
  <2> QED
    BY <1>6, <2>1, GuardNextStages DEF Drain, CmdStates
<1>7. ASSUME NEW i \in Stages, Receive(i) PROVE StagesInv'
  <2> DEFINE c == [ch[i] EXCEPT !.reader = "none"]
  <2>1. /\ ch' = [ch EXCEPT ![i] = [@ EXCEPT !.reader = "none"]]
        /\ gen' = [gen EXCEPT ![i] = "yielded"]
        /\ received' = [received EXCEPT ![i] = @ + 1] /\ exit' = exit
    BY <1>7 DEF Receive
  <2>2. \/ cmd' = cmd
        \/ cmd[i + 1] = "reading" /\ cmd' = [cmd EXCEPT ![i + 1] = "ready"]
    BY <1>7 DEF Receive
  <2>3. StageNext(i)
    <3>1. StageOK(c, "yielded", exit[i], cmd[i], received[i] + 1)
      BY <1>7, <1>t, ReceiveOK DEF Receive, StageNow
    <3>2. ch'[i] = c /\ gen'[i] = "yielded" /\ received'[i] = received[i] + 1
          /\ exit'[i] = exit[i]
      BY <2>1, <1>s DEF IInv, Shapes
    <3>3. cmd'[i] = cmd[i]
      <4>1. i + 1 # i
        BY DEF Stages
      <4> QED
        BY <2>2, <4>1 DEF IInv, Shapes
    <3> HIDE DEF c
    <3> QED
      BY <3>1, <3>2, <3>3 DEF StageNext
  <2>4. ASSUME NEW k \in Stages, k # i PROVE StageNext(k)
    <3>1. /\ ch'[k] = ch[k] /\ gen'[k] = gen[k] /\ received'[k] = received[k]
          /\ exit'[k] = exit[k]
      BY <2>1, <2>4, <1>s DEF IInv, Shapes
    <3>2. cmd'[k] = cmd[k] \/ (cmd[k] = "reading" /\ cmd'[k] = "ready")
      BY <2>2 DEF IInv, Shapes
    <3>3. StageOK(ch[k], gen[k], exit[k], cmd'[k], received[k])
      BY <3>2, <1>t, CommandOK DEF StageNow, CmdStates
    <3> QED
      BY <3>1, <3>3 DEF StageNext
  <2> QED
    BY <2>3, <2>4 DEF StagesInv, StageNext
<1>8. ASSUME NEW i \in Stages, ReaderEnds(i) PROVE StagesInv'
  BY <1>8, ClosingStages DEF ReaderEnds
<1>9. ASSUME NEW i \in Stages, GenDone(i) PROVE StagesInv'
  <2>1. StageNext(i)
    BY <1>9, <1>s, <1>t, DoneOK DEF GenDone, StageNow, StageNext, IInv, Shapes
  <2>2. \A k \in Stages \ {i} : Untouched(k)
    BY <1>9, <1>s DEF GenDone, Untouched, IInv, Shapes
  <2> QED
    BY <2>1, <2>2, OneStage DEF IInv
<1>10. ASSUME NEW i \in Stages, LoopEnds(i) PROVE StagesInv'
  <2>1. CASE /\ cmd[i] \in {"breaking", "reading"} /\ UNCHANGED ch
             /\ cmd' = [cmd EXCEPT ![i] = "ready"]
    <3>1. StageNext(i)
      BY <1>10, <2>1, <1>t, CommandOK
      DEF LoopEnds, StageNow, StageNext, IInv, Shapes, CmdStates
    <3>2. \A k \in Stages \ {i} : Untouched(k)
      BY <1>10, <2>1 DEF LoopEnds, Untouched, IInv, Shapes
    <3> QED
      BY <3>1, <3>2, OneStage DEF IInv
  <2>2. CASE /\ cmd[i] \in {"reading", "throwing", "draining"}
             /\ \E how \in Settled : Settle(i, how, exit[i - 1])
    BY <1>10, <2>2, SettleStages DEF LoopEnds
  <2> QED
    BY <1>10, <2>1, <2>2 DEF LoopEnds, Settled
<1>11. ASSUME NEW i \in Stages, Wake(i) PROVE StagesInv'
  <2> DEFINE c == [ch[i] EXCEPT !.woken = FALSE]
             m == IF Parks(ch[i]) THEN "writing" ELSE "ready"
  <2>1. StageOK(c, gen[i], exit[i], m, received[i])
    BY <1>11, <1>t, WakeOK DEF Wake, StageNow
  <2>2. /\ ch' = [ch EXCEPT ![i] = [@ EXCEPT !.woken = FALSE]]
        /\ cmd' = [cmd EXCEPT ![i] = m]
    BY <1>11 DEF Wake
  <2>3. ch'[i] = c /\ cmd'[i] = m
    BY <2>2 DEF IInv, Shapes
  <2>4. StageNext(i)
    <3> HIDE DEF c, m
    <3> QED
      BY <1>11, <2>1, <2>3 DEF StageNext, Wake
  <2>5. \A k \in Stages \ {i} : Untouched(k)
    <3> HIDE DEF m
    <3> QED
      BY <1>11, <2>2 DEF Wake, Untouched, IInv, Shapes
  <2> QED
    BY <2>4, <2>5, OneStage DEF IInv
<1>12. ASSUME NEW i \in Stages, FirstAsk(i) PROVE StagesInv'
  <2>1. StageNext(i)
    BY <1>12, <1>s, <1>t, AskOK DEF FirstAsk, StageNow, StageNext, IInv, Shapes
  <2>2. \A k \in Stages \ {i} : Untouched(k)
    BY <1>12, <1>s DEF FirstAsk, Untouched, IInv, Shapes
  <2> QED
    BY <2>1, <2>2, OneStage DEF IInv
<1>13. ASSUME NEW i \in Readers, Leave(i) PROVE StagesInv'
  <2> DEFINE j == i - 1
  <2>1. gen[j] # "done" => j \in Stages
    BY PipelineConstants DEF IInv, Shapes, Readers, Stages
  <2>2. CASE gen[j] = "yielded"
    BY <1>13, <2>1, <2>2, ClosingStages DEF Leave
  <2>3. CASE gen[j] = "fresh"
    <3>1. /\ gen' = [gen EXCEPT ![j] = "done"] /\ exit' = [exit EXCEPT ![j] = "returned"]
          /\ UNCHANGED <<ch, cmd, received>>
      BY <1>13, <2>3 DEF Leave
    <3>2. StageNext(j)
      BY <2>1, <2>3, <3>1, <1>s, <1>t, DoneOK DEF StageNow, StageNext, IInv, Shapes
    <3>3. \A k \in Stages \ {j} : Untouched(k)
      BY <3>1, <1>s DEF Untouched, IInv, Shapes
    <3> HIDE DEF j
    <3> QED
      BY <2>1, <2>3, <3>2, <3>3, OneStage DEF IInv
  <2>4. CASE gen[j] \notin {"fresh", "yielded"}
    BY <1>13, <2>4 DEF Leave, IInv, StagesInv
  <2> QED
    BY <2>2, <2>3, <2>4
<1>14. ASSUME Next1 PROVE StagesInv'
  <2>1. N + 1 \in Readers /\ cmd \in [Stages -> CmdStates]
    BY PipelineConstants DEF Readers, IInv, Shapes
  <2> QED
    BY <1>14, <2>1, <1>t, PullStages DEF Next1, StageNow
<1>15. ASSUME Abandoned PROVE StagesInv'
  BY <1>15 DEF Abandoned, IInv, StagesInv
<1>16. ASSUME PipelineEnds PROVE StagesInv'
  BY <1>16 DEF PipelineEnds, IInv, StagesInv
<1>17. ASSUME NEW i \in Stages, Signal(i) PROVE StagesInv'
  <2>1. CASE gen[i] \in {"starting", "waiting", "yielded"}
    <3>1. StageOK(Fail(ch[i]), gen[i], exit[i], cmd[i], received[i])
      <4>1. cmd[i] # "none"
        BY <2>1, <1>t DEF StageNow, StageOK, Unentered
      <4>2. "ready" \in CmdStates \ {"none", "writing"}
        BY DEF CmdStates
      <4> QED
        BY <4>1, <4>2, <1>t, FailOK DEF StageNow
    <3>2. StageNext(i)
      BY <1>17, <2>1, <3>1 DEF Signal, StageNext, IInv, Shapes
    <3>3. \A k \in Stages \ {i} : Untouched(k)
      BY <1>17, <2>1 DEF Signal, Untouched, IInv, Shapes
    <3> QED
      BY <3>2, <3>3, OneStage DEF IInv
  <2>2. CASE gen[i] \notin {"starting", "waiting", "yielded"}
    BY <1>17, <2>2 DEF Signal, IInv, StagesInv
  <2> QED
    BY <2>1, <2>2
<1>18. CASE UNCHANGED vars
  BY <1>18 DEF vars, IInv, StagesInv
<1> QED
  BY <1>1, <1>2, <1>3, <1>4, <1>5, <1>6, <1>7, <1>8, <1>9, <1>10, <1>11, <1>12, <1>13,
     <1>14, <1>15, <1>16, <1>17, <1>18
  DEF Next, Step, Enter, Entering, Command, Runtime

-----------------------------------------------------------------------------
(* The theorems.                                                           *)

(* The invariant holds of every reachable state. *)
THEOREM Invariance == Spec => []IInv
<1>1. Init => IInv
  BY NewStageOK, PipelineConstants
  DEF Init, IInv, Shapes, StagesInv, StageOK, Stages, Sources, Readers, GenStates, Exits,
      CmdStates, GuardStates
<1>2. IInv /\ [Next]_vars => IInv'
  BY ShapesStep, StagesStep DEF IInv
<1> QED
  BY <1>1, <1>2, PTL DEF Spec

(* Types, with the bounds they state: a channel buffers at most one value   *)
(* beyond its slack, whatever the command before it does.                   *)
THEOREM TypeCorrect == Spec => []TypeOK
<1>1. IInv => TypeOK
  <2> SUFFICES ASSUME IInv PROVE TypeOK
    OBVIOUS
  <2>1. ASSUME NEW i \in Stages
        PROVE  ch[i] \in Channels(MaxValues) /\ received[i] \in 0 .. MaxValues
    <3>1. StageNow(i)
      BY DEF IInv, StagesInv, StageNow
    <3> QED
      BY <3>1, ChannelConstants, PipelineConstants
      DEF StageNow, StageOK, Chan, Channels, GenStates, Conserved, AsksCounted, Paced, InHand,
          Exited, Answers
  <2> QED
    BY <2>1 DEF IInv, Shapes, TypeOK, GenStates, Exits, CmdStates, GuardStates
<1> QED
  BY <1>1, Invariance, PTL

(* No command has written more than its reader holds, plus the slack, while *)
(* the reader holds it or after it has walked away.                         *)
THEOREM NeverAheadHolds == Spec => []NeverAhead
<1>1. IInv => NeverAhead
  BY ChannelConstants
  DEF IInv, StagesInv, NeverAhead, StageOK, Chan, AsksCounted, Paced, Exited
<1> QED
  BY <1>1, Invariance, PTL

(* Who is told of the end or of a failure has been handed every value.      *)
THEOREM NothingLostHolds == Spec => []NothingLost
<1>1. IInv => NothingLost
  BY DEF IInv, StagesInv, NothingLost, StageOK, Exited
<1> QED
  BY <1>1, Invariance, PTL

-----------------------------------------------------------------------------
(***************************************************************************)
(* How the stages hang together.  From here on the parties are taken in    *)
(* pairs: a reader's guard and the generator it asks (LinkOK), a command   *)
(* and its own guard (LoopOK), a command and the end of its channel        *)
(* (EndsOK, CutOK), and a command nobody ever entered with the reason its  *)
(* reader had (UnreadOK).                                                  *)
(***************************************************************************)

\* Where the generator is, of which reader i is the reader.
LinkOK(i) ==
  LET g == gen[i - 1] IN
  /\ guard[i] = "fresh"     => g = "fresh" \/ i = 1
  /\ guard[i] = "pulling"   => g \in {"starting", "waiting", "closing", "done"}
  /\ guard[i] = "yielded"   => g = "yielded"
  /\ guard[i] = "leaving"   => g \in {"fresh", "yielded"} \/ i = 1
  /\ guard[i] = "finishing" => g \in {"closing", "done"}
  /\ guard[i] = "done"      => g = "done"

\* Where the command is in its loop over the input.
LoopOK(i) ==
  /\ cmd[i] = "none"                   => guard[i] = "fresh"
  /\ cmd[i] \in {"ready", "writing"}   => guard[i] \in {"fresh", "yielded", "done"}
  /\ cmd[i] = "reading"                => guard[i] \in {"pulling", "leaving", "finishing"}
  /\ cmd[i] \in {"breaking", "throwing"} => guard[i] \in {"leaving", "finishing"}
  /\ cmd[i] = "draining"               => guard[i] \notin {"fresh", "done"}
  /\ cmd[i] \in Settled                => guard[i] \in {"fresh", "done"}
  /\ cmd[i] = "returned"               => guard[i] = "done"

\* What ends the channel of a command, and what that is the end of.
EndsOK(i) ==
  /\ ch[i].ended => cmd[i] \in Settled \/ i \in sig
  /\ exit[i] \in {"end", "fail"} => ch[i].ended
  /\ i \in stop => exit[i] # "none"
  /\ gen[i] = "done" => cmd[i] \in Settled \cup {"none"}

\* The channel of a command that was cut short has failed before it can end.
CutOK(i) ==
  i \in cut =>
    /\ exit[i] # "end"
    /\ exit[i] = "none" => gen[i] = "fresh" \/ (ch[i].failed /\ ch[i].reader # "end")

\* A reader that does not want its input at all has been stopped.
UnreadOK(i) ==
  (guard[i] = "leaving" /\ gen[i - 1] = "fresh") \/ (gen[i - 1] = "done" /\ cmd[i - 1] = "none")
    => i \in sig \/ exit[i] = "returned"

Links   == \A i \in Readers : LinkOK(i)
Loops   == \A i \in Stages : LoopOK(i)
Ends    == \A i \in Stages : EndsOK(i)
Cuts    == \A i \in Stages : CutOK(i)
Unreads == \A i \in Stages \ {1} : UnreadOK(i)

Fit  == Links /\ Loops /\ Ends /\ Cuts /\ Unreads
JInv == IInv /\ Fit

-----------------------------------------------------------------------------
(* What is known of a stage, and of its neighbours.                        *)

(* The places of a stage among the generators and the readers. *)
LEMMA Places ==
  /\ \A i \in Stages : i \in Readers /\ i + 1 \in Readers /\ i \in Sources /\ i \in Nat /\ i # 0
  /\ \A i \in Readers : /\ i - 1 \in Sources /\ i \in Nat /\ i >= 1
                        /\ i # 1 => i - 1 \in Stages
                        /\ i # N + 1 => i \in Stages
  /\ N + 1 \in Readers /\ N \in Stages /\ N + 1 \notin Stages /\ 0 \in Sources
  BY PipelineConstants DEF Stages, Readers, Sources

(* What StageOK says of a command and the end of its channel. *)
LEMMA StageSays ==
  ASSUME IInv, NEW i \in Stages
  PROVE  /\ ch[i] \in Chan
         /\ exit[i] = "none" <=> gen[i] \notin {"closing", "done"}
         /\ ch[i].failed => ch[i].ended
         /\ ch[i].reader \in {"end", "fail"} => ch[i].ended
         /\ gen[i] = "fresh" => cmd[i] = "none"
         /\ cmd[i] = "none" => gen[i] \in {"fresh", "done"} /\ ~ch[i].ended /\ ch[i].reader = "none"
  BY DEF IInv, Shapes, StagesInv, StageOK, Exited, Unentered, NewChannel

\* d is the channel c, no nearer to its end.
AsOpen(c, d) ==
  /\ d.ended = c.ended /\ d.failed = c.failed
  /\ d.reader = "end" => c.reader = "end"

(* An ask is the only thing that counts as one; a reader of a channel that *)
(* failed is not told it has ended.                                        *)
LEMMA AskEnds ==
  ASSUME NEW c \in Chan
  PROVE  /\ Ask(c).ended = c.ended /\ Ask(c).failed = c.failed
         /\ c.failed => Ask(c).reader # "end"
  BY AskFields DEF Fields, Found, Closed

(* A failure comes too late for a channel that has ended. *)
LEMMA FailEnds ==
  ASSUME NEW c \in Chan, c.failed => c.ended
  PROVE  /\ Fail(c).ended /\ (~c.ended \/ c.failed => Fail(c).failed)
         /\ Fail(c).reader = "end" => c.reader = "end"
         /\ Fail(c).demand = c.demand
<1>1. CASE c.ended
  BY <1>1 DEF Fail
<1>2. CASE ~c.ended
  BY <1>2, FailFields DEF Fields
<1> QED
  BY <1>1, <1>2

(* A close ends the channel, once. *)
LEMMA CloseEnds ==
  ASSUME NEW c \in Chan
  PROVE  /\ Close(c).ended /\ Close(c).failed = c.failed /\ Close(c).demand = c.demand
         /\ c.ended => Close(c) = c
<1>1. CASE c.ended
  BY <1>1 DEF Close
<1>2. CASE ~c.ended
  <2> DEFINE d == [c EXCEPT !.ended = TRUE]
  <2>1. d \in Chan /\ d.ended /\ d.failed = c.failed /\ d.demand = c.demand
    BY DEF Chan
  <2>2. Close(c) = FlushWaiters(d)
    BY <1>2 DEF Close
  <2> HIDE DEF d
  <2> QED
    BY <1>2, <2>1, <2>2, FlushFields DEF Fields
<1> QED
  BY <1>1, <1>2

(* Nothing else ends a channel, or asks it. *)
LEMMA OpenStays ==
  ASSUME NEW c \in Chan
  PROVE  /\ AsOpen(c, Written(c)) /\ Written(c).demand = c.demand
         /\ AsOpen(c, [c EXCEPT !.woken = FALSE]) /\ [c EXCEPT !.woken = FALSE].demand = c.demand
         /\ AsOpen(c, [c EXCEPT !.reader = "none"]) /\ [c EXCEPT !.reader = "none"].demand = c.demand
         /\ AsOpen(c, [Abandon(c) EXCEPT !.reader = "none"])
         /\ [Abandon(c) EXCEPT !.reader = "none"].demand = c.demand
<1>1. AsOpen(c, Written(c)) /\ Written(c).demand = c.demand
  BY WrittenFields DEF Fields, AsOpen
<1>2. AsOpen(c, [c EXCEPT !.woken = FALSE]) /\ [c EXCEPT !.woken = FALSE].demand = c.demand
  BY WokenFields DEF Fields, AsOpen
<1>3. AsOpen(c, [c EXCEPT !.reader = "none"]) /\ [c EXCEPT !.reader = "none"].demand = c.demand
  BY DEF Chan, AsOpen
<1>4. /\ AsOpen(c, [Abandon(c) EXCEPT !.reader = "none"])
      /\ [Abandon(c) EXCEPT !.reader = "none"].demand = c.demand
  <2>1. CASE c.abandoned
    BY <1>3, <2>1 DEF Abandon
  <2>2. CASE ~c.abandoned
    BY <2>2, AbandonFields DEF Fields, AsOpen
  <2> QED
    BY <2>1, <2>2
<1> QED
  BY <1>1, <1>2, <1>3, <1>4

-----------------------------------------------------------------------------
(* Asking, and leaving.                                                    *)

(* A pull of a reader that has not been stopped. *)
LEMMA PullFits ==
  ASSUME JInv, NEW i \in Readers, NEW commands,
         \/ commands = cmd /\ (i \in Stages => cmd[i] = "draining")
         \/ /\ i \in Stages /\ cmd[i] = "ready"
            /\ \E n \in {"reading", "draining"} : commands = [cmd EXCEPT ![i] = n],
         i \in Stages => i \notin sig \cup stop,
         guard[i] \in {"fresh", "yielded"}, Pull(i, commands),
         UNCHANGED <<exit, sig, stop, cut>>
  PROVE  Fit'
<1> DEFINE j == i - 1
<1>1. /\ guard' = [guard EXCEPT ![i] = "pulling"]
      /\ \A k \in Readers : k # i => guard'[k] = guard[k]
      /\ guard'[i] = "pulling"
  BY DEF Pull, JInv, IInv, Shapes
<1>2. /\ j \in Sources /\ (i # 1 => j \in Stages) /\ (i = 1 => gen[j] = "done")
      /\ i \in Nat /\ i >= 1 /\ \A k \in Stages : k # 0 /\ k \in Nat /\ k \in Sources /\ k \in Readers
  BY Places DEF JInv, IInv, Shapes
<1>3. \A k \in Stages : k # i => commands[k] = cmd[k]
  BY DEF JInv, IInv, Shapes
<1>4. i \in Stages => commands[i] \in {"reading", "draining"}
  BY DEF JInv, IInv, Shapes
<1>5. CASE gen[j] = "fresh"
  <2>1. /\ j \in Stages /\ gen' = [gen EXCEPT ![j] = "starting"]
        /\ cmd' = [commands EXCEPT ![j] = "ready"]
        /\ ch' = IF j \in sig THEN [ch EXCEPT ![j] = Fail(@)] ELSE ch
    BY <1>2, <1>5 DEF Pull
  <2>2. /\ cmd[j] = "none" /\ guard[j] = "fresh" /\ ~ch[j].ended /\ ch[j].reader = "none"
        /\ ~ch[j].failed /\ ch[j] \in Chan /\ exit[j] = "none" /\ j # i
    BY <1>2, <1>5, <2>1, StageSays DEF JInv, Fit, Loops, LoopOK
  <2>3. /\ \A k \in Sources : k # j => gen'[k] = gen[k]
        /\ \A k \in Stages : k # j => ch'[k] = ch[k] /\ cmd'[k] = commands[k]
        /\ gen'[j] = "starting" /\ cmd'[j] = "ready"
    BY <1>2, <2>1, <2>2 DEF JInv, IInv, Shapes
  <2>4. ch'[j].reader # "end" /\ (j \in sig => ch'[j].failed) /\ (j \notin sig => ~ch'[j].ended)
    BY <2>1, <2>2, FailEnds DEF JInv, IInv, Shapes
  <2>5. Links'
    BY <1>1, <1>2, <1>5, <2>3, Places DEF JInv, Fit, Links, LinkOK
  <2>6. Loops'
    BY <1>1, <1>2, <1>3, <1>4, <2>2, <2>3 DEF JInv, Fit, Loops, LoopOK, Settled
  <2>7. Ends'
    BY <1>2, <1>3, <1>4, <2>2, <2>3, <2>4 DEF JInv, Fit, Ends, EndsOK, Settled
  <2>8. Cuts'
    BY <1>2, <2>2, <2>3, <2>4 DEF JInv, IInv, Shapes, Fit, Cuts, CutOK
  <2>9. Unreads'
    BY <1>1, <1>2, <1>3, <1>4, <2>2, <2>3, Places DEF JInv, Fit, Unreads, UnreadOK
  <2> QED
    BY <2>5, <2>6, <2>7, <2>8, <2>9 DEF Fit
<1>6. CASE gen[j] # "fresh"
  <2>1. cmd' = commands
    BY <1>6 DEF Pull
  <2>2. /\ \A k \in Sources : k # j => gen'[k] = gen[k]
        /\ gen'[j] \in {"waiting", "done"} /\ (gen'[j] = "done" <=> gen[j] = "done")
    BY <1>2, <1>6 DEF Pull, JInv, IInv, Shapes
  <2>3. \A k \in Stages : /\ ch'[k].ended = ch[k].ended /\ ch'[k].failed = ch[k].failed
                          /\ ch[k].failed /\ ch[k].reader # "end" => ch'[k].reader # "end"
    <3>1. ASSUME NEW k \in Stages PROVE ch'[k] = ch[k] \/ ch'[k] = Ask(ch[k])
      BY <1>6 DEF Pull, JInv, IInv, Shapes
    <3> QED
      BY <3>1, AskEnds, StageSays DEF JInv
  <2>4. Links'
    BY <1>1, <1>2, <2>2, Places DEF JInv, Fit, Links, LinkOK
  <2>5. Loops'
    BY <1>1, <1>2, <1>3, <1>4, <2>1 DEF JInv, Fit, Loops, LoopOK, Settled
  <2>6. Ends'
    BY <1>2, <1>3, <1>4, <2>1, <2>2, <2>3 DEF JInv, Fit, Ends, EndsOK, Settled
  <2>7. Cuts'
    BY <1>2, <1>6, <2>2, <2>3 DEF JInv, Fit, Cuts, CutOK
  <2>8. Unreads'
    BY <1>1, <1>2, <1>3, <1>4, <2>1, <2>2, Places DEF JInv, Fit, Unreads, UnreadOK
  <2> QED
    BY <2>4, <2>5, <2>6, <2>7, <2>8 DEF Fit
<1> QED
  BY <1>5, <1>6

(* What the guard does next, for a command that is ready or drains. *)
LEMMA GuardNextFits ==
  ASSUME JInv, NEW i \in Stages, NEW commands,
         \/ commands = cmd /\ cmd[i] = "draining"
         \/ cmd[i] = "ready" /\ \E n \in {"reading", "draining"} : commands = [cmd EXCEPT ![i] = n],
         guard[i] \in {"fresh", "yielded"}, GuardNext(i, commands),
         UNCHANGED <<exit, sig, stop, cut>>
  PROVE  Fit'
<1>1. i \in Readers
  BY Places
<1>2. CASE i \notin sig \cup stop
  BY <1>1, <1>2, PullFits DEF GuardNext
<1>3. CASE i \in sig \cup stop
  <2>1. /\ guard' = [guard EXCEPT ![i] = "leaving"] /\ cmd' = commands
        /\ UNCHANGED <<gen, ch, exit, sig, stop, cut>>
    BY <1>3 DEF GuardNext
  <2>2. /\ \A k \in Stages : k # i => cmd'[k] = cmd[k]
        /\ cmd[i] \in {"ready", "draining"} /\ cmd'[i] \in {"reading", "draining"}
        /\ \A k \in Readers : k # i => guard'[k] = guard[k]
        /\ guard'[i] = "leaving"
    BY <1>1, <2>1 DEF JInv, IInv, Shapes
  <2>3. i \in sig \/ exit[i] = "returned"
    BY <1>3, <2>2, Places DEF JInv, IInv, Shapes, Exits, Settled, Fit, Ends, EndsOK
  <2>4. Links'
    BY <2>1, <2>2 DEF JInv, Fit, Links, LinkOK
  <2>5. Loops'
    BY <2>2, Places DEF JInv, Fit, Loops, LoopOK, Settled
  <2>6. Ends'
    BY <2>1, <2>2 DEF JInv, Fit, Ends, EndsOK, Settled
  <2>7. Cuts'
    BY <2>1 DEF JInv, Fit, Cuts, CutOK
  <2>8. Unreads'
    BY <2>1, <2>2, <2>3, Places DEF JInv, Fit, Unreads, UnreadOK
  <2> QED
    BY <2>4, <2>5, <2>6, <2>7, <2>8 DEF Fit
<1> QED
  BY <1>2, <1>3

(* A generator stops for its reader or for its channel: its reader finds   *)
(* it closing, and its command hears of it.                                *)
LEMMA ClosingFits ==
  ASSUME JInv, NEW i \in Stages, NEW why, Closing(i, why), UNCHANGED <<cmd, sig, cut>>,
         \/ /\ gen[i] = "waiting" /\ ch[i].reader \in {"end", "fail"} /\ why = ch[i].reader
            /\ guard' = guard
         \/ /\ gen[i] = "yielded" /\ why = "returned" /\ guard[i + 1] = "leaving"
            /\ guard' = [guard EXCEPT ![i + 1] = "finishing"]
  PROVE  Fit'
<1>1. /\ \A k \in Sources : k # i => gen'[k] = gen[k] /\ exit'[k] = exit[k]
      /\ gen'[i] = "closing" /\ exit'[i] = why
      /\ \A k \in Stages : k # i => ch'[k] = ch[k]
      /\ ch'[i].ended = ch[i].ended /\ stop' = stop \cup {i}
  BY Places, StageSays, OpenStays DEF JInv, IInv, Shapes, Closing, AsOpen
<1>2. /\ i + 1 \in Readers /\ i + 1 # i /\ i \in Nat
      /\ \A k \in Readers : k # i + 1 => guard'[k] = guard[k]
      /\ guard'[i + 1] = guard[i + 1] \/ (guard[i + 1] = "leaving" /\ guard'[i + 1] = "finishing")
      /\ gen[i] = "yielded" => guard'[i + 1] = "finishing"
  BY Places DEF JInv, IInv, Shapes
<1>3. exit[i] = "none" /\ why \in {"end", "fail", "returned"} /\ cmd[i] # "none"
      /\ (why # "returned" => ch[i].ended)
  BY StageSays DEF JInv
<1>4. Links'
  BY <1>1, <1>2, Places DEF JInv, Fit, Links, LinkOK
<1>5. Loops'
  <2>1. \A k \in Stages : guard'[k] = guard[k]
                            \/ (guard[k] = "leaving" /\ guard'[k] = "finishing")
    BY <1>2, Places
  <2> QED
    BY <2>1 DEF JInv, Fit, Loops, LoopOK, Settled
<1>6. Ends'
  BY <1>1, <1>3, Places DEF JInv, Fit, Ends, EndsOK
<1>7. Cuts'
  BY <1>1, <1>3, Places DEF JInv, Fit, Cuts, CutOK
<1>8. Unreads'
  BY <1>1, <1>2, <1>3, Places DEF JInv, Fit, Unreads, UnreadOK
<1> QED
  BY <1>4, <1>5, <1>6, <1>7, <1>8 DEF Fit

(* A reader that leaves. *)
LEMMA LeaveFits == ASSUME JInv, NEW i \in Readers, Leave(i) PROVE Fit'
<1> DEFINE j == i - 1
<1>1. /\ guard[i] = "leaving" /\ guard' = [guard EXCEPT ![i] = "finishing"]
      /\ UNCHANGED <<cmd, sig, cut>>
  BY DEF Leave
<1>2. /\ j \in Sources /\ (i # 1 => j \in Stages) /\ (i = 1 => gen[j] = "done")
      /\ i \in Nat /\ i = j + 1
      /\ \A k \in Readers : k # i => guard'[k] = guard[k]
      /\ guard'[i] = "finishing"
  BY <1>1, Places DEF JInv, IInv, Shapes
<1>3. CASE gen[j] = "yielded"
  <2>1. j \in Stages /\ Closing(j, "returned") /\ guard[j + 1] = "leaving"
        /\ guard' = [guard EXCEPT ![j + 1] = "finishing"]
    BY <1>1, <1>2, <1>3 DEF Leave
  <2> QED
    BY <1>1, <1>3, <2>1, ClosingFits
<1>4. CASE gen[j] = "fresh"
  <2>1. /\ \A k \in Sources : k # j => gen'[k] = gen[k] /\ exit'[k] = exit[k]
        /\ gen'[j] = "done" /\ exit'[j] = "returned" /\ UNCHANGED <<ch, stop>> /\ j \in Stages
    BY <1>2, <1>4 DEF Leave, JInv, IInv, Shapes
  <2>2. cmd[j] = "none" /\ exit[j] = "none"
    BY <1>4, <2>1, StageSays DEF JInv
  <2>3. Links'
    BY <1>2, <2>1, Places DEF JInv, Fit, Links, LinkOK
  <2>4. Loops'
    <3>1. \A k \in Stages : guard'[k] = guard[k]
                            \/ (guard[k] = "leaving" /\ guard'[k] = "finishing")
      BY <1>1, <1>2, Places
    <3> QED
      BY <1>1, <3>1 DEF JInv, Fit, Loops, LoopOK, Settled
  <2>5. Ends'
    BY <1>1, <2>1, <2>2, Places DEF JInv, Fit, Ends, EndsOK
  <2>6. Cuts'
    BY <1>1, <2>1, <2>2, Places DEF JInv, Fit, Cuts, CutOK
  <2>7. Unreads'
    <3>1. SUFFICES ASSUME NEW k \in Stages \ {1} PROVE UnreadOK(k)'
      BY DEF Unreads
    <3>2. UnreadOK(k) /\ k - 1 \in Sources /\ k \in Readers /\ k \in Nat /\ k \in Sources
      BY Places DEF JInv, Fit, Unreads
    <3>3. CASE k = i
      BY <1>1, <1>2, <1>4, <2>1, <3>2, <3>3 DEF UnreadOK
    <3>4. CASE k # i
      BY <1>1, <1>2, <2>1, <2>2, <3>2, <3>4 DEF UnreadOK
    <3> QED
      BY <3>3, <3>4
  <2> QED
    BY <2>3, <2>4, <2>5, <2>6, <2>7 DEF Fit
<1>5. CASE gen[j] \notin {"fresh", "yielded"}
  <2>1. UNCHANGED <<gen, exit, ch, stop>> /\ gen[j] = "done"
    BY <1>5 DEF Leave
  <2>2. Links'
    BY <1>2, <2>1 DEF JInv, Fit, Links, LinkOK
  <2>3. Loops'
    <3>1. \A k \in Stages : guard'[k] = guard[k]
                            \/ (guard[k] = "leaving" /\ guard'[k] = "finishing")
      BY <1>1, <1>2, Places
    <3> QED
      BY <1>1, <3>1 DEF JInv, Fit, Loops, LoopOK, Settled
  <2>4. Ends' /\ Cuts'
    BY <1>1, <2>1 DEF JInv, Fit, Ends, EndsOK, Cuts, CutOK
  <2>5. Unreads'
    BY <1>1, <1>2, <2>1, Places DEF JInv, Fit, Unreads, UnreadOK
  <2> QED
    BY <2>2, <2>3, <2>4, <2>5 DEF Fit
<1> QED
  BY <1>3, <1>4, <1>5

-----------------------------------------------------------------------------
(* Commands, generators and signals.                                       *)

(* A command goes on, or settles: only its own link and its own channel    *)
(* can be disturbed.                                                       *)
LEMMA CommandFits ==
  ASSUME JInv, NEW i \in Stages, cmd[i] \notin Settled \cup {"none"}, cmd'[i] # "none",
         \A k \in Stages : k # i => cmd'[k] = cmd[k] /\ ch'[k] = ch[k],
         \A k \in Readers : k # i => guard'[k] = guard[k],
         UNCHANGED <<gen, exit, sig, stop, cut>>,
         LinkOK(i)', LoopOK(i)', guard'[i] = "leaving" => gen[i - 1] # "fresh",
         ch'[i].ended => cmd'[i] \in Settled \/ i \in sig,
         ch[i].ended => ch'[i].ended,
         ch[i].failed /\ ch[i].reader # "end" => ch'[i].failed /\ ch'[i].reader # "end"
  PROVE  Fit'
<1>1. Links'
  BY DEF JInv, Fit, Links, LinkOK
<1>2. Loops'
  <2>1. SUFFICES ASSUME NEW k \in Stages, k # i PROVE LoopOK(k)'
    BY DEF Loops
  <2>2. guard'[k] = guard[k] /\ cmd'[k] = cmd[k] /\ LoopOK(k)
    BY <2>1, Places DEF JInv, Fit, Loops
  <2> QED
    BY <2>2 DEF LoopOK, Settled
<1>3. Ends'
  BY DEF JInv, Fit, Ends, EndsOK, Settled
<1>4. Cuts'
  BY DEF JInv, Fit, Cuts, CutOK
<1>5. Unreads'
  <2>1. SUFFICES ASSUME NEW k \in Stages \ {1} PROVE UnreadOK(k)'
    BY DEF Unreads
  <2>2. UnreadOK(k) /\ k - 1 \in Stages /\ k \in Readers
    BY Places DEF JInv, Fit, Unreads
  <2>3. cmd'[k - 1] = "none" => cmd[k - 1] = "none"
    BY <2>2
  <2>4. guard'[k] = "leaving" /\ gen[k - 1] = "fresh" => guard[k] = "leaving"
    BY <2>2
  <2> QED
    BY <2>2, <2>3, <2>4 DEF UnreadOK
<1> QED
  BY <1>1, <1>2, <1>3, <1>4, <1>5 DEF Fit

(* A value is written, or a parked write wakes. *)
LEMMA WriteFits ==
  ASSUME JInv, NEW i \in Stages, Write(i) \/ Wake(i)
  PROVE  Fit'
<1>1. /\ cmd[i] \in {"ready", "writing"} /\ cmd'[i] \in {"ready", "writing"}
      /\ \A k \in Stages : k # i => cmd'[k] = cmd[k]
      /\ UNCHANGED <<gen, exit, guard, sig, stop, cut>>
  BY DEF Write, Wake, JInv, IInv, Shapes
<1>2. \A k \in Stages : k # i => ch'[k] = ch[k]
  BY DEF Write, Wake, JInv, IInv, Shapes
<1>3. ch'[i] = Written(ch[i]) \/ ch'[i] = [ch[i] EXCEPT !.woken = FALSE]
  <2>1. CASE Write(i)
    BY <2>1 DEF Write, JInv, IInv, Shapes
  <2>2. CASE Wake(i)
    <3>1. ch' = [ch EXCEPT ![i] = [@ EXCEPT !.woken = FALSE]]
      BY <2>2 DEF Wake
    <3> QED
      BY <3>1 DEF JInv, IInv, Shapes
  <2> QED
    BY <2>1, <2>2
<1>4. AsOpen(ch[i], ch'[i])
  <2>1. /\ AsOpen(ch[i], Written(ch[i]))
        /\ AsOpen(ch[i], [ch[i] EXCEPT !.woken = FALSE])
    BY StageSays, OpenStays DEF JInv
  <2> QED
    BY <1>3, <2>1
<1>5. LinkOK(i)' /\ LoopOK(i)'
  BY <1>1, Places DEF JInv, Fit, Links, LinkOK, Loops, LoopOK, Settled
<1>6. guard'[i] # "leaving"
  BY <1>1 DEF JInv, Fit, Loops, LoopOK
<1>7. ch[i].ended => i \in sig
  BY <1>1 DEF JInv, Fit, Ends, EndsOK, Settled
<1> QED
  BY <1>1, <1>2, <1>4, <1>5, <1>6, <1>7, CommandFits DEF AsOpen, Settled

(* A command leaves its loop, by a break or a throw. *)
LEMMA LeavesLoop ==
  ASSUME JInv, NEW i \in Stages, cmd[i] = "ready", guard[i] = "yielded",
         NEW n \in {"breaking", "throwing"}, cmd' = [cmd EXCEPT ![i] = n],
         guard' = [guard EXCEPT ![i] = "leaving"], UNCHANGED <<ch, gen, exit, sig, stop, cut>>
  PROVE  Fit'
<1>1. /\ cmd'[i] = n /\ guard'[i] = "leaving" /\ \A k \in Stages : k # i => cmd'[k] = cmd[k]
      /\ \A k \in Readers : k # i => guard'[k] = guard[k]
  BY Places DEF JInv, IInv, Shapes
<1>2. gen[i - 1] = "yielded"
  BY Places DEF JInv, Fit, Links, LinkOK
<1>3. LinkOK(i)' /\ LoopOK(i)'
  BY <1>1, <1>2 DEF LinkOK, LoopOK, Settled
<1>4. ch[i].ended => i \in sig
  BY DEF JInv, Fit, Ends, EndsOK, Settled
<1> QED
  BY <1>1, <1>2, <1>3, <1>4, CommandFits DEF Settled

(* A command settles. *)
LEMMA SettleFits ==
  ASSUME JInv, NEW i \in Stages, NEW how \in Settled, NEW input,
         cmd[i] \notin Settled \cup {"none"}, Settle(i, how, input),
         UNCHANGED <<gen, exit, sig, stop, cut>>,
         \/ guard[i] \in {"pulling", "finishing"} /\ gen[i - 1] = "done"
            /\ guard' = [guard EXCEPT ![i] = "done"]
         \/ guard' = guard /\ guard[i] = "done"
         \/ guard' = guard /\ guard[i] = "fresh" /\ how = "threw"
  PROVE  Fit'
<1>1. /\ cmd'[i] = how /\ \A k \in Stages : k # i => cmd'[k] = cmd[k]
      /\ \A k \in Readers : k # i => guard'[k] = guard[k]
      /\ guard'[i] \in {"done", "fresh"}
      /\ \A k \in Stages : k # i => ch'[k] = ch[k]
      /\ ch'[i] = Fail(ch[i]) \/ ch'[i] = Close(ch[i])
  BY Places DEF JInv, IInv, Shapes, Settle
<1>2. ch'[i].ended /\ (ch[i].failed => ch'[i].failed)
      /\ (ch[i].failed /\ ch[i].reader # "end" => ch'[i].reader # "end")
  BY <1>1, StageSays, FailEnds, CloseEnds DEF JInv
<1>3. LinkOK(i)' /\ LoopOK(i)'
  BY <1>1, Places DEF JInv, IInv, Shapes, Fit, Links, LinkOK, LoopOK, Settled
<1> QED
  BY <1>1, <1>2, <1>3, CommandFits DEF Settled

(* The guard's loop is over. *)
LEMMA LoopEndsFits ==
  ASSUME JInv, NEW i \in Stages, LoopEnds(i)
  PROVE  Fit'
<1>1. /\ guard[i] \in {"pulling", "finishing"} /\ gen[i - 1] = "done"
      /\ guard' = [guard EXCEPT ![i] = "done"] /\ UNCHANGED <<gen, exit, sig, stop, cut>>
  BY DEF LoopEnds
<1>2. CASE /\ cmd[i] \in {"breaking", "reading"} /\ UNCHANGED ch
           /\ cmd' = [cmd EXCEPT ![i] = "ready"]
  <2>1. /\ cmd'[i] = "ready" /\ guard'[i] = "done"
        /\ \A k \in Stages : k # i => cmd'[k] = cmd[k]
        /\ \A k \in Readers : k # i => guard'[k] = guard[k]
    BY <1>1, <1>2, Places DEF JInv, IInv, Shapes
  <2>2. LinkOK(i)' /\ LoopOK(i)'
    BY <1>1, <2>1 DEF LinkOK, LoopOK, Settled
  <2>3. ch[i].ended => i \in sig
    BY <1>2 DEF JInv, Fit, Ends, EndsOK, Settled
  <2> QED
    BY <1>1, <1>2, <2>1, <2>2, <2>3, CommandFits DEF Settled
<1>3. CASE /\ cmd[i] \in {"reading", "throwing", "draining"}
           /\ \E how \in Settled : Settle(i, how, exit[i - 1])
  BY <1>1, <1>3, SettleFits DEF Settled
<1> QED
  BY <1>2, <1>3 DEF LoopEnds, Settled

(* The first ask of a channel. *)
LEMMA FirstAskFits == ASSUME JInv, NEW i \in Stages, FirstAsk(i) PROVE Fit'
<1>1. /\ gen[i] = "starting" /\ gen' = [gen EXCEPT ![i] = "waiting"]
      /\ ch' = [ch EXCEPT ![i] = Ask(@)]
      /\ UNCHANGED <<exit, cmd, guard, sig, stop, cut>>
  BY DEF FirstAsk
<1>2. \A k \in Sources : k # i => gen'[k] = gen[k]
  BY <1>1 DEF JInv, IInv, Shapes
<1>3. gen'[i] = "waiting" /\ \A k \in Stages : k \in Sources /\ k \in Nat /\ k >= 1
  BY <1>1, Places DEF JInv, IInv, Shapes
<1>4. \A k \in Stages : /\ ch'[k].ended = ch[k].ended /\ ch'[k].failed = ch[k].failed
                        /\ ch[k].failed /\ ch[k].reader # "end" => ch'[k].reader # "end"
  <2>1. ASSUME NEW k \in Stages PROVE ch'[k] = ch[k] \/ ch'[k] = Ask(ch[k])
    BY <1>1 DEF JInv, IInv, Shapes
  <2> QED
    BY <2>1, AskEnds, StageSays DEF JInv
<1>5. Links'
  BY <1>1, <1>2, <1>3, Places DEF JInv, Fit, Links, LinkOK
<1>6. Loops' /\ Ends' /\ Cuts'
  BY <1>1, <1>2, <1>3, <1>4 DEF JInv, Fit, Loops, LoopOK, Ends, EndsOK, Cuts, CutOK, Settled
<1>7. Unreads'
  BY <1>1, <1>2, <1>3, Places DEF JInv, Fit, Unreads, UnreadOK
<1> QED
  BY <1>5, <1>6, <1>7 DEF Fit

(* A value reaches its reader. *)
LEMMA ReceiveFits == ASSUME JInv, NEW i \in Stages, Receive(i) PROVE Fit'
<1> DEFINE j == i + 1
<1>1. /\ gen[i] = "waiting" /\ guard[j] = "pulling" /\ gen' = [gen EXCEPT ![i] = "yielded"]
      /\ ch' = [ch EXCEPT ![i] = [@ EXCEPT !.reader = "none"]]
      /\ guard' = [guard EXCEPT ![j] = IF i = N /\ N \in sig THEN "leaving" ELSE "yielded"]
      /\ cmd' = IF i < N /\ cmd[j] = "reading" THEN [cmd EXCEPT ![j] = "ready"] ELSE cmd
      /\ UNCHANGED <<exit, sig, stop, cut>>
  BY DEF Receive
<1>2. /\ j \in Readers /\ j # i /\ i \in Nat /\ i >= 1 /\ (j \in Stages <=> i < N)
      /\ \A k \in Stages : k \in Sources /\ k \in Readers /\ k \in Nat /\ k >= 1
      /\ N \in Nat /\ i <= N
  BY PipelineConstants, Places DEF Stages
<1>3. /\ gen'[i] = "yielded" /\ \A k \in Sources : k # i => gen'[k] = gen[k]
      /\ \A k \in Readers : k # j => guard'[k] = guard[k]
      /\ guard'[j] = "yielded" \/ (guard'[j] = "leaving" /\ j \notin Stages)
  BY <1>1, <1>2, Places DEF JInv, IInv, Shapes
<1>4. /\ \A k \in Stages : cmd'[k] = cmd[k] \/ (k = j /\ cmd[j] = "reading" /\ cmd'[j] = "ready")
      /\ j \in Stages => cmd'[j] # "reading"
  BY <1>1, <1>2 DEF JInv, IInv, Shapes
<1>5. \A k \in Stages : AsOpen(ch[k], ch'[k])
  <2>1. ASSUME NEW k \in Stages
        PROVE  ch'[k] = ch[k] \/ ch'[k] = [ch[k] EXCEPT !.reader = "none"]
    BY <1>1 DEF JInv, IInv, Shapes
  <2>2. ASSUME NEW k \in Stages PROVE AsOpen(ch[k], [ch[k] EXCEPT !.reader = "none"])
    BY OpenStays, StageSays DEF JInv
  <2> QED
    BY <2>1, <2>2 DEF AsOpen
<1>6. Links'
  BY <1>1, <1>2, <1>3, Places DEF JInv, Fit, Links, LinkOK
<1>7. Loops'
  BY <1>1, <1>2, <1>3, <1>4 DEF JInv, Fit, Loops, LoopOK, Settled
<1>8. Ends'
  BY <1>1, <1>2, <1>3, <1>4, <1>5 DEF JInv, Fit, Ends, EndsOK, Settled, AsOpen
<1>9. Cuts'
  BY <1>1, <1>2, <1>3, <1>5 DEF JInv, Fit, Cuts, CutOK, AsOpen
<1>10. Unreads'
  <2>1. SUFFICES ASSUME NEW k \in Stages \ {1} PROVE UnreadOK(k)'
    BY DEF Unreads
  <2>2. UnreadOK(k) /\ k - 1 \in Stages
    BY Places DEF JInv, Fit, Unreads
  <2>3. cmd'[k - 1] = "none" => cmd[k - 1] = "none"
    BY <1>4, <2>2
  <2>4. gen'[k - 1] \in {"done", "fresh"} => gen'[k - 1] = gen[k - 1]
    BY <1>2, <1>3, <2>2
  <2>5. guard'[k] = "leaving" => guard[k] = "leaving"
    BY <1>2, <1>3
  <2> QED
    BY <1>1, <2>2, <2>3, <2>4, <2>5 DEF UnreadOK
<1> QED
  BY <1>6, <1>7, <1>8, <1>9, <1>10 DEF Fit

(* A generator is over, and its command with it. *)
LEMMA GenDoneFits == ASSUME JInv, NEW i \in Stages, GenDone(i) PROVE Fit'
<1>1. /\ gen[i] = "closing" /\ cmd[i] \in Settled /\ gen' = [gen EXCEPT ![i] = "done"]
      /\ UNCHANGED <<ch, exit, cmd, guard, sig, stop, cut>>
  BY DEF GenDone
<1>2. /\ gen'[i] = "done" /\ \A k \in Sources : k # i => gen'[k] = gen[k]
      /\ \A k \in Stages : k \in Sources /\ k \in Nat /\ k >= 1
  BY <1>1, Places DEF JInv, IInv, Shapes
<1>3. Links'
  BY <1>1, <1>2, Places DEF JInv, Fit, Links, LinkOK
<1>4. Loops' /\ Ends' /\ Cuts'
  BY <1>1, <1>2 DEF JInv, Fit, Loops, LoopOK, Ends, EndsOK, Cuts, CutOK, Settled
<1>5. Unreads'
  BY <1>1, <1>2, Places DEF JInv, Fit, Unreads, UnreadOK, Settled
<1> QED
  BY <1>3, <1>4, <1>5 DEF Fit

(* The loop of runPipelineStages, when it asks no more. *)
LEMMA ConsumerFits ==
  ASSUME JInv, Abandoned \/ PipelineEnds
  PROVE  Fit'
<1>1. /\ UNCHANGED <<ch, gen, exit, cmd, sig, stop, cut>>
      /\ \A k \in Stages : guard'[k] = guard[k]
      /\ \A k \in Readers : k # N + 1 => guard'[k] = guard[k]
      /\ \/ guard[N + 1] = "yielded" /\ guard'[N + 1] = "leaving"
         \/ gen[N] = "done" /\ guard'[N + 1] = "done"
  BY Places DEF Abandoned, PipelineEnds, JInv, IInv, Shapes
<1>2. Links'
  <2>1. (N + 1) - 1 = N
    BY PipelineConstants
  <2> QED
    BY <1>1, <2>1, Places DEF JInv, Fit, Links, LinkOK
<1>3. Loops' /\ Ends' /\ Cuts' /\ Unreads'
  BY <1>1 DEF JInv, Fit, Loops, LoopOK, Ends, EndsOK, Cuts, CutOK, Unreads, UnreadOK, Settled
<1> QED
  BY <1>2, <1>3 DEF Fit

(* A signal: a command that has not settled fails its channel, now or when *)
(* it is entered.                                                          *)
LEMMA SignalFits == ASSUME JInv, NEW i \in Stages, Signal(i) PROVE Fit'
<1>1. /\ i \notin sig /\ sig' = sig \cup {i}
      /\ cut' = IF cmd[i] \in Settled THEN cut ELSE cut \cup {i}
      /\ UNCHANGED <<gen, exit, cmd, guard, stop>>
  BY DEF Signal
<1>2. /\ \A k \in Stages : k # i => ch'[k] = ch[k]
      /\ ch'[i] = IF gen[i] \in {"starting", "waiting", "yielded"} THEN Fail(ch[i]) ELSE ch[i]
  BY DEF Signal, JInv, IInv, Shapes
<1>3. /\ ch[i].ended => ch'[i].ended
      /\ ch'[i].reader = "end" => ch[i].reader = "end"
      /\ gen[i] \in {"starting", "waiting", "yielded"} /\ ~ch[i].ended => ch'[i].failed
      /\ ch[i].failed => ch'[i].failed
      /\ ch'[i].ended => ch[i].ended \/ gen[i] \in {"starting", "waiting", "yielded"}
  BY <1>2, StageSays, FailEnds DEF JInv
<1>4. Links' /\ Loops'
  BY <1>1 DEF JInv, Fit, Links, LinkOK, Loops, LoopOK, Settled
<1>5. Ends'
  BY <1>1, <1>2, <1>3 DEF JInv, Fit, Ends, EndsOK, Settled
<1>6. Cuts'
  <2>1. ASSUME cmd[i] \notin Settled PROVE CutOK(i)'
    <3>1. ~ch[i].ended
      BY <1>1, <2>1 DEF JInv, Fit, Ends, EndsOK
    <3>2. ch[i].reader # "end" /\ exit[i] \notin {"end", "fail"}
      BY <3>1, StageSays DEF JInv, Fit, Ends, EndsOK
    <3>3. exit[i] = "none" => gen[i] \in {"fresh", "starting", "waiting", "yielded"}
      BY StageSays, Places DEF JInv, IInv, Shapes, GenStates
    <3> QED
      BY <1>1, <1>3, <3>1, <3>2, <3>3 DEF CutOK
  <2> QED
    BY <1>1, <1>2, <1>3, <2>1 DEF JInv, Fit, Cuts, CutOK
<1>7. Unreads'
  BY <1>1 DEF JInv, Fit, Unreads, UnreadOK
<1> QED
  BY <1>4, <1>5, <1>6, <1>7 DEF Fit

(* Every step keeps the parties of a pipeline in step with each other. *)
LEMMA FitStep == JInv /\ [Next]_vars => Fit'
<1> SUFFICES ASSUME JInv, [Next]_vars PROVE Fit'
  OBVIOUS
<1>1. ASSUME NEW i \in Stages, Read(i) \/ Drain(i) PROVE Fit'
  <2>1. CASE Read(i)
    BY <2>1, GuardNextFits DEF Read
  <2>2. CASE Drain(i)
    BY <2>2, GuardNextFits DEF Drain
  <2> QED
    BY <1>1, <2>1, <2>2
<1>2. ASSUME NEW i \in Stages, Return(i) PROVE Fit'
  <2>1. CASE guard[i] = "done"
    BY <1>2, <2>1, SettleFits DEF Return, Settled
  <2>2. CASE guard[i] # "done"
    BY <1>2, <2>2, GuardNextFits DEF Return
  <2> QED
    BY <2>1, <2>2
<1>3. ASSUME NEW i \in Stages, Write(i) \/ Wake(i) PROVE Fit'
  BY <1>3, WriteFits
<1>4. ASSUME NEW i \in Stages, Break(i) PROVE Fit'
  BY <1>4, LeavesLoop DEF Break
<1>5. ASSUME NEW i \in Stages, Throw(i) PROVE Fit'
  <2>1. CASE guard[i] = "yielded"
    BY <1>5, <2>1, LeavesLoop DEF Throw
  <2>2. CASE guard[i] # "yielded"
    <3>1. /\ cmd[i] = "ready" /\ Settle(i, "threw", "none") /\ "threw" \in Settled
          /\ UNCHANGED <<gen, exit, guard, sig, stop, cut>>
      BY <1>5, <2>2 DEF Throw, Settled
    <3>2. guard[i] \in {"fresh", "done"}
      BY <2>2, <3>1 DEF JInv, Fit, Loops, LoopOK
    <3> QED
      BY <3>1, <3>2, SettleFits DEF Settled
  <2> QED
    BY <2>1, <2>2
<1>6. ASSUME NEW i \in Stages, Receive(i) PROVE Fit'
  BY <1>6, ReceiveFits
<1>7. ASSUME NEW i \in Stages, ReaderEnds(i) PROVE Fit'
  BY <1>7, ClosingFits DEF ReaderEnds
<1>8. ASSUME NEW i \in Stages, GenDone(i) PROVE Fit'
  BY <1>8, GenDoneFits
<1>9. ASSUME NEW i \in Stages, LoopEnds(i) PROVE Fit'
  BY <1>9, LoopEndsFits
<1>10. ASSUME NEW i \in Stages, FirstAsk(i) PROVE Fit'
  BY <1>10, FirstAskFits
<1>11. ASSUME NEW i \in Readers, Leave(i) PROVE Fit'
  BY <1>11, LeaveFits
<1>12. ASSUME Next1 PROVE Fit'
  BY <1>12, PullFits, Places DEF Next1
<1>13. ASSUME Abandoned \/ PipelineEnds PROVE Fit'
  BY <1>13, ConsumerFits
<1>14. ASSUME NEW i \in Stages, Signal(i) PROVE Fit'
  BY <1>14, SignalFits
<1>15. CASE UNCHANGED vars
  BY <1>15 DEF vars, JInv, Fit, Links, LinkOK, Loops, LoopOK, Ends, EndsOK, Cuts, CutOK,
               Unreads, UnreadOK, Settled
<1> QED
  BY <1>1, <1>2, <1>3, <1>4, <1>5, <1>6, <1>7, <1>8, <1>9, <1>10, <1>11, <1>12, <1>13,
     <1>14, <1>15
  DEF Next, Step, Enter, Entering, Command, Runtime

-----------------------------------------------------------------------------
(* The theorems.                                                           *)

(* How the parties of a pipeline stand to each other, in every reachable   *)
(* state.                                                                  *)
THEOREM FitHolds == Spec => []JInv
<1>1. Init => Fit
  BY PipelineConstants, Places
  DEF Init, Fit, Links, LinkOK, Loops, LoopOK, Ends, EndsOK, Cuts, CutOK, Unreads, UnreadOK,
      NewChannel, Settled, Stages, Sources, Readers
<1>2. IInv /\ Fit /\ [Next]_vars => Fit'
  BY FitStep DEF JInv
<1>3. JInv <=> IInv /\ Fit
  BY DEF JInv
<1> QED
  BY <1>1, <1>2, <1>3, Invariance, PTL DEF Spec

\* Neither running nor about to be.
Over(i) == cmd[i] \in Settled \cup {"none"}

(* If a command is over, or was never entered, so is every command before  *)
(* it: the last one before it that is not would have the one after it as   *)
(* a reader that has left it.                                              *)
LEMMA OverBefore ==
  ASSUME JInv, NEW i \in Stages, Over(i), NEW j \in 1 .. i
  PROVE  Over(j)
<1>1. \A k \in Stages : k # 1 /\ Over(k) => k - 1 \in Stages /\ Over(k - 1)
  <2>1. SUFFICES ASSUME NEW k \in Stages, k # 1, Over(k) PROVE k - 1 \in Stages /\ Over(k - 1)
    OBVIOUS
  <2>2. k - 1 \in Stages /\ k \in Readers
    BY <2>1, Places
  <2>3. guard[k] \in {"fresh", "done"}
    BY <2>1 DEF Over, JInv, Fit, Loops, LoopOK
  <2>4. gen[k - 1] \in {"fresh", "done"}
    BY <2>1, <2>2, <2>3 DEF JInv, Fit, Links, LinkOK
  <2>5. Over(k - 1)
    BY <2>2, <2>4, StageSays DEF Over, JInv, Fit, Ends, EndsOK
  <2> QED
    BY <2>2, <2>5
<1> DEFINE T == {d \in Nat : i - d \in Stages /\ ~Over(i - d)}
<1>2. T = {}
  <2>1. SUFFICES ASSUME T # {} PROVE FALSE
    OBVIOUS
  <2>2. PICK d \in T : \A e \in T : ~(<<e, d>> \in OpToRel(<, Nat))
    BY <2>1, WFMin, NatLessThanWellFounded, Zenon
  <2>3. \A e \in T : ~(e < d)
    BY <2>2 DEF OpToRel
  <2>4. i \in Nat /\ i <= N /\ d \in Nat /\ i - d >= 1 /\ N \in Nat
    BY PipelineConstants, Places DEF Stages
  <2>5. d # 0
    BY <2>4
  <2>6. d - 1 \in Nat /\ i - (d - 1) \in Stages /\ i - (d - 1) # 1 /\ (i - (d - 1)) - 1 = i - d
    BY <2>4, <2>5 DEF Stages
  <2>7. Over(i - (d - 1))
    BY <2>3, <2>4, <2>6
  <2> QED
    BY <1>1, <2>6, <2>7
<1>3. i \in Nat /\ i <= N /\ N \in Nat /\ j \in Nat
  BY PipelineConstants, Places DEF Stages
<1>4. i - j \in Nat /\ i - (i - j) = j /\ j \in Stages
  BY <1>3 DEF Stages
<1> QED
  BY <1>2, <1>4

(* When a stage is over no command at or above it still runs, however it   *)
(* was brought to its end (runCommand's `await running`).                  *)
THEOREM NoLeakHolds == Spec => []NoLeak
<1>1. ASSUME JInv PROVE NoLeak
  <2>1. SUFFICES ASSUME NEW i \in Stages, gen[i] = "done", NEW j \in 1 .. i
                 PROVE  cmd[j] \in Settled \cup {"none"}
    BY DEF NoLeak
  <2>2. Over(i)
    BY <1>1, <2>1 DEF Over, JInv, Fit, Ends, EndsOK
  <2> QED
    BY <1>1, <2>2, OverBefore DEF Over
<1> QED
  BY <1>1, FitHolds, PTL

(* The command before one that returned on its own account has run and     *)
(* settled, though nobody may have read it: what is left is drained.       *)
THEOREM PushBasedHolds == Spec => []PushBased
<1>1. ASSUME JInv PROVE PushBased
  <2>1. SUFFICES ASSUME NEW i \in Stages \ {1}, cmd[i] = "returned", i \notin sig,
                        exit[i] # "returned"
                 PROVE  cmd[i - 1] \in Settled
    BY DEF PushBased
  <2>2. i \in Readers /\ i - 1 \in Stages
    BY <2>1, Places
  <2>3. gen[i - 1] = "done"
    BY <1>1, <2>1, <2>2 DEF JInv, Fit, Loops, LoopOK, Links, LinkOK
  <2> QED
    BY <1>1, <2>1, <2>2, <2>3 DEF JInv, Fit, Ends, EndsOK, Unreads, UnreadOK
<1> QED
  BY <1>1, FitHolds, PTL

(* A command that was signalled before it settled never has its channel    *)
(* end as if it were complete, though it returns as if its input were.     *)
THEOREM CutIsNotAnEndHolds == Spec => []CutIsNotAnEnd
<1>1. ASSUME JInv PROVE CutIsNotAnEnd
  BY <1>1 DEF JInv, IInv, Shapes, Fit, Cuts, CutOK, CutIsNotAnEnd
<1> QED
  BY <1>1, FitHolds, PTL

\* The channel of stage j is not asked, and its command not entered.
Unasked(j) == ch'[j].demand = ch[j].demand /\ (cmd[j] = "none" => cmd'[j] = "none")

(* A pull asks the one generator it is for. *)
LEMMA PullAsksOne ==
  ASSUME JInv, NEW i \in Readers, NEW commands \in [Stages -> CmdStates],
         Pull(i, commands), NEW j \in Stages, j # i - 1,
         cmd[j] = "none" => commands[j] = "none"
  PROVE  Unasked(j)
<1>1. ch' = ch \/ ch' = [ch EXCEPT ![i - 1] = Fail(@)] \/ ch' = [ch EXCEPT ![i - 1] = Ask(@)]
  BY DEF Pull
<1>2. cmd' = commands \/ cmd' = [commands EXCEPT ![i - 1] = "ready"]
  BY DEF Pull
<1>3. ch'[j] = ch[j]
  BY <1>1 DEF JInv, IInv, Shapes
<1>4. cmd'[j] = commands[j] \/ cmd'[j] = cmd[j]
  BY <1>2
<1> QED
  BY <1>3, <1>4 DEF Unasked

(* A guard that has been told to stop asks nobody. *)
LEMMA GuardAsksOne ==
  ASSUME JInv, NEW i \in Stages, NEW commands \in [Stages -> CmdStates],
         GuardNext(i, commands), NEW j \in Stages,
         i \in sig \cup stop \/ j # i - 1,
         cmd[j] = "none" => commands[j] = "none"
  PROVE  Unasked(j)
<1>1. i \in Readers
  BY Places
<1>2. CASE i \in sig \cup stop
  BY <1>2 DEF GuardNext, Unasked
<1>3. CASE i \notin sig \cup stop
  BY <1>1, <1>3, PullAsksOne DEF GuardNext
<1> QED
  BY <1>2, <1>3

(* Only an ask asks. *)
LEMMA OthersAskNobody ==
  ASSUME JInv, NEW k \in Stages, NEW j \in Stages,
         \/ Write(k) \/ Wake(k) \/ Break(k) \/ Throw(k) \/ Receive(k) \/ ReaderEnds(k)
         \/ GenDone(k) \/ LoopEnds(k) \/ Signal(k) \/ (Return(k) /\ guard[k] = "done")
         \/ Leave(k) \/ Leave(N + 1) \/ Abandoned \/ PipelineEnds
  PROVE  Unasked(j)
<1>1. cmd[j] = "none" => cmd'[j] = "none"
  BY DEF Write, Wake, Break, Throw, Receive, ReaderEnds, GenDone, LoopEnds, Signal, Return, Leave,
         Abandoned, PipelineEnds, Settle, JInv, IInv, Shapes
<1>2. \/ ch' = ch \/ ch' = [ch EXCEPT ![k] = Written(@)]
      \/ ch' = [ch EXCEPT ![k] = [@ EXCEPT !.woken = FALSE]]
      \/ ch' = [ch EXCEPT ![k] = Fail(@)] \/ ch' = [ch EXCEPT ![k] = Close(@)]
      \/ ch' = [ch EXCEPT ![k] = [@ EXCEPT !.reader = "none"]]
      \/ \E i \in Stages : ch' = [ch EXCEPT ![i] = [Abandon(@) EXCEPT !.reader = "none"]]
  <2>1. CASE Wake(k)
    BY <2>1 DEF Wake
  <2>2. CASE Receive(k)
    BY <2>2 DEF Receive
  <2>3. CASE Write(k) \/ Signal(k)
    BY <2>3 DEF Write, Signal
  <2>4. CASE Throw(k) \/ (Return(k) /\ guard[k] = "done")
    BY <2>4 DEF Throw, Return, Settle
  <2>5. CASE LoopEnds(k)
    BY <2>5 DEF LoopEnds, Settle
  <2>6. CASE ReaderEnds(k)
    BY <2>6 DEF ReaderEnds, Closing
  <2>7. ASSUME NEW i \in Readers, Leave(i)
        PROVE  \/ ch' = ch
               \/ \E m \in Stages : ch' = [ch EXCEPT ![m] = [Abandon(@) EXCEPT !.reader = "none"]]
    <3>1. gen[i - 1] = "yielded" => i - 1 \in Stages
      BY Places DEF JInv, IInv, Shapes
    <3> QED
      BY <2>7, <3>1 DEF Leave, Closing
  <2>8. CASE Break(k) \/ GenDone(k) \/ Abandoned \/ PipelineEnds
    BY <2>8 DEF Break, GenDone, Abandoned, PipelineEnds
  <2> QED
    BY <2>1, <2>2, <2>3, <2>4, <2>5, <2>6, <2>7, <2>8, Places
<1>3. ch'[j].demand = ch[j].demand
  <2>1. /\ Written(ch[j]).demand = ch[j].demand /\ Fail(ch[j]).demand = ch[j].demand
        /\ [ch[j] EXCEPT !.woken = FALSE].demand = ch[j].demand
        /\ Close(ch[j]).demand = ch[j].demand
        /\ [ch[j] EXCEPT !.reader = "none"].demand = ch[j].demand
        /\ [Abandon(ch[j]) EXCEPT !.reader = "none"].demand = ch[j].demand
    BY StageSays, OpenStays, FailEnds, CloseEnds DEF JInv
  <2>2. \/ ch'[j] = ch[j] \/ ch'[j] = Written(ch[j]) \/ ch'[j] = [ch[j] EXCEPT !.woken = FALSE]
        \/ ch'[j] = Fail(ch[j]) \/ ch'[j] = Close(ch[j]) \/ ch'[j] = [ch[j] EXCEPT !.reader = "none"]
        \/ ch'[j] = [Abandon(ch[j]) EXCEPT !.reader = "none"]
    BY <1>2 DEF JInv, IInv, Shapes
  <2> QED
    BY <2>1, <2>2
<1> QED
  BY <1>1, <1>3 DEF Unasked

(* A stage that is signalled, or whose consumer is gone, makes no further  *)
(* pull, not by its drain either: the guard looks before it asks, and the  *)
(* first ask of a generator belongs to the pull that entered it.           *)
THEOREM StoppedAsksNoMoreHolds == Spec => StoppedAsksNoMore
<1>1. ASSUME JInv, Next, NEW i \in Stages \ {1}, i \in sig \cup stop, guard[i] # "pulling"
      PROVE  /\ ch'[i - 1].demand = ch[i - 1].demand
             /\ gen[i - 1] = "fresh" => cmd'[i - 1] = "none"
  <2> DEFINE j == i - 1
  <2>1. j \in Stages /\ i \in Readers /\ i \in Nat /\ i = j + 1 /\ \A k \in Stages : k \in Nat
    BY <1>1, Places
  <2>2. gen[j] # "starting" /\ (gen[j] = "fresh" => cmd[j] = "none")
    BY <1>1, <2>1, StageSays DEF JInv, IInv, Shapes, GuardStates, Fit, Links, LinkOK
  <2>3. SUFFICES Unasked(j)
    BY <2>2 DEF Unasked
  <2> HIDE DEF j
  <2>4. ASSUME NEW k \in Stages, Read(k) PROVE Unasked(j)
    <3>1. cmd[k] = "ready" /\ GuardNext(k, [cmd EXCEPT ![k] = "reading"])
      BY <2>4 DEF Read
    <3>2. [cmd EXCEPT ![k] = "reading"] \in [Stages -> CmdStates]
      BY <1>1 DEF JInv, IInv, Shapes, CmdStates
    <3>3. cmd[j] = "none" => [cmd EXCEPT ![k] = "reading"][j] = "none"
      BY <1>1, <2>1, <3>1 DEF JInv, IInv, Shapes
    <3>4. k \in sig \cup stop \/ j # k - 1
      BY <1>1, <2>1
    <3> QED
      BY <1>1, <2>1, <3>1, <3>2, <3>3, <3>4, GuardAsksOne
  <2>5. ASSUME NEW k \in Stages, Return(k), guard[k] # "done" PROVE Unasked(j)
    <3>1. cmd[k] = "ready" /\ GuardNext(k, [cmd EXCEPT ![k] = "draining"])
      BY <2>5 DEF Return
    <3>2. [cmd EXCEPT ![k] = "draining"] \in [Stages -> CmdStates]
      BY <1>1 DEF JInv, IInv, Shapes, CmdStates
    <3>3. cmd[j] = "none" => [cmd EXCEPT ![k] = "draining"][j] = "none"
      BY <1>1, <2>1, <3>1 DEF JInv, IInv, Shapes
    <3>4. k \in sig \cup stop \/ j # k - 1
      BY <1>1, <2>1
    <3> QED
      BY <1>1, <2>1, <3>1, <3>2, <3>3, <3>4, GuardAsksOne
  <2>6. ASSUME NEW k \in Stages, Drain(k) PROVE Unasked(j)
    <3>1. k \in sig \cup stop \/ j # k - 1
      BY <1>1, <2>1
    <3> QED
      BY <1>1, <2>1, <2>6, <3>1, GuardAsksOne DEF Drain, JInv, IInv, Shapes
  <2>7. ASSUME Next1 PROVE Unasked(j)
    <3>1. N + 1 \in Readers /\ j # (N + 1) - 1
      BY <1>1, <2>1, PipelineConstants, Places DEF Stages
    <3> QED
      BY <1>1, <2>1, <2>7, <3>1, PullAsksOne DEF Next1, JInv, IInv, Shapes
  <2>8. ASSUME NEW k \in Stages, FirstAsk(k) PROVE Unasked(j)
    <3>1. k # j
      BY <2>2, <2>8 DEF FirstAsk
    <3> QED
      BY <1>1, <2>1, <2>8, <3>1 DEF FirstAsk, Unasked, JInv, IInv, Shapes
  <2>9. ASSUME NEW k \in Readers, Leave(k) PROVE Unasked(j)
    BY <1>1, <2>1, <2>9, Places, OthersAskNobody
  <2> QED
    BY <1>1, <2>1, <2>4, <2>5, <2>6, <2>7, <2>8, <2>9, OthersAskNobody
    DEF Next, Step, Enter, Entering, Command, Runtime
<1>2. JInv /\ [Next]_vars =>
        [\A i \in Stages \ {1} : i \in sig \cup stop /\ guard[i] # "pulling" =>
           ch'[i - 1].demand = ch[i - 1].demand
           /\ (gen[i - 1] = "fresh" => cmd'[i - 1] = "none")]_vars
  BY <1>1
<1> QED
  BY <1>2, FitHolds, PTL DEF Spec, StoppedAsksNoMore
=============================================================================
