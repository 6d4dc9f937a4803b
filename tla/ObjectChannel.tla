---------------------------- MODULE ObjectChannel ----------------------------
(***************************************************************************)
(* The channel between a command's success sink and the stage that reads   *)
(* it.  A channel is a record; each operator is what one method leaves.    *)
(*                                                                         *)
(* One producer and one consumer, as runCommand builds them: at most one   *)
(* reader waits and at most one write is parked.  What the values are does *)
(* not matter, only how many were written and how many are buffered.       *)
(***************************************************************************)
EXTENDS Naturals

CONSTANT Slack   \* how far ahead of the consumer the producer may run

ASSUME ChannelConstants == Slack \in Nat

\* What the consumer's pending next() has come to.
Answers == {"none", "waiting", "value", "end", "fail"}

Channels(maxValues) ==
  [buffer : 0 .. (1 + Slack), reader : Answers, demand : 0 .. (maxValues + 1),
   writes : 0 .. maxValues, ended : BOOLEAN, abandoned : BOOLEAN,
   failed : BOOLEAN, woken : BOOLEAN]

NewChannel ==
  [buffer |-> 0, reader |-> "none", demand |-> 0, writes |-> 0, ended |-> FALSE,
   abandoned |-> FALSE, failed |-> FALSE, woken |-> FALSE]

\* No point in producing any more.
Closed(c) == c.abandoned \/ c.ended

\* The acks are released: a parked write runs again, and tests again.
ReleaseAcks(c) == [c EXCEPT !.woken = TRUE]

\* A waiting reader sees the end, or the failure; a parked write is released.
FlushWaiters(c) ==
  ReleaseAcks([c EXCEPT !.reader = IF @ # "waiting" THEN @
                                   ELSE IF c.failed THEN "fail" ELSE "end"])

Close(c) == IF c.ended THEN c ELSE FlushWaiters([c EXCEPT !.ended = TRUE])

\* slip: a failure drops what is buffered, as abandoning does.
FailDropsBuffer(c) ==
  IF c.failed \/ c.ended THEN c
  ELSE FlushWaiters([c EXCEPT !.failed = TRUE, !.ended = TRUE, !.buffer = 0])

\* What was written before the failure is still read first.
Fail(c) ==
  IF c.failed \/ c.ended THEN c
  ELSE FlushWaiters([c EXCEPT !.failed = TRUE, !.ended = TRUE])

\* slip: the parked producer is not told.
AbandonInSilence(c) ==
  IF c.abandoned THEN c ELSE [c EXCEPT !.abandoned = TRUE, !.buffer = 0]

Abandon(c) ==
  IF c.abandoned THEN c
  ELSE FlushWaiters([c EXCEPT !.abandoned = TRUE, !.buffer = 0])

Deliver(c) ==
  IF c.reader = "waiting" THEN [c EXCEPT !.reader = "value"]
  ELSE [c EXCEPT !.buffer = @ + 1]

\* write of a channel that is not closed, up to where it may park.
Written(c) == [Deliver(c) EXCEPT !.writes = @ + 1, !.woken = FALSE]

\* slip: a delivered value is an acknowledged one.
ParksUntilDelivered(c) == ~Closed(c) /\ c.demand < c.writes - Slack

\* The last write is not acknowledged: value n is by ask number n + 1.
Parks(c) == ~Closed(c) /\ c.demand + Slack < c.writes + 1

\* slip: the buffered value is read and stays.
AskKeepsValue(c) ==
  LET asked == ReleaseAcks([c EXCEPT !.demand = @ + 1]) IN
  IF c.buffer > 0 THEN [asked EXCEPT !.reader = "value"]
  ELSE [asked EXCEPT !.reader = IF c.failed THEN "fail"
                                ELSE IF Closed(c) THEN "end" ELSE "waiting"]

\* next(): the ask counts and acknowledges before anything else.
Ask(c) ==
  LET asked == ReleaseAcks([c EXCEPT !.demand = @ + 1]) IN
  IF c.buffer > 0 THEN [asked EXCEPT !.buffer = @ - 1, !.reader = "value"]
  ELSE [asked EXCEPT !.reader = IF c.failed THEN "fail"
                                ELSE IF Closed(c) THEN "end" ELSE "waiting"]
=============================================================================
