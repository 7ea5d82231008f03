----------------------------- MODULE EchoQueue ------------------------------
(***************************************************************************)
(* What the echo test does with the bytes it receives: they queue up, and  *)
(* the oldest is sent when the next has come, so what is sent is always    *)
(* one behind.  A byte that finds CAPACITY others waiting is lost.         *)
(***************************************************************************)
EXTENDS Sequences, Integers

CONSTANTS Value, CAPACITY

VARIABLES queue, sent

Init == queue \in [1 .. 1 -> Value] /\ sent \in Value

Put(v) == queue' = IF Len(queue) <= CAPACITY THEN Append(queue, v) ELSE queue

Enqueue == (\E v \in Value : Put(v)) /\ UNCHANGED sent

Send ==
  /\ Len(queue) > 1
  /\ sent' = Head(queue)
  /\ queue' = Tail(queue)

\* Both in one clock; a full queue takes no byte while it gives one.
SendEnqueue ==
  /\ Len(queue) > 1 /\ Len(queue) <= CAPACITY
  /\ sent' = Head(queue)
  /\ \E v \in Value : queue' = Append(Tail(queue), v)

QueueSpec == Init /\ [][Enqueue \/ Send \/ SendEnqueue]_<<queue, sent>>
=============================================================================
