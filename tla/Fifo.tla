-------------------------------- MODULE Fifo --------------------------------
(***************************************************************************)
(* What a sample queue promises its two users: a bounded first-in          *)
(* first-out queue whose operations are atomic.  Samples are identified by *)
(* their position 0, 1, 2, ... in the stream the writer has had accepted,  *)
(* so a lost, duplicated, reordered or foreign sample is visible as a      *)
(* wrong number.  RingBuffer implements this module.                       *)
(***************************************************************************)
EXTENDS Naturals, Sequences

CONSTANT Capacity   \* samples the queue can hold

VARIABLES
    queue,      \* accepted samples that no Get has returned yet
    accepted,   \* number of samples accepted so far
    result      \* the samples the last Get returned

vars == <<queue, accepted, result>>

Init ==
    /\ queue = << >>
    /\ accepted = 0
    /\ result = << >>

\* n samples are accepted: at most as many as there is room for.
Put(n) ==
    /\ n <= Capacity - Len(queue)
    /\ queue' = queue \o [i \in 1..n |-> accepted + i - 1]
    /\ accepted' = accepted + n
    /\ UNCHANGED result

\* The n oldest samples leave the queue, in order.
Get(n) ==
    /\ n <= Len(queue)
    /\ result' = SubSeq(queue, 1, n)
    /\ queue' = SubSeq(queue, n + 1, Len(queue))
    /\ UNCHANGED accepted

Next == \E n \in 0..Capacity : Put(n) \/ Get(n)

Spec == Init /\ [][Next]_vars
=============================================================================
