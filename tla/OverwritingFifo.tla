-------------------------- MODULE OverwritingFifo --------------------------
(***************************************************************************)
(* What a circular buffer promises: a queue of at most Capacity bytes in   *)
(* which a byte that finds no room takes the place of the oldest one.      *)
(***************************************************************************)
EXTENDS Naturals, Sequences

CONSTANTS Capacity, Values

VARIABLE queue

Init == queue = << >>

Put(x) ==
    queue' = Append(IF Len(queue) = Capacity THEN Tail(queue) ELSE queue, x)

Take == queue # << >> /\ queue' = Tail(queue)

Clear == queue' = << >>

Next == (\E x \in Values : Put(x)) \/ Take \/ Clear

Spec == Init /\ [][Next]_queue

=============================================================================
