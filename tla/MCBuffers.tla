----------------------------- MODULE MCBuffers -----------------------------
(* The two kinds of buffers in one run: a buffer manager moves, or a ring.  *)
EXTENDS BufferManager, CircularBuffer

VARIABLE moves

BuffersInit ==
    /\ moves \in {"manager", "ring"}
    /\ Init /\ RingInit
    /\ moves = "manager" => buf = [p \in Places |-> 0]
    /\ moves = "ring" => use = "read"

BuffersNext ==
    \/ moves = "manager" /\ Next /\ UNCHANGED <<moves, ringVars>>
    \/ moves = "ring" /\ RingNext /\ UNCHANGED <<moves, vars>>

BuffersSpec == BuffersInit /\ [][BuffersNext]_<<moves, vars, ringVars>>

=============================================================================
