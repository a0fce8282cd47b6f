--------------------------- MODULE CircularBuffer ---------------------------
(***************************************************************************)
(* The circular buffer of utils/io, which nothing in the program uses yet. *)
(* A call that writes or gets several bytes is a loop over one of the      *)
(* steps below and keeps nothing else from one byte to the next.           *)
(*                                                                         *)
(* zxy_double_size_of_circular_buffer is not in the header and has no      *)
(* caller; it is left out.                                                 *)
(***************************************************************************)
EXTENDS Integers, Sequences

CONSTANTS
    Capacity,  \* size_of_buffer
    Values     \* the values of a byte; 0 is '\0'

ASSUME RingAssumption == Capacity \in Nat \ {0} /\ 0 \in Values

VARIABLES
    buf,      \* the bytes
    head,     \* where the next byte goes
    tail,     \* where the oldest byte is
    is_full   \* head = tail means full, not empty

ringVars == <<buf, head, tail, is_full>>

Places == 0..Capacity - 1

\* malloc: the bytes are whatever was there.
RingInit ==
    /\ buf \in [Places -> Values]
    /\ head = 0 /\ tail = 0 /\ is_full = FALSE

\* The place after p.
After(p) == IF p + 1 = Capacity THEN 0 ELSE p + 1

\* Mutant of TailAfterWrite: a full ring does not give up its oldest byte.
TailKept == tail

\* zxy_advance_pointer.
TailAfterWrite == IF is_full THEN After(tail) ELSE tail

WriteByte(x) ==
    /\ buf' = [buf EXCEPT ![head] = x]
    /\ tail' = TailAfterWrite
    /\ head' = After(head)
    /\ is_full' = (tail' = head')

\* zxy_current_circular_buffer_size.
RingSize ==
    IF is_full THEN Capacity
    ELSE IF head >= tail THEN head - tail ELSE Capacity + head - tail

\* Mutant of StillFull: the flag survives a read.
FullUntilCleared == is_full

\* zxy_retreat_pointer.
StillFull == FALSE

\* One byte of zxy_get_buffer_from_circular_buffer, for a caller that asks for no
\* more than the size: nothing refuses more, and tail would pass head.
GetByte ==
    /\ RingSize > 0
    /\ tail' = After(tail)
    /\ is_full' = StillFull
    /\ UNCHANGED <<buf, head>>

ClearRing ==
    /\ buf' = [p \in Places |-> 0]
    /\ head' = 0 /\ tail' = 0 /\ is_full' = FALSE

RingNext == (\E x \in Values : WriteByte(x)) \/ GetByte \/ ClearRing

RingSpec == RingInit /\ [][RingNext]_ringVars

-----------------------------------------------------------------------------
(* Properties. *)

\* Both pointers stay inside the ring and is_full is set only where head has
\* caught up with tail: else size and order below would be wrong.
RingInv ==
    /\ buf \in [Places -> Values]
    /\ head \in Places /\ tail \in Places
    /\ is_full \in BOOLEAN
    /\ is_full => head = tail

\* The i-th place from t on, counted from 0.
Place(t, i) == IF t + i < Capacity THEN t + i ELSE t + i - Capacity

\* The bytes written and not yet got, the oldest first.
Content == [i \in 1..RingSize |-> buf[Place(tail, i - 1)]]

\* However writes wrap, overwrite and are cleared, the ring is a queue that
\* forgets its oldest byte first: see OverwritingFifo.
Fifo == INSTANCE OverwritingFifo WITH queue <- Content
IsFifo == Fifo!Spec

=============================================================================
