--------------------------- MODULE BufferManager ---------------------------
(***************************************************************************)
(* One buffer manager and what the callbacks do to it: they append, let it *)
(* grow, and take bytes from the front by moving the rest down.  A TLS     *)
(* side has four, a plain side has one, each used in a way of its own.     *)
(*                                                                         *)
(* mem is the buffer as far as its recorded size.  After a doubling that   *)
(* is one byte more than realloc was asked for (Allocated): clearing the   *)
(* new part writes that byte, asking whether to double reads it, and a     *)
(* full buffer holds data in it.  Its contents are the outcome of the      *)
(* build's allocator: glibc rounds the request, a multiple of 16, up by 8  *)
(* bytes, and realloc copies them, so mem keeps the byte.  PossibleToWrite *)
(* is about the overrun itself.                                            *)
(*                                                                         *)
(* Two of the uses append without asking for room.  What a byte written    *)
(* past the recorded size does is undefined, and nothing is modelled after *)
(* it: peak > size says that it happened.                                  *)
(*                                                                         *)
(* A blocked send, after which the writing buffer moves the other way, is  *)
(* a step of Relay, and the rewriting of a header in the plain buffer of a *)
(* client is HttpRewrite's; both are left out here.                        *)
(***************************************************************************)
EXTENDS Integers, Sequences

CONSTANTS
    READ_BUF_SIZE,
    Bytes,     \* the values of a byte; 0 is '\0'
    MaxPiece,  \* bound: the longest sequence appended at once
    MaxFill    \* bound: the fill level up to which is appended

ASSUME BufferAssumption ==
    /\ READ_BUF_SIZE \in Nat \ {0}
    /\ 0 \in Bytes /\ Bytes \subseteq Nat
    /\ MaxPiece \in Nat /\ MaxFill \in Nat

\* The last two are filled without a test for room: plain_buffer_manager of a
\* TLS client, and buffer_manager of a plain side.
Uses == {"read", "backend_plain", "encrypt", "writing", "client_plain", "socket"}
Unasked == {"client_plain", "socket"}

VARIABLES
    use,   \* which of the buffers this is
    mem,   \* buffer
    size,  \* max_size_of_buffer
    ptr,   \* current_buffer_ptr, the fill level
    fifo,  \* history: the bytes appended and not yet taken
    peak   \* history: the end of the highest byte ever written

vars == <<use, mem, size, ptr, fifo, peak>>

Pieces == UNION {[1..n -> Bytes] : n \in 0..MaxPiece}
Larger(m, n) == IF m > n THEN m ELSE n

-----------------------------------------------------------------------------
(* The operations of the buffer manager. *)

\* Mutants of AtSize: realloc is forgotten; the new part keeps what the
\* allocator left there.
AtSizeUngrown(t) == mem
AtSizeUncleared(t) == [k \in 0..t - 1 |-> IF k < size THEN mem[k] ELSE 1]

\* zxy_double_buffer_size: the new size it records, and the memory at size t, its
\* new part cleared, the byte behind the allocation too.
Doubled(s) == (s - 1) * 2 + 1
AtSize(t) == [k \in 0..t - 1 |-> IF k < size THEN mem[k] ELSE 0]

\* Mutant of CanWrite: one byte too many.
CanWriteOneMore(n) == ptr + n <= size + 1

\* zxy_should_resize_buffer looks at the last byte, not at the fill level.
ShouldResize == mem[size - 1] # 0
CanWrite(n) == ptr + n <= size

\* t is the first size from s on, doubling, with room for "need" bytes: the one
\* before it, (t + 1) / 2, is too small.
IsGrown(s, need, t) ==
    /\ \E k \in 0..need : t = (s - 1) * 2^k + 1
    /\ t >= need
    /\ t = s \/ t + 1 < 2 * need

\* memcpy of s to position p.
With(m, p, s) ==
    [k \in DOMAIN m |-> IF k \in p..p + Len(s) - 1 THEN s[k - p + 1] ELSE m[k]]

\* memmove of the n bytes that start at position "from" to the front.
Front(m, from, n) == [k \in DOMAIN m |-> IF k \in 0..n - 1 THEN m[k + from] ELSE m[k]]

\* memset of the first n bytes (zxy_write_socket_non_block_and_clear_buf).
Cleared(m, n) == [k \in DOMAIN m |-> IF k < n THEN 0 ELSE m[k]]

-----------------------------------------------------------------------------

\* Mutant of InitialSize: a byte less.
NoSpareByte == READ_BUF_SIZE

\* The size every connection gives its buffers.
InitialSize == READ_BUF_SIZE + 1

\* What the allocator was asked for: calloc of the size, or realloc of one less.
Allocated == IF size = InitialSize THEN size ELSE size - 1

Init ==
    /\ use \in Uses
    /\ size = InitialSize
    /\ mem = [k \in 0..size - 1 |-> 0]
    /\ ptr = 0 /\ fifo = << >> /\ peak = 0

\* Room for s at size t, then memcpy and zxy_nbyte_written_to_buffer.
Added(t, s) ==
    /\ size' = t
    /\ mem' = With(AtSize(t), ptr, s)
    /\ ptr' = ptr + Len(s)
    /\ fifo' = fifo \o s
    /\ peak' = Larger(peak, ptr + Len(s))

\* zxy_*_queue_encrypted_bytes, zxy_*_queue_unencrypted_bytes.
QueueBytes(s) ==
    /\ use \in {"encrypt", "writing"} /\ ptr + Len(s) <= MaxFill
    /\ LET first == IF ShouldResize THEN Doubled(size) ELSE size
           need == ptr + Len(s)
       IN \E t \in first..first + 2 * need :
              /\ IsGrown(first, need, t)
              /\ Added(t, s)
    /\ UNCHANGED use

\* One turn of the backend's SSL_read loop: at most one doubling, for a piece of
\* at most READ_BUF_SIZE bytes.
AppendPlain(s) ==
    /\ use = "backend_plain" /\ ptr + Len(s) <= MaxFill
    /\ Len(s) \in 1..READ_BUF_SIZE
    /\ Added(IF ShouldResize \/ ~CanWrite(Len(s)) THEN Doubled(size) ELSE size, s)
    /\ UNCHANGED use

\* One turn of the client's SSL_read loop, and recv of a plain side: the buffer
\* doubles if its last byte is in use, whatever is appended.  The loop takes as many
\* turns in one event as the record it decrypts has pieces of READ_BUF_SIZE bytes; a
\* plain side calls recv once.
AppendUnasked(s) ==
    /\ use \in Unasked /\ ptr + Len(s) <= MaxFill
    /\ Len(s) <= READ_BUF_SIZE /\ (use = "client_plain" => s # << >>)
    /\ Added(IF ShouldResize THEN Doubled(size) ELSE size, s)
    /\ UNCHANGED use

\* Mutant of ReadSocket: what was handed on stays in the buffer.
ReadSocketKept(s) ==
    /\ use = "read" /\ Len(s) <= READ_BUF_SIZE
    /\ Added(IF ShouldResize THEN Doubled(size) ELSE size, s)
    /\ UNCHANGED use

\* on_read: what recv returns, nothing included, is appended without asking
\* for room, handed on, and moved out of the buffer again.
ReadSocket(s) ==
    /\ use = "read" /\ Len(s) <= READ_BUF_SIZE
    /\ LET t == IF ShouldResize THEN Doubled(size) ELSE size
       IN /\ size' = t
          /\ mem' = Front(With(AtSize(t), ptr, s), Len(s), ptr)
    /\ peak' = Larger(peak, ptr + Len(s))
    /\ UNCHANGED <<use, ptr, fifo>>

\* Mutant of TakenFrom: nothing is moved down.
TakenInPlace(m, n) == m

\* memmove after n bytes were used.
TakenFrom(m, n) == Front(m, n, ptr - n)

Take(m, n) ==
    /\ n \in 1..ptr
    /\ mem' = TakenFrom(m, n)
    /\ ptr' = ptr - n
    /\ fifo' = SubSeq(fifo, n + 1, Len(fifo))
    /\ UNCHANGED <<use, size, peak>>

\* read_nbytes of the other side's request, SSL_write.
Consume(n) == use \notin {"read", "writing"} /\ Take(mem, n)

\* A plain side sent n bytes from this buffer, the other side's: they are cleared
\* where they are and taken later or, in the EPOLLOUT branch, not at all.
SendInPlace(n) ==
    /\ use \in Unasked \cup {"backend_plain"}
    /\ mem' = Cleared(mem, n)
    /\ fifo' = [k \in 1..ptr |-> IF k <= n THEN 0 ELSE fifo[k]]
    /\ UNCHANGED <<use, size, ptr, peak>>

\* send took n bytes, which are cleared before the rest is moved down.
Send(n) == use = "writing" /\ Take(Cleared(mem, n), n)

\* Nothing was written past the recorded size.
Intact == peak <= size

Next ==
    /\ Intact
    /\ \/ \E s \in Pieces : QueueBytes(s)
       \/ \E s \in Pieces : AppendPlain(s)
       \/ \E s \in Pieces : AppendUnasked(s)
       \/ \E s \in Pieces : ReadSocket(s)
       \/ \E n \in 1..ptr : Consume(n)
       \/ \E n \in 1..ptr : SendInPlace(n)
       \/ \E n \in 1..ptr : Send(n)

Spec == Init /\ [][Next]_vars

-----------------------------------------------------------------------------
(* Properties. *)

TypeOK ==
    /\ use \in Uses
    /\ size \in Nat /\ size >= InitialSize
    /\ mem \in [0..size - 1 -> Bytes]
    /\ ptr \in Nat /\ peak \in Nat
    /\ fifo \in Seq(Bytes)

\* A callback that asks for room, the one that grows at most once included, writes
\* at most the one byte behind the allocation, and that only after a doubling; so
\* does on_read of a TLS side, which does not ask and relies on what it leaves
\* behind.  The uses that do not ask and leave something are excluded.
WithinOneByte ==
    /\ ptr <= peak
    /\ use \notin Unasked =>
           peak <= Allocated \/ (size > InitialSize /\ peak = Allocated + 1)

\* A piece that is appended without asking for room is written past the recorded
\* size only behind more than one byte that is there already: READ_BUF_SIZE bytes fit
\* with one to spare.  In a plain side those bytes were left by a peer that is slow
\* to take them, for recv is called once for an event; in a TLS client they may also
\* be the piece before, for one record is decrypted in several: a record longer than
\* READ_BUF_SIZE overruns the buffer with no slow peer at all.
OnePieceFits == [][peak' > size' => ptr > 1]_vars

\* Whatever was appended, grown, sent in part and moved, the buffer holds the
\* bytes not yet taken, in order.
ContentsKept ==
    Intact => /\ Len(fifo) = ptr
              /\ \A k \in 1..ptr : fifo[k] = mem[k - 1]

\* Only data makes a buffer grow: although zxy_should_resize_buffer looks at a
\* byte that may be a left-over, the size never exceeds twice the largest
\* amount of data the buffer had to hold.
GrowthIsDriven == size = InitialSize \/ size <= 2 * peak

\* What makes WithinOneByte, ContentsKept and GrowthIsDriven inductive: a byte never
\* written is clear, so that only data can make zxy_should_resize_buffer true,
\* and on_read always finds its buffer empty.
BufferInv ==
    /\ TypeOK /\ WithinOneByte /\ ContentsKept /\ GrowthIsDriven
    /\ \A k \in 0..size - 1 : k >= peak => mem[k] = 0
    /\ use = "read" => ptr = 0

-----------------------------------------------------------------------------
(* What a comment of the code promises and the code does not do.            *)

\* "Return 1 if it is possible to write n bytes." (utils/io/buffer_manager.h,
\* zxy_can_write_nbytes_to_buffer): what the queues write after asking is inside the
\* memory that was allocated.
PossibleToWrite == use \in {"encrypt", "writing"} => peak <= Allocated

=============================================================================
