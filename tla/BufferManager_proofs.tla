------------------------ MODULE BufferManager_proofs ------------------------
(* BufferInv is inductive: the properties of BufferManager hold for every   *)
(* READ_BUF_SIZE, all bytes and whatever is appended and taken.            *)
EXTENDS BufferManager, TLAPS

-----------------------------------------------------------------------------
(* The pieces of an operation. *)

\* What is appended is a sequence of bytes.
LEMMA PieceType ==
    ASSUME NEW s \in Pieces
    PROVE  s \in Seq(Bytes) /\ Len(s) \in Nat
BY BufferAssumption DEF Pieces

\* One byte behind the allocation is the recorded size.
LEMMA OneByteIsIntact ==
    TypeOK => (WithinOneByte <=> ptr <= peak /\ (use \notin Unasked => Intact))
BY BufferAssumption DEF TypeOK, WithinOneByte, Allocated, Intact, InitialSize

\* Also after a step.
LEMMA OneByteIsIntactNext ==
    (TypeOK => (WithinOneByte <=> ptr <= peak /\ (use \notin Unasked => Intact)))'
BY OneByteIsIntact, PTL

\* Appending keeps the invariant, provided that there is room for the piece, where
\* the use asks for room, and that the buffer grew only for data.
LEMMA AddedKeeps ==
    ASSUME BufferInv, Intact, use' = use, use # "read",
           NEW s \in Seq(Bytes), NEW t \in Nat,
           t >= size, use \notin Unasked => ptr + Len(s) <= t,
           t = size \/ t <= 2 * Larger(peak, ptr + Len(s)),
           Added(t, s)
    PROVE  BufferInv'
<1> USE BufferAssumption
<1>1. /\ Len(s) \in Nat
      /\ size \in Nat /\ size >= InitialSize /\ ptr \in Nat /\ peak \in Nat
      /\ ptr <= peak /\ peak <= size /\ READ_BUF_SIZE \in Nat
      /\ fifo \in Seq(Bytes) /\ Len(fifo) = ptr
      /\ mem \in [0..size - 1 -> Bytes]
  BY OneByteIsIntact DEF BufferInv, TypeOK, ContentsKept, Intact
<1>2. size' = t /\ ptr' = ptr + Len(s) /\ fifo' = fifo \o s
      /\ peak' = Larger(peak, ptr + Len(s))
  BY DEF Added
<1>3. /\ peak' \in Nat /\ peak' >= peak /\ peak' >= ptr'
      /\ use \notin Unasked => peak' <= t
  BY <1>1, <1>2 DEF Larger
<1>4. mem' = [k \in 0..t - 1 |->
                 IF k \in ptr..ptr + Len(s) - 1 THEN s[k - ptr + 1]
                 ELSE IF k < size THEN mem[k] ELSE 0]
  <2>1. DOMAIN AtSize(t) = 0..t - 1
    BY DEF AtSize
  <2>2. mem' = With(AtSize(t), ptr, s)
    BY DEF Added
  <2> QED
    BY <2>1, <2>2 DEF With, AtSize
<1>5. TypeOK'
  <2>1. fifo' \in Seq(Bytes)
    BY <1>1, <1>2
  <2>2. mem' \in [0..t - 1 -> Bytes]
    <3> SUFFICES ASSUME NEW k \in 0..t - 1
                 PROVE  mem'[k] \in Bytes
      BY <1>4
    <3>1. CASE k \in ptr..ptr + Len(s) - 1
      <4>1. k - ptr + 1 \in 1..Len(s)
        BY <1>1, <3>1
      <4> QED
        BY <1>4, <3>1, <4>1
    <3>2. CASE k \notin ptr..ptr + Len(s) - 1
      BY <1>1, <1>4, <3>2
    <3> QED
      BY <3>1, <3>2
  <2> QED
    BY <1>1, <1>2, <1>3, <2>1, <2>2 DEF TypeOK, InitialSize, BufferInv
<1>6. WithinOneByte'
  BY <1>2, <1>3, <1>5, OneByteIsIntactNext DEF Added, Intact
<1>7. ContentsKept'
  <2> SUFFICES ASSUME peak' <= t
               PROVE  Len(fifo') = ptr' /\ \A k \in 1..ptr' : fifo'[k] = mem'[k - 1]
    BY <1>2 DEF ContentsKept, Intact
  <2>1. Len(fifo') = ptr'
    <3>1. Len(fifo \o s) = Len(fifo) + Len(s)
      BY <1>1
    <3> QED
      BY <1>1, <1>2, <3>1
  <2>2. ASSUME NEW k \in 1..ptr'
        PROVE  fifo'[k] = mem'[k - 1]
    <3>1. k - 1 \in 0..t - 1
      BY <1>1, <1>2, <1>3
    <3>2. CASE k <= ptr
      <4>1. fifo[k] = mem[k - 1]
        BY <1>1, <3>2 DEF BufferInv, ContentsKept, Intact
      <4>2. fifo'[k] = fifo[k]
        BY <1>1, <1>2, <3>2
      <4> QED
        BY <1>1, <1>4, <3>1, <3>2, <4>1, <4>2
    <3>3. CASE k > ptr
      <4>1. fifo'[k] = s[k - ptr]
        BY <1>1, <1>2, <3>3
      <4>2. k - 1 \in ptr..ptr + Len(s) - 1 /\ (k - 1) - ptr + 1 = k - ptr
        BY <1>1, <1>2, <3>3
      <4> QED
        BY <1>4, <3>1, <4>1, <4>2
    <3> QED
      BY <1>1, <1>2, <3>2, <3>3
  <2> QED
    BY <2>1, <2>2
<1>8. GrowthIsDriven'
  BY <1>1, <1>2, <1>3 DEF GrowthIsDriven, BufferInv
<1>9. \A k \in 0..size' - 1 : k >= peak' => mem'[k] = 0
  <2> SUFFICES ASSUME NEW k \in 0..t - 1, k >= peak'
               PROVE  mem'[k] = 0
    BY <1>2
  <2>1. k \notin ptr..ptr + Len(s) - 1 /\ k >= peak
    BY <1>1, <1>2, <1>3
  <2> QED
    BY <1>1, <1>4, <2>1 DEF BufferInv
<1> QED
  BY <1>5, <1>6, <1>7, <1>8, <1>9 DEF BufferInv

\* A buffer whose last byte is not clear was filled to that byte.
LEMMA ResizeMeansFull ==
    ASSUME BufferInv, Intact, ShouldResize
    PROVE  peak = size
BY BufferAssumption DEF BufferInv, TypeOK, Intact, ShouldResize, InitialSize

-----------------------------------------------------------------------------
(* One lemma for each action. *)

LEMMA InvQueue ==
    ASSUME BufferInv, Intact, NEW s \in Pieces, QueueBytes(s)
    PROVE  BufferInv'
<1> USE BufferAssumption
<1> DEFINE first == IF ShouldResize THEN Doubled(size) ELSE size
           need == ptr + Len(s)
<1>1. PICK t \in first..first + 2 * need : IsGrown(first, need, t) /\ Added(t, s)
  BY DEF QueueBytes
<1>2. s \in Seq(Bytes) /\ Len(s) \in Nat
  BY PieceType
<1>3. size \in Nat /\ size > 0 /\ ptr \in Nat /\ peak \in Nat /\ peak <= size
  BY DEF BufferInv, TypeOK, InitialSize, Intact
<1>4. first \in Nat /\ first >= size /\ (first = size \/ first <= 2 * peak)
  BY <1>3, ResizeMeansFull DEF Doubled
<1>5. t \in Nat /\ t >= size /\ need <= t /\ (t = first \/ t + 1 < 2 * need)
  BY <1>1, <1>2, <1>3, <1>4 DEF IsGrown
<1>6. t = size \/ t <= 2 * Larger(peak, need)
  BY <1>2, <1>3, <1>4, <1>5 DEF Larger
<1>7. use' = use /\ use # "read"
  BY DEF QueueBytes
<1> QED
  BY <1>1, <1>2, <1>5, <1>6, <1>7, AddedKeeps

LEMMA InvPlain ==
    ASSUME BufferInv, Intact, NEW s \in Pieces, AppendPlain(s)
    PROVE  BufferInv'
<1> USE BufferAssumption
<1> DEFINE t == IF ShouldResize \/ ~CanWrite(Len(s)) THEN Doubled(size) ELSE size
<1>1. Added(t, s) /\ Len(s) <= READ_BUF_SIZE /\ use' = use /\ use # "read"
  BY DEF AppendPlain
<1>2. s \in Seq(Bytes) /\ Len(s) \in Nat
  BY PieceType
<1>3. /\ size \in Nat /\ size > READ_BUF_SIZE /\ READ_BUF_SIZE \in Nat
      /\ ptr \in Nat /\ peak \in Nat /\ ptr <= peak /\ peak <= size
  BY OneByteIsIntact DEF BufferInv, TypeOK, InitialSize, Intact
<1>4. t \in Nat /\ t >= size /\ ptr + Len(s) <= t
  BY <1>1, <1>2, <1>3 DEF Doubled, CanWrite
<1>5. t = size \/ t <= 2 * Larger(peak, ptr + Len(s))
  BY <1>2, <1>3, ResizeMeansFull DEF Doubled, CanWrite, Larger
<1> HIDE DEF t
<1> QED
  BY <1>1, <1>2, <1>4, <1>5, AddedKeeps

LEMMA InvUnasked ==
    ASSUME BufferInv, Intact, NEW s \in Pieces, AppendUnasked(s)
    PROVE  BufferInv'
<1> USE BufferAssumption
<1> DEFINE t == IF ShouldResize THEN Doubled(size) ELSE size
<1>1. Added(t, s) /\ use' = use /\ use # "read" /\ use \in Unasked
  BY DEF AppendUnasked, Unasked
<1>2. s \in Seq(Bytes) /\ Len(s) \in Nat
  BY PieceType
<1>3. /\ size \in Nat /\ size > READ_BUF_SIZE /\ READ_BUF_SIZE \in Nat
      /\ ptr \in Nat /\ peak \in Nat
  BY DEF BufferInv, TypeOK, InitialSize
<1>4. t \in Nat /\ t >= size
  BY <1>3 DEF Doubled
<1>5. t = size \/ t <= 2 * Larger(peak, ptr + Len(s))
  BY <1>2, <1>3, ResizeMeansFull DEF Doubled, Larger
<1> HIDE DEF t
<1> QED
  BY <1>1, <1>2, <1>4, <1>5, AddedKeeps

LEMMA InvRead ==
    ASSUME BufferInv, Intact, NEW s \in Pieces, ReadSocket(s)
    PROVE  BufferInv'
<1> USE BufferAssumption
<1> DEFINE t == IF ShouldResize THEN Doubled(size) ELSE size
           n == Len(s)
<1>1. s \in Seq(Bytes) /\ n \in Nat /\ n <= READ_BUF_SIZE
  BY PieceType DEF ReadSocket
<1>2. /\ size \in Nat /\ size > READ_BUF_SIZE /\ READ_BUF_SIZE \in Nat
      /\ ptr = 0 /\ peak \in Nat /\ peak <= size
      /\ mem \in [0..size - 1 -> Bytes]
  BY DEF BufferInv, TypeOK, InitialSize, Intact, ReadSocket
<1>3. t \in Nat /\ t >= size /\ (t = size \/ t <= 2 * peak)
  BY <1>2, ResizeMeansFull DEF Doubled
<1>4. /\ size' = t /\ peak' = Larger(peak, n)
      /\ mem' = Front(With(AtSize(t), 0, s), n, 0)
      /\ use' = use /\ ptr' = 0 /\ fifo' = fifo
  BY <1>2 DEF ReadSocket
<1> HIDE DEF t
<1>5. mem' = [k \in 0..t - 1 |-> IF k \in 0..n - 1 THEN s[k + 1]
                                 ELSE IF k < size THEN mem[k] ELSE 0]
  <2>1. DOMAIN AtSize(t) = 0..t - 1
    BY DEF AtSize
  <2>2. With(AtSize(t), 0, s) =
            [k \in 0..t - 1 |-> IF k \in 0..n - 1 THEN s[k + 1]
                                ELSE IF k < size THEN mem[k] ELSE 0]
    <3>1. \A k \in 0..t - 1 : k - 0 + 1 = k + 1
      BY <1>3
    <3> QED
      BY <1>1, <2>1, <3>1 DEF With, AtSize
  <2>3. \A m, k : (DOMAIN m = 0..t - 1 /\ k \in 0..t - 1) => m[k + 0] = m[k]
    BY <1>3
  <2> QED
    BY <1>3, <1>4, <2>2, <2>3 DEF Front
<1>6. peak' \in Nat /\ peak' >= peak /\ peak' >= n /\ peak' <= t
  BY <1>1, <1>2, <1>3, <1>4 DEF Larger
<1>7. mem' \in [0..t - 1 -> Bytes]
  BY <1>1, <1>2, <1>3, <1>5
<1>8. TypeOK'
  BY <1>2, <1>3, <1>4, <1>6, <1>7 DEF TypeOK, InitialSize, BufferInv
<1>9. WithinOneByte' /\ GrowthIsDriven'
  BY <1>2, <1>3, <1>4, <1>6, <1>8, OneByteIsIntactNext
     DEF Intact, GrowthIsDriven, BufferInv
<1>10. ContentsKept'
  BY <1>2, <1>4 DEF ContentsKept, Intact, BufferInv
<1>11. \A k \in 0..size' - 1 : k >= peak' => mem'[k] = 0
  BY <1>1, <1>2, <1>3, <1>4, <1>5, <1>6 DEF BufferInv
<1> QED
  BY <1>4, <1>8, <1>9, <1>10, <1>11 DEF BufferInv

\* Taking bytes from the front, from memory that holds the buffer's content
\* apart from the bytes to be taken.
LEMMA TakeKeeps ==
    ASSUME BufferInv, Intact, NEW m \in [0..size - 1 -> Bytes], NEW n \in 1..ptr,
           \A k \in 0..size - 1 : k >= n => m[k] = mem[k],
           Take(m, n), use # "read"
    PROVE  BufferInv'
<1> USE BufferAssumption
<1>1. /\ size \in Nat /\ ptr \in Nat /\ peak \in Nat /\ n \in Nat /\ n > 0
      /\ n <= ptr /\ ptr <= peak /\ peak <= size
      /\ fifo \in Seq(Bytes) /\ Len(fifo) = ptr
  BY OneByteIsIntact DEF BufferInv, TypeOK, InitialSize, Intact, ContentsKept
<1>2. /\ ptr' = ptr - n /\ fifo' = SubSeq(fifo, n + 1, Len(fifo))
      /\ use' = use /\ size' = size /\ peak' = peak
  BY DEF Take
<1>3. mem' = [k \in 0..size - 1 |-> IF k \in 0..ptr - n - 1 THEN m[k + n] ELSE m[k]]
  BY DEF Take, TakenFrom, Front
<1>4. TypeOK'
  <2>1. mem' \in [0..size - 1 -> Bytes]
    BY <1>1, <1>3
  <2>2. fifo' \in Seq(Bytes)
    BY <1>1, <1>2
  <2> QED
    BY <1>1, <1>2, <2>1, <2>2 DEF TypeOK, BufferInv
<1>5. WithinOneByte' /\ GrowthIsDriven'
  BY <1>1, <1>2, <1>4, OneByteIsIntactNext DEF Intact, GrowthIsDriven, BufferInv
<1>6. ContentsKept'
  <2>1. Len(fifo') = ptr'
    BY <1>1, <1>2
  <2>2. ASSUME NEW k \in 1..ptr'
        PROVE  fifo'[k] = mem'[k - 1]
    <3>1. fifo'[k] = fifo[k + n]
      BY <1>1, <1>2
    <3>2. fifo[k + n] = mem[k + n - 1]
      BY <1>1, <1>2 DEF BufferInv, ContentsKept, Intact
    <3>3. k - 1 \in 0..ptr - n - 1 /\ k - 1 \in 0..size - 1
          /\ (k - 1) + n = k + n - 1
          /\ k + n - 1 \in 0..size - 1 /\ k + n - 1 >= n
      BY <1>1, <1>2
    <3>4. mem'[k - 1] = m[k + n - 1]
      BY <1>3, <3>3
    <3> QED
      BY <3>1, <3>2, <3>3, <3>4
  <2> QED
    BY <2>1, <2>2 DEF ContentsKept
<1>7. \A k \in 0..size' - 1 : k >= peak' => mem'[k] = 0
  <2> SUFFICES ASSUME NEW k \in 0..size - 1, k >= peak
               PROVE  mem'[k] = 0
    BY <1>2
  <2>1. k >= n /\ k \notin 0..ptr - n - 1
    BY <1>1
  <2> QED
    BY <1>3, <2>1 DEF BufferInv
<1> QED
  BY <1>2, <1>4, <1>5, <1>6, <1>7 DEF BufferInv

LEMMA InvConsume ==
    ASSUME BufferInv, Intact, NEW n \in 1..ptr, Consume(n)
    PROVE  BufferInv'
<1>1. mem \in [0..size - 1 -> Bytes]
  BY DEF BufferInv, TypeOK
<1> QED
  BY <1>1, TakeKeeps DEF Consume

\* Clearing what was sent changes the buffer and its content alike.
LEMMA InvSendInPlace ==
    ASSUME BufferInv, Intact, NEW n \in 1..ptr, SendInPlace(n)
    PROVE  BufferInv'
<1> USE BufferAssumption
<1>1. /\ size \in Nat /\ ptr \in Nat /\ ptr <= peak /\ peak <= size /\ peak \in Nat
      /\ fifo \in Seq(Bytes) /\ Len(fifo) = ptr
      /\ mem \in [0..size - 1 -> Bytes]
  BY OneByteIsIntact DEF BufferInv, TypeOK, Intact, ContentsKept
<1>2. /\ mem' = [k \in 0..size - 1 |-> IF k < n THEN 0 ELSE mem[k]]
      /\ fifo' = [k \in 1..ptr |-> IF k <= n THEN 0 ELSE fifo[k]]
      /\ use' = use /\ size' = size /\ ptr' = ptr /\ peak' = peak
  BY <1>1 DEF SendInPlace, Cleared
<1>3. TypeOK'
  <2>1. mem' \in [0..size - 1 -> Bytes]
    BY <1>1, <1>2
  <2>2. fifo' \in Seq(Bytes)
    BY <1>1, <1>2
  <2> QED
    BY <1>2, <2>1, <2>2 DEF TypeOK, BufferInv
<1>4. WithinOneByte' /\ GrowthIsDriven'
  BY <1>1, <1>2, <1>3, OneByteIsIntactNext DEF Intact, GrowthIsDriven, BufferInv
<1>5. ContentsKept'
  <2>1. Len(fifo') = ptr'
    BY <1>1, <1>2
  <2>2. ASSUME NEW k \in 1..ptr PROVE fifo'[k] = mem'[k - 1]
    <3>1. fifo[k] = mem[k - 1]
      BY DEF BufferInv, ContentsKept
    <3>2. k - 1 \in 0..size - 1 /\ (k - 1 < n <=> k <= n)
      BY <1>1
    <3> QED
      BY <1>2, <3>1, <3>2
  <2> QED
    BY <1>2, <2>1, <2>2 DEF ContentsKept
<1>6. \A k \in 0..size' - 1 : k >= peak' => mem'[k] = 0
  BY <1>1, <1>2 DEF BufferInv
<1> QED
  BY <1>2, <1>3, <1>4, <1>5, <1>6 DEF BufferInv

LEMMA InvSend ==
    ASSUME BufferInv, Intact, NEW n \in 1..ptr, Send(n)
    PROVE  BufferInv'
<1>1. mem \in [0..size - 1 -> Bytes] /\ size \in Nat /\ ptr \in Nat
  BY DEF BufferInv, TypeOK
<1>2. Cleared(mem, n) \in [0..size - 1 -> Bytes]
  BY <1>1, BufferAssumption DEF Cleared
<1>3. \A k \in 0..size - 1 : k >= n => Cleared(mem, n)[k] = mem[k]
  BY <1>1 DEF Cleared
<1>4. use # "read" /\ Take(Cleared(mem, n), n)
  BY DEF Send
<1> QED
  BY <1>2, <1>3, <1>4, TakeKeeps

\* Every step keeps the invariant.
LEMMA BufferInvStep ==
    ASSUME BufferInv, [Next]_vars
    PROVE  BufferInv'
<1>1. CASE UNCHANGED vars
  BY <1>1 DEF vars, BufferInv, TypeOK, WithinOneByte, Allocated, Intact, ContentsKept,
              GrowthIsDriven
<1>2. CASE Next
  <2>1. Intact
    BY <1>2 DEF Next
  <2>2. CASE \E s \in Pieces : QueueBytes(s)
    BY <2>1, <2>2, InvQueue
  <2>3. CASE \E s \in Pieces : AppendPlain(s)
    BY <2>1, <2>3, InvPlain
  <2>4. CASE \E s \in Pieces : AppendUnasked(s)
    BY <2>1, <2>4, InvUnasked
  <2>5. CASE \E s \in Pieces : ReadSocket(s)
    BY <2>1, <2>5, InvRead
  <2>6. CASE \E n \in 1..ptr : Consume(n)
    BY <2>1, <2>6, InvConsume
  <2>7. CASE \E n \in 1..ptr : SendInPlace(n)
    BY <2>1, <2>7, InvSendInPlace
  <2>8. CASE \E n \in 1..ptr : Send(n)
    BY <2>1, <2>8, InvSend
  <2> QED
    BY <1>2, <2>2, <2>3, <2>4, <2>5, <2>6, <2>7, <2>8 DEF Next
<1> QED
  BY <1>1, <1>2

-----------------------------------------------------------------------------
(* The theorems. *)

\* BufferInv holds in every reachable state of a buffer, however its owner
\* appends, grows, sends and consumes.
THEOREM BufferInvariant == Spec => []BufferInv
<1> USE BufferAssumption
<1>1. Init => BufferInv
  <2> SUFFICES ASSUME Init PROVE BufferInv
    OBVIOUS
  <2>1. fifo \in Seq(Bytes) /\ Len(fifo) = 0
    BY DEF Init
  <2>2. mem \in [0..size - 1 -> Bytes]
    BY DEF Init
  <2> QED
    BY <2>1, <2>2
       DEF Init, InitialSize, BufferInv, TypeOK, WithinOneByte, Allocated, ContentsKept,
           GrowthIsDriven, Uses
<1>2. BufferInv /\ [Next]_vars => BufferInv'
  BY BufferInvStep
<1> QED
  BY <1>1, <1>2, PTL DEF Spec

\* Through every growth, append and move a buffer is an array of bytes of exactly
\* its recorded size, and never smaller than it was created.
THEOREM BufferTyped == Spec => []TypeOK
<1>1. BufferInv => TypeOK
  BY DEF BufferInv
<1> QED
  BY <1>1, BufferInvariant, PTL

\* No callback that asks for room, and no on_read of a TLS side, writes more than
\* one byte behind what was allocated, and none before the buffer was doubled.
THEOREM WritesWithinOneByte == Spec => []WithinOneByte
<1>1. BufferInv => WithinOneByte
  BY DEF BufferInv
<1> QED
  BY <1>1, BufferInvariant, PTL

\* A buffer holds what was appended and not yet taken, in order.
THEOREM BufferIsFifo == Spec => []ContentsKept
<1>1. BufferInv => ContentsKept
  BY DEF BufferInv
<1> QED
  BY <1>1, BufferInvariant, PTL

\* A buffer grows for data only.
THEOREM GrowthBounded == Spec => []GrowthIsDriven
<1>1. BufferInv => GrowthIsDriven
  BY DEF BufferInv
<1> QED
  BY <1>1, BufferInvariant, PTL

\* A piece that is appended without asking for room is inside the recorded size,
\* unless more than one byte was in the buffer before it.
THEOREM OnePieceAlwaysFits == Spec => OnePieceFits
<1> USE BufferAssumption
<1>1. ASSUME BufferInv, [Next]_vars, peak' > size'
      PROVE  ptr > 1 \/ UNCHANGED vars
  <2> SUFFICES ASSUME Next PROVE ptr > 1
    BY <1>1
  <2>1. /\ Intact /\ size \in Nat /\ size > READ_BUF_SIZE /\ READ_BUF_SIZE \in Nat
        /\ READ_BUF_SIZE > 0 /\ ptr \in Nat /\ peak \in Nat /\ peak <= size
    BY <1>1 DEF Next, BufferInv, TypeOK, InitialSize, Intact
  <2>2. TypeOK' /\ WithinOneByte' /\ size' \in Nat /\ peak' \in Nat
    BY <1>1, BufferInvStep DEF BufferInv, TypeOK
  <2>3. use' \in Unasked
    BY <1>1, <2>2, OneByteIsIntactNext DEF Intact
  <2>4. PICK s \in Pieces : AppendUnasked(s)
    <3>1. use' = use /\ use \in Unasked
      BY <2>3 DEF Next, QueueBytes, AppendPlain, AppendUnasked, ReadSocket, Consume,
                  SendInPlace, Send, Take
    <3>2. ~(size' = size /\ peak' = peak)
      BY <1>1, <2>1
    <3> QED
      BY <3>1, <3>2 DEF Next, Unasked, QueueBytes, AppendPlain, ReadSocket, Consume,
                        SendInPlace, Send, Take
  <2>5. Len(s) \in Nat /\ Len(s) <= READ_BUF_SIZE
    BY <2>4, PieceType DEF AppendUnasked
  <2>6. size' >= size /\ size' \in Nat /\ peak' = Larger(peak, ptr + Len(s))
    BY <2>1, <2>4 DEF AppendUnasked, Added, Doubled
  <2> QED
    BY <1>1, <2>1, <2>5, <2>6 DEF Larger
<1>2. BufferInv /\ [Next]_vars => [peak' > size' => ptr > 1]_vars
  BY <1>1
<1> QED
  BY <1>2, BufferInvariant, PTL DEF Spec, OnePieceFits

=============================================================================
