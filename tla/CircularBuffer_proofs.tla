----------------------- MODULE CircularBuffer_proofs -----------------------
(* For every capacity and every kind of byte: the pointers of the ring stay *)
(* consistent, and the ring is a queue that forgets its oldest byte first.  *)
EXTENDS CircularBuffer, SequenceTheorems, TLAPS

-----------------------------------------------------------------------------
(* Places. *)

LEMMA PlaceFacts ==
    ASSUME NEW t \in Places, NEW i \in Places
    PROVE  /\ Place(t, i) \in Places
           /\ \A j \in Places : Place(t, i) = Place(t, j) => i = j
           /\ After(t) \in Places
           /\ i + 1 < Capacity => Place(After(t), i) = Place(t, i + 1)
           /\ Place(t, 0) = t
           /\ i + 1 = Capacity => Place(After(t), i) = t
BY RingAssumption DEF Place, Places, After

\* The size of a consistent ring, and where it ends.
LEMMA SizeFacts ==
    ASSUME RingInv
    PROVE  /\ Capacity \in Nat \ {0} /\ head \in Places /\ tail \in Places
           /\ is_full \in BOOLEAN
           /\ RingSize \in 0..Capacity
           /\ RingSize = Capacity <=> is_full
           /\ ~is_full => RingSize \in Places /\ Place(tail, RingSize) = head
           /\ is_full => head = tail
BY RingAssumption DEF RingInv, RingSize, Place, Places

LEMMA ContentType ==
    ASSUME RingInv
    PROVE  Content \in Seq(Values) /\ Len(Content) = RingSize
<1>1. ASSUME NEW i \in 1..RingSize PROVE buf[Place(tail, i - 1)] \in Values
  <2>1. i - 1 \in Places
    BY SizeFacts DEF Places
  <2> QED
    BY <2>1, SizeFacts, PlaceFacts DEF RingInv
<1>2. RingSize \in Nat
  BY SizeFacts
<1> QED
  BY <1>1, <1>2 DEF Content

-----------------------------------------------------------------------------
(* Every step keeps RingInv. *)

LEMMA RingInvStep ==
    ASSUME RingInv, [RingNext]_ringVars
    PROVE  RingInv'
<1> USE RingAssumption
<1>1. head \in Places /\ tail \in Places /\ 0 \in Places
  BY DEF RingInv, Places
<1>2. CASE \E x \in Values : WriteByte(x)
  <2> PICK x \in Values : WriteByte(x)
    BY <1>2
  <2>1. head' \in Places /\ tail' \in Places
    BY <1>1, PlaceFacts DEF WriteByte, TailAfterWrite
  <2>2. buf' \in [Places -> Values]
    BY DEF WriteByte, RingInv
  <2>3. is_full' \in BOOLEAN /\ (is_full' => head' = tail')
    BY DEF WriteByte
  <2> QED
    BY <2>1, <2>2, <2>3 DEF RingInv
<1>3. CASE GetByte
  BY <1>1, <1>3, PlaceFacts DEF GetByte, StillFull, RingInv
<1>4. CASE ClearRing
  BY <1>1, <1>4 DEF ClearRing, RingInv
<1>5. CASE UNCHANGED ringVars
  BY <1>5 DEF ringVars, RingInv
<1> QED
  BY <1>2, <1>3, <1>4, <1>5 DEF RingNext

\* The pointers stay inside the ring, and is_full is set only where they meet.
THEOREM RingInvariant == RingSpec => []RingInv
<1>1. RingInit => RingInv
  <2>1. 0 \in Places
    BY RingAssumption DEF Places
  <2> QED
    BY <2>1 DEF RingInit, RingInv
<1> QED
  BY <1>1, RingInvStep, PTL DEF RingSpec

-----------------------------------------------------------------------------
(* Every step is one of the queue. *)

\* A sequence is the function of its elements.
LEMMA IsItsFunction ==
    ASSUME NEW S, NEW q \in Seq(S), NEW n, Len(q) = n
    PROVE  q = [i \in 1..n |-> q[i]]
OBVIOUS

\* What a write does to the place of the i-th oldest byte.
LEMMA OthersKept ==
    ASSUME RingInv, NEW x \in Values, WriteByte(x), NEW i \in 0..RingSize - 1,
           is_full => i > 0
    PROVE  buf'[Place(tail, i)] = buf[Place(tail, i)]
<1>1. i \in Places
  BY SizeFacts DEF Places
<1>0. tail \in Places
  BY SizeFacts
<1>2. Place(tail, i) \in Places /\ Place(tail, 0) = tail
      /\ \A j \in Places : Place(tail, i) = Place(tail, j) => i = j
  BY <1>0, <1>1, PlaceFacts
<1>3. Place(tail, i) # head
  <2>1. CASE is_full
    <3>1. 0 \in Places /\ i # 0
      BY <2>1, RingAssumption DEF Places
    <3>2. head = tail
      BY <2>1, SizeFacts
    <3> QED
      BY <1>2, <3>1, <3>2
  <2>2. CASE ~is_full
    <3>1. RingSize \in Places /\ Place(tail, RingSize) = head
      BY <2>2, SizeFacts
    <3>2. i # RingSize
      BY <3>1 DEF Places
    <3> QED
      BY <1>2, <3>1, <3>2
  <2> QED
    BY <2>1, <2>2
<1> QED
  BY <1>2, <1>3 DEF WriteByte, RingInv

\* Writing to a ring that is not full appends.
LEMMA WriteAppends ==
    ASSUME RingInv, ~is_full, NEW x \in Values, WriteByte(x)
    PROVE  Content' = Append(Content, x)
<1>1. RingInv'
  BY RingInvStep DEF RingNext
<1>2. /\ tail' = tail /\ head' = After(head) /\ is_full' = (tail' = head')
      /\ buf' = [buf EXCEPT ![head] = x]
  BY DEF WriteByte, TailAfterWrite
<1>3. RingSize' = RingSize + 1 /\ RingSize \in Nat
  <2>1. /\ Capacity \in Nat \ {0} /\ head \in 0..Capacity - 1
        /\ tail \in 0..Capacity - 1 /\ RingSize \in Nat
    BY SizeFacts DEF Places
  <2>2. RingSize = IF head >= tail THEN head - tail ELSE Capacity + head - tail
    BY DEF RingSize
  <2>3. CASE is_full'
    <3>1. RingSize' = Capacity /\ tail = After(head)
      BY <1>2, <2>3 DEF RingSize
    <3> QED
      BY <2>1, <2>2, <3>1 DEF After
  <2>4. CASE ~is_full'
    <3>1. /\ RingSize' = IF After(head) >= tail THEN After(head) - tail
                                                ELSE Capacity + After(head) - tail
          /\ tail # After(head)
      BY <1>2, <2>4 DEF RingSize
    <3> QED
      BY <2>1, <2>2, <3>1 DEF After
  <2> QED
    BY <2>1, <2>3, <2>4
<1>4. Content' = [i \in 1..RingSize + 1 |-> buf'[Place(tail, i - 1)]]
  BY <1>2, <1>3 DEF Content
<1>5. ASSUME NEW i \in 1..RingSize
      PROVE  buf'[Place(tail, i - 1)] = Content[i]
  <2>1. i - 1 \in 0..RingSize - 1
    BY <1>3
  <2> QED
    BY <2>1, OthersKept DEF Content
<1>6. buf'[Place(tail, (RingSize + 1) - 1)] = x
  <2>1. (RingSize + 1) - 1 = RingSize
    BY <1>3
  <2> QED
    BY <1>2, <2>1, SizeFacts DEF RingInv
<1>7. /\ Append(Content, x) \in Seq(Values)
      /\ Len(Append(Content, x)) = RingSize + 1
      /\ \A i \in 1..RingSize : Append(Content, x)[i] = Content[i]
      /\ Append(Content, x)[RingSize + 1] = x
  BY ContentType, AppendProperties
<1>8. \A i \in 1..RingSize + 1 : Content'[i] = Append(Content, x)[i]
  BY <1>3, <1>4, <1>5, <1>6, <1>7
<1>9. Content' = [i \in 1..RingSize + 1 |-> Append(Content, x)[i]]
  BY <1>4, <1>8
<1> QED
  BY <1>7, <1>9, IsItsFunction

\* Writing to a full ring gives up the oldest byte.
LEMMA WriteReplaces ==
    ASSUME RingInv, is_full, NEW x \in Values, WriteByte(x)
    PROVE  Len(Content) = Capacity /\ Content' = Append(Tail(Content), x)
<1> USE RingAssumption
<1>1. /\ head = tail /\ RingSize = Capacity /\ tail \in Places /\ Capacity > 0
      /\ Capacity \in Nat
  BY SizeFacts
<1>2. /\ tail' = After(tail) /\ head' = After(tail) /\ is_full' = TRUE
      /\ buf' = [buf EXCEPT ![tail] = x]
  BY <1>1 DEF WriteByte, TailAfterWrite
<1>3. RingSize' = Capacity
  BY <1>2 DEF RingSize
<1>4. Content' = [i \in 1..Capacity |-> buf'[Place(After(tail), i - 1)]]
  BY <1>2, <1>3 DEF Content
<1>5. ASSUME NEW i \in 1..Capacity - 1
      PROVE  buf'[Place(After(tail), i - 1)] = Content[i + 1]
  <2>1. /\ i - 1 \in Places /\ (i - 1) + 1 = i /\ i \in 0..RingSize - 1 /\ i > 0
        /\ (i - 1) + 1 < Capacity /\ i + 1 \in 1..RingSize /\ (i + 1) - 1 = i
    BY <1>1 DEF Places
  <2>2. Place(After(tail), i - 1) = Place(tail, i)
    BY <1>1, <2>1, PlaceFacts
  <2>3. Content[i + 1] = buf[Place(tail, i)]
    BY <2>1 DEF Content
  <2> QED
    BY <2>1, <2>2, <2>3, OthersKept
<1>6. buf'[Place(After(tail), Capacity - 1)] = x
  <2>1. Capacity - 1 \in Places /\ (Capacity - 1) + 1 = Capacity
    BY <1>1 DEF Places
  <2>2. Place(After(tail), Capacity - 1) = tail
    BY <1>1, <2>1, PlaceFacts
  <2> QED
    BY <1>1, <1>2, <2>2 DEF RingInv
<1>7. Len(Content) = Capacity /\ Content \in Seq(Values)
  BY <1>1, ContentType
<1>8. /\ Tail(Content) \in Seq(Values) /\ Len(Tail(Content)) = Capacity - 1
      /\ \A i \in 1..Capacity - 1 : Tail(Content)[i] = Content[i + 1]
  BY <1>1, <1>7, HeadTailProperties
<1>9. /\ Append(Tail(Content), x) \in Seq(Values)
      /\ Len(Append(Tail(Content), x)) = Capacity
      /\ \A i \in 1..Capacity - 1 : Append(Tail(Content), x)[i] = Content[i + 1]
      /\ Append(Tail(Content), x)[Capacity] = x
  <2>1. (Capacity - 1) + 1 = Capacity
    BY <1>1
  <2> QED
    BY <1>8, <2>1, AppendProperties
<1>10. ASSUME NEW i \in 1..Capacity PROVE Content'[i] = Append(Tail(Content), x)[i]
  <2>1. CASE i = Capacity
    BY <1>4, <1>6, <1>9, <2>1
  <2>2. CASE i # Capacity
    BY <1>1, <1>4, <1>5, <1>9, <2>2
  <2> QED
    BY <2>1, <2>2
<1>11. Content' = [i \in 1..Capacity |-> Append(Tail(Content), x)[i]]
  BY <1>4, <1>10
<1> QED
  BY <1>7, <1>9, <1>11, IsItsFunction

\* A get takes the oldest byte.
LEMMA GetTakes ==
    ASSUME RingInv, GetByte
    PROVE  Content # << >> /\ Content' = Tail(Content)
<1> USE RingAssumption
<1>1. /\ tail' = After(tail) /\ head' = head /\ buf' = buf /\ is_full' = FALSE
      /\ RingSize > 0
  BY DEF GetByte, StillFull
<1>2. RingSize' = RingSize - 1 /\ RingSize \in Nat
  BY <1>1, SizeFacts DEF RingSize, After, Places
<1>3. Content' = [i \in 1..RingSize - 1 |-> buf[Place(After(tail), i - 1)]]
  BY <1>1, <1>2 DEF Content
<1>4. ASSUME NEW i \in 1..RingSize - 1
      PROVE  buf[Place(After(tail), i - 1)] = Content[i + 1]
  <2>1. /\ i - 1 \in Places /\ (i - 1) + 1 = i /\ (i - 1) + 1 < Capacity
        /\ i + 1 \in 1..RingSize /\ (i + 1) - 1 = i
    BY <1>2, SizeFacts DEF Places
  <2> QED
    BY <2>1, SizeFacts, PlaceFacts DEF Content
<1>5. /\ Content # << >> /\ Tail(Content) \in Seq(Values)
      /\ Len(Tail(Content)) = RingSize - 1
      /\ \A i \in 1..RingSize - 1 : Tail(Content)[i] = Content[i + 1]
  <2>1. Len(Content) = RingSize /\ Content \in Seq(Values)
    BY ContentType
  <2>2. Content # << >>
    BY <1>1, <1>2, <2>1
  <2> QED
    BY <2>1, <2>2, HeadTailProperties
<1>6. Content' = [i \in 1..RingSize - 1 |-> Tail(Content)[i]]
  BY <1>3, <1>4, <1>5
<1> QED
  BY <1>5, <1>6, IsItsFunction

\* The ring is the queue of OverwritingFifo: whatever is written, got, wrapped and
\* overwritten, its content changes as that queue does.
THEOREM RingIsFifo == RingSpec => IsFifo
<1> USE RingAssumption
<1>1. RingInit => Fifo!Init
  <2> SUFFICES ASSUME RingInit PROVE Content = << >>
    BY DEF Fifo!Init
  <2>1. RingSize = 0
    BY DEF RingInit, RingSize
  <2> QED
    BY <2>1 DEF Content
<1>2. RingInv /\ [RingNext]_ringVars => [Fifo!Next]_Content
  <2> SUFFICES ASSUME RingInv, [RingNext]_ringVars PROVE [Fifo!Next]_Content
    OBVIOUS
  <2>1. CASE \E x \in Values : WriteByte(x)
    <3> PICK x \in Values : WriteByte(x)
      BY <2>1
    <3>1. CASE is_full
      BY <3>1, WriteReplaces DEF Fifo!Next, Fifo!Put
    <3>2. CASE ~is_full
      <4>1. Len(Content) # Capacity
        BY <3>2, ContentType, SizeFacts
      <4> QED
        BY <3>2, <4>1, WriteAppends DEF Fifo!Next, Fifo!Put
    <3> QED
      BY <3>1, <3>2
  <2>2. CASE GetByte
    BY <2>2, GetTakes DEF Fifo!Next, Fifo!Take
  <2>3. CASE ClearRing
    <3>1. RingSize' = 0
      BY <2>3 DEF ClearRing, RingSize
    <3>2. Content' = << >>
      BY <3>1 DEF Content
    <3> QED
      BY <3>2 DEF Fifo!Next, Fifo!Clear
  <2>4. CASE UNCHANGED ringVars
    BY <2>4 DEF ringVars, Content, RingSize
  <2> QED
    BY <2>1, <2>2, <2>3, <2>4 DEF RingNext
<1> QED
  BY <1>1, <1>2, RingInvariant, PTL DEF RingSpec, IsFifo, Fifo!Spec

=============================================================================
