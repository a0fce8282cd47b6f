-------------------------- MODULE RelayChannel_proofs --------------------------
(* zroxy is an ordered channel to each TLS side if the peers wait for both      *)
(* handshakes before they talk and no socket is ever full: Relay implements     *)
(* Channel.                                                                     *)
EXTENDS RelayCalm_proofs, NaturalsInduction, WellFoundedInduction

(* The data of a sequence. *)

\* A set with 0 and every number's successor has all numbers.
LEMMA AllNumbers ==
    ASSUME NEW S, 0 \in S, \A n \in Nat : n \in S => n + 1 \in S
    PROVE  Nat \subseteq S
  <1>. SUFFICES ASSUME NEW y \in Nat, y \notin S
                PROVE  FALSE
    OBVIOUS
  <1>. DEFINE T == {n \in Nat : n \notin S}
  <1>1. PICK x \in T : \A z \in T : ~(<<z, x>> \in OpToRel(<, Nat))
    <2>1. T \subseteq Nat /\ T # {}
      OBVIOUS
    <2>. HIDE DEF T
    <2>. QED BY <2>1, NatLessThanWellFounded, WFMin, Zenon
  <1>2. x \in Nat /\ x \notin S
    BY <1>1
  <1>3. x # 0 /\ x - 1 \in Nat /\ x - 1 < x /\ (x - 1) + 1 = x
    BY <1>2
  <1>4. x - 1 \in T
    BY <1>2, <1>3
  <1>5. <<x - 1, x>> \in OpToRel(<, Nat)
    <2>. DEFINE p == <<x - 1, x>>
    <2>1. p \in Nat \X Nat /\ p[1] = x - 1 /\ p[2] = x
      BY <1>2, <1>3
    <2>2. p[1] < p[2]
      BY <1>3, <2>1
    <2>. HIDE DEF p
    <2>3. p \in OpToRel(<, Nat)
      BY <2>1, <2>2, Zenon DEF OpToRel
    <2>. QED BY <2>3 DEF p
  <1>. QED BY <1>1, <1>4, <1>5

\* The data among the first n of q is 1 to c.
UpTo(q, n, c) == \A x \in Int : IsData(x) => (x \in Seen({}, q, n + 1) <=> x <= c)

\* There is one such c.
LEMMA UpToOnce ==
    ASSUME NEW q, NEW n, NEW c \in Nat, NEW d \in Nat, UpTo(q, n, c), UpTo(q, n, d)
    PROVE  c = d
  <1>1. ASSUME NEW u \in Nat, NEW v \in Nat, UpTo(q, n, u), UpTo(q, n, v)
        PROVE  ~(u < v)
    <2>1. v = 0 \/ IsData(v)
      BY DEF IsData
    <2>. QED BY <1>1, <2>1 DEF UpTo
  <1>2. ~(c < d) /\ ~(d < c)
    BY <1>1
  <1>. QED BY <1>2

\* What is seen before the next place.
LEMMA SeenNext ==
    ASSUME NEW q, NEW n \in Nat
    PROVE  /\ Seen({}, q, 0 + 1) = {}
           /\ Seen({}, q, (n + 1) + 1) = Seen({}, q, n + 1) \cup {q[n + 1]}
  <1>1. 1..((n + 1) + 1) - 1 = (1..(n + 1) - 1) \cup {n + 1}
    OBVIOUS
  <1>2. 1..(0 + 1) - 1 = {}
    OBVIOUS
  <1>. QED BY <1>1, <1>2 DEF Seen

\* A sequence of tokens and flights and nothing else, in which tokens follow their
\* predecessors, and come once.
InSequence(q) ==
    /\ q \in Seq(Int) /\ Follows({}, q) /\ Fresh({}, q)
    /\ \A i \in DOMAIN q : q[i] \in {Hello, Fin} <=> ~IsData(q[i])

\* The next element is the next token, or no data.
LEMMA UpToNext ==
    ASSUME NEW q, InSequence(q), NEW n \in Nat, n + 1 <= Len(q), NEW c \in Nat,
           UpTo(q, n, c)
    PROVE  IF IsData(q[n + 1]) THEN q[n + 1] = c + 1 /\ UpTo(q, n + 1, c + 1)
                               ELSE UpTo(q, n + 1, c)
  <1>. DEFINE x == q[n + 1]
  <1>1. n + 1 \in DOMAIN q /\ x \in Int
    BY DEF InSequence
  <1>2. /\ x > 1 => x - 1 \in Seen({}, q, n + 1)
        /\ IsData(x) => x \notin Seen({}, q, n + 1)
    BY <1>1 DEF InSequence, Follows, Fresh
  <1>3. Seen({}, q, (n + 1) + 1) = Seen({}, q, n + 1) \cup {x}
    BY SeenNext
  <1>. HIDE DEF x
  <1>4. CASE IsData(x)
    <2>1. ~(x <= c)
      BY <1>1, <1>2, <1>4 DEF UpTo
    <2>2. x = 1 \/ x - 1 <= c
      <3>1. CASE x > 1
        <4>1. x - 1 \in Int /\ IsData(x - 1)
          BY <1>1, <3>1 DEF IsData
        <4>. QED BY <1>2, <3>1, <4>1 DEF UpTo
      <3>2. CASE ~(x > 1)
        BY <1>1, <1>4, <3>2 DEF IsData
      <3>. QED BY <3>1, <3>2
    <2>3. x = c + 1
      BY <1>1, <2>1, <2>2
    <2>4. UpTo(q, n + 1, c + 1)
      <3>1. ASSUME NEW y \in Int, IsData(y)
            PROVE  y \in Seen({}, q, (n + 1) + 1) <=> y <= c + 1
        <4>1. y <= c + 1 <=> y <= c \/ y = c + 1
          OBVIOUS
        <4>. QED BY <1>3, <2>3, <3>1, <4>1 DEF UpTo
      <3>. QED BY <3>1 DEF UpTo
    <2>. QED BY <1>4, <2>3, <2>4 DEF x
  <1>5. CASE ~IsData(x)
    <2>1. UpTo(q, n + 1, c)
      BY <1>3, <1>5 DEF UpTo
    <2>. QED BY <1>5, <2>1 DEF x
  <1>. QED BY <1>4, <1>5

\* The number of data among the first n of q.
Count(q, n) == CHOOSE c \in Nat : UpTo(q, n, c)

\* It is a number for every n.
LEMMA CountIs ==
    ASSUME NEW q, InSequence(q), NEW n \in 0..Len(q)
    PROVE  Count(q, n) \in Nat /\ UpTo(q, n, Count(q, n))
  <1>. DEFINE S == {k \in Nat : k <= Len(q) => \E c \in Nat : UpTo(q, k, c)}
  <1>1. 0 \in S
    <2>1. UpTo(q, 0, 0)
      BY SeenNext DEF UpTo, IsData
    <2>. QED BY <2>1
  <1>2. ASSUME NEW k \in Nat, k \in S
        PROVE  k + 1 \in S
    <2>1. CASE k + 1 <= Len(q)
      <3>1. Len(q) \in Nat
        BY DEF InSequence
      <3>2. k <= Len(q)
        BY <2>1, <3>1
      <3>3. PICK c \in Nat : UpTo(q, k, c)
        BY <1>2, <3>2
      <3>4. \E d \in Nat : UpTo(q, k + 1, d)
        <4>1. c + 1 \in Nat
          OBVIOUS
        <4>. QED BY <2>1, <3>3, <4>1, UpToNext
      <3>. QED BY <3>4
    <2>2. CASE ~(k + 1 <= Len(q))
      BY <2>2
    <2>. QED BY <2>1, <2>2
  <1>3. n \in S
    <2>. HIDE DEF S
    <2>1. Nat \subseteq S
      BY <1>1, <1>2, AllNumbers
    <2>2. n \in Nat
      BY DEF InSequence
    <2>. QED BY <2>1, <2>2
  <1>4. \E c \in Nat : UpTo(q, n, c)
    BY <1>3
  <1>. QED BY <1>4 DEF Count

\* It grows with the data.
LEMMA CountNext ==
    ASSUME NEW q, InSequence(q), NEW n \in Nat, n + 1 <= Len(q)
    PROVE  /\ Count(q, n) \in Nat /\ Count(q, n + 1) \in Nat
           /\ IF IsData(q[n + 1])
              THEN q[n + 1] = Count(q, n) + 1 /\ Count(q, n + 1) = Count(q, n) + 1
              ELSE Count(q, n + 1) = Count(q, n)
  <1>0. n \in 0..Len(q) /\ n + 1 \in 0..Len(q)
    BY DEF InSequence
  <1>1. /\ Count(q, n) \in Nat /\ UpTo(q, n, Count(q, n))
        /\ Count(q, n + 1) \in Nat /\ UpTo(q, n + 1, Count(q, n + 1))
    BY <1>0, CountIs
  <1>2. IF IsData(q[n + 1])
        THEN q[n + 1] = Count(q, n) + 1 /\ UpTo(q, n + 1, Count(q, n) + 1)
        ELSE UpTo(q, n + 1, Count(q, n))
    BY <1>1, UpToNext
  <1>3. Count(q, n) + 1 \in Nat
    BY <1>1
  <1>. QED BY <1>1, <1>2, <1>3, UpToOnce

\* The numbers from 1 to c.
Numbers(c) == [i \in 1..c |-> i]

\* One more number.
LEMMA NumbersNext ==
    ASSUME NEW c \in Nat
    PROVE  Append(Numbers(c), c + 1) = Numbers(c + 1)
  <1>1. Numbers(c) \in Seq(Int) /\ Len(Numbers(c)) = c
    BY DEF Numbers
  <1>2. /\ Append(Numbers(c), c + 1) \in Seq(Int)
        /\ Len(Append(Numbers(c), c + 1)) = c + 1
        /\ \A i \in 1..c : Append(Numbers(c), c + 1)[i] = Numbers(c)[i]
        /\ Append(Numbers(c), c + 1)[c + 1] = c + 1
    BY <1>1, AppendProperties
  <1>3. Numbers(c + 1) \in Seq(Int) /\ Len(Numbers(c + 1)) = c + 1
    BY DEF Numbers
  <1>4. ASSUME NEW i \in 1..c + 1
        PROVE  Append(Numbers(c), c + 1)[i] = Numbers(c + 1)[i]
    <2>1. Numbers(c + 1)[i] = i
      BY DEF Numbers
    <2>2. CASE i \in 1..c
      <3>1. Numbers(c)[i] = i
        BY <2>2 DEF Numbers
      <3>2. Append(Numbers(c), c + 1)[i] = Numbers(c)[i]
        BY <1>2, <2>2
      <3>. QED BY <2>1, <3>1, <3>2
    <2>3. CASE i = c + 1
      BY <1>2, <2>1, <2>3
    <2>4. i \in 1..c \/ i = c + 1
      OBVIOUS
    <2>. QED BY <2>2, <2>3, <2>4, Zenon
  <1>. QED BY <1>2, <1>3, <1>4, SeqEqual

\* PayloadUpTo is the function its equation describes, for a sequence in order.
LEMMA PayloadStep ==
    ASSUME NEW q, InSequence(q)
    PROVE  PayloadUpTo(q) =
               [n \in 0..Len(q) |-> IF n = 0 THEN << >>
                                    ELSE IF q[n] \in {Hello, Fin} THEN PayloadUpTo(q)[n - 1]
                                    ELSE Append(PayloadUpTo(q)[n - 1], q[n])]
  <1>. DEFINE Eq(f) == f = [n \in 0..Len(q) |->
                               IF n = 0 THEN << >>
                               ELSE IF q[n] \in {Hello, Fin} THEN f[n - 1]
                               ELSE Append(f[n - 1], q[n])]
              W == [n \in 0..Len(q) |-> Numbers(Count(q, n))]
  <1>0. Len(q) \in Nat
    BY DEF InSequence
  <1>1. Numbers(Count(q, 0)) = << >>
    <2>1. UpTo(q, 0, 0)
      BY SeenNext DEF UpTo, IsData
    <2>2. Count(q, 0) \in Nat /\ UpTo(q, 0, Count(q, 0))
      BY <1>0, CountIs
    <2>3. Count(q, 0) = 0
      BY <2>1, <2>2, UpToOnce
    <2>. QED BY <2>3 DEF Numbers
  <1>2. ASSUME NEW n \in 0..Len(q), n # 0
        PROVE  Numbers(Count(q, n)) =
                   IF q[n] \in {Hello, Fin} THEN W[n - 1] ELSE Append(W[n - 1], q[n])
    <2>0. q[n] \in {Hello, Fin} <=> ~IsData(q[n])
      BY <1>0, <1>2 DEF InSequence
    <2>1. n - 1 \in Nat /\ (n - 1) + 1 = n /\ n <= Len(q) /\ n - 1 \in 0..Len(q)
      BY <1>0, <1>2
    <2>2. /\ Count(q, n - 1) \in Nat
          /\ IF IsData(q[n])
             THEN q[n] = Count(q, n - 1) + 1 /\ Count(q, n) = Count(q, n - 1) + 1
             ELSE Count(q, n) = Count(q, n - 1)
      <3>. DEFINE k == n - 1
      <3>1. k \in Nat /\ k + 1 = n /\ k + 1 <= Len(q)
        BY <2>1
      <3>. HIDE DEF k
      <3>2. /\ Count(q, k) \in Nat /\ Count(q, k + 1) \in Nat
            /\ IF IsData(q[k + 1])
               THEN q[k + 1] = Count(q, k) + 1 /\ Count(q, k + 1) = Count(q, k) + 1
               ELSE Count(q, k + 1) = Count(q, k)
        BY <3>1, CountNext
      <3>3. /\ Count(q, k) \in Nat
            /\ IF IsData(q[n])
               THEN q[n] = Count(q, k) + 1 /\ Count(q, n) = Count(q, k) + 1
               ELSE Count(q, n) = Count(q, k)
        BY <3>1, <3>2
      <3>. QED BY <3>3 DEF k
    <2>3. W[n - 1] = Numbers(Count(q, n - 1))
      BY <2>1
    <2>4. Append(Numbers(Count(q, n - 1)), Count(q, n - 1) + 1) =
              Numbers(Count(q, n - 1) + 1)
      BY <2>2, NumbersNext
    <2>. HIDE DEF W
    <2>. QED BY <2>0, <2>2, <2>3, <2>4
  <1>3. Eq(W)
    <2>. DEFINE V == [n \in 0..Len(q) |->
                         IF n = 0 THEN << >>
                         ELSE IF q[n] \in {Hello, Fin} THEN W[n - 1]
                         ELSE Append(W[n - 1], q[n])]
    <2>1. \A n \in 0..Len(q) : Numbers(Count(q, n)) =
                IF n = 0 THEN << >>
                ELSE IF q[n] \in {Hello, Fin} THEN W[n - 1]
                ELSE Append(W[n - 1], q[n])
      BY <1>1, <1>2
    <2>2. W = V
      BY <2>1
    <2>. QED BY <2>2
  <1>. HIDE DEF W
  <1>4. PayloadUpTo(q) = CHOOSE f : Eq(f)
    BY DEF PayloadUpTo
  <1>5. Eq(PayloadUpTo(q))
    <2>. HIDE DEF Eq
    <2>. QED BY <1>3, <1>4
  <1>. QED BY <1>5

\* The payload of a sequence in order is 1, 2, 3, ..., as far as it has them.
DataIs(q, c) ==
    /\ c \in Nat /\ Payload(q) = Numbers(c)
    /\ \A x \in Int : IsData(x) => (x \in Range(q) <=> x <= c)

LEMMA DataFacts ==
    ASSUME NEW q, InSequence(q)
    PROVE  DataIs(q, Count(q, Len(q)))
  <1>. DEFINE f == PayloadUpTo(q)
              S == {n \in Nat : n <= Len(q) => f[n] = Numbers(Count(q, n))}
  <1>1. /\ Len(q) \in Nat /\ DOMAIN q = 1..Len(q)
        /\ f[0] = << >>
        /\ \A n \in 0..Len(q) : n # 0 =>
               f[n] = IF q[n] \in {Hello, Fin} THEN f[n - 1]
                                               ELSE Append(f[n - 1], q[n])
    <2>1. Len(q) \in Nat /\ DOMAIN q = 1..Len(q) /\ 0 \in 0..Len(q)
      BY DEF InSequence
    <2>2. f = [n \in 0..Len(q) |->
                   IF n = 0 THEN << >>
                   ELSE IF q[n] \in {Hello, Fin} THEN f[n - 1]
                   ELSE Append(f[n - 1], q[n])]
      BY PayloadStep
    <2>. HIDE DEF f
    <2>3. \A n \in 0..Len(q) : f[n] =
              IF n = 0 THEN << >>
              ELSE IF q[n] \in {Hello, Fin} THEN f[n - 1]
              ELSE Append(f[n - 1], q[n])
      BY <2>2
    <2>. QED BY <2>1, <2>3
  <1>. HIDE DEF f
  <1>2. 0 \in S
    <2>1. UpTo(q, 0, 0)
      BY SeenNext DEF UpTo, IsData
    <2>2. Count(q, 0) \in Nat /\ UpTo(q, 0, Count(q, 0))
      BY <1>1, CountIs
    <2>3. Count(q, 0) = 0
      BY <2>1, <2>2, UpToOnce
    <2>4. Numbers(0) = << >>
      BY DEF Numbers
    <2>. QED BY <1>1, <2>3, <2>4
  <1>3. ASSUME NEW n \in Nat, n \in S
        PROVE  n + 1 \in S
    <2>1. CASE n + 1 <= Len(q)
      <3>1. n <= Len(q) /\ n + 1 \in 0..Len(q) /\ n + 1 # 0 /\ (n + 1) - 1 = n
        BY <1>1, <2>1
      <3>2. f[n] = Numbers(Count(q, n))
        BY <1>3, <3>1
      <3>3. f[n + 1] = IF IsData(q[n + 1]) THEN Append(f[n], q[n + 1]) ELSE f[n]
        <4>1. n + 1 \in DOMAIN q
          BY <1>1, <3>1
        <4>2. q[n + 1] \in {Hello, Fin} <=> ~IsData(q[n + 1])
          BY <4>1 DEF InSequence
        <4>. QED BY <1>1, <3>1, <4>2
      <3>4. /\ Count(q, n) \in Nat /\ Count(q, n + 1) \in Nat
            /\ IF IsData(q[n + 1])
               THEN q[n + 1] = Count(q, n) + 1 /\ Count(q, n + 1) = Count(q, n) + 1
               ELSE Count(q, n + 1) = Count(q, n)
        BY <2>1, CountNext
      <3>5. Append(Numbers(Count(q, n)), Count(q, n) + 1) = Numbers(Count(q, n) + 1)
        BY <3>4, NumbersNext
      <3>6. f[n + 1] = Numbers(Count(q, n + 1))
        BY <3>2, <3>3, <3>4, <3>5
      <3>. QED BY <3>6
    <2>2. CASE ~(n + 1 <= Len(q))
      BY <2>2
    <2>. QED BY <2>1, <2>2
  <1>4. f[Len(q)] = Numbers(Count(q, Len(q)))
    <2>1. Nat \subseteq S
      <3>. HIDE DEF S
      <3>. QED BY <1>2, <1>3, AllNumbers
    <2>. QED BY <1>1, <2>1
  <1>5. Payload(q) = Numbers(Count(q, Len(q)))
    BY <1>4 DEF Payload, f
  <1>6. Count(q, Len(q)) \in Nat /\ UpTo(q, Len(q), Count(q, Len(q)))
    BY <1>1, CountIs
  <1>7. Seen({}, q, Len(q) + 1) = Range(q)
    <2>1. 1..(Len(q) + 1) - 1 = 1..Len(q)
      BY <1>1
    <2>. QED BY <1>1, <2>1 DEF Seen, Range
  <1>. QED BY <1>5, <1>6, <1>7 DEF DataIs, UpTo

-----------------------------------------------------------------------------
(* The refinement. *)

\* What was sent to a side is in order, and data is only what was sent.
LEMMA SentInOrder ==
    ASSUME RelayInv, CalmInv, NEW s \in Sides, kind[s] # "plain"
    PROVE  /\ InSequence(out[s]) /\ sent[Other(s)] \in Nat
           /\ \A x \in Range(out[s]) : IsData(x) => x <= sent[Other(s)]
  <1>. DEFINE o == Other(s)
  <1>1. /\ out[s] \in Seq(Int) /\ inbox[o] \in Seq(Int) /\ sent[o] \in Nat
        /\ o \in Sides
    BY PartsTyped DEF RelayInv
  <1>2. FlowOK(kind[s], FlightsTo(s), conn[s].hs, out[s], conn[s].writing,
               conn[s].enc, conn[o].plain, TakenFrom(o))
    BY DEF RelayInv, FlowInv
  <1>3. TakenFrom(o) <= sent[o] /\ TakenFrom(o) \in Nat
    <2>1. PICK f \in Starts : InboxIs(inbox[o], f, sent[o])
      BY <1>1, SocketStarts DEF RelayInv, HandshakeInv
    <2>2. Len(inbox[o]) - Flights(inbox[o]) \in 0..sent[o]
      BY <1>1, <2>1, InboxFlights
    <2>. QED BY <1>1, <2>2 DEF TakenFrom
  <1>4. /\ Follows({}, out[s])
        /\ Range(out[s]) \subseteq {Zero, Hello, Fin, Junk} \cup 1..TakenFrom(o)
    BY <1>2, FlowParts DEF InOrder, Holding
  <1>5. Fresh({}, out[s]) /\ Junk \notin Range(out[s])
    BY DEF CalmInv
  <1>6. \A i \in DOMAIN out[s] : out[s][i] \in {Hello, Fin} <=> ~IsData(out[s][i])
    <2>1. Introduced(FlightsTo(s), {}, out[s])
      BY <1>2 DEF FlowOK
    <2>2. \A i \in DOMAIN out[s] : out[s][i] # Junk
      BY <1>5 DEF Range
    <2>3. \A i \in DOMAIN out[s] : out[s][i] \in FlightsTo(s) \/ IsData(out[s][i])
      BY <2>1, <2>2 DEF Introduced
    <2>. QED BY <2>3 DEF FlightsTo, IsData, Hello, Fin
  <1>. HIDE DEF o
  <1>7. \A x \in Range(out[s]) : IsData(x) => x <= sent[o]
    BY <1>1, <1>3, <1>4 DEF IsData, Zero, Hello, Fin, Junk
  <1>. QED BY <1>1, <1>4, <1>5, <1>6, <1>7 DEF InSequence, o

\* What the peer at a TLS side decrypts: 1, 2, 3, ..., no more than was sent, and
\* nothing else.
GotSent(s) ==
    LET d == Payload(out[s])
    IN /\ d \in Seq(Nat) /\ d = [i \in 1..Len(d) |-> i]
       /\ Len(d) <= sent[Other(s)]
       /\ DataIs(out[s], Len(d))

\* So it is for a side.
LEMMA DataSent ==
    ASSUME RelayInv, CalmInv, NEW s \in Sides, kind[s] # "plain"
    PROVE  GotSent(s)
  <1>. DEFINE q == out[s]  c == Count(q, Len(q))
  <1>1. /\ InSequence(q) /\ sent[Other(s)] \in Nat
        /\ \A x \in Range(q) : IsData(x) => x <= sent[Other(s)]
    BY SentInOrder
  <1>2. DataIs(q, c)
    BY <1>1, DataFacts
  <1>. HIDE DEF c
  <1>3. c \in Nat /\ Payload(q) = Numbers(c)
    BY <1>2 DEF DataIs
  <1>4. Numbers(c) \in Seq(Nat) /\ Len(Numbers(c)) = c
    BY <1>3 DEF Numbers
  <1>5. c <= sent[Other(s)]
    <2>. DEFINE n == sent[Other(s)]
    <2>0. n \in Nat
      BY <1>1
    <2>1. CASE c = 0
      <3>. HIDE DEF n
      <3>1. c <= n
        BY <2>0, <2>1
      <3>. QED BY <3>1 DEF n
    <2>2. CASE c # 0
      <3>1. IsData(c) /\ c \in Int /\ c <= c
        BY <1>3, <2>2 DEF IsData
      <3>. QED BY <1>1, <1>2, <3>1 DEF DataIs
    <2>. QED BY <2>1, <2>2
  <1>. QED BY <1>2, <1>3, <1>4, <1>5 DEF Numbers, GotSent

\* And for both.
LEMMA BothSent ==
    RelayInv /\ CalmInv => \A s \in Sides : kind[s] # "plain" => GotSent(s)
  BY DataSent

\* An event only adds to what was sent.
LEMMA SentMore ==
    ASSUME RelayInv, NEW z \in Sides, HandleEvents(z), NEW s \in Sides
    PROVE  Range(out[s]) \subseteq Range(out'[s])
  <1>. DEFINE h == Handled(z)
  <1>1. out[s] \in Seq(Int)
    BY PartsTyped DEF RelayInv
  <1>2. h.bytes[s] \in Seq(Int)
    BY ConstantsAssumption, HandledKeeps
  <1>3. out' = [y \in Sides |-> out[y] \o h.bytes[y]]
    BY DEF HandleEvents
  <1>. HIDE DEF h
  <1>4. out'[s] = out[s] \o h.bytes[s]
    BY <1>3
  <1>. QED BY <1>1, <1>2, <1>4, RangeCat

\* What Channel's got stands for.
Got == [s \in Sides |-> IF kind[s] = "plain" THEN << >> ELSE Payload(out[s])]

\* Initially nothing was sent or got.
LEMMA InitChannel == Init => OrderedChannel!Init
  <1>. SUFFICES ASSUME Init
                PROVE  Got = [s \in Sides |-> << >>]
    BY DEF Init, OrderedChannel!Init, Got
  <1>1. ASSUME NEW s \in Sides, kind[s] # "plain"
        PROVE  Payload(out[s]) = << >>
    <2>1. RelayInv /\ CalmInv /\ sent[Other(s)] = 0
      BY InitInv, InitCalm DEF Init, Other, Sides
    <2>. DEFINE d == Payload(out[s])
    <2>2. d \in Seq(Nat) /\ Len(d) <= 0
      BY <1>1, <2>1, DataSent DEF GotSent
    <2>. HIDE DEF d
    <2>3. d = << >>
      BY <2>2
    <2>. QED BY <2>3 DEF d
  <1>. QED BY <1>1 DEF Got

\* Every step sends, forwards, or neither.
LEMMA NextChannel ==
    ASSUME RelayInv, CalmInv, RelayInv', CalmInv', [Next]_vars
    PROVE  [OrderedChannel!Next]_<<sent, Got>>
  <1>1. kind' = kind
    BY DEF Next, vars, ClientShakes, BackendShakes, Shakes, PeerSends, Drain, HangUp,
           EpollWait, HandleEvents, HandleClose, zroxy
  <1>2. (\A s \in Sides : kind[s] # "plain" => GotSent(s))'
    BY BothSent, PTL
  <1>3. CASE UNCHANGED <<sent, out>>
    BY <1>1, <1>3 DEF Got
  <1>4. CASE \E s \in Sides : PeerSends(s)
    <2>1. PICK s \in Sides : PeerSends(s)
      BY <1>4
    <2>2. sent' = [sent EXCEPT ![s] = @ + 1] /\ UNCHANGED out
      BY <2>1 DEF PeerSends, zroxy
    <2>3. UNCHANGED Got
      BY <1>1, <2>2 DEF Got
    <2>4. OrderedChannel!Send(s)
      BY <2>2, <2>3 DEF OrderedChannel!Send, Got
    <2>. QED BY <2>4 DEF OrderedChannel!Next
  <1>5. CASE \E z \in Sides : HandleEvents(z)
    <2>1. PICK z \in Sides : HandleEvents(z)
      BY <1>5
    <2>2. sent' = sent
      BY <2>1 DEF HandleEvents
    <2>3. ASSUME NEW s \in Sides
          PROVE  LET d == Got[s]
                     e == Got'[s]
                 IN /\ e \in Seq(Nat) /\ Len(d) <= Len(e)
                    /\ e = [i \in 1..Len(e) |-> i] /\ Len(e) <= sent[Other(s)]
      <3>1. CASE kind[s] = "plain"
        <4>1. Got[s] = << >> /\ Got'[s] = << >>
          BY <1>1, <3>1 DEF Got
        <4>2. /\ << >> \in Seq(Nat) /\ Len(<< >>) = 0 /\ 0 <= 0
              /\ << >> = [i \in 1..0 |-> i]
          OBVIOUS
        <4>3. sent[Other(s)] \in Nat
          BY DEF RelayInv, TypeOK, Other, Sides
        <4>. QED BY <4>1, <4>2, <4>3
      <3>2. CASE kind[s] # "plain"
        <4>. DEFINE d == Payload(out[s])  e == Payload(out'[s])
        <4>0. Got[s] = d /\ Got'[s] = e
          BY <1>1, <3>2 DEF Got
        <4>1. d \in Seq(Nat) /\ DataIs(out[s], Len(d))
          BY <3>2, DataSent DEF GotSent
        <4>2. /\ e \in Seq(Nat) /\ e = [i \in 1..Len(e) |-> i]
              /\ Len(e) <= sent'[Other(s)] /\ DataIs(out'[s], Len(e))
          BY <1>1, <1>2, <3>2 DEF GotSent
        <4>3. Range(out[s]) \subseteq Range(out'[s])
          BY <2>1, SentMore
        <4>. HIDE DEF d, e
        <4>4. Len(d) <= Len(e)
          <5>1. Len(d) \in Nat /\ Len(e) \in Nat
            BY <4>1, <4>2
          <5>2. CASE Len(d) = 0
            BY <5>1, <5>2
          <5>3. CASE Len(d) # 0
            <6>1. IsData(Len(d)) /\ Len(d) \in Int /\ Len(d) <= Len(d)
              BY <5>1, <5>3 DEF IsData
            <6>2. Len(d) \in Range(out[s])
              BY <4>1, <6>1 DEF DataIs
            <6>. QED BY <4>2, <4>3, <6>1, <6>2 DEF DataIs
          <5>. QED BY <5>2, <5>3
        <4>. QED BY <2>2, <4>0, <4>2, <4>4
      <3>. QED BY <3>1, <3>2
    <2>4. \A s \in Sides : Other(s) \in Sides /\ Other(s) # s
      BY DEF Other, Sides
    <2>5. DOMAIN Got' = Sides /\ Got' = [s \in Sides |-> Got'[s]]
      BY DEF Got
    <2>6. /\ Got' \in [Sides -> Seq(Nat)]
          /\ \A s \in Sides :
                 /\ Len(Got[s]) <= Len(Got'[s])
                 /\ Got'[s] = [i \in 1..Len(Got'[s]) |-> i]
                 /\ \E r \in Sides : r # s /\ Len(Got'[s]) <= sent[r]
      BY <2>3, <2>4, <2>5
    <2>7. OrderedChannel!Forward
      BY <2>2, <2>6 DEF OrderedChannel!Forward, Got
    <2>. QED BY <2>7 DEF OrderedChannel!Next
  <1>6. UNCHANGED <<sent, out>> \/ (\E s \in Sides : PeerSends(s))
        \/ (\E s \in Sides : HandleEvents(s))
    BY DEF Next, vars, ClientShakes, BackendShakes, Shakes, Drain, HangUp, EpollWait,
           HandleClose, zroxy
  <1>. QED BY <1>3, <1>4, <1>5, <1>6

\* IsChannel: what the peer at a TLS side decrypts is a prefix of what the other one
\* sent, with no cleared and no foreign byte in it; a step of the callbacks forwards
\* some of it, and nothing else does.
THEOREM RelayIsChannel == ~Early => (Spec /\ []NeverFull => IsChannel)
  <1>. SUFFICES ASSUME ~Early
                PROVE  Spec /\ []NeverFull => IsChannel
    OBVIOUS
  <1>1. RelayInv /\ CalmInv /\ RelayInv' /\ CalmInv' /\ [Next]_vars
            => [OrderedChannel!Next]_<<sent, Got>>
    BY NextChannel
  <1>. QED BY <1>1, InitChannel, RelayInvariant, CalmInvariant, PTL
           DEF Spec, IsChannel, OrderedChannel!Spec, Got

=============================================================================
