----------------------------- MODULE Relay_proofs -----------------------------
(* Proofs about Relay, for every pair of kinds, every number of tokens, every   *)
(* size of a read and of a send buffer, and peers that talk and hang up at any  *)
(* moment.                                                                      *)
EXTENDS Relay, SequenceTheorems, TLAPS

(* Facts about sequences. *)

\* C is A and then B: lengths and elements.
Joined(A, B, C) ==
    /\ C \in Seq(Int) /\ Len(C) = Len(A) + Len(B)
    /\ Len(A) \in Nat /\ Len(B) \in Nat
    /\ DOMAIN A = 1..Len(A) /\ DOMAIN B = 1..Len(B)
    /\ DOMAIN C = 1..(Len(A) + Len(B))
    /\ \A i \in DOMAIN A : C[i] = A[i]
    /\ \A i \in DOMAIN B : C[Len(A) + i] = B[i]
    /\ \A j \in DOMAIN C :
           j \in DOMAIN A \/ \E i \in DOMAIN B : j = Len(A) + i

\* Two sequences, one behind the other.
LEMMA CatFacts ==
    ASSUME NEW A \in Seq(Int), NEW B \in Seq(Int)
    PROVE  Joined(A, B, A \o B)
  <1>1. /\ A \o B \in Seq(Int) /\ Len(A \o B) = Len(A) + Len(B)
        /\ Len(A) \in Nat /\ Len(B) \in Nat
        /\ DOMAIN A = 1..Len(A) /\ DOMAIN B = 1..Len(B)
        /\ DOMAIN (A \o B) = 1..(Len(A) + Len(B))
        /\ \A i \in DOMAIN A : (A \o B)[i] = A[i]
        /\ \A i \in DOMAIN B : (A \o B)[Len(A) + i] = B[i]
    OBVIOUS
  <1>2. ASSUME NEW j \in 1..(Len(A) + Len(B)), j \notin 1..Len(A)
        PROVE  j - Len(A) \in 1..Len(B) /\ j = Len(A) + (j - Len(A))
    BY <1>1, <1>2
  <1>. QED BY <1>1, <1>2 DEF Joined

\* The tokens of both.
LEMMA RangeCat ==
    ASSUME NEW A \in Seq(Int), NEW B \in Seq(Int)
    PROVE  Range(A \o B) = Range(A) \cup Range(B)
  BY RangeConcatenation

\* What went before an element of C, if C is A and then B.
SeenJoined(A, B, C, S) ==
    /\ \A i \in DOMAIN A : Seen(S, C, i) = Seen(S, A, i)
    /\ \A i \in DOMAIN B : Seen(S, C, Len(A) + i) = Seen(S \cup Range(A), B, i)

\* What was seen before a place in the second was seen in the first or before it.
LEMMA SeenCat ==
    ASSUME NEW A \in Seq(Int), NEW B \in Seq(Int), NEW S
    PROVE  SeenJoined(A, B, A \o B, S)
  <1>. DEFINE C == A \o B
  <1>0. Joined(A, B, C)
    BY CatFacts
  <1>. HIDE DEF C
  <1>1. /\ Len(A) \in Nat /\ Len(B) \in Nat
        /\ DOMAIN A = 1..Len(A) /\ DOMAIN B = 1..Len(B)
        /\ DOMAIN C = 1..(Len(A) + Len(B))
        /\ \A i \in DOMAIN A : C[i] = A[i]
        /\ \A i \in DOMAIN B : C[Len(A) + i] = B[i]
        /\ \A j \in DOMAIN C :
               j \in DOMAIN A \/ \E i \in DOMAIN B : j = Len(A) + i
    BY <1>0 DEF Joined
  <1>2. ASSUME NEW i \in DOMAIN A
        PROVE  Seen(S, C, i) = Seen(S, A, i)
    <2>1. \A j \in 1..i - 1 : C[j] = A[j]
      BY <1>1
    <2>. QED BY <2>1 DEF Seen
  <1>3. ASSUME NEW i \in DOMAIN B
        PROVE  Seen(S, C, Len(A) + i) = Seen(S \cup Range(A), B, i)
    <2>. DEFINE m == Len(A) + i
    <2>1. ASSUME NEW j \in 1..m - 1
          PROVE  C[j] \in Range(A) \cup {B[l] : l \in 1..i - 1}
      <3>1. CASE j \in DOMAIN A
        BY <1>1, <3>1 DEF Range
      <3>2. CASE j \notin DOMAIN A
        <4>1. PICK l \in DOMAIN B : j = Len(A) + l
          BY <1>1, <3>2
        <4>2. l \in 1..i - 1 /\ C[j] = B[l]
          BY <1>1, <4>1
        <4>. QED BY <4>2
      <3>. QED BY <3>1, <3>2
    <2>2. \A l \in DOMAIN A : l \in 1..m - 1 /\ C[l] = A[l]
      BY <1>1
    <2>3. \A l \in 1..i - 1 : l \in DOMAIN B /\ Len(A) + l \in 1..m - 1
      BY <1>1
    <2>4. \A l \in 1..i - 1 : C[Len(A) + l] = B[l]
      BY <1>1, <2>3
    <2>. HIDE DEF m
    <2>5. Range(A) \subseteq {C[j] : j \in 1..m - 1}
      BY <2>2 DEF Range
    <2>6. {B[l] : l \in 1..i - 1} \subseteq {C[j] : j \in 1..m - 1}
      BY <2>3, <2>4
    <2>7. {C[j] : j \in 1..m - 1} = Range(A) \cup {B[l] : l \in 1..i - 1}
      BY <2>1, <2>5, <2>6
    <2>. QED BY <2>7 DEF Seen, m
  <1>. QED BY <1>2, <1>3 DEF SeenJoined, C

\* Whether tokens follow one another is decided part by part.
LEMMA FollowsCat ==
    ASSUME NEW A \in Seq(Int), NEW B \in Seq(Int), NEW S
    PROVE  Follows(S, A \o B) <=> Follows(S, A) /\ Follows(S \cup Range(A), B)
  <1>. DEFINE C == A \o B
  <1>0. Joined(A, B, C)
    BY CatFacts
  <1>. HIDE DEF C
  <1>1. /\ Len(A) \in Nat /\ Len(B) \in Nat
        /\ DOMAIN A = 1..Len(A) /\ DOMAIN B = 1..Len(B)
        /\ DOMAIN C = 1..(Len(A) + Len(B))
        /\ \A i \in DOMAIN A : C[i] = A[i]
        /\ \A i \in DOMAIN B : C[Len(A) + i] = B[i]
        /\ \A j \in DOMAIN C :
               j \in DOMAIN A \/ \E i \in DOMAIN B : j = Len(A) + i
    BY <1>0 DEF Joined
  <1>2. /\ \A i \in DOMAIN A : Seen(S, C, i) = Seen(S, A, i)
        /\ \A i \in DOMAIN B : Seen(S, C, Len(A) + i) = Seen(S \cup Range(A), B, i)
    <2>1. SeenJoined(A, B, C, S)
      BY SeenCat DEF C
    <2>. QED BY <2>1 DEF SeenJoined
  <1>3. \A i \in DOMAIN A : i \in DOMAIN C
    BY <1>1
  <1>4. \A i \in DOMAIN B : Len(A) + i \in DOMAIN C
    BY <1>1
  <1>5. Follows(S, C) => Follows(S, A)
    BY <1>1, <1>2, <1>3 DEF Follows
  <1>6. Follows(S, C) => Follows(S \cup Range(A), B)
    BY <1>1, <1>2, <1>4 DEF Follows
  <1>7. Follows(S, A) /\ Follows(S \cup Range(A), B) => Follows(S, C)
    BY <1>1, <1>2 DEF Follows
  <1>. QED BY <1>5, <1>6, <1>7 DEF C

\* No token comes twice: neither within the parts nor in both.
LEMMA FreshCat ==
    ASSUME NEW A \in Seq(Int), NEW B \in Seq(Int), NEW S
    PROVE  Fresh(S, A \o B) <=> Fresh(S, A) /\ Fresh(S \cup Range(A), B)
  <1>. DEFINE C == A \o B
  <1>0. Joined(A, B, C)
    BY CatFacts
  <1>. HIDE DEF C
  <1>1. /\ Len(A) \in Nat /\ Len(B) \in Nat
        /\ DOMAIN A = 1..Len(A) /\ DOMAIN B = 1..Len(B)
        /\ DOMAIN C = 1..(Len(A) + Len(B))
        /\ \A i \in DOMAIN A : C[i] = A[i]
        /\ \A i \in DOMAIN B : C[Len(A) + i] = B[i]
        /\ \A j \in DOMAIN C :
               j \in DOMAIN A \/ \E i \in DOMAIN B : j = Len(A) + i
    BY <1>0 DEF Joined
  <1>2. /\ \A i \in DOMAIN A : Seen(S, C, i) = Seen(S, A, i)
        /\ \A i \in DOMAIN B : Seen(S, C, Len(A) + i) = Seen(S \cup Range(A), B, i)
    <2>1. SeenJoined(A, B, C, S)
      BY SeenCat DEF C
    <2>. QED BY <2>1 DEF SeenJoined
  <1>3. \A i \in DOMAIN A : i \in DOMAIN C
    BY <1>1
  <1>4. \A i \in DOMAIN B : Len(A) + i \in DOMAIN C
    BY <1>1
  <1>5. Fresh(S, C) => Fresh(S, A)
    BY <1>1, <1>2, <1>3 DEF Fresh
  <1>6. Fresh(S, C) => Fresh(S \cup Range(A), B)
    BY <1>1, <1>2, <1>4 DEF Fresh
  <1>7. Fresh(S, A) /\ Fresh(S \cup Range(A), B) => Fresh(S, C)
    BY <1>1, <1>2 DEF Fresh
  <1>. QED BY <1>5, <1>6, <1>7 DEF C

\* The flights come in order in both parts.
LEMMA IntroducedCat ==
    ASSUME NEW A \in Seq(Int), NEW B \in Seq(Int), NEW S, NEW F
    PROVE  Introduced(F, S, A \o B)
               <=> Introduced(F, S, A) /\ Introduced(F, S \cup Range(A), B)
  <1>. DEFINE C == A \o B
  <1>0. Joined(A, B, C)
    BY CatFacts
  <1>. HIDE DEF C
  <1>1. /\ Len(A) \in Nat /\ Len(B) \in Nat
        /\ DOMAIN A = 1..Len(A) /\ DOMAIN B = 1..Len(B)
        /\ DOMAIN C = 1..(Len(A) + Len(B))
        /\ \A i \in DOMAIN A : C[i] = A[i]
        /\ \A i \in DOMAIN B : C[Len(A) + i] = B[i]
        /\ \A j \in DOMAIN C :
               j \in DOMAIN A \/ \E i \in DOMAIN B : j = Len(A) + i
    BY <1>0 DEF Joined
  <1>2. /\ \A i \in DOMAIN A : Seen(S, C, i) = Seen(S, A, i)
        /\ \A i \in DOMAIN B : Seen(S, C, Len(A) + i) = Seen(S \cup Range(A), B, i)
    <2>1. SeenJoined(A, B, C, S)
      BY SeenCat DEF C
    <2>. QED BY <2>1 DEF SeenJoined
  <1>3. \A i \in DOMAIN A : i \in DOMAIN C
    BY <1>1
  <1>4. \A i \in DOMAIN B : Len(A) + i \in DOMAIN C
    BY <1>1
  <1>5. Introduced(F, S, C) => Introduced(F, S, A)
    BY <1>1, <1>2, <1>3 DEF Introduced
  <1>6. Introduced(F, S, C) => Introduced(F, S \cup Range(A), B)
    BY <1>1, <1>2, <1>4 DEF Introduced
  <1>7. Introduced(F, S, A) /\ Introduced(F, S \cup Range(A), B) => Introduced(F, S, C)
    <2>. SUFFICES ASSUME Introduced(F, S, A), Introduced(F, S \cup Range(A), B),
                         NEW j \in DOMAIN C
                  PROVE  \/ C[j] = Junk
                         \/ /\ C[j] \in F /\ C[j] \notin Seen(S, C, j)
                            /\ C[j] = Fin => Hello \in Seen(S, C, j)
                         \/ IsData(C[j]) /\ F \subseteq Seen(S, C, j)
      BY DEF Introduced
    <2>1. CASE j \in DOMAIN A
      <3>1. C[j] = A[j] /\ Seen(S, C, j) = Seen(S, A, j)
        BY <1>1, <1>2, <2>1
      <3>. QED BY <2>1, <3>1 DEF Introduced
    <2>2. CASE j \notin DOMAIN A
      <3>1. PICK i \in DOMAIN B : j = Len(A) + i
        BY <1>1, <2>2
      <3>2. C[j] = B[i] /\ Seen(S, C, j) = Seen(S \cup Range(A), B, i)
        BY <1>1, <1>2, <3>1
      <3>. QED BY <3>2 DEF Introduced
    <2>. QED BY <2>1, <2>2
  <1>. QED BY <1>5, <1>6, <1>7 DEF C

\* More tokens before change nothing, as long as they are not in the way.
LEMMA FollowsMore ==
    ASSUME NEW S, NEW U, NEW q, Follows(S, q), S \subseteq U
    PROVE  Follows(U, q)
  BY DEF Follows, Seen

\* More that was seen before, if it brings no other data, changes nothing.
LEMMA FreshMore ==
    ASSUME NEW S, NEW U, NEW q, Fresh(S, q), \A x \in U : IsData(x) => x \in S
    PROVE  Fresh(U, q)
  BY DEF Fresh, Seen

\* Nor does it for the flights, if it brings no other flight.
LEMMA IntroducedMore ==
    ASSUME NEW F, NEW S, NEW U, NEW q, Introduced(F, S, q),
           S \subseteq U, U \cap F \subseteq S, Hello \in U => Hello \in S
    PROVE  Introduced(F, U, q)
  BY DEF Introduced, Seen

\* b is the first n elements of q and v the others.
Halves(q, n, b, v) ==
    /\ b \in Seq(Int) /\ v \in Seq(Int)
    /\ Len(b) = n /\ Len(v) = Len(q) - n
    /\ \A i \in 1..n : b[i] = q[i]
    /\ \A i \in 1..Len(q) - n : v[i] = q[n + i]
    /\ b \o v = q

\* A sequence is its first n elements and the others.
LEMMA Split ==
    ASSUME NEW q \in Seq(Int), NEW n \in 0..Len(q)
    PROVE  Halves(q, n, SubSeq(q, 1, n), SubSeq(q, n + 1, Len(q)))
  <1>1. /\ SubSeq(q, 1, n) \in Seq(Int) /\ SubSeq(q, n + 1, Len(q)) \in Seq(Int)
        /\ Len(SubSeq(q, 1, n)) = n /\ Len(SubSeq(q, n + 1, Len(q))) = Len(q) - n
        /\ \A i \in 1..n : SubSeq(q, 1, n)[i] = q[i]
        /\ \A i \in 1..Len(q) - n : SubSeq(q, n + 1, Len(q))[i] = q[n + i]
    <2>1. SubSeq(q, 1, n) \in Seq(Int) /\ Len(SubSeq(q, 1, n)) = n
      OBVIOUS
    <2>2. ASSUME NEW i \in 1..n
          PROVE  SubSeq(q, 1, n)[i] = q[i]
      OBVIOUS
    <2>3. SubSeq(q, n + 1, Len(q)) \in Seq(Int)
      OBVIOUS
    <2>4. Len(SubSeq(q, n + 1, Len(q))) = Len(q) - n
      OBVIOUS
    <2>5. ASSUME NEW i \in 1..Len(q) - n
          PROVE  SubSeq(q, n + 1, Len(q))[i] = q[n + i]
      OBVIOUS
    <2>. QED BY <2>1, <2>2, <2>3, <2>4, <2>5
  <1>2. SubSeq(q, 1, n) \o SubSeq(q, n + 1, Len(q)) = SubSeq(q, 1, Len(q))
    <2>1. 1 \in 1..Len(q) + 1 /\ n \in 1 - 1..Len(q) /\ Len(q) \in n..Len(q)
      OBVIOUS
    <2>. QED BY <2>1, ConcatAdjacentSubSeq
  <1>3. SubSeq(q, 1, Len(q)) = q
    BY SubSeqFull
  <1>. QED BY <1>1, <1>2, <1>3 DEF Halves

\* Nothing is on its way in an empty buffer.
LEMMA Nothing ==
    ASSUME NEW S, NEW F
    PROVE  /\ Range(<< >>) = {} /\ Follows(S, << >>) /\ Fresh(S, << >>)
           /\ Introduced(F, S, << >>)
  BY DEF Range, Follows, Fresh, Introduced

\* The tokens of a typed buffer.
LEMMA RangeTyped ==
    ASSUME NEW T, NEW q \in Seq(T)
    PROVE  Range(q) \subseteq T
  BY DEF Range

-----------------------------------------------------------------------------
(* The way to a side: what keeps FlowOK. *)

\* FlowOK in two parts: what the four buffers hold, and in what order.
Holding(k, hs, A, W, E, P, m) ==
    /\ A \subseteq {Zero, Hello, Fin, Junk} \cup 1..m
    /\ W \subseteq {Zero, Hello, Fin, Junk} \cup 1..m
    /\ E \subseteq 1..m /\ P \subseteq 0..m
    /\ 1..m \subseteq A \cup W \cup E \cup P
    /\ k # "plain" => /\ Zero \notin P
                      /\ hs # "done" => \A x \in A \cup W : ~IsData(x)

InOrder(k, F, a, w, e, p) ==
    /\ Follows({}, a) /\ Follows(Range(a), w)
    /\ Follows(Range(a) \cup Range(w), e)
    /\ Follows(Range(a) \cup Range(w) \cup Range(e), p)
    /\ k = "plain" => w = << >> /\ e = << >> /\ Fresh({}, a) /\ Fresh(Range(a), p)
    /\ k # "plain" => Introduced(F, {}, a) /\ Introduced(F, Range(a), w)

Buffers(a, w, e, p) ==
    a \in Seq(Int) /\ w \in Seq(Int) /\ e \in Seq(Int) /\ p \in Seq(Int)

\* A buffer is typed if its tokens are.
LEMMA SeqOver ==
    ASSUME NEW T \in SUBSET Int, NEW q
    PROVE  q \in Seq(T) <=> q \in Seq(Int) /\ Range(q) \subseteq T
  <1>1. q \in Seq(T) => q \in Seq(Int) /\ Range(q) \subseteq T
    BY SeqMonotonic, RangeTyped
  <1>2. q \in Seq(Int) /\ Range(q) \subseteq T => q \in Seq(T)
    BY SeqOfRange, SeqMonotonic
  <1>. QED BY <1>1, <1>2

\* A flow is what its buffers hold and the order of their tokens.
LEMMA FlowParts ==
    ASSUME NEW k, NEW F, NEW hs, NEW a, NEW w, NEW e, NEW p, NEW m
    PROVE  FlowOK(k, F, hs, a, w, e, p, m) <=>
               /\ m \in Nat /\ Buffers(a, w, e, p)
               /\ Holding(k, hs, Range(a), Range(w), Range(e), Range(p), m)
               /\ InOrder(k, F, a, w, e, p)
  <1>. DEFINE symbols == {Zero, Hello, Fin, Junk} \cup 1..m
  <1>1. symbols \subseteq Int /\ 1..m \subseteq Int /\ 0..m \subseteq Int
    BY DEF Zero, Hello, Fin, Junk
  <1>2. /\ a \in Seq(symbols) <=> a \in Seq(Int) /\ Range(a) \subseteq symbols
        /\ w \in Seq(symbols) <=> w \in Seq(Int) /\ Range(w) \subseteq symbols
        /\ e \in Seq(1..m) <=> e \in Seq(Int) /\ Range(e) \subseteq 1..m
        /\ p \in Seq(0..m) <=> p \in Seq(Int) /\ Range(p) \subseteq 0..m
    BY <1>1, SeqOver
  <1>. HIDE DEF symbols
  <1>. QED BY <1>2 DEF FlowOK, Holding, InOrder, Buffers, symbols

\* Reading appends the peer's next tokens to the other side's plain.
LEMMA FlowRead ==
    ASSUME NEW k, NEW F, NEW hs, NEW a, NEW w, NEW e, NEW p, NEW m,
           FlowOK(k, F, hs, a, w, e, p, m),
           NEW new \in Seq(Int), \A i \in DOMAIN new : new[i] = m + i
    PROVE  FlowOK(k, F, hs, a, w, e, p \o new, m + Len(new))
  <1>. DEFINE A == Range(a)  W == Range(w)  E == Range(e)  P == Range(p)
              N == Range(new)
              n == Len(new)
  <1>1. /\ m \in Nat /\ Buffers(a, w, e, p)
        /\ Holding(k, hs, A, W, E, P, m) /\ InOrder(k, F, a, w, e, p)
    BY FlowParts
  <1>2. n \in Nat /\ DOMAIN new = 1..n /\ p \o new \in Seq(Int)
    BY <1>1 DEF Buffers
  <1>m. m \in Nat /\ n \in Nat /\ DOMAIN new = 1..n /\ \A i \in 1..n : new[i] = m + i
    BY <1>1, <1>2
  <1>3. Range(p \o new) = P \cup N
    BY <1>1, RangeCat DEF Buffers
  <1>4. N = m + 1..m + n
    <2>1. N \subseteq m + 1..m + n
      BY <1>m DEF Range
    <2>2. ASSUME NEW x \in m + 1..m + n
          PROVE  x \in N
      <3>. HIDE DEF N, n
      <3>1. x - m \in 1..n
        BY <1>m
      <3>2. new[x - m] = x
        BY <1>m, <3>1
      <3>. QED BY <1>m, <3>1, <3>2 DEF Range, N
    <2>. QED BY <2>1, <2>2
  <1>5. Follows(A \cup W \cup E \cup P, new)
    <2>1. ASSUME NEW i \in DOMAIN new, new[i] > 1
          PROVE  new[i] - 1 \in Seen(A \cup W \cup E \cup P, new, i)
      <3>1. CASE i = 1
        <4>1. new[i] - 1 = m /\ m \in 1..m
          BY <1>1, <2>1, <3>1
        <4>. QED BY <1>1, <4>1 DEF Holding, Seen
      <3>2. CASE i # 1
        <4>1. i \in 1..n /\ i - 1 \in 1..n /\ i - 1 \in 1..i - 1
          BY <1>m, <3>2
        <4>2. new[i - 1] = new[i] - 1
          BY <1>m, <4>1
        <4>. QED BY <4>1, <4>2 DEF Seen
      <3>. QED BY <3>1, <3>2
    <2>. QED BY <2>1 DEF Follows
  <1>6. k = "plain" => Fresh(A \cup P, new)
    <2>1. ASSUME NEW i \in DOMAIN new
          PROVE  new[i] \notin Seen(A \cup P, new, i)
      <3>0. A \subseteq {0, -1, -2, -3} \cup 1..m /\ P \subseteq 0..m
        BY <1>1 DEF Holding, Zero, Hello, Fin, Junk
      <3>. HIDE DEF A, P, n
      <3>3. new[i] = m + i /\ i \in 1..n
        BY <1>m
      <3>4. new[i] > m /\ new[i] \in Nat
        BY <1>m, <3>3
      <3>1. new[i] \notin A \cup P
        <4>1. \A x \in A \cup P : x \in Int /\ x <= m
          BY <1>m, <3>0
        <4>. QED BY <1>m, <3>4, <4>1
      <3>2. \A j \in 1..i - 1 : new[i] # new[j]
        BY <1>m, <3>3
      <3>. QED BY <3>1, <3>2 DEF Seen
    <2>. QED BY <2>1 DEF Fresh
  <1>7. InOrder(k, F, a, w, e, p \o new)
    <2>1. Follows(A \cup W \cup E, p \o new)
      BY <1>1, <1>5, FollowsCat DEF InOrder, Buffers
    <2>2. k = "plain" => Fresh(A, p \o new)
      BY <1>1, <1>6, FreshCat DEF InOrder, Buffers
    <2>. QED BY <1>1, <2>1, <2>2 DEF InOrder
  <1>8. Holding(k, hs, A, W, E, P \cup N, m + n)
    <2>. HIDE DEF A, W, E, P, N, n
    <2>1. m \in Nat /\ n \in Nat
      BY <1>1, <1>2
    <2>2. 1..m \subseteq 1..m + n /\ 0..m \subseteq 0..m + n
          /\ N \subseteq 1..m + n /\ N \subseteq 0..m + n /\ Zero \notin N
          /\ 1..m + n \subseteq 1..m \cup N
      BY <1>4, <2>1 DEF Zero
    <2>. QED BY <1>1, <2>2 DEF Holding
  <1>9. /\ m + n \in Nat /\ Buffers(a, w, e, p \o new)
        /\ Holding(k, hs, A, W, E, Range(p \o new), m + n)
    BY <1>1, <1>m, <1>2, <1>3, <1>8 DEF Buffers
  <1>. QED BY <1>7, <1>9, FlowParts

\* Flights of the handshake go behind what a TLS side has to write.
LEMMA FlowAnswer ==
    ASSUME NEW k, NEW F, NEW hs, NEW a, NEW w, NEW e, NEW p, NEW m,
           FlowOK(k, F, hs, a, w, e, p, m), k # "plain",
           NEW new \in Seq({Hello, Fin}), NEW later,
           hs = "done" => later = "done",
           Introduced(F, Range(a) \cup Range(w), new)
    PROVE  FlowOK(k, F, later, a, w \o new, e, p, m)
  <1>. DEFINE A == Range(a)  W == Range(w)  E == Range(e)  P == Range(p)
              N == Range(new)
  <1>1. /\ m \in Nat /\ Buffers(a, w, e, p)
        /\ Holding(k, hs, A, W, E, P, m) /\ InOrder(k, F, a, w, e, p)
    BY FlowParts
  <1>2. new \in Seq(Int) /\ N \subseteq {Hello, Fin}
    BY SeqOver DEF Hello, Fin
  <1>3. w \o new \in Seq(Int) /\ Range(w \o new) = W \cup N
    BY <1>1, <1>2, RangeCat DEF Buffers
  <1>4. \A i \in DOMAIN new : new[i] \in N
    BY DEF Range
  <1>5. Follows(A \cup W, new)
    BY <1>2, <1>4 DEF Follows, Hello, Fin
  <1>6. InOrder(k, F, a, w \o new, e, p)
    <2>1. Follows(A, w \o new)
      BY <1>1, <1>2, <1>5, FollowsCat DEF InOrder, Buffers
    <2>2. Introduced(F, A, w \o new)
      BY <1>1, <1>2, IntroducedCat DEF InOrder, Buffers
    <2>3. Follows(A \cup Range(w \o new), e)
      BY <1>1, <1>3, FollowsMore DEF InOrder
    <2>4. Follows(A \cup Range(w \o new) \cup E, p)
      BY <1>1, <1>3, FollowsMore DEF InOrder
    <2>. QED BY <1>1, <2>1, <2>2, <2>3, <2>4 DEF InOrder
  <1>7. Holding(k, later, A, W \cup N, E, P, m)
    <2>. HIDE DEF A, W, E, P, N
    <2>1. \A x \in N : x \in {Zero, Hello, Fin, Junk} /\ ~IsData(x)
      BY <1>2 DEF IsData, Hello, Fin
    <2>. QED BY <1>1, <2>1 DEF Holding
  <1>. QED BY <1>1, <1>3, <1>6, <1>7, FlowParts DEF Buffers

\* on_write queues a copy of the request: every token is then in a, w, or e.
LEMMA FlowQueue ==
    ASSUME NEW k, NEW F, NEW hs, NEW a, NEW w, NEW e, NEW p, NEW m,
           FlowOK(k, F, hs, a, w, e, p, m), k # "plain"
    PROVE  /\ FlowOK(k, F, hs, a, w, e \o p, p, m)
           /\ 1..m \subseteq Range(a) \cup Range(w) \cup Range(e \o p)
  <1>. DEFINE A == Range(a)  W == Range(w)  E == Range(e)  P == Range(p)
  <1>1. /\ m \in Nat /\ Buffers(a, w, e, p)
        /\ Holding(k, hs, A, W, E, P, m) /\ InOrder(k, F, a, w, e, p)
    BY FlowParts
  <1>2. e \o p \in Seq(Int) /\ Range(e \o p) = E \cup P
    BY <1>1, RangeCat DEF Buffers
  <1>3. InOrder(k, F, a, w, e \o p, p)
    <2>1. Follows(A \cup W, e \o p)
      BY <1>1, FollowsCat DEF InOrder, Buffers
    <2>2. Follows(A \cup W \cup Range(e \o p), p)
      BY <1>1, <1>2, FollowsMore DEF InOrder
    <2>. QED BY <1>1, <2>1, <2>2 DEF InOrder
  <1>4. Holding(k, hs, A, W, E \cup P, P, m)
    <2>1. P \subseteq 1..m
      BY <1>1 DEF Holding, Zero
    <2>. HIDE DEF A, W, E, P
    <2>. QED BY <1>1, <2>1 DEF Holding
  <1>5. 1..m \subseteq A \cup W \cup (E \cup P)
    <2>. HIDE DEF A, W, E, P
    <2>. QED BY <1>1 DEF Holding
  <1>6. /\ Buffers(a, w, e \o p, p)
        /\ Holding(k, hs, A, W, Range(e \o p), P, m)
        /\ 1..m \subseteq A \cup W \cup Range(e \o p)
    BY <1>1, <1>2, <1>4, <1>5 DEF Buffers
  <1>. QED BY <1>1, <1>3, <1>6, FlowParts

\* All of enc is encrypted once the handshake is finished.
LEMMA FlowSeal ==
    ASSUME NEW k, NEW F, NEW hs, NEW a, NEW w, NEW e, NEW p, NEW m,
           FlowOK(k, F, hs, a, w, e, p, m), k # "plain", hs = "done",
           F \subseteq Range(a) \cup Range(w),
           1..m \subseteq Range(a) \cup Range(w) \cup Range(e)
    PROVE  /\ FlowOK(k, F, hs, a, w \o e, << >>, p, m)
           /\ 1..m \subseteq Range(a) \cup Range(w \o e) \cup Range(<< >>)
  <1>. DEFINE A == Range(a)  W == Range(w)  E == Range(e)  P == Range(p)
  <1>1. /\ m \in Nat /\ Buffers(a, w, e, p)
        /\ Holding(k, hs, A, W, E, P, m) /\ InOrder(k, F, a, w, e, p)
    BY FlowParts
  <1>2. /\ w \o e \in Seq(Int) /\ Range(w \o e) = W \cup E
        /\ << >> \in Seq(Int) /\ Range(<< >>) = {}
    <2>1. w \o e \in Seq(Int) /\ Range(w \o e) = W \cup E
      BY <1>1, RangeCat DEF Buffers
    <2>2. Range(<< >>) = {}
      BY Nothing
    <2>. QED BY <2>1, <2>2
  <1>3. \A i \in DOMAIN e : IsData(e[i])
    <2>1. \A i \in DOMAIN e : e[i] \in E
      BY DEF Range
    <2>2. \A x \in E : x \in 1..m
      BY <1>1 DEF Holding
    <2>. QED BY <1>1, <2>1, <2>2 DEF IsData
  <1>4. InOrder(k, F, a, w \o e, << >>, p)
    <2>1. Follows(A, w \o e)
      BY <1>1, FollowsCat DEF InOrder, Buffers
    <2>2. Introduced(F, A \cup W, e)
      BY <1>3 DEF Introduced, Seen
    <2>3. Introduced(F, A, w \o e)
      BY <1>1, <2>2, IntroducedCat DEF InOrder, Buffers
    <2>4. Follows(A \cup Range(w \o e), << >>)
      BY Nothing
    <2>5. A \cup Range(w \o e) \cup Range(<< >>) = A \cup W \cup E
      BY <1>2
    <2>6. Follows(A \cup Range(w \o e) \cup Range(<< >>), p)
      BY <1>1, <2>5 DEF InOrder
    <2>. QED BY <1>1, <2>1, <2>3, <2>4, <2>6 DEF InOrder
  <1>5. Holding(k, hs, A, W \cup E, {}, P, m) /\ 1..m \subseteq A \cup (W \cup E) \cup {}
    <2>1. 1..m \subseteq A \cup W \cup E
      OBVIOUS
    <2>. HIDE DEF A, W, E, P
    <2>. QED BY <1>1, <2>1 DEF Holding
  <1>6. /\ Buffers(a, w \o e, << >>, p)
        /\ Holding(k, hs, A, Range(w \o e), Range(<< >>), P, m)
        /\ 1..m \subseteq A \cup Range(w \o e) \cup Range(<< >>)
    BY <1>1, <1>2, <1>5 DEF Buffers
  <1>. QED BY <1>1, <1>4, <1>6, FlowParts

\* A send moves the first n of writing out.
LEMMA FlowSend ==
    ASSUME NEW k, NEW F, NEW hs, NEW a, NEW w, NEW e, NEW p, NEW m,
           FlowOK(k, F, hs, a, w, e, p, m), k # "plain", NEW n \in 0..Len(w)
    PROVE  LET gone_ == SubSeq(w, 1, n)
               left == SubSeq(w, n + 1, Len(w))
           IN /\ FlowOK(k, F, hs, a \o gone_, left, e, p, m)
              /\ Range(a \o gone_) \cup Range(left) = Range(a) \cup Range(w)
  <1>. DEFINE A == Range(a)  W == Range(w)  E == Range(e)  P == Range(p)
  <1>1. /\ m \in Nat /\ Buffers(a, w, e, p)
        /\ Holding(k, hs, A, W, E, P, m) /\ InOrder(k, F, a, w, e, p)
    BY FlowParts
  <1>. DEFINE b == SubSeq(w, 1, n)  v == SubSeq(w, n + 1, Len(w))
  <1>2. b \in Seq(Int) /\ v \in Seq(Int) /\ b \o v = w
    <2>1. Halves(w, n, b, v)
      BY <1>1, Split DEF Buffers
    <2>. QED BY <2>1 DEF Halves
  <1>. HIDE DEF b, v
  <1>3. /\ W = Range(b) \cup Range(v)
        /\ a \o b \in Seq(Int) /\ Range(a \o b) = A \cup Range(b)
    <2>1. a \in Seq(Int)
      BY <1>1 DEF Buffers
    <2>2. Range(b \o v) = Range(b) \cup Range(v)
      BY <1>2, RangeCat
    <2>3. a \o b \in Seq(Int) /\ Range(a \o b) = A \cup Range(b)
      BY <1>2, <2>1, RangeCat
    <2>. QED BY <1>2, <2>2, <2>3
  <1>4. InOrder(k, F, a \o b, v, e, p)
    <2>1. Follows(A, b) /\ Follows(A \cup Range(b), v)
      BY <1>1, <1>2, FollowsCat DEF InOrder
    <2>2. Introduced(F, A, b) /\ Introduced(F, A \cup Range(b), v)
      BY <1>1, <1>2, IntroducedCat DEF InOrder
    <2>3. {} \cup A = A
      OBVIOUS
    <2>4. Follows({}, a \o b) /\ Introduced(F, {}, a \o b)
      <3>1. a \in Seq(Int) /\ Follows({}, a) /\ Introduced(F, {}, a)
        BY <1>1 DEF InOrder, Buffers
      <3>2. Follows({}, a \o b)
        BY <1>2, <2>1, <2>3, <3>1, FollowsCat
      <3>3. Introduced(F, {}, a \o b)
        BY <1>2, <2>2, <2>3, <3>1, IntroducedCat
      <3>. QED BY <3>2, <3>3
    <2>5. A \cup W = Range(a \o b) \cup Range(v)
      BY <1>3
    <2>. QED BY <1>1, <1>3, <2>1, <2>2, <2>4, <2>5 DEF InOrder
  <1>5. Holding(k, hs, Range(a \o b), Range(v), E, P, m)
    <2>1. Range(a \o b) \cup Range(v) = A \cup W
      BY <1>3
    <2>. HIDE DEF A, W, E, P
    <2>. QED BY <1>1, <2>1 DEF Holding
  <1>6. Buffers(a \o b, v, e, p) /\ Range(a \o b) \cup Range(v) = A \cup W
    BY <1>1, <1>2, <1>3 DEF Buffers
  <1>7. FlowOK(k, F, hs, a \o b, v, e, p, m)
    BY <1>1, <1>4, <1>5, <1>6, FlowParts
  <1>. QED BY <1>6, <1>7 DEF b, v

\* A failed send leaves bytes in front of writing that were never queued.
LEMMA FlowJunk ==
    ASSUME NEW k, NEW F, NEW hs, NEW a, NEW w, NEW e, NEW p, NEW m,
           FlowOK(k, F, hs, a, w, e, p, m), k # "plain",
           NEW new \in Seq({Junk}), F \subseteq {Hello, Fin}
    PROVE  /\ FlowOK(k, F, hs, a, new \o w, e, p, m)
           /\ Range(new \o w) \subseteq Range(w) \cup {Junk}
           /\ Range(w) \subseteq Range(new \o w)
  <1>. DEFINE A == Range(a)  W == Range(w)  E == Range(e)  P == Range(p)
  <1>1. /\ m \in Nat /\ Buffers(a, w, e, p)
        /\ Holding(k, hs, A, W, E, P, m) /\ InOrder(k, F, a, w, e, p)
    BY FlowParts
  <1>. DEFINE N == Range(new)
  <1>2. /\ new \in Seq(Int) /\ N \subseteq {Junk}
        /\ \A i \in DOMAIN new : new[i] = Junk
    <2>1. {Junk} \in SUBSET Int
      BY DEF Junk
    <2>2. new \in Seq(Int) /\ N \subseteq {Junk}
      BY <2>1, SeqOver
    <2>. QED BY <2>2 DEF Range
  <1>3. new \o w \in Seq(Int) /\ Range(new \o w) = N \cup W
    BY <1>1, <1>2, RangeCat DEF Buffers
  <1>4. InOrder(k, F, a, new \o w, e, p)
    <2>1. Follows(A, new)
      BY <1>2 DEF Follows, Junk
    <2>2. Follows(A \cup N, w)
      BY <1>1, FollowsMore DEF InOrder
    <2>3. Follows(A, new \o w)
      BY <1>1, <1>2, <2>1, <2>2, FollowsCat DEF Buffers
    <2>4. Introduced(F, A, new)
      BY <1>2 DEF Introduced
    <2>5. (A \cup N) \cap F \subseteq A /\ (Hello \in A \cup N => Hello \in A)
      BY <1>2 DEF Hello, Fin, Junk
    <2>6. Introduced(F, A \cup N, w)
      BY <1>1, <2>5, IntroducedMore DEF InOrder
    <2>7. Introduced(F, A, new \o w)
      BY <1>1, <1>2, <2>4, <2>6, IntroducedCat DEF Buffers
    <2>8. Follows(A \cup Range(new \o w), e)
      BY <1>1, <1>3, FollowsMore DEF InOrder
    <2>9. Follows(A \cup Range(new \o w) \cup E, p)
      BY <1>1, <1>3, FollowsMore DEF InOrder
    <2>. QED BY <1>1, <2>3, <2>7, <2>8, <2>9 DEF InOrder
  <1>5. Holding(k, hs, A, N \cup W, E, P, m)
    <2>1. \A x \in N : x \in {Zero, Hello, Fin, Junk} /\ ~IsData(x)
      BY <1>2 DEF IsData, Junk
    <2>. HIDE DEF A, W, E, P, N
    <2>. QED BY <1>1, <2>1 DEF Holding
  <1>6. /\ Buffers(a, new \o w, e, p)
        /\ Holding(k, hs, A, Range(new \o w), E, P, m)
    BY <1>1, <1>3, <1>5 DEF Buffers
  <1>. QED BY <1>1, <1>2, <1>3, <1>4, <1>6, FlowParts

\* What was queued may be dropped from the request.
LEMMA FlowDrop ==
    ASSUME NEW k, NEW F, NEW hs, NEW a, NEW w, NEW e, NEW p, NEW m,
           FlowOK(k, F, hs, a, w, e, p, m), k # "plain",
           1..m \subseteq Range(a) \cup Range(w) \cup Range(e)
    PROVE  FlowOK(k, F, hs, a, w, e, << >>, m)
  <1>. DEFINE A == Range(a)  W == Range(w)  E == Range(e)  P == Range(p)
  <1>1. /\ m \in Nat /\ Buffers(a, w, e, p)
        /\ Holding(k, hs, A, W, E, P, m) /\ InOrder(k, F, a, w, e, p)
    BY FlowParts
  <1>2. << >> \in Seq(Int) /\ Range(<< >>) = {}
    BY Nothing
  <1>3. InOrder(k, F, a, w, e, << >>)
    BY <1>1, Nothing DEF InOrder
  <1>4. Holding(k, hs, A, W, E, {}, m)
    <2>1. 1..m \subseteq A \cup W \cup E
      OBVIOUS
    <2>. HIDE DEF A, W, E, P
    <2>. QED BY <1>1, <2>1 DEF Holding
  <1>. QED BY <1>1, <1>2, <1>3, <1>4, FlowParts DEF Buffers

\* A plain side sends the first n of the request and clears them.
LEMMA FlowPlain ==
    ASSUME NEW k, NEW F, NEW hs, NEW a, NEW w, NEW e, NEW p, NEW m,
           FlowOK(k, F, hs, a, w, e, p, m), k = "plain", NEW n \in 0..Len(p)
    PROVE  /\ FlowOK(k, F, hs, a \o SubSeq(p, 1, n), w, e, Cleared(p, n), m)
           /\ FlowOK(k, F, hs, a \o SubSeq(p, 1, n), w, e,
                     SubSeq(p, n + 1, Len(p)), m)
           /\ SubSeq(Cleared(p, n), n + 1, Len(Cleared(p, n)))
                  = SubSeq(p, n + 1, Len(p))
  <1>. DEFINE A == Range(a)  W == Range(w)  E == Range(e)  P == Range(p)
  <1>1. /\ m \in Nat /\ Buffers(a, w, e, p)
        /\ Holding(k, hs, A, W, E, P, m) /\ InOrder(k, F, a, w, e, p)
    BY FlowParts
  <1>. DEFINE b == SubSeq(p, 1, n)  v == SubSeq(p, n + 1, Len(p))
              zeros == [i \in 1..n |-> Zero]
  <1>2. /\ b \in Seq(Int) /\ v \in Seq(Int) /\ b \o v = p
        /\ Len(b) = n /\ Len(v) = Len(p) - n /\ Len(p) \in Nat
        /\ \A i \in 1..Len(p) - n : v[i] = p[n + i]
    <2>1. p \in Seq(Int) /\ Len(p) \in Nat
      BY <1>1 DEF Buffers
    <2>2. Halves(p, n, b, v)
      BY <2>1, Split
    <2>. HIDE DEF b, v
    <2>. QED BY <2>1, <2>2 DEF Halves
  <1>3. /\ zeros \in Seq(Int) /\ Len(zeros) = n /\ Range(zeros) \subseteq {Zero}
        /\ \A i \in DOMAIN zeros : zeros[i] = Zero
    BY DEF Range, Zero
  <1>4. /\ Cleared(p, n) \in Seq(Int) /\ Len(Cleared(p, n)) = Len(p)
        /\ \A i \in 1..Len(p) : Cleared(p, n)[i] = IF i <= n THEN Zero ELSE p[i]
    <2>1. p \in Seq(Int) /\ DOMAIN p = 1..Len(p) /\ Len(p) \in Nat
          /\ \A i \in 1..Len(p) : p[i] \in Int
      BY <1>1 DEF Buffers
    <2>2. Cleared(p, n) = [i \in 1..Len(p) |-> IF i <= n THEN Zero ELSE p[i]]
      BY <2>1 DEF Cleared
    <2>. QED BY <2>1, <2>2 DEF Zero
  <1>. HIDE DEF b, v, zeros
  <1>5. Cleared(p, n) = zeros \o v
    <2>. DEFINE c == Cleared(p, n)  d == zeros \o v
    <2>1. /\ d \in Seq(Int) /\ Len(d) = Len(p)
          /\ \A i \in 1..Len(p) : d[i] = IF i <= n THEN zeros[i] ELSE v[i - n]
      BY <1>2, <1>3, ConcatProperties
    <2>. HIDE DEF c, d
    <2>2. ASSUME NEW i \in 1..Len(p)
          PROVE  c[i] = d[i]
      <3>1. CASE i <= n
        <4>1. i \in 1..n /\ DOMAIN zeros = 1..n
          BY <1>3, <3>1
        <4>2. c[i] = Zero /\ d[i] = zeros[i]
          BY <1>4, <2>1, <3>1 DEF c
        <4>3. zeros[i] = Zero
          BY <1>3, <4>1
        <4>. QED BY <4>2, <4>3
      <3>2. CASE ~(i <= n)
        <4>1. i - n \in 1..Len(p) - n /\ n + (i - n) = i
          BY <1>2, <3>2
        <4>2. d[i] = v[i - n]
          BY <2>1, <3>2
        <4>3. v[i - n] = p[n + (i - n)]
          BY <1>2, <4>1
        <4>4. c[i] = p[i]
          BY <1>4, <3>2 DEF c
        <4>. QED BY <4>1, <4>2, <4>3, <4>4
      <3>. QED BY <3>1, <3>2
    <2>. QED BY <1>4, <2>1, <2>2, SeqEqual DEF c, d
  <1>6. /\ P = Range(b) \cup Range(v)
        /\ a \o b \in Seq(Int) /\ Range(a \o b) = A \cup Range(b)
        /\ Range(zeros \o v) = Range(zeros) \cup Range(v)
    <2>1. a \in Seq(Int)
      BY <1>1 DEF Buffers
    <2>2. Range(b \o v) = Range(b) \cup Range(v)
      BY <1>2, RangeCat
    <2>3. a \o b \in Seq(Int) /\ Range(a \o b) = A \cup Range(b)
      BY <1>2, <2>1, RangeCat
    <2>4. Range(zeros \o v) = Range(zeros) \cup Range(v)
      BY <1>2, <1>3, RangeCat
    <2>. QED BY <1>2, <2>2, <2>3, <2>4
  <1>7. w = << >> /\ e = << >> /\ W = {} /\ E = {}
    BY <1>1, Nothing DEF InOrder
  <1>8. /\ Follows(A, b) /\ Follows(A \cup Range(b), v)
        /\ Fresh(A, b) /\ Fresh(A \cup Range(b), v)
    <2>1. Follows(A, p) /\ Fresh(A, p)
      <3>1. A \cup W \cup E = A
        BY <1>7
      <3>. QED BY <1>1, <3>1 DEF InOrder
    <2>. QED BY <1>2, <2>1, FollowsCat, FreshCat
  <1>9. Follows({}, a \o b) /\ Fresh({}, a \o b)
    <2>1. {} \cup A = A /\ a \in Seq(Int) /\ b \in Seq(Int)
      BY <1>1, <1>2 DEF Buffers
    <2>2. Follows({}, a \o b) <=> Follows({}, a) /\ Follows({} \cup A, b)
      BY <2>1, FollowsCat
    <2>3. Fresh({}, a \o b) <=> Fresh({}, a) /\ Fresh({} \cup A, b)
      BY <2>1, FreshCat
    <2>4. Follows({}, a) /\ Fresh({}, a)
      BY <1>1 DEF InOrder
    <2>. HIDE DEF A
    <2>. QED BY <1>8, <2>1, <2>2, <2>3, <2>4
  <1>10. Follows(A \cup Range(b), zeros \o v) /\ Fresh(A \cup Range(b), zeros \o v)
    <2>1. Follows(A \cup Range(b), zeros) /\ Fresh(A \cup Range(b), zeros)
      BY <1>3 DEF Follows, Fresh, IsData, Zero
    <2>2. Follows(A \cup Range(b) \cup Range(zeros), v)
      BY <1>8, FollowsMore
    <2>3. \A x \in A \cup Range(b) \cup Range(zeros) : IsData(x) => x \in A \cup Range(b)
      BY <1>3 DEF IsData, Zero
    <2>4. Fresh(A \cup Range(b) \cup Range(zeros), v)
      BY <1>8, <2>3, FreshMore
    <2>. QED BY <1>2, <1>3, <2>1, <2>2, <2>4, FollowsCat, FreshCat
  <1>11. ASSUME NEW q \in Seq(Int), q = v \/ q = zeros \o v
         PROVE  FlowOK(k, F, hs, a \o b, w, e, q, m)
    <2>1. Range(q) \subseteq Range(v) \cup {Zero} /\ Range(v) \subseteq Range(q)
      BY <1>3, <1>6, <1>11
    <2>2. InOrder(k, F, a \o b, w, e, q)
      <3>1. Follows(A \cup Range(b), q) /\ Fresh(A \cup Range(b), q)
        BY <1>8, <1>10, <1>11
      <3>2. Range(a \o b) \cup W \cup E = A \cup Range(b)
        BY <1>6, <1>7
      <3>. QED BY <1>6, <1>7, <1>9, <3>1, <3>2, Nothing DEF InOrder
    <2>3. Holding(k, hs, Range(a \o b), W, E, Range(q), m)
      <3>1. /\ A \subseteq {Zero, Hello, Fin, Junk} \cup 1..m
            /\ Range(b) \subseteq 0..m /\ Range(v) \subseteq 0..m
            /\ 1..m \subseteq A \cup Range(b) \cup Range(v) /\ m \in Nat
        BY <1>1, <1>6, <1>7 DEF Holding
      <3>2. 0..m \subseteq {Zero, Hello, Fin, Junk} \cup 1..m /\ Zero \in 0..m
        BY <3>1 DEF Zero
      <3>. HIDE DEF A, W, E, P
      <3>. QED BY <1>6, <1>7, <2>1, <3>1, <3>2 DEF Holding
    <2>. QED BY <1>1, <1>6, <2>2, <2>3, FlowParts DEF Buffers
  <1>12. SubSeq(Cleared(p, n), n + 1, Len(Cleared(p, n))) = v
    <2>. DEFINE c == Cleared(p, n)  d == SubSeq(c, n + 1, Len(p))
    <2>1. c \in Seq(Int) /\ Len(c) = Len(p) /\ n \in 0..Len(c)
      BY <1>4
    <2>. HIDE DEF c
    <2>2. /\ d \in Seq(Int) /\ Len(d) = Len(p) - n
          /\ \A i \in 1..Len(p) - n : d[i] = c[n + i]
      <3>1. Halves(c, n, SubSeq(c, 1, n), SubSeq(c, n + 1, Len(c)))
        BY <2>1, Split
      <3>. QED BY <2>1, <3>1 DEF Halves
    <2>. HIDE DEF d
    <2>3. ASSUME NEW i \in 1..Len(p) - n
          PROVE  d[i] = v[i]
      <3>1. n + i \in 1..Len(p) /\ ~(n + i <= n)
        BY <1>2
      <3>. QED BY <1>2, <1>4, <2>2, <3>1 DEF c
    <2>. QED BY <1>2, <1>4, <2>2, <2>3, SeqEqual DEF c, d
  <1>13. zeros \o v \in Seq(Int)
    BY <1>4, <1>5
  <1>. QED BY <1>2, <1>5, <1>11, <1>12, <1>13 DEF b, v

-----------------------------------------------------------------------------
(* The sockets: what a read takes from a handshake's flights and the tokens     *)
(* behind them.                                                                 *)

Starts == {<< >>, <<Hello>>, <<Fin>>}

\* The flights in a socket are the ones it starts with.
LEMMA InboxFlights ==
    ASSUME NEW q \in Seq(Int), NEW f \in Starts, NEW n \in Nat, InboxIs(q, f, n)
    PROVE  /\ Has(q, Hello) <=> f = <<Hello>>
           /\ Has(q, Fin) <=> f = <<Fin>>
           /\ Flights(q) = Len(f) /\ Len(f) \in {0, 1}
           /\ Len(q) - Flights(q) \in 0..n
           /\ \A i \in DOMAIN q : i > Len(f) => q[i] \in 1..n
  <1>1. /\ Len(f) \in {0, 1} /\ (f # << >> => Len(f) = 1 /\ f[1] \in {Hello, Fin})
        /\ (Len(f) = 0 => f = << >>) /\ (Len(f) = 1 => f \in {<<Hello>>, <<Fin>>})
    BY DEF Starts
  <1>2. Len(q) \in Nat /\ DOMAIN q = 1..Len(q)
    OBVIOUS
  <1>3. Len(f) <= Len(q) /\ Len(q) - Len(f) <= n
    BY DEF InboxIs
  <1>4. \A i \in DOMAIN q : i > Len(f) => q[i] = n - (Len(q) - i)
    BY <1>1, <1>2 DEF InboxIs
  <1>5. \A i \in DOMAIN q : i > Len(f) => n - (Len(q) - i) \in 1..n
    BY <1>1, <1>2, <1>3
  <1>6. \A i \in DOMAIN q : i > Len(f) => q[i] \in 1..n
    BY <1>4, <1>5
  <1>7. \A i \in DOMAIN q : i > Len(f) => q[i] # Hello /\ q[i] # Fin
    BY <1>6 DEF Hello, Fin
  <1>8. CASE f = << >>
    <2>1. Len(f) = 0 /\ f # <<Hello>> /\ f # <<Fin>>
      BY <1>8
    <2>2. ~Has(q, Hello) /\ ~Has(q, Fin)
      BY <1>2, <1>7, <2>1 DEF Has
    <2>3. Flights(q) = 0
      BY <2>2 DEF Flights
    <2>. QED BY <1>1, <1>2, <1>3, <1>6, <2>1, <2>2, <2>3
  <1>9. ASSUME NEW x \in {Hello, Fin}, f = <<x>>
        PROVE  /\ \A y \in {Hello, Fin} : Has(q, y) <=> y = x
               /\ Len(f) = 1 /\ Flights(q) = 1
    <2>1. Len(f) = 1 /\ f[1] = x /\ 1 \in DOMAIN q
      BY <1>2, <1>3, <1>9
    <2>2. q[1] = x
      BY <2>1 DEF InboxIs
    <2>3. \A i \in DOMAIN q : i # 1 => i > Len(f)
      BY <1>2, <2>1
    <2>4. \A y \in {Hello, Fin} : Has(q, y) <=> y = x
      BY <1>7, <2>1, <2>2, <2>3 DEF Has
    <2>5. Flights(q) = 1
      BY <2>4 DEF Flights, Hello, Fin
    <2>. QED BY <2>1, <2>4, <2>5
  <1>10. <<Hello>> # <<Fin>>
    <2>1. Hello # Fin /\ <<Hello>>[1] = Hello /\ <<Fin>>[1] = Fin
      BY DEF Hello, Fin
    <2>. QED BY <2>1
  <1>11. CASE f = <<Hello>>
    BY <1>2, <1>3, <1>6, <1>9, <1>10, <1>11 DEF Hello, Fin
  <1>12. CASE f = <<Fin>>
    BY <1>2, <1>3, <1>6, <1>9, <1>10, <1>12 DEF Hello, Fin
  <1>. QED BY <1>8, <1>11, <1>12 DEF Starts

\* A read of j bytes takes the flights and the next tokens; what is left starts
\* with a token.
LEMMA ReadSome ==
    ASSUME NEW q \in Seq(Int), NEW f \in Starts, NEW n \in Nat, InboxIs(q, f, n),
           NEW j \in 1..Len(q)
    PROVE  LET first == SubSeq(q, 1, j)
               rest == SubSeq(q, j + 1, Len(q))
               new == Decrypted(first)
               m == n - (Len(q) - Flights(q))
           IN /\ Has(first, Hello) <=> f = <<Hello>>
              /\ Has(first, Fin) <=> f = <<Fin>>
              /\ new \in Seq(Int) /\ \A i \in DOMAIN new : new[i] = m + i
              /\ rest \in Seq(Int) /\ InboxIs(rest, << >>, n)
              /\ n - (Len(rest) - Flights(rest)) = m + Len(new)
              /\ f = << >> => new = first
              /\ m \in 0..n
  <1>. DEFINE first == SubSeq(q, 1, j)
              rest == SubSeq(q, j + 1, Len(q))
              new == Decrypted(first)
              m == n - (Len(q) - Flights(q))
  <1>1. /\ Len(q) \in Nat /\ DOMAIN q = 1..Len(q) /\ Len(f) \in {0, 1}
        /\ Flights(q) = Len(f) /\ Len(f) <= Len(q) /\ Len(q) - Len(f) \in 0..n
        /\ Has(q, Hello) <=> f = <<Hello>>
        /\ Has(q, Fin) <=> f = <<Fin>>
        /\ \A i \in DOMAIN q : i > Len(f) => q[i] \in 1..n
    BY InboxFlights DEF InboxIs
  <1>2. /\ first \in Seq(Int) /\ rest \in Seq(Int)
        /\ Len(first) = j /\ Len(rest) = Len(q) - j
        /\ \A i \in 1..j : first[i] = q[i]
        /\ \A i \in 1..Len(q) - j : rest[i] = q[j + i]
    <2>1. j \in 0..Len(q)
      OBVIOUS
    <2>2. Halves(q, j, first, rest)
      BY <2>1, Split
    <2>. HIDE DEF first, rest
    <2>. QED BY <2>2 DEF Halves
  <1>3. \A i \in DOMAIN q : q[i] \in {Hello, Fin} => i = 1
    BY <1>1 DEF Hello, Fin
  <1>l. /\ Len(q) \in Nat /\ Len(f) \in Nat /\ Len(f) <= 1 /\ j \in Nat /\ j >= 1
        /\ j <= Len(q) /\ DOMAIN q = 1..Len(q) /\ n \in Nat
        /\ Len(first) = j /\ Len(rest) = Len(q) - j /\ DOMAIN first = 1..j
        /\ DOMAIN rest = 1..Len(q) - j /\ Len(q) - Len(f) <= n
    <2>. HIDE DEF first, rest
    <2>1. DOMAIN first = 1..Len(first) /\ DOMAIN rest = 1..Len(rest)
      BY <1>2
    <2>2. Len(f) \in Nat /\ Len(f) <= 1
      BY <1>1
    <2>3. Len(q) \in Nat /\ DOMAIN q = 1..Len(q) /\ Len(q) - Len(f) <= n
      BY <1>1
    <2>. QED BY <1>2, <2>1, <2>2, <2>3
  <1>n. /\ Len(q) \in Nat /\ Len(f) \in Nat /\ Len(f) <= 1 /\ j \in Nat /\ j >= 1
        /\ j <= Len(q) /\ n \in Nat
    BY <1>l
  <1>. HIDE DEF first, rest
  <1>4. \A x \in {Hello, Fin} : Has(first, x) <=> Has(q, x)
    <2>1. ASSUME NEW x \in {Hello, Fin}, Has(first, x)
          PROVE  Has(q, x)
      <3>1. PICK i \in 1..j : first[i] = x
        BY <1>l, <2>1 DEF Has
      <3>2. i \in DOMAIN q /\ q[i] = x
        BY <1>l, <1>2, <3>1
      <3>. QED BY <3>2 DEF Has
    <2>2. ASSUME NEW x \in {Hello, Fin}, Has(q, x)
          PROVE  Has(first, x)
      <3>1. 1 \in DOMAIN first /\ q[1] = x
        BY <1>l, <1>3, <2>2 DEF Has
      <3>2. first[1] = x
        BY <1>l, <1>2, <3>1
      <3>. QED BY <3>1, <3>2 DEF Has
    <2>. QED BY <2>1, <2>2
  <1>5. Flights(first) = Len(f)
    <2>1. Flights(first) = Flights(q)
      BY <1>4 DEF Flights
    <2>. QED BY <1>1, <2>1
  <1>6. \A i \in DOMAIN q : i > Len(f) => q[i] = n - (Len(q) - i)
    BY <1>1 DEF InboxIs
  <1>7. m = n - (Len(q) - Len(f)) /\ m \in 0..n
    BY <1>1
  <1>8. new = SubSeq(first, Len(f) + 1, Len(first)) /\ Len(f) \in 0..Len(first)
    BY <1>l, <1>5 DEF Decrypted
  <1>. HIDE DEF new, m
  <1>9. /\ new \in Seq(Int) /\ Len(new) = j - Len(f)
        /\ \A i \in 1..j - Len(f) : new[i] = first[Len(f) + i]
    <2>1. Halves(first, Len(f), SubSeq(first, 1, Len(f)),
                 SubSeq(first, Len(f) + 1, Len(first)))
      BY <1>2, <1>8, Split
    <2>. QED BY <1>2, <1>8, <2>1 DEF Halves
  <1>10. ASSUME NEW i \in DOMAIN new
         PROVE  new[i] = m + i
    <2>1. i \in 1..j - Len(f) /\ Len(f) + i \in 1..j /\ Len(f) + i \in DOMAIN q
          /\ Len(f) + i > Len(f)
      <3>1. i \in 1..j - Len(f)
        BY <1>9
      <3>2. Len(f) + i \in 1..j /\ Len(f) + i > Len(f)
        BY <1>n, <3>1
      <3>3. Len(f) + i \in 1..Len(q)
        BY <1>n, <3>2
      <3>. QED BY <1>l, <3>1, <3>2, <3>3
    <2>2. new[i] = q[Len(f) + i]
      BY <1>2, <1>9, <2>1
    <2>3. new[i] = n - (Len(q) - (Len(f) + i))
      BY <1>6, <2>1, <2>2
    <2>4. i \in Int
      BY <2>1
    <2>. QED BY <1>n, <1>7, <2>3, <2>4
  <1>11. /\ InboxIs(rest, << >>, n) /\ Flights(rest) = 0
    <2>1. Len(<< >>) = 0 /\ << >> \in Starts
      BY DEF Starts
    <2>2. Len(rest) - 0 <= n /\ 0 <= Len(rest)
      BY <1>l
    <2>3. ASSUME NEW i \in DOMAIN rest
          PROVE  rest[i] = n - (Len(rest) - i) /\ ~(i <= 0)
      <3>0. i \in 1..Len(q) - j
        BY <1>l
      <3>1. j + i \in 1..Len(q) /\ j + i > Len(f) /\ i \in Nat /\ i >= 1
        BY <1>n, <3>0
      <3>2. j + i \in DOMAIN q
        BY <1>l, <3>1
      <3>3. rest[i] = n - (Len(q) - (j + i))
        BY <1>2, <1>6, <3>0, <3>1, <3>2
      <3>4. Len(rest) = Len(q) - j
        BY <1>l
      <3>5. n - (Len(q) - (j + i)) = n - (Len(rest) - i) /\ ~(i <= 0)
        BY <1>n, <3>1, <3>4
      <3>. QED BY <3>3, <3>5
    <2>4. InboxIs(rest, << >>, n)
      BY <2>1, <2>2, <2>3 DEF InboxIs
    <2>5. Flights(rest) = Len(<< >>)
      BY <1>2, <2>1, <2>4, InboxFlights
    <2>. QED BY <2>1, <2>4, <2>5
  <1>12. n - (Len(rest) - Flights(rest)) = m + Len(new)
    BY <1>1, <1>2, <1>7, <1>9, <1>11
  <1>13. f = << >> => new = first
    <2>1. ASSUME f = << >>
          PROVE  new = first
      <3>1. Len(f) = 0
        BY <2>1
      <3>2. new = SubSeq(first, 1, Len(first))
        BY <1>8, <3>1
      <3>. QED BY <1>2, <3>2, SubSeqFull
    <2>. QED BY <2>1
  <1>14. first \in Seq(Int) /\ (Has(first, Hello) <=> f = <<Hello>>)
         /\ (Has(first, Fin) <=> f = <<Fin>>)
    BY <1>1, <1>2, <1>4
  <1>. QED BY <1>2, <1>7, <1>9, <1>10, <1>11, <1>12, <1>13, <1>14
           DEF first, rest, new, m

\* What a read does to the handshake of a side.
ShakenBy(k, side, hs, first) ==
    IF k = "plain" THEN hs ELSE Shaken(side, k, hs, first)
AnswerTo(k, side, first) ==
    IF k = "plain" THEN << >> ELSE Answer(side, k, first)

\* A point of the handshake, read from the socket, is followed by a point of the
\* handshake; a flight goes out only once and only when it is its turn.
Shook(s, k, hs, stage, q, n, said, j) ==
    LET first == SubSeq(q, 1, j)
        rest == SubSeq(q, j + 1, Len(q))
        later == ShakenBy(k, s, hs, first)
        answer == AnswerTo(k, s, first)
        new == IF k = "plain" THEN first
               ELSE IF later = "done" THEN Decrypted(first) ELSE << >>
        m == n - (Len(q) - Flights(q))
    IN /\ later \in Stages /\ (hs = "done" => later = "done")
       /\ \/ answer = << >>
             /\ HandshakeAt(s, k, later, stage, rest, n, said)
          \/ answer = <<Hello>> /\ Hello \notin said
             /\ HandshakeAt(s, k, later, stage, rest, n, said \cup {Hello})
          \/ /\ answer = <<Fin>> /\ Hello \in said /\ Fin \notin said
             /\ s # "client" \/ k # "tls13"
             /\ HandshakeAt(s, k, later, stage, rest, n, said \cup {Fin})
       /\ new \in Seq(Int) /\ \A i \in DOMAIN new : new[i] = m + i
       /\ n - (Len(rest) - Flights(rest)) = m + Len(new)

\* A read takes the flights at the head of the socket and shakes hands with them.
LEMMA ReadShakes ==
    ASSUME NEW s \in Sides, NEW k \in {"plain", "tls12", "tls13"},
           NEW hs, NEW stage, NEW q \in Seq(Int), NEW n \in Nat,
           NEW said \in SUBSET {Hello, Fin},
           HandshakeAt(s, k, hs, stage, q, n, said), NEW j \in 1..Len(q)
    PROVE  Shook(s, k, hs, stage, q, n, said, j)
  <1>. DEFINE first == SubSeq(q, 1, j)
              rest == SubSeq(q, j + 1, Len(q))
              later == ShakenBy(k, s, hs, first)
              answer == AnswerTo(k, s, first)
              new == IF k = "plain" THEN first
                     ELSE IF later = "done" THEN Decrypted(first) ELSE << >>
              m == n - (Len(q) - Flights(q))
  <1>1. PICK f \in Starts : InboxIs(q, f, n)
    BY DEF HandshakeAt, ClientAt, BackendAt, Starts
  <1>2. /\ Has(q, Hello) <=> f = <<Hello>>
        /\ Has(q, Fin) <=> f = <<Fin>>
        /\ Len(f) \in {0, 1} /\ Len(q) - Flights(q) \in 0..n /\ Flights(q) = Len(f)
    BY <1>1, InboxFlights
  <1>3. \A g \in Starts : InboxIs(q, g, n) => g = f
    <2>1. ASSUME NEW g \in Starts, InboxIs(q, g, n)
          PROVE  g = f
      <3>1. (Has(q, Hello) <=> g = <<Hello>>) /\ (Has(q, Fin) <=> g = <<Fin>>)
        BY <2>1, InboxFlights
      <3>2. \A h \in Starts : h = << >> \/ h = <<Hello>> \/ h = <<Fin>>
        BY Zenon DEF Starts
      <3>3. CASE f = <<Hello>>
        BY <1>2, <3>1, <3>3
      <3>4. CASE f = <<Fin>>
        BY <1>2, <3>1, <3>4
      <3>5. CASE f # <<Hello>> /\ f # <<Fin>>
        <4>1. f = << >>
          BY <3>2, <3>5
        <4>2. g # <<Hello>> /\ g # <<Fin>>
          BY <1>2, <3>1, <3>5
        <4>3. g = << >>
          BY <3>2, <4>2
        <4>. QED BY <4>1, <4>3
      <3>. QED BY <3>3, <3>4, <3>5
    <2>. QED BY <2>1
  <1>4. /\ Has(first, Hello) <=> f = <<Hello>>
        /\ Has(first, Fin) <=> f = <<Fin>>
        /\ Decrypted(first) \in Seq(Int)
        /\ \A i \in DOMAIN Decrypted(first) : Decrypted(first)[i] = m + i
        /\ rest \in Seq(Int) /\ InboxIs(rest, << >>, n)
        /\ n - (Len(rest) - Flights(rest)) = m + Len(Decrypted(first))
        /\ f = << >> => Decrypted(first) = first
        /\ m \in 0..n
    BY <1>1, ReadSome
  <1>5. Hello # Fin /\ <<Hello>> # <<Fin>> /\ << >> # <<Hello>> /\ << >> # <<Fin>>
    <2>1. Hello # Fin /\ <<Hello>>[1] = Hello /\ <<Fin>>[1] = Fin
      BY DEF Hello, Fin
    <2>2. Len(<< >>) = 0 /\ Len(<<Hello>>) = 1 /\ Len(<<Fin>>) = 1
      OBVIOUS
    <2>. QED BY <2>1, <2>2
  <1>6. /\ InboxIs(q, << >>, n) => f = << >>
        /\ InboxIs(q, <<Hello>>, n) => f = <<Hello>>
        /\ InboxIs(q, <<Fin>>, n) => f = <<Fin>>
    BY <1>3 DEF Starts
  <1>7. answer = IF k = "plain" THEN << >>
                 ELSE IF f = <<Hello>> THEN (IF s = "client" THEN <<Hello>> ELSE <<Fin>>)
                 ELSE IF f = <<Fin>> /\ s = "client" /\ k = "tls12" THEN <<Fin>>
                 ELSE << >>
    <2>1. \A g \in Starts : g \o << >> = g /\ << >> \o g = g
      BY DEF Starts, Hello, Fin
    <2>. HIDE DEF first
    <2>2. /\ << >> \o << >> = << >> /\ << >> \o <<Fin>> = <<Fin>>
          /\ <<Hello>> \o << >> = <<Hello>> /\ <<Fin>> \o << >> = <<Fin>>
      BY <2>1 DEF Starts
    <2>. QED BY <1>4, <1>5, <2>2 DEF AnswerTo, Answer
  <1>8. later = IF k = "plain" THEN hs
                ELSE IF s = "client" \/ k = "tls12"
                THEN IF f = <<Fin>> THEN "done"
                     ELSE IF f = <<Hello>> THEN "half" ELSE hs
                ELSE IF f = <<Hello>> THEN "done" ELSE hs
    BY <1>4, <1>5 DEF ShakenBy, Shaken, LastFlight
  <1>. HIDE DEF first, rest, later, answer, m
  <1>9. later \in Stages /\ (hs = "done" => later = "done")
    BY <1>6, <1>8 DEF HandshakeAt, ClientAt, BackendAt, Stages
  <1>10. \/ answer = << >>
            /\ HandshakeAt(s, k, later, stage, rest, n, said)
         \/ answer = <<Hello>> /\ Hello \notin said
            /\ HandshakeAt(s, k, later, stage, rest, n, said \cup {Hello})
         \/ /\ answer = <<Fin>> /\ Hello \in said /\ Fin \notin said
            /\ s # "client" \/ k # "tls13"
            /\ HandshakeAt(s, k, later, stage, rest, n, said \cup {Fin})
    <2>1. CASE k = "plain"
      BY <1>4, <1>6, <1>7, <1>8, <2>1 DEF HandshakeAt
    <2>2. CASE k # "plain" /\ s = "client"
      BY <1>4, <1>5, <1>6, <1>7, <1>8, <2>2 DEF HandshakeAt, ClientAt
    <2>3. CASE k # "plain" /\ s = "backend"
      BY <1>4, <1>5, <1>6, <1>7, <1>8, <2>3 DEF HandshakeAt, BackendAt
    <2>. QED BY <2>1, <2>2, <2>3 DEF Sides
  <1>11. new = Decrypted(first)
    <2>1. CASE k = "plain"
      BY <1>4, <1>6, <2>1 DEF HandshakeAt
    <2>2. CASE k # "plain" /\ later = "done"
      BY <2>2
    <2>3. CASE k # "plain" /\ later # "done"
      <3>1. n = 0
        BY <1>5, <1>6, <1>8, <2>3 DEF HandshakeAt, ClientAt, BackendAt
      <3>2. m = 0 /\ n - (Len(rest) - Flights(rest)) <= 0
        <4>1. << >> \in Starts
          BY DEF Starts
        <4>2. Len(rest) - Flights(rest) \in 0..n
          BY <1>4, <4>1, InboxFlights
        <4>. QED BY <1>4, <3>1, <4>2
      <3>3. Decrypted(first) = << >>
        <4>1. Decrypted(first) \in Seq(Int) /\ Len(Decrypted(first)) <= 0
          BY <1>4, <3>1, <3>2
        <4>. QED BY <4>1
      <3>. QED BY <2>3, <3>3
    <2>. QED BY <2>1, <2>2, <2>3
  <1>. QED BY <1>4, <1>9, <1>10, <1>11 DEF Shook, first, rest, later, answer, m

-----------------------------------------------------------------------------
(* The callbacks: what a read and a write keep of the two ways and of the       *)
(* handshake, whatever is in the connection's structs.                          *)

Record == [hs : Stages, plain : Seq(Int), enc : Seq(Int), writing : Seq(Int)]

\* FlowInv and HandshakeInv of a side with struct x, when a was sent to it,
\* request waits at the other side, and q is in its socket.
Way(s, x, a, request, m) ==
    FlowOK(kind[s], FlightsTo(s), x.hs, a, x.writing, x.enc, request, m)
Said(a, w) == (Range(a) \cup Range(w)) \cap {Hello, Fin}
Turn(s, x, a, q) ==
    HandshakeAt(s, kind[s], x.hs, peer[s], q, sent[s], Said(a, x.writing))

\* A flight on its own is introduced.
LEMMA OneFlight ==
    ASSUME NEW F, NEW S, NEW x \in F, x \notin S, x = Fin => Hello \in S
    PROVE  Introduced(F, S, <<x>>) /\ Range(<<x>>) = {x}
  <1>1. DOMAIN <<x>> = {1} /\ <<x>>[1] = x
    OBVIOUS
  <1>2. Seen(S, <<x>>, 1) = S
    BY DEF Seen
  <1>. QED BY <1>1, <1>2 DEF Introduced, Range

\* A flight that is queued counts as said.
LEMMA SaidMore ==
    ASSUME NEW a \in Seq(Int), NEW w \in Seq(Int), NEW x \in {Hello, Fin}
    PROVE  /\ w \o <<x>> \in Seq(Int) /\ <<x>> \in Seq({Hello, Fin})
           /\ Said(a, w \o <<x>>) = Said(a, w) \cup {x}
  <1>1. <<x>> \in Seq(Int) /\ <<x>> \in Seq({Hello, Fin}) /\ Range(<<x>>) = {x}
    BY DEF Hello, Fin, Range
  <1>2. Range(w \o <<x>>) = Range(w) \cup {x}
    BY <1>1, RangeCat
  <1>. QED BY <1>1, <1>2 DEF Said

\* The fields that OnRead leaves.
LEMMA ReadFields ==
    ASSUME NEW s \in Sides, NEW x \in Record, NEW first
    PROVE  LET r == OnRead(x, s, first)
           IN /\ r.hs = ShakenBy(kind[s], s, x.hs, first) /\ r.enc = x.enc
              /\ r.writing = IF kind[s] = "plain" THEN x.writing
                             ELSE x.writing \o AnswerTo(kind[s], s, first)
              /\ r.plain = IF kind[s] = "plain" THEN x.plain \o first
                           ELSE IF r.hs = "done" THEN x.plain \o Decrypted(first)
                           ELSE x.plain
              /\ r = [hs |-> r.hs, plain |-> r.plain, enc |-> r.enc,
                      writing |-> r.writing]
  BY DEF OnRead, PlainRead, TlsRead, ShakenBy, AnswerTo, Record

\* A read keeps the way to the other side (d, b), the way to this side (x, a),
\* and this side's handshake.
WellRead(s, o, x, d, b, a, request, l, q, j) ==
    LET r == OnRead(x, s, SubSeq(q, 1, j))
        rest == SubSeq(q, j + 1, Len(q))
    IN /\ r \in Record /\ rest \in Seq(Int)
       /\ Way(o, d, b, r.plain, sent[s] - (Len(rest) - Flights(rest)))
       /\ Way(s, r, a, request, l) /\ Turn(s, r, a, rest)

\* OnRead of either kind keeps the flow to both sides and the handshake.
LEMMA ReadKeeps ==
    ASSUME kind \in KindPairs,
           NEW s \in Sides, NEW o \in Sides, NEW x \in Record, NEW d, NEW b,
           NEW a \in Seq(Int), NEW request, NEW l, NEW q \in Seq(Int),
           sent[s] \in Nat, NEW j \in 0..Len(q),
           Way(o, d, b, x.plain, sent[s] - (Len(q) - Flights(q))),
           Way(s, x, a, request, l), Turn(s, x, a, q)
    PROVE  WellRead(s, o, x, d, b, a, request, l, q, j)
  <1>. DEFINE first == SubSeq(q, 1, j)
              rest == SubSeq(q, j + 1, Len(q))
              r == OnRead(x, s, first)
              k == kind[s]
              answer == AnswerTo(k, s, first)
              said == Said(a, x.writing)
  <1>1. /\ x.hs \in Stages /\ x.plain \in Seq(Int) /\ x.enc \in Seq(Int)
        /\ x.writing \in Seq(Int) /\ said \in SUBSET {Hello, Fin}
        /\ k \in {"plain", "tls12", "tls13"}
    BY DEF Record, Said, KindPairs
  <1>2. /\ r.hs = ShakenBy(k, s, x.hs, first) /\ r.enc = x.enc
        /\ r.writing = IF k = "plain" THEN x.writing ELSE x.writing \o answer
        /\ r.plain = IF k = "plain" THEN x.plain \o first
                     ELSE IF r.hs = "done" THEN x.plain \o Decrypted(first)
                     ELSE x.plain
        /\ r = [hs |-> r.hs, plain |-> r.plain, enc |-> r.enc,
                writing |-> r.writing]
    BY ReadFields
  <1>3. CASE j = 0
    <2>1. first = << >> /\ rest = q
      <3>1. SubSeq(q, 1, 0) = << >>
        OBVIOUS
      <3>. QED BY <1>3, <3>1, SubSeqFull
    <2>2. Decrypted(<< >>) = << >> /\ ~Has(<< >>, Hello) /\ ~Has(<< >>, Fin)
      <3>1. ~Has(<< >>, Hello) /\ ~Has(<< >>, Fin)
        BY DEF Has
      <3>2. Flights(<< >>) = 0
        BY <3>1 DEF Flights
      <3>3. SubSeq(<< >>, 0 + 1, 0) = << >> /\ Len(<< >>) = 0
        OBVIOUS
      <3>. QED BY <3>1, <3>2, <3>3 DEF Decrypted
    <2>3. /\ x.plain \o << >> = x.plain /\ x.writing \o << >> = x.writing
          /\ << >> \o << >> = << >>
      BY <1>1
    <2>4. answer = << >>
      BY <2>1, <2>2, <2>3 DEF AnswerTo, Answer
    <2>5. r.hs = x.hs
      BY <1>2, <2>1, <2>2 DEF ShakenBy, Shaken, LastFlight
    <2>. HIDE DEF r, first, rest, answer
    <2>6. r.plain = x.plain /\ r.writing = x.writing
      BY <1>2, <2>1, <2>2, <2>3, <2>4
    <2>7. r \in Record
      BY <1>1, <1>2, <2>5, <2>6 DEF Record
    <2>. QED BY <1>2, <2>1, <2>5, <2>6, <2>7 DEF WellRead, Way, Turn, r, first, rest
  <1>4. CASE j # 0
    <2>. DEFINE new == IF k = "plain" THEN first
                       ELSE IF r.hs = "done" THEN Decrypted(first) ELSE << >>
                m == sent[s] - (Len(q) - Flights(q))
    <2>1. /\ j \in 1..Len(q) /\ sent[s] \in Nat
          /\ HandshakeAt(s, k, x.hs, peer[s], q, sent[s], said)
      BY <1>4 DEF Turn
    <2>. HIDE DEF r, answer, said, k
    <2>2. /\ r.hs \in Stages /\ (x.hs = "done" => r.hs = "done")
          /\ \/ answer = << >>
                /\ HandshakeAt(s, k, r.hs, peer[s], rest, sent[s], said)
             \/ answer = <<Hello>> /\ Hello \notin said
                /\ HandshakeAt(s, k, r.hs, peer[s], rest, sent[s], said \cup {Hello})
             \/ /\ answer = <<Fin>> /\ Hello \in said /\ Fin \notin said
                /\ s # "client" \/ k # "tls13"
                /\ HandshakeAt(s, k, r.hs, peer[s], rest, sent[s], said \cup {Fin})
          /\ new \in Seq(Int) /\ \A i \in DOMAIN new : new[i] = m + i
          /\ sent[s] - (Len(rest) - Flights(rest)) = m + Len(new)
      <3>1. /\ s \in Sides /\ k \in {"plain", "tls12", "tls13"} /\ q \in Seq(Int)
            /\ sent[s] \in Nat /\ said \in SUBSET {Hello, Fin} /\ j \in 1..Len(q)
            /\ HandshakeAt(s, k, x.hs, peer[s], q, sent[s], said)
        BY <1>1, <2>1
      <3>2. r.hs = ShakenBy(k, s, x.hs, first) /\ answer = AnswerTo(k, s, first)
        BY <1>2 DEF answer
      <3>3. /\ first = SubSeq(q, 1, j) /\ rest = SubSeq(q, j + 1, Len(q))
            /\ m = sent[s] - (Len(q) - Flights(q))
            /\ new = IF k = "plain" THEN first
                     ELSE IF r.hs = "done" THEN Decrypted(first) ELSE << >>
        OBVIOUS
      <3>. HIDE DEF first, rest, m, new
      <3>4. Shook(s, k, x.hs, peer[s], q, sent[s], said, j)
        BY <3>1, ReadShakes
      <3>. QED BY <3>2, <3>3, <3>4 DEF Shook
    <2>3. rest \in Seq(Int)
      <3>1. Halves(q, j, first, rest)
        BY <2>1, Split
      <3>. HIDE DEF first, rest
      <3>. QED BY <3>1 DEF Halves
    <2>. HIDE DEF first, rest, m
    <2>4. r.plain = x.plain \o new
      <3>1. x.plain \o << >> = x.plain
        BY <1>1
      <3>. QED BY <1>2, <3>1
    <2>. HIDE DEF new
    <2>5. Way(o, d, b, r.plain, sent[s] - (Len(rest) - Flights(rest)))
      <3>1. FlowOK(kind[o], FlightsTo(o), d.hs, b, d.writing, d.enc, x.plain, m)
        BY DEF Way, m
      <3>2. FlowOK(kind[o], FlightsTo(o), d.hs, b, d.writing, d.enc, x.plain \o new,
                   m + Len(new))
        BY <2>2, <3>1, FlowRead
      <3>. QED BY <2>2, <2>4, <3>2 DEF Way
    <2>6. CASE k = "plain"
      <3>1. answer = << >> /\ r.writing = x.writing /\ r.hs = x.hs
        BY <1>2, <2>6 DEF answer, AnswerTo, ShakenBy
      <3>2. HandshakeAt(s, k, r.hs, peer[s], rest, sent[s], said)
        <4>1. << >> # <<Hello>> /\ << >> # <<Fin>>
          OBVIOUS
        <4>. QED BY <2>2, <3>1, <4>1
      <3>3. x.plain \o new \in Seq(Int)
        BY <1>1, <2>2
      <3>4. r \in Record
        BY <1>1, <1>2, <2>2, <2>4, <3>1, <3>3 DEF Record
      <3>. QED BY <1>2, <2>3, <2>5, <3>1, <3>2, <3>4 
               DEF WellRead, Way, Turn, r, rest, said, k, first
    <2>7. CASE k # "plain"
      <3>1. /\ r.writing = x.writing \o answer
            /\ answer \in Seq({Hello, Fin}) /\ answer \in Seq(Int)
            /\ Introduced(FlightsTo(s), Range(a) \cup Range(x.writing), answer)
            /\ HandshakeAt(s, k, r.hs, peer[s], rest, sent[s],
                           Said(a, x.writing \o answer))
        <4>0. r.writing = x.writing \o answer
          BY <1>2, <2>7
        <4>. DEFINE S == Range(a) \cup Range(x.writing)
        <4>1. CASE answer = << >> /\ HandshakeAt(s, k, r.hs, peer[s], rest, sent[s], said)
          <5>1. x.writing \o << >> = x.writing
            BY <1>1
          <5>. QED BY <4>0, <4>1, <5>1, Nothing DEF said
        <4>2. CASE answer = <<Hello>> /\ Hello \notin said
                   /\ HandshakeAt(s, k, r.hs, peer[s], rest, sent[s], said \cup {Hello})
          <5>1. Hello \in FlightsTo(s) /\ Hello \notin S /\ Hello # Fin
            BY <4>2 DEF FlightsTo, said, Said, Hello, Fin
          <5>2. Introduced(FlightsTo(s), S, <<Hello>>)
            BY <5>1, OneFlight
          <5>3. /\ <<Hello>> \in Seq({Hello, Fin}) /\ <<Hello>> \in Seq(Int)
                /\ Said(a, x.writing \o <<Hello>>) = said \cup {Hello}
            BY <1>1, SaidMore DEF said, Hello
          <5>. QED BY <4>0, <4>2, <5>2, <5>3
        <4>3. CASE /\ answer = <<Fin>> /\ Hello \in said /\ Fin \notin said
                   /\ s # "client" \/ k # "tls13"
                   /\ HandshakeAt(s, k, r.hs, peer[s], rest, sent[s], said \cup {Fin})
          <5>1. Fin \in FlightsTo(s) /\ Fin \notin S /\ Hello \in S
            BY <4>3 DEF FlightsTo, said, Said, Hello, Fin, k
          <5>2. Introduced(FlightsTo(s), S, <<Fin>>)
            BY <5>1, OneFlight
          <5>3. /\ <<Fin>> \in Seq({Hello, Fin}) /\ <<Fin>> \in Seq(Int)
                /\ Said(a, x.writing \o <<Fin>>) = said \cup {Fin}
            BY <1>1, SaidMore DEF said, Fin
          <5>. QED BY <4>0, <4>3, <5>2, <5>3
        <4>. QED BY <2>2, <4>1, <4>2, <4>3
      <3>2. Way(s, r, a, request, l)
        <4>1. FlowOK(k, FlightsTo(s), x.hs, a, x.writing, x.enc, request, l)
          BY DEF Way, k
        <4>2. FlowOK(k, FlightsTo(s), r.hs, a, x.writing \o answer, x.enc, request, l)
          BY <2>2, <2>7, <3>1, <4>1, FlowAnswer
        <4>. QED BY <1>2, <3>1, <4>2 DEF Way, k
      <3>3. r \in Record
        <4>1. x.plain \o new \in Seq(Int) /\ x.writing \o answer \in Seq(Int)
          BY <1>1, <2>2, <3>1
        <4>. QED BY <1>1, <1>2, <2>2, <2>4, <3>1, <4>1 DEF Record
      <3>4. Turn(s, r, a, rest)
        BY <3>1 DEF Turn, k
      <3>. QED BY <2>3, <2>5, <3>2, <3>3, <3>4 DEF WellRead, r, rest, first
    <2>. QED BY <2>6, <2>7
  <1>. QED BY <1>3, <1>4

\* Every token that was read for a TLS side is in one of its own buffers, or out.
Covered(x, a, m) ==
    1..m \subseteq Range(a) \cup Range(x.writing) \cup Range(x.enc)

\* The first two steps of a TLS side's on_write: queue and encrypt.
LEMMA EncryptKeeps ==
    ASSUME kind \in KindPairs,
           NEW s \in Sides, kind[s] # "plain", NEW c \in Record,
           NEW a \in Seq(Int), NEW request \in Seq(Int), NEW m, NEW q \in Seq(Int),
           Way(s, c, a, request, m), Turn(s, c, a, q)
    PROVE  LET x == Encrypt([c EXCEPT !.enc = @ \o request], s)
           IN /\ x \in Record /\ x.plain = c.plain
              /\ Way(s, x, a, request, m) /\ Turn(s, x, a, q) /\ Covered(x, a, m)
  <1>. DEFINE y == [c EXCEPT !.enc = @ \o request]
              x == Encrypt(y, s)
              F == FlightsTo(s)
  <1>1. /\ c.hs \in Stages /\ c.plain \in Seq(Int) /\ c.enc \in Seq(Int)
        /\ c.writing \in Seq(Int)
    BY DEF Record
  <1>2. /\ y.hs = c.hs /\ y.plain = c.plain /\ y.writing = c.writing
        /\ y.enc = c.enc \o request /\ c.enc \o request \in Seq(Int)
    BY <1>1 DEF Record
  <1>4. y \in Record
    <2>1. ASSUME NEW e \in Seq(Int)
          PROVE  [c EXCEPT !.enc = e] \in Record
      BY DEF Record
    <2>. QED BY <1>2, <2>1
  <1>5. Way(s, y, a, request, m) /\ Covered(y, a, m)
    <2>1. FlowOK(kind[s], F, c.hs, a, c.writing, c.enc, request, m)
      BY DEF Way
    <2>2. /\ FlowOK(kind[s], F, c.hs, a, c.writing, c.enc \o request, request, m)
          /\ 1..m \subseteq Range(a) \cup Range(c.writing) \cup Range(c.enc \o request)
      BY <2>1, FlowQueue
    <2>. QED BY <1>2, <2>2 DEF Way, Covered
  <1>6. Turn(s, y, a, q)
    BY <1>2 DEF Turn
  <1>. HIDE DEF y
  <1>7. /\ y.hs \in Stages /\ y.plain \in Seq(Int) /\ y.enc \in Seq(Int)
        /\ y.writing \in Seq(Int)
    BY <1>4 DEF Record
  <1>8. CASE y.hs = "done"
    <2>1. /\ x.hs = y.hs /\ x.plain = y.plain /\ x.enc = << >>
          /\ x.writing = y.writing \o y.enc
          /\ x = [hs |-> y.hs, plain |-> y.plain, enc |-> << >>,
                  writing |-> y.writing \o y.enc]
      BY <1>4, <1>8 DEF Encrypt, Sealed, Record
    <2>2. F \subseteq Said(a, y.writing)
      BY <1>6, <1>8 DEF Turn, HandshakeAt, ClientAt, BackendAt, FlightsTo, Sides, KindPairs
    <2>3. F \subseteq Range(a) \cup Range(y.writing)
      BY <2>2 DEF Said
    <2>4. /\ FlowOK(kind[s], F, y.hs, a, y.writing \o y.enc, << >>, request, m)
          /\ 1..m \subseteq Range(a) \cup Range(y.writing \o y.enc) \cup Range(<< >>)
      <3>1. /\ FlowOK(kind[s], F, y.hs, a, y.writing, y.enc, request, m)
            /\ 1..m \subseteq Range(a) \cup Range(y.writing) \cup Range(y.enc)
        BY <1>5 DEF Way, Covered
      <3>. HIDE DEF F
      <3>2. kind[s] # "plain" /\ F \subseteq Range(a) \cup Range(y.writing)
        BY <2>3
      <3>3. FlowOK(kind[s], F, y.hs, a, y.writing \o y.enc, << >>, request, m)
        BY <1>8, <3>1, <3>2, FlowSeal
      <3>4. 1..m \subseteq Range(a) \cup Range(y.writing \o y.enc) \cup Range(<< >>)
        <4>1. Range(y.writing \o y.enc) = Range(y.writing) \cup Range(y.enc)
          BY <1>7, RangeCat
        <4>. QED BY <3>1, <4>1
      <3>. QED BY <3>3, <3>4
    <2>5. Said(a, y.writing \o y.enc) = Said(a, y.writing)
      <3>1. Range(y.writing \o y.enc) = Range(y.writing) \cup Range(y.enc)
        BY <1>7, RangeCat
      <3>2. Range(y.enc) \subseteq 1..m
        <4>1. FlowOK(kind[s], F, y.hs, a, y.writing, y.enc, request, m)
          BY <1>5 DEF Way
        <4>. HIDE DEF F
        <4>2. Holding(kind[s], y.hs, Range(a), Range(y.writing), Range(y.enc),
                      Range(request), m)
          BY <4>1, FlowParts
        <4>. QED BY <4>2 DEF Holding
      <3>3. Hello \notin 1..m /\ Fin \notin 1..m
        BY DEF Hello, Fin
      <3>. QED BY <3>1, <3>2, <3>3 DEF Said
    <2>6. y.writing \o y.enc \in Seq(Int) /\ << >> \in Seq(Int)
      BY <1>7
    <2>. HIDE DEF x, F
    <2>7. x \in Record
      BY <1>7, <2>1, <2>6 DEF Record
    <2>8. Way(s, x, a, request, m) /\ Covered(x, a, m)
      BY <2>1, <2>4 DEF Way, Covered, F
    <2>9. Turn(s, x, a, q)
      BY <1>6, <2>1, <2>5 DEF Turn
    <2>. QED BY <1>2, <2>1, <2>7, <2>8, <2>9 DEF x, y
  <1>9. CASE y.hs # "done" /\ s = "backend" /\ y.hs = "start"
    <2>1. /\ x.hs = "half" /\ x.plain = y.plain /\ x.enc = y.enc
          /\ x.writing = Append(y.writing, Hello)
          /\ x = [hs |-> "half", plain |-> y.plain, enc |-> y.enc,
                  writing |-> Append(y.writing, Hello)]
      BY <1>4, <1>9 DEF Encrypt, Greeted, Record
    <2>2. Append(y.writing, Hello) = y.writing \o <<Hello>>
      <3>1. y.writing \in Seq(Int) /\ Hello \in Int
        BY <1>7 DEF Hello
      <3>. QED BY <3>1, AppendIsConcat, Zenon
    <2>3. /\ y.writing \o <<Hello>> \in Seq(Int) /\ <<Hello>> \in Seq({Hello, Fin})
          /\ Said(a, y.writing \o <<Hello>>) = Said(a, y.writing) \cup {Hello}
      BY <1>7, SaidMore
    <2>4. Said(a, y.writing) = {} /\ peer[s] = "start"
          /\ InboxIs(q, << >>, sent[s]) /\ ~(sent[s] > 0)
      BY <1>6, <1>9 DEF Turn, HandshakeAt, BackendAt
    <2>5. Hello \in F /\ Hello \notin Range(a) \cup Range(y.writing) /\ Hello # Fin
      BY <1>9, <2>4 DEF FlightsTo, Said, Hello, Fin
    <2>6. /\ Introduced(F, Range(a) \cup Range(y.writing), <<Hello>>)
          /\ Range(<<Hello>>) = {Hello}
      <3>. HIDE DEF F
      <3>. QED BY <2>5, OneFlight
    <2>7. FlowOK(kind[s], F, "half", a, y.writing \o <<Hello>>, y.enc, request, m)
      <3>1. FlowOK(kind[s], F, y.hs, a, y.writing, y.enc, request, m)
        BY <1>5 DEF Way
      <3>. HIDE DEF F
      <3>. QED BY <1>9, <2>3, <2>6, <3>1, FlowAnswer
    <2>8. Range(y.writing \o <<Hello>>) = Range(y.writing) \cup {Hello}
      <3>1. <<Hello>> \in Seq(Int) /\ y.writing \in Seq(Int)
        BY <1>7 DEF Hello
      <3>2. Range(y.writing \o <<Hello>>) = Range(y.writing) \cup Range(<<Hello>>)
        BY <3>1, RangeCat, Zenon
      <3>. QED BY <2>6, <3>2, Zenon
    <2>9. HandshakeAt(s, kind[s], "half", peer[s], q, sent[s], {Hello})
      BY <1>9, <2>4 DEF HandshakeAt, BackendAt
    <2>. HIDE DEF x, F
    <2>10. x \in Record
      BY <1>7, <2>1, <2>2, <2>3 DEF Record, Stages
    <2>11. Way(s, x, a, request, m) /\ Covered(x, a, m)
      BY <1>5, <2>1, <2>2, <2>7, <2>8 DEF Way, Covered, F
    <2>12. Turn(s, x, a, q)
      BY <2>1, <2>2, <2>3, <2>4, <2>9 DEF Turn
    <2>. QED BY <1>2, <2>1, <2>10, <2>11, <2>12 DEF x, y
  <1>10. CASE y.hs # "done" /\ ~(s = "backend" /\ y.hs = "start")
    <2>1. x = y
      BY <1>10 DEF Encrypt, Greeted
    <2>. QED BY <1>2, <1>4, <1>5, <1>6, <2>1 DEF y
  <1>. QED BY <1>8, <1>9, <1>10

\* A send fails, or takes no more than it was given and there is room for.
LEMMA SendsBounds ==
    ASSUME NEW s, room[s] \in Nat, NEW l \in Nat
    PROVE  \/ Sends(s, l) \in {-1, -2}
           \/ Sends(s, l) \in 0..l /\ Sends(s, l) <= room[s]
  BY DEF Sends, Smaller, UNKOWN_ERROR, WOULD_BLOCK

\* What on_write returned, or what stands for it when it was not called, keeps
\* the way and the handshake, whether or not the caller consumes the request.
WellWritten(s, c, a, m, q, r) ==
    LET rest == ReadNBytes(r.request, r.result)
    IN /\ r.conn \in Record /\ r.conn.plain = c.plain
       /\ r.request \in Seq(Int) /\ rest \in Seq(Int)
       /\ r.bytes \in Seq(Int) /\ Len(r.bytes) <= room[s]
       /\ Way(s, r.conn, a \o r.bytes, r.request, m)
       /\ Way(s, r.conn, a \o r.bytes, rest, m)
       /\ Turn(s, r.conn, a \o r.bytes, q)

\* An event without a write keeps the flow.
LEMMA NotWrittenKeeps ==
    ASSUME NEW s \in Sides, NEW c \in Record, room[s] \in Nat,
           NEW a \in Seq(Int), NEW request \in Seq(Int), NEW m, NEW q,
           Way(s, c, a, request, m), Turn(s, c, a, q)
    PROVE  WellWritten(s, c, a, m, q, NotWritten(c, request))
  <1>1. a \o << >> = a /\ Len(<< >>) = 0 /\ << >> \in Seq(Int)
    OBVIOUS
  <1>2. ReadNBytes(request, 0) = request
    BY DEF ReadNBytes
  <1>. QED BY <1>1, <1>2 DEF WellWritten, NotWritten

\* So does a write of a plain side.
LEMMA PlainWriteKeeps ==
    ASSUME NEW s \in Sides, kind[s] = "plain", NEW c \in Record, room[s] \in Nat,
           NEW a \in Seq(Int), NEW request \in Seq(Int), NEW m, NEW q,
           Way(s, c, a, request, m), Turn(s, c, a, q)
    PROVE  WellWritten(s, c, a, m, q, PlainWrite(c, s, request))
  <1>. DEFINE r == PlainWrite(c, s, request)
              n == Sends(s, Len(request))
              b == SubSeq(request, 1, n)
              F == FlightsTo(s)
  <1>1. r.conn = c /\ r.bytes = b /\ r.result = n /\ r.request = Cleared(request, n)
    BY DEF PlainWrite
  <1>2. n \in {-1, -2} \/ (n \in 0..Len(request) /\ n <= room[s])
    BY SendsBounds
  <1>3. \A x \in Seq(Int) : Turn(s, c, x, q)
    BY DEF Turn, HandshakeAt
  <1>4. FlowOK(kind[s], F, c.hs, a, c.writing, c.enc, request, m)
    BY DEF Way
  <1>. HIDE DEF r, n, F
  <1>5. CASE n \in {-1, -2}
    <2>1. b = << >>
      BY <1>5
    <2>2. Cleared(request, n) = request
      <3>1. /\ DOMAIN request = 1..Len(request) /\ Len(request) \in Nat
            /\ request = [i \in 1..Len(request) |-> request[i]]
        OBVIOUS
      <3>2. \A i \in 1..Len(request) : ~(i <= n)
        BY <1>5
      <3>3. Cleared(request, n) = [i \in 1..Len(request) |-> request[i]]
        BY <3>1, <3>2 DEF Cleared
      <3>. QED BY <3>1, <3>3
    <2>3. ReadNBytes(request, n) = request
      BY <1>5 DEF ReadNBytes
    <2>4. a \o << >> = a /\ Len(<< >>) = 0 /\ << >> \in Seq(Int)
      OBVIOUS
    <2>. HIDE DEF b
    <2>. QED BY <1>1, <2>1, <2>2, <2>3, <2>4 DEF WellWritten, r
  <1>6. CASE n \in 0..Len(request) /\ n <= room[s]
    <2>. DEFINE v == SubSeq(request, n + 1, Len(request))
                w == Cleared(request, n)
    <2>1. /\ FlowOK(kind[s], F, c.hs, a \o b, c.writing, c.enc, w, m)
          /\ FlowOK(kind[s], F, c.hs, a \o b, c.writing, c.enc, v, m)
          /\ SubSeq(w, n + 1, Len(w)) = v
      BY <1>4, <1>6, FlowPlain
    <2>2. b \in Seq(Int) /\ Len(b) = n /\ v \in Seq(Int)
      <3>1. Halves(request, n, b, v)
        BY <1>6, Split
      <3>. QED BY <3>1 DEF Halves
    <2>. HIDE DEF b, v, w
    <2>3. w \in Seq(Int)
      BY <2>1, FlowParts DEF Buffers
    <2>4. ReadNBytes(w, n) \in {w, v}
      BY <2>1 DEF ReadNBytes
    <2>5. Way(s, c, a \o b, w, m) /\ Way(s, c, a \o b, v, m)
      BY <2>1 DEF Way, F
    <2>6. a \o b \in Seq(Int)
      BY <2>2
    <2>. QED BY <1>1, <1>3, <1>6, <2>2, <2>3, <2>4, <2>5, <2>6 DEF WellWritten, w, r
  <1>. QED BY <1>2, <1>5, <1>6 DEF r

\* So does a write of a TLS side.
LEMMA TlsWriteKeeps ==
    ASSUME kind \in KindPairs,
           NEW s \in Sides, kind[s] # "plain", NEW c \in Record, room[s] \in Nat,
           NEW a \in Seq(Int), NEW request \in Seq(Int), NEW m, NEW q \in Seq(Int),
           Way(s, c, a, request, m), Turn(s, c, a, q)
    PROVE  WellWritten(s, c, a, m, q, TlsWrite(c, s, request))
  <1>. DEFINE r == TlsWrite(c, s, request)
              x == Encrypt([c EXCEPT !.enc = @ \o request], s)
              w == x.writing
              n == Sends(s, Len(w))
              F == FlightsTo(s)
  <1>1. /\ x \in Record /\ x.plain = c.plain
        /\ Way(s, x, a, request, m) /\ Turn(s, x, a, q) /\ Covered(x, a, m)
    BY EncryptKeeps
  <1>2. CASE w = << >>
    <2>1. /\ r.conn = x /\ r.bytes = << >> /\ r.result = 0 /\ r.request = request
      BY <1>2 DEF TlsWrite
    <2>2. a \o << >> = a /\ Len(<< >>) = 0 /\ << >> \in Seq(Int)
      OBVIOUS
    <2>3. ReadNBytes(request, 0) = request
      BY DEF ReadNBytes
    <2>. HIDE DEF r, x
    <2>. QED BY <1>1, <2>1, <2>2, <2>3 DEF WellWritten, r
  <1>3. CASE w # << >>
    <2>. DEFINE left == Unsent(w, n)
                y == [x EXCEPT !.writing = left]
                b == SubSeq(w, 1, n)
    <2>1. /\ r.conn = y /\ r.bytes = b /\ r.request = request
          /\ r.result = IF n < 0 THEN n ELSE Len(request)
      BY <1>3 DEF TlsWrite
    <2>. HIDE DEF r, x
    <2>2. /\ x.hs \in Stages /\ x.plain \in Seq(Int) /\ x.enc \in Seq(Int)
          /\ w \in Seq(Int) /\ Len(w) \in Nat
      BY <1>1 DEF Record
    <2>3. n \in {-1, -2} \/ (n \in 0..Len(w) /\ n <= room[s])
      BY <2>2, SendsBounds
    <2>4. /\ FlowOK(kind[s], F, x.hs, a, w, x.enc, request, m)
          /\ 1..m \subseteq Range(a) \cup Range(w) \cup Range(x.enc)
      BY <1>1 DEF Way, Covered
    <2>5. /\ y.hs = x.hs /\ y.plain = x.plain /\ y.enc = x.enc /\ y.writing = left
          /\ left \in Seq(Int) => y \in Record
      <3>. HIDE DEF left
      <3>. QED BY <1>1 DEF Record
    <2>. HIDE DEF y, n, F, w
    <2>6. CASE n \in {-1, -2}
      <3>. DEFINE junk == [i \in 1..-n |-> Junk]
      <3>1. left = junk \o w /\ b = << >>
        BY <2>6 DEF Unsent
      <3>2. junk \in Seq({Junk}) /\ junk \in Seq(Int)
        BY <2>6 DEF Junk
      <3>3. F \subseteq {Hello, Fin}
        BY DEF F, FlightsTo
      <3>. HIDE DEF junk, left, b
      <3>4. FlowOK(kind[s], F, x.hs, a, junk \o w, x.enc, request, m)
        BY <2>4, <3>2, <3>3, FlowJunk
      <3>5. Range(junk \o w) = Range(junk) \cup Range(w)
        BY <2>2, <3>2, RangeCat
      <3>6. Range(junk) \subseteq {Junk}
        BY <3>2, RangeTyped
      <3>7. Said(a, junk \o w) = Said(a, w)
        BY <3>5, <3>6 DEF Said, Junk, Hello, Fin
      <3>8. ReadNBytes(request, n) = request /\ n < 0
        BY <2>6 DEF ReadNBytes
      <3>9. a \o << >> = a /\ Len(<< >>) = 0 /\ << >> \in Seq(Int)
        OBVIOUS
      <3>10. left \in Seq(Int)
        BY <2>2, <3>1, <3>2
      <3>11. Way(s, y, a, request, m)
        BY <2>5, <3>1, <3>4 DEF Way, F
      <3>12. Turn(s, y, a, q)
        BY <1>1, <2>5, <3>1, <3>7 DEF Turn, w
      <3>. QED BY <1>1, <2>1, <2>5, <3>1, <3>8, <3>9, <3>10, <3>11, <3>12
               DEF WellWritten, r
    <2>7. CASE n \in 0..Len(w) /\ n <= room[s]
      <3>. DEFINE v == SubSeq(w, n + 1, Len(w))
      <3>1. left = v /\ ~(n < 0)
        BY <2>7 DEF Unsent
      <3>2. b \in Seq(Int) /\ v \in Seq(Int) /\ Len(b) = n /\ a \o b \in Seq(Int)
        <4>1. Halves(w, n, b, v)
          BY <2>2, <2>7, Split
        <4>. HIDE DEF b, v
        <4>2. b \in Seq(Int) /\ v \in Seq(Int) /\ Len(b) = n
          BY <4>1 DEF Halves
        <4>. QED BY <2>2, <4>2
      <3>3. /\ FlowOK(kind[s], F, x.hs, a \o b, v, x.enc, request, m)
            /\ Range(a \o b) \cup Range(v) = Range(a) \cup Range(w)
        BY <2>4, <2>7, FlowSend
      <3>. HIDE DEF b, v, left
      <3>4. 1..m \subseteq Range(a \o b) \cup Range(v) \cup Range(x.enc)
        BY <2>4, <3>3
      <3>5. FlowOK(kind[s], F, x.hs, a \o b, v, x.enc, << >>, m)
        BY <3>3, <3>4, FlowDrop
      <3>6. Said(a \o b, v) = Said(a, w)
        BY <3>3 DEF Said
      <3>7. ReadNBytes(request, Len(request)) = << >> /\ << >> \in Seq(Int)
        <4>1. Len(request) \in Nat /\ (Len(request) = 0 => request = << >>)
          OBVIOUS
        <4>2. SubSeq(request, Len(request) + 1, Len(request)) = << >>
          BY <4>1
        <4>. QED BY <4>1, <4>2 DEF ReadNBytes
      <3>8. /\ Way(s, y, a \o b, request, m) /\ Way(s, y, a \o b, << >>, m)
        BY <2>5, <3>1, <3>3, <3>5 DEF Way, F
      <3>9. Turn(s, y, a \o b, q)
        BY <1>1, <2>5, <3>1, <3>6 DEF Turn, w
      <3>. QED BY <1>1, <2>1, <2>5, <2>7, <3>1, <3>2, <3>7, <3>8, <3>9
               DEF WellWritten, r
    <2>. QED BY <2>3, <2>6, <2>7
  <1>. QED BY <1>2, <1>3

\* So does OnWrite of either kind.
LEMMA WriteKeeps ==
    ASSUME kind \in KindPairs,
           NEW s \in Sides, NEW c \in Record, room[s] \in Nat,
           NEW a \in Seq(Int), NEW request \in Seq(Int), NEW m, NEW q \in Seq(Int),
           Way(s, c, a, request, m), Turn(s, c, a, q)
    PROVE  WellWritten(s, c, a, m, q, OnWrite(c, s, request))
  BY PlainWriteKeeps, TlsWriteKeeps DEF OnWrite

-----------------------------------------------------------------------------
(* The events of a side, as a whole. *)

\* Ways and handshakes of both sides, s being the side that was read: c holds the
\* structs, b what was sent, and q is left in the socket of s.
BothKept(s, c, b, q) ==
    LET o == Other(s)
    IN /\ c[s] \in Record /\ c[o] \in Record /\ b[s] \in Seq(Int) /\ b[o] \in Seq(Int)
       /\ Way(s, c[s], b[s], c[o].plain, TakenFrom(o)) /\ Turn(s, c[s], b[s], q)
       /\ Way(o, c[o], b[o], c[s].plain, sent[s] - (Len(q) - Flights(q)))
       /\ Turn(o, c[o], b[o], inbox[o])

\* The types of what one side has.
LEMMA PartsTyped ==
    ASSUME TypeOK, NEW s \in Sides
    PROVE  /\ conn[s] \in Record /\ inbox[s] \in Seq(Int) /\ out[s] \in Seq(Int)
           /\ sent[s] \in Nat /\ room[s] \in 0..Room
           /\ Other(s) \in Sides /\ Other(s) # s /\ Other(Other(s)) = s
           /\ \A z \in Sides : z = s \/ z = Other(s)
  <1>1. conn[s] \in Conn(s) /\ inbox[s] \in Seq(Int) /\ out[s] \in Seq(Int)
    BY DEF TypeOK
  <1>2. /\ {Zero} \cup 1..Tokens(s) \subseteq Int /\ 1..Tokens(Other(s)) \subseteq Int
        /\ Symbols(Other(s)) \subseteq Int
    BY DEF Zero, Hello, Fin, Junk, Symbols
  <1>3. \A T \in SUBSET Int : \A z \in Seq(T) : z \in Seq(Int)
    BY SeqMonotonic
  <1>4. conn[s] \in Record
    BY <1>1, <1>2, <1>3 DEF Conn, Record
  <1>. QED BY <1>1, <1>4 DEF TypeOK, Sides, Other

\* Reads and writes of one event, whichever of them are called, keep the flow.
LEMMA HandledKeeps ==
    ASSUME ConstantsAssumption, RelayInv, NEW s \in Sides
    PROVE  LET h == Handled(s)
               rest == SubSeq(inbox[s], h.read + 1, Len(inbox[s]))
           IN /\ h.conn = [z \in Sides |-> h.conn[z]]
              /\ h.dies \in BOOLEAN /\ rest \in Seq(Int)
              /\ \A z \in Sides : h.bytes[z] \in Seq(Int) /\ Len(h.bytes[z]) <= room[z]
              /\ BothKept(s, h.conn, [z \in Sides |-> out[z] \o h.bytes[z]], rest)
  <1>. DEFINE o == Other(s)
              n == IF "in" \in pend[s] THEN Smaller(Chunk, Len(inbox[s])) ELSE 0
              writes == n > 0 /\ o \in canWrite
              dies == writes /\ CannotRead(s)
              rest == SubSeq(inbox[s], n + 1, Len(inbox[s]))
              read == OnRead(conn[s], s, SubSeq(inbox[s], 1, n))
              there == IF writes THEN OnWrite(conn[o], o, read.plain)
                                 ELSE NotWritten(conn[o], read.plain)
              left == ReadNBytes(there.request, there.result)
              self == [read EXCEPT !.plain = left]
              here == IF "out" \in pend[s] /\ ~dies
                      THEN OnWriteEvent(self, s, there.conn.plain)
                      ELSE NotWritten(self, there.conn.plain)
              last == [there.conn EXCEPT !.plain = here.request]
              h == Handled(s)
              l == TakenFrom(o)
              m == sent[s] - (Len(rest) - Flights(rest))
  <1>1. /\ h.read = n /\ h.dies = dies
        /\ h.conn = [z \in Sides |-> IF z = s THEN here.conn ELSE last]
        /\ h.bytes = [z \in Sides |-> IF z = s THEN here.bytes ELSE there.bytes]
    BY DEF Handled
  <1>2. /\ conn[s] \in Record /\ inbox[s] \in Seq(Int) /\ out[s] \in Seq(Int)
        /\ conn[o] \in Record /\ inbox[o] \in Seq(Int) /\ out[o] \in Seq(Int)
        /\ sent[s] \in Nat /\ room[s] \in Nat /\ room[o] \in Nat /\ kind \in KindPairs
        /\ o \in Sides /\ o # s /\ Other(o) = s /\ \A z \in Sides : z = s \/ z = o
    BY PartsTyped DEF RelayInv, TypeOK, ConstantsAssumption
  <1>3. n \in 0..Len(inbox[s])
    BY <1>2 DEF ConstantsAssumption, Smaller
  <1>4. /\ Way(s, conn[s], out[s], conn[o].plain, l)
        /\ Turn(s, conn[s], out[s], inbox[s])
        /\ Way(o, conn[o], out[o], conn[s].plain,
               sent[s] - (Len(inbox[s]) - Flights(inbox[s])))
        /\ Turn(o, conn[o], out[o], inbox[o])
    <2>1. FlowInv(s) /\ FlowInv(o) /\ HandshakeInv(s) /\ HandshakeInv(o)
      BY <1>2 DEF RelayInv
    <2>. QED BY <1>2, <2>1 DEF Way, Turn, FlowInv, HandshakeInv, SaidTo, Said, TakenFrom
  <1>. HIDE DEF h, n, o, l
  <1>5. /\ read \in Record /\ rest \in Seq(Int)
        /\ Way(o, conn[o], out[o], read.plain, m)
        /\ Way(s, read, out[s], conn[o].plain, l) /\ Turn(s, read, out[s], rest)
    <2>1. WellRead(s, o, conn[s], conn[o], out[o], out[s], conn[o].plain, l,
                   inbox[s], n)
      BY <1>2, <1>3, <1>4, ReadKeeps
    <2>. QED BY <2>1 DEF WellRead
  <1>. HIDE DEF read, rest, m
  <1>6. read.plain \in Seq(Int)
    BY <1>5 DEF Record
  <1>7. WellWritten(o, conn[o], out[o], m, inbox[o], there)
    <2>1. WellWritten(o, conn[o], out[o], m, inbox[o], OnWrite(conn[o], o, read.plain))
      BY <1>2, <1>4, <1>5, <1>6, WriteKeeps
    <2>2. WellWritten(o, conn[o], out[o], m, inbox[o], NotWritten(conn[o], read.plain))
      BY <1>2, <1>4, <1>5, <1>6, NotWrittenKeeps
    <2>. HIDE DEF writes
    <2>. QED BY <2>1, <2>2
  <1>. HIDE DEF there
  <1>8. /\ there.conn \in Record /\ there.conn.plain = conn[o].plain /\ left \in Seq(Int)
        /\ there.bytes \in Seq(Int) /\ Len(there.bytes) <= room[o]
        /\ Way(o, there.conn, out[o] \o there.bytes, left, m)
        /\ Turn(o, there.conn, out[o] \o there.bytes, inbox[o])
    BY <1>7 DEF WellWritten
  <1>. HIDE DEF left
  <1>9. /\ self \in Record /\ self.plain = left /\ self.hs = read.hs
        /\ self.enc = read.enc /\ self.writing = read.writing
    BY <1>5, <1>8 DEF Record
  <1>. HIDE DEF self
  <1>10. Way(s, self, out[s], conn[o].plain, l) /\ Turn(s, self, out[s], rest)
    BY <1>5, <1>9 DEF Way, Turn
  <1>11. WellWritten(s, self, out[s], l, rest, here)
    <2>1. conn[o].plain \in Seq(Int)
      BY <1>2 DEF Record
    <2>2. WellWritten(s, self, out[s], l, rest, OnWrite(self, s, conn[o].plain))
      BY <1>2, <1>5, <1>9, <1>10, <2>1, WriteKeeps
    <2>3. WellWritten(s, self, out[s], l, rest, NotWritten(self, conn[o].plain))
      BY <1>2, <1>9, <1>10, <2>1, NotWrittenKeeps
    <2>. HIDE DEF dies
    <2>. QED BY <1>8, <2>2, <2>3 DEF OnWriteEvent
  <1>. HIDE DEF here
  <1>12. /\ here.conn \in Record /\ here.conn.plain = left /\ here.request \in Seq(Int)
         /\ here.bytes \in Seq(Int) /\ Len(here.bytes) <= room[s]
         /\ Way(s, here.conn, out[s] \o here.bytes, here.request, l)
         /\ Turn(s, here.conn, out[s] \o here.bytes, rest)
    BY <1>9, <1>11 DEF WellWritten
  <1>13. /\ last \in Record /\ last.plain = here.request /\ last.hs = there.conn.hs
         /\ last.enc = there.conn.enc /\ last.writing = there.conn.writing
    BY <1>8, <1>12 DEF Record
  <1>. HIDE DEF last
  <1>14. /\ Way(o, last, out[o] \o there.bytes, here.conn.plain, m)
         /\ Turn(o, last, out[o] \o there.bytes, inbox[o])
         /\ Way(s, here.conn, out[s] \o here.bytes, last.plain, l)
    BY <1>8, <1>12, <1>13 DEF Way, Turn
  <1>15. /\ h.conn[s] = here.conn /\ h.conn[o] = last
         /\ h.bytes[s] = here.bytes /\ h.bytes[o] = there.bytes
         /\ h.conn = [z \in Sides |-> h.conn[z]]
    BY <1>1, <1>2
  <1>16. /\ out[s] \o here.bytes \in Seq(Int) /\ out[o] \o there.bytes \in Seq(Int)
    BY <1>2, <1>8, <1>12
  <1>17. BothKept(s, h.conn, [z \in Sides |-> out[z] \o h.bytes[z]], rest)
    BY <1>2, <1>8, <1>12, <1>13, <1>14, <1>15, <1>16 DEF BothKept, o, l, m
  <1>18. \A z \in Sides : h.bytes[z] \in Seq(Int) /\ Len(h.bytes[z]) <= room[z]
    BY <1>2, <1>8, <1>12, <1>15
  <1>19. h.dies \in BOOLEAN
    BY <1>1
  <1>20. rest = SubSeq(inbox[s], h.read + 1, Len(inbox[s]))
    BY <1>1 DEF rest
  <1>. QED BY <1>5, <1>15, <1>17, <1>18, <1>19, <1>20 DEF h

-----------------------------------------------------------------------------
(* The invariant, action by action. *)

\* What a peer adds to its socket.
LEMMA DeliverFlight ==
    ASSUME NEW q \in Seq(Int), InboxIs(q, << >>, 0), NEW x \in {Hello, Fin}
    PROVE  /\ q = << >> /\ Append(q, x) \in Seq(Int) /\ InboxIs(Append(q, x), <<x>>, 0)
           /\ Len(Append(q, x)) - Flights(Append(q, x)) = 0
           /\ Len(q) - Flights(q) = 0
  <1>1. q = << >>
    <2>1. Len(q) <= 0 /\ Len(q) \in Nat
      BY DEF InboxIs
    <2>. QED BY <2>1
  <1>2. Append(q, x) = <<x>> /\ <<x>> \in Seq(Int) /\ Len(<<x>>) = 1 /\ <<x>>[1] = x
        /\ DOMAIN <<x>> = {1}
    BY <1>1 DEF Hello, Fin
  <1>3. InboxIs(<<x>>, <<x>>, 0)
    BY <1>2 DEF InboxIs
  <1>4. Has(<<x>>, x) /\ \A y : Has(<<x>>, y) => y = x
    BY <1>2 DEF Has
  <1>5. Flights(<<x>>) = 1
    BY <1>4 DEF Flights, Hello, Fin
  <1>6. Flights(q) = 0 /\ Len(q) = 0
    BY <1>1 DEF Flights, Has
  <1>. QED BY <1>1, <1>2, <1>3, <1>5, <1>6

\* A peer that sends adds its next token to the socket.
LEMMA DeliverToken ==
    ASSUME NEW q \in Seq(Int), NEW f \in Starts, NEW n \in Nat, InboxIs(q, f, n)
    PROVE  LET r == Append(q, n + 1)
           IN /\ r \in Seq(Int) /\ InboxIs(r, f, n + 1)
              /\ n + 1 - (Len(r) - Flights(r)) = n - (Len(q) - Flights(q))
  <1>. DEFINE r == Append(q, n + 1)
  <1>1. /\ r \in Seq(Int) /\ Len(r) = Len(q) + 1 /\ Len(q) \in Nat
        /\ DOMAIN q = 1..Len(q) /\ DOMAIN r = 1..Len(q) + 1
        /\ \A i \in 1..Len(q) : r[i] = q[i]
        /\ r[Len(q) + 1] = n + 1
    OBVIOUS
  <1>2. Flights(q) = Len(f) /\ Len(f) \in {0, 1}
    BY InboxFlights
  <1>3. Len(f) <= Len(q) /\ Len(q) - Len(f) <= n
    BY DEF InboxIs
  <1>. HIDE DEF r
  <1>4. ASSUME NEW i \in DOMAIN r
        PROVE  r[i] = IF i <= Len(f) THEN f[i] ELSE n + 1 - (Len(r) - i)
    <2>1. CASE i \in 1..Len(q)
      <3>1. r[i] = IF i <= Len(f) THEN f[i] ELSE n - (Len(q) - i)
        BY <1>1, <2>1 DEF InboxIs
      <3>2. n + 1 - (Len(r) - i) = n - (Len(q) - i)
        BY <1>1, <2>1
      <3>. QED BY <3>1, <3>2
    <2>2. CASE i = Len(q) + 1
      <3>1. ~(i <= Len(f)) /\ n + 1 - (Len(r) - i) = n + 1
        BY <1>1, <1>2, <1>3, <2>2
      <3>. QED BY <1>1, <2>2, <3>1
    <2>. QED BY <1>1, <2>1, <2>2
  <1>5. InboxIs(r, f, n + 1)
    <2>1. Len(f) <= Len(r) /\ Len(r) - Len(f) <= n + 1
      BY <1>1, <1>2, <1>3
    <2>. QED BY <1>4, <2>1 DEF InboxIs
  <1>6. Flights(r) = Len(f)
    BY <1>1, <1>5, InboxFlights
  <1>7. n + 1 - (Len(r) - Flights(r)) = n - (Len(q) - Flights(q))
    BY <1>1, <1>2, <1>6
  <1>. QED BY <1>1, <1>5, <1>7 DEF r

\* Before anything was read there is no flow.
LEMMA FlowNothing ==
    ASSUME NEW k, NEW F, NEW hs
    PROVE  FlowOK(k, F, hs, << >>, << >>, << >>, << >>, 0)
  <1>1. /\ Range(<< >>) = {} /\ << >> \in Seq(Int) /\ 1..0 = {}
        /\ \A S : Follows(S, << >>) /\ Fresh(S, << >>) /\ Introduced(F, S, << >>)
    BY Nothing
  <1>2. Buffers(<< >>, << >>, << >>, << >>)
    BY <1>1 DEF Buffers
  <1>3. Holding(k, hs, {}, {}, {}, {}, 0)
    BY <1>1 DEF Holding
  <1>4. InOrder(k, F, << >>, << >>, << >>, << >>)
    BY <1>1 DEF InOrder
  <1>. QED BY <1>1, <1>2, <1>3, <1>4, FlowParts

\* The buffers of a flow hold tokens that were sent, flights and foreign bytes.
LEMMA FlowTyped ==
    ASSUME NEW k, NEW F, NEW hs, NEW a, NEW w, NEW e, NEW p, NEW m,
           FlowOK(k, F, hs, a, w, e, p, m), NEW t \in Nat, m <= t
    PROVE  /\ a \in Seq({Zero, Hello, Fin, Junk} \cup 1..t)
           /\ w \in Seq({Zero, Hello, Fin, Junk} \cup 1..t)
           /\ e \in Seq(1..t) /\ p \in Seq({Zero} \cup 1..t)
  <1>1. /\ m \in Nat /\ Buffers(a, w, e, p)
        /\ Holding(k, hs, Range(a), Range(w), Range(e), Range(p), m)
    BY FlowParts
  <1>2. 1..m \subseteq 1..t /\ 0..m \subseteq {Zero} \cup 1..t
    BY <1>1 DEF Zero
  <1>3. /\ Range(a) \subseteq {Zero, Hello, Fin, Junk} \cup 1..t
        /\ Range(w) \subseteq {Zero, Hello, Fin, Junk} \cup 1..t
        /\ Range(e) \subseteq 1..t /\ Range(p) \subseteq {Zero} \cup 1..t
    BY <1>1, <1>2 DEF Holding
  <1>4. /\ {Zero, Hello, Fin, Junk} \cup 1..t \subseteq Int
        /\ 1..t \subseteq Int /\ {Zero} \cup 1..t \subseteq Int
    BY DEF Zero, Hello, Fin, Junk
  <1>. QED BY <1>1, <1>3, <1>4, SeqOver DEF Buffers

\* The contents of the sockets and of the buffers are typed by the rest of the
\* invariant.
Loosely ==
    /\ kind \in KindPairs
    /\ DOMAIN conn = Sides
    /\ inbox \in [Sides -> Seq(Int)] /\ out \in [Sides -> Seq(Int)]
    /\ \A s \in Sides : conn[s] \in Record /\ sent[s] <= Tokens(s)
    /\ sent \in [Sides -> Nat]
    /\ room \in [Sides -> 0..Room]
    /\ drains \in 0..MaxDrains
    /\ edge \subseteq Sides /\ canWrite \subseteq Sides
    /\ closed \subseteq gone /\ gone \subseteq HangUps
    /\ pend \in [Sides -> SUBSET {"in", "out", "hup"}]
    /\ peer \in [Sides -> Stages]
    /\ up \in BOOLEAN

BothSides == \A s \in Sides : HandshakeInv(s) /\ FlowInv(s)

\* Wherever the handshake is, a socket holds flights and then tokens.
LEMMA SocketStarts ==
    ASSUME NEW s, NEW k, NEW hs, NEW stage, NEW q, NEW n, NEW said,
           HandshakeAt(s, k, hs, stage, q, n, said)
    PROVE  \E f \in Starts : InboxIs(q, f, n)
  BY DEF HandshakeAt, ClientAt, BackendAt, Starts

\* The loose types and the flows give the exact types.
LEMMA Tighten == Loosely /\ BothSides => TypeOK
  <1>. SUFFICES ASSUME Loosely, BothSides
                PROVE  TypeOK
    OBVIOUS
  <1>1. ASSUME NEW s \in Sides
        PROVE  /\ inbox[s] \in Seq(Symbols(s))
               /\ TakenFrom(s) <= Tokens(s)
    <2>. DEFINE q == inbox[s]  n == sent[s]
    <2>1. q \in Seq(Int) /\ n \in Nat /\ n <= Tokens(s) /\ Tokens(s) \in Nat
      BY ConstantsAssumption DEF Loosely, Tokens, ConstantsAssumption
    <2>2. HandshakeAt(s, kind[s], conn[s].hs, peer[s], q, n, SaidTo(s))
      BY DEF BothSides, HandshakeInv
    <2>. HIDE DEF q, n
    <2>3. PICK f \in Starts : InboxIs(q, f, n)
      BY <2>2, SocketStarts
    <2>4. /\ Len(f) \in {0, 1} /\ Len(q) - Flights(q) \in 0..n
          /\ \A i \in DOMAIN q : i > Len(f) => q[i] \in 1..n
      BY <2>1, <2>3, InboxFlights
    <2>5. \A i \in DOMAIN q : i <= Len(f) => q[i] \in {Hello, Fin}
      <3>1. \A i \in 1..Len(f) : f[i] \in {Hello, Fin}
        BY DEF Starts
      <3>2. \A i \in DOMAIN q : i <= Len(f) => i \in 1..Len(f) /\ q[i] = f[i]
        BY <2>1, <2>3, <2>4 DEF InboxIs
      <3>. QED BY <3>1, <3>2
    <2>6. \A i \in DOMAIN q : q[i] \in Symbols(s)
      <3>1. 1..n \subseteq Symbols(s) /\ Hello \in Symbols(s) /\ Fin \in Symbols(s)
        BY <2>1 DEF Symbols
      <3>2. \A i \in DOMAIN q : i <= Len(f) \/ i > Len(f)
        BY <2>1, <2>4
      <3>. QED BY <2>4, <2>5, <3>1, <3>2
    <2>7. Symbols(s) \subseteq Int
      BY DEF Symbols, Zero, Hello, Fin, Junk
    <2>8. q \in Seq(Symbols(s))
      <3>1. Range(q) \subseteq Symbols(s)
        BY <2>6 DEF Range
      <3>. QED BY <2>1, <2>7, <3>1, SeqOver
    <2>9. n - (Len(q) - Flights(q)) <= Tokens(s)
      BY <2>1, <2>4
    <2>. QED BY <2>8, <2>9 DEF TakenFrom, q, n
  <1>2. ASSUME NEW s \in Sides
        PROVE  conn[s] \in Record /\ conn[s].enc \in Seq(1..Tokens(Other(s)))
               /\ conn[s].writing \in Seq(Symbols(Other(s)))
               /\ out[s] \in Seq(Symbols(Other(s)))
               /\ conn[Other(s)].plain \in Seq({Zero} \cup 1..Tokens(Other(s)))
    <2>1. Other(s) \in Sides
      BY DEF Other, Sides
    <2>2. TakenFrom(Other(s)) <= Tokens(Other(s)) /\ Tokens(Other(s)) \in Nat
      BY <1>1, <2>1, ConstantsAssumption DEF Tokens, ConstantsAssumption
    <2>3. FlowOK(kind[s], FlightsTo(s), conn[s].hs, out[s], conn[s].writing,
                 conn[s].enc, conn[Other(s)].plain, TakenFrom(Other(s)))
      BY DEF BothSides, FlowInv
    <2>4. conn[s] \in Record
      BY DEF Loosely
    <2>. HIDE DEF Record
    <2>. QED BY <2>2, <2>3, <2>4, FlowTyped DEF Symbols
  <1>3. ASSUME NEW s \in Sides
        PROVE  conn[s] \in Conn(s)
    <2>1. Other(s) \in Sides /\ Other(Other(s)) = s
      BY DEF Other, Sides
    <2>2. conn[s].plain \in Seq({Zero} \cup 1..Tokens(s))
      BY <1>2, <2>1
    <2>. QED BY <1>2, <2>2 DEF Conn, Record
  <1>. QED BY <1>1, <1>2, <1>3 DEF TypeOK, Loosely

\* RelayInv with loose types.
LEMMA Strengthen == RelayInv <=> Loosely /\ HangUpInv /\ BothSides
  <1>1. RelayInv => Loosely /\ HangUpInv /\ BothSides
    <2>. SUFFICES ASSUME RelayInv
                  PROVE  Loosely
      BY DEF RelayInv, BothSides
    <2>1. TypeOK
      BY DEF RelayInv
    <2>2. \A s \in Sides : conn[s] \in Record
      BY <2>1, PartsTyped
    <2>. QED BY <2>1, <2>2 DEF TypeOK, Loosely
  <1>2. Loosely /\ HangUpInv /\ BothSides => RelayInv
    BY Tighten DEF RelayInv, BothSides
  <1>. QED BY <1>1, <1>2

\* Initially everything is empty.
LEMMA InitInv == Init => RelayInv
  <1>. SUFFICES ASSUME Init
                PROVE  Loosely /\ HangUpInv /\ BothSides
    BY Strengthen
  <1>0. kind \in KindPairs
    BY ConstantsAssumption DEF Init, ConstantsAssumption
  <1>1. /\ << >> \in Seq(Int) /\ Len(<< >>) = 0 /\ Range(<< >>) = {}
        /\ DOMAIN << >> = {} /\ Flights(<< >>) = 0
    BY Nothing DEF Flights, Has
  <1>2. ASSUME NEW s \in Sides
        PROVE  /\ conn[s] = NewConn(kind[s]) /\ conn[s].plain = << >>
               /\ conn[s].enc = << >> /\ conn[s].writing = << >>
               /\ conn[s].hs = IF kind[s] = "plain" THEN "done" ELSE "start"
               /\ conn[s] \in Record
               /\ inbox[s] = << >> /\ out[s] = << >> /\ sent[s] = 0
               /\ peer[s] = conn[s].hs /\ Other(s) \in Sides
    BY <1>1 DEF Init, NewConn, Record, Stages, Other, Sides
  <1>3. Loosely
    <2>1. \A s \in Sides : peer[s] \in Stages /\ sent[s] <= Tokens(s)
      BY <1>2, ConstantsAssumption DEF ConstantsAssumption, Tokens, Stages
    <2>2. /\ DOMAIN conn = Sides /\ inbox \in [Sides -> Seq(Int)]
          /\ out \in [Sides -> Seq(Int)] /\ sent \in [Sides -> Nat]
          /\ peer \in [Sides -> Stages]
      BY <1>1, <1>2 DEF Init, Stages
    <2>3. /\ room \in [Sides -> 0..Room] /\ drains \in 0..MaxDrains
          /\ pend \in [Sides -> SUBSET {"in", "out", "hup"}]
      BY ConstantsAssumption DEF ConstantsAssumption, Init
    <2>4. /\ edge \subseteq Sides /\ canWrite \subseteq Sides
          /\ closed \subseteq gone /\ gone \subseteq HangUps /\ up \in BOOLEAN
      BY DEF Init
    <2>. QED BY <1>0, <1>2, <2>1, <2>2, <2>3, <2>4 DEF Loosely
  <1>4. HangUpInv
    BY DEF Init, HangUpInv
  <1>5. ASSUME NEW s \in Sides
        PROVE  HandshakeInv(s) /\ FlowInv(s)
    <2>1. InboxIs(<< >>, << >>, 0)
      BY <1>1 DEF InboxIs
    <2>2. SaidTo(s) = {}
      BY <1>1, <1>2 DEF SaidTo
    <2>3. HandshakeInv(s)
      BY <1>0, <1>2, <2>1, <2>2
         DEF HandshakeInv, HandshakeAt, ClientAt, BackendAt, Sides, KindPairs
    <2>4. TakenFrom(Other(s)) = 0
      BY <1>1, <1>2 DEF TakenFrom
    <2>5. FlowOK(kind[s], FlightsTo(s), conn[s].hs, << >>, << >>, << >>, << >>, 0)
      BY FlowNothing
    <2>6. FlowInv(s)
      BY <1>2, <2>4, <2>5 DEF FlowInv
    <2>. QED BY <2>3, <2>6
  <1>. QED BY <1>3, <1>4, <1>5 DEF BothSides

\* Only a socket and what its peer knows change.
LEMMA SocketKeeps ==
    ASSUME BothSides, Loosely, NEW s \in Sides,
           UNCHANGED <<kind, conn, out>>,
           \A z \in Sides : z # s =>
               inbox'[z] = inbox[z] /\ peer'[z] = peer[z] /\ sent'[z] = sent[z],
           HandshakeAt(s, kind[s], conn[s].hs, peer'[s], inbox'[s], sent'[s], SaidTo(s)),
           TakenFrom(s)' = TakenFrom(s)
    PROVE  BothSides'
  <1>1. \A z \in Sides : TakenFrom(z)' = TakenFrom(z)
    BY DEF TakenFrom
  <1>2. ASSUME NEW z \in Sides
        PROVE  HandshakeInv(z)'
    <2>1. SaidTo(z)' = SaidTo(z)
      BY DEF SaidTo
    <2>. QED BY <2>1 DEF BothSides, HandshakeInv
  <1>3. ASSUME NEW z \in Sides
        PROVE  FlowInv(z)'
    <2>1. Other(z) \in Sides
      BY DEF Other, Sides
    <2>2. FlightsTo(z)' = FlightsTo(z)
      BY DEF FlightsTo
    <2>. QED BY <1>1, <2>1, <2>2 DEF BothSides, FlowInv
  <1>. QED BY <1>2, <1>3 DEF BothSides

\* What was received was sent, and so was said.
LEMMA ReceivedSaid ==
    ASSUME NEW s \in Sides, NEW x \in {Hello, Fin}, Received(s, x)
    PROVE  x \in SaidTo(s)
  BY DEF Received, SaidTo, Range

\* A peer answers the handshake: only it and the flight it may send are new.
LEMMA ShakesKeep ==
    ASSUME RelayInv, NEW s \in Sides, NEW stage \in Stages,
           s \notin gone, peer' = [peer EXCEPT ![s] = stage],
           UNCHANGED <<zroxy, room, drains, sent, gone>>,
           \/ UNCHANGED <<inbox, edge>>
           \/ /\ InboxIs(inbox[s], << >>, 0) /\ sent[s] = 0
              /\ \E x \in {Hello, Fin} : Deliver(s, x),
           HandshakeAt(s, kind[s], conn[s].hs, stage, inbox'[s], sent[s], SaidTo(s))
    PROVE  RelayInv'
  <1>1. Loosely /\ HangUpInv /\ BothSides
    BY Strengthen
  <1>2. peer' \in [Sides -> Stages] /\ peer'[s] = stage
        /\ \A z \in Sides : z # s => peer'[z] = peer[z]
    BY <1>1 DEF Loosely
  <1>3. /\ inbox' \in [Sides -> Seq(Int)] /\ edge' \subseteq Sides
        /\ \A z \in Sides : z # s => inbox'[z] = inbox[z]
        /\ TakenFrom(s)' = TakenFrom(s)
    <2>1. CASE UNCHANGED <<inbox, edge>>
      BY <1>1, <2>1 DEF Loosely, TakenFrom
    <2>2. CASE /\ InboxIs(inbox[s], << >>, 0) /\ sent[s] = 0
               /\ \E x \in {Hello, Fin} : Deliver(s, x)
      <3>1. PICK x \in {Hello, Fin} : Deliver(s, x)
        BY <2>2
      <3>2. inbox \in [Sides -> Seq(Int)] /\ inbox[s] \in Seq(Int) /\ edge \subseteq Sides
        BY <1>1 DEF Loosely
      <3>3. /\ Append(inbox[s], x) \in Seq(Int)
            /\ Len(Append(inbox[s], x)) - Flights(Append(inbox[s], x)) = 0
            /\ Len(inbox[s]) - Flights(inbox[s]) = 0
        BY <2>2, <3>2, DeliverFlight
      <3>4. inbox' = [inbox EXCEPT ![s] = Append(inbox[s], x)]
            /\ edge' = edge \cup {s}
        BY <3>1 DEF Deliver
      <3>5. inbox'[s] = Append(inbox[s], x) /\ inbox' \in [Sides -> Seq(Int)]
            /\ \A z \in Sides : z # s => inbox'[z] = inbox[z]
        BY <3>2, <3>3, <3>4
      <3>6. TakenFrom(s)' = TakenFrom(s)
        BY <3>3, <3>5 DEF TakenFrom
      <3>. QED BY <3>2, <3>4, <3>5, <3>6
    <2>. QED BY <2>1, <2>2
  <1>4. BothSides'
    BY <1>1, <1>2, <1>3, SocketKeeps DEF zroxy
  <1>5. Loosely'
    BY <1>1, <1>2, <1>3 DEF Loosely, zroxy
  <1>6. HangUpInv'
    BY <1>1 DEF HangUpInv, zroxy
  <1>. QED BY <1>4, <1>5, <1>6, Strengthen, PTL

\* The answers of the client and of the backend.
LEMMA ClientShakesKeeps ==
    ASSUME RelayInv, ClientShakes
    PROVE  RelayInv'
  <1>. DEFINE s == "client"  k == kind[s]  hs == conn[s].hs  q == inbox[s]
              n == sent[s]
  <1>1. /\ s \in Sides /\ k \in {"plain", "tls12", "tls13"} /\ q \in Seq(Int)
        /\ n \in Nat /\ Hello # Fin
        /\ HandshakeAt(s, k, hs, peer[s], q, n, SaidTo(s))
        /\ inbox \in [Sides -> Seq(Int)]
    BY DEF RelayInv, TypeOK, HandshakeInv, Sides, KindPairs, Hello, Fin
  <1>2. CASE Shakes(s, "start", "half") /\ Deliver(s, Hello)
    <2>1. /\ hs = "start" /\ SaidTo(s) = {} /\ n = 0 /\ InboxIs(q, << >>, 0)
          /\ k # "plain"
      BY <1>1, <1>2 DEF Shakes, HandshakeAt, ClientAt
    <2>2. InboxIs(inbox'[s], <<Hello>>, 0)
      <3>1. inbox'[s] = Append(q, Hello)
        BY <1>1, <1>2 DEF Deliver
      <3>. QED BY <1>1, <2>1, <3>1, DeliverFlight
    <2>3. HandshakeAt(s, k, hs, "half", inbox'[s], n, SaidTo(s))
      BY <2>1, <2>2 DEF HandshakeAt, ClientAt
    <2>. QED BY <1>1, <1>2, <2>1, <2>3, ShakesKeep DEF Shakes, Stages
  <1>3. CASE /\ Received(s, Hello) /\ Deliver(s, Fin)
             /\ Shakes(s, "half", IF k = "tls12" THEN "last" ELSE "done")
    <2>1. Hello \in SaidTo(s)
      BY <1>1, <1>3, ReceivedSaid
    <2>2. /\ hs = "half" /\ SaidTo(s) = {Hello} /\ n = 0 /\ InboxIs(q, << >>, 0)
          /\ k # "plain"
      BY <1>1, <1>3, <2>1 DEF Shakes, HandshakeAt, ClientAt
    <2>3. InboxIs(inbox'[s], <<Fin>>, 0)
      <3>1. inbox'[s] = Append(q, Fin)
        BY <1>1, <1>3 DEF Deliver
      <3>. QED BY <1>1, <2>2, <3>1, DeliverFlight
    <2>. DEFINE late == IF k = "tls12" THEN "last" ELSE "done"
    <2>4. HandshakeAt(s, k, hs, late, inbox'[s], n, SaidTo(s))
      BY <2>2, <2>3 DEF HandshakeAt, ClientAt
    <2>5. s \notin gone /\ peer' = [peer EXCEPT ![s] = late] /\ late \in Stages
          /\ UNCHANGED <<zroxy, room, drains, sent, gone>>
      BY <1>3 DEF Shakes, Stages
    <2>. HIDE DEF late
    <2>. QED BY <1>1, <1>3, <2>2, <2>4, <2>5, ShakesKeep
  <1>4. CASE /\ Received(s, Fin) /\ UNCHANGED <<inbox, edge>>
             /\ Shakes(s, "last", "done")
    <2>1. Fin \in SaidTo(s)
      BY <1>1, <1>4, ReceivedSaid
    <2>2. HandshakeAt(s, k, hs, "done", inbox'[s], n, SaidTo(s))
      BY <1>1, <1>4, <2>1 DEF Shakes, HandshakeAt, ClientAt
    <2>. QED BY <1>1, <1>4, <2>2, ShakesKeep DEF Shakes, Stages
  <1>. QED BY <1>2, <1>3, <1>4 DEF ClientShakes

LEMMA BackendShakesKeeps ==
    ASSUME RelayInv, BackendShakes
    PROVE  RelayInv'
  <1>. DEFINE s == "backend"  k == kind[s]  hs == conn[s].hs  q == inbox[s]
              n == sent[s]
  <1>1. /\ s \in Sides /\ k \in {"plain", "tls12", "tls13"} /\ q \in Seq(Int)
        /\ n \in Nat /\ Hello # Fin
        /\ HandshakeAt(s, k, hs, peer[s], q, n, SaidTo(s))
        /\ inbox \in [Sides -> Seq(Int)]
    BY DEF RelayInv, TypeOK, HandshakeInv, Sides, KindPairs, Hello, Fin
  <1>2. CASE /\ Received(s, Hello) /\ Deliver(s, Hello)
             /\ Shakes(s, "start", "half")
    <2>1. Hello \in SaidTo(s)
      BY <1>1, <1>2, ReceivedSaid
    <2>2. /\ hs = "half" /\ SaidTo(s) = {Hello} /\ n = 0 /\ InboxIs(q, << >>, 0)
          /\ k # "plain"
      BY <1>1, <1>2, <2>1 DEF Shakes, HandshakeAt, BackendAt
    <2>3. InboxIs(inbox'[s], <<Hello>>, 0)
      <3>1. inbox'[s] = Append(q, Hello)
        BY <1>1, <1>2 DEF Deliver
      <3>. QED BY <1>1, <2>2, <3>1, DeliverFlight
    <2>4. HandshakeAt(s, k, hs, "half", inbox'[s], n, SaidTo(s))
      BY <2>2, <2>3 DEF HandshakeAt, BackendAt
    <2>. QED BY <1>1, <1>2, <2>2, <2>4, ShakesKeep DEF Shakes, Stages
  <1>3. CASE /\ Received(s, Fin) /\ k = "tls12" /\ Deliver(s, Fin)
             /\ Shakes(s, "half", "done")
    <2>1. Fin \in SaidTo(s)
      BY <1>1, <1>3, ReceivedSaid
    <2>2. /\ hs = "half" /\ SaidTo(s) = {Hello, Fin} /\ n = 0 /\ InboxIs(q, << >>, 0)
      BY <1>1, <1>3, <2>1 DEF Shakes, HandshakeAt, BackendAt
    <2>3. InboxIs(inbox'[s], <<Fin>>, 0)
      <3>1. inbox'[s] = Append(q, Fin)
        BY <1>1, <1>3 DEF Deliver
      <3>. QED BY <1>1, <2>2, <3>1, DeliverFlight
    <2>4. HandshakeAt(s, k, hs, "done", inbox'[s], n, SaidTo(s))
      BY <1>3, <2>2, <2>3 DEF HandshakeAt, BackendAt
    <2>. QED BY <1>1, <1>3, <2>2, <2>4, ShakesKeep DEF Shakes, Stages
  <1>4. CASE /\ Received(s, Fin) /\ k # "tls12" /\ UNCHANGED <<inbox, edge>>
             /\ Shakes(s, "half", "done")
    <2>1. Fin \in SaidTo(s)
      BY <1>1, <1>4, ReceivedSaid
    <2>2. HandshakeAt(s, k, hs, "done", inbox'[s], n, SaidTo(s))
      BY <1>1, <1>4, <2>1 DEF Shakes, HandshakeAt, BackendAt
    <2>. QED BY <1>1, <1>4, <2>2, ShakesKeep DEF Shakes, Stages
  <1>. QED BY <1>2, <1>3, <1>4 DEF BackendShakes

\* A peer sends its next token.
LEMMA PeerSendsKeeps ==
    ASSUME RelayInv, NEW s \in Sides, PeerSends(s)
    PROVE  RelayInv'
  <1>. DEFINE q == inbox[s]  n == sent[s]
  <1>1. Loosely /\ HangUpInv /\ BothSides
    BY Strengthen
  <1>2. /\ q \in Seq(Int) /\ n \in Nat /\ inbox \in [Sides -> Seq(Int)]
        /\ sent \in [Sides -> Nat] /\ n < Tokens(s) /\ Tokens(s) \in Nat
        /\ HandshakeAt(s, kind[s], conn[s].hs, peer[s], q, n, SaidTo(s))
        /\ peer[s] = "done" /\ kind \in KindPairs
    BY <1>1, ConstantsAssumption
       DEF Loosely, BothSides, HandshakeInv, PeerSends, Tokens, ConstantsAssumption
  <1>3. PICK f \in Starts : InboxIs(q, f, n)
    BY <1>2, SocketStarts
  <1>4. /\ \A g \in Starts : InboxIs(q, g, n) => InboxIs(Append(q, n + 1), g, n + 1)
        /\ Append(q, n + 1) \in Seq(Int)
        /\ n + 1 - (Len(Append(q, n + 1)) - Flights(Append(q, n + 1)))
               = n - (Len(q) - Flights(q))
    BY <1>2, <1>3, DeliverToken
  <1>5. /\ inbox' = [inbox EXCEPT ![s] = Append(q, n + 1)]
        /\ sent' = [sent EXCEPT ![s] = n + 1] /\ edge' = edge \cup {s}
        /\ UNCHANGED <<zroxy, room, drains, peer, gone>>
    BY DEF PeerSends, Deliver
  <1>6. /\ inbox'[s] = Append(q, n + 1) /\ sent'[s] = n + 1
        /\ inbox' \in [Sides -> Seq(Int)] /\ sent' \in [Sides -> Nat]
        /\ \A z \in Sides : z # s => inbox'[z] = inbox[z] /\ sent'[z] = sent[z]
    BY <1>2, <1>4, <1>5
  <1>7. TakenFrom(s)' = TakenFrom(s)
    <2>2. TakenFrom(s) = n - (Len(q) - Flights(q))
      BY DEF TakenFrom
    <2>. DEFINE r == Append(q, n + 1)
    <2>3. inbox'[s] = r /\ sent'[s] = n + 1
      BY <1>6
    <2>4. n + 1 - (Len(r) - Flights(r)) = n - (Len(q) - Flights(q))
      BY <1>4
    <2>5. Len(inbox'[s]) - Flights(inbox'[s]) = Len(r) - Flights(r)
      BY <2>3
    <2>. DEFINE x == Len(r) - Flights(r)
    <2>6. sent'[s] - x = n + 1 - x
      <3>1. r \in Seq(Int) /\ n \in Nat
        BY <1>2, <1>4
      <3>2. Flights(r) \in Int
        BY DEF Flights
      <3>3. Len(r) \in Int
        BY <3>1
      <3>. HIDE DEF q, n, r
      <3>. QED BY <2>3, <3>1, <3>2, <3>3
    <2>. HIDE DEF q, n, r
    <2>7. TakenFrom(s)' = sent'[s] - x
      BY <2>5 DEF TakenFrom
    <2>. HIDE DEF x
    <2>. QED BY <2>2, <2>4, <2>6, <2>7 DEF x
  <1>8. HandshakeAt(s, kind[s], conn[s].hs, peer'[s], inbox'[s], sent'[s], SaidTo(s))
    <2>. DEFINE k == kind[s]  hs == conn[s].hs  r == Append(q, n + 1)
                said == SaidTo(s)
    <2>1. /\ InboxIs(q, << >>, n) => InboxIs(r, << >>, n + 1)
          /\ InboxIs(q, <<Hello>>, n) => InboxIs(r, <<Hello>>, n + 1)
          /\ InboxIs(q, <<Fin>>, n) => InboxIs(r, <<Fin>>, n + 1)
      BY <1>4 DEF Starts
    <2>2. HandshakeAt(s, k, hs, "done", q, n, said)
      BY <1>2
    <2>. HIDE DEF k, hs, r, q, n, said
    <2>3. HandshakeAt(s, k, hs, "done", r, n + 1, said)
      <3>1. CASE k = "plain"
        BY <2>1, <2>2, <3>1 DEF HandshakeAt
      <3>2. CASE k # "plain" /\ s = "client"
        BY <2>1, <2>2, <3>2 DEF HandshakeAt, ClientAt
      <3>3. CASE k # "plain" /\ s # "client"
        BY <2>1, <2>2, <3>3 DEF HandshakeAt, BackendAt
      <3>. QED BY <3>1, <3>2, <3>3
    <2>. QED BY <1>2, <1>5, <1>6, <2>3 DEF k, hs, r, q, n, said
  <1>9. BothSides'
    <2>1. UNCHANGED <<kind, conn, out, peer>>
      BY <1>5 DEF zroxy
    <2>. HIDE DEF q, n
    <2>. QED BY <1>1, <1>6, <1>7, <1>8, <2>1, SocketKeeps
  <1>10. Loosely'
    <2>1. \A z \in Sides : sent'[z] <= Tokens(z)
      <3>1. \A z \in Sides : sent[z] <= Tokens(z)
        BY <1>1 DEF Loosely
      <3>2. n + 1 <= Tokens(s)
        BY <1>2
      <3>. HIDE DEF n
      <3>. QED BY <1>6, <3>1, <3>2
    <2>. QED BY <1>1, <1>5, <1>6, <2>1 DEF Loosely, zroxy
  <1>11. HangUpInv'
    BY <1>1, <1>5 DEF HangUpInv, zroxy
  <1>. QED BY <1>9, <1>10, <1>11, Strengthen, PTL

\* Nothing the ways and the handshakes depend on changes.
LEMMA OtherwiseKeeps ==
    ASSUME BothSides, UNCHANGED <<kind, conn, inbox, out, peer, sent>>
    PROVE  BothSides'
  BY DEF BothSides, HandshakeInv, FlowInv, SaidTo, FlightsTo, TakenFrom

\* A peer takes what was sent to it.
LEMMA DrainKeeps ==
    ASSUME RelayInv, NEW s \in Sides, Drain(s)
    PROVE  RelayInv'
  <1>1. Loosely /\ HangUpInv /\ BothSides
    BY Strengthen
  <1>2. BothSides'
    BY <1>1, OtherwiseKeeps DEF Drain, zroxy
  <1>3. Loosely'
    <2>1. Room \in 0..Room /\ drains + 1 \in 0..MaxDrains
      BY <1>1, ConstantsAssumption DEF ConstantsAssumption, Loosely, Drain
    <2>2. room' \in [Sides -> 0..Room]
      BY <1>1, <2>1 DEF Loosely, Drain
    <2>. QED BY <1>1, <2>1, <2>2 DEF Loosely, Drain, zroxy
  <1>4. HangUpInv'
    BY <1>1 DEF HangUpInv, Drain, zroxy
  <1>. QED BY <1>2, <1>3, <1>4, Strengthen, PTL

\* A peer is gone.
LEMMA HangUpKeeps ==
    ASSUME RelayInv, NEW s \in Sides, HangUp(s)
    PROVE  RelayInv'
  <1>1. Loosely /\ HangUpInv /\ BothSides
    BY Strengthen
  <1>2. BothSides'
    BY <1>1, OtherwiseKeeps DEF HangUp, zroxy
  <1>3. Loosely'
    BY <1>1 DEF Loosely, HangUp, zroxy
  <1>4. HangUpInv'
    BY <1>1 DEF HangUpInv, HangUp, zroxy
  <1>. QED BY <1>2, <1>3, <1>4, Strengthen, PTL

\* epoll_wait reports events.
LEMMA EpollWaitKeeps ==
    ASSUME RelayInv, EpollWait
    PROVE  RelayInv'
  <1>1. Loosely /\ HangUpInv /\ BothSides
    BY Strengthen
  <1>2. BothSides'
    BY <1>1, OtherwiseKeeps DEF EpollWait
  <1>3. Loosely'
    BY <1>1 DEF Loosely, EpollWait, ReadyFor
  <1>4. HangUpInv'
    BY <1>1 DEF HangUpInv, EpollWait, ReadyFor
  <1>. QED BY <1>2, <1>3, <1>4, Strengthen, PTL

\* A hang-up is handled.
LEMMA HandleCloseKeeps ==
    ASSUME RelayInv, NEW s \in Sides, HandleClose(s)
    PROVE  RelayInv'
  <1>1. Loosely /\ HangUpInv /\ BothSides
    BY Strengthen
  <1>2. BothSides'
    BY <1>1, OtherwiseKeeps DEF HandleClose
  <1>3. Loosely'
    BY <1>1 DEF Loosely, HangUpInv, HandleClose
  <1>4. HangUpInv'
    BY <1>1 DEF Loosely, HangUpInv, HandleClose
  <1>. QED BY <1>2, <1>3, <1>4, Strengthen, PTL

\* An event of a side is handled.
LEMMA HandleEventsKeeps ==
    ASSUME RelayInv, NEW s \in Sides, HandleEvents(s)
    PROVE  RelayInv'
  <1>. DEFINE h == Handled(s)
              o == Other(s)
              rest == SubSeq(inbox[s], h.read + 1, Len(inbox[s]))
              b == [z \in Sides |-> out[z] \o h.bytes[z]]
  <1>1. Loosely /\ HangUpInv /\ BothSides
    BY Strengthen
  <1>2. /\ h.conn = [z \in Sides |-> h.conn[z]]
        /\ h.dies \in BOOLEAN /\ rest \in Seq(Int)
        /\ \A z \in Sides : h.bytes[z] \in Seq(Int) /\ Len(h.bytes[z]) <= room[z]
        /\ BothKept(s, h.conn, b, rest)
    BY ConstantsAssumption, HandledKeeps
  <1>3. /\ up' = ~h.dies /\ inbox' = [inbox EXCEPT ![s] = rest] /\ conn' = h.conn
        /\ out' = b /\ room' = [z \in Sides |-> room[z] - Len(h.bytes[z])]
        /\ pend' = [pend EXCEPT ![s] = {}]
        /\ canWrite' = IF "out" \in pend[s] THEN canWrite \cup {s} ELSE canWrite \ {s}
        /\ UNCHANGED <<kind, drains, edge, closed, peer, sent, gone>>
    BY DEF HandleEvents
  <1>4. /\ o \in Sides /\ o # s /\ Other(o) = s /\ \A z \in Sides : z = s \/ z = o
    BY DEF Other, Sides
  <1>. HIDE DEF h, o, rest, b
  <1>5. inbox'[s] = rest /\ inbox'[o] = inbox[o] /\ inbox' \in [Sides -> Seq(Int)]
    BY <1>1, <1>2, <1>3, <1>4 DEF Loosely
  <1>6. /\ conn'[s] \in Record /\ conn'[o] \in Record
        /\ out'[s] \in Seq(Int) /\ out'[o] \in Seq(Int)
        /\ Way(s, conn'[s], out'[s], conn'[o].plain, TakenFrom(o))
        /\ Turn(s, conn'[s], out'[s], inbox'[s])
        /\ Way(o, conn'[o], out'[o], conn'[s].plain,
               sent[s] - (Len(inbox'[s]) - Flights(inbox'[s])))
        /\ Turn(o, conn'[o], out'[o], inbox'[o])
    BY <1>2, <1>3, <1>5 DEF BothKept, o
  <1>7. HandshakeInv(s)' /\ HandshakeInv(o)'
    BY <1>3, <1>6 DEF Turn, HandshakeInv, SaidTo, Said
  <1>8. /\ TakenFrom(o)' = TakenFrom(o)
        /\ TakenFrom(s)' = sent[s] - (Len(inbox'[s]) - Flights(inbox'[s]))
        /\ FlightsTo(s)' = FlightsTo(s) /\ FlightsTo(o)' = FlightsTo(o)
    BY <1>3, <1>5 DEF TakenFrom, FlightsTo
  <1>9. FlowInv(s)' /\ FlowInv(o)'
    <2>1. FlowOK(kind'[s], FlightsTo(s)', conn'[s].hs, out'[s], conn'[s].writing,
                 conn'[s].enc, conn'[o].plain, TakenFrom(o)')
      BY <1>3, <1>6, <1>8 DEF Way
    <2>2. FlowOK(kind'[o], FlightsTo(o)', conn'[o].hs, out'[o], conn'[o].writing,
                 conn'[o].enc, conn'[s].plain, TakenFrom(s)')
      BY <1>3, <1>6, <1>8 DEF Way
    <2>. QED BY <1>4, <2>1, <2>2 DEF FlowInv, o
  <1>10. BothSides'
    BY <1>4, <1>7, <1>9 DEF BothSides
  <1>11. Loosely'
    <2>1. DOMAIN conn' = Sides /\ \A z \in Sides : conn'[z] \in Record
      BY <1>2, <1>3, <1>4, <1>6
    <2>2. out' \in [Sides -> Seq(Int)]
      <3>1. \A z \in Sides : out'[z] \in Seq(Int)
        BY <1>4, <1>6
      <3>2. out' = [z \in Sides |-> out'[z]]
        BY <1>3 DEF b
      <3>. QED BY <3>1, <3>2
    <2>3. room' \in [Sides -> 0..Room]
      <3>1. \A z \in Sides : room[z] - Len(h.bytes[z]) \in 0..Room
        <4>1. ASSUME NEW z \in Sides
              PROVE  room[z] - Len(h.bytes[z]) \in 0..Room
          <5>1. room[z] \in 0..Room /\ h.bytes[z] \in Seq(Int)
                /\ Len(h.bytes[z]) <= room[z] /\ Room \in Nat
            BY <1>1, <1>2, ConstantsAssumption DEF Loosely, ConstantsAssumption
          <5>2. Len(h.bytes[z]) \in Nat
            BY <5>1
          <5>. QED BY <5>1, <5>2
        <4>. QED BY <4>1
      <3>. QED BY <1>3, <3>1
    <2>4. pend' \in [Sides -> SUBSET {"in", "out", "hup"}] /\ canWrite' \subseteq Sides
          /\ up' \in BOOLEAN
      BY <1>1, <1>2, <1>3 DEF Loosely
    <2>. QED BY <1>1, <1>3, <1>5, <2>1, <2>2, <2>3, <2>4 DEF Loosely
  <1>12. HangUpInv'
    BY <1>1, <1>3 DEF HangUpInv, Loosely
  <1>. QED BY <1>10, <1>11, <1>12, Strengthen, PTL

\* Every step keeps the invariant.
LEMMA NextInv == RelayInv /\ [Next]_vars => RelayInv'
  <1>. SUFFICES ASSUME RelayInv, [Next]_vars
                PROVE  RelayInv'
    OBVIOUS
  <1>1. CASE ClientShakes
    BY <1>1, ClientShakesKeeps
  <1>2. CASE BackendShakes
    BY <1>2, BackendShakesKeeps
  <1>3. CASE \E s \in Sides : PeerSends(s)
    BY <1>3, PeerSendsKeeps
  <1>4. CASE \E s \in Sides : Drain(s)
    BY <1>4, DrainKeeps
  <1>5. CASE \E s \in Sides : HangUp(s)
    BY <1>5, HangUpKeeps
  <1>6. CASE EpollWait
    BY <1>6, EpollWaitKeeps
  <1>7. CASE \E s \in Sides : HandleEvents(s)
    BY <1>7, HandleEventsKeeps
  <1>8. CASE \E s \in Sides : HandleClose(s)
    BY <1>8, HandleCloseKeeps
  <1>9. CASE UNCHANGED vars
    <2>1. Loosely /\ HangUpInv /\ BothSides
      BY Strengthen
    <2>2. BothSides'
      BY <1>9, <2>1, OtherwiseKeeps DEF vars
    <2>3. Loosely' /\ HangUpInv'
      BY <1>9, <2>1 DEF vars, Loosely, HangUpInv
    <2>. QED BY <2>2, <2>3, Strengthen, PTL
  <1>. QED BY <1>1, <1>2, <1>3, <1>4, <1>5, <1>6, <1>7, <1>8, <1>9 DEF Next

\* The inductive invariant: where every token is and in what order, how far each
\* handshake got, and what lies in the sockets.
THEOREM RelayInvariant == Spec => []RelayInv
  BY InitInv, NextInv, PTL DEF Spec

-----------------------------------------------------------------------------
(* What the invariant says of all that is on its way to a side. *)

\* Seen and Before say the same.
LEMMA SeenBefore ==
    ASSUME NEW q, NEW i, NEW x
    PROVE  x \in Seen({}, q, i) <=> Before(q, i, x)
  BY DEF Seen, Before

\* The four parts of a stream, seen as one sequence.
LEMMA StreamParts ==
    ASSUME RelayInv, NEW s \in Sides
    PROVE  LET q == Stream(s)
               v == out[s] \o conn[s].writing
           IN /\ q \in Seq(Int) /\ Follows({}, q)
              /\ 1..TakenFrom(Other(s)) \subseteq Range(q)
              /\ kind[s] = "plain" => Fresh({}, q)
              /\ v \in Seq(Int)
              /\ kind[s] # "plain" =>
                     /\ Introduced(FlightsTo(s), {}, v)
                     /\ conn[s].hs # "done" => \A x \in Range(v) : ~IsData(x)
  <1>. DEFINE a == out[s]  w == conn[s].writing  e == conn[s].enc
              p == conn[Other(s)].plain
              k == kind[s]  F == FlightsTo(s)  hs == conn[s].hs
              m == TakenFrom(Other(s))
              v == a \o w
              u == v \o e
              q == u \o p
  <1>1. FlowOK(k, F, hs, a, w, e, p, m)
    BY DEF RelayInv, FlowInv
  <1>2. Stream(s) = q
    BY DEF Stream
  <1>. HIDE DEF a, w, e, p, k, F, hs, m
  <1>3. /\ m \in Nat /\ Buffers(a, w, e, p)
        /\ Holding(k, hs, Range(a), Range(w), Range(e), Range(p), m)
        /\ InOrder(k, F, a, w, e, p)
    BY <1>1, FlowParts
  <1>4. a \in Seq(Int) /\ w \in Seq(Int) /\ e \in Seq(Int) /\ p \in Seq(Int)
    BY <1>3 DEF Buffers
  <1>5. v \in Seq(Int) /\ Range(v) = Range(a) \cup Range(w)
    BY <1>4, RangeCat
  <1>. HIDE DEF v
  <1>6. u \in Seq(Int) /\ Range(u) = Range(a) \cup Range(w) \cup Range(e)
    BY <1>4, <1>5, RangeCat
  <1>. HIDE DEF u
  <1>7. q \in Seq(Int) /\ Range(q) = Range(u) \cup Range(p)
    BY <1>4, <1>6, RangeCat
  <1>8. \A S : {} \cup S = S
    OBVIOUS
  <1>9. Follows({}, v)
    BY <1>3, <1>4, <1>8, FollowsCat DEF InOrder, v
  <1>10. Follows({}, u)
    BY <1>3, <1>4, <1>5, <1>8, <1>9, FollowsCat DEF InOrder, u
  <1>11. Follows({}, q)
    BY <1>3, <1>4, <1>6, <1>8, <1>10, FollowsCat DEF InOrder
  <1>12. 1..m \subseteq Range(q)
    BY <1>3, <1>6, <1>7 DEF Holding
  <1>13. k = "plain" => Fresh({}, q)
    <2>1. ASSUME k = "plain"
          PROVE  Fresh({}, q)
      <3>1. w = << >> /\ e = << >> /\ Fresh({}, a) /\ Fresh(Range(a), p)
        BY <1>3, <2>1 DEF InOrder
      <3>2. a \o << >> = a
        BY <1>4
      <3>3. u = a
        BY <3>1, <3>2 DEF u, v
      <3>4. Fresh({}, a \o p)
        BY <1>4, <1>8, <3>1, FreshCat
      <3>. QED BY <3>3, <3>4
    <2>. QED BY <2>1
  <1>14. k # "plain" => Introduced(F, {}, v)
                        /\ (hs # "done" => \A x \in Range(v) : ~IsData(x))
    <2>1. ASSUME k # "plain"
          PROVE  Introduced(F, {}, v)
      BY <1>3, <1>4, <1>8, <2>1, IntroducedCat DEF InOrder, v
    <2>2. k # "plain" /\ hs # "done" => \A x \in Range(v) : ~IsData(x)
      BY <1>3, <1>5 DEF Holding
    <2>. QED BY <2>1, <2>2
  <1>. HIDE DEF q
  <1>15. /\ q \in Seq(Int) /\ Follows({}, q) /\ 1..m \subseteq Range(q)
         /\ (k = "plain" => Fresh({}, q)) /\ v \in Seq(Int)
    BY <1>5, <1>7, <1>11, <1>12, <1>13
  <1>. QED BY <1>2, <1>14, <1>15 DEF k, F, hs, m, v, a, w

\* What is no longer in the socket has been taken from it.
LEMMA TakenCount ==
    ASSUME RelayInv, NEW s \in Sides, NEW t, Taken(s, t)
    PROVE  t \in 1..TakenFrom(s)
  <1>. DEFINE q == inbox[s]  n == sent[s]
  <1>1. q \in Seq(Int) /\ n \in Nat
    BY DEF RelayInv, TypeOK
  <1>2. HandshakeAt(s, kind[s], conn[s].hs, peer[s], q, n, SaidTo(s))
    BY DEF RelayInv, HandshakeInv
  <1>3. t \in 1..n /\ ~Has(q, t)
    BY DEF Taken
  <1>4. TakenFrom(s) = n - (Len(q) - Flights(q))
    BY DEF TakenFrom
  <1>. HIDE DEF q, n
  <1>5. PICK f \in Starts : InboxIs(q, f, n)
    BY <1>2, SocketStarts
  <1>6. Flights(q) = Len(f) /\ Len(f) \in {0, 1} /\ Len(q) \in Nat
        /\ DOMAIN q = 1..Len(q)
    BY <1>1, <1>5, InboxFlights
  <1>7. ASSUME t > n - (Len(q) - Len(f))
        PROVE  FALSE
    <2>. DEFINE i == Len(q) - (n - t)
    <2>1. i \in 1..Len(q) /\ ~(i <= Len(f)) /\ n - (Len(q) - i) = t
      BY <1>1, <1>3, <1>6, <1>7
    <2>. HIDE DEF i
    <2>2. q[i] = t
      BY <1>5, <1>6, <2>1 DEF InboxIs
    <2>. QED BY <1>3, <1>6, <2>1, <2>2 DEF Has
  <1>. QED BY <1>1, <1>3, <1>4, <1>6, <1>7

\* TypeOK: every buffer holds only cleared bytes and tokens the other peer has
\* sent, and never more than there is room for leaves a socket (on_write, on_read,
\* read_nbytes of both sides).
THEOREM RelayTyped == Spec => []TypeOK
  BY RelayInvariant, PTL DEF RelayInv

\* StreamIntegrity: nothing is lost and nothing overtakes on its way from one
\* socket to the other, whatever is read, sent, blocked, or hung up.
THEOREM StreamKept == Spec => []StreamIntegrity
  <1>1. RelayInv => StreamIntegrity
    <2>. SUFFICES ASSUME RelayInv, NEW s \in Sides
                  PROVE  /\ \A t \in 1..sent[Other(s)] :
                                Taken(Other(s), t) => Has(Stream(s), t)
                         /\ \A i \in DOMAIN Stream(s) :
                                Stream(s)[i] > 1 => Before(Stream(s), i, Stream(s)[i] - 1)
      BY DEF StreamIntegrity
    <2>1. Follows({}, Stream(s)) /\ 1..TakenFrom(Other(s)) \subseteq Range(Stream(s))
      BY StreamParts
    <2>2. Other(s) \in Sides
      BY DEF Other, Sides
    <2>3. \A t \in 1..sent[Other(s)] : Taken(Other(s), t) => Has(Stream(s), t)
      BY <2>1, <2>2, TakenCount DEF Has, Range
    <2>. QED BY <2>1, <2>3, SeenBefore DEF Follows
  <1>. QED BY <1>1, RelayInvariant, PTL

\* HandshakeFirst: no data goes to a TLS side before its handshake is finished,
\* and its flights go out once and in order (encrypt_io_req, proccess_ssl_bytes).
THEOREM FlightsFirst == Spec => []HandshakeFirst
  <1>1. RelayInv => HandshakeFirst
    <2>. SUFFICES ASSUME RelayInv, NEW s \in Sides, kind[s] # "plain"
                  PROVE  LET q == out[s] \o conn[s].writing
                         IN \A i \in DOMAIN q :
                                \/ q[i] = Junk
                                \/ q[i] \in FlightsTo(s) /\ Once(q, q[i])
                                       /\ (q[i] = Fin => Before(q, i, Hello))
                                \/ IsData(q[i]) /\ conn[s].hs = "done"
                                       /\ \A x \in FlightsTo(s) : Before(q, i, x)
      BY DEF HandshakeFirst
    <2>. DEFINE q == out[s] \o conn[s].writing
                F == FlightsTo(s)
    <2>1. /\ Introduced(F, {}, q)
          /\ conn[s].hs # "done" => \A x \in Range(q) : ~IsData(x)
      BY StreamParts
    <2>2. F \subseteq {Hello, Fin}
      BY DEF FlightsTo
    <2>. HIDE DEF q, F
    <2>3. ASSUME NEW x \in F
          PROVE  Once(q, x)
      <3>1. x # Junk /\ ~IsData(x)
        BY <2>2 DEF IsData, Hello, Fin, Junk
      <3>2. \A i \in DOMAIN q : q[i] = x => x \notin Seen({}, q, i)
        BY <2>1, <3>1 DEF Introduced
      <3>. QED BY <3>2, SeenBefore DEF Once
    <2>4. ASSUME NEW i \in DOMAIN q
          PROVE  \/ q[i] = Junk
                 \/ q[i] \in F /\ Once(q, q[i]) /\ (q[i] = Fin => Before(q, i, Hello))
                 \/ IsData(q[i]) /\ conn[s].hs = "done" /\ \A x \in F : Before(q, i, x)
      <3>1. CASE q[i] = Junk
        BY <3>1
      <3>2. CASE q[i] \in F /\ (q[i] = Fin => Hello \in Seen({}, q, i))
        BY <2>3, <3>2, SeenBefore
      <3>3. CASE IsData(q[i]) /\ F \subseteq Seen({}, q, i)
        <4>1. conn[s].hs = "done"
          BY <2>1, <3>3 DEF Range
        <4>. QED BY <3>3, <4>1, SeenBefore
      <3>. QED BY <2>1, <3>1, <3>2, <3>3 DEF Introduced
    <2>. QED BY <2>4 DEF q, F
  <1>. QED BY <1>1, RelayInvariant, PTL

\* PlainWrittenOnce: what is sent to a plain side from the other side's buffer is
\* cleared or consumed there, so no token is ever sent twice (send_and_clear).
THEOREM ClearedOnceWritten == Spec => []PlainWrittenOnce
  <1>1. RelayInv => PlainWrittenOnce
    <2>. SUFFICES ASSUME RelayInv, NEW s \in Sides, NEW t \in 1..Tokens(Other(s)),
                         kind[s] = "plain"
                  PROVE  Once(Stream(s), t)
      BY DEF PlainWrittenOnce
    <2>1. Fresh({}, Stream(s)) /\ IsData(t)
      BY StreamParts DEF IsData
    <2>. QED BY <2>1, SeenBefore DEF Fresh, Once
  <1>. QED BY <1>1, RelayInvariant, PTL

=============================================================================
