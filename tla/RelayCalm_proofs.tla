--------------------------- MODULE RelayCalm_proofs ---------------------------
(* Proofs about Relay when the peers wait for both handshakes before they talk  *)
(* (Early = FALSE) and no socket is ever full: every token is sent exactly      *)
(* once, and zroxy is two ordered channels.                                     *)
EXTENDS Relay_proofs

(* The callbacks: what a write and a read keep of the freshness of what goes to *)
(* a TLS side.                                                                  *)

\* A sequence without data is fresh behind anything.
LEMMA DatalessFresh ==
    ASSUME NEW S, NEW q, \A i \in DOMAIN q : ~IsData(q[i])
    PROVE  Fresh(S, q)
  BY DEF Fresh

\* Tokens behind the m-th are fresh behind tokens up to the m-th.
LEMMA NextFresh ==
    ASSUME NEW S, NEW m \in Nat, NEW q \in Seq(Int),
           \A i \in DOMAIN q : q[i] = m + i,
           \A x \in S : IsData(x) => x <= m
    PROVE  Fresh(S, q)
  <1>1. DOMAIN q = 1..Len(q) /\ Len(q) \in Nat
    OBVIOUS
  <1>2. ASSUME NEW i \in DOMAIN q
        PROVE  q[i] \notin Seen(S, q, i)
    <2>1. i \in Nat /\ i >= 1 /\ q[i] = m + i
      BY <1>1
    <2>2. q[i] \notin S
      <3>1. IsData(q[i]) /\ ~(q[i] <= m)
        BY <2>1 DEF IsData
      <3>. QED BY <3>1
    <2>3. \A j \in 1..i - 1 : q[j] # q[i]
      <3>1. ASSUME NEW j \in 1..i - 1
            PROVE  q[j] # q[i]
        <4>1. j \in DOMAIN q /\ j \in Nat /\ j < i
          BY <1>1, <2>1
        <4>2. q[j] = m + j
          BY <4>1
        <4>. QED BY <2>1, <4>1, <4>2
      <3>. QED BY <3>1
    <2>. QED BY <2>2, <2>3 DEF Seen
  <1>. QED BY <1>2 DEF Fresh

\* Every byte of q was queued by somebody.
NoJunk(q) == Junk \notin Range(q)

LEMMA NoJunkCat ==
    ASSUME NEW q \in Seq(Int), NEW r \in Seq(Int)
    PROVE  NoJunk(q \o r) <=> NoJunk(q) /\ NoJunk(r)
  <1>1. Range(q \o r) = Range(q) \cup Range(r)
    BY RangeCat
  <1>. QED BY <1>1 DEF NoJunk

\* There is none in nothing, nor in what zroxy says in a handshake.
LEMMA NoJunkSaid == \A q \in {<< >>, <<Hello>>, <<Fin>>} : NoJunk(q)
  BY DEF NoJunk, Range, Junk, Hello, Fin

\* What was sent to a side, a, holds no token twice and no junk; and if the side is
\* there nothing waits for encryption, and its writing and the request are new and
\* without junk.
Neat(s, c, a, request) ==
    kind[s] # "plain" =>
        /\ Fresh({}, a) /\ NoJunk(a)
        /\ s \notin gone =>
               /\ c.enc = << >> /\ Fresh(Range(a), c.writing)
               /\ Fresh(Range(a) \cup Range(c.writing), request)
               /\ NoJunk(c.writing) /\ NoJunk(request)

\* What on_write leaves for the side and for the caller.
NeatlyWritten(s, c, a, request, r) ==
    /\ Neat(s, r.conn, a \o r.bytes, << >>)
    /\ c.hs = "done" <=> r.conn.hs = "done"
    /\ kind[s] # "plain" /\ s \notin gone =>
           /\ ReadNBytes(r.request, r.result) = << >>
           /\ request = << >> => r.request = << >>

\* Nothing follows freshly.
LEMMA NothingNeat ==
    ASSUME NEW s, NEW c, NEW a, NEW request, Neat(s, c, a, request)
    PROVE  Neat(s, c, a, << >>)
  BY Nothing, NoJunkSaid DEF Neat

\* Encryption for a side that is there: the request is queued behind what is fresh.
LEMMA EncryptNeat ==
    ASSUME NEW s \in Sides, kind[s] # "plain", s \notin gone, NEW c \in Record,
           NEW a \in Seq(Int), NEW request \in Seq(Int), Neat(s, c, a, request),
           c.hs = "done" \/ request = << >>
    PROVE  LET x == Encrypt([c EXCEPT !.enc = @ \o request], s)
           IN /\ x.writing \in Seq(Int) /\ x.enc = << >>
              /\ Fresh(Range(a), x.writing) /\ NoJunk(x.writing)
              /\ c.hs = "done" => x.hs = "done"
              /\ x.writing = << >> => request = << >>
  <1>. DEFINE y == [c EXCEPT !.enc = @ \o request]
              x == Encrypt(y, s)
  <1>1. /\ c.writing \in Seq(Int) /\ c.enc = << >> /\ Fresh(Range(a), c.writing)
        /\ Fresh(Range(a) \cup Range(c.writing), request)
        /\ NoJunk(c.writing) /\ NoJunk(request)
    BY DEF Record, Neat
  <1>2. << >> \o request = request
    OBVIOUS
  <1>3. /\ y.hs = c.hs /\ y.writing = c.writing /\ y.enc = request
        /\ y = [hs |-> y.hs, plain |-> y.plain, enc |-> y.enc, writing |-> y.writing]
    <2>1. y = [c EXCEPT !.enc = request]
      BY <1>1, <1>2
    <2>. HIDE DEF y
    <2>. QED BY <2>1 DEF Record
  <1>. HIDE DEF y
  <1>4. CASE c.hs = "done"
    <2>1. x.hs = y.hs /\ x.enc = << >> /\ x.writing = c.writing \o request
      BY <1>3, <1>4 DEF Encrypt, Sealed
    <2>. HIDE DEF x
    <2>2. c.writing \o request \in Seq(Int)
      BY <1>1
    <2>3. Fresh(Range(a), c.writing \o request) /\ NoJunk(c.writing \o request)
      BY <1>1, FreshCat, NoJunkCat
    <2>4. c.writing \o request = << >> => request = << >>
      <3>1. Len(c.writing \o request) = Len(c.writing) + Len(request)
            /\ Len(c.writing) \in Nat /\ Len(request) \in Nat
            /\ (Len(request) = 0 => request = << >>)
        BY <1>1
      <3>2. Len(<< >>) = 0
        OBVIOUS
      <3>. QED BY <3>1, <3>2
    <2>. QED BY <1>3, <1>4, <2>1, <2>2, <2>3, <2>4 DEF x, y
  <1>5. CASE c.hs # "done" /\ request = << >>
    <2>1. /\ x.enc = << >>
          /\ x.writing = c.writing \/ x.writing = c.writing \o <<Hello>>
      <3>1. x = Greeted(y, s)
        BY <1>3, <1>5 DEF Encrypt
      <3>2. Append(c.writing, Hello) = c.writing \o <<Hello>>
        <4>1. Hello \in Int
          BY DEF Hello
        <4>. QED BY <1>1, <4>1, AppendIsConcat, Zenon
      <3>. QED BY <1>3, <1>5, <3>1, <3>2 DEF Greeted
    <2>. HIDE DEF x
    <2>2. /\ <<Hello>> \in Seq(Int) /\ c.writing \o <<Hello>> \in Seq(Int)
          /\ Fresh(Range(a) \cup Range(c.writing), <<Hello>>)
      <3>1. <<Hello>> \in Seq(Int) /\ \A i \in DOMAIN <<Hello>> : ~IsData(<<Hello>>[i])
        BY DEF Hello, IsData
      <3>2. c.writing \o <<Hello>> \in Seq(Int)
        BY <1>1, <3>1
      <3>. QED BY <3>1, <3>2, DatalessFresh
    <2>3. Fresh(Range(a), c.writing \o <<Hello>>) /\ NoJunk(c.writing \o <<Hello>>)
      BY <1>1, <2>2, FreshCat, NoJunkCat, NoJunkSaid
    <2>. QED BY <1>1, <1>5, <2>1, <2>2, <2>3 DEF x, y
  <1>. QED BY <1>4, <1>5

\* on_write of a TLS side sends what is new, and leaves nothing to the caller.
LEMMA TlsWriteNeat ==
    ASSUME NEW s \in Sides, kind[s] # "plain", NEW c \in Record,
           room[s] \in Nat, room[s] > 0,
           NEW a \in Seq(Int), NEW request \in Seq(Int), Neat(s, c, a, request),
           s \notin gone => c.hs = "done" \/ request = << >>
    PROVE  NeatlyWritten(s, c, a, request, TlsWrite(c, s, request))
  <1>. DEFINE x == Encrypt([c EXCEPT !.enc = @ \o request], s)
              w == x.writing
              n == Sends(s, Len(w))
              r == TlsWrite(c, s, request)
  <1>1. IF w = << >>
        THEN r.conn = x /\ r.bytes = << >> /\ r.result = 0
        ELSE /\ r.conn = [x EXCEPT !.writing = Unsent(w, n)]
             /\ r.bytes = SubSeq(w, 1, n)
             /\ r.result = IF n < 0 THEN n ELSE Len(request)
    BY DEF TlsWrite
  <1>2. r.request = request
    BY DEF TlsWrite
  <1>3. c.hs = "done" <=> x.hs = "done"
    BY DEF Encrypt, Sealed, Greeted, Record
  <1>4. a \o << >> = a /\ ReadNBytes(request, 0) = request
    BY DEF ReadNBytes
  <1>x. x = [hs |-> x.hs, plain |-> x.plain, enc |-> x.enc, writing |-> x.writing]
    BY DEF Encrypt, Sealed, Greeted, Record
  <1>5. c.hs = "done" <=> r.conn.hs = "done"
    <2>. HIDE DEF x, r
    <2>. QED BY <1>1, <1>3, <1>x
  <1>6. CASE s \in gone
    <2>1. n = -2
      BY <1>6 DEF Sends, UNKOWN_ERROR
    <2>2. r.bytes = << >>
      BY <1>1, <2>1
    <2>. HIDE DEF r, x, w, n
    <2>. QED BY <1>4, <1>5, <1>6, <2>2 DEF NeatlyWritten, Neat, r
  <1>7. CASE s \notin gone
    <2>1. /\ w \in Seq(Int) /\ x.enc = << >> /\ Fresh(Range(a), w) /\ Fresh({}, a)
          /\ NoJunk(w) /\ NoJunk(a)
          /\ w = << >> => request = << >>
      BY <1>7, EncryptNeat DEF Neat
    <2>. HIDE DEF x, r
    <2>2. CASE w = << >>
      <3>1. Fresh(Range(a) \cup Range(w), << >>) /\ NoJunk(<< >>)
        BY Nothing, NoJunkSaid
      <3>. QED BY <1>1, <1>2, <1>4, <1>5, <2>1, <2>2, <3>1
               DEF NeatlyWritten, Neat, r
    <2>3. CASE w # << >>
      <3>. DEFINE b == SubSeq(w, 1, n)  v == SubSeq(w, n + 1, Len(w))
      <3>1. n \in 0..Len(w) /\ ~(n < 0)
        BY <1>7, <2>1 DEF Sends, Smaller
      <3>2. Halves(w, n, b, v)
        BY <2>1, <3>1, Split
      <3>3. /\ r.conn = [x EXCEPT !.writing = v] /\ r.bytes = b
            /\ r.result = Len(request)
        BY <1>1, <2>3, <3>1 DEF Unsent
      <3>. HIDE DEF b, v, n, w
      <3>4. b \in Seq(Int) /\ v \in Seq(Int) /\ b \o v = w
        BY <3>2 DEF Halves
      <3>5. /\ Fresh(Range(a), b) /\ Fresh(Range(a) \cup Range(b), v)
            /\ NoJunk(b) /\ NoJunk(v) /\ NoJunk(a \o b)
        BY <2>1, <3>4, FreshCat, NoJunkCat
      <3>6. Fresh({}, a \o b) /\ Range(a \o b) = Range(a) \cup Range(b)
        <4>1. \A S : {} \cup S = S
          OBVIOUS
        <4>2. Fresh({}, a) /\ Fresh({} \cup Range(a), b)
          BY <2>1, <3>5, <4>1
        <4>3. Fresh({}, a \o b)
          BY <3>4, <4>2, FreshCat
        <4>4. Range(a \o b) = Range(a) \cup Range(b)
          BY <3>4, RangeCat
        <4>. QED BY <4>3, <4>4
      <3>7. r.conn.enc = << >> /\ r.conn.writing = v
        BY <1>x, <2>1, <3>3
      <3>8. ReadNBytes(request, Len(request)) = << >>
        <4>1. Len(request) \in Nat /\ (Len(request) = 0 => request = << >>)
          OBVIOUS
        <4>2. SubSeq(request, Len(request) + 1, Len(request)) = << >>
          BY <4>1
        <4>. QED BY <4>1, <4>2 DEF ReadNBytes
      <3>9. Fresh(Range(a \o b) \cup Range(v), << >>) /\ NoJunk(<< >>)
        BY Nothing, NoJunkSaid
      <3>10. Neat(s, r.conn, a \o r.bytes, << >>)
        BY <3>3, <3>5, <3>6, <3>7, <3>9 DEF Neat
      <3>. QED BY <1>2, <1>5, <3>3, <3>8, <3>10 DEF NeatlyWritten, r
    <2>. QED BY <2>2, <2>3
  <1>. QED BY <1>6, <1>7

\* So does on_write of either kind; a plain side has nothing to keep.
LEMMA WriteNeat ==
    ASSUME NEW s \in Sides, NEW c \in Record, room[s] \in Nat, room[s] > 0,
           NEW a \in Seq(Int), NEW request \in Seq(Int), Neat(s, c, a, request),
           kind[s] # "plain" /\ s \notin gone => c.hs = "done" \/ request = << >>
    PROVE  NeatlyWritten(s, c, a, request, OnWrite(c, s, request))
  <1>1. CASE kind[s] = "plain"
    <2>1. OnWrite(c, s, request).conn = c
      BY <1>1 DEF OnWrite, PlainWrite
    <2>. QED BY <1>1, <2>1 DEF NeatlyWritten, Neat
  <1>2. CASE kind[s] # "plain"
    BY <1>2, TlsWriteNeat DEF OnWrite
  <1>. QED BY <1>1, <1>2

\* So does an event without a write, if there was nothing to write.
LEMMA NotWrittenNeat ==
    ASSUME NEW s \in Sides, NEW c \in Record,
           NEW a \in Seq(Int), NEW request \in Seq(Int), Neat(s, c, a, request),
           kind[s] # "plain" /\ s \notin gone => request = << >>
    PROVE  NeatlyWritten(s, c, a, request, NotWritten(c, request))
  <1>1. a \o << >> = a /\ ReadNBytes(request, 0) = request
    BY DEF ReadNBytes
  <1>2. Neat(s, c, a, << >>)
    BY NothingNeat
  <1>. QED BY <1>1, <1>2 DEF NeatlyWritten, NotWritten

\* Nothing is read from nothing, and nothing answered.
LEMMA ReadNothing ==
    ASSUME NEW s \in Sides, NEW k, NEW hs
    PROVE  /\ Decrypted(<< >>) = << >> /\ AnswerTo(k, s, << >>) = << >>
           /\ ShakenBy(k, s, hs, << >>) = hs
  <1>1. ~Has(<< >>, Hello) /\ ~Has(<< >>, Fin)
    BY DEF Has
  <1>2. Decrypted(<< >>) = << >>
    <2>1. Flights(<< >>) = 0
      BY <1>1 DEF Flights
    <2>2. SubSeq(<< >>, 0 + 1, 0) = << >> /\ Len(<< >>) = 0
      OBVIOUS
    <2>. QED BY <2>1, <2>2 DEF Decrypted
  <1>3. AnswerTo(k, s, << >>) = << >>
    <2>1. << >> \o << >> = << >>
      OBVIOUS
    <2>. QED BY <1>1, <2>1 DEF AnswerTo, Answer
  <1>4. ShakenBy(k, s, hs, << >>) = hs
    BY <1>1 DEF ShakenBy, Shaken, LastFlight
  <1>. QED BY <1>2, <1>3, <1>4

\* A read leaves what goes to this side fresh, and for the other side something
\* new or nothing; new is only what a peer has sent.
NeatlyRead(s, o, x, d, b, a, j, r) ==
    /\ Neat(s, r, a, << >>) /\ Neat(o, d, b, r.plain)
    /\ x.hs = "done" => r.hs = "done"
    /\ kind[o] # "plain" /\ o \notin gone /\ r.plain # << >> => j > 0 /\ sent[s] > 0

\* OnRead of either kind.
LEMMA ReadNeat ==
    ASSUME kind \in KindPairs,
           NEW s \in Sides, NEW o \in Sides, NEW x \in Record, NEW d \in Record,
           NEW b \in Seq(Int), NEW a \in Seq(Int), NEW q \in Seq(Int),
           sent[s] \in Nat, NEW j \in 0..Len(q), NEW request, NEW l,
           Way(o, d, b, x.plain, sent[s] - (Len(q) - Flights(q))),
           Way(s, x, a, request, l), Turn(s, x, a, q),
           Neat(s, x, a, << >>), Neat(o, d, b, << >>),
           kind[o] # "plain" /\ o \notin gone => x.plain = << >>
    PROVE  NeatlyRead(s, o, x, d, b, a, j, OnRead(x, s, SubSeq(q, 1, j)))
  <1>. DEFINE first == SubSeq(q, 1, j)
              rest == SubSeq(q, j + 1, Len(q))
              r == OnRead(x, s, first)
              k == kind[s]
              answer == AnswerTo(k, s, first)
              said == Said(a, x.writing)
              m == sent[s] - (Len(q) - Flights(q))
              new == IF k = "plain" THEN first
                     ELSE IF r.hs = "done" THEN Decrypted(first) ELSE << >>
  <1>0. /\ r.hs = ShakenBy(k, s, x.hs, first) /\ r.enc = x.enc
        /\ r.writing = IF k = "plain" THEN x.writing ELSE x.writing \o answer
        /\ r.plain = IF k = "plain" THEN x.plain \o first
                     ELSE IF r.hs = "done" THEN x.plain \o Decrypted(first)
                     ELSE x.plain
        /\ r = [hs |-> r.hs, plain |-> r.plain, enc |-> r.enc,
                writing |-> r.writing]
    BY ReadFields
  <1>1. CASE j = 0
    <2>1. first = << >> /\ x.plain \in Seq(Int) /\ x.writing \in Seq(Int)
      BY <1>1 DEF Record
    <2>2. r.hs = x.hs /\ r.enc = x.enc /\ r.plain = x.plain /\ r.writing = x.writing
      <3>1. x.plain \o << >> = x.plain /\ x.writing \o << >> = x.writing
        BY <2>1
      <3>. HIDE DEF r, first
      <3>2. /\ Decrypted(first) = << >> /\ answer = << >>
            /\ ShakenBy(k, s, x.hs, first) = x.hs
        BY <2>1, ReadNothing
      <3>. HIDE DEF answer
      <3>. QED BY <1>0, <2>1, <3>1, <3>2
    <2>. HIDE DEF r
    <2>3. Neat(s, r, a, << >>)
      BY <2>2 DEF Neat
    <2>4. Neat(o, d, b, r.plain)
      BY <2>2 DEF Neat
    <2>. QED BY <2>2, <2>3, <2>4 DEF NeatlyRead, r
  <1>2. CASE j # 0
    <2>1. /\ x.hs \in Stages /\ x.plain \in Seq(Int) /\ x.writing \in Seq(Int)
          /\ said \in SUBSET {Hello, Fin} /\ k \in {"plain", "tls12", "tls13"}
          /\ j \in 1..Len(q)
      BY <1>2 DEF Record, Said, KindPairs
    <2>3. Shook(s, k, x.hs, peer[s], q, sent[s], said, j)
      <3>1. HandshakeAt(s, k, x.hs, peer[s], q, sent[s], said)
        BY DEF Turn
      <3>. HIDE DEF k, said
      <3>. QED BY <2>1, <3>1, ReadShakes
    <2>. HIDE DEF r, answer
    <2>4. /\ x.hs = "done" => r.hs = "done"
          /\ answer \in {<< >>, <<Hello>>, <<Fin>>}
          /\ new \in Seq(Int) /\ \A i \in DOMAIN new : new[i] = m + i
          /\ sent[s] - (Len(rest) - Flights(rest)) = m + Len(new)
      BY <1>0, <2>3 DEF Shook, answer
    <2>5. r.plain = x.plain \o new
      <3>1. x.plain \o << >> = x.plain
        BY <2>1
      <3>. QED BY <1>0, <3>1
    <2>6. m \in Nat /\ \A y \in Range(b) \cup Range(d.writing) : IsData(y) => y <= m
      <3>1. FlowOK(kind[o], FlightsTo(o), d.hs, b, d.writing, d.enc, x.plain, m)
        BY DEF Way
      <3>. HIDE DEF m
      <3>2. m \in Nat /\ Holding(kind[o], d.hs, Range(b), Range(d.writing),
                                 Range(d.enc), Range(x.plain), m)
        BY <3>1, FlowParts
      <3>3. \A y \in {Zero, Hello, Fin, Junk} \cup 1..m : IsData(y) => y <= m
        BY <3>2 DEF Zero, Hello, Fin, Junk, IsData
      <3>. QED BY <3>2, <3>3 DEF Holding
    <2>7. m + Len(new) <= sent[s]
      <3>1. WellRead(s, o, x, d, b, a, request, l, q, j)
        BY ReadKeeps
      <3>2. rest \in Seq(Int) /\ Turn(s, r, a, rest)
        BY <3>1 DEF WellRead, r
      <3>. HIDE DEF rest, m, new
      <3>3. PICK f \in Starts : InboxIs(rest, f, sent[s])
        BY <3>2, SocketStarts DEF Turn
      <3>4. Len(rest) - Flights(rest) \in 0..sent[s]
        BY <3>2, <3>3, InboxFlights
      <3>. QED BY <2>4, <3>4
    <2>. HIDE DEF m, new, rest, first
    <2>8. Neat(s, r, a, << >>)
      <3>1. ASSUME k # "plain", s \notin gone
            PROVE  Fresh(Range(a), r.writing) /\ NoJunk(r.writing)
        <4>1. \A i \in DOMAIN answer : ~IsData(answer[i])
          BY <2>4 DEF IsData, Hello, Fin
        <4>2. Fresh(Range(a) \cup Range(x.writing), answer)
          BY <4>1, DatalessFresh
        <4>3. answer \in Seq(Int)
          <5>1. << >> \in Seq(Int)
            OBVIOUS
          <5>2. <<Hello>> \in Seq(Int) /\ <<Fin>> \in Seq(Int)
            BY DEF Hello, Fin
          <5>. QED BY <2>4, <5>1, <5>2
        <4>4. Fresh(Range(a), x.writing) /\ NoJunk(x.writing) /\ NoJunk(answer)
          BY <2>4, <3>1, NoJunkSaid DEF Neat, k
        <4>. QED BY <1>0, <2>1, <3>1, <4>2, <4>3, <4>4, FreshCat, NoJunkCat
      <3>. QED BY <1>0, <3>1, Nothing, NoJunkSaid DEF Neat, k
    <2>9. Neat(o, d, b, r.plain)
      <3>1. ASSUME kind[o] # "plain", o \notin gone
            PROVE  Fresh(Range(b) \cup Range(d.writing), r.plain) /\ NoJunk(r.plain)
        <4>1. r.plain = new
          <5>1. << >> \o new = new
            BY <2>4
          <5>. QED BY <2>5, <3>1, <5>1
        <4>2. NoJunk(new)
          <5>1. DOMAIN new \subseteq Nat /\ m \in Nat
            BY <2>4, <2>6
          <5>2. \A i \in DOMAIN new : new[i] # Junk
            BY <2>4, <5>1 DEF Junk
          <5>. QED BY <5>2 DEF NoJunk, Range
        <4>. QED BY <2>4, <2>6, <4>1, <4>2, NextFresh
      <3>. QED BY <3>1 DEF Neat
    <2>10. kind[o] # "plain" /\ o \notin gone /\ r.plain # << >> => j > 0 /\ sent[s] > 0
      <3>1. ASSUME kind[o] # "plain", o \notin gone, r.plain # << >>
            PROVE  sent[s] > 0
        <4>1. new # << >> /\ new \in Seq(Int)
          BY <2>4, <2>5, <3>1
        <4>2. Len(new) \in Nat /\ Len(new) # 0
          BY <4>1
        <4>. QED BY <2>6, <2>7, <4>2
      <3>. QED BY <2>1, <3>1
    <2>. QED BY <2>4, <2>8, <2>9, <2>10 DEF NeatlyRead, r, first
  <1>. QED BY <1>1, <1>2

-----------------------------------------------------------------------------
(* The events of a side, as a whole. *)

\* CalmInv of the structs c and the bytes b sent so far: what goes to a TLS side
\* is neat, and nothing waits for it at the other side.
AllNeat(c, b) ==
    \A z \in Sides : /\ Neat(z, c[z], b[z], << >>)
                     /\ kind[z] # "plain" /\ z \notin gone => c[Other(z)].plain = << >>

\* The reads and writes of one event, whichever of them are called.
LEMMA HandledNeat ==
    ASSUME ConstantsAssumption, RelayInv, CalmInv, NeverFull, NEW s \in Sides
    PROVE  LET h == Handled(s)
           IN /\ AllNeat(h.conn, [z \in Sides |-> out[z] \o h.bytes[z]])
              /\ \A z \in Sides : conn[z].hs = "done" => h.conn[z].hs = "done"
              /\ h.conn[Other(s)].hs = "done" => conn[Other(s)].hs = "done"
  <1>. DEFINE o == Other(s)
              n == IF "in" \in pend[s] THEN Smaller(Chunk, Len(inbox[s])) ELSE 0
              writes == n > 0 /\ o \in canWrite
              dies == writes /\ CannotRead(s)
              read == OnRead(conn[s], s, SubSeq(inbox[s], 1, n))
              there == IF writes THEN OnWrite(conn[o], o, read.plain)
                                 ELSE NotWritten(conn[o], read.plain)
              left == ReadNBytes(there.request, there.result)
              self == [read EXCEPT !.plain = left]
              here == IF "out" \in pend[s] /\ ~dies
                      THEN OnWriteEvent(self, s, there.conn.plain)
                      ELSE NotWritten(self, there.conn.plain)
              last == [there.conn EXCEPT !.plain = here.request]
              rest == SubSeq(inbox[s], n + 1, Len(inbox[s]))
              h == Handled(s)
              l == TakenFrom(o)
              m == sent[s] - (Len(inbox[s]) - Flights(inbox[s]))
              t == sent[s] - (Len(rest) - Flights(rest))
  <1>1. /\ h.conn = [z \in Sides |-> IF z = s THEN here.conn ELSE last]
        /\ h.bytes = [z \in Sides |-> IF z = s THEN here.bytes ELSE there.bytes]
    BY DEF Handled
  <1>2. /\ conn[s] \in Record /\ inbox[s] \in Seq(Int) /\ out[s] \in Seq(Int)
        /\ conn[o] \in Record /\ inbox[o] \in Seq(Int) /\ out[o] \in Seq(Int)
        /\ sent[s] \in Nat /\ room[s] \in Nat /\ room[o] \in Nat /\ kind \in KindPairs
        /\ o \in Sides /\ o # s /\ Other(o) = s /\ \A z \in Sides : z = s \/ z = o
        /\ room[s] > 0 /\ room[o] > 0
    BY PartsTyped DEF RelayInv, TypeOK, ConstantsAssumption, NeverFull
  <1>3. n \in 0..Len(inbox[s])
    BY <1>2 DEF ConstantsAssumption, Smaller
  <1>4. /\ Way(s, conn[s], out[s], conn[o].plain, l)
        /\ Turn(s, conn[s], out[s], inbox[s])
        /\ Way(o, conn[o], out[o], conn[s].plain, m)
        /\ Turn(o, conn[o], out[o], inbox[o])
    <2>1. FlowInv(s) /\ FlowInv(o) /\ HandshakeInv(s) /\ HandshakeInv(o)
      BY <1>2 DEF RelayInv
    <2>. QED BY <1>2, <2>1 DEF Way, Turn, FlowInv, HandshakeInv, SaidTo, Said, TakenFrom
  <1>5. /\ Neat(s, conn[s], out[s], << >>) /\ Neat(o, conn[o], out[o], << >>)
        /\ kind[s] # "plain" /\ s \notin gone => conn[o].plain = << >>
        /\ kind[o] # "plain" /\ o \notin gone => conn[s].plain = << >>
    BY <1>2, Nothing, NoJunkSaid DEF CalmInv, Neat, NoJunk
  <1>. HIDE DEF h, n, o, l, m
  <1>6. /\ read \in Record /\ rest \in Seq(Int)
        /\ Way(o, conn[o], out[o], read.plain, t)
        /\ Way(s, read, out[s], conn[o].plain, l) /\ Turn(s, read, out[s], rest)
        /\ NeatlyRead(s, o, conn[s], conn[o], out[o], out[s], n, read)
    <2>1. WellRead(s, o, conn[s], conn[o], out[o], out[s], conn[o].plain, l,
                   inbox[s], n)
      BY <1>2, <1>3, <1>4, ReadKeeps DEF m
    <2>2. NeatlyRead(s, o, conn[s], conn[o], out[o], out[s], n,
                     OnRead(conn[s], s, SubSeq(inbox[s], 1, n)))
      BY <1>2, <1>3, <1>4, <1>5, ReadNeat DEF m
    <2>. QED BY <2>1, <2>2 DEF WellRead
  <1>. HIDE DEF read, rest, t
  <1>7. read.plain \in Seq(Int)
    BY <1>6 DEF Record
  <1>8. kind[o] # "plain" /\ o \notin gone /\ read.plain # << >> =>
            writes /\ conn[o].hs = "done"
    <2>1. ASSUME kind[o] # "plain", o \notin gone, read.plain # << >>
          PROVE  n > 0 /\ conn[o].hs = "done" /\ o \in canWrite
      <3>1. n > 0 /\ sent[s] > 0
        BY <1>6, <2>1 DEF NeatlyRead
      <3>. QED BY <1>2, <2>1, <3>1 DEF CalmInv
    <2>. QED BY <2>1
  <1>9. /\ WellWritten(o, conn[o], out[o], t, inbox[o], there)
        /\ NeatlyWritten(o, conn[o], out[o], read.plain, there)
    <2>1. Neat(o, conn[o], out[o], read.plain)
      BY <1>6 DEF NeatlyRead
    <2>2. CASE writes
      <3>1. WellWritten(o, conn[o], out[o], t, inbox[o], OnWrite(conn[o], o, read.plain))
        BY <1>2, <1>4, <1>6, <1>7, WriteKeeps
      <3>2. NeatlyWritten(o, conn[o], out[o], read.plain, OnWrite(conn[o], o, read.plain))
        BY <1>2, <1>7, <1>8, <2>1, WriteNeat
      <3>. QED BY <2>2, <3>1, <3>2
    <2>3. CASE ~writes
      <3>1. WellWritten(o, conn[o], out[o], t, inbox[o], NotWritten(conn[o], read.plain))
        BY <1>2, <1>4, <1>6, <1>7, NotWrittenKeeps
      <3>2. NeatlyWritten(o, conn[o], out[o], read.plain, NotWritten(conn[o], read.plain))
        BY <1>2, <1>7, <1>8, <2>1, <2>3, NotWrittenNeat
      <3>. QED BY <2>3, <3>1, <3>2
    <2>. QED BY <2>2, <2>3
  <1>. HIDE DEF there
  <1>10. /\ there.conn \in Record /\ there.conn.plain = conn[o].plain /\ left \in Seq(Int)
         /\ Neat(o, there.conn, out[o] \o there.bytes, << >>)
         /\ conn[o].hs = "done" <=> there.conn.hs = "done"
         /\ kind[o] # "plain" /\ o \notin gone => left = << >>
    BY <1>9 DEF WellWritten, NeatlyWritten
  <1>. HIDE DEF left
  <1>11. /\ self \in Record /\ self.plain = left /\ self.hs = read.hs
         /\ self.enc = read.enc /\ self.writing = read.writing
    BY <1>6, <1>10 DEF Record
  <1>. HIDE DEF self
  <1>12. /\ Way(s, self, out[s], conn[o].plain, l) /\ Turn(s, self, out[s], rest)
         /\ Neat(s, self, out[s], conn[o].plain)
         /\ conn[s].hs = "done" => self.hs = "done"
    <2>1. Neat(s, self, out[s], << >>) /\ (conn[s].hs = "done" => self.hs = "done")
      BY <1>6, <1>11 DEF NeatlyRead, Neat
    <2>2. Neat(s, self, out[s], conn[o].plain)
      BY <1>5, <2>1 DEF Neat
    <2>. QED BY <1>6, <1>11, <2>1, <2>2 DEF Way, Turn
  <1>13. /\ WellWritten(s, self, out[s], l, rest, here)
         /\ NeatlyWritten(s, self, out[s], conn[o].plain, here)
    <2>1. conn[o].plain \in Seq(Int)
      BY <1>2 DEF Record
    <2>2. /\ WellWritten(s, self, out[s], l, rest, OnWrite(self, s, conn[o].plain))
          /\ NeatlyWritten(s, self, out[s], conn[o].plain,
                           OnWrite(self, s, conn[o].plain))
      <3>1. WellWritten(s, self, out[s], l, rest, OnWrite(self, s, conn[o].plain))
        BY <1>2, <1>6, <1>11, <1>12, <2>1, WriteKeeps
      <3>2. NeatlyWritten(s, self, out[s], conn[o].plain,
                          OnWrite(self, s, conn[o].plain))
        BY <1>2, <1>5, <1>11, <1>12, <2>1, WriteNeat
      <3>. QED BY <3>1, <3>2
    <2>3. /\ WellWritten(s, self, out[s], l, rest, NotWritten(self, conn[o].plain))
          /\ NeatlyWritten(s, self, out[s], conn[o].plain,
                           NotWritten(self, conn[o].plain))
      <3>1. WellWritten(s, self, out[s], l, rest, NotWritten(self, conn[o].plain))
        BY <1>2, <1>11, <1>12, <2>1, NotWrittenKeeps
      <3>2. NeatlyWritten(s, self, out[s], conn[o].plain,
                          NotWritten(self, conn[o].plain))
        BY <1>2, <1>5, <1>11, <1>12, <2>1, NotWrittenNeat
      <3>. QED BY <3>1, <3>2
    <2>. HIDE DEF dies
    <2>. QED BY <1>10, <2>2, <2>3 DEF OnWriteEvent
  <1>. HIDE DEF here
  <1>14. /\ here.conn.plain = left /\ here.request \in Seq(Int)
         /\ Neat(s, here.conn, out[s] \o here.bytes, << >>)
         /\ conn[s].hs = "done" => here.conn.hs = "done"
         /\ kind[s] # "plain" /\ s \notin gone => here.request = << >>
    BY <1>5, <1>11, <1>12, <1>13 DEF WellWritten, NeatlyWritten
  <1>15. /\ last.plain = here.request /\ last.hs = there.conn.hs
         /\ last.enc = there.conn.enc /\ last.writing = there.conn.writing
    BY <1>10, <1>14 DEF Record
  <1>. HIDE DEF last
  <1>16. Neat(o, last, out[o] \o there.bytes, << >>)
    BY <1>10, <1>15 DEF Neat
  <1>17. /\ h.conn[s] = here.conn /\ h.conn[o] = last
         /\ h.bytes[s] = here.bytes /\ h.bytes[o] = there.bytes
    BY <1>1, <1>2
  <1>. DEFINE b == [z \in Sides |-> out[z] \o h.bytes[z]]
  <1>18. b[s] = out[s] \o here.bytes /\ b[o] = out[o] \o there.bytes
    BY <1>2, <1>17
  <1>. HIDE DEF b
  <1>19. Other(s) = o
    BY DEF o
  <1>20. AllNeat(h.conn, b)
    <2>1. /\ Neat(s, h.conn[s], b[s], << >>) /\ Neat(o, h.conn[o], b[o], << >>)
          /\ kind[s] # "plain" /\ s \notin gone => h.conn[o].plain = << >>
          /\ kind[o] # "plain" /\ o \notin gone => h.conn[s].plain = << >>
      BY <1>10, <1>14, <1>15, <1>16, <1>17, <1>18
    <2>. QED BY <1>2, <1>19, <2>1 DEF AllNeat
  <1>21. /\ \A z \in Sides : conn[z].hs = "done" => h.conn[z].hs = "done"
         /\ h.conn[o].hs = "done" => conn[o].hs = "done"
    BY <1>2, <1>10, <1>14, <1>15, <1>17
  <1>. QED BY <1>19, <1>20, <1>21 DEF h, b

-----------------------------------------------------------------------------
(* The invariant, action by action. *)

\* Initially nothing was sent.
LEMMA InitCalm == Init => CalmInv
  <1>. SUFFICES ASSUME Init
                PROVE  CalmInv
    OBVIOUS
  <1>1. ASSUME NEW s \in Sides
        PROVE  /\ pend[s] = {} /\ sent[s] = 0 /\ out[s] = << >>
               /\ conn[s].plain = << >> /\ conn[s].enc = << >>
               /\ conn[s].writing = << >>
               /\ kind[s] # "plain" => conn[s].hs # "done"
    BY DEF Init, NewConn
  <1>2. \A s \in Sides : Other(s) \in Sides
    BY DEF Other, Sides
  <1>3. (\A S : Fresh(S, << >>)) /\ Junk \notin Range(<< >>)
    BY Nothing
  <1>. QED BY <1>1, <1>2, <1>3 DEF CalmInv

\* CalmInv depends on little: remote ends may hang up, and tokens may be sent when
\* both handshakes are finished.
LEMMA CalmOtherwise ==
    ASSUME CalmInv, UNCHANGED <<kind, conn, out, pend, canWrite>>, gone \subseteq gone',
           \A s \in Sides : sent'[s] = sent[s] \/ \A z \in Sides : conn[z].hs = "done"
    PROVE  CalmInv'
  BY DEF CalmInv

\* Every pending event reports EPOLLOUT, for no socket is full.
LEMMA CalmEpollWait ==
    ASSUME CalmInv, NeverFull, EpollWait
    PROVE  CalmInv'
  <1>1. /\ UNCHANGED <<kind, conn, out, canWrite, gone, sent>>
        /\ \A s \in Sides : pend'[s] # {} => "out" \in pend'[s]
    BY DEF EpollWait, ReadyFor, NeverFull
  <1>. QED BY <1>1 DEF CalmInv

\* A closed side stays as it is.
LEMMA CalmHandleClose ==
    ASSUME RelayInv, CalmInv, NEW s \in Sides, HandleClose(s)
    PROVE  CalmInv'
  <1>1. /\ UNCHANGED <<kind, conn, out, gone, sent>> /\ canWrite' = canWrite \cup {s}
        /\ pend' = [pend EXCEPT ![s] = {}]
    BY DEF HandleClose
  <1>2. \A z \in Sides : pend'[z] \in {pend[z], {}}
    BY <1>1 DEF RelayInv, TypeOK
  <1>. QED BY <1>1, <1>2 DEF CalmInv

\* An event of a side is handled.
LEMMA CalmHandleEvents ==
    ASSUME RelayInv, CalmInv, NeverFull, NEW s \in Sides, HandleEvents(s)
    PROVE  CalmInv'
  <1>. DEFINE h == Handled(s)
              b == [z \in Sides |-> out[z] \o h.bytes[z]]
  <1>1. /\ AllNeat(h.conn, b)
        /\ \A z \in Sides : conn[z].hs = "done" => h.conn[z].hs = "done"
        /\ h.conn[Other(s)].hs = "done" => conn[Other(s)].hs = "done"
    BY ConstantsAssumption, HandledNeat
  <1>2. /\ conn' = h.conn /\ out' = b /\ pend' = [pend EXCEPT ![s] = {}]
        /\ canWrite' = IF "out" \in pend[s] THEN canWrite \cup {s} ELSE canWrite \ {s}
        /\ UNCHANGED <<kind, gone, sent>> /\ pend[s] # {}
    BY DEF HandleEvents
  <1>. HIDE DEF h, b
  <1>3. canWrite' = canWrite \cup {s}
    BY <1>2 DEF CalmInv
  <1>4. \A z \in Sides : pend'[z] \in {pend[z], {}}
    BY <1>2 DEF RelayInv, TypeOK
  <1>5. \A z \in Sides : conn'[z].hs = "done" => z \in canWrite'
                         \/ kind[z] = "plain"
    <2>1. ASSUME NEW z \in Sides, conn'[z].hs = "done", kind[z] # "plain"
          PROVE  z \in canWrite'
      <3>1. z = s \/ z = Other(s)
        BY DEF Sides, Other
      <3>2. CASE z = s
        BY <1>3, <3>2
      <3>3. CASE z = Other(s)
        BY <1>1, <1>2, <1>3, <2>1, <3>3 DEF CalmInv
      <3>. QED BY <3>1, <3>2, <3>3
    <2>. QED BY <2>1
  <1>6. /\ \A z \in Sides : pend'[z] # {} => "out" \in pend'[z]
        /\ \A z \in Sides : sent'[z] > 0 => \A y \in Sides : conn'[y].hs = "done"
    BY <1>1, <1>2, <1>4 DEF CalmInv
  <1>7. ASSUME NEW z \in Sides, kind'[z] # "plain"
        PROVE  /\ conn'[z].hs = "done" => z \in canWrite'
               /\ Fresh({}, out'[z]) /\ Junk \notin Range(out'[z])
               /\ z \notin gone' =>
                      /\ conn'[z].enc = << >> /\ conn'[Other(z)].plain = << >>
                      /\ Fresh(Range(out'[z]), conn'[z].writing)
                      /\ Junk \notin Range(conn'[z].writing)
    BY <1>1, <1>2, <1>5, <1>7 DEF AllNeat, Neat, NoJunk
  <1>. QED BY <1>6, <1>7 DEF CalmInv

\* Every step keeps the invariant, as long as no socket is full.
LEMMA NextCalm ==
    ASSUME ~Early, RelayInv, CalmInv, NeverFull, [Next]_vars
    PROVE  CalmInv'
  <1>1. CASE ClientShakes \/ BackendShakes
    BY <1>1, CalmOtherwise DEF ClientShakes, BackendShakes, Shakes, zroxy
  <1>2. CASE \E s \in Sides : PeerSends(s)
    <2>1. PICK s \in Sides : PeerSends(s)
      BY <1>2
    <2>2. /\ UNCHANGED <<zroxy, gone>> /\ Established
          /\ sent' = [sent EXCEPT ![s] = @ + 1]
      BY <2>1 DEF PeerSends
    <2>3. \A z \in Sides : sent'[z] = sent[z] \/ \A y \in Sides : conn[y].hs = "done"
      BY <2>2 DEF Established
    <2>. QED BY <2>2, <2>3, CalmOtherwise DEF zroxy
  <1>3. CASE \E s \in Sides : Drain(s)
    BY <1>3, CalmOtherwise DEF Drain, zroxy
  <1>4. CASE \E s \in Sides : HangUp(s)
    BY <1>4, CalmOtherwise DEF HangUp, zroxy
  <1>5. CASE EpollWait
    BY <1>5, CalmEpollWait
  <1>6. CASE \E s \in Sides : HandleEvents(s)
    BY <1>6, CalmHandleEvents
  <1>7. CASE \E s \in Sides : HandleClose(s)
    BY <1>7, CalmHandleClose
  <1>8. CASE UNCHANGED vars
    BY <1>8, CalmOtherwise DEF vars
  <1>. QED BY <1>1, <1>2, <1>3, <1>4, <1>5, <1>6, <1>7, <1>8 DEF Next

\* CalmInv: as long as no socket has been full, what zroxy reads is written at
\* once, and nothing waits in a TLS side that is there (zxy_handle_client_events,
\* zxy_handle_backend_events, on_write of the TLS sides).
THEOREM CalmInvariant == ~Early => (Spec /\ []NeverFull => []CalmInv)
  <1>. SUFFICES ASSUME ~Early
                PROVE  Spec /\ []NeverFull => []CalmInv
    OBVIOUS
  <1>1. RelayInv /\ CalmInv /\ NeverFull /\ [Next]_vars => CalmInv'
    BY NextCalm
  <1>. QED BY <1>1, InitCalm, RelayInvariant, PTL DEF Spec

\* ExactlyOnce: whatever is on its way to a side that is there, no token is in it
\* twice; so none is ever sent twice.
THEOREM ForwardedOnce == ~Early => (Spec /\ []NeverFull => []ExactlyOnce)
  <1>. SUFFICES ASSUME ~Early
                PROVE  Spec /\ []NeverFull => []ExactlyOnce
    OBVIOUS
  <1>1. RelayInv /\ CalmInv => ExactlyOnce
    <2>. SUFFICES ASSUME RelayInv, CalmInv, NEW s \in Sides \ gone,
                         NEW t \in 1..Tokens(Other(s))
                  PROVE  Once(Stream(s), t)
      BY DEF ExactlyOnce
    <2>1. Fresh({}, Stream(s))
      <3>1. CASE kind[s] = "plain"
        BY <3>1, StreamParts
      <3>2. CASE kind[s] # "plain"
        <4>1. /\ conn[s].enc = << >> /\ conn[Other(s)].plain = << >>
              /\ Fresh({}, out[s]) /\ Fresh(Range(out[s]), conn[s].writing)
          BY <3>2 DEF CalmInv
        <4>2. /\ out[s] \in Seq(Int) /\ conn[s].writing \in Seq(Int)
          BY PartsTyped DEF RelayInv, Record
        <4>3. Stream(s) = out[s] \o conn[s].writing
          <5>1. \A q \in Seq(Int) : q \o << >> = q
            OBVIOUS
          <5>2. out[s] \o conn[s].writing \in Seq(Int)
            BY <4>2
          <5>. QED BY <4>1, <5>1, <5>2 DEF Stream
        <4>4. \A S : {} \cup S = S
          OBVIOUS
        <4>. QED BY <4>1, <4>2, <4>3, <4>4, FreshCat
      <3>. QED BY <3>1, <3>2
    <2>. QED BY <2>1, SeenBefore DEF Fresh, Once, IsData
  <1>. QED BY <1>1, RelayInvariant, CalmInvariant, PTL

=============================================================================
