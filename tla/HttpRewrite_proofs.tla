------------------------- MODULE HttpRewrite_proofs -------------------------
(***************************************************************************)
(* RewriteInv is inductive: the head of a request is safe from the         *)
(* rewriting of its Host header.  Beside it OneHostInv is: a request that  *)
(* has one Host header is rewritten in full, and only once.  And so is     *)
(* HostOnlyInv: where no value changes its length, nothing else changes.   *)
(***************************************************************************)
EXTENDS HttpRewrite, FiniteSetTheorems, TLAPS

-----------------------------------------------------------------------------
(* The least and the greatest of a set of numbers. *)

\* A set of naturals that is not empty has a least element.
LEMMA LeastFacts ==
    ASSUME NEW S, S \subseteq Nat, S # {}
    PROVE  LeastOf(S) \in S /\ \A y \in S : LeastOf(S) <= y
  <1>1. PICK x \in S : \A y \in S : ~(<<y, x>> \in OpToRel(<, Nat))
    BY NatLessThanWellFounded, WFMin, Zenon
  <1>2. ASSUME NEW y \in S PROVE x <= y
    <2>1. x \in Nat /\ y \in Nat /\ ~(<<y, x>> \in OpToRel(<, Nat))
      BY <1>1, <1>2
    <2>2. y < x => <<y, x>> \in OpToRel(<, Nat)
      <3>1. <<y, x>> \in Nat \X Nat /\ <<y, x>>[1] = y /\ <<y, x>>[2] = x
        BY <2>1
      <3>. QED BY <3>1, Zenon DEF OpToRel
    <2>3. ~(y < x)
      BY <2>1, <2>2, Zenon
    <2>4. x \in Nat /\ y \in Nat
      OBVIOUS
    <2>. QED BY <2>3, <2>4
  <1>. QED BY <1>2 DEF LeastOf

\* So does a bounded one have a greatest.
LEMMA GreatestFacts ==
    ASSUME NEW S, NEW n \in Nat, S \subseteq 0..n, S # {}
    PROVE  GreatestOf(S) \in S /\ \A y \in S : y <= GreatestOf(S)
  <1>. DEFINE T == {n - y : y \in S}
  <1>0. \A y \in S : y \in Nat /\ y <= n
    OBVIOUS
  <1>1. T \subseteq Nat /\ T # {}
    <2>1. \A t \in T : t \in Nat
      BY <1>0
    <2>2. T # {}
      OBVIOUS
    <2>. QED BY <2>1, <2>2
  <1>2. LeastOf(T) \in T /\ \A y \in T : LeastOf(T) <= y
    BY <1>1, LeastFacts
  <1>3. PICK x \in S : LeastOf(T) = n - x
    BY <1>2
  <1>4. \A y \in S : n - y \in T
    OBVIOUS
  <1>5. \A y \in S : y <= x
    <2>1. \A y \in S : n - x <= n - y
      BY <1>2, <1>3, <1>4
    <2>. QED BY <1>0, <2>1
  <1>. QED BY <1>5 DEF GreatestOf

-----------------------------------------------------------------------------
(* What the parser finds in q. *)

\* Lines begin after the request line, and not before the third token if there
\* was an empty line.
LEMMA LineFacts ==
    ASSUME NEW q \in Seq(Int)
    PROVE  /\ First(q) \in 1..2
           /\ LineStarts(q) \subseteq First(q) + 1..Len(q)
           /\ EmptyLines(q) \subseteq LineStarts(q)
           /\ HeaderStarts(q) \subseteq LineStarts(q)
           /\ IsFiniteSet(HeaderStarts(q))
  <1>1. First(q) \in 1..2
    BY DEF First
  <1>2. /\ LineStarts(q) \subseteq First(q) + 1..Len(q)
        /\ EmptyLines(q) \subseteq LineStarts(q)
        /\ HeaderStarts(q) \subseteq LineStarts(q)
    BY DEF LineStarts, EmptyLines, HeaderStarts
  <1>3. HeaderStarts(q) \subseteq 1..Len(q)
    BY <1>1, <1>2
  <1>4. IsFiniteSet(1..Len(q))
    BY FS_Interval
  <1>. QED BY <1>1, <1>2, <1>3, <1>4, FS_Subset

\* The empty line that ends the head.
HeadEnd(q) == LeastOf(EmptyLines(q))

\* It is the first empty line, and the header lines are those before it.
LEMMA HeadEndFacts ==
    ASSUME NEW q \in Seq(Int), EmptyLines(q) # {}
    PROVE  /\ HeadEnd(q) \in EmptyLines(q)
           /\ \A y \in EmptyLines(q) : HeadEnd(q) <= y
           /\ HeadEnd(q) \in 2..Len(q) /\ q[HeadEnd(q)] = Crlf
           /\ HeaderStarts(q) = {p \in LineStarts(q) : p < HeadEnd(q)}
  <1>1. EmptyLines(q) \subseteq 2..Len(q)
    BY LineFacts
  <1>2. /\ HeadEnd(q) \in EmptyLines(q)
        /\ \A y \in EmptyLines(q) : HeadEnd(q) <= y
    BY <1>1, LeastFacts DEF HeadEnd
  <1>. QED BY <1>1, <1>2 DEF EmptyLines, HeaderStarts, HeadEnd

\* A header lies between its name and the end of its line, its value behind
\* blanks if the name is one token; the line ends before the one that ends the head.
LineAt(q, p, h, end) ==
    /\ end \in p + 1..Len(q) - 1 /\ end < HeadEnd(q)
    /\ q[end] = Crlf
    /\ \A k \in p..end - 1 : q[k] # Crlf
    /\ h.name = p /\ h.value \in p + 1..end
    /\ q[p] # Forwarded => \A k \in p + 1..h.value - 1 : q[k] = Blank
    /\ h.value < end => q[h.value] # Blank
    /\ h.len \in Nat /\ h.value + h.len <= end
    /\ h.len > 0 => q[h.value + h.len - 1] # Blank
    /\ \A k \in h.value + h.len..end - 1 : q[k] = Blank
    /\ h = [name |-> p, value |-> h.value, len |-> h.len]

\* That is where HeaderAt finds one.
LEMMA HeaderFacts ==
    ASSUME NEW q \in Seq(Int), Parses(q), NEW p \in HeaderStarts(q)
    PROVE  LineAt(q, p, HeaderAt(q, p), EndOfLine(q, p))
  <1>. DEFINE end == EndOfLine(q, p)
              c == NameEnd(q, p)
              E == {e \in p..Len(q) : q[e] = Crlf}
              F == {k \in c + 1..end : q[k] # Blank}
              from == LeastOf(F)
              G == {k \in p..end - 1 : k < from \/ q[k] # Blank}
              last == GreatestOf(G)
  <1>1. /\ p \in LineStarts(q) /\ p \in 2..Len(q) /\ p < HeadEnd(q)
        /\ HeadEnd(q) \in EmptyLines(q) /\ HeadEnd(q) \in 2..Len(q)
        /\ q[HeadEnd(q)] = Crlf /\ q[c] \in Names
        /\ \A y \in EmptyLines(q) : HeadEnd(q) <= y
    BY LineFacts, HeadEndFacts DEF Parses
  <1>2. E \subseteq Nat /\ HeadEnd(q) \in E
    BY <1>1
  <1>3. end \in E /\ \A y \in E : end <= y
    <2>1. end = LeastOf(E)
      BY DEF EndOfLine
    <2>. HIDE DEF E, end
    <2>. QED BY <1>2, <2>1, LeastFacts
  <1>. HIDE DEF end
  <1>3a. c \in p..p + 1 /\ (c # p <=> q[p] = Forwarded)
    BY <1>1 DEF NameEnd
  <1>4. end # p /\ end # c
    <2>1. q[c] # Crlf
      BY <1>1 DEF Names, Crlf, Host, HostAlias, Accept
    <2>2. q[p] # Crlf
      BY <1>3a, <2>1 DEF Forwarded, Crlf
    <2>. HIDE DEF c
    <2>. QED BY <1>3, <2>1, <2>2
  <1>. HIDE DEF c
  <1>5. end \in p + 1..Len(q) /\ q[end] = Crlf /\ end <= HeadEnd(q) /\ c < end
    BY <1>1, <1>2, <1>3, <1>4, <1>3a
  <1>0. p \in Int /\ end \in Int /\ Len(q) \in Int
    BY <1>1, <1>5
  <1>6. \A k \in p..end - 1 : q[k] # Crlf
    <2>1. ASSUME NEW k \in p..end - 1, q[k] = Crlf PROVE FALSE
      <3>1. k \in p..Len(q) /\ k < end
        BY <1>0, <1>5
      <3>. QED BY <1>0, <1>3, <2>1, <3>1
    <2>. QED BY <2>1
  <1>7. end # HeadEnd(q)
    <2>1. HeadEnd(q) = First(q) + 1 \/ q[HeadEnd(q) - 1] = Crlf
      BY <1>1 DEF EmptyLines, LineStarts
    <2>2. p > First(q) /\ First(q) \in 1..2
      BY <1>1, LineFacts
    <2>. QED BY <1>1, <1>5, <1>6, <2>1, <2>2
  <1>8. from \in F /\ \A y \in F : from <= y
    <2>1. F \subseteq Nat /\ end \in F
      BY <1>1, <1>5, <1>3a DEF Crlf, Blank
    <2>. HIDE DEF F
    <2>. QED BY <2>1, LeastFacts
  <1>. HIDE DEF from
  <1>9. from \in p + 1..end /\ (from < end => q[from] # Blank)
    BY <1>0, <1>8, <1>3a
  <1>10. q[p] # Forwarded => \A k \in p + 1..from - 1 : q[k] = Blank
    <2>1. ASSUME q[p] # Forwarded, NEW k \in p + 1..from - 1, q[k] # Blank PROVE FALSE
      <3>1. k \in c + 1..end /\ k < from
        BY <1>0, <1>9, <1>3a, <2>1
      <3>2. k \in F
        BY <2>1, <3>1
      <3>. QED BY <1>0, <1>8, <1>9, <3>1, <3>2
    <2>. QED BY <2>1
  <1>11. last \in G /\ \A y \in G : y <= last
    <2>1. G \subseteq 0..Len(q) /\ from - 1 \in G /\ Len(q) \in Nat
      <3>1. p \in Nat /\ end \in p + 1..Len(q) /\ from \in p + 1..end /\ Len(q) \in Nat
        BY <1>0, <1>1, <1>5, <1>9
      <3>. HIDE DEF end
      <3>2. p..end - 1 \subseteq 0..Len(q) /\ from - 1 \in p..end - 1 /\ from - 1 < from
        BY <3>1
      <3>. QED BY <3>1, <3>2
    <2>. HIDE DEF G
    <2>. QED BY <2>1, GreatestFacts
  <1>. HIDE DEF last
  <1>12. last \in from - 1..end - 1 /\ (last >= from => q[last] # Blank)
    <2>1. from - 1 \in G
      BY <1>1, <1>5, <1>9
    <2>. QED BY <1>1, <1>5, <1>9, <1>11, <2>1
  <1>13. \A k \in last + 1..end - 1 : q[k] = Blank
    <2>1. ASSUME NEW k \in last + 1..end - 1, q[k] # Blank PROVE FALSE
      <3>1. k \in p..end - 1 /\ k > last
        BY <1>0, <1>9, <1>12
      <3>2. k \in G
        BY <2>1, <3>1
      <3>. QED BY <1>0, <1>9, <1>11, <1>12, <3>1, <3>2
    <2>. QED BY <2>1
  <1>14. HeaderAt(q, p) = [name |-> p, value |-> from, len |-> last + 1 - from]
    BY DEF HeaderAt, from, last, end, c
  <1>15. HeaderAt(q, p).name = p /\ HeaderAt(q, p).value = from
         /\ HeaderAt(q, p).len = last + 1 - from
    BY <1>14
  <1>16. from \in Int /\ last \in Int /\ end \in Int /\ HeadEnd(q) \in Int
    BY <1>1, <1>5, <1>9, <1>12
  <1>17. end \in p + 1..Len(q) - 1 /\ end < HeadEnd(q)
    BY <1>1, <1>5, <1>7, <1>16
  <1>18. last + 1 - from \in Nat /\ from + (last + 1 - from) = last + 1
         /\ last + 1 <= end
    BY <1>0, <1>9, <1>12
  <1>. DEFINE h == HeaderAt(q, p)
  <1>19. h.value \in p + 1..end /\ (h.value < end => q[h.value] # Blank)
         /\ (q[p] # Forwarded => \A k \in p + 1..h.value - 1 : q[k] = Blank)
    BY <1>9, <1>10, <1>15
  <1>20. h.len \in Nat /\ h.value + h.len <= end
         /\ \A k \in h.value + h.len..end - 1 : q[k] = Blank
    BY <1>13, <1>15, <1>18
  <1>21. h.len > 0 => q[h.value + h.len - 1] # Blank
    <2>1. h.value + h.len - 1 = last
      BY <1>0, <1>9, <1>12, <1>15
    <2>. QED BY <1>0, <1>9, <1>12, <1>15, <2>1
  <1>22. h = [name |-> p, value |-> h.value, len |-> h.len]
    BY <1>14, <1>15
  <1>. HIDE DEF h
  <1>23. LineAt(q, p, h, end)
    BY <1>5, <1>6, <1>15, <1>17, <1>19, <1>20, <1>21, <1>22 DEF LineAt, h
  <1>. QED BY <1>23 DEF end, h

\* A name that begins with "Host" is one token.
LEMMA HostIsOne ==
    ASSUME NEW x \in HostNames
    PROVE  x # Forwarded
  BY DEF HostNames, Host, HostAlias, Forwarded

-----------------------------------------------------------------------------
(* The headers in order. *)

\* The place of p among the elements of S.
Rank(S, p) == Cardinality({r \in S : r <= p})

\* Ranks go from 1 to the number of elements, and each is somebody's.
LEMMA RankFacts ==
    ASSUME NEW S, S \subseteq Nat, IsFiniteSet(S)
    PROVE  /\ Cardinality(S) \in Nat
           /\ \A p \in S : Rank(S, p) \in 1..Cardinality(S)
           /\ \A p \in S, r \in S : Rank(S, p) = Rank(S, r) => p = r
           /\ \A k \in 1..Cardinality(S) : \E p \in S : Rank(S, p) = k
  <1>. DEFINE Up(p) == {r \in S : r <= p}
              f == [p \in S |-> Rank(S, p)]
  <1>1. Cardinality(S) \in Nat
    BY FS_CardinalityType
  <1>2. ASSUME NEW p \in S
        PROVE  IsFiniteSet(Up(p)) /\ Rank(S, p) \in 1..Cardinality(S)
    <2>1. Up(p) \in SUBSET S /\ p \in Up(p)
      OBVIOUS
    <2>2. IsFiniteSet(Up(p)) /\ Cardinality(Up(p)) <= Cardinality(S)
      BY <2>1, FS_Subset
    <2>3. Cardinality(Up(p)) \in Nat
      BY <2>2, FS_CardinalityType
    <2>4. Cardinality(Up(p)) # 0
      BY <2>1, <2>2, FS_EmptySet
    <2>. HIDE DEF Up
    <2>5. Cardinality(Up(p)) \in 1..Cardinality(S)
      BY <1>1, <2>2, <2>3, <2>4
    <2>. QED BY <2>2, <2>5 DEF Rank, Up
  <1>3. ASSUME NEW p \in S, NEW r \in S, p < r
        PROVE  Rank(S, p) # Rank(S, r)
    <2>1. Up(p) \in SUBSET Up(r)
      <3>. SUFFICES ASSUME NEW x \in S, x <= p PROVE x <= r
        OBVIOUS
      <3>1. x \in Nat /\ p \in Nat /\ r \in Nat
        OBVIOUS
      <3>. QED BY <1>3, <3>1
    <2>2. Up(p) # Up(r)
      <3>1. p \in Nat /\ r \in Nat
        OBVIOUS
      <3>2. r \in Up(r) /\ r \notin Up(p)
        BY <1>3, <3>1
      <3>. QED BY <3>2
    <2>3. IsFiniteSet(Up(r))
      BY <1>2
    <2>. HIDE DEF Up
    <2>4. Cardinality(Up(r)) # Cardinality(Up(p))
      BY <2>1, <2>2, <2>3, FS_Subset
    <2>. QED BY <2>4 DEF Rank, Up
  <1>4. \A p \in S, r \in S : Rank(S, p) = Rank(S, r) => p = r
    <2>. SUFFICES ASSUME NEW p \in S, NEW r \in S, p # r
                  PROVE  Rank(S, p) # Rank(S, r)
      OBVIOUS
    <2>1. p < r \/ r < p
      <3>1. p \in Nat /\ r \in Nat
        OBVIOUS
      <3>. QED BY <3>1
    <2>. QED BY <1>3, <2>1
  <1>5. f \in Injection(S, 1..Cardinality(S))
    BY <1>2, <1>4 DEF Injection, IsInjective
  <1>6. /\ IsFiniteSet(1..Cardinality(S))
        /\ Cardinality(1..Cardinality(S)) = Cardinality(S)
    BY <1>1, FS_Interval
  <1>7. f \in Surjection(S, 1..Cardinality(S))
    <2>. HIDE DEF f
    <2>. QED BY <1>5, <1>6, FS_Injection
  <1>8. \A k \in 1..Cardinality(S) : \E p \in S : Rank(S, p) = k
    BY <1>7 DEF Surjection
  <1>. QED BY <1>1, <1>2, <1>4, <1>8

\* Headers are the header lines, each once.
HeadersAre(q, hs) ==
    /\ hs \in Seq([name : 1..Len(q), value : 1..Len(q), len : Nat])
    /\ Len(hs) <= MaxHeaders
    /\ \A k \in DOMAIN hs : /\ hs[k].name \in HeaderStarts(q)
                            /\ hs[k] = HeaderAt(q, hs[k].name)
    /\ \A j \in DOMAIN hs, k \in DOMAIN hs : hs[j].name = hs[k].name => j = k
    /\ \A p \in HeaderStarts(q) : \E k \in DOMAIN hs : hs[k].name = p

LEMMA HeadersFacts ==
    ASSUME NEW q \in Seq(Int), Parses(q)
    PROVE  HeadersAre(q, Headers(q))
  <1>. DEFINE S == HeaderStarts(q)
              nth(k) == CHOOSE p \in S : Rank(S, p) = k
              hs == [k \in 1..Cardinality(S) |-> HeaderAt(q, nth(k))]
  <1>1. S \subseteq 2..Len(q) /\ IsFiniteSet(S) /\ Len(q) \in Nat
    BY LineFacts
  <1>2. S \subseteq Nat
    BY <1>1
  <1>3. Headers(q) = hs
    BY DEF Headers, Rank
  <1>. HIDE DEF S
  <1>4. /\ Cardinality(S) \in Nat
        /\ \A p \in S : Rank(S, p) \in 1..Cardinality(S)
        /\ \A p \in S, r \in S : Rank(S, p) = Rank(S, r) => p = r
        /\ \A k \in 1..Cardinality(S) : \E p \in S : Rank(S, p) = k
    BY <1>1, <1>2, RankFacts
  <1>5. \A k \in 1..Cardinality(S) : nth(k) \in S /\ Rank(S, nth(k)) = k
    BY <1>4
  <1>6. ASSUME NEW p \in S
        PROVE  /\ HeaderAt(q, p).name = p
               /\ HeaderAt(q, p) \in [name : 1..Len(q), value : 1..Len(q), len : Nat]
    <2>1. LineAt(q, p, HeaderAt(q, p), EndOfLine(q, p))
      BY HeaderFacts DEF S
    <2>2. p \in 1..Len(q)
      BY <1>1
    <2>. DEFINE h == HeaderAt(q, p)
                end == EndOfLine(q, p)
    <2>3. end \in p + 1..Len(q) - 1 /\ h.value \in p + 1..end /\ h.len \in Nat
          /\ h.name = p /\ h = [name |-> p, value |-> h.value, len |-> h.len]
      BY <2>1 DEF LineAt
    <2>. HIDE DEF h, end
    <2>4. p \in Int /\ end \in Int /\ Len(q) \in Int /\ h.value \in Int
      BY <1>1, <2>2, <2>3
    <2>5. h.value \in 1..Len(q)
      BY <2>2, <2>3, <2>4
    <2>. QED BY <2>2, <2>3, <2>5 DEF h
  <1>. HIDE DEF nth
  <1>7. /\ DOMAIN hs = 1..Cardinality(S) /\ Len(hs) = Cardinality(S)
        /\ hs \in Seq([name : 1..Len(q), value : 1..Len(q), len : Nat])
    <2>1. \A k \in 1..Cardinality(S) :
              HeaderAt(q, nth(k)) \in [name : 1..Len(q), value : 1..Len(q), len : Nat]
      BY <1>5, <1>6
    <2>2. /\ DOMAIN hs = 1..Cardinality(S)
          /\ \A k \in 1..Cardinality(S) : hs[k] = HeaderAt(q, nth(k))
      OBVIOUS
    <2>. DEFINE T == [name : 1..Len(q), value : 1..Len(q), len : Nat]
    <2>3. hs \in [1..Cardinality(S) -> T]
      BY <2>1
    <2>. HIDE DEF hs, T
    <2>4. hs \in Seq(T) /\ Len(hs) = Cardinality(S)
      BY <1>4, <2>2, <2>3
    <2>. QED BY <2>2, <2>4 DEF T
  <1>8. \A k \in DOMAIN hs : hs[k] = HeaderAt(q, nth(k)) /\ hs[k].name = nth(k)
    BY <1>5, <1>6, <1>7
  <1>9. \A p \in S : \E k \in DOMAIN hs : hs[k].name = p
    <2>. SUFFICES ASSUME NEW p \in S PROVE hs[Rank(S, p)].name = p
      BY <1>4, <1>7
    <2>1. Rank(S, p) \in 1..Cardinality(S)
      BY <1>4
    <2>2. nth(Rank(S, p)) \in S /\ Rank(S, nth(Rank(S, p))) = Rank(S, p)
      BY <1>5, <2>1
    <2>3. nth(Rank(S, p)) = p
      BY <1>4, <2>2
    <2>. QED BY <1>7, <1>8, <2>1, <2>3
  <1>10. Len(hs) <= MaxHeaders
    BY <1>7 DEF Parses, S
  <1>11. \A j \in DOMAIN hs, k \in DOMAIN hs : hs[j].name = hs[k].name => j = k
    BY <1>5, <1>7, <1>8
  <1>. HIDE DEF hs
  <1>12. \A k \in DOMAIN hs : hs[k].name \in S /\ hs[k] = HeaderAt(q, hs[k].name)
    BY <1>5, <1>7, <1>8
  <1>13. HeadersAre(q, hs)
    <2>. DEFINE T == [name : 1..Len(q), value : 1..Len(q), len : Nat]
    <2>1. hs \in Seq(T)
      BY <1>7
    <2>. HIDE DEF T
    <2>. QED BY <1>9, <1>10, <1>11, <1>12, <2>1 DEF HeadersAre, S, T
  <1>. QED BY <1>3, <1>13

-----------------------------------------------------------------------------
(* Two buffers that begin alike. *)

Alike(q, r, m) ==
    /\ m \in 2..Len(q) /\ m <= Len(r)
    /\ \A k \in 1..m : q[k] = r[k]

\* Lines begin at the same places in them.
LEMMA AlikeLines ==
    ASSUME NEW q \in Seq(Int), NEW r \in Seq(Int), NEW m \in Int, Alike(q, r, m),
           NEW p \in 1..m
    PROVE  /\ First(q) = First(r)
           /\ p \in LineStarts(q) <=> p \in LineStarts(r)
           /\ p \in EmptyLines(q) <=> p \in EmptyLines(r)
  <1>1. First(q) = First(r) /\ First(q) \in 1..2
    <2>1. Len(q) > 0 /\ Len(r) > 0 /\ 1 \in 1..m
      BY DEF Alike
    <2>2. q[1] = r[1]
      BY <2>1 DEF Alike
    <2>. QED BY <2>1, <2>2 DEF First
  <1>2. p \in 1..Len(q) /\ p \in 1..Len(r) /\ q[p] = r[p]
    <2>1. p \in Int /\ Len(q) \in Int /\ Len(r) \in Int
      OBVIOUS
    <2>. QED BY <2>1 DEF Alike
  <1>3. p >= First(q) + 1 => q[p - 1] = r[p - 1]
    BY <1>1 DEF Alike
  <1>4. p \in LineStarts(q) <=> p \in LineStarts(r)
    <2>. DEFINE f == First(q)
    <2>1. f \in Int /\ p \in Int /\ Len(q) \in Int /\ Len(r) \in Int
      BY <1>1
    <2>2. p >= f + 1 => (q[p - 1] = Crlf <=> r[p - 1] = Crlf)
      BY <1>3
    <2>3. LineStarts(q) = {x \in f + 1..Len(q) : x = f + 1 \/ q[x - 1] = Crlf}
          /\ LineStarts(r) = {x \in f + 1..Len(r) : x = f + 1 \/ r[x - 1] = Crlf}
      BY <1>1 DEF LineStarts
    <2>. HIDE DEF f
    <2>4. p \in f + 1..Len(q) <=> p \in f + 1..Len(r)
      BY <1>2, <2>1
    <2>5. p \in f + 1..Len(q) => p >= f + 1
      BY <2>1
    <2>. QED BY <2>2, <2>3, <2>4, <2>5
  <1>. QED BY <1>1, <1>2, <1>4 DEF EmptyLines

\* A request is still one, with the same headers, when more follows.
SameHead(q, r) ==
    /\ Parses(r)
    /\ HeaderStarts(r) = HeaderStarts(q)
    /\ \A p \in HeaderStarts(q) : r[p] = q[p] /\ HeaderAt(r, p) = HeaderAt(q, p)

LEMMA MoreFollows ==
    ASSUME NEW q \in Seq(Int), NEW r \in Seq(Int), Parses(q), Len(r) >= Len(q),
           \A k \in 1..Len(q) : r[k] = q[k]
    PROVE  SameHead(q, r)
  <1>. DEFINE e == HeadEnd(q)
  <1>1. Len(q) \in Nat /\ Len(r) \in Nat /\ First(q) \in 1..2 /\ Len(q) > First(q)
    BY LineFacts DEF Parses
  <1>2. Alike(q, r, Len(q))
    BY <1>1 DEF Alike
  <1>3. First(r) = First(q) /\ r[First(q)] = q[First(q)]
    <2>1. First(q) \in 1..Len(q) /\ Len(q) \in Int
      BY <1>1
    <2>2. First(r) = First(q)
      BY <1>2, <2>1, AlikeLines
    <2>. QED BY <2>1, <2>2
  <1>4. \A p \in 1..Len(q) : /\ p \in LineStarts(q) <=> p \in LineStarts(r)
                             /\ p \in EmptyLines(q) <=> p \in EmptyLines(r)
    BY <1>1, <1>2, AlikeLines
  <1>5. /\ e \in EmptyLines(q) /\ e \in 2..Len(q)
        /\ \A y \in EmptyLines(q) : e <= y
        /\ HeaderStarts(q) = {p \in LineStarts(q) : p < e}
    BY HeadEndFacts DEF Parses
  <1>6. e \in EmptyLines(r)
    BY <1>4, <1>5
  <1>7. /\ HeadEnd(r) \in EmptyLines(r) /\ HeadEnd(r) \in 2..Len(r)
        /\ \A y \in EmptyLines(r) : HeadEnd(r) <= y
        /\ HeaderStarts(r) = {p \in LineStarts(r) : p < HeadEnd(r)}
    BY <1>6, HeadEndFacts
  <1>. HIDE DEF e
  <1>8. HeadEnd(r) = e
    <2>1. HeadEnd(r) <= e
      BY <1>6, <1>7
    <2>. DEFINE f == HeadEnd(r)
    <2>4. f \in 2..Len(r) /\ f <= e
      BY <1>7, <2>1
    <2>. HIDE DEF f
    <2>5. f \in 1..Len(q)
      BY <1>1, <1>5, <2>4
    <2>2. HeadEnd(r) \in 1..Len(q)
      BY <2>5 DEF f
    <2>3. HeadEnd(r) \in EmptyLines(q)
      BY <1>4, <1>7, <2>2
    <2>. QED BY <1>5, <1>7, <2>1, <2>3
  <1>9. HeaderStarts(r) = HeaderStarts(q)
    <2>1. ASSUME NEW p PROVE p \in HeaderStarts(r) <=> p \in HeaderStarts(q)
      <3>1. p \in LineStarts(q) => p \in 1..Len(q)
        BY <1>1, LineFacts
      <3>2. p \in LineStarts(r) => p \in 1..Len(r)
        BY <1>1, <1>3, LineFacts
      <3>3. p \in 1..Len(r) /\ p < e => p \in 1..Len(q)
        BY <1>1, <1>5
      <3>. QED BY <1>4, <1>5, <1>7, <1>8, <3>1, <3>2, <3>3
    <2>. QED BY <2>1
  <1>10. ASSUME NEW p \in HeaderStarts(q)
         PROVE  p \in 1..Len(q) /\ r[p] = q[p] /\ HeaderAt(r, p) = HeaderAt(q, p)
    <2>. DEFINE a == EndOfLine(q, p)
                b == EndOfLine(r, p)
                A == {k \in p..Len(q) : q[k] = Crlf}
                B == {k \in p..Len(r) : r[k] = Crlf}
    <2>1. a \in p + 1..Len(q) - 1 /\ q[a] = Crlf /\ \A k \in p..a - 1 : q[k] # Crlf
      BY HeaderFacts DEF LineAt
    <2>2. p \in 1..Len(q)
      BY <1>1, LineFacts
    <2>3. r[p] = q[p]
      BY <2>2
    <2>. HIDE DEF a
    <2>4. a \in B /\ B \subseteq Nat
      <3>1. p \in Int /\ a \in Int /\ Len(q) \in Int /\ Len(r) \in Int
        BY <1>1, <2>1, <2>2
      <3>2. a >= p + 1 /\ a <= Len(q) - 1 /\ p >= 1 /\ Len(q) <= Len(r)
        BY <1>1, <2>1, <2>2, <3>1
      <3>3. a \in 1..Len(q) /\ a \in p..Len(r)
        BY <3>1, <3>2
      <3>4. r[a] = Crlf
        BY <2>1, <3>3
      <3>5. B \subseteq Nat
        BY <2>2, <3>1
      <3>. QED BY <3>3, <3>4, <3>5
    <2>5. b \in B /\ \A y \in B : b <= y
      <3>1. b = LeastOf(B)
        BY DEF EndOfLine
      <3>. HIDE DEF B, b
      <3>2. B \subseteq Nat /\ B # {}
        BY <2>4
      <3>3. LeastOf(B) \in B /\ \A y \in B : LeastOf(B) <= y
        BY <3>2, LeastFacts
      <3>. QED BY <3>1, <3>3
    <2>. HIDE DEF b
    <2>6. p \in Int /\ a \in Int /\ b \in Int /\ b <= a /\ b >= p /\ r[b] = Crlf
      <3>1. b \in p..Len(r) /\ r[b] = Crlf
        BY <2>5
      <3>2. p \in Int /\ a \in Int /\ Len(r) \in Int
        BY <2>1, <2>2
      <3>3. b <= a
        BY <2>4, <2>5
      <3>. QED BY <3>1, <3>2, <3>3
    <2>7. b = a
      <3>1. b \in 1..Len(q)
        BY <1>1, <2>1, <2>2, <2>6
      <3>2. q[b] = Crlf
        BY <2>6, <3>1
      <3>3. b < a => b \in p..a - 1
        BY <2>6
      <3>. QED BY <2>1, <2>6, <3>2, <3>3
    <2>8. \A k \in p..a : r[k] = q[k]
      BY <1>1, <2>1, <2>2
    <2>8a. NameEnd(r, p) = NameEnd(q, p) /\ NameEnd(q, p) >= p
      BY <2>3, <2>6 DEF NameEnd
    <2>. DEFINE c == NameEnd(q, p)
                F(s) == {k \in c + 1..a : s[k] # Blank}
                G(s) == {k \in p..a - 1 : k < LeastOf(F(s)) \/ s[k] # Blank}
    <2>9. F(r) = F(q)
      <3>1. c \in Int /\ c >= p
        BY <2>6, <2>8a DEF NameEnd
      <3>. HIDE DEF c
      <3>2. \A k \in c + 1..a : r[k] = q[k]
        BY <2>6, <2>8, <3>1
      <3>. QED BY <3>2
    <2>10. G(r) = G(q)
      <3>1. \A k \in p..a - 1 : r[k] = q[k]
        BY <2>6, <2>8
      <3>. HIDE DEF F
      <3>. QED BY <2>9, <3>1
    <2>11. /\ HeaderAt(q, p) = [name |-> p, value |-> LeastOf(F(q)),
                                len |-> GreatestOf(G(q)) + 1 - LeastOf(F(q))]
           /\ HeaderAt(r, p) = [name |-> p, value |-> LeastOf(F(r)),
                                len |-> GreatestOf(G(r)) + 1 - LeastOf(F(r))]
      <3>1. EndOfLine(q, p) = a /\ EndOfLine(r, p) = a
        BY <2>7 DEF a, b
      <3>. QED BY <2>8a, <3>1, Zenon DEF HeaderAt
    <2>. HIDE DEF F, G
    <2>. QED BY <2>2, <2>3, <2>9, <2>10, <2>11
  <1>11. Parses(r)
    <2>1. Len(r) > First(r) /\ r[First(r)] = Line
      BY <1>1, <1>3 DEF Parses
    <2>2. ASSUME NEW p \in HeaderStarts(r) PROVE r[NameEnd(r, p)] \in Names
      <3>1. p \in HeaderStarts(q)
        BY <1>9
      <3>2. q[NameEnd(q, p)] \in Names /\ r[p] = q[p]
        BY <1>10, <3>1 DEF Parses
      <3>3. EndOfLine(q, p) \in p + 1..Len(q) - 1 /\ p \in 2..Len(q)
        BY <1>1, <3>1, HeaderFacts, LineFacts DEF LineAt
      <3>4. p \in 1..Len(q) /\ p + 1 \in 1..Len(q)
        BY <3>3
      <3>5. r[p + 1] = q[p + 1]
        BY <1>1, <3>4
      <3>. QED BY <3>2, <3>5 DEF NameEnd
    <2>. QED BY <1>6, <1>9, <2>1, <2>2 DEF Parses
  <1>. QED BY <1>9, <1>10, <1>11 DEF SameHead

\* The Host headers, and the first of them, are the same then.
LEMMA SameHosts ==
    ASSUME NEW q, NEW r, SameHead(q, r)
    PROVE  HostHeaders(r) = HostHeaders(q) /\ FirstHosts(r) = FirstHosts(q)
  <1>. DEFINE P(s) == {p \in HeaderStarts(s) : s[p] \in HostNames}
  <1>1. P(r) = P(q) /\ \A p \in P(q) : HeaderAt(r, p) = HeaderAt(q, p)
    BY DEF SameHead
  <1>2. HostHeaders(q) = {HeaderAt(q, p) : p \in P(q)}
        /\ HostHeaders(r) = {HeaderAt(r, p) : p \in P(r)}
    BY DEF HostHeaders
  <1>. HIDE DEF P
  <1>3. HostHeaders(r) = HostHeaders(q)
    BY <1>1, <1>2
  <1>. QED BY <1>3 DEF FirstHosts

-----------------------------------------------------------------------------
(* What is found in a buffer whose beginning is still as it was given. *)

\* The value of the first Host header of q is in its head.
LEMMA FirstHostFacts ==
    ASSUME NEW q \in Seq(Int), Parses(q), NEW h \in FirstHosts(q)
    PROVE  /\ h.name \in HeaderStarts(q) /\ h.name \in 2..Len(q)
           /\ q[h.name] \in HostNames
           /\ h.value \in h.name + 1..Len(q) - 1 /\ h.value < HeadEnd(q)
           /\ \A k \in h.name + 1..h.value - 1 : q[k] = Blank
           /\ \A p \in HeaderStarts(q) : q[p] \in HostNames => h.name <= p
  <1>1. PICK p \in HeaderStarts(q) : q[p] \in HostNames /\ h = HeaderAt(q, p)
    BY DEF FirstHosts, HostHeaders
  <1>. DEFINE end == EndOfLine(q, p)
  <1>2. LineAt(q, p, h, end)
    BY <1>1, HeaderFacts
  <1>. HIDE DEF end
  <1>3. p \in 2..Len(q) /\ HeadEnd(q) \in Int
    BY LineFacts, HeadEndFacts DEF Parses
  <1>4. h.name = p /\ end \in p + 1..Len(q) - 1 /\ end < HeadEnd(q)
        /\ h.value \in p + 1..end /\ \A k \in p + 1..h.value - 1 : q[k] = Blank
    BY <1>1, <1>2, HostIsOne DEF LineAt
  <1>5. p \in Int /\ end \in Int /\ h.value \in Int /\ Len(q) \in Int
    BY <1>3, <1>4
  <1>6. h.value \in h.name + 1..Len(q) - 1 /\ h.value < HeadEnd(q)
    BY <1>3, <1>4, <1>5
  <1>7. ASSUME NEW r \in HeaderStarts(q), q[r] \in HostNames PROVE h.name <= r
    <2>1. HeaderAt(q, r) \in HostHeaders(q)
      BY <1>7 DEF HostHeaders
    <2>2. HeaderAt(q, r).name = r
      BY HeaderFacts DEF LineAt
    <2>. QED BY <2>1, <2>2 DEF FirstHosts
  <1>. QED BY <1>1, <1>3, <1>4, <1>6, <1>7

\* Whatever request c is, as long as it begins like q no header of it that may be
\* replaced is before the value of the first Host header of q.
LEMMA BehindFirstHost ==
    ASSUME NEW q \in Seq(Int), Parses(q), NEW h \in FirstHosts(q),
           NEW c \in Seq(Int), Parses(c), Len(c) >= h.value - 1,
           \A k \in 1..h.value - 1 : c[k] = q[k],
           NEW p \in HeaderStarts(c)
    PROVE  HeaderAt(c, p).value >= h.value \/ (p < h.value /\ q[p] \notin HostNames)
  <1>1. /\ h.name \in HeaderStarts(q) /\ h.name \in 2..Len(q)
        /\ h.value \in h.name + 1..Len(q) - 1 /\ h.value < HeadEnd(q)
        /\ \A k \in h.name + 1..h.value - 1 : q[k] = Blank
        /\ \A r \in HeaderStarts(q) : q[r] \in HostNames => h.name <= r
    BY FirstHostFacts
  <1>. DEFINE n == h.name
              v == h.value
              g == HeaderAt(c, p)
              w == g.value
              end == EndOfLine(c, p)
  <1>2. LineAt(c, p, g, end)
    BY HeaderFacts
  <1>10. /\ n \in HeaderStarts(q) /\ n \in 2..Len(q)
         /\ v \in n + 1..Len(q) - 1 /\ v < HeadEnd(q)
         /\ \A k \in n + 1..v - 1 : q[k] = Blank
         /\ \A r \in HeaderStarts(q) : q[r] \in HostNames => n <= r
         /\ Len(c) >= v - 1 /\ \A k \in 1..v - 1 : c[k] = q[k]
    BY <1>1
  <1>3. p \in 2..Len(c) /\ c[p] # Blank /\ p \in LineStarts(c)
    <2>1. c[NameEnd(c, p)] \in Names /\ p \in 2..Len(c) /\ p \in LineStarts(c)
      BY LineFacts DEF Parses
    <2>. QED BY <2>1 DEF NameEnd, Names, Blank, Host, HostAlias, Accept, Forwarded
  <1>4. end \in p + 1..Len(c) - 1 /\ c[end] = Crlf /\ w \in p + 1..end
        /\ (w < end => c[w] # Blank)
    BY <1>2 DEF LineAt
  <1>. SUFFICES w >= v \/ (p < v /\ q[p] \notin HostNames)
    OBVIOUS
  <1>. HIDE DEF n, v, w, g, end
  <1>5. n \in Int /\ v \in Int /\ p \in Int /\ end \in Int /\ w \in Int
        /\ Len(q) \in Int /\ Len(c) \in Int
    BY <1>10, <1>3, <1>4
  <1>6. CASE p >= v
    BY <1>4, <1>5, <1>6
  <1>7. CASE p \in n + 1..v - 1
    <2>1. p \in 1..v - 1
      BY <1>10, <1>5, <1>7
    <2>2. c[p] = Blank
      BY <1>10, <1>7, <2>1
    <2>. QED BY <1>3, <2>2
  <1>8. CASE p = n
    <2>1. ASSUME w < v PROVE FALSE
      <3>1. w \in n + 1..v - 1 /\ w \in 1..v - 1
        BY <1>10, <1>4, <1>5, <1>8, <2>1
      <3>2. c[w] = Blank
        BY <1>10, <3>1
      <3>3. w = end
        BY <1>4, <1>5, <3>2
      <3>. QED BY <1>4, <3>2, <3>3 DEF Blank, Crlf
    <2>. QED BY <1>5, <2>1
  <1>9. CASE p < n
    <2>1. Alike(q, c, v - 1)
      BY <1>10, <1>5 DEF Alike
    <2>2. p \in 1..v - 1 /\ v - 1 \in Int
      BY <1>10, <1>3, <1>5, <1>9
    <2>3. p \in LineStarts(q)
      BY <1>3, <2>1, <2>2, AlikeLines
    <2>4. p < HeadEnd(q)
      <3>1. HeadEnd(q) \in Int
        BY HeadEndFacts DEF Parses
      <3>. QED BY <1>10, <1>5, <1>9, <3>1
    <2>5. p \in HeaderStarts(q)
      BY <2>3, <2>4, HeadEndFacts DEF Parses
    <2>6. q[p] \notin HostNames
      BY <1>10, <1>5, <1>9, <2>5
    <2>. QED BY <2>2, <2>6, <1>5
  <1>. QED BY <1>5, <1>6, <1>7, <1>8, <1>9

-----------------------------------------------------------------------------
(* The state. *)

\* The invariant for a buffer b and what was given, q, position by position.
HeadIn(b, q) ==
    Parses(q) => \A h \in FirstHosts(q) : \A k \in 1..h.value - 1 : b[k] = q[k]

AllIn(b, q) == \A k \in 1..Len(q) : b[k] = q[k]

\* The prefix of a buffer, and when two of them are equal.
LEMMA PrefixFacts ==
    ASSUME NEW N \in Nat, NEW b \in [1..N -> Int], NEW n \in 0..N
    PROVE  /\ SubSeq(b, 1, n) \in Seq(Int) /\ Len(SubSeq(b, 1, n)) = n
           /\ \A k \in 1..n : SubSeq(b, 1, n)[k] = b[k]
  <1>1. n \in Nat /\ 1..n \subseteq 1..N
    OBVIOUS
  <1>2. b \in Seq(Int) /\ Len(b) = N
    OBVIOUS
  <1>3. Len(SubSeq(b, 1, n)) = n
    BY <1>1, <1>2
  <1>4. \A k \in 1..n : SubSeq(b, 1, n)[k] = b[k]
    BY <1>1, <1>2
  <1>. QED BY <1>1, <1>2, <1>3, <1>4

\* An element of a sequence over T is in T.
LEMMA ElementFacts ==
    ASSUME NEW T, NEW s \in Seq(T)
    PROVE  /\ Len(s) \in Nat /\ DOMAIN s = 1..Len(s) /\ s \in [1..Len(s) -> T]
           /\ \A k \in DOMAIN s : s[k] \in T
  OBVIOUS

\* Sequences are equal position by position.
LEMMA SameSeq ==
    ASSUME NEW s \in Seq(Int), NEW t \in Seq(Int), Len(s) = Len(t),
           \A k \in 1..Len(t) : s[k] = t[k]
    PROVE  s = t
  OBVIOUS

\* Content and Given, position by position.
LEMMA PrefixIs ==
    ASSUME NEW N \in Nat, NEW b \in [1..N -> Int], NEW q \in Seq(Int), Len(q) <= N
    PROVE  SubSeq(b, 1, Len(q)) = q <=> AllIn(b, q)
  <1>. DEFINE s == SubSeq(b, 1, Len(q))
  <1>1. Len(q) \in 0..N
    OBVIOUS
  <1>2. s \in Seq(Int) /\ Len(s) = Len(q) /\ \A k \in 1..Len(q) : s[k] = b[k]
    BY <1>1, PrefixFacts
  <1>. HIDE DEF s
  <1>3. (\A k \in 1..Len(q) : s[k] = q[k]) => s = q
    BY <1>2, SameSeq
  <1>. QED BY <1>2, <1>3 DEF AllIn, s

\* HeadUntouched, position by position.
LEMMA HeadIs ==
    ASSUME NEW N \in Nat, NEW b \in [1..N -> Int], NEW q \in Seq(Int), Len(q) <= N
    PROVE  HeadIn(b, q) <=>
               (Parses(q) => \A h \in FirstHosts(q) :
                    SubSeq(b, 1, h.value - 1) = SubSeq(q, 1, h.value - 1))
  <1>. SUFFICES ASSUME Parses(q), NEW h \in FirstHosts(q)
                PROVE  (\A k \in 1..h.value - 1 : b[k] = q[k]) <=>
                           SubSeq(b, 1, h.value - 1) = SubSeq(q, 1, h.value - 1)
    BY DEF HeadIn
  <1>. DEFINE m == h.value - 1
              s == SubSeq(b, 1, m)
              t == SubSeq(q, 1, m)
  <1>1. m \in 0..N /\ m \in 0..Len(q)
    <2>. DEFINE n == h.name
                v == h.value
    <2>1. n \in 2..Len(q) /\ v \in n + 1..Len(q) - 1
      BY FirstHostFacts
    <2>. HIDE DEF n, v
    <2>2. n \in Int /\ v \in Int /\ Len(q) \in Int
      BY <2>1
    <2>3. v - 1 \in 0..N /\ v - 1 \in 0..Len(q)
      BY <2>1, <2>2
    <2>. QED BY <2>3 DEF v
  <1>2. q \in [1..Len(q) -> Int] /\ Len(q) \in Nat
    OBVIOUS
  <1>. HIDE DEF m
  <1>3. Len(s) = m /\ s \in Seq(Int) /\ \A k \in 1..m : s[k] = b[k]
    BY <1>1, PrefixFacts
  <1>4. Len(t) = m /\ t \in Seq(Int) /\ \A k \in 1..m : t[k] = q[k]
    BY <1>1, <1>2, PrefixFacts
  <1>. HIDE DEF s, t
  <1>5. (\A k \in 1..m : b[k] = q[k]) <=> s = t
    <2>1. s = t => \A k \in 1..m : b[k] = q[k]
      BY <1>3, <1>4
    <2>2. (\A k \in 1..m : b[k] = q[k]) => \A k \in 1..m : s[k] = t[k]
      BY <1>3, <1>4
    <2>3. (\A k \in 1..m : s[k] = t[k]) => s = t
      BY <1>3, <1>4
    <2>. QED BY <2>1, <2>2, <2>3
  <1>. QED BY <1>5 DEF m, s, t

\* A tail of what was received.
LEMMA TailFacts ==
    ASSUME NEW s \in Seq(Int), NEW m \in 0..Len(s)
    PROVE  LET t == SubSeq(s, m + 1, Len(s))
           IN /\ t \in Seq(Int) /\ Len(t) = Len(s) - m
              /\ \A k \in 1..Len(s) - m : t[k] = s[m + k]
  <1>. DEFINE t == SubSeq(s, m + 1, Len(s))
  <1>1. Len(s) \in Nat /\ m \in Nat /\ m <= Len(s)
    OBVIOUS
  <1>2. t \in Seq(Int)
    BY <1>1
  <1>3. Len(t) = Len(s) - m
    BY <1>1
  <1>4. ASSUME NEW k \in 1..Len(s) - m PROVE t[k] = s[m + k]
    BY <1>1
  <1>. QED BY <1>2, <1>3, <1>4

\* RewriteInv in terms of the positions of the buffer.
Shape ==
    /\ TypeOK /\ Accounts
    /\ Given \in Seq(Int) /\ Len(Given) = size /\ size \in Nat /\ size + NewLen <= Space
    /\ ~Parses(Given) => pc # "modify" /\ AllIn(buf, Given)
    /\ HeadIn(buf, Given)
    /\ PointersBehind

\* They say the same.
LEMMA ShapeIs == RewriteInv <=> Shape
  <1>1. ASSUME TypeOK, Accounts
        PROVE  /\ Given \in Seq(Int) /\ Len(Given) = size /\ size \in Nat
               /\ size + NewLen <= Space /\ size <= Space
               /\ Space \in Nat /\ buf \in [1..Space -> Int]
    <2>1. /\ received \in Seq(Int) /\ taken \in Seq(Int) /\ rest \in Seq(Int)
          /\ Len(received) + Len(rest) + NewLen <= Space
          /\ Len(taken) + size = Len(received) /\ size = Len(Given)
          /\ buf \in [1..Space -> Int]
      BY <1>1 DEF TypeOK, Accounts
    <2>2. NewLen \in Nat /\ Space \in Nat
      BY RewriteAssumption
    <2>3. Len(taken) \in Nat /\ Len(received) \in Nat /\ Len(rest) \in Nat
      BY <2>1
    <2>4. Given \in Seq(Int)
      BY <2>1, <2>3 DEF Given
    <2>5. size \in Nat
      BY <2>1, <2>4
    <2>. QED BY <2>1, <2>2, <2>3, <2>4, <2>5
  <1>2. ASSUME TypeOK, Accounts
        PROVE  /\ Content = Given <=> AllIn(buf, Given)
               /\ HeadUntouched <=> HeadIn(buf, Given)
    <2>1. /\ Given \in Seq(Int) /\ Len(Given) = size /\ size <= Space
          /\ Space \in Nat /\ buf \in [1..Space -> Int]
      BY <1>1, <1>2
    <2>2. SubSeq(buf, 1, Len(Given)) = Given <=> AllIn(buf, Given)
      BY <2>1, PrefixIs
    <2>3. HeadUntouched <=> HeadIn(buf, Given)
      BY <2>1, HeadIs DEF HeadUntouched
    <2>. QED BY <2>1, <2>2, <2>3 DEF Content
  <1>. QED BY <1>1, <1>2 DEF RewriteInv, Shape

\* What is appended to a sequence comes behind it.
LEMMA AppendFacts ==
    ASSUME NEW s \in Seq(Int), NEW t \in Seq(Int)
    PROVE  /\ s \o t \in Seq(Int) /\ Len(s \o t) = Len(s) + Len(t)
           /\ \A k \in 1..Len(s) : (s \o t)[k] = s[k]
           /\ \A k \in 1..Len(t) : (s \o t)[Len(s) + k] = t[k]
  <1>1. s \o t \in Seq(Int) /\ Len(s \o t) = Len(s) + Len(t)
    OBVIOUS
  <1>2. ASSUME NEW k \in 1..Len(s) PROVE (s \o t)[k] = s[k]
    OBVIOUS
  <1>3. ASSUME NEW k \in 1..Len(t) PROVE (s \o t)[Len(s) + k] = t[k]
    OBVIOUS
  <1>. QED BY <1>1, <1>2, <1>3

\* Before the first call nothing has arrived: the invariant holds.
LEMMA InitRewrite == Init => RewriteInv
  <1>. SUFFICES ASSUME Init PROVE Shape
    BY ShapeIs
  <1>. USE DEF Init
  <1>1. PICK q \in Requests : rest = q
    OBVIOUS
  <1>2. rest \in Seq(Int) /\ Len(rest) + NewLen <= Space
    BY <1>1, RewriteAssumption
  <1>3. NewLen \in Nat /\ MaxHeaders \in Nat /\ MaxCalls \in Nat \ {0} /\ Space \in Nat
    BY RewriteAssumption
  <1>4. Given = << >>
    BY DEF Given
  <1>5. ~Parses(Given)
    BY <1>4 DEF Parses, First
  <1>6. TypeOK
    <2>1. buf \in [1..Space -> Int]
      OBVIOUS
    <2>2. i \in 1..MaxHeaders + 1 /\ calls \in 0..MaxCalls
      BY <1>3
    <2>3. DOMAIN headers = {}
      OBVIOUS
    <2>4. size = Len(Given) /\ diffrence \in Int
      BY <1>4
    <2>5. queued \in Seq(Int) /\ received \in Seq(Int) /\ taken \in Seq(Int)
      OBVIOUS
    <2>6. pc \in {"parse", "modify", "queued"} /\ late \in BOOLEAN
      OBVIOUS
    <2>. QED BY <1>2, <2>1, <2>2, <2>3, <2>4, <2>5, <2>6, Zenon DEF TypeOK
  <1>7. Accounts
    BY <1>2, <1>3 DEF Accounts
  <1>8. AllIn(buf, Given)
    BY <1>4 DEF AllIn
  <1>9. HeadIn(buf, Given) /\ PointersBehind
    BY <1>5 DEF HeadIn, PointersBehind
  <1>. QED BY <1>2, <1>3, <1>4, <1>5, <1>6, <1>7, <1>8, <1>9 DEF Shape

-----------------------------------------------------------------------------
(* on_write is called, with what has arrived since. *)

\* What has arrived, after a call that left the buffer as it is.
LEMMA GivenMore ==
    ASSUME Shape, NEW n \in 0..Len(rest), taken' = taken,
           received' = received \o SubSeq(rest, 1, n)
    PROVE  /\ received' \in Seq(Int) /\ Len(received') = Len(received) + n
           /\ Given' \in Seq(Int) /\ Len(Given') = size + n
           /\ \A k \in 1..size : Given'[k] = Given[k]
           /\ \A k \in size + 1..size + n : Given'[k] = rest[k - size]
  <1>. DEFINE t == SubSeq(rest, 1, n)
              m == Len(taken)
  <1>1. /\ received \in Seq(Int) /\ rest \in Seq(Int) /\ taken \in Seq(Int)
        /\ m + size = Len(received) /\ size \in Nat /\ Len(Given) = size
    BY DEF Shape, TypeOK, Accounts
  <1>2. m \in Nat /\ Len(received) \in Nat /\ n \in Nat /\ m + size = Len(received)
        /\ size \in Nat
    BY <1>1
  <1>3. t \in Seq(Int) /\ Len(t) = n /\ \A k \in 1..n : t[k] = rest[k]
    <2>1. rest \in [1..Len(rest) -> Int] /\ Len(rest) \in Nat
      BY <1>1
    <2>. QED BY <2>1, PrefixFacts
  <1>. HIDE DEF t
  <1>4. received' = received \o t
    BY DEF t
  <1>5. /\ received' \in Seq(Int) /\ Len(received') = Len(received) + n
        /\ \A k \in 1..Len(received) : received'[k] = received[k]
        /\ \A k \in 1..n : received'[Len(received) + k] = t[k]
    <2>1. /\ received \o t \in Seq(Int) /\ Len(received \o t) = Len(received) + Len(t)
          /\ \A k \in 1..Len(received) : (received \o t)[k] = received[k]
          /\ \A k \in 1..Len(t) : (received \o t)[Len(received) + k] = t[k]
      BY <1>1, <1>3, AppendFacts
    <2>. QED BY <1>3, <1>4, <2>1
  <1>6. Given = SubSeq(received, m + 1, Len(received))
        /\ Given' = SubSeq(received', m + 1, Len(received'))
    BY DEF Given
  <1>. HIDE DEF m
  <1>7. m \in 0..Len(received) /\ m \in 0..Len(received')
    BY <1>1, <1>2, <1>5
  <1>8. Given \in Seq(Int) /\ \A k \in 1..size : Given[k] = received[m + k]
    <2>1. Len(received) - m = size
      BY <1>1, <1>2
    <2>. QED BY <1>1, <1>6, <1>7, <2>1, TailFacts
  <1>9. Given' \in Seq(Int) /\ Len(Given') = size + n
        /\ \A k \in 1..size + n : Given'[k] = received'[m + k]
    <2>. DEFINE r == Len(received)
    <2>2. r \in Nat /\ m + size = r /\ Len(received') = r + n
      BY <1>2, <1>5
    <2>. HIDE DEF r
    <2>3. (r + n) - m = size + n
      BY <1>2, <2>2
    <2>1. Len(received') - m = size + n
      BY <2>2, <2>3
    <2>. QED BY <1>5, <1>6, <1>7, <2>1, TailFacts
  <1>10. ASSUME NEW k \in 1..size PROVE Given'[k] = Given[k]
    <2>1. k \in 1..size + n /\ m + k \in 1..Len(received)
      BY <1>1, <1>2
    <2>. QED BY <1>5, <1>8, <1>9, <2>1
  <1>11. ASSUME NEW k \in size + 1..size + n PROVE Given'[k] = rest[k - size]
    <2>. DEFINE r == Len(received)
    <2>4. r \in Nat /\ m + size = r
      BY <1>2
    <2>. HIDE DEF r
    <2>1. k \in 1..size + n /\ k - size \in 1..n /\ m + k = r + (k - size)
      BY <1>2, <2>4
    <2>2. Given'[k] = received'[r + (k - size)]
      BY <1>9, <2>1
    <2>3. received'[r + (k - size)] = t[k - size]
      BY <1>5, <2>1 DEF r
    <2>. QED BY <1>3, <2>1, <2>2, <2>3
  <1>. QED BY <1>5, <1>9, <1>10, <1>11

\* What has arrived, after the buffer was consumed.
LEMMA GivenAfresh ==
    ASSUME Shape, pc = "queued", NEW n \in 0..Len(rest), taken' = taken \o queued,
           received' = received \o SubSeq(rest, 1, n)
    PROVE  /\ received' \in Seq(Int) /\ Len(received') = Len(received) + n
           /\ taken' \in Seq(Int) /\ Len(taken') = Len(received)
           /\ Given' \in Seq(Int) /\ Len(Given') = n
           /\ \A k \in 1..n : Given'[k] = rest[k]
  <1>. DEFINE t == SubSeq(rest, 1, n)
              m == Len(received)
  <1>1. /\ received \in Seq(Int) /\ rest \in Seq(Int) /\ taken \in Seq(Int)
        /\ queued \in Seq(Int) /\ Len(queued) = size
        /\ Len(taken) + size = m /\ size \in Nat
    BY DEF Shape, TypeOK, Accounts
  <1>2. Len(taken) \in Nat /\ m \in Nat /\ n \in Nat
    BY <1>1
  <1>3. t \in Seq(Int) /\ Len(t) = n /\ \A k \in 1..n : t[k] = rest[k]
    <2>1. rest \in [1..Len(rest) -> Int] /\ Len(rest) \in Nat
      BY <1>1
    <2>. QED BY <2>1, PrefixFacts
  <1>. HIDE DEF t
  <1>4. received' = received \o t
    BY DEF t
  <1>5. received' \in Seq(Int) /\ Len(received') = m + n
        /\ \A k \in 1..n : received'[m + k] = t[k]
    <2>1. /\ received \o t \in Seq(Int) /\ Len(received \o t) = m + Len(t)
          /\ \A k \in 1..Len(t) : (received \o t)[m + k] = t[k]
      BY <1>1, <1>3, AppendFacts DEF m
    <2>. QED BY <1>3, <1>4, <2>1
  <1>6. taken' \in Seq(Int) /\ Len(taken') = m
    BY <1>1, AppendFacts
  <1>7. Given' = SubSeq(received', m + 1, Len(received'))
    BY <1>6 DEF Given
  <1>. HIDE DEF m
  <1>8. m \in 0..Len(received') /\ Len(received') - m = n
    <2>1. m \in 0..m + n /\ (m + n) - m = n
      BY <1>2
    <2>. QED BY <1>5, <2>1
  <1>9. Given' \in Seq(Int) /\ Len(Given') = n /\ \A k \in 1..n : Given'[k] = received'[m + k]
    BY <1>5, <1>7, <1>8, TailFacts
  <1>10. \A k \in 1..n : Given'[k] = rest[k]
    BY <1>3, <1>5, <1>9
  <1>. QED BY <1>5, <1>6, <1>9, <1>10 DEF m

\* The rest of the invariant, wherever the new tokens go.
LEMMA ArrivesKeeps ==
    ASSUME Shape, NEW n \in 0..Len(rest), NEW at \in 0..size, Called, Arrives(n, at),
           received' \in Seq(Int), Len(received') = Len(received) + n,
           taken' \in Seq(Int), Len(taken') + at = Len(received),
           queued' \in Seq(Int), late' \in BOOLEAN,
           Given' \in Seq(Int), Len(Given') = at + n,
           ~Parses(Given') => AllIn(buf', Given'), HeadIn(buf', Given')
    PROVE  RewriteInv'
  <1>. DEFINE t == SubSeq(rest, n + 1, Len(rest))
  <1>1. /\ rest \in Seq(Int) /\ buf \in [1..Space -> Int] /\ calls \in 0..MaxCalls
        /\ size \in Nat /\ size + NewLen <= Space
        /\ Len(received) + Len(rest) + NewLen <= Space /\ received \in Seq(Int)
    BY DEF Shape, TypeOK, Accounts
  <1>2. /\ NewLen \in Nat /\ MaxHeaders \in Nat /\ MaxCalls \in Nat /\ Space \in Nat
        /\ n \in Nat /\ at \in Nat /\ Len(rest) \in Nat /\ Len(received) \in Nat
    BY <1>1, RewriteAssumption
  <1>3. pc' = "parse" /\ calls' = calls + 1 /\ calls < MaxCalls
        /\ headers' = << >> /\ i' = 1 /\ diffrence' = 0
    BY DEF Called
  <1>4. t \in Seq(Int) /\ Len(t) = Len(rest) - n
    BY <1>1, TailFacts
  <1>. HIDE DEF t
  <1>5. size' = at + n /\ rest' = t
    BY DEF Arrives, t
  <1>6. buf' \in [1..Space -> Int]
    <2>1. \A k \in at + 1..at + n : rest[k - at] \in Int
      <3>. SUFFICES ASSUME NEW k \in at + 1..at + n PROVE rest[k - at] \in Int
        OBVIOUS
      <3>. DEFINE l == Len(rest)
      <3>2. n \in 0..l /\ l \in Nat /\ at \in Nat
        BY <1>2
      <3>. HIDE DEF l
      <3>3. k - at \in 1..l
        BY <3>2
      <3>1. k - at \in 1..Len(rest)
        BY <3>3 DEF l
      <3>4. \A j \in 1..Len(rest) : rest[j] \in Int
        BY <1>1, ElementFacts
      <3>. QED BY <3>1, <3>4
    <2>2. buf' = [k \in 1..Space |-> IF k \in at + 1..at + n THEN rest[k - at] ELSE buf[k]]
      BY <1>1 DEF Arrives
    <2>. QED BY <1>1, <2>1, <2>2
  <1>7. TypeOK'
    <2>1. i' \in 1..MaxHeaders + 1 /\ diffrence' \in Int /\ calls' \in 0..MaxCalls
      BY <1>1, <1>2, <1>3
    <2>2. DOMAIN headers' = {} /\ size' = Len(Given')
      BY <1>3, <1>5
    <2>. QED BY <1>3, <1>4, <1>5, <1>6, <2>1, <2>2 DEF TypeOK
  <1>8. Accounts'
    <2>1. Len(received') + Len(rest') + NewLen <= Space
      BY <1>1, <1>2, <1>4, <1>5
    <2>2. Len(taken') + size' = Len(received')
      <3>. DEFINE m == Len(taken')
                  r == Len(received)
      <3>1. m \in Nat /\ r \in Nat /\ m + at = r /\ n \in Nat /\ at \in Nat
        BY <1>2
      <3>. HIDE DEF m, r
      <3>2. m + (at + n) = r + n
        BY <3>1
      <3>. QED BY <1>5, <3>2 DEF m, r
    <2>3. headers' = << >> /\ Len(headers') <= MaxHeaders
      BY <1>2, <1>3
    <2>. QED BY <1>3, <2>1, <2>2, <2>3 DEF Accounts
  <1>9. PointersBehind'
    BY <1>3 DEF PointersBehind
  <1>10. size' \in Nat /\ size' + NewLen <= Space
    BY <1>1, <1>2, <1>5, <1>8 DEF Accounts
  <1>11. Shape'
    BY <1>3, <1>5, <1>7, <1>8, <1>9, <1>10 DEF Shape
  <1>. QED BY <1>11, ShapeIs, PTL

\* A buffer that holds all that was given holds its head.
LEMMA AllIsHead ==
    ASSUME NEW q \in Seq(Int), NEW b, AllIn(b, q)
    PROVE  HeadIn(b, q)
  <1>. SUFFICES ASSUME Parses(q), NEW h \in FirstHosts(q), NEW k \in 1..h.value - 1
                PROVE  k \in 1..Len(q)
    BY DEF HeadIn, AllIn
  <1>. DEFINE n == h.name
              v == h.value
  <1>1. n \in 2..Len(q) /\ v \in n + 1..Len(q) - 1 /\ k \in 1..v - 1
    BY FirstHostFacts
  <1>. HIDE DEF n, v
  <1>2. n \in Int /\ v \in Int /\ Len(q) \in Int
    BY <1>1
  <1>. QED BY <1>1, <1>2

\* The loop's counter does not leave its range.
LEMMA NextTurn ==
    ASSUME Shape, i <= Len(headers)
    PROVE  i + 1 \in 1..MaxHeaders + 1
  <1>. DEFINE l == Len(headers)
  <1>1. i \in 1..MaxHeaders + 1 /\ l \in Nat /\ l <= MaxHeaders /\ i <= l
    BY DEF Shape, TypeOK, Accounts
  <1>. HIDE DEF l
  <1>. QED BY <1>1, RewriteAssumption

\* Adding nothing to a pointer changes nothing.
LEMMA RecordStays ==
    ASSUME NEW n \in Nat, NEW r \in [name : 1..n, value : 1..n, len : Nat],
           NEW d, d = 0
    PROVE  [r EXCEPT !.name = @ + d] = r /\ [r EXCEPT !.value = @ + d] = r
  <1>1. r.name \in 1..n /\ r.value \in 1..n
    OBVIOUS
  <1>2. r.name + d = r.name /\ r.value + d = r.value
    BY <1>1
  <1>3. [r EXCEPT !.name = r.name] = r /\ [r EXCEPT !.value = r.value] = r
    OBVIOUS
  <1>. QED BY <1>2, <1>3

\* The difference is 0: only the length of the replaced value changes.
OnlyLength(n, j, hs, moved) ==
    /\ DOMAIN moved = DOMAIN hs /\ Len(moved) = Len(hs)
    /\ moved \in Seq([name : 1..n, value : 1..n, len : Nat])
    /\ \A k \in DOMAIN hs :
           /\ moved[k].name = hs[k].name /\ moved[k].value = hs[k].value
           /\ moved[k].len = IF k = j THEN NewLen ELSE hs[k].len

LEMMA MovedByNone ==
    ASSUME NEW n \in Nat,
           NEW hs \in Seq([name : 1..n, value : 1..n, len : Nat]),
           NEW j \in DOMAIN hs, NEW d, d = 0
    PROVE  OnlyLength(n, j, hs, Moved([hs EXCEPT ![j].len = NewLen], j, d))
  <1>. DEFINE T == [name : 1..n, value : 1..n, len : Nat]
              gs == [hs EXCEPT ![j].len = NewLen]
              moved == Moved(gs, j, d)
              l == Len(hs)
  <1>1. l \in Nat /\ DOMAIN hs = 1..l /\ hs \in [1..l -> T] /\ j \in 1..l
        /\ NewLen \in Nat
    <2>1. hs \in Seq(T) /\ j \in DOMAIN hs
      OBVIOUS
    <2>. HIDE DEF T
    <2>2. l \in Nat /\ DOMAIN hs = 1..l /\ hs \in [1..l -> T]
      BY <2>1, ElementFacts
    <2>. QED BY <2>1, <2>2, RewriteAssumption
  <1>2. gs \in [1..l -> T] /\ \A k \in 1..l :
            gs[k] = IF k = j THEN [hs[k] EXCEPT !.len = NewLen] ELSE hs[k]
    BY <1>1
  <1>3. Len(gs) \in Nat
    BY <1>1, <1>2
  <1>. HIDE DEF gs, T
  <1>4. moved = [k \in 1..l |->
                    CASE k < j -> gs[k]
                      [] k = j -> [gs[k] EXCEPT !.value = @ + d * (Len(gs) - j)]
                      [] k > j -> [gs[k] EXCEPT !.name = @ + d]]
    BY <1>1, <1>2 DEF Moved
  <1>5. \A k \in 1..l : moved[k] = gs[k]
    <2>. SUFFICES ASSUME NEW k \in 1..l PROVE moved[k] = gs[k]
      OBVIOUS
    <2>1. gs[k] \in T
      BY <1>2
    <2>3. d * (Len(gs) - j) = 0
      BY <1>1, <1>3
    <2>4. [gs[k] EXCEPT !.value = @ + d * (Len(gs) - j)] = gs[k]
      BY <2>1, <2>3, RecordStays DEF T
    <2>5. [gs[k] EXCEPT !.name = @ + d] = gs[k]
      BY <2>1, RecordStays DEF T
    <2>6. k \in Int /\ j \in Int
      BY <1>1
    <2>7. moved[k] = CASE k < j -> gs[k]
                       [] k = j -> [gs[k] EXCEPT !.value = @ + d * (Len(gs) - j)]
                       [] k > j -> [gs[k] EXCEPT !.name = @ + d]
      BY <1>4
    <2>. HIDE DEF moved
    <2>8. k < j \/ k = j \/ k > j
      BY <2>6
    <2>. QED BY <2>4, <2>5, <2>6, <2>7, <2>8
  <1>6. DOMAIN moved = 1..l
    BY <1>4
  <1>. HIDE DEF moved
  <1>7. moved \in [1..l -> T]
    <2>1. moved = [k \in 1..l |-> moved[k]]
      BY <1>4 DEF moved
    <2>. QED BY <1>2, <1>5, <2>1
  <1>8. Len(moved) = l /\ moved \in Seq(T)
    <2>. HIDE DEF l
    <2>. QED BY <1>1, <1>6, <1>7
  <1>9. \A k \in 1..l : /\ gs[k].name = hs[k].name /\ gs[k].value = hs[k].value
                        /\ gs[k].len = IF k = j THEN NewLen ELSE hs[k].len
    BY <1>1, <1>2 DEF T
  <1>. QED BY <1>1, <1>5, <1>6, <1>8, <1>9 DEF OnlyLength, moved, gs, T

\* What arrives behind a request leaves it one; what arrives behind anything else
\* is in the buffer as it came.
LEMMA CalledAgainKeeps ==
    ASSUME RewriteInv, NEW n \in 0..Len(rest), CalledAgain(n)
    PROVE  RewriteInv'
  <1>0. Shape
    BY ShapeIs
  <1>1. /\ Called /\ Arrives(n, size) /\ pc = "queued"
        /\ taken' = taken /\ queued' = queued
        /\ received' = received \o SubSeq(rest, 1, n)
        /\ late' = (late \/ (n > 0 /\ Parses(Given)))
    BY DEF CalledAgain, Called, Arrives
  <1>2. /\ received' \in Seq(Int) /\ Len(received') = Len(received) + n
        /\ Given' \in Seq(Int) /\ Len(Given') = size + n
        /\ \A k \in 1..size : Given'[k] = Given[k]
        /\ \A k \in size + 1..size + n : Given'[k] = rest[k - size]
    BY <1>0, <1>1, GivenMore
  <1>3. /\ buf \in [1..Space -> Int] /\ size \in Nat /\ n \in Nat
        /\ size + n <= Space /\ Given \in Seq(Int) /\ Len(Given) = size
        /\ taken \in Seq(Int) /\ queued \in Seq(Int) /\ late \in BOOLEAN
        /\ Len(taken) + size = Len(received)
        /\ ~Parses(Given) => AllIn(buf, Given)
        /\ HeadIn(buf, Given)
    <2>1. /\ buf \in [1..Space -> Int] /\ size \in Nat /\ rest \in Seq(Int)
          /\ taken \in Seq(Int) /\ received \in Seq(Int)
          /\ Len(received) + Len(rest) + NewLen <= Space
          /\ Len(taken) + size = Len(received)
      BY <1>0 DEF Shape, TypeOK, Accounts
    <2>2. /\ Len(taken) \in Nat /\ Len(rest) \in Nat /\ Len(received) \in Nat
          /\ NewLen \in Nat /\ Space \in Nat /\ n \in Nat /\ n <= Len(rest)
      BY <2>1, RewriteAssumption
    <2>3. size + n <= Space
      BY <2>1, <2>2
    <2>. QED BY <1>0, <2>1, <2>2, <2>3 DEF Shape, TypeOK
  <1>4. /\ \A k \in 1..size : buf'[k] = buf[k]
        /\ \A k \in size + 1..size + n : buf'[k] = rest[k - size]
    <2>1. buf' = [k \in 1..Space |-> IF k \in size + 1..size + n THEN rest[k - size]
                                     ELSE buf[k]]
      BY <1>1, <1>3 DEF Arrives
    <2>2. Space \in Nat
      BY RewriteAssumption
    <2>3. ASSUME NEW k \in 1..size PROVE buf'[k] = buf[k]
      <3>1. k \in 1..Space /\ k \notin size + 1..size + n
        BY <1>3, <2>2
      <3>. QED BY <2>1, <3>1
    <2>4. ASSUME NEW k \in size + 1..size + n PROVE buf'[k] = rest[k - size]
      <3>1. k \in 1..Space
        BY <1>3, <2>2
      <3>. QED BY <2>1, <3>1
    <2>. QED BY <2>3, <2>4
  <1>5. CASE Parses(Given)
    <2>1. SameHead(Given, Given')
      <3>1. Len(Given') >= Len(Given) /\ \A k \in 1..Len(Given) : Given'[k] = Given[k]
        BY <1>2, <1>3
      <3>. QED BY <1>2, <1>3, <1>5, <3>1, MoreFollows
    <2>2. Parses(Given') /\ FirstHosts(Given') = FirstHosts(Given)
      <3>1. FirstHosts(Given') = FirstHosts(Given)
        BY <2>1, SameHosts
      <3>. QED BY <2>1, <3>1 DEF SameHead
    <2>3. ASSUME NEW h \in FirstHosts(Given), NEW k \in 1..h.value - 1
          PROVE  buf'[k] = Given'[k]
      <3>1. k \in 1..size
        <4>. DEFINE v == h.value
                    m == h.name
        <4>1. m \in 2..size /\ v \in m + 1..size - 1 /\ k \in 1..v - 1
          BY <1>3, <1>5, FirstHostFacts
        <4>. HIDE DEF m, v
        <4>. QED BY <1>3, <4>1
      <3>2. buf[k] = Given[k]
        BY <1>3, <1>5 DEF HeadIn
      <3>. QED BY <1>2, <1>4, <3>1, <3>2
    <2>4. HeadIn(buf', Given')
      BY <2>2, <2>3 DEF HeadIn
    <2>. QED BY <1>0, <1>1, <1>2, <1>3, <2>2, <2>4, ArrivesKeeps
  <1>6. CASE ~Parses(Given)
    <2>1. ASSUME NEW k \in 1..size + n PROVE buf'[k] = Given'[k]
      <3>1. k \in 1..size \/ k \in size + 1..size + n
        BY <1>3
      <3>2. k \in 1..size => buf[k] = Given[k]
        BY <1>3, <1>6 DEF AllIn
      <3>. QED BY <1>2, <1>4, <3>1, <3>2
    <2>2. AllIn(buf', Given')
      BY <1>2, <2>1 DEF AllIn
    <2>3. HeadIn(buf', Given')
      BY <1>2, <2>2, AllIsHead
    <2>. QED BY <1>0, <1>1, <1>2, <1>3, <2>2, <2>3, ArrivesKeeps
  <1>. QED BY <1>5, <1>6

\* The consumed buffer begins anew.
LEMMA CalledAfreshKeeps ==
    ASSUME RewriteInv, NEW n \in 0..Len(rest), CalledAfresh(n)
    PROVE  RewriteInv'
  <1>0. Shape
    BY ShapeIs
  <1>1. /\ Called /\ Arrives(n, 0) /\ pc = "queued"
        /\ taken' = taken \o queued /\ queued' = << >> /\ late' = FALSE
        /\ received' = received \o SubSeq(rest, 1, n)
    BY DEF CalledAfresh, Called, Arrives
  <1>2. /\ received' \in Seq(Int) /\ Len(received') = Len(received) + n
        /\ taken' \in Seq(Int) /\ Len(taken') = Len(received)
        /\ Given' \in Seq(Int) /\ Len(Given') = n
        /\ \A k \in 1..n : Given'[k] = rest[k]
    BY <1>0, <1>1, GivenAfresh
  <1>3. /\ buf \in [1..Space -> Int] /\ size \in Nat /\ n \in Nat /\ n <= Space
        /\ Len(received) \in Nat
    <2>1. /\ buf \in [1..Space -> Int] /\ size \in Nat /\ rest \in Seq(Int)
          /\ received \in Seq(Int)
          /\ Len(received) + Len(rest) + NewLen <= Space
      BY <1>0 DEF Shape, TypeOK, Accounts
    <2>2. /\ Len(rest) \in Nat /\ Len(received) \in Nat
          /\ NewLen \in Nat /\ Space \in Nat /\ n \in Nat /\ n <= Len(rest)
      BY <2>1, RewriteAssumption
    <2>3. n <= Space
      BY <2>1, <2>2
    <2>. QED BY <2>1, <2>2, <2>3
  <1>4. \A k \in 1..n : buf'[k] = rest[k]
    <2>1. buf' = [k \in 1..Space |-> IF k \in 0 + 1..0 + n THEN rest[k - 0] ELSE buf[k]]
      BY <1>1, <1>3 DEF Arrives
    <2>2. ASSUME NEW k \in 1..n PROVE buf'[k] = rest[k]
      <3>1. k \in 1..Space /\ k \in 0 + 1..0 + n /\ k - 0 = k
        BY <1>3, RewriteAssumption
      <3>. QED BY <2>1, <3>1
    <2>. QED BY <2>2
  <1>5. AllIn(buf', Given')
    BY <1>2, <1>4 DEF AllIn
  <1>6. HeadIn(buf', Given')
    BY <1>2, <1>5, AllIsHead
  <1>7. 0 \in 0..size /\ Len(taken') + 0 = Len(received) /\ Len(Given') = 0 + n
    BY <1>2, <1>3
  <1>8. queued' \in Seq(Int) /\ late' \in BOOLEAN
    <2>1. << >> \in Seq(Int)
      OBVIOUS
    <2>. QED BY <1>1, <2>1
  <1>. QED BY <1>0, <1>1, <1>2, <1>5, <1>6, <1>7, <1>8, ArrivesKeeps

-----------------------------------------------------------------------------
(* The call itself: nothing arrives, and what was given is what it was. *)

\* What is queued is of the length of the request: the result is always 0.
LEMMA QueueFacts ==
    ASSUME Shape, NEW b \in [1..Space -> Int], NEW d, d = 0, Queue(b, d)
    PROVE  pc' = "queued" /\ queued' \in Seq(Int) /\ Len(queued') = size
  <1>1. size \in 0..Space /\ size + d = size /\ Space \in Nat
    BY RewriteAssumption DEF Shape
  <1>. QED BY <1>1, PrefixFacts DEF Queue

\* A step that leaves the stream alone leaves what was given alone.
LEMMA GivenStays ==
    ASSUME UNCHANGED stream
    PROVE  /\ Given' = Given
           /\ received' = received /\ rest' = rest /\ taken' = taken /\ late' = late
  BY DEF stream, Given

\* The pointers come from a buffer whose head is as it was given.
LEMMA ParseRequestKeeps ==
    ASSUME RewriteInv, ParseRequest
    PROVE  RewriteInv'
  <1>0. Shape
    BY ShapeIs
  <1>1. /\ pc = "parse" /\ Parses(Content) /\ headers' = Headers(Content)
        /\ pc' = "modify" /\ buf' = buf /\ size' = size /\ i' = i
        /\ diffrence' = diffrence /\ queued' = queued /\ calls' = calls
        /\ Given' = Given /\ received' = received /\ rest' = rest /\ taken' = taken
        /\ late' = late
    BY GivenStays DEF ParseRequest
  <1>2. /\ Content \in Seq(Int) /\ Len(Content) = size /\ size \in Nat
        /\ \A k \in 1..size : Content[k] = buf[k]
        /\ size <= Space
    <2>1. buf \in [1..Space -> Int] /\ size \in 0..Space /\ Space \in Nat
      BY <1>0, RewriteAssumption DEF Shape, TypeOK
    <2>. QED BY <2>1, PrefixFacts DEF Content
  <1>3. Parses(Given)
    BY <1>1 DEF RewriteInv
  <1>4. HeadersAre(Content, headers')
    BY <1>1, <1>2, HeadersFacts
  <1>5. ASSUME NEW k \in DOMAIN headers'
        PROVE  /\ headers'[k].name \in 1..size
               /\ headers'[k].value + headers'[k].len <= Space
               /\ headers'[k].name \in HeaderStarts(Content)
               /\ headers'[k] = HeaderAt(Content, headers'[k].name)
    <2>. DEFINE g == headers'[k]
                p == g.name
                end == EndOfLine(Content, p)
    <2>1. p \in HeaderStarts(Content) /\ g = HeaderAt(Content, p)
      BY <1>4 DEF HeadersAre
    <2>2. LineAt(Content, p, g, end)
      BY <1>1, <1>2, <2>1, HeaderFacts
    <2>3. p \in 1..size
      BY <1>2, <2>1, LineFacts
    <2>. DEFINE v == g.value
                l == g.len
    <2>4. end \in p + 1..size - 1 /\ v \in p + 1..end /\ l \in Nat /\ v + l <= end
      BY <1>2, <2>2 DEF LineAt
    <2>. HIDE DEF g, p, end, v, l
    <2>5. v + l <= Space
      BY <1>2, <2>3, <2>4, RewriteAssumption
    <2>. QED BY <2>1, <2>3, <2>5 DEF g, p, v, l
  <1>6. TypeOK'
    BY <1>0, <1>1, <1>5 DEF Shape, TypeOK
  <1>7. Accounts'
    BY <1>0, <1>1, <1>2, <1>4 DEF Shape, Accounts, HeadersAre
  <1>8. PointersBehind'
    <2>. SUFFICES ASSUME NEW h \in FirstHosts(Given), NEW k \in DOMAIN headers'
                  PROVE  \/ headers'[k].value >= h.value
                         \/ headers'[k].name < h.value /\ ~IsHost(Given, headers'[k])
      BY <1>1 DEF PointersBehind, IsHost
    <2>1. Len(Content) >= h.value - 1
      <3>. DEFINE v == h.value
                  m == h.name
      <3>1. m \in 2..size /\ v \in m + 1..size - 1
        BY <1>0, <1>3, FirstHostFacts DEF Shape
      <3>. HIDE DEF m, v
      <3>2. size >= v - 1
        BY <1>2, <3>1
      <3>. QED BY <1>2, <3>2 DEF v
    <2>2. ASSUME NEW j \in 1..h.value - 1 PROVE Content[j] = Given[j]
      <3>1. j \in 1..size
        <4>. DEFINE v == h.value
        <4>1. v - 1 <= size /\ j \in 1..v - 1
          BY <1>2, <2>1
        <4>2. v \in Int
          <5>1. h.name \in 2..size /\ h.value \in h.name + 1..size - 1
            BY <1>0, <1>3, FirstHostFacts DEF Shape
          <5>. QED BY <5>1
        <4>. HIDE DEF v
        <4>. QED BY <1>2, <4>1, <4>2
      <3>2. buf[j] = Given[j]
        BY <1>0, <1>3 DEF Shape, HeadIn
      <3>. QED BY <1>2, <3>1, <3>2
    <2>. DEFINE p == headers'[k].name
    <2>3. p \in HeaderStarts(Content) /\ headers'[k] = HeaderAt(Content, p)
      BY <1>5
    <2>. HIDE DEF p
    <2>4. HeaderAt(Content, p).value >= h.value \/ (p < h.value /\ Given[p] \notin HostNames)
      BY <1>0, <1>1, <1>2, <1>3, <2>1, <2>2, <2>3, BehindFirstHost DEF Shape
    <2>. QED BY <2>3, <2>4 DEF p, IsHost
  <1>9. Shape'
    BY <1>0, <1>1, <1>3, <1>6, <1>7, <1>8 DEF Shape
  <1>. QED BY <1>9, ShapeIs, PTL

\* What is not a request is queued and left as it is.
LEMMA ForwardAsIsKeeps ==
    ASSUME RewriteInv, ForwardAsIs
    PROVE  RewriteInv'
  <1>0. Shape
    BY ShapeIs
  <1>1. /\ buf' = buf /\ size' = size /\ headers' = headers /\ i' = i
        /\ diffrence' = diffrence /\ calls' = calls /\ pc = "parse"
        /\ Given' = Given /\ received' = received /\ rest' = rest /\ taken' = taken
        /\ late' = late
    BY GivenStays DEF ForwardAsIs
  <1>2. pc' = "queued" /\ queued' \in Seq(Int) /\ Len(queued') = size
    <2>1. buf \in [1..Space -> Int] /\ Queue(buf, 0)
      BY <1>0 DEF Shape, TypeOK, ForwardAsIs
    <2>. QED BY <1>0, <2>1, QueueFacts
  <1>3. TypeOK'
    BY <1>0, <1>1, <1>2 DEF Shape, TypeOK
  <1>4. Accounts'
    BY <1>0, <1>1, <1>2 DEF Shape, Accounts
  <1>5. PointersBehind'
    BY <1>2 DEF PointersBehind
  <1>6. Shape'
    BY <1>0, <1>1, <1>2, <1>3, <1>4, <1>5 DEF Shape
  <1>. QED BY <1>6, ShapeIs, PTL

\* A header that is skipped moves nothing.
LEMMA SkipHeaderKeeps ==
    ASSUME RewriteInv, SkipHeader
    PROVE  RewriteInv'
  <1>0. Shape
    BY ShapeIs
  <1>1. /\ buf' = buf /\ size' = size /\ headers' = headers /\ i' = i + 1
        /\ diffrence' = diffrence /\ calls' = calls /\ pc' = pc /\ queued' = queued
        /\ Given' = Given /\ received' = received /\ rest' = rest /\ taken' = taken
        /\ late' = late /\ i <= Len(headers)
    BY GivenStays DEF SkipHeader
  <1>2. i' \in 1..MaxHeaders + 1
    BY <1>0, <1>1, NextTurn
  <1>3. TypeOK'
    BY <1>0, <1>1, <1>2 DEF Shape, TypeOK
  <1>4. Accounts'
    BY <1>0, <1>1 DEF Shape, Accounts
  <1>5. PointersBehind'
    BY <1>0, <1>1 DEF Shape, PointersBehind, IsHost
  <1>6. Shape'
    BY <1>0, <1>1, <1>3, <1>4, <1>5 DEF Shape
  <1>. QED BY <1>6, ShapeIs, PTL

\* A header that is replaced is not before the first Host header of what was given.
LEMMA ReplacedBehind ==
    ASSUME Shape, pc = "modify", i <= Len(headers), IsHost(buf, headers[i])
    PROVE  /\ i \in DOMAIN headers
           /\ headers[i] \in [name : 1..size, value : 1..size, len : Nat]
           /\ headers[i].value + headers[i].len <= Space
           /\ Parses(Given)
           /\ \A h \in FirstHosts(Given) : headers[i].value >= h.value
  <1>1. /\ headers \in Seq([name : 1..size, value : 1..size, len : Nat])
        /\ i \in 1..MaxHeaders + 1 /\ Given \in Seq(Int) /\ Len(Given) = size
        /\ \A k \in DOMAIN headers : headers[k].value + headers[k].len <= Space
    BY DEF Shape, TypeOK, Accounts
  <1>2. i \in DOMAIN headers /\ Len(headers) \in Nat
    <2>1. Len(headers) \in Nat /\ DOMAIN headers = 1..Len(headers)
      BY <1>1, ElementFacts
    <2>. QED BY <1>1, <2>1, RewriteAssumption
  <1>3. headers[i] \in [name : 1..size, value : 1..size, len : Nat]
    BY <1>1, <1>2, ElementFacts
  <1>4. Parses(Given)
    BY DEF Shape
  <1>5. ASSUME NEW h \in FirstHosts(Given) PROVE headers[i].value >= h.value
    <2>1. ASSUME headers[i].name < h.value, ~IsHost(Given, headers[i]) PROVE FALSE
      <3>. DEFINE p == headers[i].name
                  v == h.value
      <3>1. p \in 1..size /\ p < v
        BY <1>3, <2>1
      <3>2. v \in Int
        <4>1. h.name \in 2..size /\ h.value \in h.name + 1..size - 1
          BY <1>1, <1>4, FirstHostFacts
        <4>. QED BY <4>1
      <3>. HIDE DEF p, v
      <3>3. p \in 1..v - 1
        BY <3>1, <3>2
      <3>4. buf[p] = Given[p]
        BY <1>4, <3>3 DEF Shape, HeadIn, v
      <3>. QED BY <2>1, <3>4 DEF IsHost, p
    <2>. QED BY <1>2, <2>1 DEF Shape, PointersBehind
  <1>. QED BY <1>1, <1>2, <1>3, <1>4, <1>5

\* Both ways of replacing a value write from its first character on.
WritesFrom(b, c, v) ==
    /\ b \in [1..Space -> Int]
    /\ \A k \in 1..Space : k < v => b[k] = c[k]

\* The new value is written from v on.
LEMMA ValueWrites ==
    ASSUME NEW b \in [1..Space -> Int], NEW v \in Nat
    PROVE  WritesFrom(WithValue(b, v), b, v)
  <1>1. Space \in Nat /\ NewLen \in Nat
    BY RewriteAssumption
  <1>2. WithValue(b, v) =
            [k \in 1..Space |-> IF k \in v..v + NewLen - 1 THEN New(k - v + 1) ELSE b[k]]
    BY DEF WithValue
  <1>3. \A k \in v..v + NewLen - 1 : New(k - v + 1) \in Int
    BY <1>1 DEF New
  <1>4. WithValue(b, v) \in [1..Space -> Int]
    <2>1. \A k \in 1..Space :
              (IF k \in v..v + NewLen - 1 THEN New(k - v + 1) ELSE b[k]) \in Int
      BY <1>3
    <2>. QED BY <1>2, <2>1
  <1>5. \A k \in 1..Space : k < v => k \notin v..v + NewLen - 1
    BY <1>1
  <1>. QED BY <1>2, <1>4, <1>5 DEF WritesFrom

\* The tail is moved behind the value.
LEMMA TailWrites ==
    ASSUME Shape, NEW b \in [1..Space -> Int],
           NEW h \in [name : 1..size, value : 1..size, len : Nat]
    PROVE  WritesFrom(WithTailMoved(b, h), b, h.value)
  <1>. DEFINE v == h.value
              l == h.len
              to == v + NewLen
              n == size - (v + l - 1)
  <1>1. /\ Space \in Nat /\ NewLen \in Nat /\ size \in Nat /\ size <= Space
        /\ v \in 1..size /\ l \in Nat
    BY RewriteAssumption DEF Shape
  <1>2. WithTailMoved(b, h) =
            [k \in 1..Space |-> IF k \in to..to + n - 1 THEN b[k - NewLen + l] ELSE b[k]]
    BY DEF WithTailMoved
  <1>. HIDE DEF v, l
  <1>3. \A k \in to..to + n - 1 : k - NewLen + l \in 1..Space /\ k >= v
    BY <1>1
  <1>4. WithTailMoved(b, h) \in [1..Space -> Int]
    BY <1>2, <1>3
  <1>5. \A k \in 1..Space : k < v => k \notin to..to + n - 1
    BY <1>1
  <1>6. \A k \in 1..Space : k < v => WithTailMoved(b, h)[k] = b[k]
    <2>. HIDE DEF to, n
    <2>. QED BY <1>2, <1>5
  <1>. QED BY <1>4, <1>6 DEF WritesFrom, v

\* In both orders.
LEMMA ReplacedWrites ==
    ASSUME Shape, NEW b \in [1..Space -> Int],
           NEW h \in [name : 1..size, value : 1..size, len : Nat]
    PROVE  WritesFrom(Shorter(b, h), b, h.value) /\ WritesFrom(Longer(b, h), b, h.value)
  <1>. DEFINE v == h.value
              s == WithValue(b, v)
              l == WithTailMoved(b, h)
  <1>1. v \in Nat
    BY DEF Shape
  <1>2. WritesFrom(s, b, v) /\ WritesFrom(l, b, v)
    BY <1>1, ValueWrites, TailWrites
  <1>. HIDE DEF s, l
  <1>3. s \in [1..Space -> Int] /\ l \in [1..Space -> Int]
    BY <1>2 DEF WritesFrom
  <1>4. WritesFrom(WithTailMoved(s, h), s, v) /\ WritesFrom(WithValue(l, v), l, v)
    BY <1>1, <1>3, ValueWrites, TailWrites
  <1>. HIDE DEF v
  <1>5. WritesFrom(WithTailMoved(s, h), b, v) /\ WritesFrom(WithValue(l, v), b, v)
    BY <1>2, <1>4 DEF WritesFrom
  <1>. QED BY <1>5 DEF Shorter, Longer, s, l, v

\* What is written behind the first Host value leaves the head as it was.
LEMMA HeadStays ==
    ASSUME Shape, Parses(Given), NEW b, NEW v \in Int, WritesFrom(b, buf, v),
           \A h \in FirstHosts(Given) : v >= h.value
    PROVE  HeadIn(b, Given)
  <1>. SUFFICES ASSUME NEW h \in FirstHosts(Given), NEW k \in 1..h.value - 1
                PROVE  b[k] = Given[k]
    BY DEF HeadIn
  <1>. DEFINE m == h.name
              w == h.value
  <1>1. m \in 2..size /\ w \in m + 1..size - 1 /\ k \in 1..w - 1 /\ v >= w
    BY FirstHostFacts DEF Shape
  <1>2. buf[k] = Given[k]
    BY DEF Shape, HeadIn
  <1>3. size \in Nat /\ size <= Space /\ Space \in Nat
    BY RewriteAssumption DEF Shape
  <1>. HIDE DEF m, w
  <1>4. m \in Int /\ w \in Int
    BY <1>1, <1>3
  <1>5. k \in 1..Space /\ k < v
    BY <1>1, <1>3, <1>4
  <1>. QED BY <1>2, <1>5 DEF WritesFrom

\* A value of another length is replaced.
LEMMA ReplaceHeaderKeeps ==
    ASSUME RewriteInv, ReplaceHeader
    PROVE  RewriteInv'
  <1>. DEFINE h == headers[i]
  <1>0. Shape
    BY ShapeIs
  <1>1. /\ size' = size /\ i' = i + 1 /\ pc = "modify"
        /\ calls' = calls /\ pc' = pc /\ queued' = queued
        /\ Given' = Given /\ received' = received /\ rest' = rest /\ taken' = taken
        /\ late' = late /\ i <= Len(headers) /\ IsHost(buf, h)
        /\ buf' = IF h.len > NewLen THEN Shorter(buf, h) ELSE Longer(buf, h)
        /\ headers' = Moved([headers EXCEPT ![i].len = NewLen], i, NewLen - NewLen)
        /\ diffrence' = NewLen - NewLen
    BY GivenStays DEF ReplaceHeader
  <1>2. /\ i \in DOMAIN headers
        /\ h \in [name : 1..size, value : 1..size, len : Nat]
        /\ Parses(Given) /\ \A g \in FirstHosts(Given) : h.value >= g.value
    BY <1>0, <1>1, ReplacedBehind
  <1>3. /\ buf \in [1..Space -> Int] /\ size \in Nat /\ size + NewLen <= Space
        /\ headers \in Seq([name : 1..size, value : 1..size, len : Nat])
        /\ NewLen \in Nat /\ Space \in Nat
    BY <1>0, RewriteAssumption DEF Shape, TypeOK, Accounts
  <1>4. WritesFrom(buf', buf, h.value)
    BY <1>0, <1>1, <1>2, <1>3, ReplacedWrites
  <1>5. buf' \in [1..Space -> Int]
    BY <1>4 DEF WritesFrom
  <1>6. HeadIn(buf', Given)
    <2>1. h.value \in Int
      BY <1>2, <1>3
    <2>. HIDE DEF h
    <2>. QED BY <1>0, <1>2, <1>4, <2>1, HeadStays
  <1>7. NewLen - NewLen = 0
    BY <1>3
  <1>8. /\ DOMAIN headers' = DOMAIN headers /\ Len(headers') = Len(headers)
        /\ headers' \in Seq([name : 1..size, value : 1..size, len : Nat])
        /\ \A k \in DOMAIN headers :
               /\ headers'[k].name = headers[k].name
               /\ headers'[k].value = headers[k].value
               /\ headers'[k].len = IF k = i THEN NewLen ELSE headers[k].len
    <2>. DEFINE d == NewLen - NewLen
    <2>1. headers' = Moved([headers EXCEPT ![i].len = NewLen], i, d) /\ d = 0
      BY <1>1, <1>7
    <2>. HIDE DEF d
    <2>2. OnlyLength(size, i, headers, Moved([headers EXCEPT ![i].len = NewLen], i, d))
      BY <1>2, <1>3, <2>1, MovedByNone
    <2>3. OnlyLength(size, i, headers, headers')
      BY <2>1, <2>2
    <2>. QED BY <2>3 DEF OnlyLength
  <1>9. i' \in 1..MaxHeaders + 1
    BY <1>0, <1>1, NextTurn
  <1>10. \A k \in DOMAIN headers' : headers'[k].name \in 1..size
                                    /\ headers'[k].value + headers'[k].len <= Space
    <2>. SUFFICES ASSUME NEW k \in DOMAIN headers
                  PROVE  headers'[k].name \in 1..size
                         /\ headers'[k].value + headers'[k].len <= Space
      BY <1>8
    <2>1. headers[k] \in [name : 1..size, value : 1..size, len : Nat]
      BY <1>3, ElementFacts
    <2>2. headers[k].value + headers[k].len <= Space
      BY <1>0 DEF Shape, TypeOK
    <2>3. headers[k].value + NewLen <= Space
      <3>. DEFINE v == headers[k].value
      <3>1. v \in 1..size
        BY <2>1
      <3>. HIDE DEF v
      <3>2. v + NewLen <= Space
        BY <1>3, <3>1
      <3>. QED BY <3>2 DEF v
    <2>. QED BY <1>8, <2>1, <2>2, <2>3
  <1>11. TypeOK'
    <2>1. diffrence' \in Int
      BY <1>1, <1>7
    <2>. HIDE DEF h
    <2>2. /\ pc' = pc /\ calls' = calls /\ queued' = queued /\ size' = size
          /\ Given' = Given /\ received' = received /\ rest' = rest
          /\ taken' = taken /\ late' = late
      BY <1>1
    <2>. QED BY <1>0, <1>5, <1>9, <1>10, <2>1, <2>2 DEF Shape, TypeOK
  <1>12. Accounts'
    BY <1>0, <1>1, <1>7, <1>8 DEF Shape, Accounts
  <1>13. PointersBehind'
    <2>1. PointersBehind /\ Given' = Given /\ pc = "modify"
      BY <1>0, <1>1 DEF Shape
    <2>. SUFFICES ASSUME NEW g \in FirstHosts(Given), NEW k \in DOMAIN headers
                  PROVE  \/ headers'[k].value >= g.value
                         \/ headers'[k].name < g.value /\ Given[headers'[k].name] \notin HostNames
      BY <1>8, <2>1 DEF PointersBehind, IsHost
    <2>2. \/ headers[k].value >= g.value
          \/ headers[k].name < g.value /\ Given[headers[k].name] \notin HostNames
      BY <2>1 DEF PointersBehind, IsHost
    <2>. QED BY <1>8, <2>2
  <1>14. Shape'
    BY <1>0, <1>1, <1>2, <1>3, <1>6, <1>11, <1>12, <1>13 DEF Shape
  <1>. QED BY <1>14, ShapeIs, PTL

\* A value of the same length is replaced, and the loop left.
LEMMA ReplaceSameLengthKeeps ==
    ASSUME RewriteInv, ReplaceSameLength
    PROVE  RewriteInv'
  <1>. DEFINE h == headers[i]
  <1>0. Shape
    BY ShapeIs
  <1>1. /\ size' = size /\ headers' = headers /\ i' = i /\ diffrence' = 0
        /\ calls' = calls /\ pc = "modify" /\ i <= Len(headers) /\ IsHost(buf, h)
        /\ Given' = Given /\ received' = received /\ rest' = rest /\ taken' = taken
        /\ late' = late /\ buf' = WithValue(buf, h.value) /\ Queue(buf', 0)
    BY GivenStays DEF ReplaceSameLength
  <1>2. /\ h \in [name : 1..size, value : 1..size, len : Nat]
        /\ Parses(Given) /\ \A g \in FirstHosts(Given) : h.value >= g.value
    BY <1>0, <1>1, ReplacedBehind
  <1>3. buf \in [1..Space -> Int] /\ size \in Nat
    BY <1>0 DEF Shape, TypeOK
  <1>4. h.value \in Nat
    BY <1>2, <1>3
  <1>5. WritesFrom(buf', buf, h.value)
    BY <1>1, <1>3, <1>4, ValueWrites
  <1>6. buf' \in [1..Space -> Int]
    BY <1>5 DEF WritesFrom
  <1>7. HeadIn(buf', Given)
    <2>. HIDE DEF h
    <2>. QED BY <1>0, <1>2, <1>4, <1>5, HeadStays
  <1>8. pc' = "queued" /\ queued' \in Seq(Int) /\ Len(queued') = size
    BY <1>0, <1>1, <1>6, QueueFacts
  <1>9. TypeOK'
    BY <1>0, <1>1, <1>6, <1>8 DEF Shape, TypeOK
  <1>10. Accounts'
    BY <1>0, <1>1, <1>8 DEF Shape, Accounts
  <1>11. PointersBehind'
    BY <1>8 DEF PointersBehind
  <1>12. Shape'
    BY <1>0, <1>1, <1>2, <1>7, <1>9, <1>10, <1>11 DEF Shape
  <1>. QED BY <1>12, ShapeIs, PTL

\* The loop is at its end.
LEMMA DoneKeeps ==
    ASSUME RewriteInv, Done
    PROVE  RewriteInv'
  <1>0. Shape
    BY ShapeIs
  <1>1. /\ buf' = buf /\ size' = size /\ headers' = headers /\ i' = i
        /\ diffrence' = diffrence /\ calls' = calls /\ pc = "modify"
        /\ Given' = Given /\ received' = received /\ rest' = rest /\ taken' = taken
        /\ late' = late /\ Queue(buf, diffrence)
    BY GivenStays DEF Done
  <1>2. pc' = "queued" /\ queued' \in Seq(Int) /\ Len(queued') = size
    <2>1. buf \in [1..Space -> Int] /\ diffrence = 0
      BY <1>0 DEF Shape, TypeOK, Accounts
    <2>. QED BY <1>0, <1>1, <2>1, QueueFacts
  <1>3. TypeOK'
    BY <1>0, <1>1, <1>2 DEF Shape, TypeOK
  <1>4. Accounts'
    BY <1>0, <1>1, <1>2 DEF Shape, Accounts
  <1>5. PointersBehind'
    BY <1>2 DEF PointersBehind
  <1>6. Shape'
    BY <1>0, <1>1, <1>2, <1>3, <1>4, <1>5 DEF Shape
  <1>. QED BY <1>6, ShapeIs, PTL

-----------------------------------------------------------------------------
(* All the steps. *)

\* Every step keeps RewriteInv.
LEMMA NextRewrite == RewriteInv /\ [Next]_vars => RewriteInv'
  <1>. SUFFICES ASSUME RewriteInv, [Next]_vars PROVE RewriteInv'
    OBVIOUS
  <1>1. ASSUME NEW n \in 0..Len(rest), CalledAgain(n) \/ CalledAfresh(n) PROVE RewriteInv'
    BY <1>1, CalledAgainKeeps, CalledAfreshKeeps
  <1>2. CASE ParseRequest
    BY <1>2, ParseRequestKeeps
  <1>3. CASE ForwardAsIs
    BY <1>3, ForwardAsIsKeeps
  <1>4. CASE SkipHeader
    BY <1>4, SkipHeaderKeeps
  <1>5. CASE ReplaceHeader
    BY <1>5, ReplaceHeaderKeeps
  <1>6. CASE ReplaceSameLength
    BY <1>6, ReplaceSameLengthKeeps
  <1>7. CASE Done
    BY <1>7, DoneKeeps
  <1>8. CASE UNCHANGED vars
    BY <1>8 DEF vars, RewriteInv, TypeOK, Accounts, HeadUntouched, PointersBehind,
                Given, Content
  <1>. QED BY <1>1, <1>2, <1>3, <1>4, <1>5, <1>6, <1>7, <1>8 DEF Next

-----------------------------------------------------------------------------
(* A rewritten request is settled. *)

\* r is c with another value for header h, as far as r goes.
ReplacedIn(c, h, r) ==
    \A k \in 1..Len(c) :
        /\ k < h.value => r[k] = c[k]
        /\ k \in h.value..h.value + NewLen - 1 => r[k] = New(k - h.value + 1)
        /\ k >= h.value + NewLen /\ k <= Len(c) + NewLen - h.len
               => r[k] = c[k - NewLen + h.len]

\* The line of the header ends later by what its value has become longer, and
\* what is not the new value is blank.
MovedLine(r, p, h, e, end) ==
    /\ end = e + NewLen - h.len
    /\ \A k \in p + 1..end - 1 : k < h.value \/ k >= h.value + NewLen => r[k] = Blank
    /\ \A k \in h.value..h.value + NewLen - 1 : k < end /\ r[k] = New(k - h.value + 1)

LEMMA LineMoves ==
    ASSUME NEW c \in Seq(Int), NEW r \in Seq(Int), Len(r) = Len(c),
           NEW p \in 1..Len(c), c[p] # Forwarded,
           NEW h, NEW e, LineAt(c, p, h, e), ReplacedIn(c, h, r),
           NEW g, NEW end, LineAt(r, p, g, end)
    PROVE  MovedLine(r, p, h, e, end)
  <1>. DEFINE v == h.value
              l == h.len
              n == Len(c)
              to == e + NewLen - l
  <1>1. /\ e \in p + 1..n - 1 /\ c[e] = Crlf
        /\ \A k \in p..e - 1 : c[k] # Crlf
        /\ v \in p + 1..e /\ \A k \in p + 1..v - 1 : c[k] = Blank
        /\ l \in Nat /\ v + l <= e
        /\ \A k \in v + l..e - 1 : c[k] = Blank
    BY DEF LineAt
  <1>2. /\ end \in p + 1..n - 1 /\ r[end] = Crlf
        /\ \A k \in p..end - 1 : r[k] # Crlf
    BY DEF LineAt
  <1>3. \A k \in 1..n : /\ k < v => r[k] = c[k]
                        /\ k \in v..v + NewLen - 1 => r[k] = New(k - v + 1)
                        /\ k >= v + NewLen /\ k <= n + NewLen - l => r[k] = c[k - NewLen + l]
    BY DEF ReplacedIn
  <1>4. n \in Nat /\ NewLen \in Nat /\ p \in Nat /\ p >= 1
    BY RewriteAssumption
  <1>. HIDE DEF v, l, n
  <1>5. e \in Int /\ v \in Int /\ end \in Int /\ l \in Int
    BY <1>1, <1>2, <1>4
  <1>6. to >= v + NewLen /\ to \in Int
    BY <1>1, <1>4, <1>5
  <1>7. ASSUME NEW k \in p + 1..n, k < to, k < v \/ k >= v + NewLen
        PROVE  r[k] = Blank
    <2>1. CASE k < v
      BY <1>1, <1>3, <1>4, <1>5, <2>1
    <2>2. CASE k >= v + NewLen
      <3>1. k \in 1..n /\ k <= n + NewLen - l /\ k - NewLen + l \in v + l..e - 1
        BY <1>1, <1>4, <1>5, <1>7, <2>2
      <3>. QED BY <1>1, <1>3, <2>2, <3>1
    <2>. QED BY <1>7, <2>1, <2>2
  <1>8. ASSUME NEW k \in 1..n, k \in v..v + NewLen - 1
        PROVE  r[k] = New(k - v + 1) /\ r[k] # Crlf
    <2>1. r[k] = New(k - v + 1)
      BY <1>3, <1>8
    <2>2. k - v + 1 > 0 /\ k - v + 1 \in Int
      BY <1>4, <1>5, <1>8
    <2>. QED BY <2>1, <2>2 DEF New, Crlf
  <1>9. ~(end < to)
    <2>. SUFFICES ASSUME end < to PROVE FALSE
      OBVIOUS
    <2>1. CASE end \in v..v + NewLen - 1
      BY <1>2, <1>4, <1>5, <1>8, <2>1
    <2>2. CASE end \notin v..v + NewLen - 1
      <3>1. end < v \/ end >= v + NewLen
        BY <1>4, <1>5, <2>2
      <3>2. end \in p + 1..n
        BY <1>2, <1>4, <1>5
      <3>3. r[end] = Blank
        BY <1>7, <3>1, <3>2
      <3>. QED BY <1>2, <3>3 DEF Blank, Crlf
    <2>. QED BY <2>1, <2>2
  <1>10. ~(to < end)
    <2>. SUFFICES ASSUME to < end PROVE FALSE
      OBVIOUS
    <2>1. to \in p..end - 1 /\ to \in 1..n /\ to <= n + NewLen - l /\ to - NewLen + l = e
      BY <1>1, <1>2, <1>4, <1>5, <1>6
    <2>2. r[to] = c[e]
      BY <1>3, <1>6, <2>1
    <2>. HIDE DEF to
    <2>. QED BY <1>1, <1>2, <2>1, <2>2
  <1>11. end = to
    BY <1>5, <1>6, <1>9, <1>10
  <1>12. ASSUME NEW k \in p + 1..end - 1, k < v \/ k >= v + NewLen
         PROVE  r[k] = Blank
    <2>1. k \in p + 1..n /\ k < to
      BY <1>2, <1>4, <1>5, <1>11
    <2>. QED BY <1>7, <1>12, <2>1
  <1>13. ASSUME NEW k \in v..v + NewLen - 1
         PROVE  k < end /\ r[k] = New(k - v + 1)
    <2>1. k \in Int /\ k >= v /\ k <= v + NewLen - 1 /\ v >= 1
      BY <1>1, <1>4, <1>5
    <2>2. k < end
      BY <1>4, <1>5, <1>6, <1>11, <2>1
    <2>3. end <= n - 1
      BY <1>2
    <2>4. k \in 1..n
      BY <1>4, <1>5, <2>1, <2>2, <2>3
    <2>. QED BY <1>8, <2>2, <2>4
  <1>. QED BY <1>11, <1>12, <1>13 DEF MovedLine, v, l

\* So the parser finds the new value there, and nothing else.
LEMMA ValueFound ==
    ASSUME NEW r \in Seq(Int), NEW p \in 1..Len(r), r[p] # Forwarded,
           NEW g, NEW end, LineAt(r, p, g, end),
           NEW h, NEW e, MovedLine(r, p, h, e, end), h.value \in Int, h.value > p
    PROVE  g.len = NewLen /\ \A k \in 1..NewLen : r[g.value + k - 1] = New(k)
  <1>. DEFINE v == h.value
              w == g.value
              m == g.len
  <1>1. /\ end \in p + 1..Len(r) - 1
        /\ w \in p + 1..end
        /\ \A k \in p + 1..w - 1 : r[k] = Blank
        /\ w < end => r[w] # Blank
        /\ m \in Nat /\ w + m <= end
        /\ m > 0 => r[w + m - 1] # Blank
        /\ \A k \in w + m..end - 1 : r[k] = Blank
    BY DEF LineAt
  <1>2. /\ \A k \in p + 1..end - 1 : k < v \/ k >= v + NewLen => r[k] = Blank
        /\ \A k \in v..v + NewLen - 1 : k < end /\ r[k] = New(k - v + 1)
        /\ v \in Int /\ v > p
    BY DEF MovedLine
  <1>3. NewLen \in Nat /\ p \in Int /\ Len(r) \in Int
    BY RewriteAssumption
  <1>. HIDE DEF v, w, m
  <1>4. end \in Int /\ w \in Int /\ m \in Int
    BY <1>1, <1>3
  <1>5. \A k \in v..v + NewLen - 1 : r[k] # Blank
    <2>1. ASSUME NEW k \in v..v + NewLen - 1 PROVE r[k] # Blank
      <3>1. k - v + 1 > 0 /\ k - v + 1 \in Int
        BY <1>2, <1>3
      <3>. QED BY <1>2, <3>1 DEF New, Blank
    <2>. QED BY <2>1
  <1>6. CASE NewLen = 0
    <2>1. ASSUME m > 0 PROVE FALSE
      <3>1. w + m - 1 \in p + 1..end - 1
        BY <1>1, <1>3, <1>4, <2>1
      <3>2. r[w + m - 1] = Blank
        BY <1>2, <1>4, <1>6, <3>1
      <3>. QED BY <1>1, <2>1, <3>2
    <2>. QED BY <1>1, <1>6, <2>1 DEF m
  <1>7. CASE NewLen > 0
    <2>1. v \in v..v + NewLen - 1 /\ v + NewLen - 1 \in v..v + NewLen - 1
      BY <1>2, <1>3, <1>7
    <2>2. v < end /\ v + NewLen - 1 < end /\ r[v] # Blank /\ r[v + NewLen - 1] # Blank
      BY <1>2, <1>5, <2>1
    <2>3. ~(w < v)
      <3>. SUFFICES ASSUME w < v PROVE FALSE
        OBVIOUS
      <3>1. w \in p + 1..end - 1 /\ w < end
        BY <1>1, <1>2, <1>3, <1>4, <2>2
      <3>. QED BY <1>1, <1>2, <3>1
    <2>4. ~(v < w)
      <3>. SUFFICES ASSUME v < w PROVE FALSE
        OBVIOUS
      <3>1. v \in p + 1..w - 1
        BY <1>2, <1>3, <1>4
      <3>. QED BY <1>1, <2>2, <3>1
    <2>5. w = v
      BY <1>2, <1>4, <2>3, <2>4
    <2>6. ~(m < NewLen)
      <3>. SUFFICES ASSUME m < NewLen PROVE FALSE
        OBVIOUS
      <3>1. v + NewLen - 1 \in w + m..end - 1
        BY <1>2, <1>3, <1>4, <2>2, <2>5
      <3>. QED BY <1>1, <2>2, <3>1
    <2>7. ~(m > NewLen)
      <3>. SUFFICES ASSUME m > NewLen PROVE FALSE
        OBVIOUS
      <3>1. w + m - 1 \in p + 1..end - 1 /\ w + m - 1 >= v + NewLen /\ m > 0
        BY <1>1, <1>2, <1>3, <1>4, <2>5
      <3>. QED BY <1>1, <1>2, <3>1
    <2>8. m = NewLen
      BY <1>3, <1>4, <2>6, <2>7
    <2>9. ASSUME NEW k \in 1..NewLen PROVE r[w + k - 1] = New(k)
      <3>1. v + k - 1 \in v..v + NewLen - 1 /\ (v + k - 1) - v + 1 = k
        BY <1>2, <1>3
      <3>. QED BY <1>2, <2>5, <3>1
    <2>. QED BY <2>8, <2>9 DEF m, w
  <1>. QED BY <1>3, <1>6, <1>7

\* No header is before the second token.
LEMMA HeaderPlaces ==
    ASSUME NEW q \in Seq(Int)
    PROVE  HeaderStarts(q) \subseteq 2..Len(q)
  BY LineFacts

\* A request whose only Host header was replaced is settled, if it still is one.
LEMMA ReplacedSettles ==
    ASSUME NEW c \in Seq(Int), Parses(c), NEW p \in HeaderStarts(c),
           NEW r \in Seq(Int), Len(r) = Len(c), ReplacedIn(c, HeaderAt(c, p), r),
           \A k \in 1..Len(r) : r[k] \in HostNames => k = p
    PROVE  Settled(r)
  <1>. SUFFICES ASSUME Parses(r), NEW g \in HostHeaders(r)
                PROVE  g.len = NewLen /\ \A k \in 1..NewLen : r[g.value + k - 1] = New(k)
    BY DEF Settled
  <1>1. PICK x \in HeaderStarts(r) : r[x] \in HostNames /\ g = HeaderAt(r, x)
    BY DEF HostHeaders
  <1>2. x \in 2..Len(r) /\ p \in 2..Len(c)
    BY HeaderPlaces
  <1>3. x = p
    BY <1>1, <1>2
  <1>. DEFINE h == HeaderAt(c, p)
              e == EndOfLine(c, p)
              end == EndOfLine(r, p)
  <1>4. LineAt(c, p, h, e)
    BY HeaderFacts
  <1>5. LineAt(r, p, g, end)
    BY <1>1, <1>3, HeaderFacts
  <1>. HIDE DEF h, e, end
  <1>6. p \in 1..Len(c) /\ p \in 1..Len(r)
    BY <1>2
  <1>7. ReplacedIn(c, h, r)
    BY DEF h
  <1>8. h.value \in Int /\ h.value > p
    <2>1. e \in p + 1..Len(c) - 1 /\ h.value \in p + 1..e
      BY <1>4 DEF LineAt
    <2>. DEFINE v == h.value
    <2>2. v \in p + 1..e /\ p \in Int /\ e \in Int
      BY <1>6, <2>1
    <2>. HIDE DEF v
    <2>3. v \in Int /\ v > p
      BY <2>2
    <2>. QED BY <2>3 DEF v
  <1>9. r[p] # Forwarded /\ c[p] # Forwarded
    <2>1. r[p] = c[p]
      BY <1>6, <1>7, <1>8 DEF ReplacedIn
    <2>. QED BY <1>1, <1>3, <2>1, HostIsOne
  <1>10. MovedLine(r, p, h, e, end)
    BY <1>4, <1>5, <1>6, <1>7, <1>9, LineMoves
  <1>. QED BY <1>5, <1>6, <1>10, <1>8, <1>9, ValueFound

-----------------------------------------------------------------------------
(* What both ways of replacing a value leave in the buffer. *)

\* c is b with the new value for header h, and what followed the old one, up to
\* the fill level, behind it.
Shifted(b, h, c) ==
    /\ c \in [1..Space -> Int]
    /\ \A k \in 1..Space :
        /\ k < h.value => c[k] = b[k]
        /\ k \in h.value..h.value + NewLen - 1 => c[k] = New(k - h.value + 1)
        /\ k >= h.value + NewLen =>
               c[k] = IF k <= size + NewLen - h.len THEN b[k - NewLen + h.len] ELSE b[k]

\* The header lies in the request.
Inside(h) == /\ h \in [name : 1..size, value : 1..size, len : Nat]
             /\ h.value + h.len <= size

\* The tail behind the value, position by position.
LEMMA TailIs ==
    ASSUME Shape, NEW b \in [1..Space -> Int], NEW h, Inside(h), NEW k \in 1..Space
    PROVE  WithTailMoved(b, h)[k] =
               IF k >= h.value + NewLen /\ k <= size + NewLen - h.len
               THEN b[k - NewLen + h.len] ELSE b[k]
  <1>. DEFINE v == h.value
              l == h.len
              to == v + NewLen
              n == size - (v + l - 1)
  <1>1. /\ Space \in Nat /\ NewLen \in Nat /\ size \in Nat /\ size <= Space
        /\ v \in Nat /\ l \in Nat
    BY RewriteAssumption DEF Shape, Inside
  <1>2. WithTailMoved(b, h)[k] = IF k \in to..to + n - 1 THEN b[k - NewLen + l] ELSE b[k]
    BY DEF WithTailMoved
  <1>. HIDE DEF v, l
  <1>3. k \in to..to + n - 1 <=> k >= v + NewLen /\ k <= size + NewLen - l
    BY <1>1
  <1>. QED BY <1>2, <1>3 DEF v, l

\* The value, position by position.
LEMMA ValueIs ==
    ASSUME NEW b \in [1..Space -> Int], NEW v \in Nat, NEW k \in 1..Space
    PROVE  WithValue(b, v)[k] = IF k \in v..v + NewLen - 1 THEN New(k - v + 1) ELSE b[k]
  BY DEF WithValue

\* Each order does for the lengths it is used for.
LEMMA ShorterShifts ==
    ASSUME Shape, NEW b \in [1..Space -> Int], NEW h, Inside(h), h.len > NewLen
    PROVE  Shifted(b, h, Shorter(b, h))
  <1>. DEFINE v == h.value
              l == h.len
              s == WithValue(b, v)
              c == WithTailMoved(s, h)
  <1>1. /\ Space \in Nat /\ NewLen \in Nat /\ size \in Nat /\ size <= Space
        /\ v \in Nat /\ l \in Nat /\ v >= 1 /\ l > NewLen
    BY RewriteAssumption DEF Shape, Inside
  <1>2. s \in [1..Space -> Int]
    BY <1>1, ValueWrites DEF WritesFrom
  <1>3. c \in [1..Space -> Int]
    BY <1>2, ReplacedWrites DEF WritesFrom, Shorter, Inside
  <1>4. \A k \in 1..Space : s[k] = IF k \in v..v + NewLen - 1 THEN New(k - v + 1) ELSE b[k]
    BY <1>1, ValueIs
  <1>5. \A k \in 1..Space : c[k] = IF k >= v + NewLen /\ k <= size + NewLen - l
                                   THEN s[k - NewLen + l] ELSE s[k]
    BY <1>2, TailIs
  <1>6. Shorter(b, h) = c
    BY DEF Shorter
  <1>. HIDE DEF v, l, s, c
  <1>7. ASSUME NEW k \in 1..Space
        PROVE  /\ k < v => c[k] = b[k]
               /\ k \in v..v + NewLen - 1 => c[k] = New(k - v + 1)
               /\ k >= v + NewLen =>
                      c[k] = IF k <= size + NewLen - l THEN b[k - NewLen + l] ELSE b[k]
    <2>1. CASE k >= v + NewLen /\ k <= size + NewLen - l
      <3>1. k - NewLen + l \in 1..Space /\ k - NewLen + l \notin v..v + NewLen - 1
        BY <1>1, <2>1
      <3>2. c[k] = s[k - NewLen + l] /\ s[k - NewLen + l] = b[k - NewLen + l]
        BY <1>4, <1>5, <2>1, <3>1
      <3>3. ~(k < v) /\ k \notin v..v + NewLen - 1
        BY <1>1, <2>1
      <3>. QED BY <2>1, <3>2, <3>3
    <2>2. CASE ~(k >= v + NewLen /\ k <= size + NewLen - l)
      <3>1. c[k] = s[k] /\ s[k] = IF k \in v..v + NewLen - 1 THEN New(k - v + 1) ELSE b[k]
        BY <1>4, <1>5, <2>2
      <3>. QED BY <1>1, <2>2, <3>1
    <2>. QED BY <2>1, <2>2
  <1>. QED BY <1>3, <1>6, <1>7 DEF Shifted, v, l

LEMMA LongerShifts ==
    ASSUME Shape, NEW b \in [1..Space -> Int], NEW h, Inside(h)
    PROVE  Shifted(b, h, Longer(b, h))
  <1>. DEFINE v == h.value
              l == h.len
              s == WithTailMoved(b, h)
              c == WithValue(s, v)
  <1>1. /\ Space \in Nat /\ NewLen \in Nat /\ size \in Nat /\ size <= Space
        /\ v \in Nat /\ l \in Nat /\ v >= 1
    BY RewriteAssumption DEF Shape, Inside
  <1>2. s \in [1..Space -> Int]
    BY TailWrites DEF WritesFrom, Inside
  <1>3. c \in [1..Space -> Int]
    BY <1>1, <1>2, ValueWrites DEF WritesFrom
  <1>4. \A k \in 1..Space : s[k] = IF k >= v + NewLen /\ k <= size + NewLen - l
                                   THEN b[k - NewLen + l] ELSE b[k]
    BY TailIs
  <1>5. \A k \in 1..Space : c[k] = IF k \in v..v + NewLen - 1 THEN New(k - v + 1) ELSE s[k]
    BY <1>1, <1>2, ValueIs
  <1>6. Longer(b, h) = c
    BY DEF Longer
  <1>. HIDE DEF v, l, s, c
  <1>7. ASSUME NEW k \in 1..Space
        PROVE  /\ k < v => c[k] = b[k]
               /\ k \in v..v + NewLen - 1 => c[k] = New(k - v + 1)
               /\ k >= v + NewLen =>
                      c[k] = IF k <= size + NewLen - l THEN b[k - NewLen + l] ELSE b[k]
    <2>1. k < v => ~(k >= v + NewLen) /\ k \notin v..v + NewLen - 1
      BY <1>1
    <2>2. k >= v + NewLen => k \notin v..v + NewLen - 1
      BY <1>1
    <2>. QED BY <1>4, <1>5, <2>1, <2>2
  <1>. QED BY <1>3, <1>6, <1>7 DEF Shifted, v, l

\* A value of the same length needs no move.
LEMMA SameShifts ==
    ASSUME Shape, NEW b \in [1..Space -> Int], NEW h, Inside(h), h.len = NewLen
    PROVE  Shifted(b, h, WithValue(b, h.value))
  <1>. DEFINE v == h.value
              l == h.len
              c == WithValue(b, v)
  <1>1. Space \in Nat /\ NewLen \in Nat /\ size \in Nat /\ v \in Nat /\ l = NewLen
    BY RewriteAssumption DEF Shape, Inside
  <1>2. c \in [1..Space -> Int]
    BY <1>1, ValueWrites DEF WritesFrom
  <1>3. \A k \in 1..Space : c[k] = IF k \in v..v + NewLen - 1 THEN New(k - v + 1) ELSE b[k]
    BY <1>1, ValueIs
  <1>. HIDE DEF v, l, c
  <1>4. ASSUME NEW k \in 1..Space
        PROVE  /\ k < v => c[k] = b[k]
               /\ k \in v..v + NewLen - 1 => c[k] = New(k - v + 1)
               /\ k >= v + NewLen =>
                      c[k] = IF k <= size + NewLen - l THEN b[k - NewLen + l] ELSE b[k]
    <2>1. k < v => k \notin v..v + NewLen - 1
      BY <1>1
    <2>2. k >= v + NewLen => k \notin v..v + NewLen - 1
      BY <1>1
    <2>3. k - NewLen + l = k
      BY <1>1
    <2>. QED BY <1>3, <2>1, <2>2, <2>3
  <1>. QED BY <1>2, <1>4 DEF Shifted, v, l, c

-----------------------------------------------------------------------------
(* The intended request. *)

\* It is what a request that fills the buffer becomes when its header is replaced.
LEMMA RewrittenIs ==
    ASSUME Shape, NEW b \in [1..Space -> Int], AllIn(b, Given), NEW h, Inside(h),
           NEW c, Shifted(b, h, c)
    PROVE  LET q == Rewritten(Given, h) IN SubSeq(c, 1, Len(q)) = q
  <1>. DEFINE v == h.value
              l == h.len
              g == Given
              x == SubSeq(g, 1, v - 1)
              y == [k \in 1..NewLen |-> New(k)]
              z == SubSeq(g, v + l, Len(g))
              q == Rewritten(Given, h)
  <1>1. /\ Space \in Nat /\ NewLen \in Nat /\ size \in Nat /\ size + NewLen <= Space
        /\ v \in Nat /\ l \in Nat /\ v >= 1 /\ v + l <= size
        /\ g \in Seq(Int) /\ Len(g) = size
    BY RewriteAssumption DEF Shape, Inside
  <1>2. \A k \in 1..size : b[k] = g[k]
    BY <1>1 DEF AllIn
  <1>3. /\ c \in [1..Space -> Int]
        /\ \A k \in 1..Space :
               /\ k < v => c[k] = b[k]
               /\ k \in v..v + NewLen - 1 => c[k] = New(k - v + 1)
               /\ k >= v + NewLen =>
                      c[k] = IF k <= size + NewLen - l THEN b[k - NewLen + l] ELSE b[k]
    BY DEF Shifted
  <1>4. q = (x \o y) \o z
    BY DEF Rewritten
  <1>5. x \in Seq(Int) /\ Len(x) = v - 1 /\ \A k \in 1..v - 1 : x[k] = g[k]
    <2>. HIDE DEF g, v, l
    <2>1. g \in [1..size -> Int]
      BY <1>1
    <2>2. v - 1 \in 0..size
      BY <1>1
    <2>. QED BY <1>1, <2>1, <2>2, PrefixFacts
  <1>6. y \in Seq(Int) /\ Len(y) = NewLen /\ \A k \in 1..NewLen : y[k] = New(k)
    <2>1. \A k \in 1..NewLen : New(k) \in Int
      BY DEF New
    <2>. QED BY <1>1, <2>1
  <1>7. /\ z \in Seq(Int) /\ Len(z) = size - (v + l - 1)
        /\ \A k \in 1..size - (v + l - 1) : z[k] = g[(v + l - 1) + k]
    <2>. HIDE DEF g, v, l
    <2>. DEFINE m == v + l - 1
    <2>1. m \in 0..Len(g) /\ m + 1 = v + l
      BY <1>1
    <2>. HIDE DEF m
    <2>2. SubSeq(g, m + 1, Len(g)) \in Seq(Int)
          /\ Len(SubSeq(g, m + 1, Len(g))) = Len(g) - m
          /\ \A k \in 1..Len(g) - m : SubSeq(g, m + 1, Len(g))[k] = g[m + k]
      BY <1>1, <2>1, TailFacts
    <2>. QED BY <1>1, <2>1, <2>2 DEF m
  <1>. HIDE DEF v, l, g, x, y, z, q
  <1>8. /\ x \o y \in Seq(Int) /\ Len(x \o y) = v - 1 + NewLen
        /\ \A k \in 1..v - 1 : (x \o y)[k] = x[k]
        /\ \A k \in 1..NewLen : (x \o y)[v - 1 + k] = y[k]
    <2>1. /\ x \o y \in Seq(Int) /\ Len(x \o y) = Len(x) + Len(y)
          /\ \A k \in 1..Len(x) : (x \o y)[k] = x[k]
          /\ \A k \in 1..Len(y) : (x \o y)[Len(x) + k] = y[k]
      BY <1>5, <1>6, AppendFacts
    <2>. QED BY <1>5, <1>6, <2>1
  <1>9. /\ q \in Seq(Int) /\ Len(q) = size + NewLen - l
        /\ \A k \in 1..v - 1 + NewLen : q[k] = (x \o y)[k]
        /\ \A k \in 1..size - (v + l - 1) : q[v - 1 + NewLen + k] = z[k]
    <2>1. /\ (x \o y) \o z \in Seq(Int)
          /\ Len((x \o y) \o z) = Len(x \o y) + Len(z)
          /\ \A k \in 1..Len(x \o y) : ((x \o y) \o z)[k] = (x \o y)[k]
          /\ \A k \in 1..Len(z) : ((x \o y) \o z)[Len(x \o y) + k] = z[k]
      BY <1>7, <1>8, AppendFacts
    <2>2. (v - 1 + NewLen) + (size - (v + l - 1)) = size + NewLen - l
      BY <1>1
    <2>. QED BY <1>4, <1>7, <1>8, <2>1, <2>2
  <1>10. ASSUME NEW k \in 1..size + NewLen - l
         PROVE  c[k] = q[k]
    <2>0. k \in 1..Space
      BY <1>1
    <2>1. CASE k < v
      <3>1. k \in 1..v - 1 /\ k \in 1..v - 1 + NewLen /\ k \in 1..size
        BY <1>1, <2>1
      <3>. QED BY <1>2, <1>3, <1>5, <1>8, <1>9, <2>0, <2>1, <3>1
    <2>2. CASE k \in v..v + NewLen - 1
      <3>. DEFINE j == k - v + 1
      <3>1. j \in 1..NewLen /\ v - 1 + j = k /\ k \in 1..v - 1 + NewLen
        BY <1>1, <2>2
      <3>2. c[k] = New(j)
        BY <1>3, <2>0, <2>2
      <3>. HIDE DEF j
      <3>. QED BY <1>6, <1>8, <1>9, <3>1, <3>2
    <2>3. CASE k >= v + NewLen
      <3>. DEFINE j == k - (v - 1 + NewLen)
      <3>1. /\ j \in 1..size - (v + l - 1) /\ (v - 1 + NewLen) + j = k
            /\ (v + l - 1) + j = k - NewLen + l /\ k - NewLen + l \in 1..size
            /\ k <= size + NewLen - l
        BY <1>1, <2>3
      <3>2. c[k] = b[k - NewLen + l]
        BY <1>3, <2>0, <2>3, <3>1
      <3>. HIDE DEF j
      <3>3. q[k] = z[j] /\ z[j] = g[k - NewLen + l]
        BY <1>7, <1>9, <3>1
      <3>. QED BY <1>2, <3>1, <3>2, <3>3
    <2>4. k < v \/ k \in v..v + NewLen - 1 \/ k >= v + NewLen
      BY <1>1
    <2>. QED BY <2>1, <2>2, <2>3, <2>4
  <1>11. AllIn(c, q) /\ Len(q) <= Space
    BY <1>1, <1>9, <1>10 DEF AllIn
  <1>12. SubSeq(c, 1, Len(q)) = q
    BY <1>1, <1>3, <1>9, <1>11, PrefixIs
  <1>. QED BY <1>12 DEF q

-----------------------------------------------------------------------------
(* A request with one Host name: the calls. *)

\* The buffer, what it holds and what it was given.
LEMMA BufferFacts ==
    Shape => /\ Space \in Nat /\ NewLen \in Nat /\ size \in Nat /\ size + NewLen <= Space
             /\ buf \in [1..Space -> Int] /\ queued \in Seq(Int)
             /\ Given \in Seq(Int) /\ Len(Given) = size
             /\ Content \in Seq(Int) /\ Len(Content) = size
             /\ \A k \in 1..size : Content[k] = buf[k]
             /\ Content = Given <=> AllIn(buf, Given)
  <1>. SUFFICES ASSUME Shape
                PROVE  /\ Space \in Nat /\ NewLen \in Nat /\ size \in Nat
                       /\ size + NewLen <= Space
                       /\ buf \in [1..Space -> Int] /\ queued \in Seq(Int)
                       /\ Given \in Seq(Int) /\ Len(Given) = size
                       /\ Content \in Seq(Int) /\ Len(Content) = size
                       /\ \A k \in 1..size : Content[k] = buf[k]
                       /\ Content = Given <=> AllIn(buf, Given)
    OBVIOUS
  <1>1. /\ Space \in Nat /\ NewLen \in Nat /\ size \in Nat /\ size + NewLen <= Space
        /\ buf \in [1..Space -> Int] /\ queued \in Seq(Int)
        /\ Given \in Seq(Int) /\ Len(Given) = size
    BY RewriteAssumption DEF Shape, TypeOK
  <1>2. size \in 0..Space
    BY <1>1
  <1>3. Content \in Seq(Int) /\ Len(Content) = size /\ \A k \in 1..size : Content[k] = buf[k]
    BY <1>1, <1>2, PrefixFacts DEF Content
  <1>4. Content = Given <=> AllIn(buf, Given)
    <2>1. Len(Given) <= Space
      BY <1>1
    <2>2. SubSeq(buf, 1, Len(Given)) = Given <=> AllIn(buf, Given)
      BY <1>1, <2>1, PrefixIs
    <2>. QED BY <1>1, <2>2 DEF Content
  <1>. QED BY <1>1, <1>3, <1>4

LEMMA ContentIs == Shape => (Content = Given <=> AllIn(buf, Given))
  BY BufferFacts

\* Position k of the buffer after tokens have arrived behind position at.
LEMMA ArrivedFacts ==
    ASSUME Shape, NEW n \in 0..Len(rest), NEW at \in 0..size, Arrives(n, at)
    PROVE  /\ \A k \in 1..at : buf'[k] = buf[k]
           /\ \A k \in at + 1..at + n : buf'[k] = rest[k - at]
           /\ n = 0 => buf' = buf
  <1>1. /\ buf \in [1..Space -> Int] /\ rest \in Seq(Int) /\ received \in Seq(Int)
        /\ taken \in Seq(Int)
        /\ Len(received) + Len(rest) + NewLen <= Space
        /\ Len(taken) + size = Len(received) /\ size \in Nat
    BY DEF Shape, TypeOK, Accounts
  <1>2. /\ Len(rest) \in Nat /\ Len(received) \in Nat /\ Len(taken) \in Nat
        /\ NewLen \in Nat /\ Space \in Nat
    BY <1>1, RewriteAssumption
  <1>3. n \in Nat /\ at \in Nat /\ at + n <= Space
    <2>. DEFINE l == Len(rest)
                r == Len(received)
                m == Len(taken)
    <2>1. l \in Nat /\ r \in Nat /\ m \in Nat /\ r + l + NewLen <= Space /\ m + size = r
          /\ n \in 0..l
      BY <1>1, <1>2
    <2>. HIDE DEF l, r, m
    <2>. QED BY <1>1, <1>2, <2>1
  <1>4. buf' = [k \in 1..Space |-> IF k \in at + 1..at + n THEN rest[k - at] ELSE buf[k]]
    BY <1>1 DEF Arrives
  <1>5. ASSUME NEW k \in 1..at PROVE buf'[k] = buf[k]
    <2>1. k \in 1..Space /\ k \notin at + 1..at + n
      BY <1>2, <1>3
    <2>. QED BY <1>4, <2>1
  <1>6. ASSUME NEW k \in at + 1..at + n PROVE buf'[k] = rest[k - at]
    <2>1. k \in 1..Space
      BY <1>2, <1>3
    <2>. QED BY <1>4, <2>1
  <1>7. ASSUME n = 0 PROVE buf' = buf
    <2>1. \A k \in 1..Space : k \notin at + 1..at + n
      BY <1>2, <1>3, <1>7
    <2>2. buf' = [k \in 1..Space |-> buf[k]]
      BY <1>4, <2>1
    <2>. QED BY <1>1, <2>2
  <1>. QED BY <1>5, <1>6, <1>7

\* A request that has one Host name had no more when less of it had arrived.
LEMMA OneHostBefore ==
    ASSUME NEW q \in Seq(Int), NEW r \in Seq(Int), Len(r) >= Len(q),
           \A k \in 1..Len(q) : r[k] = q[k],
           Parses(r) => \A j, k \in DOMAIN r :
                            r[j] \in HostNames /\ r[k] \in HostNames => j = k
    PROVE  Parses(q) => \A j, k \in DOMAIN q :
                            q[j] \in HostNames /\ q[k] \in HostNames => j = k
  <1>. SUFFICES ASSUME Parses(q), NEW j \in DOMAIN q, NEW k \in DOMAIN q,
                       q[j] \in HostNames, q[k] \in HostNames
                PROVE  j = k
    OBVIOUS
  <1>1. SameHead(q, r)
    BY MoreFollows
  <1>2. Parses(r)
    BY <1>1 DEF SameHead
  <1>3. /\ j \in 1..Len(q) /\ k \in 1..Len(q) /\ j \in 1..Len(r) /\ k \in 1..Len(r)
        /\ DOMAIN r = 1..Len(r)
    BY ElementFacts
  <1>. QED BY <1>2, <1>3

LEMMA InitOneHost == Init => OneHostInv
  <1>. SUFFICES ASSUME Init PROVE OneHostInv
    OBVIOUS
  <1>1. /\ buf = [k \in 1..Space |-> 0] /\ size = 0 /\ queued = << >>
        /\ received = << >> /\ taken = << >> /\ pc = "queued"
    BY DEF Init
  <1>2. Given = << >> /\ Content = << >>
    BY <1>1 DEF Given, Content
  <1>3. ~Parses(<< >>)
    BY DEF Parses, First
  <1>4. HostStays
    BY <1>1 DEF HostStays
  <1>5. QueuedSettled
    BY <1>1, <1>2, <1>3 DEF QueuedSettled, Settled
  <1>6. GivenOrFull
    BY <1>2, <1>3 DEF GivenOrFull
  <1>. QED BY <1>1, <1>4, <1>5, <1>6 DEF OneHostInv

\* More arrives, or nothing.
LEMMA CalledAgainOneHost ==
    ASSUME RewriteInv, OneHostInv, NEW n \in 0..Len(rest), CalledAgain(n)
    PROVE  OneHostInv'
  <1>. SUFFICES ASSUME OneHost' PROVE OneHostInv'
    BY DEF OneHostInv
  <1>0. Shape
    BY ShapeIs
  <1>1. /\ Called /\ Arrives(n, size) /\ pc = "queued"
        /\ pc' = "parse" /\ i' = 1 /\ size' = size + n
        /\ taken' = taken /\ queued' = queued
        /\ received' = received \o SubSeq(rest, 1, n)
        /\ late' = (late \/ (n > 0 /\ Parses(Given)))
    BY DEF CalledAgain, Called, Arrives
  <1>2. /\ Given' \in Seq(Int) /\ Len(Given') = size + n
        /\ \A k \in 1..size : Given'[k] = Given[k]
        /\ \A k \in size + 1..size + n : Given'[k] = rest[k - size]
    BY <1>0, <1>1, GivenMore
  <1>3. /\ Space \in Nat /\ NewLen \in Nat /\ size \in Nat /\ size + NewLen <= Space
        /\ buf \in [1..Space -> Int] /\ queued \in Seq(Int)
        /\ Given \in Seq(Int) /\ Len(Given) = size
        /\ Content = Given <=> AllIn(buf, Given)
    BY <1>0, BufferFacts
  <1>4. /\ \A k \in 1..size : buf'[k] = buf[k]
        /\ \A k \in size + 1..size + n : buf'[k] = rest[k - size]
        /\ n = 0 => buf' = buf
    <2>1. size \in 0..size
      BY <1>3
    <2>. QED BY <1>0, <1>1, <2>1, ArrivedFacts
  <1>5. n \in Nat /\ Len(queued) = size
    <2>1. rest \in Seq(Int)
      BY <1>0 DEF Shape, TypeOK
    <2>. QED BY <1>0, <1>1, <2>1 DEF Shape, Accounts
  <1>6. OneHost
    <2>1. Len(Given') >= Len(Given) /\ \A k \in 1..Len(Given) : Given'[k] = Given[k]
      BY <1>2, <1>3, <1>5
    <2>2. Parses(Given') => \A j, k \in DOMAIN Given' :
              Given'[j] \in HostNames /\ Given'[k] \in HostNames => j = k
      BY DEF OneHost
    <2>. QED BY <1>2, <1>3, <2>1, <2>2, OneHostBefore DEF OneHost
  <1>7. HostStays /\ queued = Content /\ Settled(Content)
    BY <1>5, <1>6 DEF OneHostInv, QueuedSettled
  <1>8. HostStays'
    <2>. SUFFICES ASSUME NEW k \in 1..size + n, buf'[k] \in HostNames
                  PROVE  Given'[k] \in HostNames
      BY <1>1 DEF HostStays
    <2>1. k \in 1..size \/ k \in size + 1..size + n
      BY <1>3, <1>5
    <2>. QED BY <1>2, <1>4, <1>7, <2>1 DEF HostStays
  <1>9. ASSUME n = 0 PROVE Content' = Content /\ Given' = Given /\ buf' = buf
    <2>1. size + n = size /\ buf' = buf
      BY <1>3, <1>4, <1>9
    <2>2. Given' = Given
      BY <1>2, <1>3, <2>1, SameSeq
    <2>. QED BY <1>1, <2>1, <2>2 DEF Content
  <1>10. QueuedSettled'
    <2>. SUFFICES ASSUME Len(queued') = size'
                  PROVE  queued' = Content' /\ Settled(Content')
      BY DEF QueuedSettled
    <2>1. n = 0
      BY <1>1, <1>3, <1>5
    <2>2. Content' = Content
      BY <1>9, <2>1
    <2>. QED BY <1>1, <1>7, <2>2
  <1>11. GivenOrFull'
    <2>. SUFFICES ASSUME Parses(Given'), ~late'
                  PROVE  \/ InFull' /\ Len(queued') = size'
                         \/ Content' = Given'
      BY <1>1 DEF GivenOrFull
    <2>1. CASE Parses(Given)
      <3>1. n = 0 /\ ~late
        <4>1. ~(late \/ (n > 0 /\ Parses(Given)))
          BY <1>1, Zenon
        <4>2. ~late /\ ~(n > 0)
          BY <2>1, <4>1, Zenon
        <4>. QED BY <1>5, <4>2
      <3>2. Given' = Given /\ buf' = buf /\ size + n = size
        BY <1>3, <1>9, <3>1
      <3>3. GivenOrFull
        BY <1>6 DEF OneHostInv
      <3>4. InFull
        BY <1>1, <2>1, <3>1, <3>3 DEF GivenOrFull
      <3>. QED BY <1>1, <1>5, <3>2, <3>4 DEF InFull
    <2>2. CASE ~Parses(Given)
      <3>1. AllIn(buf, Given)
        BY <1>0, <2>2 DEF Shape
      <3>2. ASSUME NEW k \in 1..size + n PROVE buf'[k] = Given'[k]
        <4>1. k \in 1..size \/ k \in size + 1..size + n
          BY <1>3, <1>5
        <4>2. k \in 1..size => buf[k] = Given[k]
          BY <1>3, <3>1 DEF AllIn
        <4>. QED BY <1>2, <1>4, <4>1, <4>2
      <3>3. AllIn(buf', Given')
        BY <1>2, <3>2 DEF AllIn
      <3>4. Shape'
        <4>1. RewriteInv'
          BY CalledAgainKeeps
        <4>. QED BY <4>1, ShapeIs, PTL
      <3>5. Content' = Given'
        <4>1. Shape' => (Content = Given <=> AllIn(buf, Given))'
          BY ContentIs, PTL
        <4>. QED BY <3>3, <3>4, <4>1
      <3>. QED BY <3>5
    <2>. QED BY <2>1, <2>2
  <1>. QED BY <1>1, <1>8, <1>10, <1>11 DEF OneHostInv

\* The consumed buffer holds what was given anew.
LEMMA CalledAfreshOneHost ==
    ASSUME RewriteInv, OneHostInv, NEW n \in 0..Len(rest), CalledAfresh(n)
    PROVE  OneHostInv'
  <1>0. Shape
    BY ShapeIs
  <1>1. /\ Called /\ Arrives(n, 0) /\ pc = "queued" /\ pc' = "parse" /\ i' = 1
        /\ size' = 0 + n /\ taken' = taken \o queued /\ queued' = << >>
        /\ received' = received \o SubSeq(rest, 1, n)
    BY DEF CalledAfresh, Called, Arrives
  <1>2. Given' \in Seq(Int) /\ Len(Given') = n /\ \A k \in 1..n : Given'[k] = rest[k]
    BY <1>0, <1>1, GivenAfresh
  <1>3. size \in Nat /\ rest \in Seq(Int)
    BY <1>0 DEF Shape, TypeOK
  <1>4. n \in Nat /\ 0 \in 0..size
    BY <1>3
  <1>5. \A k \in 1..n : buf'[k] = Given'[k]
    <2>1. \A k \in 0 + 1..0 + n : buf'[k] = rest[k - 0]
      BY <1>0, <1>1, <1>4, ArrivedFacts
    <2>2. ASSUME NEW k \in 1..n PROVE buf'[k] = rest[k]
      <3>1. k \in 0 + 1..0 + n /\ k - 0 = k
        BY <1>4
      <3>. QED BY <2>1, <3>1
    <2>. QED BY <1>2, <2>2
  <1>6. size' = n
    BY <1>1, <1>4
  <1>7. Content' = Given'
    <2>1. AllIn(buf', Given')
      BY <1>2, <1>5 DEF AllIn
    <2>2. RewriteInv'
      BY CalledAfreshKeeps
    <2>3. Shape'
      BY <2>2, ShapeIs, PTL
    <2>4. Shape' => (Content = Given <=> AllIn(buf, Given))'
      BY ContentIs, PTL
    <2>. QED BY <2>1, <2>3, <2>4
  <1>8. HostStays'
    BY <1>5, <1>6 DEF HostStays
  <1>9. QueuedSettled'
    <2>. SUFFICES ASSUME Len(queued') = size'
                  PROVE  queued' = Content' /\ Settled(Content')
      BY DEF QueuedSettled
    <2>1. Len(Given') = 0
      BY <1>1, <1>2, <1>6
    <2>2. Given' = << >>
      BY <1>2, <2>1
    <2>3. ~Parses(<< >>)
      BY DEF Parses, First
    <2>. QED BY <1>1, <1>7, <2>2, <2>3 DEF Settled
  <1>10. GivenOrFull'
    BY <1>1, <1>7 DEF GivenOrFull
  <1>. QED BY <1>1, <1>8, <1>9, <1>10 DEF OneHostInv

-----------------------------------------------------------------------------
(* A request with one Host name: the steps of a call. *)

\* A step of the call itself that leaves the buffer alone.
LEMMA BufferStays ==
    ASSUME buf' = buf, size' = size, UNCHANGED stream
    PROVE  /\ Content' = Content /\ Given' = Given /\ (InFull' <=> InFull)
           /\ (OneHost' <=> OneHost) /\ (HostStays' <=> HostStays) /\ late' = late
  <1>1. Given' = Given /\ late' = late
    BY GivenStays
  <1>. QED BY <1>1 DEF Content, InFull, OneHost, HostStays

\* The pointers are what the parser finds.
LEMMA ParseRequestOneHost ==
    ASSUME RewriteInv, OneHostInv, ParseRequest
    PROVE  OneHostInv'
  <1>. SUFFICES ASSUME OneHost' PROVE OneHostInv'
    BY DEF OneHostInv
  <1>1. /\ pc = "parse" /\ Parses(Content) /\ headers' = Headers(Content) /\ pc' = "modify"
        /\ buf' = buf /\ size' = size /\ i' = i /\ queued' = queued /\ UNCHANGED stream
    BY DEF ParseRequest
  <1>2. /\ Content' = Content /\ Given' = Given /\ (InFull' <=> InFull)
        /\ OneHost /\ (HostStays' <=> HostStays) /\ late' = late
    BY <1>1, BufferStays
  <1>3. i = 1 /\ HostStays /\ QueuedSettled /\ GivenOrFull
    BY <1>1, <1>2 DEF OneHostInv
  <1>4. Unreplaced'
    <2>1. \A k \in 1..i' - 1 : FALSE
      BY <1>1, <1>3
    <2>. QED BY <1>1, <1>2, <2>1 DEF Unreplaced
  <1>5. QueuedSettled'
    BY <1>1, <1>2, <1>3 DEF QueuedSettled
  <1>6. GivenOrFull'
    BY <1>1, <1>2, <1>3, <1>4 DEF GivenOrFull
  <1>. QED BY <1>1, <1>2, <1>3, <1>4, <1>5, <1>6 DEF OneHostInv

\* What is queued of a buffer that has changed nowhere.
LEMMA QueuedIs ==
    ASSUME Shape, NEW b, NEW d, d = 0, Queue(b, d)
    PROVE  queued' = SubSeq(b, 1, size) /\ pc' = "queued"
  <1>1. size + d = size
    BY DEF Shape
  <1>. QED BY <1>1 DEF Queue

\* What is not a request is settled.
LEMMA ForwardAsIsOneHost ==
    ASSUME RewriteInv, OneHostInv, ForwardAsIs
    PROVE  OneHostInv'
  <1>. SUFFICES ASSUME OneHost' PROVE OneHostInv'
    BY DEF OneHostInv
  <1>0. Shape
    BY ShapeIs
  <1>1. /\ pc = "parse" /\ ~Parses(Content) /\ Queue(buf, 0)
        /\ buf' = buf /\ size' = size /\ UNCHANGED stream
    BY DEF ForwardAsIs
  <1>2. /\ Content' = Content /\ Given' = Given /\ (InFull' <=> InFull)
        /\ OneHost /\ (HostStays' <=> HostStays) /\ late' = late
    BY <1>1, BufferStays
  <1>3. HostStays /\ GivenOrFull
    BY <1>2 DEF OneHostInv
  <1>4. queued' = Content /\ pc' = "queued"
    BY <1>0, <1>1, QueuedIs DEF Content
  <1>5. Len(Content) = size
    BY <1>0, BufferFacts
  <1>6. QueuedSettled'
    BY <1>1, <1>2, <1>4 DEF QueuedSettled, Settled
  <1>7. GivenOrFull'
    <2>. SUFFICES ASSUME Parses(Given), ~late PROVE InFull /\ Len(queued') = size
      BY <1>1, <1>2 DEF GivenOrFull
    <2>. QED BY <1>1, <1>3, <1>4, <1>5 DEF GivenOrFull
  <1>. QED BY <1>2, <1>3, <1>4, <1>6, <1>7 DEF OneHostInv

\* A header is skipped, whatever was done before it.
LEMMA SkipHeaderOneHost ==
    ASSUME RewriteInv, OneHostInv, SkipHeader
    PROVE  OneHostInv'
  <1>. SUFFICES ASSUME OneHost' PROVE OneHostInv'
    BY DEF OneHostInv
  <1>0. Shape
    BY ShapeIs
  <1>1. /\ pc = "modify" /\ pc' = pc /\ ~IsHost(buf, headers[i]) /\ i' = i + 1
        /\ headers' = headers /\ queued' = queued
        /\ buf' = buf /\ size' = size /\ UNCHANGED stream
    BY DEF SkipHeader
  <1>2. /\ Content' = Content /\ Given' = Given /\ (InFull' <=> InFull)
        /\ OneHost /\ (HostStays' <=> HostStays) /\ late' = late
    BY <1>1, BufferStays
  <1>3. HostStays /\ QueuedSettled /\ GivenOrFull /\ (Unreplaced \/ Replaced)
    BY <1>1, <1>2 DEF OneHostInv
  <1>4. i \in Int /\ Len(headers) \in Int
    <2>1. /\ i \in 1..MaxHeaders + 1
          /\ headers \in Seq([name : 1..size, value : 1..size, len : Nat])
      BY <1>0 DEF Shape, TypeOK, Accounts
    <2>. QED BY <2>1, ElementFacts, RewriteAssumption
  <1>5. Unreplaced => Unreplaced'
    <2>. SUFFICES ASSUME Unreplaced, NEW k \in 1..(i + 1) - 1
                  PROVE  ~IsHost(buf, headers[k])
      BY <1>1, <1>2 DEF Unreplaced
    <2>1. k \in 1..i - 1 \/ k = i
      BY <1>4
    <2>. QED BY <1>1, <2>1 DEF Unreplaced
  <1>6. Replaced => Replaced'
    <2>. SUFFICES ASSUME Replaced, NEW k \in i + 1..Len(headers)
                  PROVE  ~IsHost(buf, headers[k])
      BY <1>1, <1>2 DEF Replaced
    <2>1. k \in i..Len(headers)
      BY <1>4
    <2>. QED BY <2>1 DEF Replaced
  <1>7. QueuedSettled'
    BY <1>1, <1>2, <1>3 DEF QueuedSettled
  <1>8. GivenOrFull'
    <2>. SUFFICES ASSUME Parses(Given), ~late
                  PROVE  \/ InFull /\ (Len(queued) = size \/ Replaced')
                         \/ Content = Given /\ Unreplaced'
      BY <1>1, <1>2 DEF GivenOrFull
    <2>. QED BY <1>1, <1>3, <1>5, <1>6 DEF GivenOrFull
  <1>. QED BY <1>1, <1>2, <1>3, <1>5, <1>6, <1>7, <1>8 DEF OneHostInv

\* The first header the loop replaces is a Host header of what is in the buffer,
\* and the only one that has its name there.
HostPointer(h) ==
    /\ Inside(h) /\ h.name \in 1..size /\ h.value > h.name
    /\ h.name \in HeaderStarts(Content) /\ h = HeaderAt(Content, h.name)
    /\ h \in HostHeaders(Content) /\ Parses(Content)
    /\ buf[h.name] \in HostNames /\ Given[h.name] \in HostNames
    /\ \A k \in DOMAIN headers : headers[k].name = h.name => k = i

LEMMA PointerFacts ==
    ASSUME Shape, OneHostInv, OneHost, pc = "modify", i <= Len(headers),
           IsHost(buf, headers[i])
    PROVE  Unreplaced /\ i \in DOMAIN headers /\ HostPointer(headers[i])
  <1>. DEFINE h == headers[i]
              p == h.name
              e == EndOfLine(Content, p)
  <1>1. /\ headers \in Seq([name : 1..size, value : 1..size, len : Nat])
        /\ i \in 1..MaxHeaders + 1
    BY DEF Shape, TypeOK, Accounts
  <1>2. i \in DOMAIN headers /\ i \in i..Len(headers)
    BY <1>1, ElementFacts, RewriteAssumption
  <1>3. h \in [name : 1..size, value : 1..size, len : Nat]
    BY <1>1, <1>2, ElementFacts
  <1>4. Unreplaced
    BY <1>2 DEF OneHostInv, Replaced
  <1>5. /\ Content \in Seq(Int) /\ Len(Content) = size /\ size \in Nat
        /\ \A k \in 1..size : Content[k] = buf[k]
    BY BufferFacts
  <1>6. HeadersAre(Content, headers)
    BY <1>4, <1>5, HeadersFacts DEF Unreplaced
  <1>7. /\ p \in HeaderStarts(Content) /\ h = HeaderAt(Content, p)
        /\ \A k \in DOMAIN headers : headers[k].name = p => k = i
    BY <1>2, <1>6 DEF HeadersAre
  <1>8. Parses(Content)
    BY <1>4 DEF Unreplaced
  <1>9. p \in 1..size /\ buf[p] \in HostNames
    BY <1>3 DEF IsHost
  <1>10. Given[p] \in HostNames
    BY <1>9 DEF OneHostInv, HostStays
  <1>11. h \in HostHeaders(Content)
    <2>1. Content[p] \in HostNames
      BY <1>5, <1>9
    <2>. HIDE DEF h
    <2>. QED BY <1>7, <2>1 DEF HostHeaders
  <1>12. Inside(h) /\ h.value > p
    <2>1. LineAt(Content, p, HeaderAt(Content, p), e)
      BY <1>5, <1>7, <1>8, HeaderFacts
    <2>2. LineAt(Content, p, h, e)
      BY <1>7, <2>1
    <2>. DEFINE v == h.value
                l == h.len
    <2>3. e \in p + 1..size - 1 /\ v \in p + 1..e /\ l \in Nat /\ v + l <= e
      BY <1>5, <2>2 DEF LineAt
    <2>. HIDE DEF e, p, v, l
    <2>4. v + l <= size /\ v > p
      BY <1>5, <1>9, <2>3
    <2>. QED BY <1>3, <2>4 DEF Inside, v, l, p
  <1>. HIDE DEF h
  <1>. QED BY <1>2, <1>4, <1>7, <1>8, <1>9, <1>10, <1>11, <1>12 DEF HostPointer, h

\* What replacing it leaves in the buffer.
LEMMA ShiftedFacts ==
    ASSUME Shape, OneHost, HostStays, Parses(Given), NEW h, HostPointer(h),
           buf' \in [1..Space -> Int], Shifted(buf, h, buf'), size' = size,
           UNCHANGED stream
    PROVE  /\ HostStays' /\ Settled(Content')
           /\ \A k \in 1..size : buf'[k] \in HostNames => k = h.name
  <1>. DEFINE p == h.name
              v == h.value
              l == h.len
              c == SubSeq(buf', 1, size)
  <1>1. /\ Space \in Nat /\ NewLen \in Nat /\ size \in Nat /\ size + NewLen <= Space
        /\ Given \in Seq(Int) /\ Len(Given) = size
        /\ Content \in Seq(Int) /\ Len(Content) = size
        /\ \A k \in 1..size : Content[k] = buf[k]
    BY BufferFacts
  <1>2. p \in 1..size /\ v \in Nat /\ l \in Nat /\ v > p /\ v + l <= size
    <2>1. v \in 1..size
      BY DEF HostPointer, Inside
    <2>. QED BY <1>1, <2>1 DEF HostPointer, Inside
  <1>3. \A k \in 1..Space :
            /\ k < v => buf'[k] = buf[k]
            /\ k \in v..v + NewLen - 1 => buf'[k] = New(k - v + 1)
            /\ k >= v + NewLen =>
                   buf'[k] = IF k <= size + NewLen - l THEN buf[k - NewLen + l] ELSE buf[k]
    BY DEF Shifted
  <1>4. c \in Seq(Int) /\ Len(c) = size /\ \A k \in 1..size : c[k] = buf'[k]
    <2>1. size \in 0..Space
      BY <1>1
    <2>. QED BY <1>1, <2>1, PrefixFacts
  <1>5. Content' = c
    BY DEF Content
  <1>6. Given' = Given
    BY GivenStays
  <1>7. \A k \in 1..size : buf[k] \in HostNames => k = p
    <2>. SUFFICES ASSUME NEW k \in 1..size, buf[k] \in HostNames PROVE k = p
      OBVIOUS
    <2>1. Given[k] \in HostNames /\ Given[p] \in HostNames
      BY DEF HostStays, HostPointer
    <2>2. k \in DOMAIN Given /\ p \in DOMAIN Given
      BY <1>1, <1>2, ElementFacts
    <2>. QED BY <2>1, <2>2 DEF OneHost
  <1>8. ReplacedIn(Content, h, c)
    <2>. SUFFICES ASSUME NEW k \in 1..size
                  PROVE  /\ k < v => c[k] = Content[k]
                         /\ k \in v..v + NewLen - 1 => c[k] = New(k - v + 1)
                         /\ k >= v + NewLen /\ k <= size + NewLen - l
                                => c[k] = Content[k - NewLen + l]
      BY <1>1 DEF ReplacedIn
    <2>. HIDE DEF v, l, c, p
    <2>1. k \in 1..Space /\ c[k] = buf'[k] /\ Content[k] = buf[k]
      BY <1>1, <1>4
    <2>2. ASSUME k >= v + NewLen, k <= size + NewLen - l PROVE c[k] = Content[k - NewLen + l]
      <3>1. p >= 1 /\ p \in Int /\ k \in Int
        BY <1>1, <1>2
      <3>2. k - NewLen + l >= 1 /\ k - NewLen + l <= size
        BY <1>1, <1>2, <2>2, <3>1
      <3>3. k - NewLen + l \in 1..size
        BY <1>1, <1>2, <3>1, <3>2
      <3>. QED BY <1>1, <1>3, <2>1, <2>2, <3>3
    <2>. QED BY <1>3, <2>1, <2>2
  <1>. HIDE DEF c
  <1>9. ASSUME NEW k \in 1..size, buf'[k] \in HostNames PROVE k = p
    <2>. HIDE DEF v, l, p
    <2>0. k \in 1..Space
      BY <1>1
    <2>1. CASE k < v
      BY <1>3, <1>7, <1>9, <2>0, <2>1
    <2>2. CASE k \in v..v + NewLen - 1
      <3>1. k - v + 1 > 0 /\ k - v + 1 \in Int
        BY <1>1, <1>2, <2>2
      <3>2. buf'[k] = New(k - v + 1)
        BY <1>3, <2>0, <2>2
      <3>. QED BY <1>9, <3>1, <3>2 DEF New, HostNames, Host, HostAlias
    <2>3. CASE k >= v + NewLen /\ k <= size + NewLen - l
      <3>1. k - NewLen + l \in 1..size /\ k - NewLen + l # p
        BY <1>1, <1>2, <2>3
      <3>2. buf'[k] = buf[k - NewLen + l]
        BY <1>3, <2>0, <2>3
      <3>. QED BY <1>7, <1>9, <3>1, <3>2
    <2>4. CASE k >= v + NewLen /\ ~(k <= size + NewLen - l)
      BY <1>3, <1>7, <1>9, <2>0, <2>4
    <2>5. k < v \/ k \in v..v + NewLen - 1 \/ k >= v + NewLen
      BY <1>1, <1>2
    <2>. QED BY <2>1, <2>2, <2>3, <2>4, <2>5
  <1>10. HostStays'
    <2>1. Given[p] \in HostNames
      BY DEF HostPointer
    <2>. QED BY <1>6, <1>9, <2>1 DEF HostStays
  <1>11. Settled(c)
    <2>1. /\ p \in HeaderStarts(Content) /\ ReplacedIn(Content, HeaderAt(Content, p), c)
          /\ Parses(Content)
      BY <1>8 DEF HostPointer
    <2>2. \A k \in 1..Len(c) : c[k] \in HostNames => k = p
      BY <1>4, <1>9
    <2>. QED BY <1>1, <1>4, <2>1, <2>2, ReplacedSettles
  <1>. QED BY <1>5, <1>9, <1>10, <1>11

\* The intended request of one with a single Host header.
LEMMA IntendedIs ==
    ASSUME Shape, OneHost, Content = Given, NEW h, HostPointer(h)
    PROVE  Intended(Given) = Rewritten(Given, h)
  <1>. DEFINE S == HostHeaders(Given)
  <1>1. Given \in Seq(Int) /\ Len(Given) = size /\ size \in Nat
    BY BufferFacts
  <1>2. /\ Parses(Given) /\ h \in S /\ h = HeaderAt(Given, h.name)
        /\ h.name \in 1..size /\ Given[h.name] \in HostNames
    BY DEF HostPointer
  <1>3. ASSUME NEW g \in S PROVE g = h
    <2>1. PICK p \in HeaderStarts(Given) : Given[p] \in HostNames /\ g = HeaderAt(Given, p)
      BY DEF HostHeaders
    <2>2. p \in 1..size
      BY <1>1, HeaderPlaces
    <2>3. p \in DOMAIN Given /\ h.name \in DOMAIN Given
      BY <1>1, <1>2, <2>2, ElementFacts
    <2>4. p = h.name
      BY <1>2, <2>1, <2>3 DEF OneHost
    <2>. QED BY <1>2, <2>1, <2>4
  <1>. HIDE DEF S
  <1>4. S # {} /\ (CHOOSE g \in S : TRUE) = h
    BY <1>2, <1>3
  <1>5. Intended(Given) = IF S = {} THEN Given ELSE Rewritten(Given, CHOOSE g \in S : TRUE)
    BY <1>2 DEF Intended, S
  <1>. QED BY <1>4, <1>5

\* A value of another length is replaced: then it is settled.
LEMMA ReplaceHeaderOneHost ==
    ASSUME RewriteInv, OneHostInv, ReplaceHeader
    PROVE  OneHostInv'
  <1>. DEFINE h == headers[i]
  <1>. SUFFICES ASSUME OneHost' PROVE OneHostInv'
    BY DEF OneHostInv
  <1>0. Shape
    BY ShapeIs
  <1>1. /\ pc = "modify" /\ pc' = pc /\ i <= Len(headers) /\ IsHost(buf, h)
        /\ h.len # NewLen
        /\ buf' = IF h.len > NewLen THEN Shorter(buf, h) ELSE Longer(buf, h)
        /\ headers' = Moved([headers EXCEPT ![i].len = NewLen], i, NewLen - NewLen)
        /\ i' = i + 1 /\ queued' = queued /\ size' = size /\ UNCHANGED stream
    BY DEF ReplaceHeader
  <1>2. Given' = Given /\ late' = late
    BY <1>1, GivenStays
  <1>3. OneHost
    BY <1>2 DEF OneHost
  <1>4. HostStays /\ QueuedSettled /\ GivenOrFull
    BY <1>3 DEF OneHostInv
  <1>5. Unreplaced /\ i \in DOMAIN headers /\ HostPointer(h)
    BY <1>0, <1>1, <1>3, PointerFacts
  <1>6. /\ Parses(Given) /\ buf \in [1..Space -> Int] /\ size \in Nat
        /\ headers \in Seq([name : 1..size, value : 1..size, len : Nat])
        /\ i \in Nat /\ NewLen \in Nat
    <2>1. Parses(Given)
      BY <1>0, <1>1 DEF Shape
    <2>2. headers \in Seq([name : 1..size, value : 1..size, len : Nat])
      BY <1>0 DEF Shape, Accounts
    <2>3. i \in 1..MaxHeaders + 1 /\ buf \in [1..Space -> Int] /\ size \in Nat
      BY <1>0 DEF Shape, TypeOK
    <2>4. i \in Nat /\ NewLen \in Nat
      BY <2>3, RewriteAssumption
    <2>. QED BY <2>1, <2>2, <2>3, <2>4
  <1>7. Shifted(buf, h, buf')
    <2>. HIDE DEF h
    <2>1. Inside(h)
      BY <1>5 DEF HostPointer
    <2>2. CASE h.len > NewLen
      BY <1>0, <1>1, <1>6, <2>1, <2>2, ShorterShifts
    <2>3. CASE ~(h.len > NewLen)
      BY <1>0, <1>1, <1>6, <2>1, <2>3, LongerShifts
    <2>. QED BY <2>2, <2>3
  <1>8. /\ HostStays' /\ Settled(Content')
        /\ \A k \in 1..size : buf'[k] \in HostNames => k = h.name
    <2>. HIDE DEF h
    <2>1. buf' \in [1..Space -> Int]
      BY <1>7 DEF Shifted
    <2>. QED BY <1>0, <1>1, <1>3, <1>4, <1>5, <1>6, <1>7, <2>1, ShiftedFacts
  <1>9. /\ DOMAIN headers' = DOMAIN headers /\ Len(headers') = Len(headers)
        /\ \A k \in DOMAIN headers : headers'[k].name = headers[k].name
    <2>. DEFINE d == NewLen - NewLen
    <2>1. headers' = Moved([headers EXCEPT ![i].len = NewLen], i, d) /\ d = 0
      BY <1>1, <1>6
    <2>. HIDE DEF d
    <2>2. OnlyLength(size, i, headers, Moved([headers EXCEPT ![i].len = NewLen], i, d))
      BY <1>5, <1>6, <2>1, MovedByNone
    <2>3. OnlyLength(size, i, headers, headers')
      BY <2>1, <2>2
    <2>. QED BY <2>3 DEF OnlyLength
  <1>10. Replaced'
    <2>. SUFFICES ASSUME NEW k \in i + 1..Len(headers)
                  PROVE  ~IsHost(buf', headers'[k])
      BY <1>1, <1>8, <1>9 DEF Replaced
    <2>1. k \in DOMAIN headers /\ k # i
      <3>1. Len(headers) \in Nat /\ DOMAIN headers = 1..Len(headers)
        BY <1>6, ElementFacts
      <3>. QED BY <1>6, <3>1
    <2>2. headers[k] \in [name : 1..size, value : 1..size, len : Nat]
      BY <1>6, <2>1, ElementFacts
    <2>3. headers[k].name \in 1..size /\ headers[k].name # h.name
      BY <1>5, <2>1, <2>2 DEF HostPointer
    <2>4. buf'[headers[k].name] \notin HostNames
      BY <1>8, <2>3
    <2>. QED BY <1>9, <2>1, <2>4 DEF IsHost
  <1>11. Len(queued) # size
    <2>1. Settled(Content) => h.len = NewLen
      BY <1>5 DEF HostPointer, Settled
    <2>. QED BY <1>1, <1>4, <2>1 DEF QueuedSettled
  <1>12. QueuedSettled'
    BY <1>1, <1>11 DEF QueuedSettled
  <1>13. GivenOrFull'
    <2>. SUFFICES ASSUME ~late PROVE InFull'
      BY <1>1, <1>2, <1>10 DEF GivenOrFull
    <2>1. ~Replaced
      <3>1. i \in i..Len(headers)
        BY <1>1, <1>6, ElementFacts
      <3>. QED BY <1>1, <3>1 DEF Replaced
    <2>2. Content = Given
      BY <1>4, <1>6, <1>11, <2>1 DEF GivenOrFull
    <2>. HIDE DEF h
    <2>3. Intended(Given) = Rewritten(Given, h)
      BY <1>0, <1>3, <1>5, <2>2, IntendedIs
    <2>4. AllIn(buf, Given) /\ Inside(h)
      BY <1>0, <1>5, <2>2, ContentIs DEF HostPointer
    <2>5. SubSeq(buf', 1, Len(Rewritten(Given, h))) = Rewritten(Given, h)
      BY <1>0, <1>6, <1>7, <2>4, RewrittenIs
    <2>. QED BY <1>2, <2>3, <2>5 DEF InFull
  <1>. QED BY <1>1, <1>8, <1>10, <1>12, <1>13 DEF OneHostInv

\* Writing a new value that is there already changes nothing.
LEMMA WrittenAgain ==
    ASSUME Shape, NEW b \in [1..Space -> Int], NEW v \in 1..size,
           \A k \in 1..NewLen : b[v + k - 1] = New(k)
    PROVE  WithValue(b, v) = b
  <1>1. NewLen \in Nat /\ size \in Nat
    BY RewriteAssumption DEF Shape
  <1>2. v \in Nat
    BY <1>1
  <1>3. ASSUME NEW k \in 1..Space PROVE WithValue(b, v)[k] = b[k]
    <2>1. CASE k \in v..v + NewLen - 1
      <3>1. k - v + 1 \in 1..NewLen /\ v + (k - v + 1) - 1 = k
        BY <1>1, <1>2, <2>1
      <3>2. b[k] = New(k - v + 1)
        BY <3>1
      <3>. QED BY <1>2, <2>1, <3>2, ValueIs
    <2>2. CASE k \notin v..v + NewLen - 1
      BY <1>2, <2>2, ValueIs
    <2>. QED BY <2>1, <2>2
  <1>4. WithValue(b, v) = [k \in 1..Space |-> WithValue(b, v)[k]]
    BY DEF WithValue
  <1>5. WithValue(b, v) = [k \in 1..Space |-> b[k]]
    BY <1>3, <1>4
  <1>. QED BY <1>5

\* What a settled request has at a pointer to its Host header.
LEMMA SettledWritten ==
    ASSUME Shape, buf \in [1..Space -> Int], Settled(Content), NEW h, HostPointer(h)
    PROVE  WithValue(buf, h.value) = buf
  <1>1. /\ Content \in Seq(Int) /\ Len(Content) = size /\ size \in Nat
        /\ \A k \in 1..size : Content[k] = buf[k]
    BY BufferFacts
  <1>. DEFINE v == h.value
  <1>2. /\ h.len = NewLen /\ \A k \in 1..NewLen : Content[v + k - 1] = New(k)
        /\ v \in 1..size /\ v + h.len <= size
    BY DEF Settled, HostPointer, Inside
  <1>3. NewLen \in Nat
    BY RewriteAssumption
  <1>. HIDE DEF v
  <1>4. ASSUME NEW k \in 1..NewLen PROVE buf[v + k - 1] = New(k)
    <2>1. v + k - 1 \in 1..size
      BY <1>1, <1>2, <1>3
    <2>. QED BY <1>1, <1>2, <2>1
  <1>5. WithValue(buf, v) = buf
    BY <1>2, <1>4, WrittenAgain
  <1>. QED BY <1>5 DEF v

\* A value of the same length is replaced: the request is settled and queued.
LEMMA ReplaceSameLengthOneHost ==
    ASSUME RewriteInv, OneHostInv, ReplaceSameLength
    PROVE  OneHostInv'
  <1>. DEFINE h == headers[i]
  <1>. SUFFICES ASSUME OneHost' PROVE OneHostInv'
    BY DEF OneHostInv
  <1>0. Shape
    BY ShapeIs
  <1>1. /\ pc = "modify" /\ i <= Len(headers) /\ IsHost(buf, h) /\ h.len = NewLen
        /\ buf' = WithValue(buf, h.value) /\ Queue(buf', 0)
        /\ size' = size /\ UNCHANGED stream
    BY DEF ReplaceSameLength
  <1>2. Given' = Given /\ late' = late
    BY <1>1, GivenStays
  <1>3. OneHost
    BY <1>2 DEF OneHost
  <1>4. HostStays /\ QueuedSettled /\ GivenOrFull
    BY <1>3 DEF OneHostInv
  <1>5. Unreplaced /\ i \in DOMAIN headers /\ HostPointer(h)
    BY <1>0, <1>1, <1>3, PointerFacts
  <1>6. Parses(Given) /\ buf \in [1..Space -> Int]
    <2>1. Parses(Given)
      BY <1>0, <1>1 DEF Shape
    <2>2. buf \in [1..Space -> Int]
      BY <1>0 DEF Shape, TypeOK
    <2>. QED BY <2>1, <2>2
  <1>7. Shifted(buf, h, buf') /\ Inside(h)
    <2>. HIDE DEF h
    <2>1. Inside(h)
      BY <1>5 DEF HostPointer
    <2>. QED BY <1>0, <1>1, <1>6, <2>1, SameShifts
  <1>8. HostStays' /\ Settled(Content')
    <2>. HIDE DEF h
    <2>1. buf' \in [1..Space -> Int]
      BY <1>7 DEF Shifted
    <2>. QED BY <1>0, <1>1, <1>3, <1>4, <1>5, <1>6, <1>7, <2>1, ShiftedFacts
  <1>9. queued' = Content' /\ pc' = "queued"
    <2>1. queued' = SubSeq(buf', 1, size) /\ pc' = "queued"
      BY <1>0, <1>1, QueuedIs
    <2>. QED BY <1>1, <2>1 DEF Content
  <1>10. Len(queued') = size'
    <2>1. RewriteInv'
      BY ReplaceSameLengthKeeps
    <2>. QED BY <1>9, <2>1 DEF RewriteInv, Accounts
  <1>11. QueuedSettled'
    BY <1>8, <1>9 DEF QueuedSettled
  <1>12. ASSUME ~late PROVE InFull'
    <2>1. ~Replaced
      <3>1. i \in i..Len(headers)
        BY <1>1, <1>5, ElementFacts
      <3>. QED BY <1>1, <3>1 DEF Replaced
    <2>2. (InFull /\ Len(queued) = size) \/ Content = Given
      BY <1>1, <1>4, <1>6, <1>12, <2>1 DEF GivenOrFull
    <2>. HIDE DEF h
    <2>3. CASE InFull /\ Len(queued) = size
      <3>1. Settled(Content)
        BY <1>4, <2>3 DEF QueuedSettled
      <3>2. buf' = buf
        BY <1>0, <1>1, <1>5, <1>6, <3>1, SettledWritten
      <3>. QED BY <1>2, <2>3, <3>2 DEF InFull
    <2>4. CASE Content = Given
      <3>1. Intended(Given) = Rewritten(Given, h)
        BY <1>0, <1>3, <1>5, <2>4, IntendedIs
      <3>2. AllIn(buf, Given)
        BY <1>0, <2>4, ContentIs
      <3>3. SubSeq(buf', 1, Len(Rewritten(Given, h))) = Rewritten(Given, h)
        BY <1>0, <1>6, <1>7, <3>2, RewrittenIs
      <3>. QED BY <1>2, <3>1, <3>3 DEF InFull
    <2>. QED BY <2>2, <2>3, <2>4
  <1>13. GivenOrFull'
    BY <1>2, <1>10, <1>12 DEF GivenOrFull
  <1>. QED BY <1>8, <1>9, <1>11, <1>13 DEF OneHostInv

\* A request none of whose pointers leads to a Host name has no Host header.
LEMMA NoHostLeft ==
    ASSUME Shape, Unreplaced, \A k \in DOMAIN headers : ~IsHost(buf, headers[k])
    PROVE  HostHeaders(Content) = {}
  <1>1. /\ Content \in Seq(Int) /\ Len(Content) = size /\ size \in Nat
        /\ \A k \in 1..size : Content[k] = buf[k]
    BY BufferFacts
  <1>2. HeadersAre(Content, headers)
    BY <1>1, HeadersFacts DEF Unreplaced
  <1>3. ASSUME NEW p \in HeaderStarts(Content) PROVE Content[p] \notin HostNames
    <2>1. PICK k \in DOMAIN headers : headers[k].name = p
      BY <1>2 DEF HeadersAre
    <2>2. buf[p] \notin HostNames
      BY <2>1 DEF IsHost
    <2>3. p \in 1..size
      <3>1. p \in 2..Len(Content)
        BY <1>1, HeaderPlaces
      <3>. QED BY <1>1, <3>1
    <2>. QED BY <1>1, <2>2, <2>3
  <1>. QED BY <1>3 DEF HostHeaders

\* The loop ends with the request settled, and with it or no Host header in it.
LEMMA DoneOneHost ==
    ASSUME RewriteInv, OneHostInv, Done
    PROVE  OneHostInv'
  <1>. SUFFICES ASSUME OneHost' PROVE OneHostInv'
    BY DEF OneHostInv
  <1>0. Shape
    BY ShapeIs
  <1>1. /\ pc = "modify" /\ i > Len(headers) /\ Queue(buf, diffrence) /\ diffrence = 0
        /\ buf' = buf /\ size' = size /\ UNCHANGED stream
    BY <1>0 DEF Done, Shape, Accounts
  <1>2. /\ Content' = Content /\ Given' = Given /\ (InFull' <=> InFull)
        /\ OneHost /\ (HostStays' <=> HostStays) /\ late' = late
    BY <1>1, BufferStays
  <1>3. HostStays /\ GivenOrFull /\ (Unreplaced \/ Replaced)
    BY <1>1, <1>2 DEF OneHostInv
  <1>4. queued' = Content /\ pc' = "queued"
    BY <1>0, <1>1, QueuedIs DEF Content
  <1>5. /\ Len(Content) = size /\ Given \in Seq(Int) /\ Len(Given) = size
        /\ buf \in [1..Space -> Int] /\ (Content = Given <=> AllIn(buf, Given))
    BY <1>0, BufferFacts
  <1>6. Unreplaced => HostHeaders(Content) = {}
    <2>. SUFFICES ASSUME Unreplaced, NEW k \in DOMAIN headers PROVE ~IsHost(buf, headers[k])
      BY <1>0, NoHostLeft
    <2>1. headers \in Seq([name : 1..size, value : 1..size, len : Nat])
      BY <1>0 DEF Shape, Accounts
    <2>2. i \in 1..MaxHeaders + 1
      BY <1>0 DEF Shape, TypeOK
    <2>3. i \in Nat /\ Len(headers) \in Nat /\ k \in 1..Len(headers)
      BY <2>1, <2>2, ElementFacts, RewriteAssumption
    <2>4. k \in 1..i - 1
      BY <1>1, <2>3
    <2>. QED BY <2>4 DEF Unreplaced
  <1>7. Settled(Content)
    <2>1. Unreplaced => Settled(Content)
      BY <1>6 DEF Settled
    <2>. QED BY <1>3, <2>1 DEF Replaced
  <1>8. QueuedSettled'
    BY <1>2, <1>4, <1>7 DEF QueuedSettled
  <1>9. GivenOrFull'
    <2>. SUFFICES ASSUME Parses(Given), ~late PROVE InFull
      BY <1>1, <1>2, <1>4, <1>5 DEF GivenOrFull
    <2>1. InFull \/ (Content = Given /\ Unreplaced)
      BY <1>1, <1>3 DEF GivenOrFull
    <2>2. ASSUME Content = Given, Unreplaced PROVE InFull
      <3>1. Intended(Given) = Given
        BY <1>6, <2>2 DEF Intended
      <3>2. SubSeq(buf, 1, Len(Given)) = Given
        BY <1>5, <2>2 DEF Content
      <3>. QED BY <3>1, <3>2 DEF InFull
    <2>. QED BY <2>1, <2>2
  <1>. QED BY <1>2, <1>3, <1>4, <1>8, <1>9 DEF OneHostInv

LEMMA NextOneHost == RewriteInv /\ OneHostInv /\ [Next]_vars => OneHostInv'
  <1>. SUFFICES ASSUME RewriteInv, OneHostInv, [Next]_vars PROVE OneHostInv'
    OBVIOUS
  <1>1. ASSUME NEW n \in 0..Len(rest), CalledAgain(n) \/ CalledAfresh(n)
        PROVE  OneHostInv'
    BY <1>1, CalledAgainOneHost, CalledAfreshOneHost
  <1>2. CASE ParseRequest
    BY <1>2, ParseRequestOneHost
  <1>3. CASE ForwardAsIs
    BY <1>3, ForwardAsIsOneHost
  <1>4. CASE SkipHeader
    BY <1>4, SkipHeaderOneHost
  <1>5. CASE ReplaceHeader
    BY <1>5, ReplaceHeaderOneHost
  <1>6. CASE ReplaceSameLength
    BY <1>6, ReplaceSameLengthOneHost
  <1>7. CASE Done
    BY <1>7, DoneOneHost
  <1>8. CASE UNCHANGED vars
    <2>1. /\ buf' = buf /\ size' = size /\ headers' = headers /\ i' = i /\ pc' = pc
          /\ queued' = queued /\ UNCHANGED stream
      BY <1>8 DEF vars, stream
    <2>2. /\ Content' = Content /\ Given' = Given /\ (InFull' <=> InFull)
          /\ (OneHost' <=> OneHost) /\ (HostStays' <=> HostStays) /\ late' = late
      BY <2>1, BufferStays
    <2>3. /\ (Unreplaced' <=> Unreplaced) /\ (Replaced' <=> Replaced)
          /\ (QueuedSettled' <=> QueuedSettled)
      BY <2>1, <2>2 DEF Unreplaced, Replaced, QueuedSettled
    <2>4. GivenOrFull' <=> GivenOrFull
      BY <2>1, <2>2, <2>3 DEF GivenOrFull
    <2>. QED BY <2>1, <2>2, <2>3, <2>4 DEF OneHostInv
  <1>. QED BY <1>1, <1>2, <1>3, <1>4, <1>5, <1>6, <1>7, <1>8 DEF Next

\* A whole call leaves the intended request.
LEMMA RewrittenAsIntended == RewriteInv /\ OneHostInv => RewrittenInFull
  <1>. SUFFICES ASSUME RewriteInv, OneHostInv, pc = "queued", OneHost, ~late
                PROVE  InFull
    BY DEF RewrittenInFull
  <1>1. Shape
    BY ShapeIs
  <1>2. Len(Given) = size
    BY <1>1, BufferFacts
  <1>3. CASE Parses(Given)
    BY <1>3 DEF OneHostInv, GivenOrFull
  <1>4. CASE ~Parses(Given)
    <2>1. Intended(Given) = Given
      BY <1>4 DEF Intended
    <2>2. SubSeq(buf, 1, size) = Given
      BY <1>4 DEF RewriteInv, Content
    <2>. QED BY <1>2, <2>1, <2>2 DEF InFull
  <1>. QED BY <1>3, <1>4

\* What is intended is no longer than what was given and the new value.
LEMMA IntendedFacts ==
    ASSUME NEW q \in Seq(Int)
    PROVE  /\ Intended(q) \in Seq(Int) /\ Len(Intended(q)) \in Nat
           /\ Len(Intended(q)) <= Len(q) + NewLen
  <1>. DEFINE S == IF Parses(q) THEN HostHeaders(q) ELSE {}
  <1>1. Intended(q) = IF S = {} THEN q ELSE Rewritten(q, CHOOSE h \in S : TRUE)
    BY DEF Intended
  <1>2. CASE S = {}
    BY <1>1, <1>2, RewriteAssumption
  <1>3. CASE S # {}
    <2>. DEFINE h == CHOOSE g \in S : TRUE
                v == h.value
                l == h.len
                x == SubSeq(q, 1, v - 1)
                y == [k \in 1..NewLen |-> New(k)]
                z == SubSeq(q, v + l, Len(q))
    <2>1. h \in S
      BY <1>3
    <2>2. PICK p \in HeaderStarts(q) : Parses(q) /\ h = HeaderAt(q, p)
      BY <2>1 DEF HostHeaders
    <2>. DEFINE e == EndOfLine(q, p)
    <2>3. /\ e \in p + 1..Len(q) - 1 /\ v \in p + 1..e
          /\ l \in Nat /\ v + l <= e /\ p \in 2..Len(q)
      <3>1. LineAt(q, p, HeaderAt(q, p), e)
        BY <2>2, HeaderFacts
      <3>2. LineAt(q, p, h, e)
        BY <2>2, <3>1, Zenon
      <3>. QED BY <3>2, HeaderPlaces DEF LineAt
    <2>4. Intended(q) = (x \o y) \o z
      BY <1>1, <1>3 DEF Rewritten
    <2>. HIDE DEF h, v, l, e
    <2>5. v - 1 \in 0..Len(q) /\ v + l \in 1..Len(q) /\ NewLen \in Nat
      BY <2>3, RewriteAssumption
    <2>6. x \in Seq(Int) /\ Len(x) = v - 1
      BY <2>5, PrefixFacts
    <2>7. y \in Seq(Int) /\ Len(y) = NewLen
      BY <2>5 DEF New
    <2>8. z \in Seq(Int) /\ Len(z) = Len(q) - (v + l) + 1
      BY <2>5
    <2>. HIDE DEF x, y, z
    <2>9. x \o y \in Seq(Int) /\ Len(x \o y) = v - 1 + NewLen
      <3>1. x \o y \in Seq(Int) /\ Len(x \o y) = Len(x) + Len(y)
        BY <2>6, <2>7, AppendFacts
      <3>. QED BY <2>6, <2>7, <3>1
    <2>10. Intended(q) \in Seq(Int)
           /\ Len(Intended(q)) = v - 1 + NewLen + (Len(q) - (v + l) + 1)
      <3>1. (x \o y) \o z \in Seq(Int) /\ Len((x \o y) \o z) = Len(x \o y) + Len(z)
        BY <2>8, <2>9, AppendFacts
      <3>. QED BY <2>4, <2>8, <2>9, <3>1
    <2>11. v \in Nat /\ l \in Nat /\ Len(q) \in Nat
      BY <2>3
    <2>. QED BY <2>5, <2>10, <2>11
  <1>. QED BY <1>2, <1>3

\* A prefix of a prefix.
LEMMA PrefixOfPrefix ==
    ASSUME NEW N \in Nat, NEW b \in [1..N -> Int], NEW m \in 0..N, NEW n \in 0..m
    PROVE  SubSeq(SubSeq(b, 1, m), 1, n) = SubSeq(b, 1, n)
  <1>. DEFINE s == SubSeq(b, 1, m)
  <1>1. /\ s \in Seq(Int) /\ Len(s) = m /\ \A k \in 1..m : s[k] = b[k]
        /\ n \in 0..N
    BY PrefixFacts
  <1>2. SubSeq(b, 1, n) \in Seq(Int) /\ Len(SubSeq(b, 1, n)) = n
        /\ \A k \in 1..n : SubSeq(b, 1, n)[k] = b[k]
    BY <1>1, PrefixFacts
  <1>. HIDE DEF s
  <1>3. s \in [1..m -> Int] /\ m \in Nat
    BY <1>1
  <1>4. SubSeq(s, 1, n) \in Seq(Int) /\ Len(SubSeq(s, 1, n)) = n
        /\ \A k \in 1..n : SubSeq(s, 1, n)[k] = s[k]
    BY <1>3, PrefixFacts
  <1>5. \A k \in 1..n : SubSeq(s, 1, n)[k] = SubSeq(b, 1, n)[k]
    BY <1>1, <1>2, <1>4
  <1>6. SubSeq(s, 1, n) = SubSeq(b, 1, n)
    BY <1>2, <1>4, <1>5, SameSeq
  <1>. QED BY <1>6 DEF s

\* The backend gets the first bytes of it, as many as were given.
LEMMA QueuedAtOldLength == RewriteInv /\ OneHostInv => ForwardedAtOldLength
  <1>. SUFFICES ASSUME RewriteInv, OneHostInv, pc = "queued", OneHost, ~late
                PROVE  /\ Len(queued) = Len(Given)
                       /\ IF Len(Intended(Given)) < Len(Given)
                          THEN SubSeq(queued, 1, Len(Intended(Given))) = Intended(Given)
                          ELSE queued = SubSeq(Intended(Given), 1, Len(Given))
    BY DEF ForwardedAtOldLength
  <1>. DEFINE q == Intended(Given)
              n == Len(q)
  <1>1. Shape
    BY ShapeIs
  <1>2. /\ Space \in Nat /\ size \in Nat /\ size + NewLen <= Space /\ NewLen \in Nat
        /\ buf \in [1..Space -> Int] /\ Given \in Seq(Int) /\ Len(Given) = size
    BY <1>1, BufferFacts
  <1>3. Len(queued) = size
    BY DEF RewriteInv, Accounts
  <1>4. queued = SubSeq(buf, 1, size)
    BY <1>3 DEF OneHostInv, QueuedSettled, Content
  <1>5. SubSeq(buf, 1, n) = q
    BY RewrittenAsIntended DEF RewrittenInFull, InFull
  <1>6. n \in Nat /\ n <= size + NewLen
    BY <1>2, IntendedFacts
  <1>. HIDE DEF q, n
  <1>7. size \in 0..Space /\ n \in 0..Space
    BY <1>2, <1>6
  <1>8. CASE n < size
    <2>1. n \in 0..size
      BY <1>2, <1>6, <1>8
    <2>2. SubSeq(queued, 1, n) = q
      BY <1>2, <1>4, <1>5, <1>7, <2>1, PrefixOfPrefix
    <2>. QED BY <1>2, <1>3, <1>8, <2>2 DEF q, n
  <1>9. CASE ~(n < size)
    <2>1. size \in 0..n
      BY <1>2, <1>6, <1>9
    <2>2. SubSeq(q, 1, size) = queued
      BY <1>2, <1>4, <1>5, <1>7, <2>1, PrefixOfPrefix
    <2>. QED BY <1>2, <1>3, <1>9, <2>2 DEF q, n
  <1>. QED BY <1>8, <1>9

\* A step that ends a call queues what was queued before, if nothing has arrived.
LEMMA QueuedAgain ==
    ASSUME RewriteInv, OneHostInv, Next, pc' = "queued", Len(queued) = size, OneHost
    PROVE  queued' = queued
  <1>0. Shape
    BY ShapeIs
  <1>1. queued = Content /\ Settled(Content)
    BY DEF OneHostInv, QueuedSettled
  <1>2. ASSUME NEW n \in 0..Len(rest), CalledAgain(n) \/ CalledAfresh(n) PROVE FALSE
    BY <1>2 DEF CalledAgain, CalledAfresh, Called
  <1>3. CASE ParseRequest \/ SkipHeader \/ ReplaceHeader
    BY <1>3 DEF ParseRequest, SkipHeader, ReplaceHeader
  <1>4. CASE ForwardAsIs
    <2>1. Queue(buf, 0)
      BY <1>4 DEF ForwardAsIs
    <2>. QED BY <1>0, <1>1, <2>1, QueuedIs DEF Content
  <1>5. CASE ReplaceSameLength
    <2>. DEFINE h == headers[i]
    <2>1. /\ pc = "modify" /\ i <= Len(headers) /\ IsHost(buf, h)
          /\ buf' = WithValue(buf, h.value) /\ Queue(buf', 0)
      BY <1>5 DEF ReplaceSameLength
    <2>2. HostPointer(h)
      BY <1>0, <2>1, PointerFacts
    <2>3. buf \in [1..Space -> Int]
      BY <1>0 DEF Shape, TypeOK
    <2>. HIDE DEF h
    <2>4. buf' = buf
      BY <1>0, <1>1, <2>1, <2>2, <2>3, SettledWritten
    <2>5. queued' = SubSeq(buf', 1, size)
      BY <1>0, <2>1, QueuedIs
    <2>. QED BY <1>1, <2>4, <2>5 DEF Content
  <1>6. CASE Done
    <2>1. Queue(buf, diffrence) /\ diffrence = 0
      BY <1>0, <1>6 DEF Done, Shape, Accounts
    <2>. QED BY <1>0, <1>1, <2>1, QueuedIs DEF Content
  <1>. QED BY <1>2, <1>3, <1>4, <1>5, <1>6 DEF Next

-----------------------------------------------------------------------------
(* A request whose Host values alone were written to. *)

\* A line has one header only.
LEMMA LineIsOne ==
    ASSUME NEW q \in Seq(Int), NEW p \in 1..Len(q), q[p] # Forwarded,
           NEW h, NEW e, LineAt(q, p, h, e),
           NEW g, NEW f, LineAt(q, p, g, f)
    PROVE  g = h
  <1>. DEFINE v == h.value
              l == h.len
              w == g.value
              m == g.len
  <1>1. /\ e \in p + 1..Len(q) - 1 /\ q[e] = Crlf /\ \A k \in p..e - 1 : q[k] # Crlf
        /\ v \in p + 1..e /\ \A k \in p + 1..v - 1 : q[k] = Blank
        /\ v < e => q[v] # Blank
        /\ l \in Nat /\ v + l <= e /\ (l > 0 => q[v + l - 1] # Blank)
        /\ \A k \in v + l..e - 1 : q[k] = Blank
        /\ h = [name |-> p, value |-> v, len |-> l]
    BY DEF LineAt
  <1>2. /\ f \in p + 1..Len(q) - 1 /\ q[f] = Crlf /\ \A k \in p..f - 1 : q[k] # Crlf
        /\ w \in p + 1..f /\ \A k \in p + 1..w - 1 : q[k] = Blank
        /\ w < f => q[w] # Blank
        /\ m \in Nat /\ w + m <= f /\ (m > 0 => q[w + m - 1] # Blank)
        /\ \A k \in w + m..f - 1 : q[k] = Blank
        /\ g = [name |-> p, value |-> w, len |-> m]
    BY DEF LineAt
  <1>. HIDE DEF v, l, w, m
  <1>3. /\ p \in Int /\ e \in Int /\ f \in Int /\ v \in Int /\ w \in Int
        /\ p < e /\ p < f /\ p < v /\ p < w /\ v <= e /\ w <= f
    BY <1>1, <1>2
  <1>4. e = f
    <2>1. ~(e < f)
      <3>. SUFFICES ASSUME e < f PROVE FALSE
        OBVIOUS
      <3>1. e \in p..f - 1
        BY <1>3
      <3>. QED BY <1>1, <1>2, <3>1
    <2>2. ~(f < e)
      <3>. SUFFICES ASSUME f < e PROVE FALSE
        OBVIOUS
      <3>1. f \in p..e - 1
        BY <1>3
      <3>. QED BY <1>1, <1>2, <3>1
    <2>. QED BY <1>3, <2>1, <2>2
  <1>5. v = w
    <2>1. ~(v < w)
      <3>. SUFFICES ASSUME v < w PROVE FALSE
        OBVIOUS
      <3>1. v \in p + 1..w - 1 /\ v < e
        BY <1>3, <1>4
      <3>. QED BY <1>1, <1>2, <3>1
    <2>2. ~(w < v)
      <3>. SUFFICES ASSUME w < v PROVE FALSE
        OBVIOUS
      <3>1. w \in p + 1..v - 1 /\ w < f
        BY <1>3, <1>4
      <3>. QED BY <1>1, <1>2, <3>1
    <2>. QED BY <1>3, <2>1, <2>2
  <1>6. l = m
    <2>1. ~(l < m)
      <3>. SUFFICES ASSUME l < m PROVE FALSE
        OBVIOUS
      <3>1. w + m - 1 \in v + l..e - 1 /\ m > 0
        BY <1>1, <1>2, <1>3, <1>4, <1>5
      <3>. QED BY <1>1, <1>2, <3>1
    <2>2. ~(m < l)
      <3>. SUFFICES ASSUME m < l PROVE FALSE
        OBVIOUS
      <3>1. v + l - 1 \in w + m..f - 1 /\ l > 0
        BY <1>1, <1>2, <1>3, <1>4, <1>5
      <3>. QED BY <1>1, <1>2, <3>1
    <2>. QED BY <1>1, <1>2, <2>1, <2>2
  <1>. QED BY <1>1, <1>2, <1>5, <1>6

\* A position in a Host value of q.
InValue(q, k) == \E h \in HostHeaders(q) : k \in h.value..h.value + h.len - 1

\* r is q but for the Host values, which hold something else, or nothing new.
HostsDiffer(q, r) ==
    /\ Len(r) = Len(q)
    /\ \A k \in 1..Len(q) : r[k] = q[k] \/ (r[k] < 0 /\ InValue(q, k))

\* The line of a header, up to its end, and the places where its value may be.
HostLine(q, x, h, e, k) ==
    /\ x \in HeaderStarts(q) /\ q[x] \in HostNames /\ h = HeaderAt(q, x)
    /\ LineAt(q, x, h, e)
    /\ e \in Int /\ x < k /\ k < e /\ k \in h.value..h.value + h.len - 1

LEMMA HostLineOf ==
    ASSUME NEW q \in Seq(Int), Parses(q), NEW k \in Int, InValue(q, k)
    PROVE  \E x, h, e : HostLine(q, x, h, e, k)
  <1>1. PICK h \in HostHeaders(q) : k \in h.value..h.value + h.len - 1
    BY DEF InValue
  <1>2. PICK x \in HeaderStarts(q) : q[x] \in HostNames /\ h = HeaderAt(q, x)
    BY DEF HostHeaders
  <1>. DEFINE e == EndOfLine(q, x)
              v == h.value
              l == h.len
  <1>3. LineAt(q, x, h, e)
    BY <1>2, HeaderFacts
  <1>4. x \in 2..Len(q)
    BY HeaderPlaces
  <1>5. e \in x + 1..Len(q) - 1 /\ v \in x + 1..e /\ l \in Nat /\ v + l <= e
        /\ k \in v..v + l - 1
    BY <1>1, <1>3 DEF LineAt
  <1>6. e \in Int /\ x < k /\ k < e
    <2>. HIDE DEF e, v, l
    <2>. QED BY <1>4, <1>5
  <1>. HIDE DEF e
  <1>. QED BY <1>1, <1>2, <1>3, <1>6 DEF HostLine

\* No line begins in a value, and no line ends there.
LEMMA NoStartInside ==
    ASSUME NEW q \in Seq(Int), Parses(q), NEW x, NEW h, NEW e, NEW k \in Int,
           HostLine(q, x, h, e, k)
    PROVE  /\ x \in 2..Len(q) /\ k \in 1..Len(q) /\ q[k] # Crlf
           /\ \A y \in LineStarts(q) : y <= x \/ y > k
           /\ k > First(q)
  <1>1. /\ x \in LineStarts(q) /\ x \in 2..Len(q) /\ x \in First(q) + 1..Len(q)
        /\ First(q) \in 1..2 /\ Len(q) \in Nat
    BY LineFacts, HeaderPlaces DEF HostLine
  <1>2. /\ e \in x + 1..Len(q) - 1 /\ \A j \in x..e - 1 : q[j] # Crlf
        /\ e \in Int /\ x < k /\ k < e
    BY DEF HostLine, LineAt
  <1>. DEFINE f == First(q)
              n == Len(q)
  <1>. HIDE DEF f
  <1>3. k \in x..e - 1 /\ k \in 1..Len(q) /\ k > f /\ f \in Int
    <2>1. f \in 1..2 /\ x \in f + 1..n /\ n \in Nat /\ e \in x + 1..n - 1
      BY <1>1, <1>2 DEF f
    <2>. HIDE DEF n
    <2>2. k \in x..e - 1 /\ k \in 1..n /\ k > f /\ f \in Int
      BY <1>2, <2>1
    <2>. QED BY <2>2 DEF n
  <1>4. ASSUME NEW y \in LineStarts(q), ~(y <= x), ~(y > k) PROVE FALSE
    <2>1. y \in f + 1..n /\ (y = f + 1 \/ q[y - 1] = Crlf)
      BY DEF LineStarts, f
    <2>2. x >= f + 1 /\ x \in Int /\ n \in Int
      BY <1>1 DEF f
    <2>. HIDE DEF n
    <2>3. y \in Int
      BY <1>3, <2>1, <2>2
    <2>4. y # f + 1 /\ y - 1 \in x..e - 1
      BY <1>2, <1>3, <1>4, <2>2, <2>3
    <2>. QED BY <1>2, <2>1, <2>4
  <1>. QED BY <1>1, <1>2, <1>3, <1>4 DEF f

\* It has the same lines, with the same names.
SameLines(q, r) ==
    /\ \A k \in 1..Len(q) : r[k] = Crlf <=> q[k] = Crlf
    /\ HeadEnd(r) = HeadEnd(q) /\ HeaderStarts(r) = HeaderStarts(q)
    /\ \A p \in HeaderStarts(q) : r[p] = q[p]

LEMMA HostsDifferLines ==
    ASSUME NEW q \in Seq(Int), Parses(q), NEW r \in Seq(Int), HostsDiffer(q, r)
    PROVE  SameLines(q, r)
  <1>1. /\ Len(r) = Len(q) /\ Len(q) \in Nat
        /\ \A k \in 1..Len(q) : r[k] = q[k] \/ (r[k] < 0 /\ InValue(q, k))
    BY DEF HostsDiffer
  <1>2. /\ First(q) \in 1..2 /\ LineStarts(q) \subseteq First(q) + 1..Len(q)
        /\ HeaderStarts(q) \subseteq LineStarts(q) /\ HeaderStarts(q) \subseteq 2..Len(q)
    BY LineFacts, HeaderPlaces
  <1>3. ASSUME NEW k \in 1..Len(q), r[k] # q[k]
        PROVE  /\ q[k] # Crlf /\ r[k] # Crlf /\ k \notin LineStarts(q) /\ k > First(q)
    <2>1. r[k] < 0 /\ InValue(q, k) /\ k \in Int
      BY <1>1, <1>3
    <2>2. PICK x, h, e : HostLine(q, x, h, e, k)
      BY <2>1, HostLineOf
    <2>3. /\ q[k] # Crlf /\ k > First(q)
          /\ \A y \in LineStarts(q) : y <= x \/ y > k
      BY <2>1, <2>2, NoStartInside
    <2>4. x < k /\ x \in Int
      <3>1. x \in 2..Len(q)
        BY <2>1, <2>2, NoStartInside
      <3>2. x \in Int
        BY <1>1, <3>1
      <3>. QED BY <2>2, <3>2 DEF HostLine
    <2>5. k \notin LineStarts(q)
      <3>. SUFFICES ASSUME k \in LineStarts(q) PROVE FALSE
        OBVIOUS
      <3>1. k <= x \/ k > k
        BY <2>3
      <3>. QED BY <2>1, <2>4, <3>1
    <2>6. r[k] # Crlf
      BY <2>1 DEF Crlf
    <2>. QED BY <2>3, <2>5, <2>6
  <1>4. \A k \in 1..Len(q) : r[k] = Crlf <=> q[k] = Crlf
    BY <1>3
  <1>5. First(r) = First(q)
    <2>1. Len(q) > 0 => (r[1] = Crlf <=> q[1] = Crlf)
      BY <1>1, <1>4
    <2>. QED BY <1>1, <2>1 DEF First
  <1>6. LineStarts(r) = LineStarts(q)
    <2>. DEFINE f == First(q)
                n == Len(q)
    <2>1. LineStarts(q) = {p \in f + 1..n : p = f + 1 \/ q[p - 1] = Crlf}
          /\ LineStarts(r) = {p \in f + 1..n : p = f + 1 \/ r[p - 1] = Crlf}
      BY <1>1, <1>5 DEF LineStarts
    <2>2. f \in 1..2 /\ n \in Nat
      BY <1>1, <1>2
    <2>3. ASSUME NEW p \in f + 1..n PROVE r[p - 1] = Crlf <=> q[p - 1] = Crlf
      <3>. HIDE DEF f, n
      <3>1. p - 1 \in 1..n
        BY <2>2
      <3>. QED BY <1>4, <3>1 DEF n
    <2>. HIDE DEF f, n
    <2>. QED BY <2>1, <2>3
  <1>7. EmptyLines(r) = EmptyLines(q)
    <2>1. ASSUME NEW p \in LineStarts(q) PROVE r[p] = Crlf <=> q[p] = Crlf
      <3>1. p \in 1..Len(q)
        BY <1>1, <1>2
      <3>. QED BY <1>4, <3>1
    <2>. QED BY <1>6, <2>1 DEF EmptyLines
  <1>8. HeadEnd(r) = HeadEnd(q) /\ HeaderStarts(r) = HeaderStarts(q)
    BY <1>6, <1>7 DEF HeadEnd, HeaderStarts
  <1>9. ASSUME NEW p \in HeaderStarts(q) PROVE r[p] = q[p]
    <2>1. p \in LineStarts(q) /\ p \in 1..Len(q)
      BY <1>1, <1>2
    <2>. QED BY <1>3, <2>1
  <1>. QED BY <1>4, <1>8, <1>9 DEF SameLines

\* Two Host lines that share a place are the same.
LEMMA HostLinesApart ==
    ASSUME NEW q \in Seq(Int), Parses(q), NEW x, NEW h, NEW e, NEW k \in Int,
           HostLine(q, x, h, e, k), NEW p \in HeaderStarts(q), NEW end \in Int,
           \A j \in p..end - 1 : q[j] # Crlf, p < k, k < end
    PROVE  p = x
  <1>1. /\ First(q) \in 1..2 /\ Len(q) \in Nat
        /\ p \in LineStarts(q) /\ p \in First(q) + 1..Len(q)
        /\ x \in LineStarts(q) /\ x \in First(q) + 1..Len(q)
        /\ q[x - 1] = Crlf \/ x = First(q) + 1
    BY LineFacts DEF LineStarts, HostLine
  <1>2. \A y \in LineStarts(q) : y <= x \/ y > k
    BY NoStartInside
  <1>3. x < k
    BY DEF HostLine
  <1>. DEFINE f == First(q)
              n == Len(q)
  <1>4. f \in 1..2 /\ n \in Nat /\ p \in f + 1..n /\ x \in f + 1..n
        /\ (q[x - 1] = Crlf \/ x = f + 1)
    BY <1>1
  <1>. HIDE DEF f, n
  <1>5. p \in Int /\ x \in Int /\ p >= f + 1 /\ f \in Int
    BY <1>4
  <1>6. p <= x
    <2>1. p <= x \/ p > k
      BY <1>1, <1>2
    <2>. QED BY <1>5, <2>1
  <1>7. ~(p < x)
    <2>. SUFFICES ASSUME p < x PROVE FALSE
      OBVIOUS
    <2>1. x - 1 \in p..end - 1 /\ x # f + 1
      BY <1>3, <1>5
    <2>. QED BY <1>4, <2>1
  <1>. QED BY <1>5, <1>6, <1>7

\* So the parser finds the same Host headers.
LEMMA HostsFound ==
    ASSUME NEW q \in Seq(Int), Parses(q), NEW r \in Seq(Int), Parses(r), HostsDiffer(q, r),
           NEW p \in HeaderStarts(r), r[p] \in HostNames
    PROVE  HeaderAt(r, p) \in HostHeaders(q)
  <1>1. /\ Len(r) = Len(q) /\ Len(q) \in Nat
        /\ \A k \in 1..Len(q) : r[k] = q[k] \/ (r[k] < 0 /\ InValue(q, k))
    BY DEF HostsDiffer
  <1>2. SameLines(q, r)
    BY HostsDifferLines
  <1>3. p \in HeaderStarts(q) /\ q[p] \in HostNames /\ r[p] = q[p]
        /\ HeadEnd(r) = HeadEnd(q)
        /\ \A k \in 1..Len(q) : r[k] = Crlf <=> q[k] = Crlf
    BY <1>2 DEF SameLines
  <1>. DEFINE h == HeaderAt(q, p)
              e == EndOfLine(q, p)
              v == h.value
              l == h.len
              n == Len(q)
  <1>4. LineAt(q, p, h, e) /\ p \in 2..Len(q)
    BY <1>3, HeaderFacts, HeaderPlaces
  <1>5. /\ e \in p + 1..n - 1 /\ e < HeadEnd(q)
        /\ q[e] = Crlf
        /\ \A k \in p..e - 1 : q[k] # Crlf
        /\ h.name = p /\ v \in p + 1..e
        /\ \A k \in p + 1..v - 1 : q[k] = Blank
        /\ v < e => q[v] # Blank
        /\ l \in Nat /\ v + l <= e
        /\ l > 0 => q[v + l - 1] # Blank
        /\ \A k \in v + l..e - 1 : q[k] = Blank
        /\ h = [name |-> p, value |-> v, len |-> l]
    BY <1>3, <1>4, HostIsOne DEF LineAt
  <1>6. p \in 2..n /\ n \in Nat
    BY <1>1, <1>4
  <1>. HIDE DEF h, e, v, l
  <1>7. ASSUME NEW k \in p + 1..e - 1, r[k] # q[k]
        PROVE  k \in v..v + l - 1 /\ r[k] < 0
    <2>0. k \in 1..Len(q) /\ k \in Int /\ p < k /\ k < e /\ e \in Int
      <3>. HIDE DEF n
      <3>1. k \in 1..n /\ k \in Int /\ p < k /\ k < e /\ e \in Int
        BY <1>5, <1>6
      <3>. QED BY <3>1 DEF n
    <2>1. r[k] < 0 /\ InValue(q, k)
      BY <1>1, <1>7, <2>0
    <2>2. PICK x, g, f : HostLine(q, x, g, f, k)
      BY <2>0, <2>1, HostLineOf
    <2>3. p = x
      <3>1. \A j \in p..e - 1 : q[j] # Crlf
        BY <1>5
      <3>2. p \in HeaderStarts(q)
        BY <1>3
      <3>. QED BY <2>0, <2>2, <3>1, <3>2, HostLinesApart
    <2>4. g = h
      BY <2>2, <2>3 DEF HostLine, h
    <2>. QED BY <2>1, <2>2, <2>4 DEF HostLine, v, l
  <1>8. e \in Int /\ v \in Int /\ p \in Int /\ l \in Int /\ 1 <= p /\ e <= n - 1
        /\ p < v /\ v <= e /\ p < e
    <2>. HIDE DEF n
    <2>. QED BY <1>5, <1>6
  <1>9. LineAt(r, p, h, e)
    <2>. HIDE DEF n
    <2>1. r[e] = Crlf
      <3>1. e \in 1..n
        BY <1>6, <1>8
      <3>. QED BY <1>3, <1>5, <3>1 DEF n
    <2>2. ASSUME NEW k \in p..e - 1 PROVE r[k] # Crlf
      <3>1. k \in 1..n
        BY <1>6, <1>8
      <3>. QED BY <1>3, <1>5, <3>1 DEF n
    <2>3. ASSUME NEW k \in p + 1..v - 1 PROVE r[k] = Blank
      <3>1. k \in p + 1..e - 1 /\ k \notin v..v + l - 1
        BY <1>8
      <3>. QED BY <1>5, <1>7, <3>1
    <2>4. ASSUME v < e PROVE r[v] # Blank
      <3>1. v \in p + 1..e - 1
        BY <1>8, <2>4
      <3>2. r[v] = q[v] \/ r[v] < 0
        BY <1>7, <3>1
      <3>. QED BY <1>5, <2>4, <3>2 DEF Blank
    <2>5. ASSUME l > 0 PROVE r[v + l - 1] # Blank
      <3>1. v + l - 1 \in p + 1..e - 1
        BY <1>5, <1>8, <2>5
      <3>2. r[v + l - 1] = q[v + l - 1] \/ r[v + l - 1] < 0
        BY <1>7, <3>1
      <3>. QED BY <1>5, <2>5, <3>2 DEF Blank
    <2>6. ASSUME NEW k \in v + l..e - 1 PROVE r[k] = Blank
      <3>1. k \in p + 1..e - 1 /\ k \notin v..v + l - 1
        BY <1>5, <1>8
      <3>. QED BY <1>5, <1>7, <3>1
    <2>7. e \in p + 1..Len(r) - 1 /\ e < HeadEnd(r)
      BY <1>1, <1>3, <1>5 DEF n
    <2>. QED BY <1>5, <2>1, <2>2, <2>3, <2>4, <2>5, <2>6, <2>7 DEF LineAt, v, l
  <1>10. LineAt(r, p, HeaderAt(r, p), EndOfLine(r, p))
    BY HeaderFacts
  <1>11. p \in 1..Len(r)
    BY <1>1, <1>6
  <1>12. HeaderAt(r, p) = h
    BY <1>9, <1>10, <1>11, LineIsOne, HostIsOne
  <1>. QED BY <1>3, <1>12 DEF HostHeaders, h

-----------------------------------------------------------------------------
(* What the client sends, and what of it is in the buffer. *)

LEMMA OriginalFacts ==
    Shape => /\ Original \in Seq(Int) /\ Len(taken) \in 0..Len(Original)
             /\ size \in Nat /\ Len(taken) + size <= Len(Original)
             /\ Given \in Seq(Int) /\ Len(Given) = size
             /\ \A k \in 1..Len(received) : Original[k] = received[k]
             /\ \A k \in 1..size : Original[Len(taken) + k] = Given[k]
  <1>. SUFFICES ASSUME Shape
                PROVE  /\ Original \in Seq(Int) /\ Len(taken) \in 0..Len(Original)
                       /\ size \in Nat /\ Len(taken) + size <= Len(Original)
                       /\ Given \in Seq(Int) /\ Len(Given) = size
                       /\ \A k \in 1..Len(received) : Original[k] = received[k]
                       /\ \A k \in 1..size : Original[Len(taken) + k] = Given[k]
    OBVIOUS
  <1>. DEFINE m == Len(taken)
              r == Len(received)
              s == Len(rest)
              g == SubSeq(received, m + 1, Len(received))
  <1>1. /\ received \in Seq(Int) /\ rest \in Seq(Int) /\ taken \in Seq(Int)
        /\ m + size = r /\ size \in Nat /\ Given \in Seq(Int) /\ Len(Given) = size
    BY DEF Shape, TypeOK, Accounts
  <1>2. m \in Nat /\ r \in Nat /\ s \in Nat
    BY <1>1
  <1>3. /\ Original \in Seq(Int) /\ Len(Original) = r + s
        /\ \A k \in 1..r : Original[k] = received[k]
    BY <1>1, AppendFacts DEF Original
  <1>4. \A k \in 1..r - m : g[k] = received[m + k]
    <2>1. m \in 0..Len(received)
      BY <1>1, <1>2
    <2>. QED BY <1>1, <2>1, TailFacts
  <1>5. Given = g
    BY DEF Given
  <1>. HIDE DEF m, r, s, g
  <1>6. m \in 0..Len(Original) /\ m + size <= Len(Original)
    BY <1>1, <1>2, <1>3
  <1>7. ASSUME NEW k \in 1..size PROVE Original[m + k] = Given[k]
    <2>1. k \in 1..r - m /\ m + k \in 1..r
      BY <1>1, <1>2
    <2>. QED BY <1>3, <1>4, <1>5, <2>1
  <1>. QED BY <1>1, <1>3, <1>6, <1>7 DEF m, r

\* Nothing of it changes when some of it arrives.
LEMMA OriginalStays ==
    ASSUME Shape, NEW n \in 0..Len(rest), received' = received \o SubSeq(rest, 1, n),
           rest' = SubSeq(rest, n + 1, Len(rest))
    PROVE  Original' = Original
  <1>. DEFINE t == SubSeq(rest, 1, n)
              u == SubSeq(rest, n + 1, Len(rest))
              r == Len(received)
              s == Len(rest)
  <1>1. received \in Seq(Int) /\ rest \in Seq(Int) /\ r \in Nat /\ s \in Nat /\ n \in Nat
        /\ n <= s
    BY DEF Shape, TypeOK
  <1>2. t \in Seq(Int) /\ Len(t) = n /\ \A k \in 1..n : t[k] = rest[k]
    <2>1. rest \in [1..Len(rest) -> Int] /\ Len(rest) \in Nat
      BY <1>1
    <2>. QED BY <2>1, PrefixFacts
  <1>3. u \in Seq(Int) /\ Len(u) = s - n /\ \A k \in 1..s - n : u[k] = rest[n + k]
    BY <1>1, TailFacts
  <1>4. Original' = (received \o t) \o u /\ Original = received \o rest
    BY DEF Original
  <1>. HIDE DEF t, u
  <1>5. /\ received \o t \in Seq(Int) /\ Len(received \o t) = r + n
        /\ \A k \in 1..r : (received \o t)[k] = received[k]
        /\ \A k \in 1..n : (received \o t)[r + k] = t[k]
    <2>1. /\ received \o t \in Seq(Int) /\ Len(received \o t) = Len(received) + Len(t)
          /\ \A k \in 1..Len(received) : (received \o t)[k] = received[k]
          /\ \A k \in 1..Len(t) : (received \o t)[Len(received) + k] = t[k]
      BY <1>1, <1>2, AppendFacts
    <2>. QED BY <1>2, <2>1
  <1>6. /\ Original' \in Seq(Int) /\ Len(Original') = (r + n) + (s - n)
        /\ \A k \in 1..r + n : Original'[k] = (received \o t)[k]
        /\ \A k \in 1..s - n : Original'[(r + n) + k] = u[k]
    <2>. DEFINE a == received \o t
    <2>0. a \in Seq(Int) /\ Len(a) = r + n /\ Original' = a \o u
      BY <1>4, <1>5
    <2>. HIDE DEF a
    <2>1. /\ a \o u \in Seq(Int) /\ Len(a \o u) = Len(a) + Len(u)
          /\ \A k \in 1..Len(a) : (a \o u)[k] = a[k]
          /\ \A k \in 1..Len(u) : (a \o u)[Len(a) + k] = u[k]
      BY <1>3, <2>0, AppendFacts
    <2>2. /\ Original' \in Seq(Int) /\ Len(Original') = (r + n) + (s - n)
          /\ \A k \in 1..r + n : Original'[k] = a[k]
          /\ \A k \in 1..s - n : Original'[(r + n) + k] = u[k]
      BY <1>3, <2>0, <2>1
    <2>. QED BY <2>2 DEF a
  <1>7. /\ Original \in Seq(Int) /\ Len(Original) = r + s
        /\ \A k \in 1..r : Original[k] = received[k]
        /\ \A k \in 1..s : Original[r + k] = rest[k]
    BY <1>1, <1>4, AppendFacts
  <1>. HIDE DEF r, s
  <1>8. Len(Original') = Len(Original) /\ Len(Original) = r + s
    BY <1>1, <1>6, <1>7
  <1>9. ASSUME NEW k \in 1..Len(Original) PROVE Original'[k] = Original[k]
    <2>0. k \in 1..r + s
      BY <1>8
    <2>1. CASE k <= r
      <3>1. k \in 1..r /\ k \in 1..r + n
        BY <1>1, <2>0, <2>1
      <3>. QED BY <1>5, <1>6, <1>7, <3>1
    <2>2. CASE k > r /\ k <= r + n
      <3>. DEFINE j == k - r
      <3>1. j \in 1..n /\ j \in 1..s /\ k = r + j /\ k \in 1..r + n
        BY <1>1, <2>0, <2>2
      <3>. HIDE DEF j
      <3>2. Original'[k] = t[j] /\ Original[k] = rest[j]
        BY <1>5, <1>6, <1>7, <3>1
      <3>. QED BY <1>2, <3>1, <3>2
    <2>3. CASE k > r + n
      <3>. DEFINE j == k - (r + n)
      <3>1. j \in 1..s - n /\ n + j \in 1..s /\ k = (r + n) + j /\ k = r + (n + j)
        BY <1>1, <2>0, <2>3
      <3>. HIDE DEF j
      <3>2. Original'[k] = u[j] /\ Original[k] = rest[n + j]
        BY <1>6, <1>7, <3>1
      <3>. QED BY <1>3, <3>1, <3>2
    <2>4. k <= r \/ (k > r /\ k <= r + n) \/ k > r + n
      BY <1>1, <2>0
    <2>. QED BY <2>1, <2>2, <2>3, <2>4
  <1>. QED BY <1>6, <1>7, <1>8, <1>9, SameSeq

\* A request in the buffer is one of the client's.
LEMMA GivenParses ==
    ASSUME Shape, Parses(Given)
    PROVE  /\ Len(taken) \in RequestStarts(Original)
           /\ HostHeaders(From(Original, Len(taken))) = HostHeaders(Given)
  <1>. DEFINE m == Len(taken)
              r == SubSeq(Original, m + 1, Len(Original))
  <1>1. /\ Original \in Seq(Int) /\ m \in 0..Len(Original)
        /\ size \in Nat /\ m + size <= Len(Original)
        /\ Given \in Seq(Int) /\ Len(Given) = size
        /\ \A k \in 1..size : Original[m + k] = Given[k]
    BY OriginalFacts
  <1>2. r \in Seq(Int) /\ Len(r) = Len(Original) - m
        /\ \A k \in 1..Len(Original) - m : r[k] = Original[m + k]
    BY <1>1, TailFacts
  <1>3. r = From(Original, m)
    BY DEF From
  <1>. HIDE DEF m, r
  <1>4. Len(Original) \in Nat /\ m \in Nat
    BY <1>1
  <1>5. Len(r) >= Len(Given) /\ \A k \in 1..Len(Given) : r[k] = Given[k]
    <2>1. Len(r) >= Len(Given)
      BY <1>1, <1>2, <1>4
    <2>2. ASSUME NEW k \in 1..Len(Given) PROVE r[k] = Given[k]
      <3>1. k \in 1..size /\ k \in 1..Len(Original) - m
        BY <1>1, <1>4
      <3>. QED BY <1>1, <1>2, <3>1
    <2>. QED BY <2>1, <2>2
  <1>6. SameHead(Given, r)
    BY <1>1, <1>2, <1>5, MoreFollows
  <1>7. HostHeaders(r) = HostHeaders(Given)
    BY <1>6, SameHosts
  <1>8. Parses(r)
    BY <1>6 DEF SameHead
  <1>. QED BY <1>1, <1>3, <1>7, <1>8 DEF RequestStarts, m

\* A Host value of the buffer is one of the client's.
LEMMA ValueInOriginal ==
    ASSUME Shape, Parses(Given), NEW h \in HostHeaders(Given),
           NEW k \in h.value..h.value + h.len - 1, k \in 1..size
    PROVE  InHostValue(Original, Len(taken) + k)
  <1>. DEFINE m == Len(taken)
  <1>1. m \in RequestStarts(Original) /\ h \in HostHeaders(From(Original, m))
    BY GivenParses
  <1>2. (m + k) - m = k
    <2>1. m \in Nat /\ k \in Int
      BY OriginalFacts
    <2>. HIDE DEF m
    <2>. QED BY <2>1
  <1>3. (m + k) - m \in h.value..h.value + h.len - 1
    BY <1>2
  <1>. HIDE DEF m
  <1>4. InHostValue(Original, m + k)
    BY <1>1, <1>3 DEF InHostValue
  <1>. QED BY <1>4 DEF m

\* What the buffer may be written to is there.
LEMMA BufferInOriginal ==
    ASSUME Shape, BufferHostsOnly, NEW k \in 1..size
    PROVE  \/ buf[k] = Original[Len(taken) + k]
           \/ InHostValue(Original, Len(taken) + k)
  <1>1. Original[Len(taken) + k] = Given[k]
    BY OriginalFacts
  <1>2. CASE buf[k] = Given[k]
    BY <1>1, <1>2
  <1>3. CASE NewThere(k)
    <2>1. Parses(Given)
      BY <1>3 DEF NewThere
    <2>2. PICK h \in HostHeaders(Given) : k \in h.value..h.value + h.len - 1
      BY <1>3 DEF NewThere
    <2>. QED BY <2>1, <2>2, ValueInOriginal
  <1>. QED BY <1>2, <1>3 DEF BufferHostsOnly

\* Queueing such a buffer keeps what is sent as it should be.
LEMMA QueuedHostsOnly ==
    ASSUME Shape, HostsOnly(taken \o queued), NEW c \in Seq(Int), Len(c) = size,
           \A k \in 1..size : \/ c[k] = Original[Len(taken) + k]
                              \/ InHostValue(Original, Len(taken) + k)
    PROVE  HostsOnly(taken \o c)
  <1>. DEFINE m == Len(taken)
  <1>1. taken \in Seq(Int) /\ queued \in Seq(Int) /\ m \in Nat /\ size \in Nat
        /\ Len(queued) \in Nat
    BY DEF Shape, TypeOK
  <1>2. /\ taken \o queued \in Seq(Int) /\ Len(taken \o queued) = m + Len(queued)
        /\ \A k \in 1..m : (taken \o queued)[k] = taken[k]
    BY <1>1, AppendFacts
  <1>3. /\ taken \o c \in Seq(Int) /\ Len(taken \o c) = m + size
        /\ \A k \in 1..m : (taken \o c)[k] = taken[k]
        /\ \A k \in 1..size : (taken \o c)[m + k] = c[k]
    BY <1>1, AppendFacts
  <1>. DEFINE s == taken \o queued
              t == taken \o c
  <1>4. DOMAIN s = 1..Len(s) /\ DOMAIN t = 1..Len(t)
    BY <1>2, <1>3, ElementFacts
  <1>. HIDE DEF s, t
  <1>5. ASSUME NEW k \in DOMAIN t
        PROVE  t[k] = Original[k] \/ InHostValue(Original, k)
    <2>. HIDE DEF m
    <2>0. k \in 1..m + size
      BY <1>3, <1>4 DEF t, m
    <2>1. CASE k <= m
      <3>1. k \in 1..m /\ k \in DOMAIN s
        <4>1. k \in 1..m /\ k \in 1..m + Len(queued)
          BY <1>1, <2>0, <2>1
        <4>. QED BY <1>2, <1>4, <4>1 DEF s, m
      <3>2. t[k] = s[k]
        BY <1>2, <1>3, <3>1 DEF s, t, m
      <3>3. s[k] = Original[k] \/ InHostValue(Original, k)
        BY <3>1 DEF HostsOnly, s
      <3>. QED BY <3>2, <3>3
    <2>2. CASE k > m
      <3>. DEFINE j == k - m
      <3>1. j \in 1..size /\ m + j = k
        BY <1>1, <2>0, <2>2
      <3>. HIDE DEF j
      <3>2. t[k] = c[j]
        BY <1>3, <3>1 DEF t, m
      <3>3. c[j] = Original[m + j] \/ InHostValue(Original, m + j)
        BY <3>1 DEF m
      <3>. QED BY <3>1, <3>2, <3>3
    <2>. QED BY <1>1, <2>0, <2>1, <2>2 DEF m
  <1>. QED BY <1>5 DEF HostsOnly, t

-----------------------------------------------------------------------------
(* Where no value changes its length: the steps. *)

LEMMA InitHostOnly == Init => HostOnlyInv
  <1>. SUFFICES ASSUME Init PROVE HostOnlyInv
    OBVIOUS
  <1>1. taken = << >> /\ queued = << >> /\ size = 0 /\ pc = "queued"
    BY DEF Init
  <1>2. taken \o queued = << >>
    BY <1>1
  <1>3. HostsOnly(taken \o queued)
    BY <1>2 DEF HostsOnly
  <1>. QED BY <1>1, <1>3 DEF HostOnlyInv, BufferHostsOnly, HostsPointedTo

LEMMA CalledAgainHostOnly ==
    ASSUME RewriteInv, HostOnlyInv, NEW n \in 0..Len(rest), CalledAgain(n)
    PROVE  HostOnlyInv'
  <1>0. Shape
    BY ShapeIs
  <1>1. /\ Arrives(n, size) /\ pc' = "parse" /\ size' = size + n
        /\ taken' = taken /\ queued' = queued
        /\ received' = received \o SubSeq(rest, 1, n)
        /\ rest' = SubSeq(rest, n + 1, Len(rest))
    BY DEF CalledAgain, Called, Arrives
  <1>2. Original' = Original
    BY <1>0, <1>1, OriginalStays
  <1>. SUFFICES ASSUME SameLengths(Original) PROVE HostOnlyInv'
    BY <1>2 DEF HostOnlyInv
  <1>3. HostsOnly(taken \o queued) /\ BufferHostsOnly
    BY DEF HostOnlyInv
  <1>4. HostsOnly(taken \o queued)'
    BY <1>1, <1>2, <1>3 DEF HostsOnly
  <1>5. /\ Given' \in Seq(Int) /\ Len(Given') = size + n
        /\ \A k \in 1..size : Given'[k] = Given[k]
        /\ \A k \in size + 1..size + n : Given'[k] = rest[k - size]
    BY <1>0, <1>1, GivenMore
  <1>6. size \in Nat /\ n \in Nat /\ Given \in Seq(Int) /\ Len(Given) = size
    <2>1. rest \in Seq(Int)
      BY <1>0 DEF Shape, TypeOK
    <2>2. n \in Nat
      BY <2>1
    <2>. QED BY <1>0, <2>2, BufferFacts
  <1>7. /\ \A k \in 1..size : buf'[k] = buf[k]
        /\ \A k \in size + 1..size + n : buf'[k] = rest[k - size]
    <2>1. size \in 0..size
      BY <1>6
    <2>. QED BY <1>0, <1>1, <2>1, ArrivedFacts
  <1>8. Parses(Given) => Parses(Given') /\ HostHeaders(Given') = HostHeaders(Given)
    <2>. SUFFICES ASSUME Parses(Given)
                  PROVE  Parses(Given') /\ HostHeaders(Given') = HostHeaders(Given)
      OBVIOUS
    <2>1. Len(Given') >= Len(Given) /\ \A k \in 1..Len(Given) : Given'[k] = Given[k]
      BY <1>5, <1>6
    <2>2. SameHead(Given, Given')
      BY <1>5, <1>6, <2>1, MoreFollows
    <2>. QED BY <2>2, SameHosts DEF SameHead
  <1>9. ASSUME NEW k \in 1..size + n PROVE buf'[k] = Given'[k] \/ NewThere(k)'
    <2>1. CASE k \in 1..size
      <3>1. buf[k] = Given[k] => buf'[k] = Given'[k]
        BY <1>5, <1>7, <2>1
      <3>2. NewThere(k) => NewThere(k)'
        BY <1>7, <1>8, <2>1 DEF NewThere
      <3>. QED BY <1>3, <2>1, <3>1, <3>2 DEF BufferHostsOnly
    <2>2. CASE k \in size + 1..size + n
      BY <1>5, <1>7, <2>2
    <2>3. k \in 1..size \/ k \in size + 1..size + n
      BY <1>6
    <2>. QED BY <2>1, <2>2, <2>3
  <1>10. BufferHostsOnly'
    BY <1>1, <1>9 DEF BufferHostsOnly
  <1>11. HostsPointedTo'
    BY <1>1 DEF HostsPointedTo
  <1>. QED BY <1>4, <1>10, <1>11 DEF HostOnlyInv

LEMMA CalledAfreshHostOnly ==
    ASSUME RewriteInv, HostOnlyInv, NEW n \in 0..Len(rest), CalledAfresh(n)
    PROVE  HostOnlyInv'
  <1>0. Shape
    BY ShapeIs
  <1>1. /\ Arrives(n, 0) /\ pc = "queued" /\ pc' = "parse" /\ size' = 0 + n
        /\ taken' = taken \o queued /\ queued' = << >>
        /\ received' = received \o SubSeq(rest, 1, n)
        /\ rest' = SubSeq(rest, n + 1, Len(rest))
    BY DEF CalledAfresh, Called, Arrives
  <1>2. Original' = Original
    BY <1>0, <1>1, OriginalStays
  <1>. SUFFICES ASSUME SameLengths(Original) PROVE HostOnlyInv'
    BY <1>2 DEF HostOnlyInv
  <1>3. HostsOnly(taken \o queued)
    BY DEF HostOnlyInv
  <1>4. HostsOnly(taken \o queued)'
    <2>1. taken \o queued \in Seq(Int)
      <3>1. taken \in Seq(Int) /\ queued \in Seq(Int)
        BY <1>0 DEF Shape, TypeOK
      <3>. QED BY <3>1, AppendFacts
    <2>2. taken' \o queued' = taken \o queued
      BY <1>1, <2>1
    <2>. QED BY <1>2, <1>3, <2>2 DEF HostsOnly
  <1>5. Len(Given') = n /\ \A k \in 1..n : Given'[k] = rest[k]
    BY <1>0, <1>1, GivenAfresh
  <1>6. size \in Nat /\ n \in Nat
    <2>1. rest \in Seq(Int) /\ size \in Nat
      BY <1>0 DEF Shape, TypeOK
    <2>. QED BY <2>1
  <1>7. ASSUME NEW k \in 1..n PROVE buf'[k] = rest[k]
    <2>1. 0 \in 0..size
      BY <1>6
    <2>2. \A j \in 0 + 1..0 + n : buf'[j] = rest[j - 0]
      BY <1>0, <1>1, <2>1, ArrivedFacts
    <2>3. k \in 0 + 1..0 + n /\ k - 0 = k
      BY <1>6
    <2>. QED BY <2>2, <2>3
  <1>8. size' = n
    BY <1>1, <1>6
  <1>9. BufferHostsOnly'
    BY <1>5, <1>7, <1>8 DEF BufferHostsOnly
  <1>10. HostsPointedTo'
    BY <1>1 DEF HostsPointedTo
  <1>. QED BY <1>4, <1>9, <1>10 DEF HostOnlyInv

\* A step of the call that leaves the buffer alone.
LEMMA HostsStay ==
    ASSUME buf' = buf, size' = size, UNCHANGED stream
    PROVE  /\ Original' = Original /\ Given' = Given /\ taken' = taken
           /\ (BufferHostsOnly' <=> BufferHostsOnly)
  <1>1. Original' = Original /\ Given' = Given /\ taken' = taken
    BY GivenStays DEF Original
  <1>. QED BY <1>1 DEF BufferHostsOnly, NewThere

\* A buffer that is queued as it is.
LEMMA ForwardedHostsOnly ==
    ASSUME Shape, BufferHostsOnly, HostsOnly(taken \o queued)
    PROVE  HostsOnly(taken \o Content)
  <1>1. Content \in Seq(Int) /\ Len(Content) = size /\ \A k \in 1..size : Content[k] = buf[k]
    BY BufferFacts
  <1>2. ASSUME NEW k \in 1..size
        PROVE  \/ Content[k] = Original[Len(taken) + k]
               \/ InHostValue(Original, Len(taken) + k)
    BY <1>1, BufferInOriginal
  <1>. QED BY <1>1, <1>2, QueuedHostsOnly

\* The parser finds the Host headers that were given.
LEMMA ParseRequestHostOnly ==
    ASSUME RewriteInv, HostOnlyInv, ParseRequest
    PROVE  HostOnlyInv'
  <1>0. Shape
    BY ShapeIs
  <1>1. /\ pc = "parse" /\ Parses(Content) /\ headers' = Headers(Content)
        /\ buf' = buf /\ size' = size /\ queued' = queued /\ UNCHANGED stream
    BY DEF ParseRequest
  <1>2. /\ Original' = Original /\ Given' = Given /\ taken' = taken
        /\ (BufferHostsOnly' <=> BufferHostsOnly)
    BY <1>1, HostsStay
  <1>. SUFFICES ASSUME SameLengths(Original) PROVE HostOnlyInv'
    BY <1>2 DEF HostOnlyInv
  <1>3. HostsOnly(taken \o queued) /\ BufferHostsOnly
    BY DEF HostOnlyInv
  <1>4. HostsOnly(taken \o queued)'
    BY <1>1, <1>2, <1>3 DEF HostsOnly
  <1>5. Parses(Given)
    BY <1>1 DEF RewriteInv
  <1>6. /\ Content \in Seq(Int) /\ Len(Content) = size
        /\ Given \in Seq(Int) /\ Len(Given) = size /\ size \in Nat
        /\ \A k \in 1..size : Content[k] = buf[k]
    BY <1>0, BufferFacts
  <1>7. HostsDiffer(Given, Content)
    <2>1. ASSUME NEW k \in 1..size
          PROVE  Content[k] = Given[k] \/ (Content[k] < 0 /\ InValue(Given, k))
      BY <1>3, <1>6 DEF BufferHostsOnly, NewThere, InValue
    <2>. QED BY <1>6, <2>1 DEF HostsDiffer
  <1>8. HeadersAre(Content, headers')
    BY <1>1, <1>6, HeadersFacts
  <1>9. ASSUME NEW k \in DOMAIN headers', IsHost(buf, headers'[k])
        PROVE  headers'[k] \in HostHeaders(Given)
    <2>. DEFINE p == headers'[k].name
    <2>1. p \in HeaderStarts(Content) /\ headers'[k] = HeaderAt(Content, p)
      BY <1>8 DEF HeadersAre
    <2>2. p \in 1..size
      <3>1. p \in 2..Len(Content)
        BY <1>6, <2>1, HeaderPlaces
      <3>. HIDE DEF p
      <3>. QED BY <1>6, <3>1
    <2>3. buf[p] \in HostNames
      BY <1>9 DEF IsHost
    <2>4. Content[p] \in HostNames
      BY <1>6, <2>2, <2>3
    <2>. HIDE DEF p
    <2>5. HeaderAt(Content, p) \in HostHeaders(Given)
      BY <1>1, <1>5, <1>6, <1>7, <2>1, <2>4, HostsFound
    <2>. QED BY <2>1, <2>5
  <1>10. HostsPointedTo'
    BY <1>1, <1>2, <1>9 DEF HostsPointedTo
  <1>. QED BY <1>2, <1>3, <1>4, <1>10 DEF HostOnlyInv

LEMMA ForwardAsIsHostOnly ==
    ASSUME RewriteInv, HostOnlyInv, ForwardAsIs
    PROVE  HostOnlyInv'
  <1>0. Shape
    BY ShapeIs
  <1>1. Queue(buf, 0) /\ buf' = buf /\ size' = size /\ UNCHANGED stream
    BY DEF ForwardAsIs
  <1>2. /\ Original' = Original /\ Given' = Given /\ taken' = taken
        /\ (BufferHostsOnly' <=> BufferHostsOnly)
    BY <1>1, HostsStay
  <1>. SUFFICES ASSUME SameLengths(Original) PROVE HostOnlyInv'
    BY <1>2 DEF HostOnlyInv
  <1>3. HostsOnly(taken \o queued) /\ BufferHostsOnly
    BY DEF HostOnlyInv
  <1>4. queued' = Content /\ pc' = "queued"
    BY <1>0, <1>1, QueuedIs DEF Content
  <1>5. HostsOnly(taken \o Content)
    BY <1>0, <1>3, ForwardedHostsOnly
  <1>6. HostsOnly(taken \o queued)'
    BY <1>2, <1>4, <1>5 DEF HostsOnly
  <1>7. HostsPointedTo'
    BY <1>4 DEF HostsPointedTo
  <1>. QED BY <1>2, <1>3, <1>6, <1>7 DEF HostOnlyInv

LEMMA DoneHostOnly ==
    ASSUME RewriteInv, HostOnlyInv, Done
    PROVE  HostOnlyInv'
  <1>0. Shape
    BY ShapeIs
  <1>1. /\ Queue(buf, diffrence) /\ diffrence = 0
        /\ buf' = buf /\ size' = size /\ UNCHANGED stream
    BY <1>0 DEF Done, Shape, Accounts
  <1>2. /\ Original' = Original /\ Given' = Given /\ taken' = taken
        /\ (BufferHostsOnly' <=> BufferHostsOnly)
    BY <1>1, HostsStay
  <1>. SUFFICES ASSUME SameLengths(Original) PROVE HostOnlyInv'
    BY <1>2 DEF HostOnlyInv
  <1>3. HostsOnly(taken \o queued) /\ BufferHostsOnly
    BY DEF HostOnlyInv
  <1>4. queued' = Content /\ pc' = "queued"
    BY <1>0, <1>1, QueuedIs DEF Content
  <1>5. HostsOnly(taken \o Content)
    BY <1>0, <1>3, ForwardedHostsOnly
  <1>6. HostsOnly(taken \o queued)'
    BY <1>2, <1>4, <1>5 DEF HostsOnly
  <1>7. HostsPointedTo'
    BY <1>4 DEF HostsPointedTo
  <1>. QED BY <1>2, <1>3, <1>6, <1>7 DEF HostOnlyInv

LEMMA SkipHeaderHostOnly ==
    ASSUME RewriteInv, HostOnlyInv, SkipHeader
    PROVE  HostOnlyInv'
  <1>1. /\ pc' = pc /\ headers' = headers /\ queued' = queued
        /\ buf' = buf /\ size' = size /\ UNCHANGED stream
    BY DEF SkipHeader
  <1>2. /\ Original' = Original /\ Given' = Given /\ taken' = taken
        /\ (BufferHostsOnly' <=> BufferHostsOnly)
    BY <1>1, HostsStay
  <1>3. HostsPointedTo' <=> HostsPointedTo
    BY <1>1, <1>2 DEF HostsPointedTo
  <1>4. HostsOnly(taken \o queued)' <=> HostsOnly(taken \o queued)
    BY <1>1, <1>2 DEF HostsOnly
  <1>. QED BY <1>2, <1>3, <1>4 DEF HostOnlyInv

\* The header the loop replaces has a value of the new length.
LEMMA ReplacedHost ==
    ASSUME Shape, HostOnlyInv, SameLengths(Original), pc = "modify", i <= Len(headers),
           IsHost(buf, headers[i])
    PROVE  /\ headers[i] \in HostHeaders(Given) /\ headers[i].len = NewLen
           /\ Parses(Given) /\ Inside(headers[i])
  <1>. DEFINE h == headers[i]
  <1>1. /\ headers \in Seq([name : 1..size, value : 1..size, len : Nat])
        /\ i \in 1..MaxHeaders + 1
    BY DEF Shape, TypeOK, Accounts
  <1>2. i \in DOMAIN headers
    BY <1>1, ElementFacts, RewriteAssumption
  <1>3. h \in HostHeaders(Given)
    BY <1>2 DEF HostOnlyInv, HostsPointedTo
  <1>4. Parses(Given)
    BY DEF Shape
  <1>5. h.len = NewLen
    <2>1. Len(taken) \in RequestStarts(Original)
          /\ h \in HostHeaders(From(Original, Len(taken)))
      BY <1>3, <1>4, GivenParses
    <2>. HIDE DEF h
    <2>. QED BY <2>1 DEF SameLengths
  <1>6. h \in [name : 1..size, value : 1..size, len : Nat]
    BY <1>1, <1>2, ElementFacts
  <1>. DEFINE v == h.value
              l == h.len
  <1>7. v + l <= size
    <2>1. Given \in Seq(Int) /\ Len(Given) = size /\ size \in Nat
      BY BufferFacts
    <2>2. PICK p \in HeaderStarts(Given) : h = HeaderAt(Given, p)
      BY <1>3 DEF HostHeaders
    <2>. DEFINE e == EndOfLine(Given, p)
    <2>3. LineAt(Given, p, h, e) /\ p \in 2..Len(Given)
      BY <1>4, <2>1, <2>2, HeaderFacts, HeaderPlaces
    <2>4. e \in p + 1..size - 1 /\ v + l <= e /\ p \in 2..size
      BY <2>1, <2>3 DEF LineAt
    <2>5. v \in 1..size /\ l \in Nat
      BY <1>6
    <2>. HIDE DEF e, v, l
    <2>. QED BY <2>1, <2>4, <2>5
  <1>. QED BY <1>3, <1>4, <1>5, <1>6, <1>7 DEF Inside

\* No value is moved.
LEMMA ReplaceHeaderHostOnly ==
    ASSUME RewriteInv, HostOnlyInv, ReplaceHeader
    PROVE  HostOnlyInv'
  <1>0. Shape
    BY ShapeIs
  <1>1. /\ pc = "modify" /\ i <= Len(headers) /\ IsHost(buf, headers[i])
        /\ headers[i].len # NewLen /\ UNCHANGED stream
    BY DEF ReplaceHeader
  <1>2. Original' = Original
    BY <1>1 DEF stream, Original
  <1>. SUFFICES ASSUME SameLengths(Original) PROVE FALSE
    BY <1>2 DEF HostOnlyInv
  <1>. QED BY <1>0, <1>1, ReplacedHost

\* The new value is written over one of the same length.
LEMMA ReplaceSameLengthHostOnly ==
    ASSUME RewriteInv, HostOnlyInv, ReplaceSameLength
    PROVE  HostOnlyInv'
  <1>. DEFINE h == headers[i]
              v == h.value
  <1>0. Shape
    BY ShapeIs
  <1>1. /\ pc = "modify" /\ i <= Len(headers) /\ IsHost(buf, h)
        /\ buf' = WithValue(buf, v) /\ Queue(buf', 0)
        /\ size' = size /\ UNCHANGED stream
    BY DEF ReplaceSameLength
  <1>2. Original' = Original /\ Given' = Given /\ taken' = taken
    BY <1>1, GivenStays DEF Original
  <1>. SUFFICES ASSUME SameLengths(Original) PROVE HostOnlyInv'
    BY <1>2 DEF HostOnlyInv
  <1>3. HostsOnly(taken \o queued) /\ BufferHostsOnly
    BY DEF HostOnlyInv
  <1>4. /\ h \in HostHeaders(Given) /\ h.len = NewLen
        /\ Parses(Given) /\ Inside(h)
    BY <1>0, <1>1, ReplacedHost
  <1>5. /\ Space \in Nat /\ NewLen \in Nat /\ size \in Nat /\ size <= Space
        /\ buf \in [1..Space -> Int]
    <2>1. size + NewLen <= Space /\ Space \in Nat /\ NewLen \in Nat /\ size \in Nat
          /\ buf \in [1..Space -> Int]
      BY <1>0, BufferFacts
    <2>. QED BY <2>1
  <1>6. v \in Nat
    <2>1. v \in 1..size
      BY <1>4 DEF Inside
    <2>. HIDE DEF v
    <2>. QED BY <1>5, <2>1
  <1>7. ASSUME NEW k \in 1..size PROVE buf'[k] = Given'[k] \/ NewThere(k)'
    <2>1. k \in 1..Space
      BY <1>5
    <2>2. buf'[k] = IF k \in v..v + NewLen - 1 THEN New(k - v + 1) ELSE buf[k]
      BY <1>1, <1>5, <1>6, <2>1, ValueIs
    <2>3. CASE k \in v..v + NewLen - 1
      <3>. HIDE DEF v
      <3>1. k - v + 1 > 0 /\ k - v + 1 \in Int
        BY <1>5, <1>6, <2>3
      <3>2. New(k - v + 1) < 0
        BY <3>1 DEF New
      <3>3. buf'[k] < 0
        BY <2>2, <2>3, <3>2
      <3>4. k \in h.value..h.value + h.len - 1
        BY <1>4, <2>3 DEF v
      <3>. HIDE DEF h
      <3>. QED BY <1>2, <1>4, <3>3, <3>4 DEF NewThere
    <2>4. CASE k \notin v..v + NewLen - 1
      <3>1. buf'[k] = buf[k]
        BY <2>2, <2>4
      <3>2. NewThere(k) => NewThere(k)'
        BY <1>2, <3>1 DEF NewThere
      <3>. QED BY <1>2, <1>3, <3>1, <3>2 DEF BufferHostsOnly
    <2>. QED BY <2>3, <2>4
  <1>8. BufferHostsOnly'
    BY <1>1, <1>7 DEF BufferHostsOnly
  <1>9. queued' = Content' /\ pc' = "queued"
    <2>1. queued' = SubSeq(buf', 1, size) /\ pc' = "queued"
      BY <1>0, <1>1, QueuedIs
    <2>. QED BY <1>1, <2>1 DEF Content
  <1>10. HostsOnly(taken \o queued)'
    <2>. DEFINE c == SubSeq(buf', 1, size)
    <2>1. c \in Seq(Int) /\ Len(c) = size /\ \A k \in 1..size : c[k] = buf'[k]
      <3>1. buf' \in [1..Space -> Int]
        <4>1. Shifted(buf, h, buf')
          BY <1>0, <1>1, <1>4, <1>5, SameShifts
        <4>. QED BY <4>1 DEF Shifted
      <3>2. size \in 0..Space
        BY <1>5
      <3>. QED BY <1>5, <3>1, <3>2, PrefixFacts
    <2>. HIDE DEF c
    <2>2. ASSUME NEW k \in 1..size
          PROVE  \/ c[k] = Original[Len(taken) + k]
                 \/ InHostValue(Original, Len(taken) + k)
      <3>1. CASE buf'[k] = Given[k]
        <4>1. Original[Len(taken) + k] = Given[k]
          BY <1>0, OriginalFacts
        <4>. QED BY <2>1, <3>1, <4>1
      <3>2. CASE NewThere(k)'
        <4>1. PICK g \in HostHeaders(Given) : k \in g.value..g.value + g.len - 1
          BY <1>2, <3>2 DEF NewThere
        <4>. QED BY <1>0, <1>4, <4>1, ValueInOriginal
      <3>. QED BY <1>2, <1>7, <3>1, <3>2
    <2>3. HostsOnly(taken \o c)
      BY <1>0, <1>3, <2>1, <2>2, QueuedHostsOnly
    <2>. QED BY <1>1, <1>2, <1>9, <2>3 DEF HostsOnly, c, Content
  <1>11. HostsPointedTo'
    BY <1>9 DEF HostsPointedTo
  <1>. QED BY <1>8, <1>10, <1>11 DEF HostOnlyInv

\* Every step keeps HostOnlyInv.
LEMMA NextHostOnly == RewriteInv /\ HostOnlyInv /\ [Next]_vars => HostOnlyInv'
  <1>. SUFFICES ASSUME RewriteInv, HostOnlyInv, [Next]_vars PROVE HostOnlyInv'
    OBVIOUS
  <1>1. ASSUME NEW n \in 0..Len(rest), CalledAgain(n) \/ CalledAfresh(n)
        PROVE  HostOnlyInv'
    BY <1>1, CalledAgainHostOnly, CalledAfreshHostOnly
  <1>2. CASE ParseRequest
    BY <1>2, ParseRequestHostOnly
  <1>3. CASE ForwardAsIs
    BY <1>3, ForwardAsIsHostOnly
  <1>4. CASE SkipHeader
    BY <1>4, SkipHeaderHostOnly
  <1>5. CASE ReplaceHeader
    BY <1>5, ReplaceHeaderHostOnly
  <1>6. CASE ReplaceSameLength
    BY <1>6, ReplaceSameLengthHostOnly
  <1>7. CASE Done
    BY <1>7, DoneHostOnly
  <1>8. CASE UNCHANGED vars
    <2>1. /\ buf' = buf /\ size' = size /\ headers' = headers /\ pc' = pc
          /\ queued' = queued /\ UNCHANGED stream
      BY <1>8 DEF vars, stream
    <2>2. /\ Original' = Original /\ Given' = Given /\ taken' = taken
          /\ (BufferHostsOnly' <=> BufferHostsOnly)
      BY <2>1, HostsStay
    <2>3. /\ HostsPointedTo' <=> HostsPointedTo
          /\ HostsOnly(taken \o queued)' <=> HostsOnly(taken \o queued)
      BY <2>1, <2>2 DEF HostsPointedTo, HostsOnly
    <2>. QED BY <2>2, <2>3 DEF HostOnlyInv
  <1>. QED BY <1>1, <1>2, <1>3, <1>4, <1>5, <1>6, <1>7, <1>8 DEF Next

\* What was sent after a call is as long as what was received.
LEMMA HostsChangedOnly == RewriteInv /\ HostOnlyInv => OnlyHostChanges
  <1>. SUFFICES ASSUME RewriteInv, HostOnlyInv, pc = "queued", SameLengths(Original),
                       NEW k \in DOMAIN (taken \o queued)
                PROVE  \/ (taken \o queued)[k] = received[k]
                       \/ InHostValue(Original, k)
    BY DEF OnlyHostChanges
  <1>1. Shape
    BY ShapeIs
  <1>2. /\ taken \in Seq(Int) /\ queued \in Seq(Int) /\ received \in Seq(Int)
        /\ Len(taken) + Len(queued) = Len(received)
    BY <1>1 DEF Shape, TypeOK, Accounts
  <1>3. taken \o queued \in Seq(Int) /\ Len(taken \o queued) = Len(received)
    BY <1>2, AppendFacts
  <1>. DEFINE s == taken \o queued
  <1>4. k \in 1..Len(received)
    <2>1. DOMAIN s = 1..Len(s)
      BY <1>3, ElementFacts
    <2>. QED BY <1>3, <2>1
  <1>5. Original[k] = received[k]
    BY <1>1, <1>4, OriginalFacts
  <1>6. HostsOnly(s)
    BY DEF HostOnlyInv
  <1>. HIDE DEF s
  <1>7. s[k] = Original[k] \/ InHostValue(Original, k)
    BY <1>6 DEF HostsOnly, s
  <1>. QED BY <1>5, <1>7 DEF s

-----------------------------------------------------------------------------
(* The theorems. *)

\* Whatever is sent, in whatever pieces it arrives and however often on_write is
\* called with it, the loop's pointers stay behind the first Host value
\* (zxy_modify_http_headers).
THEOREM RewriteInvariant == Spec => []RewriteInv
  BY InitRewrite, NextRewrite, PTL DEF Spec

\* The names and values the loop is given are in the request, and there is room for
\* the new value wherever one is.
THEOREM RewriteTyped == Spec => []TypeOK
  <1>1. RewriteInv => TypeOK
    BY DEF RewriteInv
  <1>. QED BY <1>1, RewriteInvariant, PTL

\* Nothing before the value of the first Host header is ever changed, by any number
\* of calls and of Host headers, although every pointer to a later one is out of
\* date once a value has been replaced by one of another length.
THEOREM HeadKept == Spec => []HeadUntouched
  <1>1. RewriteInv => HeadUntouched
    BY DEF RewriteInv
  <1>. QED BY <1>1, RewriteInvariant, PTL

\* While there is one Host name in it, the loop has either replaced nothing of what
\* the parser found or has nothing left to replace, and what a call has queued is
\* settled: another one would find the new value (zxy_modify_http_headers).
THEOREM OneHostInvariant == Spec => []OneHostInv
  <1>1. Init => OneHostInv
    BY InitOneHost
  <1>2. RewriteInv /\ OneHostInv /\ [Next]_vars => OneHostInv'
    BY NextOneHost
  <1>. QED BY <1>1, <1>2, RewriteInvariant, PTL DEF Spec

\* A request with one Host header, and no Host name anywhere else in it (at the end of
\* another name, as in X-Forwarded-Host, in a value or in the body), is rewritten in
\* full in the buffer: whatever the lengths of the old and the new value, in how many
\* pieces it comes, and however often on_write is called with it.
THEOREM RewrittenFully == Spec => []RewrittenInFull
  BY OneHostInvariant, RewriteInvariant, RewrittenAsIntended, PTL

\* The backend does not get all of it: what is queued is as long as what the client
\* sent, since the difference that is added to the length is 0 after every turn
\* (http_parser.h:212, 223 and 231).
THEOREM ForwardedCut == Spec => []ForwardedAtOldLength
  BY OneHostInvariant, RewriteInvariant, QueuedAtOldLength, PTL

\* Called again with a buffer nothing has been added to, on_write gives the encrypt
\* buffer the same bytes once more.
THEOREM RewriteStable == Spec => RewriteIsStable
  <1>1. RewriteInv /\ OneHostInv /\ [Next]_vars =>
            [(pc' = "queued" /\ Len(queued) = size /\ OneHost) => queued' = queued]_vars
    BY QueuedAgain
  <1>. QED BY <1>1, OneHostInvariant, RewriteInvariant, PTL DEF Spec, RewriteIsStable

\* Where no value changes its length, the buffer differs from what was given in Host
\* values only, so that parsing it again finds the headers that were given, whatever
\* was written there before (zxy_modify_http_headers, zxy_parse_http_request).
THEOREM HostOnlyInvariant == Spec => []HostOnlyInv
  <1>1. RewriteInv /\ HostOnlyInv /\ [Next]_vars => HostOnlyInv'
    BY NextHostOnly
  <1>. QED BY <1>1, InitHostOnly, RewriteInvariant, PTL DEF Spec

\* However what the client sends is cut, what on_write gives the encrypt buffer is what
\* was received, in order, with changes in the values of Host headers only; of several
\* calls with a buffer that was not consumed, the last one counts.
THEOREM HostValuesOnly == Spec => []OnlyHostChanges
  BY HostOnlyInvariant, RewriteInvariant, HostsChangedOnly, PTL
=============================================================================
