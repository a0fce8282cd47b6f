---------------------------- MODULE HttpRewrite ----------------------------
(***************************************************************************)
(* What zroxy does to what a client sends before it encrypts it for the    *)
(* backend: on_write parses whatever the client's plain buffer holds and   *)
(* zxy_modify_http_headers gives every Host header a new value, in place,  *)
(* one header per turn of its loop.                                        *)
(*                                                                         *)
(* A byte of the buffer is a token: a request line with its end, a         *)
(* header's name with its colon, the beginning of a name that ends like    *)
(* another one, a space or tab, the end of a line, or one other character  *)
(* of a value or of a body.  A request arrives in pieces.  After a call    *)
(* that sent something the buffer is consumed; while the backend's         *)
(* handshake is going on it is not, and on_write sees it again, as the     *)
(* last call left it, with what has arrived since.                         *)
(*                                                                         *)
(* Not modelled: folded header lines, whose name the parser sets to NULL   *)
(* and the loop reads all the same.  The code never asks whether a longer  *)
(* value fits; here there is room.                                         *)
(***************************************************************************)
EXTENDS Integers, Sequences, FiniteSets

CONSTANTS
    Requests,    \* what a client may send on its connection
    NewLen,      \* length of the new value
    MaxHeaders,  \* MAX_NUM_HEADERS
    Space,       \* bound: how many tokens the plain buffer can hold
    MaxCalls     \* bound: how often on_write is called

ASSUME RewriteAssumption ==
    /\ NewLen \in Nat /\ MaxHeaders \in Nat /\ MaxCalls \in Nat \ {0}
    /\ Space \in Nat
    /\ \A q \in Requests : q \in Seq(Int) /\ Len(q) + NewLen <= Space

Line == 1
Crlf == 2
Blank == 3
Host == 11
HostAlias == 12     \* a longer name that begins with "Host"
Accept == 13
Forwarded == 14     \* the "X-Forwarded-" of X-Forwarded-Host, before Host
Names == {Host, HostAlias, Accept}
HostNames == {Host, HostAlias}
New(k) == -k        \* the k-th character of the new value

VARIABLES
    buf,       \* the memory of the plain buffer
    size,      \* its fill level: send_nbytes of the request
    headers,   \* http_commons.headers: where each name and value is
    i,         \* the loop's counter, from 1
    diffrence, \* the result of zxy_modify_http_headers
    pc,        \* parse, modify or queued
    queued,    \* what the last call of on_write gave to the encrypt buffer
    calls,     \* calls of on_write so far
    rest,      \* what the client has not sent yet
    received,  \* history: all that has arrived in the plain buffer
    taken,     \* history: all that was queued from a buffer since consumed
    late       \* history: the buffer was added to after a request was
               \* rewritten in it

vars == <<buf, size, headers, i, diffrence, pc, queued, calls,
          rest, received, taken, late>>
stream == <<rest, received, taken, late>>

-----------------------------------------------------------------------------
(* picohttpparser, as far as zroxy uses it. *)

LeastOf(S) == CHOOSE x \in S : \A y \in S : x <= y
GreatestOf(S) == CHOOSE x \in S : \A y \in S : x >= y

\* Where the request line is: one leading empty line is skipped.
First(q) == IF Len(q) > 0 /\ q[1] = Crlf THEN 2 ELSE 1

\* Where a line begins, after the request line.
LineStarts(q) == {p \in First(q) + 1..Len(q) : p = First(q) + 1 \/ q[p - 1] = Crlf}
EmptyLines(q) == {p \in LineStarts(q) : q[p] = Crlf}
HeaderStarts(q) ==
    LET end == LeastOf(EmptyLines(q)) IN {p \in LineStarts(q) : p < end}
EndOfLine(q, p) == LeastOf({e \in p..Len(q) : q[e] = Crlf})

\* The last token of the name at p, the one with the colon.
NameEnd(q, p) == IF q[p] = Forwarded THEN p + 1 ELSE p

\* A whole request head, with no more headers than there is room for.
Parses(q) ==
    /\ Len(q) > First(q) /\ q[First(q)] = Line
    /\ EmptyLines(q) # {}
    /\ \A p \in HeaderStarts(q) : q[NameEnd(q, p)] \in Names
    /\ Cardinality(HeaderStarts(q)) <= MaxHeaders

\* The header whose name is at p.  Its value begins after the blanks that
\* follow the colon and ends before those that end the line.
HeaderAt(q, p) ==
    LET end == EndOfLine(q, p)
        from == LeastOf({k \in NameEnd(q, p) + 1..end : q[k] # Blank})
        last == GreatestOf({k \in p..end - 1 : k < from \/ q[k] # Blank})
    IN [name |-> p, value |-> from, len |-> last + 1 - from]

\* The headers in order.
Headers(q) ==
    LET starts == HeaderStarts(q)
        nth(k) == CHOOSE p \in starts : Cardinality({r \in starts : r <= p}) = k
    IN [k \in 1..Cardinality(starts) |-> HeaderAt(q, nth(k))]

-----------------------------------------------------------------------------
(* The pieces of zxy_modify_http_headers. *)

Content == SubSeq(buf, 1, size)

\* Mutant: a header of whatever name.
IsNamed(b, h) == b[h.name] \in Names

\* fast_compare over strlen("Host") characters: the rest of the name is not
\* looked at, and a pointer that is out of date may lead to the Host in the middle
\* of a longer name.
IsHost(b, h) == b[h.name] \in HostNames

\* memcpy of the new value to position p.
WithValue(b, p) ==
    [k \in DOMAIN b |-> IF k \in p..p + NewLen - 1 THEN New(k - p + 1) ELSE b[k]]

\* memmove of what follows the value of h, up to the end of the request.
WithTailMoved(b, h) ==
    LET to == h.value + NewLen
        n == size - (h.value + h.len - 1)
    IN [k \in DOMAIN b |->
           IF k \in to..to + n - 1 THEN b[k - NewLen + h.len] ELSE b[k]]

\* Mutants: the new value is copied first, over what is to be moved; the tail
\* is left where it is; everything up to the end of the buffer is moved, the
\* fill level not looked at; the header is replaced from its name on.
LongerCopiedFirst(b, h) == WithTailMoved(WithValue(b, h.value), h)
LongerUnmoved(b, h) == WithValue(b, h.value)
LongerOutgrown(b, h) ==
    SubSeq(b, 1, h.value - 1) \o [k \in 1..NewLen |-> New(k)]
        \o SubSeq(b, h.value + h.len, Len(b))
ShorterOverName(b, h) == WithValue(WithTailMoved(b, h), h.name)

\* A shorter value is copied before the tail is moved, a longer one after it.
Shorter(b, h) == WithTailMoved(WithValue(b, h.value), h)
Longer(b, h) == WithValue(WithTailMoved(b, h), h.value)

\* The pointers "moved" for the next headers: the name of each, but the value
\* of this one, once for each of them.
Moved(hs, n, d) ==
    [k \in DOMAIN hs |->
        CASE k < n -> hs[k]
          [] k = n -> [hs[k] EXCEPT !.value = @ + d * (Len(hs) - n)]
          [] k > n -> [hs[k] EXCEPT !.name = @ + d]]

-----------------------------------------------------------------------------

Init ==
    /\ rest \in Requests
    /\ buf = [k \in 1..Space |-> 0] /\ size = 0
    /\ headers = << >> /\ i = 1 /\ diffrence = 0
    /\ pc = "queued" /\ queued = << >> /\ calls = 0
    /\ received = << >> /\ taken = << >> /\ late = FALSE

\* What of the stream the buffer was filled with since it was last consumed.
Given == SubSeq(received, Len(taken) + 1, Len(received))

\* The next n tokens are appended to a buffer filled up to level at.
Arrives(n, at) ==
    /\ buf' = [k \in DOMAIN buf |-> IF k \in at + 1..at + n THEN rest[k - at]
                                    ELSE buf[k]]
    /\ size' = at + n
    /\ received' = received \o SubSeq(rest, 1, n)
    /\ rest' = SubSeq(rest, n + 1, Len(rest))

\* on_write begins, with a fresh http_request_details on its stack.
Called ==
    /\ pc = "queued" /\ calls < MaxCalls
    /\ pc' = "parse" /\ calls' = calls + 1
    /\ headers' = << >> /\ i' = 1 /\ diffrence' = 0

\* Nothing was consumed since the last call; n tokens have arrived.
CalledAgain(n) ==
    /\ Called
    /\ Arrives(n, size)
    /\ late' = (late \/ (n > 0 /\ Parses(Given)))
    /\ UNCHANGED <<queued, taken>>

\* The buffer was consumed after the last call.
CalledAfresh(n) ==
    /\ size > 0
    /\ Called
    /\ Arrives(n, 0)
    /\ taken' = taken \o queued /\ queued' = << >>
    /\ late' = FALSE

\* zxy_backend_queue_unencrypted_bytes with send_nbytes, to which the result was
\* added.
Queue(b, d) == /\ queued' = SubSeq(b, 1, size + d)
               /\ pc' = "queued"

ParseRequest ==
    /\ pc = "parse" /\ Parses(Content)
    /\ headers' = Headers(Content)
    /\ pc' = "modify"
    /\ UNCHANGED <<buf, size, i, diffrence, queued, calls, stream>>

\* Partial or malformed (pret <= 0): the bytes are forwarded as they are.
ForwardAsIs ==
    /\ pc = "parse" /\ ~Parses(Content)
    /\ Queue(buf, 0)
    /\ UNCHANGED <<buf, size, headers, i, diffrence, calls, stream>>

SkipHeader ==
    /\ pc = "modify" /\ i <= Len(headers)
    /\ ~IsHost(buf, headers[i])
    /\ i' = i + 1
    /\ UNCHANGED <<buf, size, headers, diffrence, pc, queued, calls, stream>>

\* value_len is overwritten before the difference is taken.
ReplaceHeader ==
    /\ pc = "modify" /\ i <= Len(headers)
    /\ IsHost(buf, headers[i]) /\ headers[i].len # NewLen
    /\ LET h == headers[i]
           d == NewLen - NewLen
       IN /\ buf' = IF h.len > NewLen THEN Shorter(buf, h) ELSE Longer(buf, h)
          /\ headers' = Moved([headers EXCEPT ![i].len = NewLen], i, d)
          /\ diffrence' = d
    /\ i' = i + 1
    /\ UNCHANGED <<size, pc, queued, calls, stream>>

\* A value of the same length ends the whole function: "return 0".
ReplaceSameLength ==
    /\ pc = "modify" /\ i <= Len(headers)
    /\ IsHost(buf, headers[i]) /\ headers[i].len = NewLen
    /\ buf' = WithValue(buf, headers[i].value)
    /\ diffrence' = 0
    /\ Queue(buf', 0)
    /\ UNCHANGED <<size, headers, i, calls, stream>>

Done ==
    /\ pc = "modify" /\ i > Len(headers)
    /\ Queue(buf, diffrence)
    /\ UNCHANGED <<buf, size, headers, i, diffrence, calls, stream>>

Next ==
    \/ \E n \in 0..Len(rest) : CalledAgain(n) \/ CalledAfresh(n)
    \/ ParseRequest
    \/ ForwardAsIs
    \/ SkipHeader
    \/ ReplaceHeader
    \/ ReplaceSameLength
    \/ Done

Spec == Init /\ [][Next]_vars

-----------------------------------------------------------------------------
(* Properties. *)

\* Types, and what the loop relies on: the names and values it is given are in
\* the request, and the buffer accounts for what arrived and was not consumed.
TypeOK ==
    /\ buf \in [1..Space -> Int] /\ size = Len(Given)
    /\ \A k \in DOMAIN headers : headers[k].name \in 1..size
                                 /\ headers[k].value + headers[k].len <= Space
    /\ i \in 1..MaxHeaders + 1 /\ diffrence \in Int
    /\ pc \in {"parse", "modify", "queued"}
    /\ queued \in Seq(Int) /\ calls \in 0..MaxCalls
    /\ received \in Seq(Int) /\ rest \in Seq(Int) /\ taken \in Seq(Int)
    /\ late \in BOOLEAN

\* The headers that are to be given the new value, in a request.
HostHeaders(q) ==
    {HeaderAt(q, p) : p \in {r \in HeaderStarts(q) : q[r] \in HostNames}}

\* The request with the value of header h replaced, of whatever length.
Rewritten(q, h) ==
    SubSeq(q, 1, h.value - 1) \o [k \in 1..NewLen |-> New(k)]
        \o SubSeq(q, h.value + h.len, Len(q))

Intended(q) ==
    LET hosts == IF Parses(q) THEN HostHeaders(q) ELSE {}
    IN IF hosts = {} THEN q ELSE Rewritten(q, CHOOSE h \in hosts : TRUE)

\* A request has at most one Host header, and nothing else in it, in a value, in the
\* body or at the end of another name, looks like one: a pointer that is out of date
\* could lead there.  X-Forwarded-Host is such a name: behind a Host value that is
\* longer than the new one it may be taken for a Host header.
OneHost ==
    Parses(Given) =>
        \A j, k \in DOMAIN Given :
            Given[j] \in HostNames /\ Given[k] \in HostNames => j = k

\* The buffer begins with the intended request, all of it.
InFull == LET q == Intended(Given) IN SubSeq(buf, 1, Len(q)) = q

\* A request with at most one Host header is rewritten correctly however long
\* its value is and however often on_write sees it, in how many pieces it
\* comes, as long as nothing arrives behind a request that was rewritten
\* already.
RewrittenInFull == (pc = "queued" /\ OneHost /\ ~late) => InFull

\* What the backend gets of such a request has the length of the old one, for the
\* difference the loop returns is 0 whatever it did: the end of the request is cut
\* off if the new value is longer, and behind it is what was there if it is shorter.
ForwardedAtOldLength ==
    (pc = "queued" /\ OneHost /\ ~late) =>
        LET q == Intended(Given)
            n == Len(Given)
        IN /\ Len(queued) = n
           /\ IF Len(q) < n THEN SubSeq(queued, 1, Len(q)) = q
                            ELSE queued = SubSeq(q, 1, n)

\* The first of them.
FirstHosts(q) ==
    {h \in HostHeaders(q) : \A g \in HostHeaders(q) : h.name <= g.name}

\* With any number of Host headers, and the pointers to the later ones out of
\* date, nothing before the value of the first is ever changed.
HeadUntouched ==
    Parses(Given) =>
        \A h \in FirstHosts(Given) :
            SubSeq(buf, 1, h.value - 1) = SubSeq(Given, 1, h.value - 1)

\* on_write may see the same buffer any number of times while the handshake is
\* going on: as long as nothing arrives it gives the encrypt buffer the same
\* bytes each time.
RewriteIsStable ==
    [][(pc' = "queued" /\ Len(queued) = size /\ OneHost) => queued' = queued]_vars

\* All that the client sends on its connection.
Original == received \o rest

\* How much of q is before a request in it: on_write takes whatever piece of the
\* stream begins like one for a request.
From(q, d) == SubSeq(q, d + 1, Len(q))
RequestStarts(q) == {d \in 0..Len(q) : Parses(From(q, d))}

\* Position k of q is in the value of a Host header of a request.
InHostValue(q, k) ==
    \E d \in RequestStarts(q) :
        \E h \in HostHeaders(From(q, d)) : k - d \in h.value..h.value + h.len - 1

\* All Host headers have values of the new length.
SameLengths(q) ==
    \A d \in RequestStarts(q) : \A h \in HostHeaders(From(q, d)) : h.len = NewLen

\* However what the client sends is cut into pieces, and whichever of them are
\* taken for requests: where no value changes its length, what is queued for the
\* backend differs from it in the values of Host headers only.
OnlyHostChanges ==
    (pc = "queued" /\ SameLengths(Original)) =>
        LET sent == taken \o queued
        IN \A k \in DOMAIN sent : sent[k] = received[k] \/ InHostValue(Original, k)

-----------------------------------------------------------------------------
(* The inductive invariant behind TypeOK and HeadUntouched. *)

\* What arrived is what was consumed and what is in the buffer; the loop's
\* pointers lie in the request, and there is room for a longer value.
Accounts ==
    /\ Len(received) + Len(rest) + NewLen <= Space
    /\ Len(taken) + size = Len(received)
    /\ pc = "queued" => Len(queued) = size
    /\ diffrence = 0
    /\ headers \in Seq([name : 1..size, value : 1..size, len : Nat])
    /\ Len(headers) <= MaxHeaders

\* A header that may be replaced is not before the first Host header of what was
\* given, although it was found in what the last call left of that.
PointersBehind ==
    pc = "modify" =>
        \A h \in FirstHosts(Given), k \in DOMAIN headers :
            \/ headers[k].value >= h.value
            \/ headers[k].name < h.value /\ ~IsHost(Given, headers[k])

\* The inductive invariant: what is not a request yet is in the buffer as it came,
\* and in what is one, no pointer leads to anything before the first Host value.
RewriteInv ==
    /\ TypeOK /\ Accounts
    /\ ~Parses(Given) => pc # "modify" /\ Content = Given
    /\ HeadUntouched /\ PointersBehind

\* Rewriting q again changes nothing: its Host values are the new one.
Settled(q) ==
    Parses(q) => \A h \in HostHeaders(q) :
        h.len = NewLen /\ \A k \in 1..NewLen : q[h.value + k - 1] = New(k)

\* The loop has replaced nothing so far: its pointers are what the parser found.
Unreplaced ==
    /\ Parses(Content) /\ headers = Headers(Content)
    /\ \A k \in 1..i - 1 : ~IsHost(buf, headers[k])

\* It has, and none of the pointers that are left leads to a Host name.
Replaced ==
    /\ Settled(Content)
    /\ \A k \in i..Len(headers) : ~IsHost(buf, headers[k])

\* Where the buffer has a Host name, there was one in what was given.
HostStays == \A k \in 1..size : buf[k] \in HostNames => Given[k] \in HostNames

\* What was queued is settled as long as nothing has arrived since.
QueuedSettled == Len(queued) = size => queued = Content /\ Settled(Content)

\* A request nothing was added to is the intended one, if it was rewritten, and
\* else the one that was given.
GivenOrFull ==
    Parses(Given) /\ ~late =>
        \/ InFull /\ (Len(queued) = size \/ (pc = "modify" /\ Replaced))
        \/ pc # "queued" /\ Content = Given /\ (pc = "modify" => Unreplaced)

\* The inductive invariant behind RewrittenInFull and RewriteIsStable, beside
\* RewriteInv.
OneHostInv ==
    OneHost =>
        /\ pc = "parse" => i = 1
        /\ pc = "modify" => Unreplaced \/ Replaced
        /\ HostStays /\ QueuedSettled /\ GivenOrFull

\* s is what the client sends, but for the values of Host headers.
HostsOnly(s) == \A k \in DOMAIN s : s[k] = Original[k] \/ InHostValue(Original, k)

\* Position k of the buffer has a character of the new value where there was one of
\* a Host header's.
NewThere(k) ==
    /\ Parses(Given) /\ buf[k] < 0
    /\ \E h \in HostHeaders(Given) : k \in h.value..h.value + h.len - 1

BufferHostsOnly == \A k \in 1..size : buf[k] = Given[k] \/ NewThere(k)

\* The Host headers the loop is given are those of what was given.
HostsPointedTo ==
    pc = "modify" =>
        \A k \in DOMAIN headers :
            IsHost(buf, headers[k]) => headers[k] \in HostHeaders(Given)

\* The inductive invariant behind OnlyHostChanges, beside RewriteInv: the buffer,
\* too, differs from what was given in Host values only, which is why the parser
\* finds in it the Host headers that were given.
HostOnlyInv ==
    SameLengths(Original) =>
        HostsOnly(taken \o queued) /\ BufferHostsOnly /\ HostsPointedTo

=============================================================================
