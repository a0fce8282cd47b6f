-------------------------------- MODULE Relay --------------------------------
(***************************************************************************)
(* The data path of one proxied connection: what the callbacks of the      *)
(* client and of the backend socket read, decrypt, queue, encrypt and send *)
(* on every readiness event, while the peers shake hands, talk, hang up,   *)
(* and are slow to drain their sockets.                                    *)
(*                                                                         *)
(* Each side is of a kind: plain, or TLS with the handshake of version 1.2 *)
(* or 1.3, which the SSLv23 methods negotiate.  The callbacks reach each   *)
(* other through the function pointers of the two sides, so every pair of  *)
(* kinds can be composed.                                                  *)
(*                                                                         *)
(* Bytes are tokens.  A peer sends 1, 2, 3, ...; Hello and Fin stand for   *)
(* the flights of a handshake; Zero is a cleared byte and Junk one that    *)
(* was never queued.  A token is one TLS record: OpenSSL (external) passes *)
(* it on unchanged once the handshake is finished and keeps nothing back.  *)
(*                                                                         *)
(* Freeing, and numbers that are handed out again, are ProxyLifecycle's.   *)
(***************************************************************************)
EXTENDS Integers, Sequences, Functions

CONSTANTS
    Kinds,          \* the pairs of kinds to try, see KindPairs
    ClientTokens,   \* how many tokens the client sends
    BackendTokens,  \* how many tokens the backend sends
    Chunk,          \* READ_BUF_SIZE: the tokens one recv returns at most
    Room,           \* the tokens a socket's send buffer holds
    MaxDrains,      \* bound: how often a full send buffer is drained
    Early,          \* peers may talk before both handshakes are finished
    HangUps         \* the peers that may hang up

Sides == {"client", "backend"}
Other(side) == IF side = "client" THEN "backend" ELSE "client"
KindPairs == [Sides -> {"plain", "tls12", "tls13"}]

ASSUME ConstantsAssumption ==
    /\ Kinds \subseteq KindPairs
    /\ ClientTokens \in Nat /\ BackendTokens \in Nat
    /\ Chunk \in Nat \ {0} /\ Room \in Nat \ {0} /\ MaxDrains \in Nat
    /\ Early \in BOOLEAN /\ HangUps \subseteq Sides

Zero == 0
Hello == -1
Fin == -2
Junk == -3
Tokens(side) == IF side = "client" THEN ClientTokens ELSE BackendTokens
Smaller(m, n) == IF m < n THEN m ELSE n
Has(q, x) == \E i \in DOMAIN q : q[i] = x
Before(q, i, x) == \E j \in 1..i - 1 : q[j] = x
Once(q, x) == \A i \in DOMAIN q : q[i] = x => ~Before(q, i, x)

WOULD_BLOCK == -1
UNKOWN_ERROR == -2

VARIABLES
    kind,     \* of each side
    conn,     \* the connection struct of each side (see NewConn)
    inbox,    \* received by the kernel, not yet by recv
    out,      \* everything sent to the peer
    room,     \* free tokens of the send buffer
    drains,   \* drains so far, for the bound
    edge,     \* sockets with an edge epoll_wait has not reported
    pend,     \* events of the last epoll_wait not yet dispatched
    canWrite, \* sockets whose remembered events contain EPOLLOUT
    closed,   \* sides with is_closed
    peer,     \* handshake of the remote end
    sent,     \* tokens the remote end sent
    gone,     \* remote ends that hung up
    up        \* the process runs

vars == <<kind, conn, inbox, out, room, drains, edge, pend, canWrite, closed,
          peer, sent, gone, up>>
zroxy == <<kind, conn, out, pend, canWrite, closed, up>>

\* Of a handshake: half is over for a side that has answered or asked, last for
\* a remote end that waits for the other one's Fin.
Stages == {"start", "half", "last", "done"}

\* hs: the SSL object's handshake.  plain: plain_buffer_manager, decrypted and
\* wanted by the other side.  enc: encrypt_buffer_manager, to be encrypted for
\* this side.  writing: writing_buffer_manager, encrypted and not yet sent.
\* A plain side has one buffer, buffer_manager, which is used as plain.
NewConn(k) == [hs |-> IF k = "plain" THEN "done" ELSE "start",
               plain |-> << >>, enc |-> << >>, writing |-> << >>]

Init ==
    /\ kind \in Kinds
    /\ conn = [s \in Sides |-> NewConn(kind[s])]
    /\ inbox = [s \in Sides |-> << >>]
    /\ out = [s \in Sides |-> << >>]
    /\ room = [s \in Sides |-> Room]
    /\ drains = 0
    /\ edge = Sides
    /\ pend = [s \in Sides |-> {}]
    /\ canWrite = {} /\ closed = {}
    /\ peer = [s \in Sides |-> conn[s].hs]
    /\ sent = [s \in Sides |-> 0]
    /\ gone = {} /\ up = TRUE

-----------------------------------------------------------------------------
(* The peers and the kernel. *)

\* What the peer can decrypt: a junk byte ruins the TLS stream for good.
Received(side, x) ==
    \E i \in DOMAIN out[side] :
        out[side][i] = x /\ ~Before(out[side], i, Junk)

Deliver(side, x) ==
    /\ inbox' = [inbox EXCEPT ![side] = Append(@, x)]
    /\ edge' = edge \cup {side}

\* A remote end goes from one stage of its handshake to another.
Shakes(side, from, to) ==
    /\ side \notin gone /\ peer[side] = from
    /\ peer' = [peer EXCEPT ![side] = to]
    /\ UNCHANGED <<zroxy, room, drains, sent, gone>>

\* The client opens the handshake and answers zroxy's flight with its last one;
\* in version 1.2 it waits for zroxy's.
ClientShakes ==
    \/ Shakes("client", "start", "half") /\ Deliver("client", Hello)
    \/ /\ Received("client", Hello) /\ Deliver("client", Fin)
       /\ Shakes("client", "half",
                 IF kind["client"] = "tls12" THEN "last" ELSE "done")
    \/ /\ Received("client", Fin) /\ UNCHANGED <<inbox, edge>>
       /\ Shakes("client", "last", "done")

\* The backend answers zroxy's hello and waits for its last flight; in version
\* 1.2 it has a last one of its own.
BackendShakes ==
    \/ /\ Received("backend", Hello) /\ Deliver("backend", Hello)
       /\ Shakes("backend", "start", "half")
    \/ /\ Received("backend", Fin)
       /\ IF kind["backend"] = "tls12" THEN Deliver("backend", Fin)
                                       ELSE UNCHANGED <<inbox, edge>>
       /\ Shakes("backend", "half", "done")

Established == \A s \in Sides : conn[s].hs = "done" /\ peer[s] = "done"

PeerSends(side) ==
    /\ side \notin gone
    /\ peer[side] = "done" /\ sent[side] < Tokens(side)
    /\ Early \/ Established
    /\ sent' = [sent EXCEPT ![side] = @ + 1]
    /\ Deliver(side, sent[side] + 1)
    /\ UNCHANGED <<zroxy, room, drains, peer, gone>>

\* The peer drains a socket that was full: EPOLLOUT is raised again.
Drain(side) ==
    /\ side \notin gone
    /\ room[side] = 0 /\ drains < MaxDrains
    /\ room' = [room EXCEPT ![side] = Room]
    /\ edge' = edge \cup {side}
    /\ drains' = drains + 1
    /\ UNCHANGED <<zroxy, inbox, peer, sent, gone>>

\* The peer resets its connection.
HangUp(side) ==
    /\ side \in HangUps \ gone
    /\ gone' = gone \cup {side}
    /\ edge' = edge \cup {side}
    /\ UNCHANGED <<zroxy, inbox, room, drains, peer, sent>>

\* Edge triggered: every pending edge is reported once, with all the events
\* the socket is ready for at that moment; a reset socket is ready for all.
ReadyFor(side) ==
    IF side \in gone THEN {"in", "out", "hup"}
    ELSE (IF inbox[side] # << >> THEN {"in"} ELSE {})
             \cup (IF room[side] > 0 THEN {"out"} ELSE {})

Dispatched == \A s \in Sides : pend[s] = {}

EpollWait ==
    /\ up /\ Dispatched /\ edge \ closed # {}
    /\ pend' = [s \in Sides |-> IF s \in edge \ closed THEN ReadyFor(s) ELSE {}]
    /\ edge' = {}
    /\ UNCHANGED <<kind, conn, inbox, out, room, drains, canWrite, closed,
                   peer, sent, gone, up>>

-----------------------------------------------------------------------------
(* The callbacks, as functions on the structs they change. *)

\* The flight that finishes zroxy's handshake with a remote end.
LastFlight(side, k) == IF side = "client" \/ k = "tls12" THEN Fin ELSE Hello

Shaken(side, k, hs, q) ==
    IF Has(q, LastFlight(side, k)) THEN "done"
    ELSE IF Has(q, Hello) THEN "half" ELSE hs

\* proccess_ssl_bytes: what SSL_accept or SSL_connect has to say to a flight is
\* queued, after the call or, when the handshake is finished, after SSL_read.
Answer(side, k, q) ==
    LET first == IF side = "client" THEN <<Hello>> ELSE <<Fin>>
    IN (IF Has(q, Hello) THEN first ELSE << >>)
           \o (IF side = "client" /\ k = "tls12" /\ Has(q, Fin) THEN <<Fin>>
                                                              ELSE << >>)

IsData(x) == x > 0

\* How many flights q starts with: they come once each, and before any data.
Flights(q) == (IF Has(q, Hello) THEN 1 ELSE 0) + (IF Has(q, Fin) THEN 1 ELSE 0)

\* Mutants of Decrypted: the socket's bytes are taken as they are; SSL_read is
\* called once instead of until it has nothing more.
Undecrypted(q) == q
DecryptedOnce(q) == SubSeq(q, Flights(q) + 1, Smaller(1, Len(q)))

\* What the SSL_read loop yields once the handshake is finished.
Decrypted(q) == SubSeq(q, Flights(q) + 1, Len(q))

TlsRead(x, side, k, q) ==
    LET hs == Shaken(side, k, x.hs, q)
    IN [x EXCEPT !.hs = hs,
                 !.writing = @ \o Answer(side, k, q),
                 !.plain = IF hs = "done" THEN @ \o Decrypted(q) ELSE @]

\* A plain side reads into the buffer the other side sends from.
PlainRead(x, q) == [x EXCEPT !.plain = @ \o q]

OnRead(x, side, q) ==
    IF kind[side] = "plain" THEN PlainRead(x, q)
                            ELSE TlsRead(x, side, kind[side], q)

\* The SSL_write loop: all of enc is encrypted.
Sealed(x) == [x EXCEPT !.writing = @ \o x.enc, !.enc = << >>]

\* Mutant of Greeted: every write before the end of the handshake starts it anew.
GreetedAgain(x, side) ==
    IF side = "backend" /\ x.hs # "done"
    THEN [x EXCEPT !.hs = "half", !.writing = Append(@, Hello)]
    ELSE x

\* The backend side starts its handshake when it is first written to.
Greeted(x, side) ==
    IF side = "backend" /\ x.hs = "start"
    THEN [x EXCEPT !.hs = "half", !.writing = Append(@, Hello)]
    ELSE x

\* Mutant of Encrypt: the handshake is not awaited.
EncryptUnshaken(x, side) == Sealed(Greeted(x, side))

\* encrypt_io_req: what is to be encrypted stays in enc until the handshake is
\* finished.
Encrypt(x, side) == IF x.hs = "done" THEN Sealed(x) ELSE Greeted(x, side)

\* The result of send for n bytes.  A reset or closed socket fails; the signal
\* it may raise as well is ProxyLifecycle's.
Sends(side, n) ==
    IF side \in gone THEN UNKOWN_ERROR
    ELSE IF room[side] = 0 THEN WOULD_BLOCK ELSE Smaller(n, room[side])

\* Mutant of Unsent: a short send is taken for a complete one.
UnsentNothing(q, n) == IF n < 0 THEN [i \in 1..-n |-> Junk] \o q ELSE << >>

\* The memmove after send.  A negative result is taken for a number of bytes:
\* the buffer moves up and what lies before it becomes its first bytes.
Unsent(q, n) ==
    IF n < 0 THEN [i \in 1..-n |-> Junk] \o q ELSE SubSeq(q, n + 1, Len(q))

\* on_write of a TLS side: queue, encrypt, send.  "result" is what it returns,
\* the number of tokens of the request unless nothing could be sent; "bytes"
\* goes out; "request" is what is left in the memory of the request.
TlsWrite(old, side, request) ==
    LET x == Encrypt([old EXCEPT !.enc = @ \o request], side)
        n == Sends(side, Len(x.writing))
    IN IF x.writing = << >>
       THEN [conn |-> x, bytes |-> << >>, result |-> 0, request |-> request]
       ELSE [conn |-> [x EXCEPT !.writing = Unsent(@, n)],
             bytes |-> SubSeq(x.writing, 1, n),
             result |-> IF n < 0 THEN n ELSE Len(request),
             request |-> request]

\* Mutant of Cleared: send_and_clear does not clear.
Uncleared(q, n) == q

\* memset of what was sent.
Cleared(q, n) == [i \in DOMAIN q |-> IF i <= n THEN Zero ELSE q[i]]

\* on_write of a plain side: send from the other side's buffer and clear what
\* was sent.
PlainWrite(x, side, request) ==
    LET n == Sends(side, Len(request))
    IN [conn |-> x, bytes |-> SubSeq(request, 1, n), result |-> n,
        request |-> Cleared(request, n)]

\* A step of the relay in which on_write is not called.
NotWritten(x, request) ==
    [conn |-> x, bytes |-> << >>, result |-> 0, request |-> request]

OnWrite(x, side, request) ==
    IF kind[side] = "plain" THEN PlainWrite(x, side, request)
                            ELSE TlsWrite(x, side, request)

\* Mutant of OnWriteEvent: the guard that is commented out in the code.
OnWriteIfAny(x, side, request) ==
    IF request = << >> THEN NotWritten(x, request) ELSE OnWrite(x, side, request)

\* on_write as the EPOLLOUT branch calls it, with an empty request too: the
\* handshake depends on it.
OnWriteEvent(x, side, request) == OnWrite(x, side, request)

\* Mutant of ReadNBytes: nothing is consumed.
ReadNone(q, n) == q

\* read_nbytes: the first n tokens of plain are consumed.
ReadNBytes(q, n) == IF n <= 0 THEN q ELSE SubSeq(q, n + 1, Len(q))

\* Nobody sets read_nbytes of a plain client: the call goes to NULL.
CannotRead(side) == side = "client" /\ kind[side] = "plain"

\* What the thread does for the events of a side, as a record of what changes:
\* read this side and write to the other if it was last seen writable; then
\* write to this side what the other has to say (and leave it there).
Handled(side) ==
    LET other == Other(side)
        n == IF "in" \in pend[side] THEN Smaller(Chunk, Len(inbox[side])) ELSE 0
        writes == n > 0 /\ other \in canWrite
        dies == writes /\ CannotRead(side)
        read == OnRead(conn[side], side, SubSeq(inbox[side], 1, n))
        there == IF writes THEN OnWrite(conn[other], other, read.plain)
                           ELSE NotWritten(conn[other], read.plain)
        self == [read EXCEPT !.plain = ReadNBytes(there.request, there.result)]
        here == IF "out" \in pend[side] /\ ~dies
                THEN OnWriteEvent(self, side, there.conn.plain)
                ELSE NotWritten(self, there.conn.plain)
    IN [read |-> n, dies |-> dies,
        conn |-> [s \in Sides |->
                     IF s = side THEN here.conn
                     ELSE [there.conn EXCEPT !.plain = here.request]],
        bytes |-> [s \in Sides |-> IF s = side THEN here.bytes ELSE there.bytes]]

\* zxy_handle_client_events and zxy_handle_backend_events, mirror images.
HandleEvents(side) ==
    /\ up /\ pend[side] # {} /\ "hup" \notin pend[side]
    /\ pend' = [pend EXCEPT ![side] = {}]
    /\ canWrite' = IF "out" \in pend[side] THEN canWrite \cup {side}
                                           ELSE canWrite \ {side}
    /\ \E h \in {Handled(side)} :
           /\ up' = ~h.dies
           /\ inbox' = [inbox EXCEPT ![side] = SubSeq(@, h.read + 1, Len(@))]
           /\ conn' = h.conn
           /\ out' = [s \in Sides |-> out[s] \o h.bytes[s]]
           /\ room' = [s \in Sides |-> room[s] - Len(h.bytes[s])]
    /\ UNCHANGED <<kind, drains, edge, closed, peer, sent, gone>>

\* A hang-up goes first, and nothing else is looked at: on_close.
HandleClose(side) ==
    /\ up /\ "hup" \in pend[side]
    /\ pend' = [pend EXCEPT ![side] = {}]
    /\ canWrite' = canWrite \cup {side}
    /\ closed' = closed \cup {side}
    /\ UNCHANGED <<kind, conn, inbox, out, room, drains, edge, peer, sent, gone, up>>

Next ==
    \/ ClientShakes
    \/ BackendShakes
    \/ \E s \in Sides : PeerSends(s)
    \/ \E s \in Sides : Drain(s)
    \/ \E s \in Sides : HangUp(s)
    \/ EpollWait
    \/ \E s \in Sides : HandleEvents(s)
    \/ \E s \in Sides : HandleClose(s)

Spec == Init /\ [][Next]_vars

\* The single thread keeps running and the peers go on with the handshake.
FairSpec ==
    /\ Spec
    /\ WF_vars(EpollWait)
    /\ \A s \in Sides : WF_vars(HandleEvents(s)) /\ WF_vars(HandleClose(s))
    /\ WF_vars(ClientShakes) /\ WF_vars(BackendShakes)

-----------------------------------------------------------------------------
(* Properties. *)

Symbols(side) == {Zero, Hello, Fin, Junk} \cup 1..Tokens(side)
Conn(side) == [hs : Stages,
               plain : Seq({Zero} \cup 1..Tokens(side)),
               enc : Seq(1..Tokens(Other(side))),
               writing : Seq(Symbols(Other(side)))]

TypeOK ==
    /\ kind \in KindPairs
    /\ DOMAIN conn = Sides
    /\ inbox \in [Sides -> Seq(Int)] /\ out \in [Sides -> Seq(Int)]
    /\ \A s \in Sides : /\ conn[s] \in Conn(s)
                        /\ inbox[s] \in Seq(Symbols(s))
                        /\ out[s] \in Seq(Symbols(Other(s)))
                        /\ sent[s] <= Tokens(s)
    /\ sent \in [Sides -> Nat]
    /\ room \in [Sides -> 0..Room]
    /\ drains \in 0..MaxDrains
    /\ edge \subseteq Sides /\ canWrite \subseteq Sides
    /\ closed \subseteq gone /\ gone \subseteq HangUps
    /\ pend \in [Sides -> SUBSET {"in", "out", "hup"}]
    /\ peer \in [Sides -> Stages]
    /\ up \in BOOLEAN

\* All that is on its way to a side, the oldest first: sent, encrypted, waiting
\* for encryption, and decrypted at the other side.
Stream(side) ==
    out[side] \o conn[side].writing \o conn[side].enc \o conn[Other(side)].plain

\* Token t was read from a side's socket.
Taken(side, t) == t \in 1..sent[side] /\ ~Has(inbox[side], t)

\* Nothing is lost and nothing overtakes: every token read from a socket is
\* still on its way or sent, whatever handshakes, short, blocked and failed sends
\* happened, and no token comes before the first copy of its predecessor.
StreamIntegrity ==
    \A s \in Sides :
        LET q == Stream(s)
        IN /\ \A t \in 1..sent[Other(s)] : Taken(Other(s), t) => Has(q, t)
           /\ \A i \in DOMAIN q : q[i] > 1 => Before(q, i, q[i] - 1)

\* The flights zroxy sends to a TLS side.
FlightsTo(side) == IF side = "client" /\ kind[side] = "tls13" THEN {Hello}
                                                              ELSE {Hello, Fin}

\* No data is encrypted for a TLS side or sent to it before that side's handshake
\* is finished, and its flights go out in order and once: the hello first, then
\* the last flight where there is one, then data.
HandshakeFirst ==
    \A s \in Sides :
        LET q == out[s] \o conn[s].writing
        IN kind[s] # "plain" =>
               \A i \in DOMAIN q :
                   \/ q[i] = Junk
                   \/ q[i] \in FlightsTo(s) /\ Once(q, q[i])
                          /\ (q[i] = Fin => Before(q, i, Hello))
                   \/ IsData(q[i]) /\ conn[s].hs = "done"
                          /\ \A x \in FlightsTo(s) : Before(q, i, x)

\* A plain side never gets a token twice, although the EPOLLOUT branch leaves in
\* the buffer what it has sent: what was sent is cleared there.
PlainWrittenOnce ==
    \A s \in Sides : \A t \in 1..Tokens(Other(s)) :
        kind[s] = "plain" => Once(Stream(s), t)

\* Exactly once: if the peers wait for both handshakes and no socket is ever
\* full, no copy of a forwarded token is left behind in any of the buffers it
\* went through, so none is ever sent again, unless the peer has hung up.
ExactlyOnce ==
    \A s \in Sides \ gone : \A t \in 1..Tokens(Other(s)) : Once(Stream(s), t)

\* What a TLS peer decrypts of q: everything but the flights of the handshake, a
\* cleared or a foreign byte too; first of its n first elements.
PayloadUpTo(q) ==
    LET f[n \in 0..Len(q)] == IF n = 0 THEN << >>
                              ELSE IF q[n] \in {Hello, Fin} THEN f[n - 1]
                              ELSE Append(f[n - 1], q[n])
    IN f
Payload(q) == PayloadUpTo(q)[Len(q)]

\* Under the same conditions zroxy is an ordered channel to each TLS side: what
\* the peer there decrypts is a prefix of what the other one sent and nothing
\* else, see Channel.  Of a plain side nothing is said, see OnlyPlainData.
OrderedChannel == INSTANCE Channel WITH
    got <- [s \in Sides |-> IF kind[s] = "plain" THEN << >> ELSE Payload(out[s])]
IsChannel == OrderedChannel!Spec

\* zroxy gets both handshakes finished, the one it answers and the one it has to
\* start, if nobody hangs up.
HandshakesFinish == <>(Established \/ gone # {})

\* What zroxy has read from one peer reaches the other one, even if the first
\* one is gone by then: it is not lost with the side that is closed.
Delivered ==
    \A s \in Sides : \A t \in 1..Tokens(s) :
        Taken(s, t) ~> (Received(Other(s), t) \/ Other(s) \in gone \/ ~up)

-----------------------------------------------------------------------------
(* The inductive invariant behind the safety properties. *)

Seen(S, q, i) == S \cup {q[j] : j \in 1..i - 1}

\* What q may be when S went before it: no token comes before its predecessor; no
\* token comes twice; flights come once, in order, and before data.
Follows(S, q) == \A i \in DOMAIN q : q[i] > 1 => q[i] - 1 \in Seen(S, q, i)
Fresh(S, q) == \A i \in DOMAIN q : IsData(q[i]) => q[i] \notin Seen(S, q, i)
Introduced(flights, S, q) ==
    \A i \in DOMAIN q :
        \/ q[i] = Junk
        \/ /\ q[i] \in flights /\ q[i] \notin Seen(S, q, i)
           /\ q[i] = Fin => Hello \in Seen(S, q, i)
        \/ IsData(q[i]) /\ flights \subseteq Seen(S, q, i)

\* The way to a side of kind k whose peer's first m tokens were read: a is out, w
\* writing, e enc, and p the other side's plain.
FlowOK(k, flights, hs, a, w, e, p, m) ==
    LET symbols == {Zero, Hello, Fin, Junk} \cup 1..m
    IN /\ m \in Nat
       /\ a \in Seq(symbols) /\ w \in Seq(symbols)
       /\ e \in Seq(1..m) /\ p \in Seq(0..m)
       /\ 1..m \subseteq Range(a) \cup Range(w) \cup Range(e) \cup Range(p)
       /\ Follows({}, a) /\ Follows(Range(a), w)
       /\ Follows(Range(a) \cup Range(w), e)
       /\ Follows(Range(a) \cup Range(w) \cup Range(e), p)
       /\ k = "plain" => /\ w = << >> /\ e = << >>
                         /\ Fresh({}, a) /\ Fresh(Range(a), p)
       /\ k # "plain" =>
              /\ Introduced(flights, {}, a) /\ Introduced(flights, Range(a), w)
              /\ Zero \notin Range(p)
              /\ hs # "done" => \A x \in Range(a) \cup Range(w) : ~IsData(x)

TakenFrom(side) == sent[side] - (Len(inbox[side]) - Flights(inbox[side]))

FlowInv(side) ==
    FlowOK(kind[side], FlightsTo(side), conn[side].hs, out[side],
           conn[side].writing, conn[side].enc, conn[Other(side)].plain,
           TakenFrom(Other(side)))

\* A socket holds the given flights and then the newest of n tokens.
InboxIs(q, flights, n) ==
    /\ Len(flights) <= Len(q) /\ Len(q) - Len(flights) <= n
    /\ \A i \in DOMAIN q :
           q[i] = IF i <= Len(flights) THEN flights[i] ELSE n - (Len(q) - i)

\* A handshake is at one of a few points, known to zroxy, to the remote end, and
\* by the flights that are in the socket (q) or were sent or queued (said).
ClientAt(k, hs, stage, q, n, said) ==
    LET late == IF k = "tls12" THEN "last" ELSE "done"
    IN \/ /\ hs = "start" /\ stage = "start" /\ said = {} /\ InboxIs(q, << >>, n)
       \/ /\ hs = "start" /\ stage = "half" /\ said = {} /\ InboxIs(q, <<Hello>>, n)
       \/ /\ hs = "half" /\ stage = "half" /\ said = {Hello}
          /\ InboxIs(q, << >>, n)
       \/ /\ hs = "half" /\ stage = late /\ said = {Hello} /\ InboxIs(q, <<Fin>>, n)
       \/ /\ hs = "done" /\ stage \in {late, "done"} /\ InboxIs(q, << >>, n)
          /\ said = IF k = "tls12" THEN {Hello, Fin} ELSE {Hello}

BackendAt(k, hs, stage, q, n, said) ==
    \/ /\ hs = "start" /\ stage = "start" /\ said = {} /\ InboxIs(q, << >>, n)
    \/ /\ hs = "half" /\ stage = "start" /\ said = {Hello} /\ InboxIs(q, << >>, n)
    \/ /\ hs = "half" /\ stage = "half" /\ said = {Hello} /\ InboxIs(q, <<Hello>>, n)
    \/ /\ k = "tls12" /\ hs = "half" /\ said = {Hello, Fin}
       /\ \/ stage = "half" /\ InboxIs(q, << >>, n)
          \/ stage = "done" /\ InboxIs(q, <<Fin>>, n)
    \/ /\ hs = "done" /\ said = {Hello, Fin} /\ InboxIs(q, << >>, n)
       /\ stage = "done" \/ (k = "tls13" /\ stage = "half")

HandshakeAt(side, k, hs, stage, q, n, said) ==
    /\ n > 0 => stage = "done"
    /\ IF k = "plain" THEN hs = "done" /\ stage = "done" /\ InboxIs(q, << >>, n)
       ELSE IF side = "client" THEN ClientAt(k, hs, stage, q, n, said)
       ELSE BackendAt(k, hs, stage, q, n, said)

SaidTo(side) == (Range(out[side]) \cup Range(conn[side].writing)) \cap {Hello, Fin}

HandshakeInv(side) ==
    HandshakeAt(side, kind[side], conn[side].hs, peer[side], inbox[side],
                sent[side], SaidTo(side))

\* A hang-up is reported of a remote end that is gone.
HangUpInv == \A s \in Sides : "hup" \in pend[s] => s \in gone

\* The inductive invariant.  What SSL_do_handshake has said, what the remote end
\* has answered and what waits in the socket always agree; and every token read
\* from a socket is in the send buffers, the buffer to be encrypted or the other
\* side's plain buffer, none before its predecessor, none before the flights.
RelayInv ==
    TypeOK /\ HangUpInv /\ \A s \in Sides : HandshakeInv(s) /\ FlowInv(s)

\* No socket is full: no send is short of more than what it was given, or blocks.
NeverFull == \A s \in Sides : room[s] > 0

\* What else is invariant if the peers wait for both handshakes and no socket is
\* ever full.  Every event reports EPOLLOUT, so a side whose handshake is finished
\* can be written to; data is only read when both are; and so what is read is
\* written at once: a TLS side that is there has nothing waiting for encryption
\* or at the other side, and what was sent to it or will be is new and was queued.
CalmInv ==
    /\ \A s \in Sides : pend[s] # {} => "out" \in pend[s]
    /\ \A s \in Sides : sent[s] > 0 => \A z \in Sides : conn[z].hs = "done"
    /\ \A s \in Sides : kind[s] # "plain" =>
           /\ conn[s].hs = "done" => s \in canWrite
           /\ Fresh({}, out[s]) /\ Junk \notin Range(out[s])
           /\ s \notin gone => /\ conn[s].enc = << >> /\ conn[Other(s)].plain = << >>
                               /\ Fresh(Range(out[s]), conn[s].writing)
                               /\ Junk \notin Range(conn[s].writing)

-----------------------------------------------------------------------------
(* What comments of the code promise and the code does not do. *)

\* "\return Number of writen bytes." (events/peers/ssl/ssl_backend_callbacks.h,
\* on_write): the caller consumes what on_write took, so nothing is written
\* twice.
WrittenOnce == \A s \in Sides : \A t \in 1..Tokens(Other(s)) : Once(out[s], t)

\* "Return number of the written bytes, or return -1 on block" (utils/io/
\* io_helper.h): what zroxy puts on the wire are bytes it was given.
OnlyQueuedBytes == \A s \in Sides : ~Has(out[s], Junk)

\* "Get write request from the ssl data for writing in another resource."
\* (events/peers/ssl/ssl_client_callbacks.h, request_buffer_reader), from the
\* "buffer manager that is use for reading plain data" (client_types.h): what a
\* side is asked to send was read from the other one and is no cleared byte.  But
\* what the EPOLLOUT branch had a plain side send is cleared and not consumed, so
\* the next request begins with it.
OnlyPlainData == \A s \in Sides : ~Has(out[s], Zero)

=============================================================================
