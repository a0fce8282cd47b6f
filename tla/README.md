# Formal models of zroxy

zroxy is a single-threaded TLS reverse proxy: it accepts clients, connects each
to a backend, terminates TLS on both sides and forwards decrypted data between
them. This directory holds TLA+ models of its core, TLC configurations that
check them on small instances, and TLAPS proofs that hold for every instance.
Paths below are relative to `src/src/`.

## 1. Inventory of the system

| part | state | operations | interacts by |
|---|---|---|---|
| event loop (`events/io/epoll_manager.c`) | epoll set, free list `entry` | register, deregister, wait, dispatch a batch, sweep the free list | raw handler pointers in epoll events |
| listener (`server/server.c`, `connections/handle_client.c`) | listening socket | accept until EAGAIN; connect a backend; build and register a connection | calls the constructors and the loop |
| connection construction (`connections/`) | - | allocate proxy object, two base structs, two connection structs, three handlers | - |
| proxy callbacks (`events/peers/proxy_callbacks.c`) | proxy object: reference counter, `timer_status_and_fd` | client, backend and timer events; deferred release | function pointers of the two sides |
| TLS callbacks (`events/peers/ssl/`) | per side: descriptor, remembered events, `is_closed`, SSL object, four buffers | read, write, close, force close, free, ready test, consume | memory BIOs of OpenSSL, socket calls |
| plain callbacks (`events/peers/plain/`) | per side: descriptor, remembered events, one buffer | the same | socket calls; never instantiated by the program |
| timers (`utils/timer/`, `events/timers/`) | timer descriptor | create, re-arm, release | timerfd, epoll |
| socket I/O (`utils/io/io_helper.c`) | - | recv, send, send and clear | return codes WOULD_BLOCK, UNKOWN_ERROR |
| buffer manager (`utils/io/buffer_manager.c`) | buffer, recorded size, fill level | grow, test, advance, retreat | used by all callbacks |
| circular buffer (`utils/io/circular_buffer.c`) | ring | create, grow, write, get | unused by the program |
| HTTP rewrite (`parsers/http/http_parser.h`) | request buffer | parse, replace the Host header | called by the backend's write callback |
| HTTP tokenizer (`parsers/http/detail/picohttpparser.c`) | - | find request line, headers and their values | pointers into the request buffer |
| configuration, TLS contexts, logging, net helpers | set up at start | - | - |

There is one thread, so the hard behaviour is not preemption but order: what an
earlier callback of the same `epoll_wait` batch did to the memory, descriptor
numbers and remembered events a later one uses; numbers the kernel hands out
again; edges that are reported once; sends that take a part or nothing; a
handshake that runs while data is already queued; frees deferred to the end of
the batch; faults in the middle of building a connection.

What makes each part correct:

* loop, callbacks, timers: no callback runs on freed memory; nothing is freed
  twice or never; a number is closed, deregistered or written only by the
  connection that owns it; idle connections go away; waiting clients get in.
* data path: what is read from one side should be sent to the other side once, in
  order, after the handshake, and nothing else, also when a peer hangs up. The code
  does so for TLS sides whose peers wait and whose sockets are never full; for
  others, what is still true and what is not is in section 3.
* buffers and ring: contents survive growth, writes stay in the buffer; the ring is
  a FIFO. Writes do not quite stay in the buffer, see section 3.
* HTTP rewrite: only the named value changes, in however many pieces the request
  comes, and the backend gets the request at its new length. The code gives it the
  old length, and some requests are spoilt, see section 3.

## 2. Modules

| module | role |
|---|---|
| `ProxyLifecycle` | loop, listener, callbacks, timers, memory and descriptors of all connections |
| `ConnectionContract` | abstract specification: what the lifecycle promises one connection |
| `ConnectionContract_proofs` | the refinement |
| `MCProxyLifecycle` | symmetry for TLC |
| `ProxyLifecycle_proofs` | inductive invariant and theorems |
| `Relay` | data path of one connection, each side plain or TLS: handshakes, buffers, partial, blocked and failed sends, resets |
| `Channel` | abstract specification: what a connection promises its peers |
| `Relay_proofs` | inductive invariant and theorems |
| `RelayCalm_proofs` | the same for peers that wait and sockets that are never full: every token goes out once |
| `RelayChannel_proofs` | the refinement of `Channel` under these conditions |
| `MCRelay` | the pairs of kinds TLC tries |
| `HttpRewrite` | what `on_write` of the backend does to a request: parse it, replace the Host header in place |
| `HttpRewrite_proofs` | inductive invariant and theorems |
| `MCHttpRewrite` | the requests TLC tries |
| `BufferManager` | one buffer manager and the operations of its users: bytes, sizes, growth |
| `BufferManager_proofs` | inductive invariant and theorems |
| `CircularBuffer` | the ring of `utils/io` |
| `OverwritingFifo` | abstract specification: what the ring promises |
| `CircularBuffer_proofs` | invariant and refinement |
| `MCBuffers` | both kinds of buffers in one run |

`ProxyLifecycle` and `Relay` look at the same callbacks from two sides: who
may still be called, and what is done with the data. `HttpRewrite` and
`BufferManager` are the detail below two operators of `Relay`: the content of
a token, and a buffer as a sequence.

### ProxyLifecycle

A connection is an element of `Conns`; its handlers are `<<c, "client">>`,
`<<c, "backend">>`, `<<c, "timer">>`. Memory is tracked per allocation
(`hmem`, `pmem`, `cmem`) with the values none, live, freed and corrupt; freeing
what is not live makes it corrupt. `file` is the descriptor table, so numbers
are really reused: `accept`, `socket` and `timerfd_create` get the lowest unused
one. `sockFd` is the copy of the number kept in the structs, which the code
never clears. Because no branch of the code checks that memory is live or a
number its own, no action does either.

| code | action |
|---|---|
| `epoll_wait` | `EpollWait`, `EpollTimeout` |
| dispatch to `zxy_proxy_events_callback` | `Callback`: `IgnoreEvent` (timer is up), `HandleClientEvents`, `HandleBackendEvents`, `TimerRelaxed`, `TimerUnset`, `TimerUp`; `BrokenPipe` when `send` raises SIGPIPE |
| sweep of the free list, `zxy_free_proxy_obj` | `FreeHandler`, `EndOfBatch` |
| `zxy_handle_accepting_connections` | `ListenerReadable`, `ListenerFailed` |
| `zxy_accept_new_conn`, `zxy_handle_client_connection` | `AcceptConn` (one turn), `AcceptDone` (EAGAIN), `AcceptFatal` (exit) |
| peers, network, kernel timers | `Arrive`, `NetEvent`, `TimerExpire` |

A callback is one step: the thread is not preempted, and what the environment
does during a callback it could as well do before or after it. The accept loop
is a step per turn, because clients arrive meanwhile. The peer events are one
definition with a side as its parameter since the two functions of the code are
mirror images.

Environment faults are switched on by name in `Faults`: `connect` (no backend
address connects), `epoll_add` (a registration fails), `resolver` (name lookup
fails), `sigpipe`, `listener` (error on the listening socket). Running out of
descriptors needs no switch; `Fds` is finite. When no backend connects, the
code goes on with the number it closed last, or -1, and the model with it.

### ConnectionContract

Four variables: whether the process is up, the stage of each connection (none,
open, expired, released), its open sockets, and whether its timer ran out once
without events since. `KeepsContract` maps `ProxyLifecycle` onto it: memory,
handler lists and numbers disappear, and what is left says that a step concerns
one connection only, that only its own events and timer close its sockets, that
it expires only after a whole quiet period, and that it is released once, later.

### Relay

A token is one TLS record; a peer sends 1, 2, 3, ... `kind[side]` says whether
a side is plain or TLS, and with which version of the handshake, since the
SSLv23 methods negotiate 1.2 or 1.3. `conn[side]` holds the handshake stage and
three of the four buffers (`plain`, `enc`, `writing`; the read buffer is emptied
within the callback); a plain side's only buffer is its `plain`. The callbacks
are functions on that record:

| code | operator |
|---|---|
| `on_read` of a TLS side, `proccess_ssl_bytes` | `TlsRead`: `Shaken`, `Answer`, `Decrypted` |
| `on_read` of a plain side | `PlainRead` |
| `on_write` of a TLS side, `encrypt_io_req` | `TlsWrite`: `Encrypt` (`Greeted`, `Sealed`), `Sends`, `Unsent` |
| `on_write` of a plain side | `PlainWrite`: `Sends`, `Cleared` |
| the function pointers of the two sides | `OnRead`, `OnWrite`, `CannotRead` |
| `read_nbytes` | `ReadNBytes` |
| `zxy_handle_client_events`, `zxy_handle_backend_events` | `Handled`, `HandleEvents`, `HandleClose` |
| `epoll_wait`, peers, kernel | `EpollWait`, `ClientShakes`, `BackendShakes`, `PeerSends`, `Drain`, `HangUp` |

`Handled` composes them in the order of the code, with the remembered EPOLLOUT
of the other side and the result of `on_write` deciding what is consumed. Event
masks are computed by `EpollWait` for all sockets at once and may be stale when
they are dispatched: that is how a send can block although EPOLLOUT was
reported, or fail on a socket reset since. A peer may hang up at any moment;
the side is then closed and its buffers stay, for the other side to be served
from. OpenSSL and the peers are modelled from how the code uses them.

A plain client is the one kind the code cannot serve: nobody sets its
`read_nbytes`, so the first request it gets through ends the process
(`CannotRead`, `up`). The model does the same.

`Channel` is the abstract view: two ordered channels, from which each peer has
got a prefix of what the other one sent, and nothing else. `IsChannel` shows that
`Relay` refines it for TLS sides when the peers wait for the handshakes and no
socket fills: what such a peer has got is all that it decrypts (`Payload`), a
cleared or a foreign byte included, which no channel would deliver. `relay_repeats`
and `relay_blocked` are what happens otherwise. Of a plain side nothing of the kind
holds, even under these conditions: the EPOLLOUT branch has it send from the other
side's buffer, what was sent is cleared and not consumed, and the cleared bytes go
out later (`OnlyPlainData`, `relay_zeros`). What holds of it is `PlainWrittenOnce`
and `StreamIntegrity`, which speak of tokens and pass over cleared bytes.

Left out: fatal TLS errors, `recv` returning 0 (an orderly half-close, which the
code logs and ignores), and the freeing of a connection, which is
`ProxyLifecycle`'s subject. The sizes of buffers are in `BufferManager`, the
Host rewrite in `HttpRewrite`.

### HttpRewrite

`buf` and `size` are the memory and fill level of the client's plain buffer,
`headers` the pointers picohttpparser left in `http_commons`, `i` the counter
of the loop in `zxy_modify_http_headers`. A token is a request line, a name
with its colon, a blank, a line end or one character of a value or body. Names
are compared over the four characters of "Host", so `HostAlias`, a longer name
that begins with them, matches too. A name that ends like another one is two
tokens: `Forwarded`, then `Host`, is X-Forwarded-Host. The parser points at the
first of them, but a pointer that is out of date may point at the second.

`Parses`, `Headers` and `HeaderAt` are what `phr_parse_request` does to a
sequence of tokens: one leading empty line is skipped, the head ends with the
first empty line after the request line, a value is what is left of its line
without the blanks around it, and more headers than there is room for are an
error. What a client sends arrives in pieces of any length: `CalledAfresh`
is a call of `on_write` after the buffer was consumed, `CalledAgain` one on what
the last call left there, with more behind it.

| code | action |
|---|---|
| `on_write` is called, the buffer was consumed | `CalledAfresh` |
| `on_write` is called, the handshake goes on and nothing was consumed | `CalledAgain` |
| `zxy_parse_http_request` succeeds | `ParseRequest` |
| it does not: partial or malformed | `ForwardAsIs` |
| one turn of the loop | `SkipHeader`, `ReplaceHeader` |
| a value of the same length: `return 0` in the middle of the loop | `ReplaceSameLength` |
| end of the loop, queueing of `send_nbytes` plus the result | `Done` |

The copies are made in the order of the code (value first when it is shorter,
tail first when it is longer), and the pointers change as they do in the code:
`value` of the current header, where `name` and `value` of the later ones were
meant. What arrives behind a request that was rewritten already and not yet
consumed overwrites the end the rewriting pushed past the fill level, a result
of the difference that is always 0; `late` marks these behaviours, and
`RewrittenInFull` speaks of the others. It also leaves out requests with a second
token that looks like a Host name (`OneHost`), be it a header of its own, the end of
another name, a part of a value or of the body: the pointers are out of date once a
value has changed its length, and the next of them may point to just that token.
That is no exotic request: behind `Host: subdomain.example.com`, which shrinks by 12
bytes, the name pointer of `X-Forwarded-Host: foo` leads to the `Host` in it, and
the new value is then written where its value pointer leads. What the code does to
such requests `HeadUntouched` bounds from one side, nothing before the first Host
value changes, and `OnlyHostChanges` where values keep their length.

Folded header lines are left out (the parser gives them the name NULL, which the
loop reads), and so is the room for a longer value, which the code does not ask for:
the model's buffer has it.

### BufferManager

`mem`, `size` and `ptr` are the fields of the struct, `use` says which buffer it
is: one of the four of a TLS side or the one of a plain side. `QueueBytes`,
`AppendPlain`, `AppendUnasked` and `ReadSocket` are the ways the callbacks
append: resize and then double until there is room; double once; or do not ask
for room at all, which is harmless for the read buffer (it is always empty) and
not for the buffers in `Unasked`. `Consume` and `Send` take from the front, the
latter after clearing what was sent; `SendInPlace` is a plain side's send from
the other side's buffer, which clears and does not take. `AppendUnasked` is one
turn of the client's `SSL_read` loop, which takes as many turns in one event as a
record has pieces of `READ_BUF_SIZE` bytes.

`Allocated` is what the allocator was asked for. After a doubling that is one byte
less than the recorded size: the `memset` in `buffer_manager.c:26` clears the byte
behind it, and a queue that asked for room may fill it (`PossibleToWrite`,
`buffers_overrun`). `WithinOneByte` is what does hold of the uses that ask. `mem`
keeps that byte, because glibc's rounding does, so that the contents of a buffer
can be spoken of after a doubling; the comment of the module says why.
A write past the recorded size is undefined behaviour: `peak` records it and the
model stops there (`Intact`). A blocked send is `Relay`'s subject and left out
here. `zxy_should_resize_buffer` looks at the last byte of the buffer rather
than at the fill level, which is why the bytes that were never written matter.

### CircularBuffer

`buf`, `head`, `tail` and `is_full` are the fields of the struct; `WriteByte`,
`GetByte` and `ClearRing` are its operations, one byte of the loops at a time.
`IsFifo` maps it to `OverwritingFifo`: a queue in which a byte that finds no room
takes the place of the oldest one. `GetByte` asks for a byte only when the size
says there is one, because the code does not refuse more. Left out:
`zxy_double_size_of_circular_buffer`, which is not in the header and has no
caller (it copies from beyond the ring's end when the content wraps), and
`zxy_is_circular_buffer_empty`, which looks at the pointers only and so calls a
full ring empty; a caller has to use the size.

## 3. Runs

`tlc -config <run>.cfg <module>` with `MCProxyLifecycle` for the lifecycle runs,
`MCRelay` for the relay runs, `MCHttpRewrite` for `rewrite`, `MCBuffers` for
`buffers` and `BufferManager` for `buffers_overrun`.

| run | shows | bounds |
|---|---|---|
| `lifecycle_faults` | `TypeOK`, `BatchIsUsable`, `RegisteredOwnsNumber`, `MemoryBalance`, `IInv`, `KeepsContract` | 2 connections, 4 numbers, batches of 10, all faults |
| `lifecycle_pairs` | `OpenSideOwnsNumber`, `WaitFindsNoRemains`, `StrayOnlyAfterClose`, `OnlyTimerLeaks` | 2 connections, 6 numbers, batches of 2, `connect` fault |
| `lifecycle_liveness` | `IdleIsReaped`, `QueuedIsAccepted` | 2 connections, 4 numbers |
| `relay_busy` | `TypeOK`, `StreamIntegrity`, `HandshakeFirst`, `PlainWrittenOnce`, `RelayInv` | all 9 pairs of kinds, 2 and 2 tokens, reads and send buffers of 2, at most 2 drains, early data, resets of both |
| `relay_calm` | `ExactlyOnce`, `CalmInv`, `IsChannel`, `HandshakesFinish`, `Delivered` | 5 pairs of kinds, 2 and 1 tokens, reads of 4, send buffers that never fill, resets of the client |
| `rewrite` | `TypeOK`, `RewrittenInFull`, `ForwardedAtOldLength`, `HeadUntouched`, `OnlyHostChanges`, `RewriteInv`, `OneHostInv`, `HostOnlyInv`, `RewriteIsStable` | up to 2 headers of 8 kinds (X-Forwarded-Host is one) with values of 0 to 3, blanks, leading empty line, body; one request with 3 headers, one with a value that looks like a Host header, two requests in a row; a new value of 2, room for 2 headers, 3 calls |
| `buffers` | `TypeOK`, `WithinOneByte`, `ContentsKept`, `GrowthIsDriven`, `BufferInv`, `OnePieceFits`, `RingInv`, `IsFifo` | reads of 2, so sizes 3, 5 and 9; pieces of up to 3 bytes, filled up to 6; a ring of 4 |
| `lifecycle_stray_write` | violates `ClosedIsSilent` | 2 connections, 6 numbers |
| `relay_repeats` | violates `WrittenOnce` | TLS 1.3 on both sides, 2 tokens, send buffers that never fill |
| `relay_blocked` | violates `OnlyQueuedBytes` | TLS 1.3 on both sides, 2 and 1 tokens, send buffers of 2 |
| `relay_zeros` | violates `OnlyPlainData` | a TLS 1.3 client, a plain backend, 4 tokens, send buffers of 2 |
| `buffers_overrun` | violates `PossibleToWrite` | reads of 2, pieces of up to 3 bytes, filled up to 6 |

Why the bounds suffice. Two connections are enough for everything that one can
do to another: reuse of a number, a stale event, a stray write. Each arrives
once, so a later connection is the second one meeting what the first left
behind. A connection needs three numbers; four let the second meet a leaked
timer's number and run out of descriptors, six hold two complete connections.
Batches of ten never split the ready set of two connections; batches of two do.
In `relay_busy`, buffers of two tokens make sends short, full and blocked while
the handshake flights and data share them, and reads of two tokens leave a part
of a burst in the socket; `MaxDrains` bounds the run, because repeated data could
fill a socket for ever. `relay_calm` has every kind on every side, not every
pair: the two sides meet only in the buffer between them. In `rewrite`, the new
value is longer than, as long as and shorter than the old one; every request is
cut at any two places, so partial heads, heads completed later, missing bodies
and calls with nothing new occur, and there is a second header to get wrong after
the first. In `buffers`, a buffer is filled exactly to a size, one short of it
and one beyond it, at two doublings, with zero bytes among the data; the ring
fills, wraps and overwrites at every position.

Deadlock is checked in the lifecycle runs, where epoll's time-out and the
stopped process are steps. The relay runs end when the peers have nothing more
to say, the rewrite run after the last call, and a buffer once a write went past
its size, after which nothing is defined; these runs switch it off.

Definitions marked "Mutant of ..." in the modules are not part of the
specifications. Each is a plausible mistake in the definition that follows it;
with it in place, the property `PROJECT.json` pairs it with is violated. They
show that no property holds regardless of the code.

### Fairness

`FairSpec` of `ProxyLifecycle` assumes weak fairness of the thread (`Loop`), of
`epoll_wait` when something is ready, and of armed timers. Nothing is assumed of
peers: no event of a socket has to happen, and `IdleIsReaped` concerns
connections whose sockets become silent for good. The liveness run has batches
large enough to report everything that is ready; with more ready handlers than
`MAX_EVENTS` it would need epoll's rotation. `FairSpec` of `Relay` assumes
the same of the thread and that the peers answer the handshake; peers need not
send anything, and may hang up.

### Findings

Each of these disagrees with a comment of the code, quoted in `PROJECT.json`, and
is shown by a run of its own:

* A closed side is still written to, and its number may be another connection's
  by then (`lifecycle_stray_write`); `StrayOnlyAfterClose` is what does hold.
* `on_write` returns 0 after it queued data during the handshake, and the data
  is sent twice (`relay_repeats`). Likewise the EPOLLOUT branch never consumes
  what it writes. `StreamIntegrity` is what does hold: nothing is lost, and
  first copies arrive in order.
* What the EPOLLOUT branch sends to a plain side is cleared where it is and not
  consumed, so the cleared bytes are sent in front of, or between, what comes next
  (`relay_zeros`); `PlainWrittenOnce` is what does hold.
* The result of a blocked send is used as a length, which puts a foreign byte in
  front of the pending ciphertext (`relay_blocked`).
* A doubled buffer is recorded as one byte larger than `realloc` was asked for, and
  that byte is cleared and written (`buffers_overrun`); `WithinOneByte` is what does
  hold.

These are stated as properties that hold, for every instance where proved:

* The timer's descriptor is never closed: a connection that timed out leaves it
  open for ever (`OnlyTimerLeaks`; `timer_callback.c:23` deregisters only). The one
  exception: when no backend connects, the code keeps a number it has closed, the
  timer may get that number, and closing the backend closes the timer.
* `zxy_modify_http_headers` always returns 0, where `http_parser.h:191` promises the
  difference in length (lines 212, 223 and 231), so the caller forwards the old
  number of bytes of the rewritten request: its end is cut off, or left-over bytes
  follow it (`ForwardedAtOldLength`). The buffer itself is right, for a request with
  one Host header and no Host name anywhere else (`RewrittenInFull`); with an
  X-Forwarded-Host header behind it, for one, it may not be.
* The client's `SSL_read` loop and `recv` of a plain side append without asking for
  room. One piece always fits behind at most one byte (`OnePieceFits`), but more may
  be there: in a plain side, what a slow peer has left; in a TLS client, the piece
  before of the same record, for `ssl_client_callbacks.c:244-265` decrypts a record
  longer than `READ_BUF_SIZE` in several turns of one event. Then the buffer is
  overrun.

## 4. Proofs

`ProxyLifecycle_proofs` proves, for any set of connections, any set of
descriptor numbers, any batch size and any faults:

| theorem | property |
|---|---|
| `TypeCorrect` | `TypeOK` |
| `Invariant` | `IInv` |
| `BatchSafe` | `BatchIsUsable` |
| `NumbersOwned` | `RegisteredOwnsNumber` |
| `OpenSidesOwn` | `OpenSideOwnsNumber` |
| `MemoryBalanced` | `MemoryBalance` |
| `NoRemains` | `WaitFindsNoRemains` |
| `StraysAreClosed` | `StrayOnlyAfterClose` |
| `TimersLeak` | `OnlyTimerLeaks` |

The only assumption is `ConstantsAssumption`: numbers are naturals, a batch
holds at least one event, faults are known. The argument is the inductive
invariant `IInv`, because none of the properties is inductive: that an event's
handler is live depends on the sweep running only when the batch is empty and on
what the free list holds; that a close is harmless depends on who owns the
number. `IInv` is the type invariant and

* `LifeInv`: each connection is unborn, served or expired, with everything that
  implies for its memory, flags and registrations, and its reference counter is
  the number of its live handlers;
* `FreeListInv`: the free list holds exactly the live handlers of expired
  connections, each once;
* `BatchInv`: events of a batch have live handlers, registered unless the timer
  is up; between batches both batch and free list are empty;
* `NumberInv`: an open file's handler knows its number; what is registered or
  not closed owns its number; a closed side has none; a served connection owns
  its timer; its two sides have different numbers.

There is one lemma for each kind of step (`InvQuiet`, `InvPeer`,
`InvTimerRelaxed`, `InvTimerUp`, `InvAccept`, `InvFree`), lemmas for the effect
of each on memory and numbers, and a few facts on sequences and on the three
handlers of a connection. `StraysAreClosed` is an invariant relative to `IInv`:
an open side owns its number, and the two sides of a connection do not share
one, so a foreign target betrays a side that was closed. `TimersLeak` needs one
fact more: in `LeakInv`, a backend that shares its timer's number is still marked
open, for it never saw an event, and so the end of its connection will close that
number. What is left open after that is kept (`LeftKept`): nobody who comes later
owns it.

`ConnectionContract_proofs` proves `ContractKept`: the lifecycle implements
`ConnectionContract` (`KeepsContract`), from the same assumption. The refinement
mapping is the one TLC evaluates; `IInv` says which stage a connection is in,
and each step is mapped on its own. A turn of the accept loop opens a connection
(`AcceptOpens`); a socket event serves it, or closes one of its sides; the timer
notes a quiet period, and expires it after a second one; the last free of its
handlers releases it. Everything else, the accept loop's end, faults and the
frees before the last, is a stutter, and no step moves a second connection:
that is where ownership of the descriptor numbers is needed.

`Relay_proofs` proves, for any set of pairs of kinds, any numbers of tokens, any
sizes of reads and send buffers, early data or not, and any resets:

| theorem | property |
|---|---|
| `RelayInvariant` | `RelayInv` |
| `RelayTyped` | `TypeOK` |
| `StreamKept` | `StreamIntegrity` |
| `FlightsFirst` | `HandshakeFirst` |
| `ClearedOnceWritten` | `PlainWrittenOnce` |

Again `ConstantsAssumption` is the only assumption. None of the properties is
inductive: that no data overtakes a flight depends on where the handshake is,
and that depends on what the remote end has seen and on what is still in the
socket. `RelayInv` is the type invariant and

* `HangUpInv`: a hang-up is reported of a remote end that is gone only;
* `HandshakeInv`: each handshake is at one of a few points (`ClientAt`,
  `BackendAt`), on which zroxy, the remote end and the flights sent or waiting
  agree; a socket holds flights first and then the newest tokens in order;
* `FlowInv`: every token read from one side is in the send buffers, the buffer
  to be encrypted or the plain buffer on its way to the other, none before its
  predecessor or before the flights, no data before the handshake is done, and
  for a plain side each token at most once.

`FlowOK` states the last one of values, not of variables, so that the callbacks
can be composed as the code composes them: lemmas say how a read, an answer, a
write, the sealing of `enc`, a junk byte or a cleared byte changes the flow
(`FlowRead`, `FlowAnswer`, `FlowQueue`, `FlowSeal`, `FlowJunk`, ...), `ReadKeeps`
and `WriteKeeps` lift them to `OnRead` and `OnWrite` of either kind, and
`HandledKeeps` puts the reads and the writes of one event together, with the
remembered EPOLLOUT and the result of `on_write` deciding what is consumed.
There is one lemma for each action. The properties then follow from the flow
alone (`StreamParts`).

`RelayCalm_proofs` and `RelayChannel_proofs` prove what holds if the peers send
no data before both handshakes are done (`~Early`) and no socket is ever full
(`[]NeverFull`), for any kinds of sides, numbers of tokens, sizes of reads and
resets:

| theorem | property |
|---|---|
| `CalmInvariant` | `CalmInv` |
| `ForwardedOnce` | `ExactlyOnce` |
| `RelayIsChannel` | `IsChannel` |

Neither condition can be dropped: `relay_repeats` and `relay_busy` show what early
data and short sends do. The first is a constant of the model; the second speaks
of the behaviour, because how much a socket holds depends on how fast its peer
reads. It is not vacuous: in `relay_calm` the send buffers hold more than is ever
sent, so every behaviour of that run satisfies it.

`CalmInv` is inductive together with `RelayInv`. If no socket is full every
event reports EPOLLOUT, so a TLS side has been seen writable by the time its
handshake is done; data is read only when both handshakes are; hence what is read
is encrypted, sent and consumed within the event that read it. So nothing waits
in `enc`, nor for the side in the other one's `plain`, and everything in
`writing` is new to the side (`Neat`, which `TlsWriteNeat`, `HandledNeat` and their
like carry through one callback as `FlowOK` is carried). With the order of
`FlowInv`, the data of `out[s]` is then 1, 2, ..., n: an element that is new and
has its predecessor before it can only be the next one (`UpToNext`, `CountNext`).
No cleared or foreign byte is among it, for those come of blocked sends and of plain
sides. That is the state of `Channel`, for the TLS sides; `SentMore` says that a step
only adds to it, `SentInOrder` and `DataSent` that it stays within what was sent. `PayloadUpTo` is
the one function defined by recursion in the proofs; `PayloadStep` shows its equation
by exhibiting its value, with `AllNumbers` in place of an induction theorem.

`BufferManager_proofs` proves, for any `READ_BUF_SIZE`, any byte values and any
sequence of operations:

| theorem | property |
|---|---|
| `BufferInvariant` | `BufferInv` |
| `BufferTyped` | `TypeOK` |
| `WritesWithinOneByte` | `WithinOneByte` |
| `BufferIsFifo` | `ContentsKept` |
| `GrowthBounded` | `GrowthIsDriven` |
| `OnePieceAlwaysFits` | `OnePieceFits` |

`BufferAssumption` is the only assumption: reads are not empty, bytes are
numbers with 0 among them. `BufferInv` adds two facts without which
the properties are not inductive: every byte from `peak` on is clear, so that
only data written to the last byte can make `zxy_should_resize_buffer` true
(`ResizeMeansFull`), and the read buffer is empty between events, so that a read
of `READ_BUF_SIZE` bytes fits. `AddedKeeps` and `TakeKeeps` are the two ways
content changes; one lemma for each action reduces it to them. `WithinOneByte`
speaks of the uses that ask for room and of the read buffer, not of those in
`Unasked`, of which `OnePieceFits` is what holds.

`CircularBuffer_proofs` proves, for any capacity and any byte values:

| theorem | property |
|---|---|
| `RingInvariant` | `RingInv` |
| `RingIsFifo` | `IsFifo` |

`RingAssumption` says that the ring has room for a byte. `RingInv` is inductive
as it stands. For the refinement, each step is mapped on its own: a write to a
ring with room appends to the content (`WriteAppends`), a write to a full one
replaces its oldest byte (`WriteReplaces`), a get takes it (`GetTakes`); under
them lie the facts about places and sizes that wrap (`PlaceFacts`, `SizeFacts`,
`OthersKept`).

`HttpRewrite_proofs` proves, for any set of requests, any new length, any number
of headers there is room for, any number of calls and any cuts:

| theorem | property |
|---|---|
| `RewriteInvariant` | `RewriteInv` |
| `RewriteTyped` | `TypeOK` |
| `HeadKept` | `HeadUntouched` |
| `OneHostInvariant` | `OneHostInv` |
| `RewrittenFully` | `RewrittenInFull` |
| `ForwardedCut` | `ForwardedAtOldLength` |
| `RewriteStable` | `RewriteIsStable` |
| `HostOnlyInvariant` | `HostOnlyInv` |
| `HostValuesOnly` | `OnlyHostChanges` |

`RewriteAssumption` says that a request and the new value fit into the buffer
together. `HeadUntouched` is not inductive: what the loop may touch depends on
where its pointers lead, and those come from parsing not what the client sent
but what the calls before left of it. `RewriteInv` adds

* `Accounts`: what arrived is what was consumed and what is in the buffer, the
  loop's pointers lie in the request, and the difference is always 0;
* what is not a request yet is in the buffer as it came;
* `PointersBehind`: of the headers the loop is given, one with its value before
  the first Host value of the original has a name before it too, and that name is
  not Host.

Half of the proof is about the parser. `LeastOf` and `GreatestOf` find what they
say (`LeastFacts`, from the well-foundedness of the naturals), and a header lies
where it should (`HeaderFacts`); `Headers` lists the header lines, each once
(`HeadersFacts`, from `RankFacts`); a request stays one, with the same headers,
when more follows (`MoreFollows`); and whatever a buffer has become, as long as
it begins like the original up to the first Host value, none of its headers that
may be replaced is before that (`BehindFirstHost`). The two orders of moving and
copying write from the value on (`ReplacedWrites`); one lemma for each action
does the rest.

`RewrittenInFull` and `RewriteIsStable` need a second invariant, `OneHostInv`,
inductive beside `RewriteInv`. A call begins on what the call before left, so the
invariant says what that is: `Settled`, the Host value it holds is the new one, and
replacing it again changes nothing (`SettledWritten`). Within a call the loop is
`Unreplaced`, with the pointers the parser found and the buffer as the call found
it, or `Replaced`, with no pointer left that leads to a Host name; it passes from
one to the other exactly once, at the only Host header (`PointerFacts`). That no
pointer is left holds because `OneHost` admits no second Host name anywhere, the
end of another name included (`HostIsOne`); it fails for X-Forwarded-Host.
`GivenOrFull` ties both to the original: a request that was never added to is what
was given, or the intended one. Three facts carry the step: both orders of moving
and copying, and a value of the same length, leave the same bytes (`ShorterShifts`,
`LongerShifts`, `SameShifts`); these begin with the intended request, although the
fill level does not follow (`RewrittenIs`); and if they are parsed again the line
ends where it should and its value is the new one, even an empty one
(`ReplacedSettles`, from `LineMoves` and `ValueFound`). `ForwardedAtOldLength` then
is a matter of lengths: what was queued is the content (`QueuedSettled`), as long
as what was given, and both it and the intended request are prefixes of the buffer
(`QueuedAtOldLength`).

`OnlyHostChanges` is about the whole stream, where values keep their length, and
about any number of Host headers and of requests in a row; it needs neither
`OneHost` nor `~late`. `Original`, what the client sends, never changes
(`OriginalStays`), and whatever piece of it is in the buffer, if that is a request
it is one of the stream, with the same Host headers (`GivenParses`).
`HostOnlyInv` says of the buffer what `OnlyHostChanges` says of what was queued. It
is inductive because a buffer that differs from what was given in Host values only
has the same lines (`HostsDifferLines`: no line begins or ends within a value,
`NoStartInside`, and the lines of two headers are apart, `HostLinesApart`), so that
the parser finds in it the headers that were given (`HostsFound`).

Only model-checked: liveness (`IdleIsReaped`, `QueuedIsAccepted`,
`HandshakesFinish`, `Delivered`), which is out of the prover's reach. Every
invariant and every action property of the passing runs is proved.

## 5. Not modelled

* `conf/`, `utils/ssl/`, `utils/net/`, `logging/`, and the start of `zroxy.c` run
  once or only print.
* Of `picohttpparser.c`: responses, bare headers, chunked bodies and the check of
  an earlier length, none of which zroxy calls, and which characters are legal.
* Of the modelled parts: what the subsections of section 2 list as left out.

## 6. Plan

Done: `ProxyLifecycle`, its contract, its invariants, the refinement and their
proofs; `Relay` for all kinds of sides, with resets, its invariants and their
proofs, and the channel it refines, with the proof that it does; `HttpRewrite` with the tokenizer
and requests that come in pieces, its three invariants and their proofs; `BufferManager` and `CircularBuffer` with their invariants
and proofs.

1. `Relay`: fatal TLS errors and half-closed peers.
