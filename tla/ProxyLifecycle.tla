--------------------------- MODULE ProxyLifecycle ---------------------------
(***************************************************************************)
(* The life of a proxied connection in zroxy: the single-threaded epoll    *)
(* loop, the listener, the three event handlers of a connection (client    *)
(* socket, backend socket, idle timer), their descriptors, and the memory  *)
(* they share: the reference-counted proxy object, the two connection      *)
(* structs and the deferred free list the loop sweeps after each batch.    *)
(*                                                                         *)
(* What is read from and written to the sockets is abstracted to "a send   *)
(* was issued on this descriptor number".  Nothing in the code guards a    *)
(* callback against memory already freed or a number already reused, so    *)
(* no action here is guarded by it either: that it does not happen is the  *)
(* subject of the invariants.                                              *)
(***************************************************************************)
EXTENDS Integers, Sequences, FiniteSets

CONSTANTS
    Conns,      \* the client connections that may arrive; each arrives once
    Fds,        \* the descriptor numbers accept, socket and timerfd may get
    MaxEvents,  \* MAX_EVENTS, the size of the array given to epoll_wait
    Faults      \* the environment faults that may happen (see FaultKinds)

\* connect: no backend address accepts; epoll_add: EPOLL_CTL_ADD fails;
\* resolver: getaddrinfo fails; sigpipe: a peer is gone when data is sent;
\* listener: the listening socket reports an error or a hang-up.
FaultKinds == {"connect", "epoll_add", "resolver", "sigpipe", "listener"}

ASSUME ConstantsAssumption ==
    /\ Fds \subseteq Nat
    /\ MaxEvents \in Nat \ {0}
    /\ Faults \subseteq FaultKinds

Sides == {"client", "backend"}
Kinds == Sides \cup {"timer"}
Handlers == Conns \X Kinds          \* zxy_event_handler_t objects
Sockets == Conns \X Sides           \* client and backend connection structs
Listener == <<"zroxy", "listener">> \* the handler of the listening socket
Nobody == <<"none", "none">>        \* what an unused descriptor number denotes

Other(side) == IF side = "client" THEN "backend" ELSE "client"

BadFd == -1                         \* what a failed socket() returns

\* timer_status_and_fd: calloc leaves 0, then the codes of timers.h.
UNSET == 0
RELAX_TIMER == -1
TIMER_IS_UP == -2
TIMER_RELAXED == -3

\* Memory that is freed while it is not allocated is "corrupt".
Memory == {"none", "live", "freed", "corrupt"}
Freed(m) == IF m = "live" THEN "freed" ELSE "corrupt"

VARIABLES
    pc,          \* where the loop is: wait, dispatch, accept, exited
    listening,   \* the listening socket is open and registered
    backlog,     \* connections the kernel completed and nobody accepted
    batch,       \* events of the last epoll_wait not yet dispatched
    interest,    \* handlers registered in epoll, under their sock_fd
    edge,        \* sockets with a readiness edge epoll_wait has not reported
    timerfd,     \* kernel state of each connection's timer
    file,        \* the descriptor table: which open file a number denotes
    sockFd,      \* handler->sock_fd, equal to the connection's sock_fd
    hmem,        \* memory of the handlers
    pmem,        \* memory of the proxy object and its two base structs
    cmem,        \* memory of the client and backend connection structs
    refs,        \* refrence_counter
    freeList,    \* the list headed by "entry", blocks to free after the batch
    isClosed,    \* sockets whose is_closed is 1
    setFree,     \* sockets whose base has set_free 1
    canWrite,    \* sockets whose remembered events contain EPOLLOUT
    timerStatus, \* timer_status_and_fd
    stray        \* history: <<s, t>> when a write for s went to socket t

memory == <<hmem, pmem, cmem, refs, freeList, setFree>>
kernel == <<interest, edge, timerfd, file>>
vars == <<pc, listening, backlog, batch, interest, edge, timerfd, file, sockFd,
          hmem, pmem, cmem, refs, freeList, isClosed, setFree, canWrite,
          timerStatus, stray>>

Init ==
    /\ pc = "wait"
    /\ listening = TRUE
    /\ backlog = {}
    /\ batch = {}
    /\ interest = {}
    /\ edge = {}
    /\ timerfd = [c \in Conns |-> "none"]
    /\ file = [f \in Fds |-> Nobody]
    /\ sockFd = [h \in Handlers |-> BadFd]
    /\ hmem = [h \in Handlers |-> "none"]
    /\ pmem = [c \in Conns |-> "none"]
    /\ cmem = [s \in Sockets |-> "none"]
    /\ refs = [c \in Conns |-> 0]
    /\ freeList = << >>
    /\ isClosed = {}
    /\ setFree = {}
    /\ canWrite = {}
    /\ timerStatus = [c \in Conns |-> UNSET]
    /\ stray = {}

-----------------------------------------------------------------------------
(* The environment: peers, network and kernel timers. *)

\* A client completes its handshake with the listening socket.
Arrive(c) ==
    /\ listening /\ pc # "exited"
    /\ pmem[c] = "none" /\ c \notin backlog
    /\ backlog' = backlog \cup {c}
    /\ UNCHANGED <<pc, listening, batch, kernel, sockFd, memory, isClosed,
                   canWrite, timerStatus, stray>>

\* Data, buffer space or an end of stream makes a registered socket ready
\* again; the registration is edge triggered (EPOLLET).
NetEvent(s) ==
    /\ pc # "exited"
    /\ s \in interest \ edge
    /\ edge' = edge \cup {s}
    /\ UNCHANGED <<pc, listening, backlog, batch, interest, timerfd, file,
                   sockFd, memory, isClosed, canWrite, timerStatus, stray>>

\* An armed timer runs out; the descriptor stays readable until it is set
\* again, because the code never reads it.
TimerExpire(c) ==
    /\ pc # "exited"
    /\ timerfd[c] = "armed"
    /\ timerfd' = [timerfd EXCEPT ![c] = "expired"]
    /\ UNCHANGED <<pc, listening, backlog, batch, interest, edge, file,
                   sockFd, memory, isClosed, canWrite, timerStatus, stray>>

-----------------------------------------------------------------------------
(* The event loop. *)

\* What epoll_wait would report: pending edges, expired timers (level
\* triggered) and the listener while its backlog is not empty.
Ready ==
    edge \cup {h \in interest : h[2] = "timer" /\ timerfd[h[1]] = "expired"}
         \cup (IF listening /\ backlog # {} THEN {Listener} ELSE {})

\* epoll_wait returns at most MaxEvents of the ready handlers.
EpollWait ==
    /\ pc = "wait"
    /\ Ready # {}
    /\ \E b \in SUBSET Ready :
           /\ IF Cardinality(Ready) <= MaxEvents
              THEN b = Ready ELSE Cardinality(b) = MaxEvents
           /\ batch' = b
           /\ edge' = edge \ b
    /\ pc' = "dispatch"
    /\ UNCHANGED <<listening, backlog, interest, timerfd, file, sockFd, memory,
                   isClosed, canWrite, timerStatus, stray>>

\* epoll_wait times out with no event and the loop starts over.
EpollTimeout == pc = "wait" /\ Ready = {} /\ UNCHANGED vars

\* Mutant of BatchDone: blocks are freed while events are still pending.
LoopRuns == pc = "dispatch"

\* The batch has been dispatched to its last event.
BatchDone == pc = "dispatch" /\ batch = {}

\* Mutant of LastReference: compared before the decrement instead of after.
NoReferenceLeft(c) == refs[c] = 0

\* zxy_free_proxy_obj decrements, then compares with zero.
LastReference(c) == refs[c] = 1

\* One block of the free list: free_params (zxy_free_proxy_obj) drops a
\* reference and frees the proxy object with the last, then the handler goes.
FreeHandler ==
    /\ BatchDone /\ freeList # << >>
    /\ LET h == Head(freeList)
           c == h[1]
       IN /\ refs' = [refs EXCEPT ![c] = @ - 1]
          /\ pmem' = [pmem EXCEPT ![c] = IF LastReference(c) THEN Freed(@) ELSE @]
          /\ hmem' = [hmem EXCEPT ![h] = Freed(@)]
    /\ freeList' = Tail(freeList)
    /\ UNCHANGED <<pc, listening, backlog, batch, kernel, sockFd, cmem,
                   isClosed, setFree, canWrite, timerStatus, stray>>

\* Mutant of EndOfBatch: the sweep may leave blocks for the next batch.
EndOfBatchUnswept ==
    /\ BatchDone
    /\ pc' = "wait"
    /\ UNCHANGED <<listening, backlog, batch, kernel, sockFd, memory, isClosed,
                   canWrite, timerStatus, stray>>

EndOfBatch ==
    /\ BatchDone /\ freeList = << >>
    /\ pc' = "wait"
    /\ UNCHANGED <<listening, backlog, batch, kernel, sockFd, memory, isClosed,
                   canWrite, timerStatus, stray>>

-----------------------------------------------------------------------------
(* The listener: zxy_handle_accepting_connections and its accept loop. *)

ListenerReadable ==
    /\ pc = "dispatch" /\ Listener \in batch
    /\ batch' = batch \ {Listener}
    /\ pc' = "accept"
    /\ UNCHANGED <<listening, backlog, kernel, sockFd, memory, isClosed,
                   canWrite, timerStatus, stray>>

\* EPOLLHUP or EPOLLERR on the listener: nobody is accepted any more.
ListenerFailed ==
    /\ pc = "dispatch" /\ Listener \in batch
    /\ "listener" \in Faults
    /\ batch' = batch \ {Listener}
    /\ listening' = FALSE
    /\ backlog' = {}
    /\ UNCHANGED <<pc, kernel, sockFd, memory, isClosed, canWrite, timerStatus,
                   stray>>

\* accept, socket and timerfd_create hand out the lowest unused number.
LowestUnused(table, f) ==
    /\ table[f] = Nobody
    /\ \A g \in Fds : g < f => table[g] # Nobody

\* Which registrations of a new connection epoll accepts: adding a backend
\* that did not connect fails with EBADF, the others only by a fault.
Registrable(added, connected) ==
    /\ "backend" \in added => connected
    /\ "epoll_add" \notin Faults =>
           added = IF connected THEN Kinds ELSE Kinds \ {"backend"}

\* The table once the client number cfd and the backend number bfd are open.
WithSockets(c, cfd, bfd, connected) ==
    LET accepted == [file EXCEPT ![cfd] = <<c, "client">>]
    IN IF connected THEN [accepted EXCEPT ![bfd] = <<c, "backend">>]
                    ELSE accepted

\* The numbers one turn of the accept loop gets.  When no address connects,
\* the code keeps the number of the socket it closed last (or -1) and goes on;
\* the timer then gets the very same number.
GetsNumbers(c, cfd, bfd, tfd, connected) ==
    /\ LowestUnused(file, cfd)
    /\ IF bfd = BadFd THEN ~connected
                      ELSE LowestUnused(WithSockets(c, cfd, bfd, FALSE), bfd)
    /\ ~connected => "connect" \in Faults
    /\ LowestUnused(WithSockets(c, cfd, bfd, connected), tfd)

\* zxy_handle_client_connection: sockets, timer, proxy object, structs and
\* handlers are made, and the handlers registered.
AcceptAs(c, cfd, bfd, tfd, connected, added) ==
    /\ GetsNumbers(c, cfd, bfd, tfd, connected)
    /\ Registrable(added, connected)
    /\ file' = [WithSockets(c, cfd, bfd, connected) EXCEPT ![tfd] = <<c, "timer">>]
    /\ sockFd' = [sockFd EXCEPT ![<<c, "client">>] = cfd,
                                ![<<c, "backend">>] = bfd,
                                ![<<c, "timer">>] = tfd]
    /\ interest' = interest \cup {<<c, k>> : k \in added}
    /\ edge' = edge \cup {<<c, k>> : k \in Sides \cap added}
    /\ backlog' = backlog \ {c}
    /\ timerfd' = [timerfd EXCEPT ![c] = "armed"]
    /\ pmem' = [pmem EXCEPT ![c] = "live"]
    /\ hmem' = [h \in Handlers |-> IF h[1] = c THEN "live" ELSE hmem[h]]
    /\ cmem' = [s \in Sockets |-> IF s[1] = c THEN "live" ELSE cmem[s]]
    /\ refs' = [refs EXCEPT ![c] = 3]
    /\ UNCHANGED <<pc, listening, batch, freeList, isClosed, setFree, canWrite,
                   timerStatus, stray>>

\* One turn of the accept loop.
AcceptConn(c) ==
    /\ pc = "accept" /\ c \in backlog
    /\ \E cfd \in Fds, bfd \in Fds \cup {BadFd}, tfd \in Fds,
          connected \in BOOLEAN, added \in SUBSET Kinds :
           AcceptAs(c, cfd, bfd, tfd, connected, added)

\* Mutant of AcceptDone: the accept loop may stop with clients in the backlog.
AcceptGivesUp ==
    /\ pc = "accept"
    /\ pc' = "dispatch"
    /\ UNCHANGED <<listening, backlog, batch, kernel, sockFd, memory, isClosed,
                   canWrite, timerStatus, stray>>

\* accept fails with EAGAIN.
AcceptDone ==
    /\ pc = "accept" /\ backlog = {}
    /\ pc' = "dispatch"
    /\ UNCHANGED <<listening, backlog, batch, kernel, sockFd, memory, isClosed,
                   canWrite, timerStatus, stray>>

\* Fewer than three unused numbers: accept, or later timerfd_create, may fail.
Exhausted == Cardinality({f \in Fds : file[f] = Nobody}) < 3

\* LOG_FATAL and exit: accept or timerfd_create ran out of descriptors, or
\* getaddrinfo failed for this client.
AcceptFatal ==
    /\ pc = "accept" /\ backlog # {}
    /\ Exhausted \/ "resolver" \in Faults
    /\ pc' = "exited"
    /\ UNCHANGED <<listening, backlog, batch, kernel, sockFd, memory, isClosed,
                   canWrite, timerStatus, stray>>

-----------------------------------------------------------------------------
(* The callbacks of a connection: zxy_proxy_events_callback. *)

\* Mutant of CloseAndDeregister: what is closed stays registered.
CloseOnly(numbers, deregistered) ==
    /\ file' = [f \in Fds |-> IF f \in numbers THEN Nobody ELSE file[f]]
    /\ interest' = {h \in interest : sockFd[h] \notin deregistered}
    /\ edge' = {h \in edge : sockFd[h] \notin deregistered}

\* close(sock_fd) after zxy_remove_fd_from_epoll: whatever open file the
\* numbers denote is closed, whatever handler is registered under them goes.
CloseAndDeregister(numbers, deregistered) ==
    /\ file' = [f \in Fds |-> IF f \in numbers THEN Nobody ELSE file[f]]
    /\ interest' = {h \in interest : sockFd[h] \notin numbers \cup deregistered}
    /\ edge' = {h \in edge : sockFd[h] \notin numbers \cup deregistered}

NumbersOf(handlers) == {sockFd[h] : h \in handlers}

\* The open file a write on socket s would reach.
Target(s) == IF sockFd[s] \in Fds THEN file[sockFd[s]] ELSE Nobody

\* Mutant of StillOpen: the test of is_closed is missing.
EverySide(sides) == sides

\* The sides a teardown still has to close: those whose is_closed is 0.
StillOpen(sides) == sides \ isClosed

\* Mutant of MarkClosed: is_closed is not set.
NotMarked(closing) == isClosed' = isClosed

\* is_closed is set on the sides being closed.
MarkClosed(closing) == isClosed' = isClosed \cup closing

\* Mutant of FreeConns: set_free is not set.
FreeUnmarked(freeing) ==
    /\ cmem' = [s \in Sockets |-> IF s \in freeing THEN Freed(cmem[s])
                                  ELSE cmem[s]]
    /\ setFree' = setFree

\* free_params of the given sockets.
FreeConns(freeing) ==
    /\ cmem' = [s \in Sockets |-> IF s \in freeing THEN Freed(cmem[s])
                                  ELSE cmem[s]]
    /\ setFree' = setFree \cup freeing

\* Sockets a callback may send on: after a read, the peer if it was last seen
\* writable; on EPOLLOUT, the socket itself.  The remembered events of a side
\* survive its close.
MaySend(c, side, events) ==
    (IF "in" \in events THEN {<<c, Other(side)>>} \cap canWrite ELSE {})
        \cup (IF "out" \in events THEN {<<c, side>>} ELSE {})

\* A dispatched event of a connection whose timer is already up is ignored.
IgnoreEvent(h) ==
    /\ pc = "dispatch" /\ h \in batch
    /\ timerStatus[h[1]] = TIMER_IS_UP
    /\ batch' = batch \ {h}
    /\ UNCHANGED <<pc, listening, backlog, kernel, sockFd, memory, isClosed,
                   canWrite, timerStatus, stray>>

\* zxy_handle_client_events and zxy_handle_backend_events are mirror images.
\* A hang-up deregisters and closes the side.  Otherwise data is moved, and a
\* peer found freed (zxy_check_backend_close, zxy_check_client_close) is freed
\* along with this side.
HandlePeerEvents(c, side, events) ==
    LET self == <<c, side>>
        other == <<c, Other(side)>>
        hangup == "close" \in events
        teardown == ~hangup /\ other \in setFree
        closing == IF hangup THEN {self}
                   ELSE IF teardown THEN StillOpen({self}) ELSE {}
        silent == hangup \/ (teardown /\ "in" \in events)
    IN /\ pc = "dispatch" /\ self \in batch
       /\ timerStatus[c] # TIMER_IS_UP
       /\ batch' = batch \ {self}
       /\ canWrite' = IF "out" \in events THEN canWrite \cup {self}
                                          ELSE canWrite \ {self}
       /\ CloseAndDeregister(NumbersOf(closing), {})
       /\ MarkClosed(closing)
       /\ FreeConns(IF teardown THEN {self, other} ELSE {})
       /\ freeList' = IF teardown
                      THEN << <<c, "client">>, <<c, "backend">> >> \o freeList
                      ELSE freeList
       /\ \E sent \in SUBSET (IF silent THEN {} ELSE MaySend(c, side, events)) :
              stray' = stray \cup
                  {<<s, Target(s)>> : s \in {w \in sent : Target(w) \in Sockets \ {w}}}
       /\ timerStatus' = [timerStatus EXCEPT ![c] = RELAX_TIMER]
       /\ UNCHANGED <<pc, listening, backlog, timerfd, sockFd, hmem, pmem, refs>>

HandleClientEvents(c, events) == HandlePeerEvents(c, "client", events)
HandleBackendEvents(c, events) == HandlePeerEvents(c, "backend", events)

\* send() without MSG_NOSIGNAL on a socket whose peer is gone: SIGPIPE ends
\* the process.
BrokenPipe(c, side, events) ==
    /\ pc = "dispatch" /\ <<c, side>> \in batch
    /\ timerStatus[c] # TIMER_IS_UP
    /\ "sigpipe" \in Faults /\ "close" \notin events
    /\ \E s \in MaySend(c, side, events) : Target(s) \in Sockets
    /\ pc' = "exited"
    /\ UNCHANGED <<listening, backlog, batch, kernel, sockFd, memory, isClosed,
                   canWrite, timerStatus, stray>>

\* The timer after a period with traffic: it gets one more second.
TimerRelaxed(c) ==
    /\ pc = "dispatch" /\ <<c, "timer">> \in batch
    /\ timerStatus[c] = RELAX_TIMER
    /\ batch' = batch \ {<<c, "timer">>}
    /\ timerStatus' = [timerStatus EXCEPT ![c] = TIMER_RELAXED]
    /\ timerfd' = [timerfd EXCEPT ![c] = "armed"]
    /\ UNCHANGED <<pc, listening, backlog, interest, edge, file, sockFd, memory,
                   isClosed, canWrite, stray>>

\* Mutant of TimerUnset: the field keeps the timer's descriptor, as its name says.
TimerUnsetStoresFd(c) ==
    /\ pc = "dispatch" /\ <<c, "timer">> \in batch
    /\ timerStatus[c] = UNSET
    /\ batch' = batch \ {<<c, "timer">>}
    /\ timerStatus' = [timerStatus EXCEPT ![c] = sockFd[<<c, "timer">>]]
    /\ UNCHANGED <<pc, listening, backlog, kernel, sockFd, memory, isClosed,
                   canWrite, stray>>

\* The timer of a connection that never saw an event: no branch matches.
TimerUnset(c) ==
    /\ pc = "dispatch" /\ <<c, "timer">> \in batch
    /\ timerStatus[c] = UNSET
    /\ batch' = batch \ {<<c, "timer">>}
    /\ UNCHANGED <<pc, listening, backlog, kernel, sockFd, memory, isClosed,
                   canWrite, timerStatus, stray>>

\* Mutants of TimedOut: no second period is given; the relaxed timer is ignored.
TimedOutNow(status) == status # UNSET
TimedOutNever(status) == status > 0

\* timer_status_and_fd == TIMER_RELAXED or > 0.
TimedOut(status) == status = TIMER_RELAXED \/ status > 0

\* The timer after a period without traffic (zxy_handle_timer_up_events and
\* zxy_free_timer_handler): both sides are closed unless they already are and
\* freed unless they already are, and the three handlers go on the free list.
\* The timer is deregistered; its descriptor is not closed.
TimerUp(c) ==
    LET sides == {<<c, k>> : k \in Sides} \ setFree
        closing == StillOpen(sides)
    IN /\ pc = "dispatch" /\ <<c, "timer">> \in batch
       /\ TimedOut(timerStatus[c])
       /\ batch' = batch \ {<<c, "timer">>}
       /\ timerStatus' = [timerStatus EXCEPT ![c] = TIMER_IS_UP]
       /\ CloseAndDeregister(NumbersOf(closing), NumbersOf({<<c, "timer">>}))
       /\ MarkClosed(closing)
       /\ FreeConns(sides)
       /\ freeList' = << <<c, "timer">>, <<c, "client">>, <<c, "backend">> >>
                      \o freeList
       /\ UNCHANGED <<pc, listening, backlog, timerfd, sockFd, hmem, pmem, refs,
                      canWrite, stray>>

-----------------------------------------------------------------------------

\* EPOLLIN, EPOLLOUT and EPOLLHUP|EPOLLERR.
Masks == SUBSET {"in", "out", "close"} \ {{}}

Callback(c) ==
    \/ \E k \in Kinds : IgnoreEvent(<<c, k>>)
    \/ \E events \in Masks : HandleClientEvents(c, events)
    \/ \E events \in Masks : HandleBackendEvents(c, events)
    \/ \E side \in Sides, events \in Masks : BrokenPipe(c, side, events)
    \/ TimerRelaxed(c)
    \/ TimerUnset(c)
    \/ TimerUp(c)

Loop ==
    \/ FreeHandler
    \/ EndOfBatch
    \/ ListenerReadable
    \/ ListenerFailed
    \/ \E c \in Conns : AcceptConn(c)
    \/ AcceptDone
    \/ AcceptFatal
    \/ \E c \in Conns : Callback(c)

\* A process that exited stays so.
Exited == pc = "exited" /\ UNCHANGED vars

Next ==
    \/ \E c \in Conns : Arrive(c)
    \/ \E s \in Sockets : NetEvent(s)
    \/ \E c \in Conns : TimerExpire(c)
    \/ EpollWait
    \/ EpollTimeout
    \/ Loop
    \/ Exited

Spec == Init /\ [][Next]_vars

\* The single thread keeps running, epoll_wait returns what is ready, and armed
\* timers run out.
Fairness ==
    /\ WF_vars(Loop)
    /\ WF_vars(EpollWait)
    /\ \A c \in Conns : WF_vars(TimerExpire(c))

FairSpec == Spec /\ Fairness

-----------------------------------------------------------------------------
(* Properties. *)

TypeOK ==
    /\ pc \in {"wait", "dispatch", "accept", "exited"}
    /\ listening \in BOOLEAN
    /\ backlog \subseteq Conns
    /\ batch \subseteq Handlers \cup {Listener}
    /\ interest \subseteq Handlers
    /\ edge \subseteq Sockets
    /\ timerfd \in [Conns -> {"none", "armed", "expired"}]
    /\ file \in [Fds -> Handlers \cup {Nobody}]
    /\ sockFd \in [Handlers -> Fds \cup {BadFd}]
    /\ hmem \in [Handlers -> Memory]
    /\ pmem \in [Conns -> Memory]
    /\ cmem \in [Sockets -> Memory]
    /\ refs \in [Conns -> Int]
    /\ freeList \in Seq(Handlers)
    /\ isClosed \subseteq Sockets
    /\ setFree \subseteq Sockets
    /\ canWrite \subseteq Sockets
    /\ timerStatus \in [Conns -> {UNSET, RELAX_TIMER, TIMER_IS_UP, TIMER_RELAXED}]
    /\ stray \subseteq Sockets \X Sockets

Up(c) == timerStatus[c] = TIMER_IS_UP

\* No event is delivered into freed memory: whatever callbacks ran earlier in
\* the same epoll_wait batch, the handler of an event still to be dispatched
\* and its proxy object are allocated; and unless the timer was up (then the
\* callback returns at once), both connection structs are too and the event's
\* own descriptor is open.
BatchIsUsable ==
    \A h \in batch \cap Handlers :
        /\ hmem[h] = "live" /\ pmem[h[1]] = "live"
        /\ ~Up(h[1]) => /\ \A k \in Sides : cmem[<<h[1], k>>] = "live"
                        /\ h \in interest

\* epoll never holds a number that was closed or handed to somebody else: a
\* registered handler is allocated, its timer is not up, and the number it is
\* registered under denotes its own open file.
RegisteredOwnsNumber ==
    \A h \in interest :
        /\ hmem[h] = "live" /\ ~Up(h[1])
        /\ sockFd[h] \in Fds /\ file[sockFd[h]] = h

\* Closing a side never hits a foreign descriptor: as long as is_closed is 0
\* and the side is not freed, its number denotes its own socket.  The one
\* exception is a backend that never connected; then it is -1 or the number of
\* the connection's own timer, even after other connections came and went.
OpenSideOwnsNumber ==
    \A s \in Sockets \ isClosed :
        cmem[s] = "live" =>
            \/ Target(s) = s
            \/ s[2] = "backend" /\ sockFd[s] = BadFd
            \/ s[2] = "backend" /\ Target(s) = <<s[1], "timer">>

LiveHandlers(c) == {k \in Kinds : hmem[<<c, k>>] = "live"}

\* Memory balance across the three frees: nothing is freed twice or freed
\* before it is allocated, no handler is twice on the free list, and the
\* reference counter of a proxy object counts its allocated handlers, so it is
\* freed exactly with the last of them.
MemoryBalance ==
    /\ \A h \in Handlers : hmem[h] # "corrupt"
    /\ \A c \in Conns : pmem[c] # "corrupt"
    /\ \A s \in Sockets : cmem[s] # "corrupt"
    /\ \A i, j \in DOMAIN freeList : freeList[i] = freeList[j] => i = j
    /\ \A c \in Conns :
           /\ refs[c] = Cardinality(LiveHandlers(c))
           /\ pmem[c] = "live" <=> refs[c] > 0

\* Between batches no connection is half released: when epoll_wait is called,
\* either all of a connection is allocated, or all of it is freed, both its
\* sockets are closed and it left epoll.
WaitFindsNoRemains ==
    pc = "wait" =>
        \A c \in Conns :
            \/ pmem[c] = "none"
            \/ /\ ~Up(c) /\ pmem[c] = "live"
               /\ \A k \in Kinds : hmem[<<c, k>>] = "live"
               /\ \A k \in Sides : cmem[<<c, k>>] = "live"
            \/ /\ Up(c) /\ pmem[c] = "freed"
               /\ \A k \in Kinds : /\ hmem[<<c, k>>] = "freed"
                                   /\ <<c, k>> \notin interest
               /\ \A k \in Sides : /\ cmem[<<c, k>>] = "freed"
                                   /\ <<c, k>> \in isClosed
                                   /\ \A f \in Fds : file[f] # <<c, k>>

\* A write that reaches a foreign socket comes from a side closed before by a
\* hang-up of its own; a side still open never writes to another's socket.
StrayOnlyAfterClose == \A w \in stray : w[1] \in isClosed /\ w[2][1] # w[1][1]

\* The numbers that denote an open file of connection c.
NumbersLeft(c) == {f \in Fds : file[f] \in {<<c, k>> : k \in Kinds}}

\* What a connection that timed out has left open is its timer's descriptor, for ever,
\* whatever numbers the connections after it get; the one time it is not left is when
\* no address of the backend answered and the number the code kept for the backend,
\* of a socket it had closed, is the one its own timer got: then the "backend" is
\* closed under it (timer_callback.c:23 deregisters the timer and closes nothing).
OnlyTimerLeaks ==
    \A c \in Conns :
        Up(c) => NumbersLeft(c) = {sockFd[<<c, "timer">>]} \ {sockFd[<<c, "backend">>]}

\* Detailed steps seen as steps of ConnectionContract.
Stage(c) ==
    CASE pmem[c] = "live"  -> IF Up(c) THEN "expired" ELSE "open"
      [] pmem[c] = "freed" -> "released"
      [] OTHER             -> pmem[c]

Contract == INSTANCE ConnectionContract WITH
    up <- pc # "exited",
    stage <- [c \in Conns |-> Stage(c)],
    sides <- [c \in Conns |-> {k \in Sides : \E f \in Fds : file[f] = <<c, k>>}],
    quiet <- [c \in Conns |-> timerStatus[c] = TIMER_RELAXED]

\* The loop keeps the contract of every connection: one step concerns one
\* connection, a socket is closed only by its own connection's event or
\* timer, a connection expires only after a whole period without events, and
\* its proxy object is released once and after that.
KeepsContract == Contract!Spec

\* An idle connection is reaped: if its sockets become silent for good, its
\* memory is eventually freed (zxy_proxy_events_callback, the sweep), unless
\* the process exits.
IdleIsReaped ==
    \A c \in Conns :
        \/ []<><<\E k \in Sides : NetEvent(<<c, k>>)>>_vars
        \/ (pmem[c] = "live") ~> (pmem[c] = "freed" \/ pc = "exited")

\* A client in the backlog is accepted, or turned away with the listener, or
\* the process exits: callbacks of other connections cannot starve the accept
\* loop (zxy_accept_new_conn).
QueuedIsAccepted ==
    \A c \in Conns :
        (c \in backlog) ~> (pmem[c] = "live" \/ ~listening \/ pc = "exited")

-----------------------------------------------------------------------------
(* The inductive invariant behind the safety properties. *)

\* A connection is not accepted yet, or served, or expired by its timer.
Unborn(c) ==
    /\ pmem[c] = "none" /\ timerStatus[c] = UNSET
    /\ \A k \in Kinds : /\ hmem[<<c, k>>] = "none"
                        /\ <<c, k>> \notin interest
                        /\ \A f \in Fds : file[f] # <<c, k>>
    /\ \A k \in Sides : /\ cmem[<<c, k>>] = "none"
                        /\ <<c, k>> \notin isClosed \cup setFree

Serving(c) ==
    /\ pmem[c] = "live" /\ ~Up(c) /\ c \notin backlog
    /\ \A k \in Kinds : hmem[<<c, k>>] = "live"
    /\ \A k \in Sides : cmem[<<c, k>>] = "live" /\ <<c, k>> \notin setFree

Expired(c) ==
    /\ pmem[c] \in {"live", "freed"} /\ Up(c) /\ c \notin backlog
    /\ \A k \in Kinds : /\ hmem[<<c, k>>] \in {"live", "freed"}
                        /\ <<c, k>> \notin interest
    /\ \A k \in Sides : /\ cmem[<<c, k>>] = "freed"
                        /\ <<c, k>> \in isClosed \cap setFree

LifeInv ==
    /\ \A c \in Conns : Unborn(c) \/ Serving(c) \/ Expired(c)
    /\ \A c \in Conns : /\ refs[c] = Cardinality(LiveHandlers(c))
                        /\ pmem[c] = "live" <=> refs[c] > 0

\* The free list holds every allocated handler of an expired connection once.
FreeListInv ==
    /\ \A h \in Handlers :
           (\E i \in DOMAIN freeList : freeList[i] = h)
               <=> (hmem[h] = "live" /\ Up(h[1]))
    /\ \A i, j \in DOMAIN freeList : freeList[i] = freeList[j] => i = j

BatchInv ==
    /\ \A h \in batch \cap Handlers :
           hmem[h] = "live" /\ (~Up(h[1]) => h \in interest)
    /\ pc = "wait" => batch = {} /\ freeList = << >>

\* Open files are known to their handler by their number; what is registered
\* or still open owns its number; what is closed has none; the two sides of a
\* connection never share a number.
NumberInv ==
    /\ \A f \in Fds : file[f] \in Handlers => sockFd[file[f]] = f
    /\ \A h \in interest :
           sockFd[h] \in Fds /\ file[sockFd[h]] = h /\ h \notin isClosed
    /\ edge \subseteq interest
    /\ \A s \in isClosed : \A f \in Fds : file[f] # s
    /\ \A c \in Conns : Serving(c) =>
           sockFd[<<c, "timer">>] \in Fds
               /\ file[sockFd[<<c, "timer">>]] = <<c, "timer">>
    /\ \A c \in Conns : sockFd[<<c, "client">>] # sockFd[<<c, "backend">>]
                           \/ sockFd[<<c, "client">>] = BadFd
    /\ OpenSideOwnsNumber

IInv == TypeOK /\ LifeInv /\ FreeListInv /\ BatchInv /\ NumberInv

\* The inductive invariant behind OnlyTimerLeaks, beside IInv: a backend that has the
\* number of its own timer never saw an event, so that nobody has closed it yet.
LeakInv ==
    /\ OnlyTimerLeaks
    /\ \A c \in Conns :
           Serving(c) /\ sockFd[<<c, "backend">>] = sockFd[<<c, "timer">>]
               => <<c, "backend">> \notin isClosed

-----------------------------------------------------------------------------
(* What comments of the code promise and the code does not do. *)

\* "Set when the connection closed." (is_closed): what is marked closed sends
\* nothing any more, least of all on a socket of another connection.
ClosedIsSilent == stray = {}

=============================================================================
