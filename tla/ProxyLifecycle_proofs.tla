------------------------ MODULE ProxyLifecycle_proofs ------------------------
(* Theorems about ProxyLifecycle, for every value of its constants. *)
EXTENDS ProxyLifecycle, FiniteSetTheorems, TLAPS

\* The listener and an unused number are not handlers of a connection.
LEMMA NotHandlers == Listener \notin Handlers /\ Nobody \notin Handlers
  BY DEF Listener, Nobody, Handlers, Kinds, Sides

\* Freeing memory leaves it in a state memory can have.
LEMMA FreedIsMemory == \A m \in Memory : Freed(m) \in Memory
  BY DEF Freed, Memory

\* A close leaves the descriptor table and epoll's sets well typed.
LEMMA CloseTyped ==
    ASSUME NEW numbers, NEW deregistered, TypeOK,
           CloseAndDeregister(numbers, deregistered)
    PROVE  /\ file' \in [Fds -> Handlers \cup {Nobody}]
           /\ interest' \subseteq Handlers
           /\ edge' \subseteq Sockets
  BY DEF CloseAndDeregister, TypeOK

LEMMA FreeConnsTyped ==
    ASSUME NEW freeing \in SUBSET Sockets, TypeOK, FreeConns(freeing)
    PROVE  cmem' \in [Sockets -> Memory] /\ setFree' \subseteq Sockets
  BY FreedIsMemory DEF FreeConns, TypeOK

\* Three blocks of one connection in front of the free list.
LEMMA FreeListTyped ==
    ASSUME NEW c \in Conns, TypeOK
    PROVE  /\ << <<c, "client">>, <<c, "backend">> >> \o freeList \in Seq(Handlers)
           /\ << <<c, "timer">>, <<c, "client">>, <<c, "backend">> >> \o freeList
                  \in Seq(Handlers)
  <1>1. /\ <<c, "client">> \in Handlers
        /\ <<c, "backend">> \in Handlers
        /\ <<c, "timer">> \in Handlers
    BY DEF Handlers, Kinds, Sides
  <1>2. freeList \in Seq(Handlers)
    BY DEF TypeOK
  <1>. QED BY <1>1, <1>2

LEMMA TypeInit == Init => TypeOK
  BY DEF Init, TypeOK, Memory

-----------------------------------------------------------------------------
(* TypeOK is preserved by every action. *)

LEMMA TypeEnvironment ==
    ASSUME TypeOK,
           \/ \E c \in Conns : Arrive(c) \/ TimerExpire(c)
           \/ \E s \in Sockets : NetEvent(s)
           \/ EpollWait \/ EpollTimeout \/ Exited
           \/ UNCHANGED vars
    PROVE  TypeOK'
  <1>1. ASSUME NEW c \in Conns, Arrive(c)
        PROVE  TypeOK'
    BY <1>1 DEF TypeOK, Arrive, memory, kernel
  <1>2. ASSUME NEW c \in Conns, TimerExpire(c)
        PROVE  TypeOK'
    BY <1>2 DEF TypeOK, TimerExpire, memory
  <1>3. ASSUME NEW s \in Sockets, NetEvent(s)
        PROVE  TypeOK'
    BY <1>3 DEF TypeOK, NetEvent, memory
  <1>4. ASSUME EpollWait
        PROVE  TypeOK'
    <2>1. Ready \subseteq Handlers \cup {Listener}
      BY DEF TypeOK, Ready, Handlers, Sockets, Kinds
    <2>2. batch' \subseteq Handlers \cup {Listener} /\ edge' \subseteq Sockets
      BY <1>4, <2>1 DEF TypeOK, EpollWait
    <2>. QED BY <1>4, <2>2 DEF TypeOK, EpollWait, memory
  <1>5. ASSUME UNCHANGED vars
        PROVE  TypeOK'
    BY <1>5 DEF TypeOK, vars
  <1>. QED BY <1>1, <1>2, <1>3, <1>4, <1>5 DEF EpollTimeout, Exited

LEMMA TypeListener ==
    ASSUME TypeOK,
           \/ ListenerReadable \/ ListenerFailed \/ AcceptDone \/ AcceptFatal
           \/ \E c \in Conns : AcceptConn(c)
    PROVE  TypeOK'
  <1>1. ASSUME ListenerReadable \/ ListenerFailed \/ AcceptDone \/ AcceptFatal
        PROVE  TypeOK'
    BY <1>1 DEF TypeOK, ListenerReadable, ListenerFailed, AcceptDone,
                AcceptFatal, kernel, memory
  <1>2. ASSUME NEW c \in Conns, AcceptConn(c)
        PROVE  TypeOK'
    <2>1. PICK cfd \in Fds, bfd \in Fds \cup {BadFd}, tfd \in Fds,
               connected \in BOOLEAN, added \in SUBSET Kinds :
            AcceptAs(c, cfd, bfd, tfd, connected, added)
      BY <1>2 DEF AcceptConn
    <2>2. /\ \A k \in Kinds : <<c, k>> \in Handlers
          /\ \A k \in Sides : <<c, k>> \in Sockets
      BY DEF Handlers, Sockets
    <2>3. file' \in [Fds -> Handlers \cup {Nobody}]
      BY <2>1, <2>2 DEF AcceptAs, GetsNumbers, WithSockets, TypeOK, Kinds, Sides
    <2>4. sockFd' \in [Handlers -> Fds \cup {BadFd}]
      BY <2>1, <2>2 DEF AcceptAs, TypeOK, Kinds, Sides
    <2>5. interest' \subseteq Handlers /\ edge' \subseteq Sockets
      BY <2>1, <2>2 DEF AcceptAs, TypeOK
    <2>6. /\ hmem' \in [Handlers -> Memory]
          /\ cmem' \in [Sockets -> Memory]
          /\ pmem' \in [Conns -> Memory]
      BY <2>1 DEF AcceptAs, TypeOK, Memory
    <2>7. /\ refs' \in [Conns -> Int]
          /\ timerfd' \in [Conns -> {"none", "armed", "expired"}]
          /\ backlog' \subseteq Conns
      BY <2>1 DEF AcceptAs, TypeOK
    <2>8. UNCHANGED <<pc, listening, batch, freeList, isClosed, setFree,
                      canWrite, timerStatus, stray>>
      BY <2>1 DEF AcceptAs
    <2>. QED BY <2>3, <2>4, <2>5, <2>6, <2>7, <2>8 DEF TypeOK
  <1>. QED BY <1>1, <1>2

LEMMA TypeSweep ==
    ASSUME TypeOK, FreeHandler \/ EndOfBatch
    PROVE  TypeOK'
  <1>1. ASSUME EndOfBatch
        PROVE  TypeOK'
    BY <1>1 DEF TypeOK, EndOfBatch, BatchDone, kernel, memory
  <1>2. ASSUME FreeHandler
        PROVE  TypeOK'
    <2>1. freeList # << >> /\ freeList \in Seq(Handlers)
      BY <1>2 DEF FreeHandler, BatchDone, LastReference, TypeOK
    <2>2. Head(freeList) \in Handlers /\ Tail(freeList) \in Seq(Handlers)
      BY <2>1
    <2>3. Head(freeList)[1] \in Conns
      BY <2>2 DEF Handlers
    <2>4. /\ refs' \in [Conns -> Int]
          /\ pmem' \in [Conns -> Memory]
          /\ hmem' \in [Handlers -> Memory]
          /\ freeList' \in Seq(Handlers)
      BY <1>2, <2>2, <2>3, FreedIsMemory DEF FreeHandler, BatchDone, LastReference, TypeOK
    <2>. QED BY <1>2, <2>4 DEF FreeHandler, BatchDone, LastReference, TypeOK, kernel
  <1>. QED BY <1>1, <1>2

LEMMA TypeCallback ==
    ASSUME TypeOK, NEW c \in Conns, Callback(c)
    PROVE  TypeOK'
  <1>1. ASSUME NEW k \in Kinds, IgnoreEvent(<<c, k>>)
        PROVE  TypeOK'
    BY <1>1 DEF TypeOK, IgnoreEvent, kernel, memory
  <1>2. ASSUME NEW side \in Sides, NEW events \in Masks,
               HandlePeerEvents(c, side, events)
        PROVE  TypeOK'
    <2>0. <<c, side>> \in Sockets /\ <<c, Other(side)>> \in Sockets
      BY DEF Sockets, Sides, Other
    <2>1. /\ file' \in [Fds -> Handlers \cup {Nobody}]
          /\ interest' \subseteq Handlers
          /\ edge' \subseteq Sockets
      BY <1>2, CloseTyped DEF HandlePeerEvents, StillOpen, MarkClosed
    <2>2. cmem' \in [Sockets -> Memory] /\ setFree' \subseteq Sockets
      <3>1. PICK freeing \in SUBSET Sockets : FreeConns(freeing)
        BY <1>2, <2>0 DEF HandlePeerEvents, StillOpen, MarkClosed
      <3>. QED BY <3>1, FreeConnsTyped
    <2>3. freeList' \in Seq(Handlers)
      BY <1>2, FreeListTyped DEF HandlePeerEvents, StillOpen, MarkClosed, TypeOK
    <2>4. stray' \subseteq Sockets \X Sockets
      <3>1. MaySend(c, side, events) \subseteq Sockets
        BY <2>0 DEF MaySend
      <3>2. PICK sent \in SUBSET MaySend(c, side, events) :
              stray' = stray \cup
                  {<<s, Target(s)>> :
                       s \in {w \in sent : Target(w) \in Sockets \ {w}}}
        BY <1>2 DEF HandlePeerEvents, StillOpen, MarkClosed
      <3>. QED BY <3>1, <3>2 DEF TypeOK
    <2>5. /\ isClosed' \subseteq Sockets
          /\ canWrite' \subseteq Sockets
          /\ timerStatus' \in
                 [Conns -> {UNSET, RELAX_TIMER, TIMER_IS_UP, TIMER_RELAXED}]
          /\ batch' \subseteq Handlers \cup {Listener}
      BY <1>2, <2>0 DEF HandlePeerEvents, StillOpen, MarkClosed, TypeOK
    <2>6. UNCHANGED <<pc, listening, backlog, timerfd, sockFd, hmem, pmem, refs>>
      BY <1>2 DEF HandlePeerEvents, StillOpen, MarkClosed
    <2>. QED BY <2>1, <2>2, <2>3, <2>4, <2>5, <2>6 DEF TypeOK
  <1>3. ASSUME NEW side \in Sides, NEW events \in Masks,
               BrokenPipe(c, side, events)
        PROVE  TypeOK'
    BY <1>3 DEF TypeOK, BrokenPipe, kernel, memory
  <1>4. ASSUME TimerRelaxed(c) \/ TimerUnset(c)
        PROVE  TypeOK'
    BY <1>4 DEF TypeOK, TimerRelaxed, TimerUnset, kernel, memory
  <1>5. ASSUME TimerUp(c)
        PROVE  TypeOK'
    <2>0. {<<c, k>> : k \in Sides} \subseteq Sockets
      BY DEF Sockets
    <2>1. /\ file' \in [Fds -> Handlers \cup {Nobody}]
          /\ interest' \subseteq Handlers
          /\ edge' \subseteq Sockets
      BY <1>5, CloseTyped DEF TimerUp, StillOpen, MarkClosed
    <2>2. cmem' \in [Sockets -> Memory] /\ setFree' \subseteq Sockets
      <3>1. PICK freeing \in SUBSET Sockets : FreeConns(freeing)
        BY <1>5, <2>0 DEF TimerUp, StillOpen, MarkClosed
      <3>. QED BY <3>1, FreeConnsTyped
    <2>3. freeList' \in Seq(Handlers)
      BY <1>5, FreeListTyped DEF TimerUp, StillOpen, MarkClosed
    <2>4. /\ isClosed' \subseteq Sockets
          /\ timerStatus' \in
                 [Conns -> {UNSET, RELAX_TIMER, TIMER_IS_UP, TIMER_RELAXED}]
          /\ batch' \subseteq Handlers \cup {Listener}
      BY <1>5, <2>0 DEF TimerUp, StillOpen, MarkClosed, TypeOK
    <2>5. UNCHANGED <<pc, listening, backlog, timerfd, sockFd, hmem, pmem, refs,
                      canWrite, stray>>
      BY <1>5 DEF TimerUp, StillOpen, MarkClosed
    <2>. QED BY <2>1, <2>2, <2>3, <2>4, <2>5 DEF TypeOK
  <1>. QED BY <1>1, <1>2, <1>3, <1>4, <1>5
           DEF Callback, HandleClientEvents, HandleBackendEvents, Sides

LEMMA TypeNext == TypeOK /\ [Next]_vars => TypeOK'
  BY TypeEnvironment, TypeListener, TypeSweep, TypeCallback DEF Next, Loop

\* Every variable keeps its type: in particular every number a handler holds
\* is a descriptor or -1, and the timer status is one of its four codes, so
\* that the branch "timer_status_and_fd > 0" of zxy_proxy_events_callback is
\* never taken.
THEOREM TypeCorrect == Spec => []TypeOK
  BY TypeInit, TypeNext, PTL DEF Spec

-----------------------------------------------------------------------------
(* Facts about sequences and small sets the invariant proof rests on. *)

Once(q) == \A i, j \in DOMAIN q : q[i] = q[j] => i = j
Holds(q, x) == \E i \in DOMAIN q : q[i] = x

\* Taking the head off a list without duplicates takes off that element only.
LEMMA TailHolds ==
    ASSUME NEW S, NEW q \in Seq(S), q # << >>, Once(q)
    PROVE  /\ Head(q) \in S /\ Holds(q, Head(q))
           /\ Once(Tail(q))
           /\ \A x : Holds(Tail(q), x) <=> Holds(q, x) /\ x # Head(q)
  <1>1. /\ Len(q) \in Nat \ {0} /\ DOMAIN q = 1..Len(q)
        /\ Head(q) = q[1] /\ Head(q) \in S
        /\ DOMAIN Tail(q) = 1..(Len(q) - 1)
        /\ \A i \in 1..(Len(q) - 1) : Tail(q)[i] = q[i + 1]
    OBVIOUS
  <1>2. Holds(q, Head(q))
    BY <1>1 DEF Holds
  <1>3. Once(Tail(q))
    <2>. SUFFICES ASSUME NEW i \in 1..(Len(q) - 1), NEW j \in 1..(Len(q) - 1),
                         q[i + 1] = q[j + 1]
                  PROVE  i = j
      BY <1>1 DEF Once
    <2>. QED BY <1>1 DEF Once
  <1>4. ASSUME NEW x, Holds(Tail(q), x)
        PROVE  Holds(q, x) /\ x # Head(q)
    <2>1. PICK i \in 1..(Len(q) - 1) : q[i + 1] = x
      BY <1>1, <1>4 DEF Holds
    <2>. QED BY <1>1, <2>1 DEF Holds, Once
  <1>5. ASSUME NEW x, Holds(q, x), x # Head(q)
        PROVE  Holds(Tail(q), x)
    <2>1. PICK i \in 1..Len(q) : q[i] = x
      BY <1>1, <1>5 DEF Holds
    <2>2. i - 1 \in 1..(Len(q) - 1) /\ Tail(q)[i - 1] = x
      BY <1>1, <1>5, <2>1
    <2>. QED BY <1>1, <2>2 DEF Holds
  <1>. QED BY <1>1, <1>2, <1>3, <1>4, <1>5

\* Three different elements not in the list may go in front of it.
LEMMA PrependHolds ==
    ASSUME NEW S, NEW q \in Seq(S), Once(q),
           NEW a \in S, NEW b \in S, NEW d \in S, a # b, a # d, b # d,
           ~Holds(q, a), ~Holds(q, b), ~Holds(q, d)
    PROVE  /\ Once(<<a, b, d>> \o q)
           /\ \A x : Holds(<<a, b, d>> \o q, x)
                         <=> Holds(q, x) \/ x \in {a, b, d}
  <1>. DEFINE p == <<a, b, d>> \o q
  <1>1. /\ Len(q) \in Nat /\ DOMAIN q = 1..Len(q)
        /\ DOMAIN p = 1..(3 + Len(q))
        /\ p[1] = a /\ p[2] = b /\ p[3] = d
        /\ \A i \in 1..Len(q) : p[3 + i] = q[i]
        /\ \A i \in DOMAIN p : i > 3 => p[i] = q[i - 3] /\ i - 3 \in DOMAIN q
    OBVIOUS
  <1>. HIDE DEF p
  <1>2. \A i \in DOMAIN p : \/ i = 1 \/ i = 2 \/ i = 3
                            \/ i > 3 /\ i - 3 \in DOMAIN q /\ p[i] = q[i - 3]
    BY <1>1
  <1>3. Once(p)
    BY <1>1, <1>2 DEF Once, Holds
  <1>4. ASSUME NEW x
        PROVE  Holds(p, x) <=> Holds(q, x) \/ x \in {a, b, d}
    <2>1. Holds(p, x) => Holds(q, x) \/ x \in {a, b, d}
      BY <1>1, <1>2 DEF Holds
    <2>2. Holds(q, x) => Holds(p, x)
      <3>1. ASSUME NEW i \in DOMAIN q, q[i] = x
            PROVE  3 + i \in DOMAIN p /\ p[3 + i] = x
        BY <1>1, <3>1
      <3>. QED BY <3>1 DEF Holds
    <2>3. x \in {a, b, d} => Holds(p, x)
      BY <1>1 DEF Holds
    <2>. QED BY <2>1, <2>2, <2>3
  <1>. QED BY <1>3, <1>4 DEF p

LEMMA KindsCount == IsFiniteSet(Kinds) /\ Cardinality(Kinds) = 3
  <1>1. /\ IsFiniteSet({"client"}) /\ Cardinality({"client"}) = 1
    BY FS_Singleton
  <1>2. /\ IsFiniteSet({"client"} \cup {"backend"})
        /\ Cardinality({"client"} \cup {"backend"}) = 2
    BY <1>1, FS_AddElement
  <1>3. /\ IsFiniteSet({"client"} \cup {"backend"} \cup {"timer"})
        /\ Cardinality({"client"} \cup {"backend"} \cup {"timer"}) = 3
    BY <1>2, FS_AddElement
  <1>4. Kinds = {"client"} \cup {"backend"} \cup {"timer"}
    BY DEF Kinds, Sides
  <1>. QED BY <1>3, <1>4

LEMMA LiveCount ==
    ASSUME NEW c
    PROVE  IsFiniteSet(LiveHandlers(c)) /\ Cardinality(LiveHandlers(c)) \in Nat
  <1>1. LiveHandlers(c) \subseteq Kinds
    BY DEF LiveHandlers
  <1>. QED BY <1>1, KindsCount, FS_Subset, FS_CardinalityType

-----------------------------------------------------------------------------
(* IInv holds initially. *)

LEMMA InvInit == Init => IInv
  <1>. SUFFICES ASSUME Init
                PROVE  IInv
    OBVIOUS
  <1>1. TypeOK
    BY TypeInit
  <1>2. /\ \A c \in Conns, k \in Kinds : <<c, k>> \in Handlers
        /\ \A c \in Conns, k \in Sides : <<c, k>> \in Sockets
        /\ \A c \in Conns, k \in Kinds : <<c, k>> # Nobody
    BY NotHandlers DEF Handlers, Sockets, Nobody, Kinds, Sides
  <1>3. LifeInv
    <2>1. ASSUME NEW c \in Conns
          PROVE  Unborn(c)
      BY <1>2 DEF Init, Unborn, Sides, Kinds
    <2>2. ASSUME NEW c \in Conns
          PROVE  refs[c] = Cardinality(LiveHandlers(c))
                     /\ (pmem[c] = "live" <=> refs[c] > 0)
      <3>1. LiveHandlers(c) = {}
        BY <1>2 DEF Init, LiveHandlers
      <3>. QED BY <3>1, FS_EmptySet DEF Init
    <2>. QED BY <2>1, <2>2 DEF LifeInv
  <1>4. FreeListInv
    BY DEF Init, FreeListInv
  <1>5. BatchInv
    BY DEF Init, BatchInv
  <1>6. NumberInv
    <2>1. \A c \in Conns : sockFd[<<c, "client">>] = BadFd
      BY <1>2 DEF Init, Kinds, Sides
    <2>. QED BY <1>2, <2>1, NotHandlers
             DEF Init, NumberInv, OpenSideOwnsNumber, Serving
  <1>. QED BY <1>1, <1>3, <1>4, <1>5, <1>6 DEF IInv

-----------------------------------------------------------------------------
(* Steps that leave memory and numbers alone. *)

\* A connection that is served has nothing on the free list; one that still
\* awaits acceptance is unborn.
LEMMA Stages ==
    ASSUME IInv, NEW c \in Conns
    PROVE  /\ Serving(c) <=> pmem[c] # "none" /\ ~Up(c)
           /\ c \in backlog => Unborn(c)
           /\ \A k \in Kinds : hmem[<<c, k>>] = "live" /\ ~Up(c) => Serving(c)
           /\ \A k \in Kinds : <<c, k>> \in interest => Serving(c)
  BY DEF IInv, LifeInv, Unborn, Serving, Expired, Up, Kinds, UNSET, TIMER_IS_UP

\* Steps of the loop and of the environment that only move events around.
LEMMA QuietStep ==
    ASSUME IInv, TypeOK',
           UNCHANGED <<interest, file, sockFd, memory, isClosed, timerStatus>>,
           \A c \in backlog' : c \in backlog \/ pmem[c] = "none",
           edge' \subseteq interest,
           batch' \cap Handlers \subseteq batch \cup interest,
           pc' = "wait" => batch' = {} /\ freeList = << >>
    PROVE  IInv'
  <1>1. LifeInv'
    <2>1. ASSUME NEW c \in Conns
          PROVE  (Unborn(c) \/ Serving(c) \/ Expired(c))'
      BY DEF IInv, LifeInv, TypeOK, Unborn, Serving, Expired, memory, Up
    <2>2. \A c \in Conns : LiveHandlers(c)' = LiveHandlers(c)
      BY DEF memory, LiveHandlers
    <2>. QED BY <2>1, <2>2 DEF IInv, LifeInv, memory
  <1>2. FreeListInv'
    BY DEF IInv, FreeListInv, memory, Up
  <1>3. BatchInv'
    <2>1. ASSUME NEW h \in interest
          PROVE  hmem[h] = "live"
      BY Stages DEF IInv, TypeOK, Handlers, Serving
    <2>. QED BY <2>1 DEF IInv, BatchInv, memory, Up
  <1>4. NumberInv'
    <2>1. \A c \in Conns : Serving(c)' => Serving(c)
      BY Stages DEF Serving, memory, Up
    <2>2. OpenSideOwnsNumber'
      BY DEF IInv, NumberInv, OpenSideOwnsNumber, Target, memory
    <2>. QED BY <2>1, <2>2 DEF IInv, NumberInv
  <1>. QED BY <1>1, <1>2, <1>3, <1>4 DEF IInv

LEMMA InvQuiet ==
    ASSUME IInv, TypeOK',
           \/ \E c \in Conns : Arrive(c) \/ TimerExpire(c) \/ TimerUnset(c)
           \/ \E s \in Sockets : NetEvent(s)
           \/ EpollWait \/ EndOfBatch
           \/ ListenerReadable \/ ListenerFailed \/ AcceptDone \/ AcceptFatal
           \/ \E h \in Handlers : IgnoreEvent(h)
           \/ \E c \in Conns, side \in Sides, events \in Masks :
                  BrokenPipe(c, side, events)
    PROVE  IInv'
  <1>1. edge \subseteq interest /\ (pc = "wait" => batch = {} /\ freeList = << >>)
    BY DEF IInv, NumberInv, BatchInv
  <1>2. ASSUME NEW c \in Conns, Arrive(c)
        PROVE  IInv'
    BY <1>1, <1>2, QuietStep DEF Arrive, kernel
  <1>3. ASSUME NEW c \in Conns, TimerExpire(c) \/ TimerUnset(c)
        PROVE  IInv'
    BY <1>1, <1>3, QuietStep DEF TimerExpire, TimerUnset, kernel
  <1>4. ASSUME NEW s \in Sockets, NetEvent(s)
        PROVE  IInv'
    BY <1>1, <1>4, QuietStep DEF NetEvent
  <1>5. ASSUME EpollWait
        PROVE  IInv'
    <2>1. Ready \cap Handlers \subseteq interest
      BY <1>1, NotHandlers DEF Ready
    <2>2. batch' \subseteq Ready /\ edge' \subseteq edge
      BY <1>5 DEF EpollWait
    <2>. QED BY <1>1, <1>5, <2>1, <2>2, QuietStep DEF EpollWait
  <1>6. ASSUME \/ EndOfBatch \/ ListenerReadable \/ ListenerFailed
               \/ AcceptDone \/ AcceptFatal
        PROVE  IInv'
    BY <1>1, <1>6, QuietStep DEF EndOfBatch, BatchDone, ListenerReadable, ListenerFailed,
                                 AcceptDone, AcceptFatal, kernel
  <1>7. ASSUME NEW h \in Handlers, IgnoreEvent(h)
        PROVE  IInv'
    BY <1>1, <1>7, QuietStep DEF IgnoreEvent, kernel
  <1>8. ASSUME NEW c \in Conns, NEW side \in Sides, NEW events \in Masks,
               BrokenPipe(c, side, events)
        PROVE  IInv'
    BY <1>1, <1>8, QuietStep DEF BrokenPipe, kernel
  <1>. QED BY <1>2, <1>3, <1>4, <1>5, <1>6, <1>7, <1>8

-----------------------------------------------------------------------------
(* Callbacks. *)

\* A dispatched event whose timer is not up belongs to a served connection and
\* to a handler registered under its own number.
LEMMA Dispatched ==
    ASSUME IInv, NEW c \in Conns, NEW k \in Kinds, <<c, k>> \in batch, ~Up(c)
    PROVE  /\ Serving(c) /\ <<c, k>> \in interest
           /\ sockFd[<<c, k>>] \in Fds /\ file[sockFd[<<c, k>>]] = <<c, k>>
           /\ <<c, k>> \notin isClosed
  <1>1. <<c, k>> \in Handlers
    BY DEF Handlers
  <1>2. hmem[<<c, k>>] = "live" /\ <<c, k>> \in interest
    BY <1>1 DEF IInv, BatchInv
  <1>. QED BY <1>2, Stages DEF IInv, NumberInv

\* What a step of a served connection does to the other connections' share of
\* LifeInv when it leaves their memory, status, numbers and flags alone.
LEMMA OthersKept ==
    ASSUME IInv, NEW c \in Conns, NEW d \in Conns, d # c,
           pmem'[d] = pmem[d], timerStatus'[d] = timerStatus[d],
           d \in backlog' => d \in backlog,
           \A k \in Kinds :
               /\ hmem'[<<d, k>>] = hmem[<<d, k>>]
               /\ <<d, k>> \in interest' => <<d, k>> \in interest
               /\ \A f \in Fds : file'[f] = <<d, k>> => file[f] = <<d, k>>,
           \A k \in Sides :
               /\ cmem'[<<d, k>>] = cmem[<<d, k>>]
               /\ <<d, k>> \in isClosed' <=> <<d, k>> \in isClosed
               /\ <<d, k>> \in setFree' <=> <<d, k>> \in setFree
    PROVE  (Unborn(d) \/ Serving(d) \/ Expired(d))'
  <1>1. Unborn(d) \/ Serving(d) \/ Expired(d)
    BY DEF IInv, LifeInv
  <1>2. Unborn(d) => Unborn(d)'
    BY DEF Unborn
  <1>3. Serving(d) => Serving(d)'
    BY DEF Serving, Up
  <1>4. Expired(d) => Expired(d)'
    BY DEF Expired, Up
  <1>. QED BY <1>1, <1>2, <1>3, <1>4

LEMMA InvTimerRelaxed ==
    ASSUME IInv, TypeOK', NEW c \in Conns, TimerRelaxed(c)
    PROVE  IInv'
  <1>1. ~Up(c)
    BY DEF TimerRelaxed, Up, TIMER_IS_UP, RELAX_TIMER
  <1>2. Serving(c)
    BY <1>1, Dispatched DEF TimerRelaxed, Kinds
  <1>3. /\ UNCHANGED <<pc, backlog, interest, edge, file, sockFd, memory, isClosed>>
        /\ batch' \subseteq batch
        /\ timerStatus' = [timerStatus EXCEPT ![c] = TIMER_RELAXED]
    BY DEF TimerRelaxed
  <1>4. \A d \in Conns : Up(d)' <=> Up(d)
    BY <1>1, <1>3 DEF IInv, TypeOK, Up, TIMER_RELAXED, TIMER_IS_UP
  <1>5. LifeInv'
    <2>1. ASSUME NEW d \in Conns, d # c
          PROVE  (Unborn(d) \/ Serving(d) \/ Expired(d))'
      BY <1>3, <2>1, OthersKept DEF IInv, TypeOK, memory
    <2>2. Serving(c)'
      BY <1>2, <1>3, <1>4 DEF Serving, memory
    <2>3. \A d \in Conns : LiveHandlers(d)' = LiveHandlers(d)
      BY <1>3 DEF memory, LiveHandlers
    <2>. QED BY <1>3, <2>1, <2>2, <2>3 DEF IInv, LifeInv, memory
  <1>6. FreeListInv'
    BY <1>3, <1>4 DEF IInv, FreeListInv, memory, Handlers
  <1>7. BatchInv'
    BY <1>3, <1>4 DEF IInv, BatchInv, memory, Handlers, TimerRelaxed
  <1>8. NumberInv'
    <2>1. \A d \in Conns : Serving(d)' => Serving(d)
      BY <1>3, <1>4 DEF Serving, memory
    <2>2. OpenSideOwnsNumber'
      BY <1>3 DEF IInv, NumberInv, OpenSideOwnsNumber, Target, memory
    <2>. QED BY <1>3, <2>1, <2>2 DEF IInv, NumberInv
  <1>. QED BY <1>5, <1>6, <1>7, <1>8 DEF IInv

\* The peer events of a served connection free nothing (the teardown branch
\* needs set_free, which only the timer sets); a hang-up closes exactly the
\* side's own number.
LEMMA PeerEffect ==
    ASSUME IInv, NEW c \in Conns, NEW side \in Sides, NEW events \in Masks,
           HandlePeerEvents(c, side, events)
    PROVE  LET self == <<c, side>>
           IN /\ ~Up(c) /\ Serving(c) /\ self \in interest
              /\ self \in Sockets /\ self \in Handlers
              /\ sockFd[self] \in Fds /\ file[sockFd[self]] = self
              /\ self \notin isClosed
              /\ UNCHANGED <<pc, backlog, sockFd, memory>>
              /\ batch' = batch \ {self}
              /\ timerStatus' = [timerStatus EXCEPT ![c] = RELAX_TIMER]
              /\ \/ UNCHANGED <<file, interest, edge, isClosed>>
                 \/ /\ file' = [file EXCEPT ![sockFd[self]] = Nobody]
                    /\ interest' = interest \ {self}
                    /\ edge' = edge \ {self}
                    /\ isClosed' = isClosed \cup {self}
  <1>. DEFINE self == <<c, side>>
  <1>1. /\ side \in Kinds /\ Other(side) \in Sides
        /\ self \in Sockets /\ self \in Handlers /\ <<c, Other(side)>> \in Sockets
    BY DEF Sockets, Handlers, Kinds, Sides, Other
  <1>2. ~Up(c) /\ self \in batch
    BY DEF HandlePeerEvents, StillOpen, MarkClosed, Up
  <1>3. /\ Serving(c) /\ self \in interest
        /\ sockFd[self] \in Fds /\ file[sockFd[self]] = self
        /\ self \notin isClosed
    BY <1>1, <1>2, Dispatched
  <1>4. <<c, Other(side)>> \notin setFree
    BY <1>1, <1>3 DEF Serving
  <1>5. /\ cmem' = cmem /\ setFree' = setFree /\ freeList' = freeList
    BY <1>4 DEF HandlePeerEvents, StillOpen, MarkClosed, FreeConns, IInv, TypeOK
  <1>6. /\ UNCHANGED <<pc, backlog, sockFd, hmem, pmem, refs>>
        /\ batch' = batch \ {self}
        /\ timerStatus' = [timerStatus EXCEPT ![c] = RELAX_TIMER]
    BY DEF HandlePeerEvents, StillOpen, MarkClosed
  <1>7. CASE "close" \in events
    <2>1. /\ CloseAndDeregister({sockFd[self]}, {})
          /\ isClosed' = isClosed \cup {self}
      BY <1>7 DEF HandlePeerEvents, StillOpen, MarkClosed, NumbersOf
    <2>2. file' = [file EXCEPT ![sockFd[self]] = Nobody]
      BY <2>1 DEF CloseAndDeregister, IInv, TypeOK
    <2>3. \A h \in interest : sockFd[h] = sockFd[self] <=> h = self
      BY <1>3 DEF IInv, NumberInv
    <2>4. interest' = interest \ {self} /\ edge' = edge \ {self}
      BY <2>1, <2>3 DEF CloseAndDeregister, IInv, NumberInv
    <2>. QED BY <1>1, <1>2, <1>3, <1>5, <1>6, <2>1, <2>2, <2>4 DEF memory
  <1>8. CASE "close" \notin events
    <2>1. CloseAndDeregister({}, {}) /\ isClosed' = isClosed
      BY <1>4, <1>8 DEF HandlePeerEvents, StillOpen, MarkClosed, NumbersOf
    <2>2. UNCHANGED <<file, interest, edge>>
      BY <2>1 DEF CloseAndDeregister, IInv, TypeOK
    <2>. QED BY <1>1, <1>2, <1>3, <1>5, <1>6, <2>1, <2>2 DEF memory
  <1>. QED BY <1>7, <1>8

LEMMA InvPeer ==
    ASSUME IInv, TypeOK', NEW c \in Conns, NEW side \in Sides,
           NEW events \in Masks, HandlePeerEvents(c, side, events)
    PROVE  IInv'
  <1>. DEFINE self == <<c, side>>
  <1>1. /\ ~Up(c) /\ Serving(c) /\ self \in interest
        /\ self \in Sockets /\ self \in Handlers
        /\ sockFd[self] \in Fds /\ file[sockFd[self]] = self
        /\ self \notin isClosed
    BY PeerEffect
  <1>2. /\ UNCHANGED <<pc, backlog, sockFd, memory>>
        /\ batch' = batch \ {self}
        /\ timerStatus' = [timerStatus EXCEPT ![c] = RELAX_TIMER]
    BY PeerEffect
  <1>3. \/ UNCHANGED <<file, interest, edge, isClosed>>
        \/ /\ file' = [file EXCEPT ![sockFd[self]] = Nobody]
           /\ interest' = interest \ {self}
           /\ edge' = edge \ {self}
           /\ isClosed' = isClosed \cup {self}
    BY PeerEffect
  <1>4. \A d \in Conns : Up(d)' <=> Up(d)
    BY <1>1, <1>2 DEF IInv, TypeOK, Up, RELAX_TIMER, TIMER_IS_UP
  <1>5. /\ \A h : h \in interest' <=> h \in interest /\ (h = self => h \notin isClosed')
        /\ \A h : h \in isClosed' => h \in isClosed \/ h = self
        /\ isClosed \subseteq isClosed'
        /\ \A f \in Fds : file'[f] # Nobody => file'[f] = file[f]
        /\ \A f \in Fds : file[f] # self => file'[f] = file[f]
        /\ self \in isClosed' => \A f \in Fds : file'[f] # self
        /\ edge' \subseteq edge \cap interest'
    <2>1. /\ self # Nobody /\ self \notin isClosed
          /\ self \in interest /\ edge \subseteq interest
          /\ sockFd[self] \in Fds /\ file[sockFd[self]] = self
      BY <1>1, NotHandlers DEF IInv, NumberInv
    <2>2. /\ file \in [Fds -> Handlers \cup {Nobody}]
          /\ \A f \in Fds : file[f] = self => f = sockFd[self]
      <3>1. file \in [Fds -> Handlers \cup {Nobody}]
        BY DEF IInv, TypeOK
      <3>2. \A f \in Fds : file[f] \in Handlers => sockFd[file[f]] = f
        BY DEF IInv, NumberInv
      <3>3. self \in Handlers
        BY <1>1
      <3>. HIDE DEF self
      <3>. QED BY <3>1, <3>2, <3>3
    <2>. HIDE DEF self
    <2>3. CASE UNCHANGED <<file, interest, edge, isClosed>>
      BY <2>1, <2>3
    <2>4. CASE /\ file' = [file EXCEPT ![sockFd[self]] = Nobody]
               /\ interest' = interest \ {self}
               /\ edge' = edge \ {self}
               /\ isClosed' = isClosed \cup {self}
      <3>1. \A f \in Fds : file'[f] = IF f = sockFd[self] THEN Nobody ELSE file[f]
        BY <2>2, <2>4
      <3>. QED BY <2>1, <2>2, <2>4, <3>1
    <2>. QED BY <1>3, <2>3, <2>4
  <1>. HIDE DEF self
  <1>6. LifeInv'
    <2>1. ASSUME NEW d \in Conns, d # c
          PROVE  (Unborn(d) \/ Serving(d) \/ Expired(d))'
      <3>1. \A k \in Kinds : <<d, k>> # self /\ <<d, k>> # Nobody
        BY <2>1, NotHandlers DEF self, Handlers
      <3>2. \A k \in Kinds : /\ <<d, k>> \in interest' => <<d, k>> \in interest
                             /\ \A f \in Fds : file'[f] = <<d, k>> => file[f] = <<d, k>>
        BY <1>5, <3>1
      <3>3. \A k \in Sides : <<d, k>> \in isClosed' <=> <<d, k>> \in isClosed
        BY <1>5, <3>1 DEF Kinds
      <3>. QED BY <1>2, <2>1, <3>2, <3>3, OthersKept DEF IInv, TypeOK, memory
    <2>2. Serving(c)'
      BY <1>1, <1>2, <1>4 DEF Serving, memory
    <2>3. \A d \in Conns : LiveHandlers(d)' = LiveHandlers(d)
      BY <1>2 DEF memory, LiveHandlers
    <2>. QED BY <1>2, <2>1, <2>2, <2>3 DEF IInv, LifeInv, memory
  <1>7. FreeListInv'
    BY <1>2, <1>4 DEF IInv, FreeListInv, memory, Handlers
  <1>8. BatchInv'
    <2>1. pc # "wait"
      BY DEF HandlePeerEvents, StillOpen, MarkClosed
    <2>. QED BY <1>2, <1>4, <1>5, <2>1 DEF IInv, BatchInv, memory, Handlers
  <1>9. NumberInv'
    <2>1. \A d \in Conns : Serving(d)' => Serving(d)
      BY <1>2, <1>4 DEF Serving, memory
    <2>2. ASSUME NEW d \in Conns
          PROVE  <<d, "timer">> # self /\ <<d, "timer">> # Nobody
      BY NotHandlers DEF self, Handlers, Kinds, Sides
    <2>3. OpenSideOwnsNumber'
      <3>. SUFFICES ASSUME NEW s \in Sockets, s \notin isClosed', cmem[s] = "live"
                    PROVE  \/ Target(s)' = s
                           \/ s[2] = "backend" /\ sockFd[s] = BadFd
                           \/ s[2] = "backend" /\ Target(s)' = <<s[1], "timer">>
        BY <1>2 DEF OpenSideOwnsNumber, memory
      <3>1. s \notin isClosed /\ s[1] \in Conns /\ (self \in isClosed' => s # self)
        BY <1>5 DEF Sockets
      <3>2. \/ Target(s) = s
            \/ s[2] = "backend" /\ sockFd[s] = BadFd
            \/ s[2] = "backend" /\ Target(s) = <<s[1], "timer">>
        BY <3>1 DEF IInv, NumberInv, OpenSideOwnsNumber
      <3>3. self \in isClosed' \/ file' = file
        BY <1>3
      <3>4. Target(s) # self => Target(s)' = Target(s)
        BY <1>2, <1>5 DEF Target
      <3>5. Target(s)' = Target(s) \/ s # self
        BY <1>2, <3>1, <3>3 DEF Target
      <3>. QED BY <2>2, <3>1, <3>2, <3>4, <3>5
    <2>4. \A f \in Fds : file'[f] \in Handlers => sockFd'[file'[f]] = f
      BY <1>2, <1>5, NotHandlers DEF IInv, NumberInv
    <2>5. \A h \in interest' :
              sockFd'[h] \in Fds /\ file'[sockFd'[h]] = h /\ h \notin isClosed'
      <3>. SUFFICES ASSUME NEW h \in interest'
                    PROVE  sockFd[h] \in Fds /\ file'[sockFd[h]] = h /\ h \notin isClosed'
        BY <1>2
      <3>1. h \in interest /\ (h = self => h \notin isClosed')
        BY <1>5
      <3>2. sockFd[h] \in Fds /\ file[sockFd[h]] = h /\ h \notin isClosed
        BY <3>1 DEF IInv, NumberInv
      <3>3. h # self => file'[sockFd[h]] = h
        BY <1>5, <3>2
      <3>4. h = self => file' = file
        BY <1>3, <3>1
      <3>. QED BY <1>5, <3>1, <3>2, <3>3, <3>4
    <2>6. \A s \in isClosed' : \A f \in Fds : file'[f] # s
      <3>1. ASSUME NEW s \in isClosed', s # self, NEW f \in Fds, file'[f] = s
            PROVE  FALSE
        BY <1>5, <3>1, NotHandlers DEF IInv, NumberInv, TypeOK, Sockets, Handlers, Kinds
      <3>. QED BY <1>5, <3>1
    <2>7. \A d \in Conns : Serving(d)' =>
              sockFd'[<<d, "timer">>] \in Fds
                  /\ file'[sockFd'[<<d, "timer">>]] = <<d, "timer">>
      BY <1>2, <1>5, <2>1, <2>2 DEF IInv, NumberInv
    <2>8. edge' \subseteq interest'
      BY <1>5
    <2>9. \A d \in Conns : sockFd'[<<d, "client">>] # sockFd'[<<d, "backend">>]
                               \/ sockFd'[<<d, "client">>] = BadFd
      BY <1>2 DEF IInv, NumberInv
    <2>. QED BY <2>3, <2>4, <2>5, <2>6, <2>7, <2>8, <2>9 DEF NumberInv
  <1>. QED BY <1>6, <1>7, <1>8, <1>9 DEF IInv

\* What the timer does to memory: both structs go, three handlers are queued.
LEMMA TimerUpMemory ==
    ASSUME IInv, NEW c \in Conns, TimerUp(c)
    PROVE  /\ ~Up(c) /\ Serving(c) /\ <<c, "timer">> \in interest
           /\ UNCHANGED <<pc, backlog, sockFd, hmem, pmem, refs>>
           /\ batch' \subseteq batch
           /\ timerStatus' = [timerStatus EXCEPT ![c] = TIMER_IS_UP]
           /\ setFree' = setFree \cup {<<c, k>> : k \in Sides}
           /\ isClosed' = isClosed \cup {<<c, k>> : k \in Sides}
           /\ \A k \in Sides : cmem'[<<c, k>>] = "freed"
           /\ \A d \in Conns \ {c}, k \in Sides : cmem'[<<d, k>>] = cmem[<<d, k>>]
           /\ CloseAndDeregister(NumbersOf({<<c, k>> : k \in Sides} \ isClosed),
                                 {sockFd[<<c, "timer">>]})
  <1>1. ~Up(c)
    BY DEF TimerUp, StillOpen, MarkClosed, TimedOut, Up, TIMER_IS_UP, TIMER_RELAXED
  <1>2. Serving(c) /\ <<c, "timer">> \in interest
    BY <1>1, Dispatched DEF TimerUp, StillOpen, MarkClosed, Kinds
  <1>3. {<<c, k>> : k \in Sides} \ setFree = {<<c, k>> : k \in Sides}
    BY <1>2 DEF Serving
  <1>4. FreeConns({<<c, k>> : k \in Sides})
    BY <1>3 DEF TimerUp, StillOpen, MarkClosed
  <1>5. /\ \A k \in Sides : cmem'[<<c, k>>] = "freed"
        /\ \A d \in Conns \ {c}, k \in Sides : cmem'[<<d, k>>] = cmem[<<d, k>>]
    BY <1>2, <1>4 DEF FreeConns, Freed, Sockets, Serving
  <1>6. setFree' = setFree \cup {<<c, k>> : k \in Sides}
    BY <1>4 DEF FreeConns
  <1>7. isClosed' = isClosed \cup {<<c, k>> : k \in Sides}
    BY <1>3 DEF TimerUp, StillOpen, MarkClosed
  <1>8. CloseAndDeregister(NumbersOf({<<c, k>> : k \in Sides} \ isClosed),
                           {sockFd[<<c, "timer">>]})
    <2>1. NumbersOf({<<c, "timer">>}) = {sockFd[<<c, "timer">>]}
      BY DEF NumbersOf
    <2>. QED BY <1>3, <2>1 DEF TimerUp, StillOpen, MarkClosed
  <1>9. /\ UNCHANGED <<pc, backlog, sockFd, hmem, pmem, refs>>
        /\ batch' \subseteq batch
        /\ timerStatus' = [timerStatus EXCEPT ![c] = TIMER_IS_UP]
    BY DEF TimerUp, StillOpen, MarkClosed
  <1>. QED BY <1>1, <1>2, <1>5, <1>6, <1>7, <1>8, <1>9

\* What the timer does to numbers: everything of c except its timer's file is
\* closed, everything of c leaves epoll, and nothing else changes, although
\* the backend's number may denote the timer.
LEMMA TimerUpNumbers ==
    ASSUME IInv, NEW c \in Conns, TimerUp(c)
    PROVE  /\ \A h \in Handlers :
                  h \in interest' <=> h \in interest /\ h[1] # c
           /\ \A f \in Fds : file[f] # Nobody /\ file[f][1] # c => file'[f] = file[f]
           /\ \A f \in Fds : file'[f] # Nobody => file'[f] = file[f]
           /\ \A f \in Fds : \A k \in Sides : file'[f] # <<c, k>>
           /\ edge' \subseteq interest'
           /\ interest' \subseteq Handlers
  <1>. DEFINE closing == {<<c, k>> : k \in Sides} \ isClosed
              N == NumbersOf(closing)
              timer == <<c, "timer">>
  <1>1. /\ Serving(c) /\ timer \in interest
        /\ CloseAndDeregister(N, {sockFd[timer]})
    BY TimerUpMemory
  <1>2. /\ interest \subseteq Handlers /\ edge \subseteq interest
        /\ \A f \in Fds : file[f] \in Handlers => sockFd[file[f]] = f
        /\ \A h \in interest :
              sockFd[h] \in Fds /\ file[sockFd[h]] = h /\ h \notin isClosed
        /\ \A s \in isClosed : \A f \in Fds : file[f] # s
    BY DEF IInv, TypeOK, NumberInv
  <1>3. \A f \in Fds \cap N : file[f] # Nobody /\ file[f][1] = c
    <2>. SUFFICES ASSUME NEW k \in Sides, <<c, k>> \notin isClosed,
                         sockFd[<<c, k>>] \in Fds
                  PROVE  /\ file[sockFd[<<c, k>>]] # Nobody
                         /\ file[sockFd[<<c, k>>]][1] = c
      BY DEF NumbersOf
    <2>1. <<c, k>> \in Sockets /\ cmem[<<c, k>>] = "live" /\ k \in Kinds
      BY <1>1 DEF Serving, Sockets, Kinds
    <2>2. sockFd[<<c, k>>] # BadFd
      BY ConstantsAssumption DEF BadFd
    <2>3. file[sockFd[<<c, k>>]] \in {<<c, k>>, <<c, "timer">>}
      BY <2>1, <2>2 DEF IInv, NumberInv, OpenSideOwnsNumber, Target
    <2>4. <<c, k>> # Nobody /\ <<c, "timer">> # Nobody
      BY NotHandlers, <2>1 DEF Handlers, Kinds
    <2>. QED BY <2>3, <2>4
  <1>4. /\ interest' = {h \in interest : sockFd[h] \notin N \cup {sockFd[timer]}}
        /\ edge' = {h \in edge : sockFd[h] \notin N \cup {sockFd[timer]}}
        /\ file' = [f \in Fds |-> IF f \in N THEN Nobody ELSE file[f]]
    BY <1>1 DEF CloseAndDeregister
  <1>5. \A k \in Kinds : <<c, k>> \in interest => sockFd[<<c, k>>] \in N \cup {sockFd[timer]}
    <2>. SUFFICES ASSUME NEW k \in Sides, <<c, k>> \in interest
                  PROVE  sockFd[<<c, k>>] \in N
      BY DEF Kinds
    <2>1. <<c, k>> \in closing
      BY <1>2
    <2>. QED BY <2>1 DEF NumbersOf
  <1>6. \A h \in interest : h[1] # c => sockFd[h] \notin N \cup {sockFd[timer]}
    BY <1>1, <1>2, <1>3
  <1>7. \A h \in Handlers : h \in interest' <=> h \in interest /\ h[1] # c
    <2>1. ASSUME NEW d \in Conns, NEW k \in Kinds
          PROVE  <<d, k>> \in interest' <=> <<d, k>> \in interest /\ d # c
      BY <1>4, <1>5, <1>6
    <2>. QED BY <2>1 DEF Handlers
  <1>8. \A f \in Fds : \A k \in Sides : file'[f] # <<c, k>>
    <2>. SUFFICES ASSUME NEW f \in Fds, NEW k \in Sides, file'[f] = <<c, k>>
                  PROVE  FALSE
      OBVIOUS
    <2>1. <<c, k>> \in Handlers /\ <<c, k>> # Nobody
      BY NotHandlers DEF Handlers, Kinds
    <2>2. file[f] = <<c, k>> /\ f \notin N
      BY <1>4, <2>1
    <2>3. <<c, k>> \in closing /\ sockFd[<<c, k>>] = f
      BY <1>2, <2>1, <2>2
    <2>. QED BY <2>2, <2>3 DEF NumbersOf
  <1>. HIDE DEF N
  <1>9. /\ \A f \in Fds : file[f] # Nobody /\ file[f][1] # c => file'[f] = file[f]
        /\ \A f \in Fds : file'[f] # Nobody => file'[f] = file[f]
    BY <1>3, <1>4
  <1>10. edge' \subseteq interest' /\ interest' \subseteq Handlers
    BY <1>2, <1>4
  <1>. QED BY <1>7, <1>8, <1>9, <1>10

LEMMA TimerUpFreeList ==
    ASSUME IInv, NEW c \in Conns, TimerUp(c)
    PROVE  FreeListInv'
  <1>. DEFINE a == <<c, "timer">>
              b == <<c, "client">>
              d == <<c, "backend">>
  <1>1. /\ ~Up(c) /\ Serving(c) /\ hmem' = hmem
        /\ timerStatus' = [timerStatus EXCEPT ![c] = TIMER_IS_UP]
    BY TimerUpMemory
  <1>2. /\ a \in Handlers /\ b \in Handlers /\ d \in Handlers
        /\ a # b /\ a # d /\ b # d
        /\ \A h \in Handlers : h \in {a, b, d} <=> h[1] = c
    BY DEF Handlers, Kinds, Sides
  <1>3. freeList \in Seq(Handlers) /\ Once(freeList)
    BY DEF IInv, TypeOK, FreeListInv, Once
  <1>4. \A h \in Handlers : Holds(freeList, h) <=> (hmem[h] = "live" /\ Up(h[1]))
    BY DEF IInv, FreeListInv, Holds
  <1>5. ~Holds(freeList, a) /\ ~Holds(freeList, b) /\ ~Holds(freeList, d)
    BY <1>1, <1>2, <1>4
  <1>6. freeList' = <<a, b, d>> \o freeList
    BY DEF TimerUp, StillOpen, MarkClosed
  <1>7. hmem[a] = "live" /\ hmem[b] = "live" /\ hmem[d] = "live"
    BY <1>1 DEF Serving, Kinds, Sides
  <1>8. \A h \in Handlers : Up(h[1])' <=> Up(h[1]) \/ h[1] = c
    BY <1>1 DEF Up, IInv, TypeOK, Handlers
  <1>. HIDE DEF a, b, d
  <1>9. /\ Once(freeList')
        /\ \A x : Holds(freeList', x) <=> Holds(freeList, x) \/ x \in {a, b, d}
    BY <1>2, <1>3, <1>5, <1>6, PrependHolds
  <1>10. \A h \in Handlers : Holds(freeList', h) <=> (hmem'[h] = "live" /\ Up(h[1])')
    BY <1>1, <1>2, <1>4, <1>7, <1>8, <1>9
  <1>. QED BY <1>9, <1>10 DEF FreeListInv, Once, Holds

LEMMA InvTimerUp ==
    ASSUME IInv, TypeOK', NEW c \in Conns, TimerUp(c)
    PROVE  IInv'
  <1>1. /\ ~Up(c) /\ Serving(c) /\ <<c, "timer">> \in interest
        /\ UNCHANGED <<pc, backlog, sockFd, hmem, pmem, refs>>
        /\ batch' \subseteq batch
        /\ timerStatus' = [timerStatus EXCEPT ![c] = TIMER_IS_UP]
        /\ setFree' = setFree \cup {<<c, k>> : k \in Sides}
        /\ isClosed' = isClosed \cup {<<c, k>> : k \in Sides}
        /\ \A k \in Sides : cmem'[<<c, k>>] = "freed"
        /\ \A d \in Conns \ {c}, k \in Sides : cmem'[<<d, k>>] = cmem[<<d, k>>]
    BY TimerUpMemory
  <1>2. /\ \A h \in Handlers : h \in interest' <=> h \in interest /\ h[1] # c
        /\ \A f \in Fds : file[f] # Nobody /\ file[f][1] # c => file'[f] = file[f]
        /\ \A f \in Fds : file'[f] # Nobody => file'[f] = file[f]
        /\ \A f \in Fds : \A k \in Sides : file'[f] # <<c, k>>
        /\ edge' \subseteq interest' /\ interest' \subseteq Handlers
    BY TimerUpNumbers
  <1>3. \A d \in Conns : Up(d)' <=> Up(d) \/ d = c
    BY <1>1 DEF Up, IInv, TypeOK
  <1>4. \A d \in Conns, k \in Kinds : <<d, k>> \in Handlers /\ <<d, k>> # Nobody
    BY NotHandlers DEF Handlers
  <1>5. LifeInv'
    <2>1. ASSUME NEW d \in Conns, d # c
          PROVE  (Unborn(d) \/ Serving(d) \/ Expired(d))'
      <3>1. \A k \in Kinds : /\ <<d, k>> \in interest' => <<d, k>> \in interest
                             /\ \A f \in Fds : file'[f] = <<d, k>> => file[f] = <<d, k>>
        BY <1>2, <1>4
      <3>2. \A k \in Sides : /\ <<d, k>> \in isClosed' <=> <<d, k>> \in isClosed
                             /\ <<d, k>> \in setFree' <=> <<d, k>> \in setFree
        BY <1>1, <2>1
      <3>3. timerStatus'[d] = timerStatus[d]
        BY <1>1, <2>1 DEF IInv, TypeOK
      <3>. QED BY <1>1, <2>1, <3>1, <3>2, <3>3, OthersKept
    <2>2. Expired(c)'
      BY <1>1, <1>2, <1>3, <1>4 DEF Serving, Expired
    <2>3. \A d \in Conns : LiveHandlers(d)' = LiveHandlers(d)
      BY <1>1 DEF LiveHandlers
    <2>. QED BY <1>1, <2>1, <2>2, <2>3 DEF IInv, LifeInv
  <1>6. BatchInv'
    <2>1. pc # "wait"
      BY DEF TimerUp, StillOpen, MarkClosed
    <2>. QED BY <1>1, <1>2, <1>3, <2>1 DEF IInv, BatchInv, Handlers
  <1>7. NumberInv'
    <2>1. \A d \in Conns : Serving(d)' => Serving(d) /\ d # c
      <3>1. ASSUME NEW d \in Conns, Serving(d)'
            PROVE  d # c /\ pmem[d] = "live" /\ ~Up(d)
        BY <1>1, <1>3, <3>1 DEF Serving
      <3>. QED BY <3>1, Stages
    <2>2. OpenSideOwnsNumber'
      <3>. SUFFICES ASSUME NEW d \in Conns, NEW k \in Sides,
                           <<d, k>> \notin isClosed', cmem'[<<d, k>>] = "live"
                    PROVE  \/ Target(<<d, k>>)' = <<d, k>>
                           \/ k = "backend" /\ sockFd[<<d, k>>] = BadFd
                           \/ k = "backend" /\ Target(<<d, k>>)' = <<d, "timer">>
        BY <1>1 DEF OpenSideOwnsNumber, Sockets
      <3>1. /\ d # c /\ <<d, k>> \notin isClosed /\ cmem[<<d, k>>] = "live"
            /\ <<d, k>> \in Sockets /\ k \in Kinds
        BY <1>1 DEF Sockets, Kinds
      <3>2. \/ Target(<<d, k>>) = <<d, k>>
            \/ k = "backend" /\ sockFd[<<d, k>>] = BadFd
            \/ k = "backend" /\ Target(<<d, k>>) = <<d, "timer">>
        BY <3>1 DEF IInv, NumberInv, OpenSideOwnsNumber
      <3>3. \A j \in Kinds : Target(<<d, k>>) = <<d, j>> => Target(<<d, k>>)' = <<d, j>>
        BY <1>1, <1>2, <1>4, <3>1 DEF Target
      <3>. QED BY <3>1, <3>2, <3>3 DEF Kinds
    <2>3. \A f \in Fds : file'[f] \in Handlers => sockFd'[file'[f]] = f
      BY <1>1, <1>2, NotHandlers DEF IInv, NumberInv
    <2>4. \A h \in interest' :
              sockFd'[h] \in Fds /\ file'[sockFd'[h]] = h /\ h \notin isClosed'
      <3>. SUFFICES ASSUME NEW h \in interest'
                    PROVE  /\ sockFd[h] \in Fds /\ file'[sockFd[h]] = h
                           /\ h \notin isClosed'
        BY <1>1
      <3>1. h \in Handlers /\ h \in interest /\ h[1] # c /\ h # Nobody
        BY <1>2, NotHandlers
      <3>2. sockFd[h] \in Fds /\ file[sockFd[h]] = h /\ h \notin isClosed
        BY <3>1 DEF IInv, NumberInv
      <3>3. file'[sockFd[h]] = h
        BY <1>2, <3>1, <3>2
      <3>4. h \notin isClosed'
        BY <1>1, <3>1, <3>2
      <3>. QED BY <3>2, <3>3, <3>4
    <2>5. \A s \in isClosed' : \A f \in Fds : file'[f] # s
      <3>1. \A s \in isClosed : s # Nobody
        BY NotHandlers DEF IInv, TypeOK, Sockets, Handlers, Kinds
      <3>2. \A s \in isClosed : \A f \in Fds : file[f] # s
        BY DEF IInv, NumberInv
      <3>. QED BY <1>1, <1>2, <3>1, <3>2
    <2>6. \A d \in Conns : Serving(d)' =>
              sockFd'[<<d, "timer">>] \in Fds
                  /\ file'[sockFd'[<<d, "timer">>]] = <<d, "timer">>
      <3>. SUFFICES ASSUME NEW d \in Conns, Serving(d)'
                    PROVE  /\ sockFd[<<d, "timer">>] \in Fds
                           /\ file'[sockFd[<<d, "timer">>]] = <<d, "timer">>
        BY <1>1
      <3>1. Serving(d) /\ d # c /\ <<d, "timer">> # Nobody
        BY <1>4, <2>1 DEF Kinds
      <3>2. /\ sockFd[<<d, "timer">>] \in Fds
            /\ file[sockFd[<<d, "timer">>]] = <<d, "timer">>
        BY <3>1 DEF IInv, NumberInv
      <3>. QED BY <1>2, <3>1, <3>2
    <2>7. \A d \in Conns : sockFd'[<<d, "client">>] # sockFd'[<<d, "backend">>]
                               \/ sockFd'[<<d, "client">>] = BadFd
      BY <1>1 DEF IInv, NumberInv
    <2>. QED BY <1>2, <2>2, <2>3, <2>4, <2>5, <2>6, <2>7 DEF NumberInv
  <1>. QED BY <1>5, <1>6, <1>7, TimerUpFreeList DEF IInv

-----------------------------------------------------------------------------
(* Accepting a connection. *)

\* The numbers of a new connection were unused and are its own; a backend that
\* did not connect has no open file, and its number is -1 or the timer's.
OwnNumbers(c, cfd, bfd, tfd, connected) ==
    /\ sockFd'[<<c, "client">>] = cfd
    /\ sockFd'[<<c, "backend">>] = bfd
    /\ sockFd'[<<c, "timer">>] = tfd
    /\ \A d \in Conns, k \in Kinds : d # c => sockFd'[<<d, k>>] = sockFd[<<d, k>>]
    /\ \A f \in Fds : file[f] # Nobody => file'[f] = file[f]
    /\ \A f \in Fds : \/ file'[f] = file[f]
                      \/ \E k \in Kinds : /\ file'[f] = <<c, k>>
                                          /\ sockFd'[<<c, k>>] = f
    /\ file'[cfd] = <<c, "client">> /\ file'[tfd] = <<c, "timer">>
    /\ connected => bfd \in Fds /\ file'[bfd] = <<c, "backend">>
    /\ ~connected => bfd = BadFd \/ file'[bfd] = <<c, "timer">>

LEMMA AcceptNumbers ==
    ASSUME IInv, NEW c \in Conns, NEW cfd \in Fds, NEW bfd \in Fds \cup {BadFd},
           NEW tfd \in Fds, NEW connected \in BOOLEAN, NEW added \in SUBSET Kinds,
           AcceptAs(c, cfd, bfd, tfd, connected, added)
    PROVE  OwnNumbers(c, cfd, bfd, tfd, connected)
  <1>1. /\ file \in [Fds -> Handlers \cup {Nobody}]
        /\ sockFd \in [Handlers -> Fds \cup {BadFd}]
    BY DEF IInv, TypeOK
  <1>2. \A d \in Conns, k \in Kinds : <<d, k>> \in Handlers /\ <<d, k>> # Nobody
    BY NotHandlers DEF Handlers
  <1>3. Fds \subseteq Nat /\ BadFd \notin Fds
    BY ConstantsAssumption DEF BadFd
  <1>4. /\ sockFd' = [sockFd EXCEPT ![<<c, "client">>] = cfd,
                                    ![<<c, "backend">>] = bfd,
                                    ![<<c, "timer">>] = tfd]
        /\ file' = [WithSockets(c, cfd, bfd, connected) EXCEPT ![tfd] = <<c, "timer">>]
        /\ GetsNumbers(c, cfd, bfd, tfd, connected)
    BY DEF AcceptAs
  <1>5. /\ sockFd'[<<c, "client">>] = cfd
        /\ sockFd'[<<c, "backend">>] = bfd
        /\ sockFd'[<<c, "timer">>] = tfd
        /\ \A d \in Conns, k \in Kinds : d # c => sockFd'[<<d, k>>] = sockFd[<<d, k>>]
    BY <1>1, <1>2, <1>4 DEF Kinds, Sides
  <1>. DEFINE accepted == [file EXCEPT ![cfd] = <<c, "client">>]
  <1>6. /\ accepted[cfd] = <<c, "client">> /\ accepted[cfd] # Nobody
        /\ \A f \in Fds : f # cfd => accepted[f] = file[f]
        /\ file[cfd] = Nobody
        /\ accepted \in [Fds -> Handlers \cup {Nobody}]
        /\ WithSockets(c, cfd, bfd, FALSE) = accepted
    BY <1>1, <1>2, <1>4 DEF GetsNumbers, LowestUnused, WithSockets, Kinds, Sides
  <1>7. CASE connected
    <2>1. /\ bfd \in Fds /\ LowestUnused(accepted, bfd)
          /\ file' = [[accepted EXCEPT ![bfd] = <<c, "backend">>]
                          EXCEPT ![tfd] = <<c, "timer">>]
          /\ LowestUnused([accepted EXCEPT ![bfd] = <<c, "backend">>], tfd)
      BY <1>3, <1>4, <1>6, <1>7 DEF GetsNumbers, WithSockets
    <2>. HIDE DEF accepted
    <2>2. bfd # cfd /\ file[bfd] = Nobody
      BY <1>6, <2>1 DEF LowestUnused
    <2>3. tfd # cfd /\ tfd # bfd /\ file[tfd] = Nobody
      BY <1>2, <1>6, <2>1, <2>2 DEF LowestUnused, Kinds, Sides
    <2>4. /\ file'[cfd] = <<c, "client">>
          /\ file'[bfd] = <<c, "backend">>
          /\ file'[tfd] = <<c, "timer">>
          /\ \A f \in Fds \ {cfd, bfd, tfd} : file'[f] = file[f]
      BY <1>6, <2>1, <2>2, <2>3
    <2>. QED BY <1>5, <1>6, <1>7, <2>1, <2>2, <2>3, <2>4
             DEF OwnNumbers, Kinds, Sides
  <1>8. CASE ~connected
    <2>1. /\ LowestUnused(accepted, tfd)
          /\ file' = [accepted EXCEPT ![tfd] = <<c, "timer">>]
          /\ bfd # BadFd => LowestUnused(accepted, bfd)
      BY <1>4, <1>6, <1>8 DEF GetsNumbers, WithSockets
    <2>. HIDE DEF accepted
    <2>2. tfd # cfd /\ file[tfd] = Nobody
      BY <1>6, <2>1 DEF LowestUnused
    <2>3. bfd = BadFd \/ bfd = tfd
      <3>1. \A f, g \in Fds : f < g \/ g < f \/ f = g
        BY <1>3
      <3>. QED BY <2>1, <3>1 DEF LowestUnused
    <2>4. /\ file'[cfd] = <<c, "client">>
          /\ file'[tfd] = <<c, "timer">>
          /\ \A f \in Fds \ {cfd, tfd} : file'[f] = file[f]
      BY <1>6, <2>1, <2>2
    <2>. QED BY <1>5, <1>6, <1>8, <2>2, <2>3, <2>4
             DEF OwnNumbers, Kinds, Sides
  <1>. QED BY <1>7, <1>8

LEMMA InvAccept ==
    ASSUME IInv, TypeOK', NEW c \in Conns, AcceptConn(c)
    PROVE  IInv'
  <1>1. PICK cfd \in Fds, bfd \in Fds \cup {BadFd}, tfd \in Fds,
             connected \in BOOLEAN, added \in SUBSET Kinds :
          AcceptAs(c, cfd, bfd, tfd, connected, added)
    BY DEF AcceptConn
  <1>. OwnNumbers(c, cfd, bfd, tfd, connected)
    BY <1>1, AcceptNumbers
  <1>2. /\ sockFd'[<<c, "client">>] = cfd
        /\ sockFd'[<<c, "backend">>] = bfd
        /\ sockFd'[<<c, "timer">>] = tfd
        /\ \A d \in Conns, k \in Kinds : d # c => sockFd'[<<d, k>>] = sockFd[<<d, k>>]
        /\ \A f \in Fds : file[f] # Nobody => file'[f] = file[f]
        /\ \A f \in Fds : \/ file'[f] = file[f]
                          \/ \E k \in Kinds : /\ file'[f] = <<c, k>>
                                              /\ sockFd'[<<c, k>>] = f
        /\ file'[cfd] = <<c, "client">> /\ file'[tfd] = <<c, "timer">>
        /\ connected => bfd \in Fds /\ file'[bfd] = <<c, "backend">>
        /\ ~connected => bfd = BadFd \/ file'[bfd] = <<c, "timer">>
    BY DEF OwnNumbers
  <1>3. /\ pc # "wait" /\ pc' = pc /\ Unborn(c)
    <2>1. pc = "accept" /\ c \in backlog
      BY DEF AcceptConn
    <2>. QED BY <1>1, <2>1, Stages DEF AcceptAs
  <1>4. /\ interest' = interest \cup {<<c, k>> : k \in added}
        /\ edge' = edge \cup {<<c, k>> : k \in Sides \cap added}
        /\ backlog' = backlog \ {c}
        /\ pmem' = [pmem EXCEPT ![c] = "live"]
        /\ hmem' = [h \in Handlers |-> IF h[1] = c THEN "live" ELSE hmem[h]]
        /\ cmem' = [s \in Sockets |-> IF s[1] = c THEN "live" ELSE cmem[s]]
        /\ refs' = [refs EXCEPT ![c] = 3]
        /\ UNCHANGED <<batch, freeList, isClosed, setFree, timerStatus>>
        /\ "backend" \in added => connected
    BY <1>1 DEF AcceptAs, Registrable
  <1>5. /\ \A d \in Conns, k \in Kinds :
              /\ <<d, k>> \in Handlers /\ <<d, k>> # Nobody
              /\ hmem'[<<d, k>>] = IF d = c THEN "live" ELSE hmem[<<d, k>>]
        /\ \A d \in Conns, k \in Sides :
              /\ <<d, k>> \in Sockets
              /\ cmem'[<<d, k>>] = IF d = c THEN "live" ELSE cmem[<<d, k>>]
    BY <1>4, NotHandlers DEF Handlers, Sockets
  <1>6. \A d \in Conns : Up(d)' <=> Up(d)
    BY <1>4 DEF Up
  <1>7. ~Up(c)
    BY <1>3 DEF Unborn, Up, UNSET, TIMER_IS_UP
  <1>8. LifeInv'
    <2>1. ASSUME NEW d \in Conns, d # c
          PROVE  (Unborn(d) \/ Serving(d) \/ Expired(d))'
      <3>1. pmem'[d] = pmem[d]
        BY <1>4, <2>1 DEF IInv, TypeOK
      <3>2. ASSUME NEW k \in Kinds, NEW f \in Fds, file'[f] = <<d, k>>
            PROVE  file[f] = <<d, k>>
        <4>1. ~ \E j \in Kinds : file'[f] = <<c, j>>
          BY <2>1, <3>2
        <4>2. file'[f] = file[f] \/ \E j \in Kinds : file'[f] = <<c, j>>
          BY <1>2
        <4>. QED BY <3>2, <4>1, <4>2
      <3>3. \A k \in Kinds : <<d, k>> \in interest' => <<d, k>> \in interest
        BY <1>4, <2>1
      <3>. QED BY <1>4, <1>5, <2>1, <3>1, <3>2, <3>3, OthersKept
    <2>2. Serving(c)'
      <3>1. pmem'[c] = "live"
        BY <1>4 DEF IInv, TypeOK
      <3>2. \A k \in Sides : <<c, k>> \notin setFree'
        BY <1>3, <1>4 DEF Unborn
      <3>. QED BY <1>4, <1>5, <1>6, <1>7, <3>1, <3>2 DEF Serving
    <2>3. ASSUME NEW d \in Conns
          PROVE  (refs[d] = Cardinality(LiveHandlers(d))
                      /\ (pmem[d] = "live" <=> refs[d] > 0))'
      <3>1. CASE d = c
        <4>1. LiveHandlers(c)' = Kinds
          BY <1>5 DEF LiveHandlers
        <4>2. refs'[c] = 3 /\ pmem'[c] = "live"
          BY <1>4 DEF IInv, TypeOK
        <4>. QED BY <3>1, <4>1, <4>2, KindsCount
      <3>2. CASE d # c
        <4>1. LiveHandlers(d)' = LiveHandlers(d)
          BY <1>5, <3>2 DEF LiveHandlers
        <4>2. refs'[d] = refs[d] /\ pmem'[d] = pmem[d]
          BY <1>4, <3>2 DEF IInv, TypeOK
        <4>. QED BY <4>1, <4>2 DEF IInv, LifeInv
      <3>. QED BY <3>1, <3>2
    <2>. QED BY <2>1, <2>2, <2>3 DEF LifeInv
  <1>9. FreeListInv'
    <2>1. ASSUME NEW h \in Handlers
          PROVE  hmem'[h] = "live" /\ Up(h[1])' <=> hmem[h] = "live" /\ Up(h[1])
      BY <1>4, <1>6, <1>7 DEF Handlers
    <2>. QED BY <1>4, <2>1 DEF IInv, FreeListInv
  <1>10. BatchInv'
    <2>1. \A h \in batch \cap Handlers : hmem[h] = "live" => hmem'[h] = "live"
      BY <1>4
    <2>2. \A h \in Handlers : Up(h[1])' <=> Up(h[1])
      BY <1>6 DEF Handlers
    <2>. QED BY <1>3, <1>4, <2>1, <2>2 DEF IInv, BatchInv
  <1>11. NumberInv'
    <2>1. \A f \in Fds : file'[f] \in Handlers => sockFd'[file'[f]] = f
      <3>. SUFFICES ASSUME NEW f \in Fds, file'[f] \in Handlers, file'[f] = file[f]
                    PROVE  sockFd'[file[f]] = f
        BY <1>2
      <3>1. sockFd[file[f]] = f
        BY DEF IInv, NumberInv
      <3>2. file[f][1] # c
        <4>1. \A k \in Kinds : file[f] # <<c, k>>
          BY <1>3 DEF Unborn
        <4>. QED BY <4>1 DEF Handlers
      <3>. QED BY <1>2, <3>1, <3>2 DEF Handlers
    <2>2. \A h \in interest' :
              sockFd'[h] \in Fds /\ file'[sockFd'[h]] = h /\ h \notin isClosed'
      <3>1. ASSUME NEW h \in interest
            PROVE  sockFd'[h] \in Fds /\ file'[sockFd'[h]] = h /\ h \notin isClosed'
        <4>1. /\ sockFd[h] \in Fds /\ file[sockFd[h]] = h /\ h \notin isClosed
              /\ h \in Handlers
          BY DEF IInv, NumberInv, TypeOK
        <4>2. h[1] # c /\ h # Nobody
          BY <1>3, <4>1, NotHandlers DEF Unborn, Handlers
        <4>3. sockFd'[h] = sockFd[h]
          BY <1>2, <4>1, <4>2 DEF Handlers
        <4>. QED BY <1>2, <1>4, <4>1, <4>2, <4>3
      <3>2. ASSUME NEW k \in added
            PROVE  /\ sockFd'[<<c, k>>] \in Fds /\ file'[sockFd'[<<c, k>>]] = <<c, k>>
                   /\ <<c, k>> \notin isClosed'
        <4>1. sockFd'[<<c, k>>] \in Fds /\ file'[sockFd'[<<c, k>>]] = <<c, k>>
          BY <1>2, <1>4 DEF Kinds, Sides
        <4>2. k \in Sides => <<c, k>> \notin isClosed
          BY <1>3 DEF Unborn
        <4>3. k \notin Sides => <<c, k>> \notin isClosed
          BY DEF IInv, TypeOK, Sockets
        <4>. QED BY <1>4, <4>1, <4>2, <4>3
      <3>. QED BY <1>4, <3>1, <3>2
    <2>3. edge' \subseteq interest'
      BY <1>4 DEF IInv, NumberInv
    <2>4. \A s \in isClosed' : \A f \in Fds : file'[f] # s
      <3>. SUFFICES ASSUME NEW s \in isClosed, NEW f \in Fds, file'[f] = s
                    PROVE  FALSE
        BY <1>4
      <3>1. file[f] # s /\ s \in Sockets
        BY DEF IInv, NumberInv, TypeOK
      <3>2. PICK k \in Kinds : s = <<c, k>>
        BY <1>2, <3>1
      <3>. QED BY <1>3, <3>1, <3>2 DEF Unborn, Sockets
    <2>5. \A d \in Conns : Serving(d)' =>
              sockFd'[<<d, "timer">>] \in Fds
                  /\ file'[sockFd'[<<d, "timer">>]] = <<d, "timer">>
      <3>. SUFFICES ASSUME NEW d \in Conns, Serving(d)', d # c
                    PROVE  /\ sockFd'[<<d, "timer">>] \in Fds
                           /\ file'[sockFd'[<<d, "timer">>]] = <<d, "timer">>
        BY <1>2
      <3>1. pmem[d] = "live" /\ ~Up(d)
        BY <1>4, <1>6 DEF Serving, IInv, TypeOK
      <3>2. Serving(d)
        BY <3>1, Stages
      <3>3. sockFd[<<d, "timer">>] \in Fds /\ file[sockFd[<<d, "timer">>]] = <<d, "timer">>
        BY <3>2 DEF IInv, NumberInv
      <3>4. sockFd'[<<d, "timer">>] = sockFd[<<d, "timer">>] /\ <<d, "timer">> # Nobody
        BY <1>2, <1>5 DEF Kinds
      <3>. QED BY <1>2, <3>3, <3>4
    <2>6. OpenSideOwnsNumber'
      <3>. SUFFICES ASSUME NEW d \in Conns, NEW k \in Sides,
                           <<d, k>> \notin isClosed, cmem'[<<d, k>>] = "live"
                    PROVE  \/ Target(<<d, k>>)' = <<d, k>>
                           \/ k = "backend" /\ sockFd'[<<d, k>>] = BadFd
                           \/ k = "backend" /\ Target(<<d, k>>)' = <<d, "timer">>
        <4>1. isClosed' = isClosed
          BY <1>4
        <4>. QED BY <4>1 DEF OpenSideOwnsNumber, Sockets
      <3>1. CASE d = c
        BY <1>2, <3>1 DEF Target, Sides
      <3>2. CASE d # c
        <4>1. cmem[<<d, k>>] = "live" /\ <<d, k>> \in Sockets
          BY <1>5, <3>2
        <4>2. \/ Target(<<d, k>>) = <<d, k>>
              \/ k = "backend" /\ sockFd[<<d, k>>] = BadFd
              \/ k = "backend" /\ Target(<<d, k>>) = <<d, "timer">>
          BY <4>1 DEF IInv, NumberInv, OpenSideOwnsNumber
        <4>3. sockFd'[<<d, k>>] = sockFd[<<d, k>>]
          BY <1>2, <3>2 DEF Kinds
        <4>4. Target(<<d, k>>) # Nobody => Target(<<d, k>>)' = Target(<<d, k>>)
          BY <1>2, <4>3 DEF Target
        <4>5. <<d, k>> # Nobody /\ <<d, "timer">> # Nobody
          BY <1>5 DEF Kinds
        <4>. QED BY <4>2, <4>3, <4>4, <4>5
      <3>. QED BY <3>1, <3>2
    <2>7. \A d \in Conns : sockFd'[<<d, "client">>] # sockFd'[<<d, "backend">>]
                               \/ sockFd'[<<d, "client">>] = BadFd
      <3>1. cfd # bfd
        BY <1>2, ConstantsAssumption DEF BadFd
      <3>2. "client" \in Kinds /\ "backend" \in Kinds
        BY DEF Kinds, Sides
      <3>3. ASSUME NEW d \in Conns, d # c
            PROVE  sockFd'[<<d, "client">>] # sockFd'[<<d, "backend">>]
                       \/ sockFd'[<<d, "client">>] = BadFd
        <4>1. /\ sockFd'[<<d, "client">>] = sockFd[<<d, "client">>]
              /\ sockFd'[<<d, "backend">>] = sockFd[<<d, "backend">>]
          BY <1>2, <3>2, <3>3
        <4>. QED BY <4>1 DEF IInv, NumberInv
      <3>. QED BY <1>2, <3>1, <3>3
    <2>. QED BY <2>1, <2>2, <2>3, <2>4, <2>5, <2>6, <2>7 DEF NumberInv
  <1>. QED BY <1>8, <1>9, <1>10, <1>11 DEF IInv

-----------------------------------------------------------------------------
(* The sweep of the free list. *)

LEMMA InvFree ==
    ASSUME IInv, TypeOK', FreeHandler
    PROVE  IInv'
  <1>1. /\ freeList \in Seq(Handlers) /\ freeList # << >> /\ Once(freeList)
        /\ \A g \in Handlers : Holds(freeList, g) <=> hmem[g] = "live" /\ Up(g[1])
    BY DEF IInv, TypeOK, FreeListInv, FreeHandler, BatchDone, LastReference, Once, Holds
  <1>2. Head(freeList) \in Handlers
    BY <1>1, TailHolds
  <1>. PICK h \in Handlers : h = Head(freeList)
    BY <1>2
  <1>. PICK c \in Conns, kind \in Kinds : h = <<c, kind>>
    BY DEF Handlers
  <1>3. /\ Holds(freeList, h)
        /\ Once(Tail(freeList))
        /\ \A g : Holds(Tail(freeList), g) <=> Holds(freeList, g) /\ g # h
    BY <1>1, TailHolds
  <1>4. hmem[h] = "live" /\ Up(c)
    BY <1>1, <1>3
  <1>5. Expired(c) /\ refs[c] = Cardinality(LiveHandlers(c))
        /\ (pmem[c] = "live" <=> refs[c] > 0) /\ refs[c] \in Int
    BY <1>3, <1>4 DEF IInv, LifeInv, TypeOK, Unborn, Serving, Up, UNSET, TIMER_IS_UP
  <1>6. /\ refs' = [refs EXCEPT ![c] = @ - 1]
        /\ pmem' = [pmem EXCEPT ![c] = IF refs[c] = 1 THEN Freed(@) ELSE @]
        /\ hmem' = [hmem EXCEPT ![h] = Freed(@)]
        /\ freeList' = Tail(freeList)
        /\ pc = "dispatch" /\ batch = {}
        /\ UNCHANGED <<pc, backlog, batch, interest, edge, file, sockFd, cmem,
                       isClosed, setFree, timerStatus>>
    <2>1. h = Head(freeList) /\ h[1] = c
      OBVIOUS
    <2>. QED BY <2>1 DEF FreeHandler, BatchDone, LastReference, kernel
  <1>7. /\ refs'[c] = refs[c] - 1
        /\ pmem'[c] = IF refs[c] = 1 THEN Freed(pmem[c]) ELSE pmem[c]
        /\ hmem'[h] = "freed"
        /\ \A g \in Handlers : g # h => hmem'[g] = hmem[g]
        /\ \A d \in Conns : d # c => refs'[d] = refs[d] /\ pmem'[d] = pmem[d]
    BY <1>2, <1>3, <1>4, <1>6 DEF IInv, TypeOK, Freed
  <1>8. \A d \in Conns, k \in Kinds : <<d, k>> \in Handlers
    BY DEF Handlers
  <1>9. LiveHandlers(c)' = LiveHandlers(c) \ {kind} /\ kind \in LiveHandlers(c)
    <2>1. \A k \in Kinds : hmem'[<<c, k>>] = IF k = kind THEN "freed"
                                                      ELSE hmem[<<c, k>>]
      BY <1>3, <1>7, <1>8
    <2>2. hmem[<<c, kind>>] = "live"
      BY <1>3, <1>4
    <2>3. LiveHandlers(c)' = {k \in Kinds : hmem'[<<c, k>>] = "live"}
      BY DEF LiveHandlers
    <2>. QED BY <1>3, <2>1, <2>2, <2>3 DEF LiveHandlers
  <1>10. /\ Cardinality(LiveHandlers(c)') = Cardinality(LiveHandlers(c)) - 1
         /\ Cardinality(LiveHandlers(c)') \in Nat
    BY <1>9, LiveCount, FS_RemoveElement, FS_CardinalityType
  <1>11. LifeInv'
    <2>1. ASSUME NEW d \in Conns, d # c
          PROVE  (Unborn(d) \/ Serving(d) \/ Expired(d))'
      <3>1. \A k \in Kinds : hmem'[<<d, k>>] = hmem[<<d, k>>]
        BY <1>3, <1>7, <1>8, <2>1
      <3>. QED BY <1>3, <1>6, <1>7, <2>1, <3>1, OthersKept
    <2>2. Expired(c)'
      <3>1. pmem'[c] \in {"live", "freed"}
        BY <1>5, <1>7 DEF Expired, Freed
      <3>2. \A k \in Kinds : hmem'[<<c, k>>] \in {"live", "freed"}
        BY <1>3, <1>5, <1>7, <1>8 DEF Expired
      <3>3. Up(c)' /\ c \notin backlog' /\ \A k \in Kinds : <<c, k>> \notin interest'
        BY <1>4, <1>5, <1>6 DEF Expired, Up
      <3>4. \A k \in Sides : /\ cmem'[<<c, k>>] = "freed"
                            /\ <<c, k>> \in isClosed' \cap setFree'
        BY <1>5, <1>6 DEF Expired
      <3>. QED BY <3>1, <3>2, <3>3, <3>4 DEF Expired
    <2>3. ASSUME NEW d \in Conns, d # c
          PROVE  (refs[d] = Cardinality(LiveHandlers(d))
                      /\ (pmem[d] = "live" <=> refs[d] > 0))'
      <3>1. LiveHandlers(d)' = LiveHandlers(d)
        BY <1>3, <1>7, <1>8, <2>3 DEF LiveHandlers
      <3>. QED BY <1>7, <2>3, <3>1 DEF IInv, LifeInv
    <2>4. refs'[c] = Cardinality(LiveHandlers(c)')
              /\ (pmem'[c] = "live" <=> refs'[c] > 0)
      <3>1. refs'[c] = Cardinality(LiveHandlers(c)')
        BY <1>5, <1>7, <1>10
      <3>2. refs[c] > 0 /\ pmem[c] = "live"
        BY <1>5, <1>7, <1>10, <3>1
      <3>3. pmem'[c] = "live" <=> refs[c] # 1
        BY <1>7, <3>2 DEF Freed
      <3>4. refs[c] \in Int /\ refs'[c] = refs[c] - 1
        BY <1>5, <1>7
      <3>5. refs'[c] > 0 <=> refs[c] # 1
        BY <3>2, <3>4
      <3>. QED BY <3>1, <3>3, <3>5
    <2>. QED BY <2>1, <2>2, <2>3, <2>4 DEF LifeInv
  <1>12. FreeListInv'
    <2>1. \A g \in Handlers : Holds(freeList', g) <=> (hmem'[g] = "live" /\ Up(g[1])')
      BY <1>1, <1>3, <1>6, <1>7 DEF Up
    <2>. QED BY <1>3, <1>6, <2>1 DEF FreeListInv, Once, Holds
  <1>13. BatchInv'
    BY <1>6 DEF BatchInv
  <1>14. NumberInv'
    <2>1. ASSUME NEW d \in Conns, Serving(d)'
          PROVE  Serving(d)
      <3>1. ~Up(d)
        BY <1>6, <2>1 DEF Serving, Up
      <3>2. d # c
        BY <1>4, <3>1
      <3>. QED BY <1>7, <2>1, <3>1, <3>2, Stages DEF Serving
    <2>2. OpenSideOwnsNumber'
      BY <1>6 DEF IInv, NumberInv, OpenSideOwnsNumber, Target
    <2>. QED BY <1>6, <2>1, <2>2 DEF IInv, NumberInv
  <1>. QED BY <1>11, <1>12, <1>13, <1>14 DEF IInv

-----------------------------------------------------------------------------
(* The theorems. *)

LEMMA InvNext == IInv /\ [Next]_vars => IInv'
  <1>. SUFFICES ASSUME IInv, [Next]_vars
                PROVE  IInv'
    OBVIOUS
  <1>1. TypeOK'
    BY TypeNext DEF IInv
  <1>2. ASSUME UNCHANGED vars
        PROVE  IInv'
    <2>1. edge \subseteq interest /\ (pc = "wait" => batch = {} /\ freeList = << >>)
      BY DEF IInv, NumberInv, BatchInv
    <2>. QED BY <1>1, <1>2, <2>1, QuietStep DEF vars, memory
  <1>3. ASSUME NEW c \in Conns, Callback(c)
        PROVE  IInv'
    <2>1. \A k \in Kinds : IgnoreEvent(<<c, k>>) => \E h \in Handlers : IgnoreEvent(h)
      BY DEF Handlers
    <2>. QED BY <1>1, <1>3, <2>1, InvQuiet, InvPeer, InvTimerRelaxed, InvTimerUp
             DEF Callback, HandleClientEvents, HandleBackendEvents, Sides
  <1>4. ASSUME Loop
        PROVE  IInv'
    BY <1>1, <1>3, <1>4, InvQuiet, InvFree, InvAccept DEF Loop
  <1>. QED BY <1>1, <1>2, <1>4, InvQuiet DEF Next, EpollTimeout, Exited

\* The inductive invariant: stages of a connection, free list, batch and
\* descriptor numbers, over the callbacks, the accept loop and the sweep.
THEOREM Invariant == Spec => []IInv
  BY InvInit, InvNext, PTL DEF Spec

\* No event is ever delivered into freed memory, for any number of
\* connections, descriptors and events per batch, and under every fault.
THEOREM BatchSafe == Spec => []BatchIsUsable
  <1>1. IInv => BatchIsUsable
    <2>. SUFFICES ASSUME IInv, NEW c \in Conns, NEW k \in Kinds, <<c, k>> \in batch
                  PROVE  /\ hmem[<<c, k>>] = "live" /\ pmem[c] = "live"
                         /\ ~Up(c) => /\ \A j \in Sides : cmem[<<c, j>>] = "live"
                                      /\ <<c, k>> \in interest
      BY DEF BatchIsUsable, Handlers
    <2>1. hmem[<<c, k>>] = "live"
      BY DEF IInv, BatchInv, Handlers
    <2>2. k \in LiveHandlers(c)
      BY <2>1 DEF LiveHandlers
    <2>3. Cardinality(LiveHandlers(c)) # 0
      BY <2>2, LiveCount, FS_EmptySet
    <2>4. pmem[c] = "live"
      BY <2>3, LiveCount DEF IInv, LifeInv
    <2>5. ~Up(c) => Serving(c) /\ <<c, k>> \in interest
      BY Dispatched
    <2>. QED BY <2>1, <2>4, <2>5 DEF Serving
  <1>. QED BY <1>1, Invariant, PTL

\* epoll never holds a stale number: what is registered is allocated, its timer
\* is not up, and its number denotes its own open file.
THEOREM NumbersOwned == Spec => []RegisteredOwnsNumber
  <1>1. IInv => RegisteredOwnsNumber
    <2>. SUFFICES ASSUME IInv, NEW h \in interest
                  PROVE  hmem[h] = "live" /\ ~Up(h[1])
      BY DEF RegisteredOwnsNumber, IInv, NumberInv
    <2>1. h[1] \in Conns /\ h[2] \in Kinds /\ h = <<h[1], h[2]>>
      BY DEF IInv, TypeOK, Handlers
    <2>2. Serving(h[1])
      BY <2>1, Stages
    <2>. QED BY <2>1, <2>2 DEF Serving
  <1>. QED BY <1>1, Invariant, PTL

\* Closing a side never hits a foreign descriptor: no open side holds the number
\* of another connection's file.
THEOREM OpenSidesOwn == Spec => []OpenSideOwnsNumber
  <1>1. IInv => OpenSideOwnsNumber
    BY DEF IInv, NumberInv
  <1>. QED BY <1>1, Invariant, PTL

\* Nothing is freed twice, and the reference counter counts.
THEOREM MemoryBalanced == Spec => []MemoryBalance
  <1>1. IInv => MemoryBalance
    <2>. SUFFICES ASSUME IInv
                  PROVE  MemoryBalance
      OBVIOUS
    <2>1. ASSUME NEW c \in Conns
          PROVE  /\ pmem[c] # "corrupt"
                 /\ \A k \in Kinds : hmem[<<c, k>>] # "corrupt"
                 /\ \A k \in Sides : cmem[<<c, k>>] # "corrupt"
      BY DEF IInv, LifeInv, Unborn, Serving, Expired
    <2>. QED BY <2>1 DEF MemoryBalance, IInv, LifeInv, FreeListInv, Handlers, Sockets
  <1>. QED BY <1>1, Invariant, PTL

\* Between two calls of epoll_wait every connection is whole or gone.
THEOREM NoRemains == Spec => []WaitFindsNoRemains
  <1>1. IInv => WaitFindsNoRemains
    <2>. SUFFICES ASSUME IInv, pc = "wait", NEW c \in Conns, pmem[c] # "none"
                  PROVE  \/ Serving(c)
                         \/ /\ Expired(c) /\ pmem[c] = "freed"
                            /\ \A k \in Kinds : hmem[<<c, k>>] = "freed"
                            /\ \A k \in Sides : /\ <<c, k>> \in isClosed
                                                /\ \A f \in Fds : file[f] # <<c, k>>
      BY DEF WaitFindsNoRemains, Serving, Expired
    <2>1. CASE ~Up(c)
      BY <2>1, Stages
    <2>2. CASE Up(c)
      <3>1. Expired(c)
        BY <2>2 DEF IInv, LifeInv, Unborn, Serving
      <3>2. freeList = << >>
        BY DEF IInv, BatchInv
      <3>3. ASSUME NEW k \in Kinds
            PROVE  hmem[<<c, k>>] = "freed"
        BY <2>2, <3>1, <3>2 DEF Expired, IInv, FreeListInv, Handlers
      <3>4. LiveHandlers(c) = {}
        BY <3>3 DEF LiveHandlers
      <3>5. pmem[c] # "live"
        BY <3>4, FS_EmptySet DEF IInv, LifeInv
      <3>. QED BY <3>1, <3>3, <3>5 DEF Expired, IInv, NumberInv
    <2>. QED BY <2>1, <2>2
  <1>. QED BY <1>1, Invariant, PTL

\* A new stray write: the side it is made for was closed before, because an
\* open side owns its number; and the socket it reaches is another
\* connection's, because the sides of one connection have different numbers.
LEMMA StrayPeer ==
    ASSUME IInv, NEW c \in Conns, NEW side \in Sides, NEW s \in Sockets,
           pc = "dispatch", <<c, side>> \in batch, ~Up(c), s[1] = c,
           Target(s) \in Sockets \ {s}
    PROVE  s \in isClosed /\ Target(s)[1] # c
  <1>1. s[2] \in Sides /\ s = <<c, s[2]>>
    BY DEF Sockets
  <1>2. cmem[s] = "live"
    <2>1. side \in Kinds
      BY DEF Kinds
    <2>2. Serving(c)
      BY <2>1, Dispatched
    <2>. QED BY <1>1, <2>2 DEF Serving
  <1>3. sockFd[s] \in Fds /\ Target(s) = file[sockFd[s]]
    BY NotHandlers DEF Target, Nobody, Sockets, Sides
  <1>4. BadFd \notin Fds
    BY ConstantsAssumption DEF BadFd
  <1>5. s \in isClosed
    <2>1. Target(s) # <<c, "timer">>
      BY DEF Sockets, Sides
    <2>. QED BY <1>1, <1>2, <1>3, <1>4, <2>1 DEF IInv, NumberInv, OpenSideOwnsNumber
  <1>6. ASSUME Target(s)[1] = c
        PROVE  FALSE
    <2>1. Target(s) \in Handlers
      BY DEF Sockets, Handlers, Kinds
    <2>2. sockFd[Target(s)] = sockFd[s]
      BY <1>3, <2>1 DEF IInv, NumberInv
    <2>3. Target(s)[2] \in Sides /\ Target(s) = <<c, Target(s)[2]>>
              /\ Target(s)[2] # s[2]
      BY <1>1, <1>6 DEF Sockets
    <2>4. sockFd[<<c, "client">>] = sockFd[<<c, "backend">>]
              /\ sockFd[<<c, "client">>] \in Fds
      <3>1. \/ s[2] = "client" /\ Target(s)[2] = "backend"
            \/ s[2] = "backend" /\ Target(s)[2] = "client"
        BY <1>1, <2>3 DEF Sides
      <3>. QED BY <1>1, <1>3, <2>2, <2>3, <3>1
    <2>. QED BY <1>4, <2>4 DEF IInv, NumberInv
  <1>. QED BY <1>5, <1>6

LEMMA StrayNext == IInv /\ StrayOnlyAfterClose /\ [Next]_vars => StrayOnlyAfterClose'
  <1>. SUFFICES ASSUME IInv, StrayOnlyAfterClose, [Next]_vars
                PROVE  StrayOnlyAfterClose'
    OBVIOUS
  <1>1. ASSUME stray' = stray, isClosed \subseteq isClosed'
        PROVE  StrayOnlyAfterClose'
    BY <1>1 DEF StrayOnlyAfterClose
  <1>2. ASSUME NEW c \in Conns, NEW side \in Sides, NEW events \in Masks,
               HandlePeerEvents(c, side, events)
        PROVE  StrayOnlyAfterClose'
    <2>1. pc = "dispatch" /\ <<c, side>> \in batch /\ ~Up(c)
          /\ isClosed \subseteq isClosed'
      BY <1>2 DEF HandlePeerEvents, MarkClosed, Up
    <2>2. PICK sent \in SUBSET MaySend(c, side, events) :
              stray' = stray \cup
                  {<<s, Target(s)>> : s \in {w \in sent : Target(w) \in Sockets \ {w}}}
      BY <1>2 DEF HandlePeerEvents
    <2>3. ASSUME NEW s \in sent, Target(s) \in Sockets \ {s}
          PROVE  s \in isClosed /\ Target(s)[1] # s[1]
      <3>1. s \in Sockets /\ s[1] = c
        BY <2>2 DEF MaySend, Sockets, Other, Sides
      <3>. QED BY <2>1, <2>3, <3>1, StrayPeer
    <2>. QED BY <2>1, <2>2, <2>3 DEF StrayOnlyAfterClose
  <1>3. ASSUME NEW c \in Conns, Callback(c)
        PROVE  StrayOnlyAfterClose'
    <2>1. CASE \/ \E k \in Kinds : IgnoreEvent(<<c, k>>)
               \/ \E side \in Sides, events \in Masks : BrokenPipe(c, side, events)
               \/ TimerRelaxed(c)
               \/ TimerUnset(c)
      BY <1>1, <2>1 DEF IgnoreEvent, BrokenPipe, TimerRelaxed, TimerUnset
    <2>2. CASE TimerUp(c)
      BY <1>1, <2>2 DEF TimerUp, MarkClosed
    <2>3. CASE \E side \in Sides, events \in Masks : HandlePeerEvents(c, side, events)
      BY <1>2, <2>3
    <2>. QED BY <1>3, <2>1, <2>2, <2>3
             DEF Callback, HandleClientEvents, HandleBackendEvents, Sides
  <1>4. CASE Loop
    <2>1. CASE \E c \in Conns : AcceptConn(c)
      BY <1>1, <2>1 DEF AcceptConn, AcceptAs
    <2>2. CASE \E c \in Conns : Callback(c)
      BY <1>3, <2>2
    <2>3. CASE FreeHandler \/ EndOfBatch \/ ListenerReadable \/ ListenerFailed
                   \/ AcceptDone \/ AcceptFatal
      BY <1>1, <2>3 DEF FreeHandler, EndOfBatch, ListenerReadable, ListenerFailed,
                        AcceptDone, AcceptFatal
    <2>. QED BY <1>4, <2>1, <2>2, <2>3 DEF Loop
  <1>. QED BY <1>1, <1>4
           DEF Next, Arrive, NetEvent, TimerExpire, EpollWait, EpollTimeout, Exited, vars

\* No side that is still open ever writes into a foreign socket.
THEOREM StraysAreClosed == Spec => []StrayOnlyAfterClose
  <1>1. Init => StrayOnlyAfterClose
    BY DEF Init, StrayOnlyAfterClose
  <1>. QED BY <1>1, StrayNext, Invariant, PTL DEF Spec

-----------------------------------------------------------------------------
(* What a connection leaves behind. *)

\* One connection's share of OnlyTimerLeaks and of LeakInv.
OneLeft(c) == NumbersLeft(c) = {sockFd[<<c, "timer">>]} \ {sockFd[<<c, "backend">>]}

SharedIsOpen(c) ==
    Serving(c) /\ sockFd[<<c, "backend">>] = sockFd[<<c, "timer">>]
        => <<c, "backend">> \notin isClosed

\* A step that closes and opens nothing of connection c keeps what it left.
LEMMA LeftKept ==
    ASSUME NEW c \in Conns, OneLeft(c),
           sockFd'[<<c, "timer">>] = sockFd[<<c, "timer">>],
           sockFd'[<<c, "backend">>] = sockFd[<<c, "backend">>],
           \A f \in Fds, k \in Kinds : file'[f] = <<c, k>> <=> file[f] = <<c, k>>
    PROVE  OneLeft(c)'
  <1>1. NumbersLeft(c)' = NumbersLeft(c)
    BY DEF NumbersLeft
  <1>. QED BY <1>1 DEF OneLeft

\* Steps that open and close nothing, and accept and expire nobody.
LEMMA LeakQuiet ==
    ASSUME IInv, LeakInv, UNCHANGED <<file, sockFd, isClosed>>,
           \A c \in Conns : /\ Up(c)' <=> Up(c)
                            /\ pmem'[c] = "live" => pmem[c] # "none"
    PROVE  LeakInv'
  <1>1. \A c \in Conns : Serving(c)' => Serving(c)
    BY Stages DEF Serving
  <1>2. OnlyTimerLeaks'
    BY DEF LeakInv, OnlyTimerLeaks, NumbersLeft
  <1>. QED BY <1>1, <1>2 DEF LeakInv

\* A hang-up closes the number of a served connection, which is its own.
LEMMA LeakPeer ==
    ASSUME IInv, LeakInv, NEW c \in Conns, NEW side \in Sides, NEW events \in Masks,
           HandlePeerEvents(c, side, events)
    PROVE  LeakInv'
  <1>. DEFINE self == <<c, side>>
  <1>1. /\ ~Up(c) /\ Serving(c)
        /\ sockFd[self] \in Fds /\ file[sockFd[self]] = self
        /\ UNCHANGED <<sockFd, pmem>>
        /\ timerStatus' = [timerStatus EXCEPT ![c] = RELAX_TIMER]
        /\ \/ UNCHANGED <<file, isClosed>>
           \/ /\ file' = [file EXCEPT ![sockFd[self]] = Nobody]
              /\ isClosed' = isClosed \cup {self}
    BY PeerEffect DEF memory
  <1>2. \A d \in Conns : Up(d)' <=> Up(d)
    BY <1>1 DEF IInv, TypeOK, Up, RELAX_TIMER, TIMER_IS_UP
  <1>3. CASE UNCHANGED <<file, isClosed>>
    BY <1>1, <1>2, <1>3, LeakQuiet
  <1>4. CASE /\ file' = [file EXCEPT ![sockFd[self]] = Nobody]
             /\ isClosed' = isClosed \cup {self}
    <2>1. file \in [Fds -> Handlers \cup {Nobody}]
      BY DEF IInv, TypeOK
    <2>2. ASSUME NEW d \in Conns, Up(d) PROVE OneLeft(d)'
      <3>1. d # c /\ OneLeft(d)
        BY <1>1, <2>2 DEF LeakInv, OnlyTimerLeaks, OneLeft
      <3>2. \A k \in Kinds : <<d, k>> # Nobody /\ <<d, k>> # self
        BY <3>1, NotHandlers DEF Handlers
      <3>. HIDE DEF self
      <3>3. \A f \in Fds, k \in Kinds : file'[f] = <<d, k>> <=> file[f] = <<d, k>>
        BY <1>1, <1>4, <2>1, <3>2
      <3>. QED BY <1>1, <3>1, <3>3, LeftKept
    <2>3. ASSUME NEW d \in Conns, Serving(d)',
                 sockFd'[<<d, "backend">>] = sockFd'[<<d, "timer">>]
          PROVE  <<d, "backend">> \notin isClosed'
      <3>1. Serving(d)
        BY <1>1, <1>2, <2>3, Stages DEF Serving
      <3>2. <<d, "backend">> \notin isClosed
        BY <1>1, <2>3, <3>1 DEF LeakInv
      <3>3. <<d, "backend">> # self
        <4>. SUFFICES ASSUME <<d, "backend">> = self PROVE FALSE
          OBVIOUS
        <4>1. file[sockFd[<<d, "timer">>]] = <<d, "timer">>
          BY <3>1 DEF IInv, NumberInv
        <4>2. file[sockFd[<<d, "timer">>]] = <<d, "backend">>
          BY <1>1, <2>3
        <4>. QED BY <4>1, <4>2
      <3>. QED BY <1>4, <3>2, <3>3
    <2>. QED BY <1>2, <2>2, <2>3 DEF LeakInv, OnlyTimerLeaks, OneLeft
  <1>. QED BY <1>1, <1>3, <1>4

\* The timer closes both sides, and its own number only as the backend's.
LEMMA LeakTimerUp ==
    ASSUME IInv, LeakInv, NEW c \in Conns, TimerUp(c)
    PROVE  LeakInv'
  <1>. DEFINE t == sockFd[<<c, "timer">>]
              b == sockFd[<<c, "backend">>]
              N == NumbersOf({<<c, k>> : k \in Sides} \ isClosed)
  <1>1. /\ Serving(c) /\ ~Up(c) /\ UNCHANGED <<sockFd, pmem>>
        /\ timerStatus' = [timerStatus EXCEPT ![c] = TIMER_IS_UP]
        /\ isClosed' = isClosed \cup {<<c, k>> : k \in Sides}
        /\ CloseAndDeregister(N, {t})
    BY TimerUpMemory
  <1>2. /\ \A f \in Fds : file[f] # Nobody /\ file[f][1] # c => file'[f] = file[f]
        /\ \A f \in Fds : file'[f] # Nobody => file'[f] = file[f]
        /\ \A f \in Fds : \A k \in Sides : file'[f] # <<c, k>>
    BY TimerUpNumbers
  <1>3. \A d \in Conns : Up(d)' <=> Up(d) \/ d = c
    BY <1>1 DEF Up, IInv, TypeOK
  <1>4. \A d \in Conns, k \in Kinds : <<d, k>> \in Handlers /\ <<d, k>> # Nobody
    BY NotHandlers DEF Handlers
  <1>5. /\ \A f \in Fds : file[f] \in Handlers => sockFd[file[f]] = f
        /\ t \in Fds /\ file[t] = <<c, "timer">>
    BY <1>1 DEF IInv, NumberInv
  <1>6. \A f \in Fds : file'[f] = IF f \in N THEN Nobody ELSE file[f]
    BY <1>1 DEF CloseAndDeregister
  <1>7. t \in N <=> b = t
    <2>1. b = t => <<c, "backend">> \notin isClosed
      BY <1>1 DEF LeakInv
    <2>2. <<c, "client">> \notin isClosed => sockFd[<<c, "client">>] # t
      <3>. SUFFICES ASSUME <<c, "client">> \notin isClosed, sockFd[<<c, "client">>] = t
                    PROVE  FALSE
        OBVIOUS
      <3>1. <<c, "client">> \in Sockets /\ cmem[<<c, "client">>] = "live"
        BY <1>1 DEF Serving, Sockets, Sides
      <3>2. Target(<<c, "client">>) = <<c, "client">>
        BY <3>1 DEF IInv, NumberInv, OpenSideOwnsNumber
      <3>. QED BY <1>5, <3>2 DEF Target
    <2>3. t \in N <=> \E k \in Sides : <<c, k>> \notin isClosed /\ sockFd[<<c, k>>] = t
      BY DEF NumbersOf
    <2>. QED BY <2>1, <2>2, <2>3 DEF Sides
  <1>. HIDE DEF N
  <1>8. OneLeft(c)'
    <2>1. ASSUME NEW f \in Fds
          PROVE  (\E k \in Kinds : file'[f] = <<c, k>>) <=> f = t /\ b # t
      <3>1. ASSUME NEW k \in Kinds, file'[f] = <<c, k>> PROVE f = t /\ b # t
        <4>1. k = "timer" /\ file[f] = <<c, k>> /\ f \notin N
          BY <1>2, <1>4, <1>6, <3>1 DEF Kinds
        <4>2. f = t
          BY <1>4, <1>5, <4>1
        <4>. QED BY <1>7, <4>1, <4>2
      <3>2. f = t /\ b # t => file'[f] = <<c, "timer">>
        BY <1>5, <1>6, <1>7
      <3>. QED BY <3>1, <3>2 DEF Kinds
    <2>2. NumbersLeft(c)' = {f \in Fds : f = t /\ b # t}
      BY <2>1 DEF NumbersLeft
    <2>3. {f \in Fds : f = t /\ b # t} = {t} \ {b}
      BY <1>5
    <2>. QED BY <1>1, <2>2, <2>3 DEF OneLeft
  <1>9. ASSUME NEW d \in Conns, Up(d)' PROVE OneLeft(d)'
    <2>1. CASE d = c
      BY <1>8, <2>1
    <2>2. CASE d # c
      <3>1. OneLeft(d)
        BY <1>3, <1>9, <2>2 DEF LeakInv, OnlyTimerLeaks, OneLeft
      <3>2. ASSUME NEW f \in Fds, NEW k \in Kinds
            PROVE  file'[f] = <<d, k>> <=> file[f] = <<d, k>>
        <4>1. <<d, k>> # Nobody /\ <<d, k>>[1] = d
          BY <1>4
        <4>2. file[f] = <<d, k>> => file'[f] = file[f]
          BY <1>2, <2>2, <4>1
        <4>3. file'[f] = <<d, k>> => file'[f] = file[f]
          BY <1>2, <4>1
        <4>. QED BY <4>2, <4>3
      <3>. QED BY <1>1, <3>1, <3>2, LeftKept
    <2>. QED BY <2>1, <2>2
  <1>10. ASSUME NEW d \in Conns, Serving(d)',
                sockFd'[<<d, "backend">>] = sockFd'[<<d, "timer">>]
         PROVE  <<d, "backend">> \notin isClosed'
    <2>1. d # c /\ Serving(d)
      BY <1>1, <1>3, <1>10, Stages DEF Serving
    <2>2. <<d, "backend">> \notin isClosed
      BY <1>1, <1>10, <2>1 DEF LeakInv
    <2>. QED BY <1>1, <2>1, <2>2
  <1>. QED BY <1>9, <1>10 DEF LeakInv, OnlyTimerLeaks, OneLeft

\* A new connection takes unused numbers only.
LEMMA LeakAccept ==
    ASSUME IInv, LeakInv, NEW c \in Conns, AcceptConn(c)
    PROVE  LeakInv'
  <1>1. PICK cfd \in Fds, bfd \in Fds \cup {BadFd}, tfd \in Fds,
             connected \in BOOLEAN, added \in SUBSET Kinds :
          AcceptAs(c, cfd, bfd, tfd, connected, added)
    BY DEF AcceptConn
  <1>. OwnNumbers(c, cfd, bfd, tfd, connected)
    BY <1>1, AcceptNumbers
  <1>2. /\ \A d \in Conns, k \in Kinds : d # c => sockFd'[<<d, k>>] = sockFd[<<d, k>>]
        /\ \A f \in Fds : file[f] # Nobody => file'[f] = file[f]
        /\ \A f \in Fds : \/ file'[f] = file[f]
                          \/ \E k \in Kinds : /\ file'[f] = <<c, k>>
                                              /\ sockFd'[<<c, k>>] = f
    BY DEF OwnNumbers
  <1>3. Unborn(c)
    BY Stages DEF AcceptConn
  <1>4. /\ UNCHANGED <<isClosed, timerStatus>> /\ pmem' = [pmem EXCEPT ![c] = "live"]
    BY <1>1 DEF AcceptAs
  <1>5. \A d \in Conns, k \in Kinds : <<d, k>> # Nobody
    BY NotHandlers DEF Handlers
  <1>6. ASSUME NEW d \in Conns, Up(d)' PROVE OneLeft(d)'
    <2>1. d # c /\ OneLeft(d)
      BY <1>3, <1>4, <1>6 DEF LeakInv, OnlyTimerLeaks, OneLeft, Up, Unborn, UNSET,
                              TIMER_IS_UP
    <2>2. ASSUME NEW f \in Fds, NEW k \in Kinds
          PROVE  file'[f] = <<d, k>> <=> file[f] = <<d, k>>
      <3>1. file[f] = <<d, k>> => file'[f] = file[f]
        BY <1>2, <1>5
      <3>2. file'[f] = <<d, k>> => file'[f] = file[f]
        <4>1. \A j \in Kinds : <<d, k>> # <<c, j>>
          BY <2>1
        <4>2. file'[f] = file[f] \/ \E j \in Kinds : file'[f] = <<c, j>>
          BY <1>2
        <4>. QED BY <4>1, <4>2, Zenon
      <3>. QED BY <3>1, <3>2
    <2>3. /\ sockFd'[<<d, "timer">>] = sockFd[<<d, "timer">>]
          /\ sockFd'[<<d, "backend">>] = sockFd[<<d, "backend">>]
      BY <1>2, <2>1 DEF Kinds, Sides
    <2>. QED BY <2>1, <2>2, <2>3, LeftKept
  <1>7. ASSUME NEW d \in Conns, Serving(d)',
               sockFd'[<<d, "backend">>] = sockFd'[<<d, "timer">>]
        PROVE  <<d, "backend">> \notin isClosed'
    <2>1. CASE d = c
      BY <1>3, <1>4, <2>1 DEF Unborn, Sides
    <2>2. CASE d # c
      <3>1. Serving(d)
        BY <1>4, <1>7, <2>2, Stages DEF Serving, Up, IInv, TypeOK
      <3>2. /\ sockFd'[<<d, "timer">>] = sockFd[<<d, "timer">>]
            /\ sockFd'[<<d, "backend">>] = sockFd[<<d, "backend">>]
        BY <1>2, <2>2 DEF Kinds, Sides
      <3>. QED BY <1>4, <1>7, <3>1, <3>2 DEF LeakInv
    <2>. QED BY <2>1, <2>2
  <1>. QED BY <1>6, <1>7 DEF LeakInv, OnlyTimerLeaks, OneLeft

LEMMA LeakNext == IInv /\ LeakInv /\ [Next]_vars => LeakInv'
  <1>. SUFFICES ASSUME IInv, LeakInv, [Next]_vars
                PROVE  LeakInv'
    OBVIOUS
  <1>1. ASSUME UNCHANGED <<file, sockFd, isClosed, pmem, timerStatus>> PROVE LeakInv'
    BY <1>1, LeakQuiet DEF Up
  <1>2. ASSUME NEW c \in Conns, Callback(c) PROVE LeakInv'
    <2>1. CASE \/ \E k \in Kinds : IgnoreEvent(<<c, k>>)
               \/ \E side \in Sides, events \in Masks : BrokenPipe(c, side, events)
               \/ TimerUnset(c)
      BY <1>1, <2>1 DEF IgnoreEvent, BrokenPipe, TimerUnset, kernel, memory
    <2>2. CASE TimerRelaxed(c)
      <3>1. /\ UNCHANGED <<file, sockFd, isClosed, pmem>>
            /\ timerStatus[c] = RELAX_TIMER
            /\ timerStatus' = [timerStatus EXCEPT ![c] = TIMER_RELAXED]
        BY <2>2 DEF TimerRelaxed, memory
      <3>2. \A d \in Conns : Up(d)' <=> Up(d)
        BY <3>1 DEF Up, IInv, TypeOK, RELAX_TIMER, TIMER_IS_UP, TIMER_RELAXED
      <3>. QED BY <3>1, <3>2, LeakQuiet
    <2>3. CASE TimerUp(c)
      BY <2>3, LeakTimerUp
    <2>4. CASE \E side \in Sides, events \in Masks : HandlePeerEvents(c, side, events)
      BY <2>4, LeakPeer
    <2>. QED BY <1>2, <2>1, <2>2, <2>3, <2>4
             DEF Callback, HandleClientEvents, HandleBackendEvents, Sides
  <1>3. CASE Loop
    <2>1. CASE \E c \in Conns : AcceptConn(c)
      BY <2>1, LeakAccept
    <2>2. CASE \E c \in Conns : Callback(c)
      BY <1>2, <2>2
    <2>3. CASE FreeHandler
      <3>1. UNCHANGED <<file, sockFd, isClosed, timerStatus>>
        BY <2>3 DEF FreeHandler, kernel
      <3>2. \A d \in Conns : pmem'[d] = "live" => pmem[d] = "live"
        BY <2>3 DEF FreeHandler, Freed, IInv, TypeOK
      <3>. QED BY <3>1, <3>2, LeakQuiet DEF Up
    <2>4. CASE EndOfBatch \/ ListenerReadable \/ ListenerFailed \/ AcceptDone \/ AcceptFatal
      BY <1>1, <2>4 DEF EndOfBatch, ListenerReadable, ListenerFailed, AcceptDone,
                        AcceptFatal, kernel, memory
    <2>. QED BY <1>3, <2>1, <2>2, <2>3, <2>4 DEF Loop
  <1>. QED BY <1>1, <1>3
           DEF Next, Arrive, NetEvent, TimerExpire, EpollWait, EpollTimeout, Exited,
               vars, kernel, memory

\* A connection that timed out leaves its timer's descriptor open for ever, and nothing
\* else, whatever its callbacks did before and whatever numbers the connections after
\* it get; it leaves none if its backend never connected and had the timer's number.
THEOREM TimersLeak == Spec => []OnlyTimerLeaks
  <1>1. Init => LeakInv
    BY DEF Init, LeakInv, OnlyTimerLeaks, Serving, Up, UNSET, TIMER_IS_UP
  <1>2. LeakInv => OnlyTimerLeaks
    BY DEF LeakInv
  <1>. QED BY <1>1, <1>2, LeakNext, Invariant, PTL DEF Spec

=============================================================================
