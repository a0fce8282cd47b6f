----------------------- MODULE ConnectionContract_proofs -----------------------
(* ProxyLifecycle implements ConnectionContract: each step of the loop is a     *)
(* step of the contract of one connection, or changes nothing the contract sees.*)
EXTENDS ProxyLifecycle_proofs

\* What the contract sees of a connection, besides its stage.
OpenSides(c) == {k \in Sides : \E f \in Fds : file[f] = <<c, k>>}
Quiet(c) == timerStatus[c] = TIMER_RELAXED

\* The other connections look to the contract as before.
OthersSeenSame(c) ==
    \A d \in Conns \ {c} : /\ Stage(d)' = Stage(d)
                           /\ OpenSides(d)' = OpenSides(d)
                           /\ Quiet(d)' = Quiet(d)

\* Then the variables of the contract change at that connection only.
LEMMA SeenOfOne ==
    ASSUME NEW c \in Conns, OthersSeenSame(c)
    PROVE  LET stage == [d \in Conns |-> Stage(d)]
               sides == [d \in Conns |-> {k \in Sides : \E f \in Fds : file[f] = <<d, k>>}]
               quiet == [d \in Conns |-> timerStatus[d] = TIMER_RELAXED]
           IN /\ stage' = [stage EXCEPT ![c] = Stage(c)']
              /\ sides' = [sides EXCEPT ![c] = OpenSides(c)']
              /\ quiet' = [quiet EXCEPT ![c] = Quiet(c)']
              /\ stage[c] = Stage(c) /\ (Stage(c)' = Stage(c) => stage' = stage)
              /\ sides[c] = OpenSides(c)
              /\ OpenSides(c)' = OpenSides(c) => sides' = sides
              /\ quiet[c] = Quiet(c) /\ (Quiet(c)' = Quiet(c) => quiet' = quiet)
  <1>. DEFINE stage == [d \in Conns |-> Stage(d)]
              sides == [d \in Conns |-> OpenSides(d)]
              quiet == [d \in Conns |-> Quiet(d)]
  <1>1. /\ stage' = [stage EXCEPT ![c] = Stage(c)']
        /\ stage[c] = Stage(c) /\ (Stage(c)' = Stage(c) => stage' = stage)
    BY DEF OthersSeenSame
  <1>2. /\ sides' = [sides EXCEPT ![c] = OpenSides(c)']
        /\ sides[c] = OpenSides(c)
        /\ OpenSides(c)' = OpenSides(c) => sides' = sides
    BY DEF OthersSeenSame
  <1>3. /\ quiet' = [quiet EXCEPT ![c] = Quiet(c)']
        /\ quiet[c] = Quiet(c) /\ (Quiet(c)' = Quiet(c) => quiet' = quiet)
    BY DEF OthersSeenSame
  <1>. QED BY <1>1, <1>2, <1>3 DEF OpenSides, Quiet

LEMMA Stutters ==
    ASSUME UNCHANGED <<pmem, file, timerStatus>>, pc = "exited" <=> pc' = "exited"
    PROVE  UNCHANGED Contract!vars
  <1>1. \A c \in Conns : Stage(c)' = Stage(c)
    BY DEF Stage, Up
  <1>. QED BY <1>1 DEF Contract!vars

LEMMA InitKeeps == Init => Contract!Init
  <1>. SUFFICES ASSUME Init
                PROVE  Contract!Init
    OBVIOUS
  <1>1. \A c \in Conns : Stage(c) = "none"
    BY DEF Init, Stage
  <1>2. \A c \in Conns : {k \in Sides : \E f \in Fds : file[f] = <<c, k>>} = {}
    BY NotHandlers DEF Init, Handlers, Kinds
  <1>3. \A c \in Conns : (timerStatus[c] = TIMER_RELAXED) = FALSE
    BY DEF Init, UNSET, TIMER_RELAXED
  <1>4. (pc # "exited") = TRUE
    BY DEF Init
  <1>. QED BY <1>1, <1>2, <1>3, <1>4 DEF Contract!Init

-----------------------------------------------------------------------------
(* The steps of one connection. *)

\* A turn of the accept loop opens the connection, with one side or both.
LEMMA AcceptOpens ==
    ASSUME IInv, NEW c \in Conns, AcceptConn(c)
    PROVE  Contract!Open(c)
  <1>1. PICK cfd \in Fds, bfd \in Fds \cup {BadFd}, tfd \in Fds,
             connected \in BOOLEAN, added \in SUBSET Kinds :
          AcceptAs(c, cfd, bfd, tfd, connected, added)
    BY DEF AcceptConn
  <1>2. OwnNumbers(c, cfd, bfd, tfd, connected)
    BY <1>1, AcceptNumbers
  <1>3. /\ pc = "accept" /\ pc' = pc
        /\ timerStatus' = timerStatus /\ pmem' = [pmem EXCEPT ![c] = "live"]
    BY <1>1 DEF AcceptConn, AcceptAs
  <1>4. Unborn(c)
    BY Stages DEF AcceptConn
  <1>5. /\ Stage(c) = "none" /\ Stage(c)' = "open"
        /\ ~Quiet(c) /\ ~Quiet(c)'
    BY <1>3, <1>4 DEF Unborn, Stage, Up, Quiet, IInv, TypeOK, UNSET, TIMER_IS_UP,
                      TIMER_RELAXED
  <1>6. OpenSides(c)' = IF connected THEN Sides ELSE {"client"}
    <2>1. /\ \A f \in Fds : file[f] # <<c, "backend">>
          /\ file'[cfd] = <<c, "client">>
      BY <1>2, <1>4 DEF Unborn, OwnNumbers, Kinds, Sides
    <2>2. CASE connected
      BY <1>2, <2>1, <2>2 DEF OpenSides, OwnNumbers, Sides
    <2>3. CASE ~connected
      <3>1. ASSUME NEW f \in Fds, file'[f] = <<c, "backend">>
            PROVE  FALSE
        <4>1. sockFd'[<<c, "backend">>] = f
          <5>1. /\ f \in Fds /\ file[f] # <<c, "backend">>
                /\ file'[f] = <<c, "backend">>
            BY <2>1, <3>1
          <5>2. PICK k \in Kinds : file'[f] = <<c, k>> /\ sockFd'[<<c, k>>] = f
            BY <1>2, <5>1 DEF OwnNumbers
          <5>3. k = "backend"
            BY <5>1, <5>2
          <5>. QED BY <5>2, <5>3
        <4>2. bfd = f /\ (bfd = BadFd \/ file'[bfd] = <<c, "timer">>)
          BY <1>2, <2>3, <4>1 DEF OwnNumbers
        <4>. QED BY <3>1, <4>2, ConstantsAssumption DEF BadFd
      <3>. QED BY <2>1, <2>3, <3>1 DEF OpenSides, Sides
    <2>. QED BY <2>2, <2>3
  <1>7. OthersSeenSame(c)
    <2>. SUFFICES ASSUME NEW d \in Conns \ {c}
                  PROVE  /\ Stage(d)' = Stage(d) /\ OpenSides(d)' = OpenSides(d)
                         /\ Quiet(d)' = Quiet(d)
      BY DEF OthersSeenSame
    <2>1. \A k \in Sides : <<d, k>> # Nobody
      BY NotHandlers DEF Handlers, Kinds
    <2>2. ASSUME NEW k \in Sides, NEW f \in Fds
          PROVE  file'[f] = <<d, k>> <=> file[f] = <<d, k>>
      <3>1. file[f] = <<d, k>> => file'[f] = file[f]
        BY <1>2, <2>1 DEF OwnNumbers
      <3>2. file'[f] = file[f] \/ \E j \in Kinds : file'[f] = <<c, j>>
        BY <1>2 DEF OwnNumbers
      <3>. QED BY <3>1, <3>2
    <2>3. OpenSides(d)' = OpenSides(d)
      BY <2>2 DEF OpenSides
    <2>. QED BY <1>3, <2>3 DEF Stage, Up, Quiet, IInv, TypeOK
  <1>8. OpenSides(c)' \in {{"client"}, Sides}
    BY <1>6
  <1>. QED BY <1>3, <1>5, <1>7, <1>8, SeenOfOne
           DEF Contract!Open, Contract!Sides, Sides

\* A readable, writable or closed side: its connection is open, since nothing
\* of a connection is registered before it is accepted or after its timer is up.
LEMMA PeerIsActivity ==
    ASSUME IInv, NEW c \in Conns, NEW side \in Sides, NEW events \in Masks,
           HandlePeerEvents(c, side, events)
    PROVE  Contract!Activity(c)
  <1>. DEFINE self == <<c, side>>
  <1>1. /\ Serving(c) /\ self \in Handlers
        /\ sockFd[self] \in Fds /\ file[sockFd[self]] = self
        /\ UNCHANGED <<pc, pmem>>
        /\ timerStatus' = [timerStatus EXCEPT ![c] = RELAX_TIMER]
        /\ \/ file' = file
           \/ file' = [file EXCEPT ![sockFd[self]] = Nobody]
    BY PeerEffect DEF memory
  <1>2. pc = "dispatch"
    BY DEF HandlePeerEvents, StillOpen, MarkClosed
  <1>3. \A f \in Fds : file[f] = self <=> f = sockFd[self]
    BY <1>1 DEF IInv, NumberInv
  <1>4. \A d \in Conns, k \in Kinds : <<d, k>> # Nobody
    BY NotHandlers DEF Handlers
  <1>5. \A d \in Conns, k \in Sides :
            k \in OpenSides(d)' <=>
                k \in OpenSides(d) /\ (file' = file \/ <<d, k>> # self)
    <2>1. CASE file' = file
      BY <2>1 DEF OpenSides
    <2>2. CASE file' # file
      <3>1. \A f \in Fds : file'[f] = IF f = sockFd[self] THEN Nobody ELSE file[f]
        BY <1>1, <2>2 DEF IInv, TypeOK
      <3>2. ASSUME NEW d \in Conns, NEW k \in Sides, NEW f \in Fds
            PROVE  file'[f] = <<d, k>> <=> file[f] = <<d, k>> /\ <<d, k>> # self
        BY <1>1, <1>3, <1>4, <3>1 DEF Kinds
      <3>. QED BY <2>2, <3>2 DEF OpenSides
    <2>. QED BY <2>1, <2>2
  <1>6. OthersSeenSame(c)
    <2>. SUFFICES ASSUME NEW d \in Conns \ {c}
                  PROVE  /\ Stage(d)' = Stage(d) /\ OpenSides(d)' = OpenSides(d)
                         /\ Quiet(d)' = Quiet(d)
      BY DEF OthersSeenSame
    <2>1. OpenSides(d)' = OpenSides(d)
      BY <1>5 DEF OpenSides
    <2>. QED BY <1>1, <2>1 DEF Stage, Up, Quiet, IInv, TypeOK
  <1>7. /\ Stage(c) = "open" /\ Stage(c)' = "open"
        /\ Quiet(c)' = FALSE
    BY <1>1 DEF Serving, Stage, Up, Quiet, IInv, TypeOK, RELAX_TIMER, TIMER_IS_UP,
                TIMER_RELAXED
  <1>8. \E closed \in BOOLEAN :
            OpenSides(c)' = IF closed THEN OpenSides(c) \ {side} ELSE OpenSides(c)
    <2>1. CASE file' = file
      BY <2>1 DEF OpenSides
    <2>2. CASE file' # file
      <3>1. OpenSides(c)' = OpenSides(c) \ {side}
        BY <1>5, <2>2 DEF OpenSides
      <3>. QED BY <3>1
    <2>. QED BY <2>1, <2>2
  <1>. DEFINE sides == [d \in Conns |-> {k \in Sides : \E f \in Fds : file[f] = <<d, k>>}]
  <1>9. \E closed \in BOOLEAN :
            sides' = [sides EXCEPT ![c] = IF closed THEN @ \ {side} ELSE @]
    <2>1. sides[c] = OpenSides(c) /\ sides' = [sides EXCEPT ![c] = OpenSides(c)']
      BY <1>6, SeenOfOne
    <2>. HIDE DEF sides
    <2>. QED BY <1>8, <2>1
  <1>10. \E k \in Contract!Sides, closed \in BOOLEAN :
            sides' = [sides EXCEPT ![c] = IF closed THEN @ \ {k} ELSE @]
    <2>. HIDE DEF sides
    <2>. QED BY <1>9 DEF Contract!Sides, Sides
  <1>. QED BY <1>1, <1>2, <1>6, <1>7, <1>10, SeenOfOne DEF Contract!Activity

LEMMA TimerRelaxedRelaxes ==
    ASSUME IInv, NEW c \in Conns, TimerRelaxed(c)
    PROVE  Contract!Relax(c)
  <1>1. /\ pc = "dispatch" /\ UNCHANGED <<pc, pmem, file>>
        /\ timerStatus[c] = RELAX_TIMER
        /\ timerStatus' = [timerStatus EXCEPT ![c] = TIMER_RELAXED]
    BY DEF TimerRelaxed, memory
  <1>2. Serving(c)
    BY <1>1, Dispatched DEF TimerRelaxed, Kinds, Up, RELAX_TIMER, TIMER_IS_UP
  <1>3. OthersSeenSame(c)
    BY <1>1 DEF OthersSeenSame, Stage, OpenSides, Up, Quiet, IInv, TypeOK
  <1>4. /\ Stage(c) = "open" /\ Stage(c)' = "open" /\ OpenSides(c)' = OpenSides(c)
        /\ ~Quiet(c) /\ Quiet(c)' = TRUE
    BY <1>1, <1>2 DEF Serving, Stage, OpenSides, Up, Quiet, IInv, TypeOK,
                      RELAX_TIMER, TIMER_IS_UP, TIMER_RELAXED
  <1>. QED BY <1>1, <1>3, <1>4, SeenOfOne DEF Contract!Relax

\* The timer after a quiet period closes both sides, and nobody else's.
LEMMA TimerUpExpires ==
    ASSUME IInv, NEW c \in Conns, TimerUp(c)
    PROVE  Contract!Expire(c)
  <1>1. /\ Serving(c) /\ UNCHANGED <<pc, pmem>>
        /\ timerStatus' = [timerStatus EXCEPT ![c] = TIMER_IS_UP]
    BY TimerUpMemory
  <1>2. /\ \A f \in Fds : file[f] # Nobody /\ file[f][1] # c => file'[f] = file[f]
        /\ \A f \in Fds : file'[f] # Nobody => file'[f] = file[f]
        /\ \A f \in Fds : \A k \in Sides : file'[f] # <<c, k>>
    BY TimerUpNumbers
  <1>3. pc = "dispatch" /\ timerStatus[c] = TIMER_RELAXED
    <2>1. pc = "dispatch" /\ TimedOut(timerStatus[c])
      BY DEF TimerUp, StillOpen, MarkClosed
    <2>2. timerStatus[c] \in {0, -1, -2, -3}
      BY DEF IInv, TypeOK, UNSET, RELAX_TIMER, TIMER_IS_UP, TIMER_RELAXED
    <2>. QED BY <2>1, <2>2 DEF TimedOut, TIMER_RELAXED
  <1>4. \A d \in Conns, k \in Sides : <<d, k>> # Nobody
    BY NotHandlers DEF Handlers, Kinds
  <1>5. OthersSeenSame(c)
    <2>. SUFFICES ASSUME NEW d \in Conns \ {c}
                  PROVE  /\ Stage(d)' = Stage(d) /\ OpenSides(d)' = OpenSides(d)
                         /\ Quiet(d)' = Quiet(d)
      BY DEF OthersSeenSame
    <2>1. ASSUME NEW k \in Sides, NEW f \in Fds
          PROVE  file'[f] = <<d, k>> <=> file[f] = <<d, k>>
      BY <1>2, <1>4
    <2>2. OpenSides(d)' = OpenSides(d)
      BY <2>1 DEF OpenSides
    <2>. QED BY <1>1, <2>2 DEF Stage, Up, Quiet, IInv, TypeOK
  <1>6. /\ Stage(c) = "open" /\ Stage(c)' = "expired" /\ OpenSides(c)' = {}
        /\ Quiet(c) /\ Quiet(c)' = FALSE
    BY <1>1, <1>2, <1>3 DEF Serving, Stage, OpenSides, Up, Quiet, IInv, TypeOK,
                            TIMER_IS_UP, TIMER_RELAXED
  <1>. QED BY <1>1, <1>3, <1>5, <1>6, SeenOfOne DEF Contract!Expire

\* A block of the free list: the last one of a connection releases it.
LEMMA FreeReleases ==
    ASSUME IInv, FreeHandler
    PROVE  \/ UNCHANGED Contract!vars
           \/ \E c \in Conns : Contract!Release(c)
  <1>1. /\ freeList \in Seq(Handlers) /\ freeList # << >> /\ Once(freeList)
        /\ \A g \in Handlers : Holds(freeList, g) <=> hmem[g] = "live" /\ Up(g[1])
    BY DEF IInv, TypeOK, FreeListInv, FreeHandler, BatchDone, LastReference, Once, Holds
  <1>2. Head(freeList) \in Handlers /\ Holds(freeList, Head(freeList))
    BY <1>1, TailHolds
  <1>. PICK c \in Conns, kind \in Kinds : Head(freeList) = <<c, kind>>
    BY <1>2 DEF Handlers
  <1>3. hmem[<<c, kind>>] = "live" /\ Up(c)
    BY <1>1, <1>2
  <1>4. /\ pc = "dispatch" /\ UNCHANGED <<pc, file, timerStatus>>
        /\ pmem' = [pmem EXCEPT ![c] = IF refs[c] = 1 THEN Freed(@) ELSE @]
    <2>1. Head(freeList)[1] = c
      OBVIOUS
    <2>. QED BY <2>1 DEF FreeHandler, BatchDone, LastReference, kernel
  <1>5. CASE refs[c] # 1
    BY <1>4, <1>5, Stutters DEF IInv, TypeOK
  <1>6. CASE refs[c] = 1
    <2>1. pmem[c] = "live" /\ pmem' = [pmem EXCEPT ![c] = "freed"]
      <3>1. pmem[c] = "live"
        BY <1>6 DEF IInv, LifeInv
      <3>. QED BY <1>4, <1>6, <3>1 DEF Freed
    <2>2. OthersSeenSame(c)
      BY <1>4, <2>1 DEF OthersSeenSame, Stage, OpenSides, Up, Quiet, IInv, TypeOK
    <2>3. /\ Stage(c) = "expired" /\ Stage(c)' = "released"
          /\ OpenSides(c)' = OpenSides(c) /\ Quiet(c)' = Quiet(c)
      BY <1>3, <1>4, <2>1 DEF Stage, OpenSides, Up, Quiet, IInv, TypeOK
    <2>4. Contract!Release(c)
      BY <1>4, <2>2, <2>3, SeenOfOne DEF Contract!Release
    <2>. QED BY <2>4
  <1>. QED BY <1>5, <1>6

-----------------------------------------------------------------------------
(* The theorem. *)

LEMMA NextKeeps == IInv /\ [Next]_vars => [Contract!Next]_Contract!vars
  <1>. SUFFICES ASSUME IInv, [Next]_vars
                PROVE  Contract!Next \/ UNCHANGED Contract!vars
    OBVIOUS
  <1>1. CASE UNCHANGED vars
    BY <1>1, Stutters DEF vars
  <1>2. CASE \/ \E c \in Conns : Arrive(c) \/ TimerExpire(c)
             \/ \E s \in Sockets : NetEvent(s)
             \/ EpollWait
    BY <1>2, Stutters DEF Arrive, TimerExpire, NetEvent, EpollWait, kernel, memory
  <1>3. CASE EndOfBatch \/ ListenerReadable \/ ListenerFailed \/ AcceptDone
    BY <1>3, Stutters DEF EndOfBatch, BatchDone, ListenerReadable, ListenerFailed,
                          AcceptDone, kernel, memory
  <1>4. ASSUME NEW c \in Conns, TimerUnset(c) \/ \E k \in Kinds : IgnoreEvent(<<c, k>>)
        PROVE  UNCHANGED Contract!vars
    BY <1>4, Stutters DEF TimerUnset, IgnoreEvent, kernel, memory
  <1>5. ASSUME \/ AcceptFatal
               \/ \E c \in Conns, side \in Sides, events \in Masks :
                      BrokenPipe(c, side, events)
        PROVE  Contract!Next
    <2>1. pc # "exited" /\ pc' = "exited" /\ UNCHANGED <<pmem, file, timerStatus>>
      BY <1>5 DEF AcceptFatal, BrokenPipe, kernel, memory
    <2>2. \A c \in Conns : Stage(c)' = Stage(c)
      BY <2>1 DEF Stage, Up
    <2>3. Contract!Halt
      BY <2>1, <2>2 DEF Contract!Halt
    <2>. QED BY <2>1, <2>3 DEF Contract!Next
  <1>6. ASSUME NEW c \in Conns, AcceptConn(c)
        PROVE  Contract!Next
    BY <1>6, AcceptOpens DEF Contract!Next, AcceptConn
  <1>7. ASSUME NEW c \in Conns, NEW side \in Sides, NEW events \in Masks,
               HandlePeerEvents(c, side, events)
        PROVE  Contract!Next
    <2>1. pc = "dispatch"
      BY <1>7 DEF HandlePeerEvents, StillOpen, MarkClosed
    <2>. QED BY <1>7, <2>1, PeerIsActivity DEF Contract!Next
  <1>8. ASSUME NEW c \in Conns, TimerRelaxed(c) \/ TimerUp(c)
        PROVE  Contract!Next
    <2>1. pc = "dispatch"
      BY <1>8 DEF TimerRelaxed, TimerUp, StillOpen, MarkClosed
    <2>. QED BY <1>8, <2>1, TimerRelaxedRelaxes, TimerUpExpires DEF Contract!Next
  <1>9. ASSUME FreeHandler
        PROVE  Contract!Next \/ UNCHANGED Contract!vars
    <2>1. pc = "dispatch"
      BY <1>9 DEF FreeHandler, BatchDone
    <2>. QED BY <1>9, <2>1, FreeReleases DEF Contract!Next
  <1>10. ASSUME NEW c \in Conns, Callback(c)
         PROVE  Contract!Next \/ UNCHANGED Contract!vars
    BY <1>4, <1>5, <1>7, <1>8, <1>10
       DEF Callback, HandleClientEvents, HandleBackendEvents, Sides
  <1>11. CASE Loop
    BY <1>3, <1>5, <1>6, <1>9, <1>10, <1>11 DEF Loop
  <1>. QED BY <1>1, <1>2, <1>11 DEF Next, EpollTimeout, Exited

\* The loop keeps the contract of every connection, for any number of
\* connections, descriptors and events per batch, and under every fault: each
\* step concerns one connection at most, a socket is closed only by its own
\* connection's event or timer, a connection expires only after a whole period
\* without events and is released once and after that.
THEOREM ContractKept == Spec => KeepsContract
  <1>1. Init => Contract!Init
    BY InitKeeps
  <1>2. IInv /\ [Next]_vars => [Contract!Next]_Contract!vars
    BY NextKeeps
  <1>. QED BY <1>1, <1>2, Invariant, PTL DEF Spec, KeepsContract, Contract!Spec

=============================================================================
