------------------------- MODULE ConnectionContract -------------------------
(***************************************************************************)
(* What zroxy owes each proxied connection, whatever descriptor numbers,   *)
(* handlers and free lists it is made of.  A connection is opened once; its *)
(* sockets are closed one by one by their own events or all together by    *)
(* its timer, and never reopened; the timer expires it only after a period *)
(* without events; it is released once, after that.  Every step is a step  *)
(* of one connection: no connection can close or release part of another.  *)
(***************************************************************************)
CONSTANT Conns

VARIABLES
    up,     \* the process runs
    stage,  \* none, open, expired, released
    sides,  \* the sockets of the connection that are open
    quiet   \* the timer ran out once and no event was handled since

vars == <<up, stage, sides, quiet>>

Sides == {"client", "backend"}

Init ==
    /\ up = TRUE
    /\ stage = [c \in Conns |-> "none"]
    /\ sides = [c \in Conns |-> {}]
    /\ quiet = [c \in Conns |-> FALSE]

\* A client is accepted; the backend may be unreachable.
Open(c) ==
    /\ stage[c] = "none"
    /\ stage' = [stage EXCEPT ![c] = "open"]
    /\ \E opened \in {{"client"}, Sides} : sides' = [sides EXCEPT ![c] = opened]
    /\ UNCHANGED <<up, quiet>>

\* An event of a side is handled; that side may close.
Activity(c) ==
    /\ stage[c] = "open"
    /\ \E side \in Sides, closed \in BOOLEAN :
           sides' = [sides EXCEPT ![c] = IF closed THEN @ \ {side} ELSE @]
    /\ quiet' = [quiet EXCEPT ![c] = FALSE]
    /\ UNCHANGED <<up, stage>>

\* The timer runs out after events were handled: one more period is given.
Relax(c) ==
    /\ stage[c] = "open" /\ ~quiet[c]
    /\ quiet' = [quiet EXCEPT ![c] = TRUE]
    /\ UNCHANGED <<up, stage, sides>>

\* The timer runs out again and nothing happened: what is open is closed.
Expire(c) ==
    /\ stage[c] = "open" /\ quiet[c]
    /\ stage' = [stage EXCEPT ![c] = "expired"]
    /\ sides' = [sides EXCEPT ![c] = {}]
    /\ quiet' = [quiet EXCEPT ![c] = FALSE]
    /\ UNCHANGED up

Release(c) ==
    /\ stage[c] = "expired"
    /\ stage' = [stage EXCEPT ![c] = "released"]
    /\ UNCHANGED <<up, sides, quiet>>

\* The process exits.
Halt == up' = FALSE /\ UNCHANGED <<stage, sides, quiet>>

Next ==
    /\ up
    /\ \/ \E c \in Conns : \/ Open(c) \/ Activity(c) \/ Relax(c)
                           \/ Expire(c) \/ Release(c)
       \/ Halt

Spec == Init /\ [][Next]_vars

=============================================================================
