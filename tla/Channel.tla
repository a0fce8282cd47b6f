------------------------------ MODULE Channel ------------------------------
(***************************************************************************)
(* What a proxied connection promises its two peers: what one of them      *)
(* sends, the other one gets in order and once, and nothing else.  That it *)
(* gets all of it in the end is not said here.                             *)
(***************************************************************************)
EXTENDS Naturals, Sequences

CONSTANT Sides

VARIABLES
    sent,  \* how many tokens each peer has sent: 1, 2, 3, ...
    got    \* the tokens each peer was sent by the proxy

Init ==
    /\ sent = [s \in Sides |-> 0]
    /\ got = [s \in Sides |-> << >>]

Send(s) ==
    /\ sent' = [sent EXCEPT ![s] = @ + 1]
    /\ UNCHANGED got

\* Each peer gets some of what the other one sent, from where it left off.
Forward ==
    /\ got' \in [Sides -> Seq(Nat)]
    /\ \A s \in Sides :
           /\ Len(got[s]) <= Len(got'[s])
           /\ got'[s] = [i \in 1..Len(got'[s]) |-> i]
           /\ \E r \in Sides : r # s /\ Len(got'[s]) <= sent[r]
    /\ UNCHANGED sent

Next == (\E s \in Sides : Send(s)) \/ Forward

Spec == Init /\ [][Next]_<<sent, got>>

=============================================================================
