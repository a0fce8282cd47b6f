------------------------------ MODULE MCRelay ------------------------------
(* The kinds of sides TLC tries for Relay.                                  *)
EXTENDS Relay

Pair(client, backend) == [s \in Sides |-> IF s = "client" THEN client ELSE backend]

AllKinds == KindPairs
PlainBackend == {Pair("tls13", "plain")}
NewTls == {Pair("tls13", "tls13")}

\* Both versions of TLS and every way a plain side can meet another one.
Mixed == {Pair("tls13", "tls13"), Pair("tls12", "tls12"), Pair("tls12", "plain"),
          Pair("plain", "tls12"), Pair("plain", "plain")}

=============================================================================
