---------------------------- MODULE MCProxyLifecycle ----------------------------
(* Small instances of ProxyLifecycle for TLC. *)
EXTENDS ProxyLifecycle, TLC

Symmetry == Permutations(Conns)

=============================================================================
