------------------------------ MODULE MCPoller ------------------------------
(***************************************************************************)
(* Small instances of Poller for TLC.                                      *)
(***************************************************************************)
EXTENDS Poller, TLC

\* Connections and descriptors are interchangeable.
Symmetry == Permutations(Conns) \cup Permutations(Fds)
=============================================================================
