---------------------------- MODULE MCEventLoop -----------------------------
(***************************************************************************)
(* Small instances of EventLoop for TLC.                                   *)
(***************************************************************************)
EXTENDS EventLoop

\* Threads that call in, functors and IO channels are interchangeable.
Symmetry == Permutations(OtherThreads) \cup Permutations(Functors)
              \cup Permutations(IoChannels)
=============================================================================
