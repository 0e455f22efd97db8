--------------------------- MODULE ConnectionTable ---------------------------
(***************************************************************************)
(* What a TcpServer promises of its connections: each one is given one     *)
(* loop for good, goes through its phases once and in their order, counts  *)
(* against the limit of descriptors until it is released, and its loop     *)
(* does not go before it.  TcpServer.tla implements it with a map, queues  *)
(* and the destructors of the server and its pool.                         *)
(***************************************************************************)
EXTENDS Integers, FiniteSets

CONSTANTS Conns, Loops,
          baseLoop_,   \* the loop that is always there
          MaxOpen      \* how many connections there may be at a time

VARIABLES phase,    \* "new", "made", "up", "closing" or "gone", for each connection
          loopOf,   \* the loop of each connection
          serving   \* the loops that exist, beside the base thread's

vars == <<phase, loopOf, serving>>

Unreleased == {c \in Conns : phase[c] \in {"made", "up", "closing"}}
Advance(c, from, to) == phase[c] = from /\ phase' = [phase EXCEPT ![c] = to]

Init == /\ phase = [c \in Conns |-> "new"]
        /\ loopOf = [c \in Conns |-> baseLoop_]
        /\ serving = {}

StartLoop(l) == /\ l \notin serving /\ serving' = serving \cup {l}
                /\ UNCHANGED <<phase, loopOf>>

Accept(c, l) == /\ Cardinality(Unreleased) < MaxOpen
                /\ l \in serving \cup {baseLoop_}
                /\ Advance(c, "new", "made")
                /\ loopOf' = [loopOf EXCEPT ![c] = l]
                /\ UNCHANGED serving

Register(c) == Advance(c, "made", "up") /\ UNCHANGED <<loopOf, serving>>

Close(c) == Advance(c, "up", "closing") /\ UNCHANGED <<loopOf, serving>>

\* ~TcpServer drops a connection that the user has shut down without closing it.
Drop(c) == Advance(c, "up", "gone") /\ UNCHANGED <<loopOf, serving>>

\* A loop lets go of several connections at a time.
Release(S) == /\ phase' = [c \in Conns |-> IF c \in S THEN "gone" ELSE phase[c]]
              /\ UNCHANGED <<loopOf, serving>>

\* A loop ends when no connection uses it any more.
StopLoop(l) == /\ l \in serving /\ serving' = serving \ {l}
               /\ \A c \in Unreleased : loopOf[c] # l
               /\ UNCHANGED <<phase, loopOf>>

Next == \/ \E c \in Conns : Register(c) \/ Close(c) \/ Drop(c)
        \/ \E c \in Conns, l \in Loops \cup {baseLoop_} : Accept(c, l)
        \/ \E S \in SUBSET {c \in Conns : phase[c] = "closing"} : Release(S)
        \/ \E l \in Loops : StartLoop(l) \/ StopLoop(l)

Spec == Init /\ [][Next]_vars
=============================================================================
