------------------------------ MODULE LoopLease ------------------------------
(***************************************************************************)
(* What an EventLoopThread promises the thread that owns it: startLoop()   *)
(* lends it a loop that has begun to exist on another thread, the loop     *)
(* exists for as long as it is lent, and it has ended before the           *)
(* destructor returns.  EventLoopThread.tla implements it with a           *)
(* semaphore, a condition variable, quit() and join(), for the objects     *)
(* whose callbacks leave their loop alone.                                 *)
(***************************************************************************)
CONSTANT Objects

VARIABLES lease,   \* "none", "asked", "lent", "ending" or "over", for each object
          running  \* the objects whose loop exists

vars == <<lease, running>>

Init == lease = [i \in Objects |-> "none"] /\ running = {}

\* The owner makes one call at a time.
Free == \A i \in Objects : lease[i] \notin {"asked", "ending"}
Turn(i, to) == lease' = [lease EXCEPT ![i] = to]

Ask(i) == Free /\ lease[i] = "none" /\ Turn(i, "asked") /\ UNCHANGED running

Begin(i) == /\ lease[i] = "asked" /\ i \notin running
            /\ running' = running \cup {i}
            /\ UNCHANGED lease

Lend(i) == lease[i] = "asked" /\ i \in running /\ Turn(i, "lent") /\ UNCHANGED running

TakeBack(i) == /\ Free /\ lease[i] \in {"none", "lent"}
               /\ Turn(i, "ending")
               /\ UNCHANGED running

End(i) == /\ lease[i] = "ending" /\ i \in running
          /\ running' = running \ {i}
          /\ UNCHANGED lease

Finish(i) == lease[i] = "ending" /\ i \notin running /\ Turn(i, "over") /\ UNCHANGED running

Next == \E i \in Objects : Ask(i) \/ Begin(i) \/ Lend(i) \/ TakeBack(i) \/ End(i) \/ Finish(i)

Spec == Init /\ [][Next]_vars
=============================================================================
