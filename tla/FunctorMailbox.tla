--------------------------- MODULE FunctorMailbox ---------------------------
(***************************************************************************)
(* What EventLoop's functor queue promises to the threads that use it:     *)
(* a multi-producer, single-consumer mailbox.  Producers append, the       *)
(* consumer takes a prefix away, and nothing is lost, duplicated or        *)
(* reordered on the way.  EventLoop.tla implements it with two vectors, a  *)
(* mutex and a swap.                                                       *)
(***************************************************************************)
EXTENDS Naturals, Sequences

CONSTANT Functors     \* what can be posted

VARIABLES box,        \* posted and not yet taken, oldest first
          gone        \* taken out, in the order in which they left

mailboxVars == <<box, gone>>

Init == box = <<>> /\ gone = <<>>

Post == \E f \in Functors : box' = Append(box, f) /\ gone' = gone

\* The consumer takes the n oldest functors at once.
Drain == \E n \in 0 .. Len(box) :
            /\ gone' = gone \o SubSeq(box, 1, n)
            /\ box' = SubSeq(box, n + 1, Len(box))

Next == Post \/ Drain

Spec == Init /\ [][Next]_mailboxVars
=============================================================================
