----------------------------- MODULE ByteStream -----------------------------
(***************************************************************************)
(* What a TcpConnection promises the user who sends on it: the peer gets   *)
(* the bytes in the order they were sent, each of them once, and the end   *)
(* of the stream, Eof, behind the last of them.  When the connection       *)
(* breaks, the rest is lost from some point on, never a piece in between.  *)
(***************************************************************************)
EXTENDS Sequences, Naturals

CONSTANTS Bytes, Eof

VARIABLES queue,  \* sent and not taken by the peer yet, Eof included
          taken,  \* what the peer has taken
          open,   \* nothing has ended the stream yet
          broken

vars == <<queue, taken, open, broken>>

Init == queue = <<>> /\ taken = <<>> /\ open = TRUE /\ broken = FALSE

\* What is put behind the rest; on a broken stream it goes nowhere.
Added == SubSeq(queue', Len(queue) + 1, Len(queue'))

Send == /\ open
        /\ \/ broken /\ UNCHANGED queue
           \/ ~broken /\ Added \in Seq(Bytes) /\ queue' = queue \o Added
        /\ UNCHANGED <<taken, open, broken>>

End == /\ open /\ open' = FALSE
       /\ queue' = IF broken THEN queue ELSE Append(queue, Eof)
       /\ UNCHANGED <<taken, broken>>

Take == /\ queue # <<>>
        /\ taken' = Append(taken, Head(queue))
        /\ queue' = Tail(queue)
        /\ UNCHANGED <<open, broken>>

Break == /\ broken' = TRUE
         /\ \E n \in 0 .. Len(queue) : queue' = SubSeq(queue, 1, n)
         /\ open' \in {open, FALSE}
         /\ UNCHANGED taken

Next == Send \/ End \/ Take \/ Break

Spec == Init /\ [][Next]_vars
=============================================================================
