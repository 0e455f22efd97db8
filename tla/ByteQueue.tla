------------------------------ MODULE ByteQueue ------------------------------
(***************************************************************************)
(* What a Buffer promises: bytes come out in the order they went in, each  *)
(* of them once, however the calls cut the stream into pieces.             *)
(***************************************************************************)
EXTENDS Sequences, Naturals

CONSTANT Bytes

VARIABLES bytes,  \* put in and not yet taken out
          call    \* the last call: which, its argument or result, its length

vars == <<bytes, call>>

Init == bytes = <<>> /\ call = [op |-> "none", data |-> <<>>, len |-> 0]

First(n) == SubSeq(bytes, 1, n)
Without(n) == IF n < Len(bytes) THEN SubSeq(bytes, n + 1, Len(bytes)) ELSE <<>>

Put == /\ call'.op = "put" /\ call'.data \in Seq(Bytes)
       /\ bytes' = bytes \o call'.data

Drop == /\ call'.op = "drop"
        /\ bytes' = Without(call'.len)

Take == /\ call'.op = "take" /\ call'.data = First(call'.len)
        /\ bytes' = Without(call'.len)

Peek == /\ call'.op = "peek" /\ call'.data = First(call'.len)
        /\ UNCHANGED bytes

Spec == Init /\ [][Put \/ Drop \/ Take \/ Peek]_vars
=============================================================================
