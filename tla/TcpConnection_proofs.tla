------------------------- MODULE TcpConnection_proofs -------------------------
(***************************************************************************)
(* What a connection promises when only its own loop's callbacks use it    *)
(* (~ForeignUse), proved for any number and size of messages and any room  *)
(* in the socket's buffer.                                                 *)
(***************************************************************************)
EXTENDS TcpConnection, SequenceTheorems, TLAPS

\* The steps of either thread, one action each.
LEMMA Steps ==
  ASSUME BaseInv, ~ForeignUse, Next
  PROVE  \/ \E t \in Threads : Establish(t) \/ Return(t)
         \/ Send(LoopThread) \/ TestOutput(LoopThread) \/ WriteOutput(LoopThread)
         \/ AppendOutput(LoopThread) \/ Watch(LoopThread)
         \/ Shutdown(LoopThread) \/ SetDisconnecting(LoopThread) \/ HalfClose(LoopThread)
         \/ LoopStep \/ LeaveLoop
         \/ PeerTakes \/ PeerSends \/ PeerFinishes \/ PeerResets
<1>1. ASSUME NEW t \in Threads, t # LoopThread
      PROVE  /\ ~Send(t) /\ ~Shutdown(t) /\ ~TestOutput(t) /\ ~WriteOutput(t)
             /\ ~AppendOutput(t) /\ ~Watch(t) /\ ~SetDisconnecting(t) /\ ~HalfClose(t)
  BY <1>1 DEF Threads, BaseInv, Send, Shutdown, CanUse, TestOutput, WriteOutput,
              AppendOutput, Watch, SetDisconnecting, HalfClose, At
<1> QED BY <1>1 DEF Next, ThreadStep, UserStep

\* What is left of a sequence when its first n members are taken off, and before.
LEMMA Slices ==
  ASSUME NEW S, NEW s \in Seq(S), NEW n \in 0 .. Len(s)
  PROVE  /\ SubSeq(s, 1, n) \in Seq(S) /\ SubSeq(s, n + 1, Len(s)) \in Seq(S)
         /\ SubSeq(s, 1, n) \o SubSeq(s, n + 1, Len(s)) = s
         /\ n = Len(s) <=> SubSeq(s, n + 1, Len(s)) = <<>>
<1>0. Len(s) \in Nat /\ n \in Nat /\ \A i \in 1 .. Len(s) : s[i] \in S
  BY LenProperties, ElementOfSeq
<1>1. SubSeq(s, 1, n) \in Seq(S)
  <2>1. \A i \in 1 .. n : s[i] \in S
    BY <1>0
  <2> QED BY <1>0, <2>1, SubSeqProperties
<1>2. /\ SubSeq(s, n + 1, Len(s)) \in Seq(S)
      /\ Len(SubSeq(s, n + 1, Len(s))) = IF n + 1 <= Len(s) THEN Len(s) - n ELSE 0
  <2>1. \A i \in n + 1 .. Len(s) : s[i] \in S
    BY <1>0
  <2>2. n + 1 \in Int /\ Len(s) \in Int /\ Len(s) - (n + 1) + 1 = Len(s) - n
    BY <1>0
  <2> QED BY <2>1, <2>2, SubSeqProperties
<1>3. SubSeq(s, 1, n) \o SubSeq(s, n + 1, Len(s)) = SubSeq(s, 1, Len(s))
  <2>1. 1 \in 1 .. Len(s) + 1 /\ n \in 1 - 1 .. Len(s) /\ Len(s) \in n .. Len(s)
    BY <1>0
  <2> QED BY <2>1, ConcatAdjacentSubSeq
<1>4. n = Len(s) <=> SubSeq(s, n + 1, Len(s)) = <<>>
  <2>1. CASE n = Len(s)
    BY <1>0, <2>1, SubSeqEmpty
  <2>2. CASE n # Len(s)
    <3>1. Len(SubSeq(s, n + 1, Len(s))) # 0
      BY <1>0, <1>2, <2>2
    <3> QED BY <2>2, <3>1, EmptySeq
  <2> QED BY <2>1, <2>2
<1> QED BY <1>1, <1>2, <1>3, <1>4, SubSeqFull

\* A sequence of one member, if there is one.
LEMMA OneOrNone ==
  ASSUME NEW C, NEW c \in C, NEW P \in BOOLEAN
  PROVE  LET s == IF P THEN <<c>> ELSE <<>>
         IN  s \in Seq(C) /\ Len(s) \in 0 .. 1 /\ (Len(s) = 1 <=> P) /\ (P => s[1] = c)
<1>1. CASE P
  BY <1>1
<1>2. CASE ~P
  BY <1>2
<1> QED BY <1>1, <1>2

\* Each poll calls for one callback at most that can end the connection.
LEMMA OneEnding ==
  ASSUME NEW R
  PROVE  LET q == HandleEventWithGuard(R)
         IN  /\ q \in Seq({"close", "error", "read", "write"})
             /\ \A i, j \in 1 .. Len(q) :
                  q[i] \in {"close", "read"} /\ q[j] \in {"close", "read"} => i = j
<1> DEFINE C == {"close", "error", "read", "write"}
           hup == IF "hup" \in R /\ "in" \notin R THEN <<"close">> ELSE <<>>
           err == IF "err" \in R THEN <<"error">> ELSE <<>>
           in == IF "in" \in R THEN <<"read">> ELSE <<>>
           out == IF "out" \in R THEN <<"write">> ELSE <<>>
<1>1. /\ hup \in Seq(C) /\ err \in Seq(C) /\ in \in Seq(C) /\ out \in Seq(C)
      /\ Len(hup) \in 0 .. 1 /\ Len(in) \in 0 .. 1 /\ Len(err) \in 0 .. 1
      /\ Len(out) \in 0 .. 1
      /\ Len(hup) = 0 \/ Len(in) = 0
      /\ Len(err) = 1 => err[1] = "error"
      /\ Len(out) = 1 => out[1] = "write"
  <2>1. /\ "close" \in C /\ "error" \in C /\ "read" \in C /\ "write" \in C
    OBVIOUS
  <2> HIDE DEF C
  <2>2. /\ hup \in Seq(C) /\ Len(hup) \in 0 .. 1
        /\ Len(hup) = 1 <=> "hup" \in R /\ "in" \notin R
    BY <2>1, OneOrNone
  <2>3. err \in Seq(C) /\ Len(err) \in 0 .. 1 /\ (Len(err) = 1 => err[1] = "error")
    BY <2>1, OneOrNone
  <2>4. in \in Seq(C) /\ Len(in) \in 0 .. 1 /\ (Len(in) = 1 <=> "in" \in R)
    BY <2>1, OneOrNone
  <2>5. out \in Seq(C) /\ Len(out) \in 0 .. 1 /\ (Len(out) = 1 => out[1] = "write")
    BY <2>1, OneOrNone
  <2> QED BY <2>2, <2>3, <2>4, <2>5
<1> HIDE DEF C, hup, err, in, out
<1> DEFINE q == hup \o err \o in \o out
<1>2. /\ q \in Seq(C)
      /\ Len(q) = Len(hup) + Len(err) + Len(in) + Len(out)
      /\ \A i \in 1 .. Len(q) :
           q[i] = IF i <= Len(hup) THEN hup[i]
                  ELSE IF i <= Len(hup) + Len(err) THEN err[i - Len(hup)]
                  ELSE IF i <= Len(hup) + Len(err) + Len(in)
                       THEN in[i - Len(hup) - Len(err)]
                       ELSE out[i - Len(hup) - Len(err) - Len(in)]
  BY <1>1
<1>3. \A i \in 1 .. Len(q) : q[i] \in {"close", "read"} =>
         \/ i = 1 /\ Len(hup) = 1
         \/ i = Len(hup) + Len(err) + 1 /\ Len(in) = 1
  BY <1>1, <1>2
<1>4. q = HandleEventWithGuard(R)
  BY DEF HandleEventWithGuard, hup, err, in, out
<1> HIDE DEF q
<1>5. \A i, j \in 1 .. Len(q) :
         q[i] \in {"close", "read"} /\ q[j] \in {"close", "read"} => i = j
  BY <1>1, <1>3
<1> QED BY <1>2, <1>4, <1>5 DEF C

-----------------------------------------------------------------------------
(* The parts of the invariant, one after the other *)

\* What write(2) took leaves a rest of the same kind, and a wire.
LEMMA WrittenTypes ==
  ASSUME TypeOK, NEW bytes \in Seq(Bytes), NEW n \in 0 .. Len(bytes), Written(n, bytes)
  PROVE  /\ SubSeq(bytes, n + 1, Len(bytes)) \in Seq(Bytes)
         /\ wire' \in Seq(Bytes \cup {Eof})
         /\ UNCHANGED <<fin, taken, peer, soError, unread, killed>>
<1>1. SubSeq(bytes, 1, n) \in Seq(Bytes) /\ SubSeq(bytes, n + 1, Len(bytes)) \in Seq(Bytes)
  BY Slices
<1>2. SubSeq(bytes, 1, n) \in Seq(Bytes \cup {Eof})
  BY <1>1, SeqMonotonic
<1>3. wire \o SubSeq(bytes, 1, n) \in Seq(Bytes \cup {Eof})
  BY <1>2, ConcatProperties DEF TypeOK
<1> QED BY <1>1, <1>3 DEF Written

\* Every step keeps the variables in their types.
LEMMA TypeStep ==
  ASSUME IndInv, ~ForeignUse, [Next]_vars
  PROVE  TypeOK'
<1> USE DEF Threads, GoTo, Call, At
<1>0. TypeOK /\ \A t \in Threads, p \in Points : [at EXCEPT ![t] = p] \in [Threads -> Points]
  BY DEF IndInv, TypeOK
<1>1. ASSUME NEW t \in Threads, Establish(t) \/ Return(t)
      PROVE  TypeOK'
  BY <1>0, <1>1 DEF Establish, SetConnected, EnableReading, Announce, Return, IndInv,
     TypeOK, BeginInv, States, Points, Callers, connVars, sockVars, userVars
<1>2. CASE Send(LoopThread)
  <2>1. PICK n \in 1 .. MaxMessage :
           /\ sent + n <= MaxSent /\ sent' = sent + n
           /\ data' = [data EXCEPT ![LoopThread] = [j \in 1 .. n |-> sent + j]]
    BY <1>2 DEF Send
  <2>2. [j \in 1 .. n |-> sent + j] \in Seq(Bytes)
    BY <1>0, <2>1, BoundsAreNat DEF TypeOK, Bytes
  <2>3. data' \in [Threads -> Seq(Bytes)] /\ sent' \in 0 .. MaxSent
    BY <1>0, <2>1, <2>2, BoundsAreNat DEF TypeOK
  <2>4. at' \in [Threads -> Points]
    BY <1>0, <1>2 DEF Send, Points
  <2> QED BY <1>0, <1>2, <2>3, <2>4 DEF Send, TypeOK, connVars, sockVars
<1>3. CASE TestOutput(LoopThread)
  <2>1. at' \in [Threads -> Points]
    BY <1>0, <1>3 DEF TestOutput, GiveUp, Points
  <2>2. data' \in [Threads -> Seq(Bytes)]
    <3>1. <<>> \in Seq(Bytes)
      BY EmptySeq
    <3> QED BY <1>0, <1>3, <3>1 DEF TestOutput, GiveUp, TypeOK
  <2> QED BY <1>0, <1>3, <2>1, <2>2 DEF TestOutput, TypeOK, connVars, sockVars
<1>4. CASE WriteOutput(LoopThread)
  <2>1. ASSUME NEW n \in 0 .. Len(data[LoopThread]), Written(n, data[LoopThread]),
               Rest(LoopThread, SubSeq(data[LoopThread], n + 1, Len(data[LoopThread])))
        PROVE  TypeOK'
    <3>1. data[LoopThread] \in Seq(Bytes)
      BY <1>0 DEF TypeOK
    <3>2. /\ SubSeq(data[LoopThread], n + 1, Len(data[LoopThread])) \in Seq(Bytes)
          /\ wire' \in Seq(Bytes \cup {Eof})
          /\ UNCHANGED <<fin, taken, peer, soError, unread, killed>>
      BY <1>0, <2>1, <3>1, WrittenTypes
    <3> DEFINE rest == SubSeq(data[LoopThread], n + 1, Len(data[LoopThread]))
    <3> HIDE DEF rest
    <3>3. /\ rest \in Seq(Bytes) /\ <<>> \in Seq(Bytes)
          /\ Rest(LoopThread, rest)
      BY <2>1, <3>2, EmptySeq DEF rest
    <3>4. data' \in [Threads -> Seq(Bytes)] /\ at' \in [Threads -> Points]
      BY <1>0, <3>3 DEF Rest, GiveUp, TypeOK, Points
    <3> QED BY <1>0, <1>4, <3>2, <3>4 DEF WriteOutput, TypeOK, connVars
  <2>2. CASE WriteFails /\ GiveUp(LoopThread)
    BY <1>0, <1>4, <2>2 DEF WriteOutput, WriteFails, GiveUp, TypeOK, Points, connVars
  <2>3. CASE WriteKills /\ UNCHANGED <<at, data>>
    BY <1>0, <1>4, <2>3 DEF WriteOutput, WriteKills, TypeOK, connVars, sockVars
  <2> QED BY <1>4, <2>1, <2>2, <2>3 DEF WriteOutput
<1>5. CASE AppendOutput(LoopThread)
  <2>1. outputBuffer_ \o data[LoopThread] \in Seq(Bytes)
    BY <1>0, ConcatProperties DEF TypeOK
  <2> QED BY <1>0, <1>5, <2>1 DEF AppendOutput, TypeOK, Points, connVars, sockVars
<1>6. CASE Watch(LoopThread)
  BY <1>0, <1>6 DEF Watch, IndInv, TypeOK, BaseInv, BeginInv, UseInv, WatchInv, Points,
     connVars, sockVars, userVars
<1>7. CASE Shutdown(LoopThread) \/ SetDisconnecting(LoopThread)
  <2>1. CASE Shutdown(LoopThread)
    BY <1>0, <2>1 DEF Shutdown, TypeOK, Points, connVars, sockVars, userVars
  <2>2. CASE SetDisconnecting(LoopThread)
    BY <1>0, <2>2 DEF SetDisconnecting, TypeOK, States, Points, sockVars, userVars
  <2> QED BY <1>7, <2>1, <2>2
<1>8. ASSUME ShutdownInLoop
      PROVE  wire' \in Seq(Bytes \cup {Eof}) /\ fin' \in BOOLEAN
  <2>1. Append(wire, Eof) \in Seq(Bytes \cup {Eof})
    BY <1>0, AppendProperties DEF TypeOK
  <2> QED BY <1>0, <1>8, <2>1 DEF ShutdownInLoop, TypeOK
<1>9. CASE HalfClose(LoopThread)
  BY <1>0, <1>8, <1>9 DEF HalfClose, ShutdownInLoop, TypeOK, Points, connVars, userVars
<1>10. CASE FinishShutdown
  BY <1>0, <1>8, <1>10 DEF FinishShutdown, ShutdownInLoop, TypeOK, Points, connVars,
     sockVars, userVars
<1>11. CASE PollReturn
  BY <1>0, <1>11, OneEnding DEF PollReturn, TypeOK, Points, connVars, sockVars, userVars
<1>12. ASSUME NEW callback, Handles(callback)
       PROVE  todo' \in Seq({"close", "error", "read", "write"})
  BY <1>0, <1>12, HeadTailProperties DEF Handles, TypeOK
<1>13. CASE HandleReturn \/ HandleError \/ HandleRead \/ SkipWrite
  <2>1. CASE HandleReturn
    BY <1>0, <2>1 DEF HandleReturn, TypeOK, Points, connVars, sockVars, userVars
  <2>2. CASE HandleError
    BY <1>0, <1>12, <2>2 DEF HandleError, TypeOK, connVars, userVars
  <2>3. CASE HandleRead
    <3>1. at' \in [Threads -> Points] /\ inside' \in [Threads -> Callers \cup {"none"}]
      BY <1>0, <2>3 DEF HandleRead, TypeOK, Points, Callers
    <3>2. told' \subseteq {"up", "down"} /\ unread' \in BOOLEAN
      BY <1>0, <2>3 DEF HandleRead, TypeOK
    <3>3. todo' \in Seq({"close", "error", "read", "write"})
      BY <1>12, <2>3 DEF HandleRead
    <3> QED BY <1>0, <2>3, <3>1, <3>2, <3>3 DEF HandleRead, TypeOK, connVars
  <2>4. CASE SkipWrite
    BY <1>0, <1>12, <2>4 DEF SkipWrite, TypeOK, connVars, sockVars, userVars
  <2> QED BY <1>13, <2>1, <2>2, <2>3, <2>4
<1>14. CASE HandleWrite
  <2>1. ASSUME NEW n \in 0 .. Len(outputBuffer_), Written(n, outputBuffer_),
               outputBuffer_' = SubSeq(outputBuffer_, n + 1, Len(outputBuffer_)),
               GoTo(LoopThread, "unwatch") \/ UNCHANGED at
        PROVE  TypeOK'
    <3>1. /\ outputBuffer_' \in Seq(Bytes) /\ wire' \in Seq(Bytes \cup {Eof})
          /\ UNCHANGED <<fin, taken, peer, soError, unread, killed>>
      BY <1>0, <2>1, WrittenTypes DEF TypeOK
    <3>2. at' \in [Threads -> Points]
      BY <1>0, <2>1 DEF TypeOK, Points
    <3> QED BY <1>0, <1>12, <1>14, <3>1, <3>2 DEF HandleWrite, TypeOK, userVars
  <2>2. CASE WriteFails /\ UNCHANGED <<outputBuffer_, at>>
    BY <1>0, <1>12, <1>14, <2>2 DEF HandleWrite, WriteFails, TypeOK, userVars
  <2>3. CASE WriteKills /\ UNCHANGED <<outputBuffer_, at>>
    BY <1>0, <1>12, <1>14, <2>3 DEF HandleWrite, WriteKills, TypeOK, userVars, sockVars
  <2> QED BY <1>14, <2>1, <2>2, <2>3 DEF HandleWrite
<1>15. CASE DisableWriting \/ SetDisconnected \/ DisableAll \/ ConnectDestroyed \/ LeaveLoop
  <2>1. CASE DisableWriting
    BY <1>0, <2>1 DEF DisableWriting, TypeOK, Points, sockVars, userVars
  <2>2. CASE SetDisconnected
    BY <1>0, <2>2 DEF SetDisconnected, TypeOK, States, Points, sockVars, userVars
  <2>3. CASE DisableAll
    BY <1>0, <2>3 DEF DisableAll, TypeOK, Points, Callers, sockVars
  <2>4. CASE ConnectDestroyed
    <3>1. at' \in [Threads -> Points] /\ inside' \in [Threads -> Callers \cup {"none"}]
      BY <1>0, <2>4 DEF ConnectDestroyed, TypeOK, Points, Callers
    <3>2. told' \subseteq {"up", "down"} /\ state_' \in States
      BY <1>0, <2>4 DEF ConnectDestroyed, TypeOK, States
    <3> QED BY <1>0, <2>4, <3>1, <3>2 DEF ConnectDestroyed, TypeOK, sockVars
  <2>5. CASE LeaveLoop
    BY <1>0, <2>5 DEF LeaveLoop, TypeOK, Points, connVars, sockVars, userVars
  <2> QED BY <1>15, <2>1, <2>2, <2>3, <2>4, <2>5
<1>16. CASE PeerTakes
  <2>1. Append(taken, Head(wire)) \in Seq(Bytes \cup {Eof})
        /\ Tail(wire) \in Seq(Bytes \cup {Eof})
    BY <1>0, <1>16, HeadTailProperties, AppendProperties DEF PeerTakes, TypeOK
  <2> QED BY <1>0, <1>16, <2>1 DEF PeerTakes, TypeOK, connVars, userVars
<1>17. CASE PeerSends \/ PeerFinishes \/ PeerResets
  <2>1. CASE PeerSends
    BY <1>0, <2>1 DEF PeerSends, TypeOK, connVars, userVars
  <2>2. CASE PeerFinishes
    BY <1>0, <2>2 DEF PeerFinishes, TypeOK, connVars, userVars
  <2>3. CASE PeerResets
    BY <1>0, <2>3, EmptySeq DEF PeerResets, TypeOK, connVars, userVars
  <2> QED BY <1>17, <2>1, <2>2, <2>3
<1>18. CASE UNCHANGED vars
  BY <1>0, <1>18 DEF TypeOK, vars, connVars, userVars, sockVars
<1> QED
  BY <1>1, <1>2, <1>3, <1>4, <1>5, <1>6, <1>7, <1>9, <1>10, <1>11, <1>13, <1>14, <1>15,
     <1>16, <1>17, <1>18, Steps DEF IndInv, LoopStep

\* The base thread establishes a pooled connection and stops.
LEMMA BaseStep ==
  ASSUME IndInv, ~ForeignUse, [Next]_vars, TypeOK'
  PROVE  BaseInv'
<1> USE TwoThreads DEF Threads, GoTo, Call, At, BaseInv, BeginInv
<1>0. /\ BaseInv /\ BeginInv
      /\ at \in [Threads -> Points] /\ inside \in [Threads -> Callers \cup {"none"}]
  BY DEF IndInv, TypeOK
<1>1. ASSUME NEW t \in Threads, Establish(t) \/ Return(t)
      PROVE  BaseInv'
  BY <1>0, <1>1 DEF Establish, SetConnected, EnableReading, Announce, Return, connVars, userVars
<1>2. CASE Send(LoopThread) \/ Shutdown(LoopThread)
  BY <1>0, <1>2 DEF Send, Shutdown, CanUse, connVars, userVars
<1>3. CASE TestOutput(LoopThread) \/ WriteOutput(LoopThread)
  BY <1>0, <1>3 DEF TestOutput, WriteOutput, GiveUp, Rest, connVars
<1>4. CASE AppendOutput(LoopThread) \/ Watch(LoopThread)
  BY <1>0, <1>4 DEF AppendOutput, Watch, connVars, userVars
<1>5. CASE SetDisconnecting(LoopThread) \/ HalfClose(LoopThread)
  BY <1>0, <1>5 DEF SetDisconnecting, HalfClose, connVars, userVars
<1>6. CASE PollReturn \/ HandleReturn \/ HandleError
  BY <1>0, <1>6 DEF PollReturn, HandleReturn, HandleError, Handles, connVars, userVars
<1>7. CASE HandleRead
  BY <1>0, <1>7 DEF HandleRead, Handles, connVars
<1>8. CASE SkipWrite \/ HandleWrite
  BY <1>0, <1>8 DEF SkipWrite, HandleWrite, Handles, connVars, userVars
<1>9. CASE DisableWriting \/ FinishShutdown \/ SetDisconnected \/ DisableAll
  BY <1>0, <1>9 DEF DisableWriting, FinishShutdown, SetDisconnected, DisableAll, connVars,
     userVars
<1>10. CASE ConnectDestroyed \/ LeaveLoop
  BY <1>0, <1>10 DEF ConnectDestroyed, LeaveLoop, connVars, userVars
<1>11. CASE PeerTakes \/ PeerSends \/ PeerFinishes \/ PeerResets \/ UNCHANGED vars
  BY <1>0, <1>11 DEF PeerTakes, PeerSends, PeerFinishes, PeerResets, vars, connVars, userVars
<1> QED
  BY <1>0, <1>1, <1>2, <1>3, <1>4, <1>5, <1>6, <1>7, <1>8, <1>9, <1>10, <1>11, Steps
  DEF LoopStep

\* Nothing happens to a connection that is being established.
LEMMA BeginStep ==
  ASSUME IndInv, ~ForeignUse, [Next]_vars, TypeOK'
  PROVE  BeginInv'
<1> USE TwoThreads DEF Threads, GoTo, Call, At, BaseInv, BeginInv
<1>0. /\ BaseInv /\ BeginInv
      /\ at \in [Threads -> Points] /\ inside \in [Threads -> Callers \cup {"none"}]
  BY DEF IndInv, TypeOK
<1>1. ASSUME NEW t \in Threads, Establish(t) \/ Return(t)
      PROVE  BeginInv'
  BY <1>0, <1>1 DEF Establish, SetConnected, EnableReading, Announce, Return, connVars, userVars
<1>2. CASE Send(LoopThread) \/ Shutdown(LoopThread)
  BY <1>0, <1>2 DEF Send, Shutdown, CanUse, connVars, userVars
<1>3. CASE TestOutput(LoopThread) \/ WriteOutput(LoopThread)
  BY <1>0, <1>3 DEF TestOutput, WriteOutput, GiveUp, Rest, connVars
<1>4. CASE AppendOutput(LoopThread) \/ Watch(LoopThread)
  BY <1>0, <1>4 DEF AppendOutput, Watch, connVars, userVars
<1>5. CASE SetDisconnecting(LoopThread) \/ HalfClose(LoopThread)
  BY <1>0, <1>5 DEF SetDisconnecting, HalfClose, connVars, userVars
<1>6. CASE PollReturn \/ HandleReturn \/ HandleError
  BY <1>0, <1>6 DEF PollReturn, HandleReturn, HandleError, Handles, connVars, userVars
<1>7. CASE HandleRead
  BY <1>0, <1>7 DEF HandleRead, Handles, connVars
<1>8. CASE SkipWrite \/ HandleWrite
  BY <1>0, <1>8 DEF SkipWrite, HandleWrite, Handles, connVars, userVars
<1>9. CASE DisableWriting \/ FinishShutdown \/ SetDisconnected \/ DisableAll
  BY <1>0, <1>9 DEF DisableWriting, FinishShutdown, SetDisconnected, DisableAll, connVars,
     userVars
<1>10. CASE ConnectDestroyed \/ LeaveLoop
  BY <1>0, <1>10 DEF ConnectDestroyed, LeaveLoop, connVars, userVars
<1>11. CASE PeerTakes \/ PeerSends \/ PeerFinishes \/ PeerResets \/ UNCHANGED vars
  BY <1>0, <1>11 DEF PeerTakes, PeerSends, PeerFinishes, PeerResets, vars, connVars, userVars
<1> QED
  BY <1>0, <1>1, <1>2, <1>3, <1>4, <1>5, <1>6, <1>7, <1>8, <1>9, <1>10, <1>11, Steps
  DEF LoopStep

\* The user's calls go on in the state they found.
LEMMA UseStep ==
  ASSUME IndInv, ~ForeignUse, [Next]_vars, TypeOK'
  PROVE  UseInv'
<1> USE TwoThreads DEF Threads, GoTo, At, UseInv
<1>0. /\ BaseInv /\ UseInv /\ at[LoopThread] \in Points
      /\ at \in [Threads -> Points] /\ data \in [Threads -> Seq(Bytes)]
      /\ inside \in [Threads -> Callers \cup {"none"}]
  BY DEF IndInv, TypeOK
<1>1. ASSUME NEW t \in Threads, Establish(t) \/ Return(t)
      PROVE  UseInv'
  <2>1. at[LoopThread] = at'[LoopThread] => state_' = state_ \/ at[LoopThread] = "poll"
    BY <1>0, <1>1 DEF Establish, SetConnected, EnableReading, Announce, Call, Return,
       connVars, BaseInv
  <2>2. at[LoopThread] # at'[LoopThread] =>
          /\ at[LoopThread] \in {"established", "tied", "announce", "user"}
          /\ at'[LoopThread] \in {"tied", "announce", "user", "done", "poll", "dispatch"}
    BY <1>0, <1>1 DEF Establish, SetConnected, EnableReading, Announce, Call, Return
  <2>3. UNCHANGED data
    BY <1>1 DEF Establish, SetConnected, EnableReading, Announce, Return, userVars
  <2>4. \/ t # LoopThread /\ inside'[LoopThread] = inside[LoopThread]
                         /\ at'[LoopThread] = at[LoopThread]
        \/ inside'[LoopThread] = "none"
        \/ at'[LoopThread] \in {"tied", "announce", "user"}
    BY <1>0, <1>1 DEF Establish, SetConnected, EnableReading, Announce, Call, Return, userVars
  <2> QED BY <1>0, <2>1, <2>2, <2>3, <2>4
<1>2. CASE Send(LoopThread)
  <2>1. PICK n \in 1 .. MaxMessage : data' = [data EXCEPT ![LoopThread] =
                                               [j \in 1 .. n |-> sent + j]]
    BY <1>2 DEF Send
  <2>2. [j \in 1 .. n |-> sent + j] # <<>>
    BY <2>1, BoundsAreNat
  <2> QED BY <1>0, <1>2, <2>1, <2>2 DEF Send, CanUse, connVars
<1>3. CASE TestOutput(LoopThread)
  BY <1>0, <1>3 DEF TestOutput, GiveUp, connVars
<1>4. CASE WriteOutput(LoopThread)
  <2>1. UNCHANGED state_ /\ state_ = "kConnected" /\ data[LoopThread] # <<>>
        /\ UNCHANGED inside
    BY <1>0, <1>4 DEF WriteOutput, connVars
  <2>2. ASSUME NEW bytes, Rest(LoopThread, bytes)
        PROVE  UseInv'
    BY <1>0, <2>1, <2>2 DEF Rest, GiveUp
  <2>3. CASE GiveUp(LoopThread) \/ UNCHANGED <<at, data>>
    BY <1>0, <2>1, <2>3 DEF GiveUp
  <2> QED BY <1>4, <2>2, <2>3 DEF WriteOutput
<1>5. CASE AppendOutput(LoopThread) \/ Watch(LoopThread)
  BY <1>0, <1>5 DEF AppendOutput, Watch, userVars
<1>6. CASE Shutdown(LoopThread) \/ SetDisconnecting(LoopThread) \/ HalfClose(LoopThread)
  BY <1>0, <1>6 DEF Shutdown, CanUse, SetDisconnecting, HalfClose, connVars, userVars
<1>7. CASE LoopStep \/ LeaveLoop
  <2>1. /\ at[LoopThread] \in {"poll", "dispatch", "unwatch", "drained", "close",
                               "disable", "left"}
        /\ at'[LoopThread] \in {"poll", "dispatch", "unwatch", "drained", "close",
                                "disable", "left", "user", "done"}
        /\ UNCHANGED data
    BY <1>0, <1>7 DEF LoopStep, LeaveLoop, PollReturn, HandleReturn, HandleError, HandleRead,
       SkipWrite, HandleWrite, Handles, DisableWriting, FinishShutdown, SetDisconnected,
       DisableAll, ConnectDestroyed, Call, userVars
  <2>2. \/ at[LoopThread] \in {"poll", "dispatch", "unwatch", "drained"} /\ UNCHANGED inside
        \/ at'[LoopThread] \in {"disable", "user", "done"}
    BY <1>0, <1>7 DEF LoopStep, LeaveLoop, PollReturn, HandleReturn, HandleError, HandleRead,
       SkipWrite, HandleWrite, Handles, DisableWriting, FinishShutdown, SetDisconnected,
       DisableAll, ConnectDestroyed, Call, userVars
  <2> QED BY <1>0, <2>1, <2>2
<1>8. CASE PeerTakes \/ PeerSends \/ PeerFinishes \/ PeerResets \/ UNCHANGED vars
  BY <1>0, <1>8 DEF PeerTakes, PeerSends, PeerFinishes, PeerResets, vars, connVars, userVars
<1> QED
  BY <1>0, <1>1, <1>2, <1>3, <1>4, <1>5, <1>6, <1>7, <1>8, Steps

\* What waits is watched, and nothing else is.
LEMMA WatchStep ==
  ASSUME IndInv, ~ForeignUse, [Next]_vars, TypeOK'
  PROVE  PendingIsWatched' /\ WatchInv'
<1> USE TwoThreads DEF Threads, GoTo, At, PendingIsWatched, WatchInv
<1>0. /\ BaseInv /\ BeginInv /\ UseInv /\ EndInv /\ PendingIsWatched /\ WatchInv
      /\ at \in [Threads -> Points] /\ outputBuffer_ \in Seq(Bytes)
      /\ events_ \in {{}, {"in"}, {"in", "out"}} /\ data \in [Threads -> Seq(Bytes)]
  BY DEF IndInv, TypeOK
<1>1. ASSUME NEW t \in Threads, Establish(t)
      PROVE  PendingIsWatched' /\ WatchInv'
  <2>1. CASE SetConnected(t)
    BY <1>0, <2>1 DEF SetConnected, userVars
  <2>2. CASE EnableReading(t)
    BY <1>0, <2>2 DEF EnableReading, BeginInv, userVars
  <2>3. CASE Announce(t)
    BY <1>0, <2>3 DEF Announce, Call, connVars
  <2> QED BY <1>1, <2>1, <2>2, <2>3 DEF Establish
<1>2. ASSUME NEW t \in Threads, Return(t)
      PROVE  PendingIsWatched' /\ WatchInv'
  BY <1>0, <1>2 DEF Return, connVars, BaseInv
<1>3. CASE Send(LoopThread) \/ Shutdown(LoopThread) \/ SetDisconnecting(LoopThread)
  BY <1>0, <1>3 DEF Send, Shutdown, CanUse, SetDisconnecting, connVars, userVars, UseInv
<1>4. CASE TestOutput(LoopThread)
  BY <1>0, <1>4 DEF TestOutput, GiveUp, connVars
<1>5. CASE WriteOutput(LoopThread)
  <2>1. UNCHANGED <<events_, outputBuffer_, told, state_>>
    BY <1>5 DEF WriteOutput, connVars
  <2>2. at'[LoopThread] \in {"user", "append", "write"} /\ at[LoopThread] = "write"
        /\ at'[BaseThread] = at[BaseThread]
    BY <1>0, <1>5 DEF WriteOutput, Rest, GiveUp
  <2> QED BY <1>0, <2>1, <2>2
<1>6. CASE AppendOutput(LoopThread)
  <2>1. data[LoopThread] # <<>>
    BY <1>0, <1>6 DEF AppendOutput, UseInv
  <2>2. outputBuffer_' # <<>>
    BY <1>0, <1>6, <2>1, ConcatEqualIffEmpty DEF AppendOutput
  <2> QED BY <1>0, <1>6, <2>2 DEF AppendOutput
<1>7. CASE Watch(LoopThread)
  BY <1>0, <1>7 DEF Watch, userVars
<1>8. CASE HalfClose(LoopThread)
  BY <1>0, <1>8 DEF HalfClose, connVars, userVars
<1>9. CASE PollReturn \/ HandleReturn \/ HandleError \/ SkipWrite
  BY <1>0, <1>9 DEF PollReturn, HandleReturn, HandleError, SkipWrite, Handles, connVars,
     userVars
<1>10. CASE HandleRead
  BY <1>0, <1>10 DEF HandleRead, Handles, Call, connVars
<1>11. CASE HandleWrite
  <2>1. ASSUME NEW n \in 0 .. Len(outputBuffer_),
               n = 0 => outputBuffer_ = <<>> \/ Len(wire) = SendSpace,
               outputBuffer_' = SubSeq(outputBuffer_, n + 1, Len(outputBuffer_)),
               IF n > 0 /\ n = Len(outputBuffer_) THEN GoTo(LoopThread, "unwatch")
                                                  ELSE UNCHANGED at
        PROVE  PendingIsWatched' /\ WatchInv'
    <3>1. n = Len(outputBuffer_) <=> outputBuffer_' = <<>>
      <4>1. n = Len(outputBuffer_) <=> SubSeq(outputBuffer_, n + 1, Len(outputBuffer_)) = <<>>
        BY <1>0, Slices
      <4> QED BY <2>1, <4>1
    <3>2. outputBuffer_ # <<>> /\ at[LoopThread] = "dispatch" /\ Len(outputBuffer_) > 0
      BY <1>0, <1>11, EmptySeq DEF HandleWrite, Handles
    <3>3. UNCHANGED <<events_, state_, told>> /\ "out" \in events_
      BY <1>11 DEF HandleWrite, userVars
    <3>4. IF outputBuffer_' = <<>> THEN GoTo(LoopThread, "unwatch") ELSE UNCHANGED at
      BY <2>1, <3>1, <3>2
    <3> QED BY <1>0, <3>2, <3>3, <3>4
  <2>2. CASE UNCHANGED <<outputBuffer_, at>>
    BY <1>0, <1>11, <2>2 DEF HandleWrite, userVars
  <2> QED BY <1>11, <2>1, <2>2 DEF HandleWrite
<1>12. CASE DisableWriting \/ FinishShutdown
  BY <1>0, <1>12 DEF DisableWriting, FinishShutdown, connVars, userVars
<1>13. CASE SetDisconnected \/ DisableAll
  BY <1>0, <1>13 DEF SetDisconnected, DisableAll, Call, userVars, EndInv, BaseInv
<1>14. CASE ConnectDestroyed \/ LeaveLoop
  BY <1>0, <1>14 DEF ConnectDestroyed, LeaveLoop, Call, connVars, userVars
<1>15. CASE PeerTakes \/ PeerSends \/ PeerFinishes \/ PeerResets \/ UNCHANGED vars
  BY <1>0, <1>15 DEF PeerTakes, PeerSends, PeerFinishes, PeerResets, vars, connVars,
     userVars
<1> QED
  BY <1>0, <1>1, <1>2, <1>3, <1>4, <1>5, <1>6, <1>7, <1>8, <1>9, <1>10, <1>11, <1>12,
     <1>13, <1>14, <1>15, Steps DEF LoopStep

\* A connection ends once, and the user is told.
LEMMA EndStep ==
  ASSUME IndInv, ~ForeignUse, [Next]_vars, TypeOK'
  PROVE  EndInv'
<1> USE TwoThreads DEF Threads, GoTo, At, EndInv
<1>0. /\ BaseInv /\ BeginInv /\ UseInv /\ EndInv /\ TodoInv
      /\ at \in [Threads -> Points] /\ told \subseteq {"up", "down"}
      /\ todo \in Seq({"close", "error", "read", "write"}) /\ state_ \in States
  BY DEF IndInv, TypeOK
<1>1. ASSUME NEW t \in Threads, Establish(t)
      PROVE  EndInv'
  BY <1>0, <1>1 DEF Establish, SetConnected, EnableReading, Announce, Call, connVars,
     userVars, BaseInv, BeginInv
<1>2. ASSUME NEW t \in Threads, Return(t)
      PROVE  EndInv'
  BY <1>0, <1>2 DEF Return, connVars, BaseInv
<1>3. CASE Send(LoopThread) \/ Shutdown(LoopThread) \/ SetDisconnecting(LoopThread)
  BY <1>0, <1>3 DEF Send, Shutdown, CanUse, SetDisconnecting, connVars, userVars, UseInv
<1>4. CASE TestOutput(LoopThread) \/ AppendOutput(LoopThread) \/ HalfClose(LoopThread)
  BY <1>0, <1>4 DEF TestOutput, GiveUp, AppendOutput, HalfClose, connVars, userVars
<1>5. CASE WriteOutput(LoopThread)
  <2>1. UNCHANGED <<events_, told, state_>>
    BY <1>5 DEF WriteOutput, connVars
  <2>2. at'[LoopThread] \in {"user", "append", "write"} /\ at[LoopThread] = "write"
    BY <1>0, <1>5 DEF WriteOutput, Rest, GiveUp
  <2> QED BY <1>0, <2>1, <2>2
<1>6. CASE Watch(LoopThread)
  BY <1>0, <1>6 DEF Watch, userVars, UseInv
<1>7. CASE PollReturn \/ HandleReturn \/ HandleError \/ SkipWrite
  BY <1>0, <1>7 DEF PollReturn, HandleReturn, HandleError, SkipWrite, Handles, connVars,
     userVars
<1>8. CASE HandleRead
  <2>1. todo # <<>> /\ todo[1] \in {"read", "close"} /\ 1 \in 1 .. Len(todo)
    BY <1>0, <1>8, EmptySeq DEF HandleRead, Handles
  <2>2. "down" \notin told
    BY <1>0, <2>1 DEF TodoInv, Ending
  <2> QED BY <1>0, <1>8, <2>2 DEF HandleRead, Handles, Call, connVars
<1>9. CASE HandleWrite
  <2>1. /\ UNCHANGED <<events_, told, state_>> /\ at[LoopThread] = "dispatch"
        /\ at'[LoopThread] \in {"dispatch", "unwatch"}
    BY <1>0, <1>9 DEF HandleWrite, Handles, userVars
  <2> QED BY <1>0, <2>1
<1>10. CASE DisableWriting \/ FinishShutdown
  BY <1>0, <1>10 DEF DisableWriting, FinishShutdown, connVars, userVars
<1>11. CASE SetDisconnected \/ DisableAll
  BY <1>0, <1>11 DEF SetDisconnected, DisableAll, Call, userVars
<1>12. CASE ConnectDestroyed \/ LeaveLoop
  BY <1>0, <1>12 DEF ConnectDestroyed, LeaveLoop, Call, connVars, userVars
<1>13. CASE PeerTakes \/ PeerSends \/ PeerFinishes \/ PeerResets \/ UNCHANGED vars
  BY <1>0, <1>13 DEF PeerTakes, PeerSends, PeerFinishes, PeerResets, vars, connVars,
     userVars
<1> QED
  BY <1>0, <1>1, <1>2, <1>3, <1>4, <1>5, <1>6, <1>7, <1>8, <1>9, <1>10, <1>11, <1>12,
     <1>13, Steps DEF LoopStep

\* What one poll calls for ends the connection once at most.
LEMMA TodoStep ==
  ASSUME IndInv, ~ForeignUse, [Next]_vars, TypeOK'
  PROVE  TodoInv'
<1> USE TwoThreads DEF Threads, GoTo, At, TodoInv
<1>0. /\ BaseInv /\ UseInv /\ EndInv /\ TodoInv /\ at \in [Threads -> Points]
      /\ inside \in [Threads -> Callers \cup {"none"}]
      /\ todo \in Seq({"close", "error", "read", "write"})
      /\ todo' \in Seq({"close", "error", "read", "write"})
  BY DEF IndInv, TypeOK
<1>1. CASE /\ UNCHANGED todo
           /\ ("down" \in told' \/ at'[LoopThread] \in {"close", "disable"}) =>
                ("down" \in told \/ at[LoopThread] \in {"close", "disable"})
                \/ todo = <<>>
           /\ at'[LoopThread] \in {"established", "tied", "announce", "poll", "left"} =>
                at[LoopThread] \in {"established", "tied", "announce", "poll", "left"}
                \/ inside[LoopThread] = "connectEstablished" \/ todo = <<>>
           /\ inside'[LoopThread] = "connectEstablished" =>
                at[LoopThread] = "announce" \/ inside[LoopThread] = "connectEstablished"
  BY <1>0, <1>1 DEF Ending
<1>2. CASE PollReturn
  <2>1. todo' = HandleEventWithGuard(Ready) /\ UNCHANGED told /\ "down" \notin told
        /\ at'[LoopThread] = "dispatch" /\ UNCHANGED inside /\ inside[LoopThread] = "none"
    BY <1>0, <1>2 DEF PollReturn, EndInv, UseInv, userVars
  <2>2. \A i, j \in 1 .. Len(todo') : todo'[i] \in {"close", "read"}
                                      /\ todo'[j] \in {"close", "read"} => i = j
    BY <2>1, OneEnding
  <2> QED BY <2>1, <2>2 DEF Ending
<1>3. ASSUME NEW callback, Handles(callback)
      PROVE  /\ \A i \in 1 .. Len(todo') : i + 1 \in 1 .. Len(todo) /\ todo'[i] = todo[i + 1]
             /\ 1 \in 1 .. Len(todo) /\ todo[1] = callback
  <2>1. todo # <<>> /\ todo' = Tail(todo) /\ Head(todo) = callback
    BY <1>3 DEF Handles
  <2>2. /\ Len(todo) \in Nat \ {0} /\ Len(todo') = Len(todo) - 1
        /\ \A i \in 1 .. Len(todo') : todo'[i] = todo[i + 1]
    BY <1>0, <2>1, HeadTailProperties, EmptySeq
  <2> QED BY <1>0, <2>1, <2>2
<1>4. CASE HandleRead
  <2>1. PICK callback \in {"read", "close"} : Handles(callback)
    BY <1>4 DEF HandleRead
  <2>2. \A i \in 1 .. Len(todo) : i # 1 => ~Ending(i)
    BY <1>0, <1>3, <2>1 DEF Ending
  <2>3. \A i \in 1 .. Len(todo') : todo'[i] \notin {"close", "read"}
    <3> SUFFICES ASSUME NEW i \in 1 .. Len(todo')
                 PROVE  todo'[i] \notin {"close", "read"}
      OBVIOUS
    <3>1. i + 1 \in 1 .. Len(todo) /\ todo'[i] = todo[i + 1] /\ i + 1 # 1
      BY <1>3, <2>1
    <3> QED BY <2>2, <3>1 DEF Ending
  <2>4. /\ at'[LoopThread] \in {"user", "close", "dispatch"}
        /\ inside'[LoopThread] \in {"none", "handleRead"}
    BY <1>0, <1>4 DEF HandleRead, Handles, Call, UseInv
  <2> QED BY <2>3, <2>4 DEF Ending
<1>5. CASE HandleError \/ SkipWrite \/ HandleWrite
  <2>1. \E callback : Handles(callback)
    BY <1>5 DEF HandleError, SkipWrite, HandleWrite
  <2>2. /\ UNCHANGED told /\ at[LoopThread] = "dispatch"
        /\ at'[LoopThread] \in {"dispatch", "unwatch"}
        /\ inside'[LoopThread] = "none"
    BY <1>0, <1>5 DEF UseInv, HandleError, SkipWrite, HandleWrite, Handles, userVars
  <2>3. \A i, j \in 1 .. Len(todo') : todo'[i] \in {"close", "read"}
                                      /\ todo'[j] \in {"close", "read"} => i = j
    <3> SUFFICES ASSUME NEW i \in 1 .. Len(todo'), NEW j \in 1 .. Len(todo'),
                        todo'[i] \in {"close", "read"}, todo'[j] \in {"close", "read"}
                 PROVE  i = j
      OBVIOUS
    <3>1. /\ i + 1 \in 1 .. Len(todo) /\ todo'[i] = todo[i + 1]
          /\ j + 1 \in 1 .. Len(todo) /\ todo'[j] = todo[j + 1]
      BY <1>3, <2>1
    <3>2. i + 1 = j + 1
      BY <1>0, <3>1 DEF Ending
    <3> QED BY <3>2
  <2>4. "down" \in told => \A i \in 1 .. Len(todo') : todo'[i] \notin {"close", "read"}
    BY <1>0, <1>3, <2>1 DEF Ending
  <2> QED BY <2>2, <2>3, <2>4 DEF Ending
<1>6. ASSUME NEW t \in Threads, Establish(t) \/ Return(t)
      PROVE  TodoInv'
  BY <1>0, <1>1, <1>6 DEF Establish, SetConnected, EnableReading, Announce, Call, Return,
     userVars
<1>7. CASE \/ Send(LoopThread) \/ TestOutput(LoopThread) \/ WriteOutput(LoopThread)
           \/ AppendOutput(LoopThread) \/ Watch(LoopThread)
  BY <1>0, <1>1, <1>7 DEF Send, CanUse, TestOutput, GiveUp, WriteOutput, Rest,
     AppendOutput, Watch, userVars
<1>8. CASE Shutdown(LoopThread) \/ SetDisconnecting(LoopThread) \/ HalfClose(LoopThread)
  BY <1>0, <1>1, <1>8 DEF Shutdown, CanUse, SetDisconnecting, HalfClose, userVars
<1>9. CASE \/ HandleReturn \/ DisableWriting \/ FinishShutdown \/ SetDisconnected
           \/ DisableAll
  BY <1>0, <1>1, <1>9 DEF HandleReturn, DisableWriting, FinishShutdown, SetDisconnected,
     DisableAll, Call, userVars
<1>10. CASE LeaveLoop \/ ConnectDestroyed
  BY <1>0, <1>1, <1>10 DEF LeaveLoop, ConnectDestroyed, Call, userVars
<1>11. CASE PeerTakes \/ PeerSends \/ PeerFinishes \/ PeerResets \/ UNCHANGED vars
  BY <1>0, <1>1, <1>11 DEF PeerTakes, PeerSends, PeerFinishes, PeerResets, vars, userVars
<1> QED
  BY <1>0, <1>2, <1>4, <1>5, <1>6, <1>7, <1>8, <1>9, <1>10, <1>11, Steps DEF LoopStep

\* After a half-close the state stays beyond kConnected, nothing is watched for room,
\* and nothing is written.
LEMMA FinStep ==
  ASSUME IndInv, ~ForeignUse, [Next]_vars, TypeOK'
  PROVE  FinInv' /\ NoWriteAfterFin'
<1> USE TwoThreads DEF Threads, GoTo, At, FinInv, NoWriteAfterFin
<1>0. /\ BaseInv /\ BeginInv /\ UseInv /\ WatchInv /\ FinInv /\ NoWriteAfterFin
      /\ at \in [Threads -> Points] /\ fin \in BOOLEAN
  BY DEF IndInv, TypeOK
<1>1. ASSUME NEW t \in Threads, Establish(t) \/ Return(t)
      PROVE  FinInv' /\ NoWriteAfterFin'
  BY <1>0, <1>1 DEF Establish, SetConnected, EnableReading, Announce, Return, connVars,
     sockVars, BeginInv
<1>2. CASE Send(LoopThread) \/ Shutdown(LoopThread) \/ SetDisconnecting(LoopThread)
  BY <1>0, <1>2 DEF Send, Shutdown, SetDisconnecting, connVars, sockVars
<1>3. CASE TestOutput(LoopThread) \/ AppendOutput(LoopThread)
  BY <1>0, <1>3 DEF TestOutput, AppendOutput, connVars, sockVars
<1>4. CASE WriteOutput(LoopThread)
  <2>1. ~fin /\ UNCHANGED <<state_, events_>>
    BY <1>0, <1>4 DEF WriteOutput, UseInv, connVars
  <2> QED BY <1>0, <1>4, <2>1 DEF WriteOutput, Written, WriteFails, WriteKills, sockVars
<1>5. CASE Watch(LoopThread)
  BY <1>0, <1>5 DEF Watch, UseInv, sockVars
<1>6. CASE HalfClose(LoopThread)
  BY <1>0, <1>6 DEF HalfClose, ShutdownInLoop, UseInv, connVars
<1>7. CASE FinishShutdown
  BY <1>0, <1>7 DEF FinishShutdown, ShutdownInLoop, WatchInv, connVars, sockVars
<1>8. CASE PollReturn \/ HandleReturn \/ HandleError \/ HandleRead \/ SkipWrite
  BY <1>0, <1>8 DEF PollReturn, HandleReturn, HandleError, HandleRead, SkipWrite, connVars,
     sockVars
<1>9. CASE HandleWrite
  <2>1. ~fin /\ UNCHANGED <<state_, events_>>
    BY <1>0, <1>9 DEF HandleWrite
  <2> QED BY <1>0, <1>9, <2>1 DEF HandleWrite, Written, WriteFails, WriteKills, sockVars
<1>10. CASE DisableWriting \/ SetDisconnected \/ DisableAll \/ ConnectDestroyed \/ LeaveLoop
  BY <1>0, <1>10 DEF DisableWriting, SetDisconnected, DisableAll, ConnectDestroyed,
     LeaveLoop, connVars, sockVars
<1>11. CASE PeerTakes \/ PeerSends \/ PeerFinishes \/ PeerResets \/ UNCHANGED vars
  BY <1>0, <1>11 DEF PeerTakes, PeerSends, PeerFinishes, PeerResets, vars, connVars,
     sockVars
<1> QED
  BY <1>0, <1>1, <1>2, <1>3, <1>4, <1>5, <1>6, <1>7, <1>8, <1>9, <1>10, <1>11, Steps
  DEF LoopStep

\* The invariant holds initially, and every step keeps it.
THEOREM IndInvHolds == ASSUME ~ForeignUse PROVE Spec => []IndInv
<1>1. Init => IndInv
  <2> SUFFICES ASSUME Init PROVE IndInv
    OBVIOUS
  <2> USE TwoThreads DEF Init, Threads
  <2>1. TypeOK
    <3>1. /\ <<>> \in Seq(Bytes) /\ <<>> \in Seq(Bytes \cup {Eof})
          /\ <<>> \in Seq({"close", "error", "read", "write"}) /\ 0 \in 0 .. MaxSent
      BY EmptySeq, BoundsAreNat
    <3>2. at \in [Threads -> Points] /\ inside \in [Threads -> Callers \cup {"none"}]
      BY DEF Points
    <3> QED BY <3>1, <3>2 DEF TypeOK, States
  <2>2. PendingIsWatched /\ NoWriteAfterFin /\ BaseInv /\ BeginInv /\ UseInv
    BY DEF PendingIsWatched, NoWriteAfterFin, BaseInv, BeginInv, UseInv
  <2>3. WatchInv /\ EndInv /\ FinInv
    BY DEF WatchInv, EndInv, FinInv
  <2>4. TodoInv
    BY EmptySeq DEF TodoInv
  <2> QED BY <2>1, <2>2, <2>3, <2>4 DEF IndInv
<1>2. IndInv /\ [Next]_vars => IndInv'
  <2> SUFFICES ASSUME IndInv, [Next]_vars PROVE IndInv'
    OBVIOUS
  <2>1. TypeOK'
    BY TypeStep
  <2>2. BaseInv' /\ BeginInv' /\ UseInv' /\ PendingIsWatched' /\ WatchInv'
    BY <2>1, BaseStep, BeginStep, UseStep, WatchStep
  <2>3. EndInv' /\ TodoInv' /\ FinInv' /\ NoWriteAfterFin'
    BY <2>1, EndStep, TodoStep, FinStep
  <2> QED BY <2>1, <2>2, <2>3 DEF IndInv
<1> QED BY <1>1, <1>2, PTL DEF Spec

-----------------------------------------------------------------------------
(* What follows from it *)

\* Every variable keeps its type.
THEOREM ConnectionTyping == ASSUME ~ForeignUse PROVE Spec => []TypeOK
<1>1. IndInv => TypeOK
  BY DEF IndInv
<1> QED BY <1>1, IndInvHolds, PTL

\* Output waits if and only if the poller watches for room.
THEOREM OutputIsWatched == ASSUME ~ForeignUse PROVE Spec => []PendingIsWatched
<1>1. IndInv => PendingIsWatched
  BY DEF IndInv
<1> QED BY <1>1, IndInvHolds, PTL

\* Nothing is written after the connection's own half-close.
THEOREM HalfCloseIsLast == ASSUME ~ForeignUse PROVE Spec => []NoWriteAfterFin
<1>1. IndInv => NoWriteAfterFin
  BY DEF IndInv
<1> QED BY <1>1, IndInvHolds, PTL

\* A half-close that is due stays due until it is done or the connection is closed.
LEMMA DueEndStep ==
  ASSUME IndInv, DueEndWaits, ~ForeignUse, [Next]_vars
  PROVE  DueEndWaits'
<1> USE TwoThreads DEF Threads, GoTo, At, DueEndWaits
<1>0. /\ BaseInv /\ BeginInv /\ UseInv /\ WatchInv /\ EndInv /\ PendingIsWatched
      /\ at \in [Threads -> Points] /\ outputBuffer_ \in Seq(Bytes)
  BY DEF IndInv, TypeOK
<1>1. ASSUME NEW t \in Threads, Establish(t) \/ Return(t)
      PROVE  DueEndWaits'
  BY <1>0, <1>1 DEF Establish, SetConnected, EnableReading, Announce, Return, Call, BeginInv,
     BaseInv, connVars, sockVars
<1>2. CASE Send(LoopThread) \/ Shutdown(LoopThread) \/ SetDisconnecting(LoopThread)
  BY <1>0, <1>2 DEF Send, Shutdown, SetDisconnecting, connVars, sockVars
<1>3. CASE TestOutput(LoopThread) \/ WriteOutput(LoopThread) \/ AppendOutput(LoopThread)
           \/ Watch(LoopThread)
  <2>1. state_ = "kConnected" /\ state_' = state_
    BY <1>0, <1>3 DEF UseInv, TestOutput, WriteOutput, AppendOutput, Watch, connVars
  <2> QED BY <2>1
<1>4. CASE HalfClose(LoopThread)
  BY <1>0, <1>4 DEF HalfClose, ShutdownInLoop, PendingIsWatched, connVars
<1>5. CASE FinishShutdown
  BY <1>0, <1>5 DEF FinishShutdown, ShutdownInLoop, WatchInv, connVars, sockVars
<1>6. CASE PollReturn \/ HandleReturn \/ HandleError \/ HandleRead \/ SkipWrite
  BY <1>0, <1>6 DEF PollReturn, HandleReturn, HandleError, HandleRead, SkipWrite, Handles,
     Call, connVars, sockVars
<1>7. CASE HandleWrite
  <2>1. /\ at[LoopThread] = "dispatch" /\ "out" \in events_
        /\ UNCHANGED <<state_, events_>>
    BY <1>7 DEF HandleWrite, Handles
  <2>2. ASSUME NEW n \in 0 .. Len(outputBuffer_), Written(n, outputBuffer_),
               outputBuffer_' = SubSeq(outputBuffer_, n + 1, Len(outputBuffer_)),
               IF n > 0 /\ n = Len(outputBuffer_) THEN GoTo(LoopThread, "unwatch")
                                                 ELSE UNCHANGED at
        PROVE  DueEndWaits'
    <3>1. outputBuffer_ # <<>>
      BY <1>0, <2>1 DEF PendingIsWatched
    <3>2. n = Len(outputBuffer_) <=> outputBuffer_' = <<>>
      BY <1>0, <2>2, Slices
    <3>3. Len(outputBuffer_) \in Nat /\ Len(outputBuffer_) # 0
      BY <1>0, <3>1, EmptySeq, LenProperties
    <3>4. CASE n = Len(outputBuffer_)
      BY <1>0, <2>2, <3>3, <3>4
    <3>5. CASE n # Len(outputBuffer_)
      BY <2>1, <3>2, <3>5
    <3> QED BY <3>4, <3>5
  <2>3. CASE (WriteFails \/ WriteKills) /\ UNCHANGED <<outputBuffer_, at>>
    BY <2>1, <2>3 DEF WriteFails, WriteKills, sockVars
  <2> QED BY <1>7, <2>2, <2>3 DEF HandleWrite
<1>8. CASE DisableWriting \/ SetDisconnected \/ DisableAll \/ ConnectDestroyed \/ LeaveLoop
  <2>1. CASE DisableWriting
    BY <1>0, <2>1 DEF DisableWriting
  <2>2. CASE SetDisconnected
    BY <2>2 DEF SetDisconnected
  <2>3. CASE DisableAll
    BY <1>0, <2>3 DEF DisableAll, EndInv
  <2>4. CASE ConnectDestroyed
    BY <1>0, <2>4 DEF ConnectDestroyed
  <2>5. CASE LeaveLoop
    BY <1>0, <2>5 DEF LeaveLoop, connVars, sockVars
  <2> QED BY <1>8, <2>1, <2>2, <2>3, <2>4, <2>5
<1>9. CASE PeerTakes \/ PeerSends \/ PeerFinishes \/ PeerResets \/ UNCHANGED vars
  BY <1>0, <1>9 DEF PeerTakes, PeerSends, PeerFinishes, PeerResets, vars, connVars, sockVars
<1> QED
  BY <1>0, <1>1, <1>2, <1>3, <1>4, <1>5, <1>6, <1>7, <1>8, <1>9, Steps DEF LoopStep

\* A half-close that had to wait for output is not forgotten.
THEOREM DueEndsWait == ASSUME ~ForeignUse PROVE Spec => []DueEndWaits
<1>1. Init => DueEndWaits
  BY DEF Init, DueEndWaits
<1>2. IndInv /\ DueEndWaits /\ [Next]_vars => DueEndWaits'
  BY DueEndStep
<1> QED BY <1>1, <1>2, IndInvHolds, PTL DEF Spec

\* When only the loop's own callbacks use the connection, state_ never goes back: it
\* changes in the steps that set it, each of which finds an earlier state.
THEOREM StateAdvances == ASSUME ~ForeignUse PROVE Spec => StatesOnlyAdvance
<1>1. IndInv /\ [Next]_vars => Rank(state_) <= Rank(state_')
  <2> SUFFICES ASSUME IndInv, [Next]_vars PROVE Rank(state_) <= Rank(state_')
    OBVIOUS
  <2>0. /\ BaseInv /\ BeginInv /\ UseInv
        /\ \A u \in States : Rank(u) \in 0 .. 3 /\ Rank("kDisconnected") = 3
        /\ state_ \in States
    BY DEF IndInv, TypeOK, States, Rank
  <2>1. ASSUME NEW t \in Threads, Establish(t) \/ Return(t)
        PROVE  state_' = state_ \/ (state_ = "kConnecting" /\ state_' = "kConnected")
    BY <2>0, <2>1 DEF Establish, SetConnected, EnableReading, Announce, Return, connVars,
       BeginInv, At
  <2>2. CASE SetDisconnecting(LoopThread)
    BY <2>0, <2>2 DEF SetDisconnecting, UseInv, At, Rank
  <2>3. CASE SetDisconnected \/ ConnectDestroyed
    BY <2>0, <2>3 DEF SetDisconnected, ConnectDestroyed
  <2>4. CASE \/ Send(LoopThread) \/ TestOutput(LoopThread) \/ WriteOutput(LoopThread)
             \/ AppendOutput(LoopThread) \/ Watch(LoopThread)
             \/ Shutdown(LoopThread) \/ HalfClose(LoopThread)
             \/ LeaveLoop \/ PeerTakes \/ PeerSends \/ PeerFinishes \/ PeerResets
             \/ UNCHANGED vars
    BY <2>0, <2>4 DEF Send, TestOutput, WriteOutput, AppendOutput, Watch, Shutdown,
       HalfClose, LeaveLoop, PeerTakes, PeerSends, PeerFinishes, PeerResets, vars, connVars
  <2>5. CASE PollReturn \/ HandleReturn \/ HandleError \/ HandleRead \/ SkipWrite
             \/ HandleWrite \/ DisableWriting \/ FinishShutdown \/ DisableAll
    BY <2>0, <2>5 DEF PollReturn, HandleReturn, HandleError, HandleRead, SkipWrite,
       HandleWrite, DisableWriting, FinishShutdown, DisableAll, connVars
  <2>6. state_' = state_ \/ (state_ = "kConnecting" /\ state_' = "kConnected")
        => Rank(state_) <= Rank(state_')
    BY <2>0 DEF Rank
  <2> QED BY <2>0, <2>1, <2>2, <2>3, <2>4, <2>5, <2>6, Steps DEF LoopStep
<1>2. IndInv /\ [Next]_vars => [Rank(state_) <= Rank(state_')]_vars
  BY <1>1
<1> QED BY <1>2, IndInvHolds, PTL DEF Spec, StatesOnlyAdvance

\* Data and the end are told only before the end, and without a pool the beginning is
\* told first: each of the four steps that call the user finds what it has been told so
\* far.  With a pool nothing is said of when connectEstablished tells the beginning, nor
\* of what ~TcpServer tells.
THEOREM CallbacksInOrder == ASSUME ~ForeignUse PROVE Spec => CallbackOrder
<1> DEFINE Ordered == \A t \in Threads : inside'[t] # inside[t] /\ inside'[t] # "none" =>
              /\ inside'[t] # "connectEstablished" => "down" \notin told
              /\ ~pooled => (inside'[t] = "connectEstablished" <=> told = {})
<1>1. IndInv /\ [Next]_vars => Ordered
  <2> SUFFICES ASSUME IndInv, [Next]_vars PROVE Ordered
    OBVIOUS
  <2> USE TwoThreads DEF Threads, At
  <2>0. /\ BaseInv /\ BeginInv /\ EndInv /\ TodoInv
        /\ inside \in [Threads -> Callers \cup {"none"}]
        /\ todo \in Seq({"close", "error", "read", "write"})
    BY DEF IndInv, TypeOK
  <2>1. ASSUME NEW t \in Threads, Establish(t) \/ Return(t)
        PROVE  Ordered
    BY <2>0, <2>1 DEF Establish, SetConnected, EnableReading, Announce, Call, Return,
       userVars, BaseInv, BeginInv
  <2>2. CASE HandleRead
    <3>1. todo # <<>> /\ todo[1] \in {"read", "close"} /\ 1 \in 1 .. Len(todo)
      BY <2>0, <2>2, EmptySeq DEF HandleRead, Handles
    <3>2. "down" \notin told
      BY <2>0, <3>1 DEF TodoInv, Ending
    <3> QED BY <2>0, <2>2, <3>2 DEF HandleRead, Handles, Call, BeginInv
  <2>3. CASE DisableAll \/ ConnectDestroyed
    BY <2>0, <2>3 DEF DisableAll, ConnectDestroyed, Call, BeginInv, EndInv
  <2>4. CASE \/ Send(LoopThread) \/ TestOutput(LoopThread) \/ WriteOutput(LoopThread)
             \/ AppendOutput(LoopThread) \/ Watch(LoopThread)
             \/ Shutdown(LoopThread) \/ SetDisconnecting(LoopThread) \/ HalfClose(LoopThread)
             \/ LeaveLoop \/ PeerTakes \/ PeerSends \/ PeerFinishes \/ PeerResets
             \/ UNCHANGED vars
    BY <2>4 DEF Send, TestOutput, WriteOutput, AppendOutput, Watch, Shutdown, HalfClose,
       SetDisconnecting, LeaveLoop, PeerTakes, PeerSends, PeerFinishes, PeerResets, vars,
       userVars
  <2>5. CASE PollReturn \/ HandleReturn \/ HandleError \/ SkipWrite \/ HandleWrite
             \/ DisableWriting \/ FinishShutdown \/ SetDisconnected
    BY <2>5 DEF PollReturn, HandleReturn, HandleError, SkipWrite, HandleWrite,
       DisableWriting, FinishShutdown, SetDisconnected, userVars
  <2> QED BY <2>0, <2>1, <2>2, <2>3, <2>4, <2>5, Steps DEF LoopStep
<1>2. IndInv /\ [Next]_vars => [Ordered]_vars
  BY <1>1
<1> QED BY <1>2, IndInvHolds, PTL DEF Spec, CallbackOrder

-----------------------------------------------------------------------------
(* The refinement of ByteStream *)

Octets == Bytes \cup {Eof}

\* Both ends of a concatenation.
LEMMA Ends ==
  ASSUME NEW S, NEW s \in Seq(S), NEW t \in Seq(S)
  PROVE  /\ SubSeq(s \o t, 1, Len(s)) = s
         /\ SubSeq(s \o t, Len(s) + 1, Len(s \o t)) = t
         /\ Len(s) \in 0 .. Len(s \o t)
<1>1. /\ s \o t \in Seq(S) /\ Len(s) \in Nat /\ Len(t) \in Nat
      /\ Len(s \o t) = Len(s) + Len(t)
      /\ \A i \in 1 .. Len(s) + Len(t) :
            (s \o t)[i] = IF i <= Len(s) THEN s[i] ELSE t[i - Len(s)]
      /\ \A i \in 1 .. Len(s) + Len(t) : (s \o t)[i] \in S
  BY ConcatProperties, LenProperties, ElementOfSeq
<1>2. SubSeq(s \o t, 1, Len(s)) = s
  <2> DEFINE u == SubSeq(s \o t, 1, Len(s))
  <2>1. /\ u \in Seq(S) /\ Len(u) = Len(s)
        /\ \A i \in 1 .. Len(s) : u[i] = (s \o t)[i]
    <3>1. \A i \in 1 .. Len(s) : (s \o t)[i] \in S
      BY <1>1
    <3>2. 1 \in Int /\ Len(s) \in Int
      BY <1>1
    <3>3. /\ u \in Seq(S) /\ Len(u) = IF 1 <= Len(s) THEN Len(s) - 1 + 1 ELSE 0
          /\ \A i \in 1 .. Len(s) - 1 + 1 : u[i] = (s \o t)[1 + i - 1]
      BY <3>1, <3>2, SubSeqProperties
    <3> QED BY <1>1, <3>3
  <2> HIDE DEF u
  <2>2. \A i \in 1 .. Len(u) : u[i] = s[i]
    BY <1>1, <2>1
  <2>3. u = s
    BY <2>1, <2>2, SeqEqual
  <2> QED BY <2>3 DEF u
<1>3. SubSeq(s \o t, Len(s) + 1, Len(s \o t)) = t
  <2> DEFINE u == SubSeq(s \o t, Len(s) + 1, Len(s) + Len(t))
  <2>1. /\ u \in Seq(S) /\ Len(u) = Len(t)
        /\ \A i \in 1 .. Len(t) : u[i] = (s \o t)[Len(s) + i]
    <3>1. \A i \in Len(s) + 1 .. Len(s) + Len(t) : (s \o t)[i] \in S
      BY <1>1
    <3>2. Len(s) + 1 \in Int /\ Len(s) + Len(t) \in Int
      BY <1>1
    <3>3. /\ u \in Seq(S)
          /\ Len(u) = IF Len(s) + 1 <= Len(s) + Len(t)
                      THEN Len(s) + Len(t) - (Len(s) + 1) + 1 ELSE 0
          /\ \A i \in 1 .. Len(s) + Len(t) - (Len(s) + 1) + 1 :
                u[i] = (s \o t)[Len(s) + 1 + i - 1]
      BY <3>1, <3>2, SubSeqProperties
    <3> QED BY <1>1, <3>3
  <2> HIDE DEF u
  <2>2. \A i \in 1 .. Len(u) : u[i] = t[i]
    BY <1>1, <2>1
  <2>3. u = t
    BY <2>1, <2>2, SeqEqual
  <2> QED BY <1>1, <2>3 DEF u
<1> QED BY <1>1, <1>2, <1>3

\* What the stream is made of are sequences.
LEMMA QueueTypes ==
  ASSUME TypeOK
  PROVE  /\ wire \in Seq(Octets) /\ outputBuffer_ \in Seq(Octets)
         /\ data[LoopThread] \in Seq(Octets) /\ EofDue \in Seq(Octets)
         /\ Pending = (outputBuffer_ \o data[LoopThread]) \o EofDue
         /\ Pending \in Seq(Octets) /\ Queue \in Seq(Octets)
<1>1. /\ wire \in Seq(Octets) /\ outputBuffer_ \in Seq(Octets)
      /\ data[LoopThread] \in Seq(Octets)
  BY SeqMonotonic DEF TypeOK, Octets, Threads
<1>2. EofDue \in Seq(Octets)
  <2>1. <<Eof>> \in Seq(Octets) /\ <<>> \in Seq(Octets)
    BY DEF Octets
  <2>2. EofDue = <<Eof>> \/ EofDue = <<>>
    BY DEF EofDue
  <2> QED BY <2>1, <2>2
<1>3. Pending = (outputBuffer_ \o data[LoopThread]) \o EofDue
  BY DEF Pending, EofDue
<1>4. Pending \in Seq(Octets)
  BY <1>1, <1>2, <1>3, ConcatProperties
<1> QED BY <1>1, <1>2, <1>3, <1>4, ConcatProperties DEF Queue

\* Every step of the connection is one of the stream's, or changes nothing of it.
LEMMA StreamStep ==
  ASSUME IndInv, ~ForeignUse, [Next]_vars, TypeOK'
  PROVE  [ByteStream!Next]_(ByteStream!vars)
<1> USE TwoThreads DEF Threads, GoTo, At
<1> DEFINE unended == state_ \in {"kConnecting", "kConnected"}
           Goal == [ByteStream!Next]_(ByteStream!vars)
<1>0. /\ BaseInv /\ BeginInv /\ UseInv /\ WatchInv /\ EndInv /\ FinInv
      /\ PendingIsWatched /\ TypeOK /\ state_ \in States
      /\ at \in [Threads -> Points] /\ data \in [Threads -> Seq(Bytes)]
  BY DEF IndInv, TypeOK
<1>a. \A s \in Seq(Octets) : s \o <<>> = s /\ <<>> \o s = s
  BY ConcatEmptySeq
<1>c. ASSUME Queue' = Queue, taken' = taken, Broken' = Broken, unended' = unended
      PROVE  Goal
  BY <1>c DEF ByteStream!vars
<1>d. ASSUME UNCHANGED <<wire, outputBuffer_, fin, taken>>,
             data'[LoopThread] = data[LoopThread],
             (peer' = "reset") = (peer = "reset"),
             state_' = state_ \/ (state_ = "kConnecting" /\ state_' = "kConnected")
      PROVE  Goal
  <2>1. /\ (state_ = "kDisconnecting")' = (state_ = "kDisconnecting")
        /\ (state_ = "kDisconnected")' = (state_ = "kDisconnected") /\ unended' = unended
    BY <1>d
  <2>2. Broken' = Broken
    BY <1>d, <2>1 DEF Broken
  <2>3. EofDue' = EofDue
    BY <1>d, <2>1 DEF EofDue
  <2>4. Pending' = Pending
    BY <1>d, <2>3 DEF Pending, EofDue
  <2>5. Queue' = Queue
    BY <1>d, <2>2, <2>4 DEF Queue
  <2> QED BY <1>c, <1>d, <2>1, <2>2, <2>5
<1>e. ASSUME ~Broken, Broken', wire' = wire, taken' = taken, ~unended'
      PROVE  Goal
  <2>1. Queue = wire \o Pending /\ Queue' = wire
    BY <1>e DEF Queue
  <2>2. SubSeq(Queue, 1, Len(wire)) = wire /\ Len(wire) \in 0 .. Len(Queue)
    <3>1. wire \in Seq(Octets) /\ Pending \in Seq(Octets)
      BY <1>0, QueueTypes
    <3>2. SubSeq(wire \o Pending, 1, Len(wire)) = wire /\ Len(wire) \in 0 .. Len(wire \o Pending)
      BY <3>1, Ends
    <3> QED BY <2>1, <3>2
  <2>3. Queue' = SubSeq(Queue, 1, Len(wire))
    BY <2>1, <2>2
  <2>4. Broken' = TRUE /\ unended' = FALSE
    BY <1>e DEF Broken
  <2>5. ByteStream!Break
    BY <1>e, <2>2, <2>3, <2>4 DEF ByteStream!Break
  <2> QED BY <2>5 DEF ByteStream!Next
<1>1. ASSUME NEW t \in Threads, Establish(t) \/ Return(t)
      PROVE  Goal
  <2>1. /\ UNCHANGED <<wire, outputBuffer_, fin, taken, peer, data>>
        /\ state_' = state_ \/ (state_ = "kConnecting" /\ state_' = "kConnected")
    BY <1>0, <1>1 DEF Establish, SetConnected, EnableReading, Announce, Call, Return,
       connVars, sockVars, userVars, BeginInv
  <2> QED BY <1>d, <2>1
<1>2. CASE TestOutput(LoopThread) \/ Watch(LoopThread) \/ Shutdown(LoopThread)
  <2>1. UNCHANGED <<wire, outputBuffer_, fin, taken, peer, data, state_>>
    BY <1>0, <1>2 DEF TestOutput, Watch, Shutdown, connVars, sockVars, userVars, UseInv
  <2> QED BY <1>d, <2>1
<1>3. CASE PollReturn \/ HandleReturn \/ HandleError \/ HandleRead \/ SkipWrite
           \/ DisableWriting \/ DisableAll \/ LeaveLoop
  <2>1. UNCHANGED <<wire, outputBuffer_, fin, taken, peer, data, state_>>
    BY <1>3 DEF PollReturn, HandleReturn, HandleError, HandleRead, SkipWrite,
       DisableWriting, DisableAll, LeaveLoop, connVars, sockVars, userVars
  <2> QED BY <1>d, <2>1
<1>4. CASE PeerSends \/ PeerFinishes \/ UNCHANGED vars
  <2>1. /\ UNCHANGED <<wire, outputBuffer_, fin, taken, data, state_>>
        /\ (peer' = "reset") = (peer = "reset")
    BY <1>4 DEF PeerSends, PeerFinishes, vars, connVars, sockVars, userVars
  <2> QED BY <1>d, <2>1
<1>5. CASE Send(LoopThread)
  <2>1. PICK n \in 1 .. MaxMessage :
           data' = [data EXCEPT ![LoopThread] = [j \in 1 .. n |-> sent + j]]
    BY <1>5 DEF Send
  <2> DEFINE new == data'[LoopThread]
  <2>2. /\ UNCHANGED <<wire, outputBuffer_, fin, taken, peer, state_>>
        /\ state_ = "kConnected" /\ data[LoopThread] = <<>>
        /\ new \in Seq(Bytes) /\ new \in Seq(Octets)
    BY <1>0, <1>5, QueueTypes, SeqMonotonic DEF Send, CanUse, UseInv, connVars, sockVars,
       TypeOK, Octets
  <2>3. CASE Broken
    <3>1. Queue' = Queue /\ Broken' = Broken /\ unended' = unended
      BY <2>2, <2>3 DEF Queue, Broken
    <3> QED BY <1>c, <2>2, <3>1
  <2>4. CASE ~Broken
    <3>1. Pending = outputBuffer_ /\ Pending' = outputBuffer_ \o new
      <4>1. Pending = (outputBuffer_ \o <<>>) \o <<>>
            /\ Pending' = (outputBuffer_ \o new) \o <<>>
        BY <2>2 DEF Pending, EofDue
      <4>2. outputBuffer_ \in Seq(Octets) /\ outputBuffer_ \o new \in Seq(Octets)
        BY <1>0, <2>2, QueueTypes, ConcatProperties
      <4> QED BY <1>a, <4>1, <4>2, Zenon
    <3>2. Queue = wire \o outputBuffer_ /\ Queue' = wire \o (outputBuffer_ \o new)
      BY <2>2, <2>4, <3>1 DEF Queue, Broken
    <3>3. Queue' = Queue \o new /\ Queue \in Seq(Octets)
      <4>1. wire \in Seq(Octets) /\ outputBuffer_ \in Seq(Octets)
        BY <1>0, QueueTypes
      <4> HIDE DEF new
      <4>2. (wire \o outputBuffer_) \o new = wire \o (outputBuffer_ \o new)
        BY <2>2, <4>1, ConcatAssociative
      <4> QED BY <3>2, <4>1, <4>2, ConcatProperties
    <3>4. SubSeq(Queue', Len(Queue) + 1, Len(Queue')) = new
      BY <2>2, <3>3, Ends
    <3>5. ByteStream!Added = new
      BY <3>4 DEF ByteStream!Added
    <3>6. Broken' = Broken /\ unended /\ unended' = unended
      BY <2>2 DEF Broken
    <3> HIDE DEF new, unended
    <3>7. ByteStream!Send
      BY <2>2, <2>4, <3>3, <3>5, <3>6 DEF ByteStream!Send, unended
    <3> QED BY <3>7 DEF ByteStream!Next
  <2> QED BY <2>3, <2>4
<1>6. CASE WriteOutput(LoopThread)
  <2> DEFINE d == data[LoopThread]
  <2>1. /\ UNCHANGED <<outputBuffer_, fin, taken, peer, state_>>
        /\ state_ = "kConnected" /\ outputBuffer_ = <<>>
    BY <1>0, <1>6 DEF WriteOutput, Written, WriteFails, WriteKills, UseInv, WatchInv,
       connVars, sockVars
  <2>2. ASSUME NEW n \in 0 .. Len(d), Written(n, d), Rest(LoopThread, SubSeq(d, n + 1, Len(d)))
        PROVE  Goal
    <3>1. /\ wire' = wire \o SubSeq(d, 1, n) /\ peer # "reset"
          /\ data'[LoopThread] = SubSeq(d, n + 1, Len(d))
      BY <1>0, <2>2 DEF Written, Rest, GiveUp
    <3>2. Pending = (<<>> \o d) \o <<>> /\ Pending' = (<<>> \o SubSeq(d, n + 1, Len(d))) \o <<>>
      BY <2>1, <3>1 DEF Pending, EofDue
    <3>3. d \in Seq(Octets) /\ SubSeq(d, n + 1, Len(d)) \in Seq(Octets)
      BY <1>0, QueueTypes, Slices
    <3>4. Pending = d \o <<>> /\ Pending' = SubSeq(d, n + 1, Len(d)) \o <<>>
      BY <1>a, <3>2, <3>3
    <3>5. wire \in Seq(Octets) /\ <<>> \in Seq(Octets)
      BY <1>0, QueueTypes, EmptySeq
    <3>6. wire' \o Pending' = wire \o Pending
      <4> DEFINE p == SubSeq(d, 1, n)
                 r == SubSeq(d, n + 1, Len(d))
      <4>1. wire' = wire \o p /\ Pending' = r \o <<>> /\ Pending = d \o <<>>
        BY <3>1, <3>4
      <4>2. p \in Seq(Octets) /\ r \in Seq(Octets)
        BY <3>3, Slices
      <4>3. p \o r = d
        BY <3>3, Slices
      <4> HIDE DEF p, r
      <4>4. (wire \o p) \o (r \o <<>>) = wire \o ((p \o r) \o <<>>)
        BY <3>5, <4>2
      <4> QED BY <4>1, <4>3, <4>4
    <3>7. Queue' = Queue /\ Broken' = Broken /\ unended' = unended
      BY <2>1, <3>1, <3>6 DEF Queue, Broken
    <3> QED BY <1>c, <2>1, <3>7
  <2>3. CASE WriteFails
    <3>1. Broken /\ Broken' /\ UNCHANGED wire
      BY <1>0, <2>3 DEF WriteFails, FinInv, Broken
    <3>2. Queue' = Queue /\ unended' = unended
      BY <2>1, <3>1 DEF Queue
    <3> QED BY <1>c, <2>1, <3>1, <3>2
  <2>4. CASE WriteKills /\ UNCHANGED <<at, data>>
    <3>1. UNCHANGED <<wire, data>>
      BY <2>4 DEF WriteKills, sockVars
    <3> QED BY <1>d, <2>1, <3>1
  <2> QED BY <1>6, <2>2, <2>3, <2>4 DEF WriteOutput
<1>7. CASE AppendOutput(LoopThread)
  <2>1. /\ UNCHANGED <<wire, fin, taken, peer, state_>>
        /\ outputBuffer_' = outputBuffer_ \o data[LoopThread]
        /\ data'[LoopThread] = <<>>
    BY <1>0, <1>7 DEF AppendOutput, sockVars
  <2>2. Pending' = ((outputBuffer_ \o data[LoopThread]) \o <<>>) \o EofDue
    BY <2>1 DEF Pending, EofDue
  <2>3. outputBuffer_ \o data[LoopThread] \in Seq(Octets)
    BY <1>0, QueueTypes, ConcatProperties
  <2>4. Pending' = Pending
    BY <1>0, <1>a, <2>2, <2>3, QueueTypes
  <2>5. Queue' = Queue /\ Broken' = Broken /\ unended' = unended
    BY <2>1, <2>4 DEF Queue, Broken
  <2> QED BY <1>c, <2>1, <2>5
<1>8. CASE SetDisconnecting(LoopThread)
  <2>1. /\ UNCHANGED <<wire, outputBuffer_, fin, taken, peer, data>>
        /\ state_ = "kConnected" /\ state_' = "kDisconnecting" /\ ~fin
    BY <1>0, <1>8 DEF SetDisconnecting, UseInv, FinInv, sockVars, userVars
  <2>2. Broken' = Broken /\ unended /\ ~unended'
    BY <2>1 DEF Broken
  <2>3. Queue' = IF Broken THEN Queue ELSE Append(Queue, Eof)
    <3> DEFINE b == outputBuffer_ \o data[LoopThread]
    <3>1. Pending = b \o <<>> /\ Pending' = b \o <<Eof>> /\ b \in Seq(Octets)
      <4>1. Pending = b \o <<>> /\ Pending' = b \o <<Eof>>
        BY <2>1 DEF Pending, EofDue
      <4> QED BY <1>0, <4>1, QueueTypes, ConcatProperties
    <3>2. Pending = b
      BY <1>a, <3>1
    <3>3. <<Eof>> \in Seq(Octets) /\ wire \in Seq(Octets) /\ Eof \in Octets
      BY <1>0, QueueTypes DEF Octets
    <3> HIDE DEF b
    <3>4. wire \o Pending' = (wire \o Pending) \o <<Eof>>
      <4>1. wire \o (b \o <<Eof>>) = (wire \o b) \o <<Eof>>
        BY <3>1, <3>3, ConcatAssociative
      <4> QED BY <3>1, <3>2, <4>1
    <3>5. wire \o Pending \in Seq(Octets)
      BY <3>1, <3>2, <3>3, ConcatProperties
    <3>6. wire \o Pending' = Append(wire \o Pending, Eof)
      BY <3>3, <3>4, <3>5, AppendIsConcat
    <3> QED BY <2>1, <2>2, <3>6 DEF Queue
  <2> HIDE DEF unended
  <2>4. ByteStream!End
    BY <2>1, <2>2, <2>3 DEF ByteStream!End, unended
  <2> QED BY <2>4 DEF ByteStream!Next
<1>9. ASSUME ShutdownInLoop, state_ = "kDisconnecting", outputBuffer_ = <<>> \/ "out" \in events_,
             data[LoopThread] = <<>>, UNCHANGED <<outputBuffer_, state_, data>>
      PROVE  Goal
  <2>1. CASE UNCHANGED <<wire, fin>>
    <3>1. UNCHANGED <<taken, peer>>
      BY <1>9 DEF ShutdownInLoop
    <3> QED BY <1>9, <1>d, <2>1, <3>1
  <2>2. CASE peer = "reset"
    <3>1. UNCHANGED <<wire, taken, peer>>
      BY <1>9, <2>2 DEF ShutdownInLoop
    <3>2. Queue' = Queue /\ Broken' = Broken /\ unended' = unended
      BY <1>9, <2>2, <3>1 DEF Queue, Broken
    <3> QED BY <1>c, <3>1, <3>2
  <2>3. CASE "out" \notin events_ /\ ~fin /\ peer # "reset"
    <3>1. /\ fin' = TRUE /\ wire' = Append(wire, Eof) /\ UNCHANGED <<taken, peer>>
          /\ outputBuffer_ = <<>>
      BY <1>9, <2>3 DEF ShutdownInLoop
    <3>2. Pending = (<<>> \o <<>>) \o <<Eof>> /\ Pending' = (<<>> \o <<>>) \o <<>>
      BY <1>9, <2>3, <3>1 DEF Pending, EofDue
    <3>3. <<>> \in Seq(Octets) /\ <<Eof>> \in Seq(Octets) /\ wire \in Seq(Octets)
          /\ Eof \in Octets
      BY <1>0, QueueTypes, EmptySeq DEF Octets
    <3>4. Pending = <<Eof>> /\ Pending' = <<>>
      BY <1>a, <3>2, <3>3
    <3>5. wire' = wire \o <<Eof>> /\ wire' \in Seq(Octets)
      BY <3>1, <3>3, AppendIsConcat, ConcatProperties
    <3>6. wire' \o Pending' = wire \o Pending
      BY <1>a, <3>4, <3>5
    <3>7. Queue' = Queue /\ Broken' = Broken /\ unended' = unended
      BY <1>9, <2>3, <3>1, <3>6 DEF Queue, Broken
    <3> QED BY <1>c, <3>1, <3>7
  <2>4. CASE "out" \notin events_ /\ fin
    <3>1. UNCHANGED <<wire, fin>>
      BY <1>9, <2>4 DEF ShutdownInLoop
    <3> QED BY <2>1, <3>1
  <2>5. CASE "out" \in events_
    <3>1. UNCHANGED <<wire, fin>>
      BY <1>9, <2>5 DEF ShutdownInLoop
    <3> QED BY <2>1, <3>1
  <2> QED BY <2>2, <2>3, <2>4, <2>5
<1>10. CASE HalfClose(LoopThread)
  <2>1. "down" \notin told
    BY <1>0, <1>10 DEF HalfClose, UseInv, EndInv
  <2>2. outputBuffer_ = <<>> \/ "out" \in events_
    BY <1>0, <1>10, <2>1 DEF HalfClose, PendingIsWatched, BaseInv
  <2> QED BY <1>0, <1>9, <1>10, <2>2 DEF HalfClose, UseInv, connVars, userVars
<1>11. CASE FinishShutdown
  <2>1. CASE state_ = "kDisconnecting"
    BY <1>0, <1>9, <1>11, <2>1 DEF FinishShutdown, UseInv, WatchInv, connVars, userVars
  <2>2. CASE state_ # "kDisconnecting"
    <3>1. UNCHANGED <<wire, outputBuffer_, fin, taken, peer, data, state_>>
      BY <1>11, <2>2 DEF FinishShutdown, connVars, sockVars, userVars
    <3> QED BY <1>d, <3>1
  <2> QED BY <2>1, <2>2
<1>12. CASE HandleWrite
  <2> DEFINE b == outputBuffer_
  <2>1. /\ UNCHANGED <<fin, taken, peer, state_, data>> /\ data[LoopThread] = <<>>
    BY <1>0, <1>12 DEF HandleWrite, Handles, Written, WriteFails, WriteKills, UseInv,
       userVars, sockVars
  <2>2. ASSUME NEW n \in 0 .. Len(b), Written(n, b), b' = SubSeq(b, n + 1, Len(b))
        PROVE  Goal
    <3>1. wire' = wire \o SubSeq(b, 1, n) /\ peer # "reset"
      BY <2>2 DEF Written
    <3>2. Pending = (b \o <<>>) \o EofDue /\ Pending' = (b' \o <<>>) \o EofDue
      BY <2>1 DEF Pending, EofDue
    <3>3. b \in Seq(Octets) /\ b' \in Seq(Octets) /\ EofDue \in Seq(Octets)
          /\ wire \in Seq(Octets)
      BY <1>0, <2>2, QueueTypes, Slices
    <3>4. Pending = b \o EofDue /\ Pending' = SubSeq(b, n + 1, Len(b)) \o EofDue
      BY <1>a, <2>2, <3>2, <3>3
    <3> HIDE DEF b
    <3>5. wire' \o Pending' = wire \o Pending
      <4> DEFINE p == SubSeq(b, 1, n)
                 r == SubSeq(b, n + 1, Len(b))
      <4>1. wire' = wire \o p /\ Pending' = r \o EofDue /\ Pending = b \o EofDue
        BY <3>1, <3>4
      <4>2. p \in Seq(Octets) /\ r \in Seq(Octets)
        BY <3>3, Slices
      <4>3. p \o r = b
        BY <3>3, Slices
      <4> HIDE DEF p, r
      <4>4. (wire \o p) \o (r \o EofDue) = wire \o ((p \o r) \o EofDue)
        <5> DEFINE e == EofDue
        <5>1. wire \in Seq(Octets) /\ e \in Seq(Octets)
          BY <3>3
        <5> HIDE DEF e
        <5>2. (p \o r) \o e = p \o (r \o e)
          BY <4>2, <5>1
        <5> DEFINE re == r \o e
        <5>3. re \in Seq(Octets)
          BY <4>2, <5>1
        <5> HIDE DEF re
        <5>4. (wire \o p) \o re = wire \o (p \o re)
          BY <4>2, <5>1, <5>3
        <5> QED BY <5>2, <5>4 DEF e, re
      <4> QED BY <4>1, <4>3, <4>4
    <3>6. state_ # "kDisconnected"
      BY <1>0, <1>12 DEF HandleWrite, Handles, EndInv
    <3>7. Queue' = Queue /\ Broken' = Broken /\ unended' = unended
      BY <2>1, <3>1, <3>5, <3>6 DEF Queue, Broken
    <3> QED BY <1>c, <2>1, <3>7
  <2>3. CASE (WriteFails \/ WriteKills) /\ UNCHANGED outputBuffer_
    <3>1. UNCHANGED wire
      BY <2>3 DEF WriteFails, WriteKills, sockVars
    <3> QED BY <1>d, <2>1, <2>3, <3>1
  <2> QED BY <1>12, <2>2, <2>3 DEF HandleWrite
<1>13. CASE SetDisconnected \/ ConnectDestroyed
  <2>1. UNCHANGED <<wire, outputBuffer_, fin, taken, peer, data>>
    BY <1>13 DEF SetDisconnected, ConnectDestroyed, sockVars, userVars
  <2>2. state_' = state_ \/ state_' = "kDisconnected"
    BY <1>13 DEF SetDisconnected, ConnectDestroyed
  <2>3. CASE state_' = state_
    BY <1>d, <2>1, <2>3
  <2>4. CASE state_' = "kDisconnected" /\ Broken
    <3>1. Broken' /\ Queue' = Queue /\ ~unended'
      BY <2>1, <2>4 DEF Broken, Queue
    <3>2. 0 <= Len(Queue) /\ Len(Queue) \in 0 .. Len(Queue) /\ SubSeq(Queue, 1, Len(Queue)) = Queue
      BY <1>0, QueueTypes, LenProperties, SubSeqFull
    <3>3. Broken' = TRUE /\ unended' = FALSE
      BY <3>1 DEF Broken
    <3>4. Queue' = SubSeq(Queue, 1, Len(Queue))
      BY <3>1, <3>2
    <3>5. ByteStream!Break
      BY <2>1, <3>2, <3>3, <3>4 DEF ByteStream!Break
    <3> QED BY <3>5 DEF ByteStream!Next
  <2>5. CASE state_' = "kDisconnected" /\ ~Broken
    <3>1. Broken' /\ ~unended'
      BY <2>5 DEF Broken
    <3> QED BY <1>e, <2>1, <2>5, <3>1
  <2> QED BY <2>2, <2>3, <2>4, <2>5
<1>14. CASE PeerTakes
  <2>1. /\ wire # <<>> /\ taken' = Append(taken, Head(wire)) /\ wire' = Tail(wire)
        /\ UNCHANGED <<outputBuffer_, fin, peer, data, state_>>
    BY <1>14 DEF PeerTakes, connVars, userVars
  <2>2. Broken' = Broken /\ unended' = unended /\ Pending' = Pending
    BY <2>1 DEF Broken, Pending, EofDue
  <2>3. Queue # <<>> /\ Head(Queue) = Head(wire) /\ Queue' = Tail(Queue)
    <3>1. CASE Broken
      BY <2>1, <2>2, <3>1 DEF Queue
    <3>2. CASE ~Broken
      <4>1. Queue = wire \o Pending /\ Queue' = Tail(wire) \o Pending
        BY <2>1, <2>2, <3>2 DEF Queue
      <4>2. wire \in Seq(Octets) /\ Pending \in Seq(Octets)
        BY <1>0, QueueTypes
      <4>3. /\ wire \o Pending # <<>> /\ Head(wire \o Pending) = Head(wire)
            /\ Tail(wire \o Pending) = Tail(wire) \o Pending
        <5>1. wire # <<>>
          BY <2>1
        <5> QED BY <4>2, <5>1
      <4> QED BY <4>1, <4>3
    <3> QED BY <3>1, <3>2
  <2> HIDE DEF unended
  <2>4. ByteStream!Take
    BY <2>1, <2>2, <2>3 DEF ByteStream!Take, unended
  <2> QED BY <2>4 DEF ByteStream!Next
<1>15. CASE PeerResets
  <2>1. Broken' /\ Queue' = <<>> /\ UNCHANGED <<taken, state_>>
    BY <1>15 DEF PeerResets, Broken, Queue, connVars
  <2>2. 0 \in 0 .. Len(Queue) /\ SubSeq(Queue, 1, 0) = <<>>
    BY <1>0, QueueTypes, LenProperties, SubSeqEmpty
  <2>3. unended' = unended
    BY <2>1
  <2> HIDE DEF unended
  <2>4. ByteStream!Break
    BY <2>1, <2>2, <2>3 DEF ByteStream!Break, unended
  <2> QED BY <2>4 DEF ByteStream!Next
<1> QED
  BY <1>0, <1>1, <1>2, <1>3, <1>4, <1>5, <1>6, <1>7, <1>8, <1>10, <1>11, <1>12, <1>13,
     <1>14, <1>15, Steps DEF LoopStep

\* The connection is a stream of bytes to the peer.
THEOREM ConnectionIsStream == ASSUME ~ForeignUse PROVE Spec => ImplementsByteStream
<1>1. Init => ByteStream!Init
  <2> SUFFICES ASSUME Init PROVE ByteStream!Init
    OBVIOUS
  <2>1. Queue = <<>>
    <3>1. Pending = (<<>> \o <<>>) \o <<>> /\ <<>> \in Seq(Octets)
      BY EmptySeq DEF Init, Pending, EofDue, Threads
    <3>2. Pending = <<>>
      BY <3>1, ConcatEmptySeq
    <3>3. Queue = <<>> \o <<>>
      BY <3>2 DEF Queue, Broken, Init
    <3> QED BY <3>1, <3>3, ConcatEmptySeq
  <2>2. taken = <<>> /\ ~Broken /\ state_ = "kConnecting"
    BY DEF Init, Broken
  <2> QED BY <2>1, <2>2 DEF ByteStream!Init
<1>2. IndInv /\ IndInv' /\ [Next]_vars => [ByteStream!Next]_(ByteStream!vars)
  <2>1. IndInv' => TypeOK'
    BY DEF IndInv
  <2> QED BY <2>1, StreamStep
<1> QED BY <1>1, <1>2, IndInvHolds, PTL DEF Spec, ImplementsByteStream, ByteStream!Spec
=============================================================================
