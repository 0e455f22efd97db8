--------------------------- MODULE TcpConnection ---------------------------
(***************************************************************************)
(* One TcpConnection with its Channel, its socket and its peer, from       *)
(* connectEstablished to handleClose or connectDestroyed, and the user's   *)
(* callbacks, which send on it and shut it down.                           *)
(*                                                                         *)
(* In a server with a pool the connection's loop runs in a thread of the   *)
(* pool and connectEstablished, with the user's callback in it, in the     *)
(* base thread, because isInLoopThread() holds in every thread; without a  *)
(* pool there is one thread.  Each update of the poller is one step here   *)
(* (Poller.tla has its details), and so is each operation of a Buffer.     *)
(***************************************************************************)
EXTENDS Integers, SequencesExt

CONSTANTS LoopThread, BaseThread,
          Eof,          \* the end of the stream, as the peer reads it
          MaxSent,      \* bound: bytes the user sends
          MaxMessage,   \* bound: bytes of one send()
          SendSpace,    \* room for bytes in the socket's send buffer
          ForeignUse    \* does the user send and shut down from another thread?

Threads == {LoopThread, BaseThread}
Bytes == 1 .. MaxSent    \* numbered in the order they are sent

ASSUME TwoThreads == LoopThread # BaseThread
ASSUME BoundsAreNat == {MaxSent, MaxMessage, SendSpace} \subseteq Nat \ {0}
ASSUME ForeignUseIsBool == ForeignUse \in BOOLEAN
ASSUME EofIsNoByte == Eof \notin Bytes

VARIABLES
  pooled,         \* is the loop another thread's than the server's?
  state_, outputBuffer_,
  events_,        \* of channel_: {}, or "in", or "in" and "out"
  todo,           \* the callbacks revents_ still calls for
  at,             \* where each thread is
  inside,         \* the function that has called the user's callback, per thread
  data,           \* the bytes of the send() each thread is inside of
  sent,           \* how many bytes have been passed to send() (history)
  told,           \* the connection callbacks made: "up", "down" (history)
  wire,           \* written to the socket, not taken by the peer
  fin,            \* has shutdown(SHUT_WR) been called?
  taken,          \* what the peer has taken
  peer,           \* the peer's end: "open", "finished" (its FIN is here), "reset"
  soError,        \* SO_ERROR
  unread,         \* is there data of the peer's to read?
  killed          \* by SIGPIPE, which nobody handles or ignores

userVars == <<inside, data, sent, told>>
connVars == <<state_, outputBuffer_, events_>>
sockVars == <<wire, fin, taken, peer, soError, unread>>
vars == <<pooled, connVars, todo, at, userVars, sockVars, killed>>

States == {"kConnecting", "kConnected", "kDisconnecting", "kDisconnected"}
Points == {"established", "tied", "announce", "user", "send", "write", "append",
           "watch", "shut", "half", "poll", "dispatch", "close", "disable", "unwatch",
           "drained", "left", "done"}
Callers == {"connectEstablished", "handleRead", "handleClose", "connectDestroyed"}

\* connectEstablished is about to be called, by the loop or by the base thread.
Init ==
  /\ pooled \in BOOLEAN
  /\ state_ = "kConnecting" /\ outputBuffer_ = <<>> /\ events_ = {} /\ todo = <<>>
  /\ at = [t \in Threads |-> IF t = BaseThread <=> pooled THEN "established"
                             ELSE IF pooled THEN "poll" ELSE "done"]
  /\ inside = [t \in Threads |-> "none"] /\ data = [t \in Threads |-> <<>>]
  /\ sent = 0 /\ told = {}
  /\ wire = <<>> /\ fin = FALSE /\ taken = <<>>
  /\ peer = "open" /\ soError = "none" /\ unread = FALSE
  /\ killed = FALSE

-----------------------------------------------------------------------------
At(t, point) == ~killed /\ at[t] = point
GoTo(t, point) == at' = [at EXCEPT ![t] = point]

\* A function calls the user, who hears of the connection's beginning and end.
Call(t, caller, news) ==
  /\ inside' = [inside EXCEPT ![t] = caller]
  /\ told' = told \cup news
  /\ GoTo(t, "user")

(* connectEstablished() *)

SetConnected(t) ==
  /\ At(t, "established")
  /\ state_' = "kConnected"
  /\ GoTo(t, "tied")
  /\ UNCHANGED <<pooled, outputBuffer_, events_, todo, userVars, sockVars, killed>>

\* Mutant: the event mask asks for edges.
EnableReadingEdges(t) ==
  /\ At(t, "tied")
  /\ events_' = events_ \cup {"in", "edges"}
  /\ GoTo(t, "announce")
  /\ UNCHANGED <<pooled, state_, outputBuffer_, todo, userVars, sockVars, killed>>

EnableReading(t) ==
  /\ At(t, "tied")
  /\ events_' = events_ \cup {"in"}
  /\ GoTo(t, "announce")
  /\ UNCHANGED <<pooled, state_, outputBuffer_, todo, userVars, sockVars, killed>>

Announce(t) ==
  /\ At(t, "announce")
  /\ Call(t, "connectEstablished", {"up"})
  /\ UNCHANGED <<pooled, connVars, todo, data, sent, sockVars, killed>>

-----------------------------------------------------------------------------
(* send() and shutdown(), which the user calls from the callbacks *)

CanUse(t) == At(t, "user") /\ (t = LoopThread \/ ForeignUse)

\* send(), whose message is ignored unless the connection is kConnected.
Send(t) ==
  /\ CanUse(t) /\ state_ = "kConnected"
  /\ \E n \in 1 .. MaxMessage :
        /\ sent + n <= MaxSent
        /\ data' = [data EXCEPT ![t] = [j \in 1 .. n |-> sent + j]]
        /\ sent' = sent + n
  /\ GoTo(t, "send")
  /\ UNCHANGED <<pooled, connVars, todo, inside, told, sockVars, killed>>

GiveUp(t) == GoTo(t, "user") /\ data' = [data EXCEPT ![t] = <<>>]

\* sendInLoop tests state_, and whether anything has to go before the message.
TestOutput(t) ==
  /\ At(t, "send")
  /\ IF state_ = "kDisconnected" THEN GiveUp(t)
     ELSE /\ GoTo(t, IF "out" \notin events_ /\ outputBuffer_ = <<>> THEN "write"
                                                                     ELSE "append")
          /\ UNCHANGED data
  /\ UNCHANGED <<pooled, connVars, todo, inside, sent, told, sockVars, killed>>

\* write(2): into the room there is, from none to all of the bytes, ...
Written(n, bytes) ==
  /\ ~fin /\ peer # "reset"
  /\ n <= Len(bytes) /\ Len(wire) + n <= SendSpace
  /\ wire' = wire \o SubSeq(bytes, 1, n)
  /\ UNCHANGED <<fin, taken, peer, soError, unread, killed>>

\* ... failing once with ECONNRESET ...
WriteFails ==
  /\ soError = "ECONNRESET" /\ soError' = "none"
  /\ UNCHANGED <<wire, fin, taken, peer, unread, killed>>

\* ... or with EPIPE, which comes with SIGPIPE.
WriteKills ==
  /\ fin \/ peer = "reset"
  /\ soError # "ECONNRESET"
  /\ killed' = TRUE
  /\ UNCHANGED sockVars

\* The rest of the message, or nothing to do any more.
Rest(t, bytes) ==
  IF bytes = <<>> THEN GiveUp(t)
  ELSE GoTo(t, "append") /\ data' = [data EXCEPT ![t] = bytes]

\* Mutant: nwrote is not added to the address of the rest.
WriteOutputRepeating(t) ==
  /\ At(t, "write")
  /\ \/ \E n \in 0 .. Len(data[t]) :
           /\ Written(n, data[t])
           /\ Rest(t, SubSeq(data[t], 1, Len(data[t]) - n))
     \/ WriteFails /\ GiveUp(t)
     \/ WriteKills /\ UNCHANGED <<at, data>>
  /\ UNCHANGED <<pooled, connVars, todo, inside, sent, told>>

\* Nothing written stands for EWOULDBLOCK and the other errors that keep the data.
WriteOutput(t) ==
  /\ At(t, "write")
  /\ \/ \E n \in 0 .. Len(data[t]) :
           /\ Written(n, data[t])
           /\ Rest(t, SubSeq(data[t], n + 1, Len(data[t])))
     \/ WriteFails /\ GiveUp(t)
     \/ WriteKills /\ UNCHANGED <<at, data>>
  /\ UNCHANGED <<pooled, connVars, todo, inside, sent, told>>

AppendOutput(t) ==
  /\ At(t, "append")
  /\ outputBuffer_' = outputBuffer_ \o data[t]
  /\ data' = [data EXCEPT ![t] = <<>>]
  /\ GoTo(t, "watch")
  /\ UNCHANGED <<pooled, state_, events_, todo, inside, sent, told, sockVars, killed>>

\* enableWriting, unless the Channel is writing already.
Watch(t) ==
  /\ At(t, "watch")
  /\ events_' = events_ \cup {"out"}
  /\ GoTo(t, "user")
  /\ UNCHANGED <<pooled, state_, outputBuffer_, todo, userVars, sockVars, killed>>

\* Mutant: shutdown() does not test state_.
ShutdownAlways(t) ==
  /\ CanUse(t)
  /\ GoTo(t, "shut")
  /\ UNCHANGED <<pooled, connVars, todo, userVars, sockVars, killed>>

Shutdown(t) ==
  /\ CanUse(t) /\ state_ = "kConnected"
  /\ GoTo(t, "shut")
  /\ UNCHANGED <<pooled, connVars, todo, userVars, sockVars, killed>>

SetDisconnecting(t) ==
  /\ At(t, "shut")
  /\ state_' = "kDisconnecting"
  /\ GoTo(t, "half")
  /\ UNCHANGED <<pooled, outputBuffer_, events_, todo, userVars, sockVars, killed>>

\* Mutant: shutdownInLoop() does not test isWriting().
ShutdownAtOnce ==
  /\ fin' = TRUE /\ wire' = IF fin \/ peer = "reset" THEN wire ELSE Append(wire, Eof)
  /\ UNCHANGED <<taken, peer, soError, unread>>

\* shutdownInLoop(): SHUT_WR, unless output is pending.  It fails on a socket that
\* has been reset.
ShutdownInLoop ==
  /\ IF "out" \in events_ THEN UNCHANGED <<fin, wire>>
     ELSE fin' = TRUE /\ wire' = IF fin \/ peer = "reset" THEN wire ELSE Append(wire, Eof)
  /\ UNCHANGED <<taken, peer, soError, unread>>

HalfClose(t) ==
  /\ At(t, "half")
  /\ ShutdownInLoop
  /\ GoTo(t, "user")
  /\ UNCHANGED <<pooled, connVars, todo, userVars, killed>>

\* The user's callback returns.
Return(t) ==
  /\ At(t, "user")
  /\ inside' = [inside EXCEPT ![t] = "none"]
  /\ GoTo(t, CASE inside[t] = "connectEstablished" -> IF pooled THEN "done" ELSE "poll"
              [] inside[t] = "connectDestroyed" -> "done"
              [] OTHER -> "dispatch")
  /\ UNCHANGED <<pooled, connVars, todo, data, sent, told, sockVars, killed>>

UserStep(t) ==
  \/ TestOutput(t) \/ WriteOutput(t) \/ AppendOutput(t) \/ Watch(t)
  \/ SetDisconnecting(t) \/ HalfClose(t) \/ Return(t)

-----------------------------------------------------------------------------
(* The loop: what epoll reports, and handleEvent() *)

Ready ==
  {e \in events_ : \/ e = "in" /\ (unread \/ peer # "open")
                   \/ e = "out" /\ (fin \/ peer = "reset" \/ Len(wire) < SendSpace)}
  \cup {e \in {"hup"} : peer = "reset" \/ (fin /\ peer = "finished")}
  \cup {e \in {"err"} : soError # "none"}

\* handleEventWithGuard: which callbacks revents_ selects, in their order.
HandleEventWithGuard(revents_) ==
  (IF "hup" \in revents_ /\ "in" \notin revents_ THEN <<"close">> ELSE <<>>)
  \o (IF "err" \in revents_ THEN <<"error">> ELSE <<>>)
  \o (IF "in" \in revents_ THEN <<"read">> ELSE <<>>)
  \o (IF "out" \in revents_ THEN <<"write">> ELSE <<>>)

\* A Channel without events is not registered.
PollReturn ==
  /\ At(LoopThread, "poll")
  /\ events_ # {} /\ Ready # {}
  /\ todo' = HandleEventWithGuard(Ready)
  /\ GoTo(LoopThread, "dispatch")
  /\ UNCHANGED <<pooled, connVars, userVars, sockVars, killed>>

HandleReturn ==
  /\ At(LoopThread, "dispatch") /\ todo = <<>>
  /\ GoTo(LoopThread, "poll")
  /\ UNCHANGED <<pooled, connVars, todo, userVars, sockVars, killed>>

Handles(callback) ==
  /\ At(LoopThread, "dispatch") /\ todo # <<>> /\ Head(todo) = callback
  /\ todo' = Tail(todo)

\* handleError asks for SO_ERROR, which clears it.
HandleError ==
  /\ Handles("error")
  /\ soError' = "none"
  /\ UNCHANGED <<pooled, connVars, at, userVars, wire, fin, taken, peer, unread, killed>>

\* Mutant: handleRead does nothing at the end of the peer's stream.
HandleReadOnly ==
  /\ Handles("read") \/ Handles("close")
  /\ IF unread THEN unread' = FALSE /\ Call(LoopThread, "handleRead", {})
     ELSE UNCHANGED <<at, unread, inside, told>>
  /\ UNCHANGED <<pooled, connVars, data, sent, wire, fin, taken, peer, soError, killed>>

\* handleRead: data goes to the user, the end of the peer's stream to handleClose; an
\* error, a reset that came after the poll, only to handleError.  A hang-up goes to
\* handleClose at once.
HandleRead ==
  /\ Handles("read") \/ Handles("close")
  /\ IF Head(todo) = "read" /\ unread
     THEN unread' = FALSE /\ Call(LoopThread, "handleRead", {}) /\ UNCHANGED soError
     ELSE /\ UNCHANGED <<unread, inside, told>>
          /\ IF Head(todo) = "read" /\ soError = "ECONNRESET"
             THEN soError' = "none" /\ UNCHANGED at
             ELSE GoTo(LoopThread, "close") /\ UNCHANGED soError
  /\ UNCHANGED <<pooled, connVars, data, sent, wire, fin, taken, peer, killed>>

\* handleWrite, when the Channel is not writing any more.
SkipWrite ==
  /\ Handles("write") /\ "out" \notin events_
  /\ UNCHANGED <<pooled, connVars, at, userVars, sockVars, killed>>

\* Mutant: handleWrite never disables writing.
HandleWriteWatching ==
  /\ Handles("write") /\ "out" \in events_
  /\ \/ \E n \in 0 .. Len(outputBuffer_) :
           /\ Written(n, outputBuffer_)
           /\ outputBuffer_' = SubSeq(outputBuffer_, n + 1, Len(outputBuffer_))
     \/ WriteFails /\ UNCHANGED outputBuffer_
     \/ WriteKills /\ UNCHANGED outputBuffer_
  /\ UNCHANGED <<pooled, state_, events_, at, userVars>>

\* handleWrite: writeFd and retrieve.  Where there is room, some of it is written.
HandleWrite ==
  /\ Handles("write") /\ "out" \in events_
  /\ \/ \E n \in 0 .. Len(outputBuffer_) :
           /\ Written(n, outputBuffer_)
           /\ n = 0 => outputBuffer_ = <<>> \/ Len(wire) = SendSpace
           /\ outputBuffer_' = SubSeq(outputBuffer_, n + 1, Len(outputBuffer_))
           /\ IF n > 0 /\ n = Len(outputBuffer_) THEN GoTo(LoopThread, "unwatch")
                                                 ELSE UNCHANGED at
     \/ WriteFails /\ UNCHANGED <<outputBuffer_, at>>
     \/ WriteKills /\ UNCHANGED <<outputBuffer_, at>>
  /\ UNCHANGED <<pooled, state_, events_, userVars>>

DisableWriting ==
  /\ At(LoopThread, "unwatch")
  /\ events_' = events_ \ {"out"}
  /\ GoTo(LoopThread, "drained")
  /\ UNCHANGED <<pooled, state_, outputBuffer_, todo, userVars, sockVars, killed>>

\* Mutant: handleWrite does not finish a shutdown.
ForgetShutdown ==
  /\ At(LoopThread, "drained")
  /\ GoTo(LoopThread, "dispatch")
  /\ UNCHANGED <<pooled, connVars, todo, userVars, sockVars, killed>>

\* The half-close that had to wait for the output.
FinishShutdown ==
  /\ At(LoopThread, "drained")
  /\ IF state_ = "kDisconnecting" THEN ShutdownInLoop ELSE UNCHANGED sockVars
  /\ GoTo(LoopThread, "dispatch")
  /\ UNCHANGED <<pooled, connVars, todo, userVars, killed>>

\* handleClose
SetDisconnected ==
  /\ At(LoopThread, "close")
  /\ state_' = "kDisconnected"
  /\ GoTo(LoopThread, "disable")
  /\ UNCHANGED <<pooled, outputBuffer_, events_, todo, userVars, sockVars, killed>>

\* The rest of handleClose: closeCallback_ follows the user's callback, and is
\* TcpServer's.
DisableAll ==
  /\ At(LoopThread, "disable")
  /\ events_' = {}
  /\ Call(LoopThread, "handleClose", {"down"})
  /\ UNCHANGED <<pooled, state_, outputBuffer_, todo, data, sent, sockVars, killed>>

\* The loop of a server without a pool returns, and ~TcpServer runs
\* connectDestroyed in the same thread.  (With a pool it races with the loop, which
\* Poller.tla shows.)
LeaveLoop ==
  /\ At(LoopThread, "poll") /\ ~pooled
  /\ GoTo(LoopThread, "left")
  /\ UNCHANGED <<pooled, connVars, todo, userVars, sockVars, killed>>

\* Mutant: connectDestroyed does not test state_.
ConnectDestroyedAlways ==
  /\ At(LoopThread, "left")
  /\ events_' = {}
  /\ state_' = "kDisconnected" /\ Call(LoopThread, "connectDestroyed", {"down"})
  /\ UNCHANGED <<pooled, outputBuffer_, todo, data, sent, sockVars, killed>>

\* disableAll() or remove() takes the Channel off the poller's list.
ConnectDestroyed ==
  /\ At(LoopThread, "left")
  /\ events_' = {}
  /\ IF state_ = "kConnected"
     THEN state_' = "kDisconnected" /\ Call(LoopThread, "connectDestroyed", {"down"})
     ELSE GoTo(LoopThread, "done") /\ UNCHANGED <<state_, inside, told>>
  /\ UNCHANGED <<pooled, outputBuffer_, todo, data, sent, sockVars, killed>>

LoopStep ==
  \/ PollReturn \/ HandleReturn \/ HandleError \/ HandleRead
  \/ SkipWrite \/ HandleWrite \/ DisableWriting \/ FinishShutdown
  \/ SetDisconnected \/ DisableAll \/ ConnectDestroyed

-----------------------------------------------------------------------------
(* The peer and the network *)

PeerTakes ==
  /\ ~killed /\ wire # <<>>
  /\ taken' = Append(taken, Head(wire))
  /\ wire' = Tail(wire)
  /\ UNCHANGED <<pooled, connVars, todo, at, userVars, fin, peer, soError, unread, killed>>

PeerSends ==
  /\ ~killed /\ peer = "open" /\ ~unread
  /\ unread' = TRUE
  /\ UNCHANGED <<pooled, connVars, todo, at, userVars, wire, fin, taken, peer, soError,
                 killed>>

PeerFinishes ==
  /\ ~killed /\ peer = "open"
  /\ peer' = "finished"
  /\ UNCHANGED <<pooled, connVars, todo, at, userVars, wire, fin, taken, soError, unread,
                 killed>>

\* An RST: what is on the way is lost.
PeerResets ==
  /\ ~killed /\ peer # "reset"
  /\ peer' = "reset"
  /\ soError' = IF peer = "open" THEN "ECONNRESET" ELSE "EPIPE"
  /\ wire' = <<>>
  /\ UNCHANGED <<pooled, connVars, todo, at, userVars, fin, taken, unread, killed>>

-----------------------------------------------------------------------------
Establish(t) == SetConnected(t) \/ EnableReading(t) \/ Announce(t)
ThreadStep(t) == Establish(t) \/ UserStep(t) \/ (t = LoopThread /\ LoopStep)

Next ==
  \/ \E t \in Threads : ThreadStep(t) \/ Send(t) \/ Shutdown(t)
  \/ LeaveLoop
  \/ PeerTakes \/ PeerSends \/ PeerFinishes \/ PeerResets

Spec == Init /\ [][Next]_vars

\* Threads run, callbacks return, and the peer goes on reading.
FairSpec == /\ Spec
            /\ \A t \in Threads : WF_vars(ThreadStep(t))
            /\ WF_vars(PeerTakes)

-----------------------------------------------------------------------------
(* Properties *)

\* Every variable holds a value the program can give it.
TypeOK ==
  /\ pooled \in BOOLEAN /\ killed \in BOOLEAN
  /\ state_ \in States /\ outputBuffer_ \in Seq(Bytes)
  /\ events_ \in {{}, {"in"}, {"in", "out"}}
  /\ todo \in Seq({"close", "error", "read", "write"})
  /\ at \in [Threads -> Points] /\ inside \in [Threads -> Callers \cup {"none"}]
  /\ data \in [Threads -> Seq(Bytes)]
  /\ sent \in 0 .. MaxSent /\ told \subseteq {"up", "down"}
  /\ wire \in Seq(Bytes \cup {Eof}) /\ taken \in Seq(Bytes \cup {Eof})
  /\ fin \in BOOLEAN /\ unread \in BOOLEAN
  /\ peer \in {"open", "finished", "reset"}
  /\ soError \in {"none", "ECONNRESET", "EPIPE"}

\* TcpConnection.cpp:133: output that waits is output the poller watches, or else
\* nobody would notice room in the socket's buffer; and when none waits, the socket,
\* which is nearly always writable, is not watched, or else the loop would spin.
PendingIsWatched ==
  /\ outputBuffer_ # <<>> /\ "down" \notin told /\ at[LoopThread] # "done" =>
       "out" \in events_ \/ \E t \in Threads : at[t] = "watch"
  /\ "out" \in events_ => outputBuffer_ # <<>> \/ at[LoopThread] = "unwatch"

\* The library never writes on a connection it has half-closed itself: SIGPIPE comes
\* only from a peer's reset.
NoWriteAfterFin == killed => peer = "reset"

\* TcpConnection.cpp:144-161: a half-close that has been asked for is not forgotten.  Either
\* the output it has to wait for is there and watched, so that the last handleWrite will
\* do it, or the loop's thread is on its way to the test of isWriting() or of state_ that
\* decides.
DueEndWaits ==
  state_ = "kDisconnecting" /\ ~fin /\ at[LoopThread] # "done" =>
    \/ at[LoopThread] \in {"half", "unwatch", "drained"}
    \/ outputBuffer_ # <<>> /\ "out" \in events_

\* A connection never goes back to an earlier state, whatever the callbacks made by its
\* loop call: one that is closed is not revived by their late shutdown().  (That of
\* another thread tests state_ and sets it in two steps, and can: ForeignUse.)
Rank(state) == CASE state = "kConnecting" -> 0 [] state = "kConnected" -> 1
                 [] state = "kDisconnecting" -> 2 [] OTHER -> 3
StatesOnlyAdvance == [][Rank(state_) <= Rank(state_')]_vars

\* The end of a connection is told once, and after it neither data nor the end again;
\* without a pool the beginning is told first.  With a pool it is told by another
\* thread, connectEstablished's, at any time, even after the end; and it is ~TcpServer,
\* which is not here with a pool, that could tell the end again.
CallbackOrder ==
  [][\A t \in Threads : inside'[t] # inside[t] /\ inside'[t] # "none" =>
       /\ inside'[t] # "connectEstablished" => "down" \notin told
       /\ ~pooled => (inside'[t] = "connectEstablished" <=> told = {})]_vars

\* What has been sent, and the end behind it if shutdown() was called, in its order.
Broken == peer = "reset" \/ state_ = "kDisconnected"
EofDue == IF state_ = "kDisconnecting" /\ ~fin THEN <<Eof>> ELSE <<>>
Pending == outputBuffer_ \o data[LoopThread] \o EofDue
Queue == IF Broken THEN wire ELSE wire \o Pending

ByteStream == INSTANCE ByteStream
                WITH queue <- Queue, broken <- Broken,
                     open <- state_ \in {"kConnecting", "kConnected"}

\* The connection is a stream of bytes: partial writes, pending output, half-close
\* and failures lose, repeat or reorder nothing in front of what the peer has taken.
ImplementsByteStream == ByteStream!Spec

Over == killed \/ Broken \/ at[LoopThread] \in {"left", "done"}

\* Whatever is sent reaches the peer, and so does the end of the stream after a
\* shutdown(), unless the connection or the loop ends first.
EverythingArrives ==
  \A b \in Bytes \cup {Eof} : Contains(Queue, b) ~> Contains(taken, b) \/ Over

\* The end of the peer's stream, or its reset, closes the connection and is told to
\* the user.
EndIsNoticed ==
  peer # "open" ~> "down" \in told \/ killed \/ at[LoopThread] \in {"left", "done"}

-----------------------------------------------------------------------------
(* The inductive invariant of a connection that only its loop's callbacks use *)

\* The base thread does connectEstablished of a pooled connection, and no more.
BaseInv ==
  /\ at[BaseThread] \in {"established", "tied", "announce", "user", "done"}
  /\ at[BaseThread] # "done" => pooled
  /\ at[BaseThread] = "user" => inside[BaseThread] = "connectEstablished"
  /\ pooled =>
       /\ at[LoopThread] \notin {"established", "tied", "announce", "left", "done"}
       /\ inside[LoopThread] \notin {"connectEstablished", "connectDestroyed"}
       /\ at[BaseThread] \in {"established", "tied"} => at[LoopThread] = "poll"

\* Nothing happens to a connection that is being established.
BeginInv ==
  /\ \A t \in Threads :
       /\ at[t] \in {"established", "tied"} => told = {} /\ events_ = {}
       /\ at[t] = "established" => state_ = "kConnecting"
       /\ at[t] = "tied" => state_ = "kConnected"
  /\ ~pooled => \/ at[LoopThread] \in {"established", "tied", "announce"} /\ told = {}
                \/ at[LoopThread] \notin {"established", "tied", "announce"}
                   /\ "up" \in told

\* The state in which the user's calls are at work.
UseInv ==
  /\ at[LoopThread] \in {"send", "write", "append", "watch", "shut"} =>
       state_ = "kConnected"
  /\ at[LoopThread] = "half" => state_ = "kDisconnecting"
  /\ at[LoopThread] \in {"send", "write", "append"} <=> data[LoopThread] # <<>>
  /\ at[LoopThread] \in {"poll", "dispatch", "unwatch", "drained"} =>
       inside[LoopThread] = "none"

\* What is watched while the connection is up.
WatchInv ==
  /\ state_ \in {"kConnected", "kDisconnecting"} /\ at[LoopThread] # "done"
       => "in" \in events_ \/ \E t \in Threads : at[t] = "tied"
  /\ at[LoopThread] = "write" => outputBuffer_ = <<>> /\ "out" \notin events_
  /\ at[LoopThread] = "watch" => outputBuffer_ # <<>>
  /\ at[LoopThread] \in {"unwatch", "drained"} => outputBuffer_ = <<>>
  /\ at[LoopThread] = "drained" => "out" \notin events_

\* The user has been told of the end if there was one.
EndInv ==
  /\ "down" \in told <=> state_ = "kDisconnected" /\ at[LoopThread] # "disable"
  /\ at[LoopThread] = "close" => "down" \notin told
  /\ at[LoopThread] = "disable" => state_ = "kDisconnected"
  /\ "down" \in told => events_ = {}

\* Among the callbacks one poll calls for there is one at most that can end the
\* connection.
Ending(i) == todo[i] \in {"close", "read"}

TodoInv ==
  /\ "down" \in told \/ at[LoopThread] \in {"close", "disable"} =>
       \A i \in 1 .. Len(todo) : ~Ending(i)
  /\ \A i, j \in 1 .. Len(todo) : Ending(i) /\ Ending(j) => i = j
  /\ \/ at[LoopThread] \in {"established", "tied", "announce", "poll", "left"}
     \/ inside[LoopThread] = "connectEstablished"
     => todo = <<>>

\* After the half-close nothing is sent, and only a reset is an error.
FinInv ==
  /\ fin => state_ \in {"kDisconnecting", "kDisconnected"} /\ "out" \notin events_
  /\ soError # "none" => peer = "reset"

IndInv == /\ TypeOK /\ PendingIsWatched /\ NoWriteAfterFin
          /\ BaseInv /\ BeginInv /\ UseInv /\ WatchInv /\ EndInv /\ TodoInv /\ FinInv

-----------------------------------------------------------------------------
(* What comments in the source say, and the code does not do *)

\* TcpConnection.cpp:105: a reset connection is an error, which the code handles.
ResetIsHandled == ~killed
=============================================================================
