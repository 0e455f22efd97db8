------------------------------- MODULE Poller -------------------------------
(***************************************************************************)
(* One EPollPoller, the Channels registered with it and the kernel's       *)
(* interest list, under the two threads that touch them: the thread that   *)
(* runs the loop, and the base thread, which accepts connections and runs  *)
(* connectEstablished (and, in ~TcpServer, connectDestroyed) itself,       *)
(* because isInLoopThread() holds in every thread (see EventLoop.tla).     *)
(*                                                                         *)
(* Nothing here is locked, so threads interleave at each access to a       *)
(* Channel's events_ and index_, to the map channels_ and at each          *)
(* epoll_ctl.  Channels are used as TcpConnection and EventLoop use them.  *)
(***************************************************************************)
EXTENDS Integers, FiniteSets

CONSTANTS LoopThread, BaseThread,
          Conns,          \* the Channel of each TcpConnection ever made
          Wakeup,         \* the loop's own wakeupChannel_
          Fds,            \* descriptors the kernel hands out
          None,           \* no channel, no descriptor, no thread
          InitEventListSize,  \* kInitEventListSize
          BaseSends,      \* does the base thread call send()?
          BaseTearsDown   \* may ~TcpServer run while the loop does?

Threads  == {LoopThread, BaseThread}
Channels == Conns \cup {Wakeup}

ASSUME TwoThreads  == LoopThread # BaseThread /\ None \notin Threads
ASSUME NoneIsNone  == None \notin Channels \cup Fds /\ Wakeup \notin Conns
ASSUME FdsFinite   == IsFiniteSet(Fds)
ASSUME ListIsNat   == InitEventListSize \in Nat \ {0}
ASSUME UseIsBool   == BaseSends \in BOOLEAN /\ BaseTearsDown \in BOOLEAN

VARIABLES
  state,       \* each Channel object and its descriptor, from "unborn" to "gone"
  fd_, events_, index_,   \* members of each Channel
  channels_,   \* Poller's map: descriptor -> Channel
  interest,    \* the kernel's list: descriptor -> channel and event mask
  open,        \* open descriptors
  established, \* connections whose enableReading() has reached the kernel
  taken,       \* connections ~TcpServer has taken out of the server's map
  events_size, \* length of EPollPoller::events_
  active,      \* reported by epoll_wait and not handled yet
  handling,    \* the channel the loop thread is inside handleEvent() of
  pc,          \* the loop thread: "poll", "handle" or "stopped"
  doing,       \* the update or removal each thread is inside of
  exited       \* LOG_FATAL has ended the process

chanVars == <<state, fd_, events_, index_, established, taken>>
kernVars == <<interest, open>>
loopVars == <<events_size, active, handling, pc>>
vars == <<chanVars, channels_, kernVars, loopVars, doing, exited>>

kNew == -1
kAdded == 1
kDeleted == 2

Masks == SUBSET {"read", "write"}
NoEntry == [ptr |-> None, mask |-> {}]

\* An update stores events_, reads index_ and goes on from there; a removal
\* starts at "erase".  disableAll() followed by remove() is one call here,
\* with removing = TRUE, and so is connectDestroyed, from its "test" of state_.
Points == {"test", "store", "index", "insert", "added", "add", "branch", "mod",
           "del", "deleted", "erase", "rindex", "rdel", "new"}
Idle == [at |-> "idle", on |-> None, mask |-> {}, removing |-> FALSE]
Calls == {Idle} \cup [at : Points, on : Channels, mask : Masks, removing : BOOLEAN]

\* A connection is "live" until handleClose or connectDestroyed, "closed" while
\* the functor of removeConnectionInLoop keeps it, then "dropped": nobody but a
\* thread still inside one of its calls refers to it.  Its Channel is "freed" first,
\* and it is "gone" with its descriptor.
States == {"unborn", "live", "closed", "dropped", "freed", "gone"}

Alive(c) == state[c] \in {"live", "closed", "dropped"}
HoldsFd(c) == Alive(c) \/ state[c] = "freed"
Entry(c) == interest[fd_[c]]
IsRegistered(c) == fd_[c] # None /\ Entry(c).ptr = c
Busy(c) == \E t \in Threads : doing[t].on = c

\* The state the constructors leave: EventLoop's registers the wake-up channel
\* for reading.
Init ==
  /\ state = [c \in Channels |-> IF c = Wakeup THEN "live" ELSE "unborn"]
  /\ \E f \in Fds :
        /\ fd_ = [c \in Channels |-> IF c = Wakeup THEN f ELSE None]
        /\ channels_ = [g \in Fds |-> IF g = f THEN Wakeup ELSE None]
        /\ interest = [g \in Fds |-> IF g = f THEN [ptr |-> Wakeup, mask |-> {"read"}]
                                             ELSE NoEntry]
        /\ open = {f}
  /\ events_ = [c \in Channels |-> IF c = Wakeup THEN {"read"} ELSE {}]
  /\ index_ = [c \in Channels |-> IF c = Wakeup THEN kAdded ELSE kNew]
  /\ established = {} /\ taken = {}
  /\ events_size = InitEventListSize
  /\ active = {} /\ handling = None /\ pc = "poll"
  /\ doing = [t \in Threads |-> Idle]
  /\ exited = FALSE

-----------------------------------------------------------------------------
(* Channel::enableReading ... disableAll, as TcpConnection calls them *)

Begin(t, c, mask, removing) ==
  doing' = [doing EXCEPT ![t] = [at |-> "store", on |-> c, mask |-> mask,
                                 removing |-> removing]]

\* The loop thread makes calls from the callback it is in, or, for its own
\* channel, once loop() has returned.
CanCall(t) == /\ ~exited
              /\ doing[t].at = "idle"
              /\ t = LoopThread => handling # None

\* newConnection, in the base thread: a descriptor from accept(), a Channel for
\* it, and connectEstablished's enableReading() on the new Channel.
NewConnection(t, c) ==
  /\ t = BaseThread /\ CanCall(t)
  /\ c \in Conns /\ state[c] = "unborn" /\ taken = {}
  /\ state' = [state EXCEPT ![c] = "live"]
  /\ \E f \in Fds \ open : /\ fd_' = [fd_ EXCEPT ![c] = f]
                           /\ open' = open \cup {f}
  /\ Begin(t, c, {"read"}, FALSE)
  /\ UNCHANGED <<events_, index_, established, taken, channels_, interest, loopVars,
                 exited>>

\* Mutant: kWriteEvent has the wrong bit.
EnableWrongEvent(t, c) ==
  /\ CanCall(t)
  /\ t = BaseThread => BaseSends
  /\ c \in established /\ state[c] = "live" /\ "write" \notin events_[c]
  /\ Begin(t, c, events_[c] \cup {"hup"}, FALSE)
  /\ UNCHANGED <<chanVars, channels_, kernVars, loopVars, exited>>

\* sendInLoop could not write everything.  The user's callbacks can send on
\* the connections they have been given.
EnableWriting(t, c) ==
  /\ CanCall(t)
  /\ t = BaseThread => BaseSends
  /\ c \in established /\ state[c] = "live" /\ "write" \notin events_[c]
  /\ Begin(t, c, events_[c] \cup {"write"}, FALSE)
  /\ UNCHANGED <<chanVars, channels_, kernVars, loopVars, exited>>

\* handleWrite has emptied the output buffer.
DisableWriting(t, c) ==
  /\ CanCall(t)
  /\ t = LoopThread /\ handling = c /\ c \in Conns
  /\ "write" \in events_[c]
  /\ Begin(t, c, events_[c] \ {"write"}, FALSE)
  /\ UNCHANGED <<chanVars, channels_, kernVars, loopVars, exited>>

\* handleClose: the connection is closed, and removeConnectionInLoop leaves
\* the only reference to it in a queued functor.  A socket reports the end of
\* its stream once, so handleClose runs once per callback of a connection;
\* its own code checks no state and runs after connectDestroyed as well.
HandleClose(t, c) ==
  /\ CanCall(t)
  /\ t = LoopThread /\ handling = c /\ c \in Conns
  /\ state[c] \in {"live", "dropped"}
  /\ state' = [state EXCEPT ![c] = "closed"]
  /\ Begin(t, c, {}, FALSE)
  /\ UNCHANGED <<fd_, events_, index_, established, taken, channels_, kernVars,
                 loopVars, exited>>

\* disableAll() and remove(): ~EventLoop for the wake-up channel.
DisableAndRemove(t, c) ==
  /\ ~exited /\ doing[t].at = "idle"
  /\ t = LoopThread /\ c = Wakeup /\ pc = "stopped" /\ state[c] = "live"
  /\ state' = [state EXCEPT ![c] = "dropped"]
  /\ Begin(t, c, {}, TRUE)
  /\ UNCHANGED <<fd_, events_, index_, established, taken, channels_, kernVars,
                 loopVars, exited>>

\* ~TcpServer, in the base thread, takes a connection out of its map and calls
\* connectDestroyed.  A connection that its loop is closing is in the map until
\* removeConnectionInLoop, the last thing handleClose does.
TakeConnection(t, c) ==
  /\ t = BaseThread /\ CanCall(t) /\ BaseTearsDown
  /\ c \in established \ taken
  /\ state[c] = "live" \/ (state[c] = "closed" /\ handling = c)
  /\ taken' = taken \cup {c}
  /\ doing' = [doing EXCEPT ![t] = [at |-> "test", on |-> c, mask |-> {},
                                    removing |-> TRUE]]
  /\ UNCHANGED <<state, fd_, events_, index_, established, channels_, kernVars,
                 loopVars, exited>>

-----------------------------------------------------------------------------
(* connectDestroyed, Channel::update, updateChannel and removeChannel, one access *)
(* to shared state at a time                                                 *)

At(t, point) == ~exited /\ doing[t].at = point
GoTo(t, point) == doing' = [doing EXCEPT ![t].at = point]

\* The update is over: remove() follows, or the call returns.
EndUpdate(t) ==
  IF doing[t].removing THEN GoTo(t, "erase") ELSE doing' = [doing EXCEPT ![t] = Idle]

\* connectDestroyed's test of state_, and disableAll() if it is kConnected.  One that
\* the user has shut down is not, and one that its loop has closed is not either.
TestState(t) ==
  /\ At(t, "test")
  /\ state' = [state EXCEPT ![doing[t].on] = IF @ = "live" THEN "dropped" ELSE @]
  /\ \/ state[doing[t].on] = "live" /\ GoTo(t, "store")
     \/ GoTo(t, "erase")
  /\ UNCHANGED <<fd_, events_, index_, established, taken, channels_, kernVars,
                 loopVars, exited>>

\* events_ |= mask (or &=, =) is a load and a store: Begin computed the value.
StoreEvents(t) ==
  /\ At(t, "store")
  /\ events_' = [events_ EXCEPT ![doing[t].on] = doing[t].mask]
  /\ GoTo(t, "index")
  /\ UNCHANGED <<state, fd_, index_, established, taken, channels_, kernVars, loopVars,
                 exited>>

PathOf(index) == IF index = kNew THEN "insert"
                 ELSE IF index = kDeleted THEN "added" ELSE "branch"
ReadIndex(t) ==
  /\ At(t, "index")
  /\ GoTo(t, PathOf(index_[doing[t].on]))
  /\ UNCHANGED <<chanVars, channels_, kernVars, loopVars, exited>>

InsertInMap(t) ==
  /\ At(t, "insert")
  /\ channels_' = [channels_ EXCEPT ![fd_[doing[t].on]] = doing[t].on]
  /\ GoTo(t, "added")
  /\ UNCHANGED <<chanVars, kernVars, loopVars, exited>>

\* epoll_ctl(ADD) fails, and LOG_FATAL exits, if the descriptor is listed.
CtlAdd(c) ==
  IF Entry(c).ptr = None
  THEN /\ interest' = [interest EXCEPT ![fd_[c]] = [ptr |-> c, mask |-> events_[c]]]
       /\ exited' = exited
  ELSE /\ exited' = TRUE
       /\ interest' = interest

\* Mutant: update(EPOLL_CTL_ADD), then set_index(kAdded).
AddChannelIndexLast(t) ==
  \/ /\ At(t, "added")
     /\ CtlAdd(doing[t].on)
     /\ established' = established \cup ({doing[t].on} \cap Conns)
     /\ GoTo(t, "add")
     /\ UNCHANGED <<state, fd_, events_, index_, taken, channels_, open, loopVars>>
  \/ /\ At(t, "add")
     /\ index_' = [index_ EXCEPT ![doing[t].on] = kAdded]
     /\ EndUpdate(t)
     /\ UNCHANGED <<state, fd_, events_, established, taken, channels_, kernVars,
                    loopVars, exited>>

\* set_index(kAdded), then update(EPOLL_CTL_ADD).
AddChannel(t) ==
  \/ /\ At(t, "added")
     /\ index_' = [index_ EXCEPT ![doing[t].on] = kAdded]
     /\ GoTo(t, "add")
     /\ UNCHANGED <<state, fd_, events_, established, taken, channels_, kernVars,
                    loopVars, exited>>
  \/ /\ At(t, "add")
     /\ CtlAdd(doing[t].on)
     /\ established' = established \cup ({doing[t].on} \cap Conns)
     /\ EndUpdate(t)
     /\ UNCHANGED <<state, fd_, events_, index_, taken, channels_, open, loopVars>>

\* Mutant: updateChannel does not test isNoneEvent().
BranchToMod(t) ==
  /\ At(t, "branch")
  /\ GoTo(t, "mod")
  /\ UNCHANGED <<chanVars, channels_, kernVars, loopVars, exited>>

\* A registered channel: isNoneEvent() reads events_ again.
Branch(t) ==
  /\ At(t, "branch")
  /\ GoTo(t, IF events_[doing[t].on] = {} THEN "del" ELSE "mod")
  /\ UNCHANGED <<chanVars, channels_, kernVars, loopVars, exited>>

\* epoll_ctl(MOD) fails, and LOG_FATAL exits, if the descriptor is not listed.
ModChannel(t) ==
  /\ At(t, "mod")
  /\ LET c == doing[t].on IN
        IF Entry(c).ptr # None
        THEN /\ interest' = [interest EXCEPT ![fd_[c]] =
                               [ptr |-> c, mask |-> events_[c]]]
             /\ exited' = exited
        ELSE /\ exited' = TRUE
             /\ interest' = interest
  /\ EndUpdate(t)
  /\ UNCHANGED <<chanVars, channels_, open, loopVars>>

\* epoll_ctl(DEL); a failure is only logged.
DelChannel(t) ==
  /\ At(t, "del")
  /\ interest' = [interest EXCEPT ![fd_[doing[t].on]] = NoEntry]
  /\ GoTo(t, "deleted")
  /\ UNCHANGED <<chanVars, channels_, open, loopVars, exited>>

\* Mutant: set_index(kDeleted) is forgotten.
KeepIndex(t) ==
  /\ At(t, "deleted")
  /\ EndUpdate(t)
  /\ UNCHANGED <<chanVars, channels_, kernVars, loopVars, exited>>

SetDeleted(t) ==
  /\ At(t, "deleted")
  /\ index_' = [index_ EXCEPT ![doing[t].on] = kDeleted]
  /\ EndUpdate(t)
  /\ UNCHANGED <<state, fd_, events_, established, taken, channels_, kernVars, loopVars,
                 exited>>

EraseFromMap(t) ==
  /\ At(t, "erase")
  /\ channels_' = [channels_ EXCEPT ![fd_[doing[t].on]] = None]
  /\ GoTo(t, "rindex")
  /\ UNCHANGED <<chanVars, kernVars, loopVars, exited>>

ReadIndexToRemove(t) ==
  /\ At(t, "rindex")
  /\ GoTo(t, IF index_[doing[t].on] = kAdded THEN "rdel" ELSE "new")
  /\ UNCHANGED <<chanVars, channels_, kernVars, loopVars, exited>>

DelRemoved(t) ==
  /\ At(t, "rdel")
  /\ interest' = [interest EXCEPT ![fd_[doing[t].on]] = NoEntry]
  /\ GoTo(t, "new")
  /\ UNCHANGED <<chanVars, channels_, open, loopVars, exited>>

SetNew(t) ==
  /\ At(t, "new")
  /\ index_' = [index_ EXCEPT ![doing[t].on] = kNew]
  /\ doing' = [doing EXCEPT ![t] = Idle]
  /\ UNCHANGED <<state, fd_, events_, established, taken, channels_, kernVars, loopVars,
                 exited>>

UpdateStep(t) ==
  \/ StoreEvents(t) \/ ReadIndex(t) \/ InsertInMap(t) \/ AddChannel(t)
  \/ Branch(t) \/ ModChannel(t) \/ DelChannel(t) \/ SetDeleted(t)
  \/ EraseFromMap(t) \/ ReadIndexToRemove(t) \/ DelRemoved(t) \/ SetNew(t)

-----------------------------------------------------------------------------
(* The loop thread's iterations, and the end of a Channel *)

Reportable == {interest[f].ptr : f \in Fds} \ {None}

\* Mutant: every poll doubles the list.
GrownAlways(n, size) == 2 * size

\* A full list is doubled.
Grown(n, size) == IF n = size THEN 2 * size ELSE size

\* poll and fillActiveChannels: some of the listed channels, as many as fit.
PollReturn ==
  /\ ~exited /\ pc = "poll"
  /\ \E batch \in SUBSET Reportable :
        /\ Cardinality(batch) <= events_size
        /\ active' = batch
        /\ events_size' = Grown(Cardinality(batch), events_size)
  /\ pc' = "handle"
  /\ UNCHANGED <<chanVars, channels_, kernVars, handling, doing, exited>>

\* handleEvent; the weak pointer of tie() keeps the connection for its length.
HandleEvent(c) ==
  /\ ~exited /\ pc = "handle" /\ handling = None
  /\ c \in active /\ Alive(c)
  /\ handling' = c
  /\ active' = active \ {c}
  /\ UNCHANGED <<chanVars, channels_, kernVars, events_size, pc, doing, exited>>

HandleReturn ==
  /\ ~exited /\ handling # None /\ doing[LoopThread].at = "idle"
  /\ handling' = None
  /\ UNCHANGED <<chanVars, channels_, kernVars, events_size, active, pc, doing,
                 exited>>

\* Mutant: the functors, and what they keep, outlive the iteration.
EndIterationKeeping ==
  /\ ~exited /\ pc = "handle" /\ active = {} /\ handling = None
  /\ pc' = "poll"
  /\ UNCHANGED <<chanVars, channels_, kernVars, events_size, active, handling,
                 doing, exited>>

\* doPendingFunctors destroys the functors that keep closed connections.
EndIteration ==
  /\ ~exited /\ pc = "handle" /\ active = {} /\ handling = None
  /\ state' = [c \in Channels |-> IF state[c] = "closed" THEN "dropped" ELSE state[c]]
  /\ pc' = "poll"
  /\ UNCHANGED <<fd_, events_, index_, established, taken, channels_, kernVars,
                 events_size, active, handling, doing, exited>>

LeaveLoop ==
  /\ ~exited /\ pc = "poll"
  /\ pc' = "stopped"
  /\ UNCHANGED <<chanVars, channels_, kernVars, events_size, active, handling,
                 doing, exited>>

\* Mutant: handleEvent does not lock tie_.
FreeUntied(c) ==
  /\ ~exited
  /\ c \in Conns /\ state[c] = "dropped" /\ ~Busy(c)
  /\ state' = [state EXCEPT ![c] = "freed"]
  /\ UNCHANGED <<fd_, events_, index_, established, taken, channels_, kernVars, loopVars,
                 doing, exited>>

\* The last reference goes: ~TcpConnection destroys channel_, which tells the poller
\* nothing, ...
Free(c) ==
  /\ ~exited
  /\ c \in Conns /\ state[c] = "dropped" /\ ~Busy(c) /\ handling # c
  /\ state' = [state EXCEPT ![c] = "freed"]
  /\ UNCHANGED <<fd_, events_, index_, established, taken, channels_, kernVars, loopVars,
                 doing, exited>>

\* ... and then socket_, which closes the descriptor; the kernel unlists it.
CloseDescriptor(c) ==
  /\ ~exited
  /\ state[c] = "freed"
  /\ state' = [state EXCEPT ![c] = "gone"]
  /\ open' = open \ {fd_[c]}
  /\ interest' = [interest EXCEPT ![fd_[c]] = NoEntry]
  /\ UNCHANGED <<fd_, events_, index_, established, taken, channels_, loopVars, doing,
                 exited>>

LoopStep == PollReturn \/ EndIteration \/ \E c \in Channels : HandleEvent(c)

Next ==
  \/ \E t \in Threads :
        \/ \E c \in Channels :
              \/ NewConnection(t, c) \/ EnableWriting(t, c) \/ DisableWriting(t, c)
              \/ HandleClose(t, c) \/ DisableAndRemove(t, c)
              \/ TakeConnection(t, c)
        \/ TestState(t) \/ UpdateStep(t)
  \/ LoopStep \/ HandleReturn \/ LeaveLoop
  \/ \E c \in Channels : Free(c) \/ CloseDescriptor(c)

Spec == Init /\ [][Next]_vars

\* Threads that can run do run, callbacks return however often they send, and
\* the last holder of a connection lets it go and runs its destructor.
FairSpec ==
  /\ Spec
  /\ WF_vars(LoopStep) /\ SF_vars(HandleReturn)
  /\ \A t \in Threads : WF_vars(TestState(t) \/ UpdateStep(t))
  /\ \A c \in Channels : WF_vars(Free(c) \/ CloseDescriptor(c))

-----------------------------------------------------------------------------
(* Properties *)

\* Every variable holds a value the program can give it.
TypeOK ==
  /\ state \in [Channels -> States]
  /\ fd_ \in [Channels -> Fds \cup {None}]
  /\ events_ \in [Channels -> Masks]
  /\ index_ \in [Channels -> {kNew, kAdded, kDeleted}]
  /\ channels_ \in [Fds -> Channels \cup {None}]
  /\ interest \in [Fds -> [ptr : Channels \cup {None}, mask : Masks]]
  /\ open \subseteq Fds /\ established \subseteq Conns /\ taken \subseteq Conns
  /\ events_size \in Nat \ {0}
  /\ active \subseteq Channels /\ handling \in Channels \cup {None}
  /\ pc \in {"poll", "handle", "stopped"}
  /\ doing \in [Threads -> Calls]
  /\ exited \in BOOLEAN

\* No epoll_ctl can fail: whenever a thread is about to ADD, the descriptor is
\* not listed, and whenever it is about to MOD or DEL, it is listed for this
\* very Channel.  The base thread's ADD makes the channel visible to the loop
\* thread in the middle of updateChannel, so index_ has to be right by then.
EpollCtlSucceeds ==
  \A t \in Threads :
     /\ doing[t].at = "add" => Entry(doing[t].on).ptr = None
     /\ doing[t].at \in {"mod", "del", "rdel"} => IsRegistered(doing[t].on)

\* Between calls the kernel agrees with the Channel: listed, with the mask
\* events_, if and only if index_ is kAdded; and a deleted one wants nothing.
RegistryConsistent ==
  \A c \in Channels :
     Alive(c) /\ ~Busy(c) =>
        /\ index_[c] = kAdded => Entry(c) = [ptr |-> c, mask |-> events_[c]]
        /\ index_[c] # kAdded => ~IsRegistered(c) /\ events_[c] = {}

\* Once handleClose is over, the connection's Channel is never reported or
\* handled again, although remove() is never called for it.
ClosedIsSilent ==
  \A c \in Conns : state[c] \in {"closed", "dropped"} /\ ~Busy(c) /\ handling # c
                      => ~IsRegistered(c) /\ c \notin active

\* The raw Channel pointers in the kernel's list and in what poll returned are
\* valid, whoever destroys a connection and whenever its descriptor is reused.
PointersLive ==
  /\ \A f \in Fds : interest[f].ptr # None => Alive(interest[f].ptr)
  /\ \A c \in active \cup ({handling} \ {None}) : Alive(c)

\* However the base thread uses and tears down connections, a pointer in the kernel's
\* list belongs to the owner of the descriptor it is listed under, never to an earlier
\* one.  The Channel it points to may have been destroyed: ~TcpConnection destroys it
\* before the descriptor is closed, and a loop may have added it again by then.
ListedIsOwner ==
  \A f \in Fds : LET c == interest[f].ptr IN c # None => HoldsFd(c) /\ fd_[c] = f

\* The list handed to epoll_wait stops growing: a full batch needs as many open
\* descriptors as the list has room for.
EventListBounded ==
  events_size <= InitEventListSize \/ events_size <= 2 * Cardinality(Fds)

Life == [c \in Conns |-> IF c \notin established THEN "new"
                         ELSE IF state[c] = "live" THEN "open"
                         ELSE IF state[c] = "gone" THEN "gone" ELSE "closed"]
Watched == [c \in Conns |-> IF IsRegistered(c) THEN Entry(c).mask ELSE {}]

InterestList == INSTANCE InterestList
                  WITH life <- Life, watched <- Watched, batch <- active \cap Conns,
                       current <- IF handling \in Conns THEN handling ELSE None

\* To a connection every update of the poller is one step: none is seen half done by
\* a poll or by the other thread's updates, descriptors reused or not.
ImplementsInterestList == InterestList!Spec

\* A closed connection and its descriptor are let go of, although nobody ever
\* runs the connectDestroyed that was queued for it.
ClosedIsFreed ==
  \A c \in Conns : state[c] = "closed" ~> state[c] = "gone"

-----------------------------------------------------------------------------
(* The inductive invariant behind the safety properties, when the base thread *)
(* makes no calls on established connections                                  *)

Registrable == established \cup {Wakeup}

\* Open channels own distinct descriptors.
FdInv ==
  /\ \A c \in Channels : HoldsFd(c) => fd_[c] \in open
  /\ \A c, d \in Channels : HoldsFd(c) /\ HoldsFd(d) /\ fd_[c] = fd_[d] => c = d

\* The kernel lists only channels that are alive, under their descriptors.
KernelInv ==
  \A f \in Fds : LET c == interest[f].ptr IN
     c # None => c \in Registrable /\ Alive(c) /\ fd_[c] = f

\* A thread's call and the callback in progress keep to Channels that are alive, and the
\* kernel's list to owners of descriptors, whatever the base thread does.
HeldInv ==
  /\ FdInv /\ ListedIsOwner
  /\ \A t \in Threads : doing[t] # Idle => Alive(doing[t].on)
  /\ \A c \in active : state[c] # "unborn"
  /\ handling # None => Alive(handling)

\* The base thread is idle or on its way to the ADD of a new channel.
BaseInv ==
  LET b == doing[BaseThread] IN
  b # Idle =>
    /\ b.at \in {"store", "index", "insert", "added", "add"}
    /\ b.on \in Conns \ established /\ state[b.on] = "live"
    /\ b.mask = {"read"} /\ ~b.removing
    /\ events_[b.on] = IF b.at = "store" THEN {} ELSE {"read"}
    /\ index_[b.on] = IF b.at = "add" THEN kAdded ELSE kNew

\* The loop thread is idle, changes the mask of a live connection, or takes
\* a closed one (or, at the very end, the wake-up channel) off the list.
Modifying(l) ==
  /\ l.at \in {"store", "index", "branch", "mod"}
  /\ l.on \in established /\ state[l.on] = "live"
  /\ "read" \in l.mask /\ ~l.removing
  /\ handling # None
Closing(l) ==
  /\ l.at \in {"store", "index", "branch", "del", "deleted"}
  /\ l.on \in established /\ state[l.on] = "closed"
  /\ l.mask = {} /\ ~l.removing
  /\ handling = l.on
Removing(l) ==
  /\ l.at \in {"store", "index", "branch", "del", "deleted", "erase", "rindex", "new"}
  /\ l.on = Wakeup /\ state[l.on] = "dropped"
  /\ l.mask = {} /\ l.removing
  /\ pc = "stopped"
LoopInv ==
  LET l == doing[LoopThread] IN
  l # Idle => Modifying(l) \/ Closing(l) \/ Removing(l)

\* A new connection is in the base thread's hands until its ADD.
NewInv ==
  /\ \A c \in Conns \ established :
        \/ state[c] = "unborn" /\ index_[c] = kNew /\ events_[c] = {}
        \/ doing[BaseThread].on = c
  /\ \A c \in Registrable : state[c] # "unborn"

LiveInv ==
  \A c \in Registrable : state[c] = "live" =>
     /\ IsRegistered(c) /\ index_[c] = kAdded /\ "read" \in events_[c]
     /\ doing[LoopThread].on # c => Entry(c).mask = events_[c]

LeavingInv ==
  \A c \in Registrable : state[c] \in {"closed", "dropped"} =>
     LET l == doing[LoopThread] IN
     /\ l.on # c => ~IsRegistered(c) /\ index_[c] # kAdded /\ events_[c] = {}
     /\ l.on = c =>
          /\ l.at # "store" => events_[c] = {}
          /\ IsRegistered(c) <=> l.at \in {"store", "index", "branch", "del"}
          /\ index_[c] = IF l.at \in {"erase", "rindex", "new"} THEN kDeleted
                                                                 ELSE kAdded

ActiveInv ==
  /\ \A c \in active : c \in Registrable /\ state[c] = "live"
  /\ pc # "handle" => active = {} /\ handling = None
  /\ handling # None => /\ handling \in Registrable \ active
                        /\ state[handling] \in {"live", "closed"}

IndInv ==
  /\ TypeOK /\ ~exited
  /\ FdInv /\ KernelInv
  /\ BaseInv /\ LoopInv /\ NewInv /\ LiveInv /\ LeavingInv /\ ActiveInv

-----------------------------------------------------------------------------
(* What comments in the source say, and the code does not do *)

\* Channel.h:57: tie() prevents a Channel from running callbacks after it has
\* been removed; at the least, the loop must not be about to call a freed one.
NoCallbackAfterRemove == \A c \in active : Alive(c)
=============================================================================
