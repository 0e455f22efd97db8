----------------------------- MODULE EventLoop ------------------------------
(***************************************************************************)
(* EventLoop: one reactor thread that alternates between polling, handling *)
(* the active channels and draining the functors other code queued, and    *)
(* the calls that any thread makes on it (runInLoop, queueInLoop, quit).   *)
(*                                                                         *)
(* Threads interleave at the accesses to shared state: the atomics         *)
(* looping_, quit_ and callingPendingFunctors_, the vector under mutex_,   *)
(* and the eventfd.  Each critical section of mutex_ is one access, so it  *)
(* is one step and the lock itself needs no variable.                      *)
(***************************************************************************)
EXTENDS Naturals, FiniteSets, Sequences, SequencesExt

CONSTANTS LoopThread,     \* the thread that constructs and runs the loop
          OtherThreads,   \* threads that call into it
          Functors,       \* the callbacks handed over, each one once
          IoChannels,     \* channels registered besides the wake-up channel
          Wakeup,         \* the wake-up channel
          NoFunctor,      \* no callback, no thread
          EventFdMax      \* largest value the eventfd counter can hold

Threads  == {LoopThread} \cup OtherThreads
Channels == {Wakeup} \cup IoChannels

ASSUME ThreadsDiffer    == LoopThread \notin OtherThreads
ASSUME WakeupIsNotIo    == Wakeup \notin IoChannels
ASSUME NoFunctorIsNone  == NoFunctor \notin Functors \cup Threads
ASSUME ChannelsFinite   == IsFiniteSet(IoChannels)
ASSUME EventFdMaxIsNat  == EventFdMax \in Nat \ {0}

VARIABLES
  looping_, quit_, callingPendingFunctors_,
  pendingFunctors_,   \* vector guarded by mutex_
  functors,           \* doPendingFunctors' local vector
  wakeupFd_,          \* counter of the eventfd
  activeChannels_,    \* what the last poll returned
  cursor,             \* position of the range-for over activeChannels_
  ready,              \* IO channels the kernel has events for
  pc,                 \* where the loop thread is
  call,               \* the queueInLoop or quit each thread is inside of
  \* history, read by the properties only
  posted, released, poster, ranBy, called, woke

loopVars    == <<looping_, quit_, callingPendingFunctors_, activeChannels_,
                 cursor, pc>>
historyVars == <<posted, released, poster, ranBy, called, woke>>
queueVars   == <<pendingFunctors_, functors>>
vars == <<loopVars, queueVars, wakeupFd_, ready, call, historyVars>>

PCs == {"constructed", "entered", "while", "poll", "handle", "swap",
        "calling", "release", "left", "stopped", "destroyed"}

\* A thread inside queueInLoop has appended its functor and is about to read
\* the flag ("check") or to write the eventfd ("wake"); quit() has "wake" too.
Idle  == [at |-> "idle", functor |-> NoFunctor]
Calls == [at : {"idle", "check", "wake"}, functor : Functors \cup {NoFunctor}]

-----------------------------------------------------------------------------
(* Thread identity *)

\* cacheTid() tests the address of the function cacheTid, not t_cachedTid;
\* no function is at address 0, so the thread id is never fetched.
AddressOfCacheTid == 1
CacheTid(t, cached) == IF AddressOfCacheTid = 0 THEN t ELSE cached

\* The thread-local t_cachedTid starts at 0 and only cacheTid() writes it.
tid(t) == CacheTid(t, 0)

threadId_ == tid(LoopThread)
isInLoopThread(t) == threadId_ = tid(t)

-----------------------------------------------------------------------------
Init ==
  /\ looping_ = FALSE /\ quit_ = FALSE /\ callingPendingFunctors_ = FALSE
  /\ pendingFunctors_ = <<>> /\ functors = <<>>
  /\ wakeupFd_ = 0
  /\ activeChannels_ = <<>> /\ cursor = 1
  /\ ready = {}
  /\ pc = "constructed"
  /\ call = [t \in Threads |-> Idle]
  /\ posted = <<>> /\ released = <<>>
  /\ poster = [f \in Functors |-> NoFunctor]
  /\ ranBy = [f \in Functors |-> NoFunctor]
  /\ called = {} /\ woke = {}

AtChannel(c) == /\ pc = "handle"
                /\ cursor \in DOMAIN activeChannels_
                /\ activeChannels_[cursor] = c

InCallback == \E c \in IoChannels : AtChannel(c)

\* The loop thread can call its own loop before loop() starts, after it has
\* returned, and from the callback of an IO channel.
MayCall(t) ==
  /\ pc # "destroyed"
  /\ call[t] = Idle
  /\ t = LoopThread => pc \in {"constructed", "stopped"} \/ InCallback

Fresh(f) == poster[f] = NoFunctor /\ ranBy[f] = NoFunctor

-----------------------------------------------------------------------------
(* Calls, by any thread *)

\* Mutant: emplace_back() without cb, which appends an empty function object.
EmplaceEmpty(t, f) ==
  /\ pendingFunctors_' = Append(pendingFunctors_, NoFunctor)
  /\ posted' = Append(posted, f)
  /\ poster' = [poster EXCEPT ![f] = t]
  /\ call' = [call EXCEPT ![t] = [at |-> "check", functor |-> f]]

\* emplace_back under mutex_: what queueInLoop does before it tests the flag.
Emplace(t, f) ==
  /\ pendingFunctors_' = Append(pendingFunctors_, f)
  /\ posted' = Append(posted, f)
  /\ poster' = [poster EXCEPT ![f] = t]
  /\ call' = [call EXCEPT ![t] = [at |-> "check", functor |-> f]]

\* runInLoop: cb() on the caller's stack when the loop takes the caller for
\* its own thread, queueInLoop(cb) otherwise.
RunInLoop(t, f) ==
  /\ MayCall(t) /\ Fresh(f)
  /\ IF isInLoopThread(t)
     THEN /\ ranBy' = [ranBy EXCEPT ![f] = t]
          /\ UNCHANGED <<pendingFunctors_, call, posted, poster>>
     ELSE Emplace(t, f) /\ UNCHANGED ranBy
  /\ UNCHANGED <<loopVars, functors, wakeupFd_, ready, released, called, woke>>

\* queueInLoop, first half.
QueueInLoop(t, f) ==
  /\ MayCall(t) /\ Fresh(f)
  /\ Emplace(t, f)
  /\ UNCHANGED <<loopVars, functors, wakeupFd_, ready, released, ranBy, called,
                 woke>>

\* queueInLoop, second half, outside the lock: does the loop need a wake-up?
MustWake(t) == ~isInLoopThread(t) \/ callingPendingFunctors_
QueueCheck(t) ==
  /\ call[t].at = "check"
  /\ call' = [call EXCEPT ![t] = IF MustWake(t) THEN [@ EXCEPT !.at = "wake"]
                                                ELSE Idle]
  /\ UNCHANGED <<loopVars, queueVars, wakeupFd_, ready, historyVars>>

\* wakeup: add 1 to the eventfd.  At its maximum a non-blocking write fails
\* with EAGAIN, which is logged and leaves the counter alone.
AfterWrite(n) == IF n < EventFdMax THEN n + 1 ELSE n
WakeUp(t) ==
  /\ call[t].at = "wake"
  /\ wakeupFd_' = AfterWrite(wakeupFd_)
  /\ woke' = woke \cup ({call[t].functor} \ {NoFunctor})
  /\ call' = [call EXCEPT ![t] = Idle]
  /\ UNCHANGED <<loopVars, queueVars, ready, posted, released, poster, ranBy,
                 called>>

\* quit: set the flag, and wake the loop if the caller is another thread.
Quit(t) ==
  /\ MayCall(t)
  /\ quit_' = TRUE
  /\ call' = IF isInLoopThread(t)
             THEN call
             ELSE [call EXCEPT ![t] = [at |-> "wake", functor |-> NoFunctor]]
  /\ UNCHANGED <<looping_, callingPendingFunctors_, activeChannels_, cursor, pc,
                 queueVars, wakeupFd_, ready, historyVars>>

-----------------------------------------------------------------------------
(* The loop thread *)

\* loop() stores looping_ and quit_ one after the other.
EnterLoop ==
  /\ pc \in {"constructed", "stopped"} /\ call[LoopThread] = Idle
  /\ looping_' = TRUE
  /\ pc' = "entered"
  /\ UNCHANGED <<quit_, callingPendingFunctors_, activeChannels_, cursor,
                 queueVars, wakeupFd_, ready, call, historyVars>>

ResetQuit ==
  /\ pc = "entered"
  /\ quit_' = FALSE
  /\ pc' = "while"
  /\ UNCHANGED <<looping_, callingPendingFunctors_, activeChannels_, cursor,
                 queueVars, wakeupFd_, ready, call, historyVars>>

\* Mutant: loop() forgets activeChannels_.clear().
TestQuitKeepingActive ==
  /\ pc = "while"
  /\ pc' = IF quit_ THEN "left" ELSE "poll"
  /\ UNCHANGED <<looping_, quit_, callingPendingFunctors_, activeChannels_,
                 cursor, queueVars, wakeupFd_, ready, call, historyVars>>

TestQuit ==
  /\ pc = "while"
  /\ IF quit_ THEN /\ pc' = "left"
                   /\ UNCHANGED activeChannels_
              ELSE /\ pc' = "poll"
                   /\ activeChannels_' = <<>>
  /\ UNCHANGED <<looping_, quit_, callingPendingFunctors_, cursor, queueVars,
                 wakeupFd_, ready, call, historyVars>>

\* epoll is level-triggered: the wake-up channel is reported for as long as
\* the eventfd counter is positive.
ReadyChannels == ready \cup (IF wakeupFd_ > 0 THEN {Wakeup} ELSE {})

\* epoll_wait reports the ready channels in some order.
PollReturn ==
  /\ pc = "poll" /\ ReadyChannels # {}
  /\ \E batch \in SetToSeqs(ReadyChannels) :
        activeChannels_' = activeChannels_ \o batch
  /\ cursor' = 1
  /\ pc' = "handle"
  /\ UNCHANGED <<looping_, quit_, callingPendingFunctors_, queueVars, wakeupFd_,
                 ready, call, historyVars>>

\* Mutant: the poll has no time-out.
PollForever == FALSE

\* kPollTimesMs elapse, or a signal interrupts epoll_wait: nothing is active.
PollEmpty ==
  /\ pc = "poll"
  /\ cursor' = 1
  /\ pc' = "handle"
  /\ UNCHANGED <<looping_, quit_, callingPendingFunctors_, activeChannels_,
                 queueVars, wakeupFd_, ready, call, historyVars>>

\* handleRead: reading the eventfd returns the counter and clears it.
HandleRead ==
  /\ AtChannel(Wakeup)
  /\ wakeupFd_' = 0
  /\ cursor' = cursor + 1
  /\ UNCHANGED <<looping_, quit_, callingPendingFunctors_, activeChannels_, pc,
                 queueVars, ready, call, historyVars>>

\* The callback of an IO channel returns; it may leave its fd ready.
HandleIo ==
  /\ \E c \in IoChannels : AtChannel(c) /\ ready' \in {ready, ready \ {c}}
  /\ call[LoopThread] = Idle
  /\ cursor' = cursor + 1
  /\ UNCHANGED <<looping_, quit_, callingPendingFunctors_, activeChannels_, pc,
                 queueVars, wakeupFd_, call, historyVars>>

\* Mutant: loop() drains only after a poll that returned something.
BeginDrainIfActive ==
  /\ pc = "handle" /\ cursor \notin DOMAIN activeChannels_
  /\ callingPendingFunctors_' = (activeChannels_ # <<>>)
  /\ pc' = IF activeChannels_ # <<>> THEN "swap" ELSE "while"
  /\ UNCHANGED <<looping_, quit_, activeChannels_, cursor, queueVars, wakeupFd_,
                 ready, call, historyVars>>

\* doPendingFunctors, up to the lock.
BeginDrain ==
  /\ pc = "handle" /\ cursor \notin DOMAIN activeChannels_
  /\ callingPendingFunctors_' = TRUE
  /\ pc' = "swap"
  /\ UNCHANGED <<looping_, quit_, activeChannels_, cursor, queueVars, wakeupFd_,
                 ready, call, historyVars>>

Swap ==
  /\ pc = "swap"
  /\ functors' = pendingFunctors_
  /\ pendingFunctors_' = functors
  /\ pc' = "calling"
  /\ UNCHANGED <<looping_, quit_, callingPendingFunctors_, activeChannels_,
                 cursor, wakeupFd_, ready, call, historyVars>>

\* The body of the for loop is `Functor();`, which makes and destroys an empty
\* function object: whatever fs holds, none of it is called.
CalledBy(fs) == {}
CallFunctors ==
  /\ pc = "calling"
  /\ called' = called \cup CalledBy(functors)
  /\ callingPendingFunctors_' = FALSE
  /\ pc' = "release"
  /\ UNCHANGED <<looping_, quit_, activeChannels_, cursor, queueVars, wakeupFd_,
                 ready, call, posted, released, poster, ranBy, woke>>

\* Mutant: functors is a member that is not cleared, so that the next swap
\* puts the old functors back in the queue.
ReleaseUncleared ==
  /\ pc = "release"
  /\ released' = released \o functors
  /\ pc' = "while"
  /\ UNCHANGED <<looping_, quit_, callingPendingFunctors_, activeChannels_,
                 cursor, queueVars, wakeupFd_, ready, call, posted, poster,
                 ranBy, called, woke>>

\* Mutant: the eventfd is drained after the functors instead of before.
ReleaseThenRead ==
  /\ pc = "release"
  /\ released' = released \o functors
  /\ functors' = <<>>
  /\ wakeupFd_' = 0
  /\ pc' = "while"
  /\ UNCHANGED <<looping_, quit_, callingPendingFunctors_, activeChannels_,
                 cursor, pendingFunctors_, ready, call, posted, poster, ranBy,
                 called, woke>>

\* doPendingFunctors returns: the vector and what its functors own go away.
Release ==
  /\ pc = "release"
  /\ released' = released \o functors
  /\ functors' = <<>>
  /\ pc' = "while"
  /\ UNCHANGED <<looping_, quit_, callingPendingFunctors_, activeChannels_,
                 cursor, pendingFunctors_, wakeupFd_, ready, call, posted,
                 poster, ranBy, called, woke>>

LeaveLoop ==
  /\ pc = "left"
  /\ looping_' = FALSE
  /\ pc' = "stopped"
  /\ UNCHANGED <<quit_, callingPendingFunctors_, activeChannels_, cursor,
                 queueVars, wakeupFd_, ready, call, historyVars>>

\* ~EventLoop, once nobody is inside a call: the eventfd is closed and the
\* queued functors are destroyed with their vector.
Destroy ==
  /\ pc \in {"constructed", "stopped"} /\ \A t \in Threads : call[t] = Idle
  /\ wakeupFd_' = 0
  /\ released' = released \o pendingFunctors_
  /\ pendingFunctors_' = <<>>
  /\ pc' = "destroyed"
  /\ UNCHANGED <<looping_, quit_, callingPendingFunctors_, activeChannels_,
                 cursor, functors, ready, call, posted, poster, ranBy, called,
                 woke>>

-----------------------------------------------------------------------------
\* The kernel: an IO channel gets an event.
IoReady(c) ==
  /\ pc # "destroyed"
  /\ ready' = ready \cup {c}
  /\ UNCHANGED <<loopVars, queueVars, wakeupFd_, call, historyVars>>

LoopStep == \/ EnterLoop \/ ResetQuit \/ TestQuit \/ PollReturn \/ PollEmpty
            \/ HandleRead \/ HandleIo \/ BeginDrain \/ Swap \/ CallFunctors
            \/ Release \/ LeaveLoop

FinishCall(t) == QueueCheck(t) \/ WakeUp(t)

Next ==
  \/ \E t \in Threads :
        \/ \E f \in Functors : RunInLoop(t, f) \/ QueueInLoop(t, f)
        \/ FinishCall(t)
        \/ Quit(t)
  \/ LoopStep
  \/ Destroy
  \/ \E c \in IoChannels : IoReady(c)

Spec == Init /\ [][Next]_vars

\* The scheduler runs every thread that can run, and epoll_wait always
\* returns, after kPollTimesMs at the latest.  Nothing makes a program call
\* loop() a second time, destroy the loop, or make any other call.
FairSpec ==
  /\ Spec
  /\ WF_vars(LoopStep /\ pc # "stopped")
  /\ \A t \in Threads : WF_vars(FinishCall(t))

-----------------------------------------------------------------------------
(* Properties *)

\* Every variable holds a value the program can give it: the queue and the vector a
\* drain swaps it with hold functors handed over, never an empty function object.
TypeOK ==
  /\ looping_ \in BOOLEAN /\ quit_ \in BOOLEAN
  /\ callingPendingFunctors_ \in BOOLEAN
  /\ pendingFunctors_ \in Seq(Functors) /\ functors \in Seq(Functors)
  /\ wakeupFd_ \in 0 .. EventFdMax
  /\ activeChannels_ \in Seq(Channels) /\ cursor \in Nat \ {0}
  /\ ready \subseteq IoChannels
  /\ pc \in PCs
  /\ call \in [Threads -> Calls]
  /\ posted \in Seq(Functors) /\ released \in Seq(Functors)
  /\ poster \in [Functors -> Threads \cup {NoFunctor}]
  /\ ranBy \in [Functors -> Threads \cup {NoFunctor}]
  /\ called \subseteq Functors /\ woke \subseteq Functors

\* Whatever the interleaving of producers with the swap, the functors posted
\* are, in the order in which the mutex admitted them, those let go of by
\* earlier drains, those in the drain under way and those still queued.
FifoConservation == posted = released \o functors \o pendingFunctors_

\* handleRead never finds the eventfd empty, so its "reads %ld bytes instead
\* of 8" branch is dead: the counter is positive from the poll that reported
\* the wake-up channel to the read, and no poll reports the channel twice.
NoShortWakeupRead == AtChannel(Wakeup) => wakeupFd_ > 0

\* A wake-up outlives its functor.  Once queueInLoop has written the eventfd
\* for a functor, the counter stays positive until the iteration that swaps
\* this functor out: the read that clears the counter comes before the swap,
\* so it can only consume wake-ups whose functors the same iteration takes.
WakeCoversPending ==
  pc \notin {"handle", "swap"} /\ woke \cap ToSet(pendingFunctors_) # {}
     => wakeupFd_ > 0

\* The functor queue is a mailbox: EventLoop implements FunctorMailbox with
\* the two vectors read one after the other as the box.
Mailbox == INSTANCE FunctorMailbox WITH box <- functors \o pendingFunctors_,
                                        gone <- released
ImplementsMailbox == Mailbox!Spec

\* A queued functor is let go of, with what it owns, unless loop() returns
\* first: even without a wake-up the poll's time-out brings the drain.
PostedIsReleased ==
  \A f \in Functors :
     f \in ToSet(posted) ~> f \in ToSet(released) \/ pc = "stopped"

\* A quit() made after loop() has reset the flag makes loop() return.
Running == pc \notin {"constructed", "entered", "stopped", "destroyed"}
QuitStopsLoop == (quit_ /\ Running) ~> pc = "stopped"

-----------------------------------------------------------------------------
(* The inductive invariant behind FifoConservation, NoShortWakeupRead and    *)
(* WakeCoversPending                                                         *)

FunctorsOnlyInDrain == pc \notin {"calling", "release"} => functors = <<>>

ActiveOnce == \A i, j \in DOMAIN activeChannels_ :
                 i # j => activeChannels_[i] # activeChannels_[j]
ActiveCleared == pc = "poll" => activeChannels_ = <<>>

\* While the wake-up channel is still ahead of the cursor, nobody has read
\* the eventfd since the poll that reported it.
WakeupAhead == \A i \in DOMAIN activeChannels_ :
                  pc = "handle" /\ i >= cursor /\ activeChannels_[i] = Wakeup
                     => wakeupFd_ > 0

\* A functor that is being woken for, or has been, is no longer fresh.
CallsPosted == \A t \in Threads :
                  call[t].functor # NoFunctor
                     => poster[call[t].functor] # NoFunctor
WokeWerePosted == \A f \in woke : poster[f] # NoFunctor

IndInv ==
  /\ TypeOK
  /\ FifoConservation
  /\ FunctorsOnlyInDrain
  /\ ActiveOnce /\ ActiveCleared /\ WakeupAhead
  /\ CallsPosted /\ WokeWerePosted
  /\ WakeCoversPending

-----------------------------------------------------------------------------
(* What comments in the source say, and the code does not do *)

\* EventLoop.h:34: a functor put in the queue is executed by the loop.  The
\* drain destroys the functors without calling them.
ReleasedWereCalled == pc = "while" => ToSet(released) \subseteq called
=============================================================================
