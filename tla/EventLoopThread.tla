--------------------------- MODULE EventLoopThread ---------------------------
(***************************************************************************)
(* EventLoopThread objects, each with the Thread it owns and the EventLoop *)
(* on the stack of its threadFunc, and the one thread that constructs,     *)
(* starts and destroys them.                                               *)
(*                                                                         *)
(* An EventLoop is here what its owner can tell of it: whether it exists   *)
(* and quit_.  loop() tests quit_ again and again, because its poll times  *)
(* out (see EventLoop.tla).                                                *)
(***************************************************************************)
CONSTANTS Loops,          \* the EventLoopThread objects
          None,           \* none of them
          Quitters        \* those whose callbacks may call quit() on their loop

ASSUME NoneIsNoLoop     == None \notin Loops
ASSUME QuittersAreLoops == Quitters \subseteq Loops

VARIABLES
  owner,      \* the call the owning thread is inside of: where, and on what
  worker,     \* how far the thread of each object has come
  loop_,      \* is the member loop_ set?
  quit_,      \* of each EventLoop
  signalled,  \* has cond_ been notified since the owner waits on it?
  thread_,    \* the std::thread of the member thread_
  returned,   \* objects whose startLoop() has returned the EventLoop
  alive       \* objects not destroyed yet

vars == <<owner, worker, loop_, quit_, signalled, thread_, returned, alive>>

Idle == [at |-> "idle", on |-> None]
OwnerPoints == {"semwait", "lock", "waiting", "quit", "join", "members"}
WorkerPoints == {"none", "born", "posted", "callback", "publish", "enter", "looping",
                 "unpublish", "unlock", "unwind", "done"}

\* EventLoop loop; is on the worker's stack.
LoopExists(i) ==
  worker[i] \in {"callback", "publish", "enter", "looping", "unpublish", "unlock",
                 "unwind"}

\* Mutant: the constructor does not initialise loop_.
InitUnset ==
  /\ owner = Idle
  /\ worker = [i \in Loops |-> "none"]
  /\ loop_ = [i \in Loops |-> None]
  /\ quit_ = [i \in Loops |-> FALSE]
  /\ signalled = [i \in Loops |-> FALSE]
  /\ thread_ = [i \in Loops |-> "none"]
  /\ returned = {}
  /\ alive = Loops

Init ==
  /\ owner = Idle
  /\ worker = [i \in Loops |-> "none"]
  /\ loop_ = [i \in Loops |-> FALSE]
  /\ quit_ = [i \in Loops |-> FALSE]
  /\ signalled = [i \in Loops |-> FALSE]
  /\ thread_ = [i \in Loops |-> "none"]
  /\ returned = {}
  /\ alive = Loops

-----------------------------------------------------------------------------
(* The owner: startLoop() and ~EventLoopThread *)

At(point, i) == owner = [at |-> point, on |-> i]
GoTo(point, i) == owner' = [at |-> point, on |-> i]

\* The mutex is held across steps only at the end of threadFunc.
Locked(i) == worker[i] = "unlock"

\* Thread::start creates the thread, which posts sem.
StartLoop(i) ==
  /\ owner = Idle /\ i \in alive /\ thread_[i] = "none"
  /\ thread_' = [thread_ EXCEPT ![i] = "joinable"]
  /\ worker' = [worker EXCEPT ![i] = "born"]
  /\ GoTo("semwait", i)
  /\ UNCHANGED <<loop_, quit_, signalled, returned, alive>>

\* Mutant: Thread::start does not wait for the post.
SemReturnAtOnce(i) ==
  /\ At("semwait", i)
  /\ GoTo("lock", i)
  /\ UNCHANGED <<worker, loop_, quit_, signalled, thread_, returned, alive>>

\* sem_wait returns; sem, a local variable of Thread::start, is gone.
SemReturn(i) ==
  /\ At("semwait", i) /\ worker[i] # "born"
  /\ GoTo("lock", i)
  /\ UNCHANGED <<worker, loop_, quit_, signalled, thread_, returned, alive>>

\* Under the mutex: return loop_ if it is set, and wait on cond_ otherwise.
TestLoop(i) ==
  /\ At("lock", i) /\ ~Locked(i)
  /\ IF loop_[i]
     THEN owner' = Idle /\ returned' = returned \cup {i} /\ UNCHANGED signalled
     ELSE GoTo("waiting", i) /\ signalled' = [signalled EXCEPT ![i] = FALSE]
                             /\ UNCHANGED returned
  /\ UNCHANGED <<worker, loop_, quit_, thread_, alive>>

Wake(i) ==
  /\ At("waiting", i) /\ signalled[i]
  /\ GoTo("lock", i)
  /\ UNCHANGED <<worker, loop_, quit_, signalled, thread_, returned, alive>>

\* Mutant: `if' for `while' around cond_.wait.
SpuriousWakeReturns(i) ==
  /\ At("waiting", i) /\ ~signalled[i]
  /\ owner' = Idle
  /\ returned' = returned \cup {i}
  /\ UNCHANGED <<worker, loop_, quit_, signalled, thread_, alive>>

\* cond_.wait may also return for no reason.
SpuriousWake(i) ==
  /\ At("waiting", i) /\ ~signalled[i]
  /\ GoTo("lock", i)
  /\ UNCHANGED <<worker, loop_, quit_, signalled, thread_, returned, alive>>

\* ~EventLoopThread reads loop_ without the mutex.
Destroy(i) ==
  /\ owner = Idle /\ i \in alive
  /\ GoTo(IF loop_[i] THEN "quit" ELSE "members", i)
  /\ UNCHANGED <<worker, loop_, quit_, signalled, thread_, returned, alive>>

\* Mutant: the destructor does not join.
QuitLoopUnjoined(i) ==
  /\ At("quit", i)
  /\ quit_' = [quit_ EXCEPT ![i] = LoopExists(i)]
  /\ GoTo("members", i)
  /\ UNCHANGED <<worker, loop_, signalled, thread_, returned, alive>>

\* loop_->quit() sets quit_, and wakes nobody up (see EventLoop.tla).  If a callback
\* has made the loop quit, the EventLoop may be gone: the write goes unnoticed, or
\* the behaviour ends here.
QuitLoop(i) ==
  /\ At("quit", i)
  /\ quit_' = [quit_ EXCEPT ![i] = LoopExists(i)]
  /\ GoTo("join", i)
  /\ UNCHANGED <<worker, loop_, signalled, thread_, returned, alive>>

Join(i) ==
  /\ At("join", i) /\ worker[i] = "done"
  /\ thread_' = [thread_ EXCEPT ![i] = "joined"]
  /\ GoTo("members", i)
  /\ UNCHANGED <<worker, loop_, quit_, signalled, returned, alive>>

\* Mutant: ~Thread does not detach.
ReleaseMembersAttached(i) ==
  /\ At("members", i)
  /\ alive' = alive \ {i}
  /\ owner' = Idle
  /\ UNCHANGED <<worker, loop_, quit_, signalled, thread_, returned>>

\* The members are destroyed; ~Thread detaches a thread that was started and
\* not joined.
ReleaseMembers(i) ==
  /\ At("members", i)
  /\ thread_' = [thread_ EXCEPT ![i] = IF @ = "joinable" THEN "detached" ELSE @]
  /\ alive' = alive \ {i}
  /\ owner' = Idle
  /\ UNCHANGED <<worker, loop_, quit_, signalled, returned>>

-----------------------------------------------------------------------------
(* The worker: the lambda of Thread::start, then threadFunc() *)

Advance(i, from, to) == worker[i] = from /\ worker' = [worker EXCEPT ![i] = to]

\* sem_post.
Post(i) ==
  /\ Advance(i, "born", "posted")
  /\ UNCHANGED <<owner, loop_, quit_, signalled, thread_, returned, alive>>

ConstructLoop(i) ==
  /\ Advance(i, "posted", "callback")
  /\ quit_' = [quit_ EXCEPT ![i] = FALSE]
  /\ UNCHANGED <<owner, loop_, signalled, thread_, returned, alive>>

\* callback_(&loop).
InitCallback(i) ==
  /\ Advance(i, "callback", "publish")
  /\ UNCHANGED <<owner, loop_, quit_, signalled, thread_, returned, alive>>

\* Mutant: cond_ is not notified.
PublishSilently(i) ==
  /\ ~Locked(i)
  /\ Advance(i, "publish", "enter")
  /\ loop_' = [loop_ EXCEPT ![i] = TRUE]
  /\ UNCHANGED <<owner, quit_, signalled, thread_, returned, alive>>

\* Under the mutex: loop_ is set and cond_ notified.
Publish(i) ==
  /\ ~Locked(i)
  /\ Advance(i, "publish", "enter")
  /\ loop_' = [loop_ EXCEPT ![i] = TRUE]
  /\ signalled' = [signalled EXCEPT ![i] = At("waiting", i)]
  /\ UNCHANGED <<owner, quit_, thread_, returned, alive>>

\* loop() resets quit_, whoever has set it.
EnterLoop(i) ==
  /\ Advance(i, "enter", "looping")
  /\ quit_' = [quit_ EXCEPT ![i] = FALSE]
  /\ UNCHANGED <<owner, loop_, signalled, thread_, returned, alive>>

LeaveLoop(i) ==
  /\ quit_[i]
  /\ Advance(i, "looping", "unpublish")
  /\ UNCHANGED <<owner, loop_, quit_, signalled, thread_, returned, alive>>

\* Mutant: ~EventLoopThread holds the mutex while it joins.
UnpublishUnlessJoining(i) ==
  /\ ~At("join", i)
  /\ Advance(i, "unpublish", "unlock")
  /\ loop_' = [loop_ EXCEPT ![i] = FALSE]
  /\ UNCHANGED <<owner, quit_, signalled, thread_, returned, alive>>

\* The second critical section lasts to the end of threadFunc.
Unpublish(i) ==
  /\ Advance(i, "unpublish", "unlock")
  /\ loop_' = [loop_ EXCEPT ![i] = FALSE]
  /\ UNCHANGED <<owner, quit_, signalled, thread_, returned, alive>>

Unlock(i) ==
  /\ Advance(i, "unlock", "unwind")
  /\ UNCHANGED <<owner, loop_, quit_, signalled, thread_, returned, alive>>

\* ~EventLoop, and the thread ends.
Unwind(i) ==
  /\ Advance(i, "unwind", "done")
  /\ UNCHANGED <<owner, loop_, quit_, signalled, thread_, returned, alive>>

\* threadInitCallback_, or a callback of the loop, calls quit().
CallbackQuit(i) ==
  /\ i \in Quitters /\ worker[i] \in {"callback", "looping"}
  /\ quit_' = [quit_ EXCEPT ![i] = TRUE]
  /\ UNCHANGED <<owner, worker, loop_, signalled, thread_, returned, alive>>

-----------------------------------------------------------------------------
\* What goes on without the owner's or a callback's doing.
OwnerStep(i) == SemReturn(i) \/ TestLoop(i) \/ Wake(i) \/ QuitLoop(i) \/ Join(i)
                \/ ReleaseMembers(i)
WorkerStep(i) ==
  \/ Post(i) \/ ConstructLoop(i) \/ InitCallback(i) \/ Publish(i) \/ EnterLoop(i)
  \/ LeaveLoop(i) \/ Unpublish(i) \/ Unlock(i) \/ Unwind(i)

Next ==
  \E i \in Loops : \/ StartLoop(i) \/ Destroy(i) \/ SpuriousWake(i)
                   \/ OwnerStep(i) \/ WorkerStep(i) \/ CallbackQuit(i)

Spec == Init /\ [][Next]_vars

\* Both threads run, and the init callback returns.
FairSpec == Spec /\ \A i \in Loops : WF_vars(OwnerStep(i)) /\ WF_vars(WorkerStep(i))

-----------------------------------------------------------------------------
(* Properties *)

\* Every variable holds a value the program can give it.
TypeOK ==
  /\ owner \in {Idle} \cup [at : OwnerPoints, on : Loops]
  /\ worker \in [Loops -> WorkerPoints]
  /\ loop_ \in [Loops -> BOOLEAN] /\ quit_ \in [Loops -> BOOLEAN]
  /\ signalled \in [Loops -> BOOLEAN]
  /\ thread_ \in [Loops -> {"none", "joinable", "joined", "detached"}]
  /\ returned \subseteq Loops /\ alive \subseteq Loops

\* sem is a local variable of Thread::start: the new thread must have posted it
\* before start() returns.
SemaphoreOutlivesPost == \A i \in Loops : worker[i] = "born" => At("semwait", i)

\* ~std::thread ends the process if the thread is still joinable.
NoJoinableDestroyed == \A i \in Loops \ alive : thread_[i] # "joinable"

\* The pointer startLoop() returned is good until the destructor has quit the
\* loop: the EventLoop, a local variable of another thread, exists, has been
\* initialised by the callback, and is in loop() or about to be.
ReturnedLoopRuns ==
  \A i \in (returned \cap alive) \ Quitters :
     ~At("join", i) /\ ~At("members", i) => worker[i] \in {"enter", "looping"}

\* The worker locks a mutex that is a member of the object it does not own: the
\* object must not be gone before the worker's last unlock.
ObjectOutlivesWorker ==
  \A i \in Loops \ (alive \cup Quitters) : worker[i] \in {"none", "unwind", "done"}

\* EventLoopThread.cpp:32-35: the owner never waits on cond_ for a notification that has
\* been given already: either it has one to return from, or the worker has still to set
\* loop_ and notify, whatever wake-ups came without reason before.
NoWakeupLost ==
  \A i \in Loops \ Quitters :
     At("waiting", i) /\ ~signalled[i] => worker[i] \in {"posted", "callback", "publish"}

Starting(i) == owner.on = i /\ owner.at \in {"semwait", "lock", "waiting"}
Lease(i) == IF i \notin alive THEN "over"
            ELSE IF owner.on = i /\ ~Starting(i) THEN "ending"
            ELSE IF i \in returned THEN "lent"
            ELSE IF thread_[i] = "none" THEN "none" ELSE "asked"

LoopLease == INSTANCE LoopLease
               WITH Objects <- Loops \ Quitters,
                    lease <- [i \in Loops \ Quitters |-> Lease(i)],
                    running <- {i \in Loops \ Quitters : LoopExists(i)}

\* Between the hand-shake of startLoop() and the destructor's join the loop is the owner's:
\* it is lent only once it exists, exists while it is lent, ends only because it was taken
\* back, and has ended before its object is gone.
ImplementsLoopLease == LoopLease!Spec

\* startLoop() returns, whenever the worker publishes its loop.
StartLoopReturns ==
  \A i \in Loops \ Quitters : Starting(i) ~> i \in returned

\* A destructor whose quit() comes when loop() is already running gets the
\* thread joined.
QuitLoopIsJoined ==
  \A i \in Loops : At("join", i) /\ quit_[i] /\ worker[i] = "looping" ~> i \notin alive

\* EventLoop.h:27: quit() makes the event loop return; so the destructor, which
\* calls quit() and joins, returns.
DestructorReturns ==
  \A i \in Loops : At("join", i) ~> i \notin alive

-----------------------------------------------------------------------------
(* The inductive invariant behind the safety properties *)

On(i) == owner.on = i

\* The handle, the flag loop_ and the two call paths of one object.
ObjectInv ==
  \A i \in Loops :
     /\ thread_[i] = "none" <=> worker[i] = "none"
     /\ worker[i] = "born" => At("semwait", i)
     /\ loop_[i] <=> worker[i] \in {"enter", "looping", "unpublish"}
     /\ On(i) => i \in alive
     /\ On(i) /\ owner.at \in {"semwait", "lock", "waiting", "quit", "join"}
           => thread_[i] = "joinable"
     /\ thread_[i] \in {"joined", "detached"} => i \notin alive \/ At("members", i)
     /\ i \notin alive => thread_[i] # "joinable"
     /\ i \in alive => (i \in returned <=> thread_[i] # "none" /\ ~Starting(i))

\* Only the destructor ends the loop of an object whose callbacks do not, and it waits
\* for the end of the thread.
LoopInv ==
  \A i \in Loops \ Quitters :
     /\ quit_[i] => At("join", i) \/ worker[i] = "done"
     /\ worker[i] \in {"unpublish", "unlock", "unwind", "done"} =>
          \/ At("join", i)
          \/ (At("members", i) \/ i \notin alive) /\ worker[i] = "done"
     /\ At("quit", i) => worker[i] \in {"enter", "looping"}
     /\ At("members", i) \/ i \notin alive => worker[i] \in {"none", "done"}
     /\ At("join", i) =>
          worker[i] \in {"enter", "looping", "unpublish", "unlock", "unwind", "done"}
     /\ i \in alive /\ ~On(i) => worker[i] \in {"none", "enter", "looping"}
     /\ i \in returned => worker[i] \notin {"none", "born", "posted", "callback",
                                             "publish"}

IndInv == TypeOK /\ ObjectInv /\ LoopInv
=============================================================================
