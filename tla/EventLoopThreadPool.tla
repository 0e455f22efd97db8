------------------------- MODULE EventLoopThreadPool -------------------------
(***************************************************************************)
(* The pool of a TcpServer: the base thread starts numThreads_             *)
(* EventLoopThreads one after the other, hands their loops out in turn to  *)
(* new connections, and destroys them one after the other.  What happens   *)
(* inside each startLoop() and each destructor is EventLoopThread's.       *)
(***************************************************************************)
EXTENDS Integers, Sequences, FiniteSetsExt

CONSTANTS MaxThreads,  \* bound: of what setThreadNum() is given
          MaxGiven     \* bound: connections counted per loop

ASSUME MaxThreadsIsNat == MaxThreads \in Nat
ASSUME MaxGivenIsNat   == MaxGiven \in Nat

Threads == 1 .. MaxThreads
baseLoop_ == 0      \* the loop of the base thread; the others are numbered

VARIABLES
  numThreads_,
  stage,     \* of the pool: "built", "starting", "started", "stopping", "gone"
  loops_,    \* the loops startLoop() has returned
  next_,     \* index of the next one to hand out, from 0
  given,     \* how many connections each loop has been given (history)
  owner, worker, loop_, quit_, signalled, thread_, returned, alive

threadVars == <<owner, worker, loop_, quit_, signalled, thread_, returned, alive>>
vars == <<numThreads_, stage, loops_, next_, given, threadVars>>

Thread == INSTANCE EventLoopThread
            WITH Loops <- Threads, None <- baseLoop_, Quitters <- {}

Init ==
  /\ Thread!Init
  /\ numThreads_ = 0
  /\ stage = "built" /\ loops_ = <<>> /\ next_ = 0
  /\ given = [l \in Threads \cup {baseLoop_} |-> 0]

-----------------------------------------------------------------------------
Idle == owner = Thread!Idle

\* The user sets the number between calls; start() has read it once it is over.
SetThreadNum ==
  /\ Idle /\ stage \in {"built", "started"}
  /\ numThreads_' \in 0 .. MaxThreads
  /\ UNCHANGED <<stage, loops_, next_, given, threadVars>>

Start ==
  /\ Idle /\ stage = "built"
  /\ stage' = "starting"
  /\ UNCHANGED <<numThreads_, loops_, next_, given, threadVars>>

\* The next EventLoopThread, and its startLoop().
StartNext ==
  /\ Idle /\ stage = "starting" /\ Len(loops_) < numThreads_
  /\ Thread!StartLoop(Len(loops_) + 1)
  /\ UNCHANGED <<numThreads_, stage, loops_, next_, given>>

\* Mutant: startLoop() does not wait for loop_ to be set.
InStartLoopUnwaited(i) ==
  /\ stage = "starting"
  /\ Thread!SemReturn(i) \/ Thread!TestLoop(i) \/ Thread!Wake(i)
  /\ loops_' = IF owner.at = "semwait" THEN Append(loops_, i) ELSE loops_
  /\ UNCHANGED <<numThreads_, stage, next_, given>>

\* A step inside the current startLoop(), whose result is pushed to loops_.
InStartLoop(i) ==
  /\ stage = "starting"
  /\ Thread!SemReturn(i) \/ Thread!TestLoop(i) \/ Thread!Wake(i)
  /\ loops_' = IF returned' = returned THEN loops_ ELSE Append(loops_, i)
  /\ UNCHANGED <<numThreads_, stage, next_, given>>

SpuriousWake(i) ==
  /\ stage = "starting"
  /\ Thread!SpuriousWake(i)
  /\ UNCHANGED <<numThreads_, stage, loops_, next_, given>>

FinishStart ==
  /\ Idle /\ stage = "starting" /\ Len(loops_) >= numThreads_
  /\ stage' = "started"
  /\ UNCHANGED <<numThreads_, loops_, next_, given, threadVars>>

NextLoop == IF loops_ = <<>> THEN baseLoop_ ELSE loops_[next_ + 1]

\* Mutant: the last loop is left out.
GetNextLoopShort ==
  /\ Idle /\ stage = "started"
  /\ given[NextLoop] < MaxGiven
  /\ given' = [given EXCEPT ![NextLoop] = @ + 1]
  /\ next_' = IF next_ + 1 >= Len(loops_) - 1 THEN 0 ELSE next_ + 1
  /\ UNCHANGED <<numThreads_, stage, loops_, threadVars>>

\* Mutant: `>' for `>=' in the test for the end of loops_.
GetNextLoopOver ==
  /\ Idle /\ stage = "started"
  /\ given[NextLoop] < MaxGiven
  /\ given' = [given EXCEPT ![NextLoop] = @ + 1]
  /\ next_' = IF next_ + 1 > Len(loops_) THEN 0 ELSE next_ + 1
  /\ UNCHANGED <<numThreads_, stage, loops_, threadVars>>

\* getNextLoop(), for a new connection.
GetNextLoop ==
  /\ Idle /\ stage = "started"
  /\ given[NextLoop] < MaxGiven
  /\ given' = [given EXCEPT ![NextLoop] = @ + 1]
  /\ next_' = IF next_ + 1 >= Len(loops_) THEN 0 ELSE next_ + 1
  /\ UNCHANGED <<numThreads_, stage, loops_, threadVars>>

\* The pool goes with its server; one that was not started has no threads.
Destroy ==
  /\ Idle /\ stage \in {"built", "started"}
  /\ stage' = IF stage = "built" THEN "gone" ELSE "stopping"
  /\ UNCHANGED <<numThreads_, loops_, next_, given, threadVars>>

\* The elements of threads_, one for each loop, are destroyed in their order.
Remaining == alive \cap (1 .. Len(loops_))

DestroyNext ==
  /\ Idle /\ stage = "stopping" /\ Remaining # {}
  /\ Thread!Destroy(Min(Remaining))
  /\ UNCHANGED <<numThreads_, stage, loops_, next_, given>>

InDestructor(i) ==
  /\ stage = "stopping"
  /\ Thread!QuitLoop(i) \/ Thread!Join(i) \/ Thread!ReleaseMembers(i)
  /\ UNCHANGED <<numThreads_, stage, loops_, next_, given>>

FinishDestroy ==
  /\ Idle /\ stage = "stopping" /\ Remaining = {}
  /\ stage' = "gone"
  /\ UNCHANGED <<numThreads_, loops_, next_, given, threadVars>>

WorkerStep(i) ==
  /\ Thread!WorkerStep(i)
  /\ UNCHANGED <<numThreads_, stage, loops_, next_, given>>

\* What start() and the destructor do.
StartStep == StartNext \/ FinishStart \/ \E i \in Threads : InStartLoop(i)
DestroyStep == DestroyNext \/ FinishDestroy \/ \E i \in Threads : InDestructor(i)

Next ==
  \/ SetThreadNum \/ Start \/ StartStep \/ GetNextLoop \/ Destroy \/ DestroyStep
  \/ \E i \in Threads : SpuriousWake(i) \/ WorkerStep(i)

Spec == Init /\ [][Next]_vars

-----------------------------------------------------------------------------
(* Properties *)

\* Every variable holds a value the program can give it; in particular next_ is
\* a valid index as soon as there are loops.
TypeOK ==
  /\ Thread!TypeOK
  /\ numThreads_ \in 0 .. MaxThreads
  /\ stage \in {"built", "starting", "started", "stopping", "gone"}
  /\ loops_ \in Seq(Threads)
  /\ next_ \in Nat /\ (next_ # 0 => next_ < Len(loops_))
  /\ given \in [Threads \cup {baseLoop_} -> Nat]

\* Round robin: the loops of the pool differ by at most one connection, and the
\* base loop gets connections only when there is no other.
Balanced ==
  /\ \A j, k \in 1 .. Len(loops_) : given[loops_[j]] <= given[loops_[k]] + 1
  /\ given[baseLoop_] > 0 => loops_ = <<>>

\* Every loop in loops_ runs until the pool is destroyed: a connection is never
\* given to an EventLoop that does not exist yet, or any more.
GivenLoopsRun ==
  stage \in {"starting", "started"} =>
    \A k \in 1 .. Len(loops_) : worker[loops_[k]] \in {"enter", "looping"}

-----------------------------------------------------------------------------
(* The inductive invariant behind the safety properties *)

\* The calls the base thread can be inside of, and the loops it has by then.
CallInv ==
  /\ stage \in {"built", "starting", "started", "stopping", "gone"}
  /\ loops_ \in Seq(Threads) /\ \A k \in 1 .. Len(loops_) : loops_[k] = k
  /\ numThreads_ \in 0 .. MaxThreads
  /\ stage = "built" => loops_ = <<>>
  /\ stage \in {"built", "started"} => Idle
  /\ stage = "starting" /\ ~Idle =>
       owner.on = Len(loops_) + 1 /\ owner.at \in {"semwait", "lock", "waiting"}
  /\ stage \in {"built", "starting", "started"} => alive = Threads
  /\ \A k \in 1 .. Len(loops_) : k \in returned

\* The loops before next_ are one connection ahead of the others.
TurnInv ==
  /\ given \in [Threads \cup {baseLoop_} -> Nat]
  /\ next_ \in Nat /\ (next_ # 0 => next_ < Len(loops_))
  /\ stage \in {"built", "starting"} =>
       next_ = 0 /\ \A l \in Threads \cup {baseLoop_} : given[l] = 0
  /\ \A j, k \in 1 .. Len(loops_) :
       /\ (j <= next_ <=> k <= next_) => given[j] = given[k]
       /\ j <= next_ /\ next_ < k => given[j] = given[k] + 1
  /\ given[baseLoop_] > 0 => loops_ = <<>>

IndInv == CallInv /\ TurnInv
=============================================================================
