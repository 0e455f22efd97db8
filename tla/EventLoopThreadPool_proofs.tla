---------------------- MODULE EventLoopThreadPool_proofs ----------------------
(***************************************************************************)
(* The round robin of the pool, and the life of the loops it hands out:    *)
(* proofs for any number of threads.                                       *)
(***************************************************************************)
EXTENDS EventLoopThreadPool, TLAPS

\* The theorems about EventLoopThread, for the threads of this pool.
Proved == INSTANCE EventLoopThread_proofs
            WITH Loops <- Threads, None <- baseLoop_, Quitters <- {}

\* baseLoop_ is none of the threads.
LEMMA BaseLoopApart == baseLoop_ \notin Threads
  BY DEF baseLoop_, Threads

\* A step of a pool's threads is a step of EventLoopThread.
LEMMA ThreadActions ==
  ASSUME NEW i \in Threads,
         \/ Thread!StartLoop(i) \/ Thread!SemReturn(i) \/ Thread!TestLoop(i)
         \/ Thread!Wake(i) \/ Thread!SpuriousWake(i) \/ Thread!Destroy(i)
         \/ Thread!QuitLoop(i) \/ Thread!Join(i) \/ Thread!ReleaseMembers(i)
         \/ Thread!WorkerStep(i)
  PROVE  Proved!Next
<1> SUFFICES \/ Proved!StartLoop(i) \/ Proved!Destroy(i) \/ Proved!SpuriousWake(i)
             \/ Proved!OwnerStep(i) \/ Proved!WorkerStep(i)
  BY DEF Proved!Next
<1> USE DEF Thread!Idle, Thread!At, Thread!GoTo, Thread!Locked, Thread!LoopExists,
            Thread!Advance, Proved!Idle, Proved!At, Proved!GoTo, Proved!Locked,
            Proved!LoopExists, Proved!Advance
<1>1. CASE Thread!StartLoop(i) \/ Thread!Destroy(i) \/ Thread!SpuriousWake(i)
  BY <1>1 DEF Thread!StartLoop, Thread!Destroy, Thread!SpuriousWake,
              Proved!StartLoop, Proved!Destroy, Proved!SpuriousWake
<1>2. CASE Thread!SemReturn(i) \/ Thread!TestLoop(i) \/ Thread!Wake(i)
  BY <1>2 DEF Thread!SemReturn, Thread!TestLoop, Thread!Wake,
              Proved!SemReturn, Proved!TestLoop, Proved!Wake, Proved!OwnerStep
<1>3. CASE Thread!QuitLoop(i) \/ Thread!Join(i) \/ Thread!ReleaseMembers(i)
  BY <1>3 DEF Thread!QuitLoop, Thread!Join, Thread!ReleaseMembers,
              Proved!QuitLoop, Proved!Join, Proved!ReleaseMembers, Proved!OwnerStep
<1>4. CASE Thread!WorkerStep(i)
  BY <1>4 DEF Thread!WorkerStep, Thread!Post, Thread!ConstructLoop,
    Thread!InitCallback, Thread!Publish, Thread!EnterLoop, Thread!LeaveLoop,
    Thread!Unpublish, Thread!Unlock, Thread!Unwind,
    Proved!WorkerStep, Proved!Post, Proved!ConstructLoop, Proved!InitCallback,
    Proved!Publish, Proved!EnterLoop, Proved!LeaveLoop, Proved!Unpublish,
    Proved!Unlock, Proved!Unwind
<1> QED BY <1>1, <1>2, <1>3, <1>4

\* Every step of the pool is a step of its threads, or leaves them alone.
LEMMA ThreadsStep == Proved!TypeOK /\ [Next]_vars => [Proved!Next]_(Proved!vars)
<1> SUFFICES ASSUME Proved!TypeOK, [Next]_vars PROVE [Proved!Next]_(Proved!vars)
  OBVIOUS
<1>1. ASSUME \/ SetThreadNum \/ Start \/ FinishStart \/ GetNextLoop \/ Destroy
             \/ FinishDestroy \/ UNCHANGED vars
      PROVE  UNCHANGED Proved!vars
  BY <1>1 DEF SetThreadNum, Start, FinishStart, GetNextLoop, Destroy, FinishDestroy,
              vars, threadVars, Proved!vars
<1>2. alive \subseteq Threads
  BY DEF Proved!TypeOK
<1>3. CASE StartNext
  <2>1. Thread!StartLoop(Len(loops_) + 1)
    BY <1>3 DEF StartNext
  <2>2. Len(loops_) + 1 \in Threads
    BY <1>2, <2>1 DEF Thread!StartLoop
  <2> QED BY <2>1, <2>2, ThreadActions
<1>4. CASE DestroyNext
  <2>1. Thread!Destroy(Min(Remaining))
    BY <1>4 DEF DestroyNext
  <2>2. Min(Remaining) \in Threads
    BY <1>2, <2>1 DEF Thread!Destroy
  <2> QED BY <2>1, <2>2, ThreadActions
<1>5. ASSUME NEW i \in Threads,
             InStartLoop(i) \/ InDestructor(i) \/ SpuriousWake(i) \/ WorkerStep(i)
      PROVE  Proved!Next
  BY <1>5, ThreadActions DEF InStartLoop, InDestructor, SpuriousWake, WorkerStep
<1> QED BY <1>1, <1>3, <1>4, <1>5 DEF Next, StartStep, DestroyStep

\* The pool implements its threads: start() and the destructor call them as an owner does.
THEOREM ThreadsImplemented == Spec => Proved!Spec
<1>1. {} \subseteq Threads
  OBVIOUS
<1>2. Init => Proved!Init
  BY DEF Init, Thread!Init, Proved!Init, Thread!Idle, Proved!Idle
<1>3. Proved!Init => Proved!TypeOK
  BY <1>1, BaseLoopApart, Proved!IndInvInit DEF Proved!IndInv
<1>4. Proved!TypeOK /\ [Next]_vars => Proved!TypeOK'
  BY <1>1, BaseLoopApart, ThreadsStep, Proved!TypeStep
<1>5. Spec => []Proved!TypeOK
  BY <1>2, <1>3, <1>4, PTL DEF Spec
<1> QED BY <1>2, <1>5, ThreadsStep, PTL DEF Spec, Proved!Spec

\* What is proved of EventLoopThread holds in a pool.
LEMMA ThreadsProved ==
  Spec => [](Proved!TypeOK /\ Proved!IndInv /\ Proved!ReturnedLoopRuns)
<1>1. {} \subseteq Threads
  OBVIOUS
<1>2. Proved!Spec => [](Proved!TypeOK /\ Proved!IndInv /\ Proved!ReturnedLoopRuns)
  BY <1>1, BaseLoopApart, Proved!Typing, Proved!IndInvHolds, Proved!ReturnedLoopsRun, PTL
<1> QED BY <1>2, ThreadsImplemented, PTL

\* A pool's loops are lent and taken back, one call at a time, as LoopLease has it.
THEOREM PoolLends == Spec => Proved!ImplementsLoopLease
<1>1. {} \subseteq Threads
  OBVIOUS
<1>2. Proved!Spec => Proved!ImplementsLoopLease
  BY <1>1, BaseLoopApart, Proved!LoopsAreLent
<1> QED BY <1>2, ThreadsImplemented, PTL

\* A thread that has not been started has no worker.
LEMMA UnstartedThreads == Spec => [](\A i \in Threads : thread_[i] = "none" => worker[i] = "none")
<1>1. Proved!IndInv => \A i \in Threads : thread_[i] = "none" => worker[i] = "none"
  BY DEF Proved!IndInv, Proved!ObjectInv
<1> QED BY <1>1, ThreadsProved, PTL

-----------------------------------------------------------------------------
\* What a step of the threads means for the base thread.
LEMMA OwnerMoves ==
  ASSUME NEW i \in Threads
  PROVE  /\ Thread!StartLoop(i) => /\ owner' = [at |-> "semwait", on |-> i]
                                   /\ UNCHANGED <<returned, alive>>
         /\ Thread!SemReturn(i) \/ Thread!Wake(i) \/ Thread!SpuriousWake(i) =>
              /\ owner.on = i /\ owner' = [at |-> "lock", on |-> i]
              /\ owner # Thread!Idle
              /\ UNCHANGED <<returned, alive>>
         /\ Thread!TestLoop(i) =>
              /\ owner.on = i /\ owner # Thread!Idle /\ UNCHANGED alive
              /\ \/ owner' = Thread!Idle /\ returned' = returned \cup {i}
                 \/ owner' = [at |-> "waiting", on |-> i] /\ UNCHANGED returned
         /\ Thread!WorkerStep(i) => UNCHANGED <<owner, returned, alive>>
<1> USE DEF Thread!At, Thread!GoTo, Thread!Idle, Thread!Advance
<1>1. /\ Thread!StartLoop(i) => /\ owner' = [at |-> "semwait", on |-> i]
                                /\ UNCHANGED <<returned, alive>>
      /\ Thread!SemReturn(i) \/ Thread!Wake(i) \/ Thread!SpuriousWake(i) =>
           /\ owner.on = i /\ owner' = [at |-> "lock", on |-> i]
           /\ owner # Thread!Idle
           /\ UNCHANGED <<returned, alive>>
  BY DEF Thread!StartLoop, Thread!SemReturn, Thread!Wake, Thread!SpuriousWake
<1>2. Thread!TestLoop(i) =>
        /\ owner.on = i /\ owner # Thread!Idle /\ UNCHANGED alive
        /\ \/ owner' = Thread!Idle /\ returned' = returned \cup {i}
           \/ owner' = [at |-> "waiting", on |-> i] /\ UNCHANGED returned
  BY DEF Thread!TestLoop
<1>3. Thread!WorkerStep(i) => UNCHANGED <<owner, returned, alive>>
  BY DEF Thread!WorkerStep, Thread!Post, Thread!ConstructLoop,
    Thread!InitCallback, Thread!Publish, Thread!EnterLoop, Thread!LeaveLoop,
    Thread!Unpublish, Thread!Unlock, Thread!Unwind
<1> QED BY <1>1, <1>2, <1>3

\* The base thread is inside of at most the startLoop() of the next thread, and
\* has the loops of the ones before it.
LEMMA CallStep == CallInv /\ [Next]_vars => CallInv'
<1> SUFFICES ASSUME CallInv, [Next]_vars PROVE CallInv'
  OBVIOUS
<1> USE DEF CallInv, Idle
<1>1. CASE \/ SetThreadNum \/ Start \/ FinishStart \/ GetNextLoop \/ Destroy
           \/ FinishDestroy \/ UNCHANGED vars
  BY <1>1 DEF SetThreadNum, Start, FinishStart, GetNextLoop, Destroy, FinishDestroy,
              vars, threadVars
<1>2. CASE StartNext
  <2>1. Thread!StartLoop(Len(loops_) + 1)
    BY <1>2 DEF StartNext
  <2>2. Len(loops_) + 1 \in Threads
    BY <1>2, MaxThreadsIsNat DEF StartNext, Threads
  <2>3. owner' = [at |-> "semwait", on |-> Len(loops_) + 1]
        /\ UNCHANGED <<returned, alive>>
    BY <2>1, <2>2, OwnerMoves
  <2> QED BY <1>2, <2>3 DEF StartNext, Thread!Idle
<1>3. ASSUME NEW i \in Threads, InStartLoop(i)
      PROVE  CallInv'
  <2>1. CASE Thread!SemReturn(i) \/ Thread!Wake(i)
    BY <1>3, <2>1, OwnerMoves DEF InStartLoop
  <2>2. CASE Thread!TestLoop(i) /\ owner' = [at |-> "waiting", on |-> i]
                                /\ UNCHANGED returned
    BY <1>3, <2>2, OwnerMoves DEF InStartLoop
  <2>3. CASE Thread!TestLoop(i) /\ owner' = Thread!Idle
                                /\ returned' = returned \cup {i}
    <3>1. i = Len(loops_) + 1 /\ UNCHANGED <<alive, stage, numThreads_>>
      BY <1>3, <2>3, OwnerMoves DEF InStartLoop
    <3>2. CASE loops_' = loops_
      BY <1>3, <2>3, <3>1, <3>2 DEF InStartLoop
    <3>3. CASE loops_' = Append(loops_, i)
      <4>1. /\ loops_' \in Seq(Threads) /\ Len(loops_') = Len(loops_) + 1
            /\ \A k \in 1 .. Len(loops_') : loops_'[k] = k
        BY <3>1, <3>3
      <4>2. \A k \in 1 .. Len(loops_') : k \in returned'
        BY <2>3, <3>1, <4>1
      <4> QED BY <1>3, <2>3, <3>1, <4>1, <4>2 DEF InStartLoop
    <3> QED BY <1>3, <3>2, <3>3 DEF InStartLoop
  <2> QED BY <1>3, <2>1, <2>2, <2>3, OwnerMoves DEF InStartLoop
<1>4. ASSUME NEW i \in Threads, SpuriousWake(i) \/ WorkerStep(i)
      PROVE  CallInv'
  BY <1>4, OwnerMoves DEF SpuriousWake, WorkerStep
<1>5. ASSUME NEW i \in Threads, InDestructor(i)
      PROVE  CallInv'
  <2>1. UNCHANGED returned
    BY <1>5 DEF InDestructor, Thread!QuitLoop, Thread!Join, Thread!ReleaseMembers
  <2> QED BY <1>5, <2>1 DEF InDestructor
<1>6. CASE DestroyNext
  <2>1. UNCHANGED returned
    BY <1>6 DEF DestroyNext, Thread!Destroy
  <2> QED BY <1>6, <2>1 DEF DestroyNext
<1> QED BY <1>1, <1>2, <1>3, <1>4, <1>5, <1>6 DEF Next, StartStep, DestroyStep

\* getNextLoop() moves the turn on, around the end of loops_; nothing else does.
LEMMA TurnStep == CallInv /\ TurnInv /\ [Next]_vars => TurnInv'
<1> SUFFICES ASSUME CallInv, TurnInv, [Next]_vars PROVE TurnInv'
  OBVIOUS
<1> USE DEF TurnInv
<1>1. CASE GetNextLoop
  <2> USE DEF CallInv
  <2>1. CASE loops_ = <<>>
    <3>1. given' = [given EXCEPT ![baseLoop_] = @ + 1] /\ next_' = 0
      BY <1>1, <2>1 DEF GetNextLoop, NextLoop
    <3> QED BY <1>1, <2>1, <3>1 DEF GetNextLoop
  <2>2. CASE loops_ # <<>>
    <3>1. next_ + 1 \in 1 .. Len(loops_) /\ loops_[next_ + 1] = next_ + 1
      BY <2>2
    <3>2. next_ + 1 \in Threads /\ next_ + 1 # baseLoop_
      BY <3>1 DEF baseLoop_
    <3>3. given' = [given EXCEPT ![next_ + 1] = @ + 1]
      BY <1>1, <2>2, <3>1 DEF GetNextLoop, NextLoop
    <3>4. next_' = IF next_ + 1 >= Len(loops_) THEN 0 ELSE next_ + 1
      BY <1>1 DEF GetNextLoop
    <3>5. loops_' = loops_ /\ stage' = "started"
      BY <1>1 DEF GetNextLoop
    <3>6. given' \in [Threads \cup {baseLoop_} -> Nat]
          /\ given'[baseLoop_] = given[baseLoop_]
      BY <3>2, <3>3
    <3>7. \A k \in 1 .. Len(loops_) : k \in Threads /\ given[k] \in Nat
            /\ given'[k] = IF k = next_ + 1 THEN given[k] + 1 ELSE given[k]
      <4>1. \A k \in 1 .. Len(loops_) : k \in Threads
        OBVIOUS
      <4> QED BY <4>1, <3>3
    <3>8. ASSUME NEW j \in 1 .. Len(loops_), NEW k \in 1 .. Len(loops_)
          PROVE  /\ (j <= next_' <=> k <= next_') => given'[j] = given'[k]
                 /\ j <= next_' /\ next_' < k => given'[j] = given'[k] + 1
      <4> HIDE DEF CallInv
      <4>1. /\ (j <= next_ <=> k <= next_) => given[j] = given[k]
            /\ j <= next_ /\ next_ < k => given[j] = given[k] + 1
            /\ k <= next_ /\ next_ < j => given[k] = given[j] + 1
        OBVIOUS
      <4>2. /\ (j <= next_ <=> next_ + 1 <= next_) => given[j] = given[next_ + 1]
            /\ j <= next_ => given[j] = given[next_ + 1] + 1
        BY <3>1
      <4>3. /\ (k <= next_ <=> next_ + 1 <= next_) => given[k] = given[next_ + 1]
            /\ k <= next_ => given[k] = given[next_ + 1] + 1
        BY <3>1
      <4>4. next_ \in Nat /\ Len(loops_) \in Nat
        BY DEF CallInv
      <4>5. /\ given[j] \in Nat /\ given[k] \in Nat
            /\ given'[j] = IF j = next_ + 1 THEN given[j] + 1 ELSE given[j]
            /\ given'[k] = IF k = next_ + 1 THEN given[k] + 1 ELSE given[k]
        BY <3>7
      <4> HIDE DEF TurnInv
      <4>6. CASE next_ + 1 >= Len(loops_)
        BY <3>4, <4>1, <4>2, <4>3, <4>4, <4>5, <4>6
      <4>7. CASE next_ + 1 < Len(loops_)
        BY <3>4, <4>1, <4>2, <4>3, <4>4, <4>5, <4>7
      <4> QED BY <4>4, <4>6, <4>7
    <3>9. next_' \in Nat /\ (next_' # 0 => next_' < Len(loops_'))
      BY <3>4, <3>5
    <3> QED BY <2>2, <3>5, <3>6, <3>8, <3>9
  <2> QED BY <2>1, <2>2
<1>2. ASSUME NEW i \in Threads, InStartLoop(i)
      PROVE  TurnInv'
  <2>1. /\ UNCHANGED <<stage, next_, given>> /\ stage = "starting"
        /\ loops_' = loops_ \/ loops_' = Append(loops_, i)
    BY <1>2 DEF InStartLoop
  <2>2. loops_' \in Seq(Threads)
    BY <2>1 DEF CallInv
  <2>3. \A k \in 1 .. Len(loops_') : k \in Threads
    <3>1. [Next]_vars
      BY <1>2 DEF Next, StartStep
    <3>2. CallInv'
      BY <3>1, CallStep
    <3>3. ASSUME NEW k \in 1 .. Len(loops_')
          PROVE  k \in Threads
      <4>1. loops_'[k] = k
        BY <3>2 DEF CallInv
      <4>2. loops_'[k] \in Threads
        BY <2>2
      <4> QED BY <4>1, <4>2
    <3> QED BY <3>3
  <2> QED BY <2>1, <2>3
<1>3. ASSUME NEW i \in Threads,
             InDestructor(i) \/ SpuriousWake(i) \/ WorkerStep(i)
      PROVE  TurnInv'
  BY <1>3 DEF InDestructor, SpuriousWake, WorkerStep
<1>4. CASE \/ SetThreadNum \/ Start \/ StartNext \/ FinishStart \/ Destroy
           \/ DestroyNext \/ FinishDestroy \/ UNCHANGED vars
  BY <1>4 DEF SetThreadNum, Start, StartNext, FinishStart, Destroy, DestroyNext,
              FinishDestroy, vars
<1> QED BY <1>1, <1>2, <1>3, <1>4 DEF Next, StartStep, DestroyStep

\* The inductive invariant of the pool.
THEOREM IndInvHolds == Spec => []IndInv
<1>1. Init => CallInv /\ TurnInv
  BY MaxThreadsIsNat DEF Init, CallInv, TurnInv, Thread!Init, Idle, Thread!Idle
<1>2. CallInv /\ TurnInv /\ [Next]_vars => CallInv' /\ TurnInv'
  BY CallStep, TurnStep
<1>3. Spec => [](CallInv /\ TurnInv)
  BY <1>1, <1>2, PTL DEF Spec
<1> QED BY <1>3, PTL DEF IndInv

\* getNextLoop() deals connections out evenly.
THEOREM RoundRobin == Spec => []Balanced
<1>1. IndInv => Balanced
  <2> SUFFICES ASSUME IndInv PROVE Balanced
    OBVIOUS
  <2> USE DEF IndInv, CallInv, TurnInv
  <2>1. ASSUME NEW j \in 1 .. Len(loops_), NEW k \in 1 .. Len(loops_)
        PROVE  given[loops_[j]] <= given[loops_[k]] + 1
    <3>1. loops_[j] = j /\ loops_[k] = k
      OBVIOUS
    <3>2. j \in Threads /\ k \in Threads
      BY <3>1
    <3>3. given[j] \in Nat /\ given[k] \in Nat
      BY <3>2
    <3>4. \/ given[j] = given[k]
          \/ given[j] = given[k] + 1
          \/ given[k] = given[j] + 1
      OBVIOUS
    <3> QED BY <3>1, <3>3, <3>4
  <2> QED BY <2>1 DEF Balanced
<1> QED BY <1>1, IndInvHolds, PTL

\* A connection is given only a loop that has started and goes on.
THEOREM PoolLoopsRun == Spec => []GivenLoopsRun
<1>1. IndInv /\ Proved!TypeOK /\ Proved!ReturnedLoopRuns => GivenLoopsRun
  <2> SUFFICES ASSUME IndInv, Proved!TypeOK, Proved!ReturnedLoopRuns,
                      stage \in {"starting", "started"},
                      NEW k \in 1 .. Len(loops_)
               PROVE  worker[loops_[k]] \in {"enter", "looping"}
    BY DEF GivenLoopsRun
  <2>1. loops_[k] = k /\ k \in returned /\ alive = Threads /\ k \in Threads
    BY DEF IndInv, CallInv
  <2>2. ~Proved!At("join", k) /\ ~Proved!At("members", k)
    BY DEF IndInv, CallInv, Proved!At, Idle, Thread!Idle
  <2> QED BY <2>1, <2>2 DEF Proved!ReturnedLoopRuns
<1> QED BY <1>1, IndInvHolds, ThreadsProved, PTL

\* The values of the pool's variables, for any number of threads.
THEOREM Typing == Spec => []TypeOK
<1>1. IndInv /\ Proved!TypeOK => TypeOK
  BY DEF IndInv, CallInv, TurnInv, TypeOK, Thread!TypeOK, Proved!TypeOK, Thread!Idle,
         Proved!Idle, Thread!OwnerPoints, Proved!OwnerPoints, Thread!WorkerPoints,
         Proved!WorkerPoints
<1> QED BY <1>1, IndInvHolds, ThreadsProved, PTL
=============================================================================
