------------------------ MODULE EventLoopThread_proofs ------------------------
(***************************************************************************)
(* Lifetimes of the EventLoop, the thread and the EventLoopThread object:  *)
(* proofs for any number of objects.                                       *)
(***************************************************************************)
EXTENDS EventLoopThread, TLAPS

\* Every step keeps every variable in its type.
LEMMA TypeStep == TypeOK /\ [Next]_vars => TypeOK'
<1> SUFFICES ASSUME TypeOK, [Next]_vars PROVE TypeOK'
  OBVIOUS
<1> USE DEF TypeOK, GoTo, Advance, OwnerPoints, WorkerPoints
<1>1. ASSUME NEW i \in Loops,
             \/ StartLoop(i) \/ Destroy(i) \/ SpuriousWake(i) \/ SemReturn(i)
             \/ TestLoop(i) \/ Wake(i)
      PROVE  TypeOK'
  <2>1. CASE StartLoop(i) \/ Destroy(i)
    BY <2>1 DEF StartLoop, Destroy
  <2>2. CASE SpuriousWake(i) \/ SemReturn(i) \/ Wake(i)
    BY <2>2 DEF SpuriousWake, SemReturn, Wake
  <2>3. CASE TestLoop(i)
    <3>1. owner' = Idle \/ owner' = [at |-> "waiting", on |-> i]
      BY <2>3 DEF TestLoop
    <3>2. signalled' \in [Loops -> BOOLEAN] /\ returned' \subseteq Loops
      BY <2>3 DEF TestLoop
    <3> QED BY <2>3, <3>1, <3>2 DEF TestLoop
  <2> QED BY <1>1, <2>1, <2>2, <2>3
<1>2. ASSUME NEW i \in Loops, QuitLoop(i) \/ Join(i) \/ ReleaseMembers(i)
      PROVE  TypeOK'
  <2>1. CASE QuitLoop(i)
    <3>1. LoopExists(i) \in BOOLEAN
      BY DEF LoopExists
    <3>2. quit_' \in [Loops -> BOOLEAN]
      BY <2>1, <3>1 DEF QuitLoop
    <3> QED BY <2>1, <3>2 DEF QuitLoop
  <2>2. CASE Join(i) \/ ReleaseMembers(i)
    BY <2>2 DEF Join, ReleaseMembers
  <2> QED BY <1>2, <2>1, <2>2
<1>3. ASSUME NEW i \in Loops,
             \/ Post(i) \/ ConstructLoop(i) \/ InitCallback(i) \/ EnterLoop(i)
             \/ LeaveLoop(i) \/ Unpublish(i) \/ Unlock(i) \/ Unwind(i)
             \/ CallbackQuit(i)
      PROVE  TypeOK'
  BY <1>3 DEF Post, ConstructLoop, InitCallback, EnterLoop, LeaveLoop, Unpublish,
              Unlock, Unwind, CallbackQuit
<1>4. ASSUME NEW i \in Loops, Publish(i)
      PROVE  TypeOK'
  BY <1>4 DEF Publish, At
<1>5. CASE UNCHANGED vars
  BY <1>5 DEF vars
<1> QED BY <1>1, <1>2, <1>3, <1>4, <1>5 DEF Next, OwnerStep, WorkerStep

\* Handles, publication and call paths stay consistent, callbacks or not.
LEMMA ObjectStep == TypeOK /\ ObjectInv /\ [Next]_vars => ObjectInv'
<1> SUFFICES ASSUME TypeOK, ObjectInv, [Next]_vars PROVE ObjectInv'
  OBVIOUS
<1> USE NoneIsNoLoop
<1> USE DEF TypeOK, ObjectInv, Starting, At, On, GoTo, Advance, Idle
<1>1. ASSUME NEW i \in Loops, StartLoop(i) \/ Destroy(i)
      PROVE  ObjectInv'
  BY <1>1 DEF StartLoop, Destroy
<1>2. ASSUME NEW i \in Loops,
             SpuriousWake(i) \/ SemReturn(i) \/ TestLoop(i) \/ Wake(i)
      PROVE  ObjectInv'
  BY <1>2 DEF SpuriousWake, SemReturn, TestLoop, Wake
<1>3. ASSUME NEW i \in Loops, QuitLoop(i)
      PROVE  ObjectInv'
  BY <1>3 DEF QuitLoop
<1>4. ASSUME NEW i \in Loops, Join(i) \/ ReleaseMembers(i)
      PROVE  ObjectInv'
  BY <1>4 DEF Join, ReleaseMembers
<1>5. ASSUME NEW i \in Loops,
             \/ Post(i) \/ ConstructLoop(i) \/ InitCallback(i) \/ Publish(i)
             \/ EnterLoop(i) \/ LeaveLoop(i) \/ Unpublish(i) \/ Unlock(i) \/ Unwind(i)
             \/ CallbackQuit(i)
      PROVE  ObjectInv'
  BY <1>5 DEF Post, ConstructLoop, InitCallback, Publish, EnterLoop, LeaveLoop,
              Unpublish, Unlock, Unwind, CallbackQuit
<1>6. CASE UNCHANGED vars
  BY <1>6 DEF vars
<1> QED BY <1>1, <1>2, <1>3, <1>4, <1>5, <1>6 DEF Next, OwnerStep, WorkerStep

\* If its callbacks do not quit a loop, only the destructor ends it.
LEMMA LoopStep == TypeOK /\ ObjectInv /\ LoopInv /\ [Next]_vars => LoopInv'
<1> SUFFICES ASSUME TypeOK, ObjectInv, LoopInv, [Next]_vars
             PROVE  LoopInv'
  OBVIOUS
<1> USE NoneIsNoLoop
<1> USE DEF TypeOK, ObjectInv, LoopInv, At, On, GoTo, Advance, Idle
<1>1. ASSUME NEW i \in Loops, StartLoop(i) \/ Destroy(i)
      PROVE  LoopInv'
  BY <1>1 DEF StartLoop, Destroy
<1>2. ASSUME NEW i \in Loops,
             SpuriousWake(i) \/ SemReturn(i) \/ TestLoop(i) \/ Wake(i)
      PROVE  LoopInv'
  BY <1>2 DEF SpuriousWake, SemReturn, TestLoop, Wake
<1>3. ASSUME NEW i \in Loops, QuitLoop(i)
      PROVE  LoopInv'
  BY <1>3 DEF QuitLoop
<1>4. ASSUME NEW i \in Loops, Join(i) \/ ReleaseMembers(i)
      PROVE  LoopInv'
  BY <1>4 DEF Join, ReleaseMembers
<1>5. ASSUME NEW i \in Loops,
             \/ Post(i) \/ ConstructLoop(i) \/ InitCallback(i) \/ Publish(i)
             \/ EnterLoop(i)
      PROVE  LoopInv'
  BY <1>5 DEF Post, ConstructLoop, InitCallback, Publish, EnterLoop
<1>6. ASSUME NEW i \in Loops,
             LeaveLoop(i) \/ Unpublish(i) \/ Unlock(i) \/ Unwind(i)
      PROVE  LoopInv'
  BY <1>6 DEF LeaveLoop, Unpublish, Unlock, Unwind
<1>7. ASSUME NEW i \in Loops, CallbackQuit(i)
      PROVE  LoopInv'
  BY <1>7 DEF CallbackQuit
<1>8. CASE UNCHANGED vars
  BY <1>8 DEF vars
<1> QED BY <1>1, <1>2, <1>3, <1>4, <1>5, <1>6, <1>7, <1>8 DEF Next, OwnerStep, WorkerStep

\* The constructors' state satisfies the invariant.
LEMMA IndInvInit == Init => IndInv
  BY NoneIsNoLoop
  DEF Init, IndInv, TypeOK, ObjectInv, LoopInv, Starting, At, On, Idle, WorkerPoints

\* The inductive invariant holds in every behaviour.
THEOREM IndInvHolds == Spec => []IndInv
<1>1. IndInv /\ [Next]_vars => IndInv'
  BY TypeStep, ObjectStep, LoopStep DEF IndInv
<1> QED BY IndInvInit, <1>1, PTL DEF Spec

\* Every variable keeps its type.
THEOREM Typing == Spec => []TypeOK
  BY IndInvHolds, PTL DEF IndInv

\* The new thread has posted the semaphore of Thread::start before it goes away.
THEOREM SemaphoreIsSafe == Spec => []SemaphoreOutlivesPost
<1>1. IndInv => SemaphoreOutlivesPost
  BY DEF IndInv, ObjectInv, SemaphoreOutlivesPost
<1> QED BY <1>1, IndInvHolds, PTL

\* No std::thread is destroyed while it is joinable, even if loops quit early.
THEOREM HandlesAreSafe == Spec => []NoJoinableDestroyed
<1>1. IndInv => NoJoinableDestroyed
  BY DEF IndInv, ObjectInv, NoJoinableDestroyed
<1> QED BY <1>1, IndInvHolds, PTL

\* What startLoop() returned stays good until the destructor quits the loop.
THEOREM ReturnedLoopsRun == Spec => []ReturnedLoopRuns
<1>1. IndInv => ReturnedLoopRuns
  BY DEF IndInv, TypeOK, LoopInv, ReturnedLoopRuns, At, On, WorkerPoints, OwnerPoints,
         Idle
<1> QED BY <1>1, IndInvHolds, PTL

\* The owner is not left waiting for a notification that has been given.
THEOREM WakeupsAreKept == Spec => []NoWakeupLost
<1>1. Init => NoWakeupLost
  BY NoneIsNoLoop DEF Init, NoWakeupLost, At, Idle
<1>2. IndInv /\ NoWakeupLost /\ [Next]_vars => NoWakeupLost'
  <2> SUFFICES ASSUME IndInv, NoWakeupLost, [Next]_vars PROVE NoWakeupLost'
    OBVIOUS
  <2> USE NoneIsNoLoop DEF NoWakeupLost, At, GoTo, Advance, Idle
  <2>0. TypeOK /\ ObjectInv /\ LoopInv
    BY DEF IndInv
  <2>1. ASSUME NEW i \in Loops, TestLoop(i)
        PROVE  NoWakeupLost'
    <3>1. CASE loop_[i]
      BY <2>0, <2>1, <3>1 DEF TestLoop, TypeOK
    <3>2. CASE ~loop_[i]
      \* The worker of a startLoop() has posted, and has not published its loop.
      <4>1. i \notin Quitters => worker[i] \in {"posted", "callback", "publish"}
        BY <2>0, <2>1, <3>2 DEF TestLoop, TypeOK, ObjectInv, LoopInv, On, WorkerPoints
      <4>2. owner'.on = i /\ worker' = worker
        BY <2>1, <3>2 DEF TestLoop
      <4> QED BY <4>1, <4>2
    <3> QED BY <3>1, <3>2
  <2>2. ASSUME NEW i \in Loops, Publish(i)
        PROVE  NoWakeupLost'
    BY <2>0, <2>2 DEF Publish, TypeOK
  <2>3. ASSUME NEW i \in Loops,
               \/ StartLoop(i) \/ Destroy(i) \/ SpuriousWake(i) \/ SemReturn(i) \/ Wake(i)
               \/ QuitLoop(i) \/ Join(i) \/ ReleaseMembers(i)
        PROVE  NoWakeupLost'
    BY <2>3 DEF StartLoop, Destroy, SpuriousWake, SemReturn, Wake, QuitLoop, Join,
       ReleaseMembers
  <2>4. ASSUME NEW i \in Loops,
               \/ Post(i) \/ ConstructLoop(i) \/ InitCallback(i) \/ EnterLoop(i)
               \/ LeaveLoop(i) \/ Unpublish(i) \/ Unlock(i) \/ Unwind(i) \/ CallbackQuit(i)
        PROVE  NoWakeupLost'
    BY <2>0, <2>4 DEF Post, ConstructLoop, InitCallback, EnterLoop, LeaveLoop, Unpublish,
       Unlock, Unwind, CallbackQuit, TypeOK
  <2>5. CASE UNCHANGED vars
    BY <2>5 DEF vars
  <2> QED BY <2>1, <2>2, <2>3, <2>4, <2>5 DEF Next, OwnerStep, WorkerStep
<1> QED BY <1>1, <1>2, IndInvHolds, PTL DEF Spec

\* The object outlives its thread's last use of the mutex.
THEOREM ObjectsOutliveWorkers == Spec => []ObjectOutlivesWorker
<1>1. IndInv => ObjectOutlivesWorker
  BY DEF IndInv, LoopInv, ObjectOutlivesWorker
<1> QED BY <1>1, IndInvHolds, PTL
-----------------------------------------------------------------------------
(* An EventLoopThread implements LoopLease *)

\* A call on one object leaves the leases of the others alone.
LEMMA OtherLeases ==
  ASSUME NEW i \in Loops, NEW j \in Loops, i # j, owner.on \in {i, None},
         owner'.on \in {i, None}, (j \in alive)' <=> j \in alive,
         (j \in returned)' <=> j \in returned, thread_'[j] = thread_[j]
  PROVE  Lease(j)' = Lease(j)
  BY NoneIsNoLoop DEF Lease, Starting

\* Between two calls of the owner no object is being started or destroyed.
LEMMA BetweenCalls ==
  ASSUME ObjectInv, owner = Idle, NEW i \in Loops
  PROVE  /\ Lease(i) \in {"none", "lent", "over"}
         /\ i \in alive => Lease(i) = IF thread_[i] = "none" THEN "none" ELSE "lent"
<1>1. owner.on # i /\ ~Starting(i)
  BY NoneIsNoLoop DEF Idle, Starting
<1> QED BY <1>1 DEF ObjectInv, Lease

\* Every step is a step of the lease of one object, or leaves all of them as they are.
LEMMA LeaseStep ==
  ASSUME IndInv, [Next]_vars
  PROVE  [LoopLease!Next]_(LoopLease!vars)
<1> DEFINE Steady == Loops \ Quitters
           lease == [i \in Steady |-> Lease(i)]
           running == {i \in Steady : LoopExists(i)}
           Goal == [LoopLease!Next]_(LoopLease!vars)
<1>0. TypeOK /\ ObjectInv /\ LoopInv
  BY DEF IndInv
<1>a. ASSUME \A i \in Steady : Lease(i)' = Lease(i), running' = running
      PROVE  Goal
  <2>1. lease' = lease
    BY <1>a
  <2> QED BY <1>a, <2>1 DEF LoopLease!vars
<1>b. ASSUME NEW i \in Steady, NEW to, Lease(i)' = to,
             \A j \in Steady : j # i => Lease(j)' = Lease(j)
      PROVE  LoopLease!Turn(i, to)
  BY <1>b DEF LoopLease!Turn
<1>c. ASSUME UNCHANGED worker
      PROVE  running' = running
  BY <1>c DEF LoopExists
<1>d. ASSUME owner = Idle
      PROVE  LoopLease!Free
  BY <1>0, <1>d, BetweenCalls DEF LoopLease!Free
<1>1. ASSUME NEW i \in Loops, StartLoop(i)
      PROVE  Goal
  <2>1. \A j \in Steady : j # i => Lease(j)' = Lease(j)
    BY <1>0, <1>1, OtherLeases DEF StartLoop, GoTo, Idle, TypeOK
  <2>2. Lease(i) = "none" /\ Lease(i)' = "asked"
    <3>1. Lease(i) = "none" /\ i \notin returned
      BY <1>0, <1>1, BetweenCalls DEF StartLoop, ObjectInv
    <3>2. owner'.on = i /\ owner'.at = "semwait" /\ thread_'[i] = "joinable"
      BY <1>0, <1>1 DEF StartLoop, GoTo, TypeOK
    <3> QED BY <1>1, <3>1, <3>2 DEF StartLoop, Lease, Starting
  <2>3. running' = running
    BY <1>0, <1>1 DEF StartLoop, LoopExists, TypeOK, ObjectInv
  <2>4. CASE i \in Steady
    <3>1. LoopLease!Turn(i, "asked")
      BY <1>b, <2>1, <2>2, <2>4
    <3>2. LoopLease!Ask(i)
      BY <1>1, <1>d, <2>2, <2>3, <2>4, <3>1 DEF LoopLease!Ask, StartLoop
    <3> QED BY <2>4, <3>2 DEF LoopLease!Next
  <2>5. CASE i \notin Steady
    BY <1>a, <2>1, <2>3, <2>5
  <2> QED BY <2>4, <2>5
<1>2. ASSUME NEW i \in Loops, SemReturn(i) \/ Wake(i) \/ SpuriousWake(i)
      PROVE  Goal
  <2>1. /\ owner.on = i /\ owner'.on = i /\ Starting(i) /\ Starting(i)'
        /\ UNCHANGED <<alive, returned, thread_, worker>>
    BY <1>2 DEF SemReturn, Wake, SpuriousWake, At, GoTo, Starting
  <2>2. Lease(i)' = Lease(i)
    BY <2>1 DEF Lease
  <2>3. \A j \in Steady : j # i => Lease(j)' = Lease(j)
    BY <2>1, OtherLeases
  <2> QED BY <1>a, <1>c, <2>1, <2>2, <2>3
<1>3. ASSUME NEW i \in Loops, TestLoop(i)
      PROVE  Goal
  <2>1. /\ owner.on = i /\ Starting(i) /\ owner'.on \in {i, None}
        /\ UNCHANGED <<alive, thread_, worker>>
        /\ \A j \in Steady : j # i => ((j \in returned)' <=> j \in returned)
    BY <1>3 DEF TestLoop, At, GoTo, Starting, Idle
  <2>2. \A j \in Steady : j # i => Lease(j)' = Lease(j)
    BY <2>1, OtherLeases
  <2>3. i \in alive /\ i \notin returned /\ thread_[i] # "none" /\ Lease(i) = "asked"
    BY <1>0, <2>1 DEF ObjectInv, On, Starting, Lease
  <2>4. running' = running
    BY <1>c, <2>1
  <2>5. CASE loop_[i]
    <3>1. Lease(i)' = "lent"
      <4>1. owner'.on # i /\ i \in returned' /\ i \in alive'
        BY <1>3, <2>3, <2>5, NoneIsNoLoop DEF TestLoop, Idle
      <4> QED BY <4>1 DEF Lease
    <3>2. LoopExists(i)
      BY <1>0, <2>5 DEF ObjectInv, LoopExists
    <3>3. CASE i \in Steady
      <4>1. LoopLease!Turn(i, "lent")
        BY <1>b, <2>2, <3>1, <3>3
      <4>2. LoopLease!Lend(i)
        BY <2>3, <2>4, <3>2, <3>3, <4>1 DEF LoopLease!Lend
      <4> QED BY <3>3, <4>2 DEF LoopLease!Next
    <3>4. CASE i \notin Steady
      BY <1>a, <2>2, <2>4, <3>4
    <3> QED BY <3>3, <3>4
  <2>6. CASE ~loop_[i]
    <3>1. Starting(i)' /\ UNCHANGED returned
      BY <1>3, <2>6 DEF TestLoop, GoTo, Starting
    <3>2. Lease(i)' = Lease(i)
      BY <2>1, <3>1 DEF Lease
    <3> QED BY <1>a, <2>2, <2>4, <3>2
  <2> QED BY <2>5, <2>6
<1>4. ASSUME NEW i \in Loops, Destroy(i)
      PROVE  Goal
  <2>1. /\ owner = Idle /\ i \in alive /\ owner'.on = i /\ ~Starting(i)'
        /\ UNCHANGED <<alive, returned, thread_, worker>>
    BY <1>4 DEF Destroy, GoTo, Starting
  <2>2. \A j \in Steady : j # i => Lease(j)' = Lease(j)
    BY <2>1, OtherLeases DEF Idle
  <2>3. Lease(i) \in {"none", "lent"} /\ Lease(i)' = "ending"
    BY <1>0, <2>1, BetweenCalls DEF Lease
  <2>4. running' = running
    BY <1>c, <2>1
  <2>5. CASE i \in Steady
    <3>1. LoopLease!Turn(i, "ending")
      BY <1>b, <2>2, <2>3, <2>5
    <3>2. LoopLease!TakeBack(i)
      BY <1>d, <2>1, <2>3, <2>4, <2>5, <3>1 DEF LoopLease!TakeBack
    <3> QED BY <2>5, <3>2 DEF LoopLease!Next
  <2>6. CASE i \notin Steady
    BY <1>a, <2>2, <2>4, <2>6
  <2> QED BY <2>5, <2>6
<1>5. ASSUME NEW i \in Loops, QuitLoop(i) \/ Join(i)
      PROVE  Goal
  <2>1. /\ owner.on = i /\ owner'.on = i /\ ~Starting(i) /\ ~Starting(i)'
        /\ UNCHANGED <<alive, returned, worker>>
        /\ \A j \in Loops : j # i => thread_'[j] = thread_[j]
    BY <1>0, <1>5 DEF QuitLoop, Join, At, GoTo, Starting, TypeOK
  <2>2. Lease(i)' = Lease(i)
    BY <1>0, <2>1 DEF Lease, ObjectInv, On
  <2>3. \A j \in Steady : j # i => Lease(j)' = Lease(j)
    BY <2>1, OtherLeases
  <2> QED BY <1>a, <1>c, <2>1, <2>2, <2>3
<1>6. ASSUME NEW i \in Loops, ReleaseMembers(i)
      PROVE  Goal
  <2>1. /\ At("members", i) /\ owner.on = i /\ ~Starting(i) /\ owner'.on = None
        /\ alive' = alive \ {i} /\ UNCHANGED <<returned, worker>>
        /\ \A j \in Loops : j # i => thread_'[j] = thread_[j]
    BY <1>0, <1>6 DEF ReleaseMembers, At, Starting, TypeOK, Idle
  <2>2. \A j \in Steady : j # i => Lease(j)' = Lease(j)
    BY <2>1, OtherLeases
  <2>3. Lease(i) = "ending" /\ Lease(i)' = "over"
    BY <1>0, <2>1 DEF Lease, ObjectInv, On
  <2>4. running' = running
    BY <1>c, <2>1
  <2>5. CASE i \in Steady
    <3>1. ~LoopExists(i)
      BY <1>0, <2>1, <2>5 DEF LoopInv, LoopExists
    <3>2. LoopLease!Turn(i, "over")
      BY <1>b, <2>2, <2>3, <2>5
    <3>3. LoopLease!Finish(i)
      BY <2>3, <2>4, <2>5, <3>1, <3>2 DEF LoopLease!Finish
    <3> QED BY <2>5, <3>3 DEF LoopLease!Next
  <2>6. CASE i \notin Steady
    BY <1>a, <2>2, <2>4, <2>6
  <2> QED BY <2>5, <2>6
<1>e. ASSUME UNCHANGED <<owner, thread_, returned, alive>>
      PROVE  lease' = lease
  BY <1>e DEF Lease, Starting
<1>7. ASSUME NEW i \in Loops, ConstructLoop(i)
      PROVE  Goal
  <2>1. worker[i] = "posted" /\ worker' = [worker EXCEPT ![i] = "callback"] /\ lease' = lease
    BY <1>7, <1>e DEF ConstructLoop, Advance
  <2>2. CASE i \in Steady
    \* The worker of a startLoop() that has not returned.
    <3>1. i \in alive /\ i \notin returned /\ Starting(i)
      BY <1>0, <2>1, <2>2, NoneIsNoLoop DEF LoopInv, TypeOK, On, At, Starting, OwnerPoints, Idle
    <3>2. Lease(i) = "asked"
      BY <1>0, <2>1, <3>1 DEF Lease, ObjectInv
    <3>3. running' = running \cup {i} /\ i \notin running
      BY <1>0, <2>1, <2>2 DEF LoopExists, TypeOK
    <3>4. LoopLease!Begin(i)
      BY <2>1, <2>2, <3>2, <3>3 DEF LoopLease!Begin
    <3> QED BY <2>2, <3>4 DEF LoopLease!Next
  <2>3. CASE i \notin Steady
    <3>1. running' = running
      BY <1>0, <2>1, <2>3 DEF LoopExists, TypeOK
    <3> QED BY <2>1, <3>1 DEF LoopLease!vars
  <2> QED BY <2>2, <2>3
<1>8. ASSUME NEW i \in Loops, Unwind(i)
      PROVE  Goal
  <2>1. worker[i] = "unwind" /\ worker' = [worker EXCEPT ![i] = "done"] /\ lease' = lease
    BY <1>8, <1>e DEF Unwind, Advance
  <2>2. CASE i \in Steady
    <3>1. At("join", i) /\ i \in alive
      BY <1>0, <2>1, <2>2 DEF LoopInv, ObjectInv, At, On
    <3>2. Lease(i) = "ending"
      BY <3>1 DEF Lease, Starting, At
    <3>3. running' = running \ {i} /\ i \in running
      BY <1>0, <2>1, <2>2 DEF LoopExists, TypeOK
    <3>4. LoopLease!End(i)
      BY <2>1, <2>2, <3>2, <3>3 DEF LoopLease!End
    <3> QED BY <2>2, <3>4 DEF LoopLease!Next
  <2>3. CASE i \notin Steady
    <3>1. running' = running
      BY <1>0, <2>1, <2>3 DEF LoopExists, TypeOK
    <3> QED BY <2>1, <3>1 DEF LoopLease!vars
  <2> QED BY <2>2, <2>3
<1>9. ASSUME NEW i \in Loops,
             \/ Post(i) \/ InitCallback(i) \/ Publish(i) \/ EnterLoop(i) \/ LeaveLoop(i)
             \/ Unpublish(i) \/ Unlock(i) \/ CallbackQuit(i)
      PROVE  Goal
  <2>1. lease' = lease
    BY <1>9, <1>e DEF Post, InitCallback, Publish, EnterLoop, LeaveLoop, Unpublish, Unlock,
       CallbackQuit, vars
  <2>2. running' = running
    BY <1>0, <1>9 DEF Post, InitCallback, Publish, EnterLoop, LeaveLoop, Unpublish, Unlock,
       CallbackQuit, vars, Advance, LoopExists, TypeOK
  <2> QED BY <2>1, <2>2 DEF LoopLease!vars
<1>10. CASE UNCHANGED vars
  BY <1>10, <1>a, <1>c DEF vars, Lease, Starting
<1> QED BY <1>1, <1>2, <1>3, <1>4, <1>5, <1>6, <1>7, <1>8, <1>9, <1>10
        DEF Next, OwnerStep, WorkerStep

\* For any objects, the loops of those whose callbacks leave them alone are lent and taken
\* back: hand-shake, quit() and join() implement LoopLease.
THEOREM LoopsAreLent == Spec => ImplementsLoopLease
<1>1. Init => LoopLease!Init
  BY NoneIsNoLoop DEF Init, LoopLease!Init, Lease, Idle, LoopExists
<1>2. IndInv /\ [Next]_vars => [LoopLease!Next]_(LoopLease!vars)
  BY LeaseStep
<1> QED BY <1>1, <1>2, IndInvHolds, PTL DEF Spec, ImplementsLoopLease, LoopLease!Spec
=============================================================================
