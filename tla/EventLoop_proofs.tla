-------------------------- MODULE EventLoop_proofs --------------------------
(***************************************************************************)
(* EventLoop's invariants, and that it implements FunctorMailbox, for any  *)
(* set of threads, functors and channels and any size of the eventfd.      *)
(***************************************************************************)
EXTENDS EventLoop, SequenceTheorems, FiniteSetTheorems, TLAPS

\* Every thread takes itself for the thread of every loop: cacheTid() never fetches
\* the thread id, so isInLoopThread() compares 0 with 0.
THEOREM EveryThreadIsInLoop == \A t \in Threads : isInLoopThread(t)
  BY DEF isInLoopThread, threadId_, tid, CacheTid, AddressOfCacheTid

\* Hence runInLoop runs its functor in the thread that calls it, whichever that is,
\* and queues nothing.
THEOREM RunInLoopRunsInCaller ==
  ASSUME TypeOK, NEW t \in Threads, NEW f \in Functors, RunInLoop(t, f)
  PROVE  ranBy'[f] = t /\ UNCHANGED pendingFunctors_
  BY EveryThreadIsInLoop DEF RunInLoop, TypeOK

\* The batch epoll_wait reports is a sequence of channels without repetition,
\* and the wake-up channel is in it only if the eventfd is readable.
LEMMA BatchOfReady ==
  ASSUME TypeOK, NEW batch \in SetToSeqs(ReadyChannels)
  PROVE  /\ batch \in Seq(Channels)
         /\ \A i, j \in DOMAIN batch : i # j => batch[i] # batch[j]
         /\ \A i \in DOMAIN batch : batch[i] = Wakeup => wakeupFd_ > 0
<1>1. ReadyChannels \subseteq Channels /\ IsFiniteSet(ReadyChannels)
  <2>1. IsFiniteSet(ready)
    BY FS_Subset, ChannelsFinite DEF TypeOK
  <2>2. IsFiniteSet({Wakeup}) /\ IsFiniteSet({})
    BY FS_Singleton, FS_EmptySet
  <2> QED BY <2>1, <2>2, FS_Union DEF ReadyChannels, TypeOK, Channels
<1> DEFINE n == Cardinality(ReadyChannels)
<1>2. n \in Nat
  BY <1>1, FS_CardinalityType
<1>3. /\ batch \in [1 .. n -> ReadyChannels]
      /\ \A i, j \in 1 .. n : i # j => batch[i] # batch[j]
  BY DEF SetToSeqs
<1>4. batch \in Seq(Channels) /\ DOMAIN batch = 1 .. n
  BY <1>1, <1>2, <1>3
<1>5. Wakeup \in ReadyChannels => wakeupFd_ > 0
  BY WakeupIsNotIo DEF TypeOK, ReadyChannels
<1> QED BY <1>3, <1>4, <1>5

-----------------------------------------------------------------------------
(* Typing *)

\* Every step keeps every variable in its type.
LEMMA TypeStep == TypeOK /\ [Next]_vars => TypeOK'
<1> SUFFICES ASSUME TypeOK, [Next]_vars PROVE TypeOK'
  OBVIOUS
<1> USE NoFunctorIsNone, EventFdMaxIsNat
<1> USE DEF TypeOK, loopVars, queueVars, historyVars, Calls, Idle, PCs
<1>0. ASSUME NEW t \in Threads, NEW f \in Functors, Emplace(t, f)
      PROVE  /\ pendingFunctors_' \in Seq(Functors)
             /\ posted' \in Seq(Functors)
             /\ poster' \in [Functors -> Threads \cup {NoFunctor}]
             /\ call' \in [Threads -> Calls]
  BY <1>0 DEF Emplace
<1>1. ASSUME NEW t \in Threads, NEW f \in Functors, RunInLoop(t, f)
      PROVE  TypeOK'
  <2>1. CASE isInLoopThread(t)
    BY <1>1, <2>1 DEF RunInLoop
  <2>2. CASE ~isInLoopThread(t)
    <3>1. Emplace(t, f) /\ UNCHANGED ranBy
      BY <1>1, <2>2 DEF RunInLoop
    <3> QED BY <1>0, <1>1, <3>1 DEF RunInLoop
  <2> QED BY <2>1, <2>2
<1>2. ASSUME NEW t \in Threads, NEW f \in Functors, QueueInLoop(t, f)
      PROVE  TypeOK'
  BY <1>0, <1>2 DEF QueueInLoop
<1>3. ASSUME NEW t \in Threads, QueueCheck(t) PROVE TypeOK'
  BY <1>3 DEF QueueCheck
<1>4. ASSUME NEW t \in Threads, WakeUp(t) PROVE TypeOK'
  <2>1. wakeupFd_' \in 0 .. EventFdMax
    BY <1>4 DEF WakeUp, AfterWrite
  <2>2. woke' \subseteq Functors
    BY <1>4 DEF WakeUp
  <2>3. call' \in [Threads -> Calls]
    BY <1>4 DEF WakeUp
  <2> QED BY <1>4, <2>1, <2>2, <2>3 DEF WakeUp
<1>5. ASSUME NEW t \in Threads, Quit(t) PROVE TypeOK'
  BY <1>5 DEF Quit
<1>6. CASE EnterLoop  BY <1>6 DEF EnterLoop
<1>7. CASE ResetQuit  BY <1>7 DEF ResetQuit
<1>8. CASE TestQuit
  <2>1. activeChannels_' \in Seq(Channels)
    <3>1. <<>> \in Seq(Channels)
      OBVIOUS
    <3> QED BY <1>8, <3>1 DEF TestQuit
  <2>2. pc' \in PCs
    BY <1>8 DEF TestQuit
  <2> QED BY <1>8, <2>1, <2>2 DEF TestQuit
<1>9. CASE PollReturn
  <2> PICK batch \in SetToSeqs(ReadyChannels) :
             activeChannels_' = activeChannels_ \o batch
    BY <1>9 DEF PollReturn
  <2>1. batch \in Seq(Channels)
    BY BatchOfReady
  <2>2. activeChannels_' \in Seq(Channels)
    BY <2>1
  <2> QED BY <1>9, <2>2 DEF PollReturn
<1>10. CASE PollEmpty  BY <1>10 DEF PollEmpty
<1>11. CASE HandleRead  BY <1>11 DEF HandleRead
<1>12. CASE HandleIo  BY <1>12 DEF HandleIo
<1>13. CASE BeginDrain  BY <1>13 DEF BeginDrain
<1>14. CASE Swap  BY <1>14 DEF Swap
<1>15. CASE CallFunctors  BY <1>15 DEF CallFunctors, CalledBy
<1>16. CASE Release  BY <1>16 DEF Release
<1>17. CASE LeaveLoop  BY <1>17 DEF LeaveLoop
<1>18. CASE Destroy  BY <1>18 DEF Destroy
<1>19. ASSUME NEW c \in IoChannels, IoReady(c) PROVE TypeOK'
  BY <1>19 DEF IoReady
<1>20. CASE UNCHANGED vars
  BY <1>20 DEF vars
<1> QED
  BY <1>1, <1>2, <1>3, <1>4, <1>5, <1>6, <1>7, <1>8, <1>9, <1>10, <1>11, <1>12,
     <1>13, <1>14, <1>15, <1>16, <1>17, <1>18, <1>19, <1>20
  DEF Next, LoopStep, FinishCall

\* TypeOK holds initially.
LEMMA TypeInit == Init => TypeOK
<1> SUFFICES ASSUME Init PROVE TypeOK
  OBVIOUS
<1>1. <<>> \in Seq(Functors) /\ <<>> \in Seq(Channels)
  OBVIOUS
<1>2. call \in [Threads -> Calls]
  BY DEF Init, Calls, Idle
<1>3. wakeupFd_ \in 0 .. EventFdMax /\ cursor \in Nat \ {0}
  BY EventFdMaxIsNat DEF Init
<1>4. pc \in PCs /\ ready \subseteq IoChannels
  BY DEF Init, PCs
<1> QED BY <1>1, <1>2, <1>3, <1>4 DEF Init, TypeOK

\* Every variable of the loop keeps its type in every behaviour.
THEOREM Typing == Spec => []TypeOK
  BY TypeInit, TypeStep, PTL DEF Spec

-----------------------------------------------------------------------------
(* No functor is lost, duplicated or overtaken *)

\* The vector the drain works on is empty outside doPendingFunctors, and no
\* step moves a functor out of its place in line.
LEMMA FifoStep ==
  ASSUME TypeOK, FifoConservation, FunctorsOnlyInDrain, [Next]_vars
  PROVE  FifoConservation' /\ FunctorsOnlyInDrain'
<1> USE DEF FifoConservation, FunctorsOnlyInDrain
<1>1. ASSUME NEW f \in Functors,
             pendingFunctors_' = Append(pendingFunctors_, f),
             posted' = Append(posted, f),
             UNCHANGED <<released, functors, pc>>
      PROVE  FifoConservation' /\ FunctorsOnlyInDrain'
  <2>1. posted' = (released \o functors \o pendingFunctors_) \o <<f>>
    BY <1>1, AppendIsConcat DEF TypeOK
  <2>2. pendingFunctors_' = pendingFunctors_ \o <<f>>
    BY <1>1, AppendIsConcat DEF TypeOK
  <2>3. posted' = (released \o functors) \o pendingFunctors_'
    <3>1. /\ released \o functors \in Seq(Functors)
          /\ pendingFunctors_ \in Seq(Functors) /\ <<f>> \in Seq(Functors)
      BY DEF TypeOK
    <3> HIDE DEF FifoConservation
    <3> QED BY <2>1, <2>2, <3>1, ConcatAssociative
  <2> QED BY <1>1, <2>3
<1>2. ASSUME UNCHANGED <<pendingFunctors_, posted, released, functors>>,
             pc' \notin {"calling", "release"} => functors = <<>>
      PROVE  FifoConservation' /\ FunctorsOnlyInDrain'
  BY <1>2
<1>3. ASSUME NEW t \in Threads, NEW f \in Functors, RunInLoop(t, f)
      PROVE  FifoConservation' /\ FunctorsOnlyInDrain'
  <2>1. CASE isInLoopThread(t)
    BY <1>2, <1>3, <2>1 DEF RunInLoop, loopVars
  <2>2. CASE ~isInLoopThread(t)
    <3>1. Emplace(t, f) /\ UNCHANGED <<released, functors, pc>>
      BY <1>3, <2>2 DEF RunInLoop, loopVars
    <3> QED BY <1>1, <3>1 DEF Emplace
  <2> QED BY <2>1, <2>2
<1>4. ASSUME NEW t \in Threads, NEW f \in Functors, QueueInLoop(t, f)
      PROVE  FifoConservation' /\ FunctorsOnlyInDrain'
  BY <1>1, <1>4 DEF QueueInLoop, Emplace, loopVars
<1>5. ASSUME NEW t \in Threads, FinishCall(t) \/ Quit(t)
      PROVE  FifoConservation' /\ FunctorsOnlyInDrain'
  BY <1>2, <1>5 DEF FinishCall, QueueCheck, WakeUp, Quit, loopVars, queueVars,
                    historyVars
<1>6. CASE \/ EnterLoop \/ ResetQuit \/ TestQuit \/ PollEmpty \/ HandleRead
           \/ HandleIo \/ BeginDrain \/ CallFunctors \/ LeaveLoop
  BY <1>2, <1>6 DEF EnterLoop, ResetQuit, TestQuit, PollEmpty, HandleRead,
                    HandleIo, BeginDrain, CallFunctors, LeaveLoop, queueVars,
                    historyVars, AtChannel
<1>7. CASE PollReturn
  BY <1>2, <1>7 DEF PollReturn, queueVars, historyVars
<1>8. CASE Swap
  <2>1. functors = <<>>
    BY <1>8 DEF Swap
  <2>2. /\ functors' = pendingFunctors_ /\ pendingFunctors_' = <<>>
        /\ pc' = "calling" /\ UNCHANGED <<posted, released>>
    BY <1>8, <2>1 DEF Swap, historyVars
  <2> QED BY <2>1, <2>2 DEF TypeOK
<1>9. CASE Release
  BY <1>9 DEF Release, TypeOK
<1>10. CASE Destroy
  <2>1. functors = <<>>
    BY <1>10 DEF Destroy
  <2>2. /\ released' = released \o pendingFunctors_ /\ pendingFunctors_' = <<>>
        /\ functors' = <<>> /\ posted' = posted
    BY <1>10, <2>1 DEF Destroy
  <2> QED BY <2>1, <2>2 DEF TypeOK
<1>11. ASSUME NEW c \in IoChannels, IoReady(c)
       PROVE  FifoConservation' /\ FunctorsOnlyInDrain'
  BY <1>2, <1>11 DEF IoReady, loopVars, queueVars, historyVars
<1>12. CASE UNCHANGED vars
  BY <1>2, <1>12 DEF vars, loopVars, queueVars, historyVars
<1> QED
  BY <1>3, <1>4, <1>5, <1>6, <1>7, <1>8, <1>9, <1>10, <1>11, <1>12
  DEF Next, LoopStep

-----------------------------------------------------------------------------
(* The wake-up channel is read once per poll that reports it *)

\* A poll starts from an empty list and reports each channel once; from then
\* on only the loop thread lowers the eventfd counter, when it passes the
\* wake-up channel.
LEMMA ActiveStep ==
  ASSUME TypeOK, ActiveOnce, ActiveCleared, WakeupAhead, [Next]_vars
  PROVE  ActiveOnce' /\ ActiveCleared' /\ WakeupAhead'
<1> DEFINE Goal == ActiveOnce' /\ ActiveCleared' /\ WakeupAhead'
<1>1. ASSUME UNCHANGED <<activeChannels_, cursor, pc>>,
             wakeupFd_ > 0 => wakeupFd_' > 0
      PROVE  Goal
  BY <1>1 DEF ActiveOnce, ActiveCleared, WakeupAhead
<1>2. ASSUME UNCHANGED activeChannels_, pc' \notin {"poll", "handle"}
      PROVE  Goal
  BY <1>2 DEF ActiveOnce, ActiveCleared, WakeupAhead
<1>3. ASSUME NEW t \in Threads, NEW f \in Functors,
             RunInLoop(t, f) \/ QueueInLoop(t, f)
      PROVE  Goal
  BY <1>1, <1>3 DEF RunInLoop, QueueInLoop, loopVars, TypeOK
<1>4. ASSUME NEW t \in Threads, QueueCheck(t) \/ Quit(t)
      PROVE  Goal
  BY <1>1, <1>4 DEF QueueCheck, Quit, loopVars, TypeOK
<1>5. ASSUME NEW t \in Threads, WakeUp(t)
      PROVE  Goal
  <2>1. wakeupFd_ > 0 => wakeupFd_' > 0
    BY <1>5, EventFdMaxIsNat DEF WakeUp, AfterWrite, TypeOK
  <2> QED BY <1>1, <1>5, <2>1 DEF WakeUp, loopVars
<1>6. CASE \/ EnterLoop \/ ResetQuit \/ BeginDrain \/ Swap \/ CallFunctors
           \/ Release \/ LeaveLoop \/ Destroy
  BY <1>2, <1>6 DEF EnterLoop, ResetQuit, BeginDrain, Swap, CallFunctors,
                    Release, LeaveLoop, Destroy
<1>7. CASE TestQuit
  BY <1>7 DEF TestQuit, ActiveOnce, ActiveCleared, WakeupAhead
<1>8. CASE PollReturn
  <2> PICK batch \in SetToSeqs(ReadyChannels) :
             activeChannels_' = activeChannels_ \o batch
    BY <1>8 DEF PollReturn
  <2>1. /\ batch \in Seq(Channels)
        /\ \A i, j \in DOMAIN batch : i # j => batch[i] # batch[j]
        /\ \A i \in DOMAIN batch : batch[i] = Wakeup => wakeupFd_ > 0
    BY BatchOfReady
  <2>2. activeChannels_' = batch
    <3>1. activeChannels_ = <<>>
      BY <1>8 DEF PollReturn, ActiveCleared
    <3> QED BY <2>1, <3>1, ConcatEmptySeq
  <2>3. pc' = "handle" /\ wakeupFd_' = wakeupFd_
    BY <1>8 DEF PollReturn
  <2>4. ActiveOnce'
    BY <2>1, <2>2 DEF ActiveOnce
  <2>5. WakeupAhead'
    BY <2>1, <2>2, <2>3 DEF WakeupAhead
  <2> QED BY <2>3, <2>4, <2>5 DEF ActiveCleared
<1>9. CASE PollEmpty
  BY <1>9 DEF PollEmpty, ActiveOnce, ActiveCleared, WakeupAhead
<1>10. CASE HandleRead
  <2>1. /\ pc = "handle" /\ pc' = "handle" /\ cursor' = cursor + 1
        /\ activeChannels_' = activeChannels_
        /\ cursor \in DOMAIN activeChannels_ /\ cursor \in Nat
        /\ activeChannels_[cursor] = Wakeup
    BY <1>10 DEF HandleRead, AtChannel, TypeOK
  <2>2. \A i \in DOMAIN activeChannels_ :
           i >= cursor' => activeChannels_[i] # Wakeup
    BY <2>1 DEF ActiveOnce, TypeOK
  <2> QED BY <2>1, <2>2 DEF ActiveOnce, ActiveCleared, WakeupAhead
<1>11. CASE HandleIo
  <2>1. /\ cursor' = cursor + 1 /\ pc' = pc
        /\ UNCHANGED <<activeChannels_, wakeupFd_>>
    BY <1>11 DEF HandleIo
  <2> QED BY <2>1 DEF ActiveOnce, ActiveCleared, WakeupAhead, TypeOK
<1>12. ASSUME NEW c \in IoChannels, IoReady(c)
       PROVE  Goal
  BY <1>1, <1>12 DEF IoReady, loopVars, TypeOK
<1>13. CASE UNCHANGED vars
  BY <1>1, <1>13 DEF vars, loopVars, TypeOK
<1> QED
  BY <1>3, <1>4, <1>5, <1>6, <1>7, <1>8, <1>9, <1>10, <1>11, <1>12, <1>13
  DEF Next, LoopStep, FinishCall

-----------------------------------------------------------------------------
(* A wake-up outlives the functor it was written for *)

\* Wake-ups are only ever attributed to functors that were posted.
LEMMA PostedStep ==
  ASSUME TypeOK, CallsPosted, WokeWerePosted, [Next]_vars
  PROVE  CallsPosted' /\ WokeWerePosted'
<1> USE NoFunctorIsNone
<1> USE DEF CallsPosted, WokeWerePosted
<1>1. ASSUME UNCHANGED <<call, poster, woke>>
      PROVE  CallsPosted' /\ WokeWerePosted'
  BY <1>1
<1>2. ASSUME NEW t \in Threads, NEW f \in Functors, Emplace(t, f), UNCHANGED woke
      PROVE  CallsPosted' /\ WokeWerePosted'
  <2>1. \A g \in Functors : poster[g] # NoFunctor => poster'[g] # NoFunctor
    BY <1>2 DEF Emplace, TypeOK
  <2>2. poster'[f] # NoFunctor
    BY <1>2 DEF Emplace, TypeOK
  <2>3. \A u \in Threads : \/ call'[u] = call[u]
                           \/ call'[u] = [at |-> "check", functor |-> f]
    BY <1>2 DEF Emplace, TypeOK
  <2>4. \A u \in Threads : call[u].functor \in Functors \cup {NoFunctor}
    BY DEF TypeOK, Calls
  <2>5. CallsPosted'
    <3> SUFFICES ASSUME NEW u \in Threads, call'[u].functor # NoFunctor
                 PROVE  poster'[call'[u].functor] # NoFunctor
      OBVIOUS
    <3>1. CASE call'[u] = call[u]
      BY <2>1, <2>4, <3>1
    <3>2. CASE call'[u] = [at |-> "check", functor |-> f]
      <4>1. call'[u].functor = f
        BY <3>2
      <4> QED BY <2>2, <4>1
    <3> QED BY <2>3, <3>1, <3>2
  <2>6. WokeWerePosted'
    BY <1>2, <2>1 DEF TypeOK
  <2> QED BY <2>5, <2>6
<1>3. ASSUME NEW t \in Threads, NEW f \in Functors, RunInLoop(t, f)
      PROVE  CallsPosted' /\ WokeWerePosted'
  <2>1. CASE isInLoopThread(t)
    BY <1>1, <1>3, <2>1 DEF RunInLoop
  <2>2. CASE ~isInLoopThread(t)
    BY <1>2, <1>3, <2>2 DEF RunInLoop
  <2> QED BY <2>1, <2>2
<1>4. ASSUME NEW t \in Threads, NEW f \in Functors, QueueInLoop(t, f)
      PROVE  CallsPosted' /\ WokeWerePosted'
  BY <1>2, <1>4 DEF QueueInLoop
<1>5. ASSUME NEW t \in Threads, QueueCheck(t)
      PROVE  CallsPosted' /\ WokeWerePosted'
  <2>1. \A u \in Threads : call'[u].functor \in {call[u].functor, NoFunctor}
    BY <1>5 DEF QueueCheck, TypeOK, Calls, Idle
  <2> QED BY <1>5, <2>1 DEF QueueCheck, historyVars
<1>6. ASSUME NEW t \in Threads, WakeUp(t)
      PROVE  CallsPosted' /\ WokeWerePosted'
  <2>1. \A u \in Threads : call'[u].functor \in {call[u].functor, NoFunctor}
    BY <1>6 DEF WakeUp, TypeOK, Calls, Idle
  <2>2. woke' = woke \cup ({call[t].functor} \ {NoFunctor})
    BY <1>6 DEF WakeUp
  <2> QED BY <1>6, <2>1, <2>2 DEF WakeUp
<1>7. ASSUME NEW t \in Threads, Quit(t)
      PROVE  CallsPosted' /\ WokeWerePosted'
  <2>1. \A u \in Threads : call'[u].functor \in {call[u].functor, NoFunctor}
    BY <1>7 DEF Quit, TypeOK, Calls
  <2> QED BY <1>7, <2>1 DEF Quit, historyVars
<1>8. CASE LoopStep \/ Destroy
  BY <1>1, <1>8
  DEF LoopStep, EnterLoop, ResetQuit, TestQuit, PollReturn, PollEmpty,
      HandleRead, HandleIo, BeginDrain, Swap, CallFunctors, Release, LeaveLoop,
      Destroy, historyVars
<1>9. ASSUME NEW c \in IoChannels, IoReady(c)
      PROVE  CallsPosted' /\ WokeWerePosted'
  BY <1>1, <1>9 DEF IoReady, historyVars
<1>10. CASE UNCHANGED vars
  BY <1>1, <1>10 DEF vars, historyVars
<1> QED BY <1>3, <1>4, <1>5, <1>6, <1>7, <1>8, <1>9, <1>10 DEF Next, FinishCall

\* A fresh functor has not been woken for; a write leaves the counter
\* positive; and the counter is cleared only before the swap of the same
\* iteration, which leaves nothing pending.
LEMMA WakeStep ==
  ASSUME TypeOK, FunctorsOnlyInDrain, WokeWerePosted, WakeCoversPending,
         [Next]_vars
  PROVE  WakeCoversPending'
<1> USE DEF WakeCoversPending
<1>1. ASSUME UNCHANGED <<woke, pendingFunctors_, wakeupFd_>>,
             pc' \in {"handle", "swap"} \/ pc \notin {"handle", "swap"}
      PROVE  WakeCoversPending'
  BY <1>1
<1>2. ASSUME NEW t \in Threads, NEW f \in Functors, Fresh(f), Emplace(t, f),
             UNCHANGED <<woke, wakeupFd_, pc>>
      PROVE  WakeCoversPending'
  <2>1. f \notin woke
    BY <1>2 DEF Fresh, WokeWerePosted
  <2>2. pendingFunctors_' = Append(pendingFunctors_, f)
    BY <1>2 DEF Emplace
  <2>3. ToSet(pendingFunctors_') \subseteq ToSet(pendingFunctors_) \cup {f}
    BY <2>2 DEF ToSet, TypeOK
  <2> QED BY <1>2, <2>1, <2>3
<1>3. ASSUME NEW t \in Threads, NEW f \in Functors, RunInLoop(t, f)
      PROVE  WakeCoversPending'
  <2>1. CASE isInLoopThread(t)
    BY <1>1, <1>3, <2>1 DEF RunInLoop, loopVars
  <2>2. CASE ~isInLoopThread(t)
    BY <1>2, <1>3, <2>2 DEF RunInLoop, loopVars
  <2> QED BY <2>1, <2>2
<1>4. ASSUME NEW t \in Threads, NEW f \in Functors, QueueInLoop(t, f)
      PROVE  WakeCoversPending'
  BY <1>2, <1>4 DEF QueueInLoop, loopVars
<1>5. ASSUME NEW t \in Threads, QueueCheck(t) \/ Quit(t)
      PROVE  WakeCoversPending'
  BY <1>1, <1>5 DEF QueueCheck, Quit, loopVars, queueVars, historyVars
<1>6. ASSUME NEW t \in Threads, WakeUp(t)
      PROVE  WakeCoversPending'
  <2>1. wakeupFd_' > 0
    BY <1>6, EventFdMaxIsNat DEF WakeUp, AfterWrite, TypeOK
  <2> QED BY <2>1
<1>7. CASE \/ EnterLoop \/ ResetQuit \/ TestQuit \/ PollReturn \/ PollEmpty
           \/ HandleIo \/ BeginDrain \/ CallFunctors \/ Release \/ LeaveLoop
  BY <1>1, <1>7
  DEF EnterLoop, ResetQuit, TestQuit, PollReturn, PollEmpty, HandleIo,
      BeginDrain, CallFunctors, Release, LeaveLoop, AtChannel, queueVars,
      historyVars
<1>8. CASE HandleRead
  BY <1>8 DEF HandleRead, AtChannel
<1>9. ASSUME Swap \/ Destroy
      PROVE  WakeCoversPending'
  <2>1. pendingFunctors_' = <<>>
    BY <1>9 DEF Swap, Destroy, FunctorsOnlyInDrain
  <2> QED BY <2>1 DEF ToSet
<1>10. ASSUME NEW c \in IoChannels, IoReady(c)
       PROVE  WakeCoversPending'
  BY <1>1, <1>10 DEF IoReady, loopVars, queueVars, historyVars
<1>11. CASE UNCHANGED vars
  BY <1>1, <1>11 DEF vars, loopVars, queueVars, historyVars
<1> QED
  BY <1>3, <1>4, <1>5, <1>6, <1>7, <1>8, <1>9, <1>10, <1>11
  DEF Next, LoopStep, FinishCall

-----------------------------------------------------------------------------
(* The invariants of the specification *)

\* Every conjunct of the inductive invariant holds initially.
LEMMA IndInvInit == Init => IndInv
<1> SUFFICES ASSUME Init PROVE IndInv
  OBVIOUS
<1>1. TypeOK
  BY TypeInit
<1>2. FifoConservation
  BY DEF Init, FifoConservation
<1>3. CallsPosted
  BY DEF Init, CallsPosted, Idle
<1> QED
  BY <1>1, <1>2, <1>3
  DEF Init, IndInv, FunctorsOnlyInDrain, ActiveOnce, ActiveCleared, WakeupAhead,
      WokeWerePosted, WakeCoversPending

\* ... and every step preserves it.
LEMMA IndInvStep == IndInv /\ [Next]_vars => IndInv'
  BY TypeStep, FifoStep, ActiveStep, PostedStep, WakeStep DEF IndInv

\* The inductive invariant holds in every behaviour of the loop.
THEOREM IndInvHolds == Spec => []IndInv
  BY IndInvInit, IndInvStep, PTL DEF Spec

\* No functor is lost, duplicated or reordered by doPendingFunctors' swap,
\* for any number of producers.
THEOREM Fifo == Spec => []FifoConservation
<1>1. IndInv => FifoConservation
  BY DEF IndInv
<1> QED BY <1>1, IndInvHolds, PTL

\* EventLoop::handleRead never finds the eventfd empty.
THEOREM WakeupReadsAreFull == Spec => []NoShortWakeupRead
<1>1. IndInv => NoShortWakeupRead
  BY DEF IndInv, TypeOK, WakeupAhead, NoShortWakeupRead, AtChannel
<1> QED BY <1>1, IndInvHolds, PTL

\* The write in wakeup() is not consumed before its functor is swapped out.
THEOREM WakeupsLast == Spec => []WakeCoversPending
<1>1. IndInv => WakeCoversPending
  BY DEF IndInv
<1> QED BY <1>1, IndInvHolds, PTL

-----------------------------------------------------------------------------
(* EventLoop implements FunctorMailbox *)

\* Taking the first part of a concatenation away is a Drain.
LEMMA DrainPrefix ==
  ASSUME NEW s \in Seq(Functors), NEW u \in Seq(Functors)
  PROVE  /\ SubSeq(s \o u, 1, Len(s)) = s
         /\ SubSeq(s \o u, Len(s) + 1, Len(s \o u)) = u
         /\ Len(s) \in 0 .. Len(s \o u)
<1>1. Len(s \o u) = Len(s) + Len(u) /\ Len(s) \in Nat /\ Len(u) \in Nat
  OBVIOUS
<1> QED BY <1>1, SubSeqOfConcat1, SubSeqOfConcat2, SubSeqFull

\* Every step of the loop is a step of the mailbox or leaves it unchanged:
\* an emplace posts, the end of a drain and the destructor take a prefix, and
\* the swap moves functors inside the box.
LEMMA MailboxStep ==
  IndInv /\ [Next]_vars => [Mailbox!Next]_(Mailbox!mailboxVars)
<1> SUFFICES ASSUME IndInv, [Next]_vars
             PROVE  [Mailbox!Next]_(Mailbox!mailboxVars)
  OBVIOUS
<1> DEFINE Box == functors \o pendingFunctors_
<1> DEFINE Goal == [Mailbox!Next]_(Mailbox!mailboxVars)
<1>a. /\ functors \in Seq(Functors) /\ pendingFunctors_ \in Seq(Functors)
      /\ FunctorsOnlyInDrain
  BY DEF IndInv, TypeOK
<1>1. ASSUME UNCHANGED <<pendingFunctors_, functors, released>>
      PROVE  Goal
  BY <1>1 DEF Mailbox!mailboxVars
<1>2. ASSUME NEW f \in Functors, pendingFunctors_' = Append(pendingFunctors_, f),
             UNCHANGED <<functors, released>>
      PROVE  Goal
  <2>1. Box' = Append(Box, f)
    <3>1. /\ pendingFunctors_' = pendingFunctors_ \o <<f>>
          /\ Append(Box, f) = Box \o <<f>>
          /\ <<f>> \in Seq(Functors)
      BY <1>2, <1>a, AppendIsConcat
    <3> QED BY <1>2, <1>a, <3>1, ConcatAssociative
  <2> QED BY <1>2, <2>1 DEF Mailbox!Next, Mailbox!Post
<1>3. ASSUME NEW t \in Threads, NEW f \in Functors,
             RunInLoop(t, f) \/ QueueInLoop(t, f)
      PROVE  Goal
  BY <1>1, <1>2, <1>3 DEF RunInLoop, QueueInLoop, Emplace
<1>4. ASSUME NEW t \in Threads, FinishCall(t) \/ Quit(t)
      PROVE  Goal
  BY <1>1, <1>4 DEF FinishCall, QueueCheck, WakeUp, Quit, queueVars, historyVars
<1>5. CASE \/ EnterLoop \/ ResetQuit \/ TestQuit \/ PollReturn \/ PollEmpty
           \/ HandleRead \/ HandleIo \/ BeginDrain \/ CallFunctors \/ LeaveLoop
  BY <1>1, <1>5
  DEF EnterLoop, ResetQuit, TestQuit, PollReturn, PollEmpty, HandleRead,
      HandleIo, BeginDrain, CallFunctors, LeaveLoop, queueVars, historyVars
<1>6. CASE Swap
  <2>1. functors = <<>>
    BY <1>6, <1>a DEF Swap, FunctorsOnlyInDrain
  <2>2. /\ functors' = pendingFunctors_ /\ pendingFunctors_' = <<>>
        /\ released' = released
    BY <1>6, <2>1 DEF Swap, historyVars
  <2>3. Box' = Box
    BY <1>a, <2>1, <2>2, ConcatEmptySeq
  <2> QED BY <2>2, <2>3 DEF Mailbox!mailboxVars
<1>7. CASE Release
  <2>1. Box' = pendingFunctors_ /\ released' = released \o functors
    BY <1>7, <1>a, ConcatEmptySeq DEF Release
  <2>2. /\ SubSeq(Box, 1, Len(functors)) = functors
        /\ SubSeq(Box, Len(functors) + 1, Len(Box)) = pendingFunctors_
        /\ Len(functors) \in 0 .. Len(Box)
    BY <1>a, DrainPrefix
  <2> QED BY <2>1, <2>2 DEF Mailbox!Next, Mailbox!Drain
<1>8. CASE Destroy
  <2>1. functors = <<>>
    BY <1>8, <1>a DEF Destroy, FunctorsOnlyInDrain
  <2>2. /\ Box = pendingFunctors_ /\ Box' = <<>>
        /\ released' = released \o pendingFunctors_
    BY <1>8, <1>a, <2>1, ConcatEmptySeq DEF Destroy
  <2>3. /\ SubSeq(Box, 1, Len(Box)) = pendingFunctors_
        /\ SubSeq(Box, Len(Box) + 1, Len(Box)) = <<>>
        /\ Len(Box) \in 0 .. Len(Box)
    BY <1>a, <2>2, SubSeqFull
  <2> QED BY <2>2, <2>3 DEF Mailbox!Next, Mailbox!Drain
<1>9. ASSUME NEW c \in IoChannels, IoReady(c)
      PROVE  Goal
  BY <1>1, <1>9 DEF IoReady, queueVars, historyVars
<1>10. CASE UNCHANGED vars
  BY <1>1, <1>10 DEF vars, queueVars, historyVars
<1> QED
  BY <1>3, <1>4, <1>5, <1>6, <1>7, <1>8, <1>9, <1>10 DEF Next, LoopStep

\* The two vectors, the mutex and the swap implement a mailbox that loses,
\* repeats and reorders nothing.
THEOREM MailboxImplemented == Spec => ImplementsMailbox
<1>1. Init => Mailbox!Init
  BY DEF Init, Mailbox!Init
<1> QED
  BY <1>1, MailboxStep, IndInvHolds, PTL
  DEF Spec, ImplementsMailbox, Mailbox!Spec
=============================================================================
