--------------------------- MODULE TcpServer_proofs ---------------------------
(***************************************************************************)
(* The map of a server, and the loops its connections use: proofs for any  *)
(* number of threads and connections.  The server takes the pool's steps   *)
(* and no others, so what is proved of EventLoopThreadPool holds in it.    *)
(***************************************************************************)
EXTENDS TcpServer, EventLoopThreadPool_proofs

\* Every step of the server is a step of its pool, or leaves the pool alone.
LEMMA PoolMoves == [ServerNext]_serverVars => [Next]_vars
<1>1. ASSUME PoolStep PROVE Next
  BY <1>1 DEF PoolStep, Next, StartStep, DestroyStep
<1>2. ASSUME NEW i \in Threads, ServerWorkerStep(i) PROVE Next
  BY <1>2 DEF ServerWorkerStep, Next
<1>3. ASSUME ServerStart \/ ServerFinishStart \/ DestroyPool \/ \E c \in Conns : Accept(c)
      PROVE  Next
  BY <1>3 DEF ServerStart, ServerFinishStart, DestroyPool, Accept, Next, StartStep
<1>4. ASSUME \/ BaseStep \/ TearDown \/ \E c \in Conns : TakeOver(c)
             \/ TestConnected \/ Clear \/ RemoveLast \/ UNCHANGED serverVars
      PROVE  UNCHANGED vars
  BY <1>4 DEF BaseStep, Insert, Establish, Announce, TearDown, TakeOver, TestConnected,
              Clear, RemoveLast, serverVars
<1>5. ASSUME NEW l \in Actors, LoopStep(l) \/ ServerPoll(l) \/ HandleClose(l)
      PROVE  UNCHANGED vars
  BY <1>5 DEF LoopStep, HandleReturn, Disable, Erase, Queue, Drain, HandleEvent, ServerPoll,
              HandleClose
<1> QED BY <1>1, <1>2, <1>3, <1>4, <1>5 DEF ServerNext, DestructorStep

\* The server implements its pool: start(), getNextLoop() and the pool's destructor
\* are called as EventLoopThreadPool has them called.
THEOREM PoolImplemented == ServerSpec => Spec
<1>1. ServerInit => Init
  BY DEF ServerInit
<1> QED BY <1>1, PoolMoves, PTL DEF ServerSpec, Spec

\* In a server, too, the loops differ by at most one connection.
THEOREM ServerRoundRobin == ServerSpec => []Balanced
  BY PoolImplemented, RoundRobin, PTL

\* In a server, too, every loop that can be handed out runs.
THEOREM ServerLoopsRun == ServerSpec => []GivenLoopsRun
  BY PoolImplemented, PoolLoopsRun, PTL

-----------------------------------------------------------------------------
\* Actors are the pool's threads and the base thread, which differ.
LEMMA Apart == Actors = Threads \cup {baseLoop_} /\ baseLoop_ \notin Threads
  BY BaseLoopApart DEF Actors

\* What a thread can be doing, and that no connection is none.
LEMMA WhatIsDone ==
  ASSUME ServerTypeOK, NEW t \in Actors
  PROVE  /\ doing[t] = Rest \/ doing[t].at # "idle"
         /\ doing[t].at \notin {"idle", "destroy"} => doing[t].on \in Conns
         /\ doing[t].at \in {"idle", "destroy"} => doing[t].on = NoConn
         /\ Rest.at = "idle" /\ Rest.on = NoConn /\ NoConn \notin Conns
  BY NoConnIsNone DEF ServerTypeOK, Rest, Doings, LoopPoints, BasePoints

\* A thread goes on by itself.
LEMMA Going ==
  ASSUME ServerTypeOK, NEW t \in Actors, NEW p, NEW c, Go(t, p, c)
  PROVE  /\ doing'[t] = [at |-> p, on |-> c]
         /\ \A u \in Actors : u # t => doing'[u] = doing[u]
  BY DEF ServerTypeOK, Go

\* Once there are connections the pool starts no threads, and each of its loops ends
\* by itself.
LEMMA PoolSettled ==
  ASSUME PoolStep, stage \in {"started", "stopping", "gone"}
  PROVE  UNCHANGED <<worker, loops_>>
         /\ (stage' = stage \/ (stage = "stopping" /\ stage' = "gone"))
<1>1. CASE SetThreadNum \/ FinishDestroy
  BY <1>1 DEF SetThreadNum, FinishDestroy, threadVars
<1>2. CASE DestroyNext
  BY <1>2 DEF DestroyNext, Thread!Destroy
<1>3. ASSUME NEW i \in Threads, InDestructor(i)
      PROVE  UNCHANGED <<worker, loops_, stage>>
  BY <1>3 DEF InDestructor, Thread!QuitLoop, Thread!Join, Thread!ReleaseMembers
<1>4. CASE StartNext \/ \E i \in Threads : InStartLoop(i) \/ SpuriousWake(i)
  BY <1>4 DEF StartNext, InStartLoop, SpuriousWake
<1> QED BY <1>1, <1>2, <1>3, <1>4 DEF PoolStep

\* A worker's step moves that worker only, and ends the loop's existence only from
\* "unwind".
LEMMA WorkerMoves ==
  ASSUME worker \in [Threads -> Thread!WorkerPoints], NEW i \in Threads,
         Thread!WorkerStep(i)
  PROVE  /\ \A j \in Threads : j # i => worker'[j] = worker[j]
         /\ Thread!LoopExists(i) /\ worker[i] # "unwind" => Thread!LoopExists(i)'
  BY DEF Thread!WorkerStep, Thread!Post, Thread!ConstructLoop, Thread!InitCallback,
         Thread!Publish, Thread!EnterLoop, Thread!LeaveLoop, Thread!Unpublish,
         Thread!Unlock, Thread!Unwind, Thread!Advance, Thread!LoopExists

-----------------------------------------------------------------------------
(* The parts of the invariant, one after the other *)

\* Every step keeps the server's variables in their types.
LEMMA ServerTypeStep ==
  ASSUME ServerInv, TypeOK', CallInv, [ServerNext]_serverVars
  PROVE  ServerTypeOK'
<1> USE Apart, NoConnIsNone DEF ServerTypeOK, memberVars, stateVars
<1>0. /\ ServerTypeOK /\ baseLoop_ \in Actors
      /\ \A c \in Conns : \A p \in LoopPoints \cup BasePoints : [at |-> p, on |-> c] \in Doings
      /\ [at |-> "idle", on |-> NoConn] \in Doings /\ [at |-> "destroy", on |-> NoConn] \in Doings
      /\ \A t \in Actors : \A d \in Doings :
            doing' = [doing EXCEPT ![t] = d] => doing' \in [Actors -> Doings]
  BY DEF ServerInv, Doings, Rest
<1>1. CASE PoolStep \/ ServerStart \/ ServerFinishStart \/ UNCHANGED serverVars
  BY <1>1, <1>0 DEF PoolStep, ServerStart, ServerFinishStart, serverVars, serverOnly
<1>2. CASE BaseStep \/ TestConnected \/ Clear \/ RemoveLast
  <2> DEFINE c == doing[baseLoop_].on
  <2>1. c \in accepted
    BY <1>0, <1>2 DEF BaseStep, Insert, Establish, Announce, TestConnected, Clear, RemoveLast,
       Does, ServerInv, DoingInv, BasePoints
  <2>2. c \in Conns
    BY <1>0, <2>1
  <2>3. doing' \in [Actors -> Doings]
    BY <1>0, <1>2, <2>2 DEF BaseStep, Insert, Establish, Announce, TestConnected, Clear,
       RemoveLast, Go, BasePoints
  <2> QED BY <1>0, <1>2, <2>1, <2>3 DEF BaseStep, Insert, Establish, Announce, TestConnected,
          Clear, RemoveLast, Disabled
<1>3. CASE TearDown \/ DestroyPool
  <2>1. doing' \in [Actors -> Doings]
    BY <1>0, <1>3 DEF TearDown, DestroyPool, Go
  <2> QED BY <1>0, <1>3, <2>1 DEF TearDown, DestroyPool
<1>4. ASSUME NEW c \in Conns, Accept(c) PROVE ServerTypeOK'
  <2>1. NextLoop \in Actors
    BY <1>4 DEF Accept, GetNextLoop, NextLoop, ServerInv, TypeOK
  <2>2. doing' \in [Actors -> Doings]
    BY <1>0, <1>4 DEF Accept, Go, BasePoints
  <2> QED BY <1>0, <1>4, <2>1, <2>2 DEF Accept
<1>5. ASSUME NEW c \in Conns, TakeOver(c) PROVE ServerTypeOK'
  <2>1. doing' \in [Actors -> Doings]
    BY <1>0, <1>5 DEF TakeOver, Go, BasePoints
  <2> QED BY <1>0, <1>5, <2>1 DEF TakeOver
<1>6. ASSUME NEW l \in Actors, NEW c \in Conns, HandleEvent(l, c) PROVE ServerTypeOK'
  <2>1. doing' \in [Actors -> Doings]
    BY <1>0, <1>6 DEF HandleEvent, Go, LoopPoints
  <2> QED BY <1>0, <1>6, <2>1 DEF HandleEvent
<1>7. ASSUME NEW l \in Actors,
             HandleReturn(l) \/ HandleClose(l) \/ Disable(l) \/ Erase(l) \/ Queue(l)
      PROVE  ServerTypeOK'
  <2> DEFINE c == doing[l].on
  <2>1. c \in accepted
    BY <1>7 DEF HandleReturn, HandleClose, Disable, Erase, Queue, Does, ServerInv, DoingInv,
       LoopPoints
  <2>2. c \in Conns
    BY <1>0, <2>1
  <2>3. doing' \in [Actors -> Doings]
    BY <1>0, <1>7, <2>2 DEF HandleReturn, HandleClose, Disable, Erase, Queue, Go, LoopPoints
  <2> QED BY <1>0, <1>7, <2>1, <2>3 DEF HandleReturn, HandleClose, Disable, Erase, Queue, Disabled
<1>8. ASSUME NEW l \in Actors, Drain(l) \/ ServerPoll(l) PROVE ServerTypeOK'
  BY <1>0, <1>8 DEF Drain, ServerPoll, ListedFor
<1>9. ASSUME NEW i \in Threads, ServerWorkerStep(i) PROVE ServerTypeOK'
  BY <1>0, <1>9 DEF ServerWorkerStep, serverOnly
<1> QED BY <1>1, <1>2, <1>3, <1>4, <1>5, <1>6, <1>7, <1>8, <1>9
        DEF ServerNext, LoopStep, DestructorStep

\* Connections are made between start() and the destructor, which empties the map.
LEMMA StageStep ==
  ASSUME ServerInv, CallInv, [ServerNext]_serverVars
  PROVE  StageInv'
<1> USE Apart, WhatIsDone DEF ServerInv, StageInv, BaseIdle, memberVars, stateVars
<1>0. /\ ServerTypeOK /\ baseLoop_ \in Actors /\ Rest.at = "idle"
      /\ \A t \in Threads : t \in Actors /\ t # baseLoop_
  BY DEF ServerTypeOK, Rest
<1>1. CASE PoolStep
  <2>1. CASE stage \in {"started", "stopping", "gone"}
    <3>1. connections_ # {} => stage' = "started"
      BY <1>1, <2>1, PoolSettled
    <3> QED BY <1>0, <1>1, <2>1, <3>1, PoolSettled DEF PoolStep, serverOnly, BasePoints
  <2>2. CASE stage \notin {"started", "stopping", "gone"}
    <3>1. accepted = {} /\ connections_ = {}
      BY <2>2 DEF ServerTypeOK
    <3> QED BY <1>0, <1>1, <3>1 DEF PoolStep, serverOnly, BasePoints
  <2> QED BY <2>1, <2>2
<1>2. CASE ServerStart \/ ServerFinishStart
  <2>1. accepted = {} /\ connections_ = {} /\ doing[baseLoop_] = Rest
    BY <1>2 DEF ServerStart, ServerFinishStart, Start, FinishStart, ServerTypeOK
  <2> QED BY <1>0, <1>2, <2>1 DEF ServerStart, ServerFinishStart, serverOnly, BasePoints
<1>3. CASE BaseStep \/ TestConnected \/ Clear \/ RemoveLast
  <2>1. stage = "started" /\ stage' = stage /\ connections_' \subseteq connections_ \cup accepted
    BY <1>3 DEF BaseStep, Insert, Establish, Announce, TestConnected, Clear, RemoveLast, Does,
       BasePoints, vars, ServerTypeOK, DoingInv
  <2> QED BY <2>1
<1>4. CASE TearDown
  <2>1. doing'[baseLoop_] = [at |-> "destroy", on |-> NoConn]
    BY <1>0, <1>4, Going DEF TearDown
  <2> QED BY <1>4, <2>1 DEF TearDown, BasePoints, vars
<1>5. CASE DestroyPool
  <2>1. doing'[baseLoop_] = Rest
    BY <1>0, <1>5, Going DEF DestroyPool, Rest
  <2> QED BY <1>0, <1>5, <2>1 DEF DestroyPool, Destroy, BasePoints
<1>6. ASSUME NEW c \in Conns, Accept(c) PROVE StageInv'
  BY <1>6 DEF Accept, GetNextLoop
<1>7. ASSUME NEW c \in Conns, TakeOver(c) PROVE StageInv'
  <2>1. stage = "started" /\ stage' = stage
    BY <1>7 DEF TakeOver, vars
  <2> QED BY <2>1
\* The base thread has no connection to handle while the pool starts or stops.
<1>8. ASSUME NEW l \in Actors, NEW p, NEW c, Go(l, p, c), p \in LoopPoints \cup {"idle"},
             UNCHANGED <<stage, accepted>>, connections_' \subseteq connections_,
             p = "idle" => c = NoConn, l = baseLoop_ => stage \notin {"starting", "stopping"}
      PROVE  StageInv'
  <2>1. doing'[l] = [at |-> p, on |-> c] /\ \A u \in Actors : u # l => doing'[u] = doing[u]
    BY <1>0, <1>8, Going
  <2> QED BY <1>0, <1>8, <2>1 DEF LoopPoints, BasePoints
<1>9. ASSUME NEW l \in Actors,
             HandleReturn(l) \/ HandleClose(l) \/ Disable(l) \/ Erase(l) \/ Queue(l)
      PROVE  StageInv'
  <2>1. l = baseLoop_ => stage \notin {"starting", "stopping"}
    BY <1>9 DEF HandleReturn, HandleClose, Disable, Erase, Queue, Does, Rest
  <2>2. /\ UNCHANGED <<stage, accepted>> /\ connections_' \subseteq connections_
        /\ \E p \in LoopPoints \cup {"idle"} : \E c : Go(l, p, c) /\ (p = "idle" => c = NoConn)
    BY <1>9 DEF HandleReturn, HandleClose, Disable, Erase, Queue, vars, LoopPoints
  <2> QED BY <1>8, <2>1, <2>2
<1>10. ASSUME NEW l \in Actors, NEW c \in Conns, HandleEvent(l, c) PROVE StageInv'
  <2>1. l = baseLoop_ => stage \notin {"starting", "stopping"}
    BY <1>10 DEF HandleEvent, InLoop
  <2> QED BY <1>8, <1>10, <2>1 DEF HandleEvent, vars, LoopPoints
<1>11. ASSUME NEW l \in Actors, Drain(l) \/ ServerPoll(l) PROVE StageInv'
  BY <1>11 DEF Drain, ServerPoll, vars
<1>12. ASSUME NEW i \in Threads, ServerWorkerStep(i) PROVE StageInv'
  BY <1>12 DEF ServerWorkerStep, WorkerStep, serverOnly
<1>13. CASE UNCHANGED serverVars
  BY <1>13 DEF serverVars, serverOnly, vars
<1> QED BY <1>1, <1>2, <1>3, <1>4, <1>5, <1>6, <1>7, <1>9, <1>10, <1>11, <1>12, <1>13
        DEF ServerNext, LoopStep, DestructorStep

\* The map keeps what is polled, and what is about to be polled or erased.
LEMMA MapStep ==
  ASSUME ServerInv, [ServerNext]_serverVars
  PROVE  MapInv'
<1> USE Apart, WhatIsDone DEF ServerInv, MapInv, Kept, ServerTypeOK, memberVars, stateVars
<1>0. ServerTypeOK /\ baseLoop_ \in Actors /\ \A c \in connections_ : loopOf[c] \in Actors
  OBVIOUS
<1>1. CASE \/ PoolStep \/ ServerStart \/ ServerFinishStart \/ UNCHANGED serverVars
           \/ \E l \in Actors : Drain(l) \/ ServerPoll(l)
           \/ \E i \in Threads : ServerWorkerStep(i)
  BY <1>1 DEF PoolStep, ServerStart, ServerFinishStart, Drain, ServerPoll, ServerWorkerStep,
              serverVars, serverOnly
<1>2. CASE Insert
  <2>1. doing'[baseLoop_] = [at |-> "establish", on |-> doing[baseLoop_].on]
        /\ \A u \in Actors : u # baseLoop_ => doing'[u] = doing[u]
    BY <1>0, <1>2, Going DEF Insert
  <2>2. doing[baseLoop_].at = "insert"
    BY <1>2 DEF Insert, Does
  <2> QED BY <1>0, <1>2, <2>1, <2>2 DEF Insert, DoingInv
<1>3. CASE Establish
  <2>1. \A u \in Actors : u # baseLoop_ => doing'[u] = doing[u]
    BY <1>0, <1>3, Going DEF Establish
  <2>2. doing[baseLoop_].at = "establish"
    BY <1>3 DEF Establish, Does
  <2> QED BY <1>0, <1>3, <2>1, <2>2 DEF Establish, DoingInv
<1>4. CASE Announce \/ TearDown \/ TestConnected \/ Clear \/ RemoveLast
  <2>1. \A u \in Actors : u # baseLoop_ => doing'[u] = doing[u]
    BY <1>0, <1>4, Going DEF Announce, TearDown, TestConnected, Clear, RemoveLast
  <2>2. doing[baseLoop_].at \in {"announce", "idle", "test", "clear", "remove"}
    BY <1>4 DEF Announce, TearDown, TestConnected, Clear, RemoveLast, BaseIdle, Does
  <2>3. /\ UNCHANGED <<connections_, queued, loopOf>> /\ connected' \subseteq connected
        /\ \A c \in connections_ : /\ c \in registered => c \in registered'
                                   /\ c \in connected => c \in connected'
    BY <1>4, <2>2 DEF Announce, TearDown, TestConnected, Clear, RemoveLast, Disabled, DoingInv,
       Does
  <2> QED BY <1>0, <2>1, <2>2, <2>3
<1>5. CASE DestroyPool
  BY <1>5 DEF DestroyPool
<1>6. ASSUME NEW c \in Conns, Accept(c) PROVE MapInv'
  <2>1. doing[baseLoop_] = Rest /\ c \notin connections_
    BY <1>6 DEF Accept, BaseIdle
  <2>2. \A t \in Actors : t # baseLoop_ => doing'[t] = doing[t]
    BY <1>0, <1>6, Going DEF Accept
  <2>3. \A d \in connections_ : loopOf'[d] = loopOf[d]
    BY <1>6, <2>1 DEF Accept
  <2> QED BY <1>0, <1>6, <2>1, <2>2, <2>3 DEF Accept
<1>7. ASSUME NEW c \in Conns, TakeOver(c) PROVE MapInv'
  <2>1. doing[baseLoop_].at = "destroy"
    BY <1>7 DEF TakeOver, Does
  <2>2. \A t \in Actors : t # baseLoop_ => doing'[t] = doing[t]
    BY <1>0, <1>7, Going DEF TakeOver
  <2> QED BY <1>0, <1>7, <2>1, <2>2 DEF TakeOver
<1>8. ASSUME NEW l \in Actors, NEW c \in Conns, HandleEvent(l, c) PROVE MapInv'
  <2>1. doing[l] = Rest /\ \A t \in Actors : t # l => doing'[t] = doing[t]
    BY <1>0, <1>8, Going DEF HandleEvent, InLoop
  <2> QED BY <1>0, <1>8, <2>1 DEF HandleEvent
<1>9. ASSUME NEW l \in Actors, HandleReturn(l) PROVE MapInv'
  <2>1. doing[l].at = "handle" /\ \A t \in Actors : t # l => doing'[t] = doing[t]
    BY <1>0, <1>9, Going DEF HandleReturn, Does
  <2> QED BY <1>0, <1>9, <2>1 DEF HandleReturn
<1>10. ASSUME NEW l \in Actors, HandleClose(l) \/ Disable(l) PROVE MapInv'
  <2>0. PICK c : c = doing[l].on
    OBVIOUS
  <2>1. PICK p \in {"disable", "erase"} : /\ doing'[l] = [at |-> p, on |-> c]
                                          /\ p = "disable" <=> HandleClose(l)
    BY <1>0, <1>10, <2>0, Going DEF HandleClose, Disable, Does
  <2>2. \A t \in Actors : t # l => doing'[t] = doing[t]
    BY <1>0, <1>10, Going DEF HandleClose, Disable
  <2>3. doing[l].at \in {"handle", "disable"} /\ loopOf[c] = l
        /\ (doing[l].at = "handle" <=> HandleClose(l))
    BY <1>10, <2>0 DEF HandleClose, Disable, Does, DoingInv, LoopPoints
  <2>4. c \in connections_ => doing[baseLoop_] # [at |-> "establish", on |-> c]
    BY <2>0, <2>3 DEF DoingInv, LoopPoints
  <2>5. \A d \in connections_ : d # c => /\ d \in registered => d \in registered'
                                         /\ d \in connected => d \in connected'
    BY <1>10, <2>0 DEF HandleClose, Disable, Disabled
  <2>6. c \in connections_ => Kept(c)'
    <3>1. CASE HandleClose(l)
      BY <1>0, <2>0, <2>1, <2>3, <2>4, <3>1 DEF HandleClose
    <3>2. CASE ~HandleClose(l)
      BY <1>0, <1>10, <2>1, <2>3, <3>2 DEF Disable
    <3> QED BY <3>1, <3>2
  <2>7. ASSUME NEW d \in connections_, d # c PROVE Kept(d)'
    <3>1. loopOf' = loopOf /\ loopOf[d] \in Actors
      BY <1>0, <1>10 DEF HandleClose, Disable
    <3>2. \A t \in Actors : \A p2 \in {"establish", "disable", "erase"} :
             doing[t] = [at |-> p2, on |-> d] => doing'[t] = [at |-> p2, on |-> d]
      BY <2>0, <2>2, <2>7
    <3> QED BY <1>0, <2>5, <2>7, <3>1, <3>2
  <2>8. UNCHANGED <<connections_, queued>> /\ connected' \subseteq connected
    BY <1>10 DEF HandleClose, Disable
  <2>9. queued' \cap (connections_' \cup connected') = {}
    BY <2>8
  <2> HIDE DEF Kept
  <2> QED BY <2>6, <2>7, <2>8, <2>9
<1>11. ASSUME NEW l \in Actors, Erase(l) \/ Queue(l) PROVE MapInv'
  <2>1. doing[l].at \in {"erase", "queue"} /\ doing[l].on \notin connected
        /\ (doing[l].at = "queue" => doing[l].on \notin connections_)
    BY <1>11 DEF Erase, Queue, Does, DoingInv, LoopPoints
  <2>2. \A t \in Actors : t # l => doing'[t] = doing[t]
    BY <1>0, <1>11, Going DEF Erase, Queue
  <2>3. \A d \in connections_ \ {doing[l].on} :
           \A t \in Actors : doing[t].on = d => doing'[t] = doing[t]
    BY <2>2
  <2> QED BY <1>0, <1>11, <2>1, <2>3 DEF Erase, Queue, Does
<1> QED BY <1>1, <1>2, <1>3, <1>4, <1>5, <1>6, <1>7, <1>8, <1>9, <1>10, <1>11
        DEF ServerNext, BaseStep, LoopStep, DestructorStep

\* Nobody but its own loop's thread handles a connection, once the base thread has
\* established it.
LEMMA DoingStep ==
  ASSUME ServerInv, CallInv, TypeOK, [ServerNext]_serverVars
  PROVE  DoingInv'
<1> USE Apart, WhatIsDone DEF ServerInv, DoingInv, ServerTypeOK, memberVars, stateVars,
                              LoopPoints, BasePoints
<1>0. /\ ServerTypeOK /\ baseLoop_ \in Actors
      /\ \A t \in Threads : t \in Actors /\ t # baseLoop_
  OBVIOUS
<1>1. CASE PoolStep
  <2>1. \A i \in Threads : doing[i] # Rest => worker'[i] = worker[i]
    <3>1. CASE stage \in {"started", "stopping", "gone"}
      BY <1>1, <3>1, PoolSettled
    <3>2. CASE stage \notin {"started", "stopping", "gone"}
      <4>1. accepted = {}
        BY <3>2 DEF StageInv
      <4> QED BY <1>0, <4>1
    <3> QED BY <3>1, <3>2
  <2> QED BY <1>1, <2>1 DEF PoolStep, serverOnly
<1>2. CASE ServerStart \/ ServerFinishStart \/ UNCHANGED serverVars
  BY <1>2 DEF ServerStart, ServerFinishStart, Start, FinishStart, threadVars,
              serverVars, serverOnly, vars
\* A step of the base thread with its connection, or with none.
<1>3. CASE BaseStep \/ TestConnected \/ Clear \/ RemoveLast \/ TearDown \/ DestroyPool
  <2>0. \E p, c : Go(baseLoop_, p, c)
    BY <1>3 DEF BaseStep, Insert, Establish, Announce, TestConnected, Clear, RemoveLast,
       TearDown, DestroyPool
  <2>1. /\ \A t \in Actors : t # baseLoop_ => doing'[t] = doing[t]
        /\ UNCHANGED <<accepted, active, loopOf, queued, worker>>
    <3>1. UNCHANGED <<accepted, active, loopOf, queued, worker>>
      BY <1>3 DEF BaseStep, Insert, Establish, Announce, TestConnected, Clear, RemoveLast,
         TearDown, DestroyPool, Destroy, vars, threadVars
    <3> QED BY <1>0, <2>0, <3>1, Going
  <2>2. PICK b : b = doing[baseLoop_]
    OBVIOUS
  <2>3. CASE Insert
    <3>1. doing'[baseLoop_] = [at |-> "establish", on |-> b.on] /\ b.at = "insert"
      BY <1>0, <2>2, <2>3, Going DEF Insert, Does
    <3> QED BY <1>0, <2>1, <2>2, <2>3, <3>1 DEF Insert
  <2>4. CASE Establish
    <3>1. doing'[baseLoop_] = [at |-> "announce", on |-> b.on] /\ b.at = "establish"
      BY <1>0, <2>2, <2>4, Going DEF Establish, Does
    <3> QED BY <1>0, <2>1, <2>2, <2>4, <3>1 DEF Establish
  <2>5. CASE Announce \/ RemoveLast \/ TearDown \/ DestroyPool
    <3>1. /\ doing'[baseLoop_].at \in {"idle", "destroy"}
          /\ UNCHANGED <<connections_, connected>>
      <4>1. PICK p \in {"idle", "destroy"} : Go(baseLoop_, p, NoConn)
        BY <2>5 DEF Announce, RemoveLast, TearDown, DestroyPool
      <4>2. doing'[baseLoop_] = [at |-> p, on |-> NoConn]
        BY <1>0, <4>1, Going
      <4> QED BY <2>5, <4>2 DEF Announce, RemoveLast, TearDown, DestroyPool
    <3> QED BY <1>0, <2>1, <3>1
  <2>6. CASE TestConnected \/ Clear
    <3>1. PICK p \in {"clear", "remove"} : doing'[baseLoop_] = [at |-> p, on |-> b.on]
      BY <1>0, <2>2, <2>6, Going DEF TestConnected, Clear
    <3>2. b.at \in {"test", "clear"} /\ UNCHANGED connections_ /\ connected' \subseteq connected
      BY <2>2, <2>6 DEF TestConnected, Clear, Does
    <3> QED BY <1>0, <2>1, <2>2, <3>1, <3>2
  <2> QED BY <1>3, <2>3, <2>4, <2>5, <2>6 DEF BaseStep
<1>4. ASSUME NEW c \in Conns, Accept(c) PROVE DoingInv'
  <2>1. /\ doing'[baseLoop_] = [at |-> "insert", on |-> c] /\ c \notin accepted
        /\ accepted' = accepted \cup {c}
        /\ \A t \in Actors : t # baseLoop_ => doing'[t] = doing[t]
        /\ \A d \in accepted : loopOf'[d] = loopOf[d]
        /\ UNCHANGED <<connections_, stateVars, active, queued, worker>>
    BY <1>0, <1>4, Going DEF Accept, GetNextLoop, threadVars
  <2>2. \A i \in Threads : doing[i].on # c
    BY <1>0, <2>1
  <2> QED BY <1>0, <2>1, <2>2
<1>5. ASSUME NEW c \in Conns, TakeOver(c) PROVE DoingInv'
  <2>1. /\ doing'[baseLoop_] = [at |-> "test", on |-> c] /\ c \in connections_
        /\ connections_' = connections_ \ {c}
        /\ \A t \in Actors : t # baseLoop_ => doing'[t] = doing[t]
        /\ UNCHANGED <<accepted, stateVars, active, loopOf, queued, worker>>
    BY <1>0, <1>5, Going DEF TakeOver, vars, threadVars
  <2> QED BY <1>0, <2>1
<1>6. ASSUME NEW l \in Actors, NEW c \in Conns, HandleEvent(l, c) PROVE DoingInv'
  <2>1. /\ doing'[l] = [at |-> "handle", on |-> c] /\ loopOf[c] = l /\ c \in active
        /\ doing[l] = Rest /\ (l # baseLoop_ => worker[l] = "looping")
        /\ active' = active \ {c}
        /\ \A t \in Actors : t # l => doing'[t] = doing[t]
        /\ UNCHANGED <<connections_, accepted, stateVars, loopOf, queued, worker>>
    BY <1>0, <1>6, Going DEF HandleEvent, InLoop, ActiveFor, vars, threadVars
  <2> QED BY <1>0, <2>1
<1>7. ASSUME NEW l \in Actors,
             HandleReturn(l) \/ HandleClose(l) \/ Disable(l) \/ Erase(l) \/ Queue(l)
      PROVE  DoingInv'
  <2>1. PICK c : c = doing[l].on
    OBVIOUS
  <2>2. /\ \A t \in Actors : t # l => doing'[t] = doing[t]
        /\ UNCHANGED <<accepted, active, loopOf, worker>>
        /\ doing[l].at \in LoopPoints
    <3>1. PICK p, d : Go(l, p, d)
      BY <1>7 DEF HandleReturn, HandleClose, Disable, Erase, Queue
    <3>2. \A t \in Actors : t # l => doing'[t] = doing[t]
      BY <1>0, <3>1, Going
    <3>3. UNCHANGED <<accepted, active, loopOf, worker>> /\ doing[l].at \in LoopPoints
      BY <1>7 DEF HandleReturn, HandleClose, Disable, Erase, Queue, Does, vars, threadVars
    <3> QED BY <3>2, <3>3
  <2>3. c # doing[baseLoop_].on \/ l = baseLoop_
        \/ doing[baseLoop_].at \notin {"insert", "establish"}
    BY <1>0, <2>1
  <2>4. CASE HandleReturn(l)
    <3>1. doing'[l] = Rest /\ UNCHANGED <<connections_, stateVars, queued>>
      BY <2>4, Going DEF HandleReturn, Rest
    <3> QED BY <1>0, <2>2, <3>1
  <2>5. CASE HandleClose(l)
    <3>1. doing'[l] = [at |-> "disable", on |-> c] /\ connected' = connected \ {c}
          /\ UNCHANGED <<connections_, registered, queued>>
      BY <2>1, <2>5, Going DEF HandleClose
    <3> QED BY <1>0, <2>1, <2>2, <2>3, <3>1
  <2>6. CASE Disable(l)
    <3>1. doing'[l] = [at |-> "erase", on |-> c] /\ registered' \subseteq registered \cup {c}
          /\ UNCHANGED <<connections_, connected, queued>> /\ doing[l].at = "disable"
      BY <2>1, <2>6, Going DEF Disable, Disabled, Does
    <3> QED BY <1>0, <2>1, <2>2, <2>3, <3>1
  <2>7. CASE Erase(l)
    <3>1. doing'[l] = [at |-> "queue", on |-> c] /\ connections_' = connections_ \ {c}
          /\ UNCHANGED <<stateVars, queued>> /\ doing[l].at = "erase"
      BY <2>1, <2>7, Going DEF Erase, Does
    <3> QED BY <1>0, <2>1, <2>2, <2>3, <3>1
  <2>8. CASE Queue(l)
    <3>1. doing'[l] = Rest /\ queued' = queued \cup {c} /\ UNCHANGED <<connections_, stateVars>>
      BY <2>1, <2>8, Going DEF Queue, Rest
    <3> QED BY <1>0, <2>1, <2>2, <2>3, <3>1
  <2> QED BY <1>7, <2>4, <2>5, <2>6, <2>7, <2>8
<1>8. ASSUME NEW l \in Actors, Drain(l) PROVE DoingInv'
  BY <1>8 DEF Drain, vars, threadVars
<1>9. ASSUME NEW l \in Actors, ServerPoll(l) PROVE DoingInv'
  <2>1. /\ doing[l] = Rest
        /\ active' \subseteq active \cup {c \in registered : loopOf[c] = l}
        /\ UNCHANGED <<connections_, accepted, stateVars, loopOf, queued, doing, worker>>
    BY <1>9 DEF ServerPoll, InLoop, ListedFor, vars, threadVars
  <2> QED BY <1>0, <2>1
<1>10. ASSUME NEW i \in Threads, ServerWorkerStep(i) PROVE DoingInv'
  <2>1. /\ doing[i] = Rest
        /\ UNCHANGED <<connections_, accepted, loopOf, connected, registered, active, queued,
                       doing>>
        /\ \A j \in Threads : j # i => worker'[j] = worker[j]
    BY <1>10, WorkerMoves DEF ServerWorkerStep, WorkerStep, TypeOK, Thread!TypeOK, serverOnly
  <2> QED BY <1>0, <2>1
<1> QED BY <1>1, <1>2, <1>3, <1>4, <1>5, <1>6, <1>7, <1>8, <1>9, <1>10
        DEF ServerNext, LoopStep, DestructorStep

\* Nothing ends ~TcpServer but the end of the pool.
LEMMA StaysTearingDown ==
  ASSUME ServerInv, [ServerNext]_serverVars, TearingDown
  PROVE  TearingDown'
<1> USE Apart, WhatIsDone DEF ServerInv, ServerTypeOK, TearingDown
<1>0. ServerTypeOK /\ baseLoop_ \in Actors
  OBVIOUS
<1>1. CASE PoolStep
  BY <1>1, PoolSettled DEF PoolStep, serverOnly
<1>2. CASE \/ ServerStart \/ ServerFinishStart \/ UNCHANGED serverVars
           \/ \E i \in Threads : ServerWorkerStep(i)
           \/ \E l \in Actors : Drain(l) \/ ServerPoll(l)
  BY <1>2 DEF ServerStart, ServerFinishStart, Start, FinishStart, ServerWorkerStep, WorkerStep,
     Drain, ServerPoll, serverVars, serverOnly, vars, BaseIdle, Rest
<1>3. CASE DestructorStep
  <2>1. CASE DestroyPool
    BY <2>1 DEF DestroyPool, Destroy
  <2>2. CASE ~DestroyPool
    <3>1. PICK p \in {"test", "clear", "remove", "destroy"} : \E c : Go(baseLoop_, p, c)
      BY <1>3, <2>2 DEF DestructorStep, TestConnected, Clear, RemoveLast, TakeOver
    <3>2. PICK c : Go(baseLoop_, p, c)
      BY <3>1
    <3>3. doing'[baseLoop_] = [at |-> p, on |-> c]
      BY <1>0, <3>2, Going
    <3> QED BY <3>3
  <2> QED BY <2>1, <2>2
<1>4. CASE BaseStep \/ TearDown \/ \E c \in Conns : Accept(c)
  BY <1>0, <1>4, Going DEF BaseStep, Insert, Establish, Announce, TearDown, Accept, Does,
     BaseIdle, StageInv, BasePoints, GetNextLoop, vars
<1>5. ASSUME NEW l \in Actors,
             \/ HandleReturn(l) \/ HandleClose(l) \/ Disable(l) \/ Erase(l) \/ Queue(l)
             \/ \E c \in Conns : HandleEvent(l, c)
      PROVE  TearingDown'
  <2>0. PICK p, c : Go(l, p, c)
    BY <1>5 DEF HandleReturn, HandleClose, Disable, Erase, Queue, HandleEvent
  <2>1. UNCHANGED stage
    BY <1>5 DEF HandleReturn, HandleClose, Disable, Erase, Queue, HandleEvent, vars
  <2>2. l = baseLoop_ => doing[baseLoop_].at \notin {"destroy", "test", "clear", "remove"}
    BY <1>5 DEF HandleReturn, HandleClose, Disable, Erase, Queue, HandleEvent, InLoop, Does, Rest
  <2>3. l # baseLoop_ => doing'[baseLoop_] = doing[baseLoop_]
    <3>1. \A u \in Actors : u # l => doing'[u] = doing[u]
      BY <1>0, <2>0, Going
    <3> QED BY <1>0, <3>1
  <2> QED BY <2>1, <2>2, <2>3
<1> QED BY <1>1, <1>2, <1>3, <1>4, <1>5 DEF ServerNext, LoopStep

\* Until ~TcpServer nothing leaves the map before it is off its poller.
LEMMA ServingStep ==
  ASSUME ServerInv, [ServerNext]_serverVars
  PROVE  ServingInv'
<1> SUFFICES ASSUME ~TearingDown' PROVE ServingInv'
  BY DEF ServingInv
<1> USE Apart, WhatIsDone DEF ServerInv, ServingInv, ServerTypeOK, memberVars, stateVars
<1>0. /\ ServerTypeOK /\ baseLoop_ \in Actors /\ ~TearingDown
      /\ doing[baseLoop_].at \notin {"destroy", "test", "clear", "remove"}
  BY StaysTearingDown DEF TearingDown
<1>1. CASE \/ PoolStep \/ ServerStart \/ ServerFinishStart \/ UNCHANGED serverVars
           \/ \E i \in Threads : ServerWorkerStep(i)
           \/ \E l \in Actors : Drain(l) \/ ServerPoll(l)
  BY <1>0, <1>1 DEF PoolStep, ServerStart, ServerFinishStart, ServerWorkerStep, Drain,
     ServerPoll, ListedFor, serverVars, serverOnly
<1>2. CASE TearDown \/ DestructorStep
  <2>1. CASE TearDown
    <3>1. doing'[baseLoop_] = [at |-> "destroy", on |-> NoConn]
      BY <1>0, <2>1, Going DEF TearDown
    <3> QED BY <3>1 DEF TearingDown
  <2>2. CASE DestructorStep
    BY <1>0, <2>2 DEF DestructorStep, TestConnected, Clear, RemoveLast, DestroyPool, TakeOver,
       Does
  <2> QED BY <1>2, <2>1, <2>2
<1>3. CASE BaseStep
  <2>1. PICK b : b = doing[baseLoop_]
    OBVIOUS
  <2>2. PICK p \in {"establish", "announce", "idle"} : \E c : Go(baseLoop_, p, c)
    BY <1>3 DEF BaseStep, Insert, Establish, Announce
  <2>c. PICK c : Go(baseLoop_, p, c)
    BY <2>2
  <2>3. /\ doing'[baseLoop_] = [at |-> p, on |-> c]
        /\ \A t \in Actors : t # baseLoop_ => doing'[t] = doing[t]
    BY <1>0, <2>c, Going
  <2>4. CASE Insert \/ Establish
    <3>1. /\ b.at \in {"insert", "establish"} /\ active' = active
          /\ connections_' \subseteq connections_ \cup {b.on} /\ connections_ \subseteq connections_'
          /\ registered' \subseteq registered \cup {b.on} /\ registered \subseteq registered'
          /\ registered' # registered => b.on \in connections_
      BY <2>1, <2>4 DEF Insert, Establish, Does, DoingInv
    <3>2. \A t \in Actors : doing[t].at \in LoopPoints => doing[t].on # b.on
      BY <1>0, <2>1, <3>1 DEF DoingInv, LoopPoints
    <3> QED BY <1>0, <2>3, <3>1, <3>2 DEF LoopPoints
  <2>5. CASE Announce
    BY <1>0, <2>3, <2>5 DEF Announce
  <2> QED BY <1>3, <2>4, <2>5 DEF BaseStep
<1>4. ASSUME NEW c \in Conns, Accept(c) PROVE ServingInv'
  <2>1. /\ doing'[baseLoop_] = [at |-> "insert", on |-> c]
        /\ \A t \in Actors : t # baseLoop_ => doing'[t] = doing[t]
    BY <1>0, <1>4, Going DEF Accept
  <2> QED BY <1>0, <1>4, <2>1 DEF Accept
<1>5. ASSUME NEW l \in Actors, NEW c \in Conns, HandleEvent(l, c) PROVE ServingInv'
  <2>1. /\ doing'[l] = [at |-> "handle", on |-> c] /\ c \in active
        /\ \A t \in Actors : t # l => doing'[t] = doing[t]
    BY <1>0, <1>5, Going DEF HandleEvent, ActiveFor
  <2> QED BY <1>0, <1>5, <2>1 DEF HandleEvent
<1>6. ASSUME NEW l \in Actors,
             HandleReturn(l) \/ HandleClose(l) \/ Disable(l) \/ Erase(l) \/ Queue(l)
      PROVE  ServingInv'
  <2>1. PICK c : c = doing[l].on
    OBVIOUS
  <2>2. PICK p, d : Go(l, p, d)
    BY <1>6 DEF HandleReturn, HandleClose, Disable, Erase, Queue
  <2>3. \A t \in Actors : t # l => doing'[t] = doing[t]
    BY <1>0, <2>2, Going
  \* Another loop's thread handles another connection.
  <2>4. c \notin active /\ \A t \in Actors : t # l /\ doing[t].at \in LoopPoints => doing[t].on # c
    BY <1>6, <2>1 DEF HandleReturn, HandleClose, Disable, Erase, Queue, Does, DoingInv, LoopPoints
  <2>5. CASE HandleReturn(l) \/ Queue(l)
    <3>1. doing'[l] = [at |-> "idle", on |-> NoConn]
      BY <1>0, <2>5, Going DEF HandleReturn, Queue
    <3> QED BY <1>0, <2>3, <2>5, <3>1 DEF HandleReturn, Queue
  <2>6. CASE HandleClose(l)
    <3>1. doing'[l] = [at |-> "disable", on |-> c] /\ doing[l].at = "handle"
      BY <1>0, <2>1, <2>6, Going DEF HandleClose, Does
    <3> QED BY <1>0, <2>1, <2>3, <2>6, <3>1 DEF HandleClose
  <2>7. CASE Disable(l)
    <3>1. doing'[l] = [at |-> "erase", on |-> c] /\ doing[l].at = "disable"
      BY <1>0, <2>1, <2>7, Going DEF Disable, Does
    <3>2. c \in connections_ /\ loopOf[c] = l
      BY <1>0, <2>1, <3>1 DEF DoingInv, LoopPoints
    <3>3. c \in registered
      <4>1. l \in Threads \/ doing[baseLoop_].at = "disable"
        BY <3>1
      <4>2. doing[baseLoop_] # [at |-> "establish", on |-> c]
        BY <1>0, <2>1, <4>1 DEF DoingInv
      <4>3. Kept(c)
        BY <3>2 DEF MapInv
      <4> QED BY <3>1, <3>2, <4>2, <4>3 DEF Kept
    <3>4. registered' = registered \ {c} /\ UNCHANGED <<connections_, active>>
      BY <2>1, <2>7, <3>3 DEF Disable, Disabled
    <3> QED BY <1>0, <2>3, <2>4, <3>1, <3>4 DEF LoopPoints
  <2>8. CASE Erase(l)
    <3>1. doing'[l] = [at |-> "queue", on |-> c] /\ doing[l].at = "erase"
      BY <1>0, <2>1, <2>8, Going DEF Erase, Does
    <3>2. c \notin registered
      BY <1>0, <2>1, <3>1
    <3>3. connections_' = connections_ \ {c} /\ UNCHANGED <<registered, active>>
      BY <2>1, <2>8 DEF Erase
    <3> QED BY <1>0, <2>3, <2>4, <3>1, <3>2, <3>3 DEF LoopPoints
  <2> QED BY <1>6, <2>5, <2>6, <2>7, <2>8
<1> QED BY <1>1, <1>2, <1>3, <1>4, <1>5, <1>6 DEF ServerNext, LoopStep

\* A connection's loop was one of the pool's when it was given out, and runs as long as
\* its queue keeps the connection.
LEMMA LoopOfStep ==
  ASSUME ServerInv, CallInv, TypeOK, [ServerNext]_serverVars
  PROVE  LoopOfInv'
<1> USE Apart, WhatIsDone DEF ServerInv, LoopOfInv, ServerTypeOK, memberVars
<1>0. \A c \in accepted : loopOf[c] # baseLoop_ => loopOf[c] \in Threads
  OBVIOUS
<1>1. ASSUME UNCHANGED <<accepted, loopOf, loops_, worker>>, queued' \subseteq queued
      PROVE  LoopOfInv'
  BY <1>1
<1>2. CASE PoolStep
  <2>1. CASE stage \in {"started", "stopping", "gone"}
    BY <1>1, <1>2, <2>1, PoolSettled DEF PoolStep, serverOnly
  <2>2. CASE stage \notin {"started", "stopping", "gone"}
    <3>1. accepted' = {}
      BY <1>2, <2>2 DEF PoolStep, serverOnly, StageInv
    <3> QED BY <3>1
  <2> QED BY <2>1, <2>2
<1>3. CASE ServerStart \/ ServerFinishStart \/ UNCHANGED serverVars \/ BaseStep \/ TearDown
  BY <1>1, <1>3 DEF ServerStart, ServerFinishStart, Start, FinishStart, BaseStep, Insert,
     Establish, Announce, TearDown, serverVars, serverOnly, vars, threadVars
<1>4. CASE DestructorStep
  BY <1>1, <1>4 DEF DestructorStep, TestConnected, Clear, RemoveLast, DestroyPool, Destroy,
     TakeOver, vars, threadVars
<1>5. ASSUME NEW c \in Conns, Accept(c) PROVE LoopOfInv'
  <2>1. /\ loopOf' = [loopOf EXCEPT ![c] = NextLoop] /\ c \notin accepted
        /\ accepted' = accepted \cup {c} /\ UNCHANGED <<loops_, worker, queued>>
    BY <1>5 DEF Accept, GetNextLoop, threadVars
  <2>2. NextLoop # baseLoop_ => NextLoop <= Len(loops_)
    <3>1. CASE loops_ # <<>>
      <4>1. next_ + 1 \in 1 .. Len(loops_)
        BY <3>1 DEF TypeOK
      <4> QED BY <3>1, <4>1 DEF NextLoop, CallInv
    <3> QED BY <3>1 DEF NextLoop
  <2> QED BY <2>1, <2>2
<1>6. ASSUME NEW l \in Actors,
             \/ HandleReturn(l) \/ HandleClose(l) \/ Disable(l) \/ Erase(l) \/ Drain(l)
             \/ ServerPoll(l) \/ \E c \in Conns : HandleEvent(l, c)
      PROVE  LoopOfInv'
  BY <1>1, <1>6 DEF HandleReturn, HandleClose, Disable, Erase, Drain, ServerPoll, HandleEvent,
     vars, threadVars
<1>7. ASSUME NEW l \in Actors, Queue(l) PROVE LoopOfInv'
  <2>1. /\ doing[l].at = "queue" /\ queued' = queued \cup {doing[l].on}
        /\ UNCHANGED <<accepted, loopOf, loops_, worker>>
    BY <1>7 DEF Queue, Does, vars, threadVars
  <2>2. loopOf[doing[l].on] = l /\ (l \in Threads => worker[l] = "looping")
    BY <2>1 DEF DoingInv, LoopPoints
  <2> QED BY <2>1, <2>2
\* A thread leaves its loop with an empty queue.
<1>8. ASSUME NEW i \in Threads, ServerWorkerStep(i) PROVE LoopOfInv'
  <2>1. \A j \in Threads : j # i => worker'[j] = worker[j]
    BY <1>8, WorkerMoves DEF ServerWorkerStep, WorkerStep, TypeOK, Thread!TypeOK
  <2>2. UNCHANGED <<accepted, loopOf, loops_, queued>>
    BY <1>8 DEF ServerWorkerStep, WorkerStep, serverOnly
  <2>3. ASSUME NEW c \in accepted, c \in queued PROVE loopOf[c] # i
    <3>1. CASE worker[i] = "looping"
      BY <1>8, <2>3, <3>1 DEF ServerWorkerStep, QueuedFor
    <3> QED BY <2>3, <3>1
  <2> QED BY <1>0, <2>1, <2>2, <2>3
<1> QED BY <1>2, <1>3, <1>4, <1>5, <1>6, <1>7, <1>8 DEF ServerNext, LoopStep

-----------------------------------------------------------------------------
\* The inductive invariant of the server, for any numbers of threads and connections.
THEOREM ServerInvHolds == ServerSpec => []ServerInv
<1>1. ServerInit /\ TypeOK => ServerInv
  <2> SUFFICES ASSUME ServerInit, TypeOK PROVE ServerInv
    OBVIOUS
  <2>1. ServerTypeOK
    BY Apart DEF ServerInit, ServerTypeOK, Doings
  <2>2. \A t \in Actors : doing[t] = Rest /\ doing[t].at = "idle"
    BY DEF ServerInit, Rest
  <2>3. StageInv /\ DoingInv /\ MapInv /\ ServingInv /\ LoopOfInv
    BY <2>2, Apart DEF ServerInit, StageInv, DoingInv, MapInv, ServingInv, LoopOfInv, LoopPoints,
       BasePoints, Init
  <2> QED BY <2>1, <2>3 DEF ServerInv
<1>2. ServerInv /\ TypeOK /\ TypeOK' /\ CallInv /\ [ServerNext]_serverVars => ServerInv'
  BY ServerTypeStep, StageStep, DoingStep, MapStep, ServingStep, LoopOfStep DEF ServerInv
<1>3. ServerSpec => [](TypeOK /\ IndInv)
  BY PoolImplemented, Typing, IndInvHolds, PTL
<1>4. IndInv => CallInv
  BY DEF IndInv
<1> QED BY <1>1, <1>2, <1>3, <1>4, PTL DEF ServerSpec

\* Every variable of the server keeps its type.
THEOREM ServerTyping == ServerSpec => []ServerTypeOK
<1>1. ServerInv => ServerTypeOK
  BY DEF ServerInv
<1> QED BY <1>1, ServerInvHolds, PTL

\* Until ~TcpServer what is polled is in connections_; and always, what is in it is polled
\* or is about to be, or is in some thread's hands.
THEOREM MapAgreement == ServerSpec => []MapAgrees
<1>1. ServerInv => MapAgrees
  <2> SUFFICES ASSUME ServerInv PROVE MapAgrees
    OBVIOUS
  <2>1. \A c \in connections_ : loopOf[c] \in Actors
    BY DEF ServerInv, ServerTypeOK
  <2>2. ASSUME NEW c \in connections_ \ registered
        PROVE  \E t \in Actors : doing[t].on = c
    <3>1. CASE doing[baseLoop_] = [at |-> "establish", on |-> c]
      <4>1. doing[baseLoop_].on = c
        BY <3>1
      <4> QED BY <4>1, Apart
    <3>2. CASE doing[loopOf[c]] = [at |-> "erase", on |-> c]
      <4>1. doing[loopOf[c]].on = c
        BY <3>2
      <4> QED BY <2>1, <4>1
    <3> QED BY <3>1, <3>2 DEF ServerInv, MapInv, Kept
  <2> QED BY <2>2 DEF ServerInv, ServingInv, MapAgrees
<1> QED BY <1>1, ServerInvHolds, PTL

\* The loop a connection points to runs, or exists at the least, also during the
\* destruction of the server.
THEOREM LoopsOutliveConnections == ServerSpec => []LoopsServe
<1>1. ServerInv /\ CallInv /\ GivenLoopsRun => LoopsServe
  <2> SUFFICES ASSUME ServerInv, CallInv, GivenLoopsRun,
                      NEW c \in accepted, loopOf[c] # baseLoop_, Alive(c)
               PROVE  Thread!LoopExists(loopOf[c])
    BY DEF LoopsServe
  <2>1. loopOf[c] \in Threads /\ loopOf[c] \in 1 .. Len(loops_) /\ c \in Conns
    BY Apart DEF ServerInv, ServerTypeOK, LoopOfInv, Threads
  <2>2. stage = "started" => worker[loopOf[c]] \in {"enter", "looping"}
    BY <2>1 DEF GivenLoopsRun, CallInv
  <2>3. c \in connections_ => stage = "started"
    BY DEF ServerInv, StageInv
  <2>4. ASSUME NEW t \in Actors, doing[t].on = c
        PROVE  worker[loopOf[c]] \in {"enter", "looping"}
    <3>1. doing[t].at \in LoopPoints \cup BasePoints
      BY <2>1, <2>4, NoConnIsNone DEF ServerInv, ServerTypeOK, Doings, Rest
    <3>2. CASE doing[t].at \in BasePoints
      BY <2>2, <2>4, <3>2, Apart DEF ServerInv, StageInv, DoingInv, BasePoints, LoopPoints, Rest
    <3>3. CASE doing[t].at \in LoopPoints
      BY <2>1, <2>4, <3>3, Apart DEF ServerInv, DoingInv, LoopPoints, Rest
    <3> QED BY <3>1, <3>2, <3>3
  <2>5. c \in queued => worker[loopOf[c]] = "looping"
    BY DEF ServerInv, LoopOfInv
  <2> QED BY <2>2, <2>3, <2>4, <2>5 DEF Alive, Thread!LoopExists
<1>2. IndInv => CallInv
  BY DEF IndInv
<1>3. ServerSpec => [](IndInv /\ GivenLoopsRun)
  BY PoolImplemented, IndInvHolds, PoolLoopsRun, PTL
<1> QED BY <1>1, <1>2, <1>3, ServerInvHolds, PTL

-----------------------------------------------------------------------------
(* The server implements ConnectionTable *)

\* What makes up the phase of a connection.
LEMMA SamePhase ==
  ASSUME NEW c, (c \in accepted)' <=> c \in accepted, Alive(c)' <=> Alive(c),
         (c \in connected)' <=> c \in connected, Making(c)' <=> Making(c)
  PROVE  Phase(c)' = Phase(c)
  BY DEF Phase

\* Whom a change of one thread's doing, of the map and of the queues concerns.
LEMMA Others ==
  ASSUME ServerTypeOK, NEW l \in Actors, NEW d, doing' = [doing EXCEPT ![l] = d],
         NEW c \in Conns, doing[l].on # c, d.on # c,
         (c \in connections_)' <=> c \in connections_, (c \in queued)' <=> c \in queued
  PROVE  (Alive(c)' <=> Alive(c)) /\ (Making(c)' <=> Making(c))
<1>1. \A t \in Actors : doing'[t] = IF t = l THEN d ELSE doing[t]
  BY DEF ServerTypeOK
<1>2. \A t \in Actors : doing'[t].on = c <=> doing[t].on = c
  BY <1>1
<1> QED BY <1>1, <1>2, Apart DEF Alive, Making

\* A connection is alive in each phase but the first and the last.
LEMMA Phases ==
  ASSUME ServerInv, NEW c \in Conns
  PROVE  /\ Phase(c) \in {"made", "up", "closing"} <=> c \in accepted /\ Alive(c)
         /\ Phase(c) = "new" <=> c \notin accepted
         /\ Phase(c) = "gone" <=> c \in accepted /\ ~Alive(c)
         /\ c \in accepted /\ Alive(c) /\ ~Making(c) =>
              Phase(c) = IF c \in connected THEN "up" ELSE "closing"
  BY DEF Phase

\* No loop begins or ends to exist but by a step of its own thread.
LEMMA SameServing ==
  ASSUME UNCHANGED worker
  PROVE  UNCHANGED {i \in Threads : Thread!LoopExists(i)}
  BY DEF Thread!LoopExists

\* Every step of the server is a step of one connection, the release of some, the
\* beginning or the end of a loop, or nothing to the table.
LEMMA TableStep ==
  ASSUME ServerInv, ServerInv', TypeOK, CallInv, GivenLoopsRun, [ServerNext]_serverVars,
         \A i \in Threads : thread_[i] = "none" => worker[i] = "none"
  PROVE  [ConnectionTable!Next]_(ConnectionTable!vars)
<1> DEFINE ph == [c \in Conns |-> Phase(c)]
           serving == {i \in Threads : Thread!LoopExists(i)}
           Goal == [ConnectionTable!Next]_(ConnectionTable!vars)
<1>0. /\ ServerTypeOK /\ baseLoop_ \in Actors /\ NoConn \notin Conns /\ Rest.on = NoConn
      /\ accepted \subseteq Conns /\ \A t \in Threads : t \in Actors /\ t # baseLoop_
  BY Apart, NoConnIsNone DEF ServerInv, ServerTypeOK, Rest
<1>a. ASSUME \A c \in Conns : Phase(c)' = Phase(c)
      PROVE  ph' = ph
  BY <1>a
<1>b. ASSUME NEW c \in Conns, NEW from, NEW to, Phase(c) = from, Phase(c)' = to,
             \A d \in Conns : d # c => Phase(d)' = Phase(d)
      PROVE  ConnectionTable!Advance(c, from, to)
  BY <1>b DEF ConnectionTable!Advance
<1>c. ASSUME ph' = ph, UNCHANGED <<loopOf, serving>>
      PROVE  Goal
  BY <1>c DEF ConnectionTable!vars
<1>d. ASSUME UNCHANGED <<connections_, queued, connected, accepted, doing>>
      PROVE  ph' = ph
  BY <1>d DEF Phase, Alive, Making
\* A step concerning one connection c that is not being made closes it, gives up the last
\* pointer to it, or neither.
<1>s. ASSUME NEW c \in Conns, c \in accepted, Alive(c), ~Making(c), ~Making(c)',
             UNCHANGED <<accepted, loopOf, worker>>, c \in connected' => c \in connected,
             \A d \in Conns : d # c => Phase(d)' = Phase(d)
      PROVE  Goal
  <2>0. Phase(c) = IF c \in connected THEN "up" ELSE "closing"
    BY <1>s DEF Phase
  <2>1. CASE Alive(c)' /\ (c \in connected => c \in connected')
    <3>1. Phase(c)' = Phase(c)
      BY <1>s, <2>1, SamePhase
    <3>2. ph' = ph
      BY <1>a, <1>s, <3>1
    <3> QED BY <1>c, <1>s, <3>2, SameServing
  <2>2. CASE Alive(c)' /\ c \in connected /\ c \notin connected'
    <3>1. Phase(c) = "up" /\ Phase(c)' = "closing"
      BY <1>s, <2>0, <2>2 DEF Phase
    <3>2. ConnectionTable!Advance(c, "up", "closing")
      BY <1>b, <1>s, <3>1
    <3> QED BY <1>s, <3>2, SameServing DEF ConnectionTable!Close, ConnectionTable!Next
  <2>3. CASE ~Alive(c)'
    <3>1. Phase(c)' = "gone"
      BY <1>s, <2>3 DEF Phase
    <3>2. CASE c \in connected
      <4>1. ConnectionTable!Advance(c, "up", "gone")
        BY <1>b, <1>s, <2>0, <3>1, <3>2
      <4> QED BY <1>s, <4>1, SameServing DEF ConnectionTable!Drop, ConnectionTable!Next
    <3>3. CASE c \notin connected
      <4>1. Phase(c) = "closing"
        BY <2>0, <3>3
      <4>2. ConnectionTable!Release({c})
        BY <1>s, <3>1, SameServing DEF ConnectionTable!Release
      <4> QED BY <4>1, <4>2 DEF ConnectionTable!Next
    <3> QED BY <3>2, <3>3
  <2> QED BY <2>1, <2>2, <2>3
\* Such a step, as a thread takes it.
<1>t. ASSUME NEW l \in Actors, NEW c \in Conns, NEW p, NEW d \in {c, NoConn}, Go(l, p, d),
             p \notin {"insert", "establish"}, doing[l].at \notin {"insert", "establish"},
             doing[l].on \in {c, NoConn}, c \in accepted, Alive(c),
             doing[baseLoop_].at \in {"insert", "establish"} => doing[baseLoop_].on # c,
             UNCHANGED <<accepted, loopOf, worker>>, connected' \in {connected, connected \ {c}},
             connections_' \in {connections_, connections_ \ {c}},
             queued' \in {queued, queued \cup {c}}
      PROVE  Goal
  <2>1. doing'[l] = [at |-> p, on |-> d] /\ \A t \in Actors : t # l => doing'[t] = doing[t]
    BY <1>0, <1>t, Going
  <2>2. ~Making(c) /\ ~Making(c)'
    BY <1>0, <1>t, <2>1 DEF Making
  <2>3. ASSUME NEW x \in Conns, x # c PROVE Phase(x)' = Phase(x)
    <3>1. doing' = [doing EXCEPT ![l] = [at |-> p, on |-> d]]
      BY <1>t DEF Go
    <3>2. doing[l].on # x /\ [at |-> p, on |-> d].on # x
      BY <1>0, <1>t, <2>3
    <3>3. /\ ((x \in connections_)' <=> x \in connections_) /\ ((x \in queued)' <=> x \in queued)
          /\ (x \in connected)' <=> x \in connected
      BY <1>t, <2>3
    <3>4. (Alive(x)' <=> Alive(x)) /\ (Making(x)' <=> Making(x))
      BY <1>0, <3>1, <3>2, <3>3, Others
    <3> QED BY <1>t, <3>3, <3>4, SamePhase
  <2> QED BY <1>s, <1>t, <2>2, <2>3
<1>1. CASE PoolStep
  <2>1. UNCHANGED <<connections_, queued, connected, accepted, doing, loopOf>>
    BY <1>1 DEF PoolStep, serverOnly, memberVars, stateVars
  <2>2. CASE StartNext
    <3>1. PICK i \in Threads : thread_[i] = "none" /\ worker' = [worker EXCEPT ![i] = "born"]
      BY <2>2 DEF StartNext, Thread!StartLoop, TypeOK, Thread!TypeOK
    <3>2. worker[i] = "none" /\ worker \in [Threads -> Thread!WorkerPoints]
      BY <3>1 DEF TypeOK, Thread!TypeOK
    <3>3. serving' = serving
      BY <3>1, <3>2 DEF Thread!LoopExists
    <3> QED BY <1>c, <1>d, <2>1, <3>3
  <2>3. CASE ~StartNext
    <3>1. UNCHANGED worker
      BY <1>1, <2>3 DEF PoolStep, SetThreadNum, InStartLoop, SpuriousWake, DestroyNext,
         FinishDestroy, InDestructor, threadVars, Thread!SemReturn, Thread!TestLoop,
         Thread!Wake, Thread!SpuriousWake, Thread!Destroy, Thread!QuitLoop, Thread!Join,
         Thread!ReleaseMembers
    <3> QED BY <1>c, <1>d, <2>1, <3>1, SameServing
  <2> QED BY <2>2, <2>3
<1>2. CASE ServerStart \/ ServerFinishStart \/ UNCHANGED serverVars
  <2>1. UNCHANGED <<connections_, queued, connected, accepted, doing, loopOf, worker>>
    BY <1>2 DEF ServerStart, ServerFinishStart, Start, FinishStart, threadVars, serverVars,
       serverOnly, memberVars, stateVars, vars
  <2> QED BY <1>c, <1>d, <2>1, SameServing
<1>3. CASE Insert \/ Establish
  <2>1. PICK c \in Conns :
          /\ doing[baseLoop_].at \in {"insert", "establish"} /\ c = doing[baseLoop_].on
          /\ c \in accepted /\ c \notin connected /\ UNCHANGED <<accepted, queued, loopOf, worker>>
    BY <1>0, <1>3 DEF Insert, Establish, Does, memberVars, vars, threadVars, ServerInv, DoingInv
  <2>2. Alive(c) /\ Making(c)
    BY <1>0, <2>1 DEF Alive, Making
  <2>3. ASSUME NEW d \in Conns, d # c
        PROVE  Phase(d)' = Phase(d)
    <3>1. PICK e : doing' = [doing EXCEPT ![baseLoop_] = e] /\ e.on # d
      BY <1>0, <1>3, <2>1, <2>3 DEF Insert, Establish, Go
    <3>2. /\ (d \in connections_)' <=> d \in connections_
          /\ (d \in connected)' <=> d \in connected
      BY <1>3, <2>1, <2>3 DEF Insert, Establish, stateVars
    <3>3. (Alive(d)' <=> Alive(d)) /\ (Making(d)' <=> Making(d))
      BY <1>0, <2>1, <2>3, <3>1, <3>2, Others
    <3> QED BY <2>1, <3>2, <3>3, SamePhase
  <2>4. CASE Insert
    <3>1. doing'[baseLoop_] = [at |-> "establish", on |-> c]
      BY <1>0, <2>1, <2>4, Going DEF Insert
    <3>2. Making(c)' /\ Alive(c)'
      BY <1>0, <2>1, <3>1 DEF Making, Alive
    <3>3. Phase(c)' = Phase(c)
      BY <2>1, <2>2, <3>2 DEF Phase
    <3>4. ph' = ph
      BY <1>a, <2>3, <3>3
    <3> QED BY <1>c, <2>1, <3>4, SameServing
  <2>5. CASE Establish
    <3>1. doing'[baseLoop_] = [at |-> "announce", on |-> c] /\ c \in connected'
      BY <1>0, <2>1, <2>5, Going DEF Establish
    <3>2. ~Making(c)' /\ Alive(c)'
      BY <1>0, <2>1, <3>1 DEF Making, Alive
    <3>3. Phase(c) = "made" /\ Phase(c)' = "up"
      BY <2>1, <2>2, <3>1, <3>2 DEF Phase
    <3>4. ConnectionTable!Advance(c, "made", "up")
      BY <1>b, <2>1, <2>3, <3>3
    <3> QED BY <2>1, <3>4, SameServing DEF ConnectionTable!Register, ConnectionTable!Next
  <2> QED BY <1>3, <2>4, <2>5
<1>4. CASE TearDown \/ DestroyPool
  <2>1. /\ UNCHANGED <<connections_, queued, connected, accepted, loopOf, worker>>
        /\ doing[baseLoop_].on = NoConn
    BY <1>0, <1>4, WhatIsDone DEF TearDown, DestroyPool, Destroy, BaseIdle, Does, memberVars,
       stateVars, vars, threadVars
  <2>2. PICK p : doing' = [doing EXCEPT ![baseLoop_] = [at |-> p, on |-> NoConn]]
    BY <1>4 DEF TearDown, DestroyPool, Go
  <2>3. ASSUME NEW d \in Conns PROVE Phase(d)' = Phase(d)
    <3>1. [at |-> p, on |-> NoConn].on # d
      BY <1>0
    <3>2. (Alive(d)' <=> Alive(d)) /\ (Making(d)' <=> Making(d))
      BY <1>0, <2>1, <2>2, <3>1, Others
    <3> QED BY <2>1, <3>2, SamePhase
  <2>4. ph' = ph
    BY <1>a, <2>3
  <2> QED BY <1>c, <2>1, <2>4, SameServing
<1>5. ASSUME NEW c \in Conns, Accept(c) PROVE Goal
  <2>1. /\ doing[baseLoop_] = Rest /\ stage = "started" /\ c \notin accepted
        /\ accepted' = accepted \cup {c} /\ loopOf' = [loopOf EXCEPT ![c] = NextLoop]
        /\ doing' = [doing EXCEPT ![baseLoop_] = [at |-> "insert", on |-> c]]
        /\ Cardinality(Open) < MaxOpen
        /\ UNCHANGED <<connections_, queued, connected, worker>>
    BY <1>5 DEF Accept, GetNextLoop, BaseIdle, Go, stateVars, threadVars
  <2>2. NextLoop \in serving \cup {baseLoop_}
    <3>1. CASE loops_ # <<>>
      <4>1. next_ + 1 \in 1 .. Len(loops_) /\ NextLoop = loops_[next_ + 1]
            /\ NextLoop \in Threads
        BY <3>1 DEF TypeOK, NextLoop
      <4>2. worker[NextLoop] \in {"enter", "looping"}
        BY <2>1, <4>1 DEF GivenLoopsRun
      <4> QED BY <4>1, <4>2 DEF Thread!LoopExists
    <3> QED BY <3>1 DEF NextLoop
  <2>3. Open = {d \in Conns : ph[d] \in {"made", "up", "closing"}}
    BY <1>0, Phases DEF Open
  <2>4. doing'[baseLoop_] = [at |-> "insert", on |-> c] /\ c \notin connected
    BY <1>0, <2>1 DEF ServerTypeOK
  <2>5. Phase(c) = "new" /\ Phase(c)' = "made"
    BY <1>0, <2>1, <2>4 DEF Phase, Alive, Making
  <2>6. ASSUME NEW d \in Conns, d # c PROVE Phase(d)' = Phase(d)
    <3>1. (Alive(d)' <=> Alive(d)) /\ (Making(d)' <=> Making(d))
      <4>1. [at |-> "insert", on |-> c].on # d /\ doing[baseLoop_].on # d
        BY <1>0, <2>1, <2>6
      <4> QED BY <1>0, <2>1, <4>1, Others
    <3> QED BY <2>1, <2>6, <3>1, SamePhase
  <2>7. ConnectionTable!Advance(c, "new", "made")
    BY <1>b, <2>5, <2>6
  <2>8. ConnectionTable!Accept(c, NextLoop)
    <3>1. ConnectionTable!Cardinality(ConnectionTable!Unreleased) < MaxOpen
      <4>1. ConnectionTable!Unreleased = Open
        BY <2>3 DEF ConnectionTable!Unreleased
      <4>2. ConnectionTable!Cardinality(Open) = Cardinality(Open)
        BY DEF Cardinality, ConnectionTable!Cardinality
      <4> QED BY <2>1, <4>1, <4>2
    <3>2. serving' = serving
      BY <2>1, SameServing
    <3> QED BY <2>1, <2>2, <2>7, <3>1, <3>2 DEF ConnectionTable!Accept
  <2>9. NextLoop \in Threads \cup {baseLoop_}
    BY <2>2
  <2> QED BY <2>8, <2>9 DEF ConnectionTable!Next
\* The base thread with a connection that has been made.
<1>6. CASE Announce \/ TestConnected \/ Clear \/ RemoveLast
  <2>1. PICK c \in Conns : /\ c = doing[baseLoop_].on /\ c \in accepted
                           /\ doing[baseLoop_].at \notin {"insert", "establish"}
    BY <1>0, <1>6 DEF Announce, TestConnected, Clear, RemoveLast, Does, ServerInv, DoingInv,
       BasePoints
  <2>2. PICK p \in {"idle", "clear", "remove", "destroy"}, d \in {c, NoConn} : Go(baseLoop_, p, d)
    <3>1. \/ Go(baseLoop_, "idle", NoConn) \/ Go(baseLoop_, "clear", c)
          \/ Go(baseLoop_, "remove", c) \/ Go(baseLoop_, "destroy", NoConn)
      BY <1>6, <2>1 DEF Announce, TestConnected, Clear, RemoveLast
    <3> QED BY <3>1
  <2>3. Alive(c)
    BY <1>0, <2>1 DEF Alive
  <2>4. /\ UNCHANGED <<accepted, loopOf, worker, connections_, queued>>
        /\ connected' \in {connected, connected \ {c}}
    BY <1>6, <2>1 DEF Announce, TestConnected, Clear, RemoveLast, memberVars, stateVars, vars,
       threadVars
  <2> QED BY <1>0, <1>t, <2>1, <2>2, <2>3, <2>4
<1>7. ASSUME NEW c \in Conns, TakeOver(c) PROVE Goal
  <2>1. /\ doing[baseLoop_].at = "destroy" /\ c \in accepted /\ Alive(c)
        /\ Go(baseLoop_, "test", c) /\ connections_' = connections_ \ {c}
        /\ UNCHANGED <<accepted, loopOf, worker, connected, queued>>
    BY <1>0, <1>7 DEF TakeOver, Does, Alive, ServerTypeOK, memberVars, stateVars, vars, threadVars
  <2>2. doing[baseLoop_].on = NoConn
    BY <1>0, <2>1, WhatIsDone
  <2> QED BY <1>0, <1>t, <2>1, <2>2
<1>8. ASSUME NEW l \in Actors,
             \/ HandleReturn(l) \/ HandleClose(l) \/ Disable(l) \/ Erase(l) \/ Queue(l)
             \/ \E c \in Conns : HandleEvent(l, c)
      PROVE  Goal
  <2>1. CASE \E c \in Conns : HandleEvent(l, c)
    <3>1. PICK c \in Conns : HandleEvent(l, c)
      BY <2>1
    <3>2. /\ doing[l] = Rest /\ c \in active /\ c \in accepted /\ Alive(c)
          /\ Go(l, "handle", c)
          /\ UNCHANGED <<accepted, loopOf, worker, connected, connections_, queued>>
      BY <1>0, <3>1 DEF HandleEvent, InLoop, ActiveFor, ServerTypeOK, memberVars, stateVars, vars,
         threadVars
    <3>3. doing[baseLoop_].at \in {"insert", "establish"} => doing[baseLoop_].on # c
      BY <3>2 DEF ServerInv, DoingInv
    <3>4. doing[l].at = "idle" /\ doing[l].on = NoConn
      BY <3>2 DEF Rest
    <3> QED BY <1>0, <1>t, <3>2, <3>3, <3>4
  <2>2. CASE HandleReturn(l) \/ HandleClose(l) \/ Disable(l) \/ Erase(l) \/ Queue(l)
    <3>1. PICK c \in Conns : c = doing[l].on /\ c \in accepted /\ doing[l].at \in LoopPoints
      BY <1>0, <2>2 DEF HandleReturn, HandleClose, Disable, Erase, Queue, Does, ServerInv, DoingInv,
         LoopPoints
    <3>2. PICK p \in {"idle", "disable", "erase", "queue"}, d \in {c, NoConn} : Go(l, p, d)
      <4>1. \/ Go(l, "idle", NoConn) \/ Go(l, "disable", c) \/ Go(l, "erase", c)
            \/ Go(l, "queue", c)
        BY <2>2, <3>1 DEF HandleReturn, HandleClose, Disable, Erase, Queue
      <4> QED BY <4>1
    <3>3. Alive(c)
      BY <1>0, <3>1 DEF Alive
    <3>4. /\ UNCHANGED <<accepted, loopOf, worker>>
          /\ connected' \in {connected, connected \ {c}}
          /\ connections_' \in {connections_, connections_ \ {c}}
          /\ queued' \in {queued, queued \cup {c}}
      BY <2>2, <3>1 DEF HandleReturn, HandleClose, Disable, Erase, Queue, memberVars, stateVars,
         vars, threadVars
    <3>5. /\ doing[l].at \notin {"insert", "establish"}
          /\ doing[baseLoop_].at \in {"insert", "establish"} => doing[baseLoop_].on # c
      BY <1>0, <3>1, Apart DEF ServerInv, DoingInv, LoopPoints
    <3> QED BY <1>0, <1>t, <3>1, <3>2, <3>3, <3>4, <3>5
  <2> QED BY <1>8, <2>1, <2>2
<1>9. ASSUME NEW i \in Threads, ServerWorkerStep(i) PROVE Goal
  <2>1. /\ doing[i] = Rest /\ Thread!WorkerStep(i)
        /\ UNCHANGED <<connections_, queued, connected, accepted, loopOf, doing>>
    BY <1>9 DEF ServerWorkerStep, WorkerStep, serverOnly, memberVars, stateVars
  <2>2. worker \in [Threads -> Thread!WorkerPoints]
    BY DEF TypeOK, Thread!TypeOK
  <2>0. ph' = ph
    BY <1>d, <2>1
  <2>3. CASE worker[i] = "unwind"
    <3>1. worker' = [worker EXCEPT ![i] = "done"]
      BY <2>1, <2>3 DEF Thread!WorkerStep, Thread!Post, Thread!ConstructLoop,
         Thread!InitCallback, Thread!Publish, Thread!EnterLoop, Thread!LeaveLoop,
         Thread!Unpublish, Thread!Unlock, Thread!Unwind, Thread!Advance
    <3>2. serving' = serving \ {i} /\ i \in serving
      BY <2>2, <2>3, <3>1 DEF Thread!LoopExists
    \* The loop of a connection that anybody keeps has not ended.
    <3>3. ASSUME NEW c \in Conns, c \in accepted, loopOf[c] = i PROVE ~Alive(c)
      <4>1. stage # "started"
        BY <1>0, <2>3, <3>3 DEF ServerInv, LoopOfInv, GivenLoopsRun, CallInv, Threads
      <4>2. c \notin connections_ /\ c \notin queued
        BY <1>0, <2>3, <3>3, <4>1 DEF ServerInv, StageInv, LoopOfInv
      <4>3. ASSUME NEW t \in Actors PROVE doing[t].on # c
        <5>1. CASE t = baseLoop_
          <6>1. doing[baseLoop_].at \notin BasePoints
            BY <4>1 DEF ServerInv, StageInv
          <6>2. doing[baseLoop_].at \in LoopPoints => loopOf[doing[baseLoop_].on] = baseLoop_
            BY <1>0 DEF ServerInv, DoingInv
          <6>3. doing[baseLoop_].at \in LoopPoints \/ doing[baseLoop_].on = NoConn
            BY <1>0, <6>1 DEF ServerTypeOK, Doings, Rest
          <6> QED BY <1>0, <3>3, <5>1, <6>2, <6>3
        <5>2. CASE t # baseLoop_
          BY <1>0, <2>1, <3>3, <5>2, Apart DEF ServerInv, DoingInv
        <5> QED BY <5>1, <5>2
      <4> QED BY <4>2, <4>3 DEF Alive
    <3>4. \A c \in ConnectionTable!Unreleased : loopOf[c] # i
      BY <3>3, Phases DEF ConnectionTable!Unreleased
    <3>5. ConnectionTable!StopLoop(i)
      BY <2>0, <2>1, <3>2, <3>4 DEF ConnectionTable!StopLoop
    <3> QED BY <3>5 DEF ConnectionTable!Next
  <2>4. CASE worker[i] # "unwind"
    <3>1. ph' = ph
      BY <2>0
    <3>2. \A j \in Threads : j # i => worker'[j] = worker[j]
      BY <2>1, <2>2, WorkerMoves
    <3>3. CASE worker[i] = "posted"
      <4>1. worker'[i] = "callback"
        BY <2>1, <2>2, <3>3 DEF Thread!WorkerStep, Thread!Post, Thread!ConstructLoop,
           Thread!InitCallback, Thread!Publish, Thread!EnterLoop, Thread!LeaveLoop,
           Thread!Unpublish, Thread!Unlock, Thread!Unwind, Thread!Advance
      <4>2. serving' = serving \cup {i} /\ i \notin serving
        BY <3>2, <3>3, <4>1 DEF Thread!LoopExists
      <4>3. ConnectionTable!StartLoop(i)
        BY <2>1, <3>1, <4>2 DEF ConnectionTable!StartLoop
      <4> QED BY <4>3 DEF ConnectionTable!Next
    <3>4. CASE worker[i] # "posted"
      <4>1. Thread!LoopExists(i)' <=> Thread!LoopExists(i)
        BY <2>1, <2>2, <2>4, <3>4 DEF Thread!WorkerStep, Thread!Post, Thread!ConstructLoop,
           Thread!InitCallback, Thread!Publish, Thread!EnterLoop, Thread!LeaveLoop,
           Thread!Unpublish, Thread!Unlock, Thread!Unwind, Thread!Advance, Thread!LoopExists
      <4>2. serving' = serving
        BY <3>2, <4>1 DEF Thread!LoopExists
      <4> QED BY <1>c, <2>1, <3>1, <4>2
    <3> QED BY <3>3, <3>4
  <2> QED BY <2>3, <2>4
<1>10. ASSUME NEW l \in Actors, Drain(l) PROVE Goal
  <2>1. /\ queued' = queued \ QueuedFor(l)
        /\ UNCHANGED <<connections_, connected, accepted, loopOf, worker, doing>>
    BY <1>10 DEF Drain, memberVars, stateVars, vars, threadVars
  <2> DEFINE S == {c \in Conns : c \in QueuedFor(l) /\ ~Alive(c)'}
  <2>2. ASSUME NEW c \in S PROVE Phase(c) = "closing" /\ Phase(c)' = "gone"
    <3>1. c \in queued /\ c \in accepted /\ c \notin connected /\ ~Alive(c)'
      BY DEF QueuedFor, ServerInv, ServerTypeOK, MapInv
    <3>2. Alive(c) /\ ~Making(c)
      BY <3>1 DEF Alive, Making, ServerInv, DoingInv
    <3> QED BY <2>1, <3>1, <3>2 DEF Phase
  <2>3. ASSUME NEW c \in Conns, c \notin S PROVE Phase(c)' = Phase(c)
    <3>1. Alive(c)' <=> Alive(c)
      BY <2>1, <2>3 DEF Alive, QueuedFor
    <3> QED BY <2>1, <3>1 DEF Phase, Making
  <2>4. ConnectionTable!Release(S)
    BY <2>1, <2>2, <2>3, SameServing DEF ConnectionTable!Release
  <2>5. S \in SUBSET {c \in Conns : ph[c] = "closing"}
    BY <2>2
  <2> QED BY <2>4, <2>5 DEF ConnectionTable!Next
<1>11. ASSUME NEW l \in Actors, ServerPoll(l) PROVE Goal
  <2>1. UNCHANGED <<connections_, queued, connected, accepted, doing, loopOf, worker>>
    BY <1>11 DEF ServerPoll, memberVars, stateVars, vars, threadVars
  <2> QED BY <1>c, <1>d, <2>1, SameServing
<1> QED BY <1>1, <1>2, <1>3, <1>4, <1>5, <1>6, <1>7, <1>8, <1>9, <1>10, <1>11
        DEF ServerNext, BaseStep, LoopStep, DestructorStep

\* For any numbers of threads, of connections and of descriptors, the server's map, queues
\* and destructors give each connection one life, within the life of its loop.
THEOREM ConnectionsAreTabled == ServerSpec => ImplementsConnectionTable
<1>1. ServerInit /\ ServerInv /\ TypeOK => ConnectionTable!Init
  <2> SUFFICES ASSUME ServerInit, TypeOK PROVE ConnectionTable!Init
    OBVIOUS
  <2>1. \A c \in Conns : Phase(c) = "new"
    BY DEF ServerInit, Phase
  <2>2. {i \in Threads : Thread!LoopExists(i)} = {}
    BY DEF ServerInit, Init, Thread!Init, Thread!LoopExists
  <2> QED BY <2>1, <2>2 DEF ServerInit, ConnectionTable!Init
<1>2. /\ ServerInv /\ ServerInv' /\ TypeOK /\ CallInv /\ GivenLoopsRun
      /\ (\A i \in Threads : thread_[i] = "none" => worker[i] = "none")
      /\ [ServerNext]_serverVars
      => [ConnectionTable!Next]_(ConnectionTable!vars)
  BY TableStep
<1>3. ServerSpec => [](/\ ServerInv /\ TypeOK /\ IndInv /\ GivenLoopsRun
                       /\ \A i \in Threads : thread_[i] = "none" => worker[i] = "none")
  BY PoolImplemented, ServerInvHolds, Typing, IndInvHolds, PoolLoopsRun, UnstartedThreads, PTL
<1>4. IndInv => CallInv
  BY DEF IndInv
<1> QED BY <1>1, <1>2, <1>3, <1>4, PTL
        DEF ServerSpec, ImplementsConnectionTable, ConnectionTable!Spec
=============================================================================
