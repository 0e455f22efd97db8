----------------------------- MODULE TcpServer -----------------------------
(***************************************************************************)
(* A TcpServer over its EventLoopThreadPool: start(), newConnection,       *)
(* removeConnection and the destructor, with the Acceptor that calls       *)
(* newConnection, the map connections_ and everybody who keeps a           *)
(* connection alive.                                                       *)
(*                                                                         *)
(* runInLoop runs what it is given in the thread that calls it, because    *)
(* isInLoopThread() holds everywhere (see EventLoop.tla): the base thread  *)
(* runs connectEstablished and connectDestroyed, and the loop threads run  *)
(* removeConnectionInLoop.  What is queued is destroyed without having     *)
(* been called.  Nothing locks connections_; its accesses by two threads   *)
(* interleave here, and what two of them do to the hash table when they    *)
(* overlap is left out.                                                    *)
(***************************************************************************)
EXTENDS EventLoopThreadPool

CONSTANTS Conns,    \* the connections clients ever make
          NoConn,   \* none of them
          MaxOpen   \* the limit of descriptors, less those of the server itself

ASSUME NoConnIsNone == NoConn \notin Conns
ASSUME ConnsFinite  == IsFiniteSet(Conns)
ASSUME MaxOpenIsNat == MaxOpen \in Nat

Actors == Threads \cup {baseLoop_}  \* each thread, by the loop it runs

VARIABLES
  started_,      \* the constructor leaves it uninitialised: 0 or something else
  listenning_,   \* of the Acceptor
  connections_,
  accepted,      \* connections there have been (history)
  loopOf,        \* loop_ of each connection
  connected,     \* connections that nothing has begun to close
  registered,    \* connections whose Channel is added to their loop's poller
  active,        \* connections reported to their loop and not handled yet
  queued,        \* connections kept by a connectDestroyed in their loop's queue
  doing          \* what each thread does to which connection

memberVars == <<started_, listenning_, accepted, loopOf>>
stateVars  == <<connected, registered>>
serverOnly == <<memberVars, stateVars, connections_, active, queued, doing>>
serverVars == <<vars, serverOnly>>

Rest == [at |-> "idle", on |-> NoConn]
Does(t, point) == doing[t].at = point
Go(t, point, c) == doing' = [doing EXCEPT ![t] = [at |-> point, on |-> c]]

\* The shared pointers to a connection: the map's, a queued functor's, or that of
\* a thread inside one of its functions (tie() keeps one for every callback).
Alive(c) == c \in connections_ \cup queued \/ \E t \in Actors : doing[t].on = c
Open == {c \in accepted : Alive(c)}

ServerInit ==
  /\ Init
  /\ started_ \in {0, 1}
  /\ listenning_ = FALSE
  /\ connections_ = {} /\ accepted = {} /\ connected = {} /\ registered = {}
  /\ active = {} /\ queued = {}
  /\ loopOf = [c \in Conns |-> baseLoop_]
  /\ doing = [t \in Actors |-> Rest]

-----------------------------------------------------------------------------
(* The base thread: start() and newConnection *)

BaseIdle == Idle /\ doing[baseLoop_] = Rest

\* The pool's own steps, which leave the server's members alone.  Nobody reads what
\* setThreadNum() sets after start().
PoolStep ==
  /\ \/ SetThreadNum /\ stage = "built"
     \/ StartNext \/ \E i \in Threads : InStartLoop(i) \/ SpuriousWake(i)
     \/ DestroyNext \/ FinishDestroy \/ \E i \in Threads : InDestructor(i)
  /\ doing[baseLoop_] = Rest
  /\ UNCHANGED serverOnly

\* start() counts its calls; all but the first do nothing.
ServerStart ==
  /\ BaseIdle /\ started_ = 0
  /\ Start
  /\ started_' = 1
  /\ UNCHANGED <<listenning_, accepted, loopOf, stateVars, connections_, active, queued, doing>>

\* Mutant: start() does not listen.
ServerFinishStartDeaf ==
  /\ FinishStart
  /\ UNCHANGED serverOnly

\* The pool has started, and runInLoop runs Acceptor::listen.
ServerFinishStart ==
  /\ FinishStart
  /\ listenning_' = TRUE
  /\ UNCHANGED <<started_, accepted, loopOf, stateVars, connections_, active, queued, doing>>

\* Acceptor::handleRead and newConnection: a loop for the new connection.  At the
\* limit of descriptors accept fails, and the client has to wait.
Accept(c) ==
  /\ BaseIdle /\ listenning_
  /\ c \in Conns \ accepted /\ Cardinality(Open) < MaxOpen
  /\ GetNextLoop
  /\ accepted' = accepted \cup {c}
  /\ loopOf' = [loopOf EXCEPT ![c] = NextLoop]
  /\ Go(baseLoop_, "insert", c)
  /\ UNCHANGED <<started_, listenning_, stateVars, connections_, active, queued>>

Insert ==
  /\ Does(baseLoop_, "insert")
  /\ connections_' = connections_ \cup {doing[baseLoop_].on}
  /\ Go(baseLoop_, "establish", doing[baseLoop_].on)
  /\ UNCHANGED <<vars, memberVars, stateVars, active, queued>>

\* connectEstablished registers the Channel; from here on its loop calls it, ...
Establish ==
  /\ Does(baseLoop_, "establish")
  /\ connected' = connected \cup {doing[baseLoop_].on}
  /\ registered' = registered \cup {doing[baseLoop_].on}
  /\ Go(baseLoop_, "announce", doing[baseLoop_].on)
  /\ UNCHANGED <<vars, memberVars, connections_, active, queued>>

\* ... and the user's callback comes last.
Announce ==
  /\ Does(baseLoop_, "announce")
  /\ Go(baseLoop_, "idle", NoConn)
  /\ UNCHANGED <<vars, memberVars, stateVars, connections_, active, queued>>

BaseStep == Insert \/ Establish \/ Announce

-----------------------------------------------------------------------------
(* The thread of each loop: poll, handleEvent, handleClose, removeConnection and *)
(* the queue                                                                     *)

InLoop(l) == /\ doing[l] = Rest
             /\ IF l = baseLoop_ THEN Idle /\ stage \notin {"starting", "stopping"}
                                 ELSE worker[l] = "looping"

\* A Channel that has been destroyed is off the kernel's list, with its descriptor.
\* (Poller.tla takes destruction apart, and says what a loop finds in between.)
ListedFor(l) == {c \in registered : loopOf[c] = l /\ Alive(c)}
ActiveFor(l) == {c \in active : loopOf[c] = l /\ Alive(c)}
QueuedFor(l) == {c \in queued : loopOf[c] = l}

\* A new iteration: some of the registered Channels are reported.
ServerPoll(l) ==
  /\ InLoop(l) /\ ActiveFor(l) = {} /\ QueuedFor(l) = {}
  /\ \E batch \in SUBSET ListedFor(l) :
        active' = {c \in active : loopOf[c] # l} \cup batch
  /\ UNCHANGED <<vars, memberVars, stateVars, connections_, queued, doing>>

\* handleEvent locks tie_, which keeps the connection.
HandleEvent(l, c) ==
  /\ InLoop(l) /\ c \in ActiveFor(l)
  /\ active' = active \ {c}
  /\ Go(l, "handle", c)
  /\ UNCHANGED <<vars, memberVars, stateVars, connections_, queued>>

HandleReturn(l) ==
  /\ Does(l, "handle")
  /\ Go(l, "idle", NoConn)
  /\ UNCHANGED <<vars, memberVars, stateVars, connections_, active, queued>>

\* handleClose sets kDisconnected, whatever state_ was: after connectDestroyed it
\* closes the connection once more.
HandleClose(l) ==
  /\ Does(l, "handle")
  /\ connected' = connected \ {doing[l].on}
  /\ Go(l, "disable", doing[l].on)
  /\ UNCHANGED <<vars, memberVars, registered, connections_, active, queued>>

\* disableAll(), by way of updateChannel: a Channel that is added goes off the
\* kernel's list; any other one is added, for no events.
Disabled(c) == IF c \in registered THEN registered \ {c} ELSE registered \cup {c}

\* disableAll and the user's callback in handleClose.
Disable(l) ==
  /\ Does(l, "disable")
  /\ registered' = Disabled(doing[l].on)
  /\ Go(l, "erase", doing[l].on)
  /\ UNCHANGED <<vars, memberVars, connected, connections_, active, queued>>

\* Mutant: removeConnectionInLoop does not find the connection.
EraseNothing(l) ==
  /\ Does(l, "erase")
  /\ Go(l, "queue", doing[l].on)
  /\ UNCHANGED <<vars, memberVars, stateVars, connections_, active, queued>>

\* removeConnectionInLoop, in the thread of the connection's loop: erase from the
\* map, ...
Erase(l) ==
  /\ Does(l, "erase")
  /\ connections_' = connections_ \ {doing[l].on}
  /\ Go(l, "queue", doing[l].on)
  /\ UNCHANGED <<vars, memberVars, stateVars, active, queued>>

\* ... and queue connectDestroyed.
Queue(l) ==
  /\ Does(l, "queue")
  /\ queued' = queued \cup {doing[l].on}
  /\ Go(l, "idle", NoConn)
  /\ UNCHANGED <<vars, memberVars, stateVars, connections_, active>>

\* Mutant: doPendingFunctors keeps its functors.
DrainNothing(l) ==
  /\ InLoop(l) /\ QueuedFor(l) # {}
  /\ UNCHANGED <<vars, serverOnly>>

\* doPendingFunctors, when the batch has been handled; nothing but the functors goes.
Drain(l) ==
  /\ InLoop(l) /\ ActiveFor(l) = {} /\ QueuedFor(l) # {}
  /\ queued' = queued \ QueuedFor(l)
  /\ UNCHANGED <<vars, memberVars, stateVars, connections_, active, doing>>

\* threadFunc.  A loop returns between two iterations.
ServerWorkerStep(i) ==
  /\ WorkerStep(i)
  /\ doing[i] = Rest
  /\ worker[i] = "looping" => ActiveFor(i) \cup QueuedFor(i) = {}
  /\ UNCHANGED serverOnly

LoopStep(l) ==
  \/ HandleReturn(l) \/ Disable(l) \/ Erase(l) \/ Queue(l) \/ Drain(l)
  \/ \E c \in Conns : HandleEvent(l, c)

-----------------------------------------------------------------------------
(* ~TcpServer, and the members after it: connections_, then the pool *)

TearDown ==
  /\ BaseIdle /\ stage \in {"built", "started"}
  /\ Go(baseLoop_, "destroy", NoConn)
  /\ UNCHANGED <<vars, memberVars, stateVars, connections_, active, queued>>

\* The next connection: conn takes over the map's pointer, ...
TakeOver(c) ==
  /\ Does(baseLoop_, "destroy") /\ c \in connections_
  /\ connections_' = connections_ \ {c}
  /\ Go(baseLoop_, "test", c)
  /\ UNCHANGED <<vars, memberVars, stateVars, active, queued>>

\* ... and connectDestroyed, which the base thread runs itself, tests state_.  One that
\* the user has shut down, or that is being closed, is not kConnected.
TestConnected ==
  /\ Does(baseLoop_, "test")
  /\ \/ /\ doing[baseLoop_].on \in connected
        /\ connected' = connected \ {doing[baseLoop_].on}
        /\ Go(baseLoop_, "clear", doing[baseLoop_].on)
     \/ /\ Go(baseLoop_, "remove", doing[baseLoop_].on)
        /\ UNCHANGED connected
  /\ UNCHANGED <<vars, memberVars, registered, connections_, active, queued>>

\* disableAll and the user's callback in connectDestroyed.
Clear ==
  /\ Does(baseLoop_, "clear")
  /\ registered' = Disabled(doing[baseLoop_].on)
  /\ Go(baseLoop_, "remove", doing[baseLoop_].on)
  /\ UNCHANGED <<vars, memberVars, connected, connections_, active, queued>>

\* remove(), and the end of conn.
RemoveLast ==
  /\ Does(baseLoop_, "remove")
  /\ registered' = registered \ {doing[baseLoop_].on}
  /\ Go(baseLoop_, "destroy", NoConn)
  /\ UNCHANGED <<vars, memberVars, connected, connections_, active, queued>>

\* Mutant: the pool is a member that goes before the connections.
DestroyPoolFirst ==
  /\ Does(baseLoop_, "destroy")
  /\ Destroy
  /\ Go(baseLoop_, "idle", NoConn)
  /\ UNCHANGED <<memberVars, stateVars, connections_, active, queued>>

DestroyPool ==
  /\ Does(baseLoop_, "destroy") /\ connections_ = {}
  /\ Destroy
  /\ Go(baseLoop_, "idle", NoConn)
  /\ UNCHANGED <<memberVars, stateVars, connections_, active, queued>>

DestructorStep ==
  TestConnected \/ Clear \/ RemoveLast \/ DestroyPool \/ \E c \in Conns : TakeOver(c)

-----------------------------------------------------------------------------
ServerNext ==
  \/ PoolStep \/ ServerStart \/ ServerFinishStart \/ BaseStep \/ TearDown \/ DestructorStep
  \/ \E c \in Conns : Accept(c)
  \/ \E l \in Actors : LoopStep(l) \/ ServerPoll(l) \/ HandleClose(l)
  \/ \E i \in Threads : ServerWorkerStep(i)

ServerSpec == ServerInit /\ [][ServerNext]_serverVars

\* Every thread runs: its calls, callbacks, batches and destructors go on, unless they
\* have to wait, and an iteration ends with its queue.
BaseThreadStep ==
  \/ PoolStep /\ stage \in {"starting", "stopping"}
  \/ ServerFinishStart \/ BaseStep \/ DestructorStep \/ LoopStep(baseLoop_)

FairServerSpec ==
  /\ ServerSpec
  /\ WF_serverVars(BaseThreadStep)
  /\ \A i \in Threads : WF_serverVars(ServerWorkerStep(i) \/ LoopStep(i))

-----------------------------------------------------------------------------
(* Properties *)

\* Every variable holds a value the program can give it.
LoopPoints == {"handle", "disable", "erase", "queue"}
BasePoints == {"insert", "establish", "announce", "test", "clear", "remove"}
Doings == {Rest} \cup [at : {"destroy"}, on : {NoConn}]
                 \cup [at : LoopPoints \cup BasePoints, on : Conns]
ServerTypeOK ==
  /\ TypeOK
  /\ started_ \in {0, 1} /\ listenning_ \in BOOLEAN
  /\ accepted \subseteq Conns
  /\ connections_ \cup connected \cup registered \cup active \cup queued \subseteq accepted
  /\ loopOf \in [Conns -> Actors]
  /\ doing \in [Actors -> Doings]

\* ~TcpServer has begun.
TearingDown == \/ doing[baseLoop_].at \in {"destroy", "test", "clear", "remove"}
               \/ stage \in {"stopping", "gone"}

\* Until ~TcpServer, the map owns every connection whose Channel is registered, so that
\* none is destroyed while its loop polls it; ~TcpServer lets go of a connection before
\* it is unregistered, and a loop's thread may register it again.  At any time, the map
\* keeps none that is not polled any more, or not yet, except while some thread is about
\* to change that.
MapAgrees ==
  /\ ~TearingDown => registered \subseteq connections_
  /\ \A c \in connections_ \ registered : \E t \in Actors : doing[t].on = c

\* A connection uses its loop through a plain pointer: whoever keeps a connection, its
\* loop exists, even while the server and the pool are being destroyed.
LoopsServe ==
  \A c \in accepted : loopOf[c] # baseLoop_ /\ Alive(c) => Thread!LoopExists(loopOf[c])

Making(c) == doing[baseLoop_].on = c /\ doing[baseLoop_].at \in {"insert", "establish"}
Phase(c) == IF c \notin accepted THEN "new"
            ELSE IF ~Alive(c) THEN "gone"
            ELSE IF Making(c) THEN "made"
            ELSE IF c \in connected THEN "up" ELSE "closing"

ConnectionTable == INSTANCE ConnectionTable
                     WITH phase <- [c \in Conns |-> Phase(c)], Loops <- Threads,
                          serving <- {i \in Threads : Thread!LoopExists(i)}

\* The shared pointers in the map, in the queues and in the threads' hands add up to one
\* life for each connection: it does not come back after it has been released, holds no
\* descriptor beyond the limit and does not outlive the loop it was given, however threads,
\* queues and destructors interleave.  (How often it is closed is not part of it: when
\* ~TcpServer finds a loop inside of handleEvent, connectDestroyed and handleClose both
\* close the connection.)
ImplementsConnectionTable == ConnectionTable!Spec

\* start() ends in listening, after the hand-shakes with the pool's threads.
StartListens == stage = "starting" ~> listenning_

\* Connections that have been closed, or that ~TcpServer has taken out of the map, give
\* their descriptors back, so that accept can succeed again at the limit: again and again
\* nothing is kept of any of them.  (None of them comes back, so each is released.)
Leaving(c) == c \in accepted \ (connections_ \cap connected) /\ ~Making(c)
ClosedIsReleased == []<>(\A c \in Conns : Leaving(c) => ~Alive(c))

-----------------------------------------------------------------------------
(* The inductive invariant behind MapAgrees and LoopsServe, given what is proved of *)
(* the pool                                                                         *)

\* Connections are made and kept only while the pool is there.
StageInv ==
  /\ accepted # {} => stage \in {"started", "stopping", "gone"}
  /\ connections_ # {} => stage = "started"
  /\ doing[baseLoop_].at \in BasePoints => stage = "started"
  /\ doing[baseLoop_].at = "destroy" => stage \in {"built", "started"}
  /\ stage \in {"starting", "stopping"} => doing[baseLoop_] = Rest

\* The base thread has a new connection to itself; a loop's thread handles only its own
\* connections, and only inside of loop().
DoingInv ==
  /\ LET b == doing[baseLoop_] IN
       /\ b.at \in {"insert", "establish"} =>
            /\ b.on \in accepted \ (connected \cup registered \cup active \cup queued)
            /\ b.on \in connections_ <=> b.at = "establish"
            /\ \A i \in Threads : doing[i].on # b.on
       /\ b.at \in BasePoints => b.on \in accepted
       /\ b.at \in {"test", "clear", "remove"} => b.on \notin connections_
  /\ \A t \in Actors : doing[t].at \in LoopPoints =>
       /\ doing[t].on \in accepted \ active /\ loopOf[doing[t].on] = t
       /\ doing[t].at # "handle" => doing[t].on \notin connected
       /\ doing[t].at = "queue" => doing[t].on \notin connections_
  /\ \A i \in Threads : doing[i] = Rest \/ (/\ doing[i].at \in LoopPoints
                                            /\ worker[i] = "looping")

\* What the map keeps is registered and connected, or somebody is making or closing it.
Kept(c) ==
  \/ doing[baseLoop_] = [at |-> "establish", on |-> c]
  \/ doing[loopOf[c]] = [at |-> "disable", on |-> c] /\ c \in registered
  \/ doing[loopOf[c]] = [at |-> "erase", on |-> c]
  \/ c \in registered \cap connected
MapInv == /\ queued \cap (connections_ \cup connected) = {}
          /\ \A c \in connections_ : Kept(c)

\* Before ~TcpServer nothing but the map's connections is polled or reported.
ServingInv ==
  ~TearingDown =>
    /\ registered \subseteq connections_ /\ active \subseteq registered
    /\ \A t \in Actors : /\ doing[t].at \in {"handle", "disable"} => doing[t].on \in connections_
                         /\ doing[t].at \in {"erase", "queue"} => doing[t].on \notin registered

\* A connection has been given one of the pool's loops, whose queue may keep it.
LoopOfInv ==
  \A c \in accepted : loopOf[c] # baseLoop_ =>
    /\ loopOf[c] <= Len(loops_)
    /\ c \in queued => worker[loopOf[c]] = "looping"

ServerInv == ServerTypeOK /\ StageInv /\ DoingInv /\ MapInv /\ ServingInv /\ LoopOfInv
=============================================================================
