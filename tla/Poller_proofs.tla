---------------------------- MODULE Poller_proofs ---------------------------
(***************************************************************************)
(* The registry of a poller whose base thread only accepts connections:    *)
(* proofs for any number of connections and descriptors.                   *)
(***************************************************************************)
EXTENDS Poller, FiniteSetTheorems, TLAPS

\* The constant sets the types are made of.
LEMMA TypeSets ==
  /\ {"test", "store", "index", "insert", "added", "add", "branch", "mod", "del",
      "deleted", "erase", "rindex", "rdel", "new"} \subseteq Points
  /\ {"unborn", "live", "closed", "dropped", "freed", "gone"} \subseteq States
  /\ {} \in Masks /\ {"read"} \in Masks
  /\ \A m \in Masks : m \cup {"write"} \in Masks /\ m \ {"write"} \in Masks
  /\ Idle \in Calls
  /\ \A p \in Channels \cup {None}, m \in Masks :
        [ptr |-> p, mask |-> m] \in [ptr : Channels \cup {None}, mask : Masks]
  /\ NoEntry \in [ptr : Channels \cup {None}, mask : Masks]
  BY DEF Points, States, Masks, Idle, Calls, NoEntry

\* Starting, continuing and ending a call keeps `doing' in its type.
LEMMA CallType ==
  ASSUME doing \in [Threads -> Calls], NEW t \in Threads
  PROVE  /\ \A c \in Channels, m \in Masks, r \in BOOLEAN :
              Begin(t, c, m, r) => doing' \in [Threads -> Calls]
         /\ \A p \in Points : doing[t].at # "idle" /\ GoTo(t, p)
                             => doing' \in [Threads -> Calls]
         /\ doing[t].at # "idle" /\ EndUpdate(t)
               => doing' \in [Threads -> Calls]
         /\ doing' = [doing EXCEPT ![t] = Idle] => doing' \in [Threads -> Calls]
<1>1. ASSUME NEW c \in Channels, NEW m \in Masks, NEW r \in BOOLEAN,
             Begin(t, c, m, r)
      PROVE  doing' \in [Threads -> Calls]
  <2>1. [at |-> "store", on |-> c, mask |-> m, removing |-> r] \in Calls
    BY TypeSets DEF Calls
  <2> QED BY <1>1, <2>1 DEF Begin
<1>2. ASSUME NEW p \in Points, doing[t].at # "idle", GoTo(t, p)
      PROVE  doing' \in [Threads -> Calls]
  <2>1. [doing[t] EXCEPT !.at = p] \in Calls
    BY <1>2 DEF Calls, Idle
  <2> QED BY <1>2, <2>1 DEF GoTo
<1>3. ASSUME doing' = [doing EXCEPT ![t] = Idle]
      PROVE  doing' \in [Threads -> Calls]
  BY <1>3, TypeSets
<1>4. ASSUME doing[t].at # "idle", EndUpdate(t)
      PROVE  doing' \in [Threads -> Calls]
  <2>1. "erase" \in Points
    BY TypeSets
  <2> QED BY <1>2, <1>3, <1>4, <2>1 DEF EndUpdate
<1> QED BY <1>1, <1>2, <1>3, <1>4

\* Without a tear-down in the base thread, only ~EventLoop calls remove(), ...
LEMMA OnlyWakeupRemoved ==
  ASSUME NEW t \in Threads, NEW c \in Channels,
         DisableAndRemove(t, c)
  PROVE  t = LoopThread /\ c = Wakeup /\ Begin(t, c, {}, TRUE)
  BY NoneIsNone DEF DisableAndRemove

\* ... and no thread is inside of connectDestroyed.
LEMMA NoTearDown ==
  ASSUME IndInv, ~BaseTearsDown, NEW t \in Threads
  PROVE  ~TestState(t) /\ \A c : ~TakeConnection(t, c)
  BY TwoThreads DEF IndInv, BaseInv, LoopInv, Modifying, Closing, Removing, TestState, TakeConnection,
     At, Idle, Threads

\* Every step keeps every variable in its type.
LEMMA TypeStep == TypeOK /\ [Next]_vars => TypeOK'
<1> SUFFICES ASSUME TypeOK, [Next]_vars PROVE TypeOK'
  OBVIOUS
<1> USE NoneIsNone, ListIsNat, TypeSets, CallType
<1> USE DEF TypeOK, chanVars, kernVars, loopVars
<1>1. \A t \in Threads : doing[t].at # "idle" => /\ doing[t].on \in Channels
                                                /\ doing[t].mask \in Masks
  BY DEF Calls, Idle
<1>2. \A g \in Fds \cup {None}, p \in Channels \cup {None}, m \in Masks :
         [interest EXCEPT ![g] = [ptr |-> p, mask |-> m]]
            \in [Fds -> [ptr : Channels \cup {None}, mask : Masks]]
  OBVIOUS
<1>3. \A g : [interest EXCEPT ![g] = NoEntry]
            \in [Fds -> [ptr : Channels \cup {None}, mask : Masks]]
  OBVIOUS
<1>4. ASSUME NEW t \in Threads, NEW c \in Channels, NewConnection(t, c)
      PROVE  TypeOK'
  <2>1. PICK f \in Fds \ open : /\ fd_' = [fd_ EXCEPT ![c] = f]
                                /\ open' = open \cup {f}
    BY <1>4 DEF NewConnection
  <2>2. fd_' \in [Channels -> Fds \cup {None}] /\ open' \subseteq Fds
    BY <2>1
  <2>3. doing' \in [Threads -> Calls] /\ state' \in [Channels -> States]
    BY <1>4 DEF NewConnection
  <2> QED BY <1>4, <2>2, <2>3 DEF NewConnection
<1>5. ASSUME NEW t \in Threads, NEW c \in Channels,
             EnableWriting(t, c) \/ DisableWriting(t, c)
      PROVE  TypeOK'
  <2>1. events_[c] \cup {"write"} \in Masks /\ events_[c] \ {"write"} \in Masks
    BY DEF Masks
  <2> QED BY <1>5, <2>1 DEF EnableWriting, DisableWriting
<1>6. ASSUME NEW t \in Threads, NEW c \in Channels,
             HandleClose(t, c) \/ DisableAndRemove(t, c)
      PROVE  TypeOK'
  <2>1. doing' \in [Threads -> Calls]
    BY <1>6 DEF HandleClose, DisableAndRemove
  <2>2. state' \in [Channels -> States]
    <3>1. \A s \in States : [state EXCEPT ![c] = s] \in [Channels -> States]
      OBVIOUS
    <3>2. "closed" \in States /\ "dropped" \in States
      BY DEF States
    <3>3. \/ state' = [state EXCEPT ![c] = "closed"]
          \/ state' = [state EXCEPT ![c] = "dropped"]
      BY <1>6 DEF HandleClose, DisableAndRemove
    <3> QED BY <3>1, <3>2, <3>3
  <2> QED BY <1>6, <2>1, <2>2 DEF HandleClose, DisableAndRemove
<1>19. ASSUME NEW t \in Threads, NEW c \in Channels, TakeConnection(t, c)
       PROVE  TypeOK'
  <2>1. [at |-> "test", on |-> c, mask |-> {}, removing |-> TRUE] \in Calls
    BY DEF Calls
  <2>2. doing' \in [Threads -> Calls] /\ taken' \subseteq Conns
    BY <1>19, <2>1 DEF TakeConnection
  <2> QED BY <1>19, <2>2 DEF TakeConnection
<1>20. ASSUME NEW t \in Threads, TestState(t)
       PROVE  TypeOK'
  <2>1. doing' \in [Threads -> Calls] /\ state' \in [Channels -> States]
    BY <1>20 DEF TestState, At
  <2> QED BY <1>20, <2>1 DEF TestState
<1>7. ASSUME NEW t \in Threads,
             \/ ReadIndex(t) \/ Branch(t) \/ ReadIndexToRemove(t)
      PROVE  TypeOK'
  BY <1>7 DEF At, ReadIndex, PathOf, Branch, ReadIndexToRemove
<1>8. ASSUME NEW t \in Threads, StoreEvents(t)
      PROVE  TypeOK'
  <2>1. doing' \in [Threads -> Calls] /\ events_' \in [Channels -> Masks]
    BY <1>1, <1>8 DEF At, StoreEvents
  <2> QED BY <1>8, <2>1 DEF At, StoreEvents
<1>9. ASSUME NEW t \in Threads, InsertInMap(t) \/ EraseFromMap(t)
      PROVE  TypeOK'
  <2>1. channels_' \in [Fds -> Channels \cup {None}]
    BY <1>1, <1>9 DEF At, InsertInMap, EraseFromMap
  <2>2. doing' \in [Threads -> Calls]
    BY <1>9 DEF At, InsertInMap, EraseFromMap
  <2> QED BY <1>9, <2>1, <2>2 DEF At, InsertInMap, EraseFromMap
<1>10. ASSUME NEW t \in Threads, AddChannel(t)
       PROVE  TypeOK'
  <2>1. CASE At(t, "added")
    <3>1. doing' \in [Threads -> Calls]
      BY <1>10, <2>1 DEF AddChannel, At
    <3>2. index_' \in [Channels -> {kNew, kAdded, kDeleted}]
      BY <1>10, <2>1 DEF AddChannel, At
    <3> QED BY <1>10, <2>1, <3>1, <3>2 DEF AddChannel, At
  <2>2. CASE At(t, "add")
    <3>1. doing' \in [Threads -> Calls]
      BY <1>10, <2>2 DEF AddChannel, At
    <3>2. /\ interest' \in [Fds -> [ptr : Channels \cup {None}, mask : Masks]]
          /\ exited' \in BOOLEAN
      <4> DEFINE c == doing[t].on
      <4>1. CtlAdd(c) /\ c \in Channels
        BY <1>1, <1>10, <2>2 DEF AddChannel, At
      <4> QED BY <1>2, <4>1 DEF CtlAdd
    <3> QED BY <1>10, <2>2, <3>1, <3>2 DEF AddChannel, At
  <2> QED BY <1>10, <2>1, <2>2 DEF AddChannel
<1>11. ASSUME NEW t \in Threads, ModChannel(t)
       PROVE  TypeOK'
  <2>1. doing' \in [Threads -> Calls]
    BY <1>11 DEF At, ModChannel
  <2>2. interest' \in [Fds -> [ptr : Channels \cup {None}, mask : Masks]]
    BY <1>1, <1>2, <1>11 DEF At, ModChannel
  <2>3. exited' \in BOOLEAN
    BY <1>11 DEF At, ModChannel
  <2> QED BY <1>11, <2>1, <2>2, <2>3 DEF At, ModChannel
<1>12. ASSUME NEW t \in Threads, DelChannel(t) \/ DelRemoved(t)
       PROVE  TypeOK'
  BY <1>3, <1>12 DEF At, DelChannel, DelRemoved
<1>13. ASSUME NEW t \in Threads, SetDeleted(t) \/ SetNew(t)
       PROVE  TypeOK'
  BY <1>13 DEF At, SetDeleted, SetNew, Idle
<1>14. CASE PollReturn
  <2>1. events_size' \in Nat \ {0}
    BY <1>14 DEF PollReturn, Grown
  <2>2. active' \subseteq Channels
    BY <1>14 DEF PollReturn, Reportable
  <2> QED BY <1>14, <2>1, <2>2 DEF PollReturn
<1>15. ASSUME NEW c \in Channels, HandleEvent(c) \/ Free(c) \/ CloseDescriptor(c)
       PROVE  TypeOK'
  BY <1>3, <1>15 DEF HandleEvent, Free, CloseDescriptor
<1>16. CASE HandleReturn \/ LeaveLoop
  BY <1>16 DEF HandleReturn, LeaveLoop
<1>17. CASE EndIteration
  BY <1>17 DEF EndIteration
<1>18. CASE UNCHANGED vars
  BY <1>18 DEF vars
<1> QED
  BY <1>4, <1>5, <1>6, <1>7, <1>8, <1>9, <1>10, <1>11, <1>12, <1>13, <1>14,
     <1>15, <1>16, <1>17, <1>18, <1>19, <1>20
  DEF Next, UpdateStep, LoopStep

-----------------------------------------------------------------------------
(* The registry, when the base thread only makes connections *)

\* What the invariant says of a thread that is inside a call: the base thread
\* has a connection nobody else knows, the loop thread a published Channel.
LEMMA Callers ==
  ASSUME IndInv
  PROVE  /\ LoopThread # BaseThread /\ Threads = {LoopThread, BaseThread}
         /\ \A t \in Threads : doing[t].at # "idle" <=> doing[t] # Idle
         /\ doing[BaseThread].at # "idle" =>
              /\ doing[BaseThread].on \in Conns \ established
              /\ doing[BaseThread].at \in {"store", "index", "insert", "added", "add"}
              /\ ~doing[BaseThread].removing
         /\ doing[LoopThread].at # "idle" =>
              /\ doing[LoopThread].on \in Registrable
              /\ doing[LoopThread].at \notin {"insert", "added", "add", "rdel"}
         /\ doing[LoopThread].on # doing[BaseThread].on \/ doing[LoopThread] = Idle
<1>1. \A t \in Threads : doing[t] = Idle \/ (doing[t].at # "idle" /\ doing[t].on # None)
  BY NoneIsNone DEF IndInv, TypeOK, Calls, Points, Channels
<1>2. Idle.at = "idle" /\ Idle.on = None
  BY DEF Idle
<1>3. LoopThread \in Threads /\ BaseThread \in Threads
  BY DEF Threads
<1>4. doing[BaseThread].at # "idle" =>
         /\ doing[BaseThread].on \in Conns \ established
         /\ doing[BaseThread].at \in {"store", "index", "insert", "added", "add"}
         /\ ~doing[BaseThread].removing
  BY <1>2 DEF IndInv, BaseInv
<1>5. doing[LoopThread].at # "idle" =>
         /\ doing[LoopThread].on \in Registrable
         /\ doing[LoopThread].at \notin {"insert", "added", "add", "rdel"}
  BY <1>2 DEF IndInv, LoopInv, Modifying, Closing, Removing, Registrable
<1> QED BY <1>1, <1>2, <1>3, <1>4, <1>5, TwoThreads, NoneIsNone
        DEF Threads, Registrable

\* The base thread's view: only it touches the connection it is establishing.
LEMMA BaseStep ==
  ASSUME IndInv, ~BaseSends, ~BaseTearsDown, [Next]_vars
  PROVE  BaseInv'
<1> DEFINE b == doing[BaseThread]
<1>1. ASSUME b' = b,
             \A c \in Conns \ established : state[c] = "live" =>
                /\ c \notin established' /\ state'[c] = "live"
                /\ events_'[c] = events_[c] /\ index_'[c] = index_[c]
      PROVE  BaseInv'
  BY <1>1 DEF IndInv, BaseInv
<1>2. ASSUME NEW c \in Channels, NewConnection(BaseThread, c)
      PROVE  BaseInv'
  <2>1. /\ b' = [at |-> "store", on |-> c, mask |-> {"read"}, removing |-> FALSE]
        /\ c \in Conns /\ state[c] = "unborn" /\ state'[c] = "live"
        /\ UNCHANGED <<events_, index_, established>>
    BY <1>2 DEF NewConnection, Begin, IndInv, TypeOK, Threads
  <2>2. b = Idle
    BY <1>2, Callers DEF NewConnection, CanCall
  <2>3. c \notin established /\ index_[c] = kNew /\ events_[c] = {}
    BY <2>1, <2>2, NoneIsNone
    DEF IndInv, NewInv, Registrable, Idle, Channels
  <2> QED BY <2>1, <2>3 DEF BaseInv
<1>3. ASSUME NEW c \in Channels,
             \/ EnableWriting(LoopThread, c) \/ DisableWriting(LoopThread, c)
             \/ HandleClose(LoopThread, c) \/ DisableAndRemove(LoopThread, c)
      PROVE  BaseInv'
  <2>1. b' = b
    BY <1>3, Callers
    DEF EnableWriting, DisableWriting, HandleClose, DisableAndRemove, Begin,
        IndInv, TypeOK
  <2>2. c \in Registrable
    BY <1>3, NoneIsNone
    DEF EnableWriting, DisableWriting, HandleClose, DisableAndRemove, CanCall,
        Registrable, IndInv, ActiveInv, Channels
  <2>3. \A d \in Channels : d # c => state'[d] = state[d]
    BY <1>3
    DEF EnableWriting, DisableWriting, HandleClose, DisableAndRemove, chanVars,
        IndInv, TypeOK
  <2>4. UNCHANGED <<events_, index_, established>>
    BY <1>3
    DEF EnableWriting, DisableWriting, HandleClose, DisableAndRemove, chanVars
  <2>5. \A d \in Conns \ established : d # c /\ d \in Channels
    BY <2>2, NoneIsNone DEF Registrable, Channels
  <2> QED BY <1>1, <2>1, <2>3, <2>4, <2>5
<1>4. ASSUME NEW c \in Channels, NEW t \in Threads,
             \/ NewConnection(t, c) /\ t # BaseThread
             \/ EnableWriting(t, c) /\ t # LoopThread
             \/ DisableWriting(t, c) /\ t # LoopThread
             \/ HandleClose(t, c) /\ t # LoopThread
             \/ DisableAndRemove(t, c) /\ t # LoopThread
      PROVE  FALSE
  BY <1>4, Callers
  DEF NewConnection, EnableWriting, DisableWriting, HandleClose,
      DisableAndRemove, Channels
<1>5. ASSUME UpdateStep(LoopThread)
      PROVE  BaseInv'
  <2> DEFINE c == doing[LoopThread].on
  <2>1. b' = b
    BY <1>5, Callers
    DEF UpdateStep, StoreEvents, ReadIndex, InsertInMap, AddChannel, Branch,
        ModChannel, DelChannel, SetDeleted, EraseFromMap, ReadIndexToRemove,
        DelRemoved, SetNew, GoTo, EndUpdate, IndInv, TypeOK
  <2>2. /\ c \in Registrable
        /\ doing[LoopThread].at \notin {"insert", "added", "add", "rdel"}
    BY <1>5, Callers
    DEF UpdateStep, StoreEvents, ReadIndex, InsertInMap, AddChannel, Branch,
        ModChannel, DelChannel, SetDeleted, EraseFromMap, ReadIndexToRemove,
        DelRemoved, SetNew, At
  <2>3. /\ UNCHANGED <<state, established>>
        /\ \A d \in Channels : d # c => events_'[d] = events_[d] /\ index_'[d] = index_[d]
    BY <1>5, <2>2
    DEF UpdateStep, StoreEvents, ReadIndex, InsertInMap, AddChannel, Branch,
        ModChannel, DelChannel, SetDeleted, EraseFromMap, ReadIndexToRemove,
        DelRemoved, SetNew, At, chanVars, IndInv, TypeOK
  <2>4. \A d \in Conns \ established : d # c /\ d \in Channels
    BY <2>2, NoneIsNone DEF Registrable, Channels
  <2> QED BY <1>1, <2>1, <2>3, <2>4
<1>6. ASSUME UpdateStep(BaseThread)
      PROVE  BaseInv'
  <2> DEFINE c == b.on
  <2>1. /\ b # Idle /\ b.at \in {"store", "index", "insert", "added", "add"}
        /\ c \in Conns \ established /\ c \in Channels /\ ~b.removing
        /\ BaseThread \in Threads /\ b \in Calls
    BY <1>6, Callers
    DEF UpdateStep, StoreEvents, ReadIndex, InsertInMap, AddChannel, Branch,
        ModChannel, DelChannel, SetDeleted, EraseFromMap, ReadIndexToRemove,
        DelRemoved, SetNew, At, Channels, IndInv, TypeOK
  <2>2. CASE StoreEvents(BaseThread)
    BY <2>1, <2>2
    DEF StoreEvents, At, GoTo, IndInv, TypeOK, BaseInv, Calls
  <2>3. CASE ReadIndex(BaseThread)
    BY <2>1, <2>3
    DEF ReadIndex, PathOf, At, GoTo, IndInv, TypeOK, BaseInv, Calls, chanVars,
        kNew, kAdded, kDeleted
  <2>4. CASE InsertInMap(BaseThread)
    BY <2>1, <2>4
    DEF InsertInMap, At, GoTo, IndInv, TypeOK, BaseInv, Calls, chanVars
  <2>5. CASE AddChannel(BaseThread)
    <3>1. CASE b.at = "added"
      <4>1. /\ index_' = [index_ EXCEPT ![c] = kAdded]
            /\ doing' = [doing EXCEPT ![BaseThread].at = "add"]
            /\ UNCHANGED <<state, events_, established>>
        BY <2>5, <3>1 DEF AddChannel, At, GoTo
      <4>2. /\ b' = [b EXCEPT !.at = "add"] /\ index_'[c] = kAdded
        BY <2>1, <4>1 DEF IndInv, TypeOK
      <4>3. /\ b'.at = "add" /\ b'.on = c /\ b'.mask = b.mask
            /\ b'.removing = b.removing
        BY <2>1, <4>2 DEF Calls
      <4> QED BY <2>1, <3>1, <4>1, <4>2, <4>3 DEF IndInv, BaseInv
    <3>2. CASE b.at = "add"
      BY <2>1, <2>5, <3>2
      DEF AddChannel, At, EndUpdate, IndInv, TypeOK, BaseInv
    <3> QED BY <2>5, <3>1, <3>2 DEF AddChannel, At
  <2> QED
    BY <1>6, <2>1, <2>2, <2>3, <2>4, <2>5
    DEF UpdateStep, Branch, ModChannel, DelChannel, SetDeleted, EraseFromMap,
        ReadIndexToRemove, DelRemoved, SetNew, At
<1>7. CASE \/ PollReturn \/ HandleReturn \/ LeaveLoop
           \/ \E c \in Channels : HandleEvent(c)
  BY <1>1, <1>7 DEF PollReturn, HandleReturn, LeaveLoop, HandleEvent, chanVars
<1>8. CASE EndIteration \/ \E c \in Channels : Free(c) \/ CloseDescriptor(c)
  BY <1>1, <1>8 DEF EndIteration, Free, CloseDescriptor, IndInv, TypeOK, Channels
<1>9. CASE UNCHANGED vars
  BY <1>1, <1>9 DEF vars, chanVars
<1> QED
  BY <1>2, <1>3, <1>4, <1>5, <1>6, <1>7, <1>8, <1>9, Callers,
     NoTearDown
  DEF Next, LoopStep

\* The loop thread's view: the calls it is inside of follow the phases of
\* LoopInv, because index_ is kAdded whenever it starts one.
LEMMA CallStep ==
  ASSUME IndInv, ~BaseSends, ~BaseTearsDown, [Next]_vars
  PROVE  LoopInv'
<1> DEFINE l == doing[LoopThread]
<1>0. /\ LoopThread \in Threads /\ l \in Calls
      /\ l # Idle => l.on \in Registrable /\ l.on \in Channels
      /\ pc # "stopped" /\ handling = None => l = Idle
      /\ None \notin Channels
  BY Callers, NoneIsNone
  DEF IndInv, TypeOK, LoopInv, Modifying, Closing, Removing, Registrable, Channels
<1>1. ASSUME l' = l, established \subseteq established',
             l # Idle => /\ state'[l.on] = state[l.on]
                         /\ UNCHANGED <<handling, pc>>
      PROVE  LoopInv'
  BY <1>1 DEF IndInv, LoopInv, Modifying, Closing, Removing
<1>2. ASSUME NEW c \in Channels, NewConnection(BaseThread, c)
      PROVE  LoopInv'
  <2>1. /\ l' = l /\ state[c] = "unborn" /\ UNCHANGED <<established, handling, pc>>
        /\ \A d \in Channels : d # c => state'[d] = state[d]
    BY <1>2, Callers
    DEF NewConnection, Begin, loopVars, IndInv, TypeOK
  <2>2. c \notin Registrable
    BY <2>1 DEF IndInv, NewInv
  <2> QED BY <1>0, <1>1, <2>1, <2>2
<1>3. ASSUME NEW c \in Channels, EnableWriting(LoopThread, c)
      PROVE  LoopInv'
  <2>1. l' = [at |-> "store", on |-> c, mask |-> events_[c] \cup {"write"},
              removing |-> FALSE]
    BY <1>0, <1>3 DEF EnableWriting, Begin, IndInv, TypeOK
  <2>2. /\ c \in established /\ state'[c] = "live" /\ handling' # None
        /\ established' = established /\ "read" \in events_[c]
    BY <1>3
    DEF EnableWriting, CanCall, chanVars, loopVars, IndInv, LiveInv, Registrable
  <2> QED BY <2>1, <2>2 DEF LoopInv, Modifying
<1>4. ASSUME NEW c \in Channels, DisableWriting(LoopThread, c)
      PROVE  LoopInv'
  <2>1. l' = [at |-> "store", on |-> c, mask |-> events_[c] \ {"write"},
              removing |-> FALSE]
    BY <1>0, <1>4 DEF DisableWriting, Begin, IndInv, TypeOK
  <2>2. /\ c \in Conns /\ handling = c /\ l = Idle /\ "write" \in events_[c]
        /\ UNCHANGED <<state, established, handling>>
    BY <1>4, Callers DEF DisableWriting, CanCall, chanVars, loopVars
  <2>3. c \in established /\ state[c] \in {"live", "closed"}
    BY <1>0, <2>2, NoneIsNone DEF IndInv, ActiveInv, Registrable
  <2>4. state[c] = "live" /\ "read" \in events_[c]
    BY <1>0, <2>2, <2>3 DEF IndInv, LeavingInv, LiveInv, Registrable, Idle
  <2> QED BY <1>0, <2>1, <2>2, <2>3, <2>4 DEF LoopInv, Modifying
<1>5. ASSUME NEW c \in Channels, HandleClose(LoopThread, c)
      PROVE  LoopInv'
  <2>1. l' = [at |-> "store", on |-> c, mask |-> {}, removing |-> FALSE]
    BY <1>0, <1>5 DEF HandleClose, Begin, IndInv, TypeOK
  <2>2. /\ c \in Conns /\ handling = c /\ state'[c] = "closed"
        /\ UNCHANGED <<established, handling>>
    BY <1>5 DEF HandleClose, loopVars, IndInv, TypeOK
  <2>3. c \in established
    BY <1>0, <2>2, NoneIsNone DEF IndInv, ActiveInv, Registrable
  <2> QED BY <2>1, <2>2, <2>3 DEF LoopInv, Closing
<1>6. ASSUME NEW c \in Channels, DisableAndRemove(LoopThread, c)
      PROVE  LoopInv'
  <2>1. l' = [at |-> "store", on |-> c, mask |-> {}, removing |-> TRUE]
    <3>1. Begin(LoopThread, c, {}, TRUE)
      BY <1>6, Callers, OnlyWakeupRemoved
    <3> QED BY <1>0, <3>1 DEF Begin, IndInv, TypeOK
  <2>2. c = Wakeup /\ state'[c] = "dropped" /\ pc' = "stopped"
    BY <1>6, Callers DEF DisableAndRemove, loopVars, IndInv, TypeOK
  <2> QED BY <2>1, <2>2 DEF LoopInv, Removing
<1>7. ASSUME UpdateStep(BaseThread)
      PROVE  LoopInv'
  <2>1. /\ l' = l /\ established \subseteq established'
        /\ UNCHANGED <<state, handling, pc>>
    BY <1>7, Callers
    DEF UpdateStep, StoreEvents, ReadIndex, InsertInMap, AddChannel, Branch,
        ModChannel, DelChannel, SetDeleted, EraseFromMap, ReadIndexToRemove,
        DelRemoved, SetNew, GoTo, EndUpdate, IndInv, TypeOK, chanVars, loopVars
  <2> QED BY <1>1, <2>1
<1>8. ASSUME UpdateStep(LoopThread)
      PROVE  LoopInv'
  <2> DEFINE c == l.on
  <2>1. /\ l # Idle /\ c \in Registrable /\ c \in Channels
        /\ UNCHANGED <<state, handling, pc, established>>
    BY <1>0, <1>8, Callers
    DEF UpdateStep, StoreEvents, ReadIndex, InsertInMap, AddChannel, Branch,
        ModChannel, DelChannel, SetDeleted, EraseFromMap, ReadIndexToRemove,
        DelRemoved, SetNew, At, chanVars, loopVars
  <2>2. Modifying(l) \/ Closing(l) \/ Removing(l)
    BY <2>1 DEF IndInv, LoopInv
  <2>3. ASSUME NEW p, doing' = [doing EXCEPT ![LoopThread].at = p],
               \/ /\ Modifying(l)
                  /\ p \in {"index", "branch", "mod"}
               \/ /\ Closing(l)
                  /\ p \in {"index", "branch", "del", "deleted"}
               \/ /\ Removing(l)
                  /\ p \in {"index", "branch", "del", "deleted", "erase", "rindex", "new"}
        PROVE  LoopInv'
    <3>1. l' = [l EXCEPT !.at = p]
      BY <1>0, <2>3 DEF IndInv, TypeOK
    <3>2. /\ l'.at = p /\ l'.on = l.on /\ l'.mask = l.mask
          /\ l'.removing = l.removing
      BY <1>0, <2>1, <3>1 DEF Calls
    <3> QED BY <2>1, <2>3, <3>2 DEF LoopInv, Modifying, Closing, Removing
  <2>4. ASSUME l' = Idle
        PROVE  LoopInv'
    BY <2>4 DEF LoopInv
  <2>5. CASE StoreEvents(LoopThread)
    BY <2>2, <2>3, <2>5 DEF StoreEvents, GoTo
  <2>6. CASE ReadIndex(LoopThread)
    <3>1. index_[c] = kAdded
      BY <2>1, <2>2, <2>6
      DEF ReadIndex, At, IndInv, LiveInv, LeavingInv, Modifying, Closing, Removing
    <3>2. PathOf(kAdded) = "branch"
      BY DEF PathOf, kNew, kAdded, kDeleted
    <3>3. doing' = [doing EXCEPT ![LoopThread].at = "branch"]
      BY <2>6, <3>1, <3>2 DEF ReadIndex, GoTo
    <3> QED BY <2>2, <2>3, <3>3
  <2>7. CASE Branch(LoopThread)
    <3>1. Modifying(l) => events_[c] # {}
      BY <2>1 DEF IndInv, LiveInv, Modifying, Registrable
    <3>2. Closing(l) \/ Removing(l) => events_[c] = {}
      BY <2>1, <2>7 DEF Branch, At, IndInv, LeavingInv, Closing, Removing
    <3> QED BY <2>2, <2>3, <2>7, <3>1, <3>2 DEF Branch, GoTo
  <2>8. CASE ModChannel(LoopThread)
    <3>1. ~l.removing
      BY <2>2, <2>8 DEF ModChannel, At, Modifying, Closing, Removing
    <3> QED BY <1>0, <2>4, <2>8, <3>1 DEF ModChannel, EndUpdate, IndInv, TypeOK
  <2>9. CASE DelChannel(LoopThread)
    <3>1. ~Modifying(l)
      BY <2>9 DEF DelChannel, At, Modifying
    <3> QED BY <2>2, <2>3, <2>9, <3>1 DEF DelChannel, GoTo
  <2>10. CASE SetDeleted(LoopThread)
    <3>0. l.at = "deleted"
      BY <2>10 DEF SetDeleted, At
    <3>1. (Closing(l) /\ ~l.removing) \/ (Removing(l) /\ l.removing)
      <4>1. ~Modifying(l)
        BY <3>0 DEF Modifying
      <4>2. (Closing(l) => ~l.removing) /\ (Removing(l) => l.removing)
        BY DEF Closing, Removing
      <4> QED BY <2>2, <4>1, <4>2
    <3>2. CASE l.removing
      BY <2>3, <2>10, <3>1, <3>2 DEF SetDeleted, EndUpdate, GoTo
    <3>3. CASE ~l.removing
      BY <1>0, <2>4, <2>10, <3>3 DEF SetDeleted, EndUpdate, IndInv, TypeOK
    <3> QED BY <3>2, <3>3
  <2>11. CASE EraseFromMap(LoopThread)
    <3>1. Removing(l)
      BY <2>2, <2>11 DEF EraseFromMap, At, Modifying, Closing
    <3> QED BY <2>3, <2>11, <3>1 DEF EraseFromMap, GoTo
  <2>12. CASE ReadIndexToRemove(LoopThread)
    <3>1. Removing(l)
      BY <2>2, <2>12 DEF ReadIndexToRemove, At, Modifying, Closing
    <3>2. index_[c] = kDeleted
      BY <2>1, <2>12, <3>1
      DEF ReadIndexToRemove, At, IndInv, LeavingInv, Removing
    <3>3. kDeleted # kAdded
      BY DEF kAdded, kDeleted
    <3>4. doing' = [doing EXCEPT ![LoopThread].at = "new"]
      BY <2>12, <3>2, <3>3 DEF ReadIndexToRemove, GoTo
    <3> QED BY <2>3, <3>1, <3>4
  <2>13. CASE SetNew(LoopThread)
    BY <1>0, <2>4, <2>13 DEF SetNew, IndInv, TypeOK
  <2> QED
    BY <1>8, <2>5, <2>6, <2>7, <2>8, <2>9, <2>10, <2>11, <2>12, <2>13, Callers
    DEF UpdateStep, InsertInMap, AddChannel, DelRemoved, At
<1>9. CASE \/ PollReturn \/ LeaveLoop \/ HandleReturn \/ EndIteration
           \/ \E c \in Channels : HandleEvent(c)
  <2>1. l = Idle /\ l' = l
    BY <1>0, <1>9, Callers
    DEF PollReturn, LeaveLoop, HandleReturn, EndIteration, HandleEvent, IndInv,
        ActiveInv
  <2> QED BY <2>1 DEF LoopInv
<1>10. ASSUME NEW c \in Channels, Free(c) \/ CloseDescriptor(c)
       PROVE  LoopInv'
  <2>1. l # Idle => l.on # c
    BY <1>0, <1>10
    DEF Free, CloseDescriptor, Busy, IndInv, LoopInv, Modifying, Closing, Removing
  <2>2. /\ UNCHANGED <<doing, established, handling, pc>>
        /\ \A d \in Channels : d # c => state'[d] = state[d]
    BY <1>10 DEF Free, CloseDescriptor, loopVars, IndInv, TypeOK
  <2> QED BY <1>0, <1>1, <2>1, <2>2
<1>11. CASE UNCHANGED vars
  BY <1>1, <1>11 DEF vars, chanVars, loopVars
<1>12. ASSUME NEW c \in Channels, NEW t \in Threads,
              \/ NewConnection(t, c) /\ t # BaseThread
              \/ EnableWriting(t, c) /\ t # LoopThread
              \/ DisableWriting(t, c) /\ t # LoopThread
              \/ HandleClose(t, c) /\ t # LoopThread
              \/ DisableAndRemove(t, c) /\ t # LoopThread
       PROVE  FALSE
  BY <1>12, Callers
  DEF NewConnection, EnableWriting, DisableWriting, HandleClose,
      DisableAndRemove, Channels
<1> QED
  BY <1>2, <1>3, <1>4, <1>5, <1>6, <1>7, <1>8, <1>9, <1>10, <1>11, <1>12,
     Callers, NoTearDown
  DEF Next, LoopStep

\* A call of the loop thread starts, and so far only a Channel's `state' changes.
LEMMA Starts ==
  ASSUME IndInv, ~BaseSends, ~BaseTearsDown, NEW t \in Threads, NEW c \in Channels,
         \/ EnableWriting(t, c) \/ DisableWriting(t, c) \/ HandleClose(t, c)
         \/ DisableAndRemove(t, c)
  PROVE  /\ t = LoopThread
         /\ UNCHANGED <<fd_, events_, index_, established, interest, open, active,
                        handling, pc, exited>>
         /\ doing'[BaseThread] = doing[BaseThread]
         /\ doing[LoopThread] = Idle
         /\ doing'[LoopThread].on = c /\ doing'[LoopThread].at = "store"
         /\ c \in Registrable
         /\ \A d \in Channels : d # c => state'[d] = state[d]
<1>1. t = LoopThread /\ doing[LoopThread] = Idle
  BY Callers
  DEF EnableWriting, DisableWriting, HandleClose, DisableAndRemove, CanCall, Channels
<1>2. UNCHANGED <<fd_, events_, index_, established, interest, open, active,
                  handling, pc, exited>>
  BY DEF EnableWriting, DisableWriting, HandleClose, DisableAndRemove, chanVars,
         kernVars, loopVars
<1>3. /\ doing'[BaseThread] = doing[BaseThread]
      /\ doing'[LoopThread].on = c /\ doing'[LoopThread].at = "store"
  BY <1>1, Callers, OnlyWakeupRemoved
  DEF EnableWriting, DisableWriting, HandleClose, DisableAndRemove, Begin, IndInv,
      TypeOK
<1>4. c \in Registrable
  BY <1>1, Callers, NoneIsNone
  DEF EnableWriting, DisableWriting, HandleClose, DisableAndRemove, CanCall,
      Registrable, IndInv, ActiveInv
<1>5. \A d \in Channels : d # c => state'[d] = state[d]
  BY DEF EnableWriting, DisableWriting, HandleClose, DisableAndRemove, chanVars,
         IndInv, TypeOK
<1> QED BY <1>1, <1>2, <1>3, <1>4, <1>5

\* The state a Channel is in when one of those calls has started.
LEMMA StartStates ==
  ASSUME IndInv, ~BaseSends, ~BaseTearsDown, NEW c \in Channels
  PROVE  /\ EnableWriting(LoopThread, c) \/ DisableWriting(LoopThread, c)
              => state' = state
         /\ HandleClose(LoopThread, c) => handling = c /\ state[c] = "live"
                                            /\ state'[c] = "closed"
         /\ DisableAndRemove(LoopThread, c) => /\ c = Wakeup /\ pc = "stopped"
                                               /\ state[c] = "live"
                                               /\ state'[c] = "dropped"
<1>1. EnableWriting(LoopThread, c) \/ DisableWriting(LoopThread, c) => state' = state
  BY DEF EnableWriting, DisableWriting, chanVars
<1>2. HandleClose(LoopThread, c) => handling = c /\ state[c] = "live"
                                      /\ state'[c] = "closed"
  BY NoneIsNone DEF HandleClose, IndInv, ActiveInv, TypeOK
<1>3. DisableAndRemove(LoopThread, c) => /\ c = Wakeup /\ pc = "stopped"
                                         /\ state[c] = "live"
                                         /\ state'[c] = "dropped"
  BY TwoThreads DEF DisableAndRemove, IndInv, TypeOK
<1> QED BY <1>1, <1>2, <1>3

\* While the loop thread polls or is between two callbacks, it is in no call.
LEMMA QuietLoop ==
  ASSUME IndInv, handling = None, pc # "stopped"
  PROVE  doing[LoopThread] = Idle
  BY NoneIsNone, TwoThreads
  DEF IndInv, LoopInv, Modifying, Closing, Removing, Channels, TypeOK, Registrable

\* What is reported, or being handled, is registered; callbacks are for live
\* connections.
LEMMA ActiveStep ==
  ASSUME IndInv, ~BaseSends, ~BaseTearsDown, [Next]_vars
  PROVE  ActiveInv'
<1>1. ASSUME NEW t \in Threads, NEW c \in Channels, NewConnection(t, c)
      PROVE  ActiveInv'
  BY <1>1 DEF NewConnection, loopVars, IndInv, ActiveInv, NewInv, TypeOK, Registrable
<1>2. ASSUME NEW t \in Threads, NEW c \in Channels,
             \/ EnableWriting(t, c) \/ DisableWriting(t, c) \/ HandleClose(t, c)
             \/ DisableAndRemove(t, c)
      PROVE  ActiveInv'
  BY <1>2, Starts, StartStates, NoneIsNone DEF IndInv, ActiveInv, Registrable, TypeOK
<1>3. ASSUME NEW t \in Threads, UpdateStep(t)
      PROVE  ActiveInv'
  <2>1. UNCHANGED <<state, active, handling, pc>> /\ established \subseteq established'
    BY <1>3
    DEF UpdateStep, StoreEvents, ReadIndex, InsertInMap, AddChannel, Branch,
        ModChannel, DelChannel, SetDeleted, EraseFromMap, ReadIndexToRemove,
        DelRemoved, SetNew, chanVars, loopVars
  <2> QED BY <2>1 DEF IndInv, ActiveInv, Registrable
<1>4. CASE PollReturn
  <2>1. \A c \in Reportable : c \in Registrable /\ state[c] = "live"
    <3> SUFFICES ASSUME NEW f \in Fds, interest[f].ptr # None
                 PROVE  interest[f].ptr \in Registrable /\ state[interest[f].ptr] = "live"
      BY DEF Reportable
    <3> DEFINE c == interest[f].ptr
    <3>1. c \in Registrable /\ Alive(c) /\ fd_[c] = f /\ c # None
      BY DEF IndInv, KernelInv
    <3>2. IsRegistered(c)
      BY <3>1, NoneIsNone DEF IsRegistered, Entry
    <3>3. doing[LoopThread].on # c
      BY <1>4, <3>1, QuietLoop DEF PollReturn, IndInv, ActiveInv, Idle
    <3> QED BY <3>1, <3>2, <3>3 DEF IndInv, LeavingInv, Alive
  <2> QED BY <1>4, <2>1 DEF PollReturn, chanVars, IndInv, ActiveInv, Registrable
<1>5. ASSUME NEW c \in Channels, HandleEvent(c)
      PROVE  ActiveInv'
  BY <1>5 DEF HandleEvent, chanVars, IndInv, ActiveInv, Registrable
<1>6. CASE HandleReturn \/ LeaveLoop \/ UNCHANGED vars
  BY <1>6 DEF HandleReturn, LeaveLoop, vars, chanVars, loopVars, IndInv, ActiveInv,
              Registrable
<1>7. CASE EndIteration
  BY <1>7 DEF EndIteration, IndInv, ActiveInv, Registrable
<1>8. ASSUME NEW c \in Channels, Free(c) \/ CloseDescriptor(c)
      PROVE  ActiveInv'
  BY <1>8 DEF Free, CloseDescriptor, loopVars, IndInv, ActiveInv, Registrable, TypeOK, Channels
<1> QED BY <1>1, <1>2, <1>3, <1>4, <1>5, <1>6, <1>7, <1>8, NoTearDown DEF Next, LoopStep

\* No two open Channels share a descriptor.
LEMMA FdStep ==
  ASSUME IndInv, ~BaseSends, ~BaseTearsDown, [Next]_vars
  PROVE  FdInv'
<1>1. ASSUME NEW t \in Threads, NEW c \in Channels, NewConnection(t, c)
      PROVE  FdInv'
  BY <1>1 DEF NewConnection, IndInv, FdInv, HoldsFd, Alive, TypeOK
<1>2. ASSUME UNCHANGED <<fd_, open>>, \A c \in Channels : HoldsFd(c)' => HoldsFd(c)
      PROVE  FdInv'
  BY <1>2 DEF IndInv, FdInv
<1>3. ASSUME NEW t \in Threads, NEW c \in Channels,
             \/ EnableWriting(t, c) \/ DisableWriting(t, c) \/ HandleClose(t, c)
             \/ DisableAndRemove(t, c)
      PROVE  FdInv'
  <2>1. /\ UNCHANGED <<fd_, open>>
        /\ \A d \in Channels : state'[d] = state[d] \/ (Alive(d) /\ Alive(d)')
    BY <1>3, Starts, StartStates DEF Alive
  <2> QED BY <1>2, <2>1 DEF HoldsFd, Alive
<1>4. ASSUME NEW t \in Threads, UpdateStep(t)
      PROVE  FdInv'
  BY <1>2, <1>4
  DEF UpdateStep, StoreEvents, ReadIndex, InsertInMap, AddChannel, Branch,
      ModChannel, DelChannel, SetDeleted, EraseFromMap, ReadIndexToRemove,
      DelRemoved, SetNew, chanVars, kernVars, HoldsFd, Alive
<1>5. CASE \/ PollReturn \/ HandleReturn \/ LeaveLoop
           \/ \E c \in Channels : HandleEvent(c)
  BY <1>2, <1>5
  DEF PollReturn, HandleReturn, LeaveLoop, HandleEvent, chanVars, kernVars, HoldsFd, Alive
<1>6. CASE EndIteration
  BY <1>2, <1>6 DEF EndIteration, kernVars, HoldsFd, Alive
<1>7. ASSUME NEW c \in Channels, Free(c) \/ CloseDescriptor(c)
      PROVE  FdInv'
  <2>1. CASE Free(c)
    BY <1>2, <2>1 DEF Free, kernVars, HoldsFd, Alive, IndInv, TypeOK
  <2>2. CASE CloseDescriptor(c)
    BY <2>2 DEF CloseDescriptor, IndInv, FdInv, HoldsFd, Alive, TypeOK
  <2> QED BY <1>7, <2>1, <2>2
<1>8. CASE UNCHANGED vars
  BY <1>2, <1>8 DEF vars, chanVars, kernVars, HoldsFd, Alive
<1> QED BY <1>1, <1>3, <1>4, <1>5, <1>6, <1>7, <1>8, NoTearDown DEF Next, LoopStep

\* Every epoll_ctl the invariant lets a thread get to succeeds.
LEMMA CtlSucceeds == IndInv => EpollCtlSucceeds
<1> SUFFICES ASSUME IndInv PROVE EpollCtlSucceeds
  OBVIOUS
<1>1. ASSUME NEW t \in Threads, doing[t].at = "add"
      PROVE  Entry(doing[t].on).ptr = None
  <2> DEFINE c == doing[t].on
  <2>1. t = BaseThread /\ doing[BaseThread] # Idle
    BY <1>1, Callers DEF Idle
  <2>2. c \in Channels \ Registrable /\ state[c] = "live"
    BY <2>1, NoneIsNone DEF IndInv, BaseInv, Registrable, Channels
  <2>3. fd_[c] \in Fds
    BY <2>2 DEF IndInv, FdInv, HoldsFd, Alive, TypeOK
  <2>4. ASSUME Entry(c).ptr # None
        PROVE  FALSE
    <3> DEFINE d == Entry(c).ptr
    <3>1. d \in Registrable /\ Alive(d) /\ fd_[d] = fd_[c]
      BY <2>3, <2>4 DEF IndInv, KernelInv, Entry
    <3>2. d \in Channels
      BY <3>1 DEF Registrable, IndInv, TypeOK, Channels
    <3>3. d = c
      BY <2>2, <3>1, <3>2 DEF IndInv, FdInv, HoldsFd, Alive
    <3> QED BY <2>2, <3>1, <3>3
  <2> QED BY <2>4
<1>2. ASSUME NEW t \in Threads, doing[t].at \in {"mod", "del", "rdel"}
      PROVE  IsRegistered(doing[t].on)
  <2>1. t = LoopThread /\ doing[LoopThread] # Idle
    BY <1>2, Callers DEF Idle
  <2>2. doing[LoopThread].at \in {"mod", "del"}
    BY <1>2, <2>1, Callers
  <2>3. doing[LoopThread].on \in Registrable
    BY <1>2, <2>1, Callers
  <2> QED BY <2>1, <2>2, <2>3
          DEF IndInv, LoopInv, LiveInv, LeavingInv, Modifying, Closing, Removing
<1> QED BY <1>1, <1>2 DEF EpollCtlSucceeds

\* LOG_FATAL is never reached.
LEMMA ExitStep ==
  ASSUME IndInv, [Next]_vars
  PROVE  ~exited'
<1>1. EpollCtlSucceeds /\ ~exited /\ \A t \in Threads : doing[t] \in Calls
  BY CtlSucceeds DEF IndInv, TypeOK
<1>2. ASSUME NEW t \in Threads, AddChannel(t) \/ ModChannel(t)
      PROVE  ~exited'
  BY <1>1, <1>2, NoneIsNone
  DEF AddChannel, ModChannel, At, CtlAdd, EpollCtlSucceeds, IsRegistered, Calls,
      Idle
<1>3. ASSUME NEW t \in Threads, UpdateStep(t)
      PROVE  ~exited'
  BY <1>1, <1>2, <1>3
  DEF UpdateStep, StoreEvents, ReadIndex, InsertInMap, Branch, DelChannel, SetDeleted,
      EraseFromMap, ReadIndexToRemove, DelRemoved, SetNew
<1>4. ASSUME NEW c \in Channels, Free(c) \/ CloseDescriptor(c)
      PROVE  ~exited'
  BY <1>1, <1>4 DEF Free, CloseDescriptor
<1>5. ASSUME NEW t \in Threads, NEW c \in Channels,
             \/ NewConnection(t, c) \/ EnableWriting(t, c) \/ DisableWriting(t, c)
             \/ HandleClose(t, c) \/ DisableAndRemove(t, c)
             \/ TakeConnection(t, c)
      PROVE  ~exited'
  BY <1>1, <1>5
  DEF NewConnection, EnableWriting, DisableWriting, HandleClose, DisableAndRemove,
      TakeConnection
<1>6. CASE LoopStep \/ HandleReturn \/ LeaveLoop \/ UNCHANGED vars
  BY <1>1, <1>6
  DEF LoopStep, PollReturn, HandleEvent, HandleReturn, EndIteration, LeaveLoop, vars
<1>7. ASSUME NEW t \in Threads, TestState(t)
      PROVE  ~exited'
  BY <1>1, <1>7 DEF TestState
<1> QED BY <1>3, <1>4, <1>5, <1>6, <1>7 DEF Next

\* What one step of an update or removal does to the kernel's list and to the
\* Channels: it changes the entry of the Channel it is about, and nothing of
\* any other Channel.
LEMMA UpdateEffect ==
  ASSUME IndInv, NEW t \in Threads, UpdateStep(t)
  PROVE  /\ doing[t].on \in Channels /\ Alive(doing[t].on) /\ fd_[doing[t].on] \in Fds
         /\ doing[t].at # "idle" /\ doing[t].at # "rdel"
         /\ UNCHANGED <<state, fd_, open, active, handling, pc>>
         /\ \A u \in Threads : u # t => doing'[u] = doing[u]
         /\ \A d \in Channels :
              d # doing[t].on => events_'[d] = events_[d] /\ index_'[d] = index_[d]
         /\ established' = IF doing[t].at = "add" THEN established \cup {doing[t].on}
                                                  ELSE established
         /\ \A f \in Fds : f # fd_[doing[t].on] => interest'[f] = interest[f]
         /\ doing[t].at \in {"add", "mod"} =>
              interest'[fd_[doing[t].on]] = [ptr |-> doing[t].on,
                                            mask |-> events_[doing[t].on]]
         /\ doing[t].at = "del" => interest'[fd_[doing[t].on]] = NoEntry
         /\ doing[t].at \notin {"add", "mod", "del"} => interest' = interest
<1> DEFINE c == doing[t].on
<1>1. doing[t].at # "idle" /\ doing[t].at # "rdel"
  BY Callers
  DEF UpdateStep, StoreEvents, ReadIndex, InsertInMap, AddChannel, Branch,
      ModChannel, DelChannel, SetDeleted, EraseFromMap, ReadIndexToRemove,
      DelRemoved, SetNew, At
<1>2. c \in Channels /\ Alive(c)
  <2>1. CASE t = BaseThread
    BY <1>1, <2>1, Callers DEF IndInv, BaseInv, Idle, Alive, Channels
  <2>2. CASE t = LoopThread
    BY <1>1, <2>2, Callers
    DEF IndInv, TypeOK, LoopInv, Modifying, Closing, Removing, Idle, Alive, Channels
  <2> QED BY <2>1, <2>2 DEF Threads
<1>3. fd_[c] \in Fds
  BY <1>2 DEF IndInv, FdInv, HoldsFd, TypeOK
<1>4. UNCHANGED <<state, fd_, open, active, handling, pc>>
  BY DEF UpdateStep, StoreEvents, ReadIndex, InsertInMap, AddChannel, Branch,
         ModChannel, DelChannel, SetDeleted, EraseFromMap, ReadIndexToRemove,
         DelRemoved, SetNew, chanVars, kernVars, loopVars
<1>5. \A u \in Threads : u # t => doing'[u] = doing[u]
  BY DEF UpdateStep, StoreEvents, ReadIndex, InsertInMap, AddChannel, Branch,
         ModChannel, DelChannel, SetDeleted, EraseFromMap, ReadIndexToRemove,
         DelRemoved, SetNew, GoTo, EndUpdate, IndInv, TypeOK
<1>6. \A d \in Channels : d # c => events_'[d] = events_[d] /\ index_'[d] = index_[d]
  BY DEF UpdateStep, StoreEvents, ReadIndex, InsertInMap, AddChannel, Branch,
         ModChannel, DelChannel, SetDeleted, EraseFromMap, ReadIndexToRemove,
         DelRemoved, SetNew, chanVars, IndInv, TypeOK
<1>7. established' = IF doing[t].at = "add" THEN established \cup {c} ELSE established
  <2>1. doing[t].at = "add" => c \in Conns
    BY Callers DEF Threads
  <2> QED
    BY <2>1
    DEF UpdateStep, StoreEvents, ReadIndex, InsertInMap, AddChannel, Branch,
        ModChannel, DelChannel, SetDeleted, EraseFromMap, ReadIndexToRemove,
        DelRemoved, SetNew, chanVars, At
<1>8. CASE doing[t].at \in {"add", "mod"}
  <2>1. doing[t].at = "add" => Entry(c).ptr = None
    BY CtlSucceeds DEF EpollCtlSucceeds
  <2>2. doing[t].at = "mod" => Entry(c).ptr # None
    BY <1>2, CtlSucceeds, NoneIsNone DEF EpollCtlSucceeds, IsRegistered
  <2>3. interest' = [interest EXCEPT ![fd_[c]] = [ptr |-> c, mask |-> events_[c]]]
    BY <1>8, <2>1, <2>2
    DEF UpdateStep, StoreEvents, ReadIndex, InsertInMap, AddChannel, Branch,
        ModChannel, DelChannel, SetDeleted, EraseFromMap, ReadIndexToRemove,
        DelRemoved, SetNew, At, CtlAdd
  <2> QED BY <1>1, <1>2, <1>3, <1>4, <1>5, <1>6, <1>7, <1>8, <2>3 DEF IndInv, TypeOK
<1>9. CASE doing[t].at = "del"
  <2>1. interest' = [interest EXCEPT ![fd_[c]] = NoEntry]
    BY <1>9
    DEF UpdateStep, StoreEvents, ReadIndex, InsertInMap, AddChannel, Branch,
        ModChannel, DelChannel, SetDeleted, EraseFromMap, ReadIndexToRemove,
        DelRemoved, SetNew, At
  <2> QED BY <1>1, <1>2, <1>3, <1>4, <1>5, <1>6, <1>7, <1>9, <2>1 DEF IndInv, TypeOK
<1>10. CASE doing[t].at \notin {"add", "mod", "del"}
  <2>1. interest' = interest
    BY <1>1, <1>10
    DEF UpdateStep, StoreEvents, ReadIndex, InsertInMap, AddChannel, Branch,
        ModChannel, DelChannel, SetDeleted, EraseFromMap, ReadIndexToRemove,
        DelRemoved, SetNew, At, kernVars
  <2> QED BY <1>1, <1>2, <1>3, <1>4, <1>5, <1>6, <1>7, <1>10, <2>1
<1> QED BY <1>8, <1>9, <1>10

\* The remaining steps leave the Channels' members and the kernel's list alone,
\* but for the entry of a Channel that is freed.
LEMMA OtherSteps ==
  ASSUME IndInv,
         \/ PollReturn \/ HandleReturn \/ LeaveLoop \/ EndIteration
         \/ \E c \in Channels : HandleEvent(c) \/ Free(c) \/ CloseDescriptor(c)
         \/ UNCHANGED vars
  PROVE  /\ UNCHANGED <<fd_, events_, index_, established, doing>>
         /\ \A c \in Channels : IF Alive(c)' THEN Entry(c)' = Entry(c) ELSE TRUE
         /\ \A c \in Channels :
              /\ state[c] = "unborn" <=> state'[c] = "unborn"
              /\ state[c] = "live" <=> state'[c] = "live"
              /\ state'[c] \in {"closed", "dropped"} => state[c] \in {"closed", "dropped"}
<1>1. CASE \/ PollReturn \/ HandleReturn \/ LeaveLoop \/ UNCHANGED vars
           \/ \E c \in Channels : HandleEvent(c)
  BY <1>1 DEF PollReturn, HandleReturn, LeaveLoop, HandleEvent, vars, chanVars,
              kernVars, Entry
<1>2. CASE EndIteration
  BY <1>2 DEF EndIteration, kernVars, Entry, IndInv, TypeOK
<1>3. ASSUME NEW c \in Channels, Free(c) \/ CloseDescriptor(c)
      PROVE  /\ UNCHANGED <<fd_, events_, index_, established, doing>>
             /\ \A d \in Channels : IF Alive(d)' THEN Entry(d)' = Entry(d) ELSE TRUE
             /\ \A d \in Channels :
                  /\ state[d] = "unborn" <=> state'[d] = "unborn"
                  /\ state[d] = "live" <=> state'[d] = "live"
                  /\ state'[d] \in {"closed", "dropped"}
                        => state[d] \in {"closed", "dropped"}
  <2>1. \A d \in Channels : Alive(d)' => d # c /\ Alive(d)
    BY <1>3 DEF Free, CloseDescriptor, Alive, IndInv, TypeOK
  <2>2. \A d \in Channels : Alive(d)' => fd_[d] # fd_[c] /\ fd_[d] \in Fds
    <3>1. HoldsFd(c)
      BY <1>3 DEF Free, CloseDescriptor, HoldsFd, Alive
    <3> QED BY <2>1, <3>1 DEF IndInv, FdInv, HoldsFd, TypeOK
  <2>3. \A d \in Channels : Alive(d)' => Entry(d)' = Entry(d)
    <3>1. CASE Free(c)
      BY <3>1 DEF Free, kernVars, Entry
    <3>2. CASE CloseDescriptor(c)
      BY <2>2, <3>2 DEF CloseDescriptor, Entry, IndInv, TypeOK
    <3> QED BY <1>3, <3>1, <3>2
  <2> QED BY <1>3, <2>3 DEF Free, CloseDescriptor, IndInv, TypeOK
<1> QED BY <1>1, <1>2, <1>3

\* The kernel's list stays clean.
LEMMA KernelStep ==
  ASSUME IndInv, ~BaseSends, ~BaseTearsDown, [Next]_vars
  PROVE  KernelInv'
<1>0. \A f \in Fds : interest[f].ptr # None =>
         /\ interest[f].ptr \in Registrable /\ Alive(interest[f].ptr)
         /\ fd_[interest[f].ptr] = f /\ interest[f].ptr \in Channels
  BY DEF IndInv, KernelInv, TypeOK
<1>1. ASSUME NEW t \in Threads, NEW c \in Channels, NewConnection(t, c)
      PROVE  KernelInv'
  BY <1>0, <1>1
  DEF NewConnection, KernelInv, Alive, Registrable, IndInv, TypeOK
<1>2. ASSUME NEW t \in Threads, NEW c \in Channels,
             \/ EnableWriting(t, c) \/ DisableWriting(t, c) \/ HandleClose(t, c)
             \/ DisableAndRemove(t, c)
      PROVE  KernelInv'
  <2>1. \A d \in Channels : Alive(d) => Alive(d)'
    BY <1>2, Starts, StartStates DEF Alive
  <2> QED BY <1>0, <1>2, <2>1, Starts DEF KernelInv, Registrable
<1>3. ASSUME NEW t \in Threads, UpdateStep(t)
      PROVE  KernelInv'
  <2> DEFINE c == doing[t].on
  <2>1. /\ c \in Channels /\ Alive(c) /\ fd_[c] \in Fds
        /\ UNCHANGED <<state, fd_>> /\ established \subseteq established'
    BY <1>3, UpdateEffect
  <2>2. doing[t].at \in {"add", "mod"} => c \in Registrable'
    BY <1>3, UpdateEffect, Callers DEF Registrable, Threads
  <2>3. \A f \in Fds : \/ interest'[f] = interest[f]
                       \/ interest'[f].ptr = None
                       \/ /\ interest'[f].ptr = c /\ f = fd_[c]
                          /\ doing[t].at \in {"add", "mod"}
    <3>1. \A f \in Fds : f # fd_[c] => interest'[f] = interest[f]
      BY <1>3, UpdateEffect
    <3>2. doing[t].at \in {"add", "mod"} => interest'[fd_[c]].ptr = c
      <4>1. doing[t].at \in {"add", "mod"} =>
               interest'[fd_[c]] = [ptr |-> c, mask |-> events_[c]]
        BY <1>3, UpdateEffect
      <4> QED BY <4>1
    <3>3. doing[t].at = "del" => interest'[fd_[c]].ptr = None
      <4>1. doing[t].at = "del" => interest'[fd_[c]] = NoEntry
        BY <1>3, UpdateEffect
      <4> QED BY <4>1 DEF NoEntry
    <3>4. doing[t].at \notin {"add", "mod", "del"} => interest' = interest
      BY <1>3, UpdateEffect
    <3> QED BY <3>1, <3>2, <3>3, <3>4
  <2> QED BY <1>0, <2>1, <2>2, <2>3 DEF KernelInv, Alive, Registrable
<1>4. CASE \/ PollReturn \/ HandleReturn \/ LeaveLoop \/ UNCHANGED vars
           \/ \E c \in Channels : HandleEvent(c)
  BY <1>0, <1>4
  DEF PollReturn, HandleReturn, LeaveLoop, HandleEvent, vars, chanVars, kernVars,
      KernelInv, Alive, Registrable
<1>5. CASE EndIteration
  BY <1>0, <1>5 DEF EndIteration, kernVars, KernelInv, Alive, Registrable
<1>6. ASSUME NEW c \in Channels, Free(c) \/ CloseDescriptor(c)
      PROVE  KernelInv'
  <2>1. UNCHANGED <<fd_, established>>
    BY <1>6, OtherSteps
  <2>2. ASSUME NEW f \in Fds, interest'[f].ptr # None
        PROVE  interest'[f] = interest[f] /\ interest[f].ptr # c
    <3>1. CASE Free(c)
      <4>1. doing[LoopThread].on # c /\ c \in Registrable /\ state[c] = "dropped"
        BY <3>1 DEF Free, Busy, IndInv, NewInv, Registrable, Channels, Threads
      <4>2. ~IsRegistered(c)
        BY <4>1 DEF IndInv, LeavingInv
      <4> QED BY <1>0, <2>2, <3>1, <4>2, NoneIsNone
              DEF Free, kernVars, IsRegistered, Entry
    <3>2. CASE CloseDescriptor(c)
      BY <1>0, <2>2, <3>2 DEF CloseDescriptor, NoEntry, Alive, IndInv, TypeOK
    <3> QED BY <1>6, <3>1, <3>2
  <2>3. \A d \in Channels : d # c /\ Alive(d) => Alive(d)'
    BY <1>6 DEF Free, CloseDescriptor, Alive, IndInv, TypeOK
  <2> QED BY <1>0, <2>1, <2>2, <2>3 DEF KernelInv, Registrable, Alive
<1> QED BY <1>1, <1>2, <1>3, <1>4, <1>5, <1>6, NoTearDown DEF Next, LoopStep

\* A connection has no members set before its enableReading(), and is with the
\* base thread until this has reached the kernel.
LEMMA NewStep ==
  ASSUME IndInv, ~BaseSends, ~BaseTearsDown, [Next]_vars
  PROVE  NewInv'
<1> DEFINE b == doing[BaseThread]
<1>0. /\ \A c \in Conns \ established : c \in Channels /\ c \notin Registrable
      /\ \A c \in Registrable : c \in Channels
      /\ None \notin Conns
  BY NoneIsNone DEF Channels, Registrable, IndInv, TypeOK
<1>1. ASSUME NEW t \in Threads, NEW c \in Channels, NewConnection(t, c)
      PROVE  NewInv'
  <2>1. b = Idle /\ b'.on = c /\ c \in Conns
    BY <1>1, Callers
    DEF NewConnection, CanCall, Begin, IndInv, TypeOK
  <2>2. /\ UNCHANGED <<events_, index_, established>>
        /\ state'[c] = "live" /\ \A d \in Channels : d # c => state'[d] = state[d]
    BY <1>1 DEF NewConnection, IndInv, TypeOK
  <2> QED BY <1>0, <2>1, <2>2 DEF NewInv, IndInv, Idle, Registrable
<1>2. ASSUME NEW t \in Threads, NEW c \in Channels,
             \/ EnableWriting(t, c) \/ DisableWriting(t, c) \/ HandleClose(t, c)
             \/ DisableAndRemove(t, c)
      PROVE  NewInv'
  <2>1. state'[c] # "unborn"
    BY <1>0, <1>2, Starts, StartStates DEF IndInv, NewInv
  <2> QED BY <1>0, <1>2, <2>1, Starts DEF NewInv, IndInv, Registrable
<1>3. ASSUME UpdateStep(LoopThread)
      PROVE  NewInv'
  <2>1. /\ doing[LoopThread].on \in Registrable /\ doing[LoopThread].at # "add"
        /\ LoopThread \in Threads /\ BaseThread \in Threads
    BY <1>3, UpdateEffect, Callers
  <2>2. b' = b /\ UNCHANGED <<established, state>>
    BY <1>3, <2>1, UpdateEffect, Callers
  <2>3. \A d \in Channels : d # doing[LoopThread].on =>
           events_'[d] = events_[d] /\ index_'[d] = index_[d]
    BY <1>3, <2>1, UpdateEffect
  <2> QED BY <1>0, <2>1, <2>2, <2>3 DEF NewInv, IndInv, Registrable
<1>4. ASSUME UpdateStep(BaseThread)
      PROVE  NewInv'
  <2>1. /\ b.on \in Conns \ established /\ BaseThread \in Threads /\ ~b.removing
        /\ b.at \in {"store", "index", "insert", "added", "add"}
        /\ state[b.on] = "live"
    BY <1>4, UpdateEffect, Callers DEF IndInv, BaseInv, Idle
  <2>2. b.at # "add" => b'.on = b.on
    <3> SUFFICES ASSUME b.at # "add" PROVE b'.on = b.on
      OBVIOUS
    <3>1. \E p \in Points : doing' = [doing EXCEPT ![BaseThread].at = p]
      BY <1>4, <2>1, TypeSets
      DEF UpdateStep, StoreEvents, ReadIndex, PathOf, InsertInMap, AddChannel,
          Branch, ModChannel, DelChannel, SetDeleted, EraseFromMap,
          ReadIndexToRemove, DelRemoved, SetNew, At, GoTo
    <3>2. PICK p \in Points : b' = [b EXCEPT !.at = p]
      BY <2>1, <3>1 DEF IndInv, TypeOK
    <3>3. b \in [at : Points, on : Channels, mask : Masks, removing : BOOLEAN]
      BY <2>1, NoneIsNone DEF IndInv, TypeOK, Calls, Idle
    <3> QED BY <3>2, <3>3
  <2>3. /\ \A d \in Channels : d # b.on =>
              events_'[d] = events_[d] /\ index_'[d] = index_[d]
        /\ established' = IF b.at = "add" THEN established \cup {b.on} ELSE established
        /\ UNCHANGED state
    BY <1>4, <2>1, UpdateEffect
  <2> QED BY <1>0, <2>1, <2>2, <2>3 DEF NewInv, IndInv, Registrable
<1>5. ASSUME \/ PollReturn \/ HandleReturn \/ LeaveLoop \/ EndIteration
             \/ \E c \in Channels : HandleEvent(c) \/ Free(c) \/ CloseDescriptor(c)
             \/ UNCHANGED vars
      PROVE  NewInv'
  BY <1>0, <1>5, OtherSteps DEF NewInv, IndInv, Registrable
<1> QED BY <1>1, <1>2, <1>3, <1>4, <1>5, Callers, NoTearDown DEF Next, LoopStep
\* A step of one update or removal leaves every other open Channel, and its
\* entry in the kernel's list, as they are.
LEMMA OthersUntouched ==
  ASSUME IndInv, NEW t \in Threads, UpdateStep(t),
         NEW d \in Channels, Alive(d), d # doing[t].on
  PROVE  /\ Entry(d)' = Entry(d) /\ (IsRegistered(d)' <=> IsRegistered(d))
         /\ events_'[d] = events_[d] /\ index_'[d] = index_[d]
         /\ state'[d] = state[d]
<1> DEFINE c == doing[t].on
<1>1. c \in Channels /\ Alive(c) /\ fd_' = fd_ /\ state' = state
  BY UpdateEffect
<1>2. fd_[d] \in Fds /\ fd_[d] # fd_[c]
  BY <1>1 DEF IndInv, FdInv, HoldsFd, TypeOK
<1>3. interest'[fd_[d]] = interest[fd_[d]]
  BY <1>2, UpdateEffect
<1>4. events_'[d] = events_[d] /\ index_'[d] = index_[d]
  BY UpdateEffect
<1> QED BY <1>1, <1>3, <1>4 DEF Entry, IsRegistered

\* What a step of an update or removal does to the Channel it is about.
LEMMA OwnEffect ==
  ASSUME IndInv, NEW t \in Threads, UpdateStep(t)
  PROVE  /\ events_'[doing[t].on] = IF doing[t].at = "store" THEN doing[t].mask
                                    ELSE events_[doing[t].on]
         /\ index_'[doing[t].on] =
              IF doing[t].at = "added" THEN kAdded
              ELSE IF doing[t].at = "deleted" THEN kDeleted
              ELSE IF doing[t].at = "new" THEN kNew ELSE index_[doing[t].on]
<1> DEFINE c == doing[t].on
<1>1. c \in Channels
  BY UpdateEffect
<1>2. events_'[c] = IF doing[t].at = "store" THEN doing[t].mask ELSE events_[c]
  BY <1>1
  DEF UpdateStep, StoreEvents, ReadIndex, InsertInMap, AddChannel, Branch,
        ModChannel, DelChannel, SetDeleted, EraseFromMap, ReadIndexToRemove,
        DelRemoved, SetNew, At, chanVars, IndInv, TypeOK
<1>3. index_'[c] =
         IF doing[t].at = "added" THEN kAdded
         ELSE IF doing[t].at = "deleted" THEN kDeleted
         ELSE IF doing[t].at = "new" THEN kNew ELSE index_[c]
  BY <1>1
  DEF UpdateStep, StoreEvents, ReadIndex, InsertInMap, AddChannel, Branch,
        ModChannel, DelChannel, SetDeleted, EraseFromMap, ReadIndexToRemove,
        DelRemoved, SetNew, At, chanVars, IndInv, TypeOK
<1> QED BY <1>2, <1>3

\* Where the loop thread's call goes on.
LEMMA NextPoint ==
  ASSUME IndInv, UpdateStep(LoopThread), NEW at, at = doing[LoopThread].at
  PROVE  \/ /\ doing'[LoopThread].on = doing[LoopThread].on
            /\ \/ at = "store" /\ doing'[LoopThread].at = "index"
               \/ /\ at = "index"
                  /\ doing'[LoopThread].at = PathOf(index_[doing[LoopThread].on])
               \/ /\ at = "branch"
                  /\ doing'[LoopThread].at =
                       IF events_[doing[LoopThread].on] = {} THEN "del" ELSE "mod"
               \/ at = "del" /\ doing'[LoopThread].at = "deleted"
               \/ at = "deleted" /\ doing'[LoopThread].at = "erase"
               \/ at = "erase" /\ doing'[LoopThread].at = "rindex"
               \/ /\ at = "rindex"
                  /\ doing'[LoopThread].at =
                       IF index_[doing[LoopThread].on] = kAdded THEN "rdel" ELSE "new"
         \/ /\ doing'[LoopThread] = Idle
            /\ \/ at \in {"mod", "new"}
               \/ at = "deleted" /\ ~doing[LoopThread].removing
<1> DEFINE l == doing[LoopThread]
<1>1. /\ LoopThread \in Threads /\ l \in Calls \ {Idle}
      /\ l.at \notin {"insert", "added", "add", "rdel"}
  BY UpdateEffect, Callers DEF IndInv, TypeOK
<1>2. ASSUME NEW p, doing' = [doing EXCEPT ![LoopThread].at = p]
      PROVE  l'.at = p /\ l'.on = l.on
  <2>1. l' = [l EXCEPT !.at = p]
    BY <1>1, <1>2 DEF IndInv, TypeOK
  <2> QED BY <1>1, <2>1 DEF Calls
<1>3. ASSUME doing' = [doing EXCEPT ![LoopThread] = Idle]
      PROVE  l' = Idle
  BY <1>1, <1>3 DEF IndInv, TypeOK
<1>4. \/ /\ at = "store" /\ GoTo(LoopThread, "index")
      \/ /\ at = "index" /\ GoTo(LoopThread, PathOf(index_[l.on]))
      \/ /\ at = "branch"
         /\ GoTo(LoopThread, IF events_[l.on] = {} THEN "del" ELSE "mod")
      \/ /\ at = "del" /\ GoTo(LoopThread, "deleted")
      \/ /\ at \in {"mod", "deleted"} /\ EndUpdate(LoopThread)
      \/ /\ at = "erase" /\ GoTo(LoopThread, "rindex")
      \/ /\ at = "rindex"
         /\ GoTo(LoopThread, IF index_[l.on] = kAdded THEN "rdel" ELSE "new")
      \/ /\ at = "new" /\ doing' = [doing EXCEPT ![LoopThread] = Idle]
  BY <1>1
  DEF UpdateStep, StoreEvents, ReadIndex, InsertInMap, AddChannel, Branch,
      ModChannel, DelChannel, SetDeleted, EraseFromMap, ReadIndexToRemove,
      DelRemoved, SetNew, At
<1>5. at = "mod" => ~l.removing
  BY <1>1 DEF IndInv, LoopInv, Modifying, Closing, Removing
<1> QED BY <1>2, <1>3, <1>4, <1>5 DEF GoTo, EndUpdate
\* Live connections stay registered, for reading, with the mask they asked for.
LEMMA LiveStep ==
  ASSUME IndInv, ~BaseSends, ~BaseTearsDown, [Next]_vars
  PROVE  LiveInv'
<1> DEFINE l == doing[LoopThread]
<1>0. \A c \in Registrable : /\ c \in Channels /\ c # None
                             /\ state[c] = "live" => Alive(c) /\ fd_[c] \in Fds
  BY NoneIsNone DEF IndInv, TypeOK, FdInv, HoldsFd, Registrable, Channels, Alive
<1>1. ASSUME NEW t \in Threads, NEW c \in Channels, NewConnection(t, c)
      PROVE  LiveInv'
  <2>1. /\ UNCHANGED <<events_, index_, established, interest>> /\ l' = l
        /\ \A d \in Channels : d # c => state'[d] = state[d] /\ fd_'[d] = fd_[d]
    BY <1>1, Callers DEF NewConnection, Begin, IndInv, TypeOK
  <2>2. c \notin Registrable
    BY <1>1 DEF NewConnection, IndInv, NewInv
  <2> QED BY <1>0, <2>1, <2>2 DEF IndInv, LiveInv, IsRegistered, Entry, Registrable
<1>2. ASSUME NEW t \in Threads, NEW c \in Channels,
             \/ EnableWriting(t, c) \/ DisableWriting(t, c) \/ HandleClose(t, c)
             \/ DisableAndRemove(t, c)
      PROVE  LiveInv'
  <2>1. \A d \in Channels : state'[d] = "live" => state[d] = "live"
    BY <1>2, Starts, StartStates
  <2>2. UNCHANGED <<fd_, interest, events_, index_, established>> /\ l'.on = c
    BY <1>2, Starts
  <2>3. l.on = None
    BY <1>2, Starts DEF Idle
  <2> QED BY <1>0, <2>1, <2>2, <2>3
          DEF IndInv, LiveInv, IsRegistered, Entry, Registrable
<1>3. ASSUME UpdateStep(BaseThread)
      PROVE  LiveInv'
  <2> DEFINE b == doing[BaseThread]
  <2>1. /\ b.on \in Channels \ Registrable /\ BaseThread \in Threads /\ l' = l
        /\ b.on \in Conns /\ b.on # None /\ fd_[b.on] \in Fds
        /\ UNCHANGED <<state, fd_>>
        /\ established' = IF b.at = "add" THEN established \cup {b.on} ELSE established
    BY <1>3, UpdateEffect, Callers, NoneIsNone DEF Registrable, Threads, Channels
  <2>2. ASSUME NEW c \in Registrable, state[c] = "live"
        PROVE  /\ IsRegistered(c)' /\ index_'[c] = kAdded /\ "read" \in events_'[c]
               /\ l'.on # c => (Entry(c).mask)' = events_'[c]
    <3>1. c # b.on /\ c \in Channels /\ Alive(c)
      BY <1>0, <2>1, <2>2
    <3>2. /\ Entry(c)' = Entry(c) /\ (IsRegistered(c)' <=> IsRegistered(c))
          /\ events_'[c] = events_[c] /\ index_'[c] = index_[c]
      BY <1>3, <2>1, <3>1, OthersUntouched
    <3> QED BY <2>1, <2>2, <3>2 DEF IndInv, LiveInv
  <2>3. ASSUME b.at = "add", NEW c, c = b.on
        PROVE  /\ IsRegistered(c)' /\ index_'[c] = kAdded /\ "read" \in events_'[c]
               /\ (Entry(c).mask)' = events_'[c]
    <3>1. events_[c] = {"read"} /\ index_[c] = kAdded
      BY <1>3, <2>1, <2>3, UpdateEffect, Callers DEF IndInv, BaseInv
    <3>2. events_'[c] = events_[c] /\ index_'[c] = index_[c]
      BY <1>3, <2>1, <2>3, OwnEffect
    <3>3. interest'[fd_[c]] = [ptr |-> c, mask |-> events_[c]]
      BY <1>3, <2>1, <2>3, UpdateEffect
    <3> QED BY <2>1, <2>3, <3>1, <3>2, <3>3, NoneIsNone DEF IsRegistered, Entry
  <2> QED BY <2>1, <2>2, <2>3 DEF LiveInv, Registrable
<1>4. ASSUME UpdateStep(LoopThread)
      PROVE  LiveInv'
  <2>1. /\ l.on \in Registrable /\ LoopThread \in Threads /\ l.at # "add"
        /\ UNCHANGED <<state, fd_, established>> /\ l # Idle
    BY <1>4, UpdateEffect, Callers
  <2>2. l'.on \in {l.on, None}
    BY <1>4, NextPoint DEF Idle
  <2>3. ASSUME NEW c \in Registrable, state[c] = "live"
        PROVE  /\ IsRegistered(c)' /\ index_'[c] = kAdded /\ "read" \in events_'[c]
               /\ l'.on # c => (Entry(c).mask)' = events_'[c]
    <3>0. /\ IsRegistered(c) /\ index_[c] = kAdded /\ "read" \in events_[c]
          /\ l.on # c => Entry(c).mask = events_[c]
          /\ c \in Channels /\ Alive(c) /\ c # None
      BY <1>0, <2>3 DEF IndInv, LiveInv
    <3>1. CASE c # l.on
      <4>1. /\ Entry(c)' = Entry(c) /\ (IsRegistered(c)' <=> IsRegistered(c))
            /\ events_'[c] = events_[c] /\ index_'[c] = index_[c]
        BY <1>4, <2>1, <3>0, <3>1, OthersUntouched
      <4> QED BY <3>0, <3>1, <4>1
    <3>2. CASE c = l.on
      <4>1. Modifying(l)
        BY <2>1, <2>3, <3>2 DEF IndInv, LoopInv, Closing, Removing
      <4>2. index_'[c] = kAdded
        BY <1>4, <2>1, <3>0, <3>2, <4>1, OwnEffect DEF Modifying
      <4>3. events_'[c] = IF l.at = "store" THEN l.mask ELSE events_[c]
        BY <1>4, <2>1, <3>2, OwnEffect
      <4>4. "read" \in events_'[c]
        BY <3>0, <4>1, <4>3 DEF Modifying
      <4>5. CASE l.at = "mod"
        <5>1. interest'[fd_[c]] = [ptr |-> c, mask |-> events_[c]]
          BY <1>4, <2>1, <3>2, <4>5, UpdateEffect
        <5> QED BY <2>1, <3>0, <4>2, <4>3, <4>4, <4>5, <5>1 DEF IsRegistered, Entry
      <4>6. CASE l.at # "mod"
        <5>1. interest' = interest
          BY <1>4, <2>1, <3>2, <4>1, <4>6, UpdateEffect DEF Modifying
        <5>2. l'.on = c
          BY <1>4, <3>2, <4>1, <4>6, NextPoint DEF Modifying
        <5> QED BY <2>1, <3>0, <4>2, <4>4, <5>1, <5>2 DEF IsRegistered, Entry
      <4> QED BY <4>5, <4>6
    <3> QED BY <3>1, <3>2
  <2> QED BY <2>1, <2>3 DEF LiveInv, Registrable
<1>5. ASSUME \/ PollReturn \/ HandleReturn \/ LeaveLoop \/ EndIteration
             \/ \E c \in Channels : HandleEvent(c) \/ Free(c) \/ CloseDescriptor(c)
             \/ UNCHANGED vars
      PROVE  LiveInv'
  BY <1>0, <1>5, OtherSteps DEF IndInv, LiveInv, IsRegistered, Alive, Registrable
<1> QED BY <1>1, <1>2, <1>3, <1>4, <1>5, Callers, NoTearDown DEF Next, LoopStep
\* Closed connections, and the wake-up channel of a loop that is gone, leave the
\* kernel's list with the DEL of their disableAll().
LEMMA LeavingStep ==
  ASSUME IndInv, ~BaseSends, ~BaseTearsDown, [Next]_vars
  PROVE  LeavingInv'
<1> DEFINE l == doing[LoopThread]
<1> DEFINE Leaves(c) ==
      /\ l.on # c => ~IsRegistered(c) /\ index_[c] # kAdded /\ events_[c] = {}
      /\ l.on = c =>
           /\ l.at # "store" => events_[c] = {}
           /\ IsRegistered(c) <=> l.at \in {"store", "index", "branch", "del"}
           /\ index_[c] = IF l.at \in {"erase", "rindex", "new"} THEN kDeleted
                                                                  ELSE kAdded
<1>0. \A c \in Registrable : /\ c \in Channels /\ c # None
                             /\ state[c] \in {"closed", "dropped"} =>
                                  Alive(c) /\ fd_[c] \in Fds /\ Leaves(c)
  BY NoneIsNone
  DEF IndInv, TypeOK, FdInv, HoldsFd, LeavingInv, Registrable, Channels, Alive
<1>1. ASSUME NEW t \in Threads, NEW c \in Channels, NewConnection(t, c)
      PROVE  LeavingInv'
  <2>1. /\ UNCHANGED <<events_, index_, established, interest>> /\ l' = l
        /\ \A d \in Channels : d # c => state'[d] = state[d] /\ fd_'[d] = fd_[d]
    BY <1>1, Callers DEF NewConnection, Begin, IndInv, TypeOK
  <2>2. c \notin Registrable
    BY <1>1 DEF NewConnection, IndInv, NewInv
  <2> QED BY <1>0, <2>1, <2>2 DEF LeavingInv, IsRegistered, Entry, Registrable
<1>2. ASSUME NEW t \in Threads, NEW c \in Channels,
             \/ EnableWriting(t, c) \/ DisableWriting(t, c) \/ HandleClose(t, c)
             \/ DisableAndRemove(t, c)
      PROVE  LeavingInv'
  <2>1. /\ UNCHANGED <<fd_, interest, events_, index_, established>>
        /\ l'.on = c /\ l'.at = "store" /\ c \in Registrable /\ t = LoopThread
        /\ \A d \in Channels : d # c => state'[d] = state[d]
    BY <1>2, Starts
  <2>2. l.on = None
    BY <1>2, Starts DEF Idle
  <2>3. state[c] = "live"
    <3>1. CASE EnableWriting(t, c) \/ HandleClose(t, c) \/ DisableAndRemove(t, c)
      BY <2>1, <3>1, StartStates DEF EnableWriting
    <3>2. CASE DisableWriting(t, c)
      <4>1. events_[c] # {} /\ handling = c
        BY <3>2 DEF DisableWriting
      <4> QED BY <1>0, <2>1, <2>2, <4>1 DEF IndInv, ActiveInv
    <3> QED BY <1>2, <3>1, <3>2
  <2>4. IsRegistered(c) /\ index_[c] = kAdded
    BY <2>1, <2>3 DEF IndInv, LiveInv
  <2> QED BY <1>0, <2>1, <2>2, <2>3, <2>4
          DEF LeavingInv, IsRegistered, Entry, Registrable
<1>3. ASSUME UpdateStep(BaseThread)
      PROVE  LeavingInv'
  <2> DEFINE b == doing[BaseThread]
  <2>1. /\ b.on \in Channels \ Registrable /\ BaseThread \in Threads /\ l' = l
        /\ state[b.on] = "live" /\ UNCHANGED <<state, fd_>>
        /\ established' \subseteq established \cup {b.on}
    BY <1>3, UpdateEffect, Callers, NoneIsNone
    DEF Registrable, Threads, Channels, IndInv, BaseInv
  <2>2. ASSUME NEW c \in Registrable, state[c] \in {"closed", "dropped"}
        PROVE  Leaves(c)'
    <3>1. c # b.on /\ c \in Channels /\ Alive(c) /\ Leaves(c)
      BY <1>0, <2>1, <2>2
    <3>2. /\ IsRegistered(c)' <=> IsRegistered(c)
          /\ events_'[c] = events_[c] /\ index_'[c] = index_[c]
      BY <1>3, <2>1, <3>1, OthersUntouched
    <3> QED BY <2>1, <3>1, <3>2
  <2> QED BY <2>1, <2>2 DEF LeavingInv, Registrable
<1>4. ASSUME UpdateStep(LoopThread)
      PROVE  LeavingInv'
  <2>1. /\ l.on \in Registrable /\ LoopThread \in Threads /\ l.at # "add"
        /\ UNCHANGED <<state, fd_, established>> /\ l # Idle
    BY <1>4, UpdateEffect, Callers
  <2>2. l'.on \in {l.on, None}
    BY <1>4, NextPoint DEF Idle
  <2>3. ASSUME NEW c \in Registrable, state[c] \in {"closed", "dropped"}
        PROVE  Leaves(c)'
    <3>0. Leaves(c) /\ c \in Channels /\ Alive(c) /\ c # None /\ fd_[c] \in Fds
      BY <1>0, <2>3
    <3>1. CASE c # l.on
      <4>1. /\ IsRegistered(c)' <=> IsRegistered(c)
            /\ events_'[c] = events_[c] /\ index_'[c] = index_[c]
        BY <1>4, <2>1, <3>0, <3>1, OthersUntouched
      <4> QED BY <2>2, <3>0, <3>1, <4>1
    <3>2. CASE c = l.on
      <4>1. Closing(l) \/ Removing(l)
        BY <2>1, <2>3, <3>2 DEF IndInv, LoopInv, Modifying
      <4>2. l.mask = {} /\ l.at \in {"store", "index", "branch", "del", "deleted",
                                     "erase", "rindex", "new"}
        BY <4>1 DEF Closing, Removing
      <4>3. /\ events_'[c] = {}
            /\ index_'[c] = IF l.at = "deleted" THEN kDeleted
                            ELSE IF l.at = "new" THEN kNew ELSE index_[c]
        BY <1>4, <2>1, <3>0, <3>2, <4>2, OwnEffect
      <4>4. IsRegistered(c)' <=> l.at \in {"store", "index", "branch"}
        <5>1. CASE l.at = "del"
          <6>1. interest'[fd_[c]] = NoEntry
            BY <1>4, <2>1, <3>2, <5>1, UpdateEffect
          <6> QED BY <2>1, <3>0, <5>1, <6>1 DEF IsRegistered, Entry, NoEntry
        <5>2. CASE l.at # "del"
          <6>1. interest' = interest
            BY <1>4, <2>1, <3>2, <4>2, <5>2, UpdateEffect
          <6> QED BY <2>1, <3>0, <3>2, <5>2, <6>1 DEF IsRegistered, Entry
        <5> QED BY <5>1, <5>2
      <4>5. kAdded # kNew /\ kAdded # kDeleted /\ PathOf(kAdded) = "branch"
        BY DEF kNew, kAdded, kDeleted, PathOf
      <4>6. /\ l.at \in {"store", "index", "branch", "del", "deleted"}
                  => index_[c] = kAdded
            /\ l.at \in {"erase", "rindex", "new"} => index_[c] = kDeleted
            /\ l.at # "store" => events_[c] = {}
        BY <3>0, <3>2
      <4>7. \/ l'.on = c /\ \/ l.at = "store" /\ l'.at = "index"
                            \/ l.at = "index" /\ l'.at = "branch"
                            \/ l.at = "branch" /\ l'.at = "del"
                            \/ l.at = "del" /\ l'.at = "deleted"
                            \/ l.at = "deleted" /\ l'.at = "erase"
                            \/ l.at = "erase" /\ l'.at = "rindex"
                            \/ l.at = "rindex" /\ l'.at = "new"
            \/ l'.on # c /\ l.at \in {"deleted", "new"}
        BY <1>4, <3>0, <3>2, <4>2, <4>5, <4>6, NextPoint DEF Idle
      <4> QED BY <4>3, <4>4, <4>5, <4>6, <4>7
    <3> QED BY <3>1, <3>2
  <2> QED BY <2>1, <2>3 DEF LeavingInv, Registrable
<1>5. ASSUME \/ PollReturn \/ HandleReturn \/ LeaveLoop \/ EndIteration
             \/ \E c \in Channels : HandleEvent(c) \/ Free(c) \/ CloseDescriptor(c)
             \/ UNCHANGED vars
      PROVE  LeavingInv'
  BY <1>0, <1>5, OtherSteps DEF LeavingInv, IsRegistered, Alive, Registrable
<1> QED BY <1>1, <1>2, <1>3, <1>4, <1>5, Callers, NoTearDown DEF Next, LoopStep
-----------------------------------------------------------------------------
(* The theorems *)

\* The constructor's state is well typed.
LEMMA TypeInit == Init => TypeOK
<1> SUFFICES ASSUME Init PROVE TypeOK
  OBVIOUS
<1>1. PICK f \in Fds :
        /\ fd_ = [c \in Channels |-> IF c = Wakeup THEN f ELSE None]
        /\ channels_ = [g \in Fds |-> IF g = f THEN Wakeup ELSE None]
        /\ interest = [g \in Fds |-> IF g = f THEN [ptr |-> Wakeup, mask |-> {"read"}]
                                             ELSE NoEntry]
        /\ open = {f}
  BY DEF Init
<1>2. /\ [ptr |-> Wakeup, mask |-> {"read"}] \in [ptr : Channels \cup {None}, mask : Masks]
      /\ Wakeup \in Channels
  BY TypeSets DEF Channels
<1>3. interest \in [Fds -> [ptr : Channels \cup {None}, mask : Masks]]
  BY <1>1, <1>2, TypeSets
<1>4. fd_ \in [Channels -> Fds \cup {None}] /\ channels_ \in [Fds -> Channels \cup {None}]
  BY <1>1, <1>2
<1>5. events_ \in [Channels -> Masks] /\ state \in [Channels -> States]
  BY TypeSets DEF Init
<1>6. index_ \in [Channels -> {kNew, kAdded, kDeleted}] /\ doing \in [Threads -> Calls]
  BY TypeSets DEF Init
<1> QED BY <1>1, <1>3, <1>4, <1>5, <1>6, ListIsNat DEF Init, TypeOK

\* The constructor's state satisfies the invariant.
LEMMA IndInvInit == Init => IndInv
<1> SUFFICES ASSUME Init PROVE IndInv
  OBVIOUS
<1>1. PICK f \in Fds :
        /\ fd_ = [c \in Channels |-> IF c = Wakeup THEN f ELSE None]
        /\ interest = [g \in Fds |-> IF g = f THEN [ptr |-> Wakeup, mask |-> {"read"}]
                                             ELSE NoEntry]
        /\ open = {f}
  BY DEF Init
<1>2. /\ Wakeup \in Channels /\ Registrable = {Wakeup} /\ Wakeup # None
      /\ fd_[Wakeup] = f /\ f # None /\ Entry(Wakeup) = [ptr |-> Wakeup, mask |-> {"read"}]
      /\ \A g \in Fds : interest[g].ptr # None => interest[g].ptr = Wakeup /\ g = f
      /\ \A t \in Threads : doing[t] = Idle
      /\ LoopThread \in Threads /\ BaseThread \in Threads
      /\ state[Wakeup] = "live"
      /\ \A c \in Channels : HoldsFd(c) => c = Wakeup
  BY <1>1, NoneIsNone
  DEF Init, Registrable, Channels, Threads, Entry, NoEntry, HoldsFd, Alive
<1>3. FdInv /\ KernelInv
  BY <1>1, <1>2 DEF FdInv, KernelInv, Alive
<1>4. BaseInv /\ LoopInv
  BY <1>2 DEF BaseInv, LoopInv
<1>5. NewInv
  BY <1>2, NoneIsNone DEF Init, NewInv, Channels
<1>6. LiveInv /\ LeavingInv
  BY <1>2 DEF Init, LiveInv, LeavingInv, IsRegistered
<1>7. ActiveInv
  BY DEF Init, ActiveInv
<1> QED BY <1>3, <1>4, <1>5, <1>6, <1>7, TypeInit DEF Init, IndInv

\* Every step preserves the invariant.
LEMMA IndInvStep ==
  ASSUME ~BaseSends, ~BaseTearsDown
  PROVE  IndInv /\ [Next]_vars => IndInv'
<1> SUFFICES ASSUME IndInv, [Next]_vars PROVE IndInv'
  OBVIOUS
<1>1. TypeOK' /\ ~exited'
  BY TypeStep, ExitStep DEF IndInv
<1>2. FdInv' /\ KernelInv'
  BY FdStep, KernelStep
<1>3. BaseInv' /\ LoopInv' /\ NewInv'
  BY BaseStep, CallStep, NewStep
<1>4. LiveInv' /\ LeavingInv' /\ ActiveInv'
  BY LiveStep, LeavingStep, ActiveStep
<1> QED BY <1>1, <1>2, <1>3, <1>4 DEF IndInv

\* Every variable keeps its type, whatever the base thread does.
THEOREM Typing == Spec => []TypeOK
  BY TypeInit, TypeStep, PTL DEF Spec

\* The inductive invariant holds while the base thread only accepts connections.
THEOREM IndInvHolds ==
  ASSUME ~BaseSends, ~BaseTearsDown
  PROVE  Spec => []IndInv
  BY IndInvInit, IndInvStep, PTL DEF Spec

\* No epoll_ctl of EPollPoller::update fails, so LOG_FATAL never ends the process,
\* although the base thread's ADD runs while the loop thread polls and updates.
THEOREM CtlAlwaysSucceeds ==
  ASSUME ~BaseSends, ~BaseTearsDown
  PROVE  Spec => []EpollCtlSucceeds
  BY IndInvHolds, CtlSucceeds, PTL

\* Between calls, index_ and events_ say what the kernel's list says.
THEOREM RegistryAgrees ==
  ASSUME ~BaseSends, ~BaseTearsDown
  PROVE  Spec => []RegistryConsistent
<1>1. IndInv => RegistryConsistent
  <2> SUFFICES ASSUME IndInv, NEW c \in Channels, ~Busy(c),
                      state[c] \in {"live", "closed", "dropped"}
               PROVE  /\ index_[c] = kAdded
                            => Entry(c) = [ptr |-> c, mask |-> events_[c]]
                      /\ index_[c] # kAdded => ~IsRegistered(c) /\ events_[c] = {}
    BY DEF RegistryConsistent, Alive
  <2>1. c \in Registrable /\ doing[LoopThread].on # c
    BY DEF Busy, IndInv, NewInv, Registrable, Channels, Threads
  <2>2. CASE state[c] = "live"
    <3>1. Entry(c).ptr = c /\ Entry(c).mask = events_[c] /\ index_[c] = kAdded
      BY <2>1, <2>2 DEF IndInv, LiveInv, IsRegistered
    <3>2. Entry(c) \in [ptr : Channels \cup {None}, mask : Masks]
      BY <2>2 DEF IndInv, TypeOK, FdInv, HoldsFd, Alive, Entry
    <3> QED BY <3>1, <3>2
  <2>3. CASE state[c] \in {"closed", "dropped"}
    BY <2>1, <2>3 DEF IndInv, LeavingInv
  <2> QED BY <2>2, <2>3
<1> QED BY <1>1, IndInvHolds, PTL

\* A connection that was closed is neither reported nor handled any more.
THEOREM ClosedStaysSilent ==
  ASSUME ~BaseSends, ~BaseTearsDown
  PROVE  Spec => []ClosedIsSilent
<1>1. IndInv => ClosedIsSilent
  <2> SUFFICES ASSUME IndInv, NEW c \in Conns, ~Busy(c),
                      state[c] \in {"closed", "dropped"}
               PROVE  ~IsRegistered(c) /\ c \notin active
    BY DEF ClosedIsSilent
  <2>1. c \in Registrable /\ doing[LoopThread].on # c
    BY DEF Busy, IndInv, NewInv, Registrable, Channels, Threads
  <2> QED BY <2>1 DEF IndInv, LeavingInv, ActiveInv
<1> QED BY <1>1, IndInvHolds, PTL

\* The kernel and the loop only hold pointers to Channels that exist.
THEOREM PointersStayLive ==
  ASSUME ~BaseSends, ~BaseTearsDown
  PROVE  Spec => []PointersLive
<1>1. IndInv => PointersLive
  BY DEF IndInv, KernelInv, ActiveInv, PointersLive, Alive
<1> QED BY <1>1, IndInvHolds, PTL

-----------------------------------------------------------------------------
(* The refinement of InterestList *)

\* A Channel the kernel lists is alive and has been registered.
LEMMA ListedLives ==
  ASSUME IndInv, NEW c \in Channels, IsRegistered(c)
  PROVE  Alive(c) /\ c \in Registrable /\ fd_[c] \in Fds
<1>1. fd_[c] \in Fds /\ interest[fd_[c]].ptr = c /\ c # None
  BY NoneIsNone DEF IsRegistered, Entry, IndInv, TypeOK
<1> QED BY <1>1 DEF IndInv, KernelInv

\* A connection is watched as before if its entry stays, and it is in the list
\* neither before nor after if it is not alive.
LEMMA WatchedKept ==
  ASSUME IndInv, IndInv', NEW c \in Conns,
         IF Alive(c)' THEN Alive(c) /\ fd_'[c] = fd_[c] /\ Entry(c)' = Entry(c)
                      ELSE Alive(c) => ~IsRegistered(c)
  PROVE  Watched'[c] = Watched[c]
<1>0. c \in Channels
  BY DEF Channels
<1>1. /\ Watched[c] = IF IsRegistered(c) THEN Entry(c).mask ELSE {}
      /\ Watched'[c] = IF IsRegistered(c)' THEN (Entry(c).mask)' ELSE {}
  BY DEF Watched
<1>2. CASE Alive(c)'
  BY <1>1, <1>2 DEF IsRegistered
<1>3. CASE ~Alive(c)'
  <2>1. ~IsRegistered(c)
    BY <1>0, <1>3, ListedLives
  <2>2. ~IsRegistered(c)'
    <3>1. ASSUME IsRegistered(c)'
          PROVE  Alive(c)'
      <4>1. fd_'[c] \in Fds /\ interest'[fd_'[c]].ptr = c /\ c # None
        BY <1>0, <3>1, NoneIsNone DEF IsRegistered, Entry, IndInv, TypeOK
      <4> QED BY <4>1 DEF IndInv, KernelInv
    <3> QED BY <1>3, <3>1
  <2> QED BY <1>1, <2>1, <2>2
<1> QED BY <1>2, <1>3

\* The base thread is inside of calls on live connections only.
LEMMA BaseCallIsLive ==
  ASSUME IndInv, NEW c \in Channels, doing[BaseThread].on = c
  PROVE  state[c] = "live"
  BY NoneIsNone DEF IndInv, BaseInv, Idle

\* Every step of the poller is one of InterestList, or one the connections do not see.
LEMMA InterestStep ==
  ASSUME IndInv, IndInv', ~BaseSends, ~BaseTearsDown, [Next]_vars
  PROVE  [InterestList!Next]_(InterestList!vars)
<1> DEFINE Batch == active \cap Conns
           Current == IF handling \in Conns THEN handling ELSE None
           Goal == [InterestList!Next]_(InterestList!vars)
<1>0. /\ Conns \subseteq Channels /\ Wakeup \notin Conns /\ None \notin Conns
      /\ established \subseteq Conns /\ established' \subseteq Conns
      /\ \A c \in Conns : Life[c] = IF c \notin established THEN "new"
                                   ELSE IF state[c] = "live" THEN "open"
                                   ELSE IF state[c] = "gone" THEN "gone" ELSE "closed"
      /\ \A c \in Conns : Watched[c] = IF IsRegistered(c) THEN Entry(c).mask ELSE {}
  BY NoneIsNone DEF Channels, IndInv, TypeOK, Life, Watched
<1>a. ASSUME \A c \in Conns : Life'[c] = Life[c]
      PROVE  Life' = Life
  BY <1>a DEF Life
<1>b. ASSUME \A c \in Conns : Watched'[c] = Watched[c]
      PROVE  Watched' = Watched
  BY <1>b DEF Watched
<1>c. ASSUME Life' = Life, Watched' = Watched, Batch' = Batch, Current' = Current
      PROVE  Goal
  BY <1>c DEF InterestList!vars
<1>d. ASSUME UNCHANGED <<fd_, interest>>
      PROVE  Watched' = Watched
  BY <1>d DEF Watched, IsRegistered, Entry
<1>e. ASSUME NEW c \in Conns, NEW m, fd_'[c] \in Fds,
             interest'[fd_'[c]] = [ptr |-> c, mask |-> m],
             \A d \in Conns : d # c => Watched'[d] = Watched[d]
      PROVE  Watched' = [Watched EXCEPT ![c] = m]
  <2>1. Entry(c)'.ptr = c /\ Entry(c)'.mask = m /\ fd_'[c] # None
    BY <1>e, NoneIsNone DEF Entry
  <2>2. Watched'[c] = m
    BY <2>1 DEF Watched, IsRegistered
  <2> QED BY <1>e, <2>2 DEF Watched
<1>1. ASSUME NEW t \in Threads, NEW c \in Channels, NewConnection(t, c)
      PROVE  Goal
  <2>1. /\ c \in Conns \ established /\ state[c] = "unborn"
        /\ UNCHANGED <<established, interest, active, handling>>
        /\ \A d \in Channels : d # c => state'[d] = state[d] /\ fd_'[d] = fd_[d]
    BY <1>1 DEF NewConnection, loopVars, IndInv, TypeOK, NewInv, Registrable
  <2>2. Life' = Life
    BY <1>0, <2>1 DEF Life
  <2>3. ASSUME NEW d \in Conns
        PROVE  Watched'[d] = Watched[d]
    <3>1. CASE d = c
      <4>1. ~IsRegistered(c)
        BY <1>0, <2>1, ListedLives DEF Alive
      <4>2. ~IsRegistered(c)'
        <5>1. c \notin Registrable
          BY <1>0, <2>1 DEF Registrable
        <5> QED BY <1>0, <2>1, <5>1 DEF IsRegistered, Entry, IndInv, KernelInv, TypeOK
      <4> QED BY <3>1, <4>1, <4>2 DEF Watched
    <3>2. CASE d # c
      BY <1>0, <2>1, <3>2 DEF Watched, IsRegistered, Entry
    <3> QED BY <3>1, <3>2
  <2>4. Watched' = Watched
    BY <1>b, <2>3
  <2> QED BY <1>c, <2>1, <2>2, <2>4
<1>2. ASSUME NEW t \in Threads, NEW c \in Channels,
             \/ EnableWriting(t, c) \/ DisableWriting(t, c) \/ DisableAndRemove(t, c)
      PROVE  Goal
  <2>1. /\ UNCHANGED <<fd_, interest, established, active, handling>>
        /\ \A d \in Conns : state'[d] = state[d]
    BY <1>0, <1>2, Starts, StartStates
  <2>2. Life' = Life
    BY <1>0, <2>1 DEF Life
  <2> QED BY <1>c, <1>d, <2>1, <2>2
<1>3. ASSUME NEW t \in Threads, NEW c \in Channels, HandleClose(t, c)
      PROVE  Goal
  <2>1. /\ UNCHANGED <<fd_, interest, established, active, handling>>
        /\ handling = c /\ state[c] = "live" /\ state'[c] = "closed" /\ c \in Conns
        /\ \A d \in Channels : d # c => state'[d] = state[d]
    BY <1>3, Starts, StartStates DEF HandleClose
  <2>2. c \in established
    BY <1>0, <2>1 DEF IndInv, ActiveInv, Registrable
  <2>3. Life' = [Life EXCEPT ![c] = "closed"] /\ Life[c] = "open"
    BY <1>0, <2>1, <2>2 DEF Life
  <2>4. InterestList!Close(c)
    BY <1>0, <1>d, <2>1, <2>3 DEF InterestList!Close
  <2> QED BY <2>1, <2>4 DEF InterestList!Next
<1>4. ASSUME NEW t \in Threads, UpdateStep(t)
      PROVE  Goal
  <2> DEFINE c == doing[t].on
             point == doing[t].at
  <2>1. /\ c \in Channels /\ Alive(c) /\ fd_[c] \in Fds
        /\ UNCHANGED <<state, fd_, active, handling>>
        /\ established' = IF point = "add" THEN established \cup {c} ELSE established
    BY <1>4, UpdateEffect
  <2>2. ASSUME NEW d \in Conns, d # c
        PROVE  Watched'[d] = Watched[d]
    <3>1. Alive(d) <=> Alive(d)'
      BY <2>1 DEF Alive
    <3>2. Alive(d) => Entry(d)' = Entry(d)
      BY <1>0, <1>4, <2>2, OthersUntouched
    <3> QED BY <2>1, <3>1, <3>2, WatchedKept
  <2>3. CASE point = "add"
    <3>1. /\ c \in Conns \ established /\ state[c] = "live" /\ events_[c] = {"read"}
          /\ c # None
      BY <1>0, <1>4, <2>3, Callers DEF IndInv, BaseInv, Idle, Threads
    <3>2. Life[c] = "new" /\ Life' = [Life EXCEPT ![c] = "open"]
      BY <1>0, <2>1, <2>3, <3>1 DEF Life
    <3>3. interest'[fd_[c]] = [ptr |-> c, mask |-> {"read"}]
      BY <1>4, <2>3, <3>1, UpdateEffect
    <3>5. Watched' = [Watched EXCEPT ![c] = {"read"}]
      BY <1>e, <2>1, <2>2, <3>1, <3>3
    <3>6. InterestList!Register(c)
      BY <2>1, <3>2, <3>5 DEF InterestList!Register
    <3> QED BY <3>1, <3>6 DEF InterestList!Next
  <2>4. CASE point = "mod"
    <3>1. /\ c \in established /\ state[c] = "live" /\ c # None
      BY <1>0, <1>4, <2>4, Callers DEF IndInv, LoopInv, Modifying, Closing, Removing, Idle, Threads
    <3>2. events_[c] \in {{"read"}, {"read", "write"}}
      <4>1. "read" \in events_[c] /\ events_[c] \in SUBSET {"read", "write"}
        BY <2>1, <3>1 DEF IndInv, LiveInv, Registrable, TypeOK, Masks
      <4> QED BY <4>1
    <3>3. interest'[fd_[c]] = [ptr |-> c, mask |-> events_[c]]
      BY <1>4, <2>4, UpdateEffect
    <3>4. Watched' = [Watched EXCEPT ![c] = events_[c]]
      <4>1. c \in Conns
        BY <1>0, <3>1
      <4> QED BY <1>e, <2>1, <2>2, <3>3, <4>1
    <3>5. Life[c] = "open" /\ Life' = Life
      BY <1>0, <2>1, <2>4, <3>1 DEF Life
    <3>6. InterestList!Change(c)
      BY <2>1, <3>2, <3>4, <3>5 DEF InterestList!Change
    <3> QED BY <1>0, <3>1, <3>6 DEF InterestList!Next
  <2>5. CASE point = "del"
    <3>1. t = LoopThread /\ (Closing(doing[t]) \/ Removing(doing[t]))
      BY <1>4, <2>5, Callers DEF IndInv, LoopInv, Modifying, Idle, Threads
    <3>2. interest'[fd_[c]] = NoEntry
      BY <1>4, <2>5, UpdateEffect
    <3>3. Life' = Life
      BY <2>1, <2>5 DEF Life
    <3>4. CASE c \in Conns
      <4>1. handling = c /\ Life[c] = "closed"
        BY <1>0, <3>1, <3>4 DEF Closing, Removing
      <4>2. Watched'[c] = {}
        BY <1>0, <2>1, <3>2, <3>4 DEF Watched, IsRegistered, Entry, NoEntry
      <4>3. Watched' = [Watched EXCEPT ![c] = {}]
        BY <2>2, <4>2 DEF Watched
      <4>4. InterestList!Unwatch(c)
        BY <2>1, <3>3, <3>4, <4>1, <4>3 DEF InterestList!Unwatch
      <4> QED BY <3>4, <4>4 DEF InterestList!Next
    <3>5. CASE c \notin Conns
      BY <1>b, <1>c, <2>1, <2>2, <3>3, <3>5
    <3> QED BY <3>4, <3>5
  <2>6. CASE point \notin {"add", "mod", "del"}
    <3>1. interest' = interest
      BY <1>4, <2>6, UpdateEffect
    <3>2. Life' = Life
      BY <2>1, <2>6 DEF Life
    <3> QED BY <1>c, <1>d, <2>1, <3>1, <3>2
  <2> QED BY <2>3, <2>4, <2>5, <2>6
<1>5. CASE PollReturn
  <2>1. /\ active = {} /\ handling = None /\ UNCHANGED <<handling, state, established>>
        /\ UNCHANGED <<fd_, interest>>
    BY <1>5 DEF PollReturn, IndInv, ActiveInv, chanVars, kernVars
  <2>2. Life' = Life /\ Watched' = Watched /\ Current' = Current
    BY <1>d, <2>1 DEF Life
  <2>3. Batch' \in SUBSET {c \in Conns : Life[c] = "open"}
    BY <1>0, <2>1 DEF IndInv, ActiveInv, Registrable
  <2>4. InterestList!Poll
    BY <1>0, <2>1, <2>2, <2>3 DEF InterestList!Poll
  <2> QED BY <2>4 DEF InterestList!Next
<1>6. ASSUME NEW c \in Channels, HandleEvent(c)
      PROVE  Goal
  <2>1. /\ handling = None /\ handling' = c /\ c \in active /\ active' = active \ {c}
        /\ UNCHANGED <<state, established, fd_, interest>>
    BY <1>6 DEF HandleEvent, chanVars, kernVars
  <2>2. Life' = Life /\ Watched' = Watched
    BY <1>d, <2>1 DEF Life
  <2>3. CASE c \in Conns
    <3>1. Life[c] = "open"
      BY <1>0, <2>1, <2>3 DEF IndInv, ActiveInv, Registrable
    <3>2. Current = None /\ Current' = c /\ Batch' = Batch \ {c} /\ c \in Batch
      BY <1>0, <2>1, <2>3
    <3>3. InterestList!Handle(c)
      BY <2>2, <3>1, <3>2 DEF InterestList!Handle
    <3> QED BY <2>3, <3>3 DEF InterestList!Next
  <2>4. CASE c \notin Conns
    <3>1. Current = None /\ Current' = None /\ Batch' = Batch
      BY <1>0, <2>1, <2>4
    <3> QED BY <1>c, <2>2, <3>1
  <2> QED BY <2>3, <2>4
<1>7. CASE HandleReturn
  <2>1. /\ handling # None /\ handling' = None /\ doing[LoopThread].at = "idle"
        /\ UNCHANGED <<active, state, established, fd_, interest>>
    BY <1>7 DEF HandleReturn, chanVars, kernVars
  <2>2. Life' = Life /\ Watched' = Watched /\ Current' = None
    BY <1>0, <1>d, <2>1 DEF Life
  <2>3. CASE handling \in Conns
    <3>1. Life[handling] = "closed" => Watched[handling] = {}
      <4>1. doing[LoopThread].on # handling
        BY <2>1, Callers DEF Idle, Threads
      <4>2. handling \in Registrable /\ state[handling] \in {"live", "closed"}
        BY <2>1 DEF IndInv, ActiveInv
      <4> QED BY <1>0, <2>3, <4>1, <4>2 DEF IndInv, LeavingInv
    <3>2. InterestList!Return
      BY <1>0, <2>1, <2>2, <2>3, <3>1 DEF InterestList!Return
    <3> QED BY <3>2 DEF InterestList!Next
  <2>4. CASE handling \notin Conns
    BY <1>c, <2>1, <2>2, <2>4
  <2> QED BY <2>3, <2>4
<1>8. CASE EndIteration
  <2>1. /\ UNCHANGED <<fd_, interest, established, active, handling>>
        /\ \A c \in Conns : \/ state'[c] = state[c]
                            \/ state[c] = "closed" /\ state'[c] = "dropped"
    BY <1>0, <1>8 DEF EndIteration, kernVars
  <2>2. Life' = Life
    BY <1>0, <2>1 DEF Life
  <2> QED BY <1>c, <1>d, <2>1, <2>2
<1>9. ASSUME NEW c \in Channels, Free(c) \/ CloseDescriptor(c)
      PROVE  Goal
  <2>1. /\ \/ state[c] = "dropped" /\ ~Busy(c) /\ handling # c /\ state'[c] = "freed"
           \/ state[c] = "freed" /\ state'[c] = "gone"
        /\ \A d \in Channels : d # c => state'[d] = state[d]
        /\ UNCHANGED <<fd_, established, active, handling>>
    BY <1>9 DEF Free, CloseDescriptor, loopVars, IndInv, TypeOK
  <2>2. c \in Registrable
    <3>1. state[c] = "freed" => ~Alive(c)
      BY DEF Alive
    <3>2. doing[BaseThread].on # c
      BY <2>1, <3>1, BaseCallIsLive DEF Busy, Threads
    <3> QED BY <2>1, <3>2 DEF IndInv, NewInv, Registrable, Channels
  <2>3. ~IsRegistered(c) /\ c \notin active /\ handling # c
    <3>1. CASE state[c] = "dropped"
      <4>1. doing[LoopThread].on # c /\ handling # c
        BY <2>1, <3>1 DEF Busy, Threads
      <4> QED BY <2>2, <3>1, <4>1 DEF IndInv, LeavingInv, ActiveInv
    <3>2. CASE state[c] = "freed"
      <4>1. ~IsRegistered(c)
        BY <3>2, ListedLives DEF Alive
      <4>2. c # None
        BY NoneIsNone
      <4> QED BY <3>2, <4>1, <4>2 DEF IndInv, ActiveInv
    <3> QED BY <2>1, <3>1, <3>2
  <2>4. ASSUME NEW d \in Conns
        PROVE  Watched'[d] = Watched[d]
    <3>1. Alive(d)' => Alive(d) /\ Entry(d)' = Entry(d)
      BY <1>0, <1>9, <2>1, OtherSteps DEF Alive
    <3>2. Alive(d) /\ ~Alive(d)' => d = c
      BY <1>0, <2>1 DEF Alive
    <3> QED BY <2>1, <2>3, <3>1, <3>2, WatchedKept
  <2>5. Watched' = Watched
    BY <1>b, <2>4
  <2>6. CASE c \in Conns /\ state[c] = "freed"
    <3>1. Life[c] = "closed" /\ Life' = [Life EXCEPT ![c] = "gone"] /\ Watched[c] = {}
      BY <1>0, <2>1, <2>2, <2>3, <2>6 DEF Life, Registrable
    <3>2. InterestList!Release(c)
      BY <1>0, <2>1, <2>3, <2>5, <2>6, <3>1 DEF InterestList!Release
    <3> QED BY <2>6, <3>2 DEF InterestList!Next
  <2>7. CASE c \notin Conns \/ state[c] # "freed"
    <3>1. Life' = Life
      BY <1>0, <2>1, <2>7 DEF Life
    <3> QED BY <1>c, <2>1, <2>5, <3>1
  <2> QED BY <2>6, <2>7
<1>10. CASE LeaveLoop \/ UNCHANGED vars
  <2>1. UNCHANGED <<fd_, interest, established, active, handling, state>>
    BY <1>10 DEF LeaveLoop, vars, chanVars, kernVars, loopVars
  <2>2. Life' = Life
    BY <2>1 DEF Life
  <2> QED BY <1>c, <1>d, <2>1, <2>2
<1> QED
  BY <1>1, <1>2, <1>3, <1>4, <1>5, <1>6, <1>7, <1>8, <1>9, <1>10, NoTearDown
  DEF Next, LoopStep

\* To the connections, registering, modifying, closing and polling are atomic.
THEOREM UpdatesAreAtomic ==
  ASSUME ~BaseSends, ~BaseTearsDown
  PROVE  Spec => ImplementsInterestList
<1>1. Init => InterestList!Init
  <2> SUFFICES ASSUME Init PROVE InterestList!Init
    OBVIOUS
  <2>1. established = {} /\ active = {} /\ handling = None /\ None \notin Conns
    BY NoneIsNone DEF Init, Channels
  <2>2. Life = [c \in Conns |-> "new"]
    BY <2>1 DEF Life
  <2>3. \A c \in Conns : fd_[c] = None
    BY NoneIsNone DEF Init, Channels
  <2>4. Watched = [c \in Conns |-> {}]
    BY <2>3 DEF Watched, IsRegistered
  <2> QED BY <2>1, <2>2, <2>4 DEF InterestList!Init
<1>2. IndInv /\ IndInv' /\ [Next]_vars => [InterestList!Next]_(InterestList!vars)
  BY InterestStep
<1> QED BY <1>1, <1>2, IndInvHolds, PTL DEF Spec, ImplementsInterestList, InterestList!Spec

-----------------------------------------------------------------------------
\* What the steps of a call in progress do to the members HeldInv is about, whoever
\* makes them: at most the entry of the Channel in hand changes.
LEMMA CallEffect ==
  ASSUME TypeOK, NEW t \in Threads, UpdateStep(t)
  PROVE  /\ doing[t] # Idle /\ doing[t].on \in Channels
         /\ UNCHANGED <<state, fd_, open, active, handling>>
         /\ \A u \in Threads : doing'[u] = Idle \/ doing'[u].on = doing[u].on
         /\ \A u \in Threads : doing'[u] # Idle => doing[u] # Idle
         /\ \A f \in Fds : \/ interest'[f] = interest[f]
                           \/ interest'[f].ptr = None
                           \/ f = fd_[doing[t].on] /\ interest'[f].ptr = doing[t].on
<1> DEFINE c == doing[t].on
<1>1. doing[t] # Idle /\ doing[t] \in [at : Points, on : Channels, mask : Masks, removing : BOOLEAN]
  <2>1. doing[t].at # "idle" /\ doing[t] \in Calls
    BY DEF UpdateStep, StoreEvents, ReadIndex, InsertInMap, AddChannel, Branch,
           ModChannel, DelChannel, SetDeleted, EraseFromMap, ReadIndexToRemove,
           DelRemoved, SetNew, At, TypeOK
  <2> QED BY <2>1 DEF Calls, Idle
<1>2. UNCHANGED <<state, fd_, open, active, handling>>
  BY DEF UpdateStep, StoreEvents, ReadIndex, InsertInMap, AddChannel, Branch,
         ModChannel, DelChannel, SetDeleted, EraseFromMap, ReadIndexToRemove,
         DelRemoved, SetNew, chanVars, kernVars, loopVars
<1>3. \/ \E p : doing' = [doing EXCEPT ![t].at = p]
      \/ doing' = [doing EXCEPT ![t] = Idle]
  BY DEF UpdateStep, StoreEvents, ReadIndex, InsertInMap, AddChannel, Branch,
         ModChannel, DelChannel, SetDeleted, EraseFromMap, ReadIndexToRemove,
         DelRemoved, SetNew, GoTo, EndUpdate
<1>4. \A u \in Threads : doing'[u] = Idle \/ doing'[u].on = doing[u].on
  <2>1. ASSUME NEW p, doing' = [doing EXCEPT ![t].at = p]
        PROVE  \A u \in Threads : doing'[u].on = doing[u].on
    <3>1. doing'[t] = [doing[t] EXCEPT !.at = p] /\ \A u \in Threads \ {t} : doing'[u] = doing[u]
      BY <2>1 DEF TypeOK
    <3>2. doing'[t].on = doing[t].on
      BY <1>1, <3>1
    <3> QED BY <3>1, <3>2
  <2>2. ASSUME doing' = [doing EXCEPT ![t] = Idle]
        PROVE  \A u \in Threads : doing'[u] = Idle \/ doing'[u].on = doing[u].on
    BY <2>2 DEF TypeOK
  <2> QED BY <1>3, <2>1, <2>2
<1>5. \A u \in Threads : doing'[u] # Idle => doing[u] # Idle
  <2>1. \A u \in Threads : u # t => doing'[u] = doing[u]
    BY <1>3 DEF TypeOK
  <2> QED BY <1>1, <2>1
<1>6. \/ interest' = interest
      \/ interest' = [interest EXCEPT ![fd_[c]] = [ptr |-> c, mask |-> events_[c]]]
      \/ interest' = [interest EXCEPT ![fd_[c]] = NoEntry]
  BY DEF UpdateStep, StoreEvents, ReadIndex, InsertInMap, AddChannel, Branch,
         ModChannel, DelChannel, SetDeleted, EraseFromMap, ReadIndexToRemove,
         DelRemoved, SetNew, CtlAdd, kernVars
<1>7. \A f \in Fds : \/ interest'[f] = interest[f]
                     \/ interest'[f].ptr = None
                     \/ f = fd_[c] /\ interest'[f].ptr = c
  BY <1>6 DEF NoEntry, TypeOK
<1> QED BY <1>1, <1>2, <1>4, <1>5, <1>7

\* Every step keeps what is held alive.
LEMMA HeldStep ==
  ASSUME TypeOK, TypeOK', HeldInv, [Next]_vars
  PROVE  HeldInv'
<1> USE DEF HeldInv, FdInv, HoldsFd, ListedIsOwner, Alive
<1>0. /\ None \notin Channels /\ None \notin Fds /\ Idle.on = None /\ Conns \subseteq Channels
      /\ \A f \in Fds : interest[f].ptr \in Channels \cup {None}
  BY NoneIsNone DEF Idle, Channels, TypeOK
<1>1. ASSUME NEW t \in Threads, NEW c \in Channels, NewConnection(t, c)
      PROVE  HeldInv'
  <2>1. PICK f \in Fds \ open : fd_' = [fd_ EXCEPT ![c] = f] /\ open' = open \cup {f}
    BY <1>1 DEF NewConnection
  <2>2. /\ state[c] = "unborn" /\ state' = [state EXCEPT ![c] = "live"]
        /\ UNCHANGED <<interest, active, handling>>
        /\ doing'[t].on = c /\ \A u \in Threads : u # t => doing'[u] = doing[u]
    BY <1>1 DEF NewConnection, Begin, loopVars, TypeOK
  <2>3. FdInv'
    BY <2>1, <2>2 DEF TypeOK
  <2>4. ListedIsOwner'
    BY <1>0, <2>1, <2>2 DEF TypeOK
  <2> QED BY <2>2, <2>3, <2>4 DEF TypeOK
<1>2. ASSUME NEW t \in Threads, NEW c \in Channels,
             \/ EnableWriting(t, c) \/ DisableWriting(t, c) \/ HandleClose(t, c)
             \/ DisableAndRemove(t, c)
      PROVE  HeldInv'
  <2>1. UNCHANGED <<fd_, interest, open, active, handling>>
    BY <1>2 DEF EnableWriting, DisableWriting, HandleClose, DisableAndRemove, chanVars,
       kernVars, loopVars
  <2>2. /\ Alive(c)
        /\ \/ state' = state
           \/ \E s \in {"closed", "dropped"} : state' = [state EXCEPT ![c] = s]
    <3>1. CASE EnableWriting(t, c)
      BY <3>1 DEF EnableWriting, chanVars
    <3>2. CASE DisableWriting(t, c)
      BY <1>0, <3>2 DEF DisableWriting, chanVars
    <3>3. CASE HandleClose(t, c)
      BY <3>3 DEF HandleClose
    <3>4. CASE DisableAndRemove(t, c)
      BY <3>4 DEF DisableAndRemove
    <3> QED BY <1>2, <3>1, <3>2, <3>3, <3>4
  <2>3. \A d \in Channels : /\ (state'[d] \in {"live", "closed", "dropped"}) <=> Alive(d)
                            /\ state'[d] = "freed" <=> state[d] = "freed"
                            /\ state'[d] = "unborn" <=> state[d] = "unborn"
    BY <2>2 DEF TypeOK
  <2>4. doing'[t].on = c /\ \A u \in Threads : u # t => doing'[u] = doing[u]
    BY <1>2 DEF EnableWriting, DisableWriting, HandleClose, DisableAndRemove, Begin, TypeOK
  <2>5. \A u \in Threads : doing[u] # Idle => doing[u].on \in Channels
    BY DEF TypeOK, Calls
  <2>6. FdInv'
    BY <2>1, <2>3
  <2>7. ListedIsOwner'
    BY <1>0, <2>1, <2>3
  <2>8. \A u \in Threads : doing'[u] # Idle
                            => state'[doing'[u].on] \in {"live", "closed", "dropped"}
    <3> SUFFICES ASSUME NEW u \in Threads, doing'[u] # Idle
                 PROVE  state'[doing'[u].on] \in {"live", "closed", "dropped"}
      OBVIOUS
    <3>1. CASE u = t
      BY <2>2, <2>3, <2>4, <3>1
    <3>2. CASE u # t
      BY <2>3, <2>4, <2>5, <3>2
    <3> QED BY <3>1, <3>2
  <2>9. (\A d \in active' : state'[d] # "unborn")
        /\ (handling' # None => state'[handling'] \in {"live", "closed", "dropped"})
    BY <2>1, <2>3 DEF TypeOK
  <2> QED BY <2>6, <2>7, <2>8, <2>9
<1>3. ASSUME NEW t \in Threads, UpdateStep(t)
      PROVE  HeldInv'
  <2>1. /\ doing[t] # Idle /\ doing[t].on \in Channels
        /\ UNCHANGED <<state, fd_, open, active, handling>>
        /\ \A u \in Threads : doing'[u] = Idle \/ doing'[u].on = doing[u].on
        /\ \A u \in Threads : doing'[u] # Idle => doing[u] # Idle
    BY <1>3, CallEffect
  <2>2. \A f \in Fds : \/ interest'[f] = interest[f]
                       \/ interest'[f].ptr = None
                       \/ f = fd_[doing[t].on] /\ interest'[f].ptr = doing[t].on
    BY <1>3, CallEffect
  <2>3. ListedIsOwner'
    BY <2>1, <2>2
  <2> QED BY <2>1, <2>3
<1>4. CASE PollReturn
  BY <1>0, <1>4 DEF PollReturn, Reportable, chanVars, kernVars
<1>5. ASSUME NEW c \in Channels, HandleEvent(c)
      PROVE  HeldInv'
  BY <1>0, <1>5 DEF HandleEvent, chanVars, kernVars, TypeOK, States
<1>6. CASE HandleReturn \/ LeaveLoop \/ UNCHANGED vars
  BY <1>6 DEF HandleReturn, LeaveLoop, vars, chanVars, kernVars, loopVars
<1>7. CASE EndIteration
  <2>1. /\ UNCHANGED <<fd_, interest, open, active, handling, doing>>
        /\ \A d \in Channels : /\ Alive(d)' <=> Alive(d)
                               /\ state'[d] = "freed" <=> state[d] = "freed"
                               /\ state'[d] = "unborn" => state[d] = "unborn"
    BY <1>7 DEF EndIteration, kernVars
  <2>2. \A u \in Threads : doing[u] # Idle => doing[u].on \in Channels
    BY DEF TypeOK, Calls
  <2> QED BY <1>0, <2>1, <2>2 DEF TypeOK
<1>8. ASSUME NEW c \in Channels, Free(c)
      PROVE  HeldInv'
  <2>1. /\ state[c] = "dropped" /\ ~Busy(c) /\ handling # c
        /\ state' = [state EXCEPT ![c] = "freed"]
        /\ UNCHANGED <<fd_, interest, open, active, handling, doing>>
    BY <1>8 DEF Free, kernVars, loopVars
  <2>2. /\ HoldsFd(c) /\ HoldsFd(c)'
        /\ \A d \in Channels : d # c => state'[d] = state[d]
    BY <2>1 DEF TypeOK
  <2>3. FdInv' /\ ListedIsOwner'
    BY <1>0, <2>1, <2>2
  <2>4. \A u \in Threads : doing[u] # Idle => doing[u].on \in Channels /\ doing[u].on # c
    BY <2>1 DEF TypeOK, Calls, Busy
  <2> QED BY <1>0, <2>1, <2>2, <2>3, <2>4 DEF TypeOK
<1>9. ASSUME NEW c \in Channels, CloseDescriptor(c)
      PROVE  HeldInv'
  <2>1. /\ state[c] = "freed" /\ open' = open \ {fd_[c]}
        /\ state' = [state EXCEPT ![c] = "gone"]
        /\ interest' = [interest EXCEPT ![fd_[c]] = NoEntry]
        /\ UNCHANGED <<fd_, active, handling, doing>>
    BY <1>9 DEF CloseDescriptor, loopVars
  <2>2. /\ \A d \in Channels : d # c => state'[d] = state[d]
        /\ ~HoldsFd(c)' /\ state'[c] = "gone"
        /\ \A d \in Channels : d # c /\ HoldsFd(d) => fd_[d] # fd_[c]
    BY <2>1 DEF TypeOK
  <2>3. FdInv'
    BY <2>1, <2>2
  <2>4. ListedIsOwner'
    BY <1>0, <2>1, <2>2 DEF NoEntry, TypeOK
  <2>5. \A u \in Threads : doing[u] # Idle => doing[u].on \in Channels /\ doing[u].on # c
    BY <2>1 DEF TypeOK, Calls
  <2> QED BY <1>0, <2>1, <2>2, <2>3, <2>4, <2>5 DEF TypeOK
<1>10. ASSUME NEW t \in Threads, NEW c \in Channels, TakeConnection(t, c)
       PROVE  HeldInv'
  <2>1. /\ UNCHANGED <<state, fd_, interest, open, active, handling>> /\ Alive(c)
        /\ doing'[t].on = c /\ \A u \in Threads : u # t => doing'[u] = doing[u]
    BY <1>10 DEF TakeConnection, kernVars, loopVars, TypeOK
  <2> QED BY <2>1
<1>11. ASSUME NEW t \in Threads, TestState(t)
       PROVE  HeldInv'
  <2>1. doing[t] # Idle /\ doing[t].on \in Channels
    BY <1>11 DEF TestState, At, TypeOK, Calls, Idle
  <2>2. /\ UNCHANGED <<fd_, interest, open, active, handling>>
        /\ \A d \in Channels : /\ Alive(d)' <=> Alive(d)
                               /\ state'[d] = "freed" <=> state[d] = "freed"
                               /\ state'[d] = "unborn" <=> state[d] = "unborn"
    BY <1>11 DEF TestState, kernVars, loopVars, TypeOK
  <2>3. \A u \in Threads : doing[u] # Idle => doing[u].on \in Channels
    BY DEF TypeOK, Calls
  <2>4. /\ doing'[t].on = doing[t].on
        /\ \A u \in Threads : u # t => doing'[u] = doing[u]
    <3>1. PICK p : doing' = [doing EXCEPT ![t].at = p]
      BY <1>11 DEF TestState, GoTo
    <3>2. doing[t] \in [at : Points, on : Channels, mask : Masks, removing : BOOLEAN]
      BY <2>1 DEF TypeOK, Calls
    <3>3. doing'[t] = [doing[t] EXCEPT !.at = p] /\ \A u \in Threads : u # t => doing'[u] = doing[u]
      BY <3>1 DEF TypeOK
    <3>4. doing'[t].on = doing[t].on
      BY <3>2, <3>3
    <3> QED BY <3>3, <3>4
  <2>5. FdInv' /\ ListedIsOwner'
    BY <1>0, <2>2
  <2>6. \A u \in Threads : doing'[u] # Idle
                            => state'[doing'[u].on] \in {"live", "closed", "dropped"}
    <3> SUFFICES ASSUME NEW u \in Threads, doing'[u] # Idle
                 PROVE  state'[doing'[u].on] \in {"live", "closed", "dropped"}
      OBVIOUS
    <3>1. CASE u = t
      BY <2>1, <2>2, <2>4, <3>1
    <3>2. CASE u # t
      BY <2>2, <2>3, <2>4, <3>2
    <3> QED BY <3>1, <3>2
  <2>7. (\A d \in active' : state'[d] # "unborn")
        /\ (handling' # None => state'[handling'] \in {"live", "closed", "dropped"})
    BY <2>2 DEF TypeOK
  <2> QED BY <2>5, <2>6, <2>7
<1> QED
  BY <1>1, <1>2, <1>3, <1>4, <1>5, <1>6, <1>7, <1>8, <1>9, <1>10, <1>11
  DEF Next, LoopStep

\* However the base thread sends and tears down, what the kernel lists under a
\* descriptor is the Channel of the connection that holds the descriptor now.  The
\* Channel itself may have been destroyed a step before the descriptor is closed.
THEOREM ListedStaysOwned == Spec => []ListedIsOwner
<1>1. Init => HeldInv
  <2> SUFFICES ASSUME Init PROVE HeldInv
    OBVIOUS
  <2>1. IndInv /\ active = {} /\ handling = None /\ \A t \in Threads : doing[t] = Idle
    BY IndInvInit DEF Init
  <2> QED BY <2>1 DEF IndInv, KernelInv, HeldInv, ListedIsOwner, HoldsFd
<1>2. TypeOK /\ TypeOK' /\ HeldInv /\ [Next]_vars => HeldInv'
  BY HeldStep
<1>3. HeldInv => ListedIsOwner
  BY DEF HeldInv
<1> QED BY <1>1, <1>2, <1>3, Typing, PTL DEF Spec

\* The list handed to epoll_wait stops growing, whatever the base thread does.
THEOREM EventListStaysBounded == Spec => []EventListBounded
<1>1. Init => EventListBounded
  BY ListIsNat DEF Init, EventListBounded
<1>2. TypeOK /\ EventListBounded /\ [Next]_vars => EventListBounded'
  <2> SUFFICES ASSUME TypeOK, EventListBounded, [Next]_vars PROVE EventListBounded'
    OBVIOUS
  <2>1. CASE PollReturn
    <3> DEFINE ptrs == [f \in Fds |-> interest[f].ptr]
               T == {ptrs[f] : f \in Fds}
    <3>1. ptrs \in Surjection(Fds, T)
      BY DEF Surjection
    <3>2. IsFiniteSet(T) /\ Cardinality(T) <= Cardinality(Fds)
      BY <3>1, FdsFinite, FS_Surjection
    <3>3. Reportable \subseteq T
      BY DEF Reportable
    <3>4. PICK batch \in SUBSET Reportable :
             events_size' = Grown(Cardinality(batch), events_size)
      BY <2>1 DEF PollReturn
    <3>5. batch \in SUBSET T
      BY <3>3, <3>4
    <3>6. IsFiniteSet(batch) /\ Cardinality(batch) <= Cardinality(T)
      BY <3>2, <3>5, FS_Subset
    <3>7. /\ Cardinality(batch) \in Nat /\ Cardinality(T) \in Nat
          /\ Cardinality(Fds) \in Nat
      BY <3>2, <3>6, FdsFinite, FS_CardinalityType
    <3> QED BY <3>2, <3>4, <3>6, <3>7, ListIsNat DEF Grown, EventListBounded, TypeOK
  <2>2. CASE ~PollReturn
    <3>1. CASE \E t \in Threads, c \in Channels : DisableAndRemove(t, c)
      BY <3>1 DEF DisableAndRemove, loopVars, EventListBounded
    <3>2. CASE ~\E t \in Threads, c \in Channels : DisableAndRemove(t, c)
      <4>1. ASSUME NEW t \in Threads, UpdateStep(t) \/ TestState(t)
            PROVE  events_size' = events_size
        BY <4>1
        DEF UpdateStep, StoreEvents, ReadIndex, InsertInMap, AddChannel, Branch,
            ModChannel, DelChannel, SetDeleted, EraseFromMap, ReadIndexToRemove,
            DelRemoved, SetNew, TestState, loopVars
      <4>2. ASSUME NEW t \in Threads, NEW c \in Channels,
                   \/ NewConnection(t, c) \/ EnableWriting(t, c) \/ DisableWriting(t, c)
                   \/ HandleClose(t, c) \/ TakeConnection(t, c)
            PROVE  events_size' = events_size
        BY <4>2 DEF NewConnection, EnableWriting, DisableWriting, HandleClose,
                    TakeConnection, loopVars
      <4>3. ASSUME NEW c \in Channels, HandleEvent(c) \/ Free(c) \/ CloseDescriptor(c)
            PROVE  events_size' = events_size
        BY <4>3 DEF HandleEvent, Free, CloseDescriptor, loopVars
      <4>4. ASSUME HandleReturn \/ EndIteration \/ LeaveLoop \/ UNCHANGED vars
            PROVE  events_size' = events_size
        BY <4>4 DEF HandleReturn, EndIteration, LeaveLoop, vars, loopVars
      <4> QED BY <2>2, <3>2, <4>1, <4>2, <4>3, <4>4 DEF Next, LoopStep, EventListBounded
    <3> QED BY <3>1, <3>2
  <2> QED BY <2>1, <2>2
<1> QED BY <1>1, <1>2, Typing, PTL DEF Spec
=============================================================================
