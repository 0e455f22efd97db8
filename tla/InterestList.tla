---------------------------- MODULE InterestList ----------------------------
(***************************************************************************)
(* What a poller promises the connections of its loop, as TcpConnection    *)
(* and TcpServer rely on it: a connection is registered, watched for what  *)
(* it last asked for, and taken off the list, each in one step; a poll     *)
(* reports open connections only, and one that has been closed is let go   *)
(* of when nobody can report or call it any more.  Poller.tla implements   *)
(* it with a map, index_, events_ and one epoll_ctl after the other.       *)
(***************************************************************************)
CONSTANTS Conns, None

VARIABLES life,     \* "new", "open", "closed" or "gone", for each connection
          watched,  \* the events each connection is watched for
          batch,    \* reported by the last poll and not handled yet
          current   \* the connection whose callbacks run

vars == <<life, watched, batch, current>>

Init == /\ life = [c \in Conns |-> "new"] /\ watched = [c \in Conns |-> {}]
        /\ batch = {} /\ current = None

Register(c) == /\ life[c] = "new" /\ life' = [life EXCEPT ![c] = "open"]
               /\ watched' = [watched EXCEPT ![c] = {"read"}]
               /\ UNCHANGED <<batch, current>>

Change(c) == /\ life[c] = "open"
             /\ watched' \in {[watched EXCEPT ![c] = m] : m \in {{"read"}, {"read", "write"}}}
             /\ UNCHANGED <<life, batch, current>>

Close(c) == /\ current = c /\ life[c] = "open" /\ life' = [life EXCEPT ![c] = "closed"]
            /\ UNCHANGED <<watched, batch, current>>

Unwatch(c) == /\ current = c /\ life[c] = "closed"
              /\ watched' = [watched EXCEPT ![c] = {}]
              /\ UNCHANGED <<life, batch, current>>

Poll == /\ batch = {} /\ current = None
        /\ batch' \in SUBSET {c \in Conns : life[c] = "open"}
        /\ UNCHANGED <<life, watched, current>>

Handle(c) == /\ current = None /\ c \in batch /\ life[c] = "open"
             /\ current' = c /\ batch' = batch \ {c}
             /\ UNCHANGED <<life, watched>>

\* The callbacks of a connection that has been closed return after its Unwatch.
Return == /\ current # None /\ (life[current] = "closed" => watched[current] = {})
          /\ current' = None
          /\ UNCHANGED <<life, watched, batch>>

Release(c) == /\ life[c] = "closed" /\ watched[c] = {} /\ c \notin batch \cup {current}
              /\ life' = [life EXCEPT ![c] = "gone"]
              /\ UNCHANGED <<watched, batch, current>>

Next == \/ Poll \/ Return
        \/ \E c \in Conns : \/ Register(c) \/ Change(c) \/ Close(c) \/ Unwatch(c)
                            \/ Handle(c) \/ Release(c)

Spec == Init /\ [][Next]_vars
=============================================================================
