---------------------------- MODULE PoolService ----------------------------
(***************************************************************************)
(* What a connection pool promises its clients: a connection serves one    *)
(* client at a time, and queued requests are served in the order in which  *)
(* they came, ahead of any new one.                                        *)
(***************************************************************************)

CONSTANTS Clients, Conns, None

VARIABLES queue,   \* the clients that wait
          ahead,   \* those that came before each client and still wait
          held     \* the connection each client holds

vars == <<queue, ahead, held>>

Free(x) == \A c \in Clients : held[c] # x

\* Client c waits no longer, nobody is behind it.
Dequeue(c) ==
  /\ queue' = queue \ {c}
  /\ ahead' = [d \in Clients |-> IF d = c THEN {} ELSE ahead[d] \ {c}]

Init == /\ queue = {} /\ ahead = [c \in Clients |-> {}]
        /\ held = [c \in Clients |-> None]

\* A client gets a free connection at once if nobody waits for one.
Take(c, x) == /\ queue = {} /\ held[c] = None /\ Free(x)
              /\ held' = [held EXCEPT ![c] = x]
              /\ UNCHANGED <<queue, ahead>>

\* A client joins the queue, behind everybody who is in it.
Join(c) == /\ held[c] = None /\ c \notin queue
           /\ queue' = queue \cup {c}
           /\ ahead' = [ahead EXCEPT ![c] = queue]
           /\ UNCHANGED held

\* A free connection goes to the client that came first.
Grant(c, x) == /\ c \in queue /\ ahead[c] = {} /\ Free(x)
               /\ held' = [held EXCEPT ![c] = x]
               /\ Dequeue(c)

\* A client gives up waiting.
Leave(c) == /\ c \in queue
            /\ Dequeue(c)
            /\ UNCHANGED held

\* A client gives its connection back, or loses it.
Release(c) == /\ held[c] # None
              /\ held' = [held EXCEPT ![c] = None]
              /\ UNCHANGED <<queue, ahead>>

\* The service ends: nobody is served any more.
Shutdown == /\ queue' = {} /\ ahead' = [c \in Clients |-> {}]
            /\ UNCHANGED held

Next == \/ \E c \in Clients, x \in Conns : Take(c, x) \/ Grant(c, x)
        \/ \E c \in Clients : Join(c) \/ Leave(c) \/ Release(c)
        \/ Shutdown

Spec == Init /\ [][Next]_vars
=============================================================================
