----------------------- MODULE ConnectionPoolService -----------------------
(***************************************************************************)
(* ConnectionPool implements PoolService: the positions of _waiting that   *)
(* still accept a connection are the queue; a client holds the connection  *)
(* that its position accepted, or that getconn() returned.                 *)
(***************************************************************************)
EXTENDS ConnectionPool

\* Client c waits in the place i of the deque, and may be served.
WaitsIn(c, i) == /\ At(c, "waiting") /\ pos[c] = waiting[i]
                 /\ Accepts(waiting[i])

AbstractQueue == {c \in Clients : \E i \in DOMAIN waiting : WaitsIn(c, i)}

AbstractAhead ==
  [c \in Clients |-> {d \in Clients : \E i, j \in DOMAIN waiting :
                        i < j /\ WaitsIn(d, i) /\ WaitsIn(c, j)}]

\* The connection that client c got, or will get for sure.
HeldBy(c) == IF At(c, "waiting") THEN slot[pos[c]].conn
             ELSE IF pc[c] \in {"checking", "using"} THEN cur[c]
             ELSE NoConn
AbstractHeld == [c \in Clients |-> HeldBy(c)]

Service == INSTANCE PoolService WITH
             None <- NoConn, queue <- AbstractQueue, ahead <- AbstractAhead,
             held <- AbstractHeld

\* One client per connection, first come first served: whatever timeouts,
\* failures, returns, checks and growth do to the deques of the pool.
ServesInOrder == Service!Spec
=============================================================================
