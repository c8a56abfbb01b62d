-------------------------- MODULE MCConnectionPool --------------------------
(* Instances of ConnectionPool for TLC.                                     *)
EXTENDS ConnectionPoolService, TLC

CONSTANTS c1, c2, w1, w2, a1, a2, r1, k1, q1

\* Clients are interchangeable, and so are workers.
Symmetric == Permutations(Clients) \cup Permutations(Workers)

\* What the resizer asks for: nothing, or one more connection.
NoResize == [r \in Resizers |-> <<MinSize, MaxSize>>]
ResizeUp == [r \in Resizers |-> <<MinSize + 1, MaxSize + 1>>]

\* Programs that make all the calls, and programs that either close the pool,
\* by close() or because wait() times out, or resize it.
Together == {Admins}
CloseOrResize == {Closers \cup Waiters, Resizers}
=============================================================================
