----------------------- MODULE MCAsyncConnectionPool -----------------------
(* Instances of AsyncConnectionPool for TLC. *)
EXTENDS AsyncConnectionPool, TLC

CONSTANTS c1, c2, w1, w2, a1, k1, q1

\* A pool of class k with sizes <<min, max>> and callbacks cb, whose attempts
\* may fail, on which the calls are made and which is resized to the sizes.
Pool(k, size, cb, fails, calls, sizes) ==
  [kind |-> k, min |-> size[1], max |-> size[2],
   reset |-> "reset" \in cb, check |-> "check" \in cb,
   fails |-> fails, calls |-> calls, sizes |-> sizes]

AllSetups ==
  {Pool("pool", <<0, 1>>, {"check"}, FALSE, {"close"}, {}),
   Pool("null", <<0, 1>>, {"check"}, FALSE, {"close"}, {}),
   Pool("pool", <<0, 1>>, {"reset"}, TRUE,  {"check"}, {<<1, 2>>}),
   Pool("null", <<0, 1>>, {"reset"}, TRUE,  {}, {<<0, 2>>}),
   Pool("pool", <<1, 1>>, {}, FALSE, {"wait", "close"}, {})}
NullWait == {Pool("null", <<0, 1>>, {}, FALSE, {"wait"}, {})}
=============================================================================
