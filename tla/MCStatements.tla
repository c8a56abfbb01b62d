---------------------------- MODULE MCStatements ----------------------------
(***************************************************************************)
(* A connection, used for a COPY block or by cursors: a COPY and another   *)
(* statement exclude each other on it.                                     *)
(***************************************************************************)
EXTENDS Copy, Cursors, TLC

UsesDef == {{"c1", "notifies"}, {"c1", "s1"}, {"s1"}, {"a1"}}

VARIABLE part      \* what the connection is used for: never changes

\* The other part, at rest.
NoCopy    == CopyInit /\ copy = [direction |-> "in", binary |-> FALSE, queued |-> FALSE,
                                 rows |-> FALSE, size |-> 0]
NoCursors == CursorsInit /\ used = {"s1"} /\ autocommit /\ txn = "IDLE"
                         /\ \A s \in ServerCursors : ~scursor[s].hold

\* With a client cursor the server cursor is not WITH HOLD, nor in autocommit.
Pair == used = {"c1", "s1"} => ~autocommit /\ \A s \in ServerCursors : ~scursor[s].hold

Init == \/ part = "copy"    /\ CopyInit    /\ NoCursors
        \/ part = "cursors" /\ CursorsInit /\ Pair /\ NoCopy
Next == \/ part = "copy"    /\ CopyNext    /\ UNCHANGED <<part, cursorsVars>>
        \/ part = "cursors" /\ CursorsNext /\ UNCHANGED <<part, copyVars>>
Spec == Init /\ [][Next]_<<part, copyVars, cursorsVars>> /\ CopyFair

-----------------------------------------------------------------------------

StatementsTypeOK == CopyTypeOK /\ CursorsTypeOK

\* What is left behind by a COPY block, a call on the connection, whatever
\* stopped it, and a server cursor that was closed: neither a COPY, nor a
\* worker in libpq, nor unread results, nor a portal.
LeavesNothingBehind == CopyLeavesConnection /\ NothingInFlight /\ ClosedLeavesNothing
=============================================================================
