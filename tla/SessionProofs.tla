--------------------------- MODULE SessionProofs ---------------------------
(***************************************************************************)
(* Theorems about Session, for any threads, blocks, names and failures.    *)
(***************************************************************************)
EXTENDS Session, SequenceTheorems, TLAPS

Statuses == {"IDLE", "INTRANS", "INERROR", "UNKNOWN"}

\* What the proofs need to know of a session of the server.
IsSession(s) == "status" \in DOMAIN s /\ s.status \in Statuses
IsOutcome(o) == o.ok \in BOOLEAN /\ IsSession(o.srv)

\* Sessions from sessions.
LEMMA Shapes ==
  ASSUME NEW s, IsSession(s)
  PROVE  /\ IsSession(Dead(s)) /\ Dead(s).status = "UNKNOWN"
         /\ IsSession(Ended(s))
         /\ IsSession(Aborted(s))
         /\ s.status # "IDLE" => Aborted(s).status # "IDLE"
BY DEF IsSession, Statuses, Dead, Ended, Aborted

\* Sessions make outcomes.
LEMMA MakesOutcome ==
  ASSUME NEW s, IsSession(s)
  PROVE  /\ IsOutcome(Done(s)) /\ Done(s).srv = s /\ Done(s).ok
         /\ IsOutcome(Failed(s)) /\ Failed(s).srv = s /\ ~Failed(s).ok
BY DEF IsOutcome, Done, Failed

\* The ways to fail, and to end a transaction.
LEMMA Failures ==
  ASSUME NEW s, IsSession(s)
  PROVE  /\ IsOutcome(Failed(Dead(s))) /\ Failed(Dead(s)).srv.status = "UNKNOWN"
         /\ IsOutcome(Failed(Aborted(s)))
         /\ s.status # "IDLE" => Failed(Aborted(s)).srv.status # "IDLE"
         /\ IsOutcome(Failed(Ended(s))) /\ IsOutcome(Done(Ended(s)))
<1>1. IsSession(Dead(s)) /\ IsSession(Aborted(s)) /\ IsSession(Ended(s))
  BY Shapes
<1>2. IsOutcome(Failed(Dead(s))) /\ Failed(Dead(s)).srv = Dead(s)
  BY <1>1, MakesOutcome
<1>3. IsOutcome(Failed(Aborted(s))) /\ Failed(Aborted(s)).srv = Aborted(s)
  BY <1>1, MakesOutcome
<1>4. IsOutcome(Failed(Ended(s))) /\ IsOutcome(Done(Ended(s)))
  BY <1>1, MakesOutcome
<1> QED BY <1>2, <1>3, <1>4, Shapes

\* The outcomes of a command, from those without a loss of the connection.
LEMMA AllOutcomes ==
  ASSUME NEW s, IsSession(s), NEW S, \A o \in S : IsOutcome(o)
  PROVE  /\ \A o \in Outcomes(s, S) : IsOutcome(o)
         /\ /\ s.status # "IDLE"
            /\ \A o \in S : o.srv.status # "IDLE"
            => \A o \in Outcomes(s, S) : o.srv.status # "IDLE"
<1> SUFFICES ASSUME NEW o \in Outcomes(s, S)
             PROVE  /\ IsOutcome(o)
                    /\ /\ s.status # "IDLE"
                       /\ \A p \in S : p.srv.status # "IDLE"
                       => o.srv.status # "IDLE"
  OBVIOUS
<1>1. \/ o = Failed(s)
      \/ o \in S
      \/ o = Failed(Dead(s))
      \/ \E p \in S : o = Failed(Dead(p.srv))
  BY DEF Outcomes
<1>2. CASE o = Failed(s)
  BY <1>2, MakesOutcome
<1>3. CASE o \in S
  BY <1>3
<1>4. CASE o = Failed(Dead(s))
  BY <1>4, Failures
<1>5. ASSUME NEW p \in S, o = Failed(Dead(p.srv))
      PROVE  IsOutcome(o) /\ o.srv.status # "IDLE"
  <2>1. IsSession(p.srv)
    BY DEF IsOutcome
  <2> QED BY <1>5, <2>1, Failures
<1> QED BY <1>1, <1>2, <1>3, <1>4, <1>5

\* Whatever a command does, it leaves a session, and a command about a
\* savepoint does not end the transaction.
LEMMA BeginOutcomes ==
  ASSUME NEW s, IsSession(s)
  PROVE  \A o \in Begin(s) : IsOutcome(o)
<1> DEFINE S ==
             {Done([s EXCEPT !.status = "INTRANS",
                             !.levels = <<Level(0)>>])}
<1>1. IsSession([s EXCEPT !.status = "INTRANS", !.levels = <<Level(0)>>])
  BY Shapes DEF IsSession, Statuses
<1>2. \A o \in S : IsOutcome(o)
  BY <1>1, MakesOutcome, Failures
<1>3. Begin(s) = Outcomes(s, S)
  BY DEF Begin
<1> HIDE DEF S
<1> QED BY <1>2, <1>3, AllOutcomes

LEMMA SavepointOutcomes ==
  ASSUME NEW s, IsSession(s), NEW n
  PROVE  /\ \A o \in Savepoint(s, n) : IsOutcome(o)
         /\ s.status # "IDLE" =>
              \A o \in Savepoint(s, n) : o.srv.status # "IDLE"
<1> DEFINE T == [s EXCEPT !.levels = Append(@, Level(n))]
           S == IF s.status = "INTRANS" THEN {Done(T)} ELSE {Failed(Aborted(s))}
<1>1. IsSession(T) /\ (s.status # "IDLE" => T.status # "IDLE")
  BY Shapes DEF IsSession, Statuses
<1> HIDE DEF T
<1>2. \A o \in S : IsOutcome(o) /\ (s.status # "IDLE" => o.srv.status # "IDLE")
  BY <1>1, MakesOutcome, Failures
<1>3. Savepoint(s, n) = Outcomes(s, S)
  BY DEF Savepoint, T
<1> HIDE DEF S
<1> QED BY <1>2, <1>3, AllOutcomes

LEMMA ReleaseOutcomes ==
  ASSUME NEW s, IsSession(s), NEW n
  PROVE  /\ \A o \in Release(s, n) : IsOutcome(o)
         /\ s.status # "IDLE" =>
              \A o \in Release(s, n) : o.srv.status # "IDLE"
<1> DEFINE T == [s EXCEPT !.levels = Merged(@, Latest(s, n))]
           S == IF s.status = "INTRANS" /\ Named(s, n) # {}
                THEN {Done(T)} ELSE {Failed(Aborted(s))}
<1>1. IsSession(T) /\ (s.status # "IDLE" => T.status # "IDLE")
  BY Shapes DEF IsSession, Statuses
<1> HIDE DEF T
<1>2. \A o \in S : IsOutcome(o) /\ (s.status # "IDLE" => o.srv.status # "IDLE")
  BY <1>1, MakesOutcome, Failures
<1>3. Release(s, n) = Outcomes(s, S)
  BY DEF Release, T
<1> HIDE DEF S
<1> QED BY <1>2, <1>3, AllOutcomes

LEMMA RollbackToOutcomes ==
  ASSUME NEW s, IsSession(s), NEW n
  PROVE  /\ \A o \in RollbackTo(s, n) : IsOutcome(o)
         /\ s.status # "IDLE" =>
              \A o \in RollbackTo(s, n) : o.srv.status # "IDLE"
<1> DEFINE T == [s EXCEPT !.status = "INTRANS", !.levels =
                   Append(SubSeq(@, 1, Latest(s, n) - 1), Level(n))]
           S == IF s.status # "IDLE" /\ Named(s, n) # {}
                THEN {Done(T)} ELSE {Failed(Aborted(s))}
<1>1. IsSession(T) /\ (s.status # "IDLE" => T.status # "IDLE")
  BY Shapes DEF IsSession, Statuses
<1> HIDE DEF T
<1>2. \A o \in S : IsOutcome(o) /\ (s.status # "IDLE" => o.srv.status # "IDLE")
  BY <1>1, MakesOutcome, Failures
<1>3. RollbackTo(s, n) = Outcomes(s, S)
  BY DEF RollbackTo, T
<1> HIDE DEF S
<1> QED BY <1>2, <1>3, AllOutcomes

LEMMA CommitOutcomes ==
  ASSUME NEW s, IsSession(s)
  PROVE  \A o \in Commit(s) : IsOutcome(o)
<1> DEFINE T == [Ended(s) EXCEPT !.committed = @ \cup Pending(s)]
           S == CASE s.status = "INTRANS" -> {Done(T), Failed(Ended(s))}
                  [] OTHER -> {Done(Ended(s))}
<1>1. IsSession(T)
  BY Shapes DEF IsSession, Statuses
<1> HIDE DEF T
<1>2. \A o \in S : IsOutcome(o)
  BY <1>1, MakesOutcome, Failures
<1>3. Commit(s) = Outcomes(s, S)
  BY DEF Commit, T
<1> HIDE DEF S
<1> QED BY <1>2, <1>3, AllOutcomes

LEMMA RollbackOutcomes ==
  ASSUME NEW s, IsSession(s)
  PROVE  \A o \in Rollback(s) : IsOutcome(o)
<1> DEFINE S ==
             {Done(Ended(s))}
<1>1. \A o \in S : IsOutcome(o)
  BY MakesOutcome, Failures
<1>2. Rollback(s) = Outcomes(s, S)
  BY DEF Rollback
<1> HIDE DEF S
<1> QED BY <1>1, <1>2, AllOutcomes

LEMMA PrepareOutcomes ==
  ASSUME NEW s, IsSession(s), NEW x
  PROVE  \A o \in Prepare(s, x) : IsOutcome(o)
<1> DEFINE T == [Ended(s) EXCEPT !.prepared = @ \cup {[xid |-> x, rows |-> Pending(s)]}]
           S == CASE s.status = "INTRANS" ->
                       {Failed(Ended(s))}
                       \cup IF \E p \in s.prepared : p.xid = x THEN {} ELSE {Done(T)}
                  [] OTHER -> {Done(Ended(s))}
<1>1. IsSession(T)
  BY Shapes DEF IsSession, Statuses
<1> HIDE DEF T
<1>2. \A o \in S : IsOutcome(o)
  BY <1>1, MakesOutcome, Failures
<1>3. Prepare(s, x) = Outcomes(s, S)
  BY DEF Prepare, T
<1> HIDE DEF S
<1> QED BY <1>2, <1>3, AllOutcomes

LEMMA FinishOutcomes ==
  ASSUME NEW s, IsSession(s), NEW x, NEW commits
  PROVE  \A o \in FinishPrepared(s, x, commits) : IsOutcome(o)
<1> DEFINE T == [s EXCEPT !.prepared = {p \in @ : p.xid # x},
                         !.committed = IF commits
                           THEN @ \cup UNION {p.rows : p \in {q \in s.prepared : q.xid = x}}
                           ELSE @]
           S == IF s.status = "IDLE" /\ \E p \in s.prepared : p.xid = x
                THEN {Done(T)} ELSE {Failed(Aborted(s))}
<1>1. IsSession(T)
  BY Shapes DEF IsSession, Statuses
<1> HIDE DEF T
<1>2. \A o \in S : IsOutcome(o)
  BY <1>1, MakesOutcome, Failures
<1>3. FinishPrepared(s, x, commits) = Outcomes(s, S)
  BY DEF FinishPrepared, T
<1> HIDE DEF S
<1> QED BY <1>2, <1>3, AllOutcomes

LEMMA WriteOutcomes ==
  ASSUME NEW s, IsSession(s), NEW w
  PROVE  \A o \in Write(s, w) : IsOutcome(o)
<1> DEFINE S ==
             CASE s.status = "IDLE" ->
                    {Done([s EXCEPT !.committed = @ \cup w]), Failed(s)}
               [] s.status = "INTRANS" ->
                    {Done([s EXCEPT !.levels[Len(s.levels)].rows = @ \cup w]),
                     Failed(Aborted(s))}
               [] OTHER -> {Failed(s)}
<1>1. IsSession([s EXCEPT !.committed = @ \cup w])
  BY Shapes DEF IsSession, Statuses
<1>2. IsSession([s EXCEPT !.levels[Len(s.levels)].rows = @ \cup w])
  BY Shapes DEF IsSession, Statuses
<1>3. \A o \in S : IsOutcome(o)
  BY <1>1, <1>2, MakesOutcome, Failures
<1>4. Write(s, w) = Outcomes(s, S)
  BY DEF Write
<1> HIDE DEF S
<1> QED BY <1>3, <1>4, AllOutcomes

\* The same of the commands of a block.
LEMMA BlockCommands ==
  ASSUME IsSession(server), NEW tx, NEW n, NEW outer \in BOOLEAN
  PROVE  /\ \A o \in EnterCommands(outer, n) : IsOutcome(o)
         /\ \A o \in CommitCommands(tx) : IsOutcome(o)
         /\ \A o \in RollbackCommands(tx) : IsOutcome(o)
         /\ ~outer /\ server.status # "IDLE" =>
              \A o \in EnterCommands(outer, n) : o.srv.status # "IDLE"
         /\ ~tx.outer /\ server.status # "IDLE" =>
              /\ \A o \in CommitCommands(tx) : o.srv.status # "IDLE"
              /\ \A o \in RollbackCommands(tx) : o.srv.status # "IDLE"
<1>1. \A o \in EnterCommands(outer, n) : IsOutcome(o)
  <2>1. ASSUME NEW s, IsSession(s) PROVE \A o \in Savepoint(s, n) : IsOutcome(o)
    BY <2>1, SavepointOutcomes
  <2>2. \A o \in Begin(server) : IsOutcome(o)
    BY BeginOutcomes
  <2>3. IsOutcome(Done(server))
    BY MakesOutcome
  <2> DEFINE began == IF outer THEN Begin(server) ELSE {Done(server)}
  <2>4. \A o \in began : IsOutcome(o) /\ IsSession(o.srv)
    BY <2>2, <2>3 DEF IsOutcome
  <2>5. EnterCommands(outer, n) =
          IF n # 0 THEN Then(began, LAMBDA s : Savepoint(s, n)) ELSE began
    BY DEF EnterCommands
  <2> HIDE DEF began
  <2> QED BY <2>1, <2>4, <2>5 DEF Then
<1>2. \A o \in CommitCommands(tx) : IsOutcome(o)
  BY CommitOutcomes, ReleaseOutcomes DEF CommitCommands
<1>3. \A o \in RollbackCommands(tx) : IsOutcome(o)
  BY RollbackOutcomes, RollbackToOutcomes, ReleaseOutcomes
  DEF RollbackCommands, Then, IsOutcome
<1>4. ASSUME ~outer, server.status # "IDLE"
      PROVE  \A o \in EnterCommands(outer, n) : o.srv.status # "IDLE"
  BY <1>4, SavepointOutcomes DEF EnterCommands, Then, Done
<1>5. ASSUME ~tx.outer, server.status # "IDLE"
      PROVE  /\ \A o \in CommitCommands(tx) : o.srv.status # "IDLE"
             /\ \A o \in RollbackCommands(tx) : o.srv.status # "IDLE"
  BY <1>5, RollbackToOutcomes, ReleaseOutcomes
  DEF CommitCommands, RollbackCommands, Then, IsOutcome
<1> QED BY <1>1, <1>2, <1>3, <1>4, <1>5
-----------------------------------------------------------------------------
(* The inductive invariant: next to the types, a block is counted as long   *)
(* as it is live (a block that failed to enter may be counted too), and the *)
(* block that began the transaction was the first.                          *)

IInv ==
  /\ TypeOK
  /\ IsSession(server)
  /\ Len(live) <= num_transactions
  /\ \A i \in DOMAIN live : live[i].outer => live[i].index = 0

LEMMA InitIInv == Init => IInv
BY SessionAssumption DEF Init, IInv, TypeOK, IsSession, Statuses, NewSession, NoTpc,
   NoExc, Exc, ExcType, States, Tx

\* A live block has the type of one.
LEMMA LiveTypes ==
  ASSUME TypeOK, NEW t, NEW i \in Own(t)
  PROVE  /\ live \in Seq(Tx) /\ Len(live) \in Nat /\ i \in 1..Len(live)
         /\ live[i] \in Tx /\ live[i].block \in Blocks
<1>1. live \in Seq(Tx)
  BY DEF TypeOK
<1>2. i \in 1..Len(live) /\ Len(live) \in Nat
  BY <1>1 DEF Own
<1>3. live[i] \in Tx
  BY <1>1, <1>2
<1> QED BY <1>1, <1>2, <1>3 DEF Tx

\* A sequence without its i-th element, place by place.
LEMMA WithoutAt ==
  ASSUME NEW S, NEW q \in Seq(S), NEW i \in 1..Len(q)
  PROVE  LET rest == SubSeq(q, 1, i - 1) \o SubSeq(q, i + 1, Len(q))
         IN  /\ rest \in Seq(S) /\ Len(rest) = Len(q) - 1
             /\ \A j \in 1..Len(rest) : rest[j] = IF j < i THEN q[j] ELSE q[j + 1]
<1> DEFINE u == SubSeq(q, 1, i - 1)
           v == SubSeq(q, i + 1, Len(q))
<1>0. Len(q) \in Nat
  OBVIOUS
<1>1. /\ u \in Seq(S) /\ Len(u) = i - 1
      /\ \A j \in 1..(i - 1) : u[j] = q[j]
  BY <1>0
<1>2. /\ v \in Seq(S) /\ Len(v) = Len(q) - i
      /\ \A j \in 1..(Len(q) - i) : v[j] = q[i + j]
  BY <1>0
<1> HIDE DEF u, v
<1>3. /\ u \o v \in Seq(S) /\ Len(u \o v) = Len(u) + Len(v)
      /\ \A j \in 1..Len(u) + Len(v) :
           (u \o v)[j] = IF j <= Len(u) THEN u[j] ELSE v[j - Len(u)]
  BY <1>1, <1>2, ConcatProperties, Zenon
<1>4. ASSUME NEW j \in 1..Len(u \o v)
      PROVE  (u \o v)[j] = IF j < i THEN q[j] ELSE q[j + 1]
  <2>1. CASE j <= i - 1
    <3>1. j \in 1..(i - 1) /\ j < i
      BY <1>0, <2>1
    <3>2. (u \o v)[j] = u[j]
      BY <1>1, <1>2, <1>3, <2>1
    <3> QED BY <1>1, <3>1, <3>2
  <2>2. CASE j > i - 1
    <3>1. j - (i - 1) \in 1..(Len(q) - i) /\ i + (j - (i - 1)) = j + 1 /\ ~(j < i)
      BY <1>0, <1>1, <1>2, <1>3, <2>2
    <3>2. (u \o v)[j] = v[j - (i - 1)]
      BY <1>1, <1>2, <1>3, <2>2
    <3> QED BY <1>2, <3>1, <3>2
  <2> QED BY <1>0, <1>1, <2>1, <2>2
<1>5. Len(u \o v) = Len(q) - 1
  BY <1>0, <1>1, <1>2, <1>3
<1> QED BY <1>3, <1>4, <1>5 DEF u, v

\* ... whose elements are among those of the sequence.
LEMMA WithoutOne ==
  ASSUME NEW S, NEW q \in Seq(S), NEW i \in 1..Len(q)
  PROVE  LET rest == SubSeq(q, 1, i - 1) \o SubSeq(q, i + 1, Len(q))
         IN  /\ rest \in Seq(S) /\ Len(rest) = Len(q) - 1
             /\ \A j \in 1..Len(rest) : \E k \in 1..Len(q) : rest[j] = q[k]
<1> DEFINE rest == SubSeq(q, 1, i - 1) \o SubSeq(q, i + 1, Len(q))
<1>1. /\ rest \in Seq(S) /\ Len(rest) = Len(q) - 1
      /\ \A j \in 1..Len(rest) : rest[j] = IF j < i THEN q[j] ELSE q[j + 1]
  BY WithoutAt
<1> HIDE DEF rest
<1>2. ASSUME NEW j \in 1..Len(rest) PROVE \E k \in 1..Len(q) : rest[j] = q[k]
  <2>1. j \in 1..Len(q) /\ j + 1 \in 1..Len(q)
    BY <1>1
  <2> QED BY <1>1, <2>1
<1> QED BY <1>1, <1>2 DEF rest

\* What an action that leaves the blocks alone has to keep.
LEMMA Frame ==
  ASSUME IInv, UNCHANGED <<num_transactions, state, live>>,
         IsSession(server'), autocommit' \in BOOLEAN,
         tpc' \in [xid : Xids \cup {NoXid}, prepared : BOOLEAN],
         raising' \in [Threads -> ExcType], orderly' \in BOOLEAN
  PROVE  IInv'
BY DEF IInv, TypeOK, IsSession, Statuses

\* The exception of a thread.
LEMMA Raises ==
  ASSUME TypeOK, NEW t \in Threads
  PROVE  /\ Error \in ExcType /\ NoExc \in ExcType
         /\ \A e \in ExcType : Raise(t, e) => raising' \in [Threads -> ExcType]
         /\ \A o : Answer(t, o) => raising' \in [Threads -> ExcType]
         /\ Refuse(t) => raising' \in [Threads -> ExcType]
<1>1. Error \in ExcType /\ NoExc \in ExcType
  BY DEF Error, NoExc, Exc, ExcType
<1>2. \A e \in ExcType : Raise(t, e) => raising' \in [Threads -> ExcType]
  BY DEF Raise, TypeOK
<1>3. \A o : Answer(t, o) => raising' \in [Threads -> ExcType]
  BY <1>1, <1>2 DEF Answer
<1>4. Refuse(t) => raising' \in [Threads -> ExcType]
  BY <1>1, <1>2 DEF Refuse
<1> QED BY <1>1, <1>2, <1>3, <1>4

\* A call that answers an outcome of a command.
LEMMA Answers ==
  ASSUME TypeOK, NEW t \in Threads, NEW o, IsOutcome(o), Answer(t, o)
  PROVE  IsSession(server') /\ raising' \in [Threads -> ExcType]
BY Raises DEF Answer, IsOutcome

\* A call that is refused.
LEMMA Refuses ==
  ASSUME IInv, NEW t \in Threads, Refuse(t), UNCHANGED <<state, live>>,
         orderly' \in BOOLEAN
  PROVE  IInv'
<1>1. raising' \in [Threads -> ExcType]
  BY Raises DEF IInv
<1> QED BY <1>1, Frame DEF Refuse, calls, IInv, TypeOK

LEMMA EnterKeepsIInv ==
  ASSUME IInv, NEW t \in Threads, NEW b \in Blocks, enter(t, b)
  PROVE  IInv'
<1> DEFINE outer == server.status = "IDLE"
           name == PushName(outer, NameOf[b])
<1> USE DEF IInv, TypeOK
<1>0. autocommit' = autocommit /\ tpc' = tpc
  BY DEF enter
<1>1. CASE outer /\ num_transactions # 0
  <2>1. /\ state' = [state EXCEPT ![b] = "failed"] /\ Raise(t, Error)
        /\ UNCHANGED <<server, num_transactions, live, orderly>>
    BY <1>1 DEF enter
  <2>2. state' \in [Blocks -> States]
    BY <2>1 DEF States
  <2>3. raising' \in [Threads -> ExcType]
    BY <2>1, Raises
  <2> QED BY <1>0, <2>1, <2>2, <2>3 DEF IsSession
<1>2. CASE ~(outer /\ num_transactions # 0)
  <2>1. PICK o \in EnterCommands(outer, name) :
          /\ Answer(t, o)
          /\ num_transactions' = num_transactions + 1
          /\ state' = [state EXCEPT ![b] = IF o.ok THEN "live" ELSE "failed"]
          /\ live' = IF ~o.ok THEN live ELSE
               Append(live, [block |-> b, by |-> t, outer |-> outer,
                             name |-> name, index |-> num_transactions])
          /\ orderly' = (orderly /\ server.status # "INERROR")
    BY <1>2 DEF enter
  <2>2. outer \in BOOLEAN
    OBVIOUS
  <2>3. IsOutcome(o)
    BY <2>1, <2>2, BlockCommands
  <2>4. IsSession(server') /\ raising' \in [Threads -> ExcType]
    BY <2>1, <2>3, Answers
  <2>5. state' \in [Blocks -> States]
    BY <2>1 DEF States
  <2>6. name \in Int
    BY SessionAssumption DEF PushName
  <2> DEFINE tx == [block |-> b, by |-> t, outer |-> outer,
                    name |-> name, index |-> num_transactions]
  <2>7. tx \in Tx /\ (tx.outer => tx.index = 0)
    BY <1>2, <2>6 DEF Tx
  <2>8. live' \in Seq(Tx) /\ Len(live') <= num_transactions'
        /\ \A i \in DOMAIN live' : live'[i].outer => live'[i].index = 0
    <3> HIDE DEF tx
    <3>1. live' = live \/ live' = Append(live, tx)
      BY <2>1 DEF tx
    <3> QED BY <2>1, <2>7, <3>1
  <2>9. orderly' \in BOOLEAN
    BY <2>1
  <2> QED BY <1>0, <2>1, <2>4, <2>5, <2>8, <2>9 DEF IsSession, Statuses
<1> QED BY <1>1, <1>2

LEMMA ExitKeepsIInv ==
  ASSUME IInv, NEW t \in Threads, NEW i \in Own(t), exit(t, i)
  PROVE  IInv'
<1> DEFINE tx == live[i]
           rest == SubSeq(live, 1, i - 1) \o SubSeq(live, i + 1, Len(live))
<1> USE DEF IInv, TypeOK
<1>1. /\ live \in Seq(Tx) /\ Len(live) \in Nat /\ i \in 1..Len(live)
      /\ tx \in Tx /\ tx.block \in Blocks
  BY LiveTypes
<1>2. /\ rest \in Seq(Tx) /\ Len(rest) = Len(live) - 1
      /\ \A j \in 1..Len(rest) : \E k \in 1..Len(live) : rest[j] = live[k]
  <2> HIDE DEF IInv, TypeOK
  <2> QED BY <1>1, WithoutOne
<1>3. /\ live' = rest /\ orderly' \in BOOLEAN
      /\ autocommit' = autocommit /\ tpc' = tpc
  BY DEF exit
<1>4. \A j \in DOMAIN live' : live'[j].outer => live'[j].index = 0
  <2> HIDE DEF rest
  <2>1. DOMAIN live' = 1..Len(live') /\ live' = rest
    BY <1>2, <1>3
  <2>2. DOMAIN live = 1..Len(live)
    BY <1>1
  <2>3. \A k \in 1..Len(live) : live[k].outer => live[k].index = 0
    BY <2>2
  <2>4. ASSUME NEW j \in DOMAIN live'
        PROVE  live'[j].outer => live'[j].index = 0
    <3>1. PICK k \in 1..Len(live) : rest[j] = live[k]
      BY <1>2, <2>1
    <3> QED BY <2>1, <2>3, <3>1
  <2> QED BY <2>4
<1>5. state' \in [Blocks -> States]
  <2>1. \E x \in States : state' = [state EXCEPT ![tx.block] = x]
    BY DEF exit, ExitClean, ExitUndo, States
  <2> QED BY <1>1, <2>1
<1>6. num_transactions' \in {num_transactions, num_transactions - 1}
  BY DEF exit, Popped
<1>7. num_transactions' \in Nat /\ Len(live') <= num_transactions'
  <2>1. num_transactions \in Nat /\ Len(live) <= num_transactions
    OBVIOUS
  <2>2. Len(live') = Len(live) - 1 /\ Len(live) >= 1
    <3> HIDE DEF rest, IInv, TypeOK
    <3> QED BY <1>1, <1>2, <1>3
  <2> QED BY <1>1, <1>6, <2>1, <2>2
<1>8. IsSession(server') /\ raising' \in [Threads -> ExcType]
  <2>1. CASE server.status = "UNKNOWN"
    BY <2>1 DEF exit, IsSession
  <2>2. CASE server.status # "UNKNOWN" /\ OutOfOrder(tx) /\ Raise(t, Error)
                                       /\ UNCHANGED server
    BY <2>2, Raises DEF IsSession
  <2>3. CASE ExitClean(t, tx)
    <3>1. PICK o \in CommitCommands(tx) : Answer(t, o)
      BY <2>3 DEF ExitClean
    <3>2. IsOutcome(o)
      BY <3>1, BlockCommands
    <3> QED BY <3>1, <3>2, Answers
  <2>4. CASE ExitUndo(t, tx)
    <3> DEFINE e == raising[t]
    <3>1. PICK o \in RollbackCommands(tx) :
            /\ server' = o.srv
            /\ Raise(t, IF o.ok /\ Swallows(tx.block, e) THEN NoExc ELSE e)
      BY <2>4 DEF ExitUndo
    <3>2. IsOutcome(o)
      BY <3>1, BlockCommands
    <3>3. e \in ExcType
      OBVIOUS
    <3> QED BY <3>1, <3>2, <3>3, Raises DEF IsOutcome
  <2> QED BY <2>1, <2>2, <2>3, <2>4 DEF exit
<1> QED BY <1>3, <1>2, <1>4, <1>5, <1>7, <1>8 DEF IsSession, Statuses

LEMMA ExecuteKeepsIInv ==
  ASSUME IInv, NEW t \in Threads, NEW w, execute(t, w)
  PROVE  IInv'
<1> DEFINE starts == ~autocommit /\ server.status = "IDLE"
           began == IF starts THEN Begin(server) ELSE {Done(server)}
<1>1. PICK o \in Then(began, LAMBDA s : Write(s, w)) : Answer(t, o)
  BY DEF execute
<1>2. \A p \in began : IsOutcome(p) /\ IsSession(p.srv)
  BY BeginOutcomes, MakesOutcome DEF IInv, IsOutcome
<1>3. ASSUME NEW s, IsSession(s) PROVE \A p \in Write(s, w) : IsOutcome(p)
  BY <1>3, WriteOutcomes
<1>4. IsOutcome(o)
  <2> HIDE DEF began
  <2> QED BY <1>1, <1>2, <1>3 DEF Then
<1>5. IsSession(server') /\ raising' \in [Threads -> ExcType]
  BY <1>1, <1>4, Answers DEF IInv
<1>6. UNCHANGED <<num_transactions, state, live, autocommit, tpc, orderly>>
  BY DEF execute, calls
<1> QED BY <1>5, <1>6, Frame DEF IInv, TypeOK

\* commit() and rollback() alike: refused, or one command or none.
LEMMA EndKeepsIInv ==
  ASSUME IInv, NEW t \in Threads, commit(t) \/ rollback(t)
  PROVE  IInv'
<1>0. UNCHANGED <<state, live, orderly>>
  BY DEF commit, rollback, history
<1>1. CASE Refuse(t)
  BY <1>0, <1>1, Refuses DEF IInv, TypeOK
<1>2. CASE /\ UNCHANGED calls
           /\ \E o \in Commit(server) \cup Rollback(server) \cup {Done(server)} :
                Answer(t, o)
  <2>1. PICK o \in Commit(server) \cup Rollback(server) \cup {Done(server)} :
          Answer(t, o)
    BY <1>2
  <2>2. IsOutcome(o)
    BY CommitOutcomes, RollbackOutcomes, MakesOutcome DEF IInv
  <2>3. IsSession(server') /\ raising' \in [Threads -> ExcType]
    BY <2>1, <2>2, Answers DEF IInv
  <2> QED BY <1>0, <1>2, <2>3, Frame DEF IInv, TypeOK, calls
<1> QED BY <1>1, <1>2 DEF commit, rollback

LEMMA TpcKeepsIInv ==
  ASSUME IInv, NEW t \in Threads,
         \/ tpc_prepare(t)
         \/ \E x \in Xids : tpc_begin(t, x)
         \/ \E commits \in BOOLEAN :
              tpc_finish(t, commits) \/ \E x \in Xids : tpc_recovered(t, x, commits)
  PROVE  IInv'
<1> DEFINE TpcType == [xid : Xids \cup {NoXid}, prepared : BOOLEAN]
<1>0. UNCHANGED <<state, live>> /\ orderly' \in BOOLEAN
  BY DEF tpc_prepare, tpc_begin, tpc_finish, tpc_recovered, TpcCall, IInv, TypeOK
<1>1. CASE Refuse(t)
  BY <1>0, <1>1, Refuses
<1>2. ASSUME UNCHANGED <<autocommit, num_transactions>>, tpc' \in TpcType,
             NEW o, IsOutcome(o), Answer(t, o)
      PROVE  IInv'
  <2>1. IsSession(server') /\ raising' \in [Threads -> ExcType]
    BY <1>2, Answers DEF IInv
  <2> QED BY <1>0, <1>2, <2>1, Frame DEF IInv, TypeOK
<1>3. NoTpc \in TpcType /\ tpc \in TpcType
  BY DEF NoTpc, IInv, TypeOK
<1>4. ASSUME NEW x \in Xids, tpc_begin(t, x), ~Refuse(t) PROVE IInv'
  <2>1. PICK o \in Begin(server) : Answer(t, o)
    BY <1>4 DEF tpc_begin
  <2>2. IsOutcome(o)
    BY BeginOutcomes DEF IInv
  <2>3. /\ tpc' = [xid |-> x, prepared |-> FALSE]
        /\ UNCHANGED <<autocommit, num_transactions>>
    BY <1>4 DEF tpc_begin
  <2>4. tpc' \in TpcType
    BY <2>3
  <2> QED BY <1>2, <2>1, <2>2, <2>3, <2>4
<1>5. ASSUME tpc_prepare(t), ~Refuse(t) PROVE IInv'
  <2>1. PICK o \in Prepare(server, tpc.xid) : Answer(t, o)
    BY <1>5 DEF tpc_prepare
  <2>2. IsOutcome(o)
    BY PrepareOutcomes DEF IInv
  <2>3. tpc' \in TpcType
    BY <1>3, <1>5 DEF tpc_prepare
  <2> QED BY <1>2, <1>5, <2>1, <2>2, <2>3 DEF tpc_prepare
<1>6. ASSUME NEW commits \in BOOLEAN, FinishOnePhase(t, commits),
             UNCHANGED <<autocommit, num_transactions>>
      PROVE  IInv'
  <2>1. tpc' \in TpcType
    BY <1>3, <1>6 DEF FinishOnePhase
  <2>2. CASE Raise(t, Error) /\ UNCHANGED server
    <3>1. raising' \in [Threads -> ExcType]
      BY <2>2, Raises DEF IInv
    <3>2. IsSession(server') /\ autocommit' \in BOOLEAN
      BY <1>6, <2>2 DEF IInv, TypeOK, IsSession
    <3> QED BY <1>0, <1>6, <2>1, <3>1, <3>2, Frame
  <2>3. CASE \E o \in Commit(server) \cup Rollback(server) \cup {Done(server)} :
               Answer(t, o)
    <3>1. PICK o \in Commit(server) \cup Rollback(server) \cup {Done(server)} :
            Answer(t, o)
      BY <2>3
    <3>2. IsOutcome(o)
      BY CommitOutcomes, RollbackOutcomes, MakesOutcome DEF IInv
    <3> QED BY <1>2, <1>6, <2>1, <3>1, <3>2
  <2> QED BY <1>6, <2>2, <2>3 DEF FinishOnePhase
<1>7. ASSUME NEW commits \in BOOLEAN, NEW x, FinishTwoPhase(t, x, commits),
             UNCHANGED <<autocommit, num_transactions>>
      PROVE  IInv'
  <2>1. PICK o \in FinishPrepared(server, x, commits) :
          Answer(t, o) /\ tpc' = IF o.ok THEN NoTpc ELSE tpc
    BY <1>7 DEF FinishTwoPhase
  <2>2. IsOutcome(o)
    BY FinishOutcomes DEF IInv
  <2> QED BY <1>2, <1>3, <1>7, <2>1, <2>2
<1>8. ASSUME NEW commits \in BOOLEAN, tpc_finish(t, commits) PROVE IInv'
  BY <1>1, <1>6, <1>7, <1>8 DEF tpc_finish
<1>9. ASSUME NEW commits \in BOOLEAN, NEW x \in Xids, tpc_recovered(t, x, commits)
      PROVE  IInv'
  BY <1>1, <1>7, <1>9 DEF tpc_recovered
<1> QED BY <1>1, <1>4, <1>5, <1>8, <1>9

\* The calls that send no command.
LEMMA LocalKeepsIInv ==
  ASSUME IInv, NEW t \in Threads,
         \/ \E e \in Raised(t) : raise(t, e)
         \/ catch(t) \/ close(t)
         \/ \E value \in BOOLEAN : set_autocommit(t, value)
  PROVE  IInv'
<1>1. ASSUME NEW e \in Raised(t), raise(t, e) PROVE IInv'
  <2>1. e \in ExcType
    <3>1. \A i \in Own(t) : live[i].block \in Blocks
      BY LiveTypes DEF IInv
    <3> QED BY <3>1 DEF Raised, Exc, Error, ExcType
  <2>2. raising' \in [Threads -> ExcType]
    BY <1>1, <2>1, Raises DEF raise, IInv
  <2> QED BY <1>1, <2>2, Frame DEF raise, calls, history, IInv, TypeOK, IsSession
<1>2. ASSUME catch(t) PROVE IInv'
  <2>1. raising' \in [Threads -> ExcType]
    BY <1>2, Raises DEF catch, IInv
  <2> QED BY <1>2, <2>1, Frame DEF catch, calls, history, IInv, TypeOK, IsSession
<1>3. ASSUME close(t) PROVE IInv'
  <2>1. IsSession(server')
    BY <1>3, Shapes DEF close, IInv
  <2> QED BY <1>3, <2>1, Frame DEF close, calls, history, IInv, TypeOK
<1>4. ASSUME NEW value \in BOOLEAN, set_autocommit(t, value) PROVE IInv'
  <2>1. CASE Refuse(t)
    BY <1>4, <2>1, Refuses DEF set_autocommit, history, IInv, TypeOK
  <2>2. CASE ~Refuse(t)
    BY <1>4, <2>2, Frame DEF set_autocommit, history, IInv, TypeOK, IsSession
  <2> QED BY <2>1, <2>2
<1> QED BY <1>1, <1>2, <1>3, <1>4

LEMMA NextKeepsIInv == IInv /\ [Next]_vars => IInv'
<1> SUFFICES ASSUME IInv, [Next]_vars PROVE IInv'
  OBVIOUS
<1>1. CASE UNCHANGED vars
  BY <1>1 DEF vars, calls, history, IInv, TypeOK, IsSession
<1>2. CASE Next
  <2>1. PICK t \in Threads :
          \/ \E b \in Blocks : enter(t, b)
          \/ \E i \in Own(t) : exit(t, i)
          \/ \E w : execute(t, w)
          \/ commit(t) \/ rollback(t)
          \/ \/ \E e \in Raised(t) : raise(t, e)
             \/ catch(t) \/ close(t)
             \/ \E value \in BOOLEAN : set_autocommit(t, value)
          \/ \/ tpc_prepare(t)
             \/ \E x \in Xids : tpc_begin(t, x)
             \/ \E commits \in BOOLEAN :
                  tpc_finish(t, commits)
                  \/ \E x \in Xids : tpc_recovered(t, x, commits)
    BY <1>2 DEF Next
  <2> QED BY <2>1, EnterKeepsIInv, ExitKeepsIInv, ExecuteKeepsIInv, EndKeepsIInv,
             LocalKeepsIInv, TpcKeepsIInv
<1> QED BY <1>1, <1>2

\* The attributes of the connection and of its blocks keep to their types: in
\* particular _num_transactions never gets negative (_pop_savepoint).
THEOREM SessionTypes == Spec => []TypeOK
<1>1. IInv => TypeOK
  BY DEF IInv
<1> QED BY InitIInv, NextKeepsIInv, <1>1, PTL DEF Spec

\* Only the exit of a block that began the transaction can end it.
LEMMA ExitEndsAlone ==
  ASSUME IInv, NEW t \in Threads, NEW i \in Own(t), exit(t, i),
         server.status \in {"INTRANS", "INERROR"}, server'.status = "IDLE"
  PROVE  Len(live) = 1
<1> DEFINE tx == live[i]
<1>1. ~OutOfOrder(tx) /\ (ExitClean(t, tx) \/ ExitUndo(t, tx))
  BY DEF exit
<1>2. \E o \in CommitCommands(tx) \cup RollbackCommands(tx) : server' = o.srv
  BY <1>1 DEF ExitClean, ExitUndo, Answer
<1>3. tx.outer
  BY <1>2, BlockCommands DEF IInv
<1>4. i \in 1..Len(live) /\ tx.index = 0
  BY <1>3 DEF Own, IInv, TypeOK
<1>5. num_transactions = 1
  BY <1>1, <1>4 DEF OutOfOrder, Popped, IInv, TypeOK
<1>6. i \in 1..Len(live) /\ Len(live) \in Nat /\ Len(live) <= 1
  BY <1>5, LiveTypes DEF IInv
<1> QED BY <1>6

\* The transaction never ends at the exit of a block while another block is
\* live, whatever the threads do and whatever fails (_pop_savepoint).
THEOREM EndsAloneCorrect == Spec => EndsAlone
<1> DEFINE A == live' # live /\ server.status \in {"INTRANS", "INERROR"}
                /\ server'.status = "IDLE" => Len(live) = 1
<1>1. IInv /\ [Next]_vars => [A]_vars
  <2> SUFFICES ASSUME IInv, Next, live' # live,
                      server.status \in {"INTRANS", "INERROR"},
                      server'.status = "IDLE"
               PROVE  Len(live) = 1
    OBVIOUS
  <2>1. PICK t \in Threads : (\E b \in Blocks : enter(t, b))
                             \/ (\E i \in Own(t) : exit(t, i))
    BY DEF Next, raise, catch, execute, commit, rollback, close, set_autocommit,
           tpc_prepare, tpc_begin, tpc_finish, tpc_recovered, TpcCall
  <2>2. ASSUME NEW b \in Blocks, enter(t, b) PROVE FALSE
    <3>1. PICK n : \E o \in EnterCommands(FALSE, n) : server' = o.srv
      BY <2>2 DEF enter, Answer
    <3> QED BY <3>1, BlockCommands DEF IInv
  <2> QED BY <2>1, <2>2, ExitEndsAlone
<1> QED BY InitIInv, NextKeepsIInv, <1>1, PTL DEF Spec, EndsAlone

-----------------------------------------------------------------------------
(* Two-phase transactions                                                   *)

\* A block that began the transaction: the transaction is in progress as long
\* as the block is live, and it is not a two-phase one that is to be prepared.
OuterIsOpen ==
  \A i \in DOMAIN live : live[i].outer =>
    server.status # "IDLE" /\ ~(InTpc /\ ~tpc.prepared)

TpcInv == TpcIsOpen /\ OuterIsOpen

LEMMA InitTpcInv == Init => TpcInv
BY DEF Init, TpcInv, TpcIsOpen, OuterIsOpen, InTpc, NoTpc

\* BEGIN does not leave the session idle.
LEMMA BeginOpens ==
  ASSUME NEW s, IsSession(s)
  PROVE  \A o \in Begin(s) : o.srv.status # "IDLE"
<1> DEFINE T == [s EXCEPT !.status = "INTRANS", !.levels = <<Level(0)>>]
<1>1. IsSession(T) /\ T.status # "IDLE"
  BY DEF IsSession, Statuses
<1> HIDE DEF T
<1>2. Done(T).srv.status # "IDLE" /\ IsOutcome(Done(T))
  BY <1>1, MakesOutcome
<1>3. Begin(s) = Outcomes(s, {Done(T)})
  BY DEF Begin, T
<1>4. SUFFICES ASSUME NEW o \in Outcomes(s, {Done(T)}) PROVE o.srv.status # "IDLE"
  BY <1>3
<1>5. \/ o = Failed(s) /\ s.status = "UNKNOWN"
      \/ o = Done(T) \/ o = Failed(Dead(s)) \/ o = Failed(Dead(Done(T).srv))
  BY DEF Outcomes
<1>6. IsSession(Done(T).srv)
  BY <1>2 DEF IsOutcome
<1> QED BY <1>2, <1>5, <1>6, MakesOutcome, Failures

\* A command of a prepared transaction, or a statement, does not end the
\* transaction in progress.
LEMMA FinishStaysOpen ==
  ASSUME NEW s, IsSession(s), s.status # "IDLE", NEW x, NEW commits
  PROVE  \A o \in FinishPrepared(s, x, commits) : o.srv.status # "IDLE"
<1> DEFINE S == {Failed(Aborted(s))}
<1>1. FinishPrepared(s, x, commits) = Outcomes(s, S)
  BY DEF FinishPrepared
<1>2. \A o \in S : IsOutcome(o) /\ o.srv.status # "IDLE"
  BY Failures
<1> HIDE DEF S
<1> QED BY <1>1, <1>2, AllOutcomes

LEMMA WriteStaysOpen ==
  ASSUME NEW s, IsSession(s), s.status # "IDLE", NEW w
  PROVE  \A o \in Write(s, w) : o.srv.status # "IDLE"
<1> DEFINE T == [s EXCEPT !.levels[Len(s.levels)].rows = @ \cup w]
           S == IF s.status = "INTRANS" THEN {Done(T), Failed(Aborted(s))}
                                        ELSE {Failed(s)}
<1>1. IsSession(T) /\ T.status # "IDLE"
  BY DEF IsSession, Statuses
<1> HIDE DEF T
<1>2. \A o \in S : IsOutcome(o) /\ o.srv.status # "IDLE"
  BY <1>1, MakesOutcome, Failures
<1>3. Write(s, w) = Outcomes(s, S)
  BY DEF Write, T
<1> HIDE DEF S
<1> QED BY <1>2, <1>3, AllOutcomes

\* What leaves the blocks and tpc alone, and does not end the transaction.
LEMMA TpcFrame ==
  ASSUME TpcInv, UNCHANGED live, tpc' = tpc,
         server.status # "IDLE" => server'.status # "IDLE"
  PROVE  TpcInv'
<1>1. InTpc' = InTpc /\ tpc' = tpc
  BY DEF InTpc
<1> QED BY <1>1 DEF TpcInv, TpcIsOpen, OuterIsOpen

\* What may end the transaction: no block began it.
LEMMA TpcEnds ==
  ASSUME TpcInv, UNCHANGED live, \A i \in DOMAIN live : ~live[i].outer,
         InTpc' /\ ~tpc'.prepared => server'.status # "IDLE"
  PROVE  TpcInv'
BY DEF TpcInv, TpcIsOpen, OuterIsOpen

\* A block that began the transaction is counted.
LEMMA OuterCounts ==
  ASSUME IInv, ~InBlock
  PROVE  \A i \in DOMAIN live : FALSE
BY DEF IInv, TypeOK, InBlock

LEMMA EnterKeepsTpc ==
  ASSUME IInv, TpcInv, NEW t \in Threads, NEW b \in Blocks, enter(t, b)
  PROVE  TpcInv'
<1> DEFINE outer == server.status = "IDLE"
           name == PushName(outer, NameOf[b])
<1>0. tpc' = tpc
  BY DEF enter
<1>1. CASE outer /\ num_transactions # 0
  BY <1>0, <1>1, TpcFrame DEF enter
<1>2. CASE ~(outer /\ num_transactions # 0)
  <2>1. PICK o \in EnterCommands(outer, name) :
          /\ server' = o.srv
          /\ live' = IF ~o.ok THEN live ELSE
               Append(live, [block |-> b, by |-> t, outer |-> outer,
                             name |-> name, index |-> num_transactions])
    BY <1>2 DEF enter, Answer
  <2>2. o.srv.status # "IDLE"
    <3>1. CASE ~outer
      BY <2>1, <3>1, BlockCommands DEF IInv
    <3>2. CASE outer
      <4> DEFINE began == Begin(server)
      <4>1. \A p \in began : p.srv.status # "IDLE" /\ IsSession(p.srv)
        BY BeginOpens, BeginOutcomes DEF IInv, IsOutcome
      <4>2. \/ o \in began
            \/ o \in Then(began, LAMBDA s : Savepoint(s, name))
        BY <2>1, <3>2 DEF EnterCommands
      <4> HIDE DEF began
      <4>3. \/ o \in began
            \/ \E p \in began : o \in Savepoint(p.srv, name)
        BY <4>2 DEF Then
      <4> QED BY <4>1, <4>3, SavepointOutcomes
    <3> QED BY <3>1, <3>2
  <2>3. InTpc' = InTpc /\ (outer => ~(InTpc /\ ~tpc.prepared))
    BY <1>0 DEF InTpc, TpcInv, TpcIsOpen
  <2> DEFINE tx == [block |-> b, by |-> t, outer |-> outer,
                    name |-> name, index |-> num_transactions]
  <2>4. live' = live \/ live' = Append(live, tx)
    BY <2>1
  <2>5. tx.outer = outer
    OBVIOUS
  <2>6. live \in Seq(Tx)
    BY DEF IInv, TypeOK
  <2> HIDE DEF tx, outer, name
  <2>7. \A i \in DOMAIN live' : live'[i].outer => ~(InTpc /\ ~tpc.prepared)
    <3>1. SUFFICES ASSUME NEW i \in DOMAIN live', live'[i].outer
                   PROVE  ~(InTpc /\ ~tpc.prepared)
      OBVIOUS
    <3>2. CASE i \in DOMAIN live /\ live'[i] = live[i]
      BY <3>1, <3>2 DEF TpcInv, OuterIsOpen
    <3>3. CASE live'[i] = tx
      BY <2>3, <2>5, <3>1, <3>3
    <3> QED BY <2>4, <2>6, <3>2, <3>3
  <2> QED BY <1>0, <2>1, <2>2, <2>3, <2>7 DEF TpcInv, TpcIsOpen, OuterIsOpen
<1> QED BY <1>1, <1>2

LEMMA ExitKeepsTpc ==
  ASSUME IInv, TpcInv, NEW t \in Threads, NEW i \in Own(t), exit(t, i)
  PROVE  TpcInv'
<1> DEFINE tx == live[i]
           rest == SubSeq(live, 1, i - 1) \o SubSeq(live, i + 1, Len(live))
<1>1. /\ live \in Seq(Tx) /\ Len(live) \in Nat /\ i \in 1..Len(live)
      /\ tx \in Tx
  BY LiveTypes DEF IInv
<1>2. /\ rest \in Seq(Tx) /\ Len(rest) = Len(live) - 1
      /\ \A j \in 1..Len(rest) : \E k \in 1..Len(live) : rest[j] = live[k]
  BY <1>1, WithoutOne
<1>3. live' = rest /\ tpc' = tpc /\ InTpc' = InTpc
  BY DEF exit, InTpc
<1> HIDE DEF rest
<1>4. \A j \in DOMAIN live' : \E k \in DOMAIN live : live'[j] = live[k]
  BY <1>1, <1>2, <1>3
<1>5. CASE server'.status # "IDLE" \/ server.status = "IDLE"
  BY <1>3, <1>4, <1>5 DEF TpcInv, TpcIsOpen, OuterIsOpen
<1>6. CASE server'.status = "IDLE" /\ server.status # "IDLE"
  <2>1. tx.outer /\ Len(live) = 1
    <3>1. ~OutOfOrder(tx) /\ (ExitClean(t, tx) \/ ExitUndo(t, tx))
      BY <1>6 DEF exit
    <3>2. \E o \in CommitCommands(tx) \cup RollbackCommands(tx) : server' = o.srv
      BY <3>1 DEF ExitClean, ExitUndo, Answer
    <3>3. tx.outer
      BY <1>6, <3>2, BlockCommands DEF IInv
    <3>4. i \in 1..Len(live) /\ tx.index = 0
      BY <3>3, <1>1 DEF IInv
    <3>5. num_transactions = 1
      BY <3>1, <3>4 DEF OutOfOrder, Popped, IInv, TypeOK
    <3>6. Len(live) <= 1 /\ Len(live) >= 1
      <4> HIDE DEF tx
      <4> QED BY <1>1, <3>5 DEF IInv
    <3>7. Len(live) = 1
      BY <1>1, <3>6
    <3> QED BY <3>3, <3>7
  <2>2. DOMAIN live' = {}
    BY <1>1, <1>2, <1>3, <2>1
  <2>3. ~(InTpc /\ ~tpc.prepared)
    BY <1>1, <2>1 DEF TpcInv, OuterIsOpen
  <2> QED BY <1>3, <2>2, <2>3 DEF TpcInv, TpcIsOpen, OuterIsOpen
<1> QED BY <1>5, <1>6

LEMMA ExecuteKeepsTpc ==
  ASSUME IInv, TpcInv, NEW t \in Threads, NEW w, execute(t, w)
  PROVE  TpcInv'
<1> DEFINE starts == ~autocommit /\ server.status = "IDLE"
           began == IF starts THEN Begin(server) ELSE {Done(server)}
<1>1. PICK o \in Then(began, LAMBDA s : Write(s, w)) : server' = o.srv
  BY DEF execute, Answer
<1>2. /\ \A p \in began : IsSession(p.srv)
      /\ server.status # "IDLE" => \A p \in began : p.srv.status # "IDLE"
  BY BeginOutcomes, MakesOutcome DEF IInv, IsOutcome
<1>3. o \in began \/ \E p \in began : o \in Write(p.srv, w)
  <2> HIDE DEF began
  <2> QED BY <1>1 DEF Then
<1>4. server.status # "IDLE" => o.srv.status # "IDLE"
  <2> HIDE DEF began
  <2> QED BY <1>2, <1>3, WriteStaysOpen
<1>5. UNCHANGED <<live, tpc>>
  BY DEF execute, calls
<1> QED BY <1>1, <1>4, <1>5, TpcFrame

LEMMA EndKeepsTpc ==
  ASSUME IInv, TpcInv, NEW t \in Threads, commit(t) \/ rollback(t)
  PROVE  TpcInv'
<1>0. UNCHANGED <<live, tpc>>
  BY DEF commit, rollback, Refuse, calls
<1>1. CASE Refuse(t)
  BY <1>0, <1>1, TpcFrame DEF Refuse
<1>2. CASE ~Forbidden
  <2>1. ~InTpc /\ ~InTpc'
    BY <1>0, <1>2 DEF Forbidden, InTpc
  <2>2. \A i \in DOMAIN live : ~live[i].outer
    BY <1>2, OuterCounts DEF Forbidden
  <2> QED BY <1>0, <2>1, <2>2, TpcEnds
<1> QED BY <1>1, <1>2 DEF commit, rollback

LEMMA TwoPhaseKeepsTpc ==
  ASSUME IInv, TpcInv, NEW t \in Threads,
         \/ tpc_prepare(t)
         \/ \E x \in Xids : tpc_begin(t, x)
         \/ \E commits \in BOOLEAN :
              tpc_finish(t, commits) \/ \E x \in Xids : tpc_recovered(t, x, commits)
  PROVE  TpcInv'
<1>0. UNCHANGED live
  BY DEF tpc_prepare, tpc_begin, tpc_finish, tpc_recovered, TpcCall
<1>1. CASE Refuse(t)
  BY <1>0, <1>1, TpcFrame DEF Refuse, calls
<1>2. ASSUME NEW x \in Xids, tpc_begin(t, x), ~Refuse(t) PROVE TpcInv'
  <2>1. PICK o \in Begin(server) : server' = o.srv
    BY <1>2 DEF tpc_begin, Answer
  <2>2. server.status = "IDLE" /\ server'.status # "IDLE"
    BY <1>2, <2>1, BeginOpens DEF tpc_begin, IInv
  <2> QED BY <1>0, <2>2, TpcEnds DEF TpcInv, OuterIsOpen
<1>3. ASSUME tpc_prepare(t), ~Refuse(t) PROVE TpcInv'
  <2>1. InTpc /\ ~tpc.prepared /\ tpc' = [tpc EXCEPT !.prepared = TRUE]
    BY <1>3 DEF tpc_prepare
  <2>2. tpc'.prepared
    BY <2>1 DEF IInv, TypeOK
  <2> QED BY <1>0, <2>1, <2>2, TpcEnds DEF TpcInv, OuterIsOpen
<1>4. ASSUME NEW commits \in BOOLEAN, FinishOnePhase(t, commits) PROVE TpcInv'
  <2>1. InTpc /\ ~tpc.prepared /\ ~InTpc'
    BY <1>4 DEF FinishOnePhase, InTpc
  <2> QED BY <1>0, <2>1, TpcEnds DEF TpcInv, OuterIsOpen
<1>5. ASSUME NEW commits \in BOOLEAN, NEW x, FinishTwoPhase(t, x, commits),
             ~InTpc \/ tpc.prepared
      PROVE  TpcInv'
  <2>1. PICK o \in FinishPrepared(server, x, commits) :
          server' = o.srv /\ tpc' = IF o.ok THEN NoTpc ELSE tpc
    BY <1>5 DEF FinishTwoPhase, Answer
  <2>2. server.status # "IDLE" => server'.status # "IDLE"
    BY <2>1, FinishStaysOpen DEF IInv
  <2>3. ~(InTpc' /\ ~tpc'.prepared)
    BY <1>5, <2>1 DEF InTpc
  <2> QED BY <1>0, <2>2, <2>3 DEF TpcInv, TpcIsOpen, OuterIsOpen
<1>6. ASSUME NEW commits \in BOOLEAN, tpc_finish(t, commits) PROVE TpcInv'
  BY <1>1, <1>4, <1>5, <1>6 DEF tpc_finish
<1>7. ASSUME NEW commits \in BOOLEAN, NEW x \in Xids, tpc_recovered(t, x, commits)
      PROVE  TpcInv'
  BY <1>1, <1>5, <1>7 DEF tpc_recovered
<1> QED BY <1>1, <1>2, <1>3, <1>6, <1>7

LEMMA NextKeepsTpc == IInv /\ TpcInv /\ [Next]_vars => TpcInv'
<1> SUFFICES ASSUME IInv, TpcInv, [Next]_vars PROVE TpcInv'
  OBVIOUS
<1>1. CASE UNCHANGED vars
  BY <1>1, TpcFrame DEF vars, calls
<1>2. ASSUME NEW t \in Threads,
             \/ \E e \in Raised(t) : raise(t, e)
             \/ catch(t) \/ close(t)
             \/ \E value \in BOOLEAN : set_autocommit(t, value)
      PROVE  TpcInv'
  <2>1. server' = server \/ server' = Dead(server)
    BY <1>2 DEF raise, catch, close, set_autocommit, Refuse
  <2>2. UNCHANGED <<live, tpc>>
    BY <1>2 DEF raise, catch, close, set_autocommit, Refuse, calls
  <2>3. server.status # "IDLE" => server'.status # "IDLE"
    BY <2>1, Shapes DEF IInv
  <2> QED BY <2>2, <2>3, TpcFrame
<1>3. CASE Next
  <2>1. PICK t \in Threads :
          \/ \E b \in Blocks : enter(t, b)
          \/ \E i \in Own(t) : exit(t, i)
          \/ \E w : execute(t, w)
          \/ commit(t) \/ rollback(t)
          \/ \/ \E e \in Raised(t) : raise(t, e)
             \/ catch(t) \/ close(t)
             \/ \E value \in BOOLEAN : set_autocommit(t, value)
          \/ \/ tpc_prepare(t)
             \/ \E x \in Xids : tpc_begin(t, x)
             \/ \E commits \in BOOLEAN :
                  tpc_finish(t, commits)
                  \/ \E x \in Xids : tpc_recovered(t, x, commits)
    BY <1>3 DEF Next
  <2> QED BY <1>2, <2>1, EnterKeepsTpc, ExitKeepsTpc, ExecuteKeepsTpc, EndKeepsTpc,
             TwoPhaseKeepsTpc
<1> QED BY <1>1, <1>3

\* A two-phase transaction that is not prepared is in progress: neither commit(),
\* rollback() nor a block ends it behind its back, because a block entered in it
\* never takes itself for the outer one.
THEOREM TpcIsOpenCorrect == Spec => []TpcIsOpen
<1>1. TpcInv => TpcIsOpen
  BY DEF TpcInv
<1> QED BY InitIInv, NextKeepsIInv, InitTpcInv, NextKeepsTpc, <1>1, PTL DEF Spec

-----------------------------------------------------------------------------
(* Work follows the blocks                                                  *)
(* The sessions of the server by their fields, and what each command leaves *)
(* if the connection survives it.                                           *)

LevelType == [name : Int, rows : SUBSET Rows]
SessionOf(a, l, c, p) == [status |-> a, levels |-> l, committed |-> c, prepared |-> p]
PreparedType == [xid : Xids \cup {NoXid}, rows : SUBSET Rows]
SessionType == [status : {"IDLE", "INTRANS", "INERROR"}, levels : Seq(LevelType),
                committed : SUBSET Rows, prepared : SUBSET PreparedType]

LEMMA Fields ==
  ASSUME NEW s \in SessionType
  PROVE  /\ s = SessionOf(s.status, s.levels, s.committed, s.prepared)
         /\ s.status \in {"IDLE", "INTRANS", "INERROR"} /\ s.levels \in Seq(LevelType)
         /\ s.committed \in SUBSET Rows /\ s.prepared \in SUBSET PreparedType
         /\ IsSession(s) /\ s.status # "UNKNOWN"
BY DEF SessionType, SessionOf, IsSession, Statuses

LEMMA Makes ==
  ASSUME NEW a \in {"IDLE", "INTRANS", "INERROR"}, NEW l \in Seq(LevelType),
         NEW c \in SUBSET Rows, NEW p \in SUBSET PreparedType
  PROVE  /\ SessionOf(a, l, c, p) \in SessionType
         /\ SessionOf(a, l, c, p).status = a /\ SessionOf(a, l, c, p).levels = l
         /\ SessionOf(a, l, c, p).committed = c /\ SessionOf(a, l, c, p).prepared = p
BY DEF SessionType, SessionOf

\* Fields that change.
LEMMA Excepts ==
  ASSUME NEW s, s = SessionOf(s.status, s.levels, s.committed, s.prepared)
  PROVE  /\ \A x : [s EXCEPT !.status = x] =
                  SessionOf(x, s.levels, s.committed, s.prepared)
         /\ \A x : [s EXCEPT !.levels = x] =
                  SessionOf(s.status, x, s.committed, s.prepared)
         /\ \A x : [s EXCEPT !.committed = x] =
                  SessionOf(s.status, s.levels, x, s.prepared)
         /\ \A x : [s EXCEPT !.prepared = x] =
                  SessionOf(s.status, s.levels, s.committed, x)
<1>1. ASSUME NEW x PROVE [s EXCEPT !.status = x] =
                           SessionOf(x, s.levels, s.committed, s.prepared)
  BY DEF SessionOf
<1>2. ASSUME NEW x PROVE [s EXCEPT !.levels = x] =
                           SessionOf(s.status, x, s.committed, s.prepared)
  BY DEF SessionOf
<1>3. ASSUME NEW x PROVE [s EXCEPT !.committed = x] =
                           SessionOf(s.status, s.levels, x, s.prepared)
  BY DEF SessionOf
<1>4. ASSUME NEW x PROVE [s EXCEPT !.prepared = x] =
                           SessionOf(s.status, s.levels, s.committed, x)
  BY DEF SessionOf
<1> QED BY <1>1, <1>2, <1>3, <1>4

LEMMA TwoExcepts ==
  ASSUME NEW s, s = SessionOf(s.status, s.levels, s.committed, s.prepared)
  PROVE  /\ \A x, y : [s EXCEPT !.status = x, !.levels = y] =
                     SessionOf(x, y, s.committed, s.prepared)
         /\ \A x, y : [s EXCEPT !.prepared = x, !.committed = y] =
                     SessionOf(s.status, s.levels, y, x)
<1> DEFINE a == s.status  l == s.levels  c == s.committed  p == s.prepared
<1>0. s = SessionOf(a, l, c, p)
  OBVIOUS
<1> HIDE DEF a, l, c, p
<1>1. ASSUME NEW x, NEW y
      PROVE  [s EXCEPT !.status = x, !.levels = y] = SessionOf(x, y, c, p)
  <2>1. [s EXCEPT !.status = x, !.levels = y] = [[s EXCEPT !.status = x] EXCEPT !.levels = y]
    OBVIOUS
  <2>2. [s EXCEPT !.status = x] = SessionOf(x, l, c, p)
    BY <1>0 DEF SessionOf
  <2>3. [SessionOf(x, l, c, p) EXCEPT !.levels = y] = SessionOf(x, y, c, p)
    BY DEF SessionOf
  <2> QED BY <2>1, <2>2, <2>3
<1>2. ASSUME NEW x, NEW y
      PROVE  [s EXCEPT !.prepared = x, !.committed = y] = SessionOf(a, l, y, x)
  <2>1. [s EXCEPT !.prepared = x, !.committed = y] =
          [[s EXCEPT !.prepared = x] EXCEPT !.committed = y]
    OBVIOUS
  <2>2. [s EXCEPT !.prepared = x] = SessionOf(a, l, c, x)
    BY <1>0 DEF SessionOf
  <2>3. [SessionOf(a, l, c, x) EXCEPT !.committed = y] = SessionOf(a, l, y, x)
    BY DEF SessionOf
  <2> QED BY <2>1, <2>2, <2>3
<1> QED BY <1>1, <1>2 DEF a, l, c, p

LEMMA Changes ==
  ASSUME NEW s \in SessionType
  PROVE  /\ Ended(s) = SessionOf("IDLE", <<>>, s.committed, s.prepared)
         /\ Aborted(s) = SessionOf(IF s.status = "IDLE" THEN "IDLE" ELSE "INERROR",
                                  s.levels, s.committed, s.prepared)
         /\ Ended(s) \in SessionType /\ Aborted(s) \in SessionType
<1>1. Ended(s) = SessionOf("IDLE", <<>>, s.committed, s.prepared)
  BY Fields, TwoExcepts DEF Ended
<1>2. Aborted(s) = SessionOf(IF s.status = "IDLE" THEN "IDLE" ELSE "INERROR",
                                  s.levels, s.committed, s.prepared)
  <2>1. [s EXCEPT !.status = "INERROR"] =
          SessionOf("INERROR", s.levels, s.committed, s.prepared)
    BY Fields, Excepts
  <2> QED BY <2>1, Fields DEF Aborted
<1>3. <<>> \in Seq(LevelType)
  OBVIOUS
<1>4. Ended(s) \in SessionType
  <2>1. SessionOf("IDLE", <<>>, s.committed, s.prepared) \in SessionType
    BY <1>3, Fields, Makes
  <2> QED BY <1>1, <2>1
<1>5. Aborted(s) \in SessionType
  BY <1>2, Fields, Makes
<1> QED BY <1>1, <1>2, <1>4, <1>5

\* The outcomes of a command that the connection survives.
LEMMA Survives ==
  ASSUME NEW s \in SessionType, NEW S, \A o \in S : o.srv \in SessionType,
         NEW o \in Outcomes(s, S), o.srv.status # "UNKNOWN"
  PROVE  o \in S
<1>1. IsSession(s) /\ s.status # "UNKNOWN"
  BY Fields
<1>2. \/ o \in S \/ o = Failed(Dead(s)) \/ \E p \in S : o = Failed(Dead(p.srv))
  BY <1>1 DEF Outcomes
<1>3. ASSUME NEW p \in S, o = Failed(Dead(p.srv)) PROVE FALSE
  BY <1>3, Fields, Failures
<1> QED BY <1>1, <1>2, <1>3, Failures

LEMMA AnOutcome ==
  ASSUME NEW s
  PROVE  Done(s).srv = s /\ Done(s).ok /\ Failed(s).srv = s /\ ~Failed(s).ok
BY DEF Done, Failed

\* The levels of a new transaction.
LEMMA ALevel ==
  ASSUME NEW n \in Int
  PROVE  /\ Level(n) \in LevelType /\ Level(n).name = n /\ Level(n).rows = {}
         /\ <<Level(n)>> \in Seq(LevelType)
         /\ Len(<<Level(n)>>) = 1 /\ <<Level(n)>>[1] = Level(n)
<1>1. Level(n) \in LevelType /\ Level(n).name = n /\ Level(n).rows = {}
  BY DEF Level, LevelType
<1> QED BY <1>1

LEMMA BeginGives ==
  ASSUME NEW s \in SessionType, NEW o \in Begin(s), o.srv.status # "UNKNOWN"
  PROVE  /\ o.ok
         /\ o.srv = SessionOf("INTRANS", <<Level(0)>>, s.committed, s.prepared)
         /\ o.srv \in SessionType
<1> DEFINE T == SessionOf("INTRANS", <<Level(0)>>, s.committed, s.prepared)
<1>1. [s EXCEPT !.status = "INTRANS", !.levels = <<Level(0)>>] = T
  BY Fields, TwoExcepts
<1>2. T \in SessionType
  <2>1. <<Level(0)>> \in Seq(LevelType)
    BY ALevel
  <2> QED BY <2>1, Fields, Makes
<1>3. Begin(s) = Outcomes(s, {Done(T)})
  BY <1>1 DEF Begin
<1> HIDE DEF T
<1>4. o \in {Done(T)}
  BY <1>2, <1>3, AnOutcome, Survives
<1> QED BY <1>2, <1>4, AnOutcome DEF T

LEMMA SavepointGives ==
  ASSUME NEW s \in SessionType, NEW n \in Int, s.status = "INTRANS",
         NEW o \in Savepoint(s, n), o.srv.status # "UNKNOWN"
  PROVE  /\ o.ok
         /\ o.srv = SessionOf("INTRANS", Append(s.levels, Level(n)), s.committed,
                             s.prepared)
         /\ o.srv \in SessionType
<1> DEFINE T == SessionOf("INTRANS", Append(s.levels, Level(n)), s.committed, s.prepared)
<1>1. [s EXCEPT !.levels = Append(@, Level(n))] = T
  <2>1. [s EXCEPT !.levels = Append(@, Level(n))] =
          [s EXCEPT !.levels = Append(s.levels, Level(n))]
    OBVIOUS
  <2> HIDE DEF T
  <2>2. \A x : [s EXCEPT !.levels = x] = SessionOf(s.status, x, s.committed, s.prepared)
    BY Fields, Excepts
  <2> QED BY <2>1, <2>2 DEF T
<1>2. T \in SessionType
  <2>1. Append(s.levels, Level(n)) \in Seq(LevelType)
    BY ALevel, Fields
  <2> QED BY <2>1, Fields, Makes
<1>3. Savepoint(s, n) = Outcomes(s, {Done(T)})
  BY <1>1 DEF Savepoint
<1> HIDE DEF T
<1>4. o \in {Done(T)}
  BY <1>2, <1>3, AnOutcome, Survives
<1> QED BY <1>2, <1>4, AnOutcome DEF T

\* The rows of the transaction in progress.
LEMMA PendingRows ==
  ASSUME NEW s \in SessionType
  PROVE  /\ Pending(s) \in SUBSET Rows
         /\ \A r : r \in Pending(s) <=> \E k \in 1..Len(s.levels) : r \in s.levels[k].rows
<1>1. s.levels \in Seq(LevelType) /\ DOMAIN s.levels = 1..Len(s.levels)
  BY Fields
<1>2. \A k \in 1..Len(s.levels) : s.levels[k] \in LevelType
  BY <1>1
<1>3. \A k \in 1..Len(s.levels) : s.levels[k].rows \in SUBSET Rows
  BY <1>2 DEF LevelType
<1> QED BY <1>1, <1>3 DEF Pending, RowsOf

LEMMA CommitGives ==
  ASSUME NEW s \in SessionType, NEW o \in Commit(s), o.srv.status # "UNKNOWN"
  PROVE  /\ o.srv \in SessionType
         /\ \/ /\ o.ok /\ s.status = "INTRANS"
               /\ o.srv = SessionOf("IDLE", <<>>, s.committed \cup Pending(s), s.prepared)
            \/ /\ o.ok <=> s.status # "INTRANS"
               /\ o.srv = SessionOf("IDLE", <<>>, s.committed, s.prepared)
<1> DEFINE E == Ended(s)
           T == SessionOf("IDLE", <<>>, s.committed \cup Pending(s), s.prepared)
<1>1. E \in SessionType /\ E = SessionOf("IDLE", <<>>, s.committed, s.prepared)
  BY Changes
<1>2. T \in SessionType
  <2>1. s.committed \cup Pending(s) \in SUBSET Rows
    BY PendingRows, Fields
  <2>2. <<>> \in Seq(LevelType)
    OBVIOUS
  <2> QED BY <2>1, <2>2, Fields, Makes
<1>3. [E EXCEPT !.committed = @ \cup Pending(s)] = T
  <2> HIDE DEF E, T
  <2>1. \A x : [E EXCEPT !.committed = x] = SessionOf(E.status, E.levels, x, E.prepared)
    <3>1. E = SessionOf(E.status, E.levels, E.committed, E.prepared)
      BY <1>1, Fields
    <3> QED BY <3>1, Excepts
  <2>2. /\ E.status = "IDLE" /\ E.levels = <<>> /\ E.prepared = s.prepared
        /\ E.committed = s.committed
    BY <1>1 DEF SessionOf
  <2>3. [E EXCEPT !.committed = @ \cup Pending(s)] =
          [E EXCEPT !.committed = s.committed \cup Pending(s)]
    BY <2>2
  <2> QED BY <2>1, <2>2, <2>3 DEF T
<1> DEFINE S == CASE s.status = "INTRANS" -> {Done(T), Failed(E)}
                  [] OTHER -> {Done(E)}
<1>4. Commit(s) = Outcomes(s, S)
  <2> HIDE DEF T
  <2> QED BY <1>3 DEF Commit
<1> HIDE DEF T, E
<1>5. o \in S
  <2>1. \A u \in S : u.srv \in SessionType
    BY <1>1, <1>2, AnOutcome
  <2> HIDE DEF S
  <2> QED BY <1>4, <2>1, Survives
<1> QED BY <1>1, <1>2, <1>5, AnOutcome DEF T

LEMMA RollbackGives ==
  ASSUME NEW s \in SessionType, NEW o \in Rollback(s), o.srv.status # "UNKNOWN"
  PROVE  /\ o.ok /\ o.srv \in SessionType
         /\ o.srv = SessionOf("IDLE", <<>>, s.committed, s.prepared)
<1>1. /\ Ended(s) \in SessionType
      /\ Ended(s) = SessionOf("IDLE", <<>>, s.committed, s.prepared)
  BY Changes
<1>2. o \in {Done(Ended(s))}
  BY <1>1, AnOutcome, Survives DEF Rollback
<1> QED BY <1>1, <1>2, AnOutcome

LEMMA PrepareGives ==
  ASSUME NEW s \in SessionType, NEW x \in Xids \cup {NoXid}, NEW o \in Prepare(s, x),
         o.srv.status # "UNKNOWN"
  PROVE  /\ o.srv \in SessionType
         /\ \/ o.srv = SessionOf("IDLE", <<>>, s.committed, s.prepared)
            \/ /\ s.status = "INTRANS"
               /\ o.srv = SessionOf("IDLE", <<>>, s.committed,
                            s.prepared \cup {[xid |-> x, rows |-> Pending(s)]})
<1> DEFINE E == Ended(s)
           P == s.prepared \cup {[xid |-> x, rows |-> Pending(s)]}
           T == SessionOf("IDLE", <<>>, s.committed, P)
<1>1. E \in SessionType /\ E = SessionOf("IDLE", <<>>, s.committed, s.prepared)
  BY Changes
<1>2. T \in SessionType
  <2>1. [xid |-> x, rows |-> Pending(s)] \in PreparedType
    BY PendingRows DEF PreparedType
  <2>2. P \in SUBSET PreparedType
    BY <2>1, Fields
  <2> HIDE DEF P
  <2>3. <<>> \in Seq(LevelType)
    OBVIOUS
  <2> QED BY <2>2, <2>3, Fields, Makes
<1>3. [E EXCEPT !.prepared = @ \cup {[xid |-> x, rows |-> Pending(s)]}] = T
  <2> HIDE DEF E, T
  <2>1. \A u : [E EXCEPT !.prepared = u] = SessionOf(E.status, E.levels, E.committed, u)
    <3>1. E = SessionOf(E.status, E.levels, E.committed, E.prepared)
      BY <1>1, Fields
    <3> QED BY <3>1, Excepts
  <2>2. /\ E.status = "IDLE" /\ E.levels = <<>> /\ E.prepared = s.prepared
        /\ E.committed = s.committed
    BY <1>1 DEF SessionOf
  <2>3. [E EXCEPT !.prepared = @ \cup {[xid |-> x, rows |-> Pending(s)]}] =
          [E EXCEPT !.prepared = P]
    BY <2>2
  <2> QED BY <2>1, <2>2, <2>3 DEF T
<1> DEFINE S == CASE s.status = "INTRANS" ->
                       {Failed(E)} \cup IF \E p \in s.prepared : p.xid = x THEN {}
                                        ELSE {Done(T)}
                  [] OTHER -> {Done(E)}
<1>4. Prepare(s, x) = Outcomes(s, S)
  <2> HIDE DEF T
  <2> QED BY <1>3 DEF Prepare
<1> HIDE DEF T, E
<1>5. o \in S
  <2>1. \A u \in S : u.srv \in SessionType
    BY <1>1, <1>2, AnOutcome
  <2> HIDE DEF S
  <2> QED BY <1>4, <2>1, Survives
<1> QED BY <1>1, <1>2, <1>5, AnOutcome DEF T

\* COMMIT PREPARED moves rows of prepared transactions to the database, ROLLBACK
\* PREPARED drops them; nothing else changes.
LEMMA FinishGives ==
  ASSUME NEW s \in SessionType, NEW x, NEW commits \in BOOLEAN,
         NEW o \in FinishPrepared(s, x, commits), o.srv.status # "UNKNOWN"
  PROVE  /\ o.srv \in SessionType
         /\ \/ o.srv = Aborted(s)
            \/ /\ o.srv.status = s.status /\ o.srv.levels = s.levels
               /\ o.srv.prepared \subseteq s.prepared
               /\ s.committed \subseteq o.srv.committed
               /\ \A r \in o.srv.committed :
                    r \in s.committed \/ \E p \in s.prepared : r \in p.rows
<1> DEFINE P == {p \in s.prepared : p.xid # x}
           C == IF commits
                THEN s.committed \cup UNION {p.rows : p \in {q \in s.prepared : q.xid = x}}
                ELSE s.committed
           T == SessionOf(s.status, s.levels, C, P)
<1>1. /\ P \subseteq s.prepared /\ s.committed \subseteq C
      /\ \A r \in C : r \in s.committed \/ \E p \in s.prepared : r \in p.rows
  OBVIOUS
<1>2. P \in SUBSET PreparedType /\ C \in SUBSET Rows
  <2>1. s.committed \in SUBSET Rows /\ s.prepared \in SUBSET PreparedType
    BY Fields
  <2>2. \A p \in s.prepared : p.rows \in SUBSET Rows
    BY <2>1 DEF PreparedType
  <2> HIDE DEF P, C
  <2> QED BY <1>1, <2>1, <2>2
<1>3. [s EXCEPT !.prepared = {p \in @ : p.xid # x},
                !.committed = IF commits
                  THEN @ \cup UNION {p.rows : p \in {q \in s.prepared : q.xid = x}}
                  ELSE @] = T
  <2>1. [s EXCEPT !.prepared = {p \in @ : p.xid # x},
                  !.committed = IF commits
                    THEN @ \cup UNION {p.rows : p \in {q \in s.prepared : q.xid = x}}
                    ELSE @] = [s EXCEPT !.prepared = P, !.committed = C]
    OBVIOUS
  <2> HIDE DEF P, C
  <2>2. \A u, v : [s EXCEPT !.prepared = u, !.committed = v] =
                    SessionOf(s.status, s.levels, v, u)
    BY Fields, TwoExcepts
  <2> QED BY <2>1, <2>2 DEF T
<1> HIDE DEF P, C
<1>4. T \in SessionType
  BY <1>2, Fields, Makes
<1>5. /\ T.status = s.status /\ T.levels = s.levels
      /\ T.committed = C /\ T.prepared = P
  BY DEF SessionOf
<1> DEFINE S == IF s.status = "IDLE" /\ \E p \in s.prepared : p.xid = x
                THEN {Done(T)} ELSE {Failed(Aborted(s))}
<1>6. FinishPrepared(s, x, commits) = Outcomes(s, S)
  <2> HIDE DEF T
  <2> QED BY <1>3 DEF FinishPrepared
<1> HIDE DEF T
<1>7. o \in S
  <2>1. \A u \in S : u.srv \in SessionType
    BY <1>4, Changes, AnOutcome
  <2> HIDE DEF S
  <2> QED BY <1>6, <2>1, Survives
<1>8. CASE o = Done(T)
  BY <1>1, <1>4, <1>5, <1>8, AnOutcome
<1>9. CASE o = Failed(Aborted(s))
  BY <1>9, Changes, AnOutcome
<1> QED BY <1>7, <1>8, <1>9

\* The rows under the topmost savepoint join the level below.
Joined(l, m) ==
  /\ m \in Seq(LevelType) /\ Len(m) = Len(l) - 1
  /\ \A j \in 1..Len(m) :
       /\ m[j].name = l[j].name
       /\ m[j].rows = IF j = Len(m) THEN l[j].rows \cup l[j + 1].rows ELSE l[j].rows

LEMMA MergedTop ==
  ASSUME NEW l \in Seq(LevelType), NEW d \in Nat, Len(l) = d, d >= 2
  PROVE  Joined(l, Merged(l, d))
<1> DEFINE m == Merged(l, d)
<1>0. \A j \in 1..d : l[j] \in LevelType
  OBVIOUS
<1>1. \A j \in 1..d : l[j] \in LevelType /\ l[j].name \in Int /\ l[j].rows \in SUBSET Rows
  BY <1>0 DEF LevelType
<1>2. RowsOf(SubSeq(l, d - 1, d)) = l[d - 1].rows \cup l[d].rows
  <2> DEFINE q == SubSeq(l, d - 1, d)
  <2>1. Len(q) = 2 /\ DOMAIN q = 1..2 /\ q[1] = l[d - 1] /\ q[2] = l[d]
    OBVIOUS
  <2> HIDE DEF q
  <2>2. DOMAIN q = {1, 2}
    BY <2>1
  <2> QED BY <2>1, <2>2 DEF RowsOf, q
<1>3. \A j \in 1..(d - 1) :
        m[j] = IF j = d - 1 THEN [l[j] EXCEPT !.rows = l[d - 1].rows \cup l[d].rows]
                            ELSE l[j]
  BY <1>2 DEF Merged
<1>4. \A j \in 1..(d - 1) :
        /\ m[j] \in LevelType /\ m[j].name = l[j].name
        /\ m[j].rows = IF j = d - 1 THEN l[j].rows \cup l[j + 1].rows ELSE l[j].rows
  <2> HIDE DEF m
  <2> TAKE j \in 1..(d - 1)
  <2>1. j \in 1..d /\ d - 1 \in 1..d /\ d \in 1..d
    OBVIOUS
  <2>2. CASE j # d - 1
    BY <1>1, <1>3, <2>1, <2>2
  <2>3. CASE j = d - 1
    <3>1. j + 1 = d
      BY <2>3
    <3> DEFINE u == l[d - 1].rows \cup l[d].rows
    <3>2. u \in SUBSET Rows
      BY <1>1, <2>1
    <3>3. m[j] = [l[j] EXCEPT !.rows = u]
      BY <1>3, <2>3
    <3> HIDE DEF u
    <3>4. m[j] \in LevelType /\ m[j].name = l[j].name /\ m[j].rows = u
      BY <1>1, <2>1, <3>2, <3>3 DEF LevelType
    <3> QED BY <2>3, <3>1, <3>4 DEF u
  <2> QED BY <2>2, <2>3
<1>5. m \in Seq(LevelType) /\ Len(m) = d - 1
  <2>1. DOMAIN m = 1..(d - 1) /\ d - 1 \in Nat
    BY DEF Merged
  <2>2. m = [j \in 1..(d - 1) |-> m[j]]
    BY DEF Merged
  <2> HIDE DEF m
  <2>3. m \in [1..(d - 1) -> LevelType]
    BY <1>4, <2>1, <2>2
  <2> QED BY <2>1, <2>3, SeqDef
<1> HIDE DEF m
<1> QED BY <1>4, <1>5 DEF Joined, m

\* The most recent savepoint with a name.
LEMMA LatestIs ==
  ASSUME NEW s \in SessionType, NEW n, NEW d \in Named(s, n),
         \A j \in Named(s, n) : j <= d
  PROVE  Latest(s, n) = d
<1>1. Named(s, n) \subseteq Nat
  BY Fields DEF Named
<1>2. Latest(s, n) \in Named(s, n) /\ \A j \in Named(s, n) : j <= Latest(s, n)
  BY DEF Latest
<1> QED BY <1>1, <1>2

LEMMA ReleaseGives ==
  ASSUME NEW s \in SessionType, NEW n, s.status = "INTRANS",
         NEW d \in Named(s, n), Len(s.levels) = d,
         NEW o \in Release(s, n), o.srv.status # "UNKNOWN"
  PROVE  /\ o.ok /\ o.srv \in SessionType /\ o.srv.status = "INTRANS"
         /\ Joined(s.levels, o.srv.levels)
         /\ o.srv.committed = s.committed /\ o.srv.prepared = s.prepared
<1>1. /\ s.levels \in Seq(LevelType) /\ d \in Nat /\ d >= 2
      /\ \A j \in Named(s, n) : j <= d
  BY Fields DEF Named
<1>2. Latest(s, n) = d
  BY <1>1, LatestIs
<1> DEFINE m == Merged(s.levels, d)
           T == SessionOf("INTRANS", m, s.committed, s.prepared)
<1>3. Joined(s.levels, m)
  BY <1>1, MergedTop
<1>4. [s EXCEPT !.levels = Merged(@, Latest(s, n))] = T
  <2>1. [s EXCEPT !.levels = Merged(@, Latest(s, n))] = [s EXCEPT !.levels = m]
    BY <1>2
  <2> HIDE DEF m
  <2>2. \A x : [s EXCEPT !.levels = x] = SessionOf(s.status, x, s.committed, s.prepared)
    BY Fields, Excepts
  <2> QED BY <2>1, <2>2
<1> HIDE DEF m
<1>5. T \in SessionType /\ T.status = "INTRANS" /\ T.levels = m
      /\ T.committed = s.committed /\ T.prepared = s.prepared
  <2>1. m \in Seq(LevelType)
    BY <1>3 DEF Joined
  <2> QED BY <2>1, Fields, Makes
<1>6. Release(s, n) = Outcomes(s, {Done(T)})
  <2> HIDE DEF T
  <2> QED BY <1>4 DEF Release
<1> HIDE DEF T
<1>7. o \in {Done(T)}
  BY <1>5, <1>6, AnOutcome, Survives
<1> QED BY <1>3, <1>5, <1>7, AnOutcome

\* RELEASE in a transaction that failed.
LEMMA ReleaseFails ==
  ASSUME NEW s \in SessionType, NEW n, s.status = "INERROR",
         NEW o \in Release(s, n), o.srv.status # "UNKNOWN"
  PROVE  ~o.ok /\ o.srv = Aborted(s) /\ o.srv \in SessionType
<1>1. Release(s, n) = Outcomes(s, {Failed(Aborted(s))})
  BY DEF Release
<1>2. o \in {Failed(Aborted(s))}
  BY <1>1, Changes, AnOutcome, Survives
<1> QED BY <1>2, Changes, AnOutcome

\* The levels below the d-th.
Below(l, m, d) ==
  /\ m \in Seq(LevelType) /\ Len(m) = d - 1
  /\ \A j \in 1..Len(m) : m[j].name = l[j].name /\ m[j].rows = l[j].rows

\* ROLLBACK TO a savepoint: it becomes the topmost one, without rows.
LEMMA RollbackToGives ==
  ASSUME NEW s \in SessionType, NEW n \in Int, s.status # "IDLE",
         NEW d \in Named(s, n), \A j \in Named(s, n) : j <= d,
         NEW o \in RollbackTo(s, n), o.srv.status # "UNKNOWN"
  PROVE  /\ o.ok
         /\ o.srv = SessionOf("INTRANS", Append(SubSeq(s.levels, 1, d - 1), Level(n)),
                             s.committed, s.prepared)
         /\ o.srv \in SessionType
<1> DEFINE m == Append(SubSeq(s.levels, 1, d - 1), Level(n))
           T == SessionOf("INTRANS", m, s.committed, s.prepared)
<1>1. Latest(s, n) = d
  BY LatestIs
<1>2. [s EXCEPT !.status = "INTRANS",
                !.levels = Append(SubSeq(@, 1, Latest(s, n) - 1), Level(n))] = T
  <2>1. [s EXCEPT !.status = "INTRANS",
                  !.levels = Append(SubSeq(@, 1, Latest(s, n) - 1), Level(n))] =
          [s EXCEPT !.status = "INTRANS", !.levels = m]
    BY <1>1
  <2> HIDE DEF m
  <2>2. \A x, y : [s EXCEPT !.status = x, !.levels = y] =
                    SessionOf(x, y, s.committed, s.prepared)
    BY Fields, TwoExcepts
  <2> QED BY <2>1, <2>2
<1>3. m \in Seq(LevelType)
  <2>1. d \in 1..Len(s.levels) /\ s.levels \in Seq(LevelType)
    BY Fields DEF Named
  <2>2. SubSeq(s.levels, 1, d - 1) \in Seq(LevelType)
    BY <2>1
  <2> QED BY <2>2, ALevel
<1> HIDE DEF m
<1>4. T \in SessionType
  BY <1>3, Fields, Makes
<1>5. RollbackTo(s, n) = Outcomes(s, {Done(T)})
  <2> HIDE DEF T
  <2> QED BY <1>2 DEF RollbackTo
<1> HIDE DEF T
<1>6. o \in {Done(T)}
  BY <1>4, <1>5, AnOutcome, Survives
<1> QED BY <1>4, <1>6, AnOutcome DEF T, m

\* ROLLBACK TO and RELEASE, as _get_rollback_commands sends them.
LEMMA UndoGives ==
  ASSUME NEW s \in SessionType, NEW n \in Int, s.status # "IDLE",
         NEW d \in Named(s, n), \A j \in Named(s, n) : j <= d,
         NEW o \in Then(RollbackTo(s, n), LAMBDA u : Release(u, n)),
         o.srv.status # "UNKNOWN"
  PROVE  /\ o.ok /\ o.srv \in SessionType /\ o.srv.status = "INTRANS"
         /\ Below(s.levels, o.srv.levels, d)
         /\ o.srv.committed = s.committed /\ o.srv.prepared = s.prepared
<1>1. PICK p \in RollbackTo(s, n) : IF p.ok THEN o \in Release(p.srv, n) ELSE o = p
  BY DEF Then
<1>2. p.srv.status # "UNKNOWN"
  <2>1. SUFFICES ASSUME p.srv.status = "UNKNOWN" PROVE FALSE
    OBVIOUS
  <2>2. p.ok /\ o \in Release(p.srv, n)
    BY <1>1, <2>1
  <2>3. o = Failed(p.srv)
    BY <2>1, <2>2 DEF Release, Outcomes
  <2> QED BY <2>1, <2>3, AnOutcome
<1> DEFINE l == s.levels
           q == SubSeq(l, 1, d - 1)
           v == Append(q, Level(n))
<1>3. /\ p.ok /\ p.srv = SessionOf("INTRANS", v, s.committed, s.prepared)
      /\ p.srv \in SessionType
  BY <1>2, RollbackToGives
<1>4. d \in 1..Len(l) /\ d > 1 /\ l \in Seq(LevelType) /\ Len(l) \in Nat
  BY Fields DEF Named
<1> HIDE DEF l
<1>5. q \in Seq(LevelType) /\ Len(q) = d - 1 /\ \A j \in 1..(d - 1) : q[j] = l[j]
  BY <1>4
<1> HIDE DEF q
<1>6. /\ v \in Seq(LevelType) /\ Len(v) = d /\ v[d] = Level(n)
      /\ \A j \in 1..(d - 1) : v[j] = l[j]
  BY <1>4, <1>5, ALevel
<1> HIDE DEF v
<1>7. /\ p.srv.status = "INTRANS" /\ p.srv.levels = v
      /\ p.srv.committed = s.committed /\ p.srv.prepared = s.prepared
  BY <1>3 DEF SessionOf
<1>8. d \in Named(p.srv, n) /\ Len(p.srv.levels) = d
  BY <1>4, <1>6, <1>7, ALevel DEF Named
<1>9. /\ o.ok /\ o.srv \in SessionType /\ o.srv.status = "INTRANS"
      /\ Joined(p.srv.levels, o.srv.levels)
      /\ o.srv.committed = s.committed /\ o.srv.prepared = s.prepared
  <2>1. o \in Release(p.srv, n)
    BY <1>1, <1>3
  <2> QED BY <1>3, <1>7, <1>8, <2>1, ReleaseGives
<1>10. Below(l, o.srv.levels, d)
  <2> DEFINE m == o.srv.levels
  <2>1. Joined(v, m)
    BY <1>7, <1>9
  <2> HIDE DEF m
  <2>2. m \in Seq(LevelType) /\ Len(m) = d - 1
    BY <1>6, <2>1 DEF Joined
  <2>3. ASSUME NEW j \in 1..(d - 1)
        PROVE  m[j].name = l[j].name /\ m[j].rows = l[j].rows
    <3>1. /\ m[j].name = v[j].name
          /\ m[j].rows = IF j = d - 1 THEN v[j].rows \cup v[j + 1].rows ELSE v[j].rows
      BY <2>1, <2>2 DEF Joined
    <3>2. j = d - 1 => v[j + 1].rows = {}
      BY <1>4, <1>6, ALevel
    <3> QED BY <1>6, <3>1, <3>2
  <2> QED BY <2>2, <2>3 DEF Below, m
<1> QED BY <1>9, <1>10 DEF l

\* The rows w are written in the topmost level.
Wrote(l, m, w) ==
  /\ m \in Seq(LevelType) /\ Len(m) = Len(l)
  /\ \A j \in 1..Len(l) :
       /\ m[j].name = l[j].name
       /\ m[j].rows = IF j = Len(l) THEN l[j].rows \cup w ELSE l[j].rows

LEMMA WriteGives ==
  ASSUME NEW s \in SessionType, NEW w \in SUBSET Rows, NEW o \in Write(s, w),
         o.srv.status # "UNKNOWN", s.status = "INTRANS" => s.levels # <<>>
  PROVE  /\ o.srv \in SessionType
         /\ ~o.ok => o.srv = IF s.status = "INTRANS" THEN Aborted(s) ELSE s
         /\ o.ok /\ s.status = "IDLE" =>
              o.srv = SessionOf("IDLE", s.levels, s.committed \cup w, s.prepared)
         /\ o.ok /\ s.status # "IDLE" =>
              /\ s.status = "INTRANS" /\ o.srv.status = "INTRANS"
              /\ Wrote(s.levels, o.srv.levels, w)
              /\ o.srv.committed = s.committed /\ o.srv.prepared = s.prepared
<1>1. CASE s.status = "IDLE"
  <2> DEFINE T == SessionOf("IDLE", s.levels, s.committed \cup w, s.prepared)
  <2>1. [s EXCEPT !.committed = @ \cup w] = T
    <3>1. [s EXCEPT !.committed = @ \cup w] = [s EXCEPT !.committed = s.committed \cup w]
      OBVIOUS
    <3>2. \A x : [s EXCEPT !.committed = x] = SessionOf(s.status, s.levels, x, s.prepared)
      BY Fields, Excepts
    <3> QED BY <1>1, <3>1, <3>2
  <2>2. T \in SessionType
    <3>1. s.committed \cup w \in SUBSET Rows
      BY Fields
    <3> QED BY <3>1, Fields, Makes
  <2>3. Write(s, w) = Outcomes(s, {Done(T), Failed(s)})
    <3> HIDE DEF T
    <3> QED BY <1>1, <2>1 DEF Write
  <2> HIDE DEF T
  <2>4. o \in {Done(T), Failed(s)}
    BY <2>2, <2>3, AnOutcome, Survives
  <2> QED BY <1>1, <2>2, <2>4, AnOutcome DEF T
<1>2. CASE s.status = "INERROR"
  <2>1. Write(s, w) = Outcomes(s, {Failed(s)})
    BY <1>2 DEF Write
  <2>2. o \in {Failed(s)}
    BY <2>1, AnOutcome, Survives
  <2> QED BY <1>2, <2>2, AnOutcome
<1>3. CASE s.status = "INTRANS"
  <2> DEFINE l == s.levels
             d == Len(l)
             m == [l EXCEPT ![d] = [l[d] EXCEPT !.rows = l[d].rows \cup w]]
             T == SessionOf("INTRANS", m, s.committed, s.prepared)
  <2>1. [s EXCEPT !.levels[Len(s.levels)].rows = @ \cup w] = T
    <3>1. [s EXCEPT !.levels[Len(s.levels)].rows = @ \cup w] = [s EXCEPT !.levels = m]
      OBVIOUS
    <3> HIDE DEF m
    <3>2. \A x : [s EXCEPT !.levels = x] = SessionOf(s.status, x, s.committed, s.prepared)
      BY Fields, Excepts
    <3> QED BY <1>3, <3>1, <3>2
  <2>2. Wrote(l, m, w)
    <3>1. l \in Seq(LevelType) /\ l # <<>>
      BY <1>3, Fields
    <3> HIDE DEF l
    <3>2. d \in Nat /\ d \in 1..d /\ \A j \in 1..d : l[j] \in LevelType
      BY <3>1
    <3> HIDE DEF d
    <3>3. DOMAIN l = 1..d /\ l \in [1..d -> LevelType]
      BY <3>1 DEF d
    <3> DEFINE x == [l[d] EXCEPT !.rows = l[d].rows \cup w]
    <3>4. x \in LevelType /\ x.name = l[d].name /\ x.rows = l[d].rows \cup w
      BY <3>2 DEF LevelType
    <3> HIDE DEF x
    <3>5. m = [l EXCEPT ![d] = x]
      BY DEF x
    <3> HIDE DEF m
    <3>6. m \in [1..d -> LevelType]
      BY <3>2, <3>3, <3>4, <3>5
    <3>7. m \in Seq(LevelType) /\ Len(m) = d
      BY <3>2, <3>6, SeqDef
    <3>8. \A j \in 1..d : m[j] = IF j = d THEN x ELSE l[j]
      BY <3>2, <3>3, <3>5
    <3> QED BY <3>4, <3>7, <3>8 DEF Wrote, d
  <2> HIDE DEF m
  <2>3. /\ T \in SessionType /\ T.status = "INTRANS" /\ T.levels = m
        /\ T.committed = s.committed /\ T.prepared = s.prepared
    <3>1. m \in Seq(LevelType)
      BY <2>2 DEF Wrote
    <3> QED BY <3>1, Fields, Makes
  <2>4. Write(s, w) = Outcomes(s, {Done(T), Failed(Aborted(s))})
    <3> HIDE DEF T
    <3> QED BY <1>3, <2>1 DEF Write
  <2> HIDE DEF T
  <2>5. o \in {Done(T), Failed(Aborted(s))}
    BY <2>3, <2>4, Changes, AnOutcome, Survives
  <2>6. CASE o = Done(T)
    BY <1>3, <2>2, <2>3, <2>6, AnOutcome
  <2>7. CASE o = Failed(Aborted(s))
    BY <1>3, <2>7, Changes, AnOutcome
  <2> QED BY <2>5, <2>6, <2>7
<1> QED BY <1>1, <1>2, <1>3, Fields

-----------------------------------------------------------------------------
(* The invariant.  A block has its place among the savepoints, unless it is *)
(* the transaction and has no name.                                         *)

\* No two blocks are given the same savepoint name.
DistinctNames ==
  \A a, b \in Blocks : a # b /\ NameOf[a] = NameOf[b] => NameOf[a] = 0

Base(q) == IF q # <<>> /\ q[1].name = 0 THEN 1 ELSE 0
Place(q, i) == 1 + i - Base(q)
Depth(q) == Place(q, Len(q))

\* The blocks that are entered and not exited are the live ones, and rows are
\* written in blocks that were entered.
Marked(q, st, wi) ==
  /\ \A i, j \in 1..Len(q) : q[i].block = q[j].block => i = j
  /\ \A b \in Blocks : st[b] = "live" <=> \E i \in 1..Len(q) : q[i].block = b
  /\ \A r \in Rows : wi[r] # {Unwritten} =>
       \A b \in wi[r] : b \in Blocks /\ st[b] # "new"

\* The names and numbers that _push_savepoint gives.
Lined(q) ==
  \A i \in 1..Len(q) :
    /\ q[i].index = i - 1 /\ (q[i].outer => i = 1)
    /\ q[i].name \in {i, NameOf[q[i].block]}
    /\ q[i].name = 0 => q[i].outer

\* The savepoints of the live blocks, and in a transaction that failed those of
\* blocks that were left since.
Stack(s, q) ==
  /\ s.status = "IDLE" => q = <<>> /\ s.levels = <<>>
  /\ s.status # "IDLE" => Len(s.levels) >= Depth(q)
  /\ s.status = "INTRANS" => Len(s.levels) = Depth(q)
  /\ \A i \in 1..Len(q) : q[i].name # 0 => s.levels[Place(q, i)].name = q[i].name
  /\ \A k \in 1..Len(s.levels), i \in 1..Len(q) :
       k > Depth(q) => s.levels[k].name # q[i].name

\* Rows in the database or prepared to be: their blocks were left in order.
InStore(s, r) == r \in s.committed \/ \E p \in s.prepared : r \in p.rows

Stored(s, st, wi) ==
  \A r : InStore(s, r) =>
    wi[r] # {Unwritten} /\ \A b \in wi[r] : st[b] \in {"kept", "committed"}

\* Rows under a savepoint: of the live blocks, they are those of that one and the
\* ones below.
Placed(s, q, st, wi) ==
  \A k \in 1..Len(s.levels) : \A r \in s.levels[k].rows :
    /\ wi[r] # {Unwritten}
    /\ \A i \in 1..Len(q) : q[i].block \in wi[r] <=> Place(q, i) <= k
    /\ k <= Depth(q) => \A b \in wi[r] : st[b] \in {"kept", "live"}

\* Rows of a transaction block that nothing has undone are still to be committed.
Waiting(s, q, st, wi) ==
  \A r \in Rows :
    /\ wi[r] # {Unwritten}
    /\ \E i \in 1..Len(q) : q[i].outer /\ q[i].block \in wi[r]
    /\ \A b \in wi[r] : st[b] \in {"kept", "live"}
    => r \in Pending(s)

Settled(s, st, wi) ==
  \A r \in Rows :
    /\ wi[r] # {Unwritten}
    /\ \E b \in wi[r] : st[b] = "committed"
    /\ \A b \in wi[r] : st[b] \in {"kept", "committed"}
    => r \in s.committed

\* A transaction block is left after those in it.
Parted(st, wi) ==
  \A r \in Rows : wi[r] # {Unwritten} =>
    \A a, b \in wi[r] : st[a] = "committed" => st[b] # "live"

Followed(s, q, st, wi) ==
  /\ Lined(q) /\ Stack(s, q) /\ Stored(s, st, wi) /\ Placed(s, q, st, wi)
  /\ Waiting(s, q, st, wi) /\ Settled(s, st, wi) /\ Parted(st, wi)

Nested == /\ server \in SessionType /\ num_transactions = Len(live)
          /\ Followed(server, live, state, within)

BlocksInv ==
  /\ Marked(live, state, within)
  /\ orderly /\ server.status # "UNKNOWN" => Nested

-----------------------------------------------------------------------------
LEMMA Places ==
  ASSUME NEW q \in Seq(Tx), Lined(q)
  PROVE  /\ Len(q) \in Nat /\ Base(q) \in {0, 1} /\ Depth(q) \in Nat /\ Depth(q) >= 1
         /\ \A i \in 1..Len(q) : /\ Place(q, i) \in 1..Depth(q)
                                 /\ q[i].name # 0 => Place(q, i) >= 2
                                 /\ q[i].name \in Int
<1>1. Len(q) \in Nat /\ Base(q) \in {0, 1}
  BY DEF Base
<1>2. Base(q) = 1 => Len(q) >= 1 /\ q[1].name = 0
  BY DEF Base
<1>3. ASSUME NEW i \in 1..Len(q)
      PROVE  /\ Place(q, i) \in 1..Depth(q)
             /\ q[i].name # 0 => Place(q, i) >= 2
             /\ q[i].name \in Int
  <2>1. q[i].name # 0 /\ Base(q) = 1 => i # 1
    BY <1>2
  <2>2. q[i] \in Tx
    OBVIOUS
  <2> QED BY <1>1, <2>1, <2>2 DEF Place, Depth, Tx
<1> QED BY <1>1, <1>2, <1>3 DEF Depth, Place

Pushed(q, u, tx) ==
  /\ u \in Seq(Tx) /\ Len(u) = Len(q) + 1 /\ u[Len(u)] = tx
  /\ \A i \in 1..Len(q) : u[i] = q[i]

FrontOf(q, u) ==
  /\ u \in Seq(Tx) /\ Len(q) = Len(u) + 1
  /\ \A i \in 1..Len(u) : u[i] = q[i]

LEMMA PushedPlaces ==
  ASSUME NEW q \in Seq(Tx), NEW u, NEW tx, Pushed(q, u, tx), Lined(q), tx.name # 0
  PROVE  /\ Base(u) = Base(q) /\ Depth(u) = Depth(q) + 1
         /\ \A i : Place(u, i) = Place(q, i)
<1>1. Len(q) \in Nat /\ Base(q) \in {0, 1}
  BY Places
<1>2. Base(u) = Base(q)
  <2>1. CASE q = <<>>
    BY <2>1 DEF Base, Pushed
  <2>2. CASE q # <<>>
    <3>1. 1 \in 1..Len(q) /\ u # <<>>
      BY <2>2 DEF Pushed
    <3> QED BY <2>2, <3>1 DEF Base, Pushed
  <2> QED BY <2>1, <2>2
<1> QED BY <1>1, <1>2 DEF Depth, Place, Pushed

LEMMA FrontPlaces ==
  ASSUME NEW q \in Seq(Tx), NEW u, FrontOf(q, u), Lined(q), q[Len(q)].name # 0
  PROVE  /\ Base(u) = Base(q) /\ Depth(q) = Depth(u) + 1
         /\ \A i : Place(u, i) = Place(q, i)
<1>1. Len(q) \in Nat /\ Base(q) \in {0, 1} /\ Len(u) \in Nat
  BY Places DEF FrontOf
<1>2. Base(u) = Base(q)
  <2>1. CASE u = <<>>
    BY <2>1 DEF Base, FrontOf
  <2>2. CASE u # <<>>
    <3>1. 1 \in 1..Len(u) /\ q # <<>>
      BY <2>2, <1>1 DEF FrontOf
    <3> QED BY <2>2, <3>1 DEF Base, FrontOf
  <2> QED BY <2>1, <2>2
<1> QED BY <1>1, <1>2 DEF Depth, Place, FrontOf

\* The marks of the blocks: a block enters ...
LEMMA EnterKeepsMarked ==
  ASSUME TypeOK, Marked(live, state, within), NEW b \in Blocks, state[b] = "new",
         within' = within,
         \/ live' = live /\ state' = [state EXCEPT ![b] = "failed"]
         \/ \E tx \in Tx : /\ tx.block = b /\ live' = Append(live, tx)
                           /\ state' = [state EXCEPT ![b] = "live"]
  PROVE  Marked(live', state', within')
<1>0. state \in [Blocks -> States] /\ live \in Seq(Tx) /\ Len(live) \in Nat
  BY DEF TypeOK
<1>1. CASE live' = live /\ state' = [state EXCEPT ![b] = "failed"]
  <2>1. ~(\E i \in 1..Len(live) : live[i].block = b)
    BY DEF Marked
  <2> QED BY <1>0, <1>1, <2>1 DEF Marked
<1>2. ASSUME NEW tx \in Tx, tx.block = b, live' = Append(live, tx),
             state' = [state EXCEPT ![b] = "live"]
      PROVE  Marked(live', state', within')
  <2>1. ~(\E i \in 1..Len(live) : live[i].block = b)
    BY DEF Marked
  <2>2. /\ Len(live') = Len(live) + 1 /\ live'[Len(live) + 1] = tx
        /\ \A i \in 1..Len(live) : live'[i] = live[i]
    BY <1>0, <1>2
  <2>3. ASSUME NEW i \in 1..Len(live'), NEW j \in 1..Len(live'),
               live'[i].block = live'[j].block
        PROVE  i = j
    <3>1. i \in 1..Len(live) \/ i = Len(live) + 1
      BY <1>0, <2>2
    <3>2. j \in 1..Len(live) \/ j = Len(live) + 1
      BY <1>0, <2>2
    <3> QED BY <1>2, <2>1, <2>2, <2>3, <3>1, <3>2 DEF Marked
  <2>4. ASSUME NEW c \in Blocks
        PROVE  state'[c] = "live" <=> \E i \in 1..Len(live') : live'[i].block = c
    <3>1. CASE c = b
      <4>1. Len(live) + 1 \in 1..Len(live')
        BY <1>0, <2>2
      <4> QED BY <1>0, <1>2, <2>2, <3>1, <4>1
    <3>2. CASE c # b
      <4>1. state'[c] = state[c]
        BY <1>0, <1>2, <3>2
      <4>2. \A i \in 1..Len(live') : i \in 1..Len(live) \/ live'[i].block = b
        BY <1>0, <1>2, <2>2
      <4>3. \A i \in 1..Len(live) : i \in 1..Len(live')
        BY <1>0, <2>2
      <4> QED BY <2>2, <3>2, <4>1, <4>2, <4>3 DEF Marked
    <3> QED BY <3>1, <3>2
  <2>5. \A c \in Blocks : state[c] # "new" => state'[c] # "new"
    BY <1>0, <1>2
  <2> QED BY <2>3, <2>4, <2>5 DEF Marked
<1> QED BY <1>1, <1>2

\* ... exits ...
LEMMA ExitKeepsMarked ==
  ASSUME TypeOK, Marked(live, state, within), NEW i \in 1..Len(live),
         live' = SubSeq(live, 1, i - 1) \o SubSeq(live, i + 1, Len(live)),
         NEW x, x \notin {"new", "live"}, state' = [state EXCEPT ![live[i].block] = x],
         within' = within
  PROVE  Marked(live', state', within')
<1>a. state \in [Blocks -> States] /\ live \in Seq(Tx) /\ Len(live) \in Nat
  BY DEF TypeOK
<1>b. PICK n \in Nat : n = Len(live)
  BY <1>a
<1>0. n \in Nat /\ i \in 1..n /\ state \in [Blocks -> States]
  BY <1>a, <1>b
<1>c. /\ Len(live') = Len(live) - 1
      /\ \A j \in 1..Len(live') : live'[j] = IF j < i THEN live[j] ELSE live[j + 1]
  BY <1>a, WithoutAt
<1>1. /\ Len(live') = n - 1
      /\ \A j \in 1..(n - 1) : live'[j] = IF j < i THEN live[j] ELSE live[j + 1]
  BY <1>b, <1>c
<1>2. live[i] \in Tx /\ live[i].block \in Blocks
  <2>1. live[i] \in Tx
    BY <1>a
  <2> QED BY <2>1 DEF Tx
<1>3. \A j, k \in 1..n : live[j].block = live[k].block => j = k
  BY <1>b DEF Marked
<1>4. ASSUME NEW j \in 1..(n - 1), NEW k \in 1..(n - 1),
             live'[j].block = live'[k].block
      PROVE  j = k
  <2>1. /\ j \in 1..n /\ j + 1 \in 1..n
        /\ k \in 1..n /\ k + 1 \in 1..n
    BY <1>0, <1>1
  <2> DEFINE p(m) == IF m < i THEN m ELSE m + 1
  <2>2. /\ p(j) \in 1..n /\ p(k) \in 1..n
        /\ live'[j] = live[p(j)] /\ live'[k] = live[p(k)]
    BY <1>1, <2>1
  <2>3. p(j) = p(k)
    <3> HIDE DEF p
    <3> QED BY <1>3, <1>4, <2>2
  <2>4. i \in Int /\ j \in Int /\ k \in Int
    BY <1>0
  <2> QED BY <2>3, <2>4
<1>5. ASSUME NEW c \in Blocks
      PROVE  state'[c] = "live" <=> \E j \in 1..(n - 1) : live'[j].block = c
  <2>1. CASE c = live[i].block
    <3>1. state'[c] # "live"
      BY <1>0, <2>1
    <3>2. ASSUME NEW j \in 1..(n - 1), live'[j].block = c PROVE FALSE
      <4>1. j \in 1..n /\ j + 1 \in 1..n
        BY <1>0, <1>1
      <4> DEFINE p == IF j < i THEN j ELSE j + 1
      <4>2. p \in 1..n /\ live'[j] = live[p]
        BY <1>1, <4>1
      <4>3. p # i
        BY <1>0
      <4> HIDE DEF p
      <4> QED BY <1>0, <1>3, <2>1, <3>2, <4>2, <4>3
    <3> QED BY <3>1, <3>2
  <2>2. CASE c # live[i].block
    <3>1. state'[c] = state[c]
      BY <1>0, <2>2
    <3>2. ASSUME NEW j \in 1..n, live[j].block = c
          PROVE  \E k \in 1..(n - 1) : live'[k].block = c
      <4>1. CASE j < i
        <5>0. j \in 1..(n - 1)
          BY <1>0, <4>1
        <5>1. j \in 1..(n - 1) /\ live'[j] = live[j]
          BY <1>1, <4>1, <5>0
        <5> QED BY <3>2, <5>1
      <4>2. CASE j > i
        <5>1. j - 1 \in 1..(n - 1) /\ ~(j - 1 < i) /\ (j - 1) + 1 = j
          BY <1>0, <1>1, <4>2
        <5>2. live'[j - 1] = live[j]
          BY <1>1, <5>1
        <5> QED BY <3>2, <5>1, <5>2
      <4>3. j # i
        BY <2>2, <3>2
      <4>4. j \in Int /\ i \in Int
        BY <1>0
      <4>5. j < i \/ j > i
        BY <4>3, <4>4
      <4> QED BY <4>1, <4>2, <4>5
    <3>3. ASSUME NEW k \in 1..(n - 1), live'[k].block = c
          PROVE  \E j \in 1..n : live[j].block = c
      <4>1. k \in 1..n /\ k + 1 \in 1..n
        BY <1>0, <1>1
      <4> QED BY <1>1, <3>3, <4>1
    <3> QED BY <1>b, <3>1, <3>2, <3>3 DEF Marked
  <2> QED BY <2>1, <2>2
<1>6. \A c \in Blocks : state[c] # "new" => state'[c] # "new"
  BY <1>0
<1>7. \A r \in Rows : within'[r] # {Unwritten} =>
        \A c \in within'[r] : c \in Blocks /\ state'[c] # "new"
  BY <1>6 DEF Marked
<1> QED BY <1>1, <1>4, <1>5, <1>7 DEF Marked

\* ... and a statement writes rows.
LEMMA WriteKeepsMarked ==
  ASSUME TypeOK, Marked(live, state, within), UNCHANGED <<live, state>>, NEW w,
         within' = [r \in Rows |-> IF r \in w THEN LiveBlocks ELSE within[r]]
  PROVE  Marked(live', state', within')
<1>0. state \in [Blocks -> States] /\ live \in Seq(Tx) /\ DOMAIN live = 1..Len(live)
  BY DEF TypeOK
<1>1. \A i \in 1..Len(live) : live[i] \in Tx
  BY <1>0
<1>2. \A b \in LiveBlocks : b \in Blocks /\ state[b] = "live"
  BY <1>0, <1>1 DEF LiveBlocks, Marked, Tx
<1>3. ASSUME NEW r \in Rows, within'[r] # {Unwritten}, NEW b \in within'[r]
      PROVE  b \in Blocks /\ state'[b] # "new"
  <2>1. within'[r] = LiveBlocks \/ within'[r] = within[r]
    OBVIOUS
  <2> QED BY <1>2, <1>3, <2>1 DEF Marked
<1> QED BY <1>3 DEF Marked

\* Fields of a session.
LEMMA FieldsOf ==
  ASSUME NEW a, NEW l, NEW c, NEW p, NEW s, s = SessionOf(a, l, c, p)
  PROVE  s.status = a /\ s.levels = l /\ s.committed = c /\ s.prepared = p
BY DEF SessionOf

\* The blocks rows were written in do not change, and what is stored neither.
LEMMA StoreStays ==
  ASSUME Nested, within' = within,
         server'.committed = server.committed, server'.prepared = server.prepared,
         \A r \in Rows : within[r] # {Unwritten} =>
           \A b \in within[r] : state'[b] = state[b]
  PROVE  /\ Stored(server', state', within') /\ Settled(server', state', within')
         /\ Parted(state', within')
<1>1. \A r : InStore(server, r) => r \in Rows
  <2>1. server.committed \subseteq Rows /\ server.prepared \subseteq PreparedType
    BY Fields DEF Nested
  <2>2. \A p \in server.prepared : p.rows \subseteq Rows
    BY <2>1 DEF PreparedType
  <2> QED BY <2>1, <2>2 DEF InStore
<1>2. Stored(server', state', within')
  <2>1. Stored(server, state, within)
    BY DEF Nested, Followed
  <2>2. \A r : InStore(server', r) => InStore(server, r)
    BY DEF InStore
  <2> QED BY <1>1, <2>1, <2>2 DEF Stored
<1>3. Settled(server', state', within')
  <2>1. Settled(server, state, within)
    BY DEF Nested, Followed
  <2> QED BY <2>1 DEF Settled
<1>4. Parted(state', within')
  <2>1. Parted(state, within)
    BY DEF Nested, Followed
  <2> QED BY <2>1 DEF Parted
<1> QED BY <1>2, <1>3, <1>4

\* A block in a transaction: its savepoint is the topmost one.
LEMMA PushKeeps ==
  ASSUME TypeOK, Marked(live, state, within), Nested, server.status = "INTRANS",
         NEW b \in Blocks, state[b] = "new",
         NEW tx \in Tx, tx.block = b, ~tx.outer, tx.name # 0, tx.index = Len(live),
         tx.name \in {Len(live) + 1, NameOf[b]},
         server' \in SessionType,
         server' = SessionOf("INTRANS", Append(server.levels, Level(tx.name)),
                            server.committed, server.prepared),
         live' = Append(live, tx), state' = [state EXCEPT ![b] = "live"],
         within' = within, num_transactions' = num_transactions + 1
  PROVE  Nested'
<1>a. /\ live \in Seq(Tx) /\ state \in [Blocks -> States] /\ server \in SessionType
      /\ Lined(live) /\ Stack(server, live) /\ Placed(server, live, state, within)
      /\ Waiting(server, live, state, within)
  BY DEF TypeOK, Nested, Followed
<1>b. PICK n \in Nat : n = Len(live)
  BY <1>a
<1>c. PICK d \in Nat : d = Depth(live) /\ d >= 1
  BY <1>a, Places
<1>d. PICK e : e = Base(live)
  OBVIOUS
<1>0. d = 1 + n - e /\ e \in {0, 1}
  BY <1>a, <1>b, <1>c, <1>d, Places DEF Depth, Place
<1>1. Pushed(live, live', tx) /\ Len(live') = n + 1
  BY <1>a, <1>b DEF Pushed
<1>2. /\ Base(live') = e /\ Depth(live') = d + 1
      /\ \A i : Place(live', i) = 1 + i - e /\ Place(live, i) = 1 + i - e
  BY <1>a, <1>c, <1>d, <1>1, PushedPlaces DEF Place
<1>3. /\ server'.status = "INTRANS" /\ server'.levels = Append(server.levels, Level(tx.name))
      /\ server'.committed = server.committed /\ server'.prepared = server.prepared
  BY DEF SessionOf
<1>4. Len(server.levels) = d
  BY <1>a, <1>c DEF Stack
<1>5. /\ Len(server'.levels) = d + 1
      /\ \A k \in 1..d : server'.levels[k] = server.levels[k]
      /\ server'.levels[d + 1].name = tx.name /\ server'.levels[d + 1].rows = {}
  <2>1. server.levels \in Seq(LevelType) /\ tx.name \in Int
    BY <1>a, Fields DEF Tx
  <2> QED BY <1>3, <1>4, <2>1, ALevel
<1>6. \A r \in Rows : within[r] # {Unwritten} =>
        b \notin within[r] /\ \A c \in within[r] : state'[c] = state[c]
  BY <1>a DEF Marked
<1>7. Lined(live')
  <2>1. ASSUME NEW i \in 1..(n + 1)
        PROVE  /\ live'[i].index = i - 1 /\ (live'[i].outer => i = 1)
               /\ live'[i].name \in {i, NameOf[live'[i].block]}
               /\ live'[i].name = 0 => live'[i].outer
    <3>1. CASE i = n + 1
      BY <1>1, <1>b, <3>1 DEF Pushed
    <3>2. CASE i \in 1..n
      BY <1>a, <1>1, <1>b, <3>2 DEF Pushed, Lined
    <3>3. i = n + 1 \/ i \in 1..n
      OBVIOUS
    <3> QED BY <3>1, <3>2, <3>3
  <2> QED BY <1>1, <2>1 DEF Lined
<1>8. Stack(server', live')
  <2>1. ASSUME NEW i \in 1..(n + 1), live'[i].name # 0
        PROVE  server'.levels[Place(live', i)].name = live'[i].name
    <3>1. CASE i = n + 1
      BY <1>0, <1>1, <1>2, <1>5, <3>1 DEF Pushed
    <3>2. CASE i \in 1..n
      <4>1. live'[i] = live[i]
        BY <1>1, <1>b, <3>2 DEF Pushed
      <4>2. Place(live', i) = Place(live, i) /\ Place(live, i) \in 1..d
        BY <1>2, <1>a, <1>b, <1>c, <3>2, Places
      <4>3. server.levels[Place(live, i)].name = live[i].name
        BY <1>a, <1>b, <2>1, <3>2, <4>1 DEF Stack
      <4> QED BY <1>5, <4>1, <4>2, <4>3
    <3>3. i = n + 1 \/ i \in 1..n
      OBVIOUS
    <3> QED BY <3>1, <3>2, <3>3
  <2> QED BY <1>1, <1>2, <1>3, <1>5, <2>1 DEF Stack
<1>9. Placed(server', live', state', within')
  <2> SUFFICES ASSUME NEW k \in 1..(d + 1), NEW r \in server'.levels[k].rows
               PROVE  /\ within[r] # {Unwritten}
                      /\ \A i \in 1..(n + 1) : live'[i].block \in within[r] <=>
                                               Place(live', i) <= k
                      /\ \A c \in within[r] : state'[c] \in {"kept", "live"}
    BY <1>1, <1>5 DEF Placed
  <2>1. k \in 1..d /\ r \in server.levels[k].rows /\ r \in Rows
    <3>1. k \in 1..d /\ r \in server.levels[k].rows
      BY <1>5
    <3>2. server.levels[k] \in LevelType
      BY <1>4, <1>a, <3>1, Fields
    <3> QED BY <3>1, <3>2 DEF LevelType
  <2>2. /\ within[r] # {Unwritten}
        /\ \A i \in 1..n : live[i].block \in within[r] <=> Place(live, i) <= k
        /\ \A c \in within[r] : state[c] \in {"kept", "live"}
    BY <1>a, <1>b, <1>c, <1>4, <2>1 DEF Placed
  <2>3. \A c \in within[r] : state'[c] \in {"kept", "live"}
    BY <1>6, <2>1, <2>2
  <2>4. ASSUME NEW i \in 1..(n + 1)
        PROVE  live'[i].block \in within[r] <=> Place(live', i) <= k
    <3>1. CASE i = n + 1
      <4>1. live'[i].block \notin within[r]
        BY <1>1, <1>6, <2>1, <2>2, <3>1 DEF Pushed
      <4>2. ~(Place(live', i) <= k)
        BY <1>0, <1>2, <2>1, <3>1
      <4> QED BY <4>1, <4>2
    <3>2. CASE i \in 1..n
      BY <1>1, <1>2, <1>b, <2>2, <3>2 DEF Pushed
    <3>3. i = n + 1 \/ i \in 1..n
      OBVIOUS
    <3> QED BY <3>1, <3>2, <3>3
  <2> QED BY <2>2, <2>3, <2>4
<1>10. Waiting(server', live', state', within')
  <2> SUFFICES ASSUME NEW r \in Rows, within[r] # {Unwritten},
                      NEW i \in 1..(n + 1), live'[i].outer, live'[i].block \in within[r],
                      \A c \in within[r] : state'[c] \in {"kept", "live"}
               PROVE  r \in Pending(server')
    BY <1>1 DEF Waiting
  <2>1. i \in 1..n /\ live'[i] = live[i]
    BY <1>1, <1>b DEF Pushed
  <2>2. \A c \in within[r] : state[c] \in {"kept", "live"}
    BY <1>6
  <2>3. r \in Pending(server)
    BY <1>a, <1>b, <2>1, <2>2 DEF Waiting
  <2>4. PICK k \in 1..d : r \in server.levels[k].rows
    BY <1>4, <1>a, <2>3, PendingRows
  <2>5. k \in 1..(d + 1) /\ r \in server'.levels[k].rows
    BY <1>5, <2>4
  <2> QED BY <1>5, <2>5, PendingRows
<1>11. /\ Stored(server', state', within') /\ Settled(server', state', within')
       /\ Parted(state', within')
  BY <1>3, <1>6, StoreStays
<1> QED BY <1>1, <1>7, <1>8, <1>9, <1>10, <1>11, <1>b DEF Nested, Followed

\* Nothing is written under a savepoint, no row is of a live block.
LEMMA Fresh ==
  ASSUME NEW q, NEW st, NEW wi, NEW s, NEW n \in Nat, Len(s.levels) = n,
         \A k \in 1..n : s.levels[k].rows = {},
         \A r \in Rows : wi[r] # {Unwritten} =>
           \A i \in 1..Len(q) : q[i].outer => q[i].block \notin wi[r]
  PROVE  Placed(s, q, st, wi) /\ Waiting(s, q, st, wi)
<1>1. Placed(s, q, st, wi)
  BY DEF Placed
<1>2. Waiting(s, q, st, wi)
  BY DEF Waiting
<1> QED BY <1>1, <1>2

\* The block that begins the transaction.
LEMMA OuterKeeps ==
  ASSUME TypeOK, Marked(live, state, within), Nested, server.status = "IDLE",
         NEW b \in Blocks, state[b] = "new",
         NEW tx \in Tx, tx.block = b, tx.outer, tx.name = NameOf[b], tx.index = Len(live),
         server' \in SessionType, server'.status = "INTRANS",
         server'.committed = server.committed, server'.prepared = server.prepared,
         server'.levels = IF tx.name = 0 THEN <<Level(0)>>
                          ELSE Append(<<Level(0)>>, Level(tx.name)),
         live' = Append(live, tx), state' = [state EXCEPT ![b] = "live"],
         within' = within, num_transactions' = num_transactions + 1
  PROVE  Nested'
<1>1. live = <<>> /\ state \in [Blocks -> States]
  BY DEF TypeOK, Nested, Followed, Stack
<1>2. /\ Len(live) = 0 /\ Len(live') = 1 /\ live'[1] = tx /\ live' # <<>>
      /\ 1..Len(live') = {1}
  BY <1>1
<1>3. num_transactions' = Len(live') /\ tx.index = 0
  BY <1>2 DEF Nested
<1>4. \A r \in Rows : within[r] # {Unwritten} =>
        b \notin within[r] /\ \A c \in within[r] : state'[c] = state[c]
  BY <1>1 DEF Marked
<1>5. Lined(live')
  BY <1>2, <1>3 DEF Lined
<1>6. /\ Base(live') = IF tx.name = 0 THEN 1 ELSE 0
      /\ Place(live', 1) = IF tx.name = 0 THEN 1 ELSE 2
      /\ Depth(live') = IF tx.name = 0 THEN 1 ELSE 2
  BY <1>2 DEF Base, Place, Depth
<1>7. /\ tx.name \in Int
      /\ Len(server'.levels) = Depth(live')
      /\ \A k \in 1..Depth(live') : server'.levels[k].rows = {}
      /\ tx.name # 0 => server'.levels[2].name = tx.name
  <2>1. tx.name \in Int
    BY DEF Tx
  <2>2. CASE tx.name = 0
    BY <2>1, <1>6, <2>2, ALevel
  <2>3. CASE tx.name # 0
    <3>1. /\ Level(0).rows = {} /\ Level(tx.name).rows = {}
          /\ Level(tx.name).name = tx.name
          /\ <<Level(0)>> \in Seq(LevelType) /\ Level(tx.name) \in LevelType
      BY <2>1, ALevel
    <3> DEFINE u == Append(<<Level(0)>>, Level(tx.name))
    <3>2. Len(u) = 2 /\ u[1] = Level(0) /\ u[2] = Level(tx.name)
      BY <3>1
    <3> HIDE DEF u
    <3>3. server'.levels = u
      BY <2>3 DEF u
    <3> QED BY <2>1, <1>6, <2>3, <3>1, <3>2, <3>3
  <2> QED BY <2>2, <2>3
<1>8. Stack(server', live')
  BY <1>2, <1>6, <1>7 DEF Stack
<1>9. Placed(server', live', state', within') /\ Waiting(server', live', state', within')
  <2>1. Depth(live') \in Nat
    BY <1>6
  <2>2. \A r \in Rows : within'[r] # {Unwritten} =>
          \A i \in 1..Len(live') : live'[i].outer => live'[i].block \notin within'[r]
    BY <1>2, <1>4
  <2> QED BY <1>7, <2>1, <2>2, Fresh
<1>10. /\ Stored(server', state', within') /\ Settled(server', state', within')
       /\ Parted(state', within')
  BY <1>4, StoreStays
<1> QED BY <1>3, <1>5, <1>8, <1>9, <1>10 DEF Nested, Followed

\* BEGIN outside of a block.
LEMMA BeginKeeps ==
  ASSUME Nested, server.status = "IDLE", UNCHANGED <<live, state, within, num_transactions>>,
         server' \in SessionType,
         server' = SessionOf("INTRANS", <<Level(0)>>, server.committed, server.prepared)
  PROVE  Nested'
<1>1. live = <<>> /\ live' = <<>> /\ Len(live) = 0 /\ 1..Len(live) = {}
  BY DEF Nested, Followed, Stack
<1>2. /\ server'.status = "INTRANS" /\ server'.levels = <<Level(0)>>
      /\ server'.committed = server.committed /\ server'.prepared = server.prepared
  BY DEF SessionOf
<1>3. Len(server'.levels) = 1 /\ \A k \in 1..1 : server'.levels[k].rows = {}
  BY <1>2, ALevel
<1>4. Lined(live') /\ Depth(live') = 1
  BY <1>1 DEF Lined, Depth, Place, Base
<1>5. Stack(server', live')
  <2>1. 1..Len(live') = {} /\ Len(server'.levels) >= 1
    BY <1>1, <1>3
  <2> QED BY <1>2, <1>3, <1>4, <2>1 DEF Stack
<1>6. Placed(server', live', state', within') /\ Waiting(server', live', state', within')
  BY <1>1, <1>3, Fresh
<1>7. /\ Stored(server', state', within') /\ Settled(server', state', within')
      /\ Parted(state', within')
  BY <1>2, StoreStays
<1> QED BY <1>4, <1>5, <1>6, <1>7 DEF Nested, Followed

\* The end of the transaction, where no block is left.
LEMMA EndKeeps ==
  ASSUME server' \in SessionType, server'.status = "IDLE", server'.levels = <<>>,
         live' = <<>>, num_transactions' = 0,
         Stored(server', state', within'), Settled(server', state', within'),
         Parted(state', within')
  PROVE  Nested'
<1>1. Len(live') = 0 /\ 1..Len(live') = {}
  OBVIOUS
<1>2. Lined(live')
  BY <1>1 DEF Lined
<1>3. Stack(server', live')
  BY <1>1 DEF Stack
<1>4. Len(server'.levels) = 0 /\ \A k \in 1..0 : server'.levels[k].rows = {}
  OBVIOUS
<1>5. Placed(server', live', state', within') /\ Waiting(server', live', state', within')
  BY <1>1, <1>4, Fresh
<1> QED BY <1>1, <1>2, <1>3, <1>5 DEF Nested, Followed

\* The rows that COMMIT would commit.
LEMMA PendingAre ==
  ASSUME Nested, server.status = "INTRANS"
  PROVE  \A r \in Pending(server) :
           /\ r \in Rows /\ within[r] # {Unwritten}
           /\ \A b \in within[r] : state[b] \in {"kept", "live"}
<1> SUFFICES ASSUME NEW r \in Pending(server)
             PROVE  /\ r \in Rows /\ within[r] # {Unwritten}
                    /\ \A b \in within[r] : state[b] \in {"kept", "live"}
  OBVIOUS
<1>1. /\ server \in SessionType /\ Stack(server, live)
      /\ Placed(server, live, state, within)
  BY DEF Nested, Followed
<1>2. PICK k \in 1..Len(server.levels) : r \in server.levels[k].rows
  BY <1>1, PendingRows
<1>3. r \in Rows
  BY <1>1, PendingRows
<1>4. Len(server.levels) \in Nat /\ Len(server.levels) = Depth(live)
  <2>1. server.levels \in Seq(LevelType)
    BY <1>1, Fields
  <2> QED BY <1>1, <2>1 DEF Stack
<1>5. k <= Depth(live)
  BY <1>4
<1> QED BY <1>1, <1>2, <1>3, <1>5 DEF Placed

\* COMMIT, PREPARE and ROLLBACK outside of a block.
LEMMA PlainEndKeeps ==
  ASSUME Marked(live, state, within), Nested, live = <<>>,
         UNCHANGED <<live, state, within, num_transactions>>,
         server' \in SessionType, server'.status = "IDLE", server'.levels = <<>>,
         \/ /\ server'.committed = server.committed
            /\ server'.prepared = server.prepared
         \/ /\ server.status = "INTRANS"
            /\ server'.committed = server.committed \cup Pending(server)
            /\ server'.prepared = server.prepared
         \/ /\ server.status = "INTRANS"
            /\ server'.committed = server.committed
            /\ \E x : server'.prepared =
                        server.prepared \cup {[xid |-> x, rows |-> Pending(server)]}
  PROVE  Nested'
<1>1. live' = <<>> /\ num_transactions' = 0
  BY DEF Nested
<1>2. CASE /\ server'.committed = server.committed
           /\ server'.prepared = server.prepared
  <2>1. /\ Stored(server', state', within') /\ Settled(server', state', within')
        /\ Parted(state', within')
    BY <1>2, StoreStays
  <2> QED BY <1>1, <2>1, EndKeeps
<1>3. ASSUME server.status = "INTRANS",
             server.committed \subseteq server'.committed,
             \A r : InStore(server', r) => InStore(server, r) \/ r \in Pending(server)
      PROVE  Nested'
  <2>1. \A b \in Blocks : state[b] # "live"
    BY DEF Marked
  <2>2. \A r \in Pending(server) :
          within[r] # {Unwritten} /\ \A b \in within[r] : state[b] = "kept"
    <3>1. \A r \in Pending(server) :
            /\ r \in Rows /\ within[r] # {Unwritten}
            /\ \A b \in within[r] : state[b] \in {"kept", "live"}
      BY <1>3, PendingAre
    <3> QED BY <2>1, <3>1 DEF Marked
  <2>3. Stored(server', state', within')
    <3>1. Stored(server, state, within)
      BY DEF Nested, Followed
    <3> QED BY <1>3, <2>2, <3>1 DEF Stored
  <2>4. Settled(server', state', within')
    <3>1. Settled(server, state, within)
      BY DEF Nested, Followed
    <3> QED BY <1>3, <3>1 DEF Settled
  <2>5. Parted(state', within')
    BY DEF Nested, Followed, Parted
  <2> QED BY <1>1, <2>3, <2>4, <2>5, EndKeeps
<1>4. CASE /\ server.status = "INTRANS"
           /\ server'.committed = server.committed \cup Pending(server)
           /\ server'.prepared = server.prepared
  BY <1>3, <1>4 DEF InStore
<1>5. ASSUME server.status = "INTRANS", server'.committed = server.committed,
             NEW x, server'.prepared =
                      server.prepared \cup {[xid |-> x, rows |-> Pending(server)]}
      PROVE  Nested'
  <2> DEFINE y == [xid |-> x, rows |-> Pending(server)]
  <2>1. y.rows = Pending(server) /\ server'.prepared = server.prepared \cup {y}
    BY <1>5
  <2> HIDE DEF y
  <2>2. \A r : InStore(server', r) => InStore(server, r) \/ r \in Pending(server)
    BY <1>5, <2>1 DEF InStore
  <2> QED BY <1>3, <1>5, <2>2
<1> QED BY <1>2, <1>4, <1>5

\* The last block exits, and what is stored does not change.
LEMMA StoreLeft ==
  ASSUME TypeOK, Nested, NEW b \in Blocks, state[b] = "live",
         NEW x \in {"kept", "lost", "failed", "undone"},
         state' = [state EXCEPT ![b] = x], within' = within,
         server'.committed = server.committed, server'.prepared = server.prepared
  PROVE  /\ Stored(server', state', within') /\ Settled(server', state', within')
         /\ Parted(state', within')
<1>0. state \in [Blocks -> States]
  BY DEF TypeOK
<1>1. Stored(server, state, within) /\ Settled(server, state, within) /\ Parted(state, within)
  BY DEF Nested, Followed
<1>2. /\ \A c : c # b => state'[c] = state[c]
      /\ state'[b] = x
  BY <1>0
<1>3. Stored(server', state', within')
  <2>1. \A r : InStore(server', r) => InStore(server, r)
    BY DEF InStore
  <2>2. \A r : InStore(server, r) => \A c \in within[r] : c # b
    BY <1>1 DEF Stored
  <2> QED BY <1>1, <1>2, <2>1, <2>2 DEF Stored
<1>4. Settled(server', state', within')
  <2> SUFFICES ASSUME NEW r \in Rows, within[r] # {Unwritten},
                      NEW a \in within[r], state'[a] = "committed",
                      \A c \in within[r] : state'[c] \in {"kept", "committed"}
               PROVE  r \in server.committed
    BY DEF Settled
  <2>1. a # b /\ state[a] = "committed"
    BY <1>2
  <2>2. b \notin within[r]
    BY <1>1, <2>1 DEF Parted
  <2>3. \A c \in within[r] : state[c] \in {"kept", "committed"}
    BY <1>2, <2>2
  <2> QED BY <1>1, <2>1, <2>3 DEF Settled
<1>5. Parted(state', within')
  BY <1>1, <1>2 DEF Parted
<1> QED BY <1>3, <1>4, <1>5

\* The block that began the transaction exits: it ends the transaction.
LEMMA OuterEndKeeps ==
  ASSUME TypeOK, Marked(live, state, within), Nested, live # <<>>,
         live[Len(live)].outer, FrontOf(live, live'), NEW x,
         state' = [state EXCEPT ![live[Len(live)].block] = x], within' = within,
         num_transactions' = num_transactions - 1,
         server' \in SessionType, server'.status = "IDLE", server'.levels = <<>>,
         server'.prepared = server.prepared,
         \/ /\ server'.committed = server.committed
            /\ x \in {"lost", "failed", "undone"}
         \/ /\ server.status = "INTRANS" /\ x = "committed"
            /\ server'.committed = server.committed \cup Pending(server)
  PROVE  Nested'
<1>0. /\ live \in Seq(Tx) /\ state \in [Blocks -> States]
      /\ Len(live) \in Nat /\ Len(live) \in 1..Len(live)
  BY DEF TypeOK
<1>1. Len(live) = 1
  BY <1>0 DEF Nested, Followed, Lined
<1>2. live' = <<>> /\ num_transactions' = 0
  <2>1. live' \in Seq(Tx) /\ Len(live') = 0
    <3>1. live' \in Seq(Tx) /\ Len(live) = Len(live') + 1
      BY DEF FrontOf
    <3>2. PICK k \in Nat : k = Len(live')
      BY <3>1
    <3>3. 1 = k + 1
      BY <1>1, <3>1, <3>2
    <3>4. k = 0
      BY <3>3
    <3> QED BY <3>1, <3>2, <3>4
  <2>2. live' = <<>>
    BY <2>1
  <2> QED BY <1>1, <2>2 DEF Nested
<1>3. PICK b \in Blocks : b = live[1].block
  <2>1. live[1] \in Tx
    BY <1>0, <1>1
  <2> QED BY <2>1 DEF Tx
<1>4. /\ \A c \in Blocks : state[c] = "live" <=> c = b
      /\ \A c : c # b => state'[c] = state[c]
      /\ state'[b] = x
  <2>1. \A c \in Blocks : state[c] = "live" <=> c = b
    BY <1>1, <1>3 DEF Marked
  <2> QED BY <1>0, <1>1, <1>3, <2>1
<1>5. CASE /\ server'.committed = server.committed
           /\ x \in {"lost", "failed", "undone"}
  <2>1. /\ Stored(server', state', within') /\ Settled(server', state', within')
        /\ Parted(state', within')
    BY <1>1, <1>3, <1>4, <1>5, StoreLeft
  <2> QED BY <1>2, <2>1, EndKeeps
<1>6. CASE /\ server.status = "INTRANS" /\ x = "committed"
           /\ server'.committed = server.committed \cup Pending(server)
  <2>1. /\ Stored(server, state, within) /\ Settled(server, state, within)
        /\ Parted(state, within) /\ Waiting(server, live, state, within)
    BY DEF Nested, Followed
  <2>2. \A r \in Pending(server) :
          /\ r \in Rows /\ within[r] # {Unwritten}
          /\ \A c \in within[r] : c \in Blocks /\ state[c] \in {"kept", "live"}
    BY <1>6, PendingAre DEF Marked
  <2>3. Stored(server', state', within')
    <3> SUFFICES ASSUME NEW r, InStore(server', r)
                 PROVE  /\ within[r] # {Unwritten}
                        /\ \A c \in within[r] : state'[c] \in {"kept", "committed"}
      BY DEF Stored
    <3>1. InStore(server, r) \/ r \in Pending(server)
      BY <1>6 DEF InStore
    <3>2. CASE InStore(server, r)
      <4>1. /\ within[r] # {Unwritten}
            /\ \A c \in within[r] : state[c] \in {"kept", "committed"}
        BY <2>1, <3>2 DEF Stored
      <4> QED BY <1>4, <1>6, <4>1
    <3>3. CASE r \in Pending(server)
      BY <1>4, <1>6, <2>2, <3>3
    <3> QED BY <3>1, <3>2, <3>3
  <2>4. Settled(server', state', within')
    <3> SUFFICES ASSUME NEW r \in Rows, within[r] # {Unwritten},
                        NEW a \in within[r], state'[a] = "committed",
                        \A c \in within[r] : state'[c] \in {"kept", "committed"}
                 PROVE  r \in server.committed \cup Pending(server)
      BY <1>6 DEF Settled
    <3>1. CASE b \in within[r]
      <4>1. \A c \in within[r] : c # b => state[c] = "kept"
        BY <1>4, <2>1, <3>1 DEF Parted
      <4>2. \A c \in within[r] : state[c] \in {"kept", "live"}
        BY <1>4, <4>1
      <4>3. 1 \in 1..Len(live) /\ live[1].outer /\ live[1].block \in within[r]
        BY <1>1, <1>3, <3>1
      <4> QED BY <2>1, <4>2, <4>3 DEF Waiting
    <3>2. CASE b \notin within[r]
      <4>1. \A c \in within[r] : state'[c] = state[c]
        BY <1>4, <3>2
      <4> QED BY <2>1, <4>1 DEF Settled
    <3> QED BY <3>1, <3>2
  <2>5. Parted(state', within')
    <3>1. ASSUME NEW r \in Rows, within[r] # {Unwritten}, NEW c \in within[r]
          PROVE  state'[c] # "live"
      <4>1. c \in Blocks
        BY <3>1 DEF Marked
      <4> QED BY <1>4, <1>6, <4>1
    <3> QED BY <3>1 DEF Parted
  <2> QED BY <1>2, <2>3, <2>4, <2>5, EndKeeps
<1> QED BY <1>5, <1>6

\* The last block and its savepoint, if it is not the one that began the
\* transaction: n blocks, of which the last has its savepoint at level d.
LastAt(n, d) ==
  /\ n \in Nat /\ n = Len(live) /\ n >= 1 /\ d \in Nat /\ d >= 2
  /\ d = Depth(live) /\ Len(server.levels) \in Nat /\ Len(server.levels) >= d
  /\ server.status = "INTRANS" => Len(server.levels) = d
  /\ server.levels[d].name = live[n].name
  /\ \A j \in Named(server, live[n].name) : j <= d
  /\ d \in Named(server, live[n].name)
  /\ \A i \in 1..n : Place(live, i) \in 1..d
  /\ \A i \in 1..(n - 1) : Place(live, i) \in 1..(d - 1)
  /\ live[n].block \in Blocks /\ state[live[n].block] = "live"

LEMMA LastSavepoint ==
  ASSUME TypeOK, Marked(live, state, within), Nested, live # <<>>,
         ~live[Len(live)].outer
  PROVE  /\ live[Len(live)].name # 0 /\ live[Len(live)].name \in Int
         /\ \E n, d : LastAt(n, d)
<1>0. /\ live \in Seq(Tx) /\ server \in SessionType
      /\ Lined(live) /\ Stack(server, live)
  BY DEF TypeOK, Nested, Followed
<1>1. PICK n \in Nat : n = Len(live)
  BY <1>0
<1>2. PICK d \in Nat : d = Depth(live)
  BY <1>0, Places
<1>3. n >= 1 /\ n \in 1..n /\ live[n] \in Tx
  BY <1>0, <1>1
<1>4. live[n].name # 0 /\ live[n].block \in Blocks /\ live[n].name \in Int
  <2>1. live[n].name # 0
    BY <1>0, <1>1, <1>3 DEF Lined
  <2> QED BY <1>3, <2>1 DEF Tx
<1>5. /\ \A i \in 1..n : Place(live, i) \in 1..d
      /\ d = Place(live, n) /\ d >= 2
      /\ \A i \in 1..n : Place(live, i) = d - (n - i)
  <2>1. \A i \in 1..n : Place(live, i) \in 1..d
    BY <1>0, <1>1, <1>2, Places
  <2>2. d = Place(live, n)
    BY <1>1, <1>2 DEF Depth
  <2>3. d >= 2
    BY <1>0, <1>1, <1>3, <1>4, <2>2, Places
  <2>4. Base(live) \in {0, 1}
    BY <1>0, Places
  <2> QED BY <2>1, <2>2, <2>3, <2>4 DEF Place
<1>6. \A i \in 1..(n - 1) : Place(live, i) \in 1..(d - 1)
  BY <1>3, <1>5
<1>7. server.levels \in Seq(LevelType)
  BY <1>0, Fields
<1>8. PICK m \in Nat : m = Len(server.levels)
  BY <1>7
<1>9. server.status # "IDLE" /\ m >= d /\ (server.status = "INTRANS" => m = d)
  <2>1. server.status # "IDLE"
    BY <1>0 DEF Stack
  <2> QED BY <1>0, <1>2, <1>8, <2>1 DEF Stack
<1>10. server.levels[d].name = live[n].name
  BY <1>0, <1>1, <1>3, <1>4, <1>5 DEF Stack
<1>11. DOMAIN server.levels = 1..m
  BY <1>7, <1>8
<1>12. \A j \in Named(server, live[n].name) : j <= d
  <2> SUFFICES ASSUME NEW j \in 1..m, server.levels[j].name = live[n].name PROVE j <= d
    BY <1>11 DEF Named
  <2>1. ~(j > d)
    BY <1>0, <1>1, <1>2, <1>3, <1>8 DEF Stack
  <2> QED BY <2>1
<1>13. d \in Named(server, live[n].name)
  BY <1>5, <1>9, <1>10, <1>11 DEF Named
<1>14. state[live[n].block] = "live"
  BY <1>1, <1>3, <1>4 DEF Marked
<1>15. LastAt(n, d)
  BY <1>1, <1>2, <1>3, <1>4, <1>5, <1>6, <1>8, <1>9, <1>10, <1>12, <1>13, <1>14 DEF LastAt
<1> QED BY <1>1, <1>4, <1>15

\* What the exit of the last block leaves to the others.
LEMMA LeftLined ==
  ASSUME TypeOK, Nested, FrontOf(live, live'), num_transactions' = num_transactions - 1,
         live[Len(live)].name # 0, NEW n, NEW d, LastAt(n, d)
  PROVE  /\ Lined(live') /\ num_transactions' = Len(live')
         /\ Len(live') = n - 1 /\ Depth(live') = d - 1
         /\ \A i : Place(live', i) = Place(live, i)
         /\ \A i \in 1..(n - 1) : live'[i] = live[i] /\ Place(live', i) \in 1..(d - 1)
<1>0. live \in Seq(Tx) /\ Lined(live)
  BY DEF TypeOK, Nested, Followed
<1>1. n = Len(live) /\ n \in Nat /\ n >= 1 /\ d = Depth(live) /\ d \in Nat
  BY DEF LastAt
<1>2. Len(live') = n - 1
  <2>1. Len(live') \in Nat
    BY DEF FrontOf
  <2> QED BY <1>1, <2>1 DEF FrontOf
<1>3. Depth(live') = d - 1 /\ \A i : Place(live', i) = Place(live, i)
  <2>1. Depth(live') \in Int
    <3>1. Base(live') \in {0, 1}
      BY DEF Base
    <3> QED BY <1>1, <1>2, <3>1 DEF Depth, Place
  <2> QED BY <1>0, <1>1, <2>1, FrontPlaces
<1>4. \A i \in 1..(n - 1) : live'[i] = live[i] /\ Place(live', i) \in 1..(d - 1)
  BY <1>2, <1>3 DEF FrontOf, LastAt
<1>5. Lined(live')
  BY <1>0, <1>1, <1>2, <1>4 DEF Lined
<1>6. num_transactions' = Len(live')
  BY <1>1, <1>2 DEF Nested
<1> QED BY <1>2, <1>3, <1>4, <1>5, <1>6

\* RELEASE: the block is kept with the one around it.
LEMMA ReleaseKeeps ==
  ASSUME TypeOK, Marked(live, state, within), Nested, live # <<>>,
         ~live[Len(live)].outer, FrontOf(live, live'),
         state' = [state EXCEPT ![live[Len(live)].block] = "kept"], within' = within,
         num_transactions' = num_transactions - 1, server.status = "INTRANS",
         server' \in SessionType, server'.status = "INTRANS",
         Joined(server.levels, server'.levels),
         server'.committed = server.committed, server'.prepared = server.prepared
  PROVE  Nested'
<1>0. /\ live \in Seq(Tx) /\ state \in [Blocks -> States]
      /\ Stack(server, live) /\ Placed(server, live, state, within)
      /\ Waiting(server, live, state, within) /\ server \in SessionType
  BY DEF TypeOK, Nested, Followed
<1>1. PICK n, d : LastAt(n, d)
  BY LastSavepoint
<1>2. /\ Lined(live') /\ num_transactions' = Len(live')
      /\ Len(live') = n - 1 /\ Depth(live') = d - 1
      /\ \A i : Place(live', i) = Place(live, i)
      /\ \A i \in 1..(n - 1) : live'[i] = live[i] /\ Place(live', i) \in 1..(d - 1)
  BY <1>1, LastSavepoint, LeftLined
<1>3. /\ n \in Nat /\ n >= 1 /\ n = Len(live) /\ d \in Nat /\ d >= 2
      /\ d = Depth(live) /\ Len(server.levels) = d
      /\ \A i \in 1..n : Place(live, i) \in 1..d
  BY <1>1 DEF LastAt
<1>4. PICK b \in Blocks : b = live[n].block /\ state[b] = "live"
  BY <1>1 DEF LastAt
<1>5. /\ \A c : c # b => state'[c] = state[c]
      /\ state'[b] = "kept"
  BY <1>0, <1>3, <1>4
<1>6. /\ Len(server'.levels) = d - 1
      /\ \A k \in 1..(d - 1) :
           /\ server'.levels[k].name = server.levels[k].name
           /\ server'.levels[k].rows =
                IF k = d - 1 THEN server.levels[k].rows \cup server.levels[k + 1].rows
                ELSE server.levels[k].rows
  BY <1>3 DEF Joined
<1>7. Stack(server', live')
  <2>1. ASSUME NEW i \in 1..(n - 1), live'[i].name # 0
        PROVE  server'.levels[Place(live', i)].name = live'[i].name
    <3>1. live'[i] = live[i] /\ i \in 1..n
      BY <1>2, <1>3
    <3>2. Place(live', i) = Place(live, i) /\ Place(live', i) \in 1..(d - 1)
      BY <1>2
    <3>3. server.levels[Place(live, i)].name = live[i].name
      BY <1>0, <1>3, <2>1, <3>1 DEF Stack
    <3> QED BY <1>6, <3>1, <3>2, <3>3
  <2> QED BY <1>2, <1>3, <1>6, <2>1 DEF Stack
<1>8. Placed(server', live', state', within')
  <2> SUFFICES ASSUME NEW k \in 1..(d - 1), NEW r \in server'.levels[k].rows
               PROVE  /\ within[r] # {Unwritten}
                      /\ \A i \in 1..(n - 1) : live'[i].block \in within[r] <=>
                                               Place(live', i) <= k
                      /\ \A c \in within[r] : state'[c] \in {"kept", "live"}
    BY <1>2, <1>6 DEF Placed
  <2>1. PICK m \in 1..d : /\ r \in server.levels[m].rows
                          /\ m = k \/ (k = d - 1 /\ m = d)
    <3>1. r \in server.levels[k].rows \/ (k = d - 1 /\ r \in server.levels[k + 1].rows)
      BY <1>6
    <3>2. k \in 1..d /\ (k = d - 1 => k + 1 = d /\ d \in 1..d)
      BY <1>3
    <3> QED BY <3>1, <3>2
  <2>2. /\ within[r] # {Unwritten}
        /\ \A i \in 1..n : live[i].block \in within[r] <=> Place(live, i) <= m
        /\ \A c \in within[r] : state[c] \in {"kept", "live"}
    BY <1>0, <1>3, <2>1 DEF Placed
  <2>3. \A c \in within[r] : state'[c] \in {"kept", "live"}
    BY <1>5, <2>2
  <2>4. ASSUME NEW i \in 1..(n - 1)
        PROVE  live'[i].block \in within[r] <=> Place(live', i) <= k
    <3>0. i \in 1..n
      BY <1>3
    <3>1. i \in 1..n /\ Place(live, i) \in 1..(d - 1)
      BY <1>2, <3>0
    <3>2. Place(live, i) <= m <=> Place(live, i) <= k
      BY <1>3, <2>1, <3>1
    <3> QED BY <1>2, <2>2, <3>1, <3>2
  <2> QED BY <2>2, <2>3, <2>4
<1>9. Waiting(server', live', state', within')
  <2> SUFFICES ASSUME NEW r \in Rows, within[r] # {Unwritten},
                      NEW i \in 1..(n - 1), live'[i].outer, live'[i].block \in within[r],
                      \A c \in within[r] : state'[c] \in {"kept", "live"}
               PROVE  r \in Pending(server')
    BY <1>2 DEF Waiting
  <2>1. i \in 1..n /\ live'[i] = live[i]
    BY <1>2, <1>3
  <2>2. \A c \in within[r] : state[c] \in {"kept", "live"}
    BY <1>4, <1>5
  <2>3. r \in Pending(server)
    BY <1>0, <1>3, <2>1, <2>2 DEF Waiting
  <2>4. PICK k \in 1..d : r \in server.levels[k].rows
    BY <1>0, <1>3, <2>3, PendingRows
  <2>5. \E m \in 1..(d - 1) : r \in server'.levels[m].rows
    <3>1. CASE k = d
      <4>1. d - 1 \in 1..(d - 1) /\ (d - 1) + 1 = d
        BY <1>3
      <4>2. r \in server'.levels[d - 1].rows
        BY <1>6, <2>4, <3>1, <4>1
      <4> QED BY <4>1, <4>2
    <3>2. CASE k # d
      <4>1. k \in 1..(d - 1)
        BY <1>3, <3>2
      <4> QED BY <1>6, <2>4, <4>1
    <3> QED BY <3>1, <3>2
  <2> QED BY <1>6, <2>5, PendingRows
<1>10. /\ Stored(server', state', within') /\ Settled(server', state', within')
       /\ Parted(state', within')
  BY <1>3, <1>4, StoreLeft
<1> QED BY <1>2, <1>7, <1>8, <1>9, <1>10 DEF Nested, Followed

\* The names of the live blocks are different.
LEMMA NamesDiffer ==
  ASSUME TypeOK, DistinctNames, Marked(live, state, within), Nested,
         NEW n \in Nat, n = Len(live), n >= 1, live[n].name # 0
  PROVE  \A i \in 1..(n - 1) : live[i].name # live[n].name
<1>0. live \in Seq(Tx) /\ Lined(live)
  BY DEF TypeOK, Nested, Followed
<1> SUFFICES ASSUME NEW i \in 1..(n - 1), live[i].name = live[n].name PROVE FALSE
  OBVIOUS
<1>1. i \in 1..n /\ n \in 1..n /\ i # n
  OBVIOUS
<1>2. live[i] \in Tx /\ live[n] \in Tx
  BY <1>0, <1>1
<1> DEFINE a == live[i].block  b == live[n].block
<1>3. a \in Blocks /\ b \in Blocks
  BY <1>2 DEF Tx
<1>4. a # b
  BY <1>1 DEF Marked
<1>5. live[i].name \in {i, NameOf[a]} /\ live[n].name \in {n, NameOf[b]}
  BY <1>0, <1>1 DEF Lined
<1> HIDE DEF a, b
<1>6. NameOf[a] \in Int /\ NameOf[a] <= 0 /\ NameOf[b] \in Int /\ NameOf[b] <= 0
  BY <1>3, SessionAssumption
<1>7. live[i].name = NameOf[a] /\ live[n].name = NameOf[b]
  BY <1>1, <1>5, <1>6
<1> QED BY <1>3, <1>4, <1>7 DEF DistinctNames

\* ROLLBACK TO and RELEASE: what was written in the block is gone.
LEMMA UndoKeeps ==
  ASSUME TypeOK, Marked(live, state, within), Nested, live # <<>>,
         ~live[Len(live)].outer, FrontOf(live, live'),
         state' = [state EXCEPT ![live[Len(live)].block] = "undone"], within' = within,
         num_transactions' = num_transactions - 1,
         server' \in SessionType, server'.status = "INTRANS",
         Below(server.levels, server'.levels, Depth(live)),
         server'.committed = server.committed, server'.prepared = server.prepared
  PROVE  Nested'
<1>0. /\ live \in Seq(Tx) /\ state \in [Blocks -> States]
      /\ Stack(server, live) /\ Placed(server, live, state, within)
      /\ Waiting(server, live, state, within) /\ server \in SessionType
  BY DEF TypeOK, Nested, Followed
<1>1. PICK n, d : LastAt(n, d)
  BY LastSavepoint
<1>2. /\ Lined(live') /\ num_transactions' = Len(live')
      /\ Len(live') = n - 1 /\ Depth(live') = d - 1
      /\ \A i : Place(live', i) = Place(live, i)
      /\ \A i \in 1..(n - 1) : live'[i] = live[i] /\ Place(live', i) \in 1..(d - 1)
  BY <1>1, LastSavepoint, LeftLined
<1>3. /\ n \in Nat /\ n >= 1 /\ n = Len(live) /\ d \in Nat /\ d >= 2
      /\ d = Depth(live) /\ Len(server.levels) \in Nat /\ Len(server.levels) >= d
      /\ \A i \in 1..n : Place(live, i) \in 1..d
  BY <1>1 DEF LastAt
<1>4. PICK b \in Blocks : b = live[n].block /\ state[b] = "live"
  BY <1>1 DEF LastAt
<1>5. /\ \A c : c # b => state'[c] = state[c]
      /\ state'[b] = "undone"
  BY <1>0, <1>3, <1>4
<1>6. /\ Len(server'.levels) = d - 1
      /\ \A k \in 1..(d - 1) :
           /\ k \in 1..Len(server.levels)
           /\ server'.levels[k].name = server.levels[k].name
           /\ server'.levels[k].rows = server.levels[k].rows
  BY <1>3 DEF Below
<1>7. Stack(server', live')
  <2>1. ASSUME NEW i \in 1..(n - 1), live'[i].name # 0
        PROVE  server'.levels[Place(live', i)].name = live'[i].name
    <3>1. live'[i] = live[i] /\ i \in 1..n
      BY <1>2, <1>3
    <3>2. Place(live', i) = Place(live, i) /\ Place(live', i) \in 1..(d - 1)
      BY <1>2
    <3>3. server.levels[Place(live, i)].name = live[i].name
      BY <1>0, <1>3, <2>1, <3>1 DEF Stack
    <3> QED BY <1>6, <3>1, <3>2, <3>3
  <2> QED BY <1>2, <1>3, <1>6, <2>1 DEF Stack
<1>a. Place(live, n) = d
  BY <1>3 DEF Depth
<1>8. Placed(server', live', state', within')
  <2> SUFFICES ASSUME NEW k \in 1..(d - 1), NEW r \in server'.levels[k].rows
               PROVE  /\ within[r] # {Unwritten}
                      /\ \A i \in 1..(n - 1) : live'[i].block \in within[r] <=>
                                               Place(live', i) <= k
                      /\ \A c \in within[r] : state'[c] \in {"kept", "live"}
    BY <1>2, <1>6 DEF Placed
  <2>1. k \in 1..Len(server.levels) /\ r \in server.levels[k].rows
        /\ k <= d /\ ~(d <= k)
    <3>1. k <= d /\ ~(d <= k)
      BY <1>3
    <3> QED BY <1>6, <3>1
  <2>2. /\ within[r] # {Unwritten}
        /\ \A i \in 1..n : live[i].block \in within[r] <=> Place(live, i) <= k
        /\ \A c \in within[r] : state[c] \in {"kept", "live"}
    BY <1>0, <1>3, <2>1 DEF Placed
  <2>3. b \notin within[r]
    BY <1>3, <1>4, <1>a, <2>1, <2>2
  <2>4. \A c \in within[r] : state'[c] \in {"kept", "live"}
    BY <1>5, <2>2, <2>3
  <2>5. ASSUME NEW i \in 1..(n - 1)
        PROVE  live'[i].block \in within[r] <=> Place(live', i) <= k
    <3>1. i \in 1..n
      BY <1>3
    <3> QED BY <1>2, <2>2, <3>1
  <2> QED BY <2>2, <2>4, <2>5
<1>9. Waiting(server', live', state', within')
  <2> SUFFICES ASSUME NEW r \in Rows, within[r] # {Unwritten},
                      NEW i \in 1..(n - 1), live'[i].outer, live'[i].block \in within[r],
                      \A c \in within[r] : state'[c] \in {"kept", "live"}
               PROVE  r \in Pending(server')
    BY <1>2 DEF Waiting
  <2>1. i \in 1..n /\ live'[i] = live[i]
    BY <1>2, <1>3
  <2>2. b \notin within[r] /\ \A c \in within[r] : state[c] \in {"kept", "live"}
    BY <1>5
  <2>3. r \in Pending(server)
    BY <1>0, <1>3, <2>1, <2>2 DEF Waiting
  <2>4. PICK k \in 1..Len(server.levels) : r \in server.levels[k].rows
    BY <1>0, <2>3, PendingRows
  <2>5. ~(d <= k)
    <3>1. n \in 1..n
      BY <1>3
    <3> QED BY <1>0, <1>3, <1>4, <1>a, <2>2, <2>4, <3>1 DEF Placed
  <2>6. k \in 1..(d - 1)
    BY <1>3, <2>5
  <2> QED BY <1>6, <2>4, <2>6, PendingRows
<1>10. /\ Stored(server', state', within') /\ Settled(server', state', within')
       /\ Parted(state', within')
  BY <1>3, <1>4, StoreLeft
<1> QED BY <1>2, <1>7, <1>8, <1>9, <1>10 DEF Nested, Followed

\* RELEASE in a transaction that failed: the savepoint stays, and no live block
\* has its name.
LEMMA FailKeeps ==
  ASSUME TypeOK, DistinctNames, Marked(live, state, within), Nested, live # <<>>,
         ~live[Len(live)].outer, FrontOf(live, live'),
         state' = [state EXCEPT ![live[Len(live)].block] = "failed"], within' = within,
         num_transactions' = num_transactions - 1, server.status = "INERROR",
         server' \in SessionType, server'.status = "INERROR",
         server'.levels = server.levels,
         server'.committed = server.committed, server'.prepared = server.prepared
  PROVE  Nested'
<1>0. /\ live \in Seq(Tx) /\ state \in [Blocks -> States]
      /\ Stack(server, live) /\ Placed(server, live, state, within)
      /\ Waiting(server, live, state, within) /\ server \in SessionType
  BY DEF TypeOK, Nested, Followed
<1>1. PICK n, d : LastAt(n, d)
  BY LastSavepoint
<1>2. /\ Lined(live') /\ num_transactions' = Len(live')
      /\ Len(live') = n - 1 /\ Depth(live') = d - 1
      /\ \A i : Place(live', i) = Place(live, i)
      /\ \A i \in 1..(n - 1) : live'[i] = live[i] /\ Place(live', i) \in 1..(d - 1)
  BY <1>1, LastSavepoint, LeftLined
<1>3. /\ n \in Nat /\ n >= 1 /\ n = Len(live) /\ d \in Nat /\ d >= 2
      /\ d = Depth(live) /\ Len(server.levels) \in Nat /\ Len(server.levels) >= d
      /\ \A i \in 1..n : Place(live, i) \in 1..d
      /\ server.levels[d].name = live[n].name
  BY <1>1 DEF LastAt
<1>4. PICK b \in Blocks : b = live[n].block /\ state[b] = "live"
  BY <1>1 DEF LastAt
<1>5. /\ \A c : c # b => state'[c] = state[c]
      /\ state'[b] = "failed"
  BY <1>0, <1>3, <1>4
<1>6. PICK m \in Nat : m = Len(server.levels) /\ m = Len(server'.levels)
  BY <1>3
<1>7. Stack(server', live')
  <2>1. ASSUME NEW i \in 1..(n - 1), live'[i].name # 0
        PROVE  server'.levels[Place(live', i)].name = live'[i].name
    <3>1. live'[i] = live[i] /\ i \in 1..n
      BY <1>2, <1>3
    <3>2. Place(live', i) = Place(live, i) /\ Place(live', i) \in 1..(d - 1)
      BY <1>2
    <3>3. server.levels[Place(live, i)].name = live[i].name
      BY <1>0, <1>3, <2>1, <3>1 DEF Stack
    <3> QED BY <3>1, <3>2, <3>3
  <2>2. ASSUME NEW k \in 1..m, NEW i \in 1..(n - 1), k > d - 1
        PROVE  server'.levels[k].name # live'[i].name
    <3>1. live'[i] = live[i] /\ i \in 1..n
      BY <1>2, <1>3
    <3>2. CASE k = d
      BY <1>3, <3>1, <3>2, LastSavepoint, NamesDiffer
    <3>3. CASE k > d
      BY <1>0, <1>3, <1>6, <3>1, <3>3 DEF Stack
    <3> QED BY <1>3, <2>2, <3>2, <3>3
  <2>3. m >= d - 1
    BY <1>3, <1>6
  <2> QED BY <1>2, <1>6, <2>1, <2>2, <2>3 DEF Stack
<1>a. Place(live, n) = d
  BY <1>3 DEF Depth
<1>8. Placed(server', live', state', within')
  <2> SUFFICES ASSUME NEW k \in 1..m, NEW r \in server.levels[k].rows
               PROVE  /\ within[r] # {Unwritten}
                      /\ \A i \in 1..(n - 1) : live'[i].block \in within[r] <=>
                                               Place(live', i) <= k
                      /\ k <= d - 1 => \A c \in within[r] : state'[c] \in {"kept", "live"}
    BY <1>2, <1>6 DEF Placed
  <2>2. /\ within[r] # {Unwritten}
        /\ \A i \in 1..n : live[i].block \in within[r] <=> Place(live, i) <= k
        /\ k <= d => \A c \in within[r] : state[c] \in {"kept", "live"}
    BY <1>0, <1>3, <1>6 DEF Placed
  <2>4. ASSUME k <= d - 1, NEW c \in within[r] PROVE state'[c] \in {"kept", "live"}
    <3>1. k <= d /\ ~(d <= k)
      BY <1>3, <2>4
    <3>2. b \notin within[r]
      BY <1>3, <1>4, <1>a, <2>2, <3>1
    <3> QED BY <1>5, <2>2, <2>4, <3>1, <3>2
  <2>5. ASSUME NEW i \in 1..(n - 1)
        PROVE  live'[i].block \in within[r] <=> Place(live', i) <= k
    <3>1. i \in 1..n
      BY <1>3
    <3> QED BY <1>2, <2>2, <3>1
  <2> QED BY <2>2, <2>4, <2>5
<1>9. Waiting(server', live', state', within')
  <2> SUFFICES ASSUME NEW r \in Rows, within[r] # {Unwritten},
                      NEW i \in 1..(n - 1), live'[i].outer, live'[i].block \in within[r],
                      \A c \in within[r] : state'[c] \in {"kept", "live"}
               PROVE  r \in Pending(server')
    BY <1>2 DEF Waiting
  <2>1. i \in 1..n /\ live'[i] = live[i]
    BY <1>2, <1>3
  <2>2. \A c \in within[r] : state[c] \in {"kept", "live"}
    BY <1>5
  <2>3. r \in Pending(server)
    BY <1>0, <1>3, <2>1, <2>2 DEF Waiting
  <2> QED BY <2>3 DEF Pending
<1>10. /\ Stored(server', state', within') /\ Settled(server', state', within')
       /\ Parted(state', within')
  BY <1>3, <1>4, StoreLeft
<1> QED BY <1>2, <1>7, <1>8, <1>9, <1>10 DEF Nested, Followed

\* An error aborts the transaction.
LEMMA AbortKeeps ==
  ASSUME Nested, UNCHANGED <<live, state, within, num_transactions>>,
         server' = server \/ server' = Aborted(server)
  PROVE  Nested'
<1>1. server \in SessionType /\ Followed(server, live, state, within)
  BY DEF Nested
<1>2. /\ server' \in SessionType
      /\ server'.levels = server.levels /\ server'.committed = server.committed
      /\ server'.prepared = server.prepared
      /\ server'.status = "IDLE" <=> server.status = "IDLE"
      /\ server'.status = "INTRANS" => server.status = "INTRANS"
  <2>1. CASE server' = server
    BY <1>1, <2>1
  <2>2. CASE server' = Aborted(server)
    <3>1. server' = SessionOf(IF server.status = "IDLE" THEN "IDLE" ELSE "INERROR",
                             server.levels, server.committed, server.prepared)
          /\ server' \in SessionType
      BY <1>1, <2>2, Changes
    <3> QED BY <3>1 DEF SessionOf
  <2> QED BY <2>1, <2>2
<1>3. Stack(server', live')
  BY <1>1, <1>2 DEF Followed, Stack
<1>4. Placed(server', live', state', within') /\ Waiting(server', live', state', within')
  <2>1. Placed(server', live', state', within')
    BY <1>1, <1>2 DEF Followed, Placed
  <2>2. Waiting(server', live', state', within')
    BY <1>1, <1>2 DEF Followed, Waiting, Pending
  <2> QED BY <2>1, <2>2
<1>5. /\ Stored(server', state', within') /\ Settled(server', state', within')
      /\ Parted(state', within')
  BY <1>2, StoreStays
<1>6. Lined(live') /\ num_transactions' = Len(live')
  BY <1>1 DEF Followed, Nested
<1> QED BY <1>2, <1>3, <1>4, <1>5, <1>6 DEF Nested, Followed

\* COMMIT PREPARED and ROLLBACK PREPARED.
LEMMA FinishKeeps ==
  ASSUME Nested, UNCHANGED <<live, state, within, num_transactions>>,
         server' \in SessionType, server'.status = server.status,
         server'.levels = server.levels, server'.prepared \subseteq server.prepared,
         server.committed \subseteq server'.committed,
         \A r \in server'.committed : InStore(server, r)
  PROVE  Nested'
<1>1. server \in SessionType /\ Followed(server, live, state, within)
  BY DEF Nested
<1>2. Stack(server', live')
  BY <1>1 DEF Followed, Stack
<1>3. Placed(server', live', state', within')
  BY <1>1 DEF Followed, Placed
<1>4. Waiting(server', live', state', within')
  BY <1>1 DEF Followed, Waiting, Pending
<1>5. Stored(server', state', within')
  <2>1. \A r : InStore(server', r) => InStore(server, r)
    BY DEF InStore
  <2> QED BY <1>1, <2>1 DEF Followed, Stored
<1>6. Settled(server', state', within') /\ Parted(state', within')
  BY <1>1 DEF Followed, Settled, Parted
<1>7. Lined(live') /\ num_transactions' = Len(live')
  BY <1>1 DEF Followed, Nested
<1> QED BY <1>2, <1>3, <1>4, <1>5, <1>6, <1>7 DEF Nested, Followed

\* A transaction that _start_query begins.
LEMMA Began ==
  ASSUME Nested, server.status = "IDLE", NEW s \in SessionType,
         s = SessionOf("INTRANS", <<Level(0)>>, server.committed, server.prepared)
  PROVE  Followed(s, live, state, within)
<1>1. Followed(server, live, state, within)
  BY DEF Nested
<1>2. live = <<>> /\ Len(live) = 0 /\ 1..Len(live) = {}
  BY <1>1 DEF Followed, Stack
<1>3. /\ s.status = "INTRANS" /\ s.levels = <<Level(0)>>
      /\ s.committed = server.committed /\ s.prepared = server.prepared
  BY DEF SessionOf
<1>4. Len(s.levels) = 1 /\ \A k \in 1..1 : s.levels[k].rows = {}
  BY <1>3, ALevel
<1>5. Lined(live) /\ Depth(live) = 1
  BY <1>2 DEF Lined, Depth, Place, Base
<1>6. Stack(s, live)
  <2>1. Len(s.levels) >= 1
    BY <1>4
  <2> QED BY <1>2, <1>3, <1>4, <1>5, <2>1 DEF Stack
<1>7. Placed(s, live, state, within) /\ Waiting(s, live, state, within)
  BY <1>2, <1>4, Fresh
<1>8. Stored(s, state, within) /\ Settled(s, state, within) /\ Parted(state, within)
  <2>1. \A r : InStore(s, r) => InStore(server, r)
    BY <1>3 DEF InStore
  <2> QED BY <1>1, <1>3, <2>1 DEF Followed, Stored, Settled
<1> QED BY <1>5, <1>6, <1>7, <1>8 DEF Followed

\* What a statement writes in a transaction: the rows w.
LEMMA WriteKeeps ==
  ASSUME TypeOK, Marked(live, state, within), NEW s \in SessionType,
         Followed(s, live, state, within), num_transactions = Len(live),
         s.status = "INTRANS", NEW w \in SUBSET Rows,
         \A r \in w : within[r] = {Unwritten},
         UNCHANGED <<live, state, num_transactions>>,
         within' = [r \in Rows |-> IF r \in w THEN LiveBlocks ELSE within[r]],
         server' \in SessionType, server'.status = "INTRANS",
         Wrote(s.levels, server'.levels, w),
         server'.committed = s.committed, server'.prepared = s.prepared
  PROVE  Nested'
<1>0. /\ live \in Seq(Tx) /\ state \in [Blocks -> States] /\ DOMAIN live = 1..Len(live)
      /\ Lined(live) /\ Stack(s, live) /\ Placed(s, live, state, within)
      /\ Waiting(s, live, state, within) /\ Stored(s, state, within)
      /\ Settled(s, state, within) /\ Parted(state, within)
  BY DEF TypeOK, Followed
<1>1. PICK d \in Nat : d = Depth(live) /\ d >= 1 /\ d = Len(s.levels)
  BY <1>0, Places DEF Stack
<1>2. /\ Len(server'.levels) = d
      /\ \A k \in 1..d : /\ server'.levels[k].name = s.levels[k].name
                         /\ server'.levels[k].rows =
                              IF k = d THEN s.levels[k].rows \cup w ELSE s.levels[k].rows
  BY <1>1 DEF Wrote
<1>3. \A b \in LiveBlocks : b \in Blocks /\ state[b] = "live"
  <2>1. \A i \in 1..Len(live) : live[i] \in Tx
    BY <1>0
  <2> QED BY <1>0, <2>1 DEF LiveBlocks, Marked, Tx
<1>4. LiveBlocks # {Unwritten}
  BY <1>3, SessionAssumption
<1>5. \A r \in Rows : within'[r] = IF r \in w THEN LiveBlocks ELSE within[r]
  OBVIOUS
<1>6. ASSUME NEW k \in 1..d, NEW r \in s.levels[k].rows
      PROVE  r \in Rows /\ within[r] # {Unwritten} /\ within'[r] = within[r]
  <2>1. s.levels[k] \in LevelType
    BY <1>1, Fields
  <2>2. r \in Rows /\ within[r] # {Unwritten}
    BY <1>0, <1>1, <2>1 DEF LevelType, Placed
  <2> QED BY <1>5, <2>2
<1>7. Stack(server', live')
  <2>1. ASSUME NEW i \in 1..Len(live), live[i].name # 0
        PROVE  server'.levels[Place(live, i)].name = live[i].name
    <3>1. Place(live, i) \in 1..d
      BY <1>0, <1>1, Places
    <3> QED BY <1>0, <1>2, <2>1, <3>1 DEF Stack
  <2> QED BY <1>1, <1>2, <2>1 DEF Stack
<1>8. Placed(server', live', state', within')
  <2> SUFFICES ASSUME NEW k \in 1..d, NEW r \in server'.levels[k].rows
               PROVE  /\ within'[r] # {Unwritten}
                      /\ \A i \in 1..Len(live) : live[i].block \in within'[r] <=>
                                                 Place(live, i) <= k
                      /\ \A b \in within'[r] : state[b] \in {"kept", "live"}
    BY <1>2 DEF Placed
  <2>1. CASE r \in s.levels[k].rows
    <3>0. within'[r] = within[r]
      BY <1>6, <2>1
    <3>1. within'[r] = within[r] /\ k <= Depth(live) /\ k \in 1..Len(s.levels)
      BY <1>1, <3>0
    <3>2. /\ within[r] # {Unwritten}
          /\ \A i \in 1..Len(live) : live[i].block \in within[r] <=> Place(live, i) <= k
          /\ \A b \in within[r] : state[b] \in {"kept", "live"}
      BY <1>0, <2>1, <3>1 DEF Placed
    <3> QED BY <3>1, <3>2
  <2>2. CASE r \notin s.levels[k].rows
    <3>1. r \in w /\ k = d
      BY <1>2, <2>2
    <3>2. within'[r] = LiveBlocks
      BY <1>5, <3>1
    <3>3. ASSUME NEW i \in 1..Len(live)
          PROVE  live[i].block \in LiveBlocks /\ Place(live, i) <= k
      <4>1. Place(live, i) \in 1..d
        BY <1>0, <1>1, Places
      <4> QED BY <1>0, <3>1, <4>1 DEF LiveBlocks
    <3> QED BY <1>3, <1>4, <3>2, <3>3
  <2> QED BY <2>1, <2>2
<1>9. Waiting(server', live', state', within')
  <2> SUFFICES ASSUME NEW r \in Rows, within'[r] # {Unwritten},
                      NEW i \in 1..Len(live), live[i].outer, live[i].block \in within'[r],
                      \A b \in within'[r] : state[b] \in {"kept", "live"}
               PROVE  r \in Pending(server')
    BY DEF Waiting
  <2>1. \E k \in 1..d : r \in server'.levels[k].rows
    <3>1. CASE r \in w
      <4>1. d \in 1..d
        BY <1>1
      <4> QED BY <1>2, <3>1, <4>1
    <3>2. CASE r \notin w
      <4>1. within'[r] = within[r]
        BY <1>5, <3>2
      <4>2. r \in Pending(s)
        BY <1>0, <4>1 DEF Waiting
      <4>3. PICK k \in 1..d : r \in s.levels[k].rows
        BY <1>1, <4>2, PendingRows
      <4> QED BY <1>2, <4>3
    <3> QED BY <3>1, <3>2
  <2> QED BY <1>2, <2>1, PendingRows
<1>10. Stored(server', state', within')
  <2> SUFFICES ASSUME NEW r, InStore(server', r)
               PROVE  /\ within'[r] # {Unwritten}
                      /\ \A b \in within'[r] : state[b] \in {"kept", "committed"}
    BY DEF Stored
  <2>1. InStore(s, r)
    BY DEF InStore
  <2>2. /\ within[r] # {Unwritten}
        /\ \A b \in within[r] : state[b] \in {"kept", "committed"}
    BY <1>0, <2>1 DEF Stored
  <2>3. r \in Rows
    <3>1. s.committed \in SUBSET Rows /\ s.prepared \in SUBSET PreparedType
      BY Fields
    <3>2. \A p \in s.prepared : p.rows \in SUBSET Rows
      BY <3>1 DEF PreparedType
    <3> QED BY <2>1, <3>1, <3>2 DEF InStore
  <2>4. within'[r] = within[r]
    BY <1>5, <2>2, <2>3
  <2> QED BY <2>2, <2>4
<1>11. Settled(server', state', within')
  <2> SUFFICES ASSUME NEW r \in Rows, within'[r] # {Unwritten},
                      NEW a \in within'[r], state[a] = "committed",
                      \A b \in within'[r] : state[b] \in {"kept", "committed"}
               PROVE  r \in s.committed
    BY DEF Settled
  <2>1. within'[r] = within[r]
    BY <1>3, <1>5
  <2> QED BY <1>0, <2>1 DEF Settled
<1>12. Parted(state', within')
  <2> SUFFICES ASSUME NEW r \in Rows, within'[r] # {Unwritten},
                      NEW a \in within'[r], NEW b \in within'[r], state[a] = "committed"
               PROVE  state[b] # "live"
    BY DEF Parted
  <2>1. within'[r] = within[r]
    BY <1>3, <1>5
  <2> QED BY <1>0, <2>1 DEF Parted
<1> QED BY <1>0, <1>7, <1>8, <1>9, <1>10, <1>11, <1>12 DEF Nested, Followed

\* The same without a transaction: the server commits the rows.
LEMMA AutocommitKeeps ==
  ASSUME TypeOK, Nested, server.status = "IDLE", NEW w \in SUBSET Rows,
         \A r \in w : within[r] = {Unwritten},
         UNCHANGED <<live, state, num_transactions>>,
         within' = [r \in Rows |-> IF r \in w THEN LiveBlocks ELSE within[r]],
         server' \in SessionType,
         server' = SessionOf("IDLE", server.levels, server.committed \cup w, server.prepared)
  PROVE  Nested'
<1>1. /\ live = <<>> /\ server.levels = <<>> /\ num_transactions = 0
      /\ server \in SessionType
      /\ Stored(server, state, within) /\ Settled(server, state, within)
      /\ Parted(state, within)
  BY DEF Nested, Followed, Stack
<1>2. LiveBlocks = {}
  BY <1>1 DEF LiveBlocks
<1>3. /\ server'.status = "IDLE" /\ server'.levels = <<>>
      /\ server'.committed = server.committed \cup w /\ server'.prepared = server.prepared
  BY <1>1 DEF SessionOf
<1>4. \A r \in Rows : within'[r] = IF r \in w THEN {} ELSE within[r]
  BY <1>2
<1>5. Stored(server', state', within')
  <2> SUFFICES ASSUME NEW r, InStore(server', r)
               PROVE  /\ within'[r] # {Unwritten}
                      /\ \A b \in within'[r] : state[b] \in {"kept", "committed"}
    BY DEF Stored
  <2>1. CASE r \in w
    BY <1>4, <2>1
  <2>2. CASE r \notin w
    <3>1. InStore(server, r)
      BY <1>3, <2>2 DEF InStore
    <3>2. r \in Rows
      <4>1. server.committed \in SUBSET Rows /\ server.prepared \in SUBSET PreparedType
        BY <1>1, Fields
      <4>2. \A p \in server.prepared : p.rows \in SUBSET Rows
        BY <4>1 DEF PreparedType
      <4> QED BY <3>1, <4>1, <4>2 DEF InStore
    <3>3. within'[r] = within[r]
      BY <1>4, <2>2, <3>2
    <3> QED BY <1>1, <3>1, <3>3 DEF Stored
  <2> QED BY <2>1, <2>2
<1>6. Settled(server', state', within')
  BY <1>1, <1>3, <1>4 DEF Settled
<1>7. Parted(state', within')
  <2> SUFFICES ASSUME NEW r \in Rows, within'[r] # {Unwritten},
                      NEW a \in within'[r], NEW b \in within'[r], state[a] = "committed"
               PROVE  state[b] # "live"
    BY DEF Parted
  <2>1. within'[r] = within[r]
    BY <1>4
  <2> QED BY <1>1, <2>1 DEF Parted
<1> QED BY <1>1, <1>3, <1>5, <1>6, <1>7, EndKeeps

\* A lost connection stays lost.
LEMMA LostStays ==
  ASSUME NEW s, s.status = "UNKNOWN"
  PROVE  /\ \A S : \A o \in Outcomes(s, S) : o.srv = s /\ ~o.ok
         /\ \A o \in Begin(s) : o.srv = s /\ ~o.ok
         /\ \A n : \A o \in Savepoint(s, n) \cup Release(s, n) \cup RollbackTo(s, n) :
              o.srv = s /\ ~o.ok
         /\ \A o \in Commit(s) \cup Rollback(s) : o.srv = s /\ ~o.ok
         /\ \A x : \A o \in Prepare(s, x) : o.srv = s /\ ~o.ok
         /\ \A x, c : \A o \in FinishPrepared(s, x, c) : o.srv = s /\ ~o.ok
         /\ \A w : \A o \in Write(s, w) : o.srv = s /\ ~o.ok
<1>1. \A S : \A o \in Outcomes(s, S) : o.srv = s /\ ~o.ok
  BY AnOutcome DEF Outcomes
<1>2. \A o \in Begin(s) : o.srv = s /\ ~o.ok
  BY <1>1 DEF Begin
<1>3. \A n : \A o \in Savepoint(s, n) \cup Release(s, n) \cup RollbackTo(s, n) :
        o.srv = s /\ ~o.ok
  BY <1>1 DEF Savepoint, Release, RollbackTo
<1>4. \A o \in Commit(s) \cup Rollback(s) : o.srv = s /\ ~o.ok
  BY <1>1 DEF Commit, Rollback
<1>5. \A x : \A o \in Prepare(s, x) : o.srv = s /\ ~o.ok
  BY <1>1 DEF Prepare
<1>6. \A x, c : \A o \in FinishPrepared(s, x, c) : o.srv = s /\ ~o.ok
  BY <1>1 DEF FinishPrepared
<1>7. \A w : \A o \in Write(s, w) : o.srv = s /\ ~o.ok
  BY <1>1 DEF Write
<1> QED BY <1>1, <1>2, <1>3, <1>4, <1>5, <1>6, <1>7

\* The commands of __enter__.
LEMMA EnterGives ==
  ASSUME server \in SessionType, NEW n \in Int, NEW outer \in BOOLEAN,
         outer <=> server.status = "IDLE", ~outer => server.status = "INTRANS" /\ n # 0,
         NEW o \in EnterCommands(outer, n), o.srv.status # "UNKNOWN"
  PROVE  /\ o.ok /\ o.srv \in SessionType /\ o.srv.status = "INTRANS"
         /\ o.srv.committed = server.committed /\ o.srv.prepared = server.prepared
         /\ o.srv.levels = IF ~outer THEN Append(server.levels, Level(n))
                           ELSE IF n = 0 THEN <<Level(0)>>
                           ELSE Append(<<Level(0)>>, Level(n))
<1>1. CASE ~outer
  <2>1. o \in Savepoint(server, n)
    BY <1>1, AnOutcome DEF EnterCommands, Then
  <2>2. /\ o.ok /\ o.srv \in SessionType
        /\ o.srv = SessionOf("INTRANS", Append(server.levels, Level(n)),
                            server.committed, server.prepared)
    BY <1>1, <2>1, SavepointGives
  <2> QED BY <1>1, <2>2 DEF SessionOf
<1>2. CASE outer /\ n = 0
  <2>1. o \in Begin(server)
    BY <1>2 DEF EnterCommands
  <2>2. /\ o.ok /\ o.srv \in SessionType
        /\ o.srv = SessionOf("INTRANS", <<Level(0)>>, server.committed, server.prepared)
    BY <2>1, BeginGives
  <2> QED BY <1>2, <2>2 DEF SessionOf
<1>3. CASE outer /\ n # 0
  <2>1. PICK p \in Begin(server) : IF p.ok THEN o \in Savepoint(p.srv, n) ELSE o = p
    BY <1>3 DEF EnterCommands, Then
  <2>2. p.srv.status # "UNKNOWN"
    BY <2>1, LostStays
  <2>3. /\ p.ok /\ p.srv \in SessionType
        /\ p.srv = SessionOf("INTRANS", <<Level(0)>>, server.committed, server.prepared)
    BY <2>1, <2>2, BeginGives
  <2>4. /\ p.srv.status = "INTRANS" /\ p.srv.levels = <<Level(0)>>
        /\ p.srv.committed = server.committed /\ p.srv.prepared = server.prepared
    BY <2>3 DEF SessionOf
  <2>5. o \in Savepoint(p.srv, n)
    BY <2>1, <2>3
  <2>6. /\ o.ok /\ o.srv \in SessionType
        /\ o.srv = SessionOf("INTRANS", Append(p.srv.levels, Level(n)),
                            p.srv.committed, p.srv.prepared)
    BY <2>3, <2>4, <2>5, SavepointGives
  <2> QED BY <1>3, <2>4, <2>6 DEF SessionOf
<1> QED BY <1>1, <1>2, <1>3

LEMMA EnterFollows ==
  ASSUME IInv, BlocksInv, NEW t \in Threads, NEW b \in Blocks, enter(t, b)
  PROVE  BlocksInv'
<1> DEFINE outer == server.status = "IDLE"
           name == PushName(outer, NameOf[b])
           tx == [block |-> b, by |-> t, outer |-> outer, name |-> name,
                  index |-> num_transactions]
<1>0. /\ TypeOK /\ Marked(live, state, within) /\ state[b] = "new" /\ within' = within
      /\ num_transactions \in Nat
  BY DEF IInv, BlocksInv, TypeOK, enter
<1>1. name \in Int /\ (~outer => name # 0)
  <2>1. NameOf[b] \in Int /\ NameOf[b] <= 0
    BY SessionAssumption
  <2> QED BY <1>0, <2>1 DEF PushName
<1>2. tx \in Tx /\ tx.block = b /\ tx.outer = outer /\ tx.name = name
      /\ tx.index = num_transactions
  BY <1>0, <1>1 DEF Tx
<1>3. CASE outer /\ num_transactions # 0
  <2>1. /\ UNCHANGED <<server, num_transactions, live, orderly>>
        /\ state' = [state EXCEPT ![b] = "failed"]
    BY <1>3 DEF enter
  <2>2. Marked(live', state', within')
    BY <1>0, <2>1, EnterKeepsMarked
  <2>3. ~(orderly /\ server.status # "UNKNOWN")
    <3>1. SUFFICES ASSUME Nested PROVE FALSE
      BY DEF BlocksInv
    <3>2. live = <<>> /\ num_transactions = Len(live)
      BY <1>3, <3>1 DEF Nested, Followed, Stack
    <3> QED BY <1>3, <3>2
  <2> QED BY <2>1, <2>2, <2>3 DEF BlocksInv
<1>4. CASE ~(outer /\ num_transactions # 0)
  <2>1. PICK o \in EnterCommands(outer, name) :
          /\ server' = o.srv
          /\ num_transactions' = num_transactions + 1
          /\ state' = [state EXCEPT ![b] = IF o.ok THEN "live" ELSE "failed"]
          /\ live' = IF ~o.ok THEN live ELSE Append(live, tx)
          /\ orderly' = (orderly /\ server.status # "INERROR")
    BY <1>4 DEF enter, Answer
  <2>2. o.ok \in BOOLEAN /\ IsSession(server)
    <3>1. IsSession(server)
      BY DEF IInv
    <3> QED BY <2>1, <3>1, BlockCommands DEF IsOutcome
  <2> HIDE DEF tx
  <2>3. Marked(live', state', within')
    <3>1. \/ live' = live /\ state' = [state EXCEPT ![b] = "failed"]
          \/ live' = Append(live, tx) /\ state' = [state EXCEPT ![b] = "live"]
      BY <2>1, <2>2
    <3> QED BY <1>0, <1>2, <3>1, EnterKeepsMarked
  <2>4. ASSUME orderly', server'.status # "UNKNOWN" PROVE Nested'
    <3>1. orderly /\ server.status # "INERROR"
      BY <2>1, <2>4
    <3>2. server.status # "UNKNOWN"
      <4>1. SUFFICES ASSUME server.status = "UNKNOWN" PROVE FALSE
        OBVIOUS
      <4>2. o \in Savepoint(server, name)
        BY <1>1, <2>1, <4>1, AnOutcome DEF EnterCommands, Then
      <4> QED BY <2>1, <2>4, <4>1, <4>2, LostStays
    <3>3. Nested /\ server \in SessionType /\ num_transactions = Len(live)
      BY <3>1, <3>2 DEF BlocksInv, Nested
    <3>4. ~outer => server.status = "INTRANS" /\ name # 0
      BY <1>1, <2>2, <3>1, <3>2 DEF IsSession, Statuses
    <3> HIDE DEF name
    <3>5. /\ o.ok /\ o.srv \in SessionType /\ o.srv.status = "INTRANS"
          /\ o.srv.committed = server.committed /\ o.srv.prepared = server.prepared
          /\ o.srv.levels = IF ~outer THEN Append(server.levels, Level(name))
                            ELSE IF name = 0 THEN <<Level(0)>>
                            ELSE Append(<<Level(0)>>, Level(name))
      BY <1>1, <2>1, <2>4, <3>3, <3>4, EnterGives
    <3>6. live' = Append(live, tx) /\ state' = [state EXCEPT ![b] = "live"]
      BY <2>1, <3>5
    <3>7. CASE outer
      <4>1. name = NameOf[b]
        BY <3>7 DEF PushName, name
      <4>2. /\ server' \in SessionType /\ server'.status = "INTRANS"
            /\ server'.committed = server.committed /\ server'.prepared = server.prepared
            /\ server'.levels = IF name = 0 THEN <<Level(0)>>
                                ELSE Append(<<Level(0)>>, Level(name))
        BY <2>1, <3>5, <3>7
      <4>3. tx.outer /\ tx.name = NameOf[b] /\ tx.index = Len(live)
        BY <1>2, <3>3, <3>7, <4>1
      <4>4. server'.levels = IF tx.name = 0 THEN <<Level(0)>>
                             ELSE Append(<<Level(0)>>, Level(tx.name))
        BY <1>2, <4>2
      <4> QED BY <1>0, <1>2, <2>1, <3>3, <3>6, <3>7, <4>2, <4>3, <4>4, OuterKeeps
    <3>8. CASE ~outer
      <4>1. name \in {Len(live) + 1, NameOf[b]}
        BY <3>3, <3>8 DEF PushName, name
      <4>2. /\ server' \in SessionType
            /\ server' = SessionOf("INTRANS", Append(server.levels, Level(name)),
                                  server.committed, server.prepared)
        <5>1. o.srv = SessionOf(o.srv.status, o.srv.levels, o.srv.committed, o.srv.prepared)
          BY <3>5, Fields
        <5> QED BY <2>1, <3>5, <3>8, <5>1
      <4> QED BY <1>0, <1>2, <2>1, <3>3, <3>4, <3>6, <3>8, <4>1, <4>2, PushKeeps
    <3> QED BY <3>7, <3>8
  <2> QED BY <2>3, <2>4 DEF BlocksInv
<1> QED BY <1>3, <1>4

\* Leaving the last block leaves the others.
LEMMA LeavesFront ==
  ASSUME live \in Seq(Tx), NEW i \in 1..Len(live), i = Len(live),
         live' = SubSeq(live, 1, i - 1) \o SubSeq(live, i + 1, Len(live))
  PROVE  FrontOf(live, live') /\ live # <<>>
<1> DEFINE rest == SubSeq(live, 1, i - 1) \o SubSeq(live, i + 1, Len(live))
<1>1. /\ rest \in Seq(Tx) /\ Len(rest) = Len(live) - 1
      /\ \A j \in 1..Len(rest) : rest[j] = IF j < i THEN live[j] ELSE live[j + 1]
  BY WithoutAt
<1>2. live' = rest /\ live # <<>> /\ Len(live) \in Nat
  OBVIOUS
<1> HIDE DEF rest
<1>3. \A j \in 1..Len(rest) : rest[j] = live[j]
  BY <1>1, <1>2
<1> QED BY <1>1, <1>2, <1>3 DEF FrontOf

\* In a transaction while blocks are live.
LEMMA LiveInside ==
  ASSUME Nested, live # <<>>
  PROVE  server.status \in {"INTRANS", "INERROR"} /\ server \in SessionType
<1>1. server \in SessionType /\ server.status # "IDLE"
  BY DEF Nested, Followed, Stack
<1> QED BY <1>1, Fields

\* __exit__ without an exception.
LEMMA CleanFollows ==
  ASSUME TypeOK, DistinctNames, Marked(live, state, within), Nested, live # <<>>,
         FrontOf(live, live'), within' = within,
         num_transactions' = num_transactions - 1,
         NEW t, ExitClean(t, live[Len(live)]), server'.status # "UNKNOWN"
  PROVE  Nested'
<1> DEFINE tx == live[Len(live)]
<1>0. server.status \in {"INTRANS", "INERROR"} /\ server \in SessionType
  BY LiveInside
<1>1. PICK o \in CommitCommands(tx) :
        /\ server' = o.srv
        /\ state' = [state EXCEPT ![tx.block] =
                       IF ~o.ok THEN "failed"
                       ELSE IF server.status = "INERROR" THEN "lost"
                       ELSE IF tx.outer THEN "committed" ELSE "kept"]
  BY DEF ExitClean, Answer
<1> DEFINE end == IF ~o.ok THEN "failed"
                  ELSE IF server.status = "INERROR" THEN "lost"
                  ELSE IF tx.outer THEN "committed" ELSE "kept"
<1>a. ~o.ok => end = "failed"
  <2> HIDE DEF tx
  <2> QED OBVIOUS
<1>b. o.ok /\ server.status = "INERROR" => end = "lost"
  <2> HIDE DEF tx
  <2> QED OBVIOUS
<1>c. state' = [state EXCEPT ![tx.block] = end]
  BY <1>1
<1> HIDE DEF end
<1>2. CASE tx.outer
  <2>1. o \in Commit(server) /\ o.srv.status # "UNKNOWN"
    BY <1>1, <1>2 DEF CommitCommands
  <2>2. /\ o.srv \in SessionType
        /\ \/ /\ o.ok /\ server.status = "INTRANS"
              /\ o.srv = SessionOf("IDLE", <<>>, server.committed \cup Pending(server),
                                  server.prepared)
           \/ /\ o.ok <=> server.status # "INTRANS"
              /\ o.srv = SessionOf("IDLE", <<>>, server.committed, server.prepared)
    BY <1>0, <2>1, CommitGives
  <2>3. CASE /\ o.ok /\ server.status = "INTRANS"
             /\ o.srv = SessionOf("IDLE", <<>>, server.committed \cup Pending(server),
                                 server.prepared)
    <3>1. /\ server'.status = "IDLE" /\ server'.levels = <<>>
          /\ server'.committed = server.committed \cup Pending(server)
          /\ server'.prepared = server.prepared
      BY <1>1, <2>3, FieldsOf
    <3>2. state' = [state EXCEPT ![live[Len(live)].block] = "committed"]
      BY <1>1, <1>2, <2>3
    <3> QED BY <1>1, <1>2, <2>2, <2>3, <3>1, <3>2, OuterEndKeeps
  <2>4. CASE /\ o.ok <=> server.status # "INTRANS"
             /\ o.srv = SessionOf("IDLE", <<>>, server.committed, server.prepared)
    <3>1. /\ server'.status = "IDLE" /\ server'.levels = <<>>
          /\ server'.committed = server.committed /\ server'.prepared = server.prepared
      BY <1>1, <2>4, FieldsOf
    <3>2. CASE server.status = "INTRANS"
      <4>1. state' = [state EXCEPT ![live[Len(live)].block] = "failed"]
        <5>1. ~o.ok
          BY <2>4, <3>2
        <5> QED BY <1>a, <1>c, <5>1
      <4> QED BY <1>1, <1>2, <2>2, <3>1, <4>1, OuterEndKeeps
    <3>3. CASE server.status = "INERROR"
      <4>1. state' = [state EXCEPT ![live[Len(live)].block] = "lost"]
        <5>1. o.ok
          BY <2>4, <3>3
        <5> QED BY <1>b, <1>c, <3>3, <5>1
      <4> QED BY <1>1, <1>2, <2>2, <3>1, <4>1, OuterEndKeeps
    <3> QED BY <1>0, <3>2, <3>3
  <2> QED BY <2>2, <2>3, <2>4
<1>3. CASE ~tx.outer
  <2>1. o \in Release(server, tx.name) /\ o.srv.status # "UNKNOWN"
    BY <1>1, <1>3 DEF CommitCommands
  <2>2. PICK n, d : LastAt(n, d)
    BY <1>3, LastSavepoint
  <2>3. /\ d \in Named(server, tx.name) /\ Len(server.levels) \in Nat
        /\ server.status = "INTRANS" => Len(server.levels) = d
    BY <2>2 DEF LastAt
  <2>4. CASE server.status = "INTRANS"
    <3>1. /\ o.ok /\ o.srv \in SessionType /\ o.srv.status = "INTRANS"
          /\ Joined(server.levels, o.srv.levels)
          /\ o.srv.committed = server.committed /\ o.srv.prepared = server.prepared
      BY <1>0, <2>1, <2>3, <2>4, ReleaseGives
    <3>2. state' = [state EXCEPT ![live[Len(live)].block] = "kept"]
      BY <1>1, <1>3, <2>4, <3>1
    <3> QED BY <1>1, <1>3, <2>4, <3>1, <3>2, ReleaseKeeps
  <2>5. CASE server.status = "INERROR"
    <3>1. ~o.ok /\ o.srv = Aborted(server) /\ o.srv \in SessionType
      BY <1>0, <2>1, <2>5, ReleaseFails
    <3>2. Aborted(server) = SessionOf("INERROR", server.levels, server.committed,
                                     server.prepared)
      BY <1>0, <2>5, Changes
    <3>3. /\ server' \in SessionType /\ server'.status = "INERROR"
          /\ server'.levels = server.levels
          /\ server'.committed = server.committed /\ server'.prepared = server.prepared
      <4>1. /\ server' \in SessionType
            /\ server' = SessionOf("INERROR", server.levels, server.committed,
                                  server.prepared)
        BY <1>1, <3>1, <3>2
      <4> QED BY <4>1, FieldsOf
    <3>4. state' = [state EXCEPT ![live[Len(live)].block] = "failed"]
      BY <1>a, <1>c, <3>1
    <3> QED BY <1>1, <1>3, <2>5, <3>3, <3>4, FailKeeps
  <2> QED BY <1>0, <2>4, <2>5
<1> QED BY <1>2, <1>3

\* The commands of _rollback_gen succeed, unless the connection is lost.
LEMMA RollbackDone ==
  ASSUME TypeOK, Marked(live, state, within), Nested, live # <<>>,
         NEW o \in RollbackCommands(live[Len(live)]), o.srv.status # "UNKNOWN"
  PROVE  /\ o.ok /\ o.srv \in SessionType
         /\ o.srv.committed = server.committed /\ o.srv.prepared = server.prepared
         /\ live[Len(live)].outer => o.srv.status = "IDLE" /\ o.srv.levels = <<>>
         /\ ~live[Len(live)].outer => /\ o.srv.status = "INTRANS"
                                      /\ Below(server.levels, o.srv.levels, Depth(live))
<1> DEFINE tx == live[Len(live)]
<1>0. server.status \in {"INTRANS", "INERROR"} /\ server \in SessionType
  BY LiveInside
<1>1. CASE tx.outer
  <2>1. o \in Rollback(server)
    BY <1>1 DEF RollbackCommands
  <2>2. /\ o.ok /\ o.srv \in SessionType
        /\ o.srv = SessionOf("IDLE", <<>>, server.committed, server.prepared)
    BY <1>0, <2>1, RollbackGives
  <2>3. /\ o.srv.status = "IDLE" /\ o.srv.levels = <<>>
        /\ o.srv.committed = server.committed /\ o.srv.prepared = server.prepared
    BY <2>2, FieldsOf
  <2> QED BY <1>1, <2>2, <2>3
<1>2. CASE ~tx.outer
  <2>1. o \in Then(RollbackTo(server, tx.name), LAMBDA u : Release(u, tx.name))
    BY <1>2 DEF RollbackCommands
  <2>2. tx.name \in Int
    BY <1>2, LastSavepoint
  <2>3. PICK n, d : LastAt(n, d)
    BY <1>2, LastSavepoint
  <2>4. /\ d \in Named(server, tx.name) /\ \A j \in Named(server, tx.name) : j <= d
        /\ d = Depth(live)
    BY <2>3 DEF LastAt
  <2> HIDE DEF tx
  <2>5. /\ o.ok /\ o.srv \in SessionType /\ o.srv.status = "INTRANS"
        /\ Below(server.levels, o.srv.levels, d)
        /\ o.srv.committed = server.committed /\ o.srv.prepared = server.prepared
    BY <1>0, <2>1, <2>2, <2>4, server.status # "IDLE", UndoGives
  <2> QED BY <1>2, <2>4, <2>5 DEF tx
<1> QED BY <1>1, <1>2

\* __exit__ with an exception.
LEMMA UndoFollows ==
  ASSUME TypeOK, Marked(live, state, within), Nested, live # <<>>,
         FrontOf(live, live'), within' = within,
         num_transactions' = num_transactions - 1,
         NEW t, ExitUndo(t, live[Len(live)]), server'.status # "UNKNOWN"
  PROVE  Nested'
<1> DEFINE tx == live[Len(live)]
<1>1. PICK o \in RollbackCommands(tx) :
        /\ server' = o.srv
        /\ state' = [state EXCEPT ![tx.block] = IF o.ok THEN "undone" ELSE "failed"]
  BY DEF ExitUndo
<1>2. /\ o.ok /\ o.srv \in SessionType
      /\ o.srv.committed = server.committed /\ o.srv.prepared = server.prepared
      /\ tx.outer => o.srv.status = "IDLE" /\ o.srv.levels = <<>>
      /\ ~tx.outer => /\ o.srv.status = "INTRANS"
                      /\ Below(server.levels, o.srv.levels, Depth(live))
  BY <1>1, RollbackDone
<1>3. state' = [state EXCEPT ![live[Len(live)].block] = "undone"]
  BY <1>1, <1>2
<1>4. CASE tx.outer
  BY <1>1, <1>2, <1>3, <1>4, OuterEndKeeps
<1>5. CASE ~tx.outer
  BY <1>1, <1>2, <1>3, <1>5, UndoKeeps
<1> QED BY <1>4, <1>5

\* __exit__ marks its block, one way or another.
LEMMA ExitMarks ==
  ASSUME NEW t, NEW i, exit(t, i)
  PROVE  \E x : x \notin {"new", "live"} /\ state' = [state EXCEPT ![live[i].block] = x]
<1> DEFINE tx == live[i]
           failed == state' = [state EXCEPT ![tx.block] = "failed"]
<1>1. CASE server.status = "UNKNOWN"
  BY <1>1 DEF exit
<1>2. CASE server.status # "UNKNOWN"
  <2>1. failed \/ ExitClean(t, tx) \/ ExitUndo(t, tx)
    BY <1>2 DEF exit
  <2>2. CASE failed
    BY <2>2
  <2>3. CASE ExitClean(t, tx)
    <3>1. PICK o \in CommitCommands(tx) :
            state' = [state EXCEPT ![tx.block] =
                       IF ~o.ok THEN "failed"
                       ELSE IF server.status = "INERROR" THEN "lost"
                       ELSE IF tx.outer THEN "committed" ELSE "kept"]
      BY <2>3 DEF ExitClean
    <3> DEFINE x == IF ~o.ok THEN "failed"
                    ELSE IF server.status = "INERROR" THEN "lost"
                    ELSE IF tx.outer THEN "committed" ELSE "kept"
    <3>2. x \notin {"new", "live"}
      OBVIOUS
    <3>3. state' = [state EXCEPT ![tx.block] = x]
      BY <3>1
    <3> HIDE DEF x
    <3> QED BY <3>2, <3>3
  <2>4. CASE ExitUndo(t, tx)
    <3>1. PICK o \in RollbackCommands(tx) :
            state' = [state EXCEPT ![tx.block] = IF o.ok THEN "undone" ELSE "failed"]
      BY <2>4 DEF ExitUndo
    <3> DEFINE x == IF o.ok THEN "undone" ELSE "failed"
    <3>2. x \notin {"new", "live"}
      OBVIOUS
    <3>3. state' = [state EXCEPT ![tx.block] = x]
      BY <3>1
    <3> HIDE DEF x
    <3> QED BY <3>2, <3>3
  <2> QED BY <2>1, <2>2, <2>3, <2>4
<1> QED BY <1>1, <1>2

\* A block does not come back to a connection that is lost.
LEMMA ExitLost ==
  ASSUME NEW t, NEW i, exit(t, i), server.status = "UNKNOWN"
  PROVE  server'.status = "UNKNOWN"
BY DEF exit

\* __exit__ of the last block, in a program that respects the nesting.
LEMMA OrderlyExit ==
  ASSUME IInv, BlocksInv, NEW t \in Threads, NEW i \in Own(t), exit(t, i), orderly',
         server'.status # "UNKNOWN"
  PROVE  /\ Nested /\ i = Len(live) /\ live # <<>> /\ FrontOf(live, live')
         /\ num_transactions' = num_transactions - 1 /\ within' = within
         /\ \/ raising[t] = NoExc /\ live[i].block \notin Forced /\ ExitClean(t, live[i])
            \/ /\ raising[t] # NoExc \/ live[i].block \in Forced
               /\ ExitUndo(t, live[i])
<1>1. live \in Seq(Tx) /\ i \in 1..Len(live) /\ Len(live) \in Nat
  BY LiveTypes DEF IInv
<1>2. /\ orderly /\ i = Len(live) /\ within' = within
      /\ live' = SubSeq(live, 1, i - 1) \o SubSeq(live, i + 1, Len(live))
  BY DEF exit
<1>3. server.status # "UNKNOWN"
  BY ExitLost
<1>4. Nested
  BY <1>2, <1>3 DEF BlocksInv
<1>5. FrontOf(live, live') /\ live # <<>>
  BY <1>1, <1>2, LeavesFront
<1>6. live[i].index = i - 1 /\ num_transactions = Len(live)
  BY <1>1, <1>4 DEF Nested, Followed, Lined
<1>7. ~OutOfOrder(live[i])
  BY <1>1, <1>2, <1>6 DEF OutOfOrder, Popped
<1>8. /\ num_transactions' = num_transactions - 1
      /\ \/ raising[t] = NoExc /\ live[i].block \notin Forced /\ ExitClean(t, live[i])
         \/ /\ raising[t] # NoExc \/ live[i].block \in Forced
            /\ ExitUndo(t, live[i])
  BY <1>3, <1>7 DEF exit, Popped
<1> QED BY <1>2, <1>4, <1>5, <1>8

LEMMA ExitFollows ==
  ASSUME DistinctNames, IInv, BlocksInv, NEW t \in Threads, NEW i \in Own(t), exit(t, i)
  PROVE  BlocksInv'
<1>0. TypeOK /\ Marked(live, state, within)
  BY DEF IInv, BlocksInv
<1>1. live \in Seq(Tx) /\ i \in 1..Len(live)
  BY LiveTypes DEF IInv
<1>2. Marked(live', state', within')
  <2>1. /\ within' = within
        /\ live' = SubSeq(live, 1, i - 1) \o SubSeq(live, i + 1, Len(live))
    BY DEF exit
  <2>2. PICK x : x \notin {"new", "live"} /\ state' = [state EXCEPT ![live[i].block] = x]
    BY ExitMarks
  <2> QED BY <1>0, <1>1, <2>1, <2>2, ExitKeepsMarked
<1>3. ASSUME orderly', server'.status # "UNKNOWN" PROVE Nested'
  <2>1. /\ Nested /\ i = Len(live) /\ live # <<>> /\ FrontOf(live, live')
        /\ num_transactions' = num_transactions - 1 /\ within' = within
        /\ \/ raising[t] = NoExc /\ live[i].block \notin Forced /\ ExitClean(t, live[i])
           \/ /\ raising[t] # NoExc \/ live[i].block \in Forced
              /\ ExitUndo(t, live[i])
    BY <1>3, OrderlyExit
  <2>2. CASE ExitClean(t, live[i])
    BY <1>0, <1>3, <2>1, <2>2, CleanFollows
  <2>3. CASE ExitUndo(t, live[i])
    BY <1>0, <1>3, <2>1, <2>3, UndoFollows
  <2> QED BY <2>1, <2>2, <2>3
<1> QED BY <1>2, <1>3 DEF BlocksInv

\* An error aborts a transaction, also one just begun.
LEMMA AbortFollows ==
  ASSUME NEW s \in SessionType, Followed(s, live, state, within)
  PROVE  Aborted(s) \in SessionType /\ Followed(Aborted(s), live, state, within)
<1> DEFINE u == Aborted(s)
<1>1. u \in SessionType
      /\ u = SessionOf(IF s.status = "IDLE" THEN "IDLE" ELSE "INERROR",
                      s.levels, s.committed, s.prepared)
  BY Changes
<1>2. /\ u.levels = s.levels /\ u.committed = s.committed /\ u.prepared = s.prepared
      /\ u.status = "IDLE" <=> s.status = "IDLE"
      /\ u.status # "INTRANS"
  <2> HIDE DEF u
  <2>1. /\ u.status = IF s.status = "IDLE" THEN "IDLE" ELSE "INERROR"
        /\ u.levels = s.levels /\ u.committed = s.committed /\ u.prepared = s.prepared
    BY <1>1, FieldsOf
  <2> QED BY <2>1
<1> HIDE DEF u
<1>3. Stack(u, live)
  BY <1>2 DEF Followed, Stack
<1>4. Placed(u, live, state, within)
  BY <1>2 DEF Followed, Placed
<1>5. Waiting(u, live, state, within)
  BY <1>2 DEF Followed, Waiting, Pending
<1>6. Stored(u, state, within) /\ Settled(u, state, within)
  BY <1>2 DEF Followed, Stored, InStore, Settled
<1>7. Followed(u, live, state, within)
  BY <1>3, <1>4, <1>5, <1>6 DEF Followed
<1> QED BY <1>1, <1>7 DEF u

\* The session in which Cursor.execute() executes its statement.
LEMMA Executes ==
  ASSUME Nested, NEW w, NEW starts \in BOOLEAN, starts => server.status = "IDLE",
         NEW o \in Then(IF starts THEN Begin(server) ELSE {Done(server)},
                        LAMBDA s : Write(s, w)),
         o.srv.status # "UNKNOWN"
  PROVE  \E s \in SessionType :
           /\ o \in Write(s, w) /\ Followed(s, live, state, within)
           /\ s = server \/ s.status = "INTRANS"
<1> DEFINE began == IF starts THEN Begin(server) ELSE {Done(server)}
<1>0. server \in SessionType /\ Followed(server, live, state, within)
  BY DEF Nested
<1>1. PICK p \in began : IF p.ok THEN o \in Write(p.srv, w) ELSE o = p
  <2> HIDE DEF began
  <2>1. o \in Then(began, LAMBDA s : Write(s, w))
    BY DEF began
  <2> QED BY <2>1 DEF Then
<1>2. CASE starts
  <2>1. p \in Begin(server)
    BY <1>1, <1>2
  <2>2. p.srv.status # "UNKNOWN"
    BY <1>1, LostStays
  <2>3. /\ p.ok /\ p.srv \in SessionType
        /\ p.srv = SessionOf("INTRANS", <<Level(0)>>, server.committed, server.prepared)
    BY <1>0, <2>1, <2>2, BeginGives
  <2>4. Followed(p.srv, live, state, within)
    BY <1>2, <2>3, Began
  <2>5. p.srv.status = "INTRANS" /\ o \in Write(p.srv, w)
    BY <1>1, <2>3, FieldsOf
  <2> QED BY <2>3, <2>4, <2>5
<1>3. CASE ~starts
  <2>1. p = Done(server)
    BY <1>1, <1>3
  <2>2. o \in Write(server, w)
    BY <1>1, <2>1, AnOutcome
  <2> QED BY <1>0, <2>2
<1> QED BY <1>2, <1>3

LEMMA ExecuteFollows ==
  ASSUME IInv, BlocksInv, NEW t \in Threads, NEW w \in SUBSET Rows,
         \A r \in w : within[r] = {Unwritten}, execute(t, w)
  PROVE  BlocksInv'
<1> DEFINE starts == ~autocommit /\ server.status = "IDLE"
           began == IF starts THEN Begin(server) ELSE {Done(server)}
<1>0. /\ TypeOK /\ Marked(live, state, within)
      /\ UNCHANGED <<live, state, num_transactions, orderly>>
  BY DEF IInv, BlocksInv, execute, calls
<1>1. PICK o \in Then(began, LAMBDA s : Write(s, w)) :
        /\ server' = o.srv
        /\ within' = IF o.ok THEN [r \in Rows |-> IF r \in w THEN LiveBlocks
                                                  ELSE within[r]]
                     ELSE within
  BY DEF execute, Answer
<1>2. Marked(live', state', within')
  <2>1. CASE o.ok
    <3>1. within' = [r \in Rows |-> IF r \in w THEN LiveBlocks ELSE within[r]]
      BY <1>1, <2>1
    <3> QED BY <1>0, <3>1, WriteKeepsMarked
  <2>2. CASE ~o.ok
    BY <1>0, <1>1, <2>2
  <2> QED BY <2>1, <2>2
<1>3. ASSUME orderly', server'.status # "UNKNOWN" PROVE Nested'
  <2>1. server.status # "UNKNOWN"
    <3>1. SUFFICES ASSUME server.status = "UNKNOWN" PROVE FALSE
      OBVIOUS
    <3>2. o \in Write(server, w)
      BY <1>1, <3>1, AnOutcome DEF Then
    <3> QED BY <1>1, <1>3, <3>1, <3>2, LostStays
  <2>2. Nested /\ num_transactions = Len(live)
    BY <1>0, <1>3, <2>1 DEF BlocksInv, Nested
  <2>3. starts \in BOOLEAN /\ (starts => server.status = "IDLE")
    OBVIOUS
  <2>4. PICK s \in SessionType :
          /\ o \in Write(s, w) /\ Followed(s, live, state, within)
          /\ s = server \/ s.status = "INTRANS"
    <3> HIDE DEF starts
    <3> QED BY <1>1, <1>3, <2>2, <2>3, Executes
  <2>5. s.status = "INTRANS" => s.levels # <<>>
    <3>1. live \in Seq(Tx) /\ Lined(live) /\ Stack(s, live)
      BY <1>0, <2>4 DEF TypeOK, Followed
    <3>2. Depth(live) >= 1
      BY <3>1, Places
    <3> QED BY <3>1, <3>2 DEF Stack
  <2>6. /\ o.srv \in SessionType
        /\ ~o.ok => o.srv = IF s.status = "INTRANS" THEN Aborted(s) ELSE s
        /\ o.ok /\ s.status = "IDLE" =>
             o.srv = SessionOf("IDLE", s.levels, s.committed \cup w, s.prepared)
        /\ o.ok /\ s.status # "IDLE" =>
             /\ s.status = "INTRANS" /\ o.srv.status = "INTRANS"
             /\ Wrote(s.levels, o.srv.levels, w)
             /\ o.srv.committed = s.committed /\ o.srv.prepared = s.prepared
    <3>1. o.srv.status # "UNKNOWN"
      BY <1>1, <1>3
    <3> QED BY <2>4, <2>5, <3>1, WriteGives
  <2>7. CASE ~o.ok
    <3>1. Followed(server', live, state, within) /\ within' = within
      BY <1>1, <2>4, <2>6, <2>7, AbortFollows
    <3> QED BY <1>0, <1>1, <2>2, <2>6, <3>1 DEF Nested
  <2>8. CASE o.ok
    <3>1. within' = [r \in Rows |-> IF r \in w THEN LiveBlocks ELSE within[r]]
      BY <1>1, <2>8
    <3>2. CASE s.status = "IDLE"
      <4>1. s = server /\ server' \in SessionType
            /\ server' = SessionOf("IDLE", server.levels, server.committed \cup w,
                                  server.prepared)
        BY <1>1, <2>4, <2>6, <2>8, <3>2
      <4>2. server.status = "IDLE"
        BY <3>2, <4>1
      <4> QED BY <1>0, <2>2, <3>1, <4>1, <4>2, AutocommitKeeps
    <3>3. CASE s.status # "IDLE"
      <4>1. /\ s.status = "INTRANS" /\ server'.status = "INTRANS"
            /\ server' \in SessionType
            /\ Wrote(s.levels, server'.levels, w)
            /\ server'.committed = s.committed /\ server'.prepared = s.prepared
        BY <1>1, <2>6, <2>8, <3>3
      <4> QED BY <1>0, <2>2, <2>4, <3>1, <4>1, WriteKeeps
    <3> QED BY <3>2, <3>3
  <2> QED BY <2>7, <2>8
<1> QED BY <1>2, <1>3 DEF BlocksInv

\* A call that enters and leaves no block.
LEMMA CallFollows ==
  ASSUME BlocksInv, UNCHANGED <<live, state, within>>, orderly' => orderly,
         server.status = "UNKNOWN" => server'.status = "UNKNOWN",
         Nested /\ orderly' /\ server'.status # "UNKNOWN" => Nested'
  PROVE  BlocksInv'
<1>1. Marked(live', state', within')
  BY DEF BlocksInv
<1>2. ASSUME orderly', server'.status # "UNKNOWN" PROVE Nested'
  BY <1>2 DEF BlocksInv
<1> QED BY <1>1, <1>2 DEF BlocksInv

\* A call that ends the transaction, outside of blocks, or finds none to end.
LEMMA Ends ==
  ASSUME BlocksInv, Nested, live = <<>>,
         UNCHANGED <<live, state, within, num_transactions>>,
         NEW x \in Xids \cup {NoXid},
         NEW o \in {Done(server)} \cup Commit(server) \cup Rollback(server)
                   \cup Prepare(server, x),
         server' = o.srv, server'.status # "UNKNOWN"
  PROVE  Nested'
<1>0. Marked(live, state, within) /\ server \in SessionType
  BY DEF BlocksInv, Nested
<1>1. CASE o = Done(server)
  BY <1>1, AnOutcome, AbortKeeps
<1>2. ASSUME NEW c, server' = SessionOf("IDLE", <<>>, c, server.prepared),
             server' \in SessionType,
             \/ c = server.committed
             \/ server.status = "INTRANS" /\ c = server.committed \cup Pending(server)
      PROVE  Nested'
  <2>1. /\ server'.status = "IDLE" /\ server'.levels = <<>>
        /\ server'.committed = c /\ server'.prepared = server.prepared
    BY <1>2, FieldsOf
  <2> QED BY <1>0, <1>2, <2>1, PlainEndKeeps
<1>3. CASE o \in Commit(server)
  <2>1. /\ o.srv \in SessionType
        /\ \/ /\ server.status = "INTRANS"
              /\ o.srv = SessionOf("IDLE", <<>>, server.committed \cup Pending(server),
                                  server.prepared)
           \/ o.srv = SessionOf("IDLE", <<>>, server.committed, server.prepared)
    BY <1>0, <1>3, CommitGives
  <2> QED BY <1>2, <2>1
<1>4. CASE o \in Rollback(server)
  <2>1. /\ o.srv \in SessionType
        /\ o.srv = SessionOf("IDLE", <<>>, server.committed, server.prepared)
    BY <1>0, <1>4, RollbackGives
  <2> QED BY <1>2, <2>1
<1>5. CASE o \in Prepare(server, x)
  <2>1. /\ o.srv \in SessionType
        /\ \/ o.srv = SessionOf("IDLE", <<>>, server.committed, server.prepared)
           \/ /\ server.status = "INTRANS"
              /\ o.srv = SessionOf("IDLE", <<>>, server.committed,
                           server.prepared \cup {[xid |-> x, rows |-> Pending(server)]})
    BY <1>0, <1>5, PrepareGives
  <2>2. CASE o.srv = SessionOf("IDLE", <<>>, server.committed, server.prepared)
    BY <1>2, <2>1, <2>2
  <2>3. CASE /\ server.status = "INTRANS"
             /\ o.srv = SessionOf("IDLE", <<>>, server.committed,
                          server.prepared \cup {[xid |-> x, rows |-> Pending(server)]})
    <3>1. /\ server'.status = "IDLE" /\ server'.levels = <<>>
          /\ server'.committed = server.committed
          /\ server'.prepared =
               server.prepared \cup {[xid |-> x, rows |-> Pending(server)]}
      BY <2>3, FieldsOf
    <3> QED BY <1>0, <2>1, <2>3, <3>1, PlainEndKeeps
  <2> QED BY <2>1, <2>2, <2>3
<1> QED BY <1>1, <1>3, <1>4, <1>5

LEMMA EndFollows ==
  ASSUME IInv, BlocksInv, NEW t \in Threads, commit(t) \/ rollback(t)
  PROVE  BlocksInv'
<1>0. UNCHANGED <<live, state, within, orderly, num_transactions>>
  BY DEF commit, rollback, history, Refuse, calls
<1>1. CASE server' = server
  <2>1. Nested => Nested'
    BY <1>0, <1>1, AbortKeeps
  <2> QED BY <1>0, <1>1, <2>1, CallFollows
<1>2. CASE server' # server
  <2>1. ~Forbidden /\ \E o \in {Done(server)} \cup Commit(server) \cup Rollback(server) :
                         server' = o.srv
    BY <1>2 DEF commit, rollback, Refuse, Answer
  <2>2. PICK o \in {Done(server)} \cup Commit(server) \cup Rollback(server) :
          server' = o.srv
    BY <2>1
  <2>3. server.status = "UNKNOWN" => server'.status = "UNKNOWN"
    BY <2>2, AnOutcome, LostStays
  <2>4. ASSUME Nested, server'.status # "UNKNOWN" PROVE Nested'
    <3>1. live = <<>>
      <4>1. num_transactions = 0 /\ num_transactions = Len(live)
        BY <2>1, <2>4 DEF Forbidden, InBlock, Nested
      <4>2. live \in Seq(Tx)
        BY DEF IInv, TypeOK
      <4> QED BY <4>1, <4>2
    <3> QED BY <1>0, <2>2, <2>4, <3>1, Ends
  <2> QED BY <1>0, <2>3, <2>4, CallFollows
<1> QED BY <1>1, <1>2

\* tpc_begin().
LEMMA BeginFollows ==
  ASSUME Nested, server.status = "IDLE", NEW o \in Begin(server), server' = o.srv,
         server'.status # "UNKNOWN", UNCHANGED <<live, state, within, num_transactions>>
  PROVE  Nested'
<1>1. server \in SessionType
  BY DEF Nested
<1>2. /\ o.srv \in SessionType
      /\ o.srv = SessionOf("INTRANS", <<Level(0)>>, server.committed, server.prepared)
  BY <1>1, BeginGives
<1> QED BY <1>2, BeginKeeps

\* COMMIT PREPARED or ROLLBACK PREPARED.
LEMMA FinishFollows ==
  ASSUME Nested, NEW x, NEW commits \in BOOLEAN, NEW o \in FinishPrepared(server, x, commits),
         server' = o.srv, server'.status # "UNKNOWN",
         UNCHANGED <<live, state, within, num_transactions>>
  PROVE  Nested'
<1>1. server \in SessionType
  BY DEF Nested
<1>2. /\ o.srv \in SessionType
      /\ \/ o.srv = Aborted(server)
         \/ /\ o.srv.status = server.status /\ o.srv.levels = server.levels
            /\ o.srv.prepared \subseteq server.prepared
            /\ server.committed \subseteq o.srv.committed
            /\ \A r \in o.srv.committed :
                 r \in server.committed \/ \E p \in server.prepared : r \in p.rows
  BY <1>1, FinishGives
<1>3. CASE o.srv = Aborted(server)
  BY <1>3, AbortKeeps
<1>4. CASE /\ o.srv.status = server.status /\ o.srv.levels = server.levels
           /\ o.srv.prepared \subseteq server.prepared
           /\ server.committed \subseteq o.srv.committed
           /\ \A r \in o.srv.committed :
                r \in server.committed \/ \E p \in server.prepared : r \in p.rows
  <2>1. \A r \in server'.committed : InStore(server, r)
    BY <1>4 DEF InStore
  <2> QED BY <1>2, <1>4, <2>1, FinishKeeps
<1> QED BY <1>2, <1>3, <1>4

\* What a two-phase call asks of the server.
LEMMA TpcAsks ==
  ASSUME TypeOK, NEW t \in Threads,
         \/ tpc_prepare(t)
         \/ \E x \in Xids : tpc_begin(t, x)
         \/ \E commits \in BOOLEAN :
              tpc_finish(t, commits) \/ \E x \in Xids : tpc_recovered(t, x, commits)
  PROVE  \/ server' = server
         \/ \E x \in Xids \cup {NoXid} :
              \E o \in {Done(server)} \cup Commit(server) \cup Rollback(server)
                       \cup Prepare(server, x) : server' = o.srv
         \/ server.status = "IDLE" /\ \E o \in Begin(server) : server' = o.srv
         \/ \E x : \E commits \in BOOLEAN : \E o \in FinishPrepared(server, x, commits) :
              server' = o.srv
<1>0. tpc.xid \in Xids \cup {NoXid}
  BY DEF TypeOK
<1>1. CASE tpc_prepare(t)
  <2>1. server' = server \/ \E o \in Prepare(server, tpc.xid) : server' = o.srv
    BY <1>1 DEF tpc_prepare, Refuse, Answer
  <2> QED BY <1>0, <2>1
<1>2. CASE \E x \in Xids : tpc_begin(t, x)
  BY <1>2 DEF tpc_begin, Refuse, Answer
<1>3. ASSUME NEW commits \in BOOLEAN, tpc_finish(t, commits)
      PROVE  \/ server' = server
             \/ \E o \in {Done(server)} \cup Commit(server) \cup Rollback(server) :
                  server' = o.srv
             \/ \E o \in FinishPrepared(server, tpc.xid, commits) : server' = o.srv
  <2>1. CASE Refuse(t)
    BY <2>1 DEF Refuse
  <2>2. CASE FinishOnePhase(t, commits)
    BY <2>2 DEF FinishOnePhase, Answer
  <2>3. CASE FinishTwoPhase(t, tpc.xid, commits)
    BY <2>3 DEF FinishTwoPhase, Answer
  <2> QED BY <1>3, <2>1, <2>2, <2>3 DEF tpc_finish
<1>4. ASSUME NEW commits \in BOOLEAN, NEW x \in Xids, tpc_recovered(t, x, commits)
      PROVE  \/ server' = server
             \/ \E o \in FinishPrepared(server, x, commits) : server' = o.srv
  BY <1>4 DEF tpc_recovered, Refuse, FinishTwoPhase, Answer
<1>5. ASSUME NEW commits \in BOOLEAN,
             tpc_finish(t, commits) \/ \E x \in Xids : tpc_recovered(t, x, commits)
      PROVE  \/ server' = server
             \/ \E x \in Xids \cup {NoXid} :
                  \E o \in {Done(server)} \cup Commit(server) \cup Rollback(server)
                           \cup Prepare(server, x) : server' = o.srv
             \/ \E x : \E o \in FinishPrepared(server, x, commits) : server' = o.srv
  <2>1. CASE tpc_finish(t, commits)
    <3>1. CASE \E o \in {Done(server)} \cup Commit(server) \cup Rollback(server) :
                 server' = o.srv
      BY <1>0, <3>1
    <3> QED BY <1>3, <2>1, <3>1
  <2>2. CASE \E x \in Xids : tpc_recovered(t, x, commits)
    BY <1>4, <2>2
  <2> QED BY <1>5, <2>1, <2>2
<1> QED BY <1>1, <1>2, <1>5

LEMMA TpcFollows ==
  ASSUME IInv, BlocksInv, NEW t \in Threads,
         \/ tpc_prepare(t)
         \/ \E x \in Xids : tpc_begin(t, x)
         \/ \E commits \in BOOLEAN :
              tpc_finish(t, commits) \/ \E x \in Xids : tpc_recovered(t, x, commits)
  PROVE  BlocksInv'
<1>0. /\ UNCHANGED <<live, state, within, num_transactions>>
      /\ orderly' => orderly /\ live = <<>>
  BY DEF tpc_prepare, tpc_begin, tpc_finish, tpc_recovered, TpcCall, Refuse, calls
<1>1. TypeOK
  BY DEF IInv
<1>2. CASE server' = server
  <2>1. Nested => Nested'
    BY <1>0, <1>2, AbortKeeps
  <2> QED BY <1>0, <1>2, <2>1, CallFollows
<1>3. ASSUME NEW x \in Xids \cup {NoXid},
             NEW o \in {Done(server)} \cup Commit(server) \cup Rollback(server)
                       \cup Prepare(server, x), server' = o.srv
      PROVE  BlocksInv'
  <2>1. server.status = "UNKNOWN" => server'.status = "UNKNOWN"
    BY <1>3, AnOutcome, LostStays
  <2>2. Nested /\ orderly' /\ server'.status # "UNKNOWN" => Nested'
    BY <1>0, <1>3, Ends
  <2> QED BY <1>0, <2>1, <2>2, CallFollows
<1>4. ASSUME server.status = "IDLE", NEW o \in Begin(server), server' = o.srv
      PROVE  BlocksInv'
  <2>1. Nested /\ server'.status # "UNKNOWN" => Nested'
    BY <1>0, <1>4, BeginFollows
  <2> QED BY <1>0, <1>4, <2>1, CallFollows
<1>5. ASSUME NEW x, NEW commits \in BOOLEAN,
             NEW o \in FinishPrepared(server, x, commits), server' = o.srv
      PROVE  BlocksInv'
  <2>1. server.status = "UNKNOWN" => server'.status = "UNKNOWN"
    BY <1>5, LostStays
  <2>2. Nested /\ server'.status # "UNKNOWN" => Nested'
    BY <1>0, <1>5, FinishFollows
  <2> QED BY <1>0, <2>1, <2>2, CallFollows
<1>6. \/ server' = server
      \/ \E x \in Xids \cup {NoXid} :
           \E o \in {Done(server)} \cup Commit(server) \cup Rollback(server)
                    \cup Prepare(server, x) : server' = o.srv
      \/ server.status = "IDLE" /\ \E o \in Begin(server) : server' = o.srv
      \/ \E x : \E commits \in BOOLEAN : \E o \in FinishPrepared(server, x, commits) :
           server' = o.srv
  BY <1>1, TpcAsks
<1> QED BY <1>2, <1>3, <1>4, <1>5, <1>6

\* Calls that do not reach the server, or close the connection.
LEMMA LocalFollows ==
  ASSUME IInv, BlocksInv, NEW t \in Threads,
         \/ \E e \in Raised(t) : raise(t, e)
         \/ catch(t) \/ close(t)
         \/ \E value \in BOOLEAN : set_autocommit(t, value)
  PROVE  BlocksInv'
<1>0. UNCHANGED <<live, state, within, orderly, num_transactions>>
  BY DEF raise, catch, close, set_autocommit, history, calls, Refuse
<1>1. CASE close(t)
  <2>1. server'.status = "UNKNOWN"
    BY <1>1 DEF close, Dead, IInv, IsSession
  <2> QED BY <1>0, <2>1, CallFollows
<1>2. CASE ~close(t)
  <2>1. server' = server
    BY <1>2 DEF raise, catch, set_autocommit, Refuse
  <2>2. Nested => Nested'
    BY <1>0, <2>1, AbortKeeps
  <2> QED BY <1>0, <2>1, <2>2, CallFollows
<1> QED BY <1>1, <1>2

LEMMA InitBlocksInv == Init => BlocksInv
<1> SUFFICES ASSUME Init PROVE BlocksInv
  OBVIOUS
<1>1. /\ live = <<>> /\ Len(live) = 0 /\ 1..Len(live) = {} /\ num_transactions = 0
      /\ \A b \in Blocks : state[b] = "new"
      /\ \A r \in Rows : within[r] = {Unwritten}
      /\ server = SessionOf("IDLE", <<>>, {}, {})
  BY DEF Init, NewSession, SessionOf
<1>2. Marked(live, state, within)
  BY <1>1 DEF Marked
<1>3. server \in SessionType
  <2>1. <<>> \in Seq(LevelType)
    OBVIOUS
  <2>2. SessionOf("IDLE", <<>>, {}, {}) \in SessionType
    BY <2>1, Makes
  <2> QED BY <1>1, <2>2
<1>4. /\ server.status = "IDLE" /\ server.levels = <<>>
      /\ server.committed = {} /\ server.prepared = {}
  BY <1>1, FieldsOf
<1>5. Lined(live) /\ Parted(state, within)
  BY <1>1 DEF Lined, Parted
<1>6. Stack(server, live) /\ Placed(server, live, state, within)
  <2>1. Len(server.levels) = 0 /\ 1..Len(server.levels) = {}
    BY <1>4
  <2> QED BY <1>1, <1>4, <2>1 DEF Stack, Placed
<1>7. /\ Stored(server, state, within) /\ Waiting(server, live, state, within)
      /\ Settled(server, state, within)
  BY <1>1, <1>4 DEF Stored, InStore, Waiting, Settled
<1> QED BY <1>1, <1>2, <1>3, <1>5, <1>6, <1>7 DEF BlocksInv, Nested, Followed

LEMMA NextKeepsBlocks == DistinctNames /\ IInv /\ BlocksInv /\ [Next]_vars => BlocksInv'
<1> SUFFICES ASSUME DistinctNames, IInv, BlocksInv, [Next]_vars PROVE BlocksInv'
  OBVIOUS
<1>1. CASE UNCHANGED vars
  <2>1. UNCHANGED <<server, live, state, within, orderly, num_transactions>>
    BY <1>1 DEF vars, calls, history
  <2>2. Nested => Nested'
    BY <2>1, AbortKeeps
  <2> QED BY <2>1, <2>2, CallFollows
<1>2. CASE Next
  <2>1. PICK t \in Threads :
          \/ \E b \in Blocks : enter(t, b)
          \/ \E i \in Own(t) : exit(t, i)
          \/ \E w \in {{}} \cup {{r} : r \in Rows \ Written} : execute(t, w)
          \/ commit(t) \/ rollback(t)
          \/ \/ \E e \in Raised(t) : raise(t, e)
             \/ catch(t) \/ close(t)
             \/ \E value \in BOOLEAN : set_autocommit(t, value)
          \/ \/ tpc_prepare(t)
             \/ \E x \in Xids : tpc_begin(t, x)
             \/ \E commits \in BOOLEAN :
                  tpc_finish(t, commits) \/ \E x \in Xids : tpc_recovered(t, x, commits)
    BY <1>2 DEF Next
  <2>2. ASSUME NEW w \in {{}} \cup {{r} : r \in Rows \ Written}, execute(t, w)
        PROVE  BlocksInv'
    <3>1. w \in SUBSET Rows /\ \A r \in w : within[r] = {Unwritten}
      BY DEF Written
    <3> QED BY <2>2, <3>1, ExecuteFollows
  <2>3. CASE \E b \in Blocks : enter(t, b)
    BY <2>3, EnterFollows
  <2>4. CASE \E i \in Own(t) : exit(t, i)
    BY <2>4, ExitFollows
  <2>5. CASE commit(t) \/ rollback(t)
    BY <2>5, EndFollows
  <2>6. CASE \/ \E e \in Raised(t) : raise(t, e)
             \/ catch(t) \/ close(t)
             \/ \E value \in BOOLEAN : set_autocommit(t, value)
    BY <2>6, LocalFollows
  <2>7. CASE \/ tpc_prepare(t)
             \/ \E x \in Xids : tpc_begin(t, x)
             \/ \E commits \in BOOLEAN :
                  tpc_finish(t, commits) \/ \E x \in Xids : tpc_recovered(t, x, commits)
    BY <2>7, TpcFollows
  <2> QED BY <2>1, <2>2, <2>3, <2>4, <2>5, <2>6, <2>7
<1> QED BY <1>1, <1>2

LEMMA WorkFollows == TypeOK /\ BlocksInv => WorkFollowsBlocks
<1> SUFFICES ASSUME TypeOK, BlocksInv PROVE WorkFollowsBlocks
  OBVIOUS
<1>1. UndoneIsGone
  <2>1. SUFFICES ASSUME Nested, NEW r \in Written, NEW b \in Blocks, b \in within[r]
                 PROVE  /\ r \in server.committed \cup PreparedRows =>
                             state[b] \in {"kept", "committed"}
                        /\ r \in Pending(server) /\ server.status = "INTRANS" =>
                             state[b] \in {"kept", "live"}
    BY DEF UndoneIsGone, BlocksInv
  <2>2. r \in server.committed \cup PreparedRows => InStore(server, r)
    BY DEF PreparedRows, InStore
  <2>3. InStore(server, r) => state[b] \in {"kept", "committed"}
    BY <2>1 DEF Nested, Followed, Stored
  <2>4. r \in Pending(server) /\ server.status = "INTRANS" => state[b] \in {"kept", "live"}
    BY <2>1, PendingAre
  <2> QED BY <2>2, <2>3, <2>4
<1>2. KeptIsCommitted
  BY DEF KeptIsCommitted, BlocksInv, Nested, Followed, Settled, Written
<1>3. SavepointsMatch
  <2>1. SUFFICES ASSUME Nested, server.status = "INTRANS"
                 PROVE  /\ Len(server.levels) = 1 + Len(live) - Nameless
                        /\ \A i \in 1 + Nameless .. Len(live) :
                             server.levels[1 + i - Nameless].name = live[i].name
    BY DEF SavepointsMatch, BlocksInv
  <2>2. Nameless = Base(live) /\ Lined(live) /\ Stack(server, live) /\ live \in Seq(Tx)
    BY <2>1 DEF Nameless, Base, Nested, Followed, TypeOK
  <2>3. Len(live) \in Nat /\ Base(live) \in {0, 1}
    BY <2>2, Places
  <2>4. Len(server.levels) = 1 + Len(live) - Base(live)
    BY <2>1, <2>2 DEF Stack, Depth, Place
  <2>5. ASSUME NEW i \in (1 + Base(live))..Len(live)
        PROVE  server.levels[1 + i - Base(live)].name = live[i].name
    <3>1. i \in 1..Len(live)
      BY <2>3
    <3>2. live[i].name # 0
      <4>1. SUFFICES ASSUME live[i].name = 0 PROVE FALSE
        OBVIOUS
      <4>2. i = 1
        BY <2>2, <3>1, <4>1 DEF Lined
      <4>3. Base(live) = 1 \/ live = <<>>
        BY <4>1, <4>2 DEF Base
      <4> QED BY <2>3, <3>1, <4>2, <4>3
    <3> QED BY <2>2, <3>1, <3>2 DEF Stack, Place
  <2> QED BY <2>2, <2>4, <2>5
<1> QED BY <1>1, <1>2, <1>3 DEF WorkFollowsBlocks

\* Whatever is committed or undone, committed or undone with the blocks it was
\* written in, and the savepoints on the server are those of the blocks the
\* program is in (Transaction._get_enter_commands, _get_commit_commands and
\* _get_rollback_commands), if no two blocks have the same savepoint name.
THEOREM WorkFollowsBlocksCorrect ==
  ASSUME DistinctNames
  PROVE  Spec => []WorkFollowsBlocks
<1>1. Init => IInv /\ BlocksInv
  BY InitIInv, InitBlocksInv
<1>2. IInv /\ BlocksInv /\ [Next]_vars => (IInv /\ BlocksInv)'
  BY NextKeepsIInv, NextKeepsBlocks
<1>3. IInv /\ BlocksInv => WorkFollowsBlocks
  BY WorkFollows DEF IInv
<1> QED BY <1>1, <1>2, <1>3, PTL DEF Spec

\* Only __exit__ takes a block away.
LEMMA OnlyExits ==
  ASSUME IInv, [Next]_vars, Len(live') < Len(live)
  PROVE  \E t \in Threads : \E i \in Own(t) : exit(t, i)
<1>1. live \in Seq(Tx) /\ Len(live) \in Nat
  BY DEF IInv, TypeOK
<1>2. live' # live
  BY <1>1
<1>3. Next
  BY <1>2 DEF vars
<1>4. PICK t \in Threads :
        \/ \E b \in Blocks : enter(t, b)
        \/ \E i \in Own(t) : exit(t, i)
        \/ UNCHANGED live
  BY <1>3 DEF Next, raise, catch, execute, commit, rollback, close, set_autocommit,
     tpc_prepare, tpc_begin, tpc_finish, tpc_recovered, TpcCall
<1>5. ASSUME NEW b \in Blocks, enter(t, b) PROVE FALSE
  <2>1. live' = live \/ \E tx : live' = Append(live, tx)
    BY <1>5 DEF enter
  <2>2. PICK tx : live' = Append(live, tx)
    BY <1>2, <2>1
  <2> QED BY <1>1, <2>2
<1> QED BY <1>2, <1>4, <1>5

LEMMA StepReachesTarget ==
  ASSUME DistinctNames, IInv, BlocksInv, [Next]_vars,
         Len(live') < Len(live), orderly', server'.status # "UNKNOWN",
         raising[live[Len(live)].by].kind = "rollback"
  PROVE  raising'[live[Len(live)].by] =
           IF raising[live[Len(live)].by].target \in {live[Len(live)].block, NoBlock}
           THEN NoExc ELSE raising[live[Len(live)].by]
<1>1. PICK t \in Threads : \E i \in Own(t) : exit(t, i)
  BY OnlyExits
<1>2. PICK i \in Own(t) : exit(t, i)
  BY <1>1
<1>3. /\ Nested /\ i = Len(live) /\ live # <<>>
      /\ \/ raising[t] = NoExc /\ live[i].block \notin Forced /\ ExitClean(t, live[i])
         \/ /\ raising[t] # NoExc \/ live[i].block \in Forced
            /\ ExitUndo(t, live[i])
  BY <1>2, OrderlyExit
<1>4. live[i].by = t
  BY <1>2 DEF Own
<1>5. raising[t].kind = "rollback" /\ NoExc.kind = "none"
  BY <1>3, <1>4 DEF NoExc, Exc
<1>6. ExitUndo(t, live[i])
  BY <1>3, <1>5
<1> DEFINE tx == live[i]
           e == raising[t]
<1>7. PICK o \in RollbackCommands(tx) :
        /\ server' = o.srv
        /\ raising' = [raising EXCEPT ![t] =
                         IF o.ok /\ Swallows(tx.block, e) THEN NoExc ELSE e]
  BY <1>6 DEF ExitUndo, Raise
<1>8. o.ok
  <2>1. TypeOK /\ Marked(live, state, within)
    BY DEF IInv, BlocksInv
  <2> QED BY <1>3, <1>7, <2>1, RollbackDone
<1>9. raising'[t] = IF Swallows(tx.block, e) THEN NoExc ELSE e
  <2>1. raising \in [Threads -> ExcType]
    BY DEF IInv, TypeOK
  <2> QED BY <1>7, <1>8, <2>1
<1>10. Swallows(tx.block, e) <=> e.target \in {tx.block, NoBlock}
  BY <1>5 DEF Swallows
<1> QED BY <1>3, <1>4, <1>9, <1>10

\* The exception that leaves the last block goes through it exactly when it is a
\* Rollback for another block (Transaction._rollback_gen).
THEOREM RollbackReachesTargetCorrect ==
  ASSUME DistinctNames
  PROVE  Spec => RollbackReachesTarget
<1>1. Init => IInv /\ BlocksInv
  BY InitIInv, InitBlocksInv
<1>2. IInv /\ BlocksInv /\ [Next]_vars => (IInv /\ BlocksInv)'
  BY NextKeepsIInv, NextKeepsBlocks
<1> DEFINE Reaches == LET tx == live[Len(live)]
                          e  == raising[tx.by]
                      IN  Len(live') < Len(live) /\ orderly'
                          /\ server'.status # "UNKNOWN" /\ e.kind = "rollback"
                          => raising'[tx.by] = IF e.target \in {tx.block, NoBlock}
                                               THEN NoExc ELSE e
<1>3. IInv /\ BlocksInv /\ [Next]_vars => [Reaches]_vars
  BY StepReachesTarget
<1> QED BY <1>1, <1>2, <1>3, PTL DEF Spec, RollbackReachesTarget
=============================================================================
