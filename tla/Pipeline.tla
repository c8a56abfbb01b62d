------------------------------ MODULE Pipeline ------------------------------
(***************************************************************************)
(* How a connection executes statements: one at a time, or in pipeline     *)
(* mode (gaussdb._pipeline), with the cache of prepared statements.        *)
(*                                                                         *)
(* In pipeline mode a call appends commands to command_queue and, for      *)
(* each, what to do with its result to result_queue; the commands are sent *)
(* and the results read in batches, in the order the network allows.  The  *)
(* generators of a call are the phases in todo; an exception skips those   *)
(* that are not in a "finally".  The server is external.                   *)
(*                                                                         *)
(* pipeline() and __enter__ are one action, and so are _exit() and the     *)
(* reset of _pipeline.  That is exact for programs that use pipelines in   *)
(* one thread, or do not use them: what is claimed of pipelines is claimed *)
(* of one thread.                                                          *)
(***************************************************************************)
EXTENDS PrepareManager

CONSTANTS
  Threads,    \* that use the connection
  Kind,       \* of each query: "plain", "drop" or "rollback"
  Fails,      \* may a statement fail?
  HasClose,   \* does libpq have send_close_prepared()?
  MaxLevel,   \* bound of nested pipelines
  MaxNames,   \* bound of the names given to statements
  MaxCount,   \* bound of the count of a query
  MaxQueue    \* bound of result_queue

ASSUME PipelineAssumption ==
  /\ Kind \in [Queries -> {"plain", "drop", "rollback"}]
  /\ Fails \in BOOLEAN /\ HasClose \in BOOLEAN
  /\ {MaxLevel, MaxNames, MaxCount, MaxQueue} \subseteq Nat

VARIABLES
  cache,       \* _prepared
  autocommit,  \* _autocommit
  level,       \* level of the pipeline, 0 for none
  commands,    \* command_queue
  results,     \* result_queue
  todo,        \* what is left of the call of each thread
  raised,      \* has the loop in progress met an exception?
  server,      \* its statements, transaction status, aborted pipeline
  wire,        \* the results that were not read yet
  seen,        \* the transaction status libpq knows
  past         \* history: was a pipeline ever asked for?  Did an exception
               \* skip the results that were still to read, in this pipeline?
queues == <<commands, results>>
network == <<server, wire, seen>>
vars == <<cache, autocommit, level, queues, todo, raised, network, past>>

NoQuery == "no query"

\* What result_queue says of a result: None, or whose query it is and, if its
\* entry in the cache is new, what get() said of it.
NoSlot == [query |-> NoQuery, new |-> FALSE, prep |-> "NO"]

\* A phase of a call; "send" knows the query and what the program asks of get().
Send(q, prepare) == [op |-> "send", query |-> q, prepare |-> prepare]
Do(op) == [Send(NoQuery, "auto") EXCEPT !.op = op]

Command(op, q, n) == [op |-> op, query |-> q, name |-> n]
Simple(op) == Command(op, NoQuery, NoName)

Init ==
  /\ cache = NewCache /\ autocommit \in BOOLEAN /\ level = 0
  /\ commands = <<>> /\ results = <<>> /\ wire = <<>>
  /\ todo = [t \in Threads |-> <<>>] /\ raised = FALSE
  /\ server = [statements |-> {}, status |-> "IDLE", aborted |-> FALSE]
  /\ seen = "IDLE" /\ past = [piped |-> FALSE, skipped |-> FALSE]

-----------------------------------------------------------------------------
(* The server.                                                              *)

Answer(s, st) == [server |-> s, status |-> st]

\* Does the command end a transaction, even a failed one?
Ends(c) == \/ c.op \in {"commit", "rollback"}
           \/ c.query # NoQuery /\ Kind[c.query] = "rollback"

\* The message Close is accepted in a failed transaction, and for any name;
\* DEALLOCATE is not.
Accepts(s, c) ==
  /\ s.status = "INERROR" => Ends(c) \/ (c.op = "close" /\ HasClose)
  /\ c.op = "run prepared" => c.name \in s.statements
  /\ c.op = "close" => c.name \in s.statements \/ HasClose

Success(s, c) ==
  CASE c.op = "prepare" -> [s EXCEPT !.statements = @ \cup {c.name}]
    [] c.op = "close" -> [s EXCEPT !.statements = @ \ {c.name}]
    [] c.op = "deallocate all" -> [s EXCEPT !.statements = {}]
    [] c.op = "begin" -> [s EXCEPT !.status = "INTRANS"]
    [] c.op # "prepare" /\ Ends(c) -> [s EXCEPT !.status = "IDLE"]
    [] OTHER -> s

\* An error aborts the transaction, and the pipeline until the next Sync.
Failure(s) == [s EXCEPT !.status = IF @ = "INTRANS" THEN "INERROR" ELSE @,
                        !.aborted = level > 0]

MayFail(s, c) ==
  ~Accepts(s, c) \/ (Fails /\ c.op \in {"prepare", "run", "run prepared"})

Answers(s, c) ==
  IF c.op = "sync" THEN {Answer([s EXCEPT !.aborted = FALSE], "SYNC")}
  ELSE IF s.aborted THEN {Answer(s, "ABORTED")}
  ELSE {a \in {Answer(Success(s, c), "OK"), Answer(Failure(s), "ERROR")} :
          IF a.status = "OK" THEN Accepts(s, c) ELSE MayFail(s, c)}

-----------------------------------------------------------------------------
(* The connection's lock is held in every phase but these.                  *)

Unlocked == {"enter", "ride", "exit", "leave"}
Free == \A t \in Threads : todo[t] # <<>> => Head(todo[t]).op \in Unlocked

At(t, phase) == todo[t] # <<>> /\ Head(todo[t]).op = phase
Idle(t) == todo[t] = <<>> /\ Free

Continue(t, phases) == todo' = [todo EXCEPT ![t] = phases \o Tail(@)]
Start(t, phases) == todo' = [todo EXCEPT ![t] = phases]

\* Mutant of Finally: the results are not read after an exception.
Finally_NoFetch == {"exit", "leave"}

\* What an exception does not skip: the "finally" of executemany() and _exit_gen().
Finally == {"exit", "exit_fetch", "leave"}
Raise(t) ==
  LET Skips(i) == i <= Len(todo[t]) /\ todo[t][i].op \notin Finally
  IN  \E i \in 2..(Len(todo[t]) + 1) :
        /\ ~Skips(i) /\ \A j \in 2..(i - 1) : Skips(j)
        /\ todo' = [todo EXCEPT ![t] = SubSeq(@, i, Len(@))]
ContinueIf(ok, t) == IF ok THEN Continue(t, <<>>) ELSE Raise(t)

\* transaction_status: results to read make it ACTIVE.
Status == IF wire # <<>> THEN "ACTIVE" ELSE seen

\* Outside of a pipeline, a command is answered at once.
Answered(a) == server' = a.server /\ seen' = a.server.status

Enqueue(cs, slots) == commands' = commands \o cs /\ results' = results \o slots
Nones(cs) == [i \in DOMAIN cs |-> NoSlot]
EnqueueAll(cs) == Enqueue(cs, Nones(cs))

\* _enqueue_sync(), and what remains of _sync_gen()
Sync == <<Simple("sync")>>
SyncGen == <<Do("communicate"), Do("fetch")>>

Deallocate(n) == IF n = All THEN Simple("deallocate all")
                            ELSE Command("close", NoQuery, n)

-----------------------------------------------------------------------------
(* _start_query(): begin a transaction if necessary.                        *)

start_skipped(t) ==
  /\ At(t, "start") /\ (autocommit \/ Status # "IDLE")
  /\ Continue(t, <<>>)
  /\ UNCHANGED <<cache, autocommit, level, queues, raised, network, past>>

start_now(t) ==
  /\ At(t, "start") /\ ~autocommit /\ Status = "IDLE" /\ level = 0
  /\ \E a \in Answers(server, Simple("begin")) :
       Answered(a) /\ ContinueIf(a.status = "OK", t)
  /\ UNCHANGED <<cache, autocommit, level, queues, raised, wire, past>>

start_enqueued(t) ==
  /\ At(t, "start") /\ ~autocommit /\ Status = "IDLE" /\ level > 0
  /\ EnqueueAll(<<Simple("begin")>> \o Sync) /\ Continue(t, SyncGen)
  /\ UNCHANGED <<cache, autocommit, level, raised, network, past>>

(* _maybe_prepare_gen()                                                     *)

RunCommand(q, got) == IF got.prep = "NO" THEN Command("run", q, NoName)
                      ELSE Command("run prepared", q, got.name)
PrepareCommand(q, got) == Command("prepare", q, got.name)
PrepareCommands(q, got) ==
  IF got.prep = "SHOULD" THEN <<PrepareCommand(q, got)>> ELSE <<>>

\* Outside of a pipeline: PREPARE fails...
prepare_fails(t) ==
  LET q == Head(todo[t]).query
      got == Get(cache, q, Head(todo[t]).prepare)
  IN  /\ At(t, "send") /\ level = 0 /\ got.prep = "SHOULD"
      /\ \E a \in Answers(server, PrepareCommand(q, got)) :
           a.status # "OK" /\ Answered(a)
      /\ cache' = NextName(cache, got.prep) /\ Raise(t)
      /\ UNCHANGED <<autocommit, level, queues, raised, wire, past>>

\* ... or the query is executed, and its result examined.
execute_now(t) ==
  LET q == Head(todo[t]).query
      got == Get(cache, q, Head(todo[t]).prepare)
      added == MaybeAdd(NextName(cache, got.prep), q, got.prep, got.name)
      prepared == {a \in Answers(server, PrepareCommand(q, got)) : a.status = "OK"}
  IN  /\ At(t, "send") /\ level = 0
      /\ \E s \in IF got.prep = "SHOULD" THEN {a.server : a \in prepared} ELSE {server} :
         \E a \in Answers(s, RunCommand(q, got)) :
           /\ Answered(a)
           /\ cache' = IF IsNew(cache, q)
                       THEN Validate(added, q, got.prep, a.status = "OK", Kind[q])
                       ELSE added
           /\ ContinueIf(a.status = "OK", t)
      /\ UNCHANGED <<autocommit, level, queues, raised, wire, past>>

\* Mutant of Slots: the result of PREPARE is not counted with.
Slots_NoPrepare(q, got) ==
  <<[query |-> q, new |-> IsNew(cache, q), prep |-> got.prep]>>

\* In a pipeline: what the results of these commands are for.
Slots(q, got) ==
  Nones(PrepareCommands(q, got))
    \o <<[query |-> q, new |-> IsNew(cache, q), prep |-> got.prep]>>

execute_enqueued(t) ==
  LET q == Head(todo[t]).query
      got == Get(cache, q, Head(todo[t]).prepare)
  IN  /\ At(t, "send") /\ level > 0
      /\ Enqueue(PrepareCommands(q, got) \o <<RunCommand(q, got)>>, Slots(q, got))
      /\ cache' = MaybeAdd(NextName(cache, got.prep), q, got.prep, got.name)
      /\ Continue(t, <<>>)
      /\ UNCHANGED <<autocommit, level, raised, network, past>>

(* maintain_gen()                                                           *)

maintain_ends(t) ==
  /\ At(t, "maintain") /\ cache.flush = <<>> /\ Continue(t, <<>>)
  /\ UNCHANGED <<cache, autocommit, level, queues, raised, network, past>>

maintain_now(t) ==
  /\ At(t, "maintain") /\ cache.flush # <<>> /\ level = 0
  /\ cache' = [cache EXCEPT !.flush = Tail(@)]
  /\ \E a \in Answers(server, Deallocate(Head(cache.flush))) :
       Answered(a) /\ IF a.status = "OK" THEN UNCHANGED todo ELSE Raise(t)
  /\ UNCHANGED <<autocommit, level, queues, raised, wire, past>>

Deallocations(c) == [i \in DOMAIN c.flush |-> Deallocate(c.flush[i])]

maintain_enqueued(t) ==
  /\ At(t, "maintain") /\ cache.flush # <<>> /\ level > 0
  /\ EnqueueAll(Deallocations(cache)) /\ cache' = [cache EXCEPT !.flush = <<>>]
  /\ Continue(t, <<>>)
  /\ UNCHANGED <<autocommit, level, raised, network, past>>

-----------------------------------------------------------------------------
(* _communicate_gen() and _fetch_gen().                                     *)

\* pipeline_communicate() sends a command when the socket is writable.  The
\* answer is for a query or, like None, for none.
transmit(t) ==
  /\ At(t, "communicate") /\ commands # <<>>
  /\ \E a \in Answers(server, Head(commands)) :
       /\ server' = a.server
       /\ wire' = Append(wire,
            [query |-> IF Head(commands).op \in {"run", "run prepared"}
                       THEN Head(commands).query ELSE NoQuery,
             status |-> a.status, tx |-> a.server.status])
  /\ commands' = Tail(commands)
  /\ UNCHANGED <<cache, autocommit, level, results, todo, raised, seen, past>>

\* A result is read and processed as result_queue says, _process_results().
receive(t) ==
  /\ At(t, "communicate") \/ At(t, "fetch") \/ At(t, "exit_fetch")
  /\ wire # <<>> /\ results # <<>>
  /\ LET slot == Head(results)
         ok == Head(wire).status = "OK"
     IN  /\ cache' = IF slot.new
                     THEN Validate(cache, slot.query, slot.prep, ok, Kind[slot.query])
                     ELSE cache
         /\ raised' = (raised \/ Head(wire).status \in {"ERROR", "ABORTED"})
  /\ seen' = IF Head(wire).status = "SYNC" THEN Head(wire).tx ELSE seen
  /\ wire' = Tail(wire) /\ results' = Tail(results)
  /\ UNCHANGED <<autocommit, level, commands, todo, server, past>>

\* The first exception is raised at the end.  Results may remain on the wire
\* when all is sent, and result_queue may go on with what is not sent yet.
batch_ends(t) ==
  /\ \/ At(t, "communicate") /\ commands = <<>>
     \/ (At(t, "fetch") \/ At(t, "exit_fetch")) /\ (results = <<>> \/ wire = <<>>)
  /\ raised' = FALSE /\ ContinueIf(~raised, t)
  /\ past' = [past EXCEPT !.skipped = @ \/ (raised /\ wire # <<>>)]
  /\ UNCHANGED <<cache, autocommit, level, queues, network>>

-----------------------------------------------------------------------------
(* Calls and context managers of the program.                               *)

Fits(n) == Len(results) + n <= MaxQueue

\* Names are few in a pipeline, where many commands wait.
NamesLeft(n) == cache.idx + n <= IF level > 0 THEN MaxNames - 1 ELSE MaxNames

ExecutePhases(q, prepare) ==
  <<Do("start"), Send(q, prepare)>>
    \o (IF level > 0 THEN <<Do("communicate")>> ELSE <<>>) \o <<Do("maintain")>>

execute(t, q, prepare) ==
  /\ Idle(t) /\ Count(cache, q) < MaxCount /\ NamesLeft(1) /\ Fits(3)
  /\ Start(t, ExecutePhases(q, prepare))
  /\ UNCHANGED <<cache, autocommit, level, queues, raised, network, past>>

\* Connection.pipeline() creates the Pipeline, before it is entered.
PipelineUsed == [past EXCEPT !.piped = TRUE]

\* executemany() of two rows: in the pipeline there is, or in one of its own.
Exit == <<Do("exit"), Do("leave")>>
ManyPhases(q, returning) ==
  <<Do("start"), Send(q, "yes"), Do("communicate"), Send(q, "yes"), Do("communicate")>>
    \o (IF returning THEN <<Do("fetch")>> ELSE <<>>) \o <<Do("maintain")>>

executemany(t, q, returning) ==
  /\ Idle(t) /\ Count(cache, q) < MaxCount - 1 /\ NamesLeft(2) /\ Fits(3)
  /\ Start(t, IF level > 0 THEN ManyPhases(q, returning)
              ELSE <<Do("enter"), Do("ride")>> \o ManyPhases(q, returning) \o Exit)
  /\ past' = PipelineUsed
  /\ UNCHANGED <<cache, autocommit, level, queues, raised, network>>

\* Only then the lock is taken again.
ride(t) ==
  /\ At(t, "ride") /\ Free /\ Continue(t, <<>>)
  /\ UNCHANGED <<cache, autocommit, level, queues, raised, network, past>>

\* with conn.pipeline(): and then __enter__
enter(t) ==
  /\ Idle(t) /\ level < MaxLevel /\ Fits(1) /\ Start(t, <<Do("enter")>>)
  /\ past' = PipelineUsed
  /\ UNCHANGED <<cache, autocommit, level, queues, raised, network>>

InProgress == level > 0 /\ (commands # <<>> \/ Status = "ACTIVE")

\* _enter_gen()
enter_syncs(t) ==
  /\ At(t, "enter") /\ Free /\ InProgress
  /\ EnqueueAll(Sync) /\ Continue(t, SyncGen \o <<Do("entered")>>)
  /\ UNCHANGED <<cache, autocommit, level, raised, network, past>>

enters(t) ==
  /\ (At(t, "enter") /\ Free /\ ~InProgress) \/ At(t, "entered")
  /\ level' = level + 1 /\ Continue(t, <<>>)
  /\ UNCHANGED <<cache, autocommit, queues, raised, network, past>>

\* __exit__
exit(t) ==
  /\ Idle(t) /\ level > 0 /\ Start(t, Exit)
  /\ UNCHANGED <<cache, autocommit, level, queues, raised, network, past>>

exit_gen(t) ==
  /\ At(t, "exit") /\ Free
  /\ EnqueueAll(Sync) /\ Continue(t, <<Do("communicate"), Do("exit_fetch")>>)
  /\ UNCHANGED <<cache, autocommit, level, raised, network, past>>

\* Mutant of Left: the inner pipeline ends the outer one.
Left_Twice == level - 2
\* _exit(), outside of the lock
Left == level - 1
leave(t) ==
  /\ At(t, "leave") /\ level' = Left /\ Continue(t, <<>>)
  /\ past' = [past EXCEPT !.skipped = @ /\ Left > 0]
  /\ UNCHANGED <<cache, autocommit, queues, raised, network>>

sync(t) ==
  /\ Idle(t) /\ level > 0 /\ Fits(1)
  /\ EnqueueAll(Sync) /\ Start(t, SyncGen)
  /\ UNCHANGED <<cache, autocommit, level, raised, network, past>>

\* fetchone() and the like: _fetch_pipeline()
fetch(t) ==
  /\ Idle(t) /\ level > 0 /\ results # <<>> /\ Start(t, <<Do("fetch")>>)
  /\ UNCHANGED <<cache, autocommit, level, queues, raised, network, past>>

commit_now(t) ==
  /\ Idle(t) /\ Status # "IDLE" /\ level = 0
  /\ \E a \in Answers(server, Simple("commit")) : Answered(a)
  /\ UNCHANGED <<cache, autocommit, level, queues, todo, raised, wire, past>>

CommitCommands == <<Simple("commit")>> \o Sync

commit_enqueued(t) ==
  /\ Idle(t) /\ Status # "IDLE" /\ level > 0 /\ Fits(2)
  /\ EnqueueAll(CommitCommands) /\ Start(t, SyncGen)
  /\ UNCHANGED <<cache, autocommit, level, raised, network, past>>

\* In a pipeline, rollback() first gets out of the aborted state.
rollback(t) ==
  /\ Idle(t) /\ Fits(2)
  /\ \/ level = 0 /\ Status # "IDLE" /\ Start(t, <<Do("rollback")>>) /\ UNCHANGED queues
     \/ level > 0 /\ EnqueueAll(Sync) /\ Start(t, SyncGen \o <<Do("rollback")>>)
  /\ UNCHANGED <<cache, autocommit, level, raised, network, past>>

rollback_skipped(t) ==
  /\ At(t, "rollback") /\ Status = "IDLE" /\ Continue(t, <<>>)
  /\ UNCHANGED <<cache, autocommit, level, queues, raised, network, past>>

rollback_now(t) ==
  /\ At(t, "rollback") /\ Status # "IDLE" /\ level = 0
  /\ \E a \in Answers(server, Simple("rollback")) : Answered(a)
  /\ cache' = Clear(cache) /\ Continue(t, <<Do("maintain")>>)
  /\ UNCHANGED <<autocommit, level, queues, raised, wire, past>>

rollback_enqueued(t) ==
  /\ At(t, "rollback") /\ Status # "IDLE" /\ level > 0
  /\ EnqueueAll(<<Simple("rollback")>> \o Deallocations(Clear(cache)) \o Sync)
  /\ cache' = [Clear(cache) EXCEPT !.flush = <<>>]
  /\ Continue(t, SyncGen)
  /\ UNCHANGED <<autocommit, level, raised, network, past>>

Call(t) ==
  \/ \E q \in Queries :
       \/ \E prepare \in {"auto", "yes", "no"} : execute(t, q, prepare)
       \/ \E returning \in BOOLEAN : executemany(t, q, returning)
  \/ enter(t) \/ exit(t) \/ sync(t) \/ fetch(t)
  \/ commit_now(t) \/ commit_enqueued(t) \/ rollback(t)

Step(t) ==
  \/ start_skipped(t) \/ start_now(t) \/ start_enqueued(t)
  \/ prepare_fails(t) \/ execute_now(t) \/ execute_enqueued(t)
  \/ maintain_ends(t) \/ maintain_now(t) \/ maintain_enqueued(t)
  \/ transmit(t) \/ receive(t) \/ batch_ends(t)
  \/ ride(t) \/ enter_syncs(t) \/ enters(t) \/ exit_gen(t) \/ leave(t)
  \/ rollback_skipped(t) \/ rollback_now(t) \/ rollback_enqueued(t)

Next == \E t \in Threads : Call(t) \/ Step(t)

Spec == Init /\ [][Next]_vars

-----------------------------------------------------------------------------
(* Properties.                                                              *)

Owner(c) == IF c.op \in {"run", "run prepared"} THEN c.query ELSE NoQuery
Resting == \A t \in Threads : todo[t] = <<>>

\* The types of the queues, of the cache and of what is known of the server:
\* pipelines are left as often as they are entered, and a name that was not
\* given yet is no statement of the server.
TypeOK ==
  /\ cache.idx \in Nat /\ level \in Nat
  /\ Keys(cache.counts) \cup Keys(cache.names) \subseteq Queries
  /\ \A i \in DOMAIN results : results[i].query \in Queries \cup {NoQuery}
  /\ server.statements \subseteq 0..(cache.idx - 1)
  /\ {server.status, seen} \subseteq {"IDLE", "INTRANS", "INERROR"}

\* Each result is given to the cursor that asked for it: result_queue is, one by
\* one, for what is on the wire and then for the commands that were not sent,
\* whatever failed, was skipped or arrived early (BasePipeline).
InStep ==
  /\ Len(results) = Len(wire) + Len(commands)
  /\ \A i \in DOMAIN wire : results[i].query = wire[i].query
  /\ \A i \in DOMAIN commands : results[Len(wire) + i].query = Owner(commands[i])

\* When the last pipeline is left, nothing remains to send or to read and the
\* server has left the aborted state, also after exceptions; libpq refuses to leave pipeline mode otherwise
\* (BasePipeline._exit).
LeavesNothing ==
  level = 0 => wire = <<>> /\ commands = <<>> /\ results = <<>> /\ ~server.aborted

\* Unless in autocommit, the server executes every query in a transaction:
\* neither commands in flight nor an old status hide that a transaction has
\* ended, provided the program does not end it by a query, and goes on after no
\* exception that left results unread: the status is then ACTIVE, and BEGIN is
\* not sent, whatever the results say (_start_query, _sync_gen).
InTransaction ==
  ~autocommit /\ ~past.skipped /\ "rollback" \notin {Kind[x] : x \in Queries} =>
    \A t \in Threads :
      /\ At(t, "send") /\ level = 0 => server.status # "IDLE"
      /\ At(t, "communicate") /\ commands # <<>> /\ Owner(Head(commands)) # NoQuery
           => server.status # "IDLE"

\* A pipeline hides neither an unread result nor the end of a transaction from
\* the code that comes after it.
PipelineSound == LeavesNothing /\ InTransaction

\* A query is counted or prepared, not both, and is there once
\* (PrepareManager.maybe_add_to_cache).
KeysApart ==
  /\ Keys(cache.counts) \cap Keys(cache.names) = {}
  /\ Distinct(cache.counts) /\ Distinct(cache.names)

\* A statement about to be deallocated is not in use any more, and no name is
\* used for two queries (PrepareManager._rotate).
FreedIsForgotten ==
  /\ \A i \in DOMAIN cache.flush : cache.flush[i] \notin Values(cache.names)
  /\ \A i, j \in DOMAIN cache.names :
       cache.names[i].value = cache.names[j].value => i = j

\* Between calls, without pipelines, every name in the cache is a statement of
\* the server, or the next call will flush it (PrepareManager._names).
CachedIsPrepared ==
  ~past.piped /\ Resting => Values(cache.names) \subseteq server.statements

\* Without pipelines the cache counts no more than prepared_max queries and
\* keeps no more than twice as many names: a counted query that is prepared
\* evicts nothing, as only a new entry is validated, and one of each is evicted
\* then (PrepareManager.maybe_add_to_cache, _rotate).  It is not the limit that
\* the documentation states: see LimitKept.
CacheBounded ==
  ~past.piped /\ Resting =>
    /\ Len(cache.counts) <= PreparedMax
    /\ Len(cache.names) <= 2 * PreparedMax

\* Through errors, rollbacks and DROPs the cache says what the server has, and
\* it stays bounded, by twice prepared_max.
CacheSound == CachedIsPrepared /\ CacheBounded

\* docs/advanced/prepare.rst:17 says "gaussdb will make sure that no more than
\* prepared_max statements are planned", and _preparing.py:38 "Maximum number of
\* prepared statements on the connection": so says this, between the calls of a
\* program without pipelines, where every eviction is done.
LimitKept == ~past.piped /\ Resting => Len(cache.names) <= PreparedMax

\* Between calls with nothing left to send or read, every name in the cache is
\* a statement of the server: _preparing.py:46 says "Map (query, types) to the
\* name of the statement if  prepared".
NamesArePrepared ==
  Resting /\ commands = <<>> /\ wire = <<>> /\ cache.flush = <<>>
    => Values(cache.names) \subseteq server.statements
=============================================================================
