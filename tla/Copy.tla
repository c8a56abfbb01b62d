-------------------------------- MODULE Copy --------------------------------
(***************************************************************************)
(* One COPY block on a connection (gaussdb._copy_base, _copy, _copy_async, *)
(* and the copy functions of gaussdb.generators): the user in the block,   *)
(* the worker of a queued writer, and the server.                          *)
(*                                                                         *)
(* What is copied is numbered in the order in which the user writes it, or *)
(* the server sends it.  A chunk is the sequence of what goes to libpq in  *)
(* one call.                                                               *)
(***************************************************************************)
EXTENDS Integers, SequencesExt

CONSTANTS MaxData,      \* bound: pieces of data in a copy
          MaxChunks,    \* bound: chunks that a large block is cut into
          BufferRows,   \* rows that a formatter keeps before it gives them out
          QueueSize,    \* capacity of the queue of a writer
          BinaryRows    \* whether rows are read from a binary COPY

ASSUME CopyAssumption == /\ MaxData \in Nat /\ MaxChunks \in Nat \ {0}
                         /\ BufferRows \in Nat /\ QueueSize \in Nat \ {0}
                         /\ BinaryRows \in BOOLEAN

VARIABLES
  copy,          \* the Copy object: direction, format, writer, what it is used by
  user,          \* where the user is, what is left to write, how the block ended
  buffer,        \* Formatter._write_buffer
  signature_sent,
  finished,      \* Copy._finished
  queue,         \* QueuedLibpqWriter._queue; <<>> is the end
  worker,        \* the writer's thread or task
  worker_error,  \* QueuedLibpqWriter._worker_error
  wire,          \* COPY FROM: what the server got.  COPY TO: what it has to send.
  server,        \* the COPY on the server
  lost,          \* the connection is broken
  data           \* what the user wrote, or was given

copyVars == <<copy, user, buffer, signature_sent, finished, queue, worker,
              worker_error, wire, server, lost, data>>

Signature == 0
Trailer   == -1

In == copy.direction = "in"

\* What the server sends, up to the message that ends the COPY.
Outgoing(n, binary, end) ==
  (IF binary THEN <<Signature>> ELSE <<>>) \o [i \in 1..n |-> i]
    \o (IF binary THEN <<Trailer>> ELSE <<>>) \o <<end>>
Done     == -2
Failed   == -3     \* an error of the server
Canceled == -4

CopyInit ==
  /\ copy \in [direction : {"in", "out"}, binary : BOOLEAN, queued : BOOLEAN, rows : BOOLEAN,
               size : 0..MaxData]
  /\ IF In THEN copy.size = 0
     ELSE ~copy.queued /\ (copy.binary /\ copy.rows => BinaryRows)
  /\ user = [at |-> "block", todo |-> <<>>, exc |-> FALSE, outcome |-> "none"]
  /\ buffer = <<>> /\ signature_sent = FALSE /\ finished = FALSE
  /\ queue = <<>> /\ worker = "none" /\ worker_error = FALSE
  /\ IF In THEN wire = <<>>
     ELSE \/ wire = Outgoing(copy.size, copy.binary, Done)
          \/ wire = Append([i \in 1..copy.size |-> i], Failed) /\ ~copy.binary
  /\ server = "copying" /\ lost = FALSE /\ data = <<>>

-----------------------------------------------------------------------------
(* Leaving the block                                                        *)

\* Formatter.end: what is kept, then the end of the format in row mode; all of
\* the format if nothing was sent.
\* Mutant of FormatterEnd: an empty binary copy is sent without its format.
FormatterEnd_Empty(kept, sent) ==
  IF copy.binary /\ sent /\ copy.rows THEN Append(kept, Trailer) ELSE kept
FormatterEnd(kept, sent) ==
  IF ~copy.binary THEN kept
  ELSE IF ~sent THEN kept \o <<Signature, Trailer>>
  ELSE IF copy.rows THEN Append(kept, Trailer) ELSE kept

\* The block is over, and says whether it worked.
Left(outcome) == user' = [user EXCEPT !.at = "left", !.todo = <<>>, !.outcome = outcome]

\* The writer is given a chunk: it starts its worker, or raises the error that
\* the worker met.
WriterStarts == worker' = IF copy.queued /\ worker = "none" THEN "get" ELSE worker
Refused == copy.queued /\ worker # "none" /\ worker_error

\* Copy.__exit__, Copy.finish of a COPY FROM, with or without an exception;
\* kept and sent: the state of the formatter.
finish(exc, kept, sent) ==
  LET chunk == FormatterEnd(kept, sent)
  IN  /\ buffer' = <<>>
      /\ IF chunk # <<>> /\ Refused THEN Left("raised") /\ UNCHANGED worker
         ELSE /\ user' = [user EXCEPT !.at = "finishing", !.exc = exc,
                                     !.todo = IF chunk = <<>> THEN <<>> ELSE <<chunk>>]
              /\ IF chunk = <<>> THEN UNCHANGED worker ELSE WriterStarts

-----------------------------------------------------------------------------
(* Writing                                                                  *)

\* Mutant of Kept: the buffer is looked at before the row is added.
Kept_Late(row) == IF Len(buffer) > BufferRows THEN <<buffer \o row, <<>>>>
                  ELSE <<<<>>, buffer \o row>>
\* What goes out, and what stays in the buffer, when a row is added to it.
Kept(row) == IF Len(buffer) + Len(row) > BufferRows THEN <<buffer \o row, <<>>>>
             ELSE <<<<>>, buffer \o row>>

\* The writer is given the chunks of a write, kept stays in the formatter.  The
\* error of the worker is raised in the block, which is left with it.
Gives(chunks, kept, sent) ==
  /\ signature_sent' = sent
  /\ IF chunks # <<>> /\ Refused THEN finish(TRUE, kept, sent)
     ELSE /\ buffer' = kept
          /\ IF chunks = <<>> THEN UNCHANGED <<user, worker>>
             ELSE user' = [user EXCEPT !.at = "writing", !.todo = chunks] /\ WriterStarts

\* Copy.write_row
write_row ==
  /\ In /\ copy.rows /\ user.at = "block" /\ Len(data) < MaxData
  /\ LET number == Len(data) + 1
         row == (IF copy.binary /\ ~signature_sent THEN <<Signature>> ELSE <<>>) \o <<number>>
         out == Kept(row)[1]
     IN  /\ data' = Append(data, number)
         /\ Gives(IF out = <<>> THEN <<>> ELSE <<out>>, Kept(row)[2], copy.binary)
  /\ UNCHANGED <<copy, finished, queue, worker_error, wire, server, lost>>

\* Copy.write: a block; one longer than MAX_BUFFER_SIZE goes in several chunks.
\* A binary block has in it what there is of the format.
write ==
  /\ In /\ ~copy.rows /\ user.at = "block"
  /\ \E n \in 1..MaxChunks :
       LET head(i)  == IF copy.binary /\ data = <<>> /\ i = 1 THEN <<Signature>> ELSE <<>>
           piece(i) == head(i) \o <<Len(data) + i>>
       IN  /\ Len(data) + n <= MaxData
           /\ data' = data \o [i \in 1..n |-> Len(data) + i]
           /\ Gives([i \in 1..n |-> piece(i)], buffer, TRUE)
  /\ UNCHANGED <<copy, finished, queue, worker_error, wire, server, lost>>

\* copy_to: libpq takes a chunk, and tells of a lost connection now or at the end.
Sends(chunk) == IF lost THEN wire' = wire ELSE wire' = wire \o chunk

\* LibpqWriter.write: the next chunk.
LibpqWriter_write ==
  /\ ~copy.queued /\ user.at \in {"writing", "finishing"} /\ user.todo # <<>>
  /\ \/ /\ Sends(user.todo[1])
        /\ user' = [user EXCEPT !.todo = Tail(@)]
        /\ UNCHANGED <<buffer, worker>>
     \/ /\ lost /\ UNCHANGED wire
        /\ IF user.at = "writing" THEN finish(TRUE, buffer, signature_sent)
           ELSE Left("raised") /\ UNCHANGED <<buffer, worker>>
  /\ UNCHANGED <<copy, signature_sent, finished, queue, worker_error, server, lost, data>>

\* QueuedLibpqWriter.write: the next chunk, when the queue has room.
QueuedLibpqWriter_write ==
  /\ copy.queued /\ user.at \in {"writing", "finishing"} /\ user.todo # <<>>
  /\ Len(queue) < QueueSize
  /\ queue' = Append(queue, user.todo[1])
  /\ user' = [user EXCEPT !.todo = Tail(@)]
  /\ UNCHANGED <<copy, buffer, signature_sent, finished, worker, worker_error,
                 wire, server, lost, data>>

\* All the chunks of a write were handed over.
write_ends ==
  /\ user.at = "writing" /\ user.todo = <<>>
  /\ user' = [user EXCEPT !.at = "block"]
  /\ UNCHANGED <<copy, buffer, signature_sent, finished, queue, worker, worker_error,
                 wire, server, lost, data>>

\* QueuedLibpqWriter.worker: takes a chunk, or the end; sends it; dies of an error.
worker_get ==
  /\ worker = "get" /\ queue # <<>>
  /\ queue' = Tail(queue)
  /\ IF queue[1] = <<>> THEN worker' = "stopped" /\ UNCHANGED wire
     ELSE worker' = "send" /\ Sends(queue[1])
  /\ UNCHANGED <<copy, user, buffer, signature_sent, finished, worker_error, server, lost, data>>
worker_sent ==
  /\ worker = "send"
  /\ \/ worker' = "get" /\ UNCHANGED worker_error
     \/ lost /\ worker' = "dead" /\ worker_error' = TRUE
  /\ UNCHANGED <<copy, user, buffer, signature_sent, finished, queue, wire, server, lost, data>>

-----------------------------------------------------------------------------
(* The end of a COPY FROM                                                   *)

\* The block is left, by its end or by an exception of the user.
exit ==
  /\ In /\ user.at = "block"
  /\ \E exc \in BOOLEAN : finish(exc, buffer, signature_sent)
  /\ UNCHANGED <<copy, signature_sent, finished, queue, worker_error, wire, server, lost, data>>

\* QueuedLibpqWriter.finish: the end goes into the queue.
finish_queue ==
  /\ copy.queued /\ user.at = "finishing" /\ user.todo = <<>> /\ Len(queue) < QueueSize
  /\ queue' = Append(queue, <<>>)
  /\ user' = [user EXCEPT !.at = "joining"]
  /\ UNCHANGED <<copy, buffer, signature_sent, finished, worker, worker_error,
                 wire, server, lost, data>>

\* Mutant of WorkerEnded: a worker that was never started is waited for.
WorkerEnded_Started == worker \in {"stopped", "dead"}
WorkerEnded == worker \in {"none", "stopped", "dead"}

\* gather(worker); then its error is raised.
finish_join ==
  /\ user.at = "joining" /\ WorkerEnded
  /\ IF worker_error THEN Left("raised") ELSE user' = [user EXCEPT !.at = "ending"]
  /\ UNCHANGED <<copy, buffer, signature_sent, finished, queue, worker, worker_error,
                 wire, server, lost, data>>

finish_libpq ==
  /\ ~copy.queued /\ user.at = "finishing" /\ user.todo = <<>>
  /\ user' = [user EXCEPT !.at = "ending"]
  /\ UNCHANGED <<copy, buffer, signature_sent, finished, queue, worker, worker_error,
                 wire, server, lost, data>>

\* LibpqWriter.finish, copy_end: the end, or the error that cancels the copy.
\* What the server says to that error is no news; another error is.
copy_end ==
  /\ In /\ user.at = "ending"
  /\ IF lost \/ server = "failed" THEN Left("raised") /\ UNCHANGED <<finished, server>>
     ELSE /\ server' = IF user.exc THEN "canceled" ELSE "done"
          /\ finished' = TRUE
          /\ Left(IF user.exc THEN "raised" ELSE "ok")
  /\ UNCHANGED <<copy, buffer, signature_sent, queue, worker, worker_error, wire, lost, data>>

-----------------------------------------------------------------------------
(* Reading                                                                  *)

\* What a message makes of a read(): the end of the copy, an error, data.
IsData(msg) == msg > Done
Active == wire # <<>>      \* the result that ends the COPY was not read

\* copy_from raises: an exception in the block, which is then left.
Message(msg, taken) ==
  IF IsData(msg) THEN data' = data \o taken /\ UNCHANGED <<finished, user>>
  ELSE IF msg = Done THEN finished' = TRUE /\ UNCHANGED <<data, user>>
  ELSE Left("raised") /\ UNCHANGED <<data, finished>>

\* Copy.read: a message; nothing once the copy is finished.
read ==
  /\ ~In /\ ~copy.rows /\ user.at = "block" /\ ~finished /\ wire # <<>>
  /\ wire' = Tail(wire)
  /\ Message(wire[1], <<wire[1]>>)
  /\ UNCHANGED <<copy, buffer, signature_sent, queue, worker, worker_error, server, lost>>

\* Copy.read_row: the formatter makes a row of a message, or None of the
\* signature and the trailer; after None another message is read, and the copy
\* taken for finished.
read_row ==
  /\ ~In /\ copy.rows /\ user.at = "block" /\ ~finished /\ wire # <<>>
  /\ LET msg == wire[1]
         none == copy.binary /\ IsData(msg) /\ (~signature_sent \/ msg = Trailer)
     IN  IF ~none
         THEN wire' = Tail(wire) /\ Message(msg, <<msg>>) /\ UNCHANGED signature_sent
         ELSE /\ wire' = Tail(Tail(wire))
              /\ signature_sent' = TRUE
              /\ IF wire[2] \in {Failed, Canceled}
                 THEN Left("raised") /\ UNCHANGED <<data, finished>>
                 ELSE finished' = TRUE /\ UNCHANGED <<data, user>>
  /\ UNCHANGED <<copy, buffer, queue, worker, worker_error, server, lost>>

\* Copy.finish of a COPY TO: nothing to do without an exception, or when the
\* server has finished; else the COPY is canceled, and the rest read.
exit_out ==
  /\ ~In /\ user.at = "block"
  /\ \/ Left("ok") /\ UNCHANGED <<server, wire>>
     \/ /\ ~Active /\ Left("raised") /\ UNCHANGED <<server, wire>>
     \/ /\ Active /\ user' = [user EXCEPT !.at = "canceling"]
        /\ \/ UNCHANGED <<server, wire>>                    \* too late
           \/ /\ server' = "canceled"
              /\ \E n \in 0..(Len(wire) - 1) : wire' = Append(SubSeq(wire, 1, n), Canceled)
  /\ UNCHANGED <<copy, buffer, signature_sent, finished, queue, worker, worker_error, lost, data>>

\* _end_copy_out_gen: reads to the end, if the copy is not taken for finished.
CopyDrained == IF finished THEN wire ELSE <<>>
end_copy_out ==
  /\ user.at = "canceling"
  /\ wire' = CopyDrained
  /\ finished' = (finished \/ wire[Len(wire)] = Done)
  /\ Left("raised")
  /\ UNCHANGED <<copy, buffer, signature_sent, queue, worker, worker_error, server, lost, data>>

-----------------------------------------------------------------------------
(* The server and the network                                               *)

server_fails ==
  /\ In /\ server = "copying" /\ wire # <<>> /\ server' = "failed"
  /\ UNCHANGED <<copy, user, buffer, signature_sent, finished, queue, worker, worker_error,
                 wire, lost, data>>
connection_lost ==
  /\ In /\ ~lost /\ user.at # "left" /\ lost' = TRUE
  /\ UNCHANGED <<copy, user, buffer, signature_sent, finished, queue, worker, worker_error,
                 wire, server, data>>

Leaving == \/ LibpqWriter_write \/ QueuedLibpqWriter_write \/ write_ends
           \/ finish_queue \/ finish_join \/ finish_libpq \/ copy_end \/ end_copy_out
CopyWorker == worker_get \/ worker_sent
CopyNext == \/ write_row \/ write \/ exit \/ read \/ read_row \/ exit_out
            \/ Leaving \/ CopyWorker \/ server_fails \/ connection_lost
CopySpec == CopyInit /\ [][CopyNext]_copyVars

\* Calls of the library return if they can, and the worker runs.  The user is
\* free to stay in the block.
CopyFair == WF_copyVars(Leaving) /\ WF_copyVars(CopyWorker)

-----------------------------------------------------------------------------
(* Properties                                                               *)

CopyTypeOK ==
  /\ copy.direction \in {"in", "out"} /\ {copy.binary, copy.queued, copy.rows} \subseteq BOOLEAN
  /\ user.at \in {"block", "writing", "finishing", "joining", "ending", "canceling", "left"}
  /\ user.outcome \in {"none", "ok", "raised"} /\ (user.at = "left") = (user.outcome # "none")
  /\ Len(buffer) <= BufferRows /\ Len(queue) <= QueueSize
  /\ worker \in {"none", "get", "send", "stopped", "dead"}
  /\ worker_error = (worker = "dead")
  /\ server \in {"copying", "failed", "canceled", "done"}

\* All that a COPY FROM has to send of what was written.
Written == IF ~copy.binary THEN data
           ELSE IF data = <<>> THEN <<Signature, Trailer>>
           ELSE <<Signature>> \o data \o (IF copy.rows THEN <<Trailer>> ELSE <<>>)

\* What the server gets is what was written, in that order, through buffers,
\* chunks and the queue of another thread; it is all of it, with the format
\* around it, when the block says that it worked.
WrittenInOrder ==
  In => /\ IsPrefix(wire, Written)
        /\ user.outcome = "ok" => wire = Written /\ server = "done"

\* A COPY TO that the user finds finished, without an error of its own or of
\* the server, is one of which all the data was read, in order: the rows, or
\* everything that the server sent.
ReadToTheEnd ==
  ~In /\ finished /\ user.at \in {"block", "left"} /\ user.outcome # "raised" =>
    Append(data, Done) = Outgoing(copy.size, copy.binary /\ ~copy.rows, Done)

CopyKeepsData == WrittenInOrder /\ ReadToTheEnd

\* The user and the worker of a queued writer are never both in libpq, and a
\* block left with an exception leaves the connection out of the COPY.
CopyLeavesConnection ==
  /\ ~(worker = "send" /\ (user.at = "ending" \/ user.at = "left"))
  /\ user.outcome = "raised" /\ ~lost =>
       IF In THEN server # "copying" ELSE ~Active

\* A call in the block, and the end of the block, return.  All that may hold
\* them is a full queue, when the worker that should empty it has died.
CopyReturns ==
  user.at \notin {"block", "left"}
    ~> user.at \in {"block", "left"} \/ (worker = "dead" /\ Len(queue) = QueueSize)
=============================================================================
