---------------------------- MODULE CursorsProofs ----------------------------
(***************************************************************************)
(* Theorems about Cursors, for any cursors, results and any number of      *)
(* notifications: these are given once and in order; cursors are where     *)
(* their rows and portals are; no call leaves anything in flight.          *)
(***************************************************************************)
EXTENDS Cursors, SequenceTheorems, TLAPS

-----------------------------------------------------------------------------
(* Types of the calls                                                       *)

Kinds == {"free", "execute", "stream", "notifies"}
Stages == {"none", "begin", "query", "send", "row", "leave", "wait", "batch"}
CallType == [kind : Kinds, cur : ClientCursors \cup {"none"}, stage : Stages,
             interrupted : BOOLEAN]
NotifierType == [unread : Nat, handled : Nat, backlog : Seq(Nat), batch : Seq(Nat),
                 old : BOOLEAN, received : Nat, stop : Nat, given : Seq(Nat), lost : BOOLEAN]

\* The calls are of their type.
LEMMA ReleasedTyped == Released \in CallType /\ Released.kind = "free"
  BY DEF Released, CallType, Kinds, Stages

\* A call that begins is what it was called with.
LEMMA CalledTyped ==
  ASSUME NEW kind \in Kinds, NEW cur \in ClientCursors \cup {"none"}, NEW stage \in Stages
  PROVE  /\ Called(kind, cur, stage) \in CallType
         /\ Called(kind, cur, stage).kind = kind
         /\ Called(kind, cur, stage).cur = cur
         /\ Called(kind, cur, stage).stage = stage
  BY DEF Called, Released, CallType, Kinds, Stages

-----------------------------------------------------------------------------
(* Notifications                                                            *)

\* Three sequences in a row.
LEMMA Associative ==
  ASSUME NEW s \in Seq(Nat), NEW t \in Seq(Nat), NEW u \in Seq(Nat)
  PROVE  (s \o t) \o u = s \o (t \o u)
  BY SMTT(40)

\* s rises, and not above h.
Rising(s, h) == /\ \A i \in 1..(Len(s) - 1) : s[i] < s[i + 1]
                /\ \A i \in 1..Len(s) : s[i] <= h
First(h) == [i \in 1..h |-> i]
More(h, k) == [i \in 1..k |-> h + i]

\* The notifications of s, the first h, are followed by the next k.
LEMMA MoreInOrder ==
  ASSUME NEW s \in Seq(Nat), NEW h \in Nat, NEW k \in Nat, Rising(s, h)
  PROVE  /\ More(h, k) \in Seq(Nat)
         /\ s \o More(h, k) \in Seq(Nat)
         /\ Rising(s \o More(h, k), h + k)
         /\ s = First(h) => s \o More(h, k) = First(h + k)
<1> DEFINE m == More(h, k)  t == s \o m
<1>1. m \in Seq(Nat) /\ Len(m) = k /\ \A i \in 1..k : m[i] = h + i
  BY IsASeq DEF More
<1>2. /\ t \in Seq(Nat) /\ Len(t) = Len(s) + k
      /\ \A i \in 1..(Len(s) + k) : t[i] = IF i <= Len(s) THEN s[i] ELSE m[i - Len(s)]
  BY <1>1, ConcatProperties
<1>3. Rising(t, h + k)
  <2>1. ASSUME NEW i \in 1..Len(t) PROVE t[i] <= h + k
    BY <1>1, <1>2, <2>1 DEF Rising
  <2>2. ASSUME NEW i \in 1..(Len(t) - 1) PROVE t[i] < t[i + 1]
    <3>1. CASE i < Len(s)
      BY <1>1, <1>2, <3>1 DEF Rising
    <3>2. CASE i = Len(s)
      BY <1>1, <1>2, <3>2 DEF Rising
    <3>3. CASE i > Len(s)
      BY <1>1, <1>2, <3>3
    <3> QED BY <3>1, <3>2, <3>3, LenProperties
  <2> QED BY <2>1, <2>2 DEF Rising
<1>4. ASSUME s = First(h) PROVE t = First(h + k)
  <2>1. Len(s) = h /\ \A i \in 1..h : s[i] = i
    BY <1>4 DEF First
  <2>2. First(h + k) \in Seq(Nat) /\ Len(First(h + k)) = h + k
    BY IsASeq DEF First
  <2>3. \A i \in 1..(h + k) : t[i] = First(h + k)[i]
    BY <1>1, <1>2, <2>1 DEF First
  <2> QED BY <1>2, <2>1, <2>2, <2>3, SeqEqual
<1> QED BY <1>1, <1>2, <1>3, <1>4

All == notifier.given \o notifier.batch \o notifier.backlog

\* notifies() takes the backlog and nothing is added to it while it runs;
\* between its runs, and when it waits, it has nothing to give.
NotifierInv ==
  /\ notifier \in NotifierType /\ call \in CallType
  /\ Rising(All, notifier.handled)
  /\ ~notifier.lost => All = First(notifier.handled)
  /\ IF call.kind = "notifies" THEN notifier.backlog = <<>> ELSE notifier.batch = <<>>
  /\ call.kind = "notifies" /\ call.stage = "wait" => notifier.batch = <<>>

\* Only the notifier and the call matter to NotifierInv.
LEMMA NotifierFrame ==
  ASSUME NotifierInv, UNCHANGED notifier, call' \in CallType,
         call.kind = "notifies" => call' = call, call.kind # "notifies" => call'.kind # "notifies"
  PROVE  NotifierInv'
  BY DEF NotifierInv, All

\* A call that is not notifies() lets the next k notifications into the backlog.
LEMMA NotifiedInv ==
  ASSUME NotifierInv, call.kind # "notifies", NEW k \in 0..notifier.unread, Notified(k),
         call' \in CallType, call'.kind # "notifies"
  PROVE  NotifierInv'
<1> DEFINE m == More(notifier.handled, k)
<1>1. notifier \in NotifierType /\ notifier.batch = <<>> /\ k \in Nat
  BY DEF NotifierInv, NotifierType
<1>2. /\ notifier.given \in Seq(Nat) /\ notifier.backlog \in Seq(Nat) /\ m \in Seq(Nat)
      /\ All = notifier.given \o notifier.backlog /\ All \in Seq(Nat)
  BY <1>1, ConcatEmptySeq, ConcatProperties, IsASeq DEF All, NotifierType, More
<1>3. notifier' = [notifier EXCEPT !.unread = @ - k, !.handled = @ + k, !.backlog = @ \o m]
  BY DEF Notified, More
<1>4. /\ notifier' \in NotifierType /\ notifier'.batch = <<>>
      /\ notifier'.handled = notifier.handled + k /\ notifier'.lost = notifier.lost
      /\ notifier'.given = notifier.given /\ notifier'.backlog = notifier.backlog \o m
  <2> HIDE DEF m
  <2>1. notifier.backlog \o m \in Seq(Nat) BY <1>2, ConcatProperties
  <2>2. notifier.unread - k \in Nat /\ notifier.handled + k \in Nat
    BY <1>1 DEF NotifierType
  <2> QED BY <1>1, <1>3, <2>1, <2>2 DEF NotifierType
<1>5. All' = All \o m
  <2> HIDE DEF m
  <2>1. notifier.given \o <<>> = notifier.given BY <1>2, ConcatEmptySeq
  <2>2. All' = notifier.given \o (notifier.backlog \o m)
    <3>1. All' = (notifier.given \o <<>>) \o (notifier.backlog \o m)
      BY <1>4 DEF All
    <3> QED BY <3>1, <2>1
  <2>3. (notifier.given \o notifier.backlog) \o m = notifier.given \o (notifier.backlog \o m)
    BY <1>2, Associative, ZenonT(40)
  <2> QED BY <2>2, <2>3, <1>2
<1>6. Rising(All', notifier'.handled) /\ (~notifier'.lost => All' = First(notifier'.handled))
  <2>1. notifier.handled \in Nat BY <1>1 DEF NotifierType
  <2>2. Rising(All, notifier.handled) /\ (~notifier.lost => All = First(notifier.handled))
    BY DEF NotifierInv
  <2>3. /\ Rising(All \o m, notifier.handled + k)
        /\ All = First(notifier.handled) => All \o m = First(notifier.handled + k)
    BY <1>1, <1>2, <2>1, <2>2, MoreInOrder
  <2> QED BY <1>4, <1>5, <2>2, <2>3
<1> QED BY <1>4, <1>6 DEF NotifierInv

\* The server sends a notification: nobody has read it.
LEMMA NotifyInv == ASSUME NotifierInv, notify PROVE NotifierInv'
<1>1. notifier' = [notifier EXCEPT !.unread = @ + 1] /\ call' = call
  BY DEF notify
<1>2. /\ notifier' \in NotifierType /\ notifier'.handled = notifier.handled
      /\ notifier'.lost = notifier.lost /\ notifier'.batch = notifier.batch
      /\ notifier'.given = notifier.given /\ notifier'.backlog = notifier.backlog
  <2>1. notifier \in NotifierType BY DEF NotifierInv
  <2>2. notifier.unread + 1 \in Nat BY <2>1 DEF NotifierType
  <2> QED BY <1>1, <2>1, <2>2 DEF NotifierType
<1>3. All' = All BY <1>2 DEF All
<1> QED BY <1>1, <1>2, <1>3 DEF NotifierInv

\* notifies() takes the backlog as its first batch.
LEMMA NotifiesInv ==
  ASSUME NotifierInv, notifies, MaxNotifies \in Nat PROVE NotifierInv'
<1>1. PICK stop \in 0..NoStop :
        notifier' = [notifier EXCEPT !.batch = notifier.backlog, !.backlog = <<>>,
                                     !.old = TRUE, !.received = 0, !.stop = stop]
  BY DEF notifies
<1>2. stop \in Nat BY DEF NoStop
<1>3. notifier.batch = <<>> BY DEF notifies, Free, NotifierInv
<1>4. call' = Called("notifies", "none", IF notifier.backlog = <<>> THEN "wait" ELSE "batch")
  BY DEF notifies
<1>5. /\ call' \in CallType /\ call'.kind = "notifies"
      /\ call'.stage = "wait" => notifier.backlog = <<>>
  BY <1>4, CalledTyped DEF Kinds, Stages
<1>6. /\ notifier' \in NotifierType /\ notifier'.handled = notifier.handled
      /\ notifier'.lost = notifier.lost /\ notifier'.given = notifier.given
      /\ notifier'.batch = notifier.backlog /\ notifier'.backlog = <<>>
  BY <1>1, <1>2 DEF NotifierInv, NotifierType
<1>7. All' = All
  <2>1. All = notifier.given \o notifier.backlog
    BY <1>3, ConcatEmptySeq DEF All, NotifierInv, NotifierType
  <2>2. All' = notifier.given \o notifier.backlog
    BY <1>6, ConcatEmptySeq, ConcatProperties DEF All, NotifierInv, NotifierType
  <2> QED BY <2>1, <2>2
<1> QED BY <1>5, <1>6, <1>7 DEF NotifierInv

\* It has given all of its batch when it waits for the next.
LEMMA NotifiesWaitInv == ASSUME NotifierInv, notifies_wait PROVE NotifierInv'
<1>1. PICK k \in 0..notifier.unread :
        notifier' = [notifier EXCEPT !.unread = @ - k, !.handled = @ + k, !.old = FALSE,
                       !.batch = More(notifier.handled, k)]
  BY DEF notifies_wait, More
<1>2. /\ notifier \in NotifierType /\ notifier.batch = <<>> /\ notifier.backlog = <<>> /\ k \in Nat
      /\ call.kind = "notifies"
  BY DEF NotifierInv, NotifierType, notifies_wait
<1>3. notifier.given \in Seq(Nat) /\ All = notifier.given /\ More(notifier.handled, k) \in Seq(Nat)
  BY <1>2, ConcatEmptySeq, IsASeq DEF All, NotifierType, More
<1>4. /\ notifier' \in NotifierType /\ notifier'.handled = notifier.handled + k /\ notifier'.backlog = <<>>
      /\ notifier'.batch = More(notifier.handled, k) /\ notifier'.given = notifier.given /\ notifier'.lost = notifier.lost
  <2>1. notifier.unread - k \in Nat /\ notifier.handled + k \in Nat
    BY <1>2 DEF NotifierType
  <2> QED BY <1>1, <1>2, <1>3, <2>1 DEF NotifierType
<1>5. All' = All \o More(notifier.handled, k)
  BY <1>3, <1>4, ConcatEmptySeq, ConcatProperties DEF All
<1>6. Rising(All', notifier'.handled) /\ (~notifier'.lost => All' = First(notifier'.handled))
  <2>1. notifier.handled \in Nat BY <1>2 DEF NotifierType
  <2>2. Rising(All, notifier.handled) /\ (~notifier.lost => All = First(notifier.handled))
    BY DEF NotifierInv
  <2>3. /\ Rising(All \o More(notifier.handled, k), notifier.handled + k)
        /\ All = First(notifier.handled)
             => All \o More(notifier.handled, k) = First(notifier.handled + k)
    BY <1>2, <1>3, <2>1, <2>2, MoreInOrder
  <2> QED BY <1>4, <1>5, <2>2, <2>3
<1>7. call' \in CallType /\ call'.kind = "notifies" /\ call'.stage = "batch"
  BY <1>2 DEF notifies_wait, NotifierInv, CallType, Stages
<1> QED BY <1>4, <1>6, <1>7 DEF NotifierInv

\* It gives the first of its batch.
LEMMA NotifiesNextInv == ASSUME NotifierInv, notifies_next PROVE NotifierInv'
<1>1. CASE notifier.batch # <<>>
  <2>1. /\ notifier' = [notifier EXCEPT !.batch = Tail(@), !.received = @ + 1, !.given = Append(@, notifier.batch[1])]
        /\ call' = call
    BY <1>1 DEF notifies_next
  <2>2. notifier \in NotifierType /\ call.kind = "notifies" /\ call.stage = "batch" /\ notifier.backlog = <<>>
    BY DEF NotifierInv, notifies_next
  <2>3. /\ notifier.given \in Seq(Nat) /\ notifier.batch \in Seq(Nat) /\ notifier.batch[1] \in Nat
        /\ Tail(notifier.batch) \in Seq(Nat) /\ Append(notifier.given, notifier.batch[1]) \in Seq(Nat)
    BY <1>1, <2>2, HeadTailProperties, AppendProperties, EmptySeq, ElementOfSeq DEF NotifierType
  <2>4. /\ notifier' \in NotifierType /\ notifier'.handled = notifier.handled /\ notifier'.lost = notifier.lost
        /\ notifier'.backlog = <<>> /\ notifier'.batch = Tail(notifier.batch)
        /\ notifier'.given = Append(notifier.given, notifier.batch[1])
    <3>1. notifier.received + 1 \in Nat BY <2>2 DEF NotifierType
    <3> QED BY <2>1, <2>2, <2>3, <3>1 DEF NotifierType
  <2>5. Append(notifier.given, notifier.batch[1]) \o Tail(notifier.batch) = notifier.given \o notifier.batch
    <3> DEFINE x == notifier.batch[1]
    <3> HIDE DEF x
    <3>1. x \in Nat BY <2>3 DEF x
    <3>2a. <<x>> \in Seq(Nat) BY <3>1
    <3>2. Append(notifier.given, x) = notifier.given \o <<x>> BY <2>3, <3>1, AppendIsConcat
    <3>3. notifier.batch = <<x>> \o Tail(notifier.batch)
      BY <1>1, <2>3 DEF x
    <3>4. (notifier.given \o <<x>>) \o Tail(notifier.batch)
            = notifier.given \o (<<x>> \o Tail(notifier.batch))
      BY <2>3, <3>2a, Associative, ZenonT(40)
    <3> QED BY <3>2, <3>3, <3>4 DEF x
  <2>6. All' = All
    BY <2>2, <2>3, <2>4, <2>5, ConcatEmptySeq, ConcatProperties DEF All
  <2> QED BY <2>1, <2>2, <2>4, <2>6 DEF NotifierInv
<1>2. CASE notifier.batch = <<>> /\ call' = Released
  <2>1. notifier' = notifier /\ call' \in CallType /\ call'.kind = "free"
    BY <1>2, ReleasedTyped DEF notifies_next
  <2> QED BY <1>2, <2>1 DEF NotifierInv, All
<1>3. CASE notifier.batch = <<>> /\ call' # Released
  <2>1. notifier' = notifier /\ call' = [call EXCEPT !.stage = "wait"]
    BY <1>3 DEF notifies_next
  <2>2. call' \in CallType /\ call'.kind = call.kind /\ call.kind = "notifies"
    BY <2>1 DEF NotifierInv, CallType, Stages, notifies_next
  <2> QED BY <1>3, <2>1, <2>2 DEF NotifierInv, All
<1> QED BY <1>1, <1>2, <1>3

\* What is lost when notifies() is closed is the end of what was received.
LEMMA RisingPart ==
  ASSUME NEW s \in Seq(Nat), NEW t \in Seq(Nat), NEW h \in Nat, Rising(s \o t, h)
  PROVE  Rising(s, h)
<1>1. /\ Len(s \o t) = Len(s) + Len(t) /\ Len(s) \in Nat /\ Len(t) \in Nat
      /\ \A i \in 1..Len(s) : (s \o t)[i] = s[i]
  BY ConcatProperties, LenProperties
<1> QED BY <1>1, SMTT(40) DEF Rising

\* It is closed: what is left of the backlog goes back.
LEMMA NotifiesCloseInv == ASSUME NotifierInv, notifies_close PROVE NotifierInv'
<1>1. /\ notifier' = [notifier EXCEPT !.backlog = BacklogLeft, !.batch = <<>>,
                        !.lost = @ \/ (~notifier.old /\ notifier.batch # <<>>)]
      /\ call' = Released
  BY DEF notifies_close
<1>2. /\ notifier \in NotifierType /\ notifier.backlog = <<>> /\ notifier.given \in Seq(Nat) /\ notifier.batch \in Seq(Nat)
      /\ notifier.given \o notifier.batch \in Seq(Nat) /\ All = notifier.given \o notifier.batch
  <2>1. notifier \in NotifierType /\ notifier.backlog = <<>>
    BY DEF NotifierInv, notifies_close
  <2>2. notifier.given \in Seq(Nat) /\ notifier.batch \in Seq(Nat)
    BY <2>1 DEF NotifierType
  <2>3. notifier.given \o notifier.batch \in Seq(Nat) BY <2>2, ConcatProperties
  <2>4. (notifier.given \o notifier.batch) \o <<>> = notifier.given \o notifier.batch
    BY <2>3, ConcatEmptySeq
  <2> QED BY <2>1, <2>2, <2>3, <2>4 DEF All
<1>3. /\ notifier' \in NotifierType /\ notifier'.handled = notifier.handled /\ notifier'.batch = <<>>
      /\ notifier'.given = notifier.given /\ notifier'.backlog = BacklogLeft
      /\ ~notifier'.lost => ~notifier.lost /\ (notifier.old \/ notifier.batch = <<>>)
  BY <1>1, <1>2 DEF NotifierType, BacklogLeft
<1>4. call' \in CallType /\ call'.kind = "free" BY <1>1, ReleasedTyped
<1>5. All' = notifier.given \o BacklogLeft
  BY <1>2, <1>3, ConcatEmptySeq DEF All
<1>6. CASE notifier.old \/ notifier.batch = <<>>
  <2>1. All' = All BY <1>2, <1>5, <1>6 DEF BacklogLeft
  <2> QED BY <1>3, <1>4, <2>1 DEF NotifierInv
<1>7. CASE ~notifier.old /\ notifier.batch # <<>>
  <2>1. All' = notifier.given BY <1>2, <1>5, <1>7, ConcatEmptySeq DEF BacklogLeft
  <2>2. Rising(All', notifier'.handled)
    BY <1>2, <1>3, <2>1, RisingPart DEF NotifierInv, NotifierType
  <2> QED BY <1>3, <1>4, <1>7, <2>2 DEF NotifierInv
<1> QED BY <1>6, <1>7

\* The calls of the client cursors.
LEMMA ClientCallsNotifierInv ==
  ASSUME NotifierInv,
         \/ \E c \in ClientCursors : \/ execute(c) \/ executemany(c) \/ stream(c) \/ close(c)
                                     \/ fetch(c) \/ scroll(c) \/ nextset(c)
         \/ fetched \/ interrupt \/ stream_next \/ stream_leave \/ stream_drain
  PROVE  NotifierInv'
<1>0. call \in CallType BY DEF NotifierInv
<1>1. ASSUME NEW c \in ClientCursors, execute(c) \/ stream(c) PROVE NotifierInv'
  <2>1. /\ call.kind = "free" /\ notifier' = notifier
        /\ call' \in {Called("execute", c, "begin"), Called("execute", c, "query"),
                      Called("stream", c, "send")}
    BY <1>1 DEF execute, stream, Free
  <2>2. call' \in CallType /\ call'.kind # "notifies"
    BY <2>1, CalledTyped DEF Kinds, Stages
  <2> QED BY <2>1, <2>2, NotifierFrame
<1>2. ASSUME NEW c \in ClientCursors,
             executemany(c) \/ close(c) \/ fetch(c) \/ scroll(c) \/ nextset(c)
      PROVE  NotifierInv'
  <2>1. call' = call /\ notifier' = notifier
    BY <1>2 DEF executemany, close, fetch, scroll, nextset
  <2> QED BY <1>0, <2>1, NotifierFrame
<1>3. CASE fetched
  <2>1. call.kind = "execute" /\ \E k \in 0..notifier.unread : Notified(k)
    BY <1>3 DEF fetched
  <2>2. call' = Released \/ call' = [call EXCEPT !.stage = "query"]
    BY <1>3 DEF fetched
  <2>3. call' \in CallType /\ call'.kind # "notifies"
    BY <1>0, <2>1, <2>2, ReleasedTyped DEF CallType, Stages
  <2> QED BY <2>1, <2>3, NotifiedInv
<1>4. CASE interrupt
  <2>1. /\ call.kind = "execute" /\ notifier' = notifier
        /\ call' = [call EXCEPT !.interrupted = TRUE]
    BY <1>4 DEF interrupt
  <2>2. call' \in CallType /\ call'.kind # "notifies"
    BY <1>0, <2>1 DEF CallType
  <2> QED BY <2>1, <2>2, NotifierFrame
<1>5. CASE stream_next \/ stream_drain
  <2>1. call.kind = "stream" /\ \E k \in 0..notifier.unread : Notified(k)
    BY <1>5 DEF stream_next, stream_drain
  <2>2. call' = Released \/ call' = [call EXCEPT !.stage = "row"]
    BY <1>5 DEF stream_next, stream_drain
  <2>3. call' \in CallType /\ call'.kind # "notifies"
    BY <1>0, <2>1, <2>2, ReleasedTyped DEF CallType, Stages
  <2> QED BY <2>1, <2>3, NotifiedInv
<1>6. CASE stream_leave
  <2>1. /\ call.kind = "stream" /\ notifier' = notifier
        /\ call' = [call EXCEPT !.stage = "leave"]
    BY <1>6 DEF stream_leave
  <2>2. call' \in CallType /\ call'.kind # "notifies"
    BY <1>0, <2>1 DEF CallType, Stages
  <2> QED BY <2>1, <2>2, NotifierFrame
<1> QED BY <1>1, <1>2, <1>3, <1>4, <1>5, <1>6

\* At first there is nothing to give.
LEMMA NotifierInit_ == CursorsInit => NotifierInv
<1> SUFFICES ASSUME CursorsInit PROVE NotifierInv
  OBVIOUS
<1>1. notifier = NotifierInit /\ call = Released BY DEF CursorsInit
<1>2. <<>> \in Seq(Nat) BY EmptySeq
<1>3. /\ notifier \in NotifierType /\ notifier.handled = 0 /\ notifier.batch = <<>>
      /\ notifier.given = <<>> /\ notifier.backlog = <<>>
  BY <1>1, <1>2 DEF NotifierInit, NotifierType
<1>4. All = <<>>
  <2>1. <<>> \o <<>> = <<>> BY <1>2, ConcatEmptySeq
  <2> QED BY <1>3, <2>1 DEF All
<1>5. First(0) = <<>> BY DEF First
<1>6. Rising(<<>>, 0) BY DEF Rising
<1> QED BY <1>1, <1>3, <1>4, <1>5, <1>6, ReleasedTyped DEF NotifierInv

\* Whatever the calls, the interruptions and the server do, what the user of
\* notifies() was given, what it has to give and the backlog are the
\* notifications that were read, once and in their order
\* (Connection.notifies, _notify_handler).
THEOREM NotifiedOnce == CursorsSpec => []NotifiedInOrder
<1>1. CursorsInit => NotifierInv BY NotifierInit_
<1>2. NotifierInv /\ [CursorsNext]_cursorsVars => NotifierInv'
  <2> SUFFICES ASSUME NotifierInv, [CursorsNext]_cursorsVars PROVE NotifierInv'
    OBVIOUS
  <2>0. call \in CallType BY DEF NotifierInv
  <2>1. CASE UNCHANGED cursorsVars
    BY <2>0, <2>1, NotifierFrame DEF cursorsVars
  <2>2. CASE notify BY <2>2, NotifyInv
  <2>3. CASE notifies BY <2>3, NotifiesInv, CursorsAssumption
  <2>4. CASE notifies_wait BY <2>4, NotifiesWaitInv
  <2>5. CASE notifies_next BY <2>5, NotifiesNextInv
  <2>6. CASE notifies_close BY <2>6, NotifiesCloseInv
  <2>7. CASE \/ \E s \in ServerCursors :
                  \/ declare(s) \/ fetch_forward(s) \/ scroll_portal(s) \/ close_portal(s)
                  \/ yield_row(s) \/ leave_loop(s)
             \/ end_transaction
    <3>1. call' = call /\ notifier' = notifier
      BY <2>7 DEF declare, fetch_forward, scroll_portal, close_portal, yield_row, leave_loop,
                  end_transaction
    <3> QED BY <2>0, <3>1, NotifierFrame
  <2>8. CASE \/ \E c \in ClientCursors : \/ execute(c) \/ executemany(c) \/ stream(c)
                                         \/ close(c) \/ fetch(c) \/ scroll(c) \/ nextset(c)
             \/ fetched \/ interrupt \/ stream_next \/ stream_leave \/ stream_drain
    BY <2>8, ClientCallsNotifierInv
  <2> QED BY <2>1, <2>2, <2>3, <2>4, <2>5, <2>6, <2>7, <2>8 DEF CursorsNext
<1>3. NotifierInv => NotifiedInOrder
  BY DEF NotifierInv, NotifiedInOrder, Rising, All, First
<1> QED BY <1>1, <1>2, <1>3, PTL DEF CursorsSpec

-----------------------------------------------------------------------------
(* Positions, portals and what is in flight: the invariant                  *)

Statuses == {"tuples", "command", "single", "fatal", "canceled", "none"}
Results == {r \in [status : Statuses, n : Int] : r.status = "tuples" => r.n \in Nat}
ClientType == [closed : BOOLEAN, results : Seq(Results), pgresult : Results, iresult : Nat,
               pos : Int, rowcount : Int \cup {Total(ns) : ns \in ManyRows}, given : Seq(Int)]
ServerType == [closed : BOOLEAN, described : BOOLEAN, hold : BOOLEAN, pos : Int,
               batch : Nat, strayed : BOOLEAN, inerror : BOOLEAN]
PortalType == [open : BOOLEAN, hold : BOOLEAN, committed : BOOLEAN, n : 0..MaxRows, at : Nat]
Status == {"IDLE", "INTRANS", "INERROR"}
CursorsTyped ==
  /\ txn \in Status /\ autocommit \in BOOLEAN /\ call \in CallType /\ flight \in Seq(Results)
  /\ cursor \in [ClientCursors -> ClientType] /\ scursor \in [ServerCursors -> ServerType]
  /\ portal \in [ServerCursors -> PortalType]

\* What is in flight ends with EndOfResults, and only for a query that is waited for.
Ended(f) == /\ Len(f) >= 1 /\ f[Len(f)] = EndOfResults
            /\ \A i \in 1..(Len(f) - 1) : f[i].status # "none"
FlightHolds ==
  /\ call.kind \in {"free", "notifies"} => flight = <<>>
  /\ call.kind \in {"execute", "stream"} => call.cur \in ClientCursors /\ Ended(flight)
  /\ call.kind = "execute" => Len(flight) >= 2
  /\ call.kind = "stream" => call.stage # "begin"

\* The position of a client cursor is in the rows of its current result.
ClientHolds(cur) ==
  /\ cur.iresult \in 0..Len(cur.results)
  /\ \A i \in 1..(Len(cur.given) - 1) : cur.given[i + 1] = cur.given[i] + 1
  /\ cur.pgresult.status = "tuples" =>
       /\ cur.rowcount = cur.pgresult.n /\ cur.pos \in 0..cur.rowcount
       /\ cur.given # <<>> => cur.given[Len(cur.given)] = cur.pos
ClientsHold == \A c \in ClientCursors : ClientHolds(cursor[c])

\* A stream was given the first rows, and those in flight follow them.
StreamHolds ==
  call.kind = "stream" /\ call.stage # "leave" =>
    /\ cursor[call.cur].pgresult.status # "tuples"
    /\ \A i \in 1..Len(cursor[call.cur].given) : cursor[call.cur].given[i] = i
    /\ \A i \in 1..Len(flight) : flight[i].status = "single" =>
         flight[i].n = Len(cursor[call.cur].given) + i

\* With the rows that an iteration has yet to yield, a server cursor is on the row
\* of its portal, or it strayed.
RowOf(p) == IF p.at > p.n THEN p.n ELSE p.at
ServerHolds(sc, p) ==
  /\ p.at <= p.n + 1 /\ sc.pos \in Positions /\ sc.batch <= MaxRows
  /\ p.open => p.hold = sc.hold
  /\ sc.strayed \/ (sc.described /\ ~sc.closed /\ p.open => sc.pos + sc.batch = RowOf(p))
  /\ sc.closed /\ ~sc.inerror => ~p.open
ServersHold == \A s \in ServerCursors : ServerHolds(scursor[s], portal[s])

\* A portal that is not WITH HOLD lives in a transaction, and not in one that
\* is about to begin.
Beginning == call.kind = "execute" /\ call.stage = "begin"
PortalsHold ==
  \A s \in ServerCursors : portal[s].open /\ ~portal[s].hold => txn # "IDLE" /\ ~Beginning

CursorsInv == /\ CursorsTyped /\ FlightHolds /\ ClientsHold /\ StreamHolds
              /\ ServersHold /\ PortalsHold

\* What the server cursors are about, and the client cursors are about.
ServerPart == ServersHold /\ PortalsHold
ClientPart == FlightHolds /\ ClientsHold /\ StreamHolds

-----------------------------------------------------------------------------
(* Results                                                                  *)

\* The elements of a concatenation.
LEMMA ConcatAt ==
  ASSUME NEW S, NEW p \in Seq(S), NEW q \in Seq(S)
  PROVE  /\ p \o q \in Seq(S) /\ Len(p \o q) = Len(p) + Len(q)
         /\ \A j \in 1..Len(p) : (p \o q)[j] = p[j]
         /\ \A j \in (Len(p) + 1)..(Len(p) + Len(q)) : (p \o q)[j] = q[j - Len(p)]
<1>0. PICK x \in Nat, y \in Nat : x = Len(p) /\ y = Len(q)
  OBVIOUS
<1>1. \A i \in 1..(x + y) : (p \o q)[i] = IF i <= x THEN p[i] ELSE q[i - x]
  BY <1>0, ConcatProperties
<1>2. \A j \in 1..x : j \in 1..(x + y) /\ j <= x
  OBVIOUS
<1>3. \A j \in (x + 1)..(x + y) : j \in 1..(x + y) /\ ~(j <= x)
  OBVIOUS
<1>4. p \o q \in Seq(S) /\ Len(p \o q) = x + y
  BY <1>0, ConcatProperties
<1> QED
  BY <1>0, <1>1, <1>2, <1>3, <1>4

\* The results, by their status.
LEMMA ResultsTyped ==
  /\ \A n \in Nat : Tuples(n) \in Results /\ Tuples(n).status = "tuples" /\ Tuples(n).n = n
  /\ \A n \in Int : Command(n) \in Results /\ Command(n).status = "command"
  /\ \A n \in Int : Single(n) \in Results /\ Single(n).status = "single" /\ Single(n).n = n
  /\ Fatal \in Results /\ Fatal.status = "fatal"
  /\ CanceledErr \in Results /\ CanceledErr.status = "canceled"
  /\ EndOfResults \in Results /\ EndOfResults.status = "none"
  /\ NoResult \in Results /\ NoResult.status = "none"
  BY DEF Tuples, Command, Single, Fatal, CanceledErr, EndOfResults, NoResult, Results, Statuses

\* An answer is one result or more, all of them real.
Answer(rs) == /\ rs \in Seq(Results) /\ Len(rs) >= 1
              /\ \A i \in 1..Len(rs) : rs[i].status \notin {"none", "single"}

\* All that a query may answer.
LEMMA AnswersAre == \A rs \in Answers : Answer(rs)
<1> DEFINE good == {Tuples(n) : n \in 0..MaxRows} \cup {Command(n) : n \in {-1, 1}} \cup {Fatal}
<1>0. MaxRows \in Nat
  BY CursorsAssumption
<1>1. \A r \in good : r \in Results /\ r.status \notin {"none", "single"}
  BY <1>0, ResultsTyped
<1>2. Fatal \in good /\ Tuples(MaxRows) \in good
  BY <1>0
<1> SUFFICES ASSUME NEW rs \in Answers PROVE Answer(rs)
  OBVIOUS
<1>3. (\E r \in good : rs = <<r>>) \/ (\E r \in good : rs = <<Tuples(MaxRows), r>>)
  BY <1>2 DEF Answers
<1> HIDE DEF good
<1>4. CASE \E r \in good : rs = <<r>>
  <2>1. PICK r \in good : rs = <<r>>
    BY <1>4
  <2> QED
    BY <1>1, <2>1 DEF Answer
<1>5. CASE \E r \in good : rs = <<Tuples(MaxRows), r>>
  <2>1. PICK r \in good : rs = <<Tuples(MaxRows), r>>
    BY <1>5
  <2>2. PICK t \in good : t = Tuples(MaxRows)
    BY <1>2
  <2> QED
    BY <1>1, <2>1, <2>2 DEF Answer
<1> QED
  BY <1>3, <1>4, <1>5

\* What libpq has to give of an answer.
LEMMA AnswerEnds ==
  ASSUME NEW rs, Answer(rs)
  PROVE  /\ Append(rs, EndOfResults) \in Seq(Results) /\ Ended(Append(rs, EndOfResults))
         /\ Len(Append(rs, EndOfResults)) >= 2
<1>1. PICK k \in Nat : k = Len(rs) /\ k >= 1
  BY DEF Answer
<1>2. EndOfResults \in Results
  BY ResultsTyped
<1>3. /\ Append(rs, EndOfResults) \in Seq(Results) /\ Len(Append(rs, EndOfResults)) = k + 1
      /\ Append(rs, EndOfResults)[k + 1] = EndOfResults
      /\ \A i \in 1..k : Append(rs, EndOfResults)[i] = rs[i]
  BY <1>1, <1>2 DEF Answer
<1>4. (k + 1) - 1 = k
  OBVIOUS
<1> QED
  BY <1>1, <1>3, <1>4 DEF Answer, Ended

\* What is left of a query that was canceled.
LEMMA CancelEnds ==
  ASSUME NEW f \in Seq(Results), Ended(f), NEW n \in 0..(Len(f) - 1)
  PROVE  LET g == SubSeq(f, 1, n) \o <<CanceledErr, EndOfResults>>
         IN  g \in Seq(Results) /\ Ended(g) /\ Len(g) >= 2
<1> DEFINE h == SubSeq(f, 1, n)
           e == <<CanceledErr, EndOfResults>>
           g == h \o e
<1>1. n \in Nat /\ n <= Len(f) /\ \A i \in 1..n : i \in 1..(Len(f) - 1)
  OBVIOUS
<1>2. h \in Seq(Results) /\ Len(h) = n /\ \A i \in 1..n : h[i] = f[i]
  BY <1>1
<1>3. e \in Seq(Results) /\ Len(e) = 2 /\ e[1] = CanceledErr /\ e[2] = EndOfResults
  BY ResultsTyped
<1> HIDE DEF h, e
<1>4. /\ g \in Seq(Results) /\ Len(g) = n + 2
      /\ \A i \in 1..n : g[i] = h[i]
      /\ \A i \in (n + 1)..(n + 2) : g[i] = e[i - n]
  <2>1. /\ g \in Seq(Results) /\ Len(g) = Len(h) + Len(e)
        /\ \A i \in 1..Len(h) : g[i] = h[i]
        /\ \A i \in (Len(h) + 1)..(Len(h) + Len(e)) : g[i] = e[i - Len(h)]
    BY ZenonT(60), <1>2, <1>3, ConcatAt
  <2> QED
    BY <1>2, <1>3, <2>1
<1> HIDE DEF g
<1>5. /\ n + 1 \in (n + 1)..(n + 2) /\ (n + 1) - n = 1
      /\ n + 2 \in (n + 1)..(n + 2) /\ (n + 2) - n = 2 /\ (n + 2) - 1 = n + 1
      /\ \A i \in 1..(n + 1) : i \in 1..n \/ i = n + 1
  BY <1>1
<1>6. g[n + 1] = CanceledErr /\ g[n + 2] = EndOfResults
  BY <1>3, <1>4, <1>5
<1>7. \A i \in 1..n : g[i] = f[i]
  BY <1>2, <1>4, <1>5
<1>8. \A i \in 1..n : g[i].status # "none"
  BY <1>1, <1>7 DEF Ended
<1>9. \A i \in 1..(n + 1) : g[i].status # "none"
  BY <1>5, <1>6, <1>8, ResultsTyped
<1>10. Ended(g) /\ Len(g) >= 2
  BY <1>1, <1>4, <1>5, <1>6, <1>9 DEF Ended
<1> QED
  BY <1>4, <1>10 DEF g, h, e

\* An attempt to cancel a query leaves it with an end.
LEMMA TryCancelEnds ==
  ASSUME CursorsTyped, Ended(flight), TryCancel
  PROVE  /\ flight' \in Seq(Results) /\ Ended(flight') /\ txn' \in Status
         /\ Len(flight) >= 2 => Len(flight') >= 2
<1>1. CASE UNCHANGED <<flight, txn>>
  BY <1>1 DEF CursorsTyped
<1>2. CASE /\ \E n \in 0..(Len(flight) - 1) :
                flight' = SubSeq(flight, 1, n) \o <<CanceledErr, EndOfResults>>
           /\ txn' = IF call.stage = "begin" THEN "IDLE" ELSE After(txn, TRUE)
  <2>1. PICK n \in 0..(Len(flight) - 1) :
          flight' = SubSeq(flight, 1, n) \o <<CanceledErr, EndOfResults>>
    BY <1>2
  <2>2. flight' \in Seq(Results) /\ Ended(flight') /\ Len(flight') >= 2
    BY <2>1, CancelEnds DEF CursorsTyped
  <2>3. txn' \in Status
    BY <1>2 DEF After, Status, CursorsTyped
  <2> QED
    BY <2>2, <2>3
<1> QED
  BY <1>1, <1>2 DEF TryCancel

-----------------------------------------------------------------------------
(* Client cursors                                                           *)

\* A cursor that was reset, or closed.
LEMMA ResetHolds ==
  /\ Reset \in ClientType /\ ClientHolds(Reset)
  /\ Reset.given = <<>> /\ Reset.pgresult.status = "none"
  /\ [Reset EXCEPT !.closed = TRUE] \in ClientType /\ ClientHolds([Reset EXCEPT !.closed = TRUE])
<1>1. <<>> \in Seq(Results) /\ <<>> \in Seq(Int) /\ Len(<<>>) = 0
  OBVIOUS
<1>2. Reset \in ClientType
  BY <1>1, ResultsTyped DEF Reset, ClientType
<1>3. Reset.results = <<>> /\ Reset.iresult = 0 /\ Reset.given = <<>> /\ Reset.pgresult.status = "none"
  BY ResultsTyped DEF Reset
<1>4. ClientHolds(Reset)
  BY <1>1, <1>3 DEF ClientHolds
<1>5. PICK r : r = [Reset EXCEPT !.closed = TRUE]
  OBVIOUS
<1>6. /\ r \in ClientType /\ r.results = <<>> /\ r.iresult = 0 /\ r.given = <<>>
      /\ r.pgresult.status = "none"
  BY <1>2, <1>3, <1>5 DEF ClientType
<1>7. ClientHolds(r)
  BY <1>1, <1>6 DEF ClientHolds
<1> QED
  BY <1>2, <1>3, <1>4, <1>5, <1>6, <1>7

\* A result is selected.
LEMMA SelectHolds ==
  ASSUME NEW cur \in ClientType, NEW i \in 1..Len(cur.results)
  PROVE  Select(cur, i) \in ClientType /\ ClientHolds(Select(cur, i))
<1>1. cur.results \in Seq(Results) /\ cur.results[i] \in Results /\ i \in Nat
  BY DEF ClientType
<1>2. PICK r \in Results : r = cur.results[i]
  BY <1>1
<1>3. PICK x : x = Select(cur, i)
  OBVIOUS
<1>4. x = [cur EXCEPT !.iresult = i, !.pgresult = r, !.pos = 0, !.rowcount = r.n, !.given = <<>>]
  BY <1>2, <1>3 DEF Select
<1>5. r.n \in Int /\ (r.status = "tuples" => r.n \in Nat) /\ <<>> \in Seq(Int) /\ Len(<<>>) = 0
  BY DEF Results
<1>6. /\ x \in ClientType /\ x.iresult = i /\ x.results = cur.results /\ x.pgresult = r
      /\ x.pos = 0 /\ x.rowcount = r.n /\ x.given = <<>>
  <2>1. x = [closed |-> cur.closed, results |-> cur.results, pgresult |-> r, iresult |-> i,
             pos |-> 0, rowcount |-> r.n, given |-> <<>>]
    BY <1>4 DEF ClientType
  <2>2. PICK rs \in Seq(Results), n \in Int \cup {Total(ns) : ns \in ManyRows} : rs = cur.results /\ n = r.n
    BY <1>1, <1>5
  <2>3. <<>> \in Seq(Int) /\ i \in Nat /\ 0 \in Int
    BY <1>1
  <2>4. x = [closed |-> cur.closed, results |-> rs, pgresult |-> r, iresult |-> i,
             pos |-> 0, rowcount |-> n, given |-> <<>>]
    BY <2>1, <2>2
  <2> HIDE <2>1
  <2>5. /\ x \in ClientType /\ x.iresult = i /\ x.results = rs /\ x.pgresult = r
        /\ x.pos = 0 /\ x.rowcount = n /\ x.given = <<>>
    <3>1. cur.closed \in BOOLEAN
      BY DEF ClientType
    <3>2. x \in ClientType
      BY <2>3, <2>4, <3>1 DEF ClientType
    <3> QED
      BY <2>4, <3>2
  <2> QED
    BY <2>2, <2>5
<1>7. ClientHolds(x)
  <2>1. x.iresult \in 0..Len(x.results)
    BY <1>1, <1>6
  <2>2. x.pgresult.status = "tuples" => x.rowcount = x.pgresult.n /\ x.pos \in 0..x.rowcount
    BY <1>5, <1>6
  <2> QED
    BY <1>5, <1>6, <2>1, <2>2 DEF ClientHolds
<1> QED
  BY <1>3, <1>6, <1>7

\* The results of an execute() are set.
LEMMA SetResultsHolds ==
  ASSUME NEW cur \in ClientType, NEW rs \in Seq(Results), Len(rs) >= 1
  PROVE  SetResults(cur, rs) \in ClientType /\ ClientHolds(SetResults(cur, rs))
<1>1. PICK x : x = [cur EXCEPT !.results = rs]
  OBVIOUS
<1>2. x \in ClientType /\ x.results = rs
  BY <1>1 DEF ClientType
<1>3. 1 \in 1..Len(x.results)
  BY <1>2
<1> QED
  BY <1>1, <1>2, <1>3, SelectHolds DEF SetResults

\* Rows are given from the position on.
LEMMA LoadRowsHolds ==
  ASSUME CursorsTyped, NEW c \in ClientCursors, ClientHolds(cursor[c]),
         cursor[c].pgresult.status = "tuples", NEW n \in Nat, n >= 1
  PROVE  LoadRows(c, n) \in ClientType /\ ClientHolds(LoadRows(c, n))
<1>1. PICK cur \in ClientType : cur = cursor[c]
  BY DEF CursorsTyped
<1>2. PICK p \in Nat, r \in Nat : p = cur.pos /\ r = cur.pgresult.n /\ p <= r /\ cur.rowcount = r
  BY <1>1 DEF ClientHolds, ClientType, Results
<1>3. PICK last \in Nat : /\ last = IF p + n < r THEN p + n ELSE r
                          /\ p <= last /\ last <= r
  BY <1>2
<1>4. PICK k \in Nat : k = last - p
  BY <1>3
<1>4a. [i \in 1..k |-> p + i] \in Seq(Int) /\ Len([i \in 1..k |-> p + i]) = k
  <2>1. \A i \in 1..k : p + i \in Int
    OBVIOUS
  <2> QED
    BY <2>1, IsASeq
<1>4b. PICK more : more = [i \in 1..k |-> p + i]
  OBVIOUS
<1>5. more \in Seq(Int) /\ Len(more) = k /\ \A i \in 1..k : more[i] = p + i
  BY <1>4a, <1>4b
<1>6. PICK g \in Seq(Int), m \in Nat : g = cur.given /\ m = Len(g)
  BY DEF ClientType
<1>7. PICK x : x = LoadRows(c, n)
  OBVIOUS
<1>8. x = [cur EXCEPT !.pos = last, !.given = g \o more]
  <2>1. LoadRows(c, n) = [cur EXCEPT !.pos = IF p + n < r THEN p + n ELSE r,
          !.given = @ \o [i \in 1..((IF p + n < r THEN p + n ELSE r) - p) |-> p + i]]
    BY <1>1, <1>2 DEF LoadRows
  <2>2. LoadRows(c, n) = [cur EXCEPT !.pos = last, !.given = @ \o [i \in 1..k |-> p + i]]
    BY <1>3, <1>4, <2>1
  <2> QED
    BY <1>4b, <1>6, <1>7, <2>2
<1>8a. g \o more \in Seq(Int)
  BY <1>5, <1>6, ConcatProperties
<1>9. PICK h \in Seq(Int) : h = g \o more
  BY <1>8a
<1>10. Len(h) = m + k /\ (\A i \in 1..m : h[i] = g[i]) /\ \A i \in (m + 1)..(m + k) : h[i] = more[i - m]
  <2>1. g \in Seq(Int) /\ more \in Seq(Int)
    BY <1>5
  <2>2. /\ Len(g \o more) = Len(g) + Len(more) /\ (\A i \in 1..Len(g) : (g \o more)[i] = g[i])
        /\ \A i \in (Len(g) + 1)..(Len(g) + Len(more)) : (g \o more)[i] = more[i - Len(g)]
    BY <2>1, ConcatAt
  <2> QED
    BY <1>5, <1>6, <1>9, <2>2
<1>11. /\ x \in ClientType /\ x.pos = last /\ x.given = h /\ x.results = cur.results
       /\ x.iresult = cur.iresult /\ x.pgresult = cur.pgresult /\ x.rowcount = cur.rowcount
  <2>1. x = [closed |-> cur.closed, results |-> cur.results, pgresult |-> cur.pgresult,
             iresult |-> cur.iresult, pos |-> last, rowcount |-> cur.rowcount, given |-> h]
    BY <1>8, <1>9 DEF ClientType
  <2>2. /\ cur.results \in Seq(Results) /\ cur.pgresult \in Results /\ cur.iresult \in Nat
        /\ cur.rowcount \in Int \cup {Total(ns) : ns \in ManyRows} /\ last \in Int
    BY DEF ClientType
  <2>3. cur.closed \in BOOLEAN
    BY DEF ClientType
  <2>4. x \in ClientType
    BY <2>1, <2>2, <2>3 DEF ClientType
  <2> QED
    BY <2>1, <2>4
<1>12. \A i \in (m + 1)..(m + k) : h[i] = p + (i - m)
  <2> TAKE i \in (m + 1)..(m + k)
  <2>1. i - m \in 1..k
    OBVIOUS
  <2> QED
    BY <1>5, <1>10, <2>1
<1>13. (\A i \in 1..(m - 1) : g[i + 1] = g[i] + 1) /\ (m >= 1 => g[m] = p)
  BY <1>1, <1>2, <1>6 DEF ClientHolds
<1>14. \A i \in 1..((m + k) - 1) : h[i + 1] = h[i] + 1
  <2> TAKE i \in 1..((m + k) - 1)
  <2>0. i \in 1..(m - 1) \/ (i = m /\ m >= 1) \/ i \in (m + 1)..((m + k) - 1)
    OBVIOUS
  <2>1. CASE i \in 1..(m - 1)
    <3>1. i \in 1..m /\ i + 1 \in 1..m
      BY <2>1
    <3> QED
      BY <1>10, <1>13, <2>1, <3>1
  <2>2. CASE i = m /\ m >= 1
    <3>1. i \in 1..m /\ i + 1 \in (m + 1)..(m + k) /\ (i + 1) - m = 1
      BY <2>2
    <3>2. h[i] = p /\ h[i + 1] = p + ((i + 1) - m)
      BY <1>10, <1>12, <1>13, <2>2, <3>1
    <3> QED
      BY <3>1, <3>2
  <2>3. CASE i \in (m + 1)..((m + k) - 1)
    <3>1. i \in (m + 1)..(m + k) /\ i + 1 \in (m + 1)..(m + k) /\ p + ((i + 1) - m) = (p + (i - m)) + 1
      BY <2>3
    <3>2. h[i] = p + (i - m) /\ h[i + 1] = p + ((i + 1) - m)
      BY <1>12, <3>1
    <3> QED
      BY <3>1, <3>2
  <2> QED
    BY <2>0, <2>1, <2>2, <2>3
<1>15. h # <<>> => h[Len(h)] = last
  <2> SUFFICES ASSUME m + k >= 1 PROVE h[m + k] = last
    BY <1>9, <1>10
  <2>1. CASE k >= 1
    <3>1. m + k \in (m + 1)..(m + k) /\ (m + k) - m = k
      BY <2>1
    <3>2. h[m + k] = p + ((m + k) - m)
      BY <1>12, <3>1
    <3> QED
      BY <1>4, <3>1, <3>2
  <2>2. CASE k = 0
    <3>1. m \in 1..m /\ m + k = m /\ m >= 1 /\ last = p
      BY <1>4, <2>2
    <3> QED
      BY <1>10, <1>13, <3>1
  <2> QED
    BY <2>1, <2>2
<1>16. ClientHolds(x)
  <2>1. x.iresult \in 0..Len(x.results)
    BY <1>1, <1>11 DEF ClientHolds
  <2>2. x.pos \in 0..x.rowcount /\ x.rowcount = x.pgresult.n
    BY <1>2, <1>3, <1>11
  <2> QED
    BY <1>10, <1>11, <1>14, <1>15, <2>1, <2>2 DEF ClientHolds
<1> QED
  BY <1>7, <1>11, <1>16

\* A client cursor that changes when nothing is in flight.
LEMMA ClientChanges ==
  ASSUME CursorsTyped, ClientPart, Free, NEW c \in ClientCursors, NEW x \in ClientType,
         ClientHolds(x), cursor' = [cursor EXCEPT ![c] = x], UNCHANGED <<call, flight>>
  PROVE  cursor' \in [ClientCursors -> ClientType] /\ ClientPart'
<1>1. cursor' \in [ClientCursors -> ClientType] /\ cursor'[c] = x
      /\ \A d \in ClientCursors : d # c => cursor'[d] = cursor[d]
  BY DEF CursorsTyped
<1>2. ClientsHold'
  BY <1>1 DEF ClientPart, ClientsHold
<1>3. FlightHolds' /\ StreamHolds'
  BY DEF ClientPart, FlightHolds, StreamHolds, Free
<1> QED
  BY <1>1, <1>2, <1>3 DEF ClientPart

\* The calls that need nothing of the server.
LEMMA FetchHolds ==
  ASSUME CursorsTyped, ClientPart, NEW c \in ClientCursors, fetch(c) \/ scroll(c) \/ nextset(c) \/ close(c)
  PROVE  cursor' \in [ClientCursors -> ClientType] /\ ClientPart'
<1>0. /\ Free /\ UNCHANGED <<call, flight>>
      /\ cursor[c] \in ClientType /\ ClientHolds(cursor[c]) /\ cursor \in [ClientCursors -> ClientType]
  BY DEF fetch, scroll, nextset, close, Fetchable, CursorsTyped, ClientPart, ClientsHold
<1>1. CASE fetch(c)
  <2>1. PICK n \in 1..(MaxRows + 1) : cursor' = [cursor EXCEPT ![c] = LoadRows(c, n)]
    BY <1>1 DEF fetch
  <2>2. n \in Nat /\ n >= 1 /\ cursor[c].pgresult.status = "tuples"
    BY <1>1 DEF fetch, Fetchable
  <2>3. LoadRows(c, n) \in ClientType /\ ClientHolds(LoadRows(c, n))
    BY <1>0, <2>2, LoadRowsHolds
  <2> QED
    BY <1>0, <2>1, <2>3, ClientChanges
<1>2. CASE scroll(c)
  <2>1. PICK p \in 0..MaxRows : /\ p < cursor[c].pgresult.n
                                /\ cursor' = [cursor EXCEPT ![c].pos = p, ![c].given = <<>>]
    BY <1>2 DEF scroll
  <2>2. PICK x : x = [cursor[c] EXCEPT !.pos = p, !.given = <<>>]
    OBVIOUS
  <2>3. cursor' = [cursor EXCEPT ![c] = x]
    BY <1>0, <2>1, <2>2 DEF ClientType
  <2>4. <<>> \in Seq(Int) /\ Len(<<>>) = 0 /\ p \in Int /\ p >= 0
    OBVIOUS
  <2>5. /\ x \in ClientType /\ x.pos = p /\ x.given = <<>> /\ x.results = cursor[c].results
        /\ x.iresult = cursor[c].iresult /\ x.pgresult = cursor[c].pgresult
        /\ x.rowcount = cursor[c].rowcount
    BY <1>0, <2>2, <2>4 DEF ClientType
  <2>6. ClientHolds(x)
    <3>1. x.pgresult.status = "tuples" => x.rowcount = x.pgresult.n /\ x.pos \in 0..x.rowcount
      BY <1>0, <2>1, <2>4, <2>5 DEF ClientHolds, ClientType, Results
    <3> QED
      BY <1>0, <2>4, <2>5, <3>1 DEF ClientHolds
  <2> QED
    BY <1>0, <2>3, <2>5, <2>6, ClientChanges
<1>3. CASE nextset(c)
  <2>1. cursor' = [cursor EXCEPT ![c] = Select(cursor[c], cursor[c].iresult + 1)]
    BY <1>0, <1>3 DEF nextset
  <2>2. cursor[c].iresult + 1 \in 1..Len(cursor[c].results)
    BY <1>0, <1>3 DEF nextset, ClientType
  <2> QED
    BY <1>0, <2>1, <2>2, SelectHolds, ClientChanges
<1>4. CASE close(c)
  BY <1>0, <1>4, ResetHolds, ClientChanges DEF close
<1> QED
  BY <1>1, <1>2, <1>3, <1>4

\* What the calls of the client cursors change, and what is known of it.
ClientTypes == /\ txn \in Status /\ call \in CallType /\ flight \in Seq(Results)
               /\ cursor \in [ClientCursors -> ClientType]
OpenHolds == txn # "IDLE" /\ ~Beginning => (txn # "IDLE" /\ ~Beginning)'

\* No statement that fails ends a transaction.
LEMMA AfterTyped ==
  ASSUME CursorsTyped, NEW s \in Status, NEW failed
  PROVE  After(s, failed) \in Status /\ (s # "IDLE" => After(s, failed) # "IDLE")
  BY DEF After, Status

\* A call begins a transaction only when there is none.
LEMMA BegunTyped ==
  ASSUME CursorsTyped
  PROVE  Begun \in Status /\ (txn # "IDLE" => Begun = txn)
  BY DEF Begun, Status, CursorsTyped

\* A call begins, or is atomic, and leaves the cursor at x.
LEMMA CallBegins ==
  ASSUME CursorsTyped, ClientPart, Free, NEW c \in ClientCursors, NEW x \in ClientType,
         ClientHolds(x), cursor' = [cursor EXCEPT ![c] = x]
  PROVE  cursor' \in [ClientCursors -> ClientType] /\ ClientsHold' /\ cursor'[c] = x
<1>1. cursor' \in [ClientCursors -> ClientType] /\ cursor'[c] = x
      /\ \A d \in ClientCursors : d # c => cursor'[d] = cursor[d]
  BY DEF CursorsTyped
<1>2. ClientsHold'
  BY <1>1 DEF ClientPart, ClientsHold
<1> QED
  BY <1>1, <1>2

\* execute() sends BEGIN, or the query.
LEMMA ExecuteHolds ==
  ASSUME CursorsTyped, ClientPart, NEW c \in ClientCursors, execute(c)
  PROVE  ClientTypes' /\ ClientPart' /\ OpenHolds
<1>1. Free /\ cursor' = [cursor EXCEPT ![c] = Reset]
  BY DEF execute
<1>2. cursor' \in [ClientCursors -> ClientType] /\ ClientsHold'
  BY <1>1, ResetHolds, CallBegins
<1>3. CASE Begun # txn
  <2>1. txn' = Begun /\ flight' = <<Command(0), EndOfResults>> /\ call' = Called("execute", c, "begin")
    BY <1>3 DEF execute
  <2>2. call' \in CallType /\ call'.kind = "execute" /\ call'.cur = c
    BY <2>1, CalledTyped DEF Kinds, Stages
  <2>3. /\ flight' \in Seq(Results) /\ Len(flight') = 2 /\ flight'[1] = Command(0)
        /\ flight'[2] = EndOfResults
    BY <2>1, ResultsTyped
  <2>4. Ended(flight')
    BY <2>3, ResultsTyped DEF Ended
  <2>5. FlightHolds' /\ StreamHolds'
    BY <2>2, <2>3, <2>4 DEF FlightHolds, StreamHolds
  <2>6. txn = "IDLE" /\ txn' \in Status
    BY <1>3, <2>1, BegunTyped
  <2> QED
    BY <1>2, <2>2, <2>3, <2>5, <2>6 DEF ClientTypes, ClientPart, OpenHolds
<1>4. CASE Begun = txn
  <2>1. PICK rs \in Answers :
          /\ flight' = Append(rs, EndOfResults) /\ txn' = After(txn, Failing(rs))
          /\ call' = Called("execute", c, "query")
    BY <1>4 DEF execute
  <2>2. call' \in CallType /\ call'.kind = "execute" /\ call'.cur = c /\ call'.stage = "query"
    BY <2>1, CalledTyped DEF Kinds, Stages
  <2>3. flight' \in Seq(Results) /\ Len(flight') >= 2 /\ Ended(flight')
    BY <2>1, AnswersAre, AnswerEnds
  <2>4. FlightHolds' /\ StreamHolds'
    BY <2>2, <2>3 DEF FlightHolds, StreamHolds
  <2>5. txn' \in Status /\ (txn # "IDLE" => txn' # "IDLE")
    BY <2>1, AfterTyped DEF CursorsTyped
  <2> QED
    BY <1>2, <2>2, <2>3, <2>4, <2>5 DEF ClientTypes, ClientPart, OpenHolds, Beginning
<1> QED
  BY <1>3, <1>4

\* executemany() keeps its results, or only their total.
LEMMA ExecutemanyHolds ==
  ASSUME CursorsTyped, ClientPart, NEW c \in ClientCursors, executemany(c)
  PROVE  ClientTypes' /\ ClientPart' /\ OpenHolds
<1>1. Free /\ UNCHANGED <<call, flight>>
  BY DEF executemany
<1> DEFINE Rs(ns, returning) ==
             [i \in 1..Len(ns) |-> IF returning THEN Tuples(ns[i]) ELSE Command(ns[i])]
           X(ns, returning) ==
             IF ~returning THEN [Reset EXCEPT !.rowcount = Total(ns)]
             ELSE IF Rs(ns, returning) = <<>> THEN Reset ELSE SetResults(Reset, Rs(ns, returning))
<1>1a. PICK ns \in ManyRows, returning \in BOOLEAN, failing \in BOOLEAN :
         /\ cursor' = [cursor EXCEPT ![c] = X(ns, returning)]
         /\ txn' = After(Begun, failing)
  BY DEF executemany
<1>1b. PICK rs : rs = Rs(ns, returning)
  OBVIOUS
<1>1c. PICK x : x = X(ns, returning)
  OBVIOUS
<1>2. /\ rs = [i \in 1..Len(ns) |-> IF returning THEN Tuples(ns[i]) ELSE Command(ns[i])]
      /\ x = IF ~returning THEN [Reset EXCEPT !.rowcount = Total(ns)]
             ELSE IF rs = <<>> THEN Reset ELSE SetResults(Reset, rs)
      /\ cursor' = [cursor EXCEPT ![c] = x]
      /\ txn' = After(Begun, failing)
  BY <1>1a, <1>1b, <1>1c
<1> HIDE DEF Rs, X
<1>3. x \in ClientType /\ ClientHolds(x)
  <2>1. CASE ~returning
    <3>1. x = [Reset EXCEPT !.rowcount = Total(ns)]
      BY <1>2, <2>1
    <3>2. Total(ns) \in {Total(m) : m \in ManyRows}
      OBVIOUS
    <3>3. x = [closed |-> FALSE, results |-> <<>>, pgresult |-> NoResult, iresult |-> 0, pos |-> 0,
               rowcount |-> Total(ns), given |-> <<>>]
      BY <3>1 DEF Reset
    <3>4. <<>> \in Seq(Results) /\ <<>> \in Seq(Int) /\ Len(<<>>) = 0
      OBVIOUS
    <3>5. x \in ClientType
      BY <3>2, <3>3, <3>4, ResultsTyped DEF ClientType
    <3>6. ClientHolds(x)
      BY <3>3, <3>4, ResultsTyped DEF ClientHolds
    <3> QED
      BY <3>5, <3>6
  <2>2. CASE returning /\ rs = <<>>
    BY <1>2, <2>2, ResetHolds
  <2>3. CASE returning /\ rs # <<>>
    <3>1. ns \in Seq(Nat) /\ \A i \in 1..Len(ns) : Tuples(ns[i]) \in Results
      <4>1. PICK m \in 0..2 : ns \in [1..m -> 0..1]
        BY DEF ManyRows
      <4>2. \A i \in 1..m : ns[i] \in Nat
        BY <4>1
      <4>3. ns = [i \in 1..m |-> ns[i]] /\ m \in Nat
        BY <4>1
      <4>4. ns \in Seq(Nat)
        BY <4>2, <4>3, IsASeq
      <4> QED
        BY <4>4, ResultsTyped
    <3>2. PICK k \in Nat : k = Len(ns)
      BY <3>1
    <3>3. rs = [i \in 1..k |-> Tuples(ns[i])]
      BY <1>2, <2>3, <3>2
    <3>4. rs \in Seq(Results)
      BY <3>1, <3>2, <3>3, IsASeq
    <3>5. Len(rs) >= 1
      BY <2>3, <3>4
    <3>6. x = SetResults(Reset, rs)
      BY <1>2, <2>3
    <3> QED
      BY <3>4, <3>5, <3>6, ResetHolds, SetResultsHolds
  <2> QED
    BY <2>1, <2>2, <2>3
<1>4. cursor' \in [ClientCursors -> ClientType] /\ ClientPart'
  BY <1>1, <1>2, <1>3, ClientChanges
<1>5. txn' \in Status /\ (txn # "IDLE" => txn' # "IDLE")
  <2>1. PICK b \in Status : b = Begun /\ (txn # "IDLE" => b # "IDLE")
    BY BegunTyped
  <2> QED
    BY <1>2, <2>1, AfterTyped
<1> QED
  BY <1>1, <1>4, <1>5 DEF ClientTypes, CursorsTyped, OpenHolds, Beginning

\* stream() has its rows before it, numbered from 1.
LEMMA StreamBegins ==
  ASSUME CursorsTyped, ClientPart, NEW c \in ClientCursors, stream(c)
  PROVE  ClientTypes' /\ ClientPart' /\ OpenHolds
<1>1. Free /\ cursor' = [cursor EXCEPT ![c] = Reset] /\ call' = Called("stream", c, "send")
  BY DEF stream
<1>2. cursor' \in [ClientCursors -> ClientType] /\ ClientsHold' /\ cursor'[c] = Reset
  BY <1>1, ResetHolds, CallBegins
<1>3. call' \in CallType /\ call'.kind = "stream" /\ call'.cur = c /\ call'.stage = "send"
  BY <1>1, CalledTyped DEF Kinds, Stages
<1>4. PICK n \in 0..MaxRows, last \in {Tuples(0), Command(0), Fatal} :
        /\ flight' = [i \in 1..n |-> Single(i)] \o <<last, EndOfResults>>
        /\ txn' = After(Begun, last = Fatal)
  BY DEF stream
<1>5. PICK p : p = [i \in 1..n |-> Single(i)]
  OBVIOUS
<1>6. p \in Seq(Results) /\ Len(p) = n /\ \A i \in 1..n : p[i] = Single(i)
  <2>1. n \in Nat /\ \A i \in 1..n : Single(i) \in Results
    BY ResultsTyped, CursorsAssumption
  <2> QED
    BY <1>5, <2>1, IsASeq
<1>7. PICK e : e = <<last, EndOfResults>>
  OBVIOUS
<1>8. e \in Seq(Results) /\ Len(e) = 2 /\ e[1] = last /\ e[2] = EndOfResults
  BY <1>7, ResultsTyped
<1>9. PICK g : g = p \o e
  OBVIOUS
<1>10. /\ g \in Seq(Results) /\ Len(g) = n + 2
       /\ \A i \in 1..n : g[i] = p[i]
       /\ \A i \in (n + 1)..(n + 2) : g[i] = e[i - n]
  <2>1. /\ g \in Seq(Results) /\ Len(g) = Len(p) + Len(e)
        /\ \A i \in 1..Len(p) : g[i] = p[i]
        /\ \A i \in (Len(p) + 1)..(Len(p) + Len(e)) : g[i] = e[i - Len(p)]
    BY <1>6, <1>8, <1>9, ConcatAt
  <2> QED
    BY <1>6, <1>8, <2>1
<1>11. /\ n \in Nat /\ n + 1 \in (n + 1)..(n + 2) /\ (n + 1) - n = 1
       /\ n + 2 \in (n + 1)..(n + 2) /\ (n + 2) - n = 2 /\ (n + 2) - 1 = n + 1
       /\ \A i \in 1..(n + 1) : i \in 1..n \/ i = n + 1
       /\ \A i \in 1..(n + 2) : i \in 1..n \/ i = n + 1 \/ i = n + 2
  BY CursorsAssumption
<1>12. g[n + 1] = last /\ g[n + 2] = EndOfResults
  BY <1>8, <1>10, <1>11
<1>13. last.status \notin {"none", "single"}
  BY ResultsTyped
<1>14. \A i \in 1..n : g[i].status = "single" /\ g[i].n = i
  <2> TAKE i \in 1..n
  <2>1. i \in Int /\ g[i] = Single(i)
    BY <1>6, <1>10
  <2> QED
    BY <2>1, ResultsTyped
<1>15. Ended(g)
  <2>1. \A i \in 1..(n + 1) : g[i].status # "none"
    BY <1>11, <1>12, <1>13, <1>14
  <2> QED
    BY <1>10, <1>11, <1>12, <2>1 DEF Ended
<1>16. \A i \in 1..(n + 2) : g[i].status = "single" => g[i].n = i
  BY <1>11, <1>12, <1>13, <1>14, ResultsTyped
<1>17. flight' = g
  BY <1>4, <1>5, <1>7, <1>9
<1>18. FlightHolds'
  BY <1>3, <1>15, <1>17 DEF FlightHolds
<1>19. StreamHolds'
  <2>1. /\ cursor'[call'.cur].given = <<>> /\ Len(<<>>) = 0
        /\ cursor'[call'.cur].pgresult.status # "tuples"
    BY <1>2, <1>3, ResetHolds
  <2>2. \A i \in 1..Len(flight') : flight'[i].status = "single" => flight'[i].n = 0 + i
    BY <1>10, <1>16, <1>17
  <2> QED
    BY <2>1, <2>2 DEF StreamHolds
<1>20. txn' \in Status /\ (txn # "IDLE" => txn' # "IDLE")
  <2>1. PICK b \in Status : b = Begun /\ (txn # "IDLE" => b # "IDLE")
    BY BegunTyped
  <2> QED
    BY <1>4, <2>1, AfterTyped
<1> QED
  BY <1>2, <1>3, <1>10, <1>17, <1>18, <1>19, <1>20 DEF ClientTypes, ClientPart, OpenHolds, Beginning

\* The answers of an execute() are there.
LEMMA FetchedHolds ==
  ASSUME CursorsTyped, ClientPart, fetched
  PROVE  ClientTypes' /\ ClientPart' /\ OpenHolds
<1>1. /\ call.kind = "execute" /\ call.cur \in ClientCursors /\ Ended(flight) /\ Len(flight) >= 2
      /\ flight \in Seq(Results)
  BY DEF fetched, ClientPart, FlightHolds, CursorsTyped
<1>2. PICK c \in ClientCursors : c = call.cur
  BY <1>1
<1>3. PICK rs \in Seq(Results) : rs = Front(flight) /\ Len(rs) >= 1
  <2>1. PICK k \in Nat : k = Len(flight) /\ k >= 2
    BY <1>1
  <2>2. k - 1 \in Nat /\ k - 1 <= k /\ k - 1 >= 1
    BY <2>1
  <2>3. SubSeq(flight, 1, k - 1) \in Seq(Results) /\ Len(SubSeq(flight, 1, k - 1)) = k - 1
    BY <1>1, <2>1, <2>2
  <2> QED
    BY <2>1, <2>2, <2>3 DEF Front
<1>4. /\ txn \in Status /\ call \in CallType /\ cursor \in [ClientCursors -> ClientType]
      /\ ClientsHold
  BY DEF CursorsTyped, ClientPart
<1>5. CASE Failing(rs)
  <2>1. call' = Released /\ flight' = <<>> /\ txn' = txn /\ cursor' = cursor
    BY <1>3, <1>5 DEF fetched
  <2>2. call' \in CallType /\ call'.kind = "free" /\ flight' \in Seq(Results)
    BY <2>1, ReleasedTyped
  <2>3. FlightHolds' /\ StreamHolds'
    BY <2>1, <2>2 DEF FlightHolds, StreamHolds
  <2>4. ClientsHold'
    BY <1>4, <2>1 DEF ClientsHold
  <2> QED
    BY <1>4, <2>1, <2>2, <2>3, <2>4 DEF ClientTypes, ClientPart, OpenHolds, Beginning
<1>6. CASE ~Failing(rs) /\ call.stage = "begin"
  <2>1. PICK answer \in Answers :
          /\ flight' = Append(answer, EndOfResults) /\ txn' = After(txn, Failing(answer))
          /\ call' = [call EXCEPT !.stage = "query"] /\ cursor' = cursor
    BY <1>3, <1>6 DEF fetched
  <2>2. call' \in CallType /\ call'.kind = "execute" /\ call'.cur = c /\ call'.stage = "query"
    BY <1>1, <1>2, <1>4, <2>1 DEF CallType, Stages
  <2>3. flight' \in Seq(Results) /\ Len(flight') >= 2 /\ Ended(flight')
    BY <2>1, AnswersAre, AnswerEnds
  <2>4. FlightHolds' /\ StreamHolds'
    BY <2>2, <2>3 DEF FlightHolds, StreamHolds
  <2>5. txn' \in Status /\ (txn # "IDLE" => txn' # "IDLE")
    BY <1>4, <2>1, AfterTyped
  <2>6. ClientsHold'
    BY <1>4, <2>1 DEF ClientsHold
  <2> QED
    BY <1>4, <2>1, <2>2, <2>3, <2>4, <2>5, <2>6 DEF ClientTypes, ClientPart, OpenHolds, Beginning
<1>7. CASE ~Failing(rs) /\ call.stage # "begin"
  <2>1. /\ call' = Released /\ flight' = <<>> /\ txn' = txn
        /\ cursor' = [cursor EXCEPT ![c] = SetResults(cursor[c], rs)]
    BY <1>2, <1>3, <1>4, <1>7 DEF fetched
  <2>2. call' \in CallType /\ call'.kind = "free" /\ flight' \in Seq(Results)
    BY <2>1, ReleasedTyped
  <2>3. PICK x \in ClientType : x = SetResults(cursor[c], rs) /\ ClientHolds(x)
    BY <1>3, <1>4, SetResultsHolds
  <2>4. /\ cursor' \in [ClientCursors -> ClientType] /\ cursor'[c] = x
        /\ \A d \in ClientCursors : d # c => cursor'[d] = cursor[d]
    BY <1>4, <2>1, <2>3
  <2>5. ClientsHold'
    BY <1>4, <2>3, <2>4 DEF ClientsHold
  <2>6. FlightHolds' /\ StreamHolds'
    BY <2>1, <2>2 DEF FlightHolds, StreamHolds
  <2> QED
    BY <1>4, <2>1, <2>2, <2>4, <2>5, <2>6 DEF ClientTypes, ClientPart, OpenHolds, Beginning
<1> QED
  BY <1>5, <1>6, <1>7

\* A wait that is interrupted.
LEMMA InterruptHolds ==
  ASSUME CursorsTyped, ClientPart, interrupt
  PROVE  ClientTypes' /\ ClientPart' /\ OpenHolds
<1>1. /\ call.kind = "execute" /\ call.cur \in ClientCursors /\ Ended(flight) /\ Len(flight) >= 2
      /\ TryCancel /\ cursor' = cursor /\ call' = [call EXCEPT !.interrupted = TRUE]
      /\ call \in CallType /\ cursor \in [ClientCursors -> ClientType] /\ ClientsHold /\ txn \in Status
  BY DEF interrupt, ClientPart, FlightHolds, CursorsTyped
<1>2. flight' \in Seq(Results) /\ Ended(flight') /\ txn' \in Status /\ Len(flight') >= 2
  BY <1>1, TryCancelEnds
<1>3. /\ call' \in CallType /\ call'.kind = "execute" /\ call'.cur = call.cur
      /\ call'.stage = call.stage
  BY <1>1 DEF CallType
<1>4. FlightHolds' /\ StreamHolds'
  BY <1>1, <1>2, <1>3 DEF FlightHolds, StreamHolds
<1>5. ClientsHold'
  BY <1>1 DEF ClientsHold
<1>6. OpenHolds
  BY <1>1, <1>3 DEF OpenHolds, Beginning, TryCancel, After
<1> QED
  BY <1>1, <1>2, <1>3, <1>4, <1>5, <1>6 DEF ClientTypes, ClientPart

\* Whatever the loop at the end of stream() finds, nothing is left.
LEMMA DrainedHolds == \A f : StreamDrained(f) = <<>>
<1>1. <<EndOfResults>> # <<>> /\ Tail(<<EndOfResults>>) = <<>>
  OBVIOUS
<1> QED
  BY <1>1 DEF StreamDrained, DrainLoop

\* The user is given a row of a stream, or its end.
LEMMA StreamNextHolds ==
  ASSUME CursorsTyped, ClientPart, stream_next
  PROVE  ClientTypes' /\ ClientPart' /\ OpenHolds
<1>1. /\ call.kind = "stream" /\ call.stage # "leave" /\ call.cur \in ClientCursors /\ Ended(flight)
      /\ flight \in Seq(Results) /\ call \in CallType /\ txn \in Status /\ txn' = txn
      /\ cursor \in [ClientCursors -> ClientType] /\ ClientsHold
  BY DEF stream_next, ClientPart, FlightHolds, CursorsTyped
<1>2. PICK c \in ClientCursors : c = call.cur
  BY <1>1
<1>3. PICK k \in Nat : k = Len(flight) /\ k >= 1
  BY <1>1 DEF Ended
<1>4. PICK r \in Results : r = flight[1]
  BY <1>1, <1>3
<1>5. CASE r.status = "single"
  <2>1. /\ flight' = Tail(flight) /\ call' = [call EXCEPT !.stage = "row"]
        /\ cursor' = [cursor EXCEPT ![c].pgresult = r, ![c].given = Append(@, r.n)]
    BY <1>2, <1>4, <1>5 DEF stream_next
  <2>2. k >= 2
    <3>1. k # 1
      BY <1>1, <1>3, <1>4, <1>5, ResultsTyped DEF Ended
    <3> QED
      BY <1>3, <3>1
  <2>3. PICK f \in Seq(Results) : /\ f = Tail(flight) /\ Len(f) = k - 1
                                  /\ \A i \in 1..(k - 1) : f[i] = flight[i + 1]
    <3>1. flight # <<>>
      BY <1>1, <1>3, <2>2
    <3>2. /\ Tail(flight) \in Seq(Results) /\ Len(Tail(flight)) = k - 1
          /\ \A i \in 1..(k - 1) : Tail(flight)[i] = flight[i + 1]
      BY <1>1, <1>3, <3>1
    <3> QED
      BY <3>2
  <2>4. Ended(f)
    <3>1. k - 1 \in 1..(k - 1) /\ (k - 1) + 1 = k /\ k - 1 >= 1
      BY <1>3, <2>2
    <3>2. f[k - 1] = EndOfResults
      BY <1>1, <1>3, <2>3, <3>1 DEF Ended
    <3>3. \A i \in 1..((k - 1) - 1) : i \in 1..(k - 1) /\ i + 1 \in 1..(k - 1)
      BY <1>3
    <3>4. \A i \in 1..((k - 1) - 1) : f[i].status # "none"
      BY <1>1, <1>3, <2>3, <3>3 DEF Ended
    <3> QED
      BY <2>3, <3>1, <3>2, <3>4 DEF Ended
  <2>5. PICK cur \in ClientType : cur = cursor[c] /\ ClientHolds(cur)
    BY <1>1 DEF ClientsHold
  <2>6. PICK g \in Seq(Int), m \in Nat : g = cur.given /\ m = Len(g)
    BY DEF ClientType
  <2>7. /\ \A i \in 1..m : g[i] = i
        /\ \A i \in 1..k : flight[i].status = "single" => flight[i].n = m + i
    BY <1>1, <1>2, <1>3, <2>5, <2>6 DEF ClientPart, StreamHolds
  <2>8. r.n = m + 1 /\ r.n \in Int
    <3>1. 1 \in 1..k
      BY <1>3
    <3> QED
      BY <1>4, <1>5, <2>7, <3>1
  <2>9. PICK h \in Seq(Int) : /\ h = Append(g, m + 1) /\ Len(h) = m + 1
                              /\ \A i \in 1..(m + 1) : h[i] = i
    <3>1. /\ Append(g, m + 1) \in Seq(Int) /\ Len(Append(g, m + 1)) = m + 1
          /\ Append(g, m + 1)[m + 1] = m + 1 /\ \A i \in 1..m : Append(g, m + 1)[i] = g[i]
      BY <2>6
    <3>2. \A i \in 1..(m + 1) : i \in 1..m \/ i = m + 1
      OBVIOUS
    <3> QED
      BY <2>7, <3>1, <3>2
  <2>10. PICK x : x = [closed |-> cur.closed, results |-> cur.results, pgresult |-> r,
                       iresult |-> cur.iresult, pos |-> cur.pos, rowcount |-> cur.rowcount,
                       given |-> h]
    OBVIOUS
  <2>11. cursor' = [cursor EXCEPT ![c] = x]
    <3>1. cursor' = [cursor EXCEPT ![c] = [cur EXCEPT !.pgresult = r, !.given = Append(g, m + 1)]]
      <4>1. PICK y : y = [cursor[c] EXCEPT !.pgresult = r, !.given = Append(cursor[c].given, r.n)]
        OBVIOUS
      <4>2. cursor[c] \in ClientType
        BY <1>1
      <4>3. cursor' = [cursor EXCEPT ![c] = y]
        BY <1>1, <2>1, <4>1, <4>2 DEF ClientType
      <4>4. y = [cur EXCEPT !.pgresult = r, !.given = Append(g, m + 1)]
        BY <2>5, <2>6, <2>8, <4>1
      <4> QED
        BY <4>3, <4>4
    <3>2. [cur EXCEPT !.pgresult = r, !.given = h] = x
      <4>1. PICK z : z = [cur EXCEPT !.pgresult = r, !.given = h]
        OBVIOUS
      <4>2. z = [closed |-> cur.closed, results |-> cur.results, pgresult |-> r,
                 iresult |-> cur.iresult, pos |-> cur.pos, rowcount |-> cur.rowcount,
                 given |-> h]
        BY <4>1 DEF ClientType
      <4> QED
        BY <2>10, <4>1, <4>2
    <3> QED
      BY <2>9, <3>1, <3>2
  <2>12. /\ cur.closed \in BOOLEAN /\ cur.results \in Seq(Results) /\ cur.iresult \in Nat
         /\ cur.pos \in Int /\ cur.rowcount \in Int \cup {Total(ns) : ns \in ManyRows}
    BY DEF ClientType
  <2>13. x \in ClientType
    BY <2>10, <2>12 DEF ClientType
  <2>14. ClientHolds(x)
    <3>1. \A i \in 1..((m + 1) - 1) : i \in 1..(m + 1) /\ i + 1 \in 1..(m + 1)
      BY <2>6
    <3>2. \A i \in 1..(Len(x.given) - 1) : x.given[i + 1] = x.given[i] + 1
      BY <2>9, <2>10, <3>1
    <3>3. x.iresult \in 0..Len(x.results)
      BY <2>5, <2>10 DEF ClientHolds
    <3>4. x.pgresult.status # "tuples"
      BY <1>5, <2>10
    <3> QED
      BY <3>2, <3>3, <3>4 DEF ClientHolds
  <2>15. /\ cursor' \in [ClientCursors -> ClientType] /\ cursor'[c] = x
         /\ \A d \in ClientCursors : d # c => cursor'[d] = cursor[d]
    BY <1>1, <2>11, <2>13
  <2>16. ClientsHold'
    BY <1>1, <2>14, <2>15 DEF ClientsHold
  <2>17. call' \in CallType /\ call'.kind = "stream" /\ call'.cur = c /\ call'.stage = "row"
    BY <1>1, <1>2, <2>1 DEF CallType, Stages
  <2>18. FlightHolds'
    BY <2>1, <2>3, <2>4, <2>17 DEF FlightHolds
  <2>19. StreamHolds'
    <3>1. cursor'[call'.cur].given = h /\ cursor'[call'.cur].pgresult.status # "tuples"
      BY <1>5, <2>10, <2>15, <2>17
    <3>2. \A i \in 1..(k - 1) : f[i].status = "single" => f[i].n = (m + 1) + i
      <4> TAKE i \in 1..(k - 1)
      <4>1. i + 1 \in 1..k /\ m + (i + 1) = (m + 1) + i
        BY <1>3
      <4> QED
        BY <2>3, <2>7, <4>1
    <3>3. flight' = f
      BY <2>1, <2>3
    <3>4. \A i \in 1..Len(flight') : flight'[i].status = "single" => flight'[i].n = Len(h) + i
      BY <2>3, <2>9, <3>2, <3>3
    <3>5. \A i \in 1..Len(h) : h[i] = i
      BY <2>9
    <3> QED
      BY <3>1, <3>4, <3>5 DEF StreamHolds
  <2> QED
    BY <1>1, <2>1, <2>3, <2>15, <2>16, <2>17, <2>18, <2>19
    DEF ClientTypes, ClientPart, OpenHolds, Beginning
<1>6. CASE r.status # "single"
  <2>1. /\ flight' = (IF IsError(r) THEN StreamDrained(Tail(flight)) ELSE <<>>)
        /\ call' = Released /\ cursor' = cursor
    BY <1>4, <1>6 DEF stream_next
  <2>2. flight' = <<>>
    BY <2>1, DrainedHolds
  <2>2a. <<>> \in Seq(Results)
    OBVIOUS
  <2>3. call' \in CallType /\ call'.kind = "free" /\ flight' \in Seq(Results)
    BY <2>1, <2>2, <2>2a, ReleasedTyped
  <2>4. FlightHolds' /\ StreamHolds'
    BY <2>2, <2>3 DEF FlightHolds, StreamHolds
  <2>5. ClientsHold'
    BY <1>1, <2>1 DEF ClientsHold
  <2> QED
    BY <1>1, <2>1, <2>3, <2>4, <2>5 DEF ClientTypes, ClientPart, OpenHolds, Beginning
<1> QED
  BY <1>5, <1>6

\* The user leaves a stream, or interrupts it; what is left of it is read.
LEMMA StreamLeftHolds ==
  ASSUME CursorsTyped, ClientPart, stream_leave \/ stream_drain
  PROVE  ClientTypes' /\ ClientPart' /\ OpenHolds
<1>1. /\ call.kind = "stream" /\ call.cur \in ClientCursors /\ Ended(flight) /\ flight \in Seq(Results)
      /\ call \in CallType /\ txn \in Status /\ cursor' = cursor
      /\ cursor \in [ClientCursors -> ClientType] /\ ClientsHold /\ call.stage # "begin"
  BY DEF stream_leave, stream_drain, ClientPart, FlightHolds, CursorsTyped
<1>2. ClientsHold'
  BY <1>1 DEF ClientsHold
<1>3. CASE stream_leave
  <2>1. TryCancel /\ call' = [call EXCEPT !.stage = "leave"] /\ call.stage # "leave"
    BY <1>3 DEF stream_leave
  <2>2. flight' \in Seq(Results) /\ Ended(flight') /\ txn' \in Status
    BY <1>1, <2>1, TryCancelEnds
  <2>3. call' \in CallType /\ call'.kind = "stream" /\ call'.cur = call.cur /\ call'.stage = "leave"
    BY <1>1, <2>1 DEF CallType, Stages
  <2>4. FlightHolds' /\ StreamHolds'
    BY <1>1, <2>2, <2>3 DEF FlightHolds, StreamHolds
  <2>5. txn # "IDLE" => txn' # "IDLE"
    BY <1>1, <2>1 DEF TryCancel, After
  <2> QED
    BY <1>1, <1>2, <2>2, <2>3, <2>4, <2>5 DEF ClientTypes, ClientPart, OpenHolds, Beginning
<1>4. CASE stream_drain
  <2>1. flight' = <<>> /\ call' = Released /\ txn' = txn
    BY <1>4, DrainedHolds DEF stream_drain
  <2>2. call' \in CallType /\ call'.kind = "free" /\ flight' \in Seq(Results)
    BY <2>1, ReleasedTyped
  <2>3. FlightHolds' /\ StreamHolds'
    BY <2>1, <2>2 DEF FlightHolds, StreamHolds
  <2> QED
    BY <1>1, <1>2, <2>1, <2>2, <2>3 DEF ClientTypes, ClientPart, OpenHolds, Beginning
<1> QED
  BY <1>3, <1>4

-----------------------------------------------------------------------------
(* Server cursors                                                           *)

ServerTypes == /\ txn \in Status /\ scursor \in [ServerCursors -> ServerType]
               /\ portal \in [ServerCursors -> PortalType]

\* A server cursor that changes, and its portal.
LEMMA ServerChanges ==
  ASSUME CursorsTyped, ServerPart, NEW s \in ServerCursors, NEW sc \in ServerType,
         NEW p \in PortalType, ServerHolds(sc, p), Free, UNCHANGED call,
         scursor' = [scursor EXCEPT ![s] = sc], portal' = [portal EXCEPT ![s] = p],
         txn' \in Status, txn # "IDLE" => txn' # "IDLE", p.open /\ ~p.hold => txn' # "IDLE"
  PROVE  ServerTypes' /\ ServerPart'
<1>1. /\ scursor' \in [ServerCursors -> ServerType] /\ portal' \in [ServerCursors -> PortalType]
      /\ scursor'[s] = sc /\ portal'[s] = p
      /\ \A t \in ServerCursors : t # s => scursor'[t] = scursor[t] /\ portal'[t] = portal[t]
  BY DEF CursorsTyped
<1>2. ServersHold'
  BY <1>1 DEF ServerPart, ServersHold
<1>3. ~Beginning'
  BY DEF Beginning, Free
<1>4. PortalsHold'
  BY <1>1, <1>3 DEF ServerPart, PortalsHold
<1> QED
  BY <1>1, <1>2, <1>4 DEF ServerPart, ServerTypes

\* Nothing of the server cursors changes, or only the transaction status.
LEMMA ServerFrame ==
  ASSUME CursorsTyped, ServerPart, UNCHANGED <<scursor, portal>>, txn' \in Status, OpenHolds
  PROVE  ServerTypes' /\ ServerPart'
<1>1. ServersHold'
  BY DEF ServerPart, ServersHold
<1>2. PortalsHold'
  BY DEF ServerPart, PortalsHold, OpenHolds
<1> QED
  BY <1>1, <1>2 DEF ServerPart, ServerTypes, CursorsTyped

\* One server cursor, from what is known of all of them.
LEMMA OneServer ==
  ASSUME CursorsTyped, ServerPart, NEW s \in ServerCursors
  PROVE  /\ scursor[s] \in ServerType /\ portal[s] \in PortalType /\ ServerHolds(scursor[s], portal[s])
         /\ portal[s].open /\ ~portal[s].hold => txn # "IDLE"
         /\ scursor = [scursor EXCEPT ![s] = scursor[s]]
         /\ portal = [portal EXCEPT ![s] = portal[s]]
  BY DEF CursorsTyped, ServerPart, ServersHold, PortalsHold

\* No portal.
LEMMA NoPortalTyped == NoPortal \in PortalType /\ ~NoPortal.open /\ NoPortal.n = 0 /\ NoPortal.at = 0
                       /\ ~NoPortal.hold
  BY CursorsAssumption DEF NoPortal, PortalType

\* A portal that is gone holds with any cursor whose position is in its bounds.
LEMMA GoneHolds ==
  ASSUME NEW sc \in ServerType, sc.pos \in Positions, sc.batch <= MaxRows
  PROVE  ServerHolds(sc, NoPortal)
  BY NoPortalTyped DEF ServerHolds, NoPortal

\* The bounds are natural numbers.
LEMMA BoundsAre == MaxRows \in Nat /\ MaxRows >= 1 /\ MaxDrift \in Nat
                   /\ 0 \in Positions /\ Positions \subseteq Int
  BY CursorsAssumption DEF Positions

\* The end of a transaction: of each portal, whether it stays does not change
\* where its cursor is.
LEMMA EndHolds ==
  ASSUME CursorsTyped, ServerPart, end_transaction
  PROVE  ServerTypes' /\ ServerPart'
<1>1. PICK commit \in BOOLEAN :
        portal' = [s \in ServerCursors |->
          IF portal[s].hold /\ (portal[s].committed \/ (commit /\ txn = "INTRANS"))
          THEN [portal[s] EXCEPT !.committed = TRUE] ELSE NoPortal]
  BY DEF end_transaction
<1>2. Free /\ txn' = "IDLE" /\ UNCHANGED <<call, scursor>>
  BY DEF end_transaction
<1>3. ASSUME NEW s \in ServerCursors
      PROVE  /\ portal'[s] \in PortalType /\ ServerHolds(scursor[s], portal'[s])
             /\ portal'[s].open => portal'[s].hold
  <2>1. scursor[s] \in ServerType /\ portal[s] \in PortalType /\ ServerHolds(scursor[s], portal[s])
    BY OneServer
  <2>2. CASE portal'[s] = NoPortal
    <3>1. scursor[s].pos \in Positions /\ scursor[s].batch <= MaxRows
      BY <2>1 DEF ServerHolds
    <3> QED
      BY <2>1, <2>2, <3>1, GoneHolds, NoPortalTyped
  <2>3. CASE portal[s].hold /\ portal'[s] = [portal[s] EXCEPT !.committed = TRUE]
    <3>1. PICK p : p = portal'[s]
      OBVIOUS
    <3>2. /\ p \in PortalType /\ p.open = portal[s].open /\ p.hold = portal[s].hold
          /\ p.n = portal[s].n /\ p.at = portal[s].at
      BY <2>1, <2>3, <3>1 DEF PortalType
    <3>3. ServerHolds(scursor[s], p)
      BY <2>1, <3>2 DEF ServerHolds, RowOf
    <3> QED
      BY <2>3, <3>1, <3>2, <3>3
  <2> QED
    BY <1>1, <2>2, <2>3
<1>4. portal' \in [ServerCursors -> PortalType]
  BY <1>1, <1>3
<1>5. ServersHold'
  BY <1>2, <1>3 DEF ServersHold
<1>6. PortalsHold'
  BY <1>3 DEF PortalsHold
<1> QED
  BY <1>2, <1>4, <1>5, <1>6 DEF ServerTypes, ServerPart, CursorsTyped, Status

\* DECLARE: the position starts anew, and so does the portal if it is not refused.
LEMMA DeclareHolds ==
  ASSUME CursorsTyped, ServerPart, NEW s \in ServerCursors, declare(s)
  PROVE  ServerTypes' /\ ServerPart'
<1> DEFINE closes  == scursor[s].described /\ ClosesPortal(s)
           there   == portal[s].open /\ ~closes
           refused == there \/ txn = "INERROR" \/ (~scursor[s].hold /\ Begun = "IDLE")
<1>1. PICK sc \in ServerType, p \in PortalType : sc = scursor[s] /\ p = portal[s] /\ ServerHolds(sc, p)
  BY OneServer
<1>2. /\ p.open /\ ~p.hold => txn # "IDLE"
      /\ scursor = [scursor EXCEPT ![s] = sc] /\ portal = [portal EXCEPT ![s] = p]
  BY <1>1, OneServer
<1>3. Free /\ UNCHANGED call /\ txn \in Status
  BY DEF declare, CursorsTyped
<1>4. Begun \in Status /\ (txn # "IDLE" => Begun # "IDLE")
  BY BegunTyped
<1>5. sc.pos \in Positions /\ sc.batch \in Nat /\ sc.batch <= MaxRows /\ (p.open => p.hold = sc.hold) /\ p.at \in Nat /\ p.n \in 0..MaxRows
      /\ p.at <= p.n + 1
  BY <1>1 DEF ServerHolds, PortalType, ServerType
<1>6. PICK q \in PortalType : q = (IF closes THEN NoPortal ELSE p)
  BY NoPortalTyped
<1>7. (IF closes THEN [portal EXCEPT ![s] = NoPortal] ELSE portal) = [portal EXCEPT ![s] = q]
  BY <1>2, <1>6
<1>8. q.open => q = p
  BY <1>6, NoPortalTyped
<1> DEFINE fails == closes /\ CloseFails(s)
<1>9. CASE fails
  <2>1. txn' = After(txn, TRUE) /\ UNCHANGED <<scursor, portal>>
    BY <1>9 DEF declare
  <2>2. txn' \in Status /\ OpenHolds
    BY <1>3, <2>1, AfterTyped DEF OpenHolds, Beginning
  <2> QED
    BY <2>1, <2>2, ServerFrame
<1>10. CASE ~fails /\ sc.closed
  <2>1. /\ scursor' = [scursor EXCEPT ![s].described = FALSE] /\ txn' = txn
        /\ portal' = [portal EXCEPT ![s] = q]
    BY <1>1, <1>7, <1>10 DEF declare
  <2>2. PICK x : x = [closed |-> sc.closed, described |-> FALSE, hold |-> sc.hold, pos |-> sc.pos,
                      batch |-> sc.batch, strayed |-> sc.strayed, inerror |-> sc.inerror]
    OBVIOUS
  <2>3. x \in ServerType
    BY <2>2 DEF ServerType
  <2>4. scursor' = [scursor EXCEPT ![s] = x]
    <3>1. PICK y : y = [sc EXCEPT !.described = FALSE]
      OBVIOUS
    <3>2. y = [closed |-> sc.closed, described |-> FALSE, hold |-> sc.hold, pos |-> sc.pos,
               batch |-> sc.batch, strayed |-> sc.strayed, inerror |-> sc.inerror]
      BY <3>1 DEF ServerType
    <3>3. y = x
      BY <2>2, <3>2
    <3> QED
      BY <1>1, <2>1, <3>1, <3>3
  <2>5. ServerHolds(x, q)
    <3>1. CASE q = p
      BY <1>1, <2>2, <3>1 DEF ServerHolds
    <3>2. CASE q = NoPortal
      BY <1>5, <2>2, <2>3, <3>2, GoneHolds
    <3> QED
      BY <1>6, <3>1, <3>2
  <2> QED
    BY <1>2, <1>3, <1>8, <2>1, <2>3, <2>4, <2>5, ServerChanges
<1>11. CASE ~fails /\ ~sc.closed
  <2>1. /\ txn' = After(Begun, refused)
        /\ scursor' = [scursor EXCEPT ![s] =
             [scursor[s] EXCEPT !.described = ~refused, !.pos = 0,
                                !.strayed = scursor[s].batch > 0]]
        /\ IF refused THEN portal' = [portal EXCEPT ![s] = q]
           ELSE \E n \in 0..MaxRows :
                  portal' = [portal EXCEPT ![s] =
                    [Portal(n, scursor[s].hold) EXCEPT !.committed = Begun = "IDLE"]]
    <3>1. CursorsTyped /\ scursor[s] = [scursor EXCEPT ![s] = scursor[s]][s]
      BY <1>2, <1>1 DEF CursorsTyped
    <3> HIDE DEF refused
    <3>2. /\ txn' = After(Begun, refused)
          /\ scursor' = [scursor EXCEPT ![s] =
               [@ EXCEPT !.described = ~refused, !.pos = 0,
                                !.strayed = scursor[s].batch > 0]]
          /\ IF refused
             THEN portal' = IF closes THEN [portal EXCEPT ![s] = NoPortal] ELSE portal
             ELSE \E n \in 0..MaxRows :
                    portal' = [portal EXCEPT ![s] =
                      [Portal(n, scursor[s].hold) EXCEPT !.committed = Begun = "IDLE"]]
      BY <1>1, <1>11 DEF declare, refused
    <3> QED
      BY <1>7, <3>2
  <2>2. PICK r \in BOOLEAN : r = refused
    OBVIOUS
  <2>3. txn' \in Status /\ (txn # "IDLE" => txn' # "IDLE")
    <3>1. PICK b \in Status : b = Begun /\ (txn # "IDLE" => b # "IDLE")
      BY <1>4
    <3> QED
      BY <2>1, <3>1, AfterTyped
  <2>3a. PICK strays \in BOOLEAN : strays = (scursor[s].batch > 0)
    <3> DEFINE some == scursor[s].batch > 0
    <3>1. some \in BOOLEAN
      <4>1. PICK b \in Nat : b = scursor[s].batch
        BY <1>1, <1>5
      <4>2. (b > 0) \in BOOLEAN
        OBVIOUS
      <4> QED
        BY <4>1, <4>2
    <3> HIDE DEF some
    <3>2. \E strays \in BOOLEAN : strays = some
      BY <3>1
    <3> QED
      BY <3>2 DEF some
  <2>3b. strays \/ sc.batch = 0
    <3>1. sc.batch > 0 \/ sc.batch = 0
      BY <1>5
    <3>2. scursor[s].batch = sc.batch
      BY <1>1
    <3>3. CASE sc.batch > 0
      <4>1. scursor[s].batch > 0
        BY <3>2, <3>3
      <4> HIDE DEF closes, there, refused, fails
      <4> QED
        BY ONLY <2>3a, <4>1, Zenon
    <3> QED
      BY <3>1, <3>3
  <2>4. PICK x : x = [closed |-> FALSE, described |-> ~r, hold |-> sc.hold, pos |-> 0,
                      batch |-> sc.batch, strayed |-> strays, inerror |-> sc.inerror]
    OBVIOUS
  <2>5. x \in ServerType
    BY <2>4 DEF ServerType
  <2>6. scursor' = [scursor EXCEPT ![s] = x]
    <3>1. PICK y : y = [sc EXCEPT !.described = ~r, !.pos = 0, !.strayed = strays]
      OBVIOUS
    <3>2. y = [closed |-> sc.closed, described |-> ~r, hold |-> sc.hold, pos |-> 0,
               batch |-> sc.batch, strayed |-> strays, inerror |-> sc.inerror]
      BY <3>1 DEF ServerType
    <3>3. sc.closed = FALSE
      BY <1>11 DEF ServerType
    <3>4. y = x
      BY <2>4, <3>2, <3>3
    <3> QED
      BY <1>1, <2>1, <2>2, <2>3a, <3>1, <3>4
  <2>7. 0 \in Positions
    BY BoundsAre
  <2> HIDE DEF refused, closes, fails
  <2>8. CASE r
    <3>1. portal' = [portal EXCEPT ![s] = q]
      BY <2>1, <2>2, <2>8
    <3>2. ServerHolds(x, q)
      <4>1. CASE q = p
        BY <1>5, <2>4, <2>7, <2>8, <4>1 DEF ServerHolds
      <4>2. CASE q = NoPortal
        BY <1>5, <2>4, <2>5, <2>7, <4>2, GoneHolds
      <4> QED
        BY <1>6, <4>1, <4>2
    <3>3. q.open /\ ~q.hold => txn' # "IDLE"
      BY <1>2, <1>8, <2>3
    <3> QED
      BY <1>3, <2>3, <2>5, <2>6, <3>1, <3>2, <3>3, ServerChanges
  <2>9. CASE ~r
    <3>1. PICK n \in 0..MaxRows :
            portal' = [portal EXCEPT ![s] = [Portal(n, sc.hold) EXCEPT !.committed = Begun = "IDLE"]]
      BY <1>1, <2>1, <2>2, <2>9
    <3>1a. PICK h \in BOOLEAN : h = sc.hold
      BY DEF ServerType
    <3>1b. PICK o : o = [Portal(n, h) EXCEPT !.committed = Begun = "IDLE"]
      OBVIOUS
    <3>1c. o = [Portal(n, sc.hold) EXCEPT !.committed = Begun = "IDLE"]
      BY <3>1a, <3>1b
    <3>1d. o = [open |-> TRUE, hold |-> h, committed |-> (Begun = "IDLE"), n |-> n, at |-> 0]
      BY <3>1b DEF Portal
    <3>2. /\ o \in PortalType /\ o.hold = sc.hold /\ o.n = n /\ o.at = 0
      BY <3>1a, <3>1d DEF PortalType
    <3>3. ServerHolds(x, o)
      <4>1. RowOf(o) = 0 /\ n \in Nat
        BY <3>2, BoundsAre DEF RowOf
      <4>2. x.pos = 0 /\ x.batch = sc.batch /\ x.strayed = strays /\ x.hold = sc.hold /\ ~x.closed
        BY <2>4
      <4> QED
        BY <1>5, <2>3b, <2>7, <3>2, <4>1, <4>2 DEF ServerHolds
    <3>4. o.open /\ ~o.hold => txn' # "IDLE"
      <4>1. ~o.hold => Begun # "IDLE"
        BY <1>1, <2>2, <2>9, <3>2 DEF refused
      <4> QED
        BY <2>1, <4>1 DEF After
    <3> QED
      BY <1>3, <2>3, <2>5, <2>6, <3>1, <3>1c, <3>2, <3>3, <3>4, ServerChanges
  <2> QED
    BY <2>8, <2>9
<1> QED
  BY <1>9, <1>10, <1>11

\* FETCH FORWARD: as many rows as the portal is moved by.
LEMMA GivenMoves ==
  ASSUME NEW s \in ServerCursors, NEW n \in Nat, n >= 1,
         NEW size \in Nat, NEW at \in Nat, at <= size + 1, NEW p, p = portal[s], p.n = size, p.at = at,
         NEW o, o.n = size, o.at = Clip(at + n, size)
  PROVE  /\ o.at \in Nat /\ o.at <= o.n + 1 /\ Given(s, n) \in Nat /\ Given(s, n) <= size
         /\ RowOf(p) + Given(s, n) = RowOf(o)
<1>1. PICK to \in Nat : to = o.at /\ to = (IF at + n > size + 1 THEN size + 1 ELSE at + n)
  BY DEF Clip
<1>2. PICK got \in Nat : /\ got = Given(s, n)
                         /\ got = IF size - at < 0 THEN 0 ELSE IF n < size - at THEN n ELSE size - at
  BY DEF Given
<1>3. RowOf(p) = (IF at > size THEN size ELSE at)
  BY DEF RowOf
<1>4. RowOf(o) = (IF to > size THEN size ELSE to)
  BY <1>1 DEF RowOf
<1> QED
  BY <1>1, <1>2, <1>3, <1>4

\* A fetch moves the cursor and the portal together, and describes a portal
\* that somebody else opened.
LEMMA FetchForwardHolds ==
  ASSUME CursorsTyped, ServerPart, NEW s \in ServerCursors, fetch_forward(s)
  PROVE  ServerTypes' /\ ServerPart'
<1>1. PICK sc \in ServerType, p \in PortalType : sc = scursor[s] /\ p = portal[s] /\ ServerHolds(sc, p)
  BY OneServer
<1>2. /\ p.open /\ ~p.hold => txn # "IDLE"
      /\ scursor = [scursor EXCEPT ![s] = sc] /\ portal = [portal EXCEPT ![s] = p]
  BY <1>1, OneServer
<1>3. Free /\ UNCHANGED call /\ txn \in Status /\ ~sc.closed
  BY <1>1 DEF fetch_forward, CursorsTyped
<1>4. PICK begun \in Status : /\ begun = (IF sc.described THEN txn ELSE Begun)
                              /\ txn # "IDLE" => begun # "IDLE"
  BY <1>3, BegunTyped
<1>5. PICK size \in Nat, at \in Nat, pos \in Int : /\ size = p.n /\ at = p.at /\ pos = sc.pos
                                                   /\ size <= MaxRows /\ at <= size + 1
  BY <1>1, BoundsAre DEF ServerHolds, PortalType, ServerType
<1>6. PICK base \in Int : base = (IF sc.described THEN pos ELSE 0)
  OBVIOUS
<1>7. /\ base \in Positions /\ (p.open => p.hold = sc.hold)
      /\ sc.batch \in Nat /\ sc.batch <= MaxRows
  BY <1>1, <1>5, <1>6, BoundsAre DEF ServerHolds, ServerType
<1>8. CASE ~Usable(s)
  <2>1. /\ txn' = After(begun, TRUE) /\ portal' = [portal EXCEPT ![s] = p]
        /\ scursor' = [scursor EXCEPT ![s].pos = IF sc.described THEN scursor[s].pos ELSE 0]
    BY <1>1, <1>2, <1>4, <1>8 DEF fetch_forward
  <2>2. PICK x : x = [closed |-> sc.closed, described |-> sc.described, hold |-> sc.hold,
                      pos |-> base, batch |-> sc.batch, strayed |-> sc.strayed, inerror |-> sc.inerror]
    OBVIOUS
  <2>3. x \in ServerType
    BY <2>2 DEF ServerType
  <2>4. scursor' = [scursor EXCEPT ![s] = x]
    <3>1. PICK y : y = [sc EXCEPT !.pos = base]
      OBVIOUS
    <3>2. y = [closed |-> sc.closed, described |-> sc.described, hold |-> sc.hold,
               pos |-> base, batch |-> sc.batch, strayed |-> sc.strayed, inerror |-> sc.inerror]
      BY <3>1 DEF ServerType
    <3>3. scursor' = [scursor EXCEPT ![s] = y]
      BY <1>1, <1>5, <1>6, <2>1, <3>1 DEF ServerType
    <3> QED
      BY <2>2, <3>2, <3>3
  <2>5. ServerHolds(x, p)
    <3>1. x.pos = base /\ x.hold = sc.hold /\ x.strayed = sc.strayed /\ x.described = sc.described
          /\ x.closed = sc.closed /\ x.batch = sc.batch
      BY <2>2
    <3>2. x.pos \in Positions
      BY <1>7, <3>1
    <3>3. x.strayed \/ (x.described /\ ~x.closed /\ p.open => x.pos + x.batch = RowOf(p))
      BY <1>1, <1>5, <1>6, <3>1 DEF ServerHolds
    <3> QED
      BY <1>3, <1>5, <1>7, <3>1, <3>2, <3>3 DEF ServerHolds
  <2>6. txn' \in Status /\ (txn # "IDLE" => txn' # "IDLE")
    BY <1>4, <2>1, AfterTyped
  <2> QED
    BY <1>2, <1>3, <2>1, <2>3, <2>4, <2>5, <2>6, ServerChanges
<1>9. CASE Usable(s)
  <2> DEFINE Base == IF scursor[s].described THEN scursor[s].pos ELSE 0
             Z(n, iterating) == [scursor[s] EXCEPT
                        !.pos = IF iterating THEN Base ELSE Base + Given(s, n),
                        !.batch = IF iterating THEN Given(s, n) ELSE scursor[s].batch,
                        !.strayed = IF scursor[s].described THEN scursor[s].strayed
                                    ELSE portal[s].at # 0 \/ scursor[s].batch > 0,
                        !.described = TRUE]
  <2>1. PICK n \in 1..(MaxRows + 1), iterating \in BOOLEAN :
          /\ iterating => scursor[s].batch = 0
          /\ Base + Given(s, n) \in Positions
          /\ txn' = begun
          /\ portal' = [portal EXCEPT ![s].at = Clip(@ + n, portal[s].n)]
          /\ scursor' = [scursor EXCEPT ![s] = Z(n, iterating)]
    BY <1>1, <1>4, <1>9 DEF fetch_forward
  <2>1a. Base = base
    BY <1>1, <1>5, <1>6
  <2> HIDE DEF Z, Base
  <2>2. n \in Nat /\ n >= 1 /\ p.open
    BY <1>1, <1>9 DEF Usable
  <2>3. PICK to : to = Clip(at + n, size)
    OBVIOUS
  <2>4. PICK o : o = [open |-> p.open, hold |-> p.hold, committed |-> p.committed, n |-> size, at |-> to]
    OBVIOUS
  <2>5. /\ o.at \in Nat /\ o.at <= o.n + 1 /\ Given(s, n) \in Nat
        /\ Given(s, n) <= MaxRows /\ RowOf(p) + Given(s, n) = RowOf(o)
    <3>1. o.n = size /\ o.at = Clip(at + n, size)
      BY <2>3, <2>4
    <3>2. p = portal[s] /\ p.n = size /\ p.at = at
      BY <1>1, <1>5
    <3> QED
      BY <1>5, <2>2, <3>1, <3>2, GivenMoves, BoundsAre
  <2>6. PICK got \in Nat : got = Given(s, n)
    BY <2>5
  <2>7. o \in PortalType /\ o.open = p.open /\ o.hold = p.hold /\ o.at = to /\ o.n = size
    BY <1>5, <2>4, <2>5 DEF PortalType
  <2>8. portal' = [portal EXCEPT ![s] = o]
    <3>1. PICK y : y = [p EXCEPT !.at = to]
      OBVIOUS
    <3>2. y = [open |-> p.open, hold |-> p.hold, committed |-> p.committed, n |-> size, at |-> to]
      BY <1>5, <3>1 DEF PortalType
    <3>3. portal' = [portal EXCEPT ![s] = y]
      BY <1>1, <1>5, <2>1, <2>3, <3>1 DEF PortalType
    <3> QED
      BY <2>4, <3>2, <3>3
  <2>9. PICK stray \in BOOLEAN :
          stray = (IF sc.described THEN sc.strayed ELSE at # 0 \/ sc.batch > 0)
    BY DEF ServerType
  <2>9a. PICK pos2 \in Positions, batch \in Nat :
           /\ pos2 = (IF iterating THEN base ELSE base + got)
           /\ batch = (IF iterating THEN got ELSE sc.batch)
           /\ batch <= MaxRows /\ pos2 + batch = base + got + sc.batch
    <3>1. base + got \in Positions /\ (iterating => sc.batch = 0)
      BY <1>1, <2>1, <2>1a, <2>6
    <3> QED
      BY <1>7, <2>5, <2>6, <3>1
  <2>10. PICK x : x = [closed |-> sc.closed, described |-> TRUE, hold |-> sc.hold, pos |-> pos2,
                       batch |-> batch, strayed |-> stray, inerror |-> sc.inerror]
    OBVIOUS
  <2>11. x \in ServerType
    BY <2>10, BoundsAre DEF ServerType
  <2>12. scursor' = [scursor EXCEPT ![s] = x]
    <3>2. PICK z : z = Z(n, iterating)
      OBVIOUS
    <3>4. scursor' = [scursor EXCEPT ![s] = z]
      BY <2>1, <3>2
    <3>3. z = [sc EXCEPT !.pos = IF iterating THEN base ELSE base + got,
                         !.batch = IF iterating THEN got ELSE sc.batch,
                         !.strayed = IF sc.described THEN sc.strayed
                                     ELSE portal[s].at # 0 \/ sc.batch > 0,
                         !.described = TRUE]
      BY <1>1, <2>1a, <2>6, <3>2 DEF Z
    <3>5. portal[s].at = at
      BY <1>1, <1>5
    <3>6. z = [sc EXCEPT !.pos = pos2, !.batch = batch, !.strayed = stray, !.described = TRUE]
      BY <2>9, <2>9a, <3>3, <3>5
    <3>6a. z = [closed |-> sc.closed, described |-> TRUE, hold |-> sc.hold, pos |-> pos2,
                batch |-> batch, strayed |-> stray, inerror |-> sc.inerror]
      BY <3>6 DEF ServerType
    <3>7. z = x
      BY <2>10, <3>6a
    <3> QED
      BY <3>4, <3>7
  <2>13. x.pos = pos2 /\ x.batch = batch /\ x.hold = sc.hold /\ x.strayed = stray /\ x.described
         /\ x.closed = sc.closed
    BY <2>10
  <2>16. stray \/ x.pos + x.batch = RowOf(o)
    <3>0. x.pos + x.batch = base + got + sc.batch
      BY <2>9a, <2>13
    <3>1. CASE sc.described
      <4>1. stray \/ base + sc.batch = RowOf(p)
        BY <1>1, <1>3, <1>5, <1>6, <2>2, <2>9, <3>1 DEF ServerHolds
      <4> QED
        BY <1>7, <2>5, <2>6, <3>0, <4>1
    <3>2. CASE ~sc.described
      <4>1. stray \/ (at = 0 /\ base = 0 /\ sc.batch = 0)
        <5>1. stray = (at # 0 \/ sc.batch > 0)
          BY <2>9, <3>2
        <5>2. base = 0
          BY <1>6, <3>2
        <5>3. CASE at # 0 \/ sc.batch > 0
          BY <5>1, <5>3
        <5>4. CASE ~(at # 0 \/ sc.batch > 0)
          <6>1. sc.batch = 0
            BY <1>7, <5>4
          <6> QED
            BY <5>2, <5>4, <6>1
        <5> QED
          BY <5>3, <5>4
      <4>2. at = 0 => RowOf(p) = 0
        BY <1>5 DEF RowOf
      <4> QED
        BY <2>5, <2>6, <3>0, <4>1, <4>2
    <3> QED
      BY <3>1, <3>2
  <2>17. ServerHolds(x, o)
    BY <1>3, <1>7, <2>2, <2>5, <2>7, <2>9a, <2>13, <2>16 DEF ServerHolds
  <2>18. txn' \in Status /\ (txn # "IDLE" => txn' # "IDLE") /\ (o.open /\ ~o.hold => txn' # "IDLE")
    BY <1>2, <1>4, <2>1, <2>7
  <2> QED
    BY <1>3, <2>7, <2>8, <2>11, <2>12, <2>17, <2>18, ServerChanges
<1> QED
  BY <1>8, <1>9

\* MOVE: the portal may leave the rows that the position counts, and strays then.
LEMMA ScrollPortalHolds ==
  ASSUME CursorsTyped, ServerPart, NEW s \in ServerCursors, scroll_portal(s)
  PROVE  ServerTypes' /\ ServerPart'
<1>1. PICK sc \in ServerType, p \in PortalType : sc = scursor[s] /\ p = portal[s] /\ ServerHolds(sc, p)
  BY OneServer
<1>2. /\ p.open /\ ~p.hold => txn # "IDLE"
      /\ scursor = [scursor EXCEPT ![s] = sc] /\ portal = [portal EXCEPT ![s] = p]
  BY <1>1, OneServer
<1>3. Free /\ UNCHANGED call /\ txn \in Status
  BY DEF scroll_portal, CursorsTyped
<1>5. PICK size \in Nat, at \in Nat, pos \in Int : /\ size = p.n /\ at = p.at /\ pos = sc.pos
                                                   /\ size <= MaxRows /\ at <= size + 1
  BY <1>1, BoundsAre DEF ServerHolds, PortalType, ServerType
<1>6. CASE txn' = After(txn, TRUE) /\ UNCHANGED <<scursor, portal>>
  <2>1. txn' \in Status /\ OpenHolds
    BY <1>3, <1>6, AfterTyped DEF OpenHolds, Beginning
  <2> QED
    BY <1>6, <2>1, ServerFrame
<1> DEFINE Target(v, absolute) ==
             IF ~absolute THEN portal[s].at + v ELSE IF v < 0 THEN portal[s].n + 1 + v ELSE v
           Moved(v, absolute) == IF s \in AsyncCursors THEN scursor[s].pos
                                 ELSE IF absolute THEN v ELSE scursor[s].pos + v
           Strays(v, absolute) ==
             \/ s \in AsyncCursors
             \/ absolute /\ (v \notin 0..portal[s].n \/ scursor[s].batch > 0)
             \/ /\ ~absolute
                /\ \/ scursor[s].strayed \/ portal[s].at > portal[s].n
                   \/ Target(v, absolute) \notin 0..portal[s].n
           Z(v, absolute) == [scursor[s] EXCEPT !.pos = Moved(v, absolute),
                                                !.strayed = Strays(v, absolute)]
<1>7. ASSUME NEW v \in -MaxDrift..(MaxRows + MaxDrift), NEW absolute \in BOOLEAN, Usable(s),
             Moved(v, absolute) \in Positions,
             portal' = [portal EXCEPT ![s].at = Clip(Target(v, absolute), portal[s].n)],
             scursor' = [scursor EXCEPT ![s] = Z(v, absolute)], txn' = txn
      PROVE  ServerTypes' /\ ServerPart'
  <2>0. PICK stray \in BOOLEAN : stray = Strays(v, absolute)
    <3>1. scursor[s].strayed \in BOOLEAN
      BY <1>1 DEF ServerType
    <3> QED
      BY <3>1
  <2>1. PICK moved \in Positions, target \in Int :
          /\ moved = Moved(v, absolute) /\ target = Target(v, absolute)
          /\ s \in AsyncCursors \/ moved = (IF absolute THEN v ELSE pos + v)
          /\ target = (IF ~absolute THEN at + v ELSE IF v < 0 THEN size + 1 + v ELSE v)
    BY <1>1, <1>5, <1>7, BoundsAre
  <2>2. PICK z : z = Z(v, absolute)
    OBVIOUS
  <2>3. scursor' = [scursor EXCEPT ![s] = z]
    BY <1>7, <2>2
  <2>4. z = [sc EXCEPT !.pos = moved, !.strayed = stray]
    BY <1>1, <2>0, <2>1, <2>2
  <2>4a. /\ stray \/ s \notin AsyncCursors
         /\ absolute => stray \/ (v \in 0..size /\ sc.batch = 0)
         /\ ~absolute => stray \/ (~sc.strayed /\ ~(at > size) /\ target \in 0..size)
    BY <1>1, <1>5, <2>0, <2>1 DEF ServerType
  <2> HIDE DEF Z, Target, Moved, Strays
  <2>5. PICK to \in Nat : to = Clip(target, size) /\ to <= size + 1
                          /\ (target \in 0..size => to = target)
    BY DEF Clip
  <2>6. PICK o : o = [open |-> p.open, hold |-> p.hold, committed |-> p.committed, n |-> size, at |-> to]
    OBVIOUS
  <2>7. o \in PortalType /\ o.open = p.open /\ o.hold = p.hold /\ o.at = to /\ o.n = size
    BY <1>5, <2>6 DEF PortalType
  <2>8. portal' = [portal EXCEPT ![s] = o]
    <3>1. PICK y : y = [p EXCEPT !.at = to]
      OBVIOUS
    <3>2. y = [open |-> p.open, hold |-> p.hold, committed |-> p.committed, n |-> size, at |-> to]
      BY <1>5, <3>1 DEF PortalType
    <3>3. portal' = [portal EXCEPT ![s] = y]
      BY <1>1, <1>5, <1>7, <2>1, <2>5, <3>1 DEF PortalType
    <3> QED
      BY <2>6, <3>2, <3>3
  <2>9. z = [closed |-> sc.closed, described |-> sc.described, hold |-> sc.hold, pos |-> moved,
             batch |-> sc.batch, strayed |-> stray, inerror |-> sc.inerror]
    BY <2>4 DEF ServerType
  <2>11. z \in ServerType
    BY <2>9, BoundsAre DEF ServerType
  <2>12. /\ z.pos = moved /\ z.hold = sc.hold /\ z.described = sc.described /\ z.closed = sc.closed
         /\ z.batch = sc.batch /\ z.strayed = stray /\ z.inerror = sc.inerror
    BY <2>9
  <2>13. stray \/ (sc.described /\ ~sc.closed => moved + sc.batch = RowOf(o))
    <3>0. p.open /\ sc.batch \in Nat
      BY <1>1, <1>7 DEF Usable, ServerType
    <3>1. CASE absolute
      <4>1. stray \/ (v \in 0..size /\ sc.batch = 0 /\ s \notin AsyncCursors)
        BY <2>4a, <3>1
      <4>2. v \in 0..size /\ s \notin AsyncCursors => moved = v /\ target = v /\ to = v
        <5> SUFFICES ASSUME v \in 0..size, s \notin AsyncCursors
                     PROVE  moved = v /\ target = v /\ to = v
          OBVIOUS
        <5>1. v \in Int /\ ~(v < 0)
          BY <1>5
        <5>2. moved = v
          BY <2>1, <3>1
        <5>3. target = v
          BY <2>1, <3>1, <5>1
        <5> QED
          BY <2>5, <5>2, <5>3
      <4>3. to = v /\ v \in 0..size => RowOf(o) = v
        BY <2>7 DEF RowOf
      <4> QED
        BY <4>1, <4>2, <4>3
    <3>2. CASE ~absolute
      <4>1. stray \/ (~sc.strayed /\ ~(at > size) /\ target \in 0..size /\ s \notin AsyncCursors)
        BY <2>4a, <3>2
      <4>2. sc.strayed \/ (sc.described /\ ~sc.closed => pos + sc.batch = RowOf(p))
        BY <1>1, <1>5, <3>0 DEF ServerHolds
      <4>3. ~(at > size) => RowOf(p) = at
        BY <1>5 DEF RowOf
      <4>4. target \in 0..size => target = at + v /\ to = target
        BY <2>1, <2>5, <3>2
      <4>5. target \in 0..size => RowOf(o) = target
        BY <2>7, <4>4 DEF RowOf
      <4>6. s \notin AsyncCursors => moved = pos + v
        BY <2>1, <3>2
      <4> QED
        BY <3>0, <4>1, <4>2, <4>3, <4>4, <4>5, <4>6
    <3> QED
      BY <3>1, <3>2
  <2>16. (p.open => p.hold = sc.hold) /\ (sc.closed /\ ~sc.inerror => ~p.open)
         /\ sc.batch <= MaxRows
    BY <1>1 DEF ServerHolds
  <2>17. ServerHolds(z, o)
    BY <2>5, <2>7, <2>12, <2>13, <2>16 DEF ServerHolds
  <2>18. txn' \in Status /\ (txn # "IDLE" => txn' # "IDLE") /\ (o.open /\ ~o.hold => txn' # "IDLE")
    BY <1>2, <1>3, <1>7, <2>7
  <2> QED
    BY <1>3, <2>3, <2>7, <2>8, <2>11, <2>17, <2>18, ServerChanges
<1>8. \/ txn' = After(txn, TRUE) /\ UNCHANGED <<scursor, portal>>
      \/ \E v \in -MaxDrift..(MaxRows + MaxDrift), absolute \in BOOLEAN :
           /\ Usable(s) /\ Moved(v, absolute) \in Positions
           /\ portal' = [portal EXCEPT ![s].at = Clip(Target(v, absolute), portal[s].n)]
           /\ scursor' = [scursor EXCEPT ![s] = Z(v, absolute)] /\ txn' = txn
  BY DEF scroll_portal
<1> HIDE DEF Z, Target, Moved, Strays
<1> QED
  BY <1>6, <1>7, <1>8

\* CLOSE, if there is something to close, and the transaction is not a failed one.
LEMMA ClosePortalHolds ==
  ASSUME CursorsTyped, ServerPart, NEW s \in ServerCursors, close_portal(s)
  PROVE  ServerTypes' /\ ServerPart'
<1>1. PICK sc \in ServerType, p \in PortalType : sc = scursor[s] /\ p = portal[s] /\ ServerHolds(sc, p)
  BY OneServer
<1>2. /\ p.open /\ ~p.hold => txn # "IDLE"
      /\ scursor = [scursor EXCEPT ![s] = sc] /\ portal = [portal EXCEPT ![s] = p]
  BY <1>1, OneServer
<1>3. Free /\ UNCHANGED call /\ txn \in Status
  BY DEF close_portal, CursorsTyped
<1>4. CASE CloseFails(s)
  <2>1. txn' = After(txn, TRUE) /\ UNCHANGED <<scursor, portal>>
    BY <1>4 DEF close_portal
  <2>2. txn' \in Status /\ OpenHolds
    BY <1>3, <2>1, AfterTyped DEF OpenHolds, Beginning
  <2> QED
    BY <2>1, <2>2, ServerFrame
<1>5. CASE ~CloseFails(s)
  <2> DEFINE Z == [scursor[s] EXCEPT !.closed = TRUE, !.pos = 0, !.inerror = txn = "INERROR"]
  <2>1. /\ scursor' = [scursor EXCEPT ![s] = Z] /\ txn' = txn
        /\ portal' = (IF ClosesPortal(s) THEN [portal EXCEPT ![s] = NoPortal] ELSE portal)
    BY <1>5 DEF close_portal
  <2>2. PICK z : z = Z
    OBVIOUS
  <2>3. scursor' = [scursor EXCEPT ![s] = z]
    BY <2>1, <2>2
  <2>4. z = [closed |-> TRUE, described |-> sc.described, hold |-> sc.hold, pos |-> 0,
             batch |-> sc.batch, strayed |-> sc.strayed, inerror |-> (txn = "INERROR")]
    BY <1>1, <2>2 DEF ServerType
  <2> HIDE DEF Z
  <2>5. /\ z \in ServerType /\ z.closed /\ z.pos = 0 /\ z.hold = sc.hold
        /\ z.batch = sc.batch
        /\ z.inerror \/ txn # "INERROR"
    <3>1. CASE txn = "INERROR"
      <4>1. z = [closed |-> TRUE, described |-> sc.described, hold |-> sc.hold, pos |-> 0,
                 batch |-> sc.batch, strayed |-> sc.strayed, inerror |-> TRUE]
        BY <2>4, <3>1
      <4> QED
        BY <4>1 DEF ServerType
    <3>2. CASE txn # "INERROR"
      <4>1. z = [closed |-> TRUE, described |-> sc.described, hold |-> sc.hold, pos |-> 0,
                 batch |-> sc.batch, strayed |-> sc.strayed, inerror |-> FALSE]
        BY <2>4, <3>2
      <4> QED
        BY <3>2, <4>1 DEF ServerType
    <3> QED
      BY <3>1, <3>2
  <2>6. 0 \in Positions /\ sc.batch <= MaxRows
    BY <1>1, BoundsAre DEF ServerHolds
  <2>7. CASE ClosesPortal(s)
    <3>1. ServerHolds(z, NoPortal)
      BY <2>5, <2>6, GoneHolds
    <3> QED
      BY <1>3, <2>1, <2>3, <2>5, <2>7, <3>1, NoPortalTyped, ServerChanges
  <2>8. CASE ~ClosesPortal(s)
    <3>1. txn # "INERROR" => ~p.open
      BY <1>1, <1>2, <2>8 DEF ClosesPortal, ServerHolds
    <3>2. p.at <= p.n + 1 /\ (p.open => p.hold = z.hold) /\ p.at \in Nat /\ p.n \in 0..MaxRows
      BY <1>1, <2>5 DEF ServerHolds, PortalType
    <3>4. ServerHolds(z, p)
      BY <2>5, <2>6, <3>1, <3>2 DEF ServerHolds
    <3> QED
      BY <1>2, <1>3, <2>1, <2>3, <2>5, <2>8, <3>4, ServerChanges
  <2> QED
    BY <2>7, <2>8
<1> QED
  BY <1>4, <1>5

\* Iterating, the position moves over the rows that are yielded; what is left of a
\* batch is no more counted on when its loop is left.
LEMMA IterationHolds ==
  ASSUME CursorsTyped, ServerPart, NEW s \in ServerCursors, yield_row(s) \/ leave_loop(s)
  PROVE  ServerTypes' /\ ServerPart'
<1>1. PICK sc \in ServerType, p \in PortalType : sc = scursor[s] /\ p = portal[s] /\ ServerHolds(sc, p)
  BY OneServer
<1>2. UNCHANGED <<txn, call, portal>>
  BY DEF yield_row, leave_loop
<1>3. ASSUME NEW pos \in Positions, NEW batch \in Nat, NEW strayed \in BOOLEAN, batch <= MaxRows,
             scursor' = [scursor EXCEPT ![s] =
               [sc EXCEPT !.pos = pos, !.batch = batch, !.strayed = strayed]],
             strayed \/ (~sc.strayed /\ pos + batch = sc.pos + sc.batch)
      PROVE  ServerTypes' /\ ServerPart'
  <2>1. PICK x : x = [sc EXCEPT !.pos = pos, !.batch = batch, !.strayed = strayed]
    OBVIOUS
  <2>2. x = [closed |-> sc.closed, described |-> sc.described, hold |-> sc.hold, pos |-> pos,
             batch |-> batch, strayed |-> strayed, inerror |-> sc.inerror]
    BY <2>1 DEF ServerType
  <2>3. x \in ServerType
    BY <2>2, BoundsAre DEF ServerType
  <2>4. scursor' = [scursor EXCEPT ![s] = x]
    BY <1>3, <2>1
  <2>5. ServerHolds(x, p)
    <3>1. /\ x.pos = pos /\ x.batch = batch /\ x.strayed = strayed /\ x.closed = sc.closed
          /\ x.described = sc.described /\ x.hold = sc.hold /\ x.inerror = sc.inerror
      BY <2>2
    <3> QED
      BY <1>1, <1>3, <3>1 DEF ServerHolds
  <2>6. /\ scursor' \in [ServerCursors -> ServerType] /\ scursor'[s] = x
        /\ \A t \in ServerCursors : t # s => scursor'[t] = scursor[t]
    BY <2>3, <2>4 DEF CursorsTyped
  <2>7. ServersHold'
    BY <1>1, <1>2, <2>5, <2>6 DEF ServerPart, ServersHold
  <2>8. PortalsHold'
    BY <1>2 DEF ServerPart, PortalsHold, Beginning
  <2> QED
    BY <1>2, <2>6, <2>7, <2>8 DEF ServerPart, ServerTypes, CursorsTyped
<1>4. sc.pos \in Positions /\ sc.batch \in Nat /\ sc.batch <= MaxRows /\ sc.strayed \in BOOLEAN
  BY <1>1 DEF ServerHolds, ServerType
<1>5. CASE yield_row(s)
  <2>1. /\ sc.batch > 0 /\ sc.pos + 1 \in Positions
        /\ scursor' = [scursor EXCEPT ![s] = [sc EXCEPT !.pos = sc.pos + 1, !.batch = sc.batch - 1]]
    BY <1>1, <1>5 DEF yield_row
  <2>2. [sc EXCEPT !.pos = sc.pos + 1, !.batch = sc.batch - 1] =
          [sc EXCEPT !.pos = sc.pos + 1, !.batch = sc.batch - 1, !.strayed = sc.strayed]
    BY DEF ServerType
  <2>3. /\ sc.batch - 1 \in Nat /\ sc.batch - 1 <= MaxRows
        /\ (sc.pos + 1) + (sc.batch - 1) = sc.pos + sc.batch
    BY <1>4, <2>1, BoundsAre
  <2> QED
    BY <1>3, <1>4, <2>1, <2>2, <2>3
<1>6. CASE leave_loop(s)
  <2>1. scursor' = [scursor EXCEPT ![s] = [sc EXCEPT !.batch = 0, !.strayed = TRUE]]
    BY <1>1, <1>6 DEF leave_loop
  <2>2. [sc EXCEPT !.batch = 0, !.strayed = TRUE] =
          [sc EXCEPT !.pos = sc.pos, !.batch = 0, !.strayed = TRUE]
    BY DEF ServerType
  <2>3. 0 \in Nat /\ 0 <= MaxRows
    BY BoundsAre
  <2>4. scursor' = [scursor EXCEPT ![s] =
          [sc EXCEPT !.pos = sc.pos, !.batch = 0, !.strayed = TRUE]]
    BY <2>1, <2>2
  <2> HIDE DEF leave_loop
  <2> QED
    BY <1>3, <1>4, <2>3, <2>4
<1> QED
  BY <1>5, <1>6

-----------------------------------------------------------------------------
(* The invariant of the cursors                                             *)

\* Calls that send nothing.
LEMMA CursorsFrame ==
  ASSUME CursorsTyped, ClientPart, call' \in CallType, UNCHANGED <<txn, flight, cursor>>,
         call' = call \/ (call.kind \in {"free", "notifies"} /\ call'.kind \in {"free", "notifies"})
  PROVE  ClientTypes' /\ ClientPart' /\ OpenHolds
<1>1. ClientTypes'
  BY DEF CursorsTyped, ClientTypes
<1>2. ClientsHold'
  BY DEF ClientPart, ClientsHold
<1>3. FlightHolds' /\ StreamHolds'
  BY DEF ClientPart, FlightHolds, StreamHolds
<1>4. OpenHolds
  BY DEF OpenHolds, Beginning
<1> QED
  BY <1>1, <1>2, <1>3, <1>4 DEF ClientPart

\* The client cursors keep what is known of the results and of the rows.
LEMMA ClientStep ==
  ASSUME CursorsTyped, ClientPart,
         \/ \E c \in ClientCursors : \/ execute(c) \/ executemany(c) \/ stream(c) \/ close(c)
                                     \/ fetch(c) \/ scroll(c) \/ nextset(c)
         \/ fetched \/ interrupt \/ stream_next \/ stream_leave \/ stream_drain
  PROVE  ClientTypes' /\ ClientPart' /\ OpenHolds /\ UNCHANGED <<scursor, portal>>
<1>1. UNCHANGED <<scursor, portal>>
  BY DEF execute, executemany, stream, close, fetch, scroll, nextset, fetched, interrupt,
         stream_next, stream_leave, stream_drain
<1>2. ASSUME NEW c \in ClientCursors, fetch(c) \/ scroll(c) \/ nextset(c) \/ close(c)
      PROVE  ClientTypes' /\ ClientPart' /\ OpenHolds
  <2>1. cursor' \in [ClientCursors -> ClientType] /\ ClientPart'
    BY <1>2, FetchHolds
  <2>2. UNCHANGED <<call, flight, txn>>
    BY <1>2 DEF fetch, scroll, nextset, close
  <2> QED
    BY <2>1, <2>2 DEF CursorsTyped, ClientTypes, OpenHolds, Beginning
<1>3. ASSUME NEW c \in ClientCursors, execute(c) \/ executemany(c) \/ stream(c)
      PROVE  ClientTypes' /\ ClientPart' /\ OpenHolds
  <2>1. CASE execute(c)
    BY <2>1, ExecuteHolds
  <2>2. CASE executemany(c)
    BY <2>2, ExecutemanyHolds
  <2>3. CASE stream(c)
    BY <2>3, StreamBegins
  <2> QED
    BY <1>3, <2>1, <2>2, <2>3
<1>4. CASE fetched \/ interrupt \/ stream_next \/ stream_leave \/ stream_drain
  BY <1>1, <1>4, FetchedHolds, InterruptHolds, StreamNextHolds, StreamLeftHolds
<1> QED
  BY <1>1, <1>2, <1>3, <1>4

\* The server cursors keep what is known of the portals.
LEMMA ServerStep ==
  ASSUME CursorsTyped, ClientPart, ServerPart,
         \/ \E s \in ServerCursors :
              \/ declare(s) \/ fetch_forward(s) \/ scroll_portal(s) \/ close_portal(s)
              \/ yield_row(s) \/ leave_loop(s)
         \/ end_transaction
  PROVE  /\ ServerTypes' /\ ServerPart' /\ cursor' = cursor /\ call' = call /\ flight' = flight
         /\ ClientPart'
<1>1. cursor' = cursor /\ call' = call /\ flight' = flight
  BY DEF declare, fetch_forward, scroll_portal, close_portal, yield_row, leave_loop,
         end_transaction
<1>2. ServerTypes' /\ ServerPart'
  BY DeclareHolds, FetchForwardHolds, ScrollPortalHolds, ClosePortalHolds,
     IterationHolds, EndHolds
<1>3. ClientPart'
  BY <1>1 DEF ClientPart, FlightHolds, ClientsHold, StreamHolds
<1> QED
  BY <1>1, <1>2, <1>3

\* notifies() leaves the results and the rows alone.
LEMMA NotifierStep ==
  ASSUME CursorsTyped, ClientPart,
         notify \/ notifies \/ notifies_wait \/ notifies_next \/ notifies_close
  PROVE  ClientTypes' /\ ClientPart' /\ OpenHolds /\ UNCHANGED <<scursor, portal>>
<1>1. UNCHANGED <<txn, flight, cursor, scursor, portal>> /\ call \in CallType
  BY DEF notify, notifies, notifies_wait, notifies_next, notifies_close, CursorsTyped
<1>2. /\ call' \in CallType
      /\ call' = call \/ (call.kind \in {"free", "notifies"} /\ call'.kind \in {"free", "notifies"})
  <2>1. CASE notify
    BY <1>1, <2>1 DEF notify
  <2>2. CASE notifies
    <3>1. /\ call.kind = "free"
          /\ call' = Called("notifies", "none", IF notifier.backlog = <<>> THEN "wait" ELSE "batch")
      BY <2>2 DEF notifies, Free
    <3> QED
      BY <3>1, CalledTyped DEF Kinds, Stages
  <2>3. CASE notifies_wait
    BY <1>1, <2>3 DEF notifies_wait, CallType, Stages
  <2>4. CASE notifies_next
    <3>1. call.kind = "notifies" /\ (call' = call \/ call' = Released \/ call' = [call EXCEPT !.stage = "wait"])
      BY <2>4 DEF notifies_next
    <3> QED
      BY <1>1, <3>1, ReleasedTyped DEF CallType, Stages
  <2>5. CASE notifies_close
    BY <2>5, ReleasedTyped DEF notifies_close
  <2> QED
    BY <2>1, <2>2, <2>3, <2>4, <2>5
<1> QED
  BY <1>1, <1>2, CursorsFrame

\* Every step keeps the invariant,
LEMMA CursorsInvNext == CursorsInv /\ [CursorsNext]_cursorsVars => CursorsInv'
<1> SUFFICES ASSUME CursorsInv, [CursorsNext]_cursorsVars PROVE CursorsInv'
  OBVIOUS
<1>1. CursorsTyped /\ ClientPart /\ ServerPart
  BY DEF CursorsInv, ClientPart, ServerPart
<1>2. autocommit' = autocommit
  BY DEF CursorsNext, cursorsVars, execute, executemany, stream, close, fetch, scroll, nextset,
         fetched, interrupt, stream_next, stream_leave, stream_drain, declare, fetch_forward,
         scroll_portal, close_portal, yield_row, leave_loop, end_transaction, notify, notifies, notifies_wait,
         notifies_next, notifies_close
<1>3. ASSUME ClientTypes', ClientPart', OpenHolds, UNCHANGED <<scursor, portal>>
      PROVE  CursorsInv'
  <2>1. ServerTypes' /\ ServerPart'
    BY <1>1, <1>3, ServerFrame DEF ClientTypes
  <2> QED
    BY <1>1, <1>2, <1>3, <2>1
    DEF CursorsInv, CursorsTyped, ClientTypes, ServerTypes, ClientPart, ServerPart
<1>4. CASE UNCHANGED cursorsVars
  <2>1. call \in CallType /\ UNCHANGED <<txn, flight, cursor, call, scursor, portal>>
    BY <1>1, <1>4 DEF cursorsVars, CursorsTyped
  <2> QED
    BY <1>1, <1>3, <2>1, CursorsFrame
<1>5. CASE \/ \E c \in ClientCursors : \/ execute(c) \/ executemany(c) \/ stream(c) \/ close(c)
                                       \/ fetch(c) \/ scroll(c) \/ nextset(c)
           \/ fetched \/ interrupt \/ stream_next \/ stream_leave \/ stream_drain
  BY <1>1, <1>3, <1>5, ClientStep
<1>6. CASE \/ \E s \in ServerCursors :
                \/ declare(s) \/ fetch_forward(s) \/ scroll_portal(s) \/ close_portal(s)
                \/ yield_row(s) \/ leave_loop(s)
           \/ end_transaction
  <2>1. /\ ServerTypes' /\ ServerPart' /\ cursor' = cursor /\ call' = call /\ flight' = flight
        /\ ClientPart'
    BY <1>1, <1>6, ServerStep
  <2> QED
    BY <1>1, <1>2, <2>1 DEF CursorsInv, CursorsTyped, ServerTypes, ClientPart, ServerPart
<1>7. CASE notify \/ notifies \/ notifies_wait \/ notifies_next \/ notifies_close
  BY <1>1, <1>3, <1>7, NotifierStep
<1> QED
  BY <1>4, <1>5, <1>6, <1>7 DEF CursorsNext

\* which holds at first,
LEMMA CursorsInvInit == CursorsInit => CursorsInv
<1> SUFFICES ASSUME CursorsInit PROVE CursorsInv
  OBVIOUS
<1>1. /\ cursor = [c \in ClientCursors |-> Reset] /\ call = Released /\ flight = <<>>
      /\ autocommit \in BOOLEAN /\ txn \in Status
  BY DEF CursorsInit, Status
<1>2. call \in CallType /\ call.kind = "free" /\ flight \in Seq(Results)
  BY <1>1, ReleasedTyped
<1>3. cursor \in [ClientCursors -> ClientType] /\ ClientsHold
  BY <1>1, ResetHolds DEF ClientsHold
<1>4. FlightHolds /\ StreamHolds
  BY <1>1, <1>2 DEF FlightHolds, StreamHolds
<1>5. PICK holding \in SUBSET (ServerCursors \cap used) :
        /\ scursor = [s \in ServerCursors |->
             [closed |-> FALSE, described |-> FALSE, hold |-> s \in holding, pos |-> 0,
              batch |-> 0, strayed |-> FALSE, inerror |-> FALSE]]
        /\ \/ txn = "IDLE" /\ portal = [s \in ServerCursors |-> NoPortal]
           \/ /\ txn = "INTRANS"
              /\ \E n \in 0..MaxRows : \E at \in 0..n :
                   portal = [s \in ServerCursors |->
                     IF s \in used THEN [Portal(n, s \in holding) EXCEPT !.at = at] ELSE NoPortal]
  BY DEF CursorsInit
<1>6. ASSUME NEW s \in ServerCursors
      PROVE  /\ scursor[s] \in ServerType /\ scursor[s].pos = 0 /\ ~scursor[s].closed
             /\ scursor[s].batch = 0
             /\ ~scursor[s].described
             /\ scursor[s].hold = (s \in holding)
  <2>1. scursor[s] = [closed |-> FALSE, described |-> FALSE, hold |-> (s \in holding), pos |-> 0,
                      batch |-> 0, strayed |-> FALSE, inerror |-> FALSE]
    BY <1>5
  <2>2. (s \in holding) \in BOOLEAN
    OBVIOUS
  <2>3. PICK h : h = (s \in holding)
    OBVIOUS
  <2>4. h \in BOOLEAN
    BY <2>2, <2>3
  <2>5. scursor[s] = [closed |-> FALSE, described |-> FALSE, hold |-> h, pos |-> 0,
                      batch |-> 0, strayed |-> FALSE, inerror |-> FALSE]
    BY <2>1, <2>3, Zenon
  <2>6. scursor[s] \in ServerType
    BY <2>4, <2>5 DEF ServerType
  <2>7. scursor[s].hold = h
    BY <2>5
  <2> QED
    BY <2>1, <2>3, <2>6, <2>7
<1>7. scursor \in [ServerCursors -> ServerType]
  BY <1>5, <1>6
<1>8. 0 \in Positions /\ 0 <= MaxRows
  BY BoundsAre
<1>9. CASE txn = "IDLE" /\ portal = [s \in ServerCursors |-> NoPortal]
  <2>1. portal \in [ServerCursors -> PortalType] /\ PortalsHold
    BY <1>9, NoPortalTyped DEF PortalsHold
  <2>2. ServersHold
    BY <1>6, <1>8, <1>9, GoneHolds DEF ServersHold
  <2> QED
    BY <1>1, <1>2, <1>3, <1>4, <1>7, <2>1, <2>2 DEF CursorsInv, CursorsTyped
<1>10. CASE /\ txn = "INTRANS"
            /\ \E n \in 0..MaxRows : \E at \in 0..n :
                 portal = [s \in ServerCursors |->
                   IF s \in used THEN [Portal(n, s \in holding) EXCEPT !.at = at] ELSE NoPortal]
  <2>1. PICK n \in 0..MaxRows : \E at \in 0..n :
          portal = [s \in ServerCursors |->
            IF s \in used THEN [Portal(n, s \in holding) EXCEPT !.at = at] ELSE NoPortal]
    BY <1>10
  <2>1a. PICK at \in 0..n :
          portal = [s \in ServerCursors |->
            IF s \in used THEN [Portal(n, s \in holding) EXCEPT !.at = at] ELSE NoPortal]
    BY <2>1
  <2>2. n \in Nat /\ at \in Nat /\ n <= MaxRows /\ at <= n
    BY BoundsAre
  <2>3. ASSUME NEW s \in ServerCursors
        PROVE  portal[s] \in PortalType /\ ServerHolds(scursor[s], portal[s])
    <3>1. CASE s \in used
      <4>1. portal[s] = [open |-> TRUE, hold |-> s \in holding, committed |-> FALSE, n |-> n, at |-> at]
        BY <2>1a, <3>1 DEF Portal
      <4>2. /\ portal[s] \in PortalType /\ portal[s].n = n /\ portal[s].at = at
            /\ portal[s].hold = scursor[s].hold
        <5>1. (s \in holding) \in BOOLEAN
          OBVIOUS
        <5>2. PICK h : h = (s \in holding)
          OBVIOUS
        <5>3. h \in BOOLEAN
          BY <5>1, <5>2
        <5>4. portal[s] = [open |-> TRUE, hold |-> h, committed |-> FALSE, n |-> n, at |-> at]
          BY <4>1, <5>2, Zenon
        <5>5. portal[s] \in PortalType /\ portal[s].n = n /\ portal[s].at = at /\ portal[s].hold = h
          BY <2>2, <5>3, <5>4 DEF PortalType
        <5>6. scursor[s].hold = h
          BY <1>6, <5>2
        <5> QED
          BY <5>5, <5>6
      <4>3. PICK p \in PortalType, sc \in ServerType : p = portal[s] /\ sc = scursor[s]
        BY <1>6, <4>2
      <4>5. ServerHolds(sc, p)
        <5>1. /\ sc.pos = 0 /\ sc.batch = 0 /\ ~sc.closed /\ ~sc.described /\ p.hold = sc.hold
              /\ p.at = at /\ p.n = n
          BY <1>6, <4>2, <4>3
        <5> QED
          BY <1>8, <2>2, <5>1 DEF ServerHolds
      <4> QED
        BY <4>2, <4>3, <4>5
    <3>2. CASE s \notin used
      <4>1. portal[s] = NoPortal
        BY <2>1a, <3>2
      <4> QED
        BY <1>6, <1>8, <4>1, NoPortalTyped, GoneHolds
    <3> QED
      BY <3>1, <3>2
  <2>4. portal \in [ServerCursors -> PortalType]
    BY <2>1a, <2>3
  <2>5. PortalsHold
    BY <1>2, <1>10 DEF PortalsHold, Beginning
  <2>6. ServersHold
    BY <2>3 DEF ServersHold
  <2> QED
    BY <1>1, <1>2, <1>3, <1>4, <1>7, <2>4, <2>5, <2>6 DEF CursorsInv, CursorsTyped
<1> QED
  BY <1>5, <1>9, <1>10

\* What the invariant says of the properties.
LEMMA CursorsInvKeeps ==
  CursorsInv => PositionsAgree /\ NothingInFlight /\ ClosedLeavesNothing /\ CursorsTypeOK
<1> SUFFICES ASSUME CursorsInv
             PROVE  PositionsAgree /\ NothingInFlight /\ ClosedLeavesNothing /\ CursorsTypeOK
  OBVIOUS
<1>1. CursorsTyped /\ FlightHolds /\ ClientsHold /\ ServersHold
  BY DEF CursorsInv
<1>2. \A c \in ClientCursors : ClientInOrder(c)
  <2> TAKE c \in ClientCursors
  <2>1. PICK cur \in ClientType : cur = cursor[c] /\ ClientHolds(cur)
    BY <1>1 DEF CursorsTyped, ClientsHold
  <2>2. Last(cur.given) = cur.given[Len(cur.given)]
    BY DEF Last
  <2> QED
    BY <2>1, <2>2 DEF ClientInOrder, ClientHolds
<1>3. \A s \in ServerCursors : scursor[s].strayed \/ Agrees(s)
  BY <1>1 DEF ServersHold, ServerHolds, Agrees, RowOf
<1>4. NothingInFlight
  BY <1>1 DEF NothingInFlight, FlightHolds, Free
<1>5. ClosedLeavesNothing
  BY <1>1 DEF ClosedLeavesNothing, ServersHold, ServerHolds
<1>6. txn \in {"IDLE", "INTRANS", "INERROR"} /\ call.kind \in {"free", "execute", "stream", "notifies"}
  BY <1>1 DEF CursorsTyped, Status, CallType, Kinds
<1>7. \A i \in 1..Len(flight) : (flight[i] = EndOfResults) = (i = Len(flight))
  <2>1. CASE flight = <<>>
    <3>1. Len(flight) = 0
      BY <2>1
    <3> QED
      BY <3>1
  <2>2. CASE flight # <<>>
    <3>1. Ended(flight)
      BY <1>1, <1>6, <2>2 DEF FlightHolds
    <3>2. PICK k \in Nat : k = Len(flight) /\ k >= 1
      BY <1>1, <3>1 DEF CursorsTyped, Ended
    <3>3. \A i \in 1..k : i = k \/ i \in 1..(k - 1)
      BY <3>2
    <3>4. \A i \in 1..(k - 1) : i # k /\ flight[i] # EndOfResults
      BY <3>1, <3>2, ResultsTyped DEF Ended
    <3> QED
      BY <3>1, <3>2, <3>3, <3>4 DEF Ended
  <2> QED
    BY <2>1, <2>2
<1>8. \A c \in ClientCursors : cursor[c].iresult \in 0..Len(cursor[c].results)
  BY <1>1 DEF ClientsHold, ClientHolds
<1>9. \A s \in ServerCursors : portal[s].at \in 0..(portal[s].n + 1)
                              /\ scursor[s].pos \in Positions /\ scursor[s].batch \in 0..MaxRows
  <2> TAKE s \in ServerCursors
  <2>1. PICK sc \in ServerType, p \in PortalType : sc = scursor[s] /\ p = portal[s] /\ ServerHolds(sc, p)
    BY <1>1 DEF CursorsTyped, ServersHold
  <2> QED
    BY <2>1, BoundsAre DEF ServerHolds, PortalType, ServerType
<1> QED
  BY <1>2, <1>3, <1>4, <1>5, <1>6, <1>7, <1>8, <1>9 DEF PositionsAgree, CursorsTypeOK

\* and therefore always.
LEMMA CursorsInvHolds == CursorsSpec => []CursorsInv
  BY CursorsInvInit, CursorsInvNext, PTL DEF CursorsSpec

\* Rows are given one after the other from where the cursor is, by fetches,
\* iteration, scroll() and nextset(), and by stream(); and a server cursor, with the
\* rows that an iteration over it has yet to yield, counts the rows its portal has
\* moved over, until it strays (the cases are with Positions in Cursors).
THEOREM CursorsCorrect == CursorsSpec => []PositionsAgree
  BY CursorsInvHolds, CursorsInvKeeps, PTL

\* Whoever takes the connection finds nothing in flight on it, whatever ended
\* the call before: its end, an error, an interrupt or a stream() left early.
THEOREM NothingLeftInFlight == CursorsSpec => []NothingInFlight
  BY CursorsInvHolds, CursorsInvKeeps, PTL

\* A server cursor that was closed outside of a failed transaction left no portal.
THEOREM PortalsAreClosed == CursorsSpec => []ClosedLeavesNothing
  BY CursorsInvHolds, CursorsInvKeeps, PTL
=============================================================================
