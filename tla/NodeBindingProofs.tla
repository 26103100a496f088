-------------------------- MODULE NodeBindingProofs --------------------------
(***************************************************************************)
(* What the binding guarantees for any wrappers, functions, numbers of     *)
(* calls and moments at which handles are collected: a store that was      *)
(* closed can be opened, a commit that succeeds is whole, and a read sees  *)
(* its own transaction.                                                    *)
(*                                                                         *)
(* The queue of a thread holds the calls that it has not served, in the    *)
(* order in which they were made (QueueInv), and a client that has one     *)
(* transaction at a time makes no call through a handle once it asked for  *)
(* the next transaction (ClientInv).  So whatever transaction is open when *)
(* a call through a handle is served is that of the handle, although the   *)
(* map cannot tell transactions apart (TransactionInv).                    *)
(***************************************************************************)
EXTENDS NodeBinding, SequenceTheorems, TLAPS

-----------------------------------------------------------------------------
(* The inductive invariant.                                                *)

Pending(w) == {queue[w][i].call : i \in 1..Len(queue[w])}
Served(w) == {c \in DOMAIN calls : calls[c].wrapper = w /\ c \notin Pending(w)}

\* A message of JavaScript at a position of a queue: its call waits, and is
\* older than those behind it and younger than those that were served.
MessageInv(w, i) ==
  LET c == queue[w][i].call
  IN /\ c \in DOMAIN calls
     /\ calls[c].wrapper = w /\ calls[c].kind = queue[w][i].kind
     /\ calls[c].state = "sent" /\ calls[c].ok = FALSE
     /\ \A j \in 1..Len(queue[w]) : i < j /\ queue[w][j].call # 0 => c < queue[w][j].call
     /\ \A d \in Served(w) : d < c

QueueInv ==
  \A w \in Wrappers : \A i \in 1..Len(queue[w]) :
    /\ queue[w][i].call = 0 => queue[w][i].kind = "abort"
    /\ queue[w][i].call # 0 => MessageInv(w, i)

\* What is on its way to JavaScript was served once and not yet delivered; a
\* close is answered by a thread that has ended.
RepliesInv ==
  \A w \in Wrappers : \A i \in 1..Len(replies[w]) :
    /\ replies[w][i] \in Served(w)
    /\ calls[replies[w][i]].state = "sent"
    /\ calls[replies[w][i]].kind = "close" => thread[w] = "closed"
    /\ \A j \in 1..Len(replies[w]) : i # j => replies[w][i] # replies[w][j]

\* While a wrapper that is clean opens the store no other thread can have it.
CleanInv ==
  /\ \A c \in DOMAIN calls : calls[c].kind = "close" /\ calls[c].state = "done"
                               => thread[calls[c].wrapper] = "closed"
  /\ \A w \in Wrappers : clean[w] /\ thread[w] = "opening" =>
       \A u \in Wrappers \ {w} : thread[u] \notin {"opening", "running", "closing"}

\* Calls through a handle come between the start of its transaction and the
\* next start, and a commit has a handle.
ClientInv ==
  /\ \A c \in DOMAIN calls : calls[c].kind = "commit" => calls[c].handle # None
  /\ \A h \in handles : calls[h].kind = "start" /\ calls[h].state = "done"
  /\ \A c \in DOMAIN calls : calls[c].handle # None => calls[c].handle < c
  /\ \A c, s \in DOMAIN calls :
       /\ calls[s].kind = "start" /\ calls[s].wrapper = calls[c].wrapper
       /\ calls[c].handle # None /\ calls[c].handle < s
       => c < s
  /\ \A s, t \in DOMAIN calls :
       /\ calls[s].kind = "start" /\ calls[t].kind = "start"
       /\ calls[s].wrapper = calls[t].wrapper /\ s < t
       => IsEnded(s)

\* The open transaction is that of the last start that was served, it was not
\* committed, and it holds what succeeded through its handle and nothing else.
OpenInv(w, s) ==
  /\ s \in Served(w)
  /\ \A t \in Starts(w) \cap Served(w) : t <= s
  /\ open[w].writes \subseteq Through(s)
  /\ \A c \in Through(s) : Writing(c) /\ calls[c].ok => c \in open[w].writes
  /\ Committing(s) = {}

TransactionInv ==
  \A w \in Wrappers : open[w] # None => \A s \in Starts(w) : open[w].start = s => OpenInv(w, s)

ThreadsInv == TypeOK /\ QueueInv /\ RepliesInv /\ CleanInv /\ ClientInv
FullInv ==
  /\ ThreadsInv /\ OpensAfterClose
  /\ TransactionInv /\ CommitsWhole /\ ReadsOwnTransaction

-----------------------------------------------------------------------------
(* Steps that change calls, queues and replies.                            *)

\* What a call is, without its result, is never changed.
SameCall(d) ==
  /\ calls'[d].wrapper = calls[d].wrapper /\ calls'[d].kind = calls[d].kind
  /\ calls'[d].fn = calls[d].fn /\ calls'[d].handle = calls[d].handle
  /\ calls'[d].apply = calls[d].apply
SameResult(d) == calls'[d].ok = calls[d].ok /\ calls'[d].seen = calls[d].seen

\* Calls are numbered from 1.
LEMMA CallsShape ==
    ASSUME TypeOK
    PROVE  /\ Len(calls) \in Nat /\ DOMAIN calls = 1..Len(calls)
           /\ \A c \in DOMAIN calls : calls[c] \in CallRecord
           /\ \A c \in DOMAIN calls : c \in Nat /\ c # 0
<1>1. calls \in Seq(CallRecord) BY DEF TypeOK
<1>2. Len(calls) \in Nat /\ DOMAIN calls = 1..Len(calls) /\ calls \in [1..Len(calls) -> CallRecord]
  BY <1>1, LenProperties
<1> QED BY <1>2

\* The first message of a queue is taken away.
LEMMA QueueTail ==
    ASSUME TypeOK, NEW w \in Wrappers, queue[w] # <<>>,
           queue' = [queue EXCEPT ![w] = Tail(queue[w])]
    PROVE  /\ queue' \in [Wrappers -> Seq(Message)]
           /\ \A u \in Wrappers : u # w => queue'[u] = queue[u]
           /\ Len(queue[w]) \in Nat /\ 1 <= Len(queue[w])
           /\ Head(queue[w]) = queue[w][1] /\ Head(queue[w]) \in Message
           /\ Len(queue'[w]) = Len(queue[w]) - 1
           /\ \A i \in 1..Len(queue'[w]) : queue'[w][i] = queue[w][i + 1]
<1>1. queue \in [Wrappers -> Seq(Message)] /\ queue[w] \in Seq(Message)
  BY DEF TypeOK
<1> DEFINE q == queue[w]
<1>2. q \in Seq(Message) /\ q # <<>> BY <1>1
<1>3. /\ Head(q) \in Message /\ Tail(q) \in Seq(Message)
      /\ Len(Tail(q)) = Len(q) - 1
      /\ \A i \in 1..Len(Tail(q)) : Tail(q)[i] = q[i + 1]
  BY <1>2, HeadTailProperties
<1>4. Len(q) \in Nat /\ Len(q) # 0
  BY <1>2, EmptySeq
<1>5. Head(q) = q[1]
  BY <1>2
<1>6. queue'[w] = Tail(q) /\ \A u \in Wrappers : u # w => queue'[u] = queue[u]
  BY <1>1
<1> HIDE DEF q
<1>7. queue' \in [Wrappers -> Seq(Message)]
  BY <1>1, <1>3 DEF q
<1>8. 1 <= Len(q) BY <1>4
<1>9. /\ Len(q) \in Nat /\ 1 <= Len(q)
      /\ Head(q) = q[1] /\ Head(q) \in Message
      /\ Len(queue'[w]) = Len(q) - 1
      /\ \A i \in 1..Len(queue'[w]) : queue'[w][i] = q[i + 1]
  BY <1>3, <1>4, <1>5, <1>6, <1>8
<1> QED BY <1>6, <1>7, <1>9 DEF q

\* A call gets its result.
LEMMA CallResult ==
    ASSUME TypeOK, NEW c \in DOMAIN calls, NEW ok \in BOOLEAN, NEW seen \in SUBSET Nat,
           calls' = [calls EXCEPT ![c].ok = ok, ![c].seen = seen]
    PROVE  /\ calls' \in Seq(CallRecord) /\ DOMAIN calls' = DOMAIN calls
           /\ \A d \in DOMAIN calls : SameCall(d) /\ calls'[d].state = calls[d].state
           /\ \A d \in DOMAIN calls : d # c => calls'[d] = calls[d]
           /\ calls'[c].ok = ok /\ calls'[c].seen = seen
<1> DEFINE r == [calls[c] EXCEPT !.ok = ok, !.seen = seen]
<1>0. calls \in Seq(CallRecord) BY DEF TypeOK
<1>1. calls[c] \in CallRecord /\ c \in 1..Len(calls)
  BY CallsShape
<1>2. r \in CallRecord
  BY <1>1 DEF CallRecord
<1>3. calls' = [calls EXCEPT ![c] = r]
  OBVIOUS
<1>4. /\ r.wrapper = calls[c].wrapper /\ r.kind = calls[c].kind /\ r.fn = calls[c].fn
      /\ r.handle = calls[c].handle /\ r.apply = calls[c].apply /\ r.state = calls[c].state
      /\ r.ok = ok /\ r.seen = seen
  BY <1>1 DEF CallRecord
<1> HIDE DEF r
<1>5. calls' \in Seq(CallRecord)
  <2>1. [calls EXCEPT ![c] = r] \in Seq(CallRecord)
    BY ONLY <1>0, <1>1, <1>2, ExceptSeq
  <2> QED BY <1>3, <2>1
<1>6. DOMAIN calls' = DOMAIN calls /\ \A d \in DOMAIN calls : calls'[d] = IF d = c THEN r ELSE calls[d]
  BY <1>3
<1> QED BY <1>4, <1>5, <1>6 DEF SameCall

\* The step of Answer: queue, calls and replies afterwards.
Answers(w, c, ok, seen) ==
  /\ queue' \in [Wrappers -> Seq(Message)] /\ replies' \in [Wrappers -> Seq(Nat)]
  /\ \A u \in Wrappers : u # w => queue'[u] = queue[u] /\ replies'[u] = replies[u]
  /\ Len(queue[w]) \in Nat /\ 1 <= Len(queue[w])
  /\ c = queue[w][1].call /\ c \in Nat /\ Head(queue[w]) = queue[w][1]
  /\ Len(queue'[w]) = Len(queue[w]) - 1
  /\ \A i \in 1..Len(queue'[w]) : queue'[w][i] = queue[w][i + 1]
  /\ calls' \in Seq(CallRecord) /\ DOMAIN calls' = DOMAIN calls
  /\ \A d \in DOMAIN calls : SameCall(d) /\ calls'[d].state = calls[d].state
  /\ \A d \in DOMAIN calls : d # c => calls'[d] = calls[d]
  /\ c # 0 => /\ c \in DOMAIN calls /\ calls'[c].ok = ok /\ calls'[c].seen = seen
              /\ replies'[w] = Append(replies[w], c)
  /\ c = 0 => replies'[w] = replies[w]

\* Answer as the proofs use it.
LEMMA AnswerStep ==
    ASSUME TypeOK, QueueInv, NEW w \in Wrappers, NEW kinds, Serves(w, kinds),
           NEW ok \in BOOLEAN, NEW seen \in SUBSET Nat, Answer(w, ok, seen)
    PROVE  Answers(w, Head(queue[w]).call, ok, seen)
<1> DEFINE c == Head(queue[w]).call
<1>1. queue[w] # <<>> /\ queue' = [queue EXCEPT ![w] = Tail(queue[w])]
  BY DEF Serves, Answer
<1>2. /\ queue' \in [Wrappers -> Seq(Message)]
      /\ \A u \in Wrappers : u # w => queue'[u] = queue[u]
      /\ Len(queue[w]) \in Nat /\ 1 <= Len(queue[w])
      /\ Head(queue[w]) = queue[w][1] /\ Head(queue[w]) \in Message
      /\ Len(queue'[w]) = Len(queue[w]) - 1
      /\ \A i \in 1..Len(queue'[w]) : queue'[w][i] = queue[w][i + 1]
  BY <1>1, QueueTail
<1>3. c \in Nat /\ c = queue[w][1].call
  BY <1>2 DEF Message
<1>4. /\ c # 0 => calls' = [calls EXCEPT ![c].ok = ok, ![c].seen = seen]
                    /\ replies' = [replies EXCEPT ![w] = Append(replies[w], c)]
      /\ c = 0 => calls' = calls /\ replies' = replies
  BY DEF Answer
<1>5. calls \in Seq(CallRecord) /\ replies \in [Wrappers -> Seq(Nat)] BY DEF TypeOK
<1> HIDE DEF c
<1>6. CASE c = 0
  BY <1>2, <1>3, <1>4, <1>5, <1>6 DEF Answers, SameCall, c
<1>7. CASE c # 0
  <2>1. 1 \in 1..Len(queue[w]) BY <1>2
  <2>2. c \in DOMAIN calls
    BY <1>3, <1>7, <2>1 DEF QueueInv, MessageInv
  <2>3. /\ calls' \in Seq(CallRecord) /\ DOMAIN calls' = DOMAIN calls
        /\ \A d \in DOMAIN calls : SameCall(d) /\ calls'[d].state = calls[d].state
        /\ \A d \in DOMAIN calls : d # c => calls'[d] = calls[d]
        /\ calls'[c].ok = ok /\ calls'[c].seen = seen
    BY <1>4, <1>7, <2>2, CallResult
  <2>4. replies[w] \in Seq(Nat) BY <1>5
  <2>5. Append(replies[w], c) \in Seq(Nat) BY <1>3, <2>4, AppendProperties
  <2>6. replies' \in [Wrappers -> Seq(Nat)]
    BY <1>4, <1>5, <1>7, <2>5
  <2>7. replies'[w] = Append(replies[w], c) /\ \A u \in Wrappers : u # w => replies'[u] = replies[u]
    BY <1>4, <1>5, <1>7
  <2> QED BY <1>2, <1>3, <1>7, <2>2, <2>3, <2>6, <2>7 DEF Answers, c
<1> QED BY <1>6, <1>7

\* A call that is answered joins those that were served.
LEMMA ServedByAnswer ==
    ASSUME TypeOK, QueueInv, NEW w \in Wrappers, NEW c, NEW ok, NEW seen, Answers(w, c, ok, seen)
    PROVE  /\ \A u \in Wrappers : u # w => Served(u)' = Served(u)
           /\ Served(w)' = Served(w) \cup ({c} \ {0})
           /\ c # 0 => MessageInv(w, 1)
           /\ \A i \in 1..Len(queue'[w]) : queue'[w][i].call # 0 => MessageInv(w, i + 1)
<1>0. c \in Nat /\ c = queue[w][1].call /\ Len(queue[w]) \in Nat /\ 1 <= Len(queue[w])
  BY DEF Answers
<1>1. DOMAIN calls' = DOMAIN calls /\ \A d \in DOMAIN calls : calls'[d].wrapper = calls[d].wrapper
  BY DEF Answers, SameCall
<1>2. \A u \in Wrappers : u # w => Served(u)' = Served(u)
  <2>1. SUFFICES ASSUME NEW u \in Wrappers, u # w PROVE Served(u)' = Served(u) OBVIOUS
  <2>2. queue'[u] = queue[u] BY <2>1 DEF Answers
  <2>3. Pending(u)' = Pending(u) BY <2>2 DEF Pending
  <2> QED BY <1>1, <2>3 DEF Served
<1>3. c # 0 => MessageInv(w, 1)
  <2>1. 1 \in 1..Len(queue[w]) BY <1>0
  <2> QED BY <1>0, <2>1 DEF QueueInv
<1>4. ASSUME NEW i \in 1..Len(queue'[w]), queue'[w][i].call # 0 PROVE MessageInv(w, i + 1)
  <2>1. i + 1 \in 1..Len(queue[w]) /\ queue'[w][i] = queue[w][i + 1]
    BY <1>0 DEF Answers
  <2> QED BY <1>4, <2>1 DEF QueueInv
<1>5. Pending(w) = Pending(w)' \cup {c}
  <2>1. ASSUME NEW i \in 1..Len(queue[w]) PROVE queue[w][i].call \in Pending(w)' \cup {c}
    <3>1. CASE i = 1 BY <1>0, <3>1
    <3>2. CASE i # 1
      <4>1. i - 1 \in 1..Len(queue'[w]) /\ queue'[w][i - 1] = queue[w][i]
        BY <1>0, <3>2 DEF Answers
      <4> QED BY <4>1 DEF Pending
    <3> QED BY <3>1, <3>2
  <2>2. ASSUME NEW i \in 1..Len(queue'[w]) PROVE queue'[w][i].call \in Pending(w)
    <3>1. i + 1 \in 1..Len(queue[w]) /\ queue'[w][i] = queue[w][i + 1]
      BY <1>0 DEF Answers
    <3> QED BY <3>1 DEF Pending
  <2>3. c \in Pending(w) BY <1>0 DEF Pending
  <2> QED BY <2>1, <2>2, <2>3 DEF Pending
<1>6. c # 0 => c \in DOMAIN calls /\ calls[c].wrapper = w /\ c \notin Pending(w)'
  <2>1. SUFFICES ASSUME c # 0 PROVE c \in DOMAIN calls /\ calls[c].wrapper = w /\ c \notin Pending(w)'
    OBVIOUS
  <2>2. c \in DOMAIN calls /\ calls[c].wrapper = w
    BY <1>0, <1>3, <2>1 DEF MessageInv
  <2>3. ASSUME NEW i \in 1..Len(queue'[w]), queue'[w][i].call = c PROVE FALSE
    <3>0. i + 1 \in 1..Len(queue[w]) /\ queue'[w][i] = queue[w][i + 1]
      BY <1>0 DEF Answers
    <3>1. i + 1 \in 1..Len(queue[w]) /\ queue'[w][i] = queue[w][i + 1] /\ 1 < i + 1
      BY <3>0
    <3>2. c < queue[w][i + 1].call
      BY <1>0, <1>3, <2>1, <2>3, <3>1 DEF MessageInv
    <3> QED BY <1>0, <2>3, <3>1, <3>2
  <2> QED BY <2>2, <2>3 DEF Pending
<1>7. Served(w)' = Served(w) \cup ({c} \ {0})
  <2>1. \A d \in DOMAIN calls : d # 0 BY CallsShape
  <2> QED BY <1>1, <1>5, <1>6, <2>1 DEF Served
<1> QED BY <1>2, <1>3, <1>4, <1>7

\* An answer leaves queues, replies and what the client may do as they should be.
LEMMA AnswerKeeps ==
    ASSUME ThreadsInv, NEW w \in Wrappers, NEW c, NEW ok, NEW seen, Answers(w, c, ok, seen),
           queue[w][1].kind # "close", UNCHANGED <<thread, clean, handles>>
    PROVE  QueueInv' /\ RepliesInv' /\ CleanInv' /\ ClientInv'
<1> USE DEF ThreadsInv
<1>0. /\ DOMAIN calls' = DOMAIN calls
      /\ \A d \in DOMAIN calls : SameCall(d) /\ calls'[d].state = calls[d].state
      /\ \A d \in DOMAIN calls : d # c => calls'[d] = calls[d]
  BY DEF Answers
<1>1. /\ \A u \in Wrappers : u # w => Served(u)' = Served(u)
      /\ Served(w)' = Served(w) \cup ({c} \ {0})
      /\ c # 0 => MessageInv(w, 1)
      /\ \A i \in 1..Len(queue'[w]) : queue'[w][i].call # 0 => MessageInv(w, i + 1)
  BY ServedByAnswer
<1>2. c = queue[w][1].call /\ c \in Nat /\ Len(queue[w]) \in Nat /\ 1 <= Len(queue[w])
  BY DEF Answers
<1>a. Len(queue'[w]) = Len(queue[w]) - 1 /\ \A j \in 1..Len(queue'[w]) : queue'[w][j] = queue[w][j + 1]
  BY DEF Answers
<1>b. \A j \in 1..Len(queue'[w]) : j + 1 \in 1..Len(queue[w]) /\ queue'[w][j] = queue[w][j + 1]
  BY <1>2, <1>a
<1>3. QueueInv'
  <2>1. ASSUME NEW u \in Wrappers, u # w, NEW i \in 1..Len(queue[u])
        PROVE  /\ queue[u][i].call = 0 => queue[u][i].kind = "abort"
               /\ queue[u][i].call # 0 => MessageInv(u, i)'
    <3>1. queue'[u] = queue[u] BY <2>1 DEF Answers
    <3>2. queue[u][i].call = 0 => queue[u][i].kind = "abort" BY DEF QueueInv
    <3>3. ASSUME queue[u][i].call # 0 PROVE MessageInv(u, i)'
      <4>1. MessageInv(u, i) BY <3>3 DEF QueueInv
      <4>2. queue[u][i].call # c
        BY <2>1, <3>3, <4>1, <1>1, <1>2 DEF MessageInv
      <4>3. calls'[queue[u][i].call] = calls[queue[u][i].call] BY <1>0, <4>1, <4>2 DEF MessageInv
      <4> QED BY <1>0, <1>1, <2>1, <3>1, <4>1, <4>3 DEF MessageInv
    <3> QED BY <3>2, <3>3
  <2>2. ASSUME NEW i \in 1..Len(queue'[w])
        PROVE  /\ queue'[w][i].call = 0 => queue'[w][i].kind = "abort"
               /\ queue'[w][i].call # 0 => MessageInv(w, i)'
    <3>1. i + 1 \in 1..Len(queue[w]) /\ queue'[w][i] = queue[w][i + 1]
      BY <1>b
    <3>2. queue'[w][i].call = 0 => queue'[w][i].kind = "abort" BY <3>1 DEF QueueInv
    <3>3. ASSUME queue'[w][i].call # 0 PROVE MessageInv(w, i)'
      <4> DEFINE m == queue'[w][i].call
      <4>1. MessageInv(w, i + 1) BY <1>1, <3>3
      <4>2. m = queue[w][i + 1].call /\ m \in DOMAIN calls BY <3>1, <4>1 DEF MessageInv
      <4>3. c # 0 => c < m
        <5>1. 1 < i + 1 BY <3>1
        <5> QED BY <1>1, <1>2, <3>1, <3>3, <4>2, <5>1 DEF MessageInv
      <4>4. m # c
        <5>1. m \in Nat BY <4>2, CallsShape
        <5> QED BY <1>2, <4>3, <3>3, <5>1
      <4>5. calls'[m] = calls[m] BY <1>0, <4>2, <4>4
      <4>6. /\ m \in DOMAIN calls' /\ calls'[m].wrapper = w /\ calls'[m].kind = queue'[w][i].kind
            /\ calls'[m].state = "sent" /\ calls'[m].ok = FALSE
        BY <1>0, <3>1, <4>1, <4>2, <4>5 DEF MessageInv
      <4>7. ASSUME NEW j \in 1..Len(queue'[w]), i < j, queue'[w][j].call # 0 PROVE m < queue'[w][j].call
        <5>0. j + 1 \in 1..Len(queue[w]) /\ queue'[w][j] = queue[w][j + 1]
          BY <1>b
        <5>1. i + 1 < j + 1 BY <4>7
        <5>2. queue[w][j + 1].call # 0 BY <4>7, <5>0
        <5>3. queue[w][i + 1].call < queue[w][j + 1].call
          BY <4>1, <5>0, <5>1, <5>2 DEF MessageInv
        <5> QED BY <4>2, <5>0, <5>3
      <4>8. \A d \in Served(w)' : d < m
        BY <1>1, <4>1, <4>2, <4>3 DEF MessageInv
      <4> QED BY <4>6, <4>7, <4>8 DEF MessageInv
    <3> QED BY <3>2, <3>3
  <2>3. \A u \in Wrappers : u # w => queue'[u] = queue[u] BY DEF Answers
  <2> QED BY <2>1, <2>2, <2>3 DEF QueueInv
<1>4. RepliesInv'
  <2>1. ASSUME NEW u \in Wrappers, NEW i \in 1..Len(replies[u])
        PROVE  /\ replies[u][i] \in Served(u)'
               /\ calls'[replies[u][i]].state = "sent"
               /\ calls'[replies[u][i]].kind = "close" => thread'[u] = "closed"
    <3>1. replies[u][i] \in Served(u) /\ replies[u][i] \in DOMAIN calls BY DEF RepliesInv, Served
    <3> QED BY <1>0, <1>1, <3>1 DEF RepliesInv, SameCall
  <2>2. ASSUME NEW u \in Wrappers, u # w PROVE replies'[u] = replies[u] BY <2>2 DEF Answers
  <2>3. ASSUME c # 0
        PROVE  \A i \in 1..Len(replies'[w]) :
                 /\ replies'[w][i] \in Served(w)'
                 /\ calls'[replies'[w][i]].state = "sent"
                 /\ calls'[replies'[w][i]].kind = "close" => thread'[w] = "closed"
                 /\ \A j \in 1..Len(replies'[w]) : i # j => replies'[w][i] # replies'[w][j]
    <3> DEFINE r == replies[w]
    <3>1. r \in Seq(Nat) /\ replies'[w] = Append(r, c) BY <2>3 DEF TypeOK, Answers
    <3>2. /\ Len(r) \in Nat /\ Len(replies'[w]) = Len(r) + 1
          /\ \A i \in 1..Len(r) : replies'[w][i] = r[i]
          /\ replies'[w][Len(r) + 1] = c
      BY <1>2, <3>1, AppendProperties, LenProperties
    <3>3. c \notin Served(w) /\ c \in Served(w)' /\ c \in DOMAIN calls
      <4>1. 1 \in 1..Len(queue[w]) BY <1>2
      <4> QED BY <1>1, <1>2, <2>3, <4>1 DEF Served, Pending, MessageInv
    <3>4. calls'[c].state = "sent" /\ calls'[c].kind # "close"
      BY <1>0, <1>1, <1>2, <2>3 DEF MessageInv, SameCall
    <3>5. \A i \in 1..Len(r) : r[i] # c /\ \A j \in 1..Len(r) : i # j => r[i] # r[j]
      BY <3>3 DEF RepliesInv
    <3> HIDE DEF r
    <3>6. \A i \in 1..Len(replies'[w]) : i \in 1..Len(r) \/ i = Len(r) + 1 BY <3>2
    <3>7. \A i \in 1..Len(r) : /\ r[i] \in Served(w)'
                               /\ calls'[r[i]].state = "sent"
                               /\ calls'[r[i]].kind = "close" => thread'[w] = "closed"
      BY <2>1 DEF r
    <3> QED BY <3>2, <3>3, <3>4, <3>5, <3>6, <3>7
  <2>4. \A u \in Wrappers : \A i, j \in 1..Len(replies[u]) : i # j => replies[u][i] # replies[u][j]
    BY DEF RepliesInv
  <2>5. c = 0 => replies'[w] = replies[w] BY DEF Answers
  <2> QED BY <2>1, <2>2, <2>3, <2>4, <2>5 DEF RepliesInv
<1>5. CleanInv'
  BY <1>0 DEF CleanInv, SameCall
<1>6. ClientInv'
  <2>1. \A s \in DOMAIN calls : IsEnded(s)' <=> IsEnded(s)
    BY <1>0 DEF IsEnded, SameCall
  <2>2. handles' = handles /\ handles \subseteq DOMAIN calls BY DEF TypeOK
  <2> QED BY <1>0, <2>1, <2>2 DEF ClientInv, SameCall
<1> QED BY <1>3, <1>4, <1>5, <1>6

-----------------------------------------------------------------------------
(* JavaScript makes a call.                                                *)

\* What a call may be: kind, function, handle and whether it is a dry run.
MayCall(w, kind, fn, h, apply) ==
  /\ kind \in Kinds /\ fn \in Functions \cup {NoFunction} /\ apply \in BOOLEAN
  /\ h \in HandlesOf(w) \cup {None} /\ (kind = "start" => h = None) /\ (kind = "commit" => h # None)

\* A message is put behind the others.
LEMMA QueueAppend ==
    ASSUME TypeOK, NEW w \in Wrappers, NEW m \in Message,
           queue' = [queue EXCEPT ![w] = Append(queue[w], m)]
    PROVE  /\ queue' \in [Wrappers -> Seq(Message)]
           /\ \A u \in Wrappers : u # w => queue'[u] = queue[u]
           /\ Len(queue[w]) \in Nat /\ Len(queue'[w]) = Len(queue[w]) + 1
           /\ \A i \in 1..Len(queue[w]) : queue'[w][i] = queue[w][i]
           /\ queue'[w][Len(queue[w]) + 1] = m
           /\ Pending(w)' = Pending(w) \cup {m.call}
<1> DEFINE q == queue[w]
<1>1. queue \in [Wrappers -> Seq(Message)] /\ q \in Seq(Message)
  BY DEF TypeOK
<1>2. queue'[w] = Append(q, m) /\ \A u \in Wrappers : u # w => queue'[u] = queue[u]
  BY <1>1
<1>3. /\ Append(q, m) \in Seq(Message) /\ Len(Append(q, m)) = Len(q) + 1
      /\ \A i \in 1..Len(q) : Append(q, m)[i] = q[i]
      /\ Append(q, m)[Len(q) + 1] = m
  BY <1>1, AppendProperties
<1>4. Len(q) \in Nat BY <1>1, LenProperties
<1>5. queue' \in [Wrappers -> Seq(Message)]
  BY <1>1, <1>3
<1>6. /\ Len(q) \in Nat /\ Len(queue'[w]) = Len(q) + 1
      /\ \A i \in 1..Len(q) : queue'[w][i] = q[i]
      /\ queue'[w][Len(q) + 1] = m
  BY <1>2, <1>3, <1>4
<1>7. Pending(w)' = Pending(w) \cup {m.call}
  <2> HIDE DEF q
  <2>1. \A i : i \in 1..Len(queue'[w]) <=> i \in 1..Len(q) \/ i = Len(q) + 1
    BY <1>6
  <2>2. Pending(w) = {q[i].call : i \in 1..Len(q)} BY DEF Pending, q
  <2>3. Pending(w)' = {queue'[w][i].call : i \in 1..Len(queue'[w])} BY DEF Pending
  <2>4. ASSUME NEW x \in Pending(w)' PROVE x \in Pending(w) \cup {m.call}
    BY <1>6, <2>1, <2>2, <2>3
  <2>5. ASSUME NEW x \in Pending(w) \cup {m.call} PROVE x \in Pending(w)'
    BY <1>6, <2>1, <2>2, <2>3
  <2> QED BY <2>4, <2>5
<1> QED BY <1>2, <1>5, <1>6, <1>7

\* The call c is made: it has no result, and waits behind all others.
Made(w, c, kind, fn, h) ==
  /\ c = Len(calls) + 1 /\ c \in Nat /\ c \notin DOMAIN calls
  /\ \A d \in DOMAIN calls : d < c
  /\ calls' \in Seq(CallRecord) /\ DOMAIN calls' = DOMAIN calls \cup {c}
  /\ \A d \in DOMAIN calls : calls'[d] = calls[d]
  /\ calls'[c].wrapper = w /\ calls'[c].kind = kind /\ calls'[c].fn = fn /\ calls'[c].handle = h
  /\ calls'[c].state = "sent" /\ calls'[c].ok = FALSE /\ calls'[c].seen = {}
  /\ \A u \in Wrappers : Served(u)' = Served(u)

\* Call as the proofs use it.
LEMMA CallStep ==
    ASSUME TypeOK, QueueInv, NEW w \in Wrappers, NEW kind, NEW fn, NEW h, NEW apply,
           MayCall(w, kind, fn, h, apply), Call(w, kind, fn, h, apply)
    PROVE  /\ Made(w, Len(calls) + 1, kind, fn, h)
           /\ [kind |-> kind, handle |-> h, call |-> Len(calls) + 1] \in Message
<1> DEFINE c == Len(calls) + 1
           r == [wrapper |-> w, kind |-> kind, fn |-> fn, handle |-> h, apply |-> apply,
                 state |-> "sent", ok |-> FALSE, seen |-> {}]
           m == [kind |-> kind, handle |-> h, call |-> c]
<1>1. Len(calls) \in Nat /\ DOMAIN calls = 1..Len(calls) /\ calls \in Seq(CallRecord)
  BY CallsShape DEF TypeOK
<1>2. h \in Nat \cup {None}
  <2>1. handles \subseteq DOMAIN calls BY DEF TypeOK
  <2> QED BY <1>1, <2>1 DEF MayCall, HandlesOf
<1>3. r \in CallRecord /\ m \in Message
  BY <1>1, <1>2 DEF CallRecord, Message, MayCall
<1>4. calls' = Append(calls, r) /\ queue' = [queue EXCEPT ![w] = Append(queue[w], m)]
  BY DEF Call
<1>5. /\ r.wrapper = w /\ r.kind = kind /\ r.fn = fn /\ r.handle = h
      /\ r.state = "sent" /\ r.ok = FALSE /\ r.seen = {} /\ m.call = c
  OBVIOUS
<1>6. c \in Nat /\ c \notin DOMAIN calls /\ \A d \in DOMAIN calls : d < c
  BY <1>1
<1> HIDE DEF r, m
<1>7. /\ calls' \in Seq(CallRecord) /\ Len(calls') = Len(calls) + 1
      /\ \A i \in 1..Len(calls) : calls'[i] = calls[i]
      /\ calls'[c] = r
  BY <1>1, <1>3, <1>4, AppendProperties
<1>8. DOMAIN calls' = DOMAIN calls \cup {c}
  <2>1. DOMAIN calls' = 1..Len(calls') BY <1>7, LenProperties
  <2> QED BY <1>1, <1>7, <2>1
<1>9. Pending(w)' = Pending(w) \cup {c} /\ \A u \in Wrappers : u # w => queue'[u] = queue[u]
  <2>1. Pending(w)' = Pending(w) \cup {m.call} /\ \A u \in Wrappers : u # w => queue'[u] = queue[u]
    BY <1>3, <1>4, QueueAppend
  <2> QED BY <1>5, <2>1
<1> HIDE DEF c
<1>10. \A u \in Wrappers : Served(u)' = Served(u)
  <2> TAKE u \in Wrappers
  <2>1. \A d \in DOMAIN calls : calls'[d] = calls[d] BY <1>1, <1>7
  <2>2. CASE u = w
    <3>1. Served(w)' = {d \in DOMAIN calls \cup {c} : calls'[d].wrapper = w /\ d \notin Pending(w) \cup {c}}
      BY <1>8, <1>9 DEF Served
    <3> QED BY <2>1, <2>2, <1>6, <3>1 DEF Served
  <2>3. CASE u # w
    <3>1. Served(u)' = {d \in DOMAIN calls \cup {c} : calls'[d].wrapper = u /\ d \notin Pending(u)}
      BY <1>8, <1>9, <2>3 DEF Served, Pending
    <3>2. calls'[c].wrapper # u BY <1>5, <1>7, <2>3
    <3> QED BY <2>1, <3>1, <3>2 DEF Served
  <2> QED BY <2>2, <2>3
<1>11. \A d \in DOMAIN calls : calls'[d] = calls[d] BY <1>1, <1>7
<1>12. Made(w, c, kind, fn, h)
  BY <1>5, <1>6, <1>7, <1>8, <1>10, <1>11 DEF Made, c
<1> QED BY <1>3, <1>12 DEF c, m

\* Queues stay in order when a message is put behind the others.
LEMMA CallQueue ==
    ASSUME ThreadsInv, NEW w \in Wrappers, NEW kind, NEW fn, NEW h, NEW apply,
           MayCall(w, kind, fn, h, apply), Call(w, kind, fn, h, apply)
    PROVE  QueueInv'
<1> USE DEF ThreadsInv
<1> DEFINE c == Len(calls) + 1
           m == [kind |-> kind, handle |-> h, call |-> c]
<1>1. Made(w, c, kind, fn, h) /\ m \in Message
  BY CallStep
<1>2. queue' = [queue EXCEPT ![w] = Append(queue[w], m)] BY DEF Call
<1>3. m.call = c /\ m.kind = kind OBVIOUS
<1>3a. c # 0 BY CallsShape
<1> HIDE DEF c, m
<1>4. /\ \A u \in Wrappers : u # w => queue'[u] = queue[u]
      /\ Len(queue[w]) \in Nat /\ Len(queue'[w]) = Len(queue[w]) + 1
      /\ \A i \in 1..Len(queue[w]) : queue'[w][i] = queue[w][i]
      /\ queue'[w][Len(queue[w]) + 1] = m
  BY <1>1, <1>2, QueueAppend
<1>5. /\ \A u \in Wrappers : Served(u)' = Served(u)
      /\ \A d \in DOMAIN calls : calls'[d] = calls[d] /\ d \in DOMAIN calls' /\ d < c
  BY <1>1 DEF Made
<1>6. ASSUME NEW u \in Wrappers, u # w PROVE \A i \in 1..Len(queue'[u]) :
         /\ queue'[u][i].call = 0 => queue'[u][i].kind = "abort"
         /\ queue'[u][i].call # 0 => MessageInv(u, i)'
  <2>1. queue'[u] = queue[u] BY <1>4, <1>6
  <2> QED BY <1>5, <2>1 DEF QueueInv, MessageInv
<1>7. ASSUME NEW i \in 1..Len(queue[w])
      PROVE  /\ queue'[w][i].call = 0 => queue'[w][i].kind = "abort"
             /\ queue'[w][i].call # 0 => MessageInv(w, i)'
  <2>1. queue'[w][i] = queue[w][i] BY <1>4
  <2>2. queue'[w][i].call = 0 => queue'[w][i].kind = "abort" BY <2>1 DEF QueueInv
  <2>3. ASSUME queue'[w][i].call # 0 PROVE MessageInv(w, i)'
    <3> DEFINE x == queue[w][i].call
    <3>1. MessageInv(w, i) /\ queue'[w][i].call = x BY <2>1, <2>3 DEF QueueInv
    <3>2. x \in DOMAIN calls /\ x < c /\ calls'[x] = calls[x] /\ x \in DOMAIN calls'
      BY <1>5, <3>1 DEF MessageInv
    <3>3. ASSUME NEW j \in 1..Len(queue'[w]), i < j, queue'[w][j].call # 0 PROVE x < queue'[w][j].call
      <4>1. j \in 1..Len(queue[w]) \/ j = Len(queue[w]) + 1 BY <1>4
      <4>2. CASE j \in 1..Len(queue[w])
        BY <1>4, <3>1, <3>3, <4>2 DEF MessageInv
      <4>3. CASE j = Len(queue[w]) + 1
        BY <1>3, <1>4, <3>2, <4>3
      <4> QED BY <4>1, <4>2, <4>3
    <3> QED BY <1>5, <2>1, <3>1, <3>2, <3>3 DEF MessageInv
  <2> QED BY <2>2, <2>3
<1>n. PICK n \in Nat : n = Len(queue[w]) + 1 BY <1>4
<1>8. MessageInv(w, n)'
  <2>1. queue'[w][n].call = c /\ queue'[w][n].kind = kind BY <1>3, <1>4, <1>n
  <2>2. /\ c \in DOMAIN calls' /\ calls'[c].wrapper = w /\ calls'[c].kind = kind
        /\ calls'[c].state = "sent" /\ calls'[c].ok = FALSE
    BY <1>1 DEF Made
  <2>3. \A j \in 1..Len(queue'[w]) : ~ (n < j) BY <1>4, <1>n
  <2>4. \A d \in Served(w)' : d < c BY <1>5 DEF Served
  <2> QED BY <2>1, <2>2, <2>3, <2>4 DEF MessageInv
<1>9. \A i \in 1..Len(queue'[w]) : i \in 1..Len(queue[w]) \/ i = Len(queue[w]) + 1
  BY <1>4
<1>10. ASSUME NEW i \in 1..Len(queue'[w])
       PROVE  /\ queue'[w][i].call = 0 => queue'[w][i].kind = "abort"
              /\ queue'[w][i].call # 0 => MessageInv(w, i)'
  <2>1. CASE i \in 1..Len(queue[w]) BY <1>7, <2>1
  <2>2. CASE i = Len(queue[w]) + 1
    <3>1. queue'[w][i].call # 0 BY <1>3, <1>3a, <1>4, <2>2
    <3> QED BY <1>8, <1>n, <2>2, <3>1
  <2> QED BY <1>9, <2>1, <2>2
<1> QED BY <1>6, <1>10 DEF QueueInv

\* A call that is made disturbs no answer and keeps the order of the client's
\* calls.
LEMMA CallThreads ==
    ASSUME ThreadsInv, NEW w \in Wrappers, NEW kind, NEW fn, NEW h, NEW apply,
           MayCall(w, kind, fn, h, apply), Call(w, kind, fn, h, apply)
    PROVE  ThreadsInv'
<1> USE DEF ThreadsInv
<1> DEFINE c == Len(calls) + 1
<1>0. Made(w, c, kind, fn, h) BY CallStep
<1> HIDE DEF c
<1>1. /\ c \in Nat /\ c \notin DOMAIN calls /\ \A d \in DOMAIN calls : d < c
      /\ DOMAIN calls' = DOMAIN calls \cup {c}
      /\ \A d \in DOMAIN calls : calls'[d] = calls[d]
      /\ calls'[c].wrapper = w /\ calls'[c].kind = kind /\ calls'[c].handle = h
      /\ calls'[c].state = "sent" /\ calls'[c].ok = FALSE /\ calls'[c].seen = {}
      /\ \A u \in Wrappers : Served(u)' = Served(u)
  BY <1>0 DEF Made
<1>2. UNCHANGED <<thread, held, clean, owner, open, replies, handles, committed>> /\ Orderly(w, kind, h)
  BY DEF Call
<1>3. handles \subseteq DOMAIN calls /\ committed \subseteq DOMAIN calls BY DEF TypeOK
<1>4. h = None \/ (h \in handles /\ calls[h].wrapper = w)
  BY DEF MayCall, HandlesOf
<1>5. kind = "start" => h = None BY DEF MayCall
<1>6. TypeOK'
  <2>1. \A u \in Wrappers : Starts(u) \subseteq Starts(u)'
    BY <1>1 DEF Starts
  <2>2. queue' \in [Wrappers -> Seq(Message)]
    BY CallStep, QueueAppend DEF Call
  <2>3. \A d \in DOMAIN calls' : calls'[d].seen \subseteq DOMAIN calls'
    BY <1>1 DEF TypeOK
  <2>4. h # None => h \in Starts(w)
    BY <1>3, <1>4 DEF ClientInv, Starts
  <2>5. \A d \in DOMAIN calls' : 
          calls'[d].handle # None =>
            /\ calls'[d].handle \in DOMAIN calls'
            /\ calls'[calls'[d].handle].wrapper = calls'[d].wrapper
            /\ calls'[calls'[d].handle].kind = "start"
    <3> TAKE d \in DOMAIN calls'
    <3>1. CASE d = c BY <1>1, <2>4, <3>1 DEF Starts
    <3>2. CASE d \in DOMAIN calls
      <4>1. calls[d].handle # None => calls[d].handle \in Starts(calls[d].wrapper) BY <3>2 DEF TypeOK
      <4> QED BY <1>1, <3>2, <4>1 DEF Starts
    <3> QED BY <1>1, <3>1, <3>2
  <2>6. \A u \in Wrappers : open'[u] # None => thread'[u] = "running" /\ open'[u].start \in Starts(u)'
    BY <1>2, <2>1 DEF TypeOK
  <2>7. calls' \in Seq(CallRecord) BY <1>0 DEF Made
  <2>8. handles' \subseteq DOMAIN calls' /\ committed' \subseteq DOMAIN calls'
    BY <1>1, <1>2, <1>3
  <2>9. \A d \in DOMAIN calls' : calls'[d].handle # None =>
          calls'[d].handle \in {s \in DOMAIN calls' : calls'[s].wrapper = calls'[d].wrapper /\ calls'[s].kind = "start"}
    BY <2>5
  <2> QED BY <1>2, <2>2, <2>3, <2>6, <2>7, <2>8, <2>9 DEF TypeOK, Starts
<1>7. QueueInv' BY CallQueue
<1>8. RepliesInv'
  <2>1. \A u \in Wrappers : \A i \in 1..Len(replies[u]) : calls'[replies[u][i]] = calls[replies[u][i]]
    BY <1>1 DEF RepliesInv, Served
  <2> QED BY <1>1, <1>2, <2>1 DEF RepliesInv
<1>9. CleanInv' BY <1>1, <1>2 DEF CleanInv
<1>10. ClientInv'
  <2>0. \A d \in DOMAIN calls' : calls'[d].kind = "commit" => calls'[d].handle # None
    BY <1>1 DEF ClientInv, MayCall
  <2>1. \A s \in DOMAIN calls : IsEnded(s) => IsEnded(s)'
    BY <1>1, <1>2 DEF IsEnded
  <2>2. \A x \in handles' : calls'[x].kind = "start" /\ calls'[x].state = "done"
    BY <1>1, <1>2, <1>3 DEF ClientInv
  <2>3. \A d \in DOMAIN calls' : calls'[d].handle # None => calls'[d].handle < d
    BY <1>1, <1>3, <1>4 DEF ClientInv
  <2>4. ASSUME NEW d \in DOMAIN calls', NEW s \in DOMAIN calls',
               calls'[s].kind = "start", calls'[s].wrapper = calls'[d].wrapper,
               calls'[d].handle # None, calls'[d].handle < s
        PROVE  d < s
    <3>1. CASE d \in DOMAIN calls /\ s \in DOMAIN calls
      BY <1>1, <2>4, <3>1 DEF ClientInv
    <3>2. CASE d \in DOMAIN calls /\ s = c
      BY <1>1, <3>2
    <3>3. CASE d = c /\ s = c
      BY <1>1, <1>5, <2>4, <3>3
    <3>4. CASE d = c /\ s \in DOMAIN calls
      <4>1. h \in handles /\ h \in DOMAIN calls /\ calls[h].wrapper = w /\ h < s
        BY <1>1, <1>3, <1>4, <2>4, <3>4
      <4>2. calls[h].kind = "start" /\ calls[s].kind = "start" /\ calls[s].wrapper = w
        BY <1>1, <2>4, <3>4, <4>1 DEF ClientInv
      <4>3. IsEnded(h) BY <3>4, <4>1, <4>2 DEF ClientInv
      <4>4. ~ IsEnded(h) BY <1>1, <1>2, <2>4, <3>4 DEF Orderly
      <4> QED BY <4>3, <4>4
    <3> QED BY <1>1, <3>1, <3>2, <3>3, <3>4
  <2>5. ASSUME NEW s \in DOMAIN calls', NEW t \in DOMAIN calls',
               calls'[s].kind = "start", calls'[t].kind = "start",
               calls'[s].wrapper = calls'[t].wrapper, s < t
        PROVE  IsEnded(s)'
    <3>1. \A d \in DOMAIN calls : ~ (c < d) BY <1>1, CallsShape
    <3>2. s \in DOMAIN calls BY <1>1, <2>5, <3>1
    <3>3. IsEnded(s)
      <4>1. CASE t \in DOMAIN calls BY <1>1, <2>5, <3>2, <4>1 DEF ClientInv
      <4>2. CASE t = c
        <5>1. kind = "start" /\ s \in Starts(w) BY <1>1, <2>5, <3>2, <4>2 DEF Starts
        <5> QED BY <1>2, <5>1 DEF Orderly
      <4> QED BY <1>1, <4>1, <4>2
    <3> QED BY <2>1, <3>2, <3>3
  <2> QED BY <2>0, <2>2, <2>3, <2>4, <2>5 DEF ClientInv
<1> QED BY <1>6, <1>7, <1>8, <1>9, <1>10

-----------------------------------------------------------------------------
(* Transactions and what the store holds.                                  *)

Results == TransactionInv /\ CommitsWhole /\ ReadsOwnTransaction

\* A call through a handle is one of the handle's wrapper.
LEMMA ThroughWrapper ==
    ASSUME TypeOK, NEW w \in Wrappers, NEW h \in Starts(w), NEW c \in DOMAIN calls, calls[c].handle = h
    PROVE  calls[c].wrapper = w /\ h # None
<1>1. h \in DOMAIN calls /\ h \in Nat /\ calls[h].wrapper = w
  BY CallsShape DEF Starts
<1>2. h # None BY <1>1, NoneAssumption
<1>3. h \in Starts(calls[c].wrapper) BY <1>2 DEF TypeOK
<1> QED BY <1>1, <1>2, <1>3 DEF Starts

\* Steps that give no result to a function or a commit and write nothing to the
\* store.
LEMMA StoreKept ==
    ASSUME TypeOK, CommitsWhole, ReadsOwnTransaction,
           DOMAIN calls' = DOMAIN calls, committed' = committed,
           \A d \in DOMAIN calls : SameCall(d),
           \A d \in DOMAIN calls : calls[d].kind \in {"callback", "commit"} =>
             calls'[d].ok = calls[d].ok /\ (calls[d].ok => calls'[d].seen = calls[d].seen)
    PROVE  CommitsWhole' /\ ReadsOwnTransaction'
<1>1. \A u \in Wrappers : Starts(u)' = Starts(u)
  BY DEF Starts, SameCall
<1>2. \A h : Through(h)' = Through(h)
  BY DEF Through, SameCall
<1>3. \A c \in DOMAIN calls : Writing(c)' <=> Writing(c)
  BY DEF Writing, SameCall
<1>4. \A h : Committing(h)' = Committing(h)
  <2> TAKE h
  <2>1. \A c \in DOMAIN calls : calls'[c].handle = calls[c].handle /\ calls'[c].kind = calls[c].kind
    BY DEF SameCall
  <2>2. \A c \in DOMAIN calls : calls[c].kind = "commit" => calls'[c].ok = calls[c].ok
    OBVIOUS
  <2> QED BY <2>1, <2>2 DEF Committing
<1>5. \A h : \A c \in Through(h) : c \in DOMAIN calls /\ calls[c].kind = "callback" /\ calls'[c].ok = calls[c].ok
  BY DEF Through
<1>7. CommitsWhole'
  <2> SUFFICES ASSUME NEW w \in Wrappers, NEW h \in Starts(w)
               PROVE  IF Committing(h)' # {}
                      THEN \A c \in Through(h)' : Writing(c)' /\ calls'[c].ok => c \in committed'
                      ELSE Through(h)' \cap committed' = {}
    BY <1>1 DEF CommitsWhole
  <2> QED BY <1>2, <1>3, <1>4, <1>5 DEF CommitsWhole
<1>8. ReadsOwnTransaction'
  <2> SUFFICES ASSUME NEW c \in DOMAIN calls,
                      calls'[c].ok, calls'[c].kind = "callback", calls'[c].fn.effect = "read",
                      calls'[c].fn.transaction = "optional"
               PROVE  /\ \A d \in DOMAIN calls' :
                           calls'[d].handle = calls'[c].handle /\ calls'[d].kind = "callback" =>
                           (calls'[c].handle # None /\ d < c /\ calls'[d].ok /\ Writing(d)' => d \in calls'[c].seen)
                      /\ \A d \in calls'[c].seen : calls'[d].handle # calls'[c].handle => d \in committed'
    BY DEF ReadsOwnTransaction, Through
  <2>1. /\ calls[c].kind = "callback" /\ calls[c].ok /\ calls[c].fn.effect = "read"
        /\ calls[c].fn.transaction = "optional" /\ calls'[c].seen = calls[c].seen
    BY DEF SameCall
  <2>2. /\ \A d \in Through(calls[c].handle) :
             calls[c].handle # None /\ d < c /\ calls[d].ok /\ Writing(d) => d \in calls[c].seen
        /\ \A d \in calls[c].seen : calls[d].handle # calls[c].handle => d \in committed
    BY <2>1 DEF ReadsOwnTransaction
  <2>3. calls[c].seen \subseteq DOMAIN calls BY DEF TypeOK
  <2>4. \A d \in DOMAIN calls : calls'[d].handle = calls[d].handle /\ calls'[d].kind = calls[d].kind
    BY DEF SameCall
  <2>5. \A d \in DOMAIN calls : calls[d].kind = "callback" => calls'[d].ok = calls[d].ok
    OBVIOUS
  <2>6. ASSUME NEW d \in DOMAIN calls', calls'[d].handle = calls'[c].handle, calls'[d].kind = "callback",
               calls'[c].handle # None, d < c, calls'[d].ok, Writing(d)'
        PROVE  d \in calls'[c].seen
    <3>1. d \in Through(calls[c].handle) /\ calls[d].ok /\ Writing(d) /\ calls[c].handle # None
      BY <1>3, <2>4, <2>5, <2>6 DEF Through
    <3> QED BY <2>1, <2>2, <2>6, <3>1
  <2>7. \A d \in calls'[c].seen : calls'[d].handle # calls'[c].handle => d \in committed'
    BY <2>1, <2>2, <2>3, <2>4
  <2> QED BY <2>6, <2>7
<1> QED BY <1>7, <1>8

\* Such steps when they only leave or drop open transactions.
LEMMA ResultsKept ==
    ASSUME TypeOK, Results,
           DOMAIN calls' = DOMAIN calls, committed' = committed,
           \A d \in DOMAIN calls : SameCall(d),
           \A d \in DOMAIN calls : calls[d].kind \in {"callback", "commit"} =>
             calls'[d].ok = calls[d].ok /\ (calls[d].ok => calls'[d].seen = calls[d].seen),
           \A u \in Wrappers : open'[u] # None =>
             /\ open'[u] = open[u] /\ Served(u) \subseteq Served(u)'
             /\ Starts(u) \cap Served(u)' \subseteq Served(u)
    PROVE  Results'
<1> USE DEF Results
<1>1. \A u \in Wrappers : Starts(u)' = Starts(u)
  BY DEF Starts, SameCall
<1>2. \A h : Through(h)' = Through(h)
  BY DEF Through, SameCall
<1>3. \A c \in DOMAIN calls : Writing(c)' <=> Writing(c)
  BY DEF Writing, SameCall
<1>4. \A h : Committing(h)' = Committing(h)
  <2> TAKE h
  <2>1. \A c \in DOMAIN calls : calls'[c].handle = calls[c].handle /\ calls'[c].kind = calls[c].kind
    BY DEF SameCall
  <2>2. \A c \in DOMAIN calls : calls[c].kind = "commit" => calls'[c].ok = calls[c].ok
    OBVIOUS
  <2> QED BY <2>1, <2>2 DEF Committing
<1>5. \A h : \A c \in Through(h) : c \in DOMAIN calls /\ calls[c].kind = "callback" /\ calls'[c].ok = calls[c].ok
  BY DEF Through
<1>6. TransactionInv'
  <2> SUFFICES ASSUME NEW w \in Wrappers, open'[w] # None, NEW s \in Starts(w), open'[w].start = s
               PROVE  OpenInv(w, s)'
    BY <1>1 DEF TransactionInv
  <2>1. open'[w] = open[w] /\ OpenInv(w, s)
    BY DEF TransactionInv
  <2>2. s \in Served(w)' /\ \A t \in Starts(w)' \cap Served(w)' : t <= s
    BY <1>1, <2>1 DEF OpenInv
  <2>3. open'[w].writes \subseteq Through(s)' /\ Committing(s)' = {}
    BY <1>2, <1>4, <2>1 DEF OpenInv
  <2>4. \A c \in Through(s)' : Writing(c)' /\ calls'[c].ok => c \in open'[w].writes
    BY <1>2, <1>3, <1>5, <2>1 DEF OpenInv
  <2> QED BY <2>2, <2>3, <2>4 DEF OpenInv
<1> QED BY <1>6, StoreKept

\* A call that is made has no result, and writes nothing.
LEMMA CallResults ==
    ASSUME ThreadsInv, Results, NEW w \in Wrappers, NEW kind, NEW fn, NEW h, NEW apply,
           MayCall(w, kind, fn, h, apply), Call(w, kind, fn, h, apply)
    PROVE  Results'
<1> USE DEF ThreadsInv, Results
<1> DEFINE c == Len(calls) + 1
<1>0. Made(w, c, kind, fn, h) BY CallStep
<1> HIDE DEF c
<1>1. /\ c \in Nat /\ c \notin DOMAIN calls /\ \A d \in DOMAIN calls : d < c
      /\ DOMAIN calls' = DOMAIN calls \cup {c}
      /\ \A d \in DOMAIN calls : calls'[d] = calls[d]
      /\ calls'[c].wrapper = w /\ calls'[c].kind = kind /\ calls'[c].handle = h
      /\ calls'[c].ok = FALSE
      /\ \A u \in Wrappers : Served(u)' = Served(u)
  BY <1>0 DEF Made
<1>2. UNCHANGED <<open, committed>> BY DEF Call
<1>3. handles \subseteq DOMAIN calls /\ committed \subseteq DOMAIN calls BY DEF TypeOK
<1>4. h \in DOMAIN calls \cup {None}
  BY <1>3 DEF MayCall, HandlesOf
<1>5. \A s : Committing(s)' = Committing(s)
  BY <1>1 DEF Committing
<1>6. \A s : Through(s) \subseteq Through(s)' /\ Through(s)' \subseteq Through(s) \cup {c}
  BY <1>1 DEF Through
<1>7. \A d \in DOMAIN calls : (Writing(d)' <=> Writing(d))
  BY <1>1 DEF Writing
<1>8. \A s : Through(s) \subseteq DOMAIN calls BY DEF Through
<1>9. \A u \in Wrappers : \A s \in Starts(u)' : s \in Starts(u) \/ s = c
  BY <1>1 DEF Starts
<1>10. c \notin Served(w) /\ \A u \in Wrappers : \A d \in Served(u) : d \in DOMAIN calls BY <1>1 DEF Served
<1>11. TransactionInv'
  <2> SUFFICES ASSUME NEW u \in Wrappers, open'[u] # None, NEW s \in Starts(u)', open'[u].start = s
               PROVE  OpenInv(u, s)'
    BY DEF TransactionInv
  <2>1. open'[u] = open[u] /\ open[u].start \in Starts(u) BY <1>2 DEF TypeOK
  <2>2. OpenInv(u, s) BY <2>1 DEF TransactionInv
  <2>3. s \in Served(u)' /\ \A t \in Starts(u)' \cap Served(u)' : t <= s
    BY <1>1, <1>9, <1>10, <2>2 DEF OpenInv
  <2>4. open'[u].writes \subseteq Through(s)' /\ Committing(s)' = {}
    BY <1>5, <1>6, <2>1, <2>2 DEF OpenInv
  <2>5. \A d \in Through(s)' : Writing(d)' /\ calls'[d].ok => d \in open'[u].writes
    BY <1>1, <1>6, <1>7, <1>8, <2>1, <2>2 DEF OpenInv
  <2> QED BY <2>3, <2>4, <2>5 DEF OpenInv
<1>12. CommitsWhole'
  <2> SUFFICES ASSUME NEW u \in Wrappers, NEW s \in Starts(u)'
               PROVE  IF Committing(s)' # {}
                      THEN \A d \in Through(s)' : Writing(d)' /\ calls'[d].ok => d \in committed'
                      ELSE Through(s)' \cap committed' = {}
    BY DEF CommitsWhole
  <2>1. CASE s \in Starts(u)
    <3>1. IF Committing(s) # {}
          THEN \A d \in Through(s) : Writing(d) /\ calls[d].ok => d \in committed
          ELSE Through(s) \cap committed = {}
      BY <2>1 DEF CommitsWhole
    <3> QED BY <1>1, <1>2, <1>3, <1>5, <1>6, <1>7, <1>8, <3>1
  <2>2. CASE s = c
    <3>1. \A d \in DOMAIN calls : calls[d].handle # c
      <4> TAKE d \in DOMAIN calls
      <4>1. calls[d].handle # None => calls[d].handle \in DOMAIN calls BY DEF TypeOK, Starts
      <4> QED BY <1>1, <4>1, NoneAssumption
    <3>2. h # c BY <1>1, <1>4, NoneAssumption
    <3>3. Committing(s)' = {} /\ Through(s)' = {}
      BY <1>1, <2>2, <3>1, <3>2 DEF Committing, Through
    <3> QED BY <3>3
  <2> QED BY <1>9, <2>1, <2>2
<1>13. ReadsOwnTransaction'
  <2> SUFFICES ASSUME NEW x \in DOMAIN calls',
                      calls'[x].ok, calls'[x].kind = "callback", calls'[x].fn.effect = "read",
                      calls'[x].fn.transaction = "optional"
               PROVE  /\ \A d \in DOMAIN calls' :
                           calls'[d].handle = calls'[x].handle /\ calls'[d].kind = "callback" =>
                           (calls'[x].handle # None /\ d < x /\ calls'[d].ok /\ Writing(d)' => d \in calls'[x].seen)
                      /\ \A d \in calls'[x].seen : calls'[d].handle # calls'[x].handle => d \in committed'
    BY DEF ReadsOwnTransaction, Through
  <2>1. x \in DOMAIN calls /\ calls'[x] = calls[x] BY <1>1
  <2>2. /\ \A d \in Through(calls[x].handle) :
             calls[x].handle # None /\ d < x /\ calls[d].ok /\ Writing(d) => d \in calls[x].seen
        /\ \A d \in calls[x].seen : calls[d].handle # calls[x].handle => d \in committed
    BY <2>1 DEF ReadsOwnTransaction
  <2>3. calls[x].seen \subseteq DOMAIN calls BY <2>1 DEF TypeOK
  <2>4. ASSUME NEW d \in DOMAIN calls', calls'[d].handle = calls'[x].handle, calls'[d].kind = "callback",
               calls'[x].handle # None, d < x, calls'[d].ok, Writing(d)'
        PROVE  d \in calls'[x].seen
    <3>1. d \in DOMAIN calls BY <1>1, <2>4
    <3>2. d \in Through(calls[x].handle) /\ calls[d].ok /\ Writing(d)
      BY <1>1, <1>7, <2>1, <2>4, <3>1 DEF Through
    <3> QED BY <2>1, <2>2, <2>4, <3>2
  <2>5. \A d \in calls'[x].seen : calls'[d].handle # calls'[x].handle => d \in committed'
    BY <1>1, <1>2, <2>1, <2>2, <2>3
  <2> QED BY <2>4, <2>5
<1> QED BY <1>11, <1>12, <1>13

-----------------------------------------------------------------------------
(* Every step keeps the invariant.                                         *)

\* Nothing that a thread, a queue or a call is made of is touched.
LEMMA IdleStep ==
    ASSUME FullInv, UNCHANGED vars PROVE FullInv'
<1> USE DEF FullInv, ThreadsInv, vars
<1>1. TypeOK' BY DEF TypeOK, Starts
<1>2. QueueInv' /\ RepliesInv'
  BY DEF QueueInv, MessageInv, Served, Pending, RepliesInv
<1>3. CleanInv' /\ ClientInv' /\ OpensAfterClose'
  BY DEF CleanInv, ClientInv, IsEnded, OpensAfterClose
<1>4. Results'
  BY ResultsKept DEF Results, SameCall, Served, Pending
<1> QED BY <1>1, <1>2, <1>3, <1>4 DEF Results

\* PlatformWrapper::new.
LEMMA OpenStep ==
    ASSUME FullInv, NEW w \in Wrappers, Open(w) PROVE FullInv'
<1> USE DEF FullInv, ThreadsInv
<1>1. /\ thread[w] = "none" /\ thread' = [thread EXCEPT ![w] = "opening"]
      /\ held' = [held EXCEPT ![w] = TRUE]
      /\ clean' = [v \in Wrappers |-> IF v = w THEN \A u \in Wrappers \ {w} : KnownClosed(u)
                                      ELSE clean[v] /\ thread[v] # "opening"]
      /\ UNCHANGED <<owner, queue, open, replies, calls, handles, committed>>
  BY DEF Open
<1>2. thread \in [Wrappers -> ThreadStates] /\ clean \in [Wrappers -> BOOLEAN] /\ held \in [Wrappers -> BOOLEAN]
  BY DEF TypeOK
<1>3. thread' \in [Wrappers -> ThreadStates] BY <1>1, <1>2 DEF ThreadStates
<1>4. held' \in [Wrappers -> BOOLEAN] /\ clean' \in [Wrappers -> BOOLEAN]
  <2>1. held' \in [Wrappers -> BOOLEAN] BY <1>1, <1>2
  <2>2. \A v \in Wrappers : (IF v = w THEN \A u \in Wrappers \ {w} : KnownClosed(u)
                             ELSE clean[v] /\ thread[v] # "opening") \in BOOLEAN
    BY Zenon
  <2>3. clean' \in [Wrappers -> BOOLEAN] BY <1>1, <2>2
  <2> QED BY <2>1, <2>3
<1>5. \A u \in Wrappers : thread'[u] = IF u = w THEN "opening" ELSE thread[u]
  BY <1>1, <1>2
<1>6. TypeOK'
  <2>1. \A u \in Wrappers : thread'[u] = "running" <=> owner' = u
    BY <1>1, <1>5 DEF TypeOK
  <2>2. \A u \in Wrappers : open'[u] # None => thread'[u] = "running" /\ open'[u].start \in Starts(u)'
    BY <1>1, <1>5 DEF TypeOK, Starts
  <2>3. \A c \in DOMAIN calls' : calls'[c].handle # None =>
          calls'[c].handle \in {s \in DOMAIN calls' : calls'[s].wrapper = calls'[c].wrapper /\ calls'[s].kind = "start"}
    BY <1>1 DEF TypeOK, Starts
  <2> QED BY <1>1, <1>3, <1>4, <2>1, <2>2, <2>3 DEF TypeOK, Starts
<1>7. QueueInv'
  BY <1>1 DEF QueueInv, MessageInv, Served, Pending
<1>8. RepliesInv'
  BY <1>1, <1>5 DEF RepliesInv, Served, Pending
<1>9. CleanInv'
  <2>1. \A c \in DOMAIN calls' : calls'[c].kind = "close" /\ calls'[c].state = "done"
                                   => thread'[calls'[c].wrapper] = "closed"
    <3> TAKE c \in DOMAIN calls'
    <3>1. calls[c].wrapper \in Wrappers BY <1>1, CallsShape DEF CallRecord
    <3> QED BY <1>1, <1>5, <3>1 DEF CleanInv
  <2>2. ASSUME NEW v \in Wrappers, clean'[v], thread'[v] = "opening", NEW u \in Wrappers \ {v}
        PROVE  thread'[u] \notin {"opening", "running", "closing"}
    <3>1. CASE v = w
      <4>1. KnownClosed(u) BY <1>1, <2>2, <3>1
      <4>2. thread[u] \in {"none", "panicked", "closed"} BY <4>1 DEF KnownClosed, CleanInv
      <4> QED BY <1>5, <3>1, <4>2
    <3>2. CASE v # w
      <4>1. clean'[v] = (clean[v] /\ thread[v] # "opening") BY <1>1, <3>2
      <4> QED BY <1>5, <2>2, <3>2, <4>1
    <3> QED BY <3>1, <3>2
  <2> QED BY <2>1, <2>2 DEF CleanInv
<1>10. ClientInv'
  BY <1>1 DEF ClientInv, IsEnded
<1>11. OpensAfterClose'
  <2> SUFFICES ASSUME NEW v \in Wrappers, clean'[v] PROVE thread'[v] # "failed"
    BY DEF OpensAfterClose
  <2>1. v # w => clean[v]
    <3>1. v # w => clean'[v] = (clean[v] /\ thread[v] # "opening") BY <1>1
    <3> QED BY <3>1
  <2> QED BY <1>5, <2>1 DEF OpensAfterClose
<1>12. Results'
  BY <1>1, ResultsKept DEF Results, SameCall, Served, Pending
<1> QED BY <1>6, <1>7, <1>8, <1>9, <1>10, <1>11, <1>12 DEF Results

\* PlatformWrapper::finalize.
LEMMA FinalizeWrapperStep ==
    ASSUME FullInv, NEW w \in Wrappers, FinalizeWrapper(w) PROVE FullInv'
<1> USE DEF FullInv, ThreadsInv
<1>1. held' = [held EXCEPT ![w] = FALSE]
      /\ UNCHANGED <<thread, clean, owner, queue, open, replies, calls, handles, committed>>
  BY DEF FinalizeWrapper
<1>2. TypeOK'
  <2>1. held' \in [Wrappers -> BOOLEAN] BY <1>1 DEF TypeOK
  <2> QED BY <1>1, <2>1 DEF TypeOK, Starts
<1>3. QueueInv' /\ RepliesInv'
  BY <1>1 DEF QueueInv, MessageInv, Served, Pending, RepliesInv
<1>4. CleanInv' /\ ClientInv' /\ OpensAfterClose'
  BY <1>1 DEF CleanInv, ClientInv, IsEnded, OpensAfterClose
<1>5. Results'
  BY <1>1, ResultsKept DEF Results, SameCall, Served, Pending
<1> QED BY <1>2, <1>3, <1>4, <1>5 DEF Results

\* The abort of a finalizer waits behind the calls and ends none of them.
LEMMA FinalizeHandleStep ==
    ASSUME FullInv, NEW h \in handles, FinalizeHandle(h) PROVE FullInv'
<1> USE DEF FullInv, ThreadsInv
<1>0. h \in DOMAIN calls /\ h \in Nat /\ calls[h] \in CallRecord
  BY CallsShape DEF TypeOK
<1>1. PICK w \in Wrappers : w = calls[h].wrapper BY <1>0 DEF CallRecord
<1> DEFINE m == [kind |-> "abort", handle |-> h, call |-> 0]
<1>2. m \in Message /\ m.call = 0 /\ m.kind = "abort"
  BY <1>0 DEF Message, Kinds, EndKinds
<1>3. /\ handles' = handles \ {h}
      /\ UNCHANGED <<thread, held, clean, owner, open, replies, calls, committed>>
      /\ queue' = [queue EXCEPT ![w] = Append(queue[w], m)] \/ queue' = queue
  BY <1>1 DEF FinalizeHandle
<1> HIDE DEF m
<1>4. /\ queue' \in [Wrappers -> Seq(Message)]
      /\ \A u \in Wrappers : Len(queue[u]) \in Nat
      /\ \A u \in Wrappers : Len(queue'[u]) = Len(queue[u])
                             \/ (Len(queue'[u]) = Len(queue[u]) + 1 /\ queue'[u][Len(queue[u]) + 1] = m)
      /\ \A u \in Wrappers : \A i \in 1..Len(queue[u]) : queue'[u][i] = queue[u][i]
      /\ \A u \in Wrappers : Pending(u)' = Pending(u) \/ Pending(u)' = Pending(u) \cup {0}
  <2>0. \A u \in Wrappers : Len(queue[u]) \in Nat
    <3> TAKE u \in Wrappers
    <3>1. queue[u] \in Seq(Message) BY DEF TypeOK
    <3> QED BY <3>1, LenProperties
  <2>1. CASE queue' = queue BY <2>0, <2>1 DEF TypeOK, Pending
  <2>2. CASE queue' = [queue EXCEPT ![w] = Append(queue[w], m)]
    <3>1. /\ queue' \in [Wrappers -> Seq(Message)]
          /\ \A u \in Wrappers : u # w => queue'[u] = queue[u]
          /\ Len(queue[w]) \in Nat /\ Len(queue'[w]) = Len(queue[w]) + 1
          /\ \A i \in 1..Len(queue[w]) : queue'[w][i] = queue[w][i]
          /\ queue'[w][Len(queue[w]) + 1] = m
          /\ Pending(w)' = Pending(w) \cup {m.call}
      BY <1>2, <2>2, QueueAppend
    <3>2. \A u \in Wrappers : u # w => Pending(u)' = Pending(u) BY <3>1 DEF Pending
    <3> QED BY <1>2, <2>0, <3>1, <3>2
  <2> QED BY <1>3, <2>1, <2>2
<1>5. \A u \in Wrappers : Served(u)' = Served(u)
  <2> TAKE u \in Wrappers
  <2>1. 0 \notin DOMAIN calls BY CallsShape
  <2>2. \A c \in DOMAIN calls : c \in Pending(u)' <=> c \in Pending(u) BY <1>4, <2>1
  <2> QED BY <1>3, <2>2 DEF Served
<1>6. TypeOK'
  <2>1. handles' \subseteq DOMAIN calls' BY <1>3 DEF TypeOK
  <2> QED BY <1>3, <1>4, <2>1 DEF TypeOK, Starts
<1>7. QueueInv'
  <2> SUFFICES ASSUME NEW u \in Wrappers, NEW i \in 1..Len(queue'[u])
               PROVE  /\ queue'[u][i].call = 0 => queue'[u][i].kind = "abort"
                      /\ queue'[u][i].call # 0 => MessageInv(u, i)'
    BY DEF QueueInv
  <2>1. i \in 1..Len(queue[u]) \/ queue'[u][i] = m
    BY <1>4
  <2>2. CASE i \in 1..Len(queue[u]) /\ queue'[u][i].call # 0
    <3>1. queue'[u][i] = queue[u][i] /\ MessageInv(u, i)
      BY <1>4, <2>2 DEF QueueInv
    <3>2. ASSUME NEW j \in 1..Len(queue'[u]), i < j, queue'[u][j].call # 0
          PROVE  queue[u][i].call < queue'[u][j].call
      <4>1. j \in 1..Len(queue[u]) /\ queue'[u][j] = queue[u][j] BY <1>2, <1>4, <3>2
      <4> QED BY <3>1, <3>2, <4>1 DEF MessageInv
    <3>3. MessageInv(u, i)'
      BY <1>3, <1>5, <3>1, <3>2 DEF MessageInv
    <3> QED BY <2>2, <3>3
  <2>3. CASE i \in 1..Len(queue[u]) /\ queue'[u][i].call = 0
    BY <1>4, <2>3 DEF QueueInv
  <2> QED BY <1>2, <2>1, <2>2, <2>3
<1>8. RepliesInv' BY <1>3, <1>5 DEF RepliesInv
<1>9. CleanInv' /\ OpensAfterClose' BY <1>3 DEF CleanInv, OpensAfterClose
<1>10. ClientInv'
  <2>1. \A s : IsEnded(s) => IsEnded(s)' BY <1>3 DEF IsEnded
  <2> QED BY <1>3, <2>1 DEF ClientInv
<1>11. Results'
  BY <1>3, <1>5, ResultsKept DEF Results, SameCall
<1> QED BY <1>6, <1>7, <1>8, <1>9, <1>10, <1>11 DEF Results

\* The types of what a step that runs in a thread may change.
LEMMA TypesKept ==
    ASSUME TypeOK,
           thread' \in [Wrappers -> ThreadStates], owner' \in Wrappers \cup {None},
           \A u \in Wrappers : thread'[u] = "running" <=> owner' = u,
           queue' \in [Wrappers -> Seq(Message)], replies' \in [Wrappers -> Seq(Nat)],
           open' \in [Wrappers -> Transaction \cup {None}],
           \A u \in Wrappers : open'[u] # None => thread'[u] = "running" /\ open'[u].start \in Starts(u),
           calls' \in Seq(CallRecord), DOMAIN calls' = DOMAIN calls,
           \A d \in DOMAIN calls : SameCall(d) /\ calls'[d].seen \subseteq DOMAIN calls,
           handles' \subseteq DOMAIN calls, committed' \subseteq DOMAIN calls,
           UNCHANGED <<held, clean>>
    PROVE  TypeOK'
<1>1. \A u \in Wrappers : Starts(u)' = Starts(u) BY DEF Starts, SameCall
<1>2. \A c \in DOMAIN calls' : calls'[c].handle # None =>
        calls'[c].handle \in {s \in DOMAIN calls' : calls'[s].wrapper = calls'[c].wrapper /\ calls'[s].kind = "start"}
  <2> TAKE c \in DOMAIN calls'
  <2>1. \A d \in DOMAIN calls : calls'[d].handle = calls[d].handle /\ calls'[d].wrapper = calls[d].wrapper
                                /\ calls'[d].kind = calls[d].kind
    BY DEF SameCall
  <2>2. calls[c].handle # None => calls[c].handle \in Starts(calls[c].wrapper) BY DEF TypeOK
  <2> QED BY <2>1, <2>2 DEF Starts
<1>3. held' \in [Wrappers -> BOOLEAN] /\ clean' \in [Wrappers -> BOOLEAN] BY DEF TypeOK
<1>4. \A u \in Wrappers : open'[u] # None => thread'[u] = "running" /\ open'[u].start \in Starts(u)'
  BY <1>1
<1>5. \A d \in DOMAIN calls' : calls'[d].seen \subseteq DOMAIN calls' OBVIOUS
<1> QED BY <1>2, <1>3, <1>4, <1>5 DEF TypeOK, Starts

\* The callback of a call runs: no answer is delivered twice.
LEMMA DeliverStep ==
    ASSUME FullInv, NEW w \in Wrappers, Deliver(w) PROVE FullInv'
<1> USE DEF FullInv, ThreadsInv
<1> DEFINE r == replies[w]
<1>1. /\ r # <<>> /\ replies' = [replies EXCEPT ![w] = Tail(r)]
      /\ calls' = [calls EXCEPT ![Head(r)].state = "done"]
      /\ handles' = IF calls[Head(r)].kind = "start" THEN handles \cup {Head(r)} ELSE handles
      /\ UNCHANGED <<thread, held, clean, owner, queue, open, committed>>
  BY DEF Deliver
<1>2. replies \in [Wrappers -> Seq(Nat)] /\ r \in Seq(Nat) /\ calls \in Seq(CallRecord)
      /\ handles \subseteq DOMAIN calls
  BY DEF TypeOK
<1>3. /\ Head(r) = r[1] /\ Tail(r) \in Seq(Nat) /\ Len(r) \in Nat /\ Len(r) >= 1
      /\ Len(Tail(r)) = Len(r) - 1
      /\ \A i \in 1..Len(Tail(r)) : Tail(r)[i] = r[i + 1]
  BY <1>1, <1>2, HeadTailProperties, EmptySeq
<1>4. PICK c : c = Head(r) OBVIOUS
<1>5. /\ c \in Served(w) /\ c \in DOMAIN calls /\ calls[c].state = "sent"
      /\ calls[c].kind = "close" => thread[w] = "closed"
      /\ calls[c].wrapper = w
  <2>1. 1 \in 1..Len(r) BY <1>3
  <2>2. r[1] \in Served(w) /\ calls[r[1]].state = "sent" /\ (calls[r[1]].kind = "close" => thread[w] = "closed")
    BY <2>1 DEF RepliesInv
  <2> QED BY <1>3, <1>4, <2>2 DEF Served
<1>6. /\ replies' \in [Wrappers -> Seq(Nat)]
      /\ replies'[w] = Tail(r) /\ \A u \in Wrappers : u # w => replies'[u] = replies[u]
  BY <1>1, <1>2, <1>3
<1> DEFINE e == [calls[c] EXCEPT !.state = "done"]
<1>7. calls[c] \in CallRecord /\ c \in 1..Len(calls) BY <1>5, CallsShape
<1>8. /\ e \in CallRecord
      /\ e.wrapper = calls[c].wrapper /\ e.kind = calls[c].kind /\ e.fn = calls[c].fn
      /\ e.handle = calls[c].handle /\ e.apply = calls[c].apply /\ e.state = "done"
      /\ e.ok = calls[c].ok /\ e.seen = calls[c].seen
  BY <1>7 DEF CallRecord
<1>9. calls' = [calls EXCEPT ![c] = e] BY <1>1, <1>4
<1> HIDE DEF e, r
<1>10. calls' \in Seq(CallRecord) BY <1>2, <1>7, <1>8, <1>9, ExceptSeq
<1>11. DOMAIN calls' = DOMAIN calls /\ \A d \in DOMAIN calls : calls'[d] = IF d = c THEN e ELSE calls[d]
  BY <1>9
<1>12. \A d \in DOMAIN calls : SameCall(d) /\ SameResult(d) /\ (d # c => calls'[d] = calls[d])
  BY <1>8, <1>11 DEF SameCall, SameResult
<1>13. \A u \in Wrappers : Served(u)' = Served(u)
  BY <1>1, <1>11, <1>12 DEF Served, Pending, SameCall
<1>14. TypeOK'
  <2>1. handles' \subseteq DOMAIN calls BY <1>1, <1>2, <1>4, <1>5
  <2>2. \A d \in DOMAIN calls : SameCall(d) /\ calls'[d].seen \subseteq DOMAIN calls
    BY <1>12 DEF SameResult, TypeOK
  <2>3. \A u \in Wrappers : open'[u] # None => thread'[u] = "running" /\ open'[u].start \in Starts(u)
    BY <1>1 DEF TypeOK
  <2>4. UNCHANGED <<held, clean>> /\ committed' \subseteq DOMAIN calls BY <1>1 DEF TypeOK
  <2>5. /\ thread' \in [Wrappers -> ThreadStates] /\ owner' \in Wrappers \cup {None}
        /\ \A u \in Wrappers : thread'[u] = "running" <=> owner' = u
        /\ queue' \in [Wrappers -> Seq(Message)] /\ open' \in [Wrappers -> Transaction \cup {None}]
    BY <1>1 DEF TypeOK
  <2> QED BY <1>6, <1>10, <1>11, <2>1, <2>2, <2>3, <2>4, <2>5, TypesKept
<1>15. QueueInv'
  <2> SUFFICES ASSUME NEW u \in Wrappers, NEW i \in 1..Len(queue[u])
               PROVE  /\ queue[u][i].call = 0 => queue[u][i].kind = "abort"
                      /\ queue[u][i].call # 0 => MessageInv(u, i)'
    BY <1>1 DEF QueueInv
  <2>1. ASSUME queue[u][i].call # 0 PROVE MessageInv(u, i)'
    <3>1. MessageInv(u, i) BY <2>1 DEF QueueInv
    <3>2. queue[u][i].call \in Pending(u) BY DEF Pending
    <3>3. queue[u][i].call # c
      BY <1>5, <3>1, <3>2 DEF MessageInv, Served
    <3>4. calls'[queue[u][i].call] = calls[queue[u][i].call] BY <1>12, <3>1, <3>3 DEF MessageInv
    <3> QED BY <1>1, <1>11, <1>13, <3>1, <3>4 DEF MessageInv
  <2> QED BY <2>1 DEF QueueInv
<1>16. RepliesInv'
  <2>1. ASSUME NEW u \in Wrappers, NEW i \in 1..Len(replies[u]), replies[u][i] # c
        PROVE  /\ replies[u][i] \in Served(u)' /\ calls'[replies[u][i]].state = "sent"
               /\ calls'[replies[u][i]].kind = "close" => thread'[u] = "closed"
    <3>1. replies[u][i] \in Served(u) /\ replies[u][i] \in DOMAIN calls BY DEF RepliesInv, Served
    <3>2. calls'[replies[u][i]] = calls[replies[u][i]] BY <1>12, <2>1, <3>1
    <3>3. calls[replies[u][i]].state = "sent" /\ (calls[replies[u][i]].kind = "close" => thread[u] = "closed")
      BY DEF RepliesInv
    <3>4. thread' = thread /\ Served(u)' = Served(u) BY <1>1, <1>13
    <3> QED BY <3>1, <3>2, <3>3, <3>4
  <2>2. ASSUME NEW u \in Wrappers, u # w, NEW i \in 1..Len(replies[u]) PROVE replies[u][i] # c
    BY <1>5, <2>2 DEF RepliesInv, Served
  <2>3. ASSUME NEW i \in 1..Len(replies'[w])
        PROVE  i + 1 \in 1..Len(replies[w]) /\ replies'[w][i] = replies[w][i + 1] /\ replies[w][i + 1] # c
    <3>1. i + 1 \in 1..Len(replies[w]) /\ replies'[w][i] = replies[w][i + 1] BY <1>3, <1>6 DEF r
    <3>2. 1 \in 1..Len(replies[w]) /\ 1 # i + 1 /\ c = replies[w][1] BY <1>3, <1>4 DEF r
    <3> QED BY <3>1, <3>2 DEF RepliesInv
  <2>4. ASSUME NEW i \in 1..Len(replies'[w]), NEW j \in 1..Len(replies'[w]), i # j
        PROVE  replies'[w][i] # replies'[w][j]
    <3>1. i + 1 # j + 1 BY <2>4
    <3> QED BY <2>3, <3>1 DEF RepliesInv
  <2>5. ASSUME NEW i \in 1..Len(replies'[w])
        PROVE  /\ replies'[w][i] \in Served(w)' /\ calls'[replies'[w][i]].state = "sent"
               /\ calls'[replies'[w][i]].kind = "close" => thread'[w] = "closed"
    <3>1. PICK k \in 1..Len(replies[w]) : replies'[w][i] = replies[w][k] /\ replies[w][k] # c BY <2>3
    <3> QED BY <2>1, <3>1
  <2>6. \A u \in Wrappers : u # w => \A i, j \in 1..Len(replies[u]) : i # j => replies[u][i] # replies[u][j]
    BY DEF RepliesInv
  <2>7. ASSUME NEW u \in Wrappers, NEW i \in 1..Len(replies'[u])
        PROVE  /\ replies'[u][i] \in Served(u)' /\ calls'[replies'[u][i]].state = "sent"
               /\ calls'[replies'[u][i]].kind = "close" => thread'[u] = "closed"
               /\ \A j \in 1..Len(replies'[u]) : i # j => replies'[u][i] # replies'[u][j]
    <3>1. CASE u = w BY <2>4, <2>5, <3>1
    <3>2. CASE u # w
      <4>1. replies'[u] = replies[u] BY <1>6, <3>2
      <4>2. replies[u][i] # c BY <2>2, <3>2, <4>1
      <4> QED BY <2>1, <2>6, <3>2, <4>1, <4>2
    <3> QED BY <3>1, <3>2
  <2> QED BY <2>7 DEF RepliesInv
<1>17. CleanInv'
  <2>1. \A d \in DOMAIN calls : calls[d].kind = "close" /\ calls'[d].state = "done" => thread[calls[d].wrapper] = "closed"
    BY <1>5, <1>12 DEF CleanInv
  <2> QED BY <1>1, <1>11, <1>12, <2>1 DEF CleanInv, SameCall
<1>18. OpensAfterClose' BY <1>1 DEF OpensAfterClose
<1>19. ClientInv'
  <2>1. \A h \in handles' : h \in DOMAIN calls /\ calls'[h].kind = "start" /\ calls'[h].state = "done"
    BY <1>1, <1>2, <1>4, <1>5, <1>8, <1>11 DEF ClientInv
  <2>2. \A s \in DOMAIN calls : IsEnded(s) => IsEnded(s)'
    <3> SUFFICES ASSUME NEW s \in DOMAIN calls, IsEnded(s) PROVE IsEnded(s)' OBVIOUS
    <3>1. CASE \E d \in DOMAIN calls : calls[d].handle = s /\ calls[d].kind \in EndKinds
      BY <1>11, <1>12, <3>1 DEF IsEnded, SameCall
    <3>2. CASE calls[s].state = "done" /\ s \notin handles
      <4>1. s # c BY <1>5, <3>2
      <4>2. calls'[s].state = "done" /\ s \notin handles' BY <1>1, <1>4, <1>12, <3>2, <4>1
      <4> QED BY <4>2 DEF IsEnded
    <3> QED BY <3>1, <3>2 DEF IsEnded
  <2>3. \A d \in DOMAIN calls : calls'[d].handle = calls[d].handle /\ calls'[d].kind = calls[d].kind
                                /\ calls'[d].wrapper = calls[d].wrapper
    BY <1>12 DEF SameCall
  <2> QED BY <1>11, <2>1, <2>2, <2>3 DEF ClientInv
<1>20. Results'
  BY <1>1, <1>11, <1>12, <1>13, ResultsKept DEF Results, SameResult
<1> QED BY <1>14, <1>15, <1>16, <1>17, <1>18, <1>19, <1>20 DEF Results

\* The messages that wait for a thread that ends are dropped.
LEMMA QueueCleared ==
    ASSUME TypeOK, QueueInv, NEW w \in Wrappers, queue' = [queue EXCEPT ![w] = <<>>],
           DOMAIN calls' = DOMAIN calls,
           \A d \in DOMAIN calls : SameCall(d) /\ (calls[d].wrapper # w => calls'[d] = calls[d])
    PROVE  /\ queue' \in [Wrappers -> Seq(Message)] /\ QueueInv'
           /\ \A u \in Wrappers : u # w => Served(u)' = Served(u)
           /\ Served(w)' = {c \in DOMAIN calls : calls[c].wrapper = w}
<1>1. queue \in [Wrappers -> Seq(Message)] BY DEF TypeOK
<1>2. <<>> \in Seq(Message) OBVIOUS
<1>3. queue' \in [Wrappers -> Seq(Message)] BY <1>1, <1>2
<1>4. queue'[w] = <<>> /\ \A u \in Wrappers : u # w => queue'[u] = queue[u] BY <1>1
<1>5. Len(queue'[w]) = 0 BY <1>4
<1>6. \A d \in DOMAIN calls : calls'[d].wrapper = calls[d].wrapper BY DEF SameCall
<1>7. \A u \in Wrappers : u # w => Served(u)' = Served(u)
  BY <1>4, <1>6 DEF Served, Pending
<1>8. Served(w)' = {c \in DOMAIN calls : calls[c].wrapper = w}
  <2>1. Pending(w)' = {} BY <1>5 DEF Pending
  <2> QED BY <1>6, <2>1 DEF Served
<1>9. QueueInv'
  <2> SUFFICES ASSUME NEW u \in Wrappers, NEW i \in 1..Len(queue'[u])
               PROVE  /\ queue'[u][i].call = 0 => queue'[u][i].kind = "abort"
                      /\ queue'[u][i].call # 0 => MessageInv(u, i)'
    BY DEF QueueInv
  <2>1. u # w /\ queue'[u] = queue[u] BY <1>4, <1>5
  <2>2. queue[u][i].call = 0 => queue[u][i].kind = "abort" BY <2>1 DEF QueueInv
  <2>3. ASSUME queue[u][i].call # 0 PROVE MessageInv(u, i)'
    <3>1. MessageInv(u, i) BY <2>1, <2>3 DEF QueueInv
    <3>2. calls'[queue[u][i].call] = calls[queue[u][i].call] BY <2>1, <3>1 DEF MessageInv
    <3> QED BY <1>7, <2>1, <3>1, <3>2 DEF MessageInv
  <2> QED BY <2>1, <2>2, <2>3
<1> QED BY <1>3, <1>7, <1>8, <1>9

\* A thread changes its state, the store its owner, and messages may be dropped;
\* calls and answers stay.
LEMMA ThreadStep ==
    ASSUME FullInv, NEW w \in Wrappers, NEW state \in ThreadStates \ {"running", "opening", "failed"},
           thread[w] = "running", thread' = [thread EXCEPT ![w] = state], owner' = None,
           open' = [open EXCEPT ![w] = None],
           queue' = queue \/ queue' = [queue EXCEPT ![w] = <<>>],
           UNCHANGED <<held, clean, replies, calls, handles, committed>>
    PROVE  FullInv'
<1> USE DEF FullInv, ThreadsInv
<1>1. thread \in [Wrappers -> ThreadStates] /\ open \in [Wrappers -> Transaction \cup {None}] BY DEF TypeOK
<1>2. \A u \in Wrappers : thread'[u] = IF u = w THEN state ELSE thread[u] BY <1>1
<1>3. thread' \in [Wrappers -> ThreadStates] /\ open' \in [Wrappers -> Transaction \cup {None}] BY <1>1
<1>4. \A u \in Wrappers : open'[u] = IF u = w THEN None ELSE open[u] BY <1>1
<1>5. /\ queue' \in [Wrappers -> Seq(Message)] /\ QueueInv'
      /\ \A u \in Wrappers : Served(u) \subseteq Served(u)'
      /\ \A u \in Wrappers : u # w => Served(u)' = Served(u)
  <2>1. CASE queue' = queue
    BY <2>1 DEF TypeOK, QueueInv, MessageInv, Served, Pending
  <2>2. CASE queue' = [queue EXCEPT ![w] = <<>>]
    <3>1. /\ queue' \in [Wrappers -> Seq(Message)] /\ QueueInv'
          /\ \A u \in Wrappers : u # w => Served(u)' = Served(u)
          /\ Served(w)' = {c \in DOMAIN calls : calls[c].wrapper = w}
      BY <2>2, QueueCleared DEF SameCall
    <3>2. Served(w) \subseteq Served(w)' BY <3>1 DEF Served
    <3> QED BY <3>1, <3>2
  <2> QED BY <2>1, <2>2
<1>6. \A u \in Wrappers : u # w => thread[u] # "running" BY DEF TypeOK
<1>7. TypeOK'
  <2>1. \A u \in Wrappers : thread'[u] = "running" <=> owner' = u BY <1>2, <1>6, NoneAssumption
  <2>2. \A u \in Wrappers : open'[u] # None => thread'[u] = "running" /\ open'[u].start \in Starts(u)
    BY <1>2, <1>4 DEF TypeOK
  <2>3. \A d \in DOMAIN calls : SameCall(d) /\ calls'[d].seen \subseteq DOMAIN calls BY DEF SameCall, TypeOK
  <2>4. /\ replies' \in [Wrappers -> Seq(Nat)] /\ calls' \in Seq(CallRecord)
        /\ handles' \subseteq DOMAIN calls /\ committed' \subseteq DOMAIN calls
    BY DEF TypeOK
  <2> QED BY <1>3, <1>5, <2>1, <2>2, <2>3, <2>4, TypesKept
<1>8. RepliesInv'
  <2>1. \A u \in Wrappers : thread[u] = "closed" => thread'[u] = "closed" BY <1>2
  <2> QED BY <1>5, <2>1 DEF RepliesInv
<1>9. CleanInv'
  <2>1. ASSUME NEW c \in DOMAIN calls, calls[c].kind = "close", calls[c].state = "done"
        PROVE  thread'[calls[c].wrapper] = "closed"
    <3>1. calls[c].wrapper \in Wrappers BY CallsShape DEF CallRecord
    <3> QED BY <1>2, <2>1, <3>1 DEF CleanInv
  <2>2. ASSUME NEW v \in Wrappers, clean[v], thread'[v] = "opening", NEW u \in Wrappers \ {v}
        PROVE  thread'[u] \notin {"opening", "running", "closing"}
    <3>1. v # w /\ thread[v] = "opening" BY <1>2, <2>2
    <3>2. w \in Wrappers \ {v} /\ thread[w] \notin {"opening", "running", "closing"}
      BY <2>2, <3>1 DEF CleanInv
    <3> QED BY <3>2
  <2> QED BY <2>1, <2>2 DEF CleanInv
<1>10. OpensAfterClose' BY <1>2 DEF OpensAfterClose
<1>11. ClientInv' BY DEF ClientInv, IsEnded
<1>12. Results'
  <2>1. \A u \in Wrappers : open'[u] # None =>
             /\ open'[u] = open[u] /\ Served(u) \subseteq Served(u)'
             /\ Starts(u) \cap Served(u)' \subseteq Served(u)
    BY <1>4, <1>5
  <2> QED BY <2>1, ResultsKept DEF Results, SameCall
<1> QED BY <1>5, <1>7, <1>8, <1>9, <1>10, <1>11, <1>12 DEF Results

\* The thread drops its transactions and the platform.
LEMMA ServeCloseStep ==
    ASSUME FullInv, NEW w \in Wrappers, ServeClose(w) PROVE FullInv'
<1>1. "closing" \in ThreadStates \ {"running", "opening", "failed"} BY DEF ThreadStates
<1> QED BY <1>1, ThreadStep DEF ServeClose, Serves

\* The thread panics.
LEMMA PanicStep ==
    ASSUME FullInv, NEW w \in Wrappers, Panic(w) PROVE FullInv'
<1>1. "panicked" \in ThreadStates \ {"running", "opening", "failed"} BY DEF ThreadStates
<1> QED BY <1>1, ThreadStep DEF Panic, Serves

\* The platform is opened, or the thread ends since the store is open.
LEMMA OpenPlatformStep ==
    ASSUME FullInv, NEW w \in Wrappers, OpenPlatform(w) PROVE FullInv'
<1> USE DEF FullInv, ThreadsInv
<1>1. thread[w] = "opening" /\ UNCHANGED <<held, clean, open, replies, calls, handles, committed>>
  BY DEF OpenPlatform
<1>2. thread \in [Wrappers -> ThreadStates] /\ open \in [Wrappers -> Transaction \cup {None}] BY DEF TypeOK
<1>3. PICK state \in {"running", "failed"} :
        /\ thread' = [thread EXCEPT ![w] = state]
        /\ state = "running" => owner = None /\ owner' = w /\ queue' = queue
        /\ state = "failed" => owner # None /\ owner' = owner /\ queue' = [queue EXCEPT ![w] = <<>>]
  <2>1. CASE owner = None BY <2>1 DEF OpenPlatform
  <2>2. CASE owner # None BY <2>2 DEF OpenPlatform
  <2> QED BY <2>1, <2>2
<1>4. \A u \in Wrappers : thread'[u] = IF u = w THEN state ELSE thread[u] BY <1>2, <1>3
<1>5. thread' \in [Wrappers -> ThreadStates] BY <1>2, <1>3 DEF ThreadStates
<1>6. /\ queue' \in [Wrappers -> Seq(Message)] /\ QueueInv'
      /\ \A u \in Wrappers : Served(u) \subseteq Served(u)'
      /\ \A u \in Wrappers : u # w => Served(u)' = Served(u)
  <2>1. CASE queue' = queue
    BY <1>1, <2>1 DEF TypeOK, QueueInv, MessageInv, Served, Pending
  <2>2. CASE queue' = [queue EXCEPT ![w] = <<>>]
    <3>1. /\ queue' \in [Wrappers -> Seq(Message)] /\ QueueInv'
          /\ \A u \in Wrappers : u # w => Served(u)' = Served(u)
          /\ Served(w)' = {c \in DOMAIN calls : calls[c].wrapper = w}
      BY <1>1, <2>2, QueueCleared DEF SameCall
    <3>2. Served(w) \subseteq Served(w)' BY <3>1 DEF Served
    <3> QED BY <3>1, <3>2
  <2> QED BY <1>3, <2>1, <2>2
<1>7. open[w] = None BY <1>1 DEF TypeOK
<1>8. TypeOK'
  <2>1. \A u \in Wrappers : thread'[u] = "running" <=> owner' = u
    <3>1. CASE state = "running"
      BY <1>3, <1>4, <3>1, NoneAssumption DEF TypeOK
    <3>2. CASE state = "failed"
      BY <1>1, <1>3, <1>4, <3>2 DEF TypeOK
    <3> QED BY <3>1, <3>2
  <2>2. \A u \in Wrappers : open'[u] # None => thread'[u] = "running" /\ open'[u].start \in Starts(u)
    BY <1>1, <1>4, <1>7 DEF TypeOK
  <2>3. \A d \in DOMAIN calls : SameCall(d) /\ calls'[d].seen \subseteq DOMAIN calls
    BY <1>1 DEF SameCall, TypeOK
  <2>4. /\ replies' \in [Wrappers -> Seq(Nat)] /\ calls' \in Seq(CallRecord)
        /\ handles' \subseteq DOMAIN calls /\ committed' \subseteq DOMAIN calls
        /\ open' \in [Wrappers -> Transaction \cup {None}] /\ UNCHANGED <<held, clean>>
        /\ DOMAIN calls' = DOMAIN calls
    BY <1>1 DEF TypeOK
  <2>5. owner' \in Wrappers \cup {None} BY <1>3 DEF TypeOK
  <2> QED BY <1>5, <1>6, <2>1, <2>2, <2>3, <2>4, <2>5, TypesKept
<1>9. RepliesInv'
  <2>1. \A u \in Wrappers : thread[u] = "closed" => thread'[u] = "closed" BY <1>1, <1>4
  <2> QED BY <1>1, <1>6, <2>1 DEF RepliesInv
<1>10. CleanInv'
  <2>1. ASSUME NEW c \in DOMAIN calls, calls[c].kind = "close", calls[c].state = "done"
        PROVE  thread'[calls[c].wrapper] = "closed"
    <3>1. calls[c].wrapper \in Wrappers BY CallsShape DEF CallRecord
    <3> QED BY <1>1, <1>4, <2>1, <3>1 DEF CleanInv
  <2>2. ASSUME NEW v \in Wrappers, clean[v], thread'[v] = "opening", NEW u \in Wrappers \ {v}
        PROVE  thread'[u] \notin {"opening", "running", "closing"}
    <3>1. v # w /\ thread[v] = "opening" BY <1>3, <1>4, <2>2
    <3>2. w \in Wrappers \ {v} /\ thread[w] \notin {"opening", "running", "closing"}
      BY <2>2, <3>1 DEF CleanInv
    <3> QED BY <1>1, <3>2
  <2> QED BY <1>1, <2>1, <2>2 DEF CleanInv
<1>11. OpensAfterClose'
  <2> SUFFICES ASSUME NEW v \in Wrappers, clean[v] PROVE thread'[v] # "failed"
    BY <1>1 DEF OpensAfterClose
  <2>1. CASE v # w BY <1>4, <2>1 DEF OpensAfterClose
  <2>2. CASE v = w
    <3>1. \A u \in Wrappers \ {w} : thread[u] # "running" BY <1>1, <2>2 DEF CleanInv
    <3>2. owner = None BY <1>1, <3>1 DEF TypeOK
    <3> QED BY <1>3, <1>4, <2>2, <3>2
  <2> QED BY <2>1, <2>2
<1>12. ClientInv' BY <1>1 DEF ClientInv, IsEnded
<1>13. Results'
  <2>1. \A u \in Wrappers : open'[u] # None =>
             /\ open'[u] = open[u] /\ Served(u) \subseteq Served(u)'
             /\ Starts(u) \cap Served(u)' \subseteq Served(u)
    BY <1>1, <1>6, <1>7
  <2> QED BY <1>1, <2>1, ResultsKept DEF Results, SameCall
<1> QED BY <1>6, <1>8, <1>9, <1>10, <1>11, <1>12, <1>13 DEF Results

\* The close is answered by a thread that has left the store.
LEMMA CloseAnswersStep ==
    ASSUME FullInv, NEW w \in Wrappers, CloseAnswers(w) PROVE FullInv'
<1> USE DEF FullInv, ThreadsInv
<1>1. /\ thread[w] = "closing" /\ thread' = [thread EXCEPT ![w] = "closed"]
      /\ queue' = [queue EXCEPT ![w] = <<>>]
      /\ UNCHANGED <<held, clean, open, handles, committed>>
  BY DEF CloseAnswers
<1>2. owner' = owner /\ open[w] = None
  <2>1. owner # w /\ open[w] = None BY <1>1 DEF TypeOK
  <2> QED BY <2>1 DEF CloseAnswers
<1>3. thread \in [Wrappers -> ThreadStates] /\ replies \in [Wrappers -> Seq(Nat)] /\ calls \in Seq(CallRecord)
      /\ replies[w] \in Seq(Nat) /\ queue[w] \in Seq(Message)
  BY DEF TypeOK
<1>4. \A u \in Wrappers : thread'[u] = IF u = w THEN "closed" ELSE thread[u] BY <1>1, <1>3
<1>5. thread' \in [Wrappers -> ThreadStates] BY <1>1, <1>3 DEF ThreadStates
<1> DEFINE n == Len(replies[w])
<1>6. n \in Nat BY <1>3, LenProperties
<1>7. /\ calls' \in Seq(CallRecord) /\ DOMAIN calls' = DOMAIN calls
      /\ \A d \in DOMAIN calls : /\ SameCall(d) /\ calls'[d].state = calls[d].state
                                 /\ calls'[d].seen = calls[d].seen
                                 /\ calls[d].wrapper # w => calls'[d] = calls[d]
                                 /\ calls[d].kind # "close" => calls'[d] = calls[d]
      /\ replies' \in [Wrappers -> Seq(Nat)]
      /\ \A u \in Wrappers : u # w => replies'[u] = replies[u]
      /\ \A i \in 1..n : replies'[w][i] = replies[w][i]
      /\ \/ Len(replies'[w]) = n
         \/ /\ Len(replies'[w]) = n + 1
            /\ replies'[w][n + 1] \in DOMAIN calls \ Served(w)
            /\ calls[replies'[w][n + 1]].wrapper = w /\ calls[replies'[w][n + 1]].state = "sent"
  <2>1. CASE ~ (queue[w] # <<>> /\ Head(queue[w]).kind = "close")
    <3>1. calls' = calls /\ replies' = replies BY <2>1 DEF CloseAnswers
    <3> QED BY <1>3, <1>6, <3>1 DEF SameCall
  <2>2. CASE queue[w] # <<>> /\ Head(queue[w]).kind = "close"
    <3> DEFINE c == Head(queue[w]).call
               e == [calls[c] EXCEPT !.ok = TRUE]
    <3>1. Head(queue[w]) = queue[w][1] /\ 1 \in 1..Len(queue[w])
      BY <1>3, <2>2, EmptySeq
    <3>2. c # 0 /\ MessageInv(w, 1) BY <2>2, <3>1 DEF QueueInv
    <3>3. /\ c \in DOMAIN calls \ Served(w) /\ calls[c].wrapper = w /\ calls[c].state = "sent"
          /\ calls[c].kind = "close"
      BY <2>2, <3>1, <3>2 DEF MessageInv, Served, Pending
    <3>4. calls[c] \in CallRecord /\ c \in 1..Len(calls) /\ c \in Nat BY <3>3, CallsShape
    <3>5. calls' = [calls EXCEPT ![c] = e] /\ replies' = [replies EXCEPT ![w] = Append(replies[w], c)]
      BY <2>2 DEF CloseAnswers
    <3>6. /\ e \in CallRecord
          /\ e.wrapper = calls[c].wrapper /\ e.kind = calls[c].kind /\ e.fn = calls[c].fn
          /\ e.handle = calls[c].handle /\ e.apply = calls[c].apply /\ e.state = calls[c].state
          /\ e.seen = calls[c].seen
      BY <3>4 DEF CallRecord
    <3> HIDE DEF c, e
    <3>7. calls' \in Seq(CallRecord) BY <1>3, <3>4, <3>5, <3>6, ExceptSeq
    <3>8. DOMAIN calls' = DOMAIN calls /\ \A d \in DOMAIN calls : calls'[d] = IF d = c THEN e ELSE calls[d]
      BY <3>5
    <3>9. \A d \in DOMAIN calls : /\ SameCall(d) /\ calls'[d].state = calls[d].state
                                  /\ calls'[d].seen = calls[d].seen
                                  /\ calls[d].wrapper # w => calls'[d] = calls[d]
                                  /\ calls[d].kind # "close" => calls'[d] = calls[d]
      BY <3>3, <3>6, <3>8 DEF SameCall
    <3>10. /\ Append(replies[w], c) \in Seq(Nat) /\ Len(Append(replies[w], c)) = n + 1
           /\ \A i \in 1..n : Append(replies[w], c)[i] = replies[w][i]
           /\ Append(replies[w], c)[n + 1] = c
      BY <1>3, <3>4, AppendProperties
    <3>11. /\ replies' \in [Wrappers -> Seq(Nat)] /\ replies'[w] = Append(replies[w], c)
           /\ \A u \in Wrappers : u # w => replies'[u] = replies[u]
      BY <1>3, <3>5, <3>10
    <3> HIDE DEF n
    <3>12. /\ Len(replies'[w]) = n + 1 /\ replies'[w][n + 1] = c
           /\ \A i \in 1..n : replies'[w][i] = replies[w][i]
      BY <3>10, <3>11
    <3> QED BY <3>3, <3>7, <3>8, <3>9, <3>11, <3>12
  <2> QED BY <2>1, <2>2
<1>8. /\ queue' \in [Wrappers -> Seq(Message)] /\ QueueInv'
      /\ \A u \in Wrappers : u # w => Served(u)' = Served(u)
      /\ Served(w)' = {c \in DOMAIN calls : calls[c].wrapper = w}
  BY <1>1, <1>7, QueueCleared
<1>9. TypeOK'
  <2>1. \A u \in Wrappers : thread'[u] = "running" <=> owner' = u BY <1>1, <1>2, <1>4 DEF TypeOK
  <2>2. \A u \in Wrappers : open'[u] # None => thread'[u] = "running" /\ open'[u].start \in Starts(u)
    BY <1>1, <1>2, <1>4 DEF TypeOK
  <2>3. \A d \in DOMAIN calls : SameCall(d) /\ calls'[d].seen \subseteq DOMAIN calls
    BY <1>7 DEF TypeOK
  <2>4. /\ handles' \subseteq DOMAIN calls /\ committed' \subseteq DOMAIN calls
        /\ open' \in [Wrappers -> Transaction \cup {None}] /\ UNCHANGED <<held, clean>>
        /\ owner' \in Wrappers \cup {None}
    BY <1>1, <1>2 DEF TypeOK
  <2> QED BY <1>5, <1>7, <1>8, <2>1, <2>2, <2>3, <2>4, TypesKept
<1>10. RepliesInv'
  <2>1. \A u \in Wrappers : thread[u] = "closed" => thread'[u] = "closed" BY <1>4
  <2>2. \A u \in Wrappers : Served(u) \subseteq Served(u)' BY <1>8 DEF Served
  <2>3. ASSUME NEW u \in Wrappers, NEW i \in 1..Len(replies[u])
        PROVE  /\ replies[u][i] \in Served(u) /\ replies[u][i] \in Served(u)'
               /\ calls'[replies[u][i]].state = "sent"
               /\ calls'[replies[u][i]].kind = "close" => thread'[u] = "closed"
               /\ \A j \in 1..Len(replies[u]) : i # j => replies[u][i] # replies[u][j]
    <3>1. /\ replies[u][i] \in Served(u) /\ replies[u][i] \in DOMAIN calls
          /\ calls[replies[u][i]].state = "sent"
          /\ calls[replies[u][i]].kind = "close" => thread[u] = "closed"
          /\ \A j \in 1..Len(replies[u]) : i # j => replies[u][i] # replies[u][j]
      BY DEF RepliesInv, Served
    <3>2. calls'[replies[u][i]].state = calls[replies[u][i]].state
          /\ calls'[replies[u][i]].kind = calls[replies[u][i]].kind
      BY <1>7, <3>1 DEF SameCall
    <3> QED BY <2>1, <2>2, <3>1, <3>2
  <2> HIDE DEF n
  <2>4. ASSUME NEW i \in 1..Len(replies'[w])
        PROVE  /\ replies'[w][i] \in Served(w)'
               /\ calls'[replies'[w][i]].state = "sent"
               /\ \A j \in 1..Len(replies'[w]) : i # j => replies'[w][i] # replies'[w][j]
    <3>1. thread'[w] = "closed" BY <1>4
    <3>2. \A k \in 1..Len(replies'[w]) : k \in 1..n \/ (k = n + 1 /\ Len(replies'[w]) = n + 1)
      BY <1>6, <1>7
    <3>3. \A k \in 1..n : /\ replies'[w][k] = replies[w][k] /\ replies[w][k] \in Served(w)
                          /\ replies[w][k] \in Served(w)' /\ calls'[replies[w][k]].state = "sent"
                          /\ \A j \in 1..n : k # j => replies[w][k] # replies[w][j]
      BY <1>7, <2>3 DEF n
    <3>4. ASSUME Len(replies'[w]) = n + 1
          PROVE  /\ replies'[w][n + 1] \notin Served(w) /\ replies'[w][n + 1] \in Served(w)'
                 /\ calls'[replies'[w][n + 1]].state = "sent"
      <4>1. /\ replies'[w][n + 1] \in DOMAIN calls \ Served(w)
            /\ calls[replies'[w][n + 1]].wrapper = w /\ calls[replies'[w][n + 1]].state = "sent"
        BY <1>6, <1>7, <3>4
      <4>2. calls'[replies'[w][n + 1]].state = "sent" BY <1>7, <4>1
      <4> QED BY <1>8, <4>1, <4>2
    <3> QED BY <3>2, <3>3, <3>4
  <2>5. ASSUME NEW u \in Wrappers, NEW i \in 1..Len(replies'[u])
        PROVE  /\ replies'[u][i] \in Served(u)' /\ calls'[replies'[u][i]].state = "sent"
               /\ calls'[replies'[u][i]].kind = "close" => thread'[u] = "closed"
               /\ \A j \in 1..Len(replies'[u]) : i # j => replies'[u][i] # replies'[u][j]
    <3>1. CASE u = w BY <1>4, <2>4, <3>1
    <3>2. CASE u # w
      <4>1. replies'[u] = replies[u] BY <1>7, <3>2
      <4> QED BY <2>3, <4>1
    <3> QED BY <3>1, <3>2
  <2> QED BY <2>5 DEF RepliesInv
<1>11. CleanInv'
  <2>1. ASSUME NEW c \in DOMAIN calls', calls'[c].kind = "close", calls'[c].state = "done"
        PROVE  thread'[calls'[c].wrapper] = "closed"
    <3>1. calls[c].wrapper \in Wrappers BY <1>7, CallsShape DEF CallRecord
    <3>2. calls[c].kind = "close" /\ calls[c].state = "done" /\ calls'[c].wrapper = calls[c].wrapper
      BY <1>7, <2>1 DEF SameCall
    <3> QED BY <1>4, <1>7, <3>1, <3>2 DEF CleanInv
  <2>2. ASSUME NEW v \in Wrappers, clean[v], thread'[v] = "opening", NEW u \in Wrappers \ {v}
        PROVE  thread'[u] \notin {"opening", "running", "closing"}
    <3>1. v # w /\ thread[v] = "opening" BY <1>4, <2>2
    <3>2. thread[u] \notin {"opening", "running", "closing"} BY <2>2, <3>1 DEF CleanInv
    <3> QED BY <1>4, <3>2
  <2> QED BY <1>1, <2>1, <2>2 DEF CleanInv
<1>12. OpensAfterClose' BY <1>1, <1>4 DEF OpensAfterClose
<1>13. ClientInv'
  <2>1. \A d \in DOMAIN calls : /\ calls'[d].handle = calls[d].handle /\ calls'[d].kind = calls[d].kind
                                /\ calls'[d].wrapper = calls[d].wrapper /\ calls'[d].state = calls[d].state
    BY <1>7 DEF SameCall
  <2>2. \A s \in DOMAIN calls : IsEnded(s)' <=> IsEnded(s)
    BY <1>1, <1>7, <2>1 DEF IsEnded
  <2>3. handles' = handles /\ handles \subseteq DOMAIN calls /\ DOMAIN calls' = DOMAIN calls
    BY <1>1, <1>7 DEF TypeOK
  <2> QED BY <2>1, <2>2, <2>3 DEF ClientInv
<1>14. Results'
  <2>1. \A u \in Wrappers : open'[u] # None =>
             /\ open'[u] = open[u] /\ Served(u) \subseteq Served(u)'
             /\ Starts(u) \cap Served(u)' \subseteq Served(u)
    BY <1>1, <1>2, <1>8
  <2>2. \A d \in DOMAIN calls : calls[d].kind \in {"callback", "commit"} =>
             calls'[d].ok = calls[d].ok /\ (calls[d].ok => calls'[d].seen = calls[d].seen)
    BY <1>7
  <2> QED BY <1>1, <1>7, <2>1, <2>2, ResultsKept DEF Results
<1> QED BY <1>8, <1>9, <1>10, <1>11, <1>12, <1>13, <1>14 DEF Results

\* A message that is served and answered, whatever it does to transactions and
\* store.
LEMMA AnswerThreads ==
    ASSUME FullInv, NEW w \in Wrappers, NEW c, NEW ok, NEW seen, Answers(w, c, ok, seen),
           queue[w][1].kind # "close", UNCHANGED <<thread, held, clean, owner, handles>>,
           seen \subseteq DOMAIN calls, committed' \subseteq DOMAIN calls,
           open' \in [Wrappers -> Transaction \cup {None}],
           \A u \in Wrappers : open'[u] # None => thread[u] = "running" /\ open'[u].start \in Starts(u)
    PROVE  ThreadsInv' /\ OpensAfterClose'
<1> USE DEF FullInv, ThreadsInv
<1>1. QueueInv' /\ RepliesInv' /\ CleanInv' /\ ClientInv' BY AnswerKeeps
<1>2. TypeOK'
  <2>1. /\ queue' \in [Wrappers -> Seq(Message)] /\ replies' \in [Wrappers -> Seq(Nat)]
        /\ calls' \in Seq(CallRecord) /\ DOMAIN calls' = DOMAIN calls
    BY DEF Answers
  <2>2. \A d \in DOMAIN calls : SameCall(d) /\ calls'[d].seen \subseteq DOMAIN calls
    <3> TAKE d \in DOMAIN calls
    <3>1. d # 0 BY CallsShape
    <3>2. CASE d = c BY <3>1, <3>2 DEF Answers
    <3>3. CASE d # c BY <3>3 DEF Answers, TypeOK
    <3> QED BY <3>2, <3>3
  <2>3. /\ thread' \in [Wrappers -> ThreadStates] /\ owner' \in Wrappers \cup {None}
        /\ \A u \in Wrappers : thread'[u] = "running" <=> owner' = u
        /\ handles' \subseteq DOMAIN calls
    BY DEF TypeOK
  <2>4. \A u \in Wrappers : open'[u] # None => thread'[u] = "running" /\ open'[u].start \in Starts(u)
    OBVIOUS
  <2> QED BY <2>1, <2>2, <2>3, <2>4, TypesKept
<1>3. OpensAfterClose' BY DEF OpensAfterClose
<1> QED BY <1>1, <1>2, <1>3

\* The first message of a queue that is not an abort is that of a call.
LEMMA HeadCall ==
    ASSUME TypeOK, QueueInv, NEW w \in Wrappers, NEW kinds, Serves(w, kinds), "close" \notin kinds
    PROVE  LET c == Head(queue[w]).call
           IN /\ Head(queue[w]) = queue[w][1] /\ queue[w][1].kind \in kinds
              /\ queue[w][1].kind # "close"
              /\ c # 0 => MessageInv(w, 1) /\ c \in DOMAIN calls /\ calls[c].kind \in kinds
                            /\ calls[c].wrapper = w /\ calls[c].ok = FALSE /\ c \notin Served(w)
                            /\ \A d \in Served(w) : d < c
              /\ "abort" \notin kinds => c # 0
<1>1. queue[w] \in Seq(Message) /\ queue[w] # <<>> BY DEF TypeOK, Serves
<1>2. Head(queue[w]) = queue[w][1] /\ 1 \in 1..Len(queue[w]) BY <1>1, EmptySeq
<1>3. queue[w][1].kind \in kinds BY <1>2 DEF Serves
<1>4. queue[w][1].call # 0 => MessageInv(w, 1) BY <1>2 DEF QueueInv
<1>5. "abort" \notin kinds => queue[w][1].call # 0 BY <1>2, <1>3 DEF QueueInv
<1>6. queue[w][1].call \in Pending(w) BY <1>2 DEF Pending
<1> QED BY <1>2, <1>3, <1>4, <1>5, <1>6 DEF MessageInv, Served

\* Grove.flush is answered.
LEMMA ServeFlushStep ==
    ASSUME FullInv, NEW w \in Wrappers, ServeFlush(w) PROVE FullInv'
<1> USE DEF FullInv, ThreadsInv
<1> DEFINE c == Head(queue[w]).call
           ok == TRUE
<1>1. /\ Serves(w, {"flush"}) /\ Answer(w, ok, {})
      /\ UNCHANGED <<thread, held, clean, owner, open, handles, committed>>
  BY DEF ServeFlush
<1>2. /\ queue[w][1].kind # "close" /\ c # 0 /\ c \in DOMAIN calls /\ calls[c].kind = "flush"
  <2>1. "close" \notin {"flush"} /\ "abort" \notin {"flush"} OBVIOUS
  <2>2. /\ queue[w][1].kind # "close"
        /\ c # 0 => c \in DOMAIN calls /\ calls[c].kind \in {"flush"}
        /\ c # 0
    BY <1>1, <2>1, HeadCall
  <2> QED BY <2>2
<1>3. Answers(w, c, ok, {})
  <2>1. ok \in BOOLEAN /\ {} \in SUBSET Nat OBVIOUS
  <2> HIDE DEF ok
  <2> QED BY <1>1, <2>1, AnswerStep
<1> HIDE DEF c, ok
<1>4. ThreadsInv' /\ OpensAfterClose'
  <2>1. /\ committed' \subseteq DOMAIN calls /\ open' \in [Wrappers -> Transaction \cup {None}]
        /\ \A u \in Wrappers : open'[u] # None => thread[u] = "running" /\ open'[u].start \in Starts(u)
    BY <1>1 DEF TypeOK
  <2> QED BY <1>1, <1>2, <1>3, <2>1, AnswerThreads
<1>5. /\ \A u \in Wrappers : u # w => Served(u)' = Served(u)
      /\ Served(w)' = Served(w) \cup ({c} \ {0})
  BY <1>3, ServedByAnswer
<1>6. Results'
  <2>1. \A u \in Wrappers : open'[u] # None =>
             /\ open'[u] = open[u] /\ Served(u) \subseteq Served(u)'
             /\ Starts(u) \cap Served(u)' \subseteq Served(u)
    BY <1>1, <1>2, <1>5 DEF Starts
  <2>2. \A d \in DOMAIN calls : calls[d].kind \in {"callback", "commit"} =>
             calls'[d].ok = calls[d].ok /\ (calls[d].ok => calls'[d].seen = calls[d].seen)
    BY <1>2, <1>3 DEF Answers
  <2>3. DOMAIN calls' = DOMAIN calls /\ \A d \in DOMAIN calls : SameCall(d) BY <1>3 DEF Answers
  <2> QED BY <1>1, <2>1, <2>2, <2>3, ResultsKept DEF Results
<1> QED BY <1>4, <1>6 DEF Results

\* Whatever transaction is open is dropped by a rollback or an abort, of
\* JavaScript or of a finalizer, and its writes never reach the store.
LEMMA ServeEndStep ==
    ASSUME FullInv, NEW w \in Wrappers, ServeEnd(w) PROVE FullInv'
<1> USE DEF FullInv, ThreadsInv
<1> DEFINE c == Head(queue[w]).call
           ok == open[w] # None
<1>1. /\ Serves(w, {"rollback", "abort"}) /\ Answer(w, ok, {}) /\ open' = [open EXCEPT ![w] = None]
      /\ UNCHANGED <<thread, held, clean, owner, handles, committed>>
  BY DEF ServeEnd
<1>2. /\ queue[w][1].kind # "close"
      /\ c # 0 => c \in DOMAIN calls /\ calls[c].kind \in {"rollback", "abort"}
  BY <1>1, HeadCall
<1>3. ok \in BOOLEAN /\ {} \in SUBSET Nat BY Zenon
<1> HIDE DEF c, ok
<1>4. Answers(w, c, ok, {}) BY <1>1, <1>3, AnswerStep DEF c
<1>5. /\ open' \in [Wrappers -> Transaction \cup {None}]
      /\ \A u \in Wrappers : open'[u] = IF u = w THEN None ELSE open[u]
  BY <1>1 DEF TypeOK
<1>6. ThreadsInv' /\ OpensAfterClose'
  <2>1. \A u \in Wrappers : open'[u] # None => thread[u] = "running" /\ open'[u].start \in Starts(u)
    BY <1>5 DEF TypeOK
  <2>2. committed' \subseteq DOMAIN calls BY <1>1 DEF TypeOK
  <2> QED BY <1>1, <1>2, <1>4, <1>5, <2>1, <2>2, AnswerThreads
<1>7. \A u \in Wrappers : u # w => Served(u)' = Served(u)
  BY <1>4, ServedByAnswer
<1>8. Results'
  <2>1. \A u \in Wrappers : open'[u] # None =>
             /\ open'[u] = open[u] /\ Served(u) \subseteq Served(u)'
             /\ Starts(u) \cap Served(u)' \subseteq Served(u)
    BY <1>5, <1>7
  <2>2. \A d \in DOMAIN calls : calls[d].kind \in {"callback", "commit"} =>
             calls'[d].ok = calls[d].ok /\ (calls[d].ok => calls'[d].seen = calls[d].seen)
    <3>1. \A d \in DOMAIN calls : d # 0 BY CallsShape
    <3> QED BY <1>2, <1>4, <3>1 DEF Answers
  <2>3. DOMAIN calls' = DOMAIN calls /\ \A d \in DOMAIN calls : SameCall(d) BY <1>4 DEF Answers
  <2> QED BY <1>1, <2>1, <2>2, <2>3, ResultsKept DEF Results
<1> QED BY <1>6, <1>8 DEF Results

\* The transaction that is open when a call through a handle is served is that
\* of the handle.
LEMMA OwnTransaction ==
    ASSUME FullInv, NEW w \in Wrappers, open[w] # None,
           NEW c \in DOMAIN calls, calls[c].wrapper = w, c \notin Served(w),
           \A d \in Served(w) : d < c,
           \A i \in 1..Len(queue[w]) : queue[w][i].call # 0 => c <= queue[w][i].call,
           calls[c].handle # None
    PROVE  open[w].start = calls[c].handle
<1> USE DEF FullInv, ThreadsInv
<1> DEFINE h == calls[c].handle
           s == open[w].start
<1>1. h \in Starts(w) /\ h < c BY DEF TypeOK, ClientInv
<1>2. s \in Starts(w) BY DEF TypeOK
<1>3. OpenInv(w, s) BY <1>2 DEF TransactionInv
<1>4. h \in DOMAIN calls /\ s \in DOMAIN calls /\ calls[h].wrapper = w /\ calls[s].wrapper = w
      /\ calls[s].kind = "start"
  BY <1>1, <1>2 DEF Starts
<1>5. h \in Nat /\ s \in Nat /\ c \in Nat /\ h # 0 BY <1>4, CallsShape
<1>6. s < c /\ s \in Served(w) BY <1>3 DEF OpenInv
<1>7. h \in Served(w)
  <2>1. ASSUME NEW i \in 1..Len(queue[w]), queue[w][i].call = h PROVE FALSE
    <3>1. c <= h BY <1>5, <2>1
    <3> QED BY <1>1, <1>5, <3>1
  <2> QED BY <1>4, <2>1 DEF Served, Pending
<1>8. h <= s BY <1>1, <1>3, <1>7 DEF OpenInv
<1>9. ~ (h < s)
  <2>1. h < s => c < s BY <1>4 DEF ClientInv
  <2> QED BY <1>5, <1>6, <2>1
<1> QED BY <1>5, <1>8, <1>9

\* What is first in a queue is not younger than what waits behind it.
LEMMA HeadFirst ==
    ASSUME TypeOK, NEW w \in Wrappers, MessageInv(w, 1), queue[w][1].call # 0
    PROVE  \A i \in 1..Len(queue[w]) : queue[w][i].call # 0 => queue[w][1].call <= queue[w][i].call
<1>0. queue[w][1].call \in Nat BY CallsShape DEF MessageInv
<1> TAKE i \in 1..Len(queue[w])
<1>1. CASE i = 1 BY <1>0, <1>1
<1>2. CASE i # 1
  <2>1. 1 < i BY <1>2
  <2>2. queue[w] \in Seq(Message) BY DEF TypeOK
  <2>3. queue[w][i] \in Message BY <2>2, ElementOfSeq
  <2>4. queue[w][i].call \in Nat BY <2>3 DEF Message
  <2> QED BY <1>0, <2>1, <2>4 DEF MessageInv
<1> QED BY <1>1, <1>2

\* Once a call has succeeded no older call of its wrapper waits.
LEMMA SucceededIsServed ==
    ASSUME QueueInv, NEW w \in Wrappers, NEW d \in DOMAIN calls, calls[d].wrapper = w, calls[d].ok, d # 0
    PROVE  d \in Served(w)
<1>1. ASSUME NEW i \in 1..Len(queue[w]), queue[w][i].call = d PROVE FALSE
  <2>1. MessageInv(w, i) BY <1>1 DEF QueueInv
  <2> QED BY <1>1, <2>1 DEF MessageInv
<1> QED BY <1>1 DEF Served, Pending

\* What an answer to call c leaves alone.
Framed(c) ==
  /\ DOMAIN calls' = DOMAIN calls
  /\ \A u \in Wrappers : Starts(u)' = Starts(u)
  /\ \A h : Through(h)' = Through(h)
  /\ \A d \in DOMAIN calls : Writing(d)' <=> Writing(d)
  /\ \A d \in DOMAIN calls : d # c => calls'[d] = calls[d]
  /\ c \in DOMAIN calls
  /\ calls'[c].handle = calls[c].handle /\ calls'[c].kind = calls[c].kind /\ calls'[c].fn = calls[c].fn

\* An answer changes nothing but the result of its call.
LEMMA AnswerFrame ==
    ASSUME TypeOK, NEW w \in Wrappers, NEW c, NEW ok, NEW seen, Answers(w, c, ok, seen), c # 0
    PROVE  Framed(c)
<1>1. /\ DOMAIN calls' = DOMAIN calls
      /\ \A d \in DOMAIN calls : SameCall(d)
      /\ \A d \in DOMAIN calls : d # c => calls'[d] = calls[d]
      /\ c \in DOMAIN calls
  BY DEF Answers
<1>2. \A u \in Wrappers : Starts(u)' = Starts(u) BY <1>1 DEF Starts, SameCall
<1>3. \A h : Through(h)' = Through(h) BY <1>1 DEF Through, SameCall
<1>4. \A d \in DOMAIN calls : Writing(d)' <=> Writing(d) BY <1>1 DEF Writing, SameCall
<1> QED BY <1>1, <1>2, <1>3, <1>4 DEF SameCall, Framed

\* Only the success of a commit commits.
LEMMA CommittingFrame ==
    ASSUME TypeOK, NEW c, Framed(c), NEW h,
           calls[c].handle # h \/ calls[c].kind # "commit" \/ calls'[c].ok = calls[c].ok
    PROVE  Committing(h)' = Committing(h)
<1>1. ASSUME NEW d \in DOMAIN calls
      PROVE  (calls'[d].handle = h /\ calls'[d].kind = "commit" /\ calls'[d].ok)
               <=> (calls[d].handle = h /\ calls[d].kind = "commit" /\ calls[d].ok)
  <2>1. CASE d # c BY <2>1 DEF Framed
  <2>2. CASE d = c BY <2>2 DEF Framed
  <2> QED BY <2>1, <2>2
<1> QED BY <1>1 DEF Committing, Framed

\* The transactions of other wrappers stay as they are.
LEMMA OthersOpen ==
    ASSUME FullInv, NEW w \in Wrappers, NEW c, Framed(c), calls[c].wrapper = w,
           NEW u \in Wrappers, u # w, Served(u)' = Served(u),
           open'[u] = open[u], open[u] # None, NEW s \in Starts(u), open[u].start = s
    PROVE  OpenInv(u, s)'
<1> USE DEF FullInv, ThreadsInv
<1>1. OpenInv(u, s) BY DEF TransactionInv
<1>2. calls[c].handle # s /\ c \in DOMAIN calls
  <2>1. c \in DOMAIN calls BY DEF Framed
  <2> QED BY <2>1, ThroughWrapper
<1>3. c \notin Through(s) BY <1>2 DEF Through
<1>4. Committing(s)' = Committing(s) BY <1>2, CommittingFrame
<1>5. \A d \in Through(s) : d \in DOMAIN calls /\ calls'[d] = calls[d] /\ (Writing(d)' <=> Writing(d))
  BY <1>3 DEF Through, Framed
<1>6. Through(s)' = Through(s) /\ Starts(u)' = Starts(u) BY DEF Framed
<1> QED BY <1>1, <1>4, <1>5, <1>6 DEF OpenInv

\* What a read that is answered with success must have seen.
ReadsRight(c, ok, seen) ==
  /\ ok = TRUE /\ calls[c].kind = "callback" /\ calls[c].fn.effect = "read"
  /\ calls[c].fn.transaction = "optional"
  => /\ \A d \in Through(calls[c].handle) :
          calls[c].handle # None /\ d # c /\ calls[d].ok /\ Writing(d) => d \in seen
     /\ \A d \in seen : calls[d].handle # calls[c].handle => d \in committed

\* Earlier reads saw all they should: what is answered now was asked for later.
LEMMA ReadsKept ==
    ASSUME FullInv, NEW w \in Wrappers, NEW c, NEW ok \in BOOLEAN, NEW seen, Answers(w, c, ok, seen), c # 0,
           calls[c].wrapper = w, \A d \in Served(w) : d < c,
           committed \subseteq committed', seen \subseteq DOMAIN calls,
           ReadsRight(c, ok, seen)
    PROVE  ReadsOwnTransaction'
<1> USE DEF FullInv, ThreadsInv
<1>1. /\ DOMAIN calls' = DOMAIN calls
      /\ \A d \in DOMAIN calls : Writing(d)' <=> Writing(d)
      /\ \A d \in DOMAIN calls : d # c => calls'[d] = calls[d]
      /\ c \in DOMAIN calls /\ calls'[c].ok = ok /\ calls'[c].seen = seen
      /\ calls'[c].handle = calls[c].handle /\ calls'[c].kind = calls[c].kind /\ calls'[c].fn = calls[c].fn
  <2>1. /\ DOMAIN calls' = DOMAIN calls
        /\ \A d \in DOMAIN calls : SameCall(d)
        /\ \A d \in DOMAIN calls : d # c => calls'[d] = calls[d]
        /\ c \in DOMAIN calls /\ calls'[c].ok = ok /\ calls'[c].seen = seen
    BY DEF Answers
  <2>2. \A d \in DOMAIN calls : Writing(d)' <=> Writing(d) BY <2>1 DEF Writing, SameCall
  <2> QED BY <2>1, <2>2 DEF SameCall
<1>2. \A d \in DOMAIN calls : /\ calls'[d].handle = calls[d].handle /\ calls'[d].kind = calls[d].kind
                              /\ calls'[d].fn = calls[d].fn
  BY <1>1
<1>3. \A d \in DOMAIN calls : d \in Nat /\ d # 0 BY CallsShape
<1> SUFFICES ASSUME NEW x \in DOMAIN calls,
                    calls'[x].ok, calls'[x].kind = "callback", calls'[x].fn.effect = "read",
                    calls'[x].fn.transaction = "optional"
             PROVE  /\ \A d \in DOMAIN calls' :
                         calls'[d].handle = calls'[x].handle /\ calls'[d].kind = "callback" =>
                         (calls'[x].handle # None /\ d < x /\ calls'[d].ok /\ Writing(d)' => d \in calls'[x].seen)
                    /\ \A d \in calls'[x].seen : calls'[d].handle # calls'[x].handle => d \in committed'
  BY <1>1 DEF ReadsOwnTransaction, Through
<1>ok. ok \in BOOLEAN OBVIOUS
<1>4. CASE x = c
  <2>0. ok = TRUE
    <3>1. ok = calls'[x].ok BY <1>1, <1>4
    <3> QED BY <3>1, <1>ok
  <2>1. /\ \A d \in Through(calls[c].handle) :
             calls[c].handle # None /\ d # c /\ calls[d].ok /\ Writing(d) => d \in seen
        /\ \A d \in seen : calls[d].handle # calls[c].handle => d \in committed
    BY <1>1, <1>4, <2>0 DEF ReadsRight
  <2>2. ASSUME NEW d \in DOMAIN calls', calls'[d].handle = calls'[x].handle, calls'[d].kind = "callback",
               calls'[x].handle # None, d < x, calls'[d].ok, Writing(d)'
        PROVE  d \in calls'[x].seen
    <3>1. d \in DOMAIN calls /\ d # c BY <1>1, <1>3, <1>4, <2>2
    <3>2. d \in Through(calls[c].handle) /\ calls[d].ok /\ Writing(d) /\ calls[c].handle # None
      BY <1>1, <1>2, <1>4, <2>2, <3>1 DEF Through
    <3> QED BY <1>1, <1>4, <2>1, <3>1, <3>2
  <2>3. ASSUME NEW d \in calls'[x].seen, calls'[d].handle # calls'[x].handle PROVE d \in committed'
    <3>1. d \in seen BY <1>1, <1>4, <2>3
    <3>2. d \in DOMAIN calls BY <3>1
    <3> QED BY <1>2, <1>4, <2>1, <2>3, <3>1, <3>2
  <2> QED BY <2>2, <2>3
<1>5. CASE x # c
  <2>1. calls'[x] = calls[x] BY <1>1, <1>5
  <2>2. /\ \A d \in Through(calls[x].handle) :
             calls[x].handle # None /\ d < x /\ calls[d].ok /\ Writing(d) => d \in calls[x].seen
        /\ \A d \in calls[x].seen : calls[d].handle # calls[x].handle => d \in committed
    BY <2>1 DEF ReadsOwnTransaction
  <2>3. ASSUME NEW d \in DOMAIN calls', calls'[d].handle = calls'[x].handle, calls'[d].kind = "callback",
               calls'[x].handle # None, d < x, calls'[d].ok, Writing(d)'
        PROVE  d \in calls'[x].seen
    <3>1. d \in DOMAIN calls BY <1>1
    <3>2. d # c
      <4>1. SUFFICES ASSUME d = c PROVE FALSE OBVIOUS
      <4>2. calls[x].handle = calls[c].handle /\ calls[x].handle # None BY <1>1, <2>1, <2>3, <4>1
      <4>3. calls[x].handle \in Starts(calls[x].wrapper) /\ calls[c].handle \in Starts(calls[c].wrapper)
        BY <1>1, <4>2 DEF TypeOK
      <4>4. calls[x].wrapper = w BY <4>2, <4>3 DEF Starts
      <4>5. x \in Served(w) BY <1>3, <2>1, <4>4, SucceededIsServed
      <4>6. x < c /\ c < x BY <2>3, <4>1, <4>5
      <4> QED BY <1>1, <1>3, <4>6
    <3>3. d \in Through(calls[x].handle) /\ calls[d].ok /\ Writing(d) /\ calls[x].handle # None
      BY <1>1, <1>2, <2>1, <2>3, <3>1, <3>2 DEF Through
    <3> QED BY <2>1, <2>2, <2>3, <3>3
  <2>4. calls[x].seen \subseteq DOMAIN calls BY DEF TypeOK
  <2>5. \A d \in calls'[x].seen : calls'[d].handle # calls'[x].handle => d \in committed'
    BY <1>2, <2>1, <2>2, <2>4
  <2> QED BY <2>3, <2>5
<1> QED BY <1>4, <1>5

\* A start is served: nothing was done through its handle yet.
LEMMA ServeStartStep ==
    ASSUME FullInv, NEW w \in Wrappers, ServeStart(w) PROVE FullInv'
<1> USE DEF FullInv, ThreadsInv
<1>0. PICK c : c = Head(queue[w]).call OBVIOUS
<1> DEFINE ok == TRUE
           t == [start |-> c, writes |-> {}]
<1>1. /\ Serves(w, {"start"}) /\ Answer(w, ok, {}) /\ open' = [open EXCEPT ![w] = t]
      /\ UNCHANGED <<thread, held, clean, owner, handles, committed>>
  BY <1>0 DEF ServeStart
<1>2. /\ queue[w][1].kind # "close" /\ c # 0 /\ c \in DOMAIN calls /\ calls[c].kind = "start"
      /\ calls[c].wrapper = w /\ \A d \in Served(w) : d < c
  <2>1. "close" \notin {"start"} /\ "abort" \notin {"start"} OBVIOUS
  <2>2. /\ queue[w][1].kind # "close"
        /\ c # 0 => c \in DOMAIN calls /\ calls[c].kind \in {"start"} /\ calls[c].wrapper = w
                    /\ \A d \in Served(w) : d < c
        /\ c # 0
    BY <1>0, <1>1, <2>1, HeadCall
  <2> QED BY <2>2
<1>3. Answers(w, c, ok, {})
  <2>1. ok \in BOOLEAN /\ {} \in SUBSET Nat OBVIOUS
  <2> HIDE DEF ok
  <2> QED BY <1>0, <1>1, <2>1, AnswerStep
<1> HIDE DEF ok
<1>4. t \in Transaction /\ t.start = c /\ t.writes = {} /\ c \in Nat
  <2>1. c \in Nat BY <1>2, CallsShape
  <2> QED BY <2>1 DEF Transaction
<1> HIDE DEF t
<1>5. /\ open' \in [Wrappers -> Transaction \cup {None}]
      /\ \A u \in Wrappers : open'[u] = IF u = w THEN t ELSE open[u]
  BY <1>1, <1>4 DEF TypeOK
<1>6. ThreadsInv' /\ OpensAfterClose'
  <2>1. \A u \in Wrappers : open'[u] # None => thread[u] = "running" /\ open'[u].start \in Starts(u)
    BY <1>1, <1>2, <1>4, <1>5 DEF TypeOK, Starts, Serves
  <2>2. committed' \subseteq DOMAIN calls BY <1>1 DEF TypeOK
  <2> QED BY <1>1, <1>2, <1>3, <1>5, <2>1, <2>2, AnswerThreads
<1>7. Framed(c) BY <1>2, <1>3, AnswerFrame
<1>8. /\ \A u \in Wrappers : u # w => Served(u)' = Served(u)
      /\ Served(w)' = Served(w) \cup ({c} \ {0})
  BY <1>3, ServedByAnswer
<1>9. TransactionInv'
  <2> SUFFICES ASSUME NEW u \in Wrappers, open'[u] # None, NEW s \in Starts(u), open'[u].start = s
               PROVE  OpenInv(u, s)'
    BY <1>7 DEF TransactionInv, Framed
  <2>1. CASE u # w
    <3>1. open'[u] = open[u] BY <1>5, <2>1
    <3> QED BY <1>2, <1>7, <1>8, <2>1, <3>1, OthersOpen
  <2>2. CASE u = w
    <3>1. s = c /\ open'[w].writes = {} BY <1>4, <1>5, <2>2
    <3>2. ASSUME NEW d \in DOMAIN calls, calls[d].handle = c, calls[d].ok PROVE FALSE
      <4>1. c \in Starts(w) BY <1>2 DEF Starts
      <4>2. calls[d].wrapper = w /\ c # None BY <3>2, <4>1, ThroughWrapper
      <4>3. d \in Nat /\ d # 0 BY CallsShape
      <4>4. c < d BY <3>2, <4>2 DEF ClientInv
      <4>5. d < c BY <1>2, <3>2, <4>2, <4>3, SucceededIsServed
      <4> QED BY <1>4, <4>3, <4>4, <4>5
    <3>3. Committing(s)' = {}
      <4>1. Committing(s)' = Committing(s) BY <1>2, <1>7, CommittingFrame
      <4>2. Committing(s) = {} BY <3>1, <3>2 DEF Committing
      <4> QED BY <4>1, <4>2
    <3>4. \A d \in Through(s)' : ~ calls'[d].ok
      <4> TAKE d \in Through(s)'
      <4>1. d \in DOMAIN calls /\ calls[d].handle = c /\ calls[d].kind = "callback"
        BY <1>7, <3>1 DEF Framed, Through
      <4>2. calls'[d] = calls[d] BY <1>2, <1>7, <4>1 DEF Framed
      <4> QED BY <3>2, <4>1, <4>2
    <3>5. s \in Served(w)' BY <1>2, <1>8, <3>1
    <3>6. \A x \in Starts(w)' \cap Served(w)' : x <= s
      BY <1>2, <1>4, <1>8, <3>1, CallsShape DEF Served
    <3>7. open'[w].writes \subseteq Through(s)' BY <3>1
    <3> QED BY <2>2, <3>3, <3>4, <3>5, <3>6, <3>7 DEF OpenInv
  <2> QED BY <2>1, <2>2
<1>10. CommitsWhole' /\ ReadsOwnTransaction'
  <2>1. \A d \in DOMAIN calls : calls[d].kind \in {"callback", "commit"} =>
             calls'[d].ok = calls[d].ok /\ (calls[d].ok => calls'[d].seen = calls[d].seen)
    BY <1>2, <1>7 DEF Framed
  <2>2. DOMAIN calls' = DOMAIN calls /\ \A d \in DOMAIN calls : SameCall(d) BY <1>3 DEF Answers
  <2> QED BY <1>1, <2>1, <2>2, StoreKept
<1> QED BY <1>6, <1>9, <1>10

\* A commit is served: it commits the transaction of its own handle, or none.
LEMMA ServeCommitStep ==
    ASSUME FullInv, NEW w \in Wrappers, ServeCommit(w) PROVE FullInv'
<1> USE DEF FullInv, ThreadsInv
<1>0. PICK c : c = Head(queue[w]).call OBVIOUS
<1> DEFINE ok == open[w] # None
<1>1. /\ Serves(w, {"commit"}) /\ Answer(w, ok, {}) /\ open' = [open EXCEPT ![w] = None]
      /\ committed' = IF open[w] = None THEN committed ELSE committed \cup open[w].writes
      /\ UNCHANGED <<thread, held, clean, owner, handles>>
  BY DEF ServeCommit
<1>2. /\ queue[w][1].kind # "close" /\ c # 0 /\ c \in DOMAIN calls /\ calls[c].kind = "commit"
      /\ calls[c].wrapper = w /\ \A d \in Served(w) : d < c
      /\ c = queue[w][1].call /\ MessageInv(w, 1) /\ calls[c].ok = FALSE /\ c \notin Served(w)
  <2>1. "close" \notin {"commit"} /\ "abort" \notin {"commit"} OBVIOUS
  <2>2. /\ Head(queue[w]) = queue[w][1] /\ queue[w][1].kind # "close"
        /\ c # 0 => MessageInv(w, 1) /\ c \in DOMAIN calls /\ calls[c].kind \in {"commit"}
                    /\ calls[c].wrapper = w /\ calls[c].ok = FALSE /\ c \notin Served(w)
                    /\ \A d \in Served(w) : d < c
        /\ c # 0
    BY <1>0, <1>1, <2>1, HeadCall
  <2> QED BY <1>0, <2>2
<1>3. ok \in BOOLEAN /\ {} \in SUBSET Nat BY Zenon
<1>3a. ok <=> open[w] # None OBVIOUS
<1> HIDE DEF ok
<1>4. Answers(w, c, ok, {}) BY <1>0, <1>1, <1>3, AnswerStep
<1>5. /\ open' \in [Wrappers -> Transaction \cup {None}]
      /\ \A u \in Wrappers : open'[u] = IF u = w THEN None ELSE open[u]
  BY <1>1 DEF TypeOK
<1>6. open[w] # None => /\ open[w].start \in Starts(w) /\ OpenInv(w, open[w].start)
                        /\ open[w].start = calls[c].handle
                        /\ open[w].writes \subseteq DOMAIN calls
  <2> SUFFICES ASSUME open[w] # None
               PROVE  /\ open[w].start \in Starts(w) /\ OpenInv(w, open[w].start)
                      /\ open[w].start = calls[c].handle
                      /\ open[w].writes \subseteq DOMAIN calls
    OBVIOUS
  <2>1. open[w].start \in Starts(w) BY DEF TypeOK
  <2>2. OpenInv(w, open[w].start) BY <2>1 DEF TransactionInv
  <2>3. \A i \in 1..Len(queue[w]) : queue[w][i].call # 0 => c <= queue[w][i].call
    BY <1>2, HeadFirst
  <2>4. calls[c].handle # None BY <1>2 DEF ClientInv
  <2>5. open[w].start = calls[c].handle BY <1>2, <2>3, <2>4, OwnTransaction
  <2>6. open[w].writes \subseteq DOMAIN calls BY <2>2 DEF OpenInv, Through
  <2> QED BY <2>1, <2>2, <2>5, <2>6
<1>7. ThreadsInv' /\ OpensAfterClose'
  <2>1. \A u \in Wrappers : open'[u] # None => thread[u] = "running" /\ open'[u].start \in Starts(u)
    BY <1>5 DEF TypeOK
  <2>2. committed' \subseteq DOMAIN calls BY <1>1, <1>6 DEF TypeOK
  <2> QED BY <1>1, <1>2, <1>4, <1>5, <2>1, <2>2, AnswerThreads
<1>8. Framed(c) /\ calls'[c].ok = ok
  BY <1>2, <1>4, AnswerFrame DEF Answers
<1>9. \A u \in Wrappers : u # w => Served(u)' = Served(u)
  BY <1>4, ServedByAnswer
<1>10. TransactionInv'
  <2> SUFFICES ASSUME NEW u \in Wrappers, open'[u] # None, NEW s \in Starts(u), open'[u].start = s
               PROVE  OpenInv(u, s)'
    BY <1>8 DEF TransactionInv, Framed
  <2>1. u # w /\ open'[u] = open[u] BY <1>5
  <2> QED BY <1>2, <1>8, <1>9, <2>1, OthersOpen
<1>11. CommitsWhole'
  <2> SUFFICES ASSUME NEW u \in Wrappers, NEW h \in Starts(u)
               PROVE  IF Committing(h)' # {}
                      THEN \A d \in Through(h)' : Writing(d)' /\ calls'[d].ok => d \in committed'
                      ELSE Through(h)' \cap committed' = {}
    BY <1>8 DEF CommitsWhole, Framed
  <2>1. Through(h)' = Through(h) BY <1>8 DEF Framed
  <2>2. \A d \in Through(h) : calls'[d].ok = calls[d].ok /\ (Writing(d)' <=> Writing(d))
    <3> TAKE d \in Through(h)
    <3>1. d \in DOMAIN calls /\ d # c BY <1>2 DEF Through
    <3> QED BY <1>8, <3>1 DEF Framed
  <2>3. IF Committing(h) # {}
        THEN \A d \in Through(h) : Writing(d) /\ calls[d].ok => d \in committed
        ELSE Through(h) \cap committed = {}
    BY DEF CommitsWhole
  <2>4. committed \subseteq committed' BY <1>1
  <2>5. CASE open[w] = None
    <3>1. calls'[c].ok = calls[c].ok
      <4>1. ~ ok BY <1>3a, <2>5
      <4>2. calls'[c].ok = FALSE BY <1>3, <1>8, <4>1
      <4> QED BY <1>2, <4>2
    <3>2. Committing(h)' = Committing(h) BY <1>8, <3>1, CommittingFrame
    <3>3. committed' = committed BY <1>1, <2>5
    <3> QED BY <2>1, <2>2, <2>3, <3>2, <3>3
  <2>6. CASE open[w] # None /\ h = open[w].start
    <3>1. \A d \in Through(h) : Writing(d) /\ calls[d].ok => d \in open[w].writes
      BY <1>6, <2>6 DEF OpenInv
    <3>2. committed' = committed \cup open[w].writes BY <1>1, <2>6
    <3>3. Committing(h)' # {}
      <4>1. calls'[c].ok = TRUE BY <1>3, <1>3a, <1>8, <2>6
      <4>2. calls'[c].handle = h /\ calls'[c].kind = "commit" /\ c \in DOMAIN calls'
        BY <1>2, <1>6, <1>8, <2>6 DEF Framed
      <4> QED BY <4>1, <4>2 DEF Committing
    <3> QED BY <2>1, <2>2, <3>1, <3>2, <3>3
  <2>7. CASE open[w] # None /\ h # open[w].start
    <3>1. Committing(h)' = Committing(h) BY <1>6, <1>8, <2>7, CommittingFrame
    <3>2. committed' = committed \cup open[w].writes BY <1>1, <2>7
    <3>3. Through(h) \cap open[w].writes = {}
      BY <1>6, <2>7 DEF OpenInv, Through
    <3>4. CASE Committing(h) # {} BY <2>1, <2>2, <2>3, <2>4, <3>1, <3>4
    <3>5. CASE Committing(h) = {} BY <2>1, <2>3, <3>1, <3>2, <3>3, <3>5
    <3> QED BY <3>4, <3>5
  <2> QED BY <2>5, <2>6, <2>7
<1>12. ReadsOwnTransaction'
  <2>1. committed \subseteq committed' BY <1>1
  <2>2. ReadsRight(c, ok, {}) BY <1>2 DEF ReadsRight
  <2>3. {} \subseteq DOMAIN calls OBVIOUS
  <2> QED BY <1>2, <1>3, <1>4, <2>1, <2>2, <2>3, ReadsKept
<1> QED BY <1>7, <1>10, <1>11, <1>12

\* Where a callback works: in its transaction, in the store, or nowhere since
\* there is no transaction.
Where(w, c) == IF calls[c].fn.transaction = "ignored" THEN "store" ELSE Resolved(w, calls[c].handle)

\* What a callback does: with success it wrote if it is one that writes, and
\* without it may have written.
Outcome(w, c, ok, seen) ==
  /\ ok = TRUE => Where(w, c) # "unknown" /\ seen = Visible(w, Where(w, c))
  /\ ok = FALSE => seen = {}
  /\ \/ open' = open /\ committed' = committed /\ (ok = TRUE => ~ Writing(c))
     \/ Where(w, c) # "unknown" /\ Writing(c) /\ Write(w, Where(w, c), c)

\* The function that ignores its transaction reads.
LEMMA IgnoredReads ==
    \A fn \in Functions \cup {NoFunction} : fn.transaction = "ignored" => fn.effect = "read"
BY DEF Functions, NoFunction, Function, js_create_initial_state_structure, js_fetch_contract,
       js_create_contract, js_update_contract, js_create_document, js_update_document,
       js_delete_document, js_insert_identity_cbor, js_query_documents, js_prove_documents_query,
       js_grove_db_get, js_grove_db_insert, js_grove_db_insert_if_not_exists, js_grove_db_put_aux,
       js_grove_db_delete_aux, js_grove_db_get_aux, js_grove_db_query, js_grove_db_prove_query,
       js_grove_db_root_hash, js_grove_db_delete, js_abci_init_chain, js_abci_block_begin,
       js_abci_block_end, js_fetch_latest_withdrawal_transaction_index,
       js_enqueue_withdrawal_transaction, js_grove_db_prove_query_many, js_abci_after_finalize_block

\* A callback that writes to the store was given no transaction, and one that
\* was given a transaction works in it.
LEMMA WhereWrites ==
    ASSUME TypeOK, NEW w \in Wrappers, NEW c \in DOMAIN calls
    PROVE  /\ Where(w, c) \in {"store", "unknown", "transaction"}
           /\ Where(w, c) = "store" /\ Writing(c) => calls[c].handle = None
           /\ Where(w, c) = "store" /\ calls[c].fn.transaction = "optional" => calls[c].handle = None
           /\ Where(w, c) = "transaction" => calls[c].handle # None /\ open[w] # None
<1>1. calls[c].fn \in Functions \cup {NoFunction} BY CallsShape DEF CallRecord
<1>2. calls[c].fn.transaction = "ignored" => ~ Writing(c) BY <1>1, IgnoredReads DEF Writing
<1> QED BY <1>2 DEF Where, Resolved

\* The step of ServeCallback as the proofs use it.
LEMMA CallbackOutcome ==
    ASSUME NEW w \in Wrappers, ServeCallback(w), NEW c, c = Head(queue[w]).call
    PROVE  /\ Serves(w, {"callback"}) /\ UNCHANGED <<thread, held, clean, owner, handles>>
           /\ \E ok \in BOOLEAN : \E seen : Answer(w, ok, seen) /\ Outcome(w, c, ok, seen)
<1>1. Serves(w, {"callback"}) /\ UNCHANGED <<thread, held, clean, owner, handles>>
  BY DEF ServeCallback
<1> DEFINE where == IF calls[c].fn.transaction = "ignored" THEN "store" ELSE Resolved(w, calls[c].handle)
           writes == \/ calls[c].fn.effect \in {"write", "steps"}
                     \/ calls[c].fn.effect = "apply" /\ calls[c].apply
<1>2. \/ /\ where # "unknown" /\ Answer(w, TRUE, Visible(w, where))
         /\ IF writes THEN Write(w, where, c) ELSE UNCHANGED <<open, committed>>
      \/ /\ Answer(w, FALSE, {})
         /\ \/ UNCHANGED <<open, committed>>
            \/ where # "unknown" /\ calls[c].fn.effect = "steps" /\ Write(w, where, c)
  BY DEF ServeCallback
<1>3. where = Where(w, c) BY DEF Where
<1>4. writes <=> Writing(c) BY DEF Writing
<1>5. calls[c].fn.effect = "steps" => Writing(c) BY DEF Writing
<1> HIDE DEF where, writes
<1>6. CASE /\ where # "unknown" /\ Answer(w, TRUE, Visible(w, where))
           /\ IF writes THEN Write(w, where, c) ELSE UNCHANGED <<open, committed>>
  <2>1. Outcome(w, c, TRUE, Visible(w, where)) BY <1>3, <1>4, <1>6 DEF Outcome
  <2> QED BY <1>1, <1>6, <2>1
<1>7. CASE /\ Answer(w, FALSE, {})
           /\ \/ UNCHANGED <<open, committed>>
              \/ where # "unknown" /\ calls[c].fn.effect = "steps" /\ Write(w, where, c)
  <2>1. Outcome(w, c, FALSE, {}) BY <1>3, <1>5, <1>7 DEF Outcome
  <2> QED BY <1>1, <1>7, <2>1
<1> QED BY <1>2, <1>6, <1>7

\* What is written through a handle goes to the transaction of the handle; what
\* is written without one goes to the store.
LEMMA ServeCallbackStep ==
    ASSUME FullInv, NEW w \in Wrappers, ServeCallback(w) PROVE FullInv'
<1> USE DEF FullInv, ThreadsInv
<1>0. PICK c : c = Head(queue[w]).call OBVIOUS
<1>1. Serves(w, {"callback"}) /\ UNCHANGED <<thread, held, clean, owner, handles>>
  BY <1>0, CallbackOutcome
<1>2. PICK ok \in BOOLEAN : \E seen : Answer(w, ok, seen) /\ Outcome(w, c, ok, seen)
  BY <1>0, CallbackOutcome
<1>3. PICK seen : Answer(w, ok, seen) /\ Outcome(w, c, ok, seen) BY <1>2
<1>4. /\ queue[w][1].kind # "close" /\ c # 0 /\ c \in DOMAIN calls /\ calls[c].kind = "callback"
      /\ calls[c].wrapper = w /\ \A d \in Served(w) : d < c
      /\ c = queue[w][1].call /\ MessageInv(w, 1) /\ calls[c].ok = FALSE /\ c \notin Served(w)
  <2>1. "close" \notin {"callback"} /\ "abort" \notin {"callback"} OBVIOUS
  <2>2. /\ Head(queue[w]) = queue[w][1] /\ queue[w][1].kind # "close"
        /\ c # 0 => MessageInv(w, 1) /\ c \in DOMAIN calls /\ calls[c].kind \in {"callback"}
                    /\ calls[c].wrapper = w /\ calls[c].ok = FALSE /\ c \notin Served(w)
                    /\ \A d \in Served(w) : d < c
        /\ c # 0
    BY <1>0, <1>1, <2>1, HeadCall
  <2> QED BY <1>0, <2>2
<1>5. committed \subseteq DOMAIN calls /\ \A d \in DOMAIN calls : d \in Nat BY CallsShape DEF TypeOK
<1>6. open[w] # None => /\ open[w].start \in Starts(w) /\ OpenInv(w, open[w].start)
                        /\ calls[c].handle # None => open[w].start = calls[c].handle
                        /\ open[w].writes \subseteq DOMAIN calls /\ open[w] \in Transaction
  <2> SUFFICES ASSUME open[w] # None
               PROVE  /\ open[w].start \in Starts(w) /\ OpenInv(w, open[w].start)
                      /\ calls[c].handle # None => open[w].start = calls[c].handle
                      /\ open[w].writes \subseteq DOMAIN calls /\ open[w] \in Transaction
    OBVIOUS
  <2>1. open[w].start \in Starts(w) /\ open[w] \in Transaction BY DEF TypeOK
  <2>2. OpenInv(w, open[w].start) BY <2>1 DEF TransactionInv
  <2>3. \A i \in 1..Len(queue[w]) : queue[w][i].call # 0 => c <= queue[w][i].call
    BY <1>4, HeadFirst
  <2>4. calls[c].handle # None => open[w].start = calls[c].handle BY <1>4, <2>3, OwnTransaction
  <2>5. open[w].writes \subseteq DOMAIN calls BY <2>2 DEF OpenInv, Through
  <2> QED BY <2>1, <2>2, <2>4, <2>5
<1>7. /\ Where(w, c) \in {"store", "unknown", "transaction"}
      /\ Where(w, c) = "store" /\ Writing(c) => calls[c].handle = None
      /\ Where(w, c) = "store" /\ calls[c].fn.transaction = "optional" => calls[c].handle = None
      /\ Where(w, c) = "transaction" => calls[c].handle # None /\ open[w] # None
  BY <1>4, WhereWrites
<1>8. seen \subseteq DOMAIN calls /\ seen \in SUBSET Nat
  <2>1. ok = TRUE => seen \subseteq DOMAIN calls BY <1>3, <1>5, <1>6, <1>7 DEF Outcome, Visible
  <2>2. ok = FALSE => seen \subseteq DOMAIN calls BY <1>3 DEF Outcome
  <2>3. ok \in BOOLEAN OBVIOUS
  <2>4. seen \subseteq DOMAIN calls BY <2>1, <2>2, <2>3
  <2> QED BY <1>5, <2>4
<1>9. Answers(w, c, ok, seen) BY <1>0, <1>1, <1>3, <1>8, AnswerStep
<1>10. Framed(c) /\ calls'[c].ok = ok BY <1>4, <1>9, AnswerFrame DEF Answers
<1>11. /\ \A u \in Wrappers : u # w => Served(u)' = Served(u)
       /\ Served(w)' = Served(w) \cup ({c} \ {0})
  BY <1>9, ServedByAnswer
\* What is written, and where.
<1>12. PICK T \in SUBSET {c}, S \in SUBSET {c} :
         /\ committed' = committed \cup S
         /\ open' \in [Wrappers -> Transaction \cup {None}]
         /\ \A u \in Wrappers : u # w => open'[u] = open[u]
         /\ open[w] = None => open'[w] = None
         /\ open[w] # None => open'[w].start = open[w].start /\ open'[w].writes = open[w].writes \cup T
         /\ S # {} => calls[c].handle = None
         /\ T # {} => calls[c].handle # None /\ open[w] # None
         /\ ok = TRUE /\ Writing(c) => (Where(w, c) = "transaction" => T = {c})
  <2>0. open \in [Wrappers -> Transaction \cup {None}] BY DEF TypeOK
  <2>1. CASE open' = open /\ committed' = committed /\ (ok = TRUE => ~ Writing(c))
    <3>1. {} \in SUBSET {c} OBVIOUS
    <3> QED BY <2>0, <2>1, <3>1
  <2>2. CASE Writing(c) /\ Where(w, c) = "store" /\ Write(w, Where(w, c), c)
    <3>1. open' = open /\ committed' = committed \cup {c} BY <2>2 DEF Write
    <3>2. {} \in SUBSET {c} /\ {c} \in SUBSET {c} OBVIOUS
    <3>3. calls[c].handle = None BY <1>7, <2>2
    <3>4. Where(w, c) # "transaction" BY <2>2
    <3> QED BY <2>0, <3>1, <3>2, <3>3, <3>4
  <2>3. CASE Writing(c) /\ Where(w, c) = "transaction" /\ Write(w, Where(w, c), c)
    <3> DEFINE t == [open[w] EXCEPT !.writes = open[w].writes \cup {c}]
    <3>1. open' = [open EXCEPT ![w] = t] /\ committed' = committed BY <2>3 DEF Write
    <3>2. open[w] # None /\ open[w] \in Transaction /\ calls[c].handle # None BY <1>6, <1>7, <2>3
    <3>3. t \in Transaction /\ t.start = open[w].start /\ t.writes = open[w].writes \cup {c}
      BY <1>4, <1>5, <3>2 DEF Transaction
    <3> HIDE DEF t
    <3>4. /\ open' \in [Wrappers -> Transaction \cup {None}] /\ open'[w] = t
          /\ \A u \in Wrappers : u # w => open'[u] = open[u]
      BY <2>0, <3>1, <3>3
    <3>5. {} \in SUBSET {c} /\ {c} \in SUBSET {c} OBVIOUS
    <3>6. committed' = committed \cup {} BY <3>1
    <3>7. open'[w].start = open[w].start /\ open'[w].writes = open[w].writes \cup {c} BY <3>3, <3>4
    <3> QED BY <3>2, <3>4, <3>5, <3>6, <3>7
  <2> QED BY <1>3, <1>7, <2>1, <2>2, <2>3 DEF Outcome
<1>13. open'[w] # None => open[w] # None /\ open'[w].start = open[w].start
                          /\ open'[w].writes = open[w].writes \cup T
  BY <1>12
<1>14. ThreadsInv' /\ OpensAfterClose'
  <2>1. \A u \in Wrappers : open'[u] # None => thread[u] = "running" /\ open'[u].start \in Starts(u)
    <3> TAKE u \in Wrappers
    <3>1. CASE u # w BY <1>12, <3>1 DEF TypeOK
    <3>2. CASE u = w BY <1>6, <1>13, <3>2 DEF TypeOK
    <3> QED BY <3>1, <3>2
  <2>2. committed' \subseteq DOMAIN calls
    <3>1. committed' = committed \cup S /\ S \subseteq {c} BY <1>12
    <3> QED BY <1>4, <1>5, <3>1
  <2>3. open' \in [Wrappers -> Transaction \cup {None}] BY <1>12
  <2> QED BY <1>1, <1>4, <1>8, <1>9, <2>1, <2>2, <2>3, AnswerThreads
<1>15. \A h : Committing(h)' = Committing(h)
  <2>1. calls[c].kind # "commit" BY <1>4
  <2> QED BY <1>10, <2>1, CommittingFrame
\* A success through a handle is a write to the open transaction of the handle.
<1>16. ASSUME ok, Writing(c), calls[c].handle # None
       PROVE  open[w] # None /\ open[w].start = calls[c].handle /\ T = {c}
  <2>1. Where(w, c) # "unknown" BY <1>3, <1>16 DEF Outcome
  <2>2. Where(w, c) = "transaction" BY <1>7, <1>16, <2>1
  <2>3. ok = TRUE BY <1>16
  <2> QED BY <1>6, <1>7, <1>12, <1>16, <2>2, <2>3
<1>17. TransactionInv'
  <2> SUFFICES ASSUME NEW u \in Wrappers, open'[u] # None, NEW s \in Starts(u), open'[u].start = s
               PROVE  OpenInv(u, s)'
    BY <1>10 DEF TransactionInv, Framed
  <2>1. CASE u # w
    <3>1. open'[u] = open[u] BY <1>12, <2>1
    <3> QED BY <1>4, <1>10, <1>11, <2>1, <3>1, OthersOpen
  <2>2. CASE u = w
    <3>1. open[w] # None /\ open[w].start = s /\ open'[w].writes = open[w].writes \cup T /\ OpenInv(w, s)
      BY <1>6, <1>13, <2>2
    <3>2. s \in Served(w)' /\ \A x \in Starts(w)' \cap Served(w)' : x <= s
      <4>1. c \notin Starts(w) BY <1>4 DEF Starts
      <4>2. Starts(w)' = Starts(w) BY <1>10 DEF Framed
      <4> QED BY <1>11, <3>1, <4>1, <4>2 DEF OpenInv
    <3>3. Through(s)' = Through(s) BY <1>10 DEF Framed
    <3>4. open'[w].writes \subseteq Through(s)
      <4>1. T # {} => calls[c].handle = s BY <1>6, <1>12, <3>1
      <4>2. T # {} => c \in Through(s) BY <1>4, <4>1 DEF Through
      <4>3. T \subseteq {c} BY <1>12
      <4>4. open[w].writes \subseteq Through(s) BY <3>1 DEF OpenInv
      <4> QED BY <3>1, <4>2, <4>3, <4>4
    <3>5. ASSUME NEW d \in Through(s), Writing(d)', calls'[d].ok PROVE d \in open'[w].writes
      <4>1. d \in DOMAIN calls /\ calls[d].handle = s /\ Writing(d)
        BY <1>10, <3>5 DEF Through, Framed
      <4>2. CASE d = c
        <5>1. s # None BY <2>2, <4>1, ThroughWrapper
        <5>2. T = {c} BY <1>10, <1>16, <3>5, <4>1, <4>2, <5>1
        <5> QED BY <3>1, <4>2, <5>2
      <4>3. CASE d # c
        <5>1. calls'[d] = calls[d] BY <1>10, <4>1, <4>3 DEF Framed
        <5> QED BY <3>1, <3>5, <4>1, <5>1 DEF OpenInv
      <4> QED BY <4>2, <4>3
    <3>6. Committing(s)' = {} BY <1>15, <3>1 DEF OpenInv
    <3> QED BY <2>2, <3>2, <3>3, <3>4, <3>5, <3>6 DEF OpenInv
  <2> QED BY <2>1, <2>2
<1>18. CommitsWhole'
  <2> SUFFICES ASSUME NEW u \in Wrappers, NEW h \in Starts(u)
               PROVE  IF Committing(h)' # {}
                      THEN \A d \in Through(h)' : Writing(d)' /\ calls'[d].ok => d \in committed'
                      ELSE Through(h)' \cap committed' = {}
    BY <1>10 DEF CommitsWhole, Framed
  <2>1. Through(h)' = Through(h) /\ Committing(h)' = Committing(h) BY <1>10, <1>15 DEF Framed
  <2>2. IF Committing(h) # {}
        THEN \A d \in Through(h) : Writing(d) /\ calls[d].ok => d \in committed
        ELSE Through(h) \cap committed = {}
    BY DEF CommitsWhole
  <2>3. committed' = committed \cup S /\ S \subseteq {c} BY <1>12
  <2>4. h # None
    <3>1. h \in Nat BY <1>5 DEF Starts
    <3> QED BY <3>1, NoneAssumption
  <2>5. CASE Committing(h) # {}
    <3> SUFFICES ASSUME NEW d \in Through(h), Writing(d)', calls'[d].ok PROVE d \in committed'
      BY <2>1, <2>5
    <3>1. d \in DOMAIN calls /\ calls[d].handle = h /\ Writing(d)
      BY <1>10 DEF Through, Framed
    <3>2. d # c
      <4>1. SUFFICES ASSUME d = c PROVE FALSE OBVIOUS
      <4>2. open[w] # None /\ open[w].start = h BY <1>10, <1>16, <2>4, <3>1, <4>1
      <4>3. Committing(h) = {} BY <1>6, <4>2 DEF OpenInv
      <4> QED BY <2>5, <4>3
    <3>3. calls'[d] = calls[d] BY <1>10, <3>1, <3>2 DEF Framed
    <3> QED BY <2>2, <2>3, <2>5, <3>1, <3>3
  <2>6. CASE Committing(h) = {}
    <3>1. c \in Through(h) => S = {} BY <1>12, <2>4 DEF Through
    <3> QED BY <2>1, <2>2, <2>3, <2>6, <3>1
  <2> QED BY <2>5, <2>6
<1>19. ReadsOwnTransaction'
  <2>1. committed \subseteq committed' BY <1>12
  <2>2. ReadsRight(c, ok, seen)
    <3> SUFFICES ASSUME ok = TRUE, calls[c].fn.transaction = "optional"
                 PROVE  /\ \A d \in Through(calls[c].handle) :
                             calls[c].handle # None /\ d # c /\ calls[d].ok /\ Writing(d) => d \in seen
                        /\ \A d \in seen : calls[d].handle # calls[c].handle => d \in committed
      BY DEF ReadsRight
    <3>1. Where(w, c) # "unknown" /\ seen = Visible(w, Where(w, c)) BY <1>3 DEF Outcome
    <3>2. CASE Where(w, c) = "store"
      <4>1. seen = committed BY <3>1, <3>2 DEF Visible
      <4>2. calls[c].handle = None BY <1>7, <3>2
      <4> QED BY <4>1, <4>2
    <3>3. CASE Where(w, c) = "transaction"
      <4>1. seen = committed \cup open[w].writes BY <3>1, <3>3 DEF Visible
      <4>2. open[w] # None /\ open[w].start = calls[c].handle /\ OpenInv(w, calls[c].handle)
        BY <1>6, <1>7, <3>3
      <4>3. \A d \in Through(calls[c].handle) : Writing(d) /\ calls[d].ok => d \in open[w].writes
        BY <4>2 DEF OpenInv
      <4>4. \A d \in open[w].writes : calls[d].handle = calls[c].handle
        BY <4>2 DEF OpenInv, Through
      <4> QED BY <4>1, <4>3, <4>4
    <3> QED BY <1>7, <3>1, <3>2, <3>3
  <2> QED BY <1>4, <1>8, <1>9, <2>1, <2>2, ReadsKept
<1> QED BY <1>14, <1>17, <1>18, <1>19

\* A function of the wrapper is called.
LEMMA CallKeeps ==
    ASSUME FullInv, NEW w \in Wrappers, NEW kind, NEW fn, NEW h, NEW apply,
           MayCall(w, kind, fn, h, apply), Call(w, kind, fn, h, apply)
    PROVE  FullInv'
<1>1. ThreadsInv /\ Results /\ OpensAfterClose BY DEF FullInv, Results
<1>2. ThreadsInv' BY <1>1, CallThreads
<1>3. Results' BY <1>1, CallResults
<1>4. OpensAfterClose' BY <1>1 DEF OpensAfterClose, Call
<1> QED BY <1>2, <1>3, <1>4 DEF FullInv, Results

\* What JavaScript does.
LEMMA JavaScriptStep ==
    ASSUME FullInv, NEW w \in Wrappers, JavaScript(w) PROVE FullInv'
<1>1. NoFunction \in Functions \cup {NoFunction} /\ TRUE \in BOOLEAN OBVIOUS
<1>2. \A h \in HandlesOf(w) : h # None
  <2>1. handles \subseteq DOMAIN calls /\ \A c \in DOMAIN calls : c \in Nat
    BY CallsShape DEF FullInv, ThreadsInv, TypeOK
  <2> QED BY <2>1, NoneAssumption DEF HandlesOf
<1>3. CASE CallFunction(w)
  <2>1. PICK fn \in Calling : \E h \in HandlesFor(w, "callback", fn) :
          \E apply \in (IF fn.effect = "apply" THEN BOOLEAN ELSE {TRUE}) : Call(w, "callback", fn, h, apply)
    BY <1>3 DEF CallFunction
  <2>2. PICK h \in HandlesFor(w, "callback", fn) :
          \E apply \in (IF fn.effect = "apply" THEN BOOLEAN ELSE {TRUE}) : Call(w, "callback", fn, h, apply)
    BY <2>1
  <2>3. PICK apply \in (IF fn.effect = "apply" THEN BOOLEAN ELSE {TRUE}) : Call(w, "callback", fn, h, apply)
    BY <2>2
  <2>4. h \in HandlesOf(w) \cup {None} BY DEF HandlesFor, EndKinds
  <2>5. apply \in BOOLEAN BY Zenon
  <2>6. MayCall(w, "callback", fn, h, apply)
    BY <2>4, <2>5, CallingAssumption DEF MayCall, Kinds
  <2> QED BY <2>3, <2>6, CallKeeps
<1>4. ASSUME NEW kind \in {"start", "flush", "close"}, Call(w, kind, NoFunction, None, TRUE) PROVE FullInv'
  <2>1. MayCall(w, kind, NoFunction, None, TRUE) BY <1>1 DEF MayCall, Kinds
  <2> QED BY <1>4, <2>1, CallKeeps
<1>5. ASSUME NEW kind \in EndKinds, NEW h \in HandlesOf(w), Call(w, kind, NoFunction, h, TRUE) PROVE FullInv'
  <2>1. MayCall(w, kind, NoFunction, h, TRUE) BY <1>1, <1>2 DEF MayCall, Kinds, EndKinds
  <2> QED BY <1>5, <2>1, CallKeeps
<1>6. CASE js_grove_db_start_transaction(w) BY <1>4, <1>6 DEF js_grove_db_start_transaction
<1>7. CASE js_grove_db_commit_transaction(w) BY <1>5, <1>7 DEF js_grove_db_commit_transaction, EndKinds
<1>8. CASE js_grove_db_rollback_transaction(w) BY <1>5, <1>8 DEF js_grove_db_rollback_transaction, EndKinds
<1>9. CASE js_grove_db_abort_transaction(w) BY <1>5, <1>9 DEF js_grove_db_abort_transaction, EndKinds
<1>10. CASE js_grove_db_flush(w) BY <1>4, <1>10 DEF js_grove_db_flush
<1>11. CASE js_close(w) BY <1>4, <1>11 DEF js_close
<1> QED BY <1>3, <1>6, <1>7, <1>8, <1>9, <1>10, <1>11, OpenStep, FinalizeWrapperStep DEF JavaScript

\* No wrapper is open and no call was made at first.
LEMMA InitFull == Init => FullInv
<1> SUFFICES ASSUME Init PROVE FullInv OBVIOUS
<1> USE DEF Init
<1>1. calls = <<>> /\ DOMAIN calls = {} /\ \A w \in Wrappers : Len(queue[w]) = 0 /\ Len(replies[w]) = 0
  OBVIOUS
<1>2. TypeOK
  <2>1. /\ thread \in [Wrappers -> ThreadStates] /\ held \in [Wrappers -> BOOLEAN]
        /\ clean \in [Wrappers -> BOOLEAN] /\ open \in [Wrappers -> Transaction \cup {None}]
    BY DEF ThreadStates
  <2>2. queue \in [Wrappers -> Seq(Message)] /\ replies \in [Wrappers -> Seq(Nat)] /\ calls \in Seq(CallRecord)
    <3>1. <<>> \in Seq(Message) /\ <<>> \in Seq(Nat) /\ <<>> \in Seq(CallRecord) OBVIOUS
    <3> QED BY <3>1
  <2>3. \A w \in Wrappers : thread[w] = "running" <=> owner = w BY NoneAssumption
  <2> QED BY <1>1, <2>1, <2>2, <2>3 DEF TypeOK
<1>3. QueueInv /\ RepliesInv BY <1>1 DEF QueueInv, RepliesInv
<1>4. CleanInv /\ ClientInv /\ OpensAfterClose BY <1>1 DEF CleanInv, ClientInv, OpensAfterClose
<1>5. TransactionInv /\ CommitsWhole /\ ReadsOwnTransaction
  BY <1>1 DEF TransactionInv, CommitsWhole, ReadsOwnTransaction, Starts
<1> QED BY <1>2, <1>3, <1>4, <1>5 DEF FullInv, ThreadsInv

\* Every step of the binding keeps the invariant.
LEMMA NextFull == FullInv /\ [Next]_vars => FullInv'
<1> SUFFICES ASSUME FullInv, [Next]_vars PROVE FullInv' OBVIOUS
<1>1. CASE UNCHANGED vars BY <1>1, IdleStep
<1>2. ASSUME NEW w \in Wrappers, Thread(w) PROVE FullInv'
  BY <1>2, OpenPlatformStep, ServeCallbackStep, ServeStartStep, ServeCommitStep, ServeEndStep,
     ServeFlushStep, ServeCloseStep, CloseAnswersStep DEF Thread
<1>3. ASSUME NEW w \in Wrappers, JavaScript(w) \/ Deliver(w) \/ Thread(w) \/ Panic(w) PROVE FullInv'
  BY <1>2, <1>3, JavaScriptStep, DeliverStep, PanicStep
<1>4. ASSUME NEW h \in handles, FinalizeHandle(h) PROVE FullInv'
  BY <1>4, FinalizeHandleStep
<1> QED BY <1>1, <1>3, <1>4 DEF Next

\* The inductive invariant holds in every run of the binding: queues are in the
\* order of the calls, and the open transaction is that of the last start served.
THEOREM BindingInvariant == Spec => []FullInv
BY InitFull, NextFull, PTL DEF Spec

\* Threads, queues and calls are well formed, and a wrapper that is opened after
\* the close of every other was answered gets the store
\* (PlatformWrapper::new, close).
THEOREM ClosedStoreOpens == Spec => []BindingInv
<1>1. FullInv => BindingInv BY DEF FullInv, ThreadsInv, BindingInv
<1> QED BY <1>1, BindingInvariant, PTL

\* For a client that has one transaction at a time a commit that succeeds is
\* whole, and without one nothing of a transaction reaches the store, although
\* all transactions of a thread share one key and collected handles abort
\* whatever is under it.
THEOREM CommitsAreWhole == Spec => []CommitsWhole
<1>1. FullInv => CommitsWhole BY DEF FullInv
<1> QED BY <1>1, BindingInvariant, PTL

\* A read through a handle sees what succeeded through it before, and nothing of
\* another transaction that was not committed.
THEOREM ReadsSeeOwnTransaction == Spec => []ReadsOwnTransaction
<1>1. FullInv => ReadsOwnTransaction BY DEF FullInv
<1> QED BY <1>1, BindingInvariant, PTL

=============================================================================
