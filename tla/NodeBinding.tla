----------------------------- MODULE NodeBinding -----------------------------
(***************************************************************************)
(* The binding of the platform to Node.js (node/src/lib.rs).  driveOpen    *)
(* gives JavaScript a wrapper and starts a thread that owns the store.     *)
(* Every function of the wrapper sends a message, with a callback, to the  *)
(* queue of its thread; the thread serves one message after the other and  *)
(* sends the callback's arguments back to the event loop of JavaScript.    *)
(*                                                                         *)
(* The thread keeps open transactions in a map whose key is the address of *)
(* the variable that held the transaction when it was started.  This is a  *)
(* local variable of the loop, in one place of the thread's stack, so      *)
(* there is one key and the map has at most one entry: open[w].  A         *)
(* transaction handle of JavaScript holds that key; the finalizer of the   *)
(* handle, when it is collected, aborts what it finds under the key.       *)
(*                                                                         *)
(* Calls are numbered in the order JavaScript makes them.  What a call     *)
(* writes is represented by its number.                                    *)
(***************************************************************************)
EXTENDS Integers, Sequences, FiniteSets, FiniteSetsExt

CONSTANTS
  Wrappers,       \* wrappers that JavaScript may open, on one path
  None,           \* no handle, no transaction, no thread
  Faults,         \* TRUE: the store may fail to commit, roll back or flush
  Calling,        \* functions that JavaScript calls
  CallLimit,      \* bound: calls JavaScript makes to each wrapper
  MaxWaiting      \* bound: calls that wait for an answer

VARIABLES
  thread,     \* state of the thread of each wrapper
  held,       \* JavaScript holds the wrapper
  clean,      \* opened after every other wrapper was closed
  owner,      \* the thread that has the store open
  queue,      \* messages to the thread: [kind, handle, call]
  open,       \* the entry of the map of transactions: [start, writes]
  replies,    \* calls answered by the thread, on their way to JavaScript
  calls,      \* calls made: [wrapper, kind, fn, handle, apply, state, ok, seen]
  handles,    \* transaction handles JavaScript holds, by the call that started
  committed   \* calls whose writes the store holds

vars == <<thread, held, clean, owner, queue, open, replies, calls, handles, committed>>

ASSUME NoneAssumption == None \notin Wrappers /\ None \notin Nat

ASSUME BoundAssumption == CallLimit \in [Wrappers -> Nat] /\ MaxWaiting \in Nat /\ Faults \in BOOLEAN

-----------------------------------------------------------------------------
(* The functions that run a callback in the thread.  Each takes its        *)
(* arguments apart, looks its transaction up in the map if it has one,     *)
(* calls one function of the platform and answers with the result or the   *)
(* error.  "apply": it writes unless it is a dry run.  "steps": it changes *)
(* the store in several steps, of which a later one may fail.              *)

Function(transaction, effect) == [transaction |-> transaction, effect |-> effect]

js_create_initial_state_structure == Function("optional", "write")
js_fetch_contract == Function("optional", "read")
js_create_contract == Function("optional", "apply")
js_update_contract == Function("optional", "apply")
js_create_document == Function("optional", "apply")
js_update_document == Function("optional", "apply")
js_delete_document == Function("optional", "apply")
js_insert_identity_cbor == Function("optional", "apply")
js_query_documents == Function("optional", "read")
js_prove_documents_query == Function("optional", "read")
js_grove_db_get == Function("optional", "read")
js_grove_db_insert == Function("optional", "write")
js_grove_db_insert_if_not_exists == Function("optional", "write")
js_grove_db_put_aux == Function("optional", "write")
js_grove_db_delete_aux == Function("optional", "write")
js_grove_db_get_aux == Function("optional", "read")
js_grove_db_query == Function("optional", "read")
js_grove_db_prove_query == Function("optional", "read")
js_grove_db_root_hash == Function("optional", "read")
js_grove_db_delete == Function("optional", "write")
js_abci_init_chain == Function("optional", "steps")
js_abci_block_begin == Function("optional", "steps")
js_abci_block_end == Function("optional", "steps")
js_fetch_latest_withdrawal_transaction_index == Function("optional", "read")
js_enqueue_withdrawal_transaction == Function("optional", "write")

\* Demands a transaction and does not use it.
js_grove_db_prove_query_many == Function("ignored", "read")

\* Clears the caches in memory.
js_abci_after_finalize_block == Function("none", "read")

Functions ==
  {js_create_initial_state_structure, js_fetch_contract, js_create_contract, js_update_contract,
   js_create_document, js_update_document, js_delete_document, js_insert_identity_cbor,
   js_query_documents, js_prove_documents_query, js_grove_db_get, js_grove_db_insert,
   js_grove_db_insert_if_not_exists, js_grove_db_put_aux, js_grove_db_delete_aux,
   js_grove_db_get_aux, js_grove_db_query, js_grove_db_prove_query, js_grove_db_root_hash,
   js_grove_db_delete, js_abci_init_chain, js_abci_block_begin, js_abci_block_end,
   js_fetch_latest_withdrawal_transaction_index, js_enqueue_withdrawal_transaction,
   js_grove_db_prove_query_many, js_abci_after_finalize_block}

ASSUME CallingAssumption == Calling \subseteq Functions

NoFunction == Function("none", "none")

\* The receiver of the thread's queue exists.
Alive(w) == thread[w] \in {"opening", "running", "closing"}
Ended(w) == thread[w] \in {"closed", "panicked", "failed"}

-----------------------------------------------------------------------------
(* JavaScript.                                                             *)

\* JavaScript never opened the wrapper, or knows that it is closed.
KnownClosed(w) ==
  \/ thread[w] \in {"none", "panicked"}
  \/ \E c \in DOMAIN calls : calls[c].wrapper = w /\ calls[c].kind = "close" /\ calls[c].state = "done"

\* JavaScript opens the path again when it has no more use for the wrapper.
NoLongerUsed(w) ==
  thread[w] = "none" \/ Ended(w) \/ \E c \in DOMAIN calls : calls[c].wrapper = w /\ calls[c].kind = "close"

\* PlatformWrapper::new.  Any other open that has not been decided yet now
\* competes with this one.
Open(w) ==
  /\ thread[w] = "none"
  /\ \A u \in Wrappers \ {w} : NoLongerUsed(u)
  /\ thread' = [thread EXCEPT ![w] = "opening"]
  /\ held' = [held EXCEPT ![w] = TRUE]
  /\ clean' = [v \in Wrappers |-> IF v = w THEN \A u \in Wrappers \ {w} : KnownClosed(u)
                                  ELSE clean[v] /\ thread[v] # "opening"]
  /\ UNCHANGED <<owner, queue, open, replies, calls, handles, committed>>

Starts(w) == {s \in DOMAIN calls : calls[s].wrapper = w /\ calls[s].kind = "start"}
EndKinds == {"commit", "rollback", "abort"}
\* JavaScript asked to end the transaction of a handle, or dropped the handle.
IsEnded(s) ==
  \/ \E c \in DOMAIN calls : calls[c].handle = s /\ calls[c].kind \in EndKinds
  \/ calls[s].state = "done" /\ s \notin handles

\* A client that has one transaction at a time.
Orderly(w, kind, h) ==
  /\ kind = "start" => \A s \in Starts(w) : IsEnded(s)
  /\ h # None => ~ IsEnded(h)

HandlesOf(w) == {h \in handles : calls[h].wrapper = w}
HandlesFor(w, kind, fn) ==
  CASE kind \in EndKinds \/ fn.transaction = "ignored" -> HandlesOf(w)
    [] fn.transaction = "optional" -> HandlesOf(w) \cup {None}
    [] OTHER -> {None}

\* A function of the wrapper sends its message.  When the thread has dropped the
\* receiver the function throws, which changes nothing.
Call(w, kind, fn, h, apply) ==
  /\ held[w] /\ Alive(w)
  /\ Cardinality({c \in DOMAIN calls : calls[c].wrapper = w}) < CallLimit[w]
  /\ Cardinality({c \in DOMAIN calls : calls[c].state = "sent"}) < MaxWaiting
  /\ Orderly(w, kind, h)
  /\ calls' = Append(calls, [wrapper |-> w, kind |-> kind, fn |-> fn, handle |-> h, apply |-> apply,
                             state |-> "sent", ok |-> FALSE, seen |-> {}])
  /\ queue' = [queue EXCEPT ![w] = Append(@, [kind |-> kind, handle |-> h, call |-> Len(calls) + 1])]
  /\ UNCHANGED <<thread, held, clean, owner, open, replies, handles, committed>>

CallFunction(w) ==
  \E fn \in Calling : \E h \in HandlesFor(w, "callback", fn) :
    \E apply \in (IF fn.effect = "apply" THEN BOOLEAN ELSE {TRUE}) : Call(w, "callback", fn, h, apply)

js_grove_db_start_transaction(w) == Call(w, "start", NoFunction, None, TRUE)
js_grove_db_commit_transaction(w) == \E h \in HandlesOf(w) : Call(w, "commit", NoFunction, h, TRUE)
js_grove_db_rollback_transaction(w) == \E h \in HandlesOf(w) : Call(w, "rollback", NoFunction, h, TRUE)
js_grove_db_abort_transaction(w) == \E h \in HandlesOf(w) : Call(w, "abort", NoFunction, h, TRUE)
js_grove_db_flush(w) == Call(w, "flush", NoFunction, None, TRUE)
js_close(w) == Call(w, "close", NoFunction, None, TRUE)

\* The event loop runs the callback of a call.  That of a start gets a handle.
Deliver(w) ==
  LET c == Head(replies[w])
  IN /\ replies[w] # <<>>
     /\ replies' = [replies EXCEPT ![w] = Tail(@)]
     /\ calls' = [calls EXCEPT ![c].state = "done"]
     /\ handles' = IF calls[c].kind = "start" THEN handles \cup {c} ELSE handles
     /\ UNCHANGED <<thread, held, clean, owner, queue, open, committed>>

\* JavaScript drops a handle, and its finalizer sends an abort.
FinalizeHandle(h) ==
  LET w == calls[h].wrapper
  IN /\ h \in handles
     /\ handles' = handles \ {h}
     /\ queue' = IF Alive(w)
                 THEN [queue EXCEPT ![w] = Append(@, [kind |-> "abort", handle |-> h, call |-> 0])]
                 ELSE queue
     /\ UNCHANGED <<thread, held, clean, owner, open, replies, calls, committed>>

\* JavaScript drops a wrapper.  Its sender goes; the thread has another one.
FinalizeWrapper(w) ==
  /\ held[w]
  /\ held' = [held EXCEPT ![w] = FALSE]
  /\ UNCHANGED <<thread, clean, owner, queue, open, replies, calls, handles, committed>>

-----------------------------------------------------------------------------
(* The thread.                                                             *)

\* The platform is opened, or the thread panics since the store is open.
OpenPlatform(w) ==
  /\ thread[w] = "opening"
  /\ IF owner = None
     THEN /\ thread' = [thread EXCEPT ![w] = "running"]
          /\ owner' = w
          /\ UNCHANGED queue
     ELSE /\ thread' = [thread EXCEPT ![w] = "failed"]
          /\ queue' = [queue EXCEPT ![w] = <<>>]
          /\ UNCHANGED owner
  /\ UNCHANGED <<held, clean, open, replies, calls, handles, committed>>

Serves(w, kinds) == thread[w] = "running" /\ queue[w] # <<>> /\ Head(queue[w]).kind \in kinds

\* The message is done and its call answered; finalizers await no answer.
Answer(w, ok, seen) ==
  LET c == Head(queue[w]).call
  IN /\ queue' = [queue EXCEPT ![w] = Tail(@)]
     /\ IF c = 0 THEN UNCHANGED <<calls, replies>>
        ELSE /\ calls' = [calls EXCEPT ![c].ok = ok, ![c].seen = seen]
             /\ replies' = [replies EXCEPT ![w] = Append(@, c)]

\* Mutant: a transaction that is not in the map is taken for none.
Resolved_OrNone(w, h) == IF h = None \/ open[w] = None THEN "store" ELSE "transaction"

\* The transaction argument of a callback.
Resolved(w, h) ==
  IF h = None THEN "store" ELSE IF open[w] = None THEN "unknown" ELSE "transaction"

\* Mutant: reads are not given the transaction.
Visible_Store(w, where) == committed

\* What a callback reads: the store, through its transaction.
Visible(w, where) == committed \cup (IF where = "transaction" THEN open[w].writes ELSE {})

\* The effect of a callback that ran: on the transaction or on the store.
Write(w, where, c) ==
  /\ open' = IF where = "transaction" THEN [open EXCEPT ![w].writes = @ \cup {c}] ELSE open
  /\ committed' = IF where = "store" THEN committed \cup {c} ELSE committed

ServeCallback(w) ==
  LET c == Head(queue[w]).call
      call == calls[c]
      where == IF call.fn.transaction = "ignored" THEN "store" ELSE Resolved(w, call.handle)
      writes == call.fn.effect \in {"write", "steps"} \/ (call.fn.effect = "apply" /\ call.apply)
  IN /\ Serves(w, {"callback"})
     /\ \/ /\ where # "unknown"
           /\ Answer(w, TRUE, Visible(w, where))
           /\ IF writes THEN Write(w, where, c) ELSE UNCHANGED <<open, committed>>
        \/ /\ Answer(w, FALSE, {})
           /\ \/ UNCHANGED <<open, committed>>
              \/ where # "unknown" /\ call.fn.effect = "steps" /\ Write(w, where, c)
     /\ UNCHANGED <<thread, held, clean, owner, handles>>

\* A transaction under the same key is replaced and so dropped.
ServeStart(w) ==
  /\ Serves(w, {"start"})
  /\ open' = [open EXCEPT ![w] = [start |-> Head(queue[w]).call, writes |-> {}]]
  /\ Answer(w, TRUE, {})
  /\ UNCHANGED <<thread, held, clean, owner, handles, committed>>

ServeCommit(w) ==
  /\ Serves(w, {"commit"})
  /\ committed' = IF open[w] = None THEN committed ELSE committed \cup open[w].writes
  /\ open' = [open EXCEPT ![w] = None]
  /\ Answer(w, open[w] # None, {})
  /\ UNCHANGED <<thread, held, clean, owner, handles>>

\* Mutant: who asks to end a transaction that is not there is not answered.
ServeEnd_Silent(w) ==
  /\ Serves(w, {"rollback", "abort"})
  /\ IF open[w] = None
     THEN queue' = [queue EXCEPT ![w] = Tail(@)] /\ UNCHANGED <<calls, replies>>
     ELSE Answer(w, TRUE, {})
  /\ open' = [open EXCEPT ![w] = None]
  /\ UNCHANGED <<thread, held, clean, owner, handles, committed>>

\* Rollback and abort, of JavaScript or of a finalizer.
ServeEnd(w) ==
  /\ Serves(w, {"rollback", "abort"})
  /\ open' = [open EXCEPT ![w] = None]
  /\ Answer(w, open[w] # None, {})
  /\ UNCHANGED <<thread, held, clean, owner, handles, committed>>

ServeFlush(w) ==
  /\ Serves(w, {"flush"})
  /\ Answer(w, TRUE, {})
  /\ UNCHANGED <<thread, held, clean, owner, open, handles, committed>>

\* Mutant: the callback is called before the platform is dropped.
ServeClose_AnswersFirst(w) ==
  /\ Serves(w, {"close"})
  /\ Answer(w, TRUE, {})
  /\ thread' = [thread EXCEPT ![w] = "closing"]
  /\ UNCHANGED <<held, clean, owner, open, handles, committed>>

\* Transactions and platform are dropped, then the callback is called.
ServeClose(w) ==
  /\ Serves(w, {"close"})
  /\ thread' = [thread EXCEPT ![w] = "closing"]
  /\ open' = [open EXCEPT ![w] = None]
  /\ owner' = None
  /\ UNCHANGED <<held, clean, queue, replies, calls, handles, committed>>

\* The thread leaves its loop; messages that wait are dropped.
CloseAnswers(w) ==
  /\ thread[w] = "closing"
  /\ thread' = [thread EXCEPT ![w] = "closed"]
  /\ owner' = IF owner = w THEN None ELSE owner
  /\ IF queue[w] # <<>> /\ Head(queue[w]).kind = "close"
     THEN LET c == Head(queue[w]).call
          IN /\ calls' = [calls EXCEPT ![c].ok = TRUE]
             /\ replies' = [replies EXCEPT ![w] = Append(@, c)]
     ELSE UNCHANGED <<calls, replies>>
  /\ queue' = [queue EXCEPT ![w] = <<>>]
  /\ UNCHANGED <<held, clean, open, handles, committed>>

\* The store fails and the thread panics: no call that waits is answered.
Panic(w) ==
  /\ Faults
  /\ \/ Serves(w, {"flush"})
     \/ Serves(w, {"commit", "rollback"}) /\ open[w] # None
  /\ thread' = [thread EXCEPT ![w] = "panicked"]
  /\ owner' = None
  /\ open' = [open EXCEPT ![w] = None]
  /\ queue' = [queue EXCEPT ![w] = <<>>]
  /\ UNCHANGED <<held, clean, replies, calls, handles, committed>>

-----------------------------------------------------------------------------
Init ==
  /\ thread = [w \in Wrappers |-> "none"]
  /\ held = [w \in Wrappers |-> FALSE]
  /\ clean = [w \in Wrappers |-> FALSE]
  /\ owner = None
  /\ queue = [w \in Wrappers |-> <<>>]
  /\ open = [w \in Wrappers |-> None]
  /\ replies = [w \in Wrappers |-> <<>>]
  /\ calls = <<>>
  /\ handles = {}
  /\ committed = {}

JavaScript(w) ==
  \/ Open(w)
  \/ CallFunction(w)
  \/ js_grove_db_start_transaction(w)
  \/ js_grove_db_commit_transaction(w)
  \/ js_grove_db_rollback_transaction(w)
  \/ js_grove_db_abort_transaction(w)
  \/ js_grove_db_flush(w)
  \/ js_close(w)
  \/ FinalizeWrapper(w)

Thread(w) ==
  \/ OpenPlatform(w)
  \/ ServeCallback(w)
  \/ ServeStart(w)
  \/ ServeCommit(w)
  \/ ServeEnd(w)
  \/ ServeFlush(w)
  \/ ServeClose(w)
  \/ CloseAnswers(w)

Next ==
  \/ \E w \in Wrappers : JavaScript(w) \/ Deliver(w) \/ Thread(w) \/ Panic(w)
  \/ \E h \in handles : FinalizeHandle(h)

\* The thread blocks only while its queue is empty, and the event loop runs.
Fairness == \A w \in Wrappers : WF_vars(Thread(w)) /\ WF_vars(Deliver(w))

Spec == Init /\ [][Next]_vars /\ Fairness

-----------------------------------------------------------------------------
(* Properties.                                                             *)

Kinds == {"callback", "start", "flush", "close"} \cup EndKinds
ThreadStates == {"none", "opening", "running", "closing", "closed", "panicked", "failed"}

CallRecord ==
  [wrapper : Wrappers, kind : Kinds, fn : Functions \cup {NoFunction}, handle : Nat \cup {None},
   apply : BOOLEAN, state : {"sent", "done"}, ok : BOOLEAN, seen : SUBSET Nat]
Message == [kind : Kinds, handle : Nat \cup {None}, call : Nat]
Transaction == [start : Nat, writes : SUBSET Nat]

\* Variables have their types, what a call refers to was called, and whoever
\* owns the store has a thread that runs.
TypeOK ==
  /\ thread \in [Wrappers -> ThreadStates]
  /\ held \in [Wrappers -> BOOLEAN] /\ clean \in [Wrappers -> BOOLEAN]
  /\ owner \in Wrappers \cup {None}
  /\ \A w \in Wrappers : thread[w] = "running" <=> owner = w
  /\ queue \in [Wrappers -> Seq(Message)] /\ replies \in [Wrappers -> Seq(Nat)]
  /\ open \in [Wrappers -> Transaction \cup {None}]
  /\ \A w \in Wrappers : open[w] # None => thread[w] = "running" /\ open[w].start \in Starts(w)
  /\ calls \in Seq(CallRecord)
  /\ \A c \in DOMAIN calls : calls[c].seen \subseteq DOMAIN calls
  /\ \A c \in DOMAIN calls : calls[c].handle # None => calls[c].handle \in Starts(calls[c].wrapper)
  /\ handles \subseteq DOMAIN calls
  /\ committed \subseteq DOMAIN calls

Through(h) == {c \in DOMAIN calls : calls[c].handle = h /\ calls[c].kind = "callback"}
Writing(c) ==
  calls[c].fn.effect = "write" \/ calls[c].fn.effect = "steps" \/ (calls[c].fn.effect = "apply" /\ calls[c].apply)
Committing(h) == {c \in DOMAIN calls : calls[c].handle = h /\ calls[c].kind = "commit" /\ calls[c].ok}

\* A client that has one transaction at a time, however early it sends its
\* calls and whenever its old handles are collected: when a commit is answered
\* with success the store holds every write that succeeded through the handle,
\* and without such an answer it holds no write made through the handle.
CommitsWhole ==
  \A w \in Wrappers : \A h \in Starts(w) :
    IF Committing(h) # {}
    THEN \A c \in Through(h) : Writing(c) /\ calls[c].ok => c \in committed
    ELSE Through(h) \cap committed = {}

\* A read that succeeds through a handle has seen the writes that JavaScript
\* made and that succeeded through the handle before, and none made through
\* another handle that was not committed.
ReadsOwnTransaction ==
  \A c \in DOMAIN calls :
    calls[c].ok /\ calls[c].kind = "callback" /\ calls[c].fn.effect = "read"
    /\ calls[c].fn.transaction = "optional" =>
      /\ \A d \in Through(calls[c].handle) :
           calls[c].handle # None /\ d < c /\ calls[d].ok /\ Writing(d) => d \in calls[c].seen
      /\ \A d \in calls[c].seen : calls[d].handle # calls[c].handle => d \in committed

\* A wrapper that is opened when the close of every other was answered gets the
\* store: the platform is dropped before close is answered.
OpensAfterClose == \A w \in Wrappers : clean[w] => thread[w] # "failed"

\* Threads, queues and calls are well formed, and a closed store can be opened
\* (PlatformWrapper::new, close).
BindingInv == TypeOK /\ OpensAfterClose

MaxCalls == MapThenSumSet(LAMBDA w : CallLimit[w], Wrappers)

\* Every call that was sent is answered, unless its thread ended by a close or
\* a panic.
Answered ==
  \A c \in 1 .. MaxCalls :
    c \in DOMAIN calls /\ calls[c].state = "sent"
      ~> c \in DOMAIN calls /\ (calls[c].state = "done" \/ Ended(calls[c].wrapper))
=============================================================================
