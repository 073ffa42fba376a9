----------------------------- MODULE ClientRecv -----------------------------
(***************************************************************************)
(* The client facade's receive path (client::async_recv / recv_op, and the *)
(* notifier that feeds recv_queue_).                                        *)
(*                                                                         *)
(* The endpoint's receive loop pushes every unsolicited PUBLISH, every     *)
(* DISCONNECT and a terminal transport error onto recv_queue_, sets        *)
(* recv_queue_inserted_ and cancels tim_notify_publish_recv_.  A recv_op    *)
(* that finds the queue empty clears the flag, re-arms that one shared     *)
(* timer and waits on it; when the wait completes (cancelled, in every     *)
(* case) it pops the front if the flag is set and otherwise reports        *)
(* operation_canceled.                                                     *)
(*                                                                         *)
(* Asio semantics kept: expires_at() and cancel() abort every pending wait *)
(* on the timer, and an aborted wait's handler is queued on the executor,  *)
(* which runs queued handlers in FIFO order; anything the user calls runs  *)
(* between those handlers.                                                 *)
(***************************************************************************)
EXTENDS Naturals, Sequences, FiniteSets

CONSTANTS
    Ops,            \* async_recv calls the application makes, one each
    Arrivals,       \* the entries the endpoint delivers, in wire order
    MaxOutstanding  \* how many async_recv calls the application keeps pending

ASSUME MaxOutstanding \in 1..Cardinality(Ops)

VARIABLES
    recv_queue,          \* client::recv_queue_
    recv_queue_inserted, \* client::recv_queue_inserted_
    timer_waits,         \* recv_ops with a pending async_wait on the timer
    ready,               \* aborted-wait handlers queued on the executor
    st,                  \* per op: idle, recv (dispatched), wait, done
    result,              \* per op: what its completion handler received
    pushed,              \* how many entries of Arrivals the endpoint delivered
    delivered,           \* entries handed to completions, in completion order
    ub,                  \* front() was called on an empty recv_queue_
    user_canceled        \* ops the application cancelled (history)

vars == <<recv_queue, recv_queue_inserted, timer_waits, ready, st, result,
          pushed, delivered, ub, user_canceled>>

Entries == {Arrivals[i] : i \in DOMAIN Arrivals}
Canceled == "operation_canceled"
None == "none"
Garbage == "garbage"   \* what a move from deque::front() of an empty deque yields

Outstanding == {o \in Ops : st[o] \in {"recv", "wait"}}

-----------------------------------------------------------------------------
(* Mutant: the front entry is moved out but pop_front() is missing.        *)
PopFrontCompleteNoPop(o) ==
    IF recv_queue # <<>>
    THEN /\ result' = [result EXCEPT ![o] = Head(recv_queue)]
         /\ delivered' = Append(delivered, Head(recv_queue))
         /\ UNCHANGED <<recv_queue, ub>>
    ELSE /\ ub' = TRUE
         /\ result' = [result EXCEPT ![o] = Garbage]
         /\ UNCHANGED <<recv_queue, delivered>>

(* Pop the front entry and complete op o with it (recv_op lines 52-57 and  *)
(* 69-74).  On an empty deque this is undefined behaviour: the model       *)
(* records it and completes the op with an unspecified value.              *)
PopFrontComplete(o) ==
    IF recv_queue # <<>>
    THEN /\ recv_queue' = Tail(recv_queue)
         /\ result' = [result EXCEPT ![o] = Head(recv_queue)]
         /\ delivered' = Append(delivered, Head(recv_queue))
         /\ UNCHANGED ub
    ELSE /\ ub' = TRUE
         /\ result' = [result EXCEPT ![o] = Garbage]
         /\ UNCHANGED <<recv_queue, delivered>>

(* Every pending wait on the timer is aborted: its handler is queued.      *)
(* The order among waits aborted together is the timer's, unspecified.     *)
AbortWaits(S) ==
    \E order \in {s \in [1..Cardinality(S) -> S] :
                    \A i, j \in DOMAIN s : i # j => s[i] # s[j]} :
        ready' = ready \o order

-----------------------------------------------------------------------------
Init ==
    /\ recv_queue = <<>>
    /\ recv_queue_inserted = FALSE
    /\ timer_waits = {}
    /\ ready = <<>>
    /\ st = [o \in Ops |-> "idle"]
    /\ result = [o \in Ops |-> None]
    /\ pushed = 0
    /\ delivered = <<>>
    /\ ub = FALSE
    /\ user_canceled = {}

(* client::async_recv and recv_op's dispatch state: the op is composed and *)
(* dispatched to the endpoint's executor.                                  *)
AsyncRecv(o) ==
    /\ st[o] = "idle"
    /\ Cardinality(Outstanding) < MaxOutstanding
    /\ st' = [st EXCEPT ![o] = "recv"]
    /\ UNCHANGED <<recv_queue, recv_queue_inserted, timer_waits, ready, result,
                   pushed, delivered, ub, user_canceled>>

(* Mutant: recv_queue_inserted_ is not cleared before waiting.             *)
RecvNoClear(o) ==
    /\ st[o] = "recv"
    /\ IF recv_queue = <<>>
       THEN /\ AbortWaits(timer_waits)
            /\ timer_waits' = {o}
            /\ st' = [st EXCEPT ![o] = "wait"]
            /\ UNCHANGED <<recv_queue, recv_queue_inserted, result, delivered, ub>>
       ELSE /\ PopFrontComplete(o)
            /\ st' = [st EXCEPT ![o] = "done"]
            /\ UNCHANGED <<recv_queue_inserted, timer_waits, ready>>
    /\ UNCHANGED <<pushed, user_canceled>>

(* Mutant: the emptiness test is inverted, so the op waits on the timer    *)
(* while an entry is already queued.                                       *)
RecvInverted(o) ==
    /\ st[o] = "recv"
    /\ IF recv_queue # <<>>
       THEN /\ recv_queue_inserted' = FALSE
            /\ AbortWaits(timer_waits)
            /\ timer_waits' = {o}
            /\ st' = [st EXCEPT ![o] = "wait"]
            /\ UNCHANGED <<recv_queue, result, delivered, ub>>
       ELSE /\ PopFrontComplete(o)
            /\ st' = [st EXCEPT ![o] = "done"]
            /\ UNCHANGED <<recv_queue_inserted, timer_waits, ready>>
    /\ UNCHANGED <<pushed, user_canceled>>

(* recv_op, state recv: take the front entry if there is one, otherwise    *)
(* clear recv_queue_inserted_, re-arm the shared timer (which aborts any   *)
(* wait already pending on it) and wait.                                   *)
Recv(o) ==
    /\ st[o] = "recv"
    /\ IF recv_queue = <<>>
       THEN /\ recv_queue_inserted' = FALSE
            /\ AbortWaits(timer_waits)
            /\ timer_waits' = {o}
            /\ st' = [st EXCEPT ![o] = "wait"]
            /\ UNCHANGED <<recv_queue, result, delivered, ub>>
       ELSE /\ PopFrontComplete(o)
            /\ st' = [st EXCEPT ![o] = "done"]
            /\ UNCHANGED <<recv_queue_inserted, timer_waits, ready>>
    /\ UNCHANGED <<pushed, user_canceled>>

(* Mutant: the operation_canceled branch forgets to complete the op's     *)
(* handler with a result.                                                  *)
WaitCompleteNoResult ==
    /\ ready # <<>>
    /\ LET o == Head(ready) IN
        /\ ready' = Tail(ready)
        /\ IF recv_queue_inserted
           THEN PopFrontComplete(o)
           ELSE UNCHANGED <<recv_queue, result, delivered, ub>>
        /\ st' = [st EXCEPT ![o] = "done"]
    /\ UNCHANGED <<recv_queue_inserted, timer_waits, pushed, user_canceled>>

(* recv_op's completion of the timer wait, run from the executor queue.    *)
WaitComplete ==
    /\ ready # <<>>
    /\ LET o == Head(ready) IN
        /\ ready' = Tail(ready)
        /\ IF recv_queue_inserted
           THEN PopFrontComplete(o)
           ELSE /\ result' = [result EXCEPT ![o] = Canceled]
                /\ UNCHANGED <<recv_queue, delivered, ub>>
        /\ st' = [st EXCEPT ![o] = "done"]
    /\ UNCHANGED <<recv_queue_inserted, timer_waits, pushed, user_canceled>>

(* The client's receive loop gets the next entry from the endpoint: it     *)
(* appends it to recv_queue_, sets recv_queue_inserted_ and cancels the    *)
(* timer, aborting the pending wait if there is one.                       *)
Notify ==
    /\ pushed < Len(Arrivals)
    /\ pushed' = pushed + 1
    /\ recv_queue' = Append(recv_queue, Arrivals[pushed + 1])
    /\ recv_queue_inserted' = TRUE
    /\ AbortWaits(timer_waits)
    /\ timer_waits' = {}
    /\ UNCHANGED <<st, result, delivered, ub, user_canceled>>

(* Per-operation cancellation of a pending async_recv: asio forwards it to *)
(* the timer wait, which completes as aborted.                             *)
CancelRecv(o) ==
    /\ o \in timer_waits
    /\ timer_waits' = timer_waits \ {o}
    /\ ready' = Append(ready, o)
    /\ user_canceled' = user_canceled \cup {o}
    /\ UNCHANGED <<recv_queue, recv_queue_inserted, st, result, pushed,
                   delivered, ub>>

Next ==
    \/ \E o \in Ops : AsyncRecv(o) \/ Recv(o) \/ CancelRecv(o)
    \/ WaitComplete
    \/ Notify

(* The executor runs dispatched operations and queued handlers: weak       *)
(* fairness on those steps.  The broker (Notify), the application's calls  *)
(* and its cancellations are not obliged to happen.                        *)
Fairness ==
    /\ \A o \in Ops : WF_vars(Recv(o))
    /\ WF_vars(WaitComplete)

Spec == Init /\ [][Next]_vars /\ Fairness

-----------------------------------------------------------------------------
TypeOK ==
    /\ recv_queue \in Seq(Entries)
    /\ recv_queue_inserted \in BOOLEAN
    /\ timer_waits \subseteq Ops
    /\ ready \in Seq(Ops)
    /\ st \in [Ops -> {"idle", "recv", "wait", "done"}]
    /\ result \in [Ops -> Entries \cup {None, Canceled, Garbage}]
    /\ pushed \in 0..Len(Arrivals)
    /\ delivered \in Seq(Entries)
    /\ ub \in BOOLEAN
    /\ user_canceled \subseteq Ops
    /\ \A o \in Ops : (st[o] = "done") = (result[o] # None)

(* No entry the endpoint delivered is lost, duplicated or reordered: the   *)
(* entries handed to async_recv completions, followed by those still in    *)
(* recv_queue_, are exactly the delivered prefix of the wire order.  This  *)
(* is the spec's "recv-queue delivery is strict FIFO".                     *)
FifoDelivery ==
    delivered \o recv_queue = SubSeq(Arrivals, 1, pushed)

(* recv_op never reads the front of an empty recv_queue_: when its wait    *)
(* completes with recv_queue_inserted_ set, an entry is still there for it. *)
NoPopFromEmpty == ~ub

(* A pending async_recv is eventually completed with an entry whenever one *)
(* is waiting in recv_queue_.                                              *)
PendingRecvGetsEntry ==
    \A o \in Ops :
        (st[o] = "wait" /\ recv_queue # <<>>) ~> (st[o] = "done" /\ result[o] \in Entries)

=============================================================================
