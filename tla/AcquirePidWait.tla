--------------------------- MODULE AcquirePidWait ---------------------------
(***************************************************************************)
(* basic_endpoint::async_acquire_unique_packet_id_wait_until and its       *)
(* composed operation acquire_unique_packet_id_wait_until_op, together     *)
(* with the endpoint state it reads and writes: the packet-id manager      *)
(* pid_man_, the retry queue of infinite timers tim_retry_acq_pid_queue_   *)
(* and the flag packet_id_released_.                                       *)
(*                                                                         *)
(* An op that finds no free id (or finds waiters already queued) appends   *)
(* a timer to the retry queue and waits on it.  Releasing an id sets       *)
(* packet_id_released_ and cancels the oldest waiter's timer.  A wait      *)
(* completes as aborted in every case: the op then reads                   *)
(* packet_id_released_ to tell "an id was released" from "I was            *)
(* cancelled".                                                             *)
(*                                                                         *)
(* The packet-id manager, the release path and the queue helpers are not   *)
(* in this source tree; they are modelled from the spec (4.3 "Packet-id    *)
(* allocation").                                                           *)
(***************************************************************************)
EXTENDS Naturals, Sequences, FiniteSets, FiniteSetsExt

CONSTANTS
    Ops,         \* async_acquire_unique_packet_id_wait_until calls
    MaxId,       \* largest packet id (2^(8*PacketIdBytes) - 1, scaled down)
    SyncAcquire, \* the application also calls acquire_unique_packet_id
    UserCancel,  \* the application cancels pending waits
    Destroyable  \* the endpoint may be destroyed while ops are in flight

ASSUME MaxId \in Nat \ {0}
ASSUME SyncAcquire \in BOOLEAN /\ UserCancel \in BOOLEAN /\ Destroyable \in BOOLEAN

Ids == 1..MaxId
Sync == "sync"          \* owner of an id taken by acquire_unique_packet_id
(* The completion signature is void(error_code, packet_id_type).          *)
Completion(ec, pid) == [ec |-> ec, pid |-> pid]
Canceled == Completion("operation_canceled", 0)
None == Completion("none", 0)

VARIABLES
    allocated,           \* pid_man_: ids currently in use
    held,                \* <<owner, id>> pairs handed out and not released
    retry_queue,         \* tim_retry_acq_pid_queue_: the op owning each timer
    packet_id_released,  \* packet_id_released_
    timer_waits,         \* ops with a pending wait on their retry timer
    ready,               \* aborted-wait handlers queued on the executor
    st,                  \* per op: idle, dispatch, wait, done
    result,              \* per op: the id it completed with, or the error
    user_canceled,       \* ops the application cancelled (history)
    start_order,         \* ops in the order their state complete first ran
    alive                \* the endpoint exists: retry_wp has not expired

vars == <<allocated, held, retry_queue, packet_id_released, timer_waits,
          ready, st, result, user_canceled, start_order, alive>>

-----------------------------------------------------------------------------
(* pid_man_.acquire_unique_id(): the smallest free id, if any.             *)
FreeIds == Ids \ allocated

(* endpoint::has_retry()                                                   *)
HasRetry == retry_queue # <<>>

(* endpoint::async_add_retry(self): a new infinite timer at the back of    *)
(* the retry queue q, and the op waits on it.                              *)
AddRetry(o, q) ==
    /\ retry_queue' = Append(q, o)
    /\ timer_waits' = timer_waits \cup {o}
    /\ st' = [st EXCEPT ![o] = "wait"]

(* endpoint::complete_retry_one(): drop the front timer of the queue.      *)
CompleteRetryOne(q) == IF q = <<>> THEN q ELSE Tail(q)

(* Mutant: pid_man_ is not updated, so the id stays free.                  *)
CompleteWithNoRegister(o, p) ==
    /\ allocated' = allocated
    /\ held' = held \cup {<<o, p>>}
    /\ result' = [result EXCEPT ![o] = Completion("success", p)]
    /\ st' = [st EXCEPT ![o] = "done"]

(* self.complete(error_code{}, p): the id is handed to the caller.        *)
CompleteWith(o, p) ==
    /\ allocated' = allocated \cup {p}
    /\ held' = held \cup {<<o, p>>}
    /\ result' = [result EXCEPT ![o] = Completion("success", p)]
    /\ st' = [st EXCEPT ![o] = "done"]

(* Mutant: the optional from acquire_unique_id() is dereferenced unchecked.*)
AcqProcUnchecked(o, q) ==
    /\ CompleteWith(o, IF FreeIds # {} THEN Min(FreeIds) ELSE 0)
    /\ retry_queue' = q
    /\ UNCHANGED <<packet_id_released, timer_waits>>

(* Mutant: on failure the op waits without adding its timer to the queue.  *)
AcqProcNoQueue(o, q) ==
    IF FreeIds # {}
    THEN /\ CompleteWith(o, Min(FreeIds))
         /\ retry_queue' = q
         /\ UNCHANGED <<packet_id_released, timer_waits>>
    ELSE /\ packet_id_released' = FALSE
         /\ retry_queue' = q
         /\ timer_waits' = timer_waits \cup {o}
         /\ st' = [st EXCEPT ![o] = "wait"]
         /\ UNCHANGED <<allocated, held, result>>

(* acq_proc (lines 38-55), run with retry queue q: acquire the smallest    *)
(* free id and complete, or clear packet_id_released_ and go (back) to the *)
(* end of the retry queue.                                                 *)
AcqProc(o, q) ==
    IF FreeIds # {}
    THEN /\ CompleteWith(o, Min(FreeIds))
         /\ retry_queue' = q
         /\ UNCHANGED <<packet_id_released, timer_waits>>
    ELSE /\ packet_id_released' = FALSE
         /\ AddRetry(o, q)
         /\ UNCHANGED <<allocated, held, result>>

-----------------------------------------------------------------------------
Init ==
    /\ allocated = {}
    /\ held = {}
    /\ retry_queue = <<>>
    /\ packet_id_released = FALSE
    /\ timer_waits = {}
    /\ ready = <<>>
    /\ st = [o \in Ops |-> "idle"]
    /\ result = [o \in Ops |-> None]
    /\ user_canceled = {}
    /\ start_order = <<>>
    /\ alive = TRUE

(* async_acquire_unique_packet_id_wait_until and state dispatch: the op is *)
(* composed and dispatched to the endpoint's executor.                     *)
AsyncAcquire(o) ==
    /\ alive
    /\ st[o] = "idle"
    /\ st' = [st EXCEPT ![o] = "dispatch"]
    /\ UNCHANGED <<allocated, held, retry_queue, packet_id_released,
                   timer_waits, ready, result, user_canceled, start_order, alive>>

(* Mutant: the has_retry() test is missing; a new op acquires directly.   *)
StartNoRetryCheck(o) ==
    /\ alive
    /\ st[o] = "dispatch"
    /\ AcqProc(o, retry_queue)
    /\ start_order' = Append(start_order, o)
    /\ UNCHANGED <<ready, user_canceled, alive>>

(* State complete, first entry (no error): queue behind existing waiters,  *)
(* otherwise try to acquire.                                               *)
Start(o) ==
    /\ alive
    /\ st[o] = "dispatch"
    /\ IF HasRetry
       THEN /\ AddRetry(o, retry_queue)
            /\ UNCHANGED <<allocated, held, result, packet_id_released>>
       ELSE AcqProc(o, retry_queue)
    /\ start_order' = Append(start_order, o)
    /\ UNCHANGED <<ready, user_canceled, alive>>

(* State complete, re-entered when the retry timer's wait is aborted.  If  *)
(* packet_id_released_ is set the op pops the front of the retry queue and *)
(* tries again; otherwise it reports operation_canceled.                   *)
Retry ==
    /\ alive
    /\ ready # <<>>
    /\ LET o == Head(ready) IN
        /\ ready' = Tail(ready)
        /\ IF packet_id_released
           THEN AcqProc(o, CompleteRetryOne(retry_queue))
           ELSE /\ result' = [result EXCEPT ![o] = Canceled]
                /\ st' = [st EXCEPT ![o] = "done"]
                /\ UNCHANGED <<allocated, held, retry_queue, packet_id_released,
                               timer_waits>>
    /\ UNCHANGED <<user_canceled, start_order, alive>>

(* Line 27: an op resumed (from dispatch or from an aborted wait) after   *)
(* the endpoint is gone returns at once, without touching the endpoint and *)
(* without completing; its handler is dropped.                             *)
ResumeExpired ==
    /\ ~alive
    /\ \/ \E o \in Ops :
            /\ st[o] = "dispatch"
            /\ st' = [st EXCEPT ![o] = "abandoned"]
            /\ UNCHANGED ready
       \/ /\ ready # <<>>
          /\ ready' = Tail(ready)
          /\ st' = [st EXCEPT ![Head(ready)] = "abandoned"]
    /\ UNCHANGED <<allocated, held, retry_queue, packet_id_released,
                   timer_waits, result, user_canceled, start_order, alive>>

-----------------------------------------------------------------------------
(* Environment of the op, modelled from the spec.                         *)

(* The endpoint is destroyed (spec 3: after its stream closed) while ops   *)
(* may be in flight.  Its retry timers go with it: each pending wait is    *)
(* aborted and its handler queued, in queue order.  Handlers already on    *)
(* the executor (dispatched ops) stay there.                               *)
EndpointDestroyed ==
    /\ Destroyable
    /\ alive
    /\ alive' = FALSE
    /\ ready' = ready \o SelectSeq(retry_queue, LAMBDA o : o \in timer_waits)
    /\ timer_waits' = {}
    /\ UNCHANGED <<allocated, held, retry_queue, packet_id_released, st,
                   result, user_canceled, start_order>>

(* The holder of id p releases it (PUBACK/PUBCOMP/SUBACK/UNSUBACK handled, *)
(* or release_packet_id called): pid_man_ frees it, packet_id_released_ is *)
(* set and the oldest waiter still waiting on its timer is woken.          *)
Release(p) ==
    /\ alive
    /\ \E w \in Ops \cup {Sync} :
          /\ <<w, p>> \in held
          /\ held' = held \ {<<w, p>>}
    /\ allocated' = allocated \ {p}
    /\ packet_id_released' = TRUE
    /\ LET waiting == {i \in DOMAIN retry_queue : retry_queue[i] \in timer_waits} IN
        IF waiting = {}
        THEN UNCHANGED <<timer_waits, ready>>
        ELSE LET o == retry_queue[Min(waiting)] IN
              /\ timer_waits' = timer_waits \ {o}
              /\ ready' = Append(ready, o)
    /\ UNCHANGED <<retry_queue, st, result, user_canceled, start_order, alive>>

(* acquire_unique_packet_id(), called on the endpoint's executor.          *)
AcquireSync ==
    /\ alive
    /\ SyncAcquire
    /\ FreeIds # {}
    /\ allocated' = allocated \cup {Min(FreeIds)}
    /\ held' = held \cup {<<Sync, Min(FreeIds)>>}
    /\ UNCHANGED <<retry_queue, packet_id_released, timer_waits, ready, st,
                   result, user_canceled, start_order, alive>>

(* Per-operation cancellation: asio aborts the op's pending timer wait.    *)
CancelWait(o) ==
    /\ alive
    /\ UserCancel
    /\ o \in timer_waits
    /\ timer_waits' = timer_waits \ {o}
    /\ ready' = Append(ready, o)
    /\ user_canceled' = user_canceled \cup {o}
    /\ UNCHANGED <<allocated, held, retry_queue, packet_id_released, st,
                   result, start_order, alive>>

Next ==
    \/ \E o \in Ops : AsyncAcquire(o) \/ Start(o) \/ CancelWait(o)
    \/ Retry
    \/ ResumeExpired
    \/ \E p \in Ids : Release(p)
    \/ AcquireSync
    \/ EndpointDestroyed

(* The executor eventually runs dispatched ops and queued handlers; the    *)
(* application is never obliged to release, acquire or cancel.             *)
Fairness ==
    /\ \A o \in Ops : WF_vars(Start(o))
    /\ WF_vars(Retry)
    /\ WF_vars(ResumeExpired)

Spec == Init /\ [][Next]_vars /\ Fairness

-----------------------------------------------------------------------------
TypeOK ==
    /\ allocated \subseteq Ids
    /\ held \subseteq (Ops \cup {Sync}) \X Ids
    /\ retry_queue \in Seq(Ops)
    /\ packet_id_released \in BOOLEAN
    /\ timer_waits \subseteq Ops
    /\ ready \in Seq(Ops)
    /\ st \in [Ops -> {"idle", "dispatch", "wait", "done", "abandoned"}]
    /\ result \in [Ops -> {Completion("success", p) : p \in Ids} \cup {Canceled, None}]
    /\ user_canceled \subseteq Ops
    /\ start_order \in Seq(Ops)
    /\ alive \in BOOLEAN

(* No packet id is in the hands of two owners (ops or synchronous          *)
(* callers) at once, and pid_man_ counts exactly the ids handed out.       *)
IdsExclusive ==
    /\ \A x, y \in held : x[2] = y[2] => x = y
    /\ allocated = {x[2] : x \in held}

(* Ops are served in the order they ran: no op obtains an id while an op  *)
(* that ran before it (and so joined the retry queue) is still waiting, *)
(* neither a later waiter nor a newcomer that finds an id just released.  *)
FifoService ==
    \A i, j \in DOMAIN start_order :
        (i < j /\ result[start_order[j]].ec = "success") => st[start_order[i]] = "done"

(* A waiting op is not stranded: if it waits while no id is in use (so no  *)
(* release will ever wake it), it is eventually completed or an id comes   *)
(* into use again.                                                         *)
WaiterNotStranded ==
    \A o \in Ops :
        (st[o] = "wait" /\ allocated = {}) ~> (st[o] = "done" \/ allocated # {})

(* Every waiter gets the answer spec 4.3 promises: operation_canceled only *)
(* after a user cancellation, and never a wait that outlives the last     *)
(* held id.  Both parts are about the retry queue and the shared          *)
(* packet_id_released_ flag read after a wake-up.                          *)
WaitersAnswered ==
    /\ [][\A o \in Ops : result'[o] = Canceled => o \in user_canceled']_vars
    /\ WaiterNotStranded

=============================================================================
