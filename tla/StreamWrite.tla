---------------------------- MODULE StreamWrite ----------------------------
(***************************************************************************)
(* The framing stream's write side: stream::async_write_packet and         *)
(* stream_write_packet_op, with the single-writer ioc_queue write_queue_   *)
(* and bulk-write coalescing through storing_cbs_ / sending_cbs_.          *)
(*                                                                         *)
(* Everything runs on the stream's executor.  An async_write_packet call   *)
(* runs its dispatch and post states inline; the post state posts the op  *)
(* to write_queue_, and write_queue_.poll_one() runs one posted op (state *)
(* write or bulk_write) unless a write is in progress (working_).  The op  *)
(* then hands a buffer sequence to the transport; the transport's          *)
(* completion, and the poll_one lambdas the op posts when it completes,    *)
(* are handlers queued FIFO on the executor.                               *)
(*                                                                         *)
(* A packet's const_buffer_sequence() is abstracted to the op that owns   *)
(* it: the wire is the sequence of ops whose bytes were transmitted.       *)
(*                                                                         *)
(* PollAfterPost selects the post state: FALSE is the source, which posts  *)
(* the op and returns; TRUE adds the write_queue_.poll_one() that the      *)
(* spec's single-writer queue implies, so the rest of the path can run.   *)
(***************************************************************************)
EXTENDS Naturals, Sequences, FiniteSets, SequencesExt

CONSTANTS
    Ops,            \* async_write_packet calls, one packet each
    PollAfterPost,  \* the post state polls write_queue_ after posting
    Reconnect       \* the transport may be re-opened after it closed

VARIABLES
    st,         \* per op: idle, write / bulk_write (posted), writing, done
    result,     \* per op: the error code its handler received
    wq,         \* handlers posted to write_queue_, in order
    working,    \* write_queue_.working_
    stopped,    \* write_queue_'s io_context is stopped
    storing,    \* storing_cbs_
    sending,    \* sending_cbs_
    inflight,   \* transport async_writes not completed: [op, cbs]
    exec,       \* handlers queued on the stream's executor
    wire,       \* transmitted packets (their owning ops), in wire order
    open,       \* lowest_layer().is_open()
    bulk,       \* bulk_write_
    submitted   \* ops in the order async_write_packet was called (history)

vars == <<st, result, wq, working, stopped, storing, sending, inflight, exec,
          wire, open, bulk, submitted>>

Success == "success"
Reset == "connection_reset"
WriteError == "write_error"    \* an error reported by the transport
None == "none"

Poll == [k |-> "poll"]
Done(o, ec) == [k |-> "done", op |-> o, ec |-> ec]

-----------------------------------------------------------------------------
(* Mutant: the handler returns without calling self.complete().          *)
OnCompleteNoHandler(o, ec, sts, ctx) ==
    /\ working' = FALSE
    /\ sending' = IF ec = Success THEN <<>> ELSE sending
    /\ exec' = Append(ctx, Poll)
    /\ result' = result
    /\ st' = [sts EXCEPT ![o] = "done"]

(* The op's completion handler (lines 145-180) run with error code ec and  *)
(* the stream's state before it; ctx is what the caller leaves in exec.    *)
(* On error: stop_work, post poll_one, complete.  On success: stop_work,   *)
(* clear sending_cbs_, post poll_one, complete.                            *)
OnComplete(o, ec, sts, ctx) ==
    /\ working' = FALSE
    /\ sending' = IF ec = Success THEN <<>> ELSE sending
    /\ exec' = Append(ctx, Poll)
    /\ result' = [result EXCEPT ![o] = ec]
    /\ st' = [sts EXCEPT ![o] = "done"]

(* Mutant: state write omits write_queue_.start_work().                   *)
RunWriteNoStartWork(o, stor, sts, ctx) ==
    /\ storing' = stor
    /\ IF open
       THEN /\ working' = working
            /\ inflight' = inflight \cup {[op |-> o, cbs |-> <<o>>]}
            /\ st' = [sts EXCEPT ![o] = "writing"]
            /\ exec' = ctx
            /\ UNCHANGED <<result, sending>>
       ELSE /\ OnComplete(o, Reset, sts, ctx)
            /\ UNCHANGED inflight

(* State write (lines 55-89): start_work; write the packet's own buffers, *)
(* or, on a closed transport, complete inline with connection_reset.       *)
RunWrite(o, stor, sts, ctx) ==
    /\ storing' = stor
    /\ IF open
       THEN /\ working' = TRUE
            /\ inflight' = inflight \cup {[op |-> o, cbs |-> <<o>>]}
            /\ st' = [sts EXCEPT ![o] = "writing"]
            /\ exec' = ctx
            /\ UNCHANGED <<result, sending>>
       ELSE /\ OnComplete(o, Reset, sts, ctx)
            /\ UNCHANGED inflight

(* State bulk_write (lines 90-138): start_work; if storing_cbs_ is empty   *)
(* an earlier bulk write already sent this packet, complete with success; *)
(* otherwise move storing_cbs_ into sending_cbs_ and write them all.  On a *)
(* closed transport complete inline with connection_reset.                 *)
RunBulkWrite(o, stor, sts, ctx) ==
    IF open
    THEN IF stor = <<>>
         THEN /\ OnComplete(o, Success, sts, ctx)
              /\ UNCHANGED <<storing, inflight>>
         ELSE /\ working' = TRUE
              /\ sending' = stor
              /\ storing' = <<>>
              /\ inflight' = inflight \cup {[op |-> o, cbs |-> stor]}
              /\ st' = [sts EXCEPT ![o] = "writing"]
              /\ exec' = ctx
              /\ UNCHANGED result
    ELSE /\ storing' = stor
         /\ OnComplete(o, Reset, sts, ctx)
         /\ UNCHANGED inflight

(* write_queue_.poll_one() (ioc_queue, modelled from the spec), given the *)
(* queue q, storing_cbs_ stor, the ops' states sts and the executor queue *)
(* ctx as the caller leaves them.  Nothing runs while working_; otherwise  *)
(* the io_context is restarted and runs the first posted op, stopping     *)
(* when no posted handler is left.                                         *)
PollOne(q, stor, sts, ctx) ==
    IF working \/ q = <<>>
    THEN /\ wq' = q
         /\ stopped' = (stopped \/ ~working)
         /\ storing' = stor
         /\ st' = sts
         /\ exec' = ctx
         /\ UNCHANGED <<result, working, sending, inflight>>
    ELSE LET o == Head(q) IN
         /\ wq' = Tail(q)
         /\ stopped' = (Tail(q) = <<>>)
         /\ IF sts[o] = "write"
            THEN RunWrite(o, stor, sts, ctx)
            ELSE RunBulkWrite(o, stor, sts, ctx)

-----------------------------------------------------------------------------
Init ==
    /\ st = [o \in Ops |-> "idle"]
    /\ result = [o \in Ops |-> None]
    /\ wq = <<>>
    /\ working = FALSE
    /\ stopped \in BOOLEAN
    /\ storing = <<>>
    /\ sending = <<>>
    /\ inflight = {}
    /\ exec = <<>>
    /\ wire = <<>>
    /\ open = TRUE
    /\ bulk \in BOOLEAN
    /\ submitted = <<>>

(* async_write_packet with states dispatch and post (lines 32-54, 183-205):*)
(* the op runs write unless bulk_write_ is set and the queue is busy, in   *)
(* which case its buffers are appended to storing_cbs_; it is posted to    *)
(* write_queue_, and polled inline when PollAfterPost.                     *)
AsyncWritePacket(o) ==
    /\ st[o] = "idle"
    /\ LET direct == ~bulk \/ (stopped /\ ~working)
           sts == [st EXCEPT ![o] = IF direct THEN "write" ELSE "bulk_write"]
           stor == IF direct THEN storing ELSE storing \o <<o>>
           q == Append(wq, o)
       IN IF PollAfterPost
          THEN PollOne(q, stor, sts, exec)
          ELSE /\ wq' = q
               /\ storing' = stor
               /\ st' = sts
               /\ UNCHANGED <<result, working, stopped, sending, inflight, exec>>
    /\ submitted' = Append(submitted, o)
    /\ UNCHANGED <<wire, open, bulk>>

(* The executor runs its first handler: a poll_one lambda, or an op's      *)
(* completion handler with the transport's error code.                     *)
ExecPoll ==
    /\ exec # <<>>
    /\ Head(exec) = Poll
    /\ PollOne(wq, storing, st, Tail(exec))
    /\ UNCHANGED <<wire, open, bulk, submitted>>

ExecDone ==
    /\ exec # <<>>
    /\ Head(exec) # Poll
    /\ OnComplete(Head(exec).op, Head(exec).ec, st, Tail(exec))
    /\ UNCHANGED <<wq, stopped, storing, inflight, wire, open, bulk, submitted>>

(* stream::set_bulk_write                                                  *)
SetBulkWrite(v) ==
    /\ bulk' = v
    /\ UNCHANGED <<st, result, wq, working, stopped, storing, sending,
                   inflight, exec, wire, open, submitted>>

-----------------------------------------------------------------------------
(* The transport, modelled from the spec.                                 *)

(* An async_write finishes: on an open socket it either transmits all its *)
(* bytes or fails (the peer reset the connection; the socket stays open  *)
(* until it is closed); on a closed socket it fails.  The op's handler is *)
(* queued on the executor.                                                 *)
TransportComplete ==
    \E w \in inflight, ok \in BOOLEAN :
        /\ ok => open
        /\ inflight' = inflight \ {w}
        /\ IF ok
           THEN /\ wire' = wire \o w.cbs
                /\ exec' = Append(exec, Done(w.op, Success))
           ELSE /\ exec' = Append(exec, Done(w.op, WriteError))
                /\ UNCHANGED <<wire>>
        /\ UNCHANGED <<st, result, wq, working, stopped, storing, sending,
                       open, bulk, submitted>>

(* The connection is lost or closed.                                      *)
Close ==
    /\ open
    /\ open' = FALSE
    /\ UNCHANGED <<st, result, wq, working, stopped, storing, sending,
                   inflight, exec, wire, bulk, submitted>>

(* The same stream's transport is connected again.                        *)
Reopen ==
    /\ Reconnect
    /\ ~open
    /\ open' = TRUE
    /\ UNCHANGED <<st, result, wq, working, stopped, storing, sending,
                   inflight, exec, wire, bulk, submitted>>

Next ==
    \/ \E o \in Ops : AsyncWritePacket(o)
    \/ ExecPoll
    \/ ExecDone
    \/ \E v \in BOOLEAN : SetBulkWrite(v)
    \/ TransportComplete
    \/ Close
    \/ Reopen

(* The executor runs its queued handlers and the transport finishes every *)
(* write it accepted (by sending the bytes or by failing).                 *)
Fairness ==
    /\ WF_vars(ExecPoll)
    /\ WF_vars(ExecDone)
    /\ WF_vars(TransportComplete)

Spec == Init /\ [][Next]_vars /\ Fairness

-----------------------------------------------------------------------------
TypeOK ==
    /\ st \in [Ops -> {"idle", "write", "bulk_write", "writing", "done"}]
    /\ result \in [Ops -> {None, Success, Reset, WriteError}]
    /\ wq \in Seq(Ops)
    /\ working \in BOOLEAN
    /\ stopped \in BOOLEAN
    /\ storing \in Seq(Ops)
    /\ sending \in Seq(Ops)
    /\ \A w \in inflight : w.op \in Ops /\ w.cbs \in Seq(Ops)
    /\ exec \in Seq({Poll} \cup {Done(o, ec) : o \in Ops, ec \in {Success, WriteError}})
    /\ wire \in Seq(Ops)
    /\ open \in BOOLEAN
    /\ bulk \in BOOLEAN
    /\ submitted \in Seq(Ops)
    /\ \A o \in Ops : (st[o] = "done") = (result[o] # None)

(* Position of op o in a sequence of ops.                                 *)
Pos(s, o) == SelectInSeq(s, LAMBDA x : x = o)

(* The single-writer queue: the transport never has two async_writes of  *)
(* this stream outstanding at once (working_ keeps poll_one from running  *)
(* a posted op while a write is in progress).                              *)
SingleWriter == Cardinality(inflight) <= 1

(* The refinement mapping onto the abstract channel: calls in call order, *)
(* every packet the transport sent, and the completed calls.              *)
Chan == INSTANCE WriteChannel
          WITH submitted <- submitted, sent <- wire,
               done <- {o \in Ops : st[o] = "done"}, result <- result

WriteCompletes ==
    \A o \in Ops : st[o] # "idle" ~> st[o] = "done"

=============================================================================
