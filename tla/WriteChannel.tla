---------------------------- MODULE WriteChannel ----------------------------
(***************************************************************************)
(* What the framing stream's write side promises (spec 4.2 and 5): a       *)
(* single ordered channel.  Every async_write_packet call is recorded in  *)
(* call order; the packets of pending calls reach the wire in that order, *)
(* each at most once, possibly several in one transport write; every call *)
(* completes once, with an error, or with success once its packet is on   *)
(* the wire.                                                               *)
(*                                                                         *)
(* One step of the code may submit a call and, inline, complete a queued  *)
(* one (a queued write that finds the transport closed completes with    *)
(* connection_reset from inside poll_one); SubmitRunsCompletion is that    *)
(* step.                                                                   *)
(***************************************************************************)
EXTENDS Naturals, Sequences, SequencesExt

CONSTANT Ops

VARIABLES
    submitted,  \* calls, in call order
    sent,       \* packets transmitted, in wire order
    done,       \* calls that completed
    result      \* the error code each completed call received

vars == <<submitted, sent, done, result>>

None == "none"
ErrorCodes == {"success", "connection_reset", "write_error"}

Pending == ToSet(submitted) \ done

(* Position of op o in the call order.                                     *)
CallPos(o) == SelectInSeq(submitted, LAMBDA x : x = o)

Init ==
    /\ submitted = <<>>
    /\ sent = <<>>
    /\ done = {}
    /\ result = [o \in Ops |-> None]

Submit(o) ==
    /\ o \notin ToSet(submitted)
    /\ submitted' = Append(submitted, o)
    /\ UNCHANGED <<sent, done, result>>

(* Success reports that the packet was transmitted.                       *)
Reported(o, ec) == ec = "success" => o \in ToSet(sent)

Complete(o, ec) ==
    /\ o \in Pending
    /\ Reported(o, ec)
    /\ done' = done \cup {o}
    /\ result' = [result EXCEPT ![o] = ec]
    /\ UNCHANGED <<submitted, sent>>

SubmitRunsCompletion(o) ==
    /\ o \notin ToSet(submitted)
    /\ submitted' = Append(submitted, o)
    /\ \E x \in ToSet(submitted') \ done, ec \in ErrorCodes :
          /\ Reported(x, ec)
          /\ done' = done \cup {x}
          /\ result' = [result EXCEPT ![x] = ec]
    /\ UNCHANGED sent

(* One transport write: a non-empty batch of pending packets, not sent    *)
(* before, appended in call order after everything already sent.         *)
Transmit ==
    LET batch == SubSeq(sent', Len(sent) + 1, Len(sent'))
    IN /\ Len(sent') > Len(sent)
       /\ SubSeq(sent', 1, Len(sent)) = sent
       /\ \A i \in DOMAIN batch : batch[i] \in Pending /\ batch[i] \notin ToSet(sent)
       /\ \A i, j \in DOMAIN sent' : i < j => CallPos(sent'[i]) < CallPos(sent'[j])
       /\ UNCHANGED <<submitted, done, result>>

Next ==
    \/ \E o \in Ops : Submit(o) \/ SubmitRunsCompletion(o)
    \/ \E o \in Ops, ec \in ErrorCodes : Complete(o, ec)
    \/ Transmit

(* The safety part of the promise; that every call completes is stated   *)
(* and checked on the detailed module (WriteCompletes).                    *)
SafetySpec == Init /\ [][Next]_vars

=============================================================================
