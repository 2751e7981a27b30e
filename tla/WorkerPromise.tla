---------------------------- MODULE WorkerPromise ----------------------------
(***************************************************************************)
(* What the backend relies on when it sends a request to the codegen       *)
(* worker: a request stays in the queue until a result with its job's id   *)
(* is published, or it is given up in the open.  GenerationJobs assumes    *)
(* this of its worker; Codegen implements it.                              *)
(***************************************************************************)
EXTENDS Sequences

CONSTANT Request

VARIABLES requests,   \* codegen-request-queue, sent and not acknowledged
          results,    \* the results published so far
          dropped     \* the requests given up: nack without requeue, unknown type

vars == <<requests, results, dropped>>

Result == [job : Request, ok : BOOLEAN]

Init == requests = <<>> /\ results = {} /\ dropped = {}

Answered(r) == \E ok \in BOOLEAN : [job |-> r, ok |-> ok] \in results

Send(r) ==
  /\ requests' = Append(requests, r)
  /\ UNCHANGED <<results, dropped>>

(* A result for the request in hand; a redelivery may add the other one.   *)
Answer(ok) ==
  /\ requests # <<>>
  /\ results' = results \cup {[job |-> Head(requests), ok |-> ok]}
  /\ UNCHANGED <<requests, dropped>>

Settle ==
  /\ requests # <<>> /\ Answered(Head(requests))
  /\ requests' = Tail(requests)
  /\ UNCHANGED <<results, dropped>>

Drop ==
  /\ requests # <<>>
  /\ requests' = Tail(requests)
  /\ dropped' = dropped \cup {Head(requests)}
  /\ UNCHANGED results

Next == \/ \E r \in Request : Send(r)
        \/ \E ok \in BOOLEAN : Answer(ok)
        \/ Settle \/ Drop

Spec == Init /\ [][Next]_vars
=============================================================================
