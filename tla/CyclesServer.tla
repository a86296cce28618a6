---------------------------- MODULE CyclesServer ----------------------------
(***************************************************************************)
(* EXTERNAL: the Cycles server and the wire to it, as far as the package   *)
(* relies on them.  Nothing here is code of the repository: it is what     *)
(* mapping.py, guard.py, exceptions.py and the tests say of the server.    *)
(*                                                                         *)
(* Idempotency: answers are kept per bucket (tenant, endpoint, key).  The  *)
(* endpoint is not stored because the key already names the phase.  Same   *)
(* key and same payload replays the original answer, same key and another  *)
(* payload is a 409 IDEMPOTENCY_MISMATCH.  Only successes are kept, and    *)
(* they are kept for ever.                                                 *)
(*                                                                         *)
(* A guard creates at most one reservation, so a reservation is named by   *)
(* the guard whose request created it; another guard may be handed the     *)
(* same one by a replay.                                                   *)
(***************************************************************************)
EXTENDS Mapping

CONSTANT Guards   \* the guards (client processes), also reservation ids

VARIABLES
  resv,       \* resv[r]: the server's record of reservation r
  requests,   \* requests sent and not handled yet; one may wait for ever
  answer      \* answer[g][op]: the client's side of the call op of guard g

serverVars == <<resv, requests, answer>>

Ops == {"reserve", "commit", "release"}
Terminal == {"RESERVATION_FINALIZED", "RESERVATION_EXPIRED", "IDEMPOTENCY_MISMATCH"}

NoReservation ==
  [state |-> "none", tenant |-> None, body |-> None, final |-> None, by |-> None]

\* What the SDK returns for a call: a status class, the decision or error code
\* in the body, and the reservation id in the body.
Response(status, code, rid) == [status |-> status, code |-> code, rid |-> rid]
Closed        == Response("closed", None, None)      \* no call is waiting
Awaiting      == Response("awaiting", None, None)    \* no answer yet
TransportDown == Response("transport", None, None)   \* is_transport_error
ServerError   == Response("5xx", None, None)         \* is_server_error
Rejected      == Response("4xx", None, None)         \* an unrecognised code
Malformed     == Response("2xx", "MALFORMED", None)  \* body fails validation

NoCall == [op \in Ops |-> Closed]

ServerInit ==
  /\ resv = [r \in Guards |-> NoReservation]
  /\ requests = {}
  /\ answer = [g \in Guards |-> NoCall]

\* The client's end of the wire: one call at a time.
Send(g, op, tenant, rid, body) ==
  /\ requests' = requests \cup
       {[op |-> op, from |-> g, tenant |-> tenant, rid |-> rid, body |-> body]}
  /\ answer' = [answer EXCEPT ![g] = [NoCall EXCEPT ![op] = Awaiting]]

Hangup(g) == answer' = [answer EXCEPT ![g] = NoCall]

Answered(g, op) == answer[g][op].status \notin {"awaiting", "closed"}

\* The server's end: q is handled; its answer is lost if nobody waits for it.
Reply(q, a) ==
  /\ requests' = requests \ {q}
  /\ answer' = IF answer[q.from][q.op] = Awaiting
                 THEN [answer EXCEPT ![q.from][q.op] = a] ELSE answer

-----------------------------------------------------------------------------
\* The reservations recorded in the bucket a reserve request falls in.
Bucket(q) ==
  {r \in Guards : /\ resv[r].state # "none"
                  /\ resv[r].tenant = q.tenant
                  /\ resv[r].body.idempotency_key = q.body.idempotency_key}

\* Any request may be turned down without effect: authentication, rate limit,
\* validation, an amount over the estimate (overage policy REJECT), or a 5xx.
Refuse(q) ==
  /\ \E a \in {Rejected, ServerError} : Reply(q, a)
  /\ UNCHANGED resv

\* A reserve that leaves nothing behind: DENY, a dry-run evaluation, an answer
\* without a reservation id, or one the client cannot parse.  Nothing says that
\* the answer to a dry run has no id; one it has names no reservation.
Evaluate(q) ==
  /\ q.op = "reserve" /\ Bucket(q) = {}
  /\ \/ \E a \in {Response("2xx", "DENY", None), Response("2xx", "ALLOW", None), Malformed} :
          Reply(q, a)
     \/ q.body.dry_run /\ Reply(q, Response("2xx", "ALLOW", q.from))
  /\ UNCHANGED resv

\* A new reservation; the answer may still be lost to a 5xx or be unreadable.
Create(q) ==
  /\ q.op = "reserve" /\ Bucket(q) = {} /\ ~q.body.dry_run
  /\ resv' = [resv EXCEPT ![q.from] =
                [state |-> "ACTIVE", tenant |-> q.tenant, body |-> q.body,
                 final |-> None, by |-> None]]
  /\ \E a \in {Response("2xx", "ALLOW", q.from), ServerError, Malformed} : Reply(q, a)

\* Same bucket, same payload: the original answer, whatever became of the hold.
ReplayReserve(q) ==
  /\ q.op = "reserve"
  /\ \E r \in Bucket(q) : /\ resv[r].body = q.body
                          /\ Reply(q, Response("2xx", "ALLOW", r))
  /\ UNCHANGED resv

\* Same bucket, another payload.
MismatchReserve(q) ==
  /\ q.op = "reserve"
  /\ \E r \in Bucket(q) : resv[r].body # q.body
  /\ Reply(q, Response("4xx", "IDEMPOTENCY_MISMATCH", None))
  /\ UNCHANGED resv

-----------------------------------------------------------------------------
FinalState(op) == IF op = "commit" THEN "COMMITTED" ELSE "RELEASED"

\* The first commit or release of an active reservation finalizes it.
Finalise(q) ==
  /\ q.op \in {"commit", "release"} /\ resv[q.rid].state = "ACTIVE"
  /\ q.op = "commit" => q.body.actual <= resv[q.rid].body.estimate
  /\ resv' = [resv EXCEPT ![q.rid].state = FinalState(q.op),
                          ![q.rid].final = q.body,
                          ![q.rid].by = q.from]
  /\ \E a \in {Response("2xx", None, None), ServerError} : Reply(q, a)

\* The payload that finalized it, again: the original answer.
ReplayFinal(q) ==
  /\ q.op \in {"commit", "release"} /\ resv[q.rid].state = FinalState(q.op)
  /\ resv[q.rid].final = q.body
  /\ Reply(q, Response("2xx", None, None))
  /\ UNCHANGED resv

\* The reservation is past: the code the server gives depends on how it ended.
\* A server may also answer the identical commit with RESERVATION_FINALIZED.
RefuseFinal(q) ==
  /\ q.op \in {"commit", "release"}
  /\ \E code \in Terminal :
       /\ \/ code = "RESERVATION_EXPIRED" /\ resv[q.rid].state = "EXPIRED"
          \/ code = "RESERVATION_FINALIZED" /\ resv[q.rid].state \in {"COMMITTED", "RELEASED"}
          \/ /\ code = "IDEMPOTENCY_MISMATCH" /\ resv[q.rid].state = FinalState(q.op)
             /\ resv[q.rid].final # q.body
             /\ resv[q.rid].final.idempotency_key = q.body.idempotency_key
       /\ Reply(q, Response("4xx", code, None))
  /\ UNCHANGED resv

Handle(q) ==
  \/ Refuse(q) \/ Evaluate(q) \/ Create(q) \/ ReplayReserve(q) \/ MismatchReserve(q)
  \/ Finalise(q) \/ ReplayFinal(q) \/ RefuseFinal(q)

\* ttl_ms ran out: the budget goes back.
Expire(r) ==
  /\ resv[r].state = "ACTIVE"
  /\ resv' = [resv EXCEPT ![r].state = "EXPIRED"]
  /\ UNCHANGED <<requests, answer>>
=============================================================================
