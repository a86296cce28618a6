------------------------------ MODULE Checkout ------------------------------
(***************************************************************************)
(* The system: guards of several processes, the wire, and the Cycles       *)
(* server, in every interleaving; and what must hold of it.                *)
(***************************************************************************)
EXTENDS GuardedPayment

vars == <<serverVars, guardVars>>

Init == ServerInit /\ GuardInit

Serve == (\E q \in requests : Handle(q)) /\ UNCHANGED guardVars

Lapse == (\E r \in Guards : Expire(r)) /\ UNCHANGED guardVars

Next == (\E g \in Guards : GuardStep(g)) \/ Serve \/ Lapse

Spec == Init /\ [][Next]_vars

(***************************************************************************)
(* Checkouts in which nothing fails: no process dies or is interrupted, no *)
(* call times out or raises, no lease runs out, and the server answers,    *)
(* though it may turn down whatever it likes but a release.  Fairness says *)
(* that it gets to every request, that an answer that is there is          *)
(* processed and that the caller's bodies end, in whichever way; nothing   *)
(* obliges a caller to enter.                                              *)
(***************************************************************************)
Attend ==
  /\ \E q \in requests :
       /\ Handle(q)
       /\ LET a == answer'[q.from][q.op] IN
            /\ a # ServerError /\ a # Malformed
            /\ q.op = "release" => a # Rejected
  /\ UNCHANGED guardVars

SmoothNext == (\E g \in Guards : Proceed(g)) \/ Attend

SmoothSpec ==
  /\ Init /\ [][SmoothNext]_vars
  /\ WF_vars(Attend)
  /\ \A g \in Guards : WF_vars(Process(g)) /\ WF_vars(Leave(g))

-----------------------------------------------------------------------------
(***************************************************************************)
(* Types.                                                                  *)
(***************************************************************************)
ReserveBodies == {build_reservation_body(c) : c \in Configs}
CommitBodies ==
  {build_commit_body(c.mandate, a, m) :
     c \in Configs, a \in Actuals \cup {None}, m \in Fields \cup {None}}
Codes == Terminal \cup {"ALLOW", "DENY", "MALFORMED", None}
ReleaseReasons == ExcNames \cup {"aborted"} \cup Codes
ReleaseSuffixes == ExcNames \cup {"Aborted", "CommitRejected"}
ReleaseBodies ==
  {build_release_body(c.mandate, n, e) :
     c \in Configs, n \in ReleaseReasons, e \in ReleaseSuffixes}
Tenants == {c.tenant : c \in Configs}

Responses ==
  [status : {"closed", "awaiting", "2xx", "4xx", "5xx", "transport"},
   code   : Codes,
   rid    : Guards \cup {None}]

RequestsOf(op, rids, bodies) ==
  [op : {op}, from : Guards, tenant : Tenants, rid : rids, body : bodies]
Requests ==
  RequestsOf("reserve", {None}, ReserveBodies)
    \cup RequestsOf("commit", Guards, CommitBodies)
    \cup RequestsOf("release", Guards, ReleaseBodies)

Reservations ==
  [state  : {"none", "ACTIVE", "COMMITTED", "RELEASED", "EXPIRED"},
   tenant : Tenants \cup {None},
   body   : ReserveBodies \cup {None},
   final  : CommitBodies \cup ReleaseBodies \cup {None},
   by     : Guards \cup {None}]

Amounts == Actuals \cup {amount_micros(c.mandate) : c \in Configs}

Receipts ==
  [decision           : Decisions \cup {None},
   reservation_id     : Guards \cup {None},
   tenant             : Tenants,
   ap2_transaction_id : {c.mandate.transaction_id : c \in Configs},
   checkout_hash      : {c.mandate.checkout_hash : c \in Configs},
   amount_micros      : Amounts,
   policy_keys        : {build_receipt_policy_keys(c.mandate) : c \in Configs},
   psp_ref            : FieldValues \cup {None},
   extra              : Fields \cup {None}]

Objects ==
  [reservation_id  : Guards \cup {None},
   decision        : Decisions \cup {None},
   actual_micros   : Actuals \cup {None},
   commit_metadata : Fields,
   receipt         : Receipts \cup {None},
   committed       : BOOLEAN,
   aborted         : BOOLEAN]

AskedTypes == [actual : Actuals \cup {None}, fields : Fields, aborted : BOOLEAN]

\* Every variable holds a value the code can give it.
TypeOK ==
  /\ resv \in [Guards -> Reservations]
  /\ requests \subseteq Requests
  /\ answer \in [Guards -> [Ops -> Responses]]
  /\ config \in [Guards -> Configs]
  /\ self \in [Guards -> Objects]
  /\ pc \in [Guards -> PcValues]
  /\ via \in [Guards -> ReleaseCauses \cup {None}]
  /\ outcome \in [Guards -> Outcomes \cup {None}]
  /\ charged \in [Guards -> BOOLEAN]
  /\ asked \in [Guards -> AskedTypes]

-----------------------------------------------------------------------------
(***************************************************************************)
(* Safety.                                                                 *)
(***************************************************************************)
Exists(r) == resv[r].state # "none"
Holds(g) == self[g].reservation_id     \* the reservation g was handed

\* The assertions of _handle_commit, _handle_release and _build_receipt: past
\* __enter__ a guard has a reservation id and a decision (guard.py:237, 357,
\* 388, 389).
AssertsHold ==
  \A g \in Guards :
    pc[g] \in {"body", "committing", "releasing"} => Holds(g) # None /\ self[g].decision # None

\* Consume once: whatever interleaving, retry or crash, the server never has
\* two reservations of one tenant for one payment (mapping.py:46-67).
ConsumeOnce ==
  \A r, s \in Guards :
    /\ Exists(r) /\ Exists(s) /\ config[r].tenant = config[s].tenant
    /\ SamePayment(config[r].mandate, config[s].mandate)
    => r = s

\* The two lock scopes never collide: the server reports a key conflict only
\* to a guard whose payment is the one of another guard (mapping.py:62-63).
ConflictIsSamePayment ==
  \A g \in Guards :
    answer[g]["reserve"].code = "IDEMPOTENCY_MISMATCH" =>
      \E r \in Guards \ {g} : Exists(r) /\ SamePayment(config[g].mandate, config[r].mandate)

\* A body that moves money runs under a real reservation, of its tenant, that
\* the server evaluated for this transaction, payee, run and amount, and not
\* under a dry run (guard.py:140-211, mapping.py:96-146).
ChargeIsCovered ==
  \A g \in Guards : charged[g] =>
    /\ ~config[g].dry_run
    /\ Holds(g) # None /\ Exists(Holds(g))
    /\ LET held == resv[Holds(g)] IN
         /\ held.tenant = config[g].tenant
         /\ held.body.estimate = amount_micros(config[g].mandate)
         /\ held.body.subject.dimensions["ap2_transaction_id"] = config[g].mandate.transaction_id
         /\ held.body.subject.dimensions["payee_website"] = config[g].mandate.payee_website
         /\ held.body.subject.dimensions["run_id"] = config[g].run_id

CommitInFlight(g) == \E q \in requests : q.op = "commit" /\ q.from = g
CommitApplied(g) == \E r \in Guards : resv[r].state = "COMMITTED" /\ resv[r].by = g

\* A guard that asks for a release never does so while its own commit, that of
\* the same with statement, could still be, or has been, applied
\* (guard.py:275-279, 320-324).
ReleaseNeverRacesCommit ==
  \A g \in Guards : via[g] # None => ~CommitInFlight(g) /\ ~CommitApplied(g)

\* Only whoever runs its one with statement calls the methods of g.
Private(g) == ~config[g].shared /\ ~config[g].reused

\* What the commit of a guard is to carry, said on what was asked of it.
AskedActual(g) ==
  IF asked[g].actual = None THEN amount_micros(config[g].mandate) ELSE asked[g].actual
AskedMetadata(g) == IF asked[g].fields = NoFields THEN None ELSE asked[g].fields

\* A with statement that ends without an exception, and not by the branch of
\* abort, has settled: the reservation is committed and, if only the one body
\* used the guard, for the last amount and with all the fields asked for by its
\* end, whoever sent the commit that was applied (guard.py:260-318; a terminal
\* code is never a silent success).
SilenceMeansSettled ==
  \A g \in Guards :
    outcome[g] = "returned" /\ via[g] # "aborted" =>
      /\ resv[Holds(g)].state = "COMMITTED"
      /\ Private(g) => /\ resv[Holds(g)].final.actual = AskedActual(g)
                       /\ resv[Holds(g)].final.metadata = AskedMetadata(g)

\* The reservation and the fields the server settled say what the receipt says.
FieldsAgree(receipt, fields) ==
  LET extra == IF receipt.extra = None THEN NoFields ELSE receipt.extra IN
    /\ extra = [k \in DOMAIN fields \ {"psp_ref"} |-> fields[k]]
    /\ receipt.psp_ref = IF "psp_ref" \in DOMAIN fields /\ fields["psp_ref"] \in Texts
                           THEN fields["psp_ref"] ELSE None

ReceiptAgrees(receipt) ==
  LET settled == resv[receipt.reservation_id] IN
    /\ settled.state = "COMMITTED"
    /\ receipt.decision = "ALLOW"
    /\ receipt.amount_micros = settled.final.actual
    /\ receipt.ap2_transaction_id = settled.body.subject.dimensions["ap2_transaction_id"]
    /\ receipt.policy_keys.host = settled.body.subject.dimensions["payee_website"]
    /\ receipt.tenant = settled.tenant
    /\ FieldsAgree(receipt,
         IF settled.final.metadata = None THEN NoFields ELSE settled.final.metadata)

\* The reservation was evaluated with the checkout hash the receipt of g shows.
\* Where the mandate has none, the receipt shows none, and the reservation has
\* one only if the caller put it among the extra dimensions.
CheckoutAgrees(g, receipt) ==
  LET evaluated == resv[receipt.reservation_id].body.subject.dimensions
      extra == config[g].extra_dimensions
  IN  /\ receipt.checkout_hash # None =>
           /\ "checkout_hash" \in DOMAIN evaluated
           /\ evaluated["checkout_hash"] = receipt.checkout_hash
      /\ receipt.checkout_hash = None /\ "checkout_hash" \in DOMAIN evaluated =>
           /\ "checkout_hash" \in DOMAIN extra
           /\ evaluated["checkout_hash"] = extra["checkout_hash"]

\* A receipt agrees with the reservation the server evaluated and with the commit
\* it settled: amount, parties, decision, and the attached fields, of which none is
\* lost or invented; a psp_ref only if it is text.  So does its checkout hash, but
\* for one the mandate does not have and the caller's extra dimensions do
\* (guard.py:387-408, mapping.py:134-143).
ReceiptIsTruthful ==
  \A g \in Guards :
    self[g].receipt # None /\ ~config[g].shared =>
      ReceiptAgrees(self[g].receipt) /\ CheckoutAgrees(g, self[g].receipt)

\* Nothing out of the range of the protocol's int64 is sent to the server or
\* shown in a receipt, whatever a mandate says and a body passes (models.py:126,
\* _validation.py:16-30).
InRange(amount) == amount # None /\ amount \in 0..MaxMicros
AmountsInRange ==
  /\ \A q \in requests : /\ q.op = "reserve" => InRange(q.body.estimate)
                         /\ q.op = "commit" => InRange(q.body.actual)
  /\ \A g \in Guards : self[g].receipt # None => InRange(self[g].receipt.amount_micros)

\* AP2GuardCommitFailed with released = True: the budget is back and stays
\* back (guard.py:331-348, exceptions.py:111-112).
ReleasedMeansReleased ==
  \A g \in Guards : outcome[g] = "CommitFailedReleased" => resv[Holds(g)].state = "RELEASED"

\* What a guard does to its hold is what its body asked for by its end, whether
\* or not the guard ever learns of it (it may have crashed, been interrupted or
\* be uncertain): the request that finalizes a hold is for the one the guard was
\* handed; a commit is of a body that was not aborted and carries its amount and
\* fields, and an abort is one that was asked for (guard.py:213-258, 350-385).
FinalIsAsked ==
  \A g, r \in Guards : resv[r].by = g =>
    /\ r = Holds(g)
    /\ resv[r].state = IF via[g] = None THEN "COMMITTED" ELSE "RELEASED"
    /\ Private(g) /\ via[g] = None =>
         /\ ~asked[g].aborted
         /\ resv[r].final.actual = AskedActual(g)
         /\ resv[r].final.metadata = AskedMetadata(g)
    /\ Private(g) /\ via[g] = "aborted" => asked[g].aborted

\* Guards of one payment that were let into their bodies were let in on the same
\* hold, and had asked for the same reservation: a checkout that differs in any
\* argument is refused, not given the hold or one of its own (mapping.py:46-67,
\* 201-225, guard.py:158-204).
OneHoldPerPayment ==
  \A g, h \in Guards :
    /\ Holds(g) # None /\ Holds(h) # None /\ config[g].tenant = config[h].tenant
    /\ SamePayment(config[g].mandate, config[h].mandate)
    => Holds(g) = Holds(h) /\ ReservationBody(g) = ReservationBody(h)

\* A dry run, and a with statement that ends as refused, has moved no money and
\* finalizes no hold, now or by a request on the wire; a dry run has no hold to
\* its name either, whatever the server answered (guard.py:158-202).
Refusals == {"AP2MandateError", "AP2GuardDenied", "AP2DryRunResult"}
Untouched(g) ==
  /\ ~charged[g]
  /\ \A q \in requests : q.from = g => q.op = "reserve"
  /\ \A r \in Guards : resv[r].by # g
RefusedIsUntouched ==
  \A g \in Guards :
    /\ config[g].dry_run \/ outcome[g] \in Refusals => Untouched(g)
    /\ config[g].dry_run => Holds(g) = None /\ ~Exists(g)

\* Two receipts for one payment show the same settlement: reservation, amount,
\* parties and attached fields, whichever guards built them (guard.py:387-408).
ReceiptsConcur ==
  \A g, h \in Guards :
    /\ self[g].receipt # None /\ self[h].receipt # None
    /\ ~config[g].shared /\ ~config[h].shared /\ config[g].tenant = config[h].tenant
    /\ SamePayment(config[g].mandate, config[h].mandate)
    => [self[g].receipt EXCEPT !.checkout_hash = self[h].receipt.checkout_hash] = self[h].receipt

-----------------------------------------------------------------------------
(***************************************************************************)
(* The system implements PaymentLock: the attempts are the guards, and a   *)
(* payment is the set of configs that are about it.                        *)
(***************************************************************************)
PaymentOf(c) == {d \in Configs : d.tenant = c.tenant /\ SamePayment(d.mandate, c.mandate)}

LockOf(p) ==
  LET held == {r \in Guards : Exists(r) /\ PaymentOf(config[r]) = p}
      state == resv[CHOOSE r \in held : TRUE].state
  IN  CASE held = {} -> "free"
        [] held # {} /\ state = "ACTIVE" -> "held"
        [] held # {} /\ state = "COMMITTED" -> "settled"
        [] held # {} /\ state \in {"RELEASED", "EXPIRED"} -> "returned"

ToldTo(g) ==
  CASE self[g].committed /\ outcome[g] = "returned" -> "settled"
    [] outcome[g] = "CommitFailedReleased" -> "returned"
    [] OTHER -> "nothing"

Lock == INSTANCE PaymentLock WITH
  Attempts <- Guards,
  Payments <- {PaymentOf(c) : c \in Configs},
  payment  <- [g \in Guards |-> PaymentOf(config[g])],
  lock     <- [p \in {PaymentOf(c) : c \in Configs} |-> LockOf(p)],
  spent    <- charged,
  told     <- [g \in Guards |-> ToldTo(g)]

\* No two attempts are told different ends of one payment: none that its budget
\* is back while another holds a success for it (guard.py:260-348).
ReportsAgree ==
  \A g, h \in Guards :
    /\ PaymentOf(config[g]) = PaymentOf(config[h])
    /\ ToldTo(g) # "nothing" /\ ToldTo(h) # "nothing"
    => ToldTo(g) = ToldTo(h)

\* Every behaviour of the system is one of the lock: retries, crashes, lost and
\* late messages and interrupts take no payment's lock twice and tell no
\* attempt what is not so (guard.py:140-385 with mapping.py:46-93).
ImplementsLock == Lock!LockSpec

-----------------------------------------------------------------------------
(***************************************************************************)
(* What the documentation says of the package and its code does not do.    *)
(***************************************************************************)
\* README.md:14-17: use it to prevent duplicate payment attempts under retries
\* and concurrent checkout races.  At most one body moves money for a payment.
OneChargePerPayment ==
  \A g, h \in Guards :
    /\ charged[g] /\ charged[h] /\ config[g].tenant = config[h].tenant
    /\ SamePayment(config[g].mandate, config[h].mandate)
    => g = h

\* README.md:124: a commit answered with a 4xx of an unrecognised code ends in
\* AP2GuardCommitFailed, carrying the reservation and whether it was released.
RejectionIsSignalled ==
  \A g \in Guards :
    pc[g] = "done" /\ via[g] = "commit_rejected" => outcome[g] \in CommitFailures

\* guard.py:320-322 and README.md:124: releasing after a rejected commit is
\* safe.  It takes no hold from under a body of another guard that has charged.
ReleaseIsSafe ==
  \A g, h \in Guards :
    /\ g # h /\ via[g] = "commit_rejected"
    /\ pc[h] = "body" /\ charged[h] /\ Exists(Holds(h))
    => ~(resv[Holds(h)].state = "RELEASED" /\ resv[Holds(h)].by = g)

\* guard.py:121: set_actual_micros overrides the committed amount.  The amount
\* a guard's receipt shows as committed is the amount that was committed.
OverrideIsCommitted ==
  \A g \in Guards : self[g].receipt # None =>
    self[g].receipt.amount_micros = resv[self[g].receipt.reservation_id].final.actual

\* README.md:119: body completes, commit.  A with statement that ends without an
\* exception, and whose body did not call abort, has its reservation committed.
CompletionCommits ==
  \A g \in Guards :
    outcome[g] = "returned" /\ ~asked[g].aborted => resv[Holds(g)].state = "COMMITTED"

-----------------------------------------------------------------------------
(***************************************************************************)
(* Liveness.                                                               *)
(***************************************************************************)
\* When nothing fails, every hold is committed or released, however the bodies
\* that were let in on it end and whatever the server says to their commits; none
\* is left to its lease (guard.py:213-232, 320-348).
HoldsEnd == \A r \in Guards : Exists(r) ~> resv[r].state \in {"COMMITTED", "RELEASED"}
=============================================================================
