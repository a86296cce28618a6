--------------------------- MODULE GuardedPayment ---------------------------
(***************************************************************************)
(* The context manager of guard.py: GuardedPayment and its mirror          *)
(* AsyncGuardedPayment, with the caller's `with` body between __enter__    *)
(* and __exit__.  Each operator is one step of one guard; what the other   *)
(* guards and the server do in between is in Checkout.                     *)
(*                                                                         *)
(* A call to the server is two steps, the request leaving and its answer   *)
(* (or failure) being processed, so that a late or lost request, a crash   *)
(* or an interrupt fits in between.                                        *)
(***************************************************************************)
EXTENDS CyclesServer

CONSTANTS
  Configs,    \* the constructor arguments a guard may be given
  Overrides,  \* what set_actual_micros may be called with: values and types
  FieldNames, \* the keywords of attach_receipt_fields
  FieldValues, \* their values,
  Texts,      \* those of the values that are a str
  ExcNames    \* class names of the exceptions a body may raise

\* A constructor is given a mandate; the digest is defined on its lock.
ASSUME ConfigsAssumption ==
  \A c \in Configs :
    /\ IsMandate(c.mandate) /\ IsDecimal(c.mandate.amount_value)
    /\ consume_once_input(c.mandate).raw \in DOMAIN Digest

ASSUME OverridesAssumption == \A r \in Overrides : r.type = "int" => r.value \in Int

\* The amounts a guard may keep: integers in the range of the protocol.
Actuals == {r.value : r \in {o \in Overrides : o.type = "int" /\ o.value \in 0..MaxMicros}}

\* Dictionaries of keyword arguments, and dict.update.
Fields == UNION {[D -> FieldValues] : D \in SUBSET FieldNames}
NoFields == [k \in {} |-> None]

\* Mutant: a keyword given before keeps its value.
Updated_keeping(d, e) ==
  [k \in DOMAIN d \cup DOMAIN e |-> IF k \in DOMAIN d THEN d[k] ELSE e[k]]

Updated(d, e) == [k \in DOMAIN d \cup DOMAIN e |-> IF k \in DOMAIN e THEN e[k] ELSE d[k]]

VARIABLES
  config,     \* config[g]: the constructor's arguments, never assigned again
  self,       \* self[g]: the attributes the methods assign
  pc,         \* where the thread or task of g is
  via,        \* which branch of __exit__ or _handle_commit called _handle_release
  outcome,    \* how the with statement ended
  charged,    \* whether the body has moved money at the PSP
  asked       \* history: what was asked of g before and in its body, and not after

guardVars == <<config, self, pc, via, outcome, charged, asked>>

\* "reentered": done, and the object is in a further with statement since.
PcValues ==
  {"idle", "reserving", "body", "committing", "releasing", "done", "crashed", "reentered"}
ReleaseCauses == {"body_raised", "aborted", "commit_rejected"}
Decisions == {"ALLOW", "DENY"}        \* ALLOW_WITH_CAPS counts as ALLOW
CommitFailures == {"CommitFailedReleased", "CommitFailedStranded"}
Outcomes == CommitFailures \cup
  {"AP2MandateError", "AP2GuardDenied", "AP2DryRunResult", "CommitUncertain",
   "body_exception", "returned", "escaped"}

ASSUME NoneAssumption ==
  /\ None \notin Guards /\ None \notin Fields /\ None \notin FieldValues
  /\ \A r \in Overrides : r.value # None
  /\ None \notin Terminal /\ None \notin ReleaseCauses /\ None \notin Decisions
  /\ None \notin Outcomes

\* GuardedPayment.__init__
NewObject ==
  [reservation_id  |-> None,
   decision        |-> None,
   actual_micros   |-> None,
   commit_metadata |-> NoFields,
   receipt         |-> None,
   committed       |-> FALSE,
   aborted         |-> FALSE]    \* _aborted_reason is not None

NoRequest == [actual |-> None, fields |-> NoFields, aborted |-> FALSE]

GuardInit ==
  /\ config \in [Guards -> Configs]
  /\ self = [g \in Guards |-> NewObject]
  /\ pc = [g \in Guards |-> "idle"]
  /\ via = [g \in Guards |-> None]
  /\ outcome = [g \in Guards |-> None]
  /\ charged = [g \in Guards |-> FALSE]
  /\ asked = [g \in Guards |-> NoRequest]

\* The with statement of g ends as o; no call of g is waited for any more.
End(g, o) ==
  /\ pc' = [pc EXCEPT ![g] = "done"]
  /\ outcome' = [outcome EXCEPT ![g] = o]
  /\ Hangup(g)
  /\ UNCHANGED <<config, via, charged, asked, resv, requests>>

-----------------------------------------------------------------------------
\* __enter__

ReservationBody(g) == build_reservation_body(config[g])

EnterInvalid(g) ==
  /\ pc[g] = "idle" /\ amount_micros(config[g].mandate) = None
  /\ End(g, "AP2MandateError")
  /\ UNCHANGED self

Enter(g) ==
  /\ pc[g] = "idle" /\ amount_micros(config[g].mandate) # None
  /\ pc' = [pc EXCEPT ![g] = "reserving"]
  /\ Send(g, "reserve", config[g].tenant, None, ReservationBody(g))
  /\ UNCHANGED <<config, self, via, outcome, charged, asked, resv>>

\* The object of h, whose with statement has ended, is used in a further one, g,
\* which has no object of its own: __enter__ resets none of its attributes.
EnterAgain(g, h) ==
  /\ pc[g] = "idle" /\ self[g] = NewObject /\ pc[h] = "done" /\ config[g] = config[h] /\ config[g].reused
  /\ amount_micros(config[g].mandate) # None
  /\ pc' = [pc EXCEPT ![g] = "reserving", ![h] = "reentered"]
  /\ self' = [self EXCEPT ![g] = self[h]]
  /\ Send(g, "reserve", config[g].tenant, None, ReservationBody(g))
  /\ UNCHANGED <<config, via, outcome, charged, asked, resv>>

\* __enter__ raises instead of handing the guard to the body.  The order of
\* its tests: the status, the body's validation, DENY, dry_run, the missing id.
EnterException(cfg, a, exception) ==
  \/ a.status # "2xx" /\ exception = "AP2GuardDenied"
  \/ a.status = "2xx" /\ a.code = "MALFORMED" /\ exception = "escaped"
  \/ a.status = "2xx" /\ a.code = "DENY" /\ exception = "AP2GuardDenied"
  \/ /\ a.status = "2xx" /\ a.code = "ALLOW" /\ cfg.dry_run
     /\ exception = "AP2DryRunResult"
  \/ /\ a.status = "2xx" /\ a.code = "ALLOW" /\ ~cfg.dry_run /\ a.rid = None
     /\ exception = "AP2GuardDenied"

\* _decision is assigned once the body has been validated, granted or not.
Decided(g, a) ==
  IF a.status = "2xx" /\ a.code \in Decisions THEN a.code ELSE self[g].decision

EnterRaises(g) ==
  /\ pc[g] = "reserving" /\ Answered(g, "reserve")
  /\ \E exception \in {"AP2GuardDenied", "AP2DryRunResult", "escaped"} :
       /\ EnterException(config[g], answer[g]["reserve"], exception)
       /\ End(g, exception)
  /\ self' = [self EXCEPT ![g].decision = Decided(g, answer[g]["reserve"])]

\* Mutant: no test for the missing reservation id.
Granted_without_id(cfg, a) == a.status = "2xx" /\ a.code = "ALLOW" /\ ~cfg.dry_run

\* Mutant: the test for a dry run is only in the branch that raises.
Granted_in_dry_run(cfg, a) == a.status = "2xx" /\ a.code = "ALLOW" /\ a.rid # None

Granted(cfg, a) ==
  a.status = "2xx" /\ a.code = "ALLOW" /\ ~cfg.dry_run /\ a.rid # None

EnterReturns(g) ==
  /\ pc[g] = "reserving" /\ Answered(g, "reserve")
  /\ Granted(config[g], answer[g]["reserve"])
  /\ self' = [self EXCEPT ![g].decision = Decided(g, answer[g]["reserve"]),
                          ![g].reservation_id = answer[g]["reserve"].rid]
  /\ pc' = [pc EXCEPT ![g] = "body"]
  /\ Hangup(g)
  /\ UNCHANGED <<config, via, outcome, charged, asked, resv, requests>>

\* create_reservation raises, or the thread or task is interrupted in it:
\* __enter__ has no handler.
EnterEscapes(g) ==
  /\ pc[g] = "reserving"
  /\ End(g, "escaped")
  /\ UNCHANGED self

-----------------------------------------------------------------------------
\* The caller's body.

Charge(g) ==
  /\ pc[g] = "body" /\ ~charged[g]
  /\ charged' = [charged EXCEPT ![g] = TRUE]
  /\ UNCHANGED <<config, self, pc, via, outcome, asked, serverVars>>

\* The guard's methods test nothing.  They are called from the body, before the
\* with statement, or between two with statements on one object; another thread or
\* task that has the guard may also call them while __enter__ or __exit__ waits.
\* After the last with statement nothing reads the attributes.
InUse(g) ==
  \/ pc[g] = "body"
  \/ config[g].early /\ pc[g] = "idle"
  \/ config[g].early /\ config[g].reused /\ pc[g] = "done"
  \/ config[g].shared /\ pc[g] \in {"reserving", "committing", "releasing"}

\* The last value given for each keyword: what is to become of the fields, stated
\* apart from Updated, which is how the code keeps them.
Latest(before, now) ==
  [k \in DOMAIN now \cup DOMAIN before |-> IF k \in DOMAIN now THEN now[k] ELSE before[k]]

\* What is asked until the body ends is to be honoured.
Ask(g, field, value) ==
  asked' = IF pc[g] \in {"idle", "reserving", "body"} THEN [asked EXCEPT ![g][field] = value] ELSE asked

\* An amount that validate_micros refuses raises in the caller, with no effect.
set_actual_micros(g, override) ==
  /\ InUse(g) /\ validate_micros(override)
  /\ self' = [self EXCEPT ![g].actual_micros = override.value]
  /\ Ask(g, "actual", override.value)
  /\ UNCHANGED <<config, pc, via, outcome, charged, serverVars>>

attach_receipt_fields(g, fields) ==
  /\ InUse(g)
  /\ self' = [self EXCEPT ![g].commit_metadata = Updated(@, fields)]
  /\ Ask(g, "fields", Latest(asked[g].fields, fields))
  /\ UNCHANGED <<config, pc, via, outcome, charged, serverVars>>

abort(g) ==
  /\ InUse(g)
  /\ self' = [self EXCEPT ![g].aborted = TRUE]
  /\ Ask(g, "aborted", TRUE)
  /\ UNCHANGED <<config, pc, via, outcome, charged, serverVars>>

-----------------------------------------------------------------------------
\* __exit__

\* The call to _handle_release.
StartRelease(g, cause, reason, exc_name) ==
  /\ pc' = [pc EXCEPT ![g] = "releasing"]
  /\ via' = [via EXCEPT ![g] = cause]
  /\ Send(g, "release", config[g].tenant, self[g].reservation_id,
          build_release_body(config[g].mandate, reason, exc_name))
  /\ UNCHANGED <<config, self, outcome, charged, asked, resv>>

BodyRaises(g, exc_name) ==
  /\ pc[g] = "body"
  /\ StartRelease(g, "body_raised", exc_name, exc_name)

BodyAborts(g) ==
  /\ pc[g] = "body" /\ self[g].aborted
  /\ StartRelease(g, "aborted", "aborted", "Aborted")

\* metadata=self._commit_metadata or None
CommitMetadata(g) ==
  IF self[g].commit_metadata = NoFields THEN None ELSE self[g].commit_metadata

CommitBody(g) ==
  build_commit_body(config[g].mandate, self[g].actual_micros, CommitMetadata(g))

\* Mutant: a body that called abort and then returns is committed.
BodyReturns_aborted(g) ==
  /\ pc[g] = "body"
  /\ pc' = [pc EXCEPT ![g] = "committing"]
  /\ Send(g, "commit", config[g].tenant, self[g].reservation_id, CommitBody(g))
  /\ UNCHANGED <<config, self, via, outcome, charged, asked, resv>>

BodyReturns(g) ==
  /\ pc[g] = "body" /\ ~self[g].aborted
  /\ pc' = [pc EXCEPT ![g] = "committing"]
  /\ Send(g, "commit", config[g].tenant, self[g].reservation_id, CommitBody(g))
  /\ UNCHANGED <<config, self, via, outcome, charged, asked, resv>>

-----------------------------------------------------------------------------
\* _handle_commit, from the answer on.  Its tests partition the answers.

\* Mutant: RESERVATION_FINALIZED is taken for a benign replay.
Committed_or_finalized(a) == a.status = "2xx" \/ a.code = "RESERVATION_FINALIZED"

\* Mutant: transport errors and 5xx fall through to the release.
OutcomeUnknown_terminal_only(a) == a.code \in Terminal

\* Mutant: no rejection is told from a failure that leaves the outcome unknown.
OutcomeUnknown_any_failure(a) == a.status # "2xx"

Committed(a) == a.status = "2xx"
OutcomeUnknown(a) == a.status \in {"transport", "5xx"} \/ a.code \in Terminal
CommitRejected(a) == ~Committed(a) /\ ~OutcomeUnknown(a)

\* build_runtime_authority_receipt, without its constant fields and time stamp.
build_runtime_authority_receipt(g, amount, psp_ref, extra) ==
  LET mandate == config[g].mandate IN
    [decision           |-> self[g].decision,
     reservation_id     |-> self[g].reservation_id,
     tenant             |-> config[g].tenant,
     ap2_transaction_id |-> mandate.transaction_id,
     checkout_hash      |-> mandate.checkout_hash,
     amount_micros      |-> amount,
     policy_keys        |-> build_receipt_policy_keys(mandate),
     psp_ref            |-> psp_ref,
     extra              |-> extra]

\* A psp_ref that is not a str is left out of the receipt.
PspRef(fields) ==
  IF "psp_ref" \in DOMAIN fields /\ fields["psp_ref"] \in Texts
    THEN fields["psp_ref"] ELSE None

\* Mutant: the psp_ref is repeated among the extra fields.
ExtraOf_all(fields) == IF fields = NoFields THEN None ELSE fields

\* What is attached besides it, or None.
ExtraOf(fields) ==
  LET others == DOMAIN fields \ {"psp_ref"}
  IN  IF others = {} THEN None ELSE [k \in others |-> fields[k]]

\* Mutant: the receipt shows the mandate's amount, not the one committed.
Receipt_of_mandate(g) ==
  build_runtime_authority_receipt(g, amount_micros(config[g].mandate),
    PspRef(self[g].commit_metadata), ExtraOf(self[g].commit_metadata))

\* _build_receipt
Receipt(g) ==
  build_runtime_authority_receipt(g,
    IF self[g].actual_micros # None THEN self[g].actual_micros
                                    ELSE amount_micros(config[g].mandate),
    PspRef(self[g].commit_metadata), ExtraOf(self[g].commit_metadata))

CommitSucceeds(g) ==
  /\ pc[g] = "committing" /\ Answered(g, "commit") /\ Committed(answer[g]["commit"])
  /\ self' = [self EXCEPT ![g].committed = TRUE,
                          ![g].receipt = IF config[g].emit_receipt THEN Receipt(g) ELSE @]
  /\ End(g, "returned")

CommitUncertain(g) ==
  /\ pc[g] = "committing" /\ Answered(g, "commit")
  /\ OutcomeUnknown(answer[g]["commit"])
  /\ End(g, "CommitUncertain")
  /\ UNCHANGED self

\* commit_reservation raises an Exception, or, in the asynchronous variant,
\* the task is cancelled while the POST is in flight.
CommitRaises(g) ==
  /\ pc[g] = "committing"
  /\ End(g, "CommitUncertain")
  /\ UNCHANGED self

\* KeyboardInterrupt or SystemExit in the synchronous call: no handler.
CommitEscapes(g) ==
  /\ pc[g] = "committing" /\ ~config[g].cancellable
  /\ End(g, "escaped")
  /\ UNCHANGED self

\* A 4xx with an unrecognised code: release, then AP2GuardCommitFailed.
CommitRejects(g) ==
  /\ pc[g] = "committing" /\ Answered(g, "commit")
  /\ CommitRejected(answer[g]["commit"])
  /\ StartRelease(g, "commit_rejected", answer[g]["commit"].code, "CommitRejected")

-----------------------------------------------------------------------------
\* _handle_release, from the answer on; released is its first result.

\* Mutant: the exception says "reservation released" whatever happened.
AfterRelease_always(cause, released) ==
  CASE cause = "body_raised" -> "body_exception"
    [] cause = "aborted" -> "returned"
    [] OTHER -> "CommitFailedReleased"

AfterRelease(cause, released) ==
  CASE cause = "body_raised" -> "body_exception"
    [] cause = "aborted" -> "returned"
    [] OTHER -> \* commit_rejected
         IF released THEN "CommitFailedReleased" ELSE "CommitFailedStranded"

ReleaseAnswered(g) ==
  /\ pc[g] = "releasing" /\ Answered(g, "release")
  /\ End(g, AfterRelease(via[g], answer[g]["release"].status = "2xx"))
  /\ UNCHANGED self

\* release_reservation raises an Exception, which is logged and returned.
ReleaseRaises(g) ==
  /\ pc[g] = "releasing"
  /\ End(g, AfterRelease(via[g], FALSE))
  /\ UNCHANGED self

\* KeyboardInterrupt, SystemExit or asyncio.CancelledError: no handler.
ReleaseEscapes(g) ==
  /\ pc[g] = "releasing"
  /\ End(g, "escaped")
  /\ UNCHANGED self

-----------------------------------------------------------------------------
\* The SDK's timeout and connection errors: an answer with is_transport_error.
TransportFails(g) ==
  /\ \E op \in Ops :
       /\ answer[g][op] = Awaiting
       /\ answer' = [answer EXCEPT ![g][op] = TransportDown]
  /\ UNCHANGED <<guardVars, resv, requests>>

\* The process dies; what it has sent may still be handled.
Crash(g) ==
  /\ pc[g] \in {"reserving", "body", "committing", "releasing"}
  /\ pc' = [pc EXCEPT ![g] = "crashed"]
  /\ Hangup(g)
  /\ UNCHANGED <<config, self, via, outcome, charged, asked, resv, requests>>

\* A body, however it is left.
Leave(g) ==
  \/ \E exc_name \in ExcNames : BodyRaises(g, exc_name)
  \/ BodyAborts(g) \/ BodyReturns(g)

\* What the code does with an answer that is there.
Process(g) ==
  \/ EnterRaises(g) \/ EnterReturns(g)
  \/ CommitSucceeds(g) \/ CommitUncertain(g) \/ CommitRejects(g)
  \/ ReleaseAnswered(g)

Proceed(g) ==
  \/ EnterInvalid(g) \/ Enter(g) \/ \E h \in Guards : EnterAgain(g, h)
  \/ Charge(g) \/ abort(g)
  \/ \E override \in Overrides : set_actual_micros(g, override)
  \/ \E fields \in Fields : attach_receipt_fields(g, fields)
  \/ Leave(g) \/ Process(g)

\* Interrupts, cancellations, calls that raise or fail, and death.
Fail(g) ==
  \/ EnterEscapes(g) \/ CommitRaises(g) \/ CommitEscapes(g)
  \/ ReleaseRaises(g) \/ ReleaseEscapes(g)
  \/ TransportFails(g) \/ Crash(g)

GuardStep(g) == Proceed(g) \/ Fail(g)
=============================================================================
