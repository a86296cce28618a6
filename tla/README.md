# A verification development for Cycles AP2 Guard

TLA+ models of `runcycles_ap2`, the package that wraps one AP2 payment in
reserve / commit / release calls to a Cycles server, with TLC runs that check
them on small instances and TLAPS proofs that hold for any instance.

Paths are relative to the repository: `guard.py`, `mapping.py`, ... are in
`runcycles_ap2/`; `README.md:n` is the repository's README.

## 1. Inventory

| part | state | operations | hard behaviour |
|---|---|---|---|
| `models.py`, `_validation.py` | the mandate, whose fields the package never assigns again (the class is not frozen) | `from_ap2`, validation by pydantic, `amount_micros`, `validate_micros` | missing, `None`, empty and padded attributes; decimal exponents, the digit cap, the int64 ceiling |
| `mapping.py`, `_constants.py` | none (pure) | lock scope, idempotency keys, subject, bodies | two key namespaces, names merged by cleaning, dimensions overridden by the caller |
| `guard.py`, `GuardedPayment` | constructor arguments; `_reservation_id`, `_decision`, `_actual_micros`, `_commit_metadata`, `_receipt`, `_committed`, `_aborted_reason` | `__enter__`, `__exit__` (`_handle_commit`, `_handle_release`, `_build_receipt`), `set_actual_micros`, `attach_receipt_fields`, `abort` | a remote call between every two steps: lost and late messages, 5xx after a mutation, interrupts, crashes, expiry of the lease, replays of another guard's reservation, a second use of the object |
| `guard.py`, `AsyncGuardedPayment` | the same | the same, awaited | in addition cancellation at every await, state shared with other tasks |
| `exceptions.py` | the error reported and, for a rejected commit, whether the budget came back | - | the class must say what really happened |
| `receipt.py`, `RuntimeAuthorityReceipt` | none | assembling the receipt | must agree with what was settled |
| factories, `__init__.py`, `examples/` | none | pass-through, demonstration | none |
| Cycles server, runcycles SDK, PSP | reservations, idempotency records | reserve, commit, release, expiry; transport | external; modelled from its use |

How they interact: the caller makes an `AP2Mandate` from an upstream object and
constructs a guard with it; the guard prices the mandate, builds its bodies with
`mapping.py` and calls the SDK; the server answers; guards of different processes
meet only in the server, through keys that `mapping.py` derives from the
mandate, so two guards with equal mandates and arguments share one reservation.
The caller's body runs between `__enter__` and `__exit__` and moves the money.

What makes the parts correct:

* mandates: nothing malformed falls back to a weaker lock; a price is exact;
* keys: one payment, one key; different payments, different keys;
* guard: no charge without a reservation for that very payment; no release that
  could undo a settlement; no silent end unless settled; a receipt that shows
  what was settled; `released=True` only if the budget is back; no hold left to
  its lease where every call succeeds;
* the system: one lock per payment, whatever is retried, lost or crashed.

## 2. Modules

| module | models | code |
|---|---|---|
| `Mandates` | `AP2Mandate`, `from_ap2`, `amount_micros`, `validate_micros` | `models.py:28-179`, `_validation.py` |
| `MandateAdapter` | callers that build and price mandates, and the properties of both | composition |
| `Mapping` | the pure functions of `mapping.py` | `mapping.py:31-274` |
| `CyclesServer` | external: server and wire | as used by `guard.py`, `mapping.py`, `exceptions.py` |
| `GuardedPayment` | both guard classes and the receipt | `guard.py:57-408`, `500-845`, `exceptions.py`, `receipt.py` |
| `Checkout` | the system and its properties | composition |
| `PaymentLock` | abstract specification of the lock | - |
| `MCCheckout`, `MCMandateAdapter` | instances for TLC | - |
| `CheckoutProofs`, `CommitProofs`, `SettlementProofs`, `LockProofs`, `HoldProofs` | proofs about `Checkout`, each extending the one before | - |
| `PaymentLockProofs` | proofs about `PaymentLock` | - |
| `AmountProofs`, `MandateProofs` | proofs about `Mandates`, `MandateAdapter` | - |

Each extends the one before: `Mandates`, `Mapping`, `CyclesServer`,
`GuardedPayment`, `Checkout`; `MandateAdapter` extends `Mapping`. `Checkout` puts
any number of guards and the server together and shows, by
`INSTANCE PaymentLock WITH ...`, that the whole implements `PaymentLock`.

**State.** `config[g]` are the constructor's arguments and how the caller uses
the guard, `self[g]` the attributes the methods assign, `pc[g]` where the thread
or task is, `via[g]` the branch that called `_handle_release`, `outcome[g]` how
the with statement ended and `charged[g]` whether the body moved money. `asked[g]`
is a history variable: what was asked of the guard until its body ended, recorded
beside the attributes, by a definition of its own, so that properties can compare
the two. On the other side `resv[r]` is the server's record of a reservation,
`requests` what is on the wire and `answer` the client's end of each call.

**Steps.** A remote call is two steps of its guard: the request leaves
(`Enter`, `BodyReturns`, `StartRelease`), and its result is processed
(`EnterReturns`, `EnterRaises`, `CommitSucceeds`, `CommitUncertain`,
`CommitRejects`, `ReleaseAnswered`). In between, the server may handle the
request, now or long after the client gave up (`TransportFails`), raised
(`CommitRaises`, `ReleaseRaises`), was interrupted (`EnterEscapes`,
`CommitEscapes`, `ReleaseEscapes`) or died (`Crash`); the lease may expire; any
other guard may do anything.

**One model for two classes.** `AsyncGuardedPayment` mirrors the synchronous
class line by line. It differs where a cancellation arrives: in the commit it is
caught and becomes `AP2GuardCommitUncertain` (`guard.py:684`, `CommitRaises`);
the synchronous call lets `KeyboardInterrupt` through (`CommitEscapes`, only
when `~config[g].cancellable`); in reserve and release neither class catches it.
A `KeyboardInterrupt` in the event loop of the asynchronous class is not modelled.

**Retries and reuse.** A restarted or repeated checkout is a new guard with the
same arguments. A guard *object* used in a further with statement is also a new
`g`, entered by `EnterAgain(g, h)`: it takes over the attributes `h` left behind,
all of them, because `__enter__` resets none, and `h` becomes `"reentered"`. This
keeps one with statement per `g`, and with it the history of each.
`config[g].reused` says that the caller does that; `config[g].early` that it also
calls the methods outside of a with statement, before the first or, with
`reused`, between two (what is set between two is for the next use, and is no part
of what `h` was asked); `config[g].shared` that another task or thread holds the
guard and may call its methods while `__enter__` or `__exit__` waits.
`Private(g)` is neither reused nor shared.

**Data.** A string is an opaque value with a length and a stripped form
(`Length`, `Strip`), which is all that pydantic and `from_ap2` look at. A price is
what `Decimal.as_tuple` makes of it: sign, coefficient, number of digits,
exponent, or a kind that `Decimal` or pydantic refuses. The constants
`MaxDecimalPlaces`, `MaxIntegerDigits`, `MaxMicros` stand for 8, 19 and 2^63 - 1;
`ScaleAssumption` keeps their relation, that the ceiling has exactly
`MaxIntegerDigits` digits. An override is a value with its Python type, since
`True` is an `int` equal to 1. A key is the tuple of its parts. A subject keeps
three of its canonical dimensions and the optional two. SHA-256 is `Digest`,
assumed injective on the strings in use (`DigestAssumption`); cleaning and
cutting a suffix is `SafeSuffix`, of which nothing is assumed, and which the
instances make merge two names. Attached fields are functions from keywords to
values, some of which (`Texts`) are strings.

**The server** is deliberately permissive. It may refuse anything at any time
without effect (4xx or 5xx), answer 5xx after having acted, handle a request
after its caller has gone, or never; the answer to a dry run may carry an id.
What is relied upon is only what the package's documents state: same bucket and
same payload replays the first answer, same bucket and another payload is
`IDEMPOTENCY_MISMATCH`, a reservation is finalized at most once, a commit over
the estimate is refused (overage policy `REJECT`). Further assumptions:
idempotency records are kept for ever, refusals and dry runs are not recorded, a
request is handled at most once (the transport does not duplicate it), and the
bucket's tenant is the guard's `tenant`.

## 3. Runs

Two guards in every run of `MCCheckout` (`Guards = {g1, g2}`) but `fields`; each
run chooses what the two may be constructed with (`Configs`) and every assignment
of those to the two guards is explored. All hazards of the guards are between a guard and
the server or between two guards sharing a payment, so two guards and one lock
are enough to meet each of them; the proofs remove the bound. Amounts have one
decimal place and a ceiling of 7, enough for prices below, at and over it.

| run | what is varied | properties |
|---|---|---|
| `replay` | one mandate, priced 2, 7 (the ceiling) or 8 (over it), by two objects or one used twice, its methods called before and between its uses too; overrides 5 (over one estimate, within the other), `True`, 8, -1; a body exception named `CommitRejected`; a checkout hash in the caller's dimensions, and another in the mandate or none | `TypeOK`, `ReleaseNeverRacesCommit`, `SilenceMeansSettled`, `ReceiptIsTruthful`, `ReleasedMeansReleased`, `AmountsInRange`, `FinalIsAsked`, `ReceiptsConcur` |
| `scopes` | two checkouts of one open mandate, a transaction named like it, another tenant and no receipt, another `ttl_ms`, another currency, a dry run, an asynchronous guard with overriding dimensions; an exception name that is changed by cleaning | `AssertsHold`, `ChargeIsCovered`, `RefusedIsUntouched`, `ConsumeOnce`, `ConflictIsSamePayment`, `OneHoldPerPayment` |
| `fields` | one guard, two keywords with a text or another value each, in any order and number of calls, before the with statement and in its body; a checkout hash of the mandate, of the caller, or none | `SilenceMeansSettled`, `ReceiptIsTruthful` |
| `holds_end` | one mandate, priced 2 or 7, by two objects or one used twice, or in another currency; overrides and a field; nothing fails, with fairness | `HoldsEnd` |
| `lock` | two checkouts of one open mandate | `ImplementsLock`, `ReportsAgree` |
| `adapter` | two callers with missing, `None`, empty, blank, padded, longest and overlong attributes; prices around the digit cap 3 and the ceiling 511, two decimal places | `NoWeakerLock`, `RetriesShareLock`, `HashKept`, `AmountIsExact` |

Each passes on the complete state space (about 6,000 to 1.1 million states).
Deadlock is not checked: guards are done or crashed, callers have their price,
and requests may rest on the wire for ever, so the systems really stop.

* `ConsumeOnce`: never two reservations of one tenant for one payment, where
  "same payment" is stated on mandates (`SamePayment`) and not through keys.
* `ConflictIsSamePayment`: a key conflict is only reported between guards of one
  payment; the `tx` and `open_mandate` namespaces never collide.
* `ChargeIsCovered`: a charging body has a reservation evaluated for its
  transaction, payee, run, amount and tenant, also when it is a replay, also
  when the caller passes dimensions of the same names, and never in a dry run.
* `ReleaseNeverRacesCommit`: once a guard releases, its own commit, that of the
  same with statement, is neither applied nor on the wire. This is what the
  comments at `guard.py:275-279` and `320-324` argue, over all the late, lost and
  interrupted calls.
* `SilenceMeansSettled`: a with statement that ends without exception, not
  aborted, has committed, and what is committed is the last amount and the last
  value of each field it was asked for. In particular a terminal code is never taken
  for success. The second half is for private guards: with other callers of its methods,
  "what it was asked for" is not all there is.
* `ReceiptIsTruthful`: a receipt agrees with the reservation and the commit at the
  server, for ever: amount, parties, decision, tenant and attached fields, a
  `psp_ref` only if it is text; also for an object used again, whose receipt is
  then the earlier one's. A checkout hash it shows is the one the reservation was
  evaluated with. It shows none where the mandate has none, and then the
  reservation may have one: only the one the caller passed among
  `extra_dimensions`, which `mapping.py:139-143` adds (`CheckoutAgrees`). For
  guards no other task uses.
* `ReleasedMeansReleased`: reported released, is released, for ever.
* `AmountsInRange`: no amount out of the int64 range is sent or shown.
* `FinalIsAsked`: whoever finalized a hold was handed it and did what its body
  had asked by its end, even if it crashed, was interrupted or never learned:
  an aborted or raising body's hold is never committed, a commit carries the
  amount and fields asked for, and a release on `abort` follows a call of it.
* `OneHoldPerPayment`: guards of one payment that are let in have one hold and
  had sent the same body; a checkout that differs in any argument is not let in.
* `RefusedIsUntouched`: a dry run and a refused entry (`AP2MandateError`,
  `AP2GuardDenied`, `AP2DryRunResult`) have moved no money and finalized no hold,
  nor is a request for that on the wire, whatever the server answered.
* `ReceiptsConcur`: two receipts for one payment differ at most in the checkout
  hash, which each shows as its own mandate has it. For guards no other task uses.
* `ReportsAgree`: no guard is told that a payment is settled (it committed and
  returned) while another is told that its budget is back (`released=True`).
* `HoldsEnd`: where nothing fails, a hold does not stay for its lease to end: it is
  committed or released, however its bodies end, also after a rejected commit
  (`guard.py:331`), and also where two guards share it. It is the counterpart of
  `ReleaseNeverRacesCommit`: not to release where the commit may have been applied,
  and to release where it was not.
* `ImplementsLock`: each step of the system is a step of `PaymentLock` or none.
* `NoWeakerLock`: a caller that gives an open mandate hash, whatever it is, is
  refused or locked on it, never locked on its transaction id instead.
* `RetriesShareLock`: white space around upstream strings changes no key.
* `HashKept`: a bad checkout hash is refused and not replaced by the alternative.
* `AmountIsExact`: an accepted price is the decimal's exact value, in range, and a
  price that is not zero is accepted if and only if it is in dollars, not negative,
  written with at most `MaxDecimalPlaces` decimal places and in range. *Written*:
  `models.py:84` counts trailing zeros, so 1.000000000 is refused though its value
  is exactly 10^8 micro-cents. Zero is left out because two spellings of it are
  refused: a negative zero, which passes `value < 0` (`models.py:74`) and is refused
  at the line whose comment says that cannot be (`models.py:108`), and a zero with
  a large exponent, which AUDIT.md:202 refuses on purpose.

**Fairness.** Only `holds_end` is about liveness, and its promise is conditional: in
`SmoothSpec` no process dies or is interrupted, no call times out or raises, no
lease runs out, and the server answers every request with an answer that can be
read; it may still deny a reserve, refuse a commit for any reason, and replay, but
not turn down a release that it could grant. Under
these conditions `WF(Attend)` says that the server gets to the requests it was sent,
`WF(Process(g))` that Python resumes a thread or task whose result is there, and
`WF(Leave(g))` that a body ends, in whichever way. Nothing makes a caller enter. With
any of the failures let in, the property is false by design: the package leaves a
hold whose fate it does not know to the lease (`guard.py:271-318`).

Symmetry in the two guards is used for the safety runs, not for `holds_end` and
`lock`; `fields` has one guard.

### Where the code and its documents disagree

Six runs each check one statement of the documents and find it violated.

* `double_charge` (`OneChargePerPayment`, README.md:14-17): an identical retry
  or concurrent checkout is answered with the first one's reservation and its
  body runs too. One reservation, two charges.
* `cancelled_release` (`RejectionIsSignalled`, README.md:124, 101): a
  cancellation during the release after a rejected commit escapes as
  `CancelledError` (`guard.py:796`), in place of `AP2GuardCommitFailed`.
* `shared_release` (`ReleaseIsSafe`, guard.py:321, README.md:124): the release
  after a rejected commit takes the hold from under another guard that shares it
  and whose body has charged.
* `late_override` (`OverrideIsCommitted`, guard.py:121): `set_actual_micros`
  called by another task while the commit is awaited changes the receipt and not
  the commit.
* `reuse` (`CompletionCommits`, README.md:119, 125, guard.py:135): an object aborted
  in the body of its first with statement and used again still has
  `_aborted_reason` (`guard.py:100`), so the second body's completion releases
  (`guard.py:228`) without an exception. `_actual_micros` and `_commit_metadata`
  are kept in the same way; `SilenceMeansSettled` says nothing of the amount and
  fields of reused objects for that reason.
* `missing_id` (`TransactionIsRequired`, models.py:142-143): a `transaction_id`
  that is `None` becomes the string `"None"` (`models.py:150`), on which unrelated
  payments then contend.

## 4. Proofs

Assumed of the constants, each checked by TLC on the instances:
`AbsenceAssumption` and `NoneAssumption` (`None` and `Absent` are none of the
values), `StringAssumption` (only `""` has length 0, stripped strings have a
length), `ScaleAssumption` (powers of ten multiply; the digit cap is the ceiling's
number of digits), `DigestAssumption` (no collision of the truncated digest),
`ConfigsAssumption` (a guard is given a valid mandate whose lock has a digest),
`OverridesAssumption` (an `int` is an integer), `PresentationsAssumption`
(upstream names are strings or missing). The sets of guards, callers, configs,
overrides, fields and exception names are arbitrary, infinite ones included.

| theorem | says |
|---|---|
| `TypeCorrect`, `AssertionsHold` | `Spec => [](TypeOK /\ AssertsHold)` |
| `KeyIdentifiesPayment`, `ReserveKey` | equal keys exactly for the same payment |
| `CanonicalDimensionsWin` | extra dimensions never replace the package's own |
| `ConsumedOnce` | `Spec => []ConsumeOnce` |
| `ConflictsAreReal` | `Spec => []ConflictIsSamePayment` |
| `ChargesAreCovered` | `Spec => []ChargeIsCovered` |
| `ReleasesAreSafe` | `Spec => []ReleaseNeverRacesCommit` |
| `AmountsStayInRange` | `Spec => []AmountsInRange` |
| `SilencesAreSettled` | `Spec => []SilenceMeansSettled` |
| `ReceiptsAreTruthful` | `Spec => []ReceiptIsTruthful` |
| `ReleasesAreReal` | `Spec => []ReleasedMeansReleased` |
| `LockIsImplemented` | `Spec => ImplementsLock` |
| `FinalsAreAsked` | `Spec => []FinalIsAsked` |
| `HoldsAreOne` | `Spec => []OneHoldPerPayment` |
| `RefusalsAreUntouched` | `Spec => []RefusedIsUntouched` |
| `ReceiptsAgree` | `Spec => []ReceiptsConcur` |
| `ReportsAreOne` | `Spec => []ReportsAgree` |
| `LockIsHonest` | in `PaymentLock`, what an attempt was told stays so, and what is spent is spent under a taken lock |
| `LockEndsOnce` | in `PaymentLock`, a lock is never freed, reopened or ended otherwise; whoever was told the end spends nothing more |
| `AcceptedIsExact`, `AcceptedExactly` | `amount_micros` is exact, and which positive dollar amounts it accepts |
| `OpenMandateLock`, `PaddingSharesLock`, `CheckoutHashKept`, `PricesAreExact` | the properties of the `adapter` run |

The argument about the system is one inductive invariant in five parts,
`SystemInv`, each part proved from the ones before.

*Types and asserts* are proved together: a commit names a reservation only
because the guard past `__enter__` has one, so neither is inductive alone.

*Consume once.* `ConsumeOnce` is about payments, the server is about keys.
`BucketInv` is the inductive part: a reserve request on the wire carries the
tenant and the body of its guard's config and leaves only after that guard
entered (`OwnRequests`); a reservation carries those of the guard it is named
after, whose reserve request is gone (`OwnReservations`); no two reservations
share tenant and key (`OnePerBucket`). `KeyIdentifiesPayment` turns keys into
payments.

*Conflicts.* A guard told of a mismatch was told because of a reservation in its
bucket, and reservations never disappear or change body (`ReservationsLast`).

*Cover.* `CoverInv` follows a reservation from the server's offer, to the
guard's `_reservation_id`, to the charge; each holder's own body is the body of
the reservation it holds, by the replay rule. `CanonicalDimensionsWin` then says
what that body was evaluated for.

*Releases.* `CommitInv`: `_handle_release` is entered last; a guard has sent at
most one commit, after its body, on the path that does not release; a commit on
the wire is not applied; and a 4xx answer is the answer to a commit that was
handled without effect. Only the last leads from a commit to a release, which is
the case analysis of `_handle_commit`.

*Amounts.* `AmountInv`: past `__enter__` a guard has a price (`Priced`), which
`AcceptedIsExact` puts in range, as `validate_micros` does an override.

*Settlement.* `SettleInv` says of each guard that its attributes are its own
(`Orderly`), that what it was answered, what it reports and its receipt are so at
the server (`Informed`), and of each commit or release on the wire that it is for
the reservation its guard holds and carries what the guard still has
(`Faithful`). The last is what `shared` breaks, and `late_override` shows how.

*The lock.* A payment is the class of the configs about it
(`PaymentsAreClasses`); by `ConsumeOnce` the state of a lock is the state of one
reservation (`LockStates`), so a move of a reservation is a move of that lock and
no other (`LockMoves`). A charge is under a lock that was taken (`CoverInv`); what a
guard is told is so (`SettleInv`). An object used again keeps `_committed`, so one
fact is added: an object that has committed has the lock of its payment settled
(`CommitsLast`). That what a guard is told is the state of the lock (`ToldIsSo`) is
a lemma of its own, because two guards of one payment cannot then be told
different things (`ReportsAreOne`).

*What a hold is for.* `HoldInv` is a second invariant, inductive beside
`SystemInv`, again of one guard at a time. `AskedFor`: a commit or release on the
wire, and a hold a guard finalized, are as its body had asked; this is what makes
`FinalIsAsked` hold of guards that never see the answer. `Outside`: a guard that is
not yet, or never was, in its body has sent nothing but its reserve request.
`Shown`: a receipt is of a hold that covers its guard, and shows its mandate's
checkout hash. With `Informed` and one reservation per payment this makes two
receipts equal; with what a covering hold was evaluated for (`CheckoutEvaluated`)
it makes a receipt truthful (`ReceiptsAreTruthful`). `NoDryHold`: a dry run leaves
no reservation. `HoldsAreOne` needs no more than `BucketInv` and `CoverInv`: each
holder's body is its hold's body.

*What the lock is worth.* `LockIsImplemented` reduces the system to `PaymentLock`;
`LockIsHonest` and `LockEndsOnce` say, for any attempts and payments, what that
specification gives whoever relies on it.

*Prices.* With at most `MaxIntegerDigits` digits before scaling, a number over
the cap is at least the next power of ten and so over the ceiling: this is why
the coarse digit cap never refuses what the exact ceiling would let through
(`CapIsCoarse`). Conversely a scale beyond the ceiling's power of ten takes any
digit but zero over the ceiling; the two together are `AcceptedExactly`.

Only model-checked: `HoldsEnd` (liveness under fairness, which the prover does not
do). The violated properties are shown by their traces.

## 5. Not modelled

* A guard object in two with statements at the same time, from two threads.
* Arguments only copied into a body, logging, messages, the receipt's constants
  and time stamp, `agent`.
* How pydantic parses a string into a number: a price is what `Decimal` makes of it.
* Factories, `__init__.py`, examples: no behaviour of their own.
* One transaction presented with and without its open mandate hash: two payments
  by the mapping's definition, and by `SamePayment`.
* What a server that records dry runs in the bucket would answer the real
  payment: no document says that it does.

## 6. Plan

Done: all modules, runs and theorems above. Left:

1. A guard object entered by two threads at once: the attributes would have to be
   shared between two `g`, in place of copied.
2. Three guards and two payments in one run, by simulation.
