------------------------------ MODULE Mapping ------------------------------
(***************************************************************************)
(* The pure functions of mapping.py that turn an AP2 mandate and the       *)
(* arguments of a guard into the bodies sent to the Cycles server.         *)
(*                                                                         *)
(* A mandate is what Mandates.AP2Mandate makes.  A config is the record    *)
(* of the keyword arguments of one guard:                                  *)
(*   mandate, run_id, tenant, dry_run, emit_receipt, extra_dimensions,     *)
(*   arguments - those only copied into a body (ttl_ms, overage_policy,    *)
(*               action_kind, metadata, workflow, agent, ...)              *)
(* and of how the caller uses it:                                          *)
(*   cancellable - it is the asynchronous variant, AsyncGuardedPayment     *)
(*   early - its methods may be called outside of the with statement, too: *)
(*           before the first, or between two                              *)
(*   shared - another thread or task than the body's holds the guard too   *)
(*   reused - the guard object may be used in a further with statement.    *)
(***************************************************************************)
EXTENDS Mandates

CONSTANTS
  Digest,      \* Digest[s]: SHA-256 of s, truncated to 128 bits
  SafeSuffix   \* SafeSuffix[e]: e with unsafe characters replaced, cut to 64

\* The truncated digest is taken to be collision free on the strings in use;
\* replacing characters and cutting to 64 merges names, so nothing is assumed
\* of SafeSuffix beyond its being total on the names in use.
ASSUME DigestAssumption ==
  \A s, t \in DOMAIN Digest : Digest[s] = Digest[t] => s = t

_hash_input(value) == Digest[value]

\* Mutant: the lock is always on the transaction id (the package's first rule).
consume_once_input_tx_only(mandate) == [scope |-> "tx", raw |-> mandate.transaction_id]

\* The lock scope of a mandate and the raw value the lock is taken on.
consume_once_input(mandate) ==
  IF Truthy(mandate.open_mandate_hash)
    THEN [scope |-> "open_mandate", raw |-> mandate.open_mandate_hash]
    ELSE [scope |-> "tx", raw |-> mandate.transaction_id]

\* Mutant: the scope is left out of the key.
idempotency_key_unscoped(mandate, phase, suffix) ==
  [scope  |-> "tx",
   digest |-> _hash_input(consume_once_input(mandate).raw),
   phase  |-> phase,
   suffix |-> IF Truthy(suffix) THEN SafeSuffix[suffix] ELSE None]

\* ap2:{scope}:{digest}:{phase}[:{suffix}]; the suffix holds no ":".
idempotency_key(mandate, phase, suffix) ==
  [scope  |-> consume_once_input(mandate).scope,
   digest |-> _hash_input(consume_once_input(mandate).raw),
   phase  |-> phase,
   suffix |-> IF Truthy(suffix) THEN SafeSuffix[suffix] ELSE None]

\* The dimensions this package sets; the optional ones only when present.
canonical_dimensions(config) ==
  LET m == config.mandate
      value == [run_id             |-> config.run_id,
                ap2_transaction_id |-> m.transaction_id,
                payee_website      |-> m.payee_website,
                checkout_hash      |-> m.checkout_hash,
                open_mandate_hash  |-> m.open_mandate_hash]
  IN  [d \in {"run_id", "ap2_transaction_id", "payee_website"} \cup
             {o \in {"checkout_hash", "open_mandate_hash"} : Truthy(value[o])}
         |-> value[d]]

\* Mutant: the caller's dimensions win.
build_subject_caller_wins(config) ==
  LET canonical == canonical_dimensions(config)
      extra == config.extra_dimensions
  IN  [tenant |-> config.tenant,
       dimensions |-> [d \in DOMAIN canonical \cup DOMAIN extra |->
                         IF d \in DOMAIN extra THEN extra[d] ELSE canonical[d]]]

\* Caller-supplied dimensions are added where the canonical ones are silent.
build_subject(config) ==
  LET canonical == canonical_dimensions(config)
      extra == config.extra_dimensions
  IN  [tenant |-> config.tenant,
       dimensions |-> [d \in DOMAIN canonical \cup DOMAIN extra |->
                         IF d \in DOMAIN canonical THEN canonical[d]
                                                   ELSE extra[d]]]

\* policy_keys of the receipt; the protocol and currency in it are constant.
build_receipt_policy_keys(mandate) == [host |-> mandate.payee_website]

build_estimate(mandate) == amount_micros(mandate)

build_reservation_body(config) ==
  [idempotency_key |-> idempotency_key(config.mandate, "reserve", None),
   subject         |-> build_subject(config),
   estimate        |-> build_estimate(config.mandate),
   arguments       |-> config.arguments,
   dry_run         |-> config.dry_run]

build_commit_body(mandate, actual_micros, metadata) ==
  [idempotency_key |-> idempotency_key(mandate, "commit", None),
   actual          |-> IF actual_micros = None THEN amount_micros(mandate)
                                               ELSE actual_micros,
   metadata        |-> metadata]

build_release_body(mandate, reason, exception_type) ==
  [idempotency_key |-> idempotency_key(mandate, "release", exception_type),
   reason          |-> reason]

(***************************************************************************)
(* The reference notion the keys are meant to capture, stated on mandates  *)
(* and not through the key: two mandates are the same payment when they    *)
(* derive from one open mandate, or, with no open mandate on either side,  *)
(* when they carry one transaction id.                                     *)
(***************************************************************************)
SamePayment(m, n) ==
  IF m.open_mandate_hash = None /\ n.open_mandate_hash = None
    THEN m.transaction_id = n.transaction_id
    ELSE m.open_mandate_hash = n.open_mandate_hash
=============================================================================
