-------------------------- MODULE SettlementProofs --------------------------
(***************************************************************************)
(* Theorems: what a guard reports, as an amount sent, a silent end, an     *)
(* exception or a receipt, is so; for every set of guards, configs,        *)
(* amounts, attached fields and exception names.                           *)
(***************************************************************************)
EXTENDS CommitProofs, AmountProofs

-----------------------------------------------------------------------------
(***************************************************************************)
(* Amounts.                                                                *)
(***************************************************************************)
\* A guard in its with statement has a mandate with a price.
Priced ==
  \A g \in Guards : pc[g] \in {"reserving", "body", "committing", "releasing"} =>
    amount_micros(config[g].mandate) # None

AmountInv == Priced /\ AmountsInRange

\* The prices of mandates and the overrides that pass validate_micros.
LEMMA PricesInRange ==
  /\ \A c \in Configs : amount_micros(c.mandate) # None => InRange(amount_micros(c.mandate))
  /\ \A a \in Actuals : InRange(a)
  <1>1. ASSUME NEW c \in Configs, amount_micros(c.mandate) # None
        PROVE  InRange(amount_micros(c.mandate))
    <2>1. IsDecimal(c.mandate.amount_value)
      BY ConfigsAssumption
    <2>2. QED  BY <1>1, <2>1, AcceptedIsExact DEF InRange
  <1>2. ASSUME NEW a \in Actuals
        PROVE  InRange(a)
    <2>1. a \in 0..MaxMicros
      BY DEF Actuals
    <2>2. QED  BY <2>1, AbsenceAssumption, ScaleAssumption DEF InRange
  <1>3. QED  BY <1>1, <1>2

\* What a guard with a price commits and shows.
LEMMA BodiesInRange ==
  ASSUME NEW g \in Guards, TypeOK, amount_micros(config[g].mandate) # None
  PROVE  /\ InRange(ReservationBody(g).estimate)
         /\ InRange(CommitBody(g).actual)
         /\ InRange(Receipt(g).amount_micros)
         /\ Receipt(g).amount_micros = CommitBody(g).actual
  <1>1. config[g] \in Configs /\ self[g].actual_micros \in Actuals \cup {None}
    BY DEF TypeOK, Objects
  <1>2. InRange(amount_micros(config[g].mandate))
    BY <1>1, PricesInRange
  <1>3. self[g].actual_micros # None => InRange(self[g].actual_micros)
    BY <1>1, PricesInRange
  <1>4. ReservationBody(g).estimate = amount_micros(config[g].mandate)
    BY DEF ReservationBody, build_reservation_body, build_estimate
  <1>5. CommitBody(g).actual =
          IF self[g].actual_micros = None THEN amount_micros(config[g].mandate)
                                          ELSE self[g].actual_micros
    BY DEF CommitBody, build_commit_body
  <1>6. Receipt(g).amount_micros = CommitBody(g).actual
    BY <1>5 DEF Receipt, build_runtime_authority_receipt
  <1>7. QED  BY <1>2, <1>3, <1>4, <1>5, <1>6

\* Only a successful commit makes a receipt; a further with statement keeps it.
LEMMA ReceiptFrame ==
  ASSUME NEW g \in Guards, NEW h \in Guards, TypeOK, GuardStep(g), self'[h].receipt # None
  PROVE  \/ self'[h].receipt = self[h].receipt
         \/ h = g /\ CommitSucceeds(g) /\ self'[h].receipt = Receipt(g)
         \/ /\ h = g /\ pc[g] = "idle"
            /\ \E k \in Guards : config[k] = config[g] /\ self'[h] = self[k]
  <1> USE DEF TypeOK
  <1>1. CASE \/ EnterInvalid(g) \/ EnterEscapes(g)
             \/ CommitUncertain(g) \/ CommitRaises(g)
             \/ CommitEscapes(g) \/ ReleaseAnswered(g) \/ ReleaseRaises(g)
             \/ ReleaseEscapes(g)
    BY <1>1 DEF EnterInvalid, EnterEscapes, CommitUncertain, CommitRaises, CommitEscapes,
         ReleaseAnswered, ReleaseRaises, ReleaseEscapes
  <1>2. CASE EnterRaises(g) \/ EnterReturns(g)
    BY <1>2 DEF EnterRaises, EnterReturns, Objects
  <1>3. CASE CommitSucceeds(g)
    BY <1>3 DEF CommitSucceeds, Objects
  <1>4. CASE Enter(g) \/ Crash(g)
    BY <1>4 DEF Enter, Crash
  <1>5. CASE Charge(g) \/ TransportFails(g)
    BY <1>5 DEF Charge, TransportFails, guardVars
  <1>6. CASE abort(g)
    BY <1>6 DEF abort, Objects
  <1>7. CASE \E override \in Overrides : set_actual_micros(g, override)
    BY <1>7 DEF set_actual_micros, Objects
  <1>8. CASE \E fields \in Fields : attach_receipt_fields(g, fields)
    BY <1>8 DEF attach_receipt_fields, Objects
  <1>9. CASE \/ \E exc_name \in ExcNames : BodyRaises(g, exc_name)
             \/ BodyAborts(g) \/ BodyReturns(g) \/ CommitRejects(g)
    BY <1>9 DEF BodyRaises, BodyAborts, BodyReturns, CommitRejects, StartRelease
  <1>10. CASE \E k \in Guards : EnterAgain(g, k)
    BY <1>10 DEF EnterAgain
  <1>11. QED
    BY <1>1, <1>2, <1>3, <1>4, <1>5, <1>6, <1>7, <1>8, <1>9, <1>10 DEF GuardStep, Proceed, Fail, Leave, Process

LEMMA AmountInit ==
  ASSUME Init
  PROVE  AmountInv
  BY DEF Init, ServerInit, GuardInit, NewObject, AmountInv, Priced, AmountsInRange

\* A guard enters with a price, by Enter or EnterAgain.
LEMMA EnterFrame ==
  ASSUME NEW g \in Guards, TypeOK, GuardStep(g), pc[g] = "idle",
         pc'[g] \notin {"idle", "done"}
  PROVE  amount_micros(config[g].mandate) # None /\ pc'[g] = "reserving"
  <1> USE DEF TypeOK
  <1>1. CASE Enter(g) \/ \E k \in Guards : EnterAgain(g, k)
    BY <1>1 DEF Enter, EnterAgain
  <1>2. CASE EnterInvalid(g)
    BY <1>2 DEF EnterInvalid, End
  <1>3. CASE TransportFails(g)
    BY <1>3 DEF TransportFails, guardVars
  <1>4. QED
    BY <1>1, <1>2, <1>3 DEF GuardStep, Proceed, Fail, Leave, Process, EnterEscapes, Charge, abort,
       set_actual_micros, attach_receipt_fields, BodyRaises, BodyAborts, BodyReturns,
       CommitRaises, CommitEscapes, ReleaseRaises, ReleaseEscapes, EnterRaises, EnterReturns,
       CommitSucceeds, CommitUncertain, CommitRejects, ReleaseAnswered, Crash, InUse

\* A reservation is requested on entering only.
LEMMA ReserveFrame ==
  ASSUME NEW g \in Guards, GuardStep(g), NEW q \in requests' \ requests, q.op = "reserve"
  PROVE  amount_micros(config[g].mandate) # None
  <1>1. CASE Enter(g) \/ \E h \in Guards : EnterAgain(g, h)
    BY <1>1 DEF Enter, EnterAgain
  <1>2. CASE BodyReturns(g)
    BY <1>2 DEF BodyReturns, Send
  <1>3. CASE \/ \E exc_name \in ExcNames : BodyRaises(g, exc_name)
             \/ BodyAborts(g) \/ CommitRejects(g)
    BY <1>3 DEF BodyRaises, BodyAborts, CommitRejects, StartRelease, Send
  <1>4. CASE \/ EnterInvalid(g) \/ EnterRaises(g) \/ EnterEscapes(g)
             \/ CommitSucceeds(g) \/ CommitUncertain(g) \/ CommitRaises(g)
             \/ CommitEscapes(g) \/ ReleaseAnswered(g) \/ ReleaseRaises(g)
             \/ ReleaseEscapes(g)
    BY <1>4 DEF EnterInvalid, EnterRaises, EnterEscapes, CommitSucceeds, CommitUncertain,
         CommitRaises, CommitEscapes, ReleaseAnswered, ReleaseRaises, ReleaseEscapes, End
  <1>5. CASE \/ EnterReturns(g) \/ Charge(g) \/ abort(g) \/ TransportFails(g) \/ Crash(g)
             \/ \E override \in Overrides : set_actual_micros(g, override)
             \/ \E fields \in Fields : attach_receipt_fields(g, fields)
    BY <1>5 DEF EnterReturns, Charge, abort, TransportFails, Crash, set_actual_micros,
         attach_receipt_fields, guardVars, serverVars
  <1>6. QED  BY <1>1, <1>2, <1>3, <1>4, <1>5 DEF GuardStep, Proceed, Fail, Leave, Process

LEMMA AmountGuardStep ==
  ASSUME NEW g \in Guards, TypeOK, AmountInv, GuardStep(g)
  PROVE  AmountInv'
  <1> USE DEF AmountInv
  <1>1. config' = config
    BY GuardFrame
  <1>2. Priced'
    <2> SUFFICES ASSUME NEW h \in Guards,
                        pc'[h] \in {"reserving", "body", "committing", "releasing"}
                 PROVE  amount_micros(config[h].mandate) # None
      BY <1>1 DEF Priced
    <2>1. CASE h # g
      BY <2>1, PcFrame DEF Priced
    <2>2. CASE h = g /\ pc[g] = "idle"
      BY <2>2, EnterFrame
    <2>3. CASE h = g /\ pc[g] # "idle"
      BY <2>3, PcFrame DEF Priced, BodyReturns, CommitRejects
    <2>4. QED  BY <2>1, <2>2, <2>3
  <1>3. ASSUME NEW q \in requests'
        PROVE  /\ q.op = "reserve" => InRange(q.body.estimate)
               /\ q.op = "commit" => InRange(q.body.actual)
    <2>1. CASE q \in requests
      BY <2>1 DEF AmountsInRange
    <2>2. CASE q \notin requests /\ q.op = "commit"
      <3>1. BodyReturns(g) /\ q.body = CommitBody(g)
        <4>1. BodyReturns(g)
          BY <2>2, GuardFrame
        <4>2. QED  BY <2>2, <4>1 DEF BodyReturns, Send
      <3>2. amount_micros(config[g].mandate) # None
        BY <3>1 DEF BodyReturns, Priced
      <3>3. QED  BY <2>2, <3>1, <3>2, BodiesInRange
    <2>3. CASE q \notin requests /\ q.op = "reserve"
      <3>1. q.body = ReservationBody(g) /\ requests' # requests
        BY <2>3, GuardFrame
      <3>2. amount_micros(config[g].mandate) # None
        BY <2>3, <3>1, ReserveFrame
      <3>3. QED  BY <2>3, <3>1, <3>2, BodiesInRange
    <2>4. QED  BY <2>1, <2>2, <2>3
  <1>4. ASSUME NEW h \in Guards, self'[h].receipt # None
        PROVE  InRange(self'[h].receipt.amount_micros)
    <2>1. CASE CommitSucceeds(g) /\ self'[h].receipt = Receipt(g)
      <3>1. amount_micros(config[g].mandate) # None
        BY <2>1 DEF CommitSucceeds, Priced
      <3>2. QED  BY <2>1, <3>1, BodiesInRange
    <2>2. CASE \E k \in Guards : self'[h] = self[k]
      BY <1>4, <2>2 DEF AmountsInRange
    <2>3. CASE self'[h].receipt = self[h].receipt
      BY <1>4, <2>3 DEF AmountsInRange
    <2>4. QED  BY <1>4, <2>1, <2>2, <2>3, ReceiptFrame
  <1>5. QED  BY <1>2, <1>3, <1>4 DEF AmountsInRange

LEMMA AmountStep ==
  ASSUME BucketInv, AmountInv, [Next]_vars
  PROVE  AmountInv'
  <1> USE DEF AmountInv
  <1>1. CASE UNCHANGED vars
    BY <1>1 DEF vars, serverVars, guardVars, Priced, AmountsInRange
  <1>2. CASE \E g \in Guards : GuardStep(g)
    BY <1>2, AmountGuardStep DEF BucketInv
  <1>3. CASE Serve
    <2>1. requests' \subseteq requests
      BY <1>3, HandleFrame DEF Serve
    <2>2. QED  BY <1>3, <2>1 DEF Serve, guardVars, Priced, AmountsInRange
  <1>4. CASE Lapse
    BY <1>4 DEF Lapse, Expire, guardVars, Priced, AmountsInRange
  <1>5. QED  BY <1>1, <1>2, <1>3, <1>4 DEF Next

\* Whatever the mandates say and the bodies pass, no amount out of the range of
\* the protocol's int64 reaches the server or a receipt (models.py:126,
\* _validation.py:16-30, guard.py:386-408).
THEOREM AmountsStayInRange == Spec => []AmountsInRange
  <1>1. Init => BucketInv /\ AmountInv
    BY BucketInit, AmountInit
  <1>2. BucketInv /\ AmountInv /\ [Next]_vars => (BucketInv /\ AmountInv)'
    BY BucketStep, AmountStep
  <1>3. AmountInv => AmountsInRange
    BY DEF AmountInv
  <1>4. QED  BY <1>1, <1>2, <1>3, PTL DEF Spec

\* The assertions of _handle_commit, _handle_release and _build_receipt hold.
THEOREM AssertionsHold == Spec => []AssertsHold
  BY TypeCorrect, PTL

-----------------------------------------------------------------------------
(***************************************************************************)
(* Settlement.                                                             *)
(***************************************************************************)
\* Nobody has changed what g commits since its body ended: no other task, and no
\* caller who is to use the object again.
Kept(g) == ~config[g].shared /\ (config[g].reused => pc[g] = "committing")

\* What the server has of the commit, and of the release, of g.
Settled(g) ==
  /\ Holds(g) \in Guards /\ resv[Holds(g)].state = "COMMITTED"
  /\ Kept(g) => resv[Holds(g)].final = CommitBody(g)
Released(g) == Holds(g) \in Guards /\ resv[Holds(g)].state = "RELEASED"

\* A call is waited for in its place; a with statement that has ended has an
\* outcome; an object that is nobody else's holds what was asked of it.
Orderly(g) ==
  /\ answer[g]["commit"] # Closed => pc[g] = "committing"
  /\ answer[g]["release"] # Closed => pc[g] = "releasing"
  /\ outcome[g] # None => pc[g] \in {"done", "reentered"}
  /\ via[g] = "aborted" => self[g].aborted
  /\ pc[g] \in {"body", "committing", "releasing"} => self[g].decision = "ALLOW"
  /\ Private(g) => /\ self[g].actual_micros = asked[g].actual
                   /\ self[g].commit_metadata = asked[g].fields
                   /\ self[g].aborted = asked[g].aborted

\* Answers, outcomes and receipts say what is so at the server.
Informed(g) ==
  /\ answer[g]["commit"].status = "2xx" => Settled(g)
  /\ answer[g]["release"].status = "2xx" => Released(g)
  /\ outcome[g] = "returned" /\ via[g] # "aborted" => Settled(g)
  /\ outcome[g] = "CommitFailedReleased" => Released(g)
  /\ self[g].receipt # None /\ ~config[g].shared =>
       self[g].receipt.reservation_id \in Guards /\ ReceiptAgrees(self[g].receipt)

\* A commit or a release on the wire is of what its guard holds, and a commit
\* carries what the guard still has.
Faithful(q) ==
  q.op \in {"commit", "release"} =>
    /\ q.rid = Holds(q.from) /\ pc[q.from] \notin {"idle", "reserving"}
    /\ q.op = "commit" /\ Kept(q.from) => q.body = CommitBody(q.from)

SettleInv ==
  /\ \A g \in Guards : Orderly(g) /\ Informed(g)
  /\ \A q \in requests : Faithful(q)

\* A step of g writes nothing of another guard, but that it may reuse its object.
LEMMA OthersFrame ==
  ASSUME NEW g \in Guards, NEW h \in Guards \ {g}, TypeOK, GuardStep(g)
  PROVE  /\ config' = config /\ resv' = resv
         /\ self'[h] = self[h] /\ outcome'[h] = outcome[h] /\ asked'[h] = asked[h]
         /\ answer'[h] = answer[h] /\ via'[h] = via[h]
         /\ pc'[h] = pc[h] \/ (pc[h] = "done" /\ pc'[h] = "reentered")
  <1> USE DEF TypeOK
  <1>1. CASE \/ EnterInvalid(g) \/ EnterRaises(g) \/ EnterEscapes(g)
             \/ CommitSucceeds(g) \/ CommitUncertain(g) \/ CommitRaises(g)
             \/ CommitEscapes(g) \/ ReleaseAnswered(g) \/ ReleaseRaises(g)
             \/ ReleaseEscapes(g)
    BY <1>1 DEF EnterInvalid, EnterRaises, EnterEscapes, CommitSucceeds, CommitUncertain,
         CommitRaises, CommitEscapes, ReleaseAnswered, ReleaseRaises, ReleaseEscapes, End, Hangup
  <1>2. CASE Enter(g) \/ BodyReturns(g) \/ \E k \in Guards : EnterAgain(g, k)
    BY <1>2 DEF Enter, BodyReturns, EnterAgain, Send
  <1>3. CASE \/ \E exc_name \in ExcNames : BodyRaises(g, exc_name)
             \/ BodyAborts(g) \/ CommitRejects(g)
    BY <1>3 DEF BodyRaises, BodyAborts, CommitRejects, StartRelease, Send
  <1>4. CASE EnterReturns(g) \/ Crash(g) \/ TransportFails(g)
    BY <1>4 DEF EnterReturns, Crash, Hangup, TransportFails, guardVars
  <1>5. CASE \/ Charge(g) \/ abort(g)
             \/ \E override \in Overrides : set_actual_micros(g, override)
             \/ \E fields \in Fields : attach_receipt_fields(g, fields)
    BY <1>5 DEF Charge, abort, set_actual_micros, attach_receipt_fields, Ask, serverVars
  <1>6. QED  BY <1>1, <1>2, <1>3, <1>4, <1>5 DEF GuardStep, Proceed, Fail, Leave, Process

\* A commit body depends on the arguments, the amount and the fields only.
LEMMA SameCommit ==
  ASSUME NEW g \in Guards, config' = config,
         self'[g].actual_micros = self[g].actual_micros,
         self'[g].commit_metadata = self[g].commit_metadata
  PROVE  CommitBody(g)' = CommitBody(g)
  BY DEF CommitBody, CommitMetadata

LEMMA AgreesLast ==
  ASSUME NEW g \in Guards, NEW receipt, ReceiptAgrees(receipt), self'[g].receipt = receipt,
         LET r == receipt.reservation_id IN
           /\ resv'[r].state = resv[r].state /\ resv'[r].final = resv[r].final
           /\ resv'[r].tenant = resv[r].tenant /\ resv'[r].body = resv[r].body
  PROVE  ReceiptAgrees(self[g].receipt)'
  <1>1. PICK old : old = resv[receipt.reservation_id]
    OBVIOUS
  <1>2. PICK new : new = resv'[receipt.reservation_id]
    OBVIOUS
  <1>3. /\ new.state = old.state /\ new.final = old.final
        /\ new.tenant = old.tenant /\ new.body = old.body
    BY <1>1, <1>2
  <1>4. /\ old.state = "COMMITTED"
        /\ receipt.decision = "ALLOW"
        /\ receipt.amount_micros = old.final.actual
        /\ receipt.ap2_transaction_id = old.body.subject.dimensions["ap2_transaction_id"]
        /\ receipt.policy_keys.host = old.body.subject.dimensions["payee_website"]
        /\ receipt.tenant = old.tenant
    BY <1>1 DEF ReceiptAgrees
  <1>5. FieldsAgree(receipt, IF old.final.metadata = None THEN NoFields ELSE old.final.metadata)
    BY <1>1 DEF ReceiptAgrees
  <1>6. FieldsAgree(receipt, IF new.final.metadata = None THEN NoFields ELSE new.final.metadata)
    BY <1>3, <1>5
  <1>7. QED  BY <1>2, <1>3, <1>4, <1>6 DEF ReceiptAgrees

\* The receipt of a settled guard tells what was settled.
LEMMA ReceiptTells ==
  ASSUME NEW g \in Guards, TypeOK, CoverInv, Settled(g), Kept(g),
         self[g].decision = "ALLOW", amount_micros(config[g].mandate) # None
  PROVE  Receipt(g).reservation_id \in Guards /\ ReceiptAgrees(Receipt(g))
  <1> DEFINE r == Holds(g)
             d == self[g].commit_metadata
             others == DOMAIN d \ {"psp_ref"}
  <1>1. /\ r \in Guards /\ resv[r].state = "COMMITTED" /\ resv[r].final = CommitBody(g)
        /\ config[g] \in Configs /\ d \in Fields
    BY DEF Settled, TypeOK, Objects
  <1>2. resv[r].tenant = config[g].tenant /\ resv[r].body = ReservationBody(g)
    BY <1>1, NoneAssumption DEF CoverInv, Handed, Covers
  <1>3. /\ resv[r].body.subject.dimensions["ap2_transaction_id"] = config[g].mandate.transaction_id
        /\ resv[r].body.subject.dimensions["payee_website"] = config[g].mandate.payee_website
    BY <1>1, <1>2, CanonicalDimensionsWin DEF ReservationBody
  <1>4. /\ Receipt(g).reservation_id = r /\ Receipt(g).decision = "ALLOW"
        /\ Receipt(g).tenant = config[g].tenant
        /\ Receipt(g).ap2_transaction_id = config[g].mandate.transaction_id
        /\ Receipt(g).policy_keys.host = config[g].mandate.payee_website
        /\ Receipt(g).psp_ref = PspRef(d) /\ Receipt(g).extra = ExtraOf(d)
    BY DEF Receipt, build_runtime_authority_receipt, build_receipt_policy_keys, Holds
  <1>5. Receipt(g).amount_micros = CommitBody(g).actual
    BY BodiesInRange
  <1>6. d = IF resv[r].final.metadata = None THEN NoFields ELSE resv[r].final.metadata
    <2>1. resv[r].final.metadata = CommitMetadata(g)
      BY <1>1 DEF CommitBody, build_commit_body
    <2>2. d # None
      BY <1>1, NoneAssumption
    <2>3. QED  BY <2>1, <2>2 DEF CommitMetadata
  <1>7. FieldsAgree(Receipt(g), d)
    <2>1. CASE others = {}
      <3>1. Receipt(g).extra = None
        BY <1>4, <2>1 DEF ExtraOf
      <3>2. NoFields = [k \in others |-> d[k]]
        BY <2>1 DEF NoFields
      <3>3. QED  BY <1>4, <3>1, <3>2 DEF FieldsAgree, PspRef
    <2>2. CASE others # {}
      <3>1. Receipt(g).extra = [k \in others |-> d[k]]
        BY <1>4, <2>2 DEF ExtraOf
      <3>2. Receipt(g).extra # None
        <4>1. others \in SUBSET FieldNames /\ \A k \in others : d[k] \in FieldValues
          BY <1>1, FieldTypes
        <4>2. [k \in others |-> d[k]] \in [others -> FieldValues]
          BY <4>1
        <4>3. [k \in others |-> d[k]] \in Fields
          BY <4>1, <4>2 DEF Fields
        <4>4. QED  BY <3>1, <4>3, NoneAssumption
      <3>3. QED  BY <1>4, <3>1, <3>2 DEF FieldsAgree, PspRef
    <2>3. QED  BY <2>1, <2>2
  <1>8. QED  BY <1>1, <1>2, <1>3, <1>4, <1>5, <1>6, <1>7 DEF ReceiptAgrees

-----------------------------------------------------------------------------
\* What the server does.
LEMMA FinalsLast ==
  ASSUME NEW q \in requests, BucketInv, Handle(q), NEW r \in Guards,
         resv[r].state \in {"COMMITTED", "RELEASED"}
  PROVE  resv'[r].state = resv[r].state /\ resv'[r].final = resv[r].final
  <1> USE DEF BucketInv, TypeOK
  <1>1. q \in Requests /\ q.from \in Guards
    BY DEF Requests, RequestsOf
  <1>2. CASE Create(q)
    <2>1. ~Exists(q.from)
      BY <1>1, <1>2 DEF Create, Bucket, OwnRequests, OwnReservations, Exists
    <2>2. r # q.from
      BY <2>1 DEF Exists
    <2>3. QED  BY <1>2, <2>2 DEF Create
  <1>3. CASE Finalise(q)
    <2>1. r # q.rid
      BY <1>3 DEF Finalise
    <2>2. QED  BY <1>3, <2>1 DEF Finalise
  <1>4. CASE \/ Refuse(q) \/ Evaluate(q) \/ ReplayReserve(q) \/ MismatchReserve(q)
             \/ ReplayFinal(q) \/ RefuseFinal(q)
    BY <1>4 DEF Refuse, Evaluate, ReplayReserve, MismatchReserve, ReplayFinal, RefuseFinal
  <1>5. QED  BY <1>2, <1>3, <1>4 DEF Handle

\* A 2xx to a commit or release is given when its body is, or has become, the
\* one that finalized the reservation.
LEMMA SuccessTells ==
  ASSUME NEW q \in requests, NEW g \in Guards, NEW op \in {"commit", "release"},
         TypeOK, Handle(q), answer'[g][op].status = "2xx", answer[g][op].status # "2xx"
  PROVE  /\ q.from = g /\ q.op = op /\ q.rid \in Guards
         /\ resv'[q.rid].state = FinalState(op) /\ resv'[q.rid].final = q.body
  <1> USE DEF TypeOK
  <1>1. op \in Ops /\ answer'[g][op] # answer[g][op]
    BY DEF Ops
  <1>2. ASSUME NEW a, Reply(q, a)
        PROVE  q.from = g /\ q.op = op /\ answer'[g][op] = a
    BY <1>1, <1>2, ReplyAnswers
  <1>3. q.from = g /\ q.op = op
    BY <1>2 DEF Handle, Refuse, Evaluate, Create, ReplayReserve, MismatchReserve, Finalise,
         ReplayFinal, RefuseFinal
  <1>4. q.rid \in Guards
    BY <1>3 DEF Requests, RequestsOf
  <1>5. Finalise(q) \/ ReplayFinal(q)
    <2>1. ~Refuse(q)
      BY <1>2 DEF Refuse, Rejected, ServerError, Response
    <2>2. ~RefuseFinal(q)
      <3> SUFFICES ASSUME RefuseFinal(q)
                   PROVE  FALSE
        OBVIOUS
      <3>1. PICK code \in Terminal : Reply(q, Response("4xx", code, None))
        BY DEF RefuseFinal
      <3>2. QED  BY <1>2, <3>1 DEF Response
    <2>3. QED
      BY <1>3, <2>1, <2>2 DEF Handle, Evaluate, Create, ReplayReserve, MismatchReserve
  <1>6. CASE Finalise(q)
    BY <1>3, <1>4, <1>6 DEF Finalise, Reservations
  <1>7. CASE ReplayFinal(q)
    BY <1>3, <1>4, <1>7 DEF ReplayFinal
  <1>8. QED  BY <1>3, <1>4, <1>5, <1>6, <1>7

LEMMA SettleServe ==
  ASSUME NEW q \in requests, BucketInv, SettleInv, Handle(q), UNCHANGED guardVars
  PROVE  SettleInv'
  <1> USE DEF SettleInv
  <1>1. TypeOK /\ requests' \subseteq requests
    BY HandleFrame DEF BucketInv
  <1>2. /\ config' = config /\ self' = self /\ pc' = pc /\ via' = via /\ outcome' = outcome
        /\ asked' = asked
    BY DEF guardVars
  <1>3. \A g \in Guards : CommitBody(g)' = CommitBody(g) /\ Holds(g)' = Holds(g)
    BY <1>2, SameCommit DEF Holds
  <1>4. \A r \in Guards : resv[r].state \in {"COMMITTED", "RELEASED"} =>
          resv'[r].state = resv[r].state /\ resv'[r].final = resv[r].final
    BY FinalsLast
  <1>5. \A g \in Guards : (Settled(g) => Settled(g)') /\ (Released(g) => Released(g)')
    BY <1>2, <1>3, <1>4 DEF Settled, Released, Kept
  <1>6. ASSUME NEW g \in Guards
        PROVE  Orderly(g)'
    <2>1. \A op \in Ops : answer[g][op] = Closed => answer'[g][op] = Closed
      <3>1. ASSUME NEW op \in Ops, answer[g][op] = Closed
            PROVE  answer'[g][op] = Closed
        <4>1. ASSUME NEW a, Reply(q, a)
              PROVE  answer'[g][op] = Closed
          BY <1>1, <3>1, <4>1 DEF Reply, Closed, Awaiting, Response, TypeOK, Requests, RequestsOf
        <4>2. QED
          BY <4>1 DEF Handle, Refuse, Evaluate, Create, ReplayReserve, MismatchReserve, Finalise,
             ReplayFinal, RefuseFinal
      <3>2. QED  BY <3>1
    <2>2. "commit" \in Ops /\ "release" \in Ops
      BY DEF Ops
    <2>3. QED  BY <1>2, <2>1, <2>2 DEF Orderly, Private
  <1>7. ASSUME NEW g \in Guards
        PROVE  Informed(g)'
    <2>1. answer'[g]["commit"].status = "2xx" => Settled(g)'
      <3>1. CASE answer[g]["commit"].status = "2xx"
        BY <1>5, <3>1 DEF Informed
      <3>2. CASE answer[g]["commit"].status # "2xx"
        <4> SUFFICES ASSUME answer'[g]["commit"].status = "2xx"
                     PROVE  Settled(g)'
          OBVIOUS
        <4>1. /\ q.from = g /\ q.op = "commit" /\ q.rid \in Guards
              /\ resv'[q.rid].state = FinalState("commit") /\ resv'[q.rid].final = q.body
          BY <1>1, <3>2, SuccessTells
        <4>2. q.rid = Holds(g) /\ (Kept(g) => q.body = CommitBody(g))
          BY <4>1 DEF Faithful
        <4>3. QED  BY <1>2, <1>3, <4>1, <4>2 DEF Settled, Kept, FinalState
      <3>3. QED  BY <3>1, <3>2
    <2>2. answer'[g]["release"].status = "2xx" => Released(g)'
      <3>1. CASE answer[g]["release"].status = "2xx"
        BY <1>5, <3>1 DEF Informed
      <3>2. CASE answer[g]["release"].status # "2xx"
        <4> SUFFICES ASSUME answer'[g]["release"].status = "2xx"
                     PROVE  Released(g)'
          OBVIOUS
        <4>1. /\ q.from = g /\ q.op = "release" /\ q.rid \in Guards
              /\ resv'[q.rid].state = FinalState("release")
          BY <1>1, <3>2, SuccessTells
        <4>2. q.rid = Holds(g)
          BY <4>1 DEF Faithful
        <4>3. QED  BY <1>3, <4>1, <4>2 DEF Released, FinalState
      <3>3. QED  BY <3>1, <3>2
    <2>3. outcome'[g] = "returned" /\ via'[g] # "aborted" => Settled(g)'
      BY <1>2, <1>5 DEF Informed
    <2>4. outcome'[g] = "CommitFailedReleased" => Released(g)'
      BY <1>2, <1>5 DEF Informed
    <2>5. self'[g].receipt # None /\ ~config'[g].shared =>
            self'[g].receipt.reservation_id \in Guards /\ ReceiptAgrees(self[g].receipt)'
      <3> DEFINE receipt == self[g].receipt
                 r == receipt.reservation_id
      <3> SUFFICES ASSUME receipt # None, ~config[g].shared
                   PROVE  r \in Guards /\ ReceiptAgrees(self[g].receipt)'
        BY <1>2
      <3>1. r \in Guards /\ ReceiptAgrees(receipt)
        BY DEF Informed
      <3>2. resv[r].state = "COMMITTED"
        BY <3>1 DEF ReceiptAgrees
      <3>3. resv'[r].tenant = resv[r].tenant /\ resv'[r].body = resv[r].body
        BY <3>1, <3>2, HandleFrame DEF Exists
      <3>4. QED  BY <1>2, <1>4, <3>1, <3>2, <3>3, AgreesLast
    <2>6. QED  BY <2>1, <2>2, <2>3, <2>4, <2>5 DEF Informed
  <1>8. ASSUME NEW p \in requests'
        PROVE  Faithful(p)'
    <2>1. Faithful(p) /\ p.from \in Guards
      BY <1>1 DEF TypeOK, Requests, RequestsOf
    <2>2. QED  BY <1>2, <1>3, <2>1 DEF Faithful, Kept
  <1>9. QED  BY <1>6, <1>7, <1>8

LEMMA SettleLapse ==
  ASSUME NEW s \in Guards, BucketInv, SettleInv, Expire(s), UNCHANGED guardVars
  PROVE  SettleInv'
  <1> USE DEF SettleInv, BucketInv
  <1>1. /\ requests' = requests /\ answer' = answer /\ config' = config /\ self' = self
        /\ pc' = pc /\ via' = via /\ outcome' = outcome /\ asked' = asked
    BY DEF Expire, guardVars
  <1>2. \A g \in Guards : CommitBody(g)' = CommitBody(g) /\ Holds(g)' = Holds(g)
    BY <1>1, SameCommit DEF Holds
  <1>3. \A r \in Guards : resv[r].state \in {"COMMITTED", "RELEASED"} => resv'[r] = resv[r]
    BY DEF Expire, TypeOK
  <1>4. \A g \in Guards : (Settled(g) => Settled(g)') /\ (Released(g) => Released(g)')
    BY <1>1, <1>2, <1>3 DEF Settled, Released, Kept
  <1>5. ASSUME NEW g \in Guards
        PROVE  Orderly(g)' /\ Informed(g)'
    <2>1. Orderly(g)'
      BY <1>1 DEF Orderly, Private
    <2>2. self[g].receipt # None /\ ~config[g].shared =>
            self[g].receipt.reservation_id \in Guards /\ ReceiptAgrees(self[g].receipt)'
      <3> SUFFICES ASSUME self[g].receipt # None, ~config[g].shared
                   PROVE  /\ self[g].receipt.reservation_id \in Guards
                          /\ ReceiptAgrees(self[g].receipt)'
        OBVIOUS
      <3>1. self[g].receipt.reservation_id \in Guards /\ ReceiptAgrees(self[g].receipt)
        BY DEF Informed
      <3>2. resv[self[g].receipt.reservation_id].state = "COMMITTED"
        BY <3>1 DEF ReceiptAgrees
      <3>3. QED  BY <1>1, <1>3, <3>1, <3>2, AgreesLast
    <2>3. QED  BY <1>1, <1>4, <2>1, <2>2 DEF Informed
  <1>6. ASSUME NEW p \in requests'
        PROVE  Faithful(p)'
    <2>1. Faithful(p) /\ p.from \in Guards
      BY <1>1 DEF TypeOK, Requests, RequestsOf
    <2>2. QED  BY <1>1, <1>2, <2>1 DEF Faithful, Kept
  <1>7. QED  BY <1>5, <1>6

-----------------------------------------------------------------------------
\* What a guard does.  Past __enter__ it keeps its reservation, and past its body,
\* unless somebody else changes it, what it commits.
LEMMA KeptFrame ==
  ASSUME NEW g \in Guards, TypeOK, GuardStep(g), pc[g] \notin {"idle", "reserving"}
  PROVE  /\ pc'[g] \notin {"idle", "reserving"}
         /\ Holds(g)' = Holds(g)
         /\ pc[g] # "body" /\ Kept(g)' => Kept(g) /\ CommitBody(g)' = CommitBody(g)
  <1> USE DEF TypeOK, Holds
  <1>1. config' = config
    BY GuardFrame
  <1>2. pc'[g] \notin {"idle", "reserving"}
    BY PcFrame DEF BodyReturns, CommitRejects
  <1>8. pc[g] # "body" /\ Kept(g)' => Kept(g)
    BY <1>1, PcFrame DEF Kept, BodyReturns, CommitRejects
  <1>3. CASE \/ CommitUncertain(g) \/ CommitRaises(g) \/ CommitEscapes(g)
             \/ ReleaseAnswered(g) \/ ReleaseRaises(g) \/ ReleaseEscapes(g)
             \/ Charge(g) \/ TransportFails(g) \/ Crash(g)
             \/ \E exc_name \in ExcNames : BodyRaises(g, exc_name)
             \/ BodyAborts(g) \/ BodyReturns(g) \/ CommitRejects(g)
    <2>1. self' = self
      BY <1>3 DEF CommitUncertain, CommitRaises, CommitEscapes, ReleaseAnswered, ReleaseRaises,
         ReleaseEscapes, Charge, TransportFails, Crash, BodyRaises, BodyAborts, BodyReturns,
         CommitRejects, StartRelease, guardVars
    <2>2. QED  BY <1>1, <1>2, <1>8, <2>1, SameCommit
  <1>4. CASE CommitSucceeds(g)
    <2>1. /\ self'[g].actual_micros = self[g].actual_micros
          /\ self'[g].commit_metadata = self[g].commit_metadata
          /\ self'[g].reservation_id = self[g].reservation_id
      BY <1>4 DEF CommitSucceeds, Objects
    <2>2. QED  BY <1>1, <1>2, <1>8, <2>1, SameCommit
  <1>5. CASE \/ abort(g) \/ \E override \in Overrides : set_actual_micros(g, override)
             \/ \E fields \in Fields : attach_receipt_fields(g, fields)
    <2>1. InUse(g) /\ self'[g].reservation_id = self[g].reservation_id
      BY <1>5 DEF abort, set_actual_micros, attach_receipt_fields, Objects
    <2>2. pc' = pc
      BY <1>5 DEF abort, set_actual_micros, attach_receipt_fields
    <2>3. pc[g] = "body" \/ ~Kept(g)'
      BY <1>1, <2>1, <2>2 DEF InUse, Kept
    <2>4. QED  BY <1>2, <2>1, <2>3
  <1>6. CASE \/ EnterInvalid(g) \/ Enter(g) \/ EnterEscapes(g) \/ EnterRaises(g)
             \/ EnterReturns(g) \/ \E h \in Guards : EnterAgain(g, h)
    BY <1>6 DEF EnterInvalid, Enter, EnterEscapes, EnterRaises, EnterReturns, EnterAgain
  <1>7. QED  BY <1>3, <1>4, <1>5, <1>6 DEF GuardStep, Proceed, Fail, Leave, Process

\* A new request is of what its guard holds.
LEMMA SentFrame ==
  ASSUME NEW g \in Guards, TypeOK, GuardStep(g), NEW q \in requests' \ requests,
         q.op \in {"commit", "release"}
  PROVE  /\ q.from = g /\ q.rid = Holds(g) /\ pc[g] \notin {"idle", "reserving"}
         /\ q.op = "commit" => q.body = CommitBody(g) /\ self' = self
  <1> USE DEF Holds
  <1>1. CASE Enter(g) \/ \E h \in Guards : EnterAgain(g, h)
    BY <1>1 DEF Enter, EnterAgain, Send
  <1>2. CASE BodyReturns(g)
    BY <1>2 DEF BodyReturns, Send
  <1>3. CASE \/ \E exc_name \in ExcNames : BodyRaises(g, exc_name)
             \/ BodyAborts(g) \/ CommitRejects(g)
    BY <1>3 DEF BodyRaises, BodyAborts, CommitRejects, StartRelease, Send
  <1>4. CASE \/ EnterInvalid(g) \/ EnterRaises(g) \/ EnterEscapes(g)
             \/ CommitSucceeds(g) \/ CommitUncertain(g) \/ CommitRaises(g)
             \/ CommitEscapes(g) \/ ReleaseAnswered(g) \/ ReleaseRaises(g)
             \/ ReleaseEscapes(g)
    BY <1>4 DEF EnterInvalid, EnterRaises, EnterEscapes, CommitSucceeds, CommitUncertain,
         CommitRaises, CommitEscapes, ReleaseAnswered, ReleaseRaises, ReleaseEscapes, End
  <1>5. CASE \/ EnterReturns(g) \/ Charge(g) \/ abort(g) \/ TransportFails(g) \/ Crash(g)
             \/ \E override \in Overrides : set_actual_micros(g, override)
             \/ \E fields \in Fields : attach_receipt_fields(g, fields)
    BY <1>5 DEF EnterReturns, Charge, abort, TransportFails, Crash, set_actual_micros,
         attach_receipt_fields, guardVars, serverVars
  <1>6. QED  BY <1>1, <1>2, <1>3, <1>4, <1>5 DEF GuardStep, Proceed, Fail, Leave, Process

LEMMA FaithfulStep ==
  ASSUME NEW g \in Guards, BucketInv, CommitInv, SettleInv, GuardStep(g), NEW q \in requests'
  PROVE  Faithful(q)'
  <1> SUFFICES ASSUME q.op \in {"commit", "release"}
               PROVE  Faithful(q)'
    BY DEF Faithful
  <1> USE DEF SettleInv
  <1>1. TypeOK /\ TypeOK' /\ config' = config
    BY BucketStep, GuardFrame DEF BucketInv, Next
  <1>2. q.from \in Guards
    BY <1>1 DEF TypeOK, Requests, RequestsOf
  <1>3. CASE q \notin requests
    <2>1. /\ q.from = g /\ q.rid = Holds(g) /\ pc[g] \notin {"idle", "reserving"}
          /\ q.op = "commit" => q.body = CommitBody(g) /\ self' = self
      BY <1>1, <1>3, SentFrame
    <2>2. pc'[g] \notin {"idle", "reserving"} /\ Holds(g)' = Holds(g)
      BY <1>1, <2>1, KeptFrame
    <2>3. q.op = "commit" => CommitBody(g)' = CommitBody(g)
      BY <1>1, <2>1, SameCommit
    <2>4. QED  BY <2>1, <2>2, <2>3 DEF Faithful
  <1>4. CASE q \in requests /\ q.from = g
    <2>1. /\ q.rid = Holds(g) /\ pc[g] \notin {"idle", "reserving"}
          /\ q.op = "commit" /\ Kept(g) => q.body = CommitBody(g)
      BY <1>4 DEF Faithful
    <2>2. q.op = "commit" => pc[g] # "body"
      BY <1>2, <1>4 DEF CommitInv, CommitIsLate, CommitInFlight
    <2>3. QED  BY <1>1, <1>4, <2>1, <2>2, KeptFrame DEF Faithful
  <1>5. CASE q \in requests /\ q.from # g
    <2>1. /\ self'[q.from] = self[q.from]
          /\ pc'[q.from] = pc[q.from] \/ pc'[q.from] = "reentered"
          /\ Kept(q.from)' => Kept(q.from)
      BY <1>1, <1>2, <1>5, OthersFrame DEF Kept
    <2>2. CommitBody(q.from)' = CommitBody(q.from)
      BY <1>1, <1>2, <2>1, SameCommit
    <2>3. QED  BY <1>1, <1>2, <1>5, <2>1, <2>2 DEF Faithful, Holds
  <1>6. QED  BY <1>3, <1>4, <1>5

\* Facts about g stand when its step changes nothing they are about.
LEMMA FactsStand ==
  ASSUME NEW g \in Guards, resv' = resv, config' = config, Holds(g)' = Holds(g),
         Kept(g)' => Kept(g) /\ CommitBody(g)' = CommitBody(g)
  PROVE  (Settled(g) => Settled(g)') /\ (Released(g) => Released(g)')
  BY DEF Settled, Released

LEMMA ReceiptStands ==
  ASSUME NEW g \in Guards, NEW h \in Guards, resv' = resv, config' = config,
         config[g] = config[h], self'[g].receipt = self[h].receipt, Informed(h),
         self'[g].receipt # None, ~config[g].shared
  PROVE  self'[g].receipt.reservation_id \in Guards /\ ReceiptAgrees(self[g].receipt)'
  <1>1. self[h].receipt.reservation_id \in Guards /\ ReceiptAgrees(self[h].receipt)
    BY DEF Informed
  <1>2. ReceiptAgrees(self[g].receipt)'
    BY <1>1, AgreesLast
  <1>3. QED  BY <1>1, <1>2

LEMMA OthersStand ==
  ASSUME NEW g \in Guards, NEW h \in Guards \ {g}, BucketInv, SettleInv, GuardStep(g)
  PROVE  Orderly(h)' /\ Informed(h)'
  <1> USE DEF SettleInv, BucketInv
  <1>1. /\ config' = config /\ resv' = resv
        /\ self'[h] = self[h] /\ outcome'[h] = outcome[h] /\ asked'[h] = asked[h]
        /\ answer'[h] = answer[h] /\ via'[h] = via[h]
        /\ pc'[h] = pc[h] \/ (pc[h] = "done" /\ pc'[h] = "reentered")
    BY OthersFrame
  <1>2. CommitBody(h)' = CommitBody(h) /\ Holds(h)' = Holds(h)
    BY <1>1, SameCommit DEF Holds
  <1>3. Orderly(h)'
    BY <1>1 DEF Orderly, Private
  <1>4. (Settled(h) => Settled(h)') /\ (Released(h) => Released(h)')
    BY <1>1, <1>2, FactsStand DEF Kept
  <1>5. Informed(h)'
    BY <1>1, <1>4, ReceiptStands DEF Informed
  <1>6. QED  BY <1>3, <1>5

\* An end that promises nothing: an exception that does not speak of a release.
LEMMA EndStands ==
  ASSUME NEW g \in Guards, NEW o \in Outcomes \ {"returned", "CommitFailedReleased"}, TypeOK,
         Orderly(g), Informed(g), End(g, o),
         self' = self \/ \E d \in Decisions \cup {None} : self' = [self EXCEPT ![g].decision = d]
  PROVE  Orderly(g)' /\ Informed(g)'
  <1> USE DEF TypeOK
  <1>1. /\ pc'[g] = "done" /\ outcome'[g] = o /\ via' = via /\ config' = config /\ resv' = resv
        /\ asked' = asked /\ answer'[g] = NoCall
    BY DEF End, Hangup
  <1>2. /\ self'[g].aborted = self[g].aborted /\ self'[g].receipt = self[g].receipt
        /\ self'[g].actual_micros = self[g].actual_micros
        /\ self'[g].commit_metadata = self[g].commit_metadata
    BY DEF Objects
  <1>3. answer'[g]["commit"] = Closed /\ answer'[g]["release"] = Closed /\ Closed.status # "2xx"
    BY <1>1 DEF NoCall, Ops, Closed, Response
  <1>4. Orderly(g)'
    BY <1>1, <1>2, <1>3 DEF Orderly, Private
  <1>5. Informed(g)'
    BY <1>1, <1>2, <1>3, ReceiptStands DEF Informed
  <1>6. QED  BY <1>4, <1>5

LEMMA SuccessStands ==
  ASSUME NEW g \in Guards, BucketInv, CoverInv, AmountInv, SettleInv, CommitSucceeds(g)
  PROVE  Orderly(g)' /\ Informed(g)'
  <1> USE DEF BucketInv, TypeOK, SettleInv
  <1>1. /\ pc[g] = "committing" /\ answer[g]["commit"].status = "2xx"
        /\ pc'[g] = "done" /\ outcome'[g] = "returned" /\ via' = via /\ config' = config
        /\ resv' = resv /\ asked' = asked /\ answer'[g] = NoCall
    BY DEF CommitSucceeds, Committed, End, Hangup
  <1>2. /\ self'[g].aborted = self[g].aborted
        /\ self'[g].reservation_id = self[g].reservation_id
        /\ self'[g].receipt = IF config[g].emit_receipt THEN Receipt(g) ELSE self[g].receipt
        /\ self'[g].actual_micros = self[g].actual_micros
        /\ self'[g].commit_metadata = self[g].commit_metadata
    BY DEF CommitSucceeds, Objects
  <1>3. answer'[g]["commit"] = Closed /\ answer'[g]["release"] = Closed /\ Closed.status # "2xx"
    BY <1>1 DEF NoCall, Ops, Closed, Response
  <1>4. Orderly(g)'
    BY <1>1, <1>2, <1>3 DEF Orderly, Private
  <1>5. Settled(g)
    BY <1>1 DEF Informed
  <1>6. Settled(g)'
    BY <1>1, <1>2, <1>5, SameCommit, FactsStand DEF Holds, Kept
  <1>7. self'[g].receipt # None /\ ~config[g].shared =>
          self'[g].receipt.reservation_id \in Guards /\ ReceiptAgrees(self[g].receipt)'
    <2> SUFFICES ASSUME self'[g].receipt # None, ~config[g].shared
                 PROVE  self'[g].receipt.reservation_id \in Guards /\ ReceiptAgrees(self[g].receipt)'
      OBVIOUS
    <2>1. CASE ~config[g].emit_receipt
      BY <1>1, <1>2, <2>1, ReceiptStands
    <2>2. CASE config[g].emit_receipt
      <3>1. self'[g].receipt = Receipt(g)
        BY <1>2, <2>2
      <3>2. self[g].decision = "ALLOW" /\ amount_micros(config[g].mandate) # None
        BY <1>1 DEF Orderly, AmountInv, Priced
      <3>3. Receipt(g).reservation_id \in Guards /\ ReceiptAgrees(Receipt(g))
        BY <1>1, <1>5, <3>2, ReceiptTells DEF Kept
      <3>4. ReceiptAgrees(self[g].receipt)'
        BY <1>1, <3>1, <3>3, AgreesLast
      <3>5. QED  BY <3>1, <3>3, <3>4
    <2>3. QED  BY <2>1, <2>2
  <1>8. Informed(g)'
    BY <1>1, <1>3, <1>6, <1>7 DEF Informed
  <1>9. QED  BY <1>4, <1>8

\* The end after _handle_release.
LEMMA ReleaseStands ==
  ASSUME NEW g \in Guards, NEW released \in BOOLEAN, TypeOK, Orderly(g), Informed(g),
         End(g, AfterRelease(via[g], released)), self' = self, released => Released(g)
  PROVE  Orderly(g)' /\ Informed(g)'
  <1> USE DEF TypeOK
  <1>1. /\ pc'[g] = "done" /\ outcome'[g] = AfterRelease(via[g], released) /\ via' = via
        /\ config' = config /\ resv' = resv /\ asked' = asked /\ answer'[g] = NoCall
    BY DEF End, Hangup
  <1>2. answer'[g]["commit"] = Closed /\ answer'[g]["release"] = Closed /\ Closed.status # "2xx"
    BY <1>1 DEF NoCall, Ops, Closed, Response
  <1>3. Orderly(g)'
    BY <1>1, <1>2 DEF Orderly, Private
  <1>4. outcome'[g] = "returned" => via'[g] = "aborted"
    BY <1>1 DEF AfterRelease
  <1>5. outcome'[g] = "CommitFailedReleased" => Released(g)'
    <2>1. outcome'[g] = "CommitFailedReleased" => released
      BY <1>1 DEF AfterRelease
    <2>2. Released(g) => Released(g)'
      BY <1>1 DEF Released, Holds
    <2>3. QED  BY <2>1, <2>2
  <1>6. Informed(g)'
    BY <1>1, <1>2, <1>4, <1>5, ReceiptStands DEF Informed
  <1>7. QED  BY <1>3, <1>6

\* A call is made, and nothing has been said of it.
LEMMA SendStands ==
  ASSUME NEW g \in Guards, NEW h \in Guards, TypeOK, ReleaseIsLast, NEW op \in Ops, NEW cause,
         Orderly(g), Orderly(h), Informed(h), outcome[g] = None,
         config' = config, resv' = resv, outcome' = outcome, asked' = asked,
         config[h] = config[g], self'[g] = self[h], h = g \/ config[g].reused,
         answer'[g] = [NoCall EXCEPT ![op] = Awaiting],
         \/ op = "reserve" /\ pc'[g] = "reserving" /\ via' = via /\ via[g] = None
         \/ /\ op = "commit" /\ pc'[g] = "committing" /\ via' = via /\ via[g] = None
            /\ self[h].decision = "ALLOW"
         \/ /\ op = "release" /\ pc'[g] = "releasing" /\ via' = [via EXCEPT ![g] = cause]
            /\ self[h].decision = "ALLOW" /\ (cause = "aborted" => self[h].aborted)
  PROVE  Orderly(g)' /\ Informed(g)'
  <1> USE DEF TypeOK
  <1>1. \A o \in Ops : answer'[g][o] \in {Closed, Awaiting} /\ (answer'[g][o] # Closed => o = op)
    BY DEF NoCall
  <1>2. Closed.status # "2xx" /\ Awaiting.status # "2xx"
    BY DEF Closed, Awaiting, Response
  <1>3. "commit" \in Ops /\ "release" \in Ops
    BY DEF Ops
  <1>4. via'[g] = "aborted" => self'[g].aborted
    BY NoneAssumption DEF ReleaseCauses
  <1>5. Private(g)' => /\ self'[g].actual_micros = asked'[g].actual
                       /\ self'[g].commit_metadata = asked'[g].fields
                       /\ self'[g].aborted = asked'[g].aborted
    BY DEF Orderly, Private
  <1>6. Orderly(g)'
    BY <1>1, <1>3, <1>4, <1>5 DEF Orderly
  <1>7. Informed(g)'
    <2>1. outcome'[g] \notin {"returned", "CommitFailedReleased"}
      BY NoneAssumption DEF Outcomes, CommitFailures
    <2>2. QED  BY <1>1, <1>2, <1>3, <2>1, ReceiptStands DEF Informed
  <1>8. QED  BY <1>6, <1>7

\* The body is entered on an ALLOW, by a guard of which nothing has been said.
LEMMA ReturnStands ==
  ASSUME NEW g \in Guards, TypeOK, ReleaseIsLast, Orderly(g), Informed(g), EnterReturns(g)
  PROVE  Orderly(g)' /\ Informed(g)'
  <1> USE DEF TypeOK
  <1>1. /\ pc[g] = "reserving" /\ pc'[g] = "body" /\ answer'[g] = NoCall
        /\ via' = via /\ outcome' = outcome /\ asked' = asked /\ config' = config /\ resv' = resv
    BY DEF EnterReturns, Hangup
  <1>2. /\ self'[g].decision = "ALLOW"
        /\ self'[g].aborted = self[g].aborted /\ self'[g].receipt = self[g].receipt
        /\ self'[g].actual_micros = self[g].actual_micros
        /\ self'[g].commit_metadata = self[g].commit_metadata
    BY DEF EnterReturns, Objects, Decided, Granted, Decisions
  <1>3. answer'[g]["commit"] = Closed /\ answer'[g]["release"] = Closed /\ Closed.status # "2xx"
    BY <1>1 DEF NoCall, Ops, Closed, Response
  <1>4. via[g] = None /\ outcome[g] = None
    BY <1>1 DEF ReleaseIsLast, Orderly
  <1>5. outcome'[g] \notin {"returned", "CommitFailedReleased"} /\ via'[g] # "aborted"
    BY <1>1, <1>4, NoneAssumption DEF Outcomes, CommitFailures, ReleaseCauses
  <1>6. Orderly(g)'
    BY <1>1, <1>2, <1>3, <1>4, <1>5 DEF Orderly, Private
  <1>7. Informed(g)'
    BY <1>1, <1>2, <1>3, <1>5, ReceiptStands DEF Informed
  <1>8. QED  BY <1>6, <1>7

\* The guard's methods: what is asked of an object nobody else has is recorded.
LEMMA MethodStands ==
  ASSUME NEW g \in Guards, TypeOK, ReleaseIsLast, Orderly(g), Informed(g), InUse(g),
         \/ abort(g) \/ \E override \in Overrides : set_actual_micros(g, override)
         \/ \E fields \in Fields : attach_receipt_fields(g, fields)
  PROVE  Orderly(g)' /\ Informed(g)'
  <1> USE DEF TypeOK
  <1>1. /\ pc' = pc /\ answer' = answer /\ via' = via /\ outcome' = outcome
        /\ config' = config /\ resv' = resv
    BY DEF abort, set_actual_micros, attach_receipt_fields, serverVars
  <1>2. /\ self'[g].decision = self[g].decision /\ self'[g].receipt = self[g].receipt
        /\ self'[g].reservation_id = self[g].reservation_id
        /\ self[g].aborted => self'[g].aborted
    <2>1. CASE abort(g)
      BY <2>1 DEF abort, Objects
    <2>2. CASE \E override \in Overrides : set_actual_micros(g, override)
      BY <2>2 DEF set_actual_micros, Objects
    <2>3. CASE \E fields \in Fields : attach_receipt_fields(g, fields)
      BY <2>3 DEF attach_receipt_fields, Objects
    <2>4. QED  BY <2>1, <2>2, <2>3
  <1>3. Private(g) => /\ self'[g].actual_micros = asked'[g].actual
                      /\ self'[g].commit_metadata = asked'[g].fields
                      /\ self'[g].aborted = asked'[g].aborted
    <2> SUFFICES ASSUME Private(g)
                 PROVE  /\ self'[g].actual_micros = asked'[g].actual
                        /\ self'[g].commit_metadata = asked'[g].fields
                        /\ self'[g].aborted = asked'[g].aborted
      OBVIOUS
    <2>1. /\ pc[g] \in {"idle", "reserving", "body"} /\ self[g].actual_micros = asked[g].actual
          /\ self[g].commit_metadata = asked[g].fields /\ self[g].aborted = asked[g].aborted
          /\ self[g] \in Objects /\ asked[g] \in AskedTypes
      BY DEF Private, InUse, Orderly
    <2>2. CASE abort(g)
      BY <2>1, <2>2 DEF abort, Ask, Objects, AskedTypes
    <2>3. CASE \E override \in Overrides : set_actual_micros(g, override)
      BY <2>1, <2>3 DEF set_actual_micros, Ask, Objects, AskedTypes
    <2>4. CASE \E fields \in Fields : attach_receipt_fields(g, fields)
      BY <2>1, <2>4, LastOneWins DEF attach_receipt_fields, Ask, Objects, AskedTypes
    <2>5. QED  BY <2>2, <2>3, <2>4
  <1>4. Orderly(g)'
    BY <1>1, <1>2, <1>3 DEF Orderly, Private
  <1>5. Released(g) => Released(g)'
    BY <1>1, <1>2 DEF Released, Holds
  <1>6. pc[g] \notin {"idle", "reserving", "body"} /\ Settled(g) => Settled(g)'
    BY <1>1, <1>2 DEF Settled, Kept, Holds, InUse
  <1>7. answer'[g]["commit"].status = "2xx" => Settled(g)'
    BY <1>1, <1>6 DEF Informed, Orderly, Closed, Response
  <1>8. outcome'[g] = "returned" /\ via'[g] # "aborted" => Settled(g)'
    BY <1>1, <1>6, NoneAssumption DEF Informed, Orderly, Outcomes
  <1>9. Informed(g)'
    BY <1>1, <1>2, <1>5, <1>7, <1>8, ReceiptStands DEF Informed
  <1>10. QED  BY <1>4, <1>9

\* A charge, a timeout and a crash say nothing new.
LEMMA QuietStands ==
  ASSUME NEW g \in Guards, TypeOK, Orderly(g), Informed(g),
         Charge(g) \/ TransportFails(g) \/ Crash(g)
  PROVE  Orderly(g)' /\ Informed(g)'
  <1> USE DEF TypeOK
  <1>1. /\ config' = config /\ self' = self /\ via' = via /\ outcome' = outcome
        /\ asked' = asked /\ resv' = resv
    BY DEF Charge, TransportFails, Crash, serverVars, guardVars
  <1>2. \A op \in Ops : \/ answer'[g][op] \in {answer[g][op], Closed}
                        \/ answer[g][op] = Awaiting /\ answer'[g][op] = TransportDown
    BY DEF Charge, TransportFails, Crash, Hangup, NoCall, serverVars
  <1>3. /\ "commit" \in Ops /\ "release" \in Ops /\ Awaiting # Closed
        /\ Closed.status # "2xx" /\ TransportDown.status # "2xx"
    BY DEF Ops, Closed, Awaiting, TransportDown, Response
  <1>4. \/ pc' = pc
        \/ /\ pc[g] \in {"reserving", "body", "committing", "releasing"} /\ pc'[g] = "crashed"
           /\ answer'[g] = NoCall
    BY DEF Charge, TransportFails, Crash, Hangup, guardVars
  <1>5. Orderly(g)'
    BY <1>1, <1>2, <1>3, <1>4 DEF Orderly, Private, NoCall
  <1>6. CommitBody(g)' = CommitBody(g) /\ Holds(g)' = Holds(g)
    BY <1>1, SameCommit DEF Holds
  <1>7. (Settled(g) => Settled(g)') /\ (Released(g) => Released(g)')
    BY <1>1, <1>4, <1>6, FactsStand DEF Kept
  <1>8. Informed(g)'
    BY <1>1, <1>2, <1>3, <1>7, ReceiptStands DEF Informed
  <1>9. QED  BY <1>5, <1>8

LEMMA SettleGuardStep ==
  ASSUME NEW g \in Guards, BucketInv, CoverInv, CommitInv, AmountInv, SettleInv, GuardStep(g)
  PROVE  SettleInv'
  <1> USE DEF BucketInv, CommitInv
  <1>1. Orderly(g) /\ Informed(g) /\ TypeOK /\ config' = config /\ resv' = resv
    BY GuardFrame DEF SettleInv
  <1>2. pc[g] \in {"idle", "reserving", "body", "committing"} => via[g] = None
    BY DEF ReleaseIsLast
  <1>3. pc[g] \in {"idle", "reserving", "body", "committing", "releasing"} => outcome[g] = None
    BY <1>1 DEF Orderly
  <1>4. CASE \/ EnterInvalid(g) \/ EnterRaises(g) \/ EnterEscapes(g) \/ CommitUncertain(g)
             \/ CommitRaises(g) \/ CommitEscapes(g) \/ ReleaseEscapes(g)
    <2>1. \E o \in Outcomes \ {"returned", "CommitFailedReleased"} :
            /\ End(g, o)
            /\ self' = self \/ \E d \in Decisions \cup {None} : self' = [self EXCEPT ![g].decision = d]
      <3>1. CASE EnterRaises(g)
        <4>1. Decided(g, answer[g]["reserve"]) \in Decisions \cup {None}
          BY <1>1, DecidedType DEF TypeOK
        <4>2. QED  BY <3>1, <4>1 DEF EnterRaises, Outcomes
      <3>2. CASE ~EnterRaises(g)
        BY <1>4, <3>2 DEF EnterInvalid, EnterEscapes, CommitUncertain, CommitRaises,
           CommitEscapes, ReleaseEscapes, Outcomes
      <3>3. QED  BY <3>1, <3>2
    <2>2. Orderly(g)' /\ Informed(g)'
      BY <1>1, <2>1, EndStands
    <2>3. QED  BY <2>2, OthersStand, FaithfulStep DEF SettleInv
  <1>5. CASE CommitSucceeds(g)
    BY <1>5, SuccessStands, OthersStand, FaithfulStep DEF SettleInv
  <1>6. CASE ReleaseAnswered(g) \/ ReleaseRaises(g)
    <2>1. CASE ReleaseRaises(g)
      <3>1. Orderly(g)' /\ Informed(g)'
        BY <1>1, <2>1, ReleaseStands DEF ReleaseRaises
      <3>2. QED  BY <3>1, OthersStand, FaithfulStep DEF SettleInv
    <2>2. CASE ReleaseAnswered(g)
      <3> DEFINE released == answer[g]["release"].status = "2xx"
      <3>1. /\ End(g, AfterRelease(via[g], released)) /\ self' = self
            /\ released => Released(g)
        BY <1>1, <2>2 DEF ReleaseAnswered, Informed
      <3>2. released \in BOOLEAN
        OBVIOUS
      <3> HIDE DEF released
      <3>3. Orderly(g)' /\ Informed(g)'
        BY <1>1, <3>1, <3>2, ReleaseStands
      <3>4. QED  BY <3>3, OthersStand, FaithfulStep DEF SettleInv
    <2>3. QED  BY <1>6, <2>1, <2>2
  <1>7. CASE Enter(g) \/ BodyReturns(g)
    <2>1. Orderly(g)' /\ Informed(g)'
      <3>1. CASE Enter(g)
        <4>1. /\ outcome[g] = None /\ via[g] = None /\ "reserve" \in Ops
              /\ self' = self /\ outcome' = outcome /\ asked' = asked /\ via' = via
              /\ pc'[g] = "reserving" /\ answer'[g] = [NoCall EXCEPT !["reserve"] = Awaiting]
          BY <1>1, <1>2, <1>3, <3>1 DEF Enter, Send, TypeOK, Ops
        <4>2. QED  BY <1>1, <4>1, SendStands
      <3>2. CASE BodyReturns(g)
        <4>1. /\ outcome[g] = None /\ via[g] = None /\ "commit" \in Ops
              /\ self' = self /\ outcome' = outcome /\ asked' = asked /\ via' = via
              /\ pc'[g] = "committing" /\ answer'[g] = [NoCall EXCEPT !["commit"] = Awaiting]
              /\ self[g].decision = "ALLOW"
          BY <1>1, <1>2, <1>3, <3>2 DEF BodyReturns, Send, TypeOK, Ops, Orderly
        <4>2. QED  BY <1>1, <4>1, SendStands
      <3>3. QED  BY <1>7, <3>1, <3>2
    <2>2. QED  BY <2>1, OthersStand, FaithfulStep DEF SettleInv
  <1>8. ASSUME NEW h \in Guards, EnterAgain(g, h)
        PROVE  SettleInv'
    <2>1. /\ outcome[g] = None /\ via[g] = None /\ "reserve" \in Ops /\ Orderly(h) /\ Informed(h)
          /\ config[h] = config[g] /\ config[g].reused /\ self'[g] = self[h]
          /\ outcome' = outcome /\ asked' = asked /\ via' = via
          /\ pc'[g] = "reserving" /\ answer'[g] = [NoCall EXCEPT !["reserve"] = Awaiting]
      BY <1>1, <1>2, <1>3, <1>8 DEF EnterAgain, Send, TypeOK, Ops, SettleInv
    <2>2. Orderly(g)' /\ Informed(g)'
      BY <1>1, <2>1, SendStands
    <2>3. QED  BY <2>2, OthersStand, FaithfulStep DEF SettleInv
  <1>9. CASE \/ \E exc_name \in ExcNames : BodyRaises(g, exc_name)
             \/ BodyAborts(g) \/ CommitRejects(g)
    <2>1. \E cause : /\ via' = [via EXCEPT ![g] = cause] /\ (cause = "aborted" => self[g].aborted)
                     /\ pc'[g] = "releasing" /\ self' = self /\ outcome' = outcome
                     /\ asked' = asked /\ answer'[g] = [NoCall EXCEPT !["release"] = Awaiting]
                     /\ pc[g] \in {"body", "committing"}
      BY <1>1, <1>9 DEF BodyRaises, BodyAborts, CommitRejects, StartRelease, Send, TypeOK
    <2>2. outcome[g] = None /\ self[g].decision = "ALLOW" /\ "release" \in Ops
      BY <1>1, <1>3, <2>1 DEF Orderly, Ops
    <2>3. Orderly(g)' /\ Informed(g)'
      BY <1>1, <2>1, <2>2, SendStands
    <2>4. QED  BY <2>3, OthersStand, FaithfulStep DEF SettleInv
  <1>10. CASE EnterReturns(g)
    BY <1>1, <1>10, ReturnStands, OthersStand, FaithfulStep DEF SettleInv
  <1>11. CASE \/ abort(g) \/ \E override \in Overrides : set_actual_micros(g, override)
              \/ \E fields \in Fields : attach_receipt_fields(g, fields)
    <2>1. InUse(g)
      BY <1>11 DEF abort, set_actual_micros, attach_receipt_fields
    <2>2. Orderly(g)' /\ Informed(g)'
      BY <1>1, <1>11, <2>1, MethodStands
    <2>3. QED  BY <2>2, OthersStand, FaithfulStep DEF SettleInv
  <1>12. CASE Charge(g) \/ TransportFails(g) \/ Crash(g)
    BY <1>1, <1>12, QuietStands, OthersStand, FaithfulStep DEF SettleInv
  <1>13. QED
    BY <1>4, <1>5, <1>6, <1>7, <1>8, <1>9, <1>10, <1>11, <1>12 DEF GuardStep, Proceed, Fail, Leave, Process

-----------------------------------------------------------------------------
LEMMA SettleInit ==
  ASSUME Init
  PROVE  SettleInv
  <1>1. \A g \in Guards, op \in Ops : answer[g][op] = Closed
    BY DEF Init, ServerInit, NoCall
  <1>2. Closed.status # "2xx" /\ "commit" \in Ops /\ "release" \in Ops
    BY DEF Closed, Response, Ops
  <1>3. None \notin {"returned", "CommitFailedReleased", "aborted"}
    BY NoneAssumption DEF Outcomes, CommitFailures, ReleaseCauses
  <1>4. \A g \in Guards : Orderly(g)
    BY <1>1, <1>2, <1>3 DEF Init, GuardInit, NewObject, NoRequest, Orderly
  <1>5. \A g \in Guards : Informed(g)
    BY <1>1, <1>2, <1>3 DEF Init, GuardInit, NewObject, Informed
  <1>6. requests = {}
    BY DEF Init, ServerInit
  <1>7. QED  BY <1>4, <1>5, <1>6 DEF SettleInv

SystemInv == BucketInv /\ CoverInv /\ CommitInv /\ AmountInv /\ SettleInv

LEMMA SettleStep ==
  ASSUME SystemInv, [Next]_vars
  PROVE  SettleInv'
  <1> USE DEF SystemInv
  <1>1. CASE \E g \in Guards : GuardStep(g)
    BY <1>1, SettleGuardStep
  <1>2. CASE Serve
    BY <1>2, SettleServe DEF Serve
  <1>3. CASE Lapse
    BY <1>3, SettleLapse DEF Lapse
  <1>4. CASE UNCHANGED vars
    <2>1. /\ config' = config /\ self' = self /\ pc' = pc /\ via' = via /\ outcome' = outcome
          /\ asked' = asked /\ answer' = answer /\ resv' = resv /\ requests' = requests
      BY <1>4 DEF vars, serverVars, guardVars
    <2>2. \A g \in Guards : CommitBody(g)' = CommitBody(g) /\ Holds(g)' = Holds(g)
      BY <2>1, SameCommit DEF Holds
    <2>3. ASSUME NEW g \in Guards
          PROVE  Orderly(g)' /\ Informed(g)'
      <3>1. Orderly(g) /\ Informed(g)
        BY DEF SettleInv
      <3>2. Orderly(g)'
        BY <2>1, <3>1 DEF Orderly, Private
      <3>3. (Settled(g) => Settled(g)') /\ (Released(g) => Released(g)')
        BY <2>1, <2>2, FactsStand DEF Kept
      <3>4. QED  BY <2>1, <3>1, <3>2, <3>3, ReceiptStands DEF Informed
    <2>4. ASSUME NEW q \in requests
          PROVE  Faithful(q)'
      <3>1. Faithful(q) /\ q.from \in Guards
        BY DEF SettleInv, BucketInv, TypeOK, Requests, RequestsOf
      <3>2. QED  BY <2>1, <2>2, <3>1 DEF Faithful, Kept
    <2>5. QED  BY <2>1, <2>3, <2>4 DEF SettleInv
  <1>5. QED  BY <1>1, <1>2, <1>3, <1>4 DEF Next

LEMMA SystemAlways == Spec => []SystemInv
  <1>1. Init => SystemInv
    BY BucketInit, CoverInit, CommitInit, AmountInit, SettleInit DEF SystemInv
  <1>2. SystemInv /\ [Next]_vars => SystemInv'
    BY BucketStep, CoverStep, CommitStep, AmountStep, SettleStep DEF SystemInv
  <1>3. QED  BY <1>1, <1>2, PTL DEF Spec

\* A with statement that ends in silence, and not by abort, has settled: its
\* reservation is committed, for the amount and with the fields it was asked
\* for, whoever sent the commit that was applied.
THEOREM SilencesAreSettled == Spec => []SilenceMeansSettled
  <1>1. SystemInv => SilenceMeansSettled
    <2> SUFFICES ASSUME SystemInv, NEW g \in Guards, outcome[g] = "returned", via[g] # "aborted"
                 PROVE  /\ resv[Holds(g)].state = "COMMITTED"
                        /\ Private(g) => /\ resv[Holds(g)].final.actual = AskedActual(g)
                                         /\ resv[Holds(g)].final.metadata = AskedMetadata(g)
      BY DEF SilenceMeansSettled
    <2>1. Settled(g) /\ Orderly(g)
      BY DEF SystemInv, SettleInv, Informed
    <2>2. CASE Private(g)
      <3>1. /\ self[g].actual_micros = asked[g].actual /\ self[g].commit_metadata = asked[g].fields
            /\ resv[Holds(g)].final = CommitBody(g)
        BY <2>1, <2>2 DEF Orderly, Private, Settled, Kept
      <3>2. CommitBody(g).actual = AskedActual(g) /\ CommitBody(g).metadata = AskedMetadata(g)
        BY <3>1 DEF CommitBody, build_commit_body, CommitMetadata, AskedActual, AskedMetadata
      <3>3. QED  BY <2>1, <3>1, <3>2 DEF Settled
    <2>3. CASE ~Private(g)
      BY <2>1, <2>3 DEF Settled
    <2>4. QED  BY <2>2, <2>3
  <1>2. QED  BY <1>1, SystemAlways, PTL

\* A guard that reports its rejected commit as released has given the budget
\* back, for good.
THEOREM ReleasesAreReal == Spec => []ReleasedMeansReleased
  <1>1. SystemInv => ReleasedMeansReleased
    BY DEF SystemInv, SettleInv, Informed, Released, ReleasedMeansReleased
  <1>2. QED  BY <1>1, SystemAlways, PTL
=============================================================================
