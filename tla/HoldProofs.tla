----------------------------- MODULE HoldProofs -----------------------------
(***************************************************************************)
(* Theorems: what a guard may do with a hold, and what several guards are  *)
(* told of one, for every set of guards, configs, amounts, attached fields *)
(* and exception names.                                                    *)
(***************************************************************************)
EXTENDS LockProofs

\* A request on the wire, and a hold a guard has finalized, are as its body asked.
AskedFor(g) ==
  /\ \A q \in requests : q.from = g =>
       /\ q.op = "commit" /\ Private(g) => ~asked[g].aborted
       /\ q.op = "release" => via[g] # None
  /\ \A r \in Guards : resv[r].by = g =>
       /\ r = Holds(g) /\ pc[g] \notin {"idle", "reserving", "body"}
       /\ \/ /\ resv[r].state = "COMMITTED"
             /\ Private(g) => /\ ~asked[g].aborted
                              /\ resv[r].final.actual = AskedActual(g)
                              /\ resv[r].final.metadata = AskedMetadata(g)
          \/ resv[r].state = "RELEASED" /\ via[g] # None

\* A guard not let into its body, or not yet, has done nothing.
Outside(g) == pc[g] \in {"idle", "reserving"} \/ outcome[g] \in Refusals => Untouched(g)

\* A receipt is of a hold that covers its guard, and shows its mandate's checkout hash.
Shown(g) ==
  self[g].receipt # None =>
    /\ Covers(self[g].receipt.reservation_id, g)
    /\ self[g].receipt.extra # NoFields
    /\ self[g].receipt.checkout_hash = config[g].mandate.checkout_hash

\* A dry run leaves no reservation.
NoDryHold(r) == Exists(r) => ~config[r].dry_run

HoldInv ==
  \A g \in Guards : AskedFor(g) /\ Outside(g) /\ Shown(g) /\ NoDryHold(g)
-----------------------------------------------------------------------------
(***************************************************************************)
(* Frames.                                                                 *)
(***************************************************************************)
\* A hold gets its finalizer by Finalise only.
LEMMA ByFrame ==
  ASSUME NEW q \in requests, TypeOK, Handle(q), NEW r \in Guards, NEW g \in Guards,
         resv'[r].by = g, resv[r].by # g
  PROVE  /\ q.op \in {"commit", "release"} /\ q.from = g /\ r = q.rid
         /\ resv'[r].state = FinalState(q.op) /\ resv'[r].final = q.body
  <1> USE DEF TypeOK
  <1>1. q \in Requests /\ q.from \in Guards
    BY DEF Requests, RequestsOf
  <1>2. CASE Create(q)
    BY <1>1, <1>2, NoneAssumption DEF Create
  <1>3. CASE Finalise(q)
    <2>1. q.rid \in Guards /\ q.op \in {"commit", "release"}
      BY <1>1, <1>3 DEF Finalise, Requests, RequestsOf
    <2>2. r = q.rid
      BY <1>3 DEF Finalise
    <2>3. QED  BY <1>3, <2>1, <2>2 DEF Finalise, Reservations
  <1>4. CASE \/ Refuse(q) \/ Evaluate(q) \/ ReplayReserve(q) \/ MismatchReserve(q)
             \/ ReplayFinal(q) \/ RefuseFinal(q)
    BY <1>4 DEF Refuse, Evaluate, ReplayReserve, MismatchReserve, ReplayFinal, RefuseFinal
  <1>5. QED  BY <1>2, <1>3, <1>4 DEF Handle

\* A commit leaves a body that was not aborted, and a release leaves its cause.
LEMMA FinalSentFrame ==
  ASSUME NEW g \in Guards, TypeOK, GuardStep(g), NEW q \in requests' \ requests,
         q.op \in {"commit", "release"}
  PROVE  /\ q.from = g /\ pc[g] \in {"body", "committing"} /\ asked' = asked
         /\ q.op = "commit" => ~self[g].aborted
         /\ q.op = "release" => via'[g] # None
  <1>1. CASE BodyReturns(g)
    BY <1>1 DEF BodyReturns, Send
  <1>2. CASE \/ \E exc_name \in ExcNames : BodyRaises(g, exc_name)
             \/ BodyAborts(g) \/ CommitRejects(g)
    BY <1>2, NoneAssumption DEF BodyRaises, BodyAborts, CommitRejects, StartRelease, Send, TypeOK,
       ReleaseCauses
  <1>3. CASE Enter(g) \/ \E h \in Guards : EnterAgain(g, h)
    BY <1>3 DEF Enter, EnterAgain, Send
  <1>4. CASE \/ EnterInvalid(g) \/ EnterRaises(g) \/ EnterEscapes(g)
             \/ CommitSucceeds(g) \/ CommitUncertain(g) \/ CommitRaises(g)
             \/ CommitEscapes(g) \/ ReleaseAnswered(g) \/ ReleaseRaises(g)
             \/ ReleaseEscapes(g)
    BY <1>4 DEF EnterInvalid, EnterRaises, EnterEscapes, CommitSucceeds, CommitUncertain,
         CommitRaises, CommitEscapes, ReleaseAnswered, ReleaseRaises, ReleaseEscapes, End
  <1>5. CASE \/ EnterReturns(g) \/ Charge(g) \/ abort(g) \/ TransportFails(g) \/ Crash(g)
             \/ \E override \in Overrides : set_actual_micros(g, override)
             \/ \E fields \in Fields : attach_receipt_fields(g, fields)
    BY <1>5 DEF EnterReturns, Charge, abort, TransportFails, Crash, set_actual_micros,
         attach_receipt_fields, guardVars, serverVars
  <1>6. QED  BY <1>1, <1>2, <1>3, <1>4, <1>5 DEF GuardStep, Proceed, Fail, Leave, Process

\* Past the body nothing more is asked of a guard.
LEMMA AskedFrame ==
  ASSUME NEW g \in Guards, GuardStep(g), pc[g] \notin {"idle", "reserving", "body"}
  PROVE  asked' = asked
  <1>1. CASE \/ abort(g) \/ \E override \in Overrides : set_actual_micros(g, override)
             \/ \E fields \in Fields : attach_receipt_fields(g, fields)
    BY <1>1 DEF abort, set_actual_micros, attach_receipt_fields, Ask
  <1>2. CASE \/ EnterInvalid(g) \/ EnterRaises(g) \/ EnterEscapes(g)
             \/ CommitSucceeds(g) \/ CommitUncertain(g) \/ CommitRaises(g)
             \/ CommitEscapes(g) \/ ReleaseAnswered(g) \/ ReleaseRaises(g)
             \/ ReleaseEscapes(g)
    BY <1>2 DEF EnterInvalid, EnterRaises, EnterEscapes, CommitSucceeds, CommitUncertain,
         CommitRaises, CommitEscapes, ReleaseAnswered, ReleaseRaises, ReleaseEscapes, End
  <1>3. CASE \/ Enter(g) \/ (\E h \in Guards : EnterAgain(g, h)) \/ EnterReturns(g)
             \/ Charge(g) \/ TransportFails(g) \/ Crash(g) \/ BodyReturns(g)
    BY <1>3 DEF Enter, EnterAgain, EnterReturns, Charge, TransportFails, Crash, BodyReturns,
         guardVars
  <1>4. CASE \/ \E exc_name \in ExcNames : BodyRaises(g, exc_name)
             \/ BodyAborts(g) \/ CommitRejects(g)
    BY <1>4 DEF BodyRaises, BodyAborts, CommitRejects, StartRelease
  <1>5. QED  BY <1>1, <1>2, <1>3, <1>4 DEF GuardStep, Proceed, Fail, Leave, Process

\* A with statement is refused before its body.
LEMMA RefusalFrame ==
  ASSUME NEW g \in Guards, TypeOK, GuardStep(g), outcome'[g] \in Refusals
  PROVE  outcome'[g] = outcome[g] \/ pc[g] \in {"idle", "reserving"}
  <1> USE DEF TypeOK
  <1>1. CASE EnterInvalid(g) \/ EnterRaises(g) \/ EnterEscapes(g)
    BY <1>1 DEF EnterInvalid, EnterRaises, EnterEscapes
  <1>2. ASSUME NEW o \in Outcomes, End(g, o), o \notin Refusals
        PROVE  FALSE
    BY <1>2 DEF End
  <1>3. CASE CommitSucceeds(g) \/ CommitUncertain(g) \/ CommitRaises(g) \/ CommitEscapes(g)
             \/ ReleaseEscapes(g)
    BY <1>2, <1>3 DEF CommitSucceeds, CommitUncertain, CommitRaises, CommitEscapes,
       ReleaseEscapes, Refusals, Outcomes
  <1>4. CASE ReleaseAnswered(g) \/ ReleaseRaises(g)
    <2>1. \A cause : \A released \in BOOLEAN :
            AfterRelease(cause, released) \in Outcomes \ Refusals
      BY DEF AfterRelease, Outcomes, CommitFailures, Refusals
    <2>2. QED  BY <1>2, <1>4, <2>1 DEF ReleaseAnswered, ReleaseRaises
  <1>5. CASE \/ Enter(g) \/ (\E h \in Guards : EnterAgain(g, h)) \/ EnterReturns(g)
             \/ Charge(g) \/ TransportFails(g) \/ Crash(g) \/ BodyReturns(g)
    BY <1>5 DEF Enter, EnterAgain, EnterReturns, Charge, TransportFails, Crash, BodyReturns,
         guardVars
  <1>6. CASE \/ \E exc_name \in ExcNames : BodyRaises(g, exc_name)
             \/ BodyAborts(g) \/ CommitRejects(g)
    BY <1>6 DEF BodyRaises, BodyAborts, CommitRejects, StartRelease
  <1>7. CASE \/ abort(g) \/ \E override \in Overrides : set_actual_micros(g, override)
             \/ \E fields \in Fields : attach_receipt_fields(g, fields)
    BY <1>7 DEF abort, set_actual_micros, attach_receipt_fields
  <1>8. QED  BY <1>1, <1>3, <1>4, <1>5, <1>6, <1>7 DEF GuardStep, Proceed, Fail, Leave, Process

-----------------------------------------------------------------------------
(***************************************************************************)
(* HoldInv is inductive relative to SystemInv.                             *)
(***************************************************************************)
LEMMA HoldInit ==
  ASSUME Init
  PROVE  HoldInv
  <1> SUFFICES ASSUME NEW g \in Guards
               PROVE  AskedFor(g) /\ Outside(g) /\ Shown(g) /\ NoDryHold(g)
    BY DEF HoldInv
  <1>1. /\ requests = {} /\ \A r \in Guards : resv[r] = NoReservation
        /\ answer[g] = NoCall /\ self[g] = NewObject /\ pc[g] = "idle" /\ ~charged[g]
    BY DEF Init, ServerInit, GuardInit
  <1>2. AskedFor(g)
    BY <1>1, NoneAssumption DEF AskedFor, NoReservation
  <1>3. Outside(g)
    BY <1>1, NoneAssumption DEF Outside, Untouched, NoReservation
  <1>4. Shown(g) /\ NoDryHold(g)
    BY <1>1 DEF Shown, NoDryHold, NewObject, NoReservation, Exists
  <1>5. QED  BY <1>2, <1>3, <1>4

\* What the server finalizes for a guard is what the guard has asked it.
LEMMA AskedServe ==
  ASSUME NEW q \in requests, SystemInv, HoldInv, Handle(q), UNCHANGED guardVars,
         NEW g \in Guards
  PROVE  AskedFor(g)'
  <1> USE DEF SystemInv
  <1>1. /\ requests' \subseteq requests /\ TypeOK
        /\ config' = config /\ self' = self /\ pc' = pc /\ via' = via /\ asked' = asked
    BY HandleFrame DEF BucketInv, guardVars
  <1>2. AskedFor(g)
    BY DEF HoldInv
  <1> SUFFICES ASSUME NEW r \in Guards, resv'[r].by = g
               PROVE  /\ r = Holds(g) /\ pc[g] \notin {"idle", "reserving", "body"}
                      /\ \/ /\ resv'[r].state = "COMMITTED"
                            /\ Private(g) => /\ ~asked[g].aborted
                                             /\ resv'[r].final.actual = AskedActual(g)
                                             /\ resv'[r].final.metadata = AskedMetadata(g)
                         \/ resv'[r].state = "RELEASED" /\ via[g] # None
    BY <1>1, <1>2 DEF AskedFor, Private, Holds, AskedActual, AskedMetadata
  <1>3. CASE resv[r].by = g
    <2>1. resv[r].state \in {"COMMITTED", "RELEASED"}
      BY <1>2, <1>3 DEF AskedFor
    <2>2. resv'[r].state = resv[r].state /\ resv'[r].final = resv[r].final
      BY <2>1, FinalsLast
    <2>3. QED  BY <1>2, <1>3, <2>2 DEF AskedFor
  <1>4. CASE resv[r].by # g
    <2>1. /\ q.op \in {"commit", "release"} /\ q.from = g /\ r = q.rid
          /\ resv'[r].state = FinalState(q.op) /\ resv'[r].final = q.body
      BY <1>1, <1>4, ByFrame
    <2>2. q.rid = Holds(g) /\ (q.op = "commit" /\ Private(g) => q.body = CommitBody(g))
      BY <2>1 DEF SettleInv, Faithful, Kept, Private
    <2>3. CASE q.op = "release"
      <3>1. via[g] # None
        BY <1>2, <2>1, <2>3 DEF AskedFor
      <3>2. pc[g] \notin {"idle", "reserving", "body"}
        BY <3>1 DEF CommitInv, ReleaseIsLast
      <3>3. QED  BY <2>1, <2>2, <2>3, <3>1, <3>2 DEF FinalState
    <2>4. CASE q.op = "commit"
      <3>1. pc[g] \notin {"idle", "reserving", "body"}
        BY <2>1, <2>4 DEF CommitInv, CommitIsLate, CommitInFlight
      <3>2. Private(g) => /\ self[g].actual_micros = asked[g].actual
                          /\ self[g].commit_metadata = asked[g].fields
                          /\ ~asked[g].aborted
        BY <1>2, <2>1, <2>4 DEF SettleInv, Orderly, AskedFor
      <3>3. Private(g) => /\ resv'[r].final.actual = AskedActual(g)
                          /\ resv'[r].final.metadata = AskedMetadata(g)
        BY <2>1, <2>2, <2>4, <3>2 DEF CommitBody, build_commit_body, CommitMetadata, AskedActual,
           AskedMetadata
      <3>4. QED  BY <2>1, <2>2, <2>4, <3>1, <3>2, <3>3 DEF FinalState
    <2>5. QED  BY <2>1, <2>3, <2>4
  <1>5. QED  BY <1>3, <1>4

\* Its own steps do not take back what a guard has asked for.
LEMMA AskedOwn ==
  ASSUME NEW g \in Guards, SystemInv, HoldInv, GuardStep(g)
  PROVE  AskedFor(g)'
  <1> USE DEF SystemInv
  <1>1. TypeOK /\ config' = config /\ resv' = resv
    BY GuardFrame DEF BucketInv
  <1>2. AskedFor(g) /\ Orderly(g)
    BY DEF HoldInv, SettleInv
  <1>3. via[g] # None => via'[g] = via[g]
    BY <1>1, PcFrame DEF CommitInv, ReleaseIsLast, CommitRejects
  <1>4. ASSUME NEW q \in requests', q.from = g, q.op = "commit", Private(g)'
        PROVE  ~asked'[g].aborted
    <2>1. Private(g)
      BY <1>1, <1>4 DEF Private
    <2>2. CASE q \in requests
      <3>1. pc[g] \notin {"idle", "reserving", "body"}
        BY <1>4, <2>2 DEF CommitInv, CommitIsLate, CommitInFlight
      <3>2. QED  BY <1>2, <1>4, <2>1, <2>2, <3>1, AskedFrame DEF AskedFor
    <2>3. CASE q \notin requests
      <3>1. ~self[g].aborted /\ asked' = asked
        BY <1>1, <1>4, <2>3, FinalSentFrame
      <3>2. QED  BY <1>2, <2>1, <3>1 DEF Orderly
    <2>4. QED  BY <2>2, <2>3
  <1>5. ASSUME NEW q \in requests', q.from = g, q.op = "release"
        PROVE  via'[g] # None
    <2>1. CASE q \in requests
      BY <1>2, <1>3, <1>5, <2>1 DEF AskedFor
    <2>2. CASE q \notin requests
      BY <1>1, <1>5, <2>2, FinalSentFrame
    <2>3. QED  BY <2>1, <2>2
  <1>6. ASSUME NEW r \in Guards, resv'[r].by = g
        PROVE  /\ r = Holds(g)' /\ pc'[g] \notin {"idle", "reserving", "body"}
               /\ \/ /\ resv'[r].state = "COMMITTED"
                     /\ Private(g)' => /\ ~asked'[g].aborted
                                       /\ resv'[r].final.actual = AskedActual(g)'
                                       /\ resv'[r].final.metadata = AskedMetadata(g)'
                  \/ resv'[r].state = "RELEASED" /\ via'[g] # None
    <2>1. r = Holds(g) /\ pc[g] \notin {"idle", "reserving", "body"}
      BY <1>1, <1>2, <1>6 DEF AskedFor
    <2>2. Holds(g)' = Holds(g) /\ pc'[g] \notin {"idle", "reserving"}
      BY <1>1, <2>1, KeptFrame
    <2>3. pc'[g] # "body"
      BY <1>1, <2>1, PcFrame
    <2>4. asked' = asked
      BY <2>1, AskedFrame
    <2>5. AskedActual(g)' = AskedActual(g) /\ AskedMetadata(g)' = AskedMetadata(g)
      BY <1>1, <2>4 DEF AskedActual, AskedMetadata
    <2>6. Private(g)' = Private(g)
      BY <1>1 DEF Private
    <2>7. QED
      BY <1>1, <1>2, <1>3, <1>6, <2>1, <2>2, <2>3, <2>4, <2>5, <2>6 DEF AskedFor
  <1>7. QED  BY <1>4, <1>5, <1>6 DEF AskedFor

\* A guard that has been refused, or not let in yet, stays outside.
LEMMA OutsideOwn ==
  ASSUME NEW g \in Guards, SystemInv, HoldInv, GuardStep(g)
  PROVE  Outside(g)'
  <1> USE DEF SystemInv
  <1>1. TypeOK /\ resv' = resv
    BY GuardFrame DEF BucketInv
  <1> SUFFICES ASSUME pc'[g] \in {"idle", "reserving"} \/ outcome'[g] \in Refusals
               PROVE  Untouched(g)'
    BY DEF Outside
  <1>2. pc[g] \in {"idle", "reserving"} \/ outcome[g] \in Refusals
    BY <1>1, PcFrame, RefusalFrame
  <1>3. Untouched(g)
    BY <1>2 DEF HoldInv, Outside
  <1>4. pc[g] \notin {"body", "committing"}
    <2>1. outcome[g] \in Refusals => outcome[g] # None
      BY NoneAssumption DEF Refusals, Outcomes
    <2>2. QED  BY <1>2, <2>1 DEF SettleInv, Orderly
  <1>5. ~charged'[g]
    BY <1>1, <1>3, <1>4, GrantFrame DEF Untouched, Charge
  <1>6. \A q \in requests' : q.from = g => q.op = "reserve"
    <2> SUFFICES ASSUME NEW q \in requests', q.from = g, q.op # "reserve"
                 PROVE  FALSE
      OBVIOUS
    <2>1. q \notin requests
      BY <1>3 DEF Untouched
    <2>2. TypeOK'
      BY BucketStep DEF BucketInv, Next
    <2>3. q.op \in {"commit", "release"}
      BY <2>2 DEF TypeOK, Requests, RequestsOf
    <2>4. QED  BY <1>1, <1>4, <2>1, <2>3, FinalSentFrame
  <1>7. QED  BY <1>1, <1>3, <1>5, <1>6 DEF Untouched

LEMMA OutsideServe ==
  ASSUME NEW q \in requests, SystemInv, HoldInv, Handle(q), UNCHANGED guardVars, NEW g \in Guards
  PROVE  Outside(g)'
  <1> USE DEF SystemInv
  <1>1. /\ requests' \subseteq requests /\ TypeOK
        /\ pc' = pc /\ outcome' = outcome /\ charged' = charged
    BY HandleFrame DEF BucketInv, guardVars
  <1> SUFFICES ASSUME pc[g] \in {"idle", "reserving"} \/ outcome[g] \in Refusals
               PROVE  Untouched(g)'
    BY <1>1 DEF Outside
  <1>2. Untouched(g)
    BY DEF HoldInv, Outside
  <1>3. \A r \in Guards : resv'[r].by # g
    BY <1>1, <1>2, ByFrame DEF Untouched
  <1>4. QED  BY <1>1, <1>2, <1>3 DEF Untouched

\* A receipt has no empty table of extra fields.
LEMMA ExtraIsNotEmpty ==
  ASSUME NEW d \in Fields
  PROVE  ExtraOf(d) # NoFields
  <1>1. NoFields \in Fields /\ DOMAIN NoFields = {}
    BY FieldTypes DEF NoFields
  <1>2. CASE DOMAIN d \ {"psp_ref"} = {}
    BY <1>1, <1>2, NoneAssumption DEF ExtraOf
  <1>3. CASE DOMAIN d \ {"psp_ref"} # {}
    <2>1. ExtraOf(d) = [k \in DOMAIN d \ {"psp_ref"} |-> d[k]]
      BY <1>3 DEF ExtraOf
    <2>2. DOMAIN ExtraOf(d) # {}
      BY <1>3, <2>1
    <2>3. QED  BY <1>1, <2>2
  <1>4. QED  BY <1>2, <1>3

LEMMA ShownStep ==
  ASSUME SystemInv, HoldInv, [Next]_vars, NEW g \in Guards
  PROVE  Shown(g)'
  <1> USE DEF SystemInv
  <1>1. BucketInv /\ TypeOK /\ config' = config
    BY ReservationsLast DEF BucketInv
  <1> SUFFICES ASSUME self'[g].receipt # None
               PROVE  /\ Covers(self[g].receipt.reservation_id, g)'
                      /\ self'[g].receipt.extra # NoFields
                      /\ self'[g].receipt.checkout_hash = config[g].mandate.checkout_hash
    BY <1>1 DEF Shown
  <1>2. ASSUME NEW h \in Guards, config[h] = config[g], self'[g].receipt = self[h].receipt
        PROVE  /\ Covers(self[g].receipt.reservation_id, g)'
               /\ self'[g].receipt.extra # NoFields
               /\ self'[g].receipt.checkout_hash = config[g].mandate.checkout_hash
    <2>1. /\ Covers(self[h].receipt.reservation_id, h)
          /\ self[h].receipt.extra # NoFields
          /\ self[h].receipt.checkout_hash = config[h].mandate.checkout_hash
      BY <1>2 DEF HoldInv, Shown
    <2>2. PICK r : r = self'[g].receipt.reservation_id
      OBVIOUS
    <2>3. Covers(r, g)
      BY <1>2, <2>1, <2>2 DEF Covers, ReservationBody
    <2>4. Covers(r, g)'
      BY <1>1, <2>3, CoversLast
    <2>5. QED  BY <1>2, <2>1, <2>2, <2>4 DEF Covers
  <1>3. ASSUME NEW h \in Guards, GuardStep(h)
        PROVE  /\ Covers(self[g].receipt.reservation_id, g)'
               /\ self'[g].receipt.extra # NoFields
               /\ self'[g].receipt.checkout_hash = config[g].mandate.checkout_hash
    <2>1. CASE self'[g].receipt = self[g].receipt
      BY <1>2, <2>1
    <2>2. CASE g = h /\ CommitSucceeds(h) /\ self'[g].receipt = Receipt(h)
      <3>1. /\ Receipt(g).reservation_id = Holds(g)
            /\ Receipt(g).extra = ExtraOf(self[g].commit_metadata)
            /\ Receipt(g).checkout_hash = config[g].mandate.checkout_hash
        BY DEF Receipt, build_runtime_authority_receipt, Holds
      <3>2. Covers(Holds(g), g)
        BY <2>2 DEF CommitSucceeds, BucketInv, AssertsHold, CoverInv, Handed
      <3>3. PICK r : r = Holds(g)
        OBVIOUS
      <3>4. Covers(r, g)'
        BY <1>1, <3>2, <3>3, CoversLast
      <3>5. self[g].commit_metadata \in Fields
        BY <1>1 DEF TypeOK, Objects
      <3>6. QED  BY <2>2, <3>1, <3>3, <3>4, <3>5, ExtraIsNotEmpty DEF Covers
    <2>3. CASE g = h /\ \E k \in Guards : config[k] = config[h] /\ self'[g] = self[k]
      BY <1>2, <2>3
    <2>4. QED  BY <1>1, <1>3, <2>1, <2>2, <2>3, ReceiptFrame
  <1>4. CASE UNCHANGED guardVars
    BY <1>2, <1>4 DEF guardVars
  <1>5. QED  BY <1>3, <1>4 DEF Next, Serve, Lapse, vars

LEMMA NoDryHoldStep ==
  ASSUME SystemInv, HoldInv, [Next]_vars, NEW r \in Guards
  PROVE  NoDryHold(r)'
  <1> USE DEF SystemInv
  <1>1. BucketInv /\ config' = config
    BY ReservationsLast
  <1>2. CASE Exists(r)
    BY <1>1, <1>2 DEF HoldInv, NoDryHold
  <1>3. CASE ~Exists(r) /\ Exists(r)'
    <2>1. Serve
      BY <1>3, GuardFrame, LapseFrame DEF Next, Lapse, Exists, vars, serverVars, BucketInv
    <2>2. PICK q \in requests : Handle(q)
      BY <2>1 DEF Serve
    <2>3. Create(q) /\ r = q.from
      BY <1>1, <1>3, <2>2, HandleFrame
    <2>4. q.body = ReservationBody(r) /\ ~q.body.dry_run
      BY <1>1, <2>3 DEF Create, BucketInv, OwnRequests
    <2>5. ~config[r].dry_run
      BY <2>4 DEF ReservationBody, build_reservation_body
    <2>6. QED  BY <1>1, <2>5 DEF NoDryHold
  <1>4. QED  BY <1>2, <1>3 DEF NoDryHold

\* A step of another guard leaves all this alone.
LEMMA HoldOthers ==
  ASSUME NEW g \in Guards, NEW h \in Guards \ {g}, SystemInv, HoldInv, GuardStep(g)
  PROVE  AskedFor(h)' /\ Outside(h)'
  <1> USE DEF SystemInv
  <1>1. /\ config' = config /\ resv' = resv
        /\ self'[h] = self[h] /\ outcome'[h] = outcome[h] /\ asked'[h] = asked[h]
        /\ answer'[h] = answer[h] /\ via'[h] = via[h]
        /\ pc'[h] = pc[h] \/ (pc[h] = "done" /\ pc'[h] = "reentered")
    BY OthersFrame DEF BucketInv
  <1>2. \A q \in requests' : q.from = h => q \in requests
    BY GuardFrame
  <1>3. charged'[h] = charged[h]
    BY GrantFrame DEF BucketInv
  <1>4. AskedFor(h) /\ Outside(h)
    BY DEF HoldInv
  <1>5. AskedFor(h)'
    <2>1. /\ Private(h)' = Private(h) /\ Holds(h)' = Holds(h)
          /\ AskedActual(h)' = AskedActual(h) /\ AskedMetadata(h)' = AskedMetadata(h)
      BY <1>1 DEF Private, Holds, AskedActual, AskedMetadata
    <2>2. QED  BY <1>1, <1>2, <1>4, <2>1 DEF AskedFor
  <1>6. Outside(h)'
    BY <1>1, <1>2, <1>3, <1>4 DEF Outside, Untouched
  <1>7. QED  BY <1>5, <1>6

\* The end of a lease is of a hold that nobody has finalized.
LEMMA HoldLapse ==
  ASSUME NEW s \in Guards, SystemInv, HoldInv, Expire(s), UNCHANGED guardVars, NEW g \in Guards
  PROVE  AskedFor(g)' /\ Outside(g)'
  <1> USE DEF SystemInv, BucketInv
  <1>1. /\ requests' = requests /\ answer' = answer /\ config' = config /\ self' = self /\ pc' = pc
        /\ via' = via /\ outcome' = outcome /\ charged' = charged /\ asked' = asked
    BY DEF Expire, guardVars
  <1>2. \A r \in Guards : /\ resv'[r].by = resv[r].by
                          /\ resv[r].state \in {"COMMITTED", "RELEASED"} => resv'[r] = resv[r]
    BY LapseFrame DEF Expire, TypeOK
  <1>3. AskedFor(g) /\ Outside(g)
    BY DEF HoldInv
  <1>4. AskedFor(g)'
    <2>1. /\ Private(g)' = Private(g) /\ Holds(g)' = Holds(g)
          /\ AskedActual(g)' = AskedActual(g) /\ AskedMetadata(g)' = AskedMetadata(g)
      BY <1>1 DEF Private, Holds, AskedActual, AskedMetadata
    <2>2. \A r \in Guards : resv'[r].by = g => resv[r].by = g /\ resv'[r] = resv[r]
      BY <1>2, <1>3 DEF AskedFor
    <2>3. QED  BY <1>1, <1>3, <2>1, <2>2 DEF AskedFor
  <1>5. Outside(g)'
    BY <1>1, <1>2, <1>3 DEF Outside, Untouched
  <1>6. QED  BY <1>4, <1>5

LEMMA HoldStep ==
  ASSUME SystemInv, HoldInv, [Next]_vars
  PROVE  HoldInv'
  <1> USE DEF SystemInv
  <1> SUFFICES ASSUME NEW g \in Guards
               PROVE  AskedFor(g)' /\ Outside(g)'
    BY ShownStep, NoDryHoldStep DEF HoldInv
  <1>1. CASE GuardStep(g)
    BY <1>1, AskedOwn, OutsideOwn DEF BucketInv, HoldInv
  <1>2. CASE \E h \in Guards \ {g} : GuardStep(h)
    BY <1>2, HoldOthers
  <1>3. CASE Serve
    BY <1>3, AskedServe, OutsideServe DEF Serve, BucketInv, HoldInv
  <1>4. CASE Lapse
    BY <1>4, HoldLapse DEF Lapse
  <1>5. CASE UNCHANGED vars
    <2>1. /\ requests' = requests /\ answer' = answer /\ config' = config /\ self' = self
          /\ pc' = pc /\ via' = via /\ outcome' = outcome /\ charged' = charged /\ asked' = asked
          /\ resv' = resv
      BY <1>5 DEF vars, serverVars, guardVars
    <2>2. QED
      BY <2>1 DEF HoldInv, AskedFor, Outside, Private, Holds, AskedActual,
         AskedMetadata, Untouched
  <1>6. QED  BY <1>1, <1>2, <1>3, <1>4, <1>5 DEF Next

LEMMA HoldAlways == Spec => [](SystemInv /\ HoldInv)
  <1>1. SystemInv /\ HoldInv /\ [Next]_vars => HoldInv'
    BY HoldStep
  <1>2. Init => HoldInv
    BY HoldInit
  <1>3. QED  BY <1>1, <1>2, SystemAlways, PTL DEF Spec

-----------------------------------------------------------------------------
(***************************************************************************)
(* The theorems.                                                           *)
(***************************************************************************)
\* Whoever finalizes a hold was handed it, and does with it what its body asked
\* by its end: no commit of an aborted body, none for another amount or other
\* fields, no release but by a branch of __exit__, and no abort nobody asked
\* for; whether or not the guard lives to learn of it (guard.py:213-258).
THEOREM FinalsAreAsked == Spec => []FinalIsAsked
  <1>1. SystemInv /\ HoldInv => FinalIsAsked
    <2> SUFFICES ASSUME SystemInv, HoldInv, NEW g \in Guards, NEW r \in Guards, resv[r].by = g
                 PROVE  /\ r = Holds(g)
                        /\ resv[r].state = IF via[g] = None THEN "COMMITTED" ELSE "RELEASED"
                        /\ Private(g) /\ via[g] = None =>
                             /\ ~asked[g].aborted
                             /\ resv[r].final.actual = AskedActual(g)
                             /\ resv[r].final.metadata = AskedMetadata(g)
                        /\ Private(g) /\ via[g] = "aborted" => asked[g].aborted
      BY DEF FinalIsAsked
    <2>1. AskedFor(g) /\ Orderly(g)
      BY DEF HoldInv, SystemInv, SettleInv
    <2>2. resv[r].state = "COMMITTED" => via[g] = None
      BY DEF SystemInv, CommitInv, CommitIsLate, CommitApplied
    <2>3. Private(g) /\ via[g] = "aborted" => asked[g].aborted
      BY <2>1 DEF Orderly
    <2>4. QED  BY <2>1, <2>2, <2>3 DEF AskedFor
  <1>2. QED  BY <1>1, HoldAlways, PTL

\* The guards of one payment that were let in share one hold and have asked for
\* it in the same words: nobody is let in on a hold made for other terms, and
\* nobody makes a second (mapping.py:46-67, 201-225).
THEOREM HoldsAreOne == Spec => []OneHoldPerPayment
  <1>1. BucketInv /\ CoverInv => OneHoldPerPayment
    <2> SUFFICES ASSUME BucketInv, CoverInv, NEW g \in Guards, NEW h \in Guards,
                        Holds(g) # None, Holds(h) # None, config[g].tenant = config[h].tenant,
                        SamePayment(config[g].mandate, config[h].mandate)
                 PROVE  Holds(g) = Holds(h) /\ ReservationBody(g) = ReservationBody(h)
      BY DEF OneHoldPerPayment
    <2>1. Covers(Holds(g), g) /\ Covers(Holds(h), h)
      BY DEF CoverInv, Handed
    <2>2. config[g] \in Configs /\ config[h] \in Configs
      BY DEF BucketInv, TypeOK
    <2>3. ReservationBody(g).idempotency_key = ReservationBody(h).idempotency_key
      BY <2>2, ReserveKey DEF ReservationBody
    <2>4. Holds(g) = Holds(h)
      BY <2>1, <2>3 DEF Covers, BucketInv, OnePerBucket
    <2>5. QED  BY <2>1, <2>4 DEF Covers
  <1>2. QED  BY <1>1, CoverAlways, PTL

\* A dry run and a refused with statement move no money, make no hold, and
\* neither finalize one nor have a request under way that would
\* (guard.py:158-202).
THEOREM RefusalsAreUntouched == Spec => []RefusedIsUntouched
  <1>1. SystemInv /\ HoldInv => RefusedIsUntouched
    <2> SUFFICES ASSUME SystemInv, HoldInv, NEW g \in Guards
                 PROVE  /\ config[g].dry_run \/ outcome[g] \in Refusals => Untouched(g)
                        /\ config[g].dry_run => Holds(g) = None /\ ~Exists(g)
      BY DEF RefusedIsUntouched
    <2> USE DEF SystemInv, BucketInv, TypeOK
    <2>1. CASE outcome[g] \in Refusals /\ ~config[g].dry_run
      BY <2>1 DEF HoldInv, Outside
    <2>2. CASE config[g].dry_run
      <3>1. Holds(g) = None /\ ~Exists(g)
        BY <2>2 DEF CoverInv, Handed, HoldInv, NoDryHold
      <3>2. ~charged[g]
        BY <3>1 DEF CoverInv, Spent
      <3>3. \A q \in requests : q.from = g => q.op = "reserve"
        BY <3>1, NoneAssumption DEF SettleInv, Faithful, Requests, RequestsOf
      <3>4. \A r \in Guards : resv[r].by # g
        BY <3>1, NoneAssumption DEF HoldInv, AskedFor
      <3>5. QED  BY <3>1, <3>2, <3>3, <3>4 DEF Untouched
    <2>3. QED  BY <2>1, <2>2
  <1>2. QED  BY <1>1, HoldAlways, PTL

\* A hold that covers a guard was evaluated with its mandate's checkout hash, and
\* with another only if the mandate has none and the caller supplies it.
LEMMA CheckoutEvaluated ==
  ASSUME NEW g \in Guards, TypeOK, NEW r \in Guards, Covers(r, g)
  PROVE  LET evaluated == resv[r].body.subject.dimensions
             extra == config[g].extra_dimensions
             hash == config[g].mandate.checkout_hash
         IN  /\ hash # None => "checkout_hash" \in DOMAIN evaluated /\ evaluated["checkout_hash"] = hash
             /\ hash = None /\ "checkout_hash" \in DOMAIN evaluated =>
                  "checkout_hash" \in DOMAIN extra /\ evaluated["checkout_hash"] = extra["checkout_hash"]
  <1> DEFINE c == config[g]
             hash == c.mandate.checkout_hash
             canonical == canonical_dimensions(c)
             evaluated == resv[r].body.subject.dimensions
  <1>1. c \in Configs /\ IsMandate(c.mandate)
    BY ConfigsAssumption DEF TypeOK
  <1>2. evaluated = [d \in DOMAIN canonical \cup DOMAIN c.extra_dimensions |->
                       IF d \in DOMAIN canonical THEN canonical[d] ELSE c.extra_dimensions[d]]
    BY DEF Covers, ReservationBody, build_reservation_body, build_subject
  <1>3. ASSUME hash # None
        PROVE  Truthy(hash)
    <2>1. hash \in DOMAIN Length /\ Length[hash] \in 1..256
      BY <1>1, <1>3 DEF IsMandate, HasLength
    <2>2. hash # ""
      <3>1. Length[hash] # 0
        BY <2>1
      <3> HIDE DEF hash
      <3>2. QED  BY <2>1, <3>1, StringAssumption
    <2>3. hash # Absent
      BY <2>1, StringAssumption
    <2>4. QED  BY <1>3, <2>2, <2>3 DEF Truthy
  <1>4. hash = None => ~Truthy(hash)
    BY DEF Truthy
  <1>5. /\ "checkout_hash" \in DOMAIN canonical <=> Truthy(hash)
        /\ Truthy(hash) => canonical["checkout_hash"] = hash
    BY DEF canonical_dimensions
  <1> HIDE DEF canonical
  <1>6. QED  BY <1>2, <1>3, <1>4, <1>5

\* A receipt, if nobody but the body had the guard, agrees with the reservation
\* the server evaluated and with the commit it settled, also in the checkout hash,
\* but for one the mandate does not have and the caller supplies
\* (guard.py:387-408, mapping.py:134-143).
THEOREM ReceiptsAreTruthful == Spec => []ReceiptIsTruthful
  <1>1. SystemInv /\ HoldInv => ReceiptIsTruthful
    <2> SUFFICES ASSUME SystemInv, HoldInv, NEW g \in Guards,
                        self[g].receipt # None, ~config[g].shared
                 PROVE  ReceiptAgrees(self[g].receipt) /\ CheckoutAgrees(g, self[g].receipt)
      BY DEF ReceiptIsTruthful
    <2>1. ReceiptAgrees(self[g].receipt) /\ self[g].receipt.reservation_id \in Guards
      BY DEF SystemInv, SettleInv, Informed
    <2>2. /\ Covers(self[g].receipt.reservation_id, g)
          /\ self[g].receipt.checkout_hash = config[g].mandate.checkout_hash
      BY DEF HoldInv, Shown
    <2>3. CheckoutAgrees(g, self[g].receipt)
      BY <2>1, <2>2, CheckoutEvaluated DEF CheckoutAgrees, SystemInv, BucketInv
    <2>4. QED  BY <2>1, <2>3
  <1>2. QED  BY <1>1, HoldAlways, PTL

\* Receipts of one settlement are equal but for the checkout's hash.
LEMMA SameSettlement ==
  ASSUME NEW a \in Receipts, NEW b \in Receipts, a.reservation_id = b.reservation_id,
         ReceiptAgrees(a), ReceiptAgrees(b), a.extra # NoFields, b.extra # NoFields
  PROVE  [a EXCEPT !.checkout_hash = b.checkout_hash] = b
  <1>1. /\ a.decision = b.decision /\ a.amount_micros = b.amount_micros /\ a.tenant = b.tenant
        /\ a.ap2_transaction_id = b.ap2_transaction_id
        /\ a.policy_keys.host = b.policy_keys.host
    BY DEF ReceiptAgrees
  <1>2. a.policy_keys = b.policy_keys
    BY <1>1 DEF Receipts, build_receipt_policy_keys
  <1>3. PICK fields : FieldsAgree(a, fields) /\ FieldsAgree(b, fields)
    BY DEF ReceiptAgrees
  <1>4. a.psp_ref = b.psp_ref
    BY <1>3 DEF FieldsAgree
  <1>5. a.extra = b.extra
    <2>1. (IF a.extra = None THEN NoFields ELSE a.extra)
            = (IF b.extra = None THEN NoFields ELSE b.extra)
      BY <1>3 DEF FieldsAgree
    <2>2. QED  BY <2>1
  <1>6. QED  BY <1>1, <1>2, <1>4, <1>5 DEF Receipts

\* However many guards a payment was retried with, their receipts show the one
\* settlement there was (guard.py:387-408).
THEOREM ReceiptsAgree == Spec => []ReceiptsConcur
  <1>1. SystemInv /\ HoldInv => ReceiptsConcur
    <2> SUFFICES ASSUME SystemInv, HoldInv, NEW g \in Guards, NEW h \in Guards,
                        self[g].receipt # None, self[h].receipt # None,
                        ~config[g].shared, ~config[h].shared,
                        config[g].tenant = config[h].tenant,
                        SamePayment(config[g].mandate, config[h].mandate)
                 PROVE  [self[g].receipt EXCEPT !.checkout_hash = self[h].receipt.checkout_hash]
                          = self[h].receipt
      BY DEF ReceiptsConcur
    <2> USE DEF SystemInv, BucketInv
    <2>1. /\ config[g] \in Configs /\ config[h] \in Configs
          /\ self[g].receipt \in Receipts /\ self[h].receipt \in Receipts
      BY DEF TypeOK, Objects
    <2>2. /\ Covers(self[g].receipt.reservation_id, g) /\ self[g].receipt.extra # NoFields
          /\ Covers(self[h].receipt.reservation_id, h) /\ self[h].receipt.extra # NoFields
      BY DEF HoldInv, Shown
    <2>3. ReservationBody(g).idempotency_key = ReservationBody(h).idempotency_key
      BY <2>1, ReserveKey DEF ReservationBody
    <2>4. self[g].receipt.reservation_id = self[h].receipt.reservation_id
      BY <2>2, <2>3 DEF Covers, OnePerBucket
    <2>5. ReceiptAgrees(self[g].receipt) /\ ReceiptAgrees(self[h].receipt)
      BY DEF SettleInv, Informed
    <2>6. QED  BY <2>1, <2>2, <2>4, <2>5, SameSettlement
  <1>2. QED  BY <1>1, HoldAlways, PTL

\* Two attempts at one payment are never told that it ended differently: what
\* each is told is what the server has, and that does not change (guard.py:260-348).
THEOREM ReportsAreOne == Spec => []ReportsAgree
  <1>1. SystemInv /\ CommitsLast => ReportsAgree
    BY ToldIsSo DEF ReportsAgree, ToldSo, Payment
  <1>2. QED  BY <1>1, SystemAlways, CommitsLastAlways, PTL
=============================================================================
