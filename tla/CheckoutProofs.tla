--------------------------- MODULE CheckoutProofs ---------------------------
(***************************************************************************)
(* Theorems about Checkout, for every set of guards, configs, amounts and  *)
(* exception names, and their proofs.                                      *)
(***************************************************************************)
EXTENDS Checkout, TLAPS

-----------------------------------------------------------------------------
(***************************************************************************)
(* Types.                                                                  *)
(***************************************************************************)
ServerTypes ==
  /\ resv \in [Guards -> Reservations]
  /\ requests \subseteq Requests
  /\ answer \in [Guards -> [Ops -> Responses]]

GuardTypes ==
  /\ config \in [Guards -> Configs]
  /\ self \in [Guards -> Objects]
  /\ pc \in [Guards -> PcValues]
  /\ via \in [Guards -> ReleaseCauses \cup {None}]
  /\ outcome \in [Guards -> Outcomes \cup {None}]
  /\ charged \in [Guards -> BOOLEAN]
  /\ asked \in [Guards -> AskedTypes]

\* The constant answers the server and the SDK give are answers.
LEMMA AnswerTypes ==
  /\ Closed \in Responses /\ Awaiting \in Responses /\ TransportDown \in Responses
  /\ ServerError \in Responses /\ Rejected \in Responses /\ Malformed \in Responses
  /\ NoCall \in [Ops -> Responses]
  /\ \A code \in Terminal \cup {"ALLOW", "DENY", None}, rid \in Guards \cup {None},
        status \in {"2xx", "4xx"} : Response(status, code, rid) \in Responses
  BY DEF Closed, Awaiting, TransportDown, ServerError, Rejected, Malformed, NoCall,
         Response, Responses, Codes, Terminal

\* Sending a typed request and hanging up keep the wire typed.
LEMMA SendTypes ==
  ASSUME NEW g \in Guards, NEW op \in Ops, NEW tenant, NEW rid, NEW body,
         [op |-> op, from |-> g, tenant |-> tenant, rid |-> rid, body |-> body] \in Requests,
         ServerTypes, Send(g, op, tenant, rid, body), UNCHANGED resv
  PROVE  ServerTypes'
  <1>1. [NoCall EXCEPT ![op] = Awaiting] \in [Ops -> Responses]
    BY AnswerTypes
  <1>2. answer' \in [Guards -> [Ops -> Responses]]
    BY <1>1 DEF Send, ServerTypes
  <1>3. requests' \subseteq Requests
    BY DEF Send, ServerTypes
  <1>4. QED  BY <1>2, <1>3 DEF ServerTypes

LEMMA HangupTypes ==
  ASSUME NEW g \in Guards, ServerTypes, Hangup(g), UNCHANGED <<resv, requests>>
  PROVE  ServerTypes'
  BY AnswerTypes DEF ServerTypes, Hangup

\* The end of the with statement keeps everything but self typed.
LEMMA EndTypes ==
  ASSUME NEW g \in Guards, NEW o \in Outcomes, TypeOK, End(g, o),
         self' \in [Guards -> Objects]
  PROVE  TypeOK'
  <1>1. ServerTypes /\ ServerTypes'
    BY HangupTypes DEF TypeOK, ServerTypes, End
  <1>2. pc' \in [Guards -> PcValues] /\ outcome' \in [Guards -> Outcomes \cup {None}]
    BY DEF TypeOK, End, PcValues
  <1>3. QED  BY <1>1, <1>2 DEF TypeOK, ServerTypes, End

\* The bodies a guard builds are the ones the types list.
LEMMA BodyTypes ==
  ASSUME NEW g \in Guards, GuardTypes
  PROVE  /\ config[g].tenant \in Tenants
         /\ ReservationBody(g) \in ReserveBodies
         /\ CommitBody(g) \in CommitBodies
         /\ \A n \in ReleaseReasons, e \in ReleaseSuffixes :
              build_release_body(config[g].mandate, n, e) \in ReleaseBodies
  <1> USE DEF GuardTypes
  <1>1. config[g] \in Configs /\ self[g] \in Objects
    OBVIOUS
  <1>2. config[g].tenant \in Tenants
    BY <1>1 DEF Tenants
  <1>3. ReservationBody(g) \in ReserveBodies
    BY <1>1 DEF ReservationBody, ReserveBodies
  <1>4. CommitBody(g) \in CommitBodies
    <2>1. /\ self[g].actual_micros \in Actuals \cup {None}
          /\ CommitMetadata(g) \in Fields \cup {None}
      BY <1>1 DEF Objects, CommitMetadata
    <2>2. \E c \in Configs, a \in Actuals \cup {None}, m \in Fields \cup {None} :
            CommitBody(g) = build_commit_body(c.mandate, a, m)
      BY <1>1, <2>1 DEF CommitBody
    <2>3. QED  BY <2>2 DEF CommitBodies
  <1>5. \A n \in ReleaseReasons, e \in ReleaseSuffixes :
          build_release_body(config[g].mandate, n, e) \in ReleaseBodies
    BY <1>1 DEF ReleaseBodies
  <1>6. QED  BY <1>2, <1>3, <1>4, <1>5

\* Assigning one attribute keeps an object typed.
LEMMA ObjectTypes ==
  ASSUME NEW o \in Objects
  PROVE  /\ \A d \in Decisions \cup {None} :
              /\ [o EXCEPT !.decision = d] \in Objects
              /\ \A r \in Guards \cup {None} :
                   [o EXCEPT !.decision = d, !.reservation_id = r] \in Objects
         /\ \A a \in Actuals \cup {None} : [o EXCEPT !.actual_micros = a] \in Objects
         /\ \A m \in Fields : [o EXCEPT !.commit_metadata = m] \in Objects
         /\ [o EXCEPT !.aborted = TRUE] \in Objects
         /\ \A r \in Receipts \cup {None} :
              [o EXCEPT !.committed = TRUE, !.receipt = r] \in Objects
  BY DEF Objects

\* dict.update keeps the last value of each keyword.
LEMMA LastOneWins ==
  ASSUME NEW d, NEW e
  PROVE  Latest(d, e) = Updated(d, e)
  BY DEF Updated, Latest

\* Dictionaries are closed under update and restriction.
LEMMA FieldTypes ==
  ASSUME NEW d \in Fields, NEW e \in Fields
  PROVE  /\ NoFields \in Fields
         /\ Updated(d, e) \in Fields
         /\ DOMAIN d \subseteq FieldNames /\ \A k \in DOMAIN d : d[k] \in FieldValues
         /\ PspRef(d) \in FieldValues \cup {None}
         /\ ExtraOf(d) \in Fields \cup {None}
  <1>1. PICK D \in SUBSET FieldNames : d \in [D -> FieldValues]
    BY DEF Fields
  <1>2. PICK E \in SUBSET FieldNames : e \in [E -> FieldValues]
    BY DEF Fields
  <1>3. DOMAIN d \subseteq FieldNames /\ \A k \in DOMAIN d : d[k] \in FieldValues
    BY <1>1
  <1>4. NoFields \in Fields
    <2>1. NoFields \in [{} -> FieldValues]
      BY DEF NoFields
    <2>2. QED  BY <2>1 DEF Fields
  <1>5. Updated(d, e) \in Fields
    <2>1. Updated(d, e) \in [D \cup E -> FieldValues]
      BY <1>1, <1>2 DEF Updated
    <2>2. D \cup E \in SUBSET FieldNames
      OBVIOUS
    <2>3. QED  BY <2>1, <2>2 DEF Fields
  <1>6. PspRef(d) \in FieldValues \cup {None}
    BY <1>3 DEF PspRef
  <1>7. ExtraOf(d) \in Fields \cup {None}
    <2> DEFINE others == DOMAIN d \ {"psp_ref"}
    <2>1. [k \in others |-> d[k]] \in [others -> FieldValues]
      BY <1>3
    <2>2. others \in SUBSET FieldNames
      BY <1>3
    <2>3. [k \in others |-> d[k]] \in Fields
      BY <2>1, <2>2 DEF Fields
    <2>4. QED  BY <2>3 DEF ExtraOf
  <1>8. QED  BY <1>3, <1>4, <1>5, <1>6, <1>7

\* The receipt of a guard with a typed object is typed.
LEMMA ReceiptType ==
  ASSUME NEW g \in Guards, GuardTypes
  PROVE  Receipt(g) \in Receipts
  <1>1. config[g] \in Configs /\ config[g].tenant \in Tenants
    BY BodyTypes DEF GuardTypes
  <1>2. /\ self[g].actual_micros \in Actuals \cup {None}
        /\ self[g].commit_metadata \in Fields
        /\ self[g].reservation_id \in Guards \cup {None}
        /\ self[g].decision \in Decisions \cup {None}
    BY DEF GuardTypes, Objects
  <1>3. (IF self[g].actual_micros # None THEN self[g].actual_micros
                                       ELSE amount_micros(config[g].mandate)) \in Amounts
    BY <1>1, <1>2 DEF Amounts
  <1>4. /\ PspRef(self[g].commit_metadata) \in FieldValues \cup {None}
        /\ ExtraOf(self[g].commit_metadata) \in Fields \cup {None}
    BY <1>2, FieldTypes
  <1>5. QED
    BY <1>1, <1>2, <1>3, <1>4 DEF Receipt, build_runtime_authority_receipt, Receipts

\* What the body asks of a guard is typed.
LEMMA AskTypes ==
  ASSUME NEW g \in Guards, NEW field, NEW value, asked \in [Guards -> AskedTypes],
         Ask(g, field, value), [asked[g] EXCEPT ![field] = value] \in AskedTypes
  PROVE  asked' \in [Guards -> AskedTypes]
  <1>1. [asked EXCEPT ![g][field] = value] = [asked EXCEPT ![g] = [asked[g] EXCEPT ![field] = value]]
    OBVIOUS
  <1>2. QED  BY <1>1 DEF Ask

\* What _decision is assigned is typed.
LEMMA DecidedType ==
  ASSUME NEW g \in Guards, NEW a, self \in [Guards -> Objects]
  PROVE  Decided(g, a) \in Decisions \cup {None}
  BY DEF Decided, Objects

LEMMA AfterReleaseType ==
  ASSUME NEW cause, NEW released \in BOOLEAN
  PROVE  AfterRelease(cause, released) \in Outcomes
  BY DEF AfterRelease, Outcomes, CommitFailures

-----------------------------------------------------------------------------
\* A step of a guard keeps the types.
LEMMA GuardStepTypes ==
  ASSUME NEW g \in Guards, TypeOK, AssertsHold, GuardStep(g)
  PROVE  TypeOK'
  <1> USE DEF TypeOK
  <1>0. ServerTypes /\ GuardTypes
    BY DEF ServerTypes, GuardTypes
  <1>1. CASE EnterInvalid(g)
    BY <1>1, EndTypes DEF EnterInvalid, Outcomes
  <1>2. CASE Enter(g)
    <2>1. ServerTypes'
      <3>1. [op |-> "reserve", from |-> g, tenant |-> config[g].tenant,
             rid |-> None, body |-> ReservationBody(g)] \in Requests
        BY <1>0, BodyTypes DEF Requests, RequestsOf
      <3>2. QED  BY <1>0, <1>2, <3>1, SendTypes DEF Enter, Ops
    <2>2. pc' \in [Guards -> PcValues]
      BY <1>2 DEF Enter, PcValues
    <2>3. QED  BY <1>2, <2>1, <2>2 DEF Enter, ServerTypes
  <1>3. CASE EnterRaises(g)
    <2>1. self' \in [Guards -> Objects]
      BY <1>3, DecidedType, ObjectTypes DEF EnterRaises
    <2>2. QED  BY <1>3, <2>1, EndTypes DEF EnterRaises, Outcomes
  <1>4. CASE EnterReturns(g)
    <2>1. ServerTypes'
      BY <1>0, <1>4, HangupTypes DEF EnterReturns
    <2>2. pc' \in [Guards -> PcValues]
      BY <1>4 DEF EnterReturns, PcValues
    <2>3. answer[g]["reserve"].rid \in Guards \cup {None}
      BY DEF Ops, Responses
    <2>4. self' \in [Guards -> Objects]
      <3>1. self' = [self EXCEPT ![g] =
              [self[g] EXCEPT !.decision = Decided(g, answer[g]["reserve"]),
                              !.reservation_id = answer[g]["reserve"].rid]]
        BY <1>4 DEF EnterReturns
      <3>2. QED  BY <2>3, <3>1, DecidedType, ObjectTypes
    <2>5. QED  BY <1>4, <2>1, <2>2, <2>4 DEF EnterReturns, ServerTypes
  <1>5. CASE EnterEscapes(g)
    BY <1>5, EndTypes DEF EnterEscapes, Outcomes
  <1>6. CASE Charge(g)
    BY <1>6 DEF Charge, serverVars
  <1>7. CASE abort(g)
    <2>1. self' \in [Guards -> Objects]
      BY <1>7, ObjectTypes DEF abort
    <2>2. [asked[g] EXCEPT !.aborted = TRUE] \in AskedTypes
      BY DEF AskedTypes
    <2>3. asked' \in [Guards -> AskedTypes]
      BY <1>7, <2>2, AskTypes DEF abort
    <2>4. QED  BY <1>7, <2>1, <2>3 DEF abort, serverVars
  <1>8. CASE \E override \in Overrides : set_actual_micros(g, override)
    <2>1. PICK override \in Overrides : set_actual_micros(g, override)
      BY <1>8
    <2>2. override.value \in Actuals
      BY <2>1, OverridesAssumption, ScaleAssumption DEF set_actual_micros, validate_micros, Actuals
    <2>3. self' \in [Guards -> Objects]
      BY <2>1, <2>2, ObjectTypes DEF set_actual_micros
    <2>4. [asked[g] EXCEPT !.actual = override.value] \in AskedTypes
      BY <2>2 DEF AskedTypes
    <2>5. asked' \in [Guards -> AskedTypes]
      BY <2>1, <2>4, AskTypes DEF set_actual_micros
    <2>6. QED  BY <2>1, <2>3, <2>5 DEF set_actual_micros, serverVars
  <1>9. CASE \E fields \in Fields : attach_receipt_fields(g, fields)
    <2>1. PICK fields \in Fields : attach_receipt_fields(g, fields)
      BY <1>9
    <2>2. self[g].commit_metadata \in Fields /\ asked[g].fields \in Fields
      BY DEF Objects, AskedTypes
    <2>3. self' \in [Guards -> Objects]
      <3>1. Updated(self[g].commit_metadata, fields) \in Fields
        BY <2>2, FieldTypes
      <3>2. self' = [self EXCEPT ![g] =
              [self[g] EXCEPT !.commit_metadata = Updated(self[g].commit_metadata, fields)]]
        BY <2>1 DEF attach_receipt_fields
      <3>3. QED  BY <3>1, <3>2, ObjectTypes
    <2>4. [asked[g] EXCEPT !.fields = Latest(asked[g].fields, fields)] \in AskedTypes
      <3>1. Latest(asked[g].fields, fields) \in Fields
        BY <2>2, FieldTypes, LastOneWins
      <3>2. QED  BY <3>1 DEF AskedTypes
    <2>5. asked' \in [Guards -> AskedTypes]
      BY <2>1, <2>4, AskTypes DEF attach_receipt_fields
    <2>6. QED  BY <2>1, <2>3, <2>5 DEF attach_receipt_fields, serverVars
  <1>10. ASSUME NEW cause \in ReleaseCauses,
                NEW n \in ReleaseReasons, NEW e \in ReleaseSuffixes,
                pc[g] \in {"body", "committing"},
                StartRelease(g, cause, n, e)
         PROVE  TypeOK'
    <2>1. self[g].reservation_id \in Guards
      BY <1>10 DEF Objects, AssertsHold, Holds
    <2>2. [op |-> "release", from |-> g, tenant |-> config[g].tenant,
           rid |-> self[g].reservation_id,
           body |-> build_release_body(config[g].mandate, n, e)] \in Requests
      BY <1>0, <2>1, BodyTypes DEF Requests, RequestsOf
    <2>3. ServerTypes'
      BY <1>0, <1>10, <2>2, SendTypes DEF StartRelease, Ops
    <2>4. pc' \in [Guards -> PcValues] /\ via' \in [Guards -> ReleaseCauses \cup {None}]
      BY <1>10 DEF StartRelease, PcValues
    <2>5. QED  BY <1>10, <2>3, <2>4 DEF StartRelease, ServerTypes
  <1>11. CASE \E exc_name \in ExcNames : BodyRaises(g, exc_name)
    BY <1>11, <1>10 DEF BodyRaises, ReleaseCauses, ReleaseReasons, ReleaseSuffixes
  <1>12. CASE BodyAborts(g)
    BY <1>12, <1>10 DEF BodyAborts, ReleaseCauses, ReleaseReasons, ReleaseSuffixes
  <1>13. CASE BodyReturns(g)
    <2>1. self[g].reservation_id \in Guards
      BY <1>13 DEF BodyReturns, Objects, AssertsHold, Holds
    <2>2. ServerTypes'
      <3>1. [op |-> "commit", from |-> g, tenant |-> config[g].tenant,
             rid |-> self[g].reservation_id, body |-> CommitBody(g)] \in Requests
        BY <1>0, <2>1, BodyTypes DEF Requests, RequestsOf
      <3>2. QED  BY <1>0, <1>13, <3>1, SendTypes DEF BodyReturns, Ops
    <2>3. pc' \in [Guards -> PcValues]
      BY <1>13 DEF BodyReturns, PcValues
    <2>4. QED  BY <1>13, <2>2, <2>3 DEF BodyReturns, ServerTypes
  <1>14. CASE CommitSucceeds(g)
    <2>1. Receipt(g) \in Receipts
      BY <1>0, ReceiptType
    <2>2. self' \in [Guards -> Objects]
      <3> DEFINE r == IF config[g].emit_receipt THEN Receipt(g) ELSE self[g].receipt
      <3>1. self' = [self EXCEPT ![g] = [self[g] EXCEPT !.committed = TRUE, !.receipt = r]]
        BY <1>14 DEF CommitSucceeds
      <3>2. r \in Receipts \cup {None}
        BY <2>1 DEF Objects
      <3>3. [self[g] EXCEPT !.committed = TRUE, !.receipt = r] \in Objects
        BY <3>2, ObjectTypes
      <3>4. QED  BY <3>1, <3>3
    <2>3. QED  BY <1>14, <2>2, EndTypes DEF CommitSucceeds, Outcomes
  <1>15. CASE CommitUncertain(g)
    BY <1>15, EndTypes DEF CommitUncertain, Outcomes
  <1>16. CASE CommitRaises(g)
    BY <1>16, EndTypes DEF CommitRaises, Outcomes
  <1>17. CASE CommitEscapes(g)
    BY <1>17, EndTypes DEF CommitEscapes, Outcomes
  <1>18. CASE CommitRejects(g)
    <2>1. answer[g]["commit"] \in Responses
      BY DEF Ops
    <2>2. answer[g]["commit"].code \in ReleaseReasons
      BY <2>1 DEF Responses, ReleaseReasons
    <2>3. QED  BY <1>18, <2>2, <1>10 DEF CommitRejects, ReleaseCauses, ReleaseSuffixes
  <1>19. CASE ReleaseAnswered(g)
    BY <1>19, AfterReleaseType, EndTypes DEF ReleaseAnswered
  <1>20. CASE ReleaseRaises(g)
    BY <1>20, AfterReleaseType, EndTypes DEF ReleaseRaises
  <1>21. CASE ReleaseEscapes(g)
    BY <1>21, EndTypes DEF ReleaseEscapes, Outcomes
  <1>22. CASE TransportFails(g)
    BY <1>22, AnswerTypes DEF TransportFails, guardVars
  <1>23. CASE Crash(g)
    <2>1. ServerTypes'
      BY <1>0, <1>23, HangupTypes DEF Crash
    <2>2. pc' \in [Guards -> PcValues]
      BY <1>23 DEF Crash, PcValues
    <2>3. QED  BY <1>23, <2>1, <2>2 DEF Crash, ServerTypes
  <1>24. CASE \E h \in Guards : EnterAgain(g, h)
    <2>1. PICK h \in Guards : EnterAgain(g, h)
      BY <1>24
    <2>2. ServerTypes'
      <3>1. [op |-> "reserve", from |-> g, tenant |-> config[g].tenant,
             rid |-> None, body |-> ReservationBody(g)] \in Requests
        BY <1>0, BodyTypes DEF Requests, RequestsOf
      <3>2. QED  BY <1>0, <2>1, <3>1, SendTypes DEF EnterAgain, Ops
    <2>3. pc' \in [Guards -> PcValues] /\ self' \in [Guards -> Objects]
      BY <2>1 DEF EnterAgain, PcValues
    <2>4. QED  BY <2>1, <2>2, <2>3 DEF EnterAgain, ServerTypes
  <1>25. QED
    BY <1>1, <1>2, <1>3, <1>4, <1>5, <1>6, <1>7, <1>8, <1>9, <1>11, <1>12, <1>13,
       <1>14, <1>15, <1>16, <1>17, <1>18, <1>19, <1>20, <1>21, <1>22, <1>23, <1>24
       DEF GuardStep, Proceed, Fail, Leave, Process

\* Ending a reservation keeps it typed.
LEMMA ReservationTypes ==
  ASSUME NEW v \in Reservations
  PROVE  /\ [v EXCEPT !.state = "EXPIRED"] \in Reservations
         /\ \A state \in {"COMMITTED", "RELEASED"}, final \in CommitBodies \cup ReleaseBodies,
              by \in Guards :
              [v EXCEPT !.state = state, !.final = final, !.by = by] \in Reservations
  BY DEF Reservations

\* Handling a request keeps the wire typed when the reservations stay typed.
LEMMA ReplyTypes ==
  ASSUME NEW q \in requests, NEW a \in Responses, ServerTypes, Reply(q, a),
         resv' \in [Guards -> Reservations]
  PROVE  ServerTypes'
  <1>1. q.from \in Guards /\ q.op \in Ops
    BY DEF ServerTypes, Requests, RequestsOf, Ops
  <1>2. answer' \in [Guards -> [Ops -> Responses]]
    <2>1. [answer[q.from] EXCEPT ![q.op] = a] \in [Ops -> Responses]
      BY <1>1 DEF ServerTypes
    <2>2. QED  BY <1>1, <2>1 DEF ServerTypes, Reply
  <1>3. QED  BY <1>2 DEF ServerTypes, Reply

\* The requests that finalize a reservation name one.
LEMMA HandleTypes ==
  ASSUME NEW q \in requests, ServerTypes, Handle(q)
  PROVE  ServerTypes'
  <1> USE AnswerTypes
  <1>1. resv \in [Guards -> Reservations] /\ q \in Requests
    BY DEF ServerTypes
  <1>2. CASE Refuse(q)
    BY <1>1, <1>2, ReplyTypes DEF Refuse
  <1>3. CASE Evaluate(q)
    <2>1. q.from \in Guards
      BY <1>1 DEF Requests, RequestsOf
    <2>2. QED  BY <1>1, <1>3, <2>1, ReplyTypes DEF Evaluate
  <1>4. CASE Create(q)
    <2>1. [state |-> "ACTIVE", tenant |-> q.tenant, body |-> q.body,
           final |-> None, by |-> None] \in Reservations
      BY <1>1, <1>4 DEF Create, Requests, RequestsOf, Reservations
    <2>2. resv' \in [Guards -> Reservations]
      BY <1>1, <1>4, <2>1 DEF Create
    <2>3. q.from \in Guards
      BY <1>1 DEF Requests, RequestsOf
    <2>4. QED  BY <1>4, <2>2, <2>3, ReplyTypes DEF Create
  <1>5. CASE ReplayReserve(q)
    BY <1>1, <1>5, ReplyTypes DEF ReplayReserve, Bucket
  <1>6. CASE MismatchReserve(q)
    BY <1>1, <1>6, ReplyTypes DEF MismatchReserve, Terminal
  <1>7. CASE Finalise(q)
    <2>1. /\ q.rid \in Guards /\ q.from \in Guards
          /\ q.body \in CommitBodies \cup ReleaseBodies
      BY <1>1, <1>7 DEF Finalise, Requests, RequestsOf
    <2>2. [resv[q.rid] EXCEPT !.state = FinalState(q.op), !.final = q.body, !.by = q.from]
            \in Reservations
      <3>1. FinalState(q.op) \in {"COMMITTED", "RELEASED"} /\ resv[q.rid] \in Reservations
        BY <1>1, <2>1 DEF FinalState
      <3>2. QED  BY <2>1, <3>1, ReservationTypes
    <2>3. resv' = [resv EXCEPT ![q.rid] =
            [resv[q.rid] EXCEPT !.state = FinalState(q.op), !.final = q.body, !.by = q.from]]
      BY <1>1, <1>7, <2>1 DEF Finalise
    <2>4. resv' \in [Guards -> Reservations]
      BY <1>1, <2>1, <2>2, <2>3
    <2>5. QED  BY <1>7, <2>4, ReplyTypes DEF Finalise
  <1>8. CASE ReplayFinal(q)
    BY <1>1, <1>8, ReplyTypes DEF ReplayFinal
  <1>9. CASE RefuseFinal(q)
    BY <1>1, <1>9, ReplyTypes DEF RefuseFinal
  <1>10. QED
    BY <1>2, <1>3, <1>4, <1>5, <1>6, <1>7, <1>8, <1>9 DEF Handle

\* Past __enter__ a guard has a reservation id, and keeps it.
LEMMA AssertsStep ==
  ASSUME TypeOK, AssertsHold, [Next]_vars
  PROVE  AssertsHold'
  <1> SUFFICES ASSUME NEW h \in Guards,
                      pc'[h] \in {"body", "committing", "releasing"}
               PROVE  self'[h].reservation_id # None /\ self'[h].decision # None
    BY DEF AssertsHold, Holds
  <1>1. CASE UNCHANGED guardVars
    BY <1>1 DEF guardVars, AssertsHold, Holds
  <1>2. ASSUME NEW g \in Guards, GuardStep(g)
        PROVE  self'[h].reservation_id # None /\ self'[h].decision # None
    <2> USE <1>2 DEF TypeOK
    <2>1. CASE EnterReturns(g)
      BY <2>1, NoneAssumption DEF EnterReturns, Granted, Decided, Decisions, AssertsHold, Holds,
         Objects
    <2>2. CASE \/ EnterInvalid(g) \/ EnterRaises(g) \/ EnterEscapes(g)
               \/ CommitSucceeds(g) \/ CommitUncertain(g) \/ CommitRaises(g)
               \/ CommitEscapes(g) \/ ReleaseAnswered(g) \/ ReleaseRaises(g)
               \/ ReleaseEscapes(g)
      <3>1. pc' = [pc EXCEPT ![g] = "done"] /\ (h # g => self'[h] = self[h])
        BY <2>2 DEF EnterInvalid, EnterRaises, EnterEscapes, CommitSucceeds, CommitUncertain,
             CommitRaises, CommitEscapes, ReleaseAnswered, ReleaseRaises, ReleaseEscapes, End
      <3>2. QED  BY <3>1 DEF AssertsHold, Holds
    <2>3. CASE \/ Enter(g) \/ Crash(g) \/ \E k \in Guards : EnterAgain(g, k)
      BY <2>3 DEF Enter, EnterAgain, Crash, AssertsHold, Holds
    <2>4. CASE \/ Charge(g) \/ TransportFails(g)
      BY <2>4 DEF Charge, TransportFails, guardVars, AssertsHold, Holds
    <2>5. CASE \/ abort(g)
               \/ \E override \in Overrides : set_actual_micros(g, override)
               \/ \E fields \in Fields : attach_receipt_fields(g, fields)
      <3>1. /\ pc' = pc /\ self'[h].reservation_id = self[h].reservation_id
            /\ self'[h].decision = self[h].decision
        <4>1. CASE abort(g)
          BY <4>1 DEF abort, Objects
        <4>2. CASE \E override \in Overrides : set_actual_micros(g, override)
          BY <4>2 DEF set_actual_micros, Objects
        <4>3. CASE \E fields \in Fields : attach_receipt_fields(g, fields)
          BY <4>3 DEF attach_receipt_fields, Objects
        <4>4. QED  BY <2>5, <4>1, <4>2, <4>3
      <3>2. QED  BY <3>1 DEF AssertsHold, Holds
    <2>6. CASE \/ \E exc_name \in ExcNames : BodyRaises(g, exc_name)
               \/ BodyAborts(g) \/ BodyReturns(g) \/ CommitRejects(g)
      BY <2>6 DEF BodyRaises, BodyAborts, BodyReturns, CommitRejects, StartRelease,
                  AssertsHold, Holds
    <2>7. QED  BY <2>1, <2>2, <2>3, <2>4, <2>5, <2>6 DEF GuardStep, Proceed, Fail, Leave, Process
  <1>3. QED  BY <1>1, <1>2 DEF Next, Serve, Lapse, vars, guardVars

LEMMA TypeInit ==
  ASSUME Init
  PROVE  TypeOK /\ AssertsHold
  <1>1. NoReservation \in Reservations
    BY DEF NoReservation, Reservations
  <1>2. NoFields \in Fields
    <2>1. NoFields \in [{} -> FieldValues]
      BY DEF NoFields
    <2>2. QED  BY <2>1 DEF Fields
  <1>3. NewObject \in Objects /\ NoRequest \in AskedTypes
    BY <1>2 DEF NewObject, Objects, NoRequest, AskedTypes
  <1>4. QED
    BY <1>1, <1>3, AnswerTypes DEF Init, ServerInit, GuardInit, TypeOK, PcValues, AssertsHold

LEMMA TypeStep ==
  ASSUME TypeOK, AssertsHold, [Next]_vars
  PROVE  TypeOK'
  <1>1. CASE UNCHANGED vars
    BY <1>1 DEF TypeOK, vars, serverVars, guardVars
  <1>2. CASE \E g \in Guards : GuardStep(g)
    BY <1>2, GuardStepTypes
  <1>3. CASE Serve
    BY <1>3, HandleTypes DEF Serve, TypeOK, ServerTypes, guardVars
  <1>4. CASE Lapse
    <2>1. PICK r \in Guards : Expire(r)
      BY <1>4 DEF Lapse
    <2>2. [resv[r] EXCEPT !.state = "EXPIRED"] \in Reservations
      <3>1. resv[r] \in Reservations
        BY DEF TypeOK
      <3>2. QED  BY <3>1, ReservationTypes
    <2>3. resv' \in [Guards -> Reservations]
      BY <2>1, <2>2 DEF Expire, TypeOK
    <2>4. QED  BY <1>4, <2>1, <2>3 DEF Lapse, Expire, TypeOK, guardVars
  <1>5. QED  BY <1>1, <1>2, <1>3, <1>4 DEF Next

\* Every variable always holds a value the code can give it, and a guard past
\* __enter__ has a reservation: the asserts of guard.py never fail.
THEOREM TypeCorrect == Spec => [](TypeOK /\ AssertsHold)
  <1>1. Init => TypeOK /\ AssertsHold
    BY TypeInit
  <1>2. TypeOK /\ AssertsHold /\ [Next]_vars => (TypeOK /\ AssertsHold)'
    BY TypeStep, AssertsStep
  <1>3. QED  BY <1>1, <1>2, PTL DEF Spec

-----------------------------------------------------------------------------
(***************************************************************************)
(* Keys.                                                                   *)
(***************************************************************************)
LEMMA NoneIsFalsy == ~Truthy(None)
  BY DEF Truthy

\* A hash of a mandate is None or stands for itself: validation lets no empty
\* string and no missing attribute through.
LEMMA HashesAreTruthy ==
  ASSUME NEW c \in Configs
  PROVE  /\ Truthy(c.mandate.open_mandate_hash) <=> c.mandate.open_mandate_hash # None
         /\ Truthy(c.mandate.checkout_hash) <=> c.mandate.checkout_hash # None
  <1>1. IsMandate(c.mandate)
    BY ConfigsAssumption
  <1>2. ASSUME NEW s, HasLength(s, 1, 256)
        PROVE  s # "" /\ s # Absent
    <2>1. s \in DOMAIN Length /\ Length[s] # 0
      BY <1>2 DEF HasLength
    <2>2. QED  BY <2>1, StringAssumption
  <1>3. QED  BY <1>1, <1>2 DEF IsMandate, Truthy

\* An idempotency key names its phase and its payment, and nothing else of a
\* reserve or commit: equal keys mean equal payments whatever the strings, so
\* the two lock scopes never collide, and one payment has one key.
THEOREM KeyIdentifiesPayment ==
  ASSUME NEW c \in Configs, NEW d \in Configs, NEW phase, NEW other
  PROVE  idempotency_key(c.mandate, phase, None) = idempotency_key(d.mandate, other, None)
           <=> phase = other /\ SamePayment(c.mandate, d.mandate)
  <1> DEFINE m == consume_once_input(c.mandate)
             n == consume_once_input(d.mandate)
  <1>1. m.raw \in DOMAIN Digest /\ n.raw \in DOMAIN Digest
    BY ConfigsAssumption
  <1>2. Digest[m.raw] = Digest[n.raw] <=> m.raw = n.raw
    BY <1>1, DigestAssumption
  <1>3. idempotency_key(c.mandate, phase, None) = idempotency_key(d.mandate, other, None)
          <=> m.scope = n.scope /\ Digest[m.raw] = Digest[n.raw] /\ phase = other
    BY NoneIsFalsy DEF idempotency_key, _hash_input
  <1>4. m.scope = n.scope /\ m.raw = n.raw <=> SamePayment(c.mandate, d.mandate)
    BY HashesAreTruthy DEF consume_once_input, SamePayment
  <1>5. QED  BY <1>2, <1>3, <1>4

\* The server puts two reserve requests of a tenant in one bucket exactly when
\* they are about one payment (mapping.py:211).
COROLLARY ReserveKey ==
  ASSUME NEW c \in Configs, NEW d \in Configs
  PROVE  build_reservation_body(c).idempotency_key = build_reservation_body(d).idempotency_key
           <=> SamePayment(c.mandate, d.mandate)
  <1>1. \A phase, other :
          idempotency_key(c.mandate, phase, None) = idempotency_key(d.mandate, other, None)
            <=> phase = other /\ SamePayment(c.mandate, d.mandate)
    BY KeyIdentifiesPayment
  <1>2. idempotency_key(c.mandate, "reserve", None) = idempotency_key(d.mandate, "reserve", None)
          <=> SamePayment(c.mandate, d.mandate)
    BY <1>1
  <1>3. QED  BY <1>2 DEF build_reservation_body

\* What the server is told of a payment is the mandate's, whatever dimensions
\* the caller adds.
THEOREM CanonicalDimensionsWin ==
  ASSUME NEW c \in Configs
  PROVE  LET dimensions == build_reservation_body(c).subject.dimensions IN
           /\ dimensions["ap2_transaction_id"] = c.mandate.transaction_id
           /\ dimensions["payee_website"] = c.mandate.payee_website
           /\ dimensions["run_id"] = c.run_id
           /\ c.mandate.open_mandate_hash # None =>
                dimensions["open_mandate_hash"] = c.mandate.open_mandate_hash
           /\ c.mandate.checkout_hash # None =>
                dimensions["checkout_hash"] = c.mandate.checkout_hash
  <1> DEFINE can == canonical_dimensions(c)
  <1>1. /\ "ap2_transaction_id" \in DOMAIN can /\ "payee_website" \in DOMAIN can
        /\ "run_id" \in DOMAIN can
        /\ can["ap2_transaction_id"] = c.mandate.transaction_id
        /\ can["payee_website"] = c.mandate.payee_website
        /\ can["run_id"] = c.run_id
    BY DEF canonical_dimensions
  <1>2. c.mandate.open_mandate_hash # None =>
          /\ "open_mandate_hash" \in DOMAIN can
          /\ can["open_mandate_hash"] = c.mandate.open_mandate_hash
    BY HashesAreTruthy DEF canonical_dimensions
  <1>3. c.mandate.checkout_hash # None =>
          /\ "checkout_hash" \in DOMAIN can
          /\ can["checkout_hash"] = c.mandate.checkout_hash
    BY HashesAreTruthy DEF canonical_dimensions
  <1>4. \A k \in DOMAIN can : build_reservation_body(c).subject.dimensions[k] = can[k]
    BY DEF build_reservation_body, build_subject
  <1>5. QED  BY <1>1, <1>2, <1>3, <1>4

-----------------------------------------------------------------------------
(***************************************************************************)
(* Frames: what the steps of a guard and of the server leave alone.        *)
(***************************************************************************)
\* A guard sends at most one request in a step, and changes no reservation.
LEMMA GuardFrame ==
  ASSUME NEW g \in Guards, GuardStep(g)
  PROVE  /\ config' = config /\ resv' = resv /\ requests \subseteq requests'
         /\ \A q \in requests' \ requests :
              /\ q.from = g
              /\ q.op = "reserve" => q.tenant = config[g].tenant /\ q.body = ReservationBody(g)
              /\ q.op = "commit" => BodyReturns(g)
  <1>1. CASE Enter(g) \/ \E h \in Guards : EnterAgain(g, h)
    BY <1>1 DEF Enter, EnterAgain, Send
  <1>2. CASE BodyReturns(g)
    BY <1>2 DEF BodyReturns, Send
  <1>3. CASE \/ \E exc_name \in ExcNames : BodyRaises(g, exc_name)
             \/ BodyAborts(g) \/ CommitRejects(g)
    BY <1>3 DEF BodyRaises, BodyAborts, CommitRejects, StartRelease, Send
  <1>4. CASE \/ EnterInvalid(g) \/ EnterRaises(g) \/ EnterEscapes(g)
             \/ CommitSucceeds(g) \/ CommitUncertain(g) \/ CommitRaises(g)
             \/ CommitEscapes(g) \/ ReleaseAnswered(g) \/ ReleaseRaises(g)
             \/ ReleaseEscapes(g)
    BY <1>4 DEF EnterInvalid, EnterRaises, EnterEscapes, CommitSucceeds, CommitUncertain,
         CommitRaises, CommitEscapes, ReleaseAnswered, ReleaseRaises, ReleaseEscapes, End
  <1>5. CASE \/ EnterReturns(g) \/ Charge(g) \/ abort(g) \/ TransportFails(g) \/ Crash(g)
             \/ \E override \in Overrides : set_actual_micros(g, override)
             \/ \E fields \in Fields : attach_receipt_fields(g, fields)
    BY <1>5 DEF EnterReturns, Charge, abort, TransportFails, Crash, set_actual_micros,
         attach_receipt_fields, guardVars, serverVars
  <1>6. QED  BY <1>1, <1>2, <1>3, <1>4, <1>5 DEF GuardStep, Proceed, Fail, Leave, Process

\* Reservations are the guards' own, and one to a bucket.
OwnRequests ==
  \A q \in requests : q.op = "reserve" =>
    q.tenant = config[q.from].tenant /\ q.body = ReservationBody(q.from)

OwnReservations ==
  \A r \in Guards : Exists(r) =>
    resv[r].tenant = config[r].tenant /\ resv[r].body = ReservationBody(r)

OnePerBucket ==
  \A r, s \in Guards :
    /\ Exists(r) /\ Exists(s) /\ resv[r].tenant = resv[s].tenant
    /\ resv[r].body.idempotency_key = resv[s].body.idempotency_key
    => r = s

BucketInv == TypeOK /\ AssertsHold /\ OwnRequests /\ OwnReservations /\ OnePerBucket

\* The server never forgets a reservation nor what it was made for.
LEMMA HandleFrame ==
  ASSUME NEW q \in requests, BucketInv, Handle(q)
  PROVE  /\ requests' = requests \ {q}
         /\ \A r \in Guards : Exists(r) =>
              Exists(r)' /\ resv'[r].tenant = resv[r].tenant /\ resv'[r].body = resv[r].body
         /\ \A r \in Guards : Exists(r)' /\ ~Exists(r) => Create(q) /\ r = q.from
  <1> USE DEF BucketInv, TypeOK, Exists
  <1>1. q \in Requests /\ q.from \in Guards
    BY DEF Requests, RequestsOf
  <1>2. CASE Create(q)
    <2>1. ~Exists(q.from)
      BY <1>1, <1>2 DEF Create, Bucket, OwnRequests, OwnReservations
    <2>2. QED  BY <1>1, <1>2, <2>1 DEF Create, Reply
  <1>3. CASE Finalise(q)
    <2>1. q.rid \in Guards
      BY <1>1, <1>3 DEF Finalise, Requests, RequestsOf
    <2>2. QED  BY <1>3, <2>1 DEF Finalise, Reply, FinalState, Reservations
  <1>4. CASE \/ Refuse(q) \/ Evaluate(q) \/ ReplayReserve(q) \/ MismatchReserve(q)
             \/ ReplayFinal(q) \/ RefuseFinal(q)
    BY <1>4 DEF Refuse, Evaluate, ReplayReserve, MismatchReserve, ReplayFinal, RefuseFinal, Reply
  <1>5. QED  BY <1>2, <1>3, <1>4 DEF Handle

LEMMA LapseFrame ==
  ASSUME NEW s \in Guards, TypeOK, Expire(s)
  PROVE  /\ requests' = requests /\ answer' = answer
         /\ \A r \in Guards :
              /\ Exists(r)' <=> Exists(r)
              /\ resv'[r].tenant = resv[r].tenant /\ resv'[r].body = resv[r].body
              /\ resv'[r].by = resv[r].by
              /\ resv'[r].state = "COMMITTED" => resv[r].state = "COMMITTED"
  BY DEF Expire, TypeOK, Exists, Reservations

\* A guard writes no server answer; the server writes one.
LEMMA GuardAnswers ==
  ASSUME NEW h \in Guards, NEW g \in Guards, NEW op \in Ops, TypeOK, GuardStep(h)
  PROVE  answer'[g][op] \in {answer[g][op], Closed, Awaiting, TransportDown}
  <1> USE DEF TypeOK
  <1>1. ASSUME answer' = [answer EXCEPT ![h] = NoCall]
        PROVE  answer'[g][op] \in {answer[g][op], Closed}
    BY <1>1 DEF NoCall
  <1>2. ASSUME NEW o \in Ops, answer' = [answer EXCEPT ![h] = [NoCall EXCEPT ![o] = Awaiting]]
        PROVE  answer'[g][op] \in {answer[g][op], Closed, Awaiting}
    BY <1>2 DEF NoCall
  <1>3. CASE Enter(h) \/ BodyReturns(h) \/ \E k \in Guards : EnterAgain(h, k)
    BY <1>2, <1>3 DEF Enter, EnterAgain, BodyReturns, Send, Ops
  <1>4. CASE \/ \E exc_name \in ExcNames : BodyRaises(h, exc_name)
             \/ BodyAborts(h) \/ CommitRejects(h)
    BY <1>2, <1>4 DEF BodyRaises, BodyAborts, CommitRejects, StartRelease, Send, Ops
  <1>5. CASE \/ EnterInvalid(h) \/ EnterRaises(h) \/ EnterEscapes(h)
             \/ CommitSucceeds(h) \/ CommitUncertain(h) \/ CommitRaises(h)
             \/ CommitEscapes(h) \/ ReleaseAnswered(h) \/ ReleaseRaises(h)
             \/ ReleaseEscapes(h) \/ EnterReturns(h) \/ Crash(h)
    BY <1>1, <1>5 DEF EnterInvalid, EnterRaises, EnterEscapes, CommitSucceeds, CommitUncertain,
         CommitRaises, CommitEscapes, ReleaseAnswered, ReleaseRaises, ReleaseEscapes, End,
         EnterReturns, Crash, Hangup
  <1>6. CASE TransportFails(h)
    BY <1>6 DEF TransportFails
  <1>7. CASE \/ Charge(h) \/ abort(h)
             \/ \E override \in Overrides : set_actual_micros(h, override)
             \/ \E fields \in Fields : attach_receipt_fields(h, fields)
    BY <1>7 DEF Charge, abort, set_actual_micros, attach_receipt_fields, serverVars
  <1>8. QED  BY <1>3, <1>4, <1>5, <1>6, <1>7 DEF GuardStep, Proceed, Fail, Leave, Process

LEMMA ReplyAnswers ==
  ASSUME NEW q \in requests, NEW a, NEW g \in Guards, NEW op \in Ops, TypeOK, Reply(q, a)
  PROVE  \/ answer'[g][op] = answer[g][op]
         \/ (q.from = g /\ q.op = op /\ answer'[g][op] = a)
  BY DEF Reply, TypeOK, Requests, RequestsOf

-----------------------------------------------------------------------------
(***************************************************************************)
(* Consume once.                                                           *)
(***************************************************************************)
LEMMA BucketInit ==
  ASSUME Init
  PROVE  BucketInv
  BY TypeInit DEF Init, ServerInit, NoReservation, BucketInv, OwnRequests, OwnReservations,
       OnePerBucket, Exists

LEMMA BucketStep ==
  ASSUME BucketInv, [Next]_vars
  PROVE  BucketInv'
  <1> USE DEF BucketInv
  <1>1. TypeOK' /\ AssertsHold'
    BY TypeStep, AssertsStep
  <1>2. CASE UNCHANGED vars
    BY <1>1, <1>2 DEF vars, serverVars, guardVars, OwnRequests, OwnReservations, OnePerBucket,
         Exists, ReservationBody
  <1>3. ASSUME NEW g \in Guards, GuardStep(g)
        PROVE  BucketInv'
    BY <1>1, <1>3, GuardFrame DEF OwnRequests, OwnReservations, OnePerBucket, Exists,
         ReservationBody
  <1>4. CASE Serve
    <2>1. PICK q \in requests : Handle(q)
      BY <1>4 DEF Serve
    <2>2. config' = config
      BY <1>4 DEF Serve, guardVars
    <2>3. OwnRequests'
      BY <2>1, <2>2, HandleFrame DEF OwnRequests, ReservationBody
    <2>4. \A r \in Guards : Exists(r)' /\ ~Exists(r) =>
            /\ r = q.from /\ Bucket(q) = {}
            /\ resv'[r].tenant = q.tenant /\ resv'[r].body = q.body
            /\ q.op = "reserve"
      <3>1. q.from \in Guards
        BY DEF TypeOK, Requests, RequestsOf
      <3> SUFFICES ASSUME NEW r \in Guards, Exists(r)', ~Exists(r)
                   PROVE  /\ r = q.from /\ Bucket(q) = {}
                          /\ resv'[r].tenant = q.tenant /\ resv'[r].body = q.body
                          /\ q.op = "reserve"
        OBVIOUS
      <3>2. Create(q) /\ r = q.from
        BY <2>1, HandleFrame
      <3>3. QED  BY <3>1, <3>2 DEF Create, TypeOK
    <2>5. OwnReservations'
      BY <2>1, <2>2, <2>4, HandleFrame DEF OwnReservations, OwnRequests, ReservationBody
    <2>6. OnePerBucket'
      <3> SUFFICES ASSUME NEW r \in Guards, NEW s \in Guards, Exists(r)', Exists(s)',
                          resv'[r].tenant = resv'[s].tenant,
                          resv'[r].body.idempotency_key = resv'[s].body.idempotency_key
                   PROVE  r = s
        BY DEF OnePerBucket
      <3>1. CASE Exists(r) /\ Exists(s)
        BY <2>1, <3>1, HandleFrame DEF OnePerBucket
      <3>2. CASE Exists(r) /\ ~Exists(s)
        BY <2>1, <2>4, <3>2, HandleFrame DEF Bucket, Exists
      <3>3. CASE ~Exists(r) /\ Exists(s)
        BY <2>1, <2>4, <3>3, HandleFrame DEF Bucket, Exists
      <3>4. CASE ~Exists(r) /\ ~Exists(s)
        BY <2>4, <3>4
      <3>5. QED  BY <3>1, <3>2, <3>3, <3>4
    <2>7. QED  BY <1>1, <2>3, <2>5, <2>6
  <1>5. CASE Lapse
    <2>1. PICK r \in Guards : Expire(r)
      BY <1>5 DEF Lapse
    <2>2. config' = config
      BY <1>5 DEF Lapse, guardVars
    <2>3. QED  BY <1>1, <2>1, <2>2, LapseFrame DEF OwnRequests, OwnReservations, OnePerBucket,
                    ReservationBody
  <1>6. QED  BY <1>2, <1>3, <1>4, <1>5 DEF Next

LEMMA BucketAlways == Spec => []BucketInv
  BY BucketInit, BucketStep, PTL DEF Spec

LEMMA BucketConsumesOnce ==
  ASSUME BucketInv
  PROVE  ConsumeOnce
  <1> SUFFICES ASSUME NEW r \in Guards, NEW s \in Guards, Exists(r), Exists(s),
                      config[r].tenant = config[s].tenant,
                      SamePayment(config[r].mandate, config[s].mandate)
               PROVE  r = s
    BY DEF ConsumeOnce
  <1>1. config[r] \in Configs /\ config[s] \in Configs
    BY DEF BucketInv, TypeOK
  <1>2. ReservationBody(r).idempotency_key = ReservationBody(s).idempotency_key
    BY <1>1, ReserveKey DEF ReservationBody
  <1>3. QED  BY <1>2 DEF BucketInv, OwnReservations, OnePerBucket

\* The server never holds two reservations of a tenant for one payment, for any
\* number of guards, in any interleaving, with lost and late messages, retries,
\* interrupts and crashes.
THEOREM ConsumedOnce == Spec => []ConsumeOnce
  BY BucketAlways, BucketConsumesOnce, PTL

\* A reservation is there for good, for the tenant and body it was made with.
LEMMA ReservationsLast ==
  ASSUME BucketInv, [Next]_vars
  PROVE  /\ config' = config
         /\ \A r \in Guards : Exists(r) =>
              Exists(r)' /\ resv'[r].tenant = resv[r].tenant /\ resv'[r].body = resv[r].body
  <1>1. CASE UNCHANGED vars
    BY <1>1 DEF vars, serverVars, guardVars, Exists
  <1>2. CASE \E g \in Guards : GuardStep(g)
    BY <1>2, GuardFrame DEF Exists
  <1>3. CASE Serve
    BY <1>3, HandleFrame DEF Serve, guardVars
  <1>4. CASE Lapse
    BY <1>4, LapseFrame DEF Lapse, guardVars, BucketInv
  <1>5. QED  BY <1>1, <1>2, <1>3, <1>4 DEF Next

LEMMA ConflictInit ==
  ASSUME Init
  PROVE  ConflictIsSamePayment
  BY NoneAssumption DEF Init, ServerInit, ConflictIsSamePayment, NoCall, Closed, Response, Ops,
       Terminal

LEMMA ConflictStep ==
  ASSUME BucketInv, ConflictIsSamePayment, [Next]_vars
  PROVE  ConflictIsSamePayment'
  <1> USE DEF BucketInv
  <1>1. config' = config /\ \A r \in Guards : Exists(r) => Exists(r)'
    BY ReservationsLast
  <1> SUFFICES ASSUME NEW g \in Guards,
                      answer'[g]["reserve"].code = "IDEMPOTENCY_MISMATCH",
                      answer[g]["reserve"].code # "IDEMPOTENCY_MISMATCH"
               PROVE  \E r \in Guards \ {g} :
                        Exists(r) /\ SamePayment(config[g].mandate, config[r].mandate)
    BY <1>1 DEF ConflictIsSamePayment
  <1>2. "reserve" \in Ops /\ None # "IDEMPOTENCY_MISMATCH"
    BY NoneAssumption DEF Ops, Terminal
  <1>3. ~UNCHANGED answer
    OBVIOUS
  <1>4. ASSUME NEW h \in Guards, GuardStep(h)
        PROVE  FALSE
    BY <1>2, <1>4, GuardAnswers DEF Closed, Awaiting, TransportDown, Response
  <1>5. ASSUME NEW q \in requests, Handle(q)
        PROVE  MismatchReserve(q) /\ q.from = g
    <2> USE <1>2, ReplyAnswers DEF Response
    <2>1. CASE Refuse(q)
      BY <2>1 DEF Refuse, Rejected, ServerError
    <2>2. CASE Evaluate(q)
      BY <2>2 DEF Evaluate, Malformed
    <2>3. CASE Create(q)
      BY <2>3 DEF Create, Malformed, ServerError
    <2>4. CASE ReplayReserve(q)
      BY <2>4 DEF ReplayReserve
    <2>5. CASE MismatchReserve(q)
      BY <2>5 DEF MismatchReserve
    <2>6. CASE Finalise(q)
      BY <2>6 DEF Finalise, ServerError
    <2>7. CASE ReplayFinal(q)
      BY <2>7 DEF ReplayFinal
    <2>8. CASE RefuseFinal(q)
      BY <2>8 DEF RefuseFinal
    <2>9. QED
      BY <1>5, <2>1, <2>2, <2>3, <2>4, <2>5, <2>6, <2>7, <2>8 DEF Handle
  <1>6. CASE Serve
    <2>1. PICK q \in requests : MismatchReserve(q) /\ q.from = g
      BY <1>5, <1>6 DEF Serve
    <2>2. PICK r \in Bucket(q) : resv[r].body # q.body
      BY <2>1 DEF MismatchReserve
    <2>3. /\ r \in Guards /\ Exists(r)
          /\ resv[r].body.idempotency_key = q.body.idempotency_key
      BY <2>2 DEF Bucket, Exists
    <2>4. q.body = ReservationBody(g) /\ resv[r].body = ReservationBody(r)
      BY <2>1, <2>3 DEF MismatchReserve, OwnRequests, OwnReservations
    <2>5. r # g
      BY <2>2, <2>4
    <2>6. config[g] \in Configs /\ config[r] \in Configs
      BY <2>3 DEF TypeOK
    <2>7. SamePayment(config[g].mandate, config[r].mandate)
      BY <2>3, <2>4, <2>6, ReserveKey DEF ReservationBody
    <2>8. QED  BY <2>3, <2>5, <2>7
  <1>7. CASE Lapse
    BY <1>3, <1>7, LapseFrame DEF Lapse
  <1>8. QED  BY <1>3, <1>4, <1>6, <1>7 DEF Next, vars, serverVars

\* Two different payments never meet in one bucket: a guard is told of a key
\* conflict only when another guard has reserved its own payment.
THEOREM ConflictsAreReal == Spec => []ConflictIsSamePayment
  <1>1. Init => ConflictIsSamePayment
    BY ConflictInit
  <1>2. BucketInv /\ ConflictIsSamePayment /\ [Next]_vars => ConflictIsSamePayment'
    BY ConflictStep
  <1>3. QED  BY <1>1, <1>2, BucketAlways, PTL DEF Spec

-----------------------------------------------------------------------------
(***************************************************************************)
(* Charges are covered.                                                    *)
(***************************************************************************)
Covers(r, g) ==
  /\ r \in Guards /\ Exists(r)
  /\ resv[r].tenant = config[g].tenant /\ resv[r].body = ReservationBody(g)

\* A grant on its way to a guard, a grant it has taken, and a charge made on it.
Offered ==
  \A g, r \in Guards : answer[g]["reserve"].rid = r => Covers(r, g) \/ config[g].dry_run
Handed ==
  \A g \in Guards : Holds(g) # None => Covers(Holds(g), g) /\ ~config[g].dry_run
Spent == \A g \in Guards : charged[g] => Holds(g) # None /\ pc[g] # "idle"

CoverInv == Offered /\ Handed /\ Spent

LEMMA CoversLast ==
  ASSUME BucketInv, [Next]_vars, NEW g \in Guards, NEW r, Covers(r, g)
  PROVE  Covers(r, g)'
  BY ReservationsLast DEF Covers, ReservationBody

\* Only __enter__ assigns the reservation id, and only the body charges.
LEMMA GrantFrame ==
  ASSUME NEW g \in Guards, NEW h \in Guards, TypeOK, GuardStep(g)
  PROVE  /\ \/ self'[h].reservation_id = self[h].reservation_id
            \/ h = g /\ EnterReturns(g)
            \/ /\ h = g /\ pc[g] = "idle"
               /\ \E k \in Guards : config[k] = config[g] /\ self'[h] = self[k]
         /\ \/ charged'[h] = charged[h]
            \/ h = g /\ Charge(g)
  <1> USE DEF TypeOK
  <1>1. CASE \/ EnterInvalid(g) \/ EnterEscapes(g)
             \/ CommitUncertain(g) \/ CommitRaises(g)
             \/ CommitEscapes(g) \/ ReleaseAnswered(g) \/ ReleaseRaises(g)
             \/ ReleaseEscapes(g)
    BY <1>1 DEF EnterInvalid, EnterEscapes, CommitUncertain, CommitRaises, CommitEscapes, ReleaseAnswered, ReleaseRaises, ReleaseEscapes, End
  <1>2. CASE CommitSucceeds(g) \/ EnterRaises(g)
    BY <1>2 DEF CommitSucceeds, EnterRaises, End, Objects
  <1>3. CASE EnterReturns(g)
    BY <1>3 DEF EnterReturns, Objects
  <1>4. CASE Enter(g) \/ Crash(g)
    BY <1>4 DEF Enter, Crash
  <1>5. CASE Charge(g) \/ TransportFails(g)
    BY <1>5 DEF Charge, TransportFails, guardVars
  <1>6. CASE abort(g)
    BY <1>6 DEF abort, Objects
  <1>7. CASE \E override \in Overrides : set_actual_micros(g, override)
    BY <1>7 DEF set_actual_micros, Objects
  <1>8. CASE \E fields \in Fields : attach_receipt_fields(g, fields)
    BY <1>8 DEF attach_receipt_fields, Objects
  <1>9. CASE \/ \E exc_name \in ExcNames : BodyRaises(g, exc_name)
             \/ BodyAborts(g) \/ BodyReturns(g) \/ CommitRejects(g)
    BY <1>9 DEF BodyRaises, BodyAborts, BodyReturns, CommitRejects, StartRelease
  <1>10. CASE \E k \in Guards : EnterAgain(g, k)
    BY <1>10 DEF EnterAgain
  <1>11. QED
    BY <1>1, <1>2, <1>3, <1>4, <1>5, <1>6, <1>7, <1>8, <1>9, <1>10 DEF GuardStep, Proceed, Fail, Leave, Process

\* A guard is idle only before its with statement.
LEMMA IdleFrame ==
  ASSUME NEW g \in Guards, NEW h \in Guards, TypeOK, GuardStep(g), pc'[h] = "idle"
  PROVE  pc[h] = "idle"
  <1> USE DEF TypeOK
  <1>1. CASE \/ EnterInvalid(g) \/ EnterRaises(g) \/ EnterEscapes(g)
             \/ CommitSucceeds(g) \/ CommitUncertain(g) \/ CommitRaises(g)
             \/ CommitEscapes(g) \/ ReleaseAnswered(g) \/ ReleaseRaises(g)
             \/ ReleaseEscapes(g)
    BY <1>1 DEF EnterInvalid, EnterRaises, EnterEscapes, CommitSucceeds, CommitUncertain,
         CommitRaises, CommitEscapes, ReleaseAnswered, ReleaseRaises, ReleaseEscapes, End
  <1>2. CASE \/ Enter(g) \/ EnterReturns(g) \/ BodyReturns(g) \/ Crash(g)
             \/ \E k \in Guards : EnterAgain(g, k)
    BY <1>2 DEF Enter, EnterReturns, BodyReturns, Crash, EnterAgain
  <1>3. CASE \/ \E exc_name \in ExcNames : BodyRaises(g, exc_name)
             \/ BodyAborts(g) \/ CommitRejects(g)
    BY <1>3 DEF BodyRaises, BodyAborts, CommitRejects, StartRelease
  <1>4. CASE \/ Charge(g) \/ abort(g) \/ TransportFails(g)
             \/ \E override \in Overrides : set_actual_micros(g, override)
             \/ \E fields \in Fields : attach_receipt_fields(g, fields)
    BY <1>4 DEF Charge, abort, TransportFails, set_actual_micros, attach_receipt_fields, guardVars
  <1>5. QED  BY <1>1, <1>2, <1>3, <1>4 DEF GuardStep, Proceed, Fail, Leave, Process

\* The server offers a guard only the reservation of its own bucket and body,
\* unless it is asked for a dry run.
LEMMA OfferStep ==
  ASSUME NEW q \in requests, NEW g \in Guards, NEW r \in Guards, BucketInv, Handle(q),
         UNCHANGED guardVars,
         answer'[g]["reserve"] # answer[g]["reserve"], answer'[g]["reserve"].rid = r
  PROVE  Covers(r, g)' \/ config[g].dry_run
  <1> USE ReplyAnswers, NoneAssumption DEF BucketInv, Response, Ops
  <1>1. q \in Requests
    BY DEF TypeOK
  <1>2. CASE Create(q)
    <2>1. q.from = g /\ r = g
      BY <1>2 DEF Create, Malformed, ServerError
    <2>2. QED
      BY <1>2, <2>1 DEF Create, Covers, Exists, OwnRequests, TypeOK, ReservationBody, guardVars
  <1>3. CASE ReplayReserve(q)
    <2>1. PICK s \in Bucket(q) : resv[s].body = q.body /\ Reply(q, Response("2xx", "ALLOW", s))
      BY <1>3 DEF ReplayReserve
    <2>2. q.from = g /\ r = s
      BY <2>1
    <2>3. QED
      BY <1>3, <2>1, <2>2 DEF ReplayReserve, Bucket, Covers, Exists, OwnRequests,
         ReservationBody, guardVars
  <1>4. CASE Refuse(q)
    BY <1>4 DEF Refuse, Rejected, ServerError
  <1>5. CASE Evaluate(q)
    <2>1. q.op = "reserve" /\ q.from = g /\ q.body.dry_run
      BY <1>5 DEF Evaluate, Malformed
    <2>2. q.body = ReservationBody(g)
      BY <2>1 DEF OwnRequests
    <2>3. QED  BY <2>1, <2>2 DEF ReservationBody, build_reservation_body
  <1>6. CASE MismatchReserve(q) \/ ReplayFinal(q)
    BY <1>6 DEF MismatchReserve, ReplayFinal
  <1>7. CASE Finalise(q)
    BY <1>7 DEF Finalise
  <1>8. CASE RefuseFinal(q)
    BY <1>8 DEF RefuseFinal
  <1>9. QED  BY <1>2, <1>3, <1>4, <1>5, <1>6, <1>7, <1>8 DEF Handle

LEMMA CoverInit ==
  ASSUME Init
  PROVE  CoverInv
  BY NoneAssumption DEF Init, ServerInit, GuardInit, CoverInv, Offered, Handed, Spent, Holds, NewObject,
       NoCall, Closed, Response, Ops

LEMMA CoverStep ==
  ASSUME BucketInv, CoverInv, [Next]_vars
  PROVE  CoverInv'
  <1> USE DEF BucketInv, CoverInv
  <1>1. config' = config
    BY ReservationsLast
  <1>2. ASSUME NEW g \in Guards, GuardStep(g)
        PROVE  CoverInv'
    <2>1. Offered'
      BY <1>1, <1>2, CoversLast, GuardAnswers, NoneAssumption
         DEF Offered, Closed, Awaiting, TransportDown, Response, Ops
    <2>2. ASSUME NEW h \in Guards, Holds(h)' # None
          PROVE  Covers(Holds(h), h)' /\ ~config'[h].dry_run
      <3>1. CASE self'[h].reservation_id = self[h].reservation_id
        BY <1>1, <2>2, <3>1, CoversLast DEF Handed, Holds
      <3>2. CASE h = g /\ EnterReturns(g)
        <4>1. Holds(h)' = answer[h]["reserve"].rid /\ ~config[h].dry_run
          BY <3>2 DEF EnterReturns, Granted, Holds, TypeOK, Objects
        <4>2. answer[h]["reserve"].rid \in Guards
          BY <2>2, <4>1 DEF TypeOK, Ops, Responses
        <4>3. Covers(answer[h]["reserve"].rid, h)
          BY <4>1, <4>2 DEF Offered
        <4>4. QED  BY <1>1, <4>1, <4>3, CoversLast
      <3>3. CASE h = g /\ \E k \in Guards : config[k] = config[g] /\ self'[h] = self[k]
        <4>1. PICK k \in Guards : config[k] = config[h] /\ self'[h] = self[k]
          BY <3>3
        <4>2. Holds(h)' = Holds(k) /\ Covers(Holds(k), k) /\ ~config[h].dry_run
          BY <2>2, <4>1 DEF Handed, Holds
        <4>3. Covers(Holds(k), h)
          BY <4>1, <4>2 DEF Covers, ReservationBody
        <4>4. QED  BY <1>1, <4>2, <4>3, CoversLast
      <3>4. QED  BY <1>2, <3>1, <3>2, <3>3, GrantFrame
    <2>3. Spent'
      <3> SUFFICES ASSUME NEW h \in Guards, charged'[h]
                   PROVE  self'[h].reservation_id # None /\ pc'[h] # "idle"
        BY DEF Spent, Holds
      <3>1. CASE EnterReturns(g) /\ h = g
        BY <3>1 DEF EnterReturns, Granted, TypeOK, Objects
      <3>2. CASE Charge(g) /\ h = g
        BY <3>2 DEF Charge, AssertsHold, Holds
      <3>3. CASE charged[h]
        BY <1>2, <3>1, <3>3, GrantFrame, IdleFrame DEF Spent, Holds
      <3>4. QED  BY <1>2, <3>2, <3>3, GrantFrame
    <2>4. QED  BY <2>1, <2>2, <2>3 DEF Handed
  <1>3. CASE Serve
    <2>1. PICK q \in requests : Handle(q)
      BY <1>3 DEF Serve
    <2>2. UNCHANGED guardVars
      BY <1>3 DEF Serve
    <2>3. Handed' /\ Spent'
      BY <2>2, CoversLast DEF guardVars, Handed, Spent, Holds
    <2>4. Offered'
      <3> SUFFICES ASSUME NEW g \in Guards, NEW r \in Guards, answer'[g]["reserve"].rid = r
                   PROVE  Covers(r, g)' \/ config[g].dry_run
        BY <1>1 DEF Offered
      <3>1. CASE answer'[g]["reserve"] = answer[g]["reserve"]
        BY <3>1, CoversLast DEF Offered
      <3>2. CASE answer'[g]["reserve"] # answer[g]["reserve"]
        BY <2>1, <2>2, <3>2, OfferStep
      <3>3. QED  BY <3>1, <3>2
    <2>5. QED  BY <2>3, <2>4
  <1>4. CASE Lapse
    BY <1>4, LapseFrame, CoversLast DEF Lapse, guardVars, Offered, Handed, Spent, Holds
  <1>5. CASE UNCHANGED vars
    BY <1>5, CoversLast DEF vars, serverVars, guardVars, Offered, Handed, Spent, Holds
  <1>6. QED  BY <1>2, <1>3, <1>4, <1>5 DEF Next

LEMMA CoverAlways == Spec => [](BucketInv /\ CoverInv)
  <1>1. Init => BucketInv /\ CoverInv
    BY BucketInit, CoverInit
  <1>2. BucketInv /\ CoverInv /\ [Next]_vars => (BucketInv /\ CoverInv)'
    BY BucketStep, CoverStep
  <1>3. QED  BY <1>1, <1>2, PTL DEF Spec

\* No body ever moves money under a dry run, without a reservation, or under a
\* reservation made for another tenant, transaction, payee, run or amount, even
\* when the reservation it was handed is a replay of another guard's.
THEOREM ChargesAreCovered == Spec => []ChargeIsCovered
  <1>1. BucketInv /\ CoverInv => ChargeIsCovered
    <2> SUFFICES ASSUME BucketInv, CoverInv, NEW g \in Guards, charged[g]
                 PROVE  /\ ~config[g].dry_run
                        /\ Holds(g) # None /\ Exists(Holds(g))
                        /\ LET held == resv[Holds(g)] IN
                             /\ held.tenant = config[g].tenant
                             /\ held.body.estimate = amount_micros(config[g].mandate)
                             /\ held.body.subject.dimensions["ap2_transaction_id"]
                                  = config[g].mandate.transaction_id
                             /\ held.body.subject.dimensions["payee_website"]
                                  = config[g].mandate.payee_website
                             /\ held.body.subject.dimensions["run_id"] = config[g].run_id
      BY DEF ChargeIsCovered
    <2>1. Holds(g) # None /\ Covers(Holds(g), g) /\ ~config[g].dry_run
      BY DEF CoverInv, Spent, Handed
    <2>2. resv[Holds(g)].body = build_reservation_body(config[g])
      BY <2>1 DEF Covers, ReservationBody
    <2>3. build_reservation_body(config[g]).estimate = amount_micros(config[g].mandate)
      BY DEF build_reservation_body, build_estimate
    <2>4. config[g] \in Configs
      BY DEF BucketInv, TypeOK
    <2>5. QED  BY <2>1, <2>2, <2>3, <2>4, CanonicalDimensionsWin DEF Covers
  <1>2. QED  BY <1>1, CoverAlways, PTL
=============================================================================
