---------------------------- MODULE CommitProofs ----------------------------
(***************************************************************************)
(* Theorem: a release never races the guard's own commit, for every set of *)
(* guards, configs, amounts and exception names.                           *)
(***************************************************************************)
EXTENDS CheckoutProofs

\* A guard goes through _handle_release last.
ReleaseIsLast == \A g \in Guards : via[g] # None => pc[g] \in {"releasing", "done", "crashed", "reentered"}

\* A commit is sent once, after the body, and on the way that does not release.
CommitIsLate ==
  \A g \in Guards : CommitInFlight(g) \/ CommitApplied(g) =>
    pc[g] \in {"committing", "done", "crashed", "reentered"} /\ via[g] = None

CommitIsSingle ==
  \A p, q \in requests : p.op = "commit" /\ q.op = "commit" /\ p.from = q.from => p = q

InFlightIsNotApplied == \A g \in Guards : CommitInFlight(g) => ~CommitApplied(g)

\* A 4xx is an answer to a commit that was handled, without effect.
RejectionIsFinal ==
  \A g \in Guards : answer[g]["commit"].status = "4xx" =>
    ~CommitInFlight(g) /\ ~CommitApplied(g)

CommitInv ==
  ReleaseIsLast /\ CommitIsLate /\ CommitIsSingle /\ InFlightIsNotApplied /\ RejectionIsFinal

-----------------------------------------------------------------------------
\* How a guard's step moves its program counter and enters _handle_release.
LEMMA PcFrame ==
  ASSUME NEW g \in Guards, TypeOK, GuardStep(g)
  PROVE  /\ \A h \in Guards \ {g} :
              /\ pc'[h] = pc[h] \/ (pc[h] = "done" /\ pc'[h] = "reentered")
              /\ via'[h] = via[h]
         /\ \/ pc'[g] = pc[g] /\ via'[g] = via[g]
            \/ pc'[g] \in {"done", "crashed"} /\ via'[g] = via[g]
            \/ /\ pc[g] \in {"idle", "reserving"} /\ pc'[g] \in {"reserving", "body"}
               /\ via'[g] = via[g]
            \/ BodyReturns(g) /\ pc'[g] = "committing" /\ via'[g] = via[g]
            \/ pc'[g] = "releasing" /\ (pc[g] = "body" \/ CommitRejects(g))
  <1> USE DEF TypeOK
  <1>1. CASE \/ EnterInvalid(g) \/ EnterRaises(g) \/ EnterEscapes(g)
             \/ CommitSucceeds(g) \/ CommitUncertain(g) \/ CommitRaises(g)
             \/ CommitEscapes(g) \/ ReleaseAnswered(g) \/ ReleaseRaises(g)
             \/ ReleaseEscapes(g)
    <2>1. pc' = [pc EXCEPT ![g] = "done"] /\ via' = via
      BY <1>1 DEF EnterInvalid, EnterRaises, EnterEscapes, CommitSucceeds, CommitUncertain,
           CommitRaises, CommitEscapes, ReleaseAnswered, ReleaseRaises, ReleaseEscapes, End
    <2>2. QED  BY <2>1
  <1>2. CASE Crash(g)
    BY <1>2 DEF Crash
  <1>3. CASE Enter(g) \/ EnterReturns(g)
    BY <1>3 DEF Enter, EnterReturns
  <1>4. CASE BodyReturns(g)
    BY <1>4 DEF BodyReturns
  <1>5. CASE \/ \E exc_name \in ExcNames : BodyRaises(g, exc_name)
             \/ BodyAborts(g) \/ CommitRejects(g)
    <2>1. PICK cause \in ReleaseCauses :
            /\ pc' = [pc EXCEPT ![g] = "releasing"] /\ via' = [via EXCEPT ![g] = cause]
            /\ pc[g] = "body" \/ CommitRejects(g)
      BY <1>5 DEF BodyRaises, BodyAborts, CommitRejects, StartRelease, ReleaseCauses
    <2>2. QED  BY <2>1
  <1>6. CASE \/ Charge(g) \/ abort(g) \/ TransportFails(g)
             \/ \E override \in Overrides : set_actual_micros(g, override)
             \/ \E fields \in Fields : attach_receipt_fields(g, fields)
    BY <1>6 DEF Charge, abort, TransportFails, set_actual_micros, attach_receipt_fields, guardVars
  <1>7. CASE \E k \in Guards : EnterAgain(g, k)
    BY <1>7 DEF EnterAgain
  <1>8. QED  BY <1>1, <1>2, <1>3, <1>4, <1>5, <1>6, <1>7 DEF GuardStep, Proceed, Fail, Leave, Process

\* A commit becomes applied only by being handled.
LEMMA AppliedFrame ==
  ASSUME NEW q \in requests, NEW g \in Guards, TypeOK, Handle(q), CommitApplied(g)'
  PROVE  CommitApplied(g) \/ (q.op = "commit" /\ q.from = g /\ Finalise(q))
  <1> USE DEF TypeOK, CommitApplied
  <1>1. q \in Requests
    OBVIOUS
  <1>2. CASE Create(q)
    <2>1. q.from \in Guards
      BY <1>1 DEF Requests, RequestsOf
    <2>2. QED  BY <1>2, <2>1 DEF Create
  <1>3. CASE Finalise(q)
    <2>1. q.rid \in Guards /\ q.op \in {"commit", "release"}
      BY <1>1, <1>3 DEF Finalise, Requests, RequestsOf
    <2>2. PICK r \in Guards : resv'[r].state = "COMMITTED" /\ resv'[r].by = g
      OBVIOUS
    <2>3. CASE r = q.rid
      BY <1>3, <2>1, <2>2, <2>3 DEF Finalise, FinalState, Reservations
    <2>4. CASE r # q.rid
      BY <1>3, <2>1, <2>2, <2>4 DEF Finalise
    <2>5. QED  BY <2>3, <2>4
  <1>4. CASE \/ Refuse(q) \/ Evaluate(q) \/ ReplayReserve(q) \/ MismatchReserve(q)
             \/ ReplayFinal(q) \/ RefuseFinal(q)
    BY <1>4 DEF Refuse, Evaluate, ReplayReserve, MismatchReserve, ReplayFinal, RefuseFinal
  <1>5. QED  BY <1>2, <1>3, <1>4 DEF Handle

\* Finalise is never answered with a 4xx.
LEMMA RejectionFrame ==
  ASSUME NEW q \in requests, NEW g \in Guards, TypeOK, Handle(q),
         answer'[g]["commit"].status = "4xx", answer[g]["commit"].status # "4xx"
  PROVE  q.from = g /\ q.op = "commit" /\ ~Finalise(q)
  <1>1. answer'[g]["commit"] # answer[g]["commit"] /\ "commit" \in Ops
    BY DEF Ops
  <1>2. ASSUME NEW a, Reply(q, a)
        PROVE  q.from = g /\ q.op = "commit" /\ answer'[g]["commit"] = a
    BY <1>1, <1>2, ReplyAnswers
  <1>3. q.from = g /\ q.op = "commit"
    BY <1>2 DEF Handle, Refuse, Evaluate, Create, ReplayReserve, MismatchReserve, Finalise,
         ReplayFinal, RefuseFinal
  <1>4. ~Finalise(q)
    BY <1>2 DEF Finalise, Response, ServerError
  <1>5. QED  BY <1>3, <1>4

LEMMA CommitInit ==
  ASSUME Init
  PROVE  CommitInv
  BY DEF Init, ServerInit, GuardInit, CommitInv, ReleaseIsLast, CommitIsLate, CommitIsSingle,
     InFlightIsNotApplied, RejectionIsFinal, CommitInFlight, CommitApplied, NoReservation,
     NoCall, Closed, Response, Ops

\* A step of a guard keeps the invariant.
LEMMA CommitGuardStep ==
  ASSUME NEW g \in Guards, TypeOK, CommitInv, GuardStep(g)
  PROVE  CommitInv'
  <1> USE DEF CommitInv
  <1>1. \A h \in Guards : CommitApplied(h)' <=> CommitApplied(h)
    BY GuardFrame DEF CommitApplied
  <1>2. \A h \in Guards : CommitInFlight(h) => CommitInFlight(h)'
    BY GuardFrame DEF CommitInFlight
  <1>3. \A h \in Guards : CommitInFlight(h)' => CommitInFlight(h) \/ (h = g /\ BodyReturns(g))
    BY GuardFrame DEF CommitInFlight
  <1>4. BodyReturns(g) => pc[g] = "body" /\ ~CommitInFlight(g) /\ ~CommitApplied(g) /\ via[g] = None
    BY DEF BodyReturns, CommitIsLate, ReleaseIsLast
  <1>5. CommitRejects(g) => answer[g]["commit"].status = "4xx"
    BY DEF CommitRejects, Answered, Committed, OutcomeUnknown, CommitRejected, Awaiting, Closed,
       Response, TypeOK, Responses, Ops
  <1>6. pc'[g] = "releasing" => (~CommitInFlight(g) /\ ~CommitApplied(g)) \/ pc[g] = "releasing"
    BY <1>5, PcFrame DEF CommitIsLate, RejectionIsFinal, BodyReturns
  <1>7. ReleaseIsLast'
    BY <1>4, PcFrame DEF ReleaseIsLast
  <1>8. BodyReturns(g) => pc'[g] = "committing" /\ via'[g] = None
    BY <1>4 DEF BodyReturns, TypeOK
  <1>9. CommitIsLate'
    <2> SUFFICES ASSUME NEW h \in Guards, (CommitInFlight(h) \/ CommitApplied(h))'
                 PROVE  pc'[h] \in {"committing", "done", "crashed", "reentered"} /\ via'[h] = None
      BY DEF CommitIsLate
    <2>1. CommitInFlight(h) \/ CommitApplied(h) \/ (h = g /\ BodyReturns(g))
      BY <1>1, <1>3
    <2>2. CASE h = g /\ BodyReturns(g)
      BY <1>8, <2>2
    <2>3. CASE CommitInFlight(h) \/ CommitApplied(h)
      <3>1. pc[h] \in {"committing", "done", "crashed", "reentered"} /\ via[h] = None
        BY <2>3 DEF CommitIsLate
      <3>2. CASE h # g
        BY <3>1, <3>2, PcFrame
      <3>3. CASE h = g
        BY <1>4, <1>6, <2>3, <3>1, <3>3, PcFrame
      <3>4. QED  BY <3>2, <3>3
    <2>4. QED  BY <2>1, <2>2, <2>3
  <1>10. CommitIsSingle'
    <2> SUFFICES ASSUME NEW p \in requests', NEW q \in requests',
                        p.op = "commit", q.op = "commit", p.from = q.from
                 PROVE  p = q
      BY DEF CommitIsSingle
    <2>1. CASE p \in requests /\ q \in requests
      BY <2>1 DEF CommitIsSingle
    <2>2. CASE p \notin requests \/ q \notin requests
      <3>1. BodyReturns(g) /\ p.from = g /\ q.from = g
        BY <2>2, GuardFrame
      <3>2. p \notin requests /\ q \notin requests
        BY <1>4, <3>1 DEF CommitInFlight
      <3>3. QED  BY <3>1, <3>2 DEF BodyReturns, Send
    <2>3. QED  BY <2>1, <2>2
  <1>11. InFlightIsNotApplied'
    BY <1>1, <1>3, <1>4 DEF InFlightIsNotApplied
  <1>12. RejectionIsFinal'
    <2> SUFFICES ASSUME NEW h \in Guards, answer'[h]["commit"].status = "4xx"
                 PROVE  ~CommitInFlight(h)' /\ ~CommitApplied(h)'
      BY DEF RejectionIsFinal
    <2>1. answer[h]["commit"].status = "4xx"
      BY GuardAnswers DEF Ops, Closed, Awaiting, TransportDown, Response
    <2>2. ~(h = g /\ BodyReturns(g))
      <3>1. BodyReturns(g) => answer'[g]["commit"].status = "awaiting"
        BY DEF BodyReturns, Send, NoCall, Ops, Awaiting, Response, TypeOK
      <3>2. QED  BY <3>1
    <2>3. QED  BY <1>1, <1>3, <2>1, <2>2 DEF RejectionIsFinal
  <1>13. QED  BY <1>7, <1>9, <1>10, <1>11, <1>12

\* So does a step of the server: it takes the commit it applies off the wire.
LEMMA CommitServe ==
  ASSUME NEW q \in requests, BucketInv, CommitInv, Handle(q), UNCHANGED guardVars
  PROVE  CommitInv'
  <1> USE DEF CommitInv
  <1>1. TypeOK /\ requests' = requests \ {q}
    BY HandleFrame DEF BucketInv
  <1>2. pc' = pc /\ via' = via
    BY DEF guardVars
  <1>3. \A g \in Guards : CommitInFlight(g)' => CommitInFlight(g)
    BY <1>1 DEF CommitInFlight
  <1>4. \A g \in Guards : CommitApplied(g)' =>
          CommitApplied(g) \/ (q.op = "commit" /\ q.from = g /\ Finalise(q))
    BY <1>1, AppliedFrame
  <1>5. \A g \in Guards : q.op = "commit" /\ q.from = g =>
          CommitInFlight(g) /\ ~CommitApplied(g) /\ ~CommitInFlight(g)'
    BY <1>1 DEF CommitInFlight, CommitIsSingle, InFlightIsNotApplied
  <1>6. ReleaseIsLast'
    BY <1>2 DEF ReleaseIsLast
  <1>7. CommitIsLate'
    BY <1>2, <1>3, <1>4, <1>5 DEF CommitIsLate
  <1>8. CommitIsSingle'
    BY <1>1 DEF CommitIsSingle
  <1>9. InFlightIsNotApplied'
    BY <1>3, <1>4, <1>5 DEF InFlightIsNotApplied
  <1>10. RejectionIsFinal'
    <2> SUFFICES ASSUME NEW g \in Guards, answer'[g]["commit"].status = "4xx"
                 PROVE  ~CommitInFlight(g)' /\ ~CommitApplied(g)'
      BY DEF RejectionIsFinal
    <2>1. CASE answer[g]["commit"].status = "4xx"
      BY <1>3, <1>4, <1>5, <2>1 DEF RejectionIsFinal
    <2>2. CASE answer[g]["commit"].status # "4xx"
      <3>1. q.from = g /\ q.op = "commit" /\ ~Finalise(q)
        BY <1>1, <2>2, RejectionFrame
      <3>2. QED  BY <1>4, <1>5, <3>1
    <2>3. QED  BY <2>1, <2>2
  <1>11. QED  BY <1>6, <1>7, <1>8, <1>9, <1>10

LEMMA CommitStep ==
  ASSUME BucketInv, CommitInv, [Next]_vars
  PROVE  CommitInv'
  <1>1. TypeOK
    BY DEF BucketInv
  <1>2. CASE \E g \in Guards : GuardStep(g)
    BY <1>1, <1>2, CommitGuardStep
  <1>3. CASE Serve
    BY <1>3, CommitServe DEF Serve
  <1>4. CASE Lapse
    <2>1. PICK s \in Guards : Expire(s)
      BY <1>4 DEF Lapse
    <2>2. requests' = requests /\ answer' = answer /\ pc' = pc /\ via' = via
      BY <1>1, <1>4, <2>1, LapseFrame DEF Lapse, guardVars
    <2>3. \A g \in Guards : CommitInFlight(g)' <=> CommitInFlight(g)
      BY <2>2 DEF CommitInFlight
    <2>4. \A g \in Guards : CommitApplied(g)' => CommitApplied(g)
      BY <1>1, <2>1, LapseFrame DEF CommitApplied
    <2>5. QED
      BY <2>2, <2>3, <2>4 DEF CommitInv, ReleaseIsLast, CommitIsLate, CommitIsSingle,
         InFlightIsNotApplied, RejectionIsFinal
  <1>5. CASE UNCHANGED vars
    BY <1>5 DEF vars, serverVars, guardVars, CommitInv, ReleaseIsLast, CommitIsLate,
       CommitIsSingle, InFlightIsNotApplied, RejectionIsFinal, CommitInFlight, CommitApplied
  <1>6. QED  BY <1>2, <1>3, <1>4, <1>5 DEF Next

\* A guard never asks for a release while its own commit is still on the wire,
\* or after it was applied: of the answers to a commit only an unrecognised 4xx
\* leads to _handle_release, and such an answer is of a commit that was handled
\* without effect.
THEOREM ReleasesAreSafe == Spec => []ReleaseNeverRacesCommit
  <1>1. Init => BucketInv /\ CommitInv
    BY BucketInit, CommitInit
  <1>2. BucketInv /\ CommitInv /\ [Next]_vars => (BucketInv /\ CommitInv)'
    BY BucketStep, CommitStep
  <1>3. CommitInv => ReleaseNeverRacesCommit
    BY DEF CommitInv, CommitIsLate, ReleaseNeverRacesCommit
  <1>4. QED  BY <1>1, <1>2, <1>3, PTL DEF Spec
=============================================================================
