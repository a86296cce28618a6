----------------------------- MODULE LockProofs -----------------------------
(***************************************************************************)
(* Theorem: guards, wire and server together implement PaymentLock, for    *)
(* every set of guards, configs, amounts and exception names.              *)
(***************************************************************************)
EXTENDS SettlementProofs

-----------------------------------------------------------------------------
(***************************************************************************)
(* Payments are classes of configs.                                        *)
(***************************************************************************)
SameConfig(c, d) == c.tenant = d.tenant /\ SamePayment(c.mandate, d.mandate)

LEMMA SameIsEquivalence ==
  /\ \A c : SameConfig(c, c)
  /\ \A c, d : SameConfig(c, d) => SameConfig(d, c)
  /\ \A c, d, e : SameConfig(c, d) /\ SameConfig(d, e) => SameConfig(c, e)
  BY DEF SameConfig, SamePayment

LEMMA PaymentsAreClasses ==
  ASSUME NEW c \in Configs, NEW d \in Configs
  PROVE  PaymentOf(c) = PaymentOf(d) <=> SameConfig(c, d)
  <1>1. \A e \in Configs : e \in PaymentOf(c) <=> SameConfig(e, c)
    BY DEF PaymentOf, SameConfig
  <1>2. \A e \in Configs : e \in PaymentOf(d) <=> SameConfig(e, d)
    BY DEF PaymentOf, SameConfig
  <1>3. ASSUME PaymentOf(c) = PaymentOf(d)
        PROVE  SameConfig(c, d)
    BY <1>1, <1>2, <1>3, SameIsEquivalence
  <1>4. ASSUME SameConfig(c, d)
        PROVE  PaymentOf(c) = PaymentOf(d)
    <2>1. \A e \in Configs : e \in PaymentOf(c) <=> e \in PaymentOf(d)
      BY <1>1, <1>2, <1>4, SameIsEquivalence
    <2>2. PaymentOf(c) \subseteq Configs /\ PaymentOf(d) \subseteq Configs
      BY DEF PaymentOf
    <2>3. QED  BY <2>1, <2>2
  <1>5. QED  BY <1>3, <1>4

\* The payment of a guard, and of the reservation named after it.
Payment(g) == PaymentOf(config[g])

LEMMA CoverIsSamePayment ==
  ASSUME BucketInv, NEW g \in Guards, NEW r, Covers(r, g)
  PROVE  Payment(r) = Payment(g)
  <1>1. /\ r \in Guards /\ config[r] \in Configs /\ config[g] \in Configs
        /\ resv[r].tenant = config[r].tenant /\ resv[r].body = ReservationBody(r)
        /\ resv[r].tenant = config[g].tenant /\ resv[r].body = ReservationBody(g)
    BY DEF Covers, BucketInv, TypeOK, OwnReservations
  <1>2. SamePayment(config[r].mandate, config[g].mandate)
    BY <1>1, ReserveKey DEF ReservationBody
  <1>3. SameConfig(config[r], config[g])
    BY <1>1, <1>2 DEF SameConfig
  <1>4. PaymentOf(config[r]) = PaymentOf(config[g])
    BY <1>1, <1>3, PaymentsAreClasses
  <1>5. QED  BY <1>4 DEF Payment

-----------------------------------------------------------------------------
(***************************************************************************)
(* What LockOf is: the state of the one reservation of the payment.        *)
(***************************************************************************)
StateOfLock(state) ==
  CASE state = "ACTIVE" -> "held"
    [] state = "COMMITTED" -> "settled"
    [] state \in {"RELEASED", "EXPIRED"} -> "returned"

Reserved(p) == \E r \in Guards : Exists(r) /\ Payment(r) = p

LockIsState ==
  /\ \A r \in Guards : Exists(r) => LockOf(Payment(r)) = StateOfLock(resv[r].state)
  /\ \A p : ~Reserved(p) => LockOf(p) = "free"

LEMMA LockStates == BucketInv => LockIsState
  <1> SUFFICES ASSUME BucketInv
               PROVE  LockIsState
    OBVIOUS
  <1>1. ASSUME NEW r \in Guards, Exists(r)
        PROVE  LockOf(Payment(r)) = StateOfLock(resv[r].state)
    <2> DEFINE held == {s \in Guards : Exists(s) /\ PaymentOf(config[s]) = Payment(r)}
    <2>1. held = {r}
      <3>1. \A s \in Guards : config[s] \in Configs
        BY DEF BucketInv, TypeOK
      <3>2. \A s \in held : s = r
        BY <1>1, <3>1, PaymentsAreClasses, BucketConsumesOnce DEF ConsumeOnce, SameConfig, Payment
      <3>3. r \in held
        BY <1>1 DEF Payment
      <3>4. QED  BY <3>2, <3>3
    <2>2. (CHOOSE s \in held : TRUE) = r /\ held # {}
      BY <2>1
    <2>3. resv[r].state \in {"ACTIVE", "COMMITTED", "RELEASED", "EXPIRED"}
      BY <1>1 DEF BucketInv, TypeOK, Reservations, Exists
    <2> HIDE DEF held
    <2>4. LockOf(Payment(r)) =
            CASE held = {} -> "free"
              [] held # {} /\ resv[r].state = "ACTIVE" -> "held"
              [] held # {} /\ resv[r].state = "COMMITTED" -> "settled"
              [] held # {} /\ resv[r].state \in {"RELEASED", "EXPIRED"} -> "returned"
      BY <2>2 DEF LockOf, held
    <2>5. QED  BY <2>2, <2>3, <2>4 DEF StateOfLock
  <1>2. ASSUME NEW p, ~Reserved(p)
        PROVE  LockOf(p) = "free"
    <2>1. {s \in Guards : Exists(s) /\ PaymentOf(config[s]) = p} = {}
      BY <1>2 DEF Reserved, Payment
    <2>2. QED  BY <2>1 DEF LockOf
  <1>3. QED  BY <1>1, <1>2 DEF LockIsState

\* The same of the next state.
LEMMA NextLockStates == BucketInv' => LockIsState'
  BY LockStates, PTL

-----------------------------------------------------------------------------
(***************************************************************************)
(* What becomes of a lock.                                                 *)
(***************************************************************************)
\* One reservation moves: it is made, or it ends.
IsMade(r) == ~Exists(r) /\ resv'[r].state = "ACTIVE"
IsEnded(r) == resv[r].state = "ACTIVE" /\ resv'[r].state \in {"COMMITTED", "RELEASED", "EXPIRED"}
Moves(r) ==
  /\ \A s \in Guards \ {r} : resv'[s].state = resv[s].state
  /\ IsMade(r) \/ IsEnded(r)

LEMMA HandleMoves ==
  ASSUME NEW q \in requests, BucketInv, Handle(q)
  PROVE  resv' = resv \/ \E r \in Guards : Moves(r)
  <1> USE DEF BucketInv, TypeOK
  <1>1. q \in Requests /\ q.from \in Guards
    BY DEF Requests, RequestsOf
  <1>2. CASE Create(q)
    <2>1. ~Exists(q.from)
      BY <1>1, <1>2 DEF Create, Bucket, OwnRequests, OwnReservations, Exists
    <2>2. QED  BY <1>1, <1>2, <2>1 DEF Create, Moves, IsMade
  <1>3. CASE Finalise(q)
    <2>1. q.rid \in Guards
      BY <1>1, <1>3 DEF Finalise, Requests, RequestsOf
    <2>2. resv'[q.rid].state \in {"COMMITTED", "RELEASED"}
      BY <1>3, <2>1 DEF Finalise, FinalState, Reservations
    <2>3. QED  BY <1>3, <2>1, <2>2 DEF Finalise, Moves, IsEnded
  <1>4. CASE \/ Refuse(q) \/ Evaluate(q) \/ ReplayReserve(q) \/ MismatchReserve(q)
             \/ ReplayFinal(q) \/ RefuseFinal(q)
    BY <1>4 DEF Refuse, Evaluate, ReplayReserve, MismatchReserve, ReplayFinal, RefuseFinal
  <1>5. QED  BY <1>2, <1>3, <1>4 DEF Handle

LEMMA LapseMoves ==
  ASSUME Lapse, TypeOK
  PROVE  \E r \in Guards : Moves(r)
  BY DEF Lapse, Expire, TypeOK, Reservations, Moves, IsEnded

\* The lock of the payment moves with the reservation, and no other lock does.
LEMMA LockMoves ==
  ASSUME BucketInv, BucketInv', config' = config, NEW r \in Guards, Moves(r)
  PROVE  /\ \A p : p # Payment(r) => LockOf(p)' = LockOf(p)
         /\ IsMade(r) => LockOf(Payment(r)) = "free" /\ LockOf(Payment(r))' = "held"
         /\ IsEnded(r) => /\ LockOf(Payment(r)) = "held"
                          /\ LockOf(Payment(r))' \in {"settled", "returned"}
  <1>1. LockIsState /\ LockIsState'
    BY LockStates, NextLockStates
  <1>2. \A s \in Guards : Payment(s)' = Payment(s)
    BY DEF Payment, PaymentOf
  <1>3. \A s \in Guards \ {r} : Exists(s)' <=> Exists(s)
    BY DEF Moves, Exists
  <1>4. ASSUME NEW p, p # Payment(r)
        PROVE  LockOf(p)' = LockOf(p)
    <2>1. CASE Reserved(p)
      <3>1. PICK s \in Guards : Exists(s) /\ Payment(s) = p
        BY <2>1 DEF Reserved
      <3>2. s # r /\ Exists(s)' /\ resv'[s].state = resv[s].state
        BY <1>3, <1>4, <3>1 DEF Moves
      <3>3. LockOf(p) = StateOfLock(resv[s].state)
        BY <1>1, <3>1 DEF LockIsState
      <3>4. LockOf(Payment(s))' = StateOfLock(resv[s].state)'
        BY <1>1, <3>2 DEF LockIsState
      <3>5. LockOf(p)' = LockOf(Payment(s))'
        BY <1>2, <3>1
      <3>6. StateOfLock(resv[s].state)' = StateOfLock(resv[s].state)
        BY <3>2
      <3>7. QED  BY <3>3, <3>4, <3>5, <3>6
    <2>2. CASE ~Reserved(p)
      <3>1. ~Reserved(p)'
        BY <1>2, <1>3, <1>4, <2>2 DEF Reserved
      <3>2. QED  BY <1>1, <2>2, <3>1 DEF LockIsState
    <2>3. QED  BY <2>1, <2>2
  <1>5. ASSUME IsMade(r)
        PROVE  LockOf(Payment(r)) = "free" /\ LockOf(Payment(r))' = "held"
    <2>1. Exists(r)' /\ resv'[r].state = "ACTIVE"
      BY <1>5 DEF IsMade, Exists
    <2>2. ASSUME NEW s \in Guards, Exists(s), Payment(s) = Payment(r)
          PROVE  FALSE
      <3>1. s # r /\ Exists(s)'
        BY <1>3, <1>5, <2>2 DEF IsMade
      <3>2. config[s] \in Configs /\ config[r] \in Configs
        BY DEF BucketInv, TypeOK
      <3>3. SameConfig(config[s], config[r])
        BY <2>2, <3>2, PaymentsAreClasses DEF Payment
      <3>4. /\ resv'[s].tenant = config[s].tenant /\ resv'[s].body = ReservationBody(s)'
            /\ resv'[r].tenant = config[r].tenant /\ resv'[r].body = ReservationBody(r)'
        BY <2>1, <3>1 DEF BucketInv, OwnReservations
      <3>5. ReservationBody(s)'.idempotency_key = ReservationBody(r)'.idempotency_key
        BY <3>2, <3>3, ReserveKey DEF ReservationBody, SameConfig
      <3>6. s = r
        BY <2>1, <3>1, <3>3, <3>4, <3>5 DEF BucketInv, OnePerBucket, SameConfig
      <3>7. QED  BY <3>1, <3>6
    <2>3. ~Reserved(Payment(r))
      BY <2>2 DEF Reserved
    <2>4. LockOf(Payment(r)) = "free"
      BY <1>1, <2>3 DEF LockIsState
    <2>5. LockOf(Payment(r))' = StateOfLock(resv[r].state)'
      BY <1>1, <2>1 DEF LockIsState
    <2>6. QED  BY <2>1, <2>4, <2>5 DEF StateOfLock
  <1>6. ASSUME IsEnded(r)
        PROVE  LockOf(Payment(r)) = "held" /\ LockOf(Payment(r))' \in {"settled", "returned"}
    <2>1. Exists(r) /\ Exists(r)'
      BY <1>6 DEF IsEnded, Exists
    <2>2. LockOf(Payment(r)) = StateOfLock(resv[r].state)
      BY <1>1, <2>1 DEF LockIsState
    <2>3. LockOf(Payment(r))' = StateOfLock(resv[r].state)'
      BY <1>1, <2>1 DEF LockIsState
    <2>4. QED  BY <1>6, <2>2, <2>3 DEF IsEnded, StateOfLock
  <1>7. QED  BY <1>4, <1>5, <1>6

-----------------------------------------------------------------------------
(***************************************************************************)
(* What a guard is told.                                                   *)
(***************************************************************************)
\* An object that has committed, in whichever of its with statements, has the
\* lock of its payment settled.
CommitsLast ==
  \A g \in Guards : self[g].committed =>
    \E r \in Guards : resv[r].state = "COMMITTED" /\ Payment(r) = Payment(g)

\* A step of a guard assigns _committed and an outcome to no other guard; what
\* it is told, it is told once.
LEMMA ToldFrame ==
  ASSUME NEW g \in Guards, NEW h \in Guards, TypeOK, GuardStep(g)
  PROVE  /\ \/ self'[h].committed = self[h].committed
            \/ h = g /\ CommitSucceeds(g)
            \/ /\ h = g /\ pc[g] = "idle" /\ outcome' = outcome
               /\ \E k \in Guards : config[k] = config[g] /\ self'[h] = self[k]
         /\ \/ outcome'[h] = outcome[h]
            \/ h = g /\ pc[g] \notin {"done", "crashed", "reentered"} /\ charged' = charged
  <1> USE DEF TypeOK
  <1>1. CASE \/ EnterInvalid(g) \/ EnterEscapes(g)
             \/ CommitUncertain(g) \/ CommitRaises(g)
             \/ CommitEscapes(g) \/ ReleaseAnswered(g) \/ ReleaseRaises(g)
             \/ ReleaseEscapes(g)
    BY <1>1 DEF EnterInvalid, EnterEscapes, CommitUncertain, CommitRaises, CommitEscapes,
         ReleaseAnswered, ReleaseRaises, ReleaseEscapes, End
  <1>2. CASE CommitSucceeds(g)
    <2>1. pc[g] = "committing" /\ charged' = charged /\ outcome' = [outcome EXCEPT ![g] = "returned"]
      BY <1>2 DEF CommitSucceeds, End
    <2>2. h # g => self'[h] = self[h]
      BY <1>2 DEF CommitSucceeds
    <2>3. QED  BY <1>2, <2>1, <2>2
  <1>3. CASE EnterRaises(g)
    <2>1. /\ pc[g] = "reserving" /\ charged' = charged
          /\ \E o \in Outcomes : outcome' = [outcome EXCEPT ![g] = o]
      BY <1>3 DEF EnterRaises, End, Outcomes
    <2>2. self'[h].committed = self[h].committed
      BY <1>3 DEF EnterRaises, Objects
    <2>3. QED  BY <2>1, <2>2
  <1>4. CASE EnterReturns(g)
    BY <1>4 DEF EnterReturns, Objects
  <1>5. CASE Enter(g) \/ Crash(g)
    BY <1>5 DEF Enter, Crash
  <1>6. CASE Charge(g) \/ TransportFails(g)
    BY <1>6 DEF Charge, TransportFails, guardVars
  <1>7. CASE abort(g)
    BY <1>7 DEF abort, Objects
  <1>8. CASE \E override \in Overrides : set_actual_micros(g, override)
    BY <1>8 DEF set_actual_micros, Objects
  <1>9. CASE \E fields \in Fields : attach_receipt_fields(g, fields)
    BY <1>9 DEF attach_receipt_fields, Objects
  <1>10. CASE \/ \E exc_name \in ExcNames : BodyRaises(g, exc_name)
             \/ BodyAborts(g) \/ BodyReturns(g) \/ CommitRejects(g)
    BY <1>10 DEF BodyRaises, BodyAborts, BodyReturns, CommitRejects, StartRelease
  <1>11. CASE \E k \in Guards : EnterAgain(g, k)
    BY <1>11 DEF EnterAgain
  <1>12. QED
    BY <1>1, <1>2, <1>3, <1>4, <1>5, <1>6, <1>7, <1>8, <1>9, <1>10, <1>11
       DEF GuardStep, Proceed, Fail, Leave, Process

\* The reservation a guard has settled or released is the one of its payment.
HoldOwn ==
  \A g \in Guards : Holds(g) \in Guards => Exists(Holds(g)) /\ Payment(Holds(g)) = Payment(g)

LEMMA HeldIsOwn == SystemInv => HoldOwn
  <1> SUFFICES ASSUME SystemInv, NEW g \in Guards, Holds(g) \in Guards
               PROVE  Exists(Holds(g)) /\ Payment(Holds(g)) = Payment(g)
    BY DEF HoldOwn
  <1>1. Holds(g) # None
    BY NoneAssumption
  <1>2. Covers(Holds(g), g)
    BY <1>1 DEF SystemInv, CoverInv, Handed
  <1>3. QED  BY <1>2, CoverIsSamePayment DEF SystemInv, Covers

\* A settled reservation stays settled.
LEMMA SettledLasts ==
  ASSUME SystemInv, [Next]_vars, NEW r \in Guards, resv[r].state = "COMMITTED"
  PROVE  resv'[r].state = "COMMITTED"
  <1>1. CASE UNCHANGED vars
    BY <1>1 DEF vars, serverVars
  <1>2. CASE \E g \in Guards : GuardStep(g)
    BY <1>2, GuardFrame
  <1>3. CASE Serve
    BY <1>3, FinalsLast DEF Serve, SystemInv
  <1>4. CASE Lapse
    BY <1>4 DEF Lapse, Expire, SystemInv, BucketInv, TypeOK
  <1>5. QED  BY <1>1, <1>2, <1>3, <1>4 DEF Next

LEMMA CommitsLastInit ==
  ASSUME Init
  PROVE  CommitsLast
  BY DEF Init, GuardInit, NewObject, CommitsLast

LEMMA CommitsLastStep ==
  ASSUME SystemInv, CommitsLast, [Next]_vars
  PROVE  CommitsLast'
  <1> SUFFICES ASSUME NEW h \in Guards, self'[h].committed
               PROVE  \E r \in Guards : resv'[r].state = "COMMITTED" /\ Payment(r)' = Payment(h)'
    BY DEF CommitsLast
  <1>1. config' = config /\ \A s \in Guards : Payment(s)' = Payment(s)
    BY ReservationsLast DEF SystemInv, Payment, PaymentOf
  <1>2. ASSUME NEW k \in Guards, self[k].committed, Payment(k) = Payment(h)
        PROVE  \E r \in Guards : resv'[r].state = "COMMITTED" /\ Payment(r)' = Payment(h)'
    BY <1>1, <1>2, SettledLasts DEF CommitsLast
  <1>3. CASE self'[h].committed = self[h].committed
    BY <1>2, <1>3
  <1>4. CASE self'[h].committed # self[h].committed
    <2>1. PICK g \in Guards : GuardStep(g)
      BY <1>4 DEF Next, vars, Serve, Lapse, guardVars
    <2>2. CASE CommitSucceeds(h)
      <3>1. Settled(h)
        BY <2>2 DEF CommitSucceeds, Committed, SystemInv, SettleInv, Informed
      <3>2. Holds(h) \in Guards /\ resv[Holds(h)].state = "COMMITTED"
        BY <3>1 DEF Settled
      <3>3. Payment(Holds(h)) = Payment(h)
        BY <3>2, HeldIsOwn DEF HoldOwn
      <3>4. QED  BY <1>1, <3>2, <3>3, SettledLasts
    <2>3. CASE \E k \in Guards : config[k] = config[h] /\ self'[h] = self[k]
      BY <1>2, <2>3 DEF Payment
    <2>4. \/ h = g /\ CommitSucceeds(g)
          \/ h = g /\ \E k \in Guards : config[k] = config[g] /\ self'[h] = self[k]
      BY <1>4, <2>1, ToldFrame DEF SystemInv, BucketInv
    <2>5. QED  BY <2>2, <2>3, <2>4
  <1>5. QED  BY <1>3, <1>4

LEMMA CommitsLastAlways == Spec => []CommitsLast
  <1>1. SystemInv /\ CommitsLast /\ [Next]_vars => CommitsLast'
    BY CommitsLastStep
  <1>2. Init => CommitsLast
    BY CommitsLastInit
  <1>3. QED  BY <1>1, <1>2, SystemAlways, PTL DEF Spec

\* What a guard has been told of its payment is the state of the lock.
ToldSo == \A g \in Guards : ToldTo(g) # "nothing" => ToldTo(g) = LockOf(Payment(g))

LEMMA ToldIsSo == SystemInv /\ CommitsLast => ToldSo
  <1> SUFFICES ASSUME SystemInv, CommitsLast, NEW g \in Guards, ToldTo(g) # "nothing"
               PROVE  ToldTo(g) = LockOf(Payment(g))
    BY DEF ToldSo
  <1> USE DEF SystemInv
  <1>1. LockIsState
    BY LockStates
  <1>2. CASE self[g].committed /\ outcome[g] = "returned"
    <2>1. PICK r \in Guards : resv[r].state = "COMMITTED" /\ Payment(r) = Payment(g)
      BY <1>2 DEF CommitsLast
    <2>2. LockOf(Payment(g)) = StateOfLock("COMMITTED")
      BY <1>1, <2>1 DEF LockIsState, Exists
    <2>3. QED  BY <1>2, <2>2 DEF ToldTo, StateOfLock
  <1>3. CASE outcome[g] = "CommitFailedReleased"
    <2>1. Holds(g) \in Guards /\ resv[Holds(g)].state = "RELEASED"
      BY <1>3 DEF SettleInv, Informed, Released
    <2>2. Exists(Holds(g)) /\ Payment(Holds(g)) = Payment(g)
      BY <2>1, HeldIsOwn DEF HoldOwn
    <2>3. LockOf(Payment(g)) = StateOfLock("RELEASED")
      BY <1>1, <2>1, <2>2 DEF LockIsState
    <2>4. QED  BY <1>3, <2>3 DEF ToldTo, StateOfLock
  <1>4. QED  BY <1>2, <1>3 DEF ToldTo

LEMMA NextToldIsSo == SystemInv' /\ CommitsLast' => ToldSo'
  BY ToldIsSo, PTL

-----------------------------------------------------------------------------
(***************************************************************************)
(* The refinement.                                                         *)
(***************************************************************************)
Payments == {PaymentOf(c) : c \in Configs}

LEMMA RefinedInit ==
  ASSUME Init
  PROVE  Lock!LockInit
  <1>1. BucketInv
    BY BucketInit
  <1>2. \A r \in Guards : ~Exists(r)
    BY DEF Init, ServerInit, NoReservation, Exists
  <1>3. \A p : LockOf(p) = "free"
    BY <1>1, <1>2, LockStates DEF LockIsState, Reserved
  <1>4. \A g \in Guards : ToldTo(g) = "nothing"
    <2> SUFFICES ASSUME NEW g \in Guards
                 PROVE  ToldTo(g) = "nothing"
      OBVIOUS
    <2>1. ~self[g].committed /\ outcome[g] = None
      BY DEF Init, GuardInit, NewObject
    <2>2. outcome[g] \notin {"returned", "CommitFailedReleased"}
      BY <2>1, NoneAssumption DEF Outcomes, CommitFailures
    <2>3. QED  BY <2>1, <2>2 DEF ToldTo
  <1>5. [g \in Guards |-> PaymentOf(config[g])] \in [Guards -> Payments]
    BY DEF Init, GuardInit, Payments
  <1>6. charged = [g \in Guards |-> FALSE]
    BY DEF Init, GuardInit
  <1>7. QED  BY <1>3, <1>4, <1>5, <1>6 DEF Lock!LockInit, Payments

\* A step of the server, or the end of a lease, acquires or finishes one lock,
\* or none.
LEMMA RefinedMove ==
  ASSUME SystemInv, BucketInv', UNCHANGED guardVars, NEW r \in Guards, Moves(r)
  PROVE  Lock!LockNext
  <1>1. /\ \A p : p # Payment(r) => LockOf(p)' = LockOf(p)
        /\ IsMade(r) => LockOf(Payment(r)) = "free" /\ LockOf(Payment(r))' = "held"
        /\ IsEnded(r) => /\ LockOf(Payment(r)) = "held"
                         /\ LockOf(Payment(r))' \in {"settled", "returned"}
    BY LockMoves DEF SystemInv, guardVars
  <1>2. Payment(r)' = Payment(r) /\ Payment(r) \in Payments
    BY DEF Payment, Payments, PaymentOf, guardVars, SystemInv, BucketInv, TypeOK
  <1>3. PICK p \in Payments : p = Payment(r)
    BY <1>2
  <1>4. PICK end \in {"held", "settled", "returned"} : end = LockOf(p)'
    <2>1. LockOf(p)' = LockOf(Payment(r))'
      BY <1>2, <1>3
    <2>2. QED  BY <1>1, <2>1 DEF Moves
  <1>5. /\ IsMade(r) => LockOf(p) = "free" /\ end = "held"
        /\ IsEnded(r) => LockOf(p) = "held" /\ end \in {"settled", "returned"}
    BY <1>1, <1>2, <1>3, <1>4
  <1>6. [x \in Payments |-> LockOf(x)]' = [[x \in Payments |-> LockOf(x)] EXCEPT ![p] = end]
    <2>1. \A x \in Payments : LockOf(x)' = IF x = p THEN end ELSE LockOf(x)
      BY <1>1, <1>3, <1>4
    <2>2. [x \in Payments |-> LockOf(x)]' = [x \in Payments |-> IF x = p THEN end ELSE LockOf(x)]
      BY <2>1
    <2>3. QED  BY <2>2
  <1>7. /\ [g \in Guards |-> PaymentOf(config[g])]' = [g \in Guards |-> PaymentOf(config[g])]
        /\ [g \in Guards |-> ToldTo(g)]' = [g \in Guards |-> ToldTo(g)]
        /\ charged' = charged
    BY DEF guardVars, ToldTo
  <1>8. CASE IsMade(r)
    <2>1. Lock!Acquire(p)
      BY <1>3, <1>5, <1>6, <1>7, <1>8 DEF Lock!Acquire, Payments
    <2>2. QED  BY <1>3, <2>1 DEF Lock!LockNext, Payments
  <1>9. CASE IsEnded(r)
    <2>1. Lock!Finish(p, end)
      BY <1>3, <1>5, <1>6, <1>7, <1>9 DEF Lock!Finish, Payments
    <2>2. QED  BY <1>3, <1>5, <1>9, <2>1 DEF Lock!LockNext, Payments
  <1>10. QED  BY <1>8, <1>9 DEF Moves

\* A step of a guard spends, or tells its caller what has become of the lock, or
\* neither.
LEMMA RefinedGuardStep ==
  ASSUME SystemInv, SystemInv', CommitsLast', NEW g \in Guards, GuardStep(g)
  PROVE  Lock!LockNext \/ UNCHANGED Lock!lockVars
  <1> USE DEF SystemInv
  <1>1. config' = config /\ resv' = resv
    BY GuardFrame
  <1>2. \A p : LockOf(p)' = LockOf(p)
    BY <1>1 DEF LockOf, Exists
  <1>3. \A h \in Guards : Payment(h)' = Payment(h) /\ Payment(h) \in Payments
    BY <1>1 DEF Payment, PaymentOf, Payments, BucketInv, TypeOK
  <1>4. /\ [h \in Guards |-> PaymentOf(config[h])]' = [h \in Guards |-> PaymentOf(config[h])]
        /\ [p \in Payments |-> LockOf(p)]' = [p \in Payments |-> LockOf(p)]
    BY <1>1, <1>2 DEF PaymentOf
  <1>5. \A h \in Guards \ {g} : ToldTo(h)' = ToldTo(h)
    BY OthersFrame DEF ToldTo, BucketInv
  <1>6. pc[g] \notin {"done", "reentered"} => ToldTo(g) = "nothing"
    <2>1. pc[g] \notin {"done", "reentered"} => outcome[g] = None
      BY DEF SettleInv, Orderly
    <2>2. QED  BY <2>1, NoneAssumption DEF ToldTo, Outcomes, CommitFailures
  <1>7. CASE Charge(g)
    <2>1. pc[g] = "body" /\ charged' = [charged EXCEPT ![g] = TRUE]
      BY <1>7 DEF Charge
    <2>2. [h \in Guards |-> ToldTo(h)]' = [h \in Guards |-> ToldTo(h)]
      BY <1>7 DEF Charge, ToldTo
    <2>3. Holds(g) \in Guards
      BY <2>1 DEF BucketInv, TypeOK, AssertsHold, Holds, Objects
    <2>4. LockOf(Payment(g)) # "free"
      <3>1. Exists(Holds(g)) /\ Payment(Holds(g)) = Payment(g)
        BY <2>3, HeldIsOwn DEF HoldOwn
      <3>2. LockOf(Payment(g)) = StateOfLock(resv[Holds(g)].state)
        BY <2>3, <3>1, LockStates DEF LockIsState
      <3>3. resv[Holds(g)].state \in {"ACTIVE", "COMMITTED", "RELEASED", "EXPIRED"}
        BY <2>3, <3>1 DEF BucketInv, TypeOK, Reservations, Exists
      <3>4. QED  BY <3>2, <3>3 DEF StateOfLock
    <2>5. Lock!Spend(g)
      BY <1>3, <1>4, <1>6, <2>1, <2>2, <2>4 DEF Lock!Spend, Payment, Payments
    <2>6. QED  BY <2>5 DEF Lock!LockNext
  <1>8. CASE ~Charge(g) /\ ToldTo(g)' = ToldTo(g)
    <2>1. charged' = charged
      <3>1. \A h \in Guards : charged'[h] = charged[h]
        BY <1>8, GrantFrame DEF BucketInv
      <3>2. charged \in [Guards -> BOOLEAN] /\ charged' \in [Guards -> BOOLEAN]
        BY DEF BucketInv, TypeOK
      <3>3. QED  BY <3>1, <3>2
    <2>2. [h \in Guards |-> ToldTo(h)]' = [h \in Guards |-> ToldTo(h)]
      BY <1>5, <1>8
    <2>3. QED  BY <1>4, <2>1, <2>2 DEF Lock!lockVars, Payments
  <1>9. CASE ~Charge(g) /\ ToldTo(g)' # ToldTo(g)
    <2>1. charged' = charged /\ ToldTo(g) = "nothing"
      <3>1. CASE outcome'[g] = outcome[g]
        <4>1. self'[g].committed # self[g].committed
          BY <1>9, <3>1 DEF ToldTo
        <4>2. CommitSucceeds(g) \/ pc[g] = "idle"
          BY <4>1, ToldFrame DEF BucketInv
        <4>3. pc[g] \in {"committing", "idle"}
          BY <4>2 DEF CommitSucceeds
        <4>4. outcome'[g] = None
          BY <3>1, <4>3 DEF SettleInv, Orderly
        <4>5. ToldTo(g)' = "nothing"
          BY <4>4, NoneAssumption DEF ToldTo, Outcomes, CommitFailures
        <4>6. QED  BY <1>6, <1>9, <4>3, <4>5
      <3>2. CASE outcome'[g] # outcome[g]
        BY <1>6, <3>2, ToldFrame DEF BucketInv
      <3>3. QED  BY <3>1, <3>2
    <2>2. PICK end \in {"settled", "returned"} : ToldTo(g)' = end /\ LockOf(Payment(g)) = end
      <3>1. PICK p : p = Payment(g)
        OBVIOUS
      <3>2. ToldTo(g)' \in {"settled", "returned"}
        BY <1>9, <2>1 DEF ToldTo
      <3>3. ToldTo(g)' = LockOf(Payment(g))'
        BY <3>2, NextToldIsSo DEF ToldSo
      <3>4. LockOf(Payment(g))' = LockOf(p)'
        BY <1>3, <3>1
      <3>5. QED  BY <1>2, <3>1, <3>2, <3>3, <3>4
    <2>3. Lock!Tell(g, end)
      BY <1>3, <1>4, <1>5, <2>1, <2>2 DEF Lock!Tell, Payment, Payments
    <2>4. QED  BY <2>2, <2>3 DEF Lock!LockNext
  <1>10. QED  BY <1>7, <1>8, <1>9

LEMMA RefinedStep ==
  ASSUME SystemInv, SystemInv', CommitsLast', [Next]_vars
  PROVE  [Lock!LockNext]_(Lock!lockVars)
  <1>1. CASE UNCHANGED vars
    <2>1. /\ config' = config /\ self' = self /\ outcome' = outcome /\ charged' = charged
          /\ resv' = resv
      BY <1>1 DEF vars, serverVars, guardVars
    <2>2. UNCHANGED Lock!lockVars
      BY <2>1 DEF Lock!lockVars, PaymentOf, LockOf, Exists, ToldTo
    <2>3. QED  BY <2>2
  <1>2. CASE \E g \in Guards : GuardStep(g)
    BY <1>2, RefinedGuardStep
  <1>3. CASE Serve \/ Lapse
    <2>1. UNCHANGED guardVars /\ (resv' = resv \/ \E r \in Guards : Moves(r))
      BY <1>3, HandleMoves, LapseMoves DEF Serve, Lapse, SystemInv, BucketInv
    <2>2. CASE resv' = resv
      <3>1. UNCHANGED Lock!lockVars
        BY <2>1, <2>2 DEF guardVars, Lock!lockVars, PaymentOf, LockOf, Exists, ToldTo
      <3>2. QED  BY <3>1
    <2>3. CASE \E r \in Guards : Moves(r)
      BY <2>1, <2>3, RefinedMove DEF SystemInv
    <2>4. QED  BY <2>1, <2>2, <2>3
  <1>4. QED  BY <1>1, <1>2, <1>3 DEF Next

\* The system implements PaymentLock: whatever is retried, lost, late, raised or
\* crashed, a payment's lock is taken once, ends once and for ever, money moves
\* only under a lock that was taken, and what an attempt is told of it is so.
THEOREM LockIsImplemented == Spec => ImplementsLock
  <1>1. Init => Lock!LockInit
    BY RefinedInit
  <1>2. SystemInv /\ SystemInv' /\ CommitsLast' /\ [Next]_vars
          => [Lock!LockNext]_(Lock!lockVars)
    BY RefinedStep
  <1>3. QED
    BY <1>1, <1>2, SystemAlways, CommitsLastAlways, PTL
       DEF Spec, ImplementsLock, Lock!LockSpec
=============================================================================
