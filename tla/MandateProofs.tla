---------------------------- MODULE MandateProofs ----------------------------
(***************************************************************************)
(* Theorems about MandateAdapter, for every set of callers and every       *)
(* upstream object they may present.                                       *)
(***************************************************************************)
EXTENDS MandateAdapter, AmountProofs

\* What each caller's mandate and price are made from.
AdapterInv ==
  /\ upstream \in Presentations
  /\ DOMAIN built = Callers /\ DOMAIN priced = Callers
  /\ \A c \in Callers : built[c] # None => built[c] = from_ap2(upstream[c])
  /\ \A c \in Callers : priced[c] # None =>
       Accepted(c) /\ priced[c] = [micros |-> amount_micros(built[c].mandate)]

LEMMA AdapterAlways == AdapterSpec => []AdapterInv
  <1>1. AdapterInit => AdapterInv
    BY DEF AdapterInit, AdapterInv
  <1>2. AdapterInv /\ [AdapterNext]_adapterVars => AdapterInv'
    <2> SUFFICES ASSUME AdapterInv, [AdapterNext]_adapterVars
                 PROVE  AdapterInv'
      OBVIOUS
    <2> USE DEF AdapterInv, Accepted
    <2>1. CASE UNCHANGED adapterVars
      BY <2>1 DEF adapterVars
    <2>2. ASSUME NEW c \in Callers, Build(c)
          PROVE  AdapterInv'
      BY <2>2 DEF Build
    <2>3. ASSUME NEW c \in Callers, Price(c)
          PROVE  AdapterInv'
      BY <2>3 DEF Price, build_estimate
    <2>4. QED  BY <2>1, <2>2, <2>3 DEF AdapterNext
  <1>3. QED  BY <1>1, <1>2, PTL DEF AdapterSpec

\* An accepted mandate is what the upstream object says, stripped, and valid.
LEMMA AcceptedMandate ==
  ASSUME AdapterInv, NEW c \in Callers, Accepted(c)
  PROVE  LET u == upstream[c]
             m == built[c].mandate
         IN  /\ IsMandate(m)
             /\ m.transaction_id = Strip[Str(u.transaction_id)]
             /\ m.open_mandate_hash = Stripped(u.open_mandate_hash)
             /\ m.checkout_hash = Stripped(CheckoutHashOf(u.checkout))
             /\ m.amount_value = u.value
             /\ u.transaction_id # Absent
  <1> DEFINE u == upstream[c]
             f == [transaction_id    |-> Str(u.transaction_id),
                   amount_value      |-> u.value,
                   currency          |-> Str(u.currency),
                   payee_website     |-> PayeeOf(u),
                   checkout_hash     |-> CheckoutHashOf(u.checkout),
                   open_mandate_hash |-> u.open_mandate_hash]
             m == [f EXCEPT
                     !.transaction_id    = Stripped(@), !.currency          = Stripped(@),
                     !.payee_website     = Stripped(@), !.checkout_hash     = Stripped(@),
                     !.open_mandate_hash = Stripped(@)]
  <1>1. built[c] = from_ap2(u) /\ built[c].raised = None
    BY DEF AdapterInv, Accepted
  <1>2. None # "AP2MandateError" /\ None # "ValidationError"
    BY AbsenceAssumption
  <1>3. u.transaction_id # Absent /\ built[c] = AP2Mandate(f)
    BY <1>1, <1>2 DEF from_ap2, Raised
  <1>4. IsMandate(m) /\ built[c].mandate = m
    <2>1. AP2Mandate(f) = IF IsMandate(m) THEN Made(m) ELSE Raised("ValidationError")
      BY DEF AP2Mandate
    <2>2. IsMandate(m)
      BY <1>1, <1>2, <1>3, <2>1 DEF Raised
    <2>3. QED  BY <1>3, <2>1, <2>2 DEF Made
  <1>5. Str(u.transaction_id) # None
    BY AbsenceAssumption DEF Str
  <1>6. QED  BY <1>3, <1>4, <1>5 DEF Stripped
-----------------------------------------------------------------------------
\* Whoever supplies an open mandate hash gets the lock on it or no mandate:
\* there is no string, not even an empty or a blank one, that falls back to the
\* weaker lock on the transaction id.
THEOREM OpenMandateLock == AdapterSpec => []NoWeakerLock
  <1>1. AdapterInv => NoWeakerLock
    <2> SUFFICES ASSUME AdapterInv, NEW c \in Callers, Accepted(c),
                        upstream[c].open_mandate_hash # None
                 PROVE  Lock(c).scope = "open_mandate"
      BY DEF NoWeakerLock
    <2> DEFINE m == built[c].mandate
    <2>1. IsMandate(m) /\ m.open_mandate_hash = Strip[upstream[c].open_mandate_hash]
      BY AcceptedMandate DEF Stripped
    <2>2. m.open_mandate_hash \in DOMAIN Length
      <3>1. upstream[c].open_mandate_hash \in DOMAIN Strip
        BY PresentationsAssumption DEF AdapterInv, Names
      <3>2. QED  BY <2>1, <3>1, StringAssumption
    <2>3. Length[m.open_mandate_hash] # 0
      <3>1. m.open_mandate_hash # None
        BY <2>2, StringAssumption
      <3>2. HasLength(m.open_mandate_hash, 1, 256)
        BY <2>1, <3>1 DEF IsMandate
      <3>3. QED  BY <3>2 DEF HasLength
    <2>4. Truthy(m.open_mandate_hash)
      BY <2>2, <2>3, StringAssumption DEF Truthy
    <2>5. QED  BY <2>4 DEF Lock, consume_once_input
  <1>2. QED  BY <1>1, AdapterAlways, PTL

\* Retries of one upstream object, however padded, contend for one lock.
THEOREM PaddingSharesLock == AdapterSpec => []RetriesShareLock
  <1>1. AdapterInv => RetriesShareLock
    <2> SUFFICES ASSUME AdapterInv, NEW c \in Callers, NEW d \in Callers,
                        Accepted(c), Accepted(d),
                        Alike(upstream[c].transaction_id, upstream[d].transaction_id),
                        Alike(upstream[c].open_mandate_hash, upstream[d].open_mandate_hash),
                        NEW phase
                 PROVE  idempotency_key(built[c].mandate, phase, None)
                          = idempotency_key(built[d].mandate, phase, None)
      BY DEF RetriesShareLock
    <2> DEFINE m == built[c].mandate
               n == built[d].mandate
    <2>1. m.transaction_id = n.transaction_id
      <3>1. /\ m.transaction_id = Strip[Str(upstream[c].transaction_id)]
            /\ n.transaction_id = Strip[Str(upstream[d].transaction_id)]
        BY AcceptedMandate
      <3>2. {upstream[c].transaction_id, upstream[d].transaction_id} \subseteq Names
        BY PresentationsAssumption DEF AdapterInv
      <3>3. QED  BY <3>1, <3>2, StringAssumption DEF Alike, Str, Names
    <2>2. m.open_mandate_hash = n.open_mandate_hash
      <3>1. /\ m.open_mandate_hash = Stripped(upstream[c].open_mandate_hash)
            /\ n.open_mandate_hash = Stripped(upstream[d].open_mandate_hash)
        BY AcceptedMandate
      <3>2. {upstream[c].open_mandate_hash, upstream[d].open_mandate_hash} \subseteq Names
        BY PresentationsAssumption DEF AdapterInv
      <3>3. QED  BY <3>1, <3>2, StringAssumption DEF Alike, Stripped, Names
    <2>3. consume_once_input(m) = consume_once_input(n)
      BY <2>1, <2>2 DEF consume_once_input
    <2>4. QED  BY <2>3 DEF idempotency_key
  <1>2. QED  BY <1>1, AdapterAlways, PTL

\* A bad hash of the checkout is refused, never masked by the other name.
THEOREM CheckoutHashKept == AdapterSpec => []HashKept
  <1>1. AdapterInv => HashKept
    <2> SUFFICES ASSUME AdapterInv, NEW c \in Callers, Accepted(c),
                        upstream[c].checkout # None,
                        upstream[c].checkout.hash \notin {Absent, None}
                 PROVE  built[c].mandate.checkout_hash = Strip[upstream[c].checkout.hash]
      BY DEF HashKept
    <2>1. CheckoutHashOf(upstream[c].checkout) = upstream[c].checkout.hash
      BY DEF CheckoutHashOf
    <2>2. QED  BY <2>1, AcceptedMandate DEF Stripped
  <1>2. QED  BY <1>1, AdapterAlways, PTL

\* A caller is charged exactly what its mandate says, and a price that is not zero
\* is refused exactly when it is not in dollars, is written with more than
\* MaxDecimalPlaces decimal places, trailing zeros counted, or is out of range.
THEOREM PricesAreExact == AdapterSpec => []AmountIsExact
  <1>1. AdapterInv => AmountIsExact
    <2> SUFFICES ASSUME AdapterInv, NEW c \in Callers, priced[c] # None
                 PROVE  LET v == built[c].mandate.amount_value
                            usd == built[c].mandate.currency \in UsdSpellings
                        IN  /\ priced[c].micros # None =>
                                 /\ usd /\ v.kind = "finite" /\ v.exponent >= -MaxDecimalPlaces
                                 /\ priced[c].micros
                                      = v.coefficient * Ten[v.exponent + MaxDecimalPlaces]
                                 /\ priced[c].micros \in 0..MaxMicros
                            /\ v.coefficient > 0 =>
                                 (priced[c].micros # None <=> usd /\ WrittenInRange(v))
      BY DEF AmountIsExact
    <2> DEFINE m == built[c].mandate
    <2>1. Accepted(c) /\ priced[c].micros = amount_micros(m)
      BY DEF AdapterInv
    <2>2. m.amount_value = upstream[c].value
      BY <2>1, AcceptedMandate
    <2>3. IsDecimal(m.amount_value)
      BY <2>2, PresentationsAssumption DEF AdapterInv
    <2>4. WrittenInRange(m.amount_value) =>
            m.amount_value.kind = "finite" /\ m.amount_value.sign = 0
      BY DEF WrittenInRange
    <2>5. ASSUME m.amount_value.coefficient > 0, m.currency \in UsdSpellings,
                 m.amount_value.kind = "finite", m.amount_value.sign = 0
          PROVE  amount_micros(m) # None <=> WrittenInRange(m.amount_value)
      BY <2>3, <2>5, AcceptedExactly DEF WrittenInRange
    <2>6. QED  BY <2>1, <2>3, <2>4, <2>5, AcceptedIsExact
  <1>2. QED  BY <1>1, AdapterAlways, PTL
=============================================================================
