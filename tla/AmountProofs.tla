---------------------------- MODULE AmountProofs ----------------------------
(***************************************************************************)
(* What amount_micros computes, for every decimal, every number of decimal *)
(* places and every ceiling.                                               *)
(***************************************************************************)
EXTENDS Mandates, TLAPS

\* A decimal whose digits fit is scaled by a power of ten that Ten has.
LEMMA ShiftInRange ==
  ASSUME NEW m, IsDecimal(m.amount_value), Convertible(m)
  PROVE  LET v == m.amount_value IN
           /\ v.coefficient \in Nat /\ v.exponent \in Int
           /\ v.exponent + MaxDecimalPlaces \in DOMAIN Ten
           /\ Converted(v) \in Nat
  <1> DEFINE v == m.amount_value
             shift == v.exponent + MaxDecimalPlaces
  <1>1. /\ v.coefficient \in Nat /\ v.length \in Nat \ {0} /\ v.exponent \in Int
        /\ v.exponent >= -MaxDecimalPlaces
        /\ v.length + (IF v.exponent > 0 THEN v.exponent ELSE 0) <= MaxIntegerDigits
    BY DEF IsDecimal, Convertible, DigitsFit
  <1>2. MaxDecimalPlaces \in Nat /\ MaxIntegerDigits \in Nat
    BY ScaleAssumption
  <1>3. shift \in 0..(2 * MaxIntegerDigits + MaxDecimalPlaces)
    BY <1>1, <1>2
  <1>4. shift \in DOMAIN Ten
    BY <1>3, ScaleAssumption
  <1>5. Ten[shift] \in Nat
    BY <1>4, ScaleAssumption
  <1>6. v.coefficient * Ten[shift] \in Nat
    BY <1>1, <1>5
  <1>7. QED  BY <1>1, <1>4, <1>6 DEF Converted

\* An accepted amount is the mandate's, to the last micro-cent, and in range
\* (models.py:119-130).
THEOREM AcceptedIsExact ==
  ASSUME NEW m, IsDecimal(m.amount_value), amount_micros(m) # None
  PROVE  LET v == m.amount_value IN
           /\ m.currency \in UsdSpellings /\ v.kind = "finite" /\ v.sign = 0
           /\ v.exponent >= -MaxDecimalPlaces
           /\ amount_micros(m) = v.coefficient * Ten[v.exponent + MaxDecimalPlaces]
           /\ amount_micros(m) \in 0..MaxMicros
  <1>1. Convertible(m) /\ amount_micros(m) = Converted(m.amount_value)
    BY DEF amount_micros
  <1>2. ~(Converted(m.amount_value) > MaxMicros)
    BY <1>1 DEF amount_micros
  <1>3. Converted(m.amount_value) \in 0..MaxMicros
    BY <1>1, <1>2, ShiftInRange, ScaleAssumption
  <1>4. QED  BY <1>1, <1>3 DEF Convertible, Converted

\* The digit cap, taken before the scaling, never refuses what the ceiling,
\* tested after it, would let through (models.py:90-101, 126).
LEMMA CapIsCoarse ==
  ASSUME NEW m, IsDecimal(m.amount_value),
         m.currency \in UsdSpellings, m.amount_value.kind = "finite", m.amount_value.sign = 0,
         m.amount_value.coefficient > 0,
         m.amount_value.exponent + MaxDecimalPlaces \in 0..MaxIntegerDigits,
         m.amount_value.coefficient * Ten[m.amount_value.exponent + MaxDecimalPlaces] <= MaxMicros
  PROVE  amount_micros(m) # None
  <1> DEFINE v == m.amount_value
             shift == v.exponent + MaxDecimalPlaces
             n == MaxIntegerDigits - shift
  <1>1. /\ v.coefficient \in Nat /\ v.length \in Nat \ {0} /\ v.exponent \in Int
        /\ \A k \in DOMAIN Ten : k < v.length => Ten[k] <= v.coefficient
    BY DEF IsDecimal
  <1>2. MaxDecimalPlaces \in Nat /\ MaxIntegerDigits \in Nat /\ MaxMicros \in Nat
    BY ScaleAssumption
  <1>3. n \in DOMAIN Ten /\ shift \in DOMAIN Ten /\ n + shift = MaxIntegerDigits /\ n + shift \in DOMAIN Ten
    <2>1. 0..(2 * MaxIntegerDigits + MaxDecimalPlaces) \subseteq DOMAIN Ten
      BY ScaleAssumption
    <2>2. n \in Nat /\ n <= MaxIntegerDigits /\ shift \in Nat /\ shift <= MaxIntegerDigits
      BY <1>1, <1>2
    <2>3. /\ n \in 0..(2 * MaxIntegerDigits + MaxDecimalPlaces)
          /\ shift \in 0..(2 * MaxIntegerDigits + MaxDecimalPlaces)
          /\ n + shift = MaxIntegerDigits
          /\ MaxIntegerDigits \in 0..(2 * MaxIntegerDigits + MaxDecimalPlaces)
      BY <1>2, <2>2
    <2>4. QED  BY <2>1, <2>3
  <1>4. Ten[n] * Ten[shift] = Ten[MaxIntegerDigits]
    BY <1>3, ScaleAssumption
  <1>5. v.length <= n
    <2> SUFFICES ASSUME n < v.length
                 PROVE  FALSE
      BY <1>1, <1>2
    <2>1. Ten[n] \in Nat /\ Ten[shift] \in Nat /\ Ten[n] <= v.coefficient
      BY <1>1, <1>3, ScaleAssumption
    <2>2. Ten[n] * Ten[shift] <= v.coefficient * Ten[shift]
      <3>1. \A a, b, c \in Nat : a <= b => a * c <= b * c
        OBVIOUS
      <3>2. QED  BY <1>1, <2>1, <3>1
    <2>3. v.coefficient * Ten[shift] < Ten[MaxIntegerDigits]
      BY <1>1, <1>2, <2>1, ScaleAssumption
    <2>4. QED  BY <1>1, <1>4, <2>1, <2>2, <2>3
  <1>6. Convertible(m)
    BY <1>1, <1>2, <1>5 DEF Convertible, DigitsFit, Negative
  <1>7. amount_micros(m) = Converted(v) /\ Converted(v) \in Nat
    BY <1>6, <1>2, ShiftInRange DEF amount_micros, Converted
  <1>8. QED  BY <1>7, AbsenceAssumption

\* A positive dollar amount is accepted exactly when it is written with at most
\* MaxDecimalPlaces decimal places, trailing zeros counted, and is in range.
\* Nothing else is refused; 1.000000000, written with nine places, is
\* (models.py:84-130).
THEOREM AcceptedExactly ==
  ASSUME NEW m, IsDecimal(m.amount_value),
         m.currency \in UsdSpellings, m.amount_value.kind = "finite", m.amount_value.sign = 0,
         m.amount_value.coefficient > 0
  PROVE  LET v == m.amount_value
             shift == v.exponent + MaxDecimalPlaces
         IN  amount_micros(m) # None <=>
               shift \in 0..MaxIntegerDigits /\ v.coefficient * Ten[shift] <= MaxMicros
  <1> DEFINE v == m.amount_value
             shift == v.exponent + MaxDecimalPlaces
             k == shift - MaxIntegerDigits
  <1>1. ASSUME amount_micros(m) # None
        PROVE  shift \in 0..MaxIntegerDigits /\ v.coefficient * Ten[shift] <= MaxMicros
    <2>1. /\ v.coefficient \in Nat \ {0} /\ v.exponent \in Int /\ shift \in Nat
          /\ shift \in DOMAIN Ten
          /\ v.coefficient * Ten[shift] \in 0..MaxMicros
      BY <1>1, AcceptedIsExact, ShiftInRange, ScaleAssumption DEF amount_micros, IsDecimal
    <2>2. shift <= MaxIntegerDigits
      <3> SUFFICES ASSUME shift > MaxIntegerDigits
                   PROVE  FALSE
        BY <2>1, ScaleAssumption
      <3>1. k \in 0..shift /\ MaxIntegerDigits \in 0..shift /\ MaxIntegerDigits + k = shift
        BY <2>1, ScaleAssumption
      <3>2. k \in DOMAIN Ten /\ MaxIntegerDigits \in DOMAIN Ten
        BY <2>1, <3>1, ScaleAssumption
      <3>3. Ten[shift] = Ten[MaxIntegerDigits] * Ten[k]
        BY <2>1, <3>1, <3>2, ScaleAssumption
      <3>4. Ten[k] \in Nat \ {0} /\ Ten[MaxIntegerDigits] \in Nat \ {0} /\ MaxMicros \in Nat
        BY <3>2, ScaleAssumption
      <3>5. Ten[shift] >= Ten[MaxIntegerDigits] /\ Ten[shift] \in Nat
        <4>1. \A a, b \in Nat \ {0} : a * b >= a /\ a * b \in Nat
          OBVIOUS
        <4>2. QED  BY <3>3, <3>4, <4>1
      <3>6. v.coefficient * Ten[shift] >= Ten[shift]
        <4>1. \A a \in Nat \ {0}, b \in Nat : a * b >= b
          OBVIOUS
        <4>2. QED  BY <2>1, <3>5, <4>1
      <3>7. MaxMicros < Ten[MaxIntegerDigits]
        BY ScaleAssumption
      <3> HIDE DEF v, shift, k
      <3>8. QED  BY <2>1, <3>4, <3>5, <3>6, <3>7
    <2>3. QED  BY <2>1, <2>2, ScaleAssumption
  <1>2. QED  BY <1>1, CapIsCoarse
=============================================================================
