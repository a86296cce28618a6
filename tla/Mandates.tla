------------------------------ MODULE Mandates ------------------------------
(***************************************************************************)
(* models.py and _validation.py: what an AP2 mandate may be, how one is    *)
(* made from an upstream AP2 object, and what it costs.                    *)
(*                                                                         *)
(* A string is an opaque value with a length and a stripped form.  A price *)
(* (amount_value) is what Decimal() makes of it:                           *)
(*   kind - "finite", "NaN", "Infinity", "text" (Decimal() raises), or     *)
(*          "empty" / "overlong", which pydantic refuses before Decimal()  *)
(*   sign, coefficient, length, exponent - of a finite one, as_tuple():    *)
(*          the number is (-1)^sign * coefficient * 10^exponent and length *)
(*          counts the digits of the coefficient.                          *)
(***************************************************************************)
EXTENDS Integers

CONSTANTS
  None,               \* Python's None
  Absent,             \* no such attribute
  Length,             \* Length[s]: the number of characters of s
  Strip,              \* Strip[s]: s without surrounding white space
  MaxDecimalPlaces,   \* _MAX_DECIMAL_PLACES
  MaxIntegerDigits,   \* _MAX_INTEGER_DIGITS
  MaxMicros,          \* MAX_USD_MICROS
  Ten                 \* Ten[n]: 10^n, as far as it is needed

ASSUME AbsenceAssumption ==
  None \notin Int /\ None \notin {Absent, "None", "AP2MandateError", "ValidationError"}

ASSUME StringAssumption ==
  /\ "" \in DOMAIN Length
  /\ {None, Absent} \cap (DOMAIN Length \cup DOMAIN Strip) = {}
  /\ \A s \in DOMAIN Length : Length[s] = 0 <=> s = ""
  /\ \A s \in DOMAIN Strip : Strip[s] \in DOMAIN Length

\* What is used of the powers of ten, and that MaxIntegerDigits is the number
\* of digits of the ceiling (19 for 2^63 - 1).
ASSUME ScaleAssumption ==
  /\ MaxDecimalPlaces \in Nat /\ MaxIntegerDigits \in Nat \ {0} /\ MaxMicros \in Nat
  /\ \A n \in DOMAIN Ten : n \in Nat /\ Ten[n] \in Nat \ {0} /\ 0..n \subseteq DOMAIN Ten
  /\ \A m, n \in DOMAIN Ten : m + n \in DOMAIN Ten => Ten[m + n] = Ten[m] * Ten[n]
  /\ 2 * MaxIntegerDigits + MaxDecimalPlaces \in DOMAIN Ten
  /\ Ten[MaxIntegerDigits - 1] <= MaxMicros /\ MaxMicros < Ten[MaxIntegerDigits]

Truthy(s) == s \notin {Absent, None, ""}

-----------------------------------------------------------------------------
(***************************************************************************)
(* AP2Mandate and its validation by pydantic.                              *)
(***************************************************************************)
\* Mutant: str_strip_whitespace is forgotten.
Stripped_not(s) == s

\* str_strip_whitespace, on a string or None.
Stripped(s) == IF s = None THEN None ELSE Strip[s]

\* Mutant: no min_length.
HasLength_no_minimum(s, min, max) == s \in DOMAIN Length /\ Length[s] \in 0..max

\* A str of min to max characters.
HasLength(s, min, max) == s \in DOMAIN Length /\ Length[s] \in min..max

\* The constraints on the fields of an AP2Mandate, stripped.
IsMandate(m) ==
  /\ HasLength(m.transaction_id, 1, 256)
  /\ m.amount_value.kind \notin {"empty", "overlong"}
  /\ HasLength(m.currency, 3, 3)
  /\ HasLength(m.payee_website, 1, 253)
  /\ m.checkout_hash # None => HasLength(m.checkout_hash, 1, 256)
  /\ m.open_mandate_hash # None => HasLength(m.open_mandate_hash, 1, 256)

Made(m) == [mandate |-> m, raised |-> None]
Raised(exception) == [mandate |-> None, raised |-> exception]

\* The constructor.
AP2Mandate(fields) ==
  LET m == [fields EXCEPT
              !.transaction_id    = Stripped(@), !.currency          = Stripped(@),
              !.payee_website     = Stripped(@), !.checkout_hash     = Stripped(@),
              !.open_mandate_hash = Stripped(@)]
  IN  IF IsMandate(m) THEN Made(m) ELSE Raised("ValidationError")

-----------------------------------------------------------------------------
(***************************************************************************)
(* from_ap2.  An upstream object u holds the attributes it reads, each     *)
(* Absent, None or a value: transaction_id, value and currency of          *)
(* payment_amount, website and identifier of payee; checkout is None or    *)
(* holds hash and checkout_hash; open_mandate_hash is the keyword argument.*)
(***************************************************************************)
Str(x) == IF x = None THEN "None" ELSE x    \* str(x)

PayeeOf(u) == IF Truthy(u.website) THEN u.website ELSE u.identifier

\* Mutant: the alternative name replaces an empty hash as well.
CheckoutHashOf_or(checkout) ==
  CASE checkout = None -> None
    [] checkout # None /\ Truthy(checkout.hash) -> checkout.hash
    [] checkout # None /\ ~Truthy(checkout.hash) ->
         IF checkout.checkout_hash = Absent THEN None ELSE checkout.checkout_hash

\* The alternative name is used only where hash is missing or None.
CheckoutHashOf(checkout) ==
  CASE checkout = None -> None
    [] checkout # None /\ checkout.hash \notin {Absent, None} -> checkout.hash
    [] checkout # None /\ checkout.hash \in {Absent, None} ->
         IF checkout.checkout_hash = Absent THEN None ELSE checkout.checkout_hash

from_ap2(u) ==
  IF Absent \in {u.transaction_id, u.currency} \/ u.value.kind = "absent" \/ ~Truthy(PayeeOf(u))
    THEN Raised("AP2MandateError")
    ELSE AP2Mandate([transaction_id    |-> Str(u.transaction_id),
                     amount_value      |-> u.value,
                     currency          |-> Str(u.currency),
                     payee_website     |-> PayeeOf(u),
                     checkout_hash     |-> CheckoutHashOf(u.checkout),
                     open_mandate_hash |-> u.open_mandate_hash])

-----------------------------------------------------------------------------
(***************************************************************************)
(* Amounts.                                                                *)
(***************************************************************************)
\* What as_tuple() gives: its length counts its digits, none of them a leading zero.
IsDecimal(v) ==
  v.kind = "finite" =>
    /\ v.sign \in {0, 1} /\ v.coefficient \in Nat /\ v.length \in Nat \ {0} /\ v.exponent \in Int
    /\ v.coefficient > 0 =>
         \A n \in DOMAIN Ten : n < v.length => Ten[n] <= v.coefficient

\* currency.upper() == "USD"
UsdSpellings == {"USD", "USd", "UsD", "Usd", "uSD", "uSd", "usD", "usd"}

\* value < 0; a negative zero is not.
Negative(v) == v.sign = 1 /\ v.coefficient > 0

\* Mutant: the cap refuses what has exactly MaxIntegerDigits digits.
DigitsFit_strict(v) == v.length + (IF v.exponent > 0 THEN v.exponent ELSE 0) < MaxIntegerDigits

\* The coarse cap that bounds 10**shift before it is computed.
DigitsFit(v) == v.length + (IF v.exponent > 0 THEN v.exponent ELSE 0) <= MaxIntegerDigits

\* The tests before the conversion, in their order.
Convertible(m) ==
  LET v == m.amount_value IN
    /\ m.currency \in UsdSpellings
    /\ v.kind = "finite"
    /\ ~Negative(v)
    /\ v.exponent >= -MaxDecimalPlaces
    /\ DigitsFit(v)
    /\ v.sign = 0

\* int_value * 10**shift
Converted(v) == v.coefficient * Ten[v.exponent + MaxDecimalPlaces]

\* What amount_micros() returns, or None: AP2CurrencyError or AP2MandateError.
amount_micros(m) ==
  IF Convertible(m)
    THEN LET micros == Converted(m.amount_value) IN IF micros > MaxMicros THEN None ELSE micros
    ELSE None

\* Mutant: isinstance(amount, int) alone, which True is as well.
validate_micros_bools(amount) ==
  amount.type \in {"int", "bool"} /\ amount.value >= 0 /\ amount.value <= MaxMicros

\* Mutant: no ceiling.
validate_micros_no_ceiling(amount) == amount.type = "int" /\ amount.value >= 0

\* validate_micros raises AP2MandateError unless this holds.  An amount is the
\* value a caller passes and its Python type; True is a bool equal to 1.
validate_micros(amount) ==
  amount.type = "int" /\ amount.value >= 0 /\ amount.value <= MaxMicros
=============================================================================
