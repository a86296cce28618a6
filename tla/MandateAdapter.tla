--------------------------- MODULE MandateAdapter ---------------------------
(***************************************************************************)
(* Callers that present upstream AP2 objects: each builds its mandate with *)
(* from_ap2 and, when that did not raise, takes its lock and its price     *)
(* from it, as a guard does on entering.  What must hold of the mandate,   *)
(* the lock and the price whatever the upstream objects hold.              *)
(***************************************************************************)
EXTENDS Mapping

CONSTANTS
  Callers,
  Presentations   \* functions from Callers to the upstream objects they present

\* Names are strings of a known length and stripped form, or missing.
Names == (DOMAIN Length \cap DOMAIN Strip) \cup {None, Absent}

ASSUME PresentationsAssumption ==
  /\ Str(None) \in DOMAIN Strip
  /\ \A p \in Presentations : \A c \in Callers :
       /\ {p[c].transaction_id, p[c].currency, p[c].website, p[c].identifier} \subseteq Names
       /\ p[c].open_mandate_hash \in Names \ {Absent}
       /\ IsDecimal(p[c].value)

VARIABLES
  upstream,   \* upstream[c]: what c presents
  built,      \* built[c]: what from_ap2 returned or raised, None before
  priced      \* priced[c]: [micros |-> what amount_micros returned], None before

adapterVars == <<upstream, built, priced>>

AdapterInit ==
  /\ upstream \in Presentations
  /\ built = [c \in Callers |-> None]
  /\ priced = [c \in Callers |-> None]

Build(c) ==
  /\ built[c] = None
  /\ built' = [built EXCEPT ![c] = from_ap2(upstream[c])]
  /\ UNCHANGED <<upstream, priced>>

Accepted(c) == built[c] # None /\ built[c].raised = None

Price(c) ==
  /\ Accepted(c) /\ priced[c] = None
  /\ priced' = [priced EXCEPT ![c] = [micros |-> build_estimate(built[c].mandate)]]
  /\ UNCHANGED <<upstream, built>>

AdapterNext == \E c \in Callers : Build(c) \/ Price(c)

AdapterSpec == AdapterInit /\ [][AdapterNext]_adapterVars

-----------------------------------------------------------------------------
Lock(c) == consume_once_input(built[c].mandate)

\* A caller that supplies an open mandate hash never ends with the weaker lock
\* on its transaction id: an unusable hash is refused (models.py:46-52).
NoWeakerLock ==
  \A c \in Callers :
    Accepted(c) /\ upstream[c].open_mandate_hash # None => Lock(c).scope = "open_mandate"

\* Two names are one but for surrounding white space.
Alike(s, t) ==
  \/ s = t
  \/ s \in DOMAIN Strip /\ t \in DOMAIN Strip /\ Strip[s] = Strip[t]

\* A retry whose upstream strings carry other white space contends for the same
\* lock: the key is of the stripped mandate (models.py:30, mapping.py:62-67).
RetriesShareLock ==
  \A c, d \in Callers :
    /\ Accepted(c) /\ Accepted(d)
    /\ Alike(upstream[c].transaction_id, upstream[d].transaction_id)
    /\ Alike(upstream[c].open_mandate_hash, upstream[d].open_mandate_hash)
    => \A phase \in {"reserve", "commit"} :
         idempotency_key(built[c].mandate, phase, None) = idempotency_key(built[d].mandate, phase, None)

\* The hash of the checkout is never replaced by another, nor dropped, because
\* it is bad (models.py:161-169).
HashKept ==
  \A c \in Callers :
    Accepted(c) /\ upstream[c].checkout # None /\ upstream[c].checkout.hash \notin {Absent, None}
    => built[c].mandate.checkout_hash = Strip[upstream[c].checkout.hash]

\* The decimal is written with at most MaxDecimalPlaces decimal places, trailing
\* zeros counted, and is in range in micro-cents: a power of ten beyond the
\* ceiling's is too large for any digit but zero.
WrittenInRange(v) ==
  LET shift == v.exponent + MaxDecimalPlaces IN
    /\ v.kind = "finite" /\ v.sign = 0
    /\ shift \in 0..MaxIntegerDigits
    /\ v.coefficient * Ten[shift] <= MaxMicros

\* The amount is exactly the mandate's: what is accepted is a dollar amount equal
\* to the decimal, in range; and a price that is not zero is accepted exactly when
\* it is in dollars, written with at most MaxDecimalPlaces decimal places, and in
\* range: the digit cap and the ceiling together refuse what is out of range and
\* nothing else.  A price with trailing zeros beyond the places (1.000000000) is
\* refused although its value would fit, and so are a negative zero and a zero
\* with a large exponent (models.py:54-130).
AmountIsExact ==
  \A c \in Callers : priced[c] # None =>
    LET v == built[c].mandate.amount_value
        usd == built[c].mandate.currency \in UsdSpellings
    IN  /\ priced[c].micros # None =>
             /\ usd /\ v.kind = "finite" /\ v.exponent >= -MaxDecimalPlaces
             /\ priced[c].micros = v.coefficient * Ten[v.exponent + MaxDecimalPlaces]
             /\ priced[c].micros \in 0..MaxMicros
        /\ v.coefficient > 0 => (priced[c].micros # None <=> usd /\ WrittenInRange(v))

-----------------------------------------------------------------------------
\* models.py:142-143: payment_mandate.transaction_id is a required attribute.
\* No mandate is made from an upstream object that has none.
TransactionIsRequired ==
  \A c \in Callers : Accepted(c) => upstream[c].transaction_id \notin {Absent, None}
=============================================================================
