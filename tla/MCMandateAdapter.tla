-------------------------- MODULE MCMandateAdapter --------------------------
(***************************************************************************)
(* Instances of MandateAdapter for TLC: two callers, amounts of two        *)
(* decimal places with a ceiling of 511, 2^9 - 1, three digits.            *)
(***************************************************************************)
EXTENDS MandateAdapter

CONSTANTS none, absent   \* model values

MCTen == [n \in 0..8 |-> <<1, 10, 100, 1000, 10000, 100000, 1000000, 10000000, 100000000>>[n + 1]]

\* "full" and "long" stand for strings of 256 and 257 characters.
MCLength ==
  [s \in {"", " ", "T1", " T1", "T2", "O1", " O1", "None", "full", "long", "shop",
          "USD", "usd", " USD", "EUR"} |->
     CASE s = "" -> 0
       [] s = " " -> 1
       [] s \in {"T1", "T2", "O1"} -> 2
       [] s \in {"None", "shop", " USD"} -> 4
       [] s = "full" -> 256
       [] s = "long" -> 257
       [] OTHER -> 3]
MCStrip ==
  [s \in DOMAIN MCLength |->
     CASE s = " " -> "" [] s = " T1" -> "T1" [] s = " O1" -> "O1" [] s = " USD" -> "USD" [] OTHER -> s]
MCDigest == [s \in DOMAIN MCLength |-> <<"sha256", s>>]
MCSafeSuffix == [s \in {} |-> s]

NotFinite(kind) == [kind |-> kind, sign |-> 0, coefficient |-> 0, length |-> 1, exponent |-> 0]
Decimal(sign, coefficient, exponent) ==
  [kind |-> "finite", sign |-> sign, coefficient |-> coefficient, exponent |-> exponent,
   length |-> IF coefficient < 10 THEN 1 ELSE IF coefficient < 100 THEN 2
              ELSE IF coefficient < 1000 THEN 3 ELSE 4]

\* Around every boundary: the ceiling 511, its tenth, 999 and 1000.
Coefficients == 0..12 \cup 50..52 \cup {99, 100, 101} \cup 509..513 \cup 998..1001 \cup {5110, 9999}
Values ==
  {Decimal(s, n, e) : s \in {0, 1}, n \in Coefficients, e \in -4..4}
    \cup {NotFinite(kind) : kind \in {"NaN", "Infinity", "text", "empty", "overlong", "absent"}}

Price0 == Decimal(0, 1, -2)
Object ==
  [transaction_id |-> "T1", value |-> Price0, currency |-> "USD", website |-> "shop",
   identifier |-> absent, checkout |-> none, open_mandate_hash |-> none]

Checkouts ==
  {none} \cup
  {[hash |-> h, checkout_hash |-> a] : h \in {absent, none, "", " ", "T1", "long"},
                                       a \in {absent, none, "", "T2"}}

\* Callers that differ in what the lock is on,
Identities ==
  {[Object EXCEPT !.transaction_id = t, !.open_mandate_hash = o] :
     t \in {absent, none, "", "T1", " T1", "T2", "full", "long"},
     o \in {none, "", " ", "O1", " O1", "T1", "long"}}
\* and one caller with everything else.
Others ==
  {[Object EXCEPT !.value = v, !.currency = c] : v \in Values, c \in {"USD", " USD", "usd"}}
    \cup {[Object EXCEPT !.currency = c] : c \in {absent, none, "", "EUR", "long"}}
    \cup {[Object EXCEPT !.website = w, !.identifier = i] :
            w \in {absent, none, "", " ", "shop", "long"}, i \in {absent, none, "", " ", "T2"}}
    \cup {[Object EXCEPT !.checkout = k] : k \in Checkouts}

MCPresentations ==
  {[c \in 1..2 |-> <<a, b>>[c]] : a, b \in Identities}
    \cup {[c \in 1..2 |-> <<a, Object>>[c]] : a \in Others}
=============================================================================
