----------------------------- MODULE MCCheckout -----------------------------
(***************************************************************************)
(* Instances of Checkout for TLC.                                          *)
(***************************************************************************)
EXTENDS Checkout, TLC

CONSTANTS none, absent, g1, g2   \* model values

\* Amounts of one decimal place, below 8.
MCTen == [n \in 0..3 |-> <<1, 10, 100, 1000>>[n + 1]]

MCLength ==
  [s \in {"", "USD", "EUR", "shop", "T1", "T2", "O1", "C1"} |->
     CASE s = "" -> 0 [] s \in {"T1", "T2", "O1", "C1"} -> 2 [] s = "shop" -> 4 [] OTHER -> 3]
MCStrip == [s \in DOMAIN MCLength |-> s]
MCDigest == [s \in {"T1", "T2", "O1"} |-> <<"sha256", s>>]

\* Two exception names that are one after cleaning, and one that is the
\* package's own suffix.
MCExcNames == {"Declined", "Accented", "_ccented", "CommitRejected"}
MCSafeSuffix ==
  [e \in MCExcNames \cup {"Aborted", "CommitRejected"} |->
     IF e = "Accented" THEN "_ccented" ELSE e]

\* set_actual_micros is called with a correct amount (5 is within the estimate
\* of a Dear mandate only), with True, with one over the ceiling and a negative one.
Override(type, value) == [type |-> type, value |-> value]
OneOverride == {Override("int", 1)}
Overrides4 ==
  {Override("int", 5), Override("bool", 1), Override("int", 8), Override("int", -1)}

Decimal(coefficient, exponent) ==
  [kind |-> "finite", sign |-> 0, coefficient |-> coefficient, length |-> 1, exponent |-> exponent]

\* A mandate over two micro-cents.
Mandate(tx, checkout, open) ==
  AP2Mandate([transaction_id |-> tx, amount_value |-> Decimal(2, -1), currency |-> "USD",
              payee_website |-> "shop", checkout_hash |-> checkout,
              open_mandate_hash |-> open]).mandate

NoExtra == [d \in {} |-> none]
Config(mandate) ==
  [mandate |-> mandate, run_id |-> "run", tenant |-> "acme", arguments |-> "defaults",
   dry_run |-> FALSE, emit_receipt |-> TRUE, extra_dimensions |-> NoExtra,
   cancellable |-> FALSE, early |-> FALSE, shared |-> FALSE, reused |-> FALSE]

Human     == Config(Mandate("T1", none, none))     \* no open mandate
Agent     == Config(Mandate("T1", none, "O1"))     \* from an open mandate
AgentTwo  == Config(Mandate("T2", none, "O1"))     \* another checkout of it
Homonym   == Config(Mandate("O1", none, none))     \* a transaction named like it
Hashed    == Config(Mandate("T1", "C1", none))     \* with a checkout hash
Both      == Config(Mandate("T1", "C1", "O1"))     \* with the two hashes

Async(c)    == [c EXCEPT !.cancellable = TRUE]
DryRun(c)   == [c EXCEPT !.dry_run = TRUE]
Silent(c)   == [c EXCEPT !.emit_receipt = FALSE]
Early(c)    == [c EXCEPT !.early = TRUE]
Shared(c)   == [c EXCEPT !.shared = TRUE]
Reused(c)   == [c EXCEPT !.reused = TRUE]
Longer(c)   == [c EXCEPT !.arguments = "longer ttl_ms"]
Tenant(c)   == [c EXCEPT !.tenant = "globex"]
Extra(c)    == [c EXCEPT !.extra_dimensions = [ap2_transaction_id |-> "T2", segment |-> "vip"]]
Labelled(c) == [c EXCEPT !.extra_dimensions = [checkout_hash |-> "C2"]]
Foreign(c)  == [c EXCEPT !.mandate.currency = "EUR"]                 \* AP2CurrencyError
Dear(c)     == [c EXCEPT !.mandate.amount_value = Decimal(7, -1)]    \* at the ceiling
Costly(c)   == [c EXCEPT !.mandate.amount_value = Decimal(8, -1)]    \* over the ceiling

OneMandate      == {Agent}
OneMandateAsync == {Async(Agent)}
SharedConfigs   == {Shared(Async(Agent))}
ReusedConfigs   == {Reused(Agent)}
ReplayConfigs   ==
  {Dear(Labelled(Both)), Early(Reused(Labelled(Agent))), Reused(Costly(Agent))}
ScopeConfigs    ==
  {Agent, AgentTwo, Async(Extra(Homonym)), Silent(Tenant(Agent)), Longer(Agent), DryRun(Agent),
   Foreign(Agent)}
FieldConfigs    == {Early(Async(Labelled(Human))), Early(Hashed)}
HoldConfigs     == {Dear(Agent), Reused(Agent), Foreign(Agent)}
LockConfigs     == {Agent, AgentTwo}

Symmetry == Permutations({g1, g2})
=============================================================================
