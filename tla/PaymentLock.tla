---------------------------- MODULE PaymentLock ----------------------------
(***************************************************************************)
(* What the package promises its callers, without requests, answers or     *)
(* keys: one lock per payment, taken once, that ends settled or returned   *)
(* and stays so; money moves only once the lock has been taken; and what   *)
(* an attempt is told of the lock is true when it is told, for ever.       *)
(***************************************************************************)
CONSTANTS Attempts, Payments

VARIABLES
  payment,   \* payment[a]: the payment attempt a is about
  lock,      \* lock[p]
  spent,     \* spent[a]: a has moved money
  told       \* told[a]: what a was told became of the lock

lockVars == <<payment, lock, spent, told>>

LockInit ==
  /\ payment \in [Attempts -> Payments]
  /\ lock = [p \in Payments |-> "free"]
  /\ spent = [a \in Attempts |-> FALSE]
  /\ told = [a \in Attempts |-> "nothing"]

Acquire(p) ==
  /\ lock[p] = "free"
  /\ lock' = [lock EXCEPT ![p] = "held"]
  /\ UNCHANGED <<payment, spent, told>>

\* A commit, a release, or the end of the lease.
Finish(p, end) ==
  /\ lock[p] = "held"
  /\ lock' = [lock EXCEPT ![p] = end]
  /\ UNCHANGED <<payment, spent, told>>

Spend(a) ==
  /\ lock[payment[a]] # "free" /\ told[a] = "nothing"
  /\ spent' = [spent EXCEPT ![a] = TRUE]
  /\ UNCHANGED <<payment, lock, told>>

Tell(a, end) ==
  /\ lock[payment[a]] = end /\ told[a] = "nothing"
  /\ told' = [told EXCEPT ![a] = end]
  /\ UNCHANGED <<payment, lock, spent>>

LockNext ==
  \/ \E p \in Payments : Acquire(p) \/ \E end \in {"settled", "returned"} : Finish(p, end)
  \/ \E a \in Attempts : Spend(a) \/ \E end \in {"settled", "returned"} : Tell(a, end)

LockSpec == LockInit /\ [][LockNext]_lockVars
=============================================================================
