------------------------- MODULE PaymentLockProofs -------------------------
(***************************************************************************)
(* Theorems about PaymentLock, for every set of attempts and payments:     *)
(* what a caller may rely on, once the system is shown to implement it.    *)
(***************************************************************************)
EXTENDS PaymentLock, TLAPS

Ends == {"settled", "returned"}

\* What an attempt has been told is so, and what has been spent was spent under
\* a lock that is not free.
LockInv ==
  /\ payment \in [Attempts -> Payments]
  /\ lock \in [Payments -> {"free", "held"} \cup Ends]
  /\ spent \in [Attempts -> BOOLEAN]
  /\ told \in [Attempts -> {"nothing"} \cup Ends]
  /\ \A a \in Attempts : told[a] # "nothing" => lock[payment[a]] = told[a]
  /\ \A a \in Attempts : spent[a] => lock[payment[a]] # "free"

\* A lock that has ended never changes, and one that was taken is never free.
LockMovesOn ==
  \A p \in Payments :
    /\ lock[p] \in Ends => lock'[p] = lock[p]
    /\ lock[p] # "free" => lock'[p] # "free"

\* What an attempt has been told is never taken back, and it spends nothing more.
ToldForGood ==
  \A a \in Attempts : told[a] # "nothing" => told'[a] = told[a] /\ spent'[a] = spent[a]

LEMMA LockInitial ==
  ASSUME LockInit
  PROVE  LockInv
  BY DEF LockInit, LockInv, Ends

LEMMA LockStep ==
  ASSUME LockInv, [LockNext]_lockVars
  PROVE  LockInv' /\ LockMovesOn /\ ToldForGood
  <1> USE DEF LockInv, LockMovesOn, ToldForGood, Ends
  <1>1. ASSUME NEW p \in Payments, Acquire(p)
        PROVE  LockInv' /\ LockMovesOn /\ ToldForGood
    BY <1>1 DEF Acquire
  <1>2. ASSUME NEW p \in Payments, NEW end \in Ends, Finish(p, end)
        PROVE  LockInv' /\ LockMovesOn /\ ToldForGood
    BY <1>2 DEF Finish
  <1>3. ASSUME NEW a \in Attempts, Spend(a)
        PROVE  LockInv' /\ LockMovesOn /\ ToldForGood
    BY <1>3 DEF Spend
  <1>4. ASSUME NEW a \in Attempts, NEW end \in Ends, Tell(a, end)
        PROVE  LockInv' /\ LockMovesOn /\ ToldForGood
    BY <1>4 DEF Tell
  <1>5. CASE UNCHANGED lockVars
    BY <1>5 DEF lockVars
  <1>6. QED  BY <1>1, <1>2, <1>3, <1>4, <1>5 DEF LockNext

\* What an attempt is told of its payment is the state of the lock, not only when
\* it is told but for ever, and money is spent under a taken lock only.
THEOREM LockIsHonest == LockSpec => []LockInv
  <1>1. LockInv /\ [LockNext]_lockVars => LockInv'
    BY LockStep
  <1>2. QED  BY LockInitial, <1>1, PTL DEF LockSpec

\* A payment's lock is taken once and ends once: it is never freed, reopened or
\* ended otherwise; and an attempt that has been told the end moves no money
\* after it and is told nothing else.
THEOREM LockEndsOnce == LockSpec => [][LockMovesOn /\ ToldForGood]_lockVars
  <1>1. LockInv /\ [LockNext]_lockVars => [LockMovesOn /\ ToldForGood]_lockVars
    BY LockStep
  <1>2. QED  BY <1>1, LockIsHonest, PTL DEF LockSpec
=============================================================================
