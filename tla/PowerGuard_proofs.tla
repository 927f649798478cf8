-------------------------- MODULE PowerGuard_proofs --------------------------
(* Theorems about data/power.rs for any number of armings.                     *)
EXTENDS PowerGuard, TLAPS

(* The arm counter is ahead of every arming that ever existed, and the arming  *)
(* in the slot has not left it yet.                                            *)
Fresh ==
    /\ slot <= nextSeq
    /\ slot # 0 => outcome[slot] = "unmade"
    /\ \A n \in Armings : n > nextSeq => outcome[n] = "unmade" /\ task[n] = "none"

IInv == TypeOK /\ Fresh /\ ExecutesOnlyOwnClaim

LEMMA InitIInv == Init => IInv
  BY GuardAssumption
     DEF Init, IInv, TypeOK, Fresh, ExecutesOnlyOwnClaim, Armings, Event, NoEvent

LEMMA StepIInv == IInv /\ [Next]_vars => IInv'
<1> SUFFICES ASSUME IInv, [Next]_vars PROVE IInv'
  OBVIOUS
<1> USE GuardAssumption DEF IInv, TypeOK, Fresh, ExecutesOnlyOwnClaim, Armings, Event, NoEvent
<1>1. CASE Arm
  BY <1>1 DEF Arm
<1>2. CASE CancelTake
  BY <1>2 DEF CancelTake
<1>3. CASE Confirm
  BY <1>3 DEF Confirm
<1>4. ASSUME NEW n \in Armings, Wake(n) PROVE IInv'
  BY <1>4 DEF Wake
<1>5. ASSUME NEW n \in Armings, Claim(n) PROVE IInv'
  BY <1>5 DEF Claim, Claims
<1>6. ASSUME NEW n \in Armings, Execute(n) PROVE IInv'
  BY <1>6 DEF Execute
<1>7. ASSUME NEW e \in unsent, Send(e) PROVE IInv'
  BY <1>7 DEF Send
<1>8. CASE ExitCheck
  BY <1>8 DEF ExitCheck
<1>9. CASE ExitNow
  BY <1>9 DEF ExitNow
<1>10. CASE UNCHANGED vars
  BY <1>10 DEF vars
<1> QED
  BY <1>1, <1>2, <1>3, <1>4, <1>5, <1>6, <1>7, <1>8, <1>9, <1>10 DEF Next

(* However many armings, cancels and confirmations race, the guard's state     *)
(* keeps its types.                                                            *)
THEOREM TypeCorrect == Spec => []TypeOK
<1>1. IInv => TypeOK
  BY DEF IInv
<1> QED
  BY InitIInv, StepIInv, <1>1, PTL DEF Spec

(* A task that goes on to execute is the task of an arming that was claimed:   *)
(* a cancel that won the mutex means no action, for any number of armings.     *)
THEOREM NoActionAfterCancel == Spec => []ExecutesOnlyOwnClaim
<1>1. IInv => ExecutesOnlyOwnClaim
  BY DEF IInv
<1> QED
  BY InitIInv, StepIInv, <1>1, PTL DEF Spec

-------------------------------------------------------------------------------
Ledger == [n \in Armings |-> Promise(n)]

LEMMA StepRefines == IInv /\ [Next]_vars => [Abstract!Next]_Ledger
<1> SUFFICES ASSUME IInv, [Next]_vars PROVE [Abstract!Next]_Ledger
  OBVIOUS
<1> USE GuardAssumption DEF IInv, TypeOK, Fresh, Armings
<1>0. ASSUME UNCHANGED <<slot, outcome>> PROVE UNCHANGED Ledger
  BY <1>0 DEF Ledger, Promise
<1>1. CASE Arm
  <2>1. /\ Ledger[nextSeq + 1] = "unmade"
        /\ \A m \in Armings : Ledger[m] # "standing"
    BY <1>1 DEF Arm, Ledger, Promise
  <2>2. Ledger' = [Ledger EXCEPT ![nextSeq + 1] = "standing"]
    <3>1. /\ slot = 0 /\ slot' = nextSeq + 1 /\ outcome' = outcome
          /\ nextSeq + 1 \in Armings /\ nextSeq + 1 # 0
      BY <1>1 DEF Arm
    <3>2. ASSUME NEW n \in Armings
          PROVE  Ledger'[n] = [Ledger EXCEPT ![nextSeq + 1] = "standing"][n]
      BY <3>1 DEF Ledger, Promise
    <3> QED
      BY <3>2 DEF Ledger
  <2> QED
    BY <1>1, <2>1, <2>2 DEF Arm, Abstract!Next, Abstract!Make, Ledger
<1>2. ASSUME NEW how \in {"kept", "withdrawn"}, slot # 0, slot' = 0,
             outcome' = [outcome EXCEPT ![slot] = how]
      PROVE Abstract!Next
  <2>0. slot \in Armings
    BY <1>2
  <2>1. Ledger[slot] = "standing"
    BY <2>0 DEF Ledger, Promise
  <2>2. Ledger' = [Ledger EXCEPT ![slot] = how]
    <3>1. ASSUME NEW n \in Armings PROVE Ledger'[n] = [Ledger EXCEPT ![slot] = how][n]
      BY <1>2, <2>0 DEF Ledger, Promise
    <3> QED
      BY <3>1 DEF Ledger
  <2>3. Abstract!Settle(slot, how)
    BY <2>1, <2>2 DEF Abstract!Settle, Ledger
  <2> QED
    BY <1>2, <2>0, <2>3 DEF Abstract!Next
<1>3. CASE CancelTake
  BY <1>2, <1>3 DEF CancelTake
<1>4. ASSUME NEW n \in Armings, Claim(n) PROVE [Abstract!Next]_Ledger
  BY <1>0, <1>2, <1>4 DEF Claim, Claims
<1>5. CASE Confirm
  BY <1>0, <1>5 DEF Confirm
<1>6. ASSUME NEW n \in Armings, Wake(n) PROVE UNCHANGED Ledger
  BY <1>0, <1>6 DEF Wake
<1>7. ASSUME NEW n \in Armings, Execute(n) PROVE UNCHANGED Ledger
  BY <1>0, <1>7 DEF Execute
<1>8. ASSUME NEW e \in unsent, Send(e) PROVE UNCHANGED Ledger
  BY <1>0, <1>8 DEF Send
<1>9. CASE ExitCheck
  BY <1>0, <1>9 DEF ExitCheck
<1>10. CASE ExitNow
  BY <1>0, <1>10 DEF ExitNow
<1>11. CASE UNCHANGED vars
  BY <1>0, <1>11 DEF vars
<1> QED
  BY <1>1, <1>3, <1>4, <1>5, <1>6, <1>7, <1>8, <1>9, <1>10, <1>11 DEF Next

(* The guard implements its promise: one standing promise at a time, each kept *)
(* at most once or withdrawn, never both.                                      *)
THEOREM Refinement == Spec => KeepsPromises
<1>1. Init => Abstract!Init
  BY GuardAssumption DEF Init, Abstract!Init, Promise, Armings
<1>2. [Abstract!Next]_Ledger => [Abstract!Next]_([n \in Armings |-> Promise(n)])
  BY DEF Ledger
<1> QED
  BY InitIInv, StepIInv, StepRefines, <1>1, <1>2, PTL DEF Spec, KeepsPromises, Abstract!Spec
===============================================================================
