------------------------ MODULE TokenRotationProofs ------------------------
(***************************************************************************)
(* That the pod always reads a valid token, for all times and delays that   *)
(* satisfy Timely.                                                          *)
(***************************************************************************)
EXTENDS TokenRotation, TLAPS

LEMMA GrownType ==
    ASSUME NEW delay \in MinBackoff..MaxBackoff
    PROVE  Grown(delay) \in MinBackoff..MaxBackoff
<1>1. /\ MinBackoff \in Nat /\ MaxBackoff \in Nat /\ delay \in Nat
      /\ MinBackoff <= delay /\ delay <= MaxBackoff
  BY TimeAssumption
<1>2. 2 * delay \in Nat /\ MinBackoff <= 2 * delay
  BY <1>1
<1>3. CASE 2 * delay < MaxBackoff
  BY <1>1, <1>2, <1>3 DEF Grown
<1>4. CASE ~(2 * delay < MaxBackoff)
  BY <1>1, <1>4 DEF Grown
<1> QED
  BY <1>3, <1>4

(* Every clock stays in its range.                                          *)
THEOREM RotationTyped == Spec => []TypeOK
<1>1. Init => TypeOK
  <2> SUFFICES ASSUME Init PROVE TypeOK
    OBVIOUS
  <2> USE TimeAssumption DEF Init
  <2>1. left \in Expired..Lifetime /\ mounted \in Expired..Lifetime
    BY DEF Expired
  <2>2. due \in Nat /\ sync \in 0..PodRefresh /\ faults \in 0..MaxFaults
    OBVIOUS
  <2>3. backoff \in MinBackoff..MaxBackoff
    OBVIOUS
  <2>4. running \in BOOLEAN
    OBVIOUS
  <2> QED
    BY <2>1, <2>2, <2>3, <2>4 DEF TypeOK
<1>2. TypeOK /\ [Next]_vars => TypeOK'
  <2> SUFFICES ASSUME TypeOK, [Next]_vars PROVE TypeOK'
    OBVIOUS
  <2> USE TimeAssumption DEF TypeOK, Expired
  <2>1. Grown(backoff) \in MinBackoff..MaxBackoff
    BY GrownType
  <2>2. CASE Tick
    BY <2>2 DEF Tick, Age
  <2>3. CASE PassSucceeds
    BY <2>3 DEF PassSucceeds, Renew
  <2>4. CASE PassReturnsError
    BY <2>1, <2>4 DEF PassReturnsError, Renew
  <2>5. CASE PassMissesSecret
    BY <2>1, <2>5 DEF PassMissesSecret
  <2>6. CASE StartPod
    BY <2>6 DEF StartPod
  <2>7. CASE KubeletSync
    BY <2>7 DEF KubeletSync
  <2>8. CASE UNCHANGED vars
    BY <2>8 DEF vars
  <2> QED
    BY <2>2, <2>3, <2>4, <2>5, <2>6, <2>7, <2>8 DEF Next, Pass
<1> QED
  BY <1>1, <1>2, PTL DEF Spec

(* TokenValid is not inductive: a token that is still valid may be too old  *)
(* to last until somebody looks at it again.  What is kept is the time that *)
(* must be left: the secret's token outlives the next pass and the kubelet  *)
(* after it, and the pod's own, if it is not the same, outlives the kubelet.*)
RotationInv ==
    faults = 0 =>
        /\ left = Expired \/ left >= due + PodRefresh
        /\ running => /\ left >= due + PodRefresh
                      /\ mounted = left \/ mounted >= sync

(* As long as passes reach the secret and the delays are Timely, the pod    *)
(* never reads an expired token: the poll interval and the minute that the  *)
(* ReconcileFunc of the token secret adds to the current time suffice.      *)
THEOREM TokenAlwaysValid == Timely => (Spec => []TokenValid)
<1> SUFFICES ASSUME Timely PROVE Spec => []TokenValid
  OBVIOUS
<1>1. Init => RotationInv
  BY DEF Init, RotationInv
<1>2. TypeOK /\ RotationInv /\ [Next]_vars => RotationInv'
  <2> SUFFICES ASSUME TypeOK, RotationInv, [Next]_vars PROVE RotationInv'
    OBVIOUS
  <2> USE TimeAssumption DEF TypeOK, RotationInv, Expired
  <2>1. CASE Tick
    BY <2>1 DEF Tick, Age
  <2>2. CASE PassSucceeds
    BY <2>2, Timely DEF PassSucceeds, Renew, NeedsToken, Timely
  <2>3. CASE PassReturnsError
    BY <2>3, Timely DEF PassReturnsError, Renew, NeedsToken, Timely
  <2>4. CASE PassMissesSecret
    BY <2>4 DEF PassMissesSecret
  <2>5. CASE StartPod
    BY <2>5 DEF StartPod
  <2>6. CASE KubeletSync
    BY <2>6 DEF KubeletSync
  <2>7. CASE UNCHANGED vars
    BY <2>7 DEF vars
  <2> QED
    BY <2>1, <2>2, <2>3, <2>4, <2>5, <2>6, <2>7 DEF Next, Pass
<1>3. TypeOK /\ RotationInv => TokenValid
  BY TimeAssumption DEF TypeOK, RotationInv, TokenValid, Expired
<1> QED
  BY <1>1, <1>2, <1>3, RotationTyped, PTL DEF Spec
=============================================================================
