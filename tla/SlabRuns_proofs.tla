-------------------------- MODULE SlabRuns_proofs --------------------------
(***************************************************************************)
(* FindSinfoSubSequence finds maximal runs that cover InSomeRun, for every *)
(* array and every length.                                                 *)
(***************************************************************************)
EXTENDS SlabRuns, TLAPS

(* The loop invariant.  While the loop runs, start .. end is a run under   *)
(* construction, everything before start is covered, and start does not    *)
(* continue the run before it.                                             *)
LoopInv ==
  /\ pc = "entry" => start = 0 /\ end = 0 /\ subSequence = << >>
  /\ pc = "loop" =>
       /\ end < count \/ start = count
       /\ count > 0
       /\ \A i \in start .. end : q[i] = q[start] + (i - start)
       /\ start > 0 => q[start - 1] + 1 # q[start]
       /\ \A n \in DOMAIN subSequence : subSequence[n][2] < start
       /\ \A i \in 0 .. start - 1 :
            \E n \in DOMAIN subSequence :
              subSequence[n][1] <= i /\ i <= subSequence[n][2]
  /\ \A n \in DOMAIN subSequence :
       subSequence[n][2] < count =>
         q[subSequence[n][2] + 1] # q[subSequence[n][2]] + 1

Inv == TypeOK /\ LoopInv /\ RunsAreConsecutive /\ RunsCover

(* What Append does to a sequence of runs.                                 *)
LEMMA AppendRun ==
  ASSUME NEW S, NEW s \in Seq(S), NEW e \in S
  PROVE  /\ Append(s, e) \in Seq(S)
         /\ DOMAIN s = 1 .. Len(s) /\ Len(s) \in Nat
         /\ DOMAIN Append(s, e) = 1 .. Len(s) + 1
         /\ \A n \in DOMAIN s : Append(s, e)[n] = s[n]
         /\ Append(s, e)[Len(s) + 1] = e
  OBVIOUS

(* The bounds of a run are indices of the array.                           *)
LEMMA RunBounds ==
  ASSUME TypeOK
  PROVE  /\ Len(subSequence) \in Nat
         /\ DOMAIN subSequence = 1 .. Len(subSequence)
         /\ \A n \in DOMAIN subSequence :
              subSequence[n][1] \in 0 .. count /\ subSequence[n][2] \in 0 .. count
<1> DEFINE R == (0 .. count) \X (0 .. count)
<1>1. subSequence \in Seq(R)
  BY DEF TypeOK
<1>2. \A r \in R : r[1] \in 0 .. count /\ r[2] \in 0 .. count
  OBVIOUS
<1> HIDE DEF R
<1>3. /\ Len(subSequence) \in Nat
      /\ DOMAIN subSequence = 1 .. Len(subSequence)
      /\ \A n \in DOMAIN subSequence : subSequence[n] \in R
  BY <1>1
<1> QED
  BY <1>2, <1>3

(* The state in which FindSinfoSubSequence starts satisfies the invariant. *)
LEMMA InitInv == Init => Inv
<1> SUFFICES ASSUME Init PROVE Inv
  OBVIOUS
<1> USE RunsAssumption DEF Init
<1>1. TypeOK
  BY DEF TypeOK
<1>2. LoopInv /\ RunsAreConsecutive /\ RunsCover
  BY DEF LoopInv, RunsAreConsecutive, RunsCover
<1> QED
  BY <1>1, <1>2 DEF Inv

(* A run emitted after all others keeps the runs ordered and consecutive.  *)
LEMMA EmitRun ==
  ASSUME TypeOK, RunsAreConsecutive,
         NEW a \in 0 .. count, NEW b \in a .. count,
         \A i \in a .. b : q[i] = q[a] + (i - a),
         \A n \in DOMAIN subSequence : subSequence[n][2] < a,
         subSequence' = Append(subSequence, <<a, b>>),
         UNCHANGED <<q, count>>
  PROVE  RunsAreConsecutive'
<1> DEFINE R == (0 .. count) \X (0 .. count)
<1>1. subSequence \in Seq(R) /\ <<a, b>> \in R
  BY DEF TypeOK
<1> HIDE DEF R
<1>2. /\ DOMAIN subSequence = 1 .. Len(subSequence)
      /\ Len(subSequence) \in Nat
      /\ DOMAIN subSequence' = 1 .. Len(subSequence) + 1
      /\ \A n \in DOMAIN subSequence : subSequence'[n] = subSequence[n]
      /\ subSequence'[Len(subSequence) + 1] = <<a, b>>
  BY <1>1, AppendRun
<1> DEFINE L == Len(subSequence)
<1> SUFFICES ASSUME NEW n \in 1 .. L + 1
             PROVE  LET c == subSequence'[n][1]
                        d == subSequence'[n][2]
                    IN /\ c <= d
                       /\ \A i \in c .. d : q[i] = q[c] + (i - c)
                       /\ \A m \in 1 .. L + 1 : m < n => subSequence'[m][2] < c
  BY <1>2 DEF RunsAreConsecutive
<1>3. CASE n = L + 1
  <2>1. subSequence'[n][1] = a /\ subSequence'[n][2] = b
    BY <1>2, <1>3
  <2>2. \A m \in 1 .. L + 1 : m < n => subSequence'[m][2] < a
    BY <1>2, <1>3
  <2> QED
    BY <2>1, <2>2
<1>4. CASE n \in 1 .. L
  <2>1. subSequence'[n] = subSequence[n]
    BY <1>2, <1>4
  <2>2. \A m \in 1 .. L + 1 : m < n => subSequence'[m] = subSequence[m] /\ m \in 1 .. L
    BY <1>2, <1>4
  <2> QED
    BY <1>2, <1>4, <2>1, <2>2 DEF RunsAreConsecutive
<1> QED
  BY <1>2, <1>3, <1>4

(* Every step of the search keeps the invariant.                           *)
LEMMA NextInv == Inv /\ [Next]_vars => Inv'
<1> SUFFICES ASSUME Inv, [Next]_vars PROVE Inv'
  OBVIOUS
<1> USE DEF Inv
<1> DEFINE R == (0 .. count) \X (0 .. count)
           L == Len(subSequence)
<1>0. /\ L \in Nat /\ DOMAIN subSequence = 1 .. L
      /\ \A n \in 1 .. L : /\ subSequence[n][1] \in 0 .. count
                           /\ subSequence[n][2] \in 0 .. count
  BY RunBounds
<1>t. /\ count \in Nat /\ q \in [0 .. count -> Nat]
      /\ start \in Nat /\ end \in Nat /\ start <= end /\ end <= count
  BY DEF TypeOK
<1>l. ASSUME pc = "loop"
      PROVE  /\ end < count \/ start = count
             /\ count > 0
             /\ \A i \in start .. end : q[i] = q[start] + (i - start)
             /\ start > 0 => q[start - 1] + 1 # q[start]
             /\ \A n \in 1 .. L : subSequence[n][2] < start
             /\ \A i \in 0 .. start - 1 :
                  \E n \in 1 .. L :
                    subSequence[n][1] <= i /\ i <= subSequence[n][2]
  BY <1>0, <1>l DEF LoopInv
<1>m. \A n \in 1 .. L : subSequence[n][2] < count =>
                         q[subSequence[n][2] + 1] # q[subSequence[n][2]] + 1
  BY <1>0 DEF LoopInv
<1>a. ASSUME NEW e \in R, subSequence' = Append(subSequence, e)
      PROVE  /\ subSequence' \in Seq(R)
             /\ DOMAIN subSequence' = 1 .. L + 1
             /\ \A n \in 1 .. L : subSequence'[n] = subSequence[n]
             /\ subSequence'[L + 1] = e
  <2>1. subSequence \in Seq(R)
    BY DEF TypeOK
  <2> HIDE DEF R
  <2> QED
    BY <1>a, <2>1, AppendRun
<1>b. ASSUME NEW a \in 0 .. count, NEW b \in 0 .. count,
             subSequence' = Append(subSequence, <<a, b>>)
      PROVE  /\ DOMAIN subSequence' = 1 .. L + 1
             /\ \A n \in 1 .. L : /\ subSequence'[n][1] = subSequence[n][1]
                                  /\ subSequence'[n][2] = subSequence[n][2]
             /\ subSequence'[L + 1][1] = a /\ subSequence'[L + 1][2] = b
  <2>1. <<a, b>> \in R
    OBVIOUS
  <2>2. /\ DOMAIN subSequence' = 1 .. L + 1
        /\ \A n \in 1 .. L : subSequence'[n] = subSequence[n]
        /\ subSequence'[L + 1] = <<a, b>>
    BY <1>a, <1>b, <2>1
  <2> QED
    BY <2>2
<1>1. CASE Single
  <2>1. start = 0 /\ end = 0 /\ count = 0 /\ subSequence = << >>
    BY <1>1 DEF Single, LoopInv
  <2>2. /\ subSequence' \in Seq(R) /\ DOMAIN subSequence' = 1 .. L + 1
        /\ L = 0 /\ subSequence'[1] = <<0, 0>>
    BY <1>1, <2>1, <1>a DEF Single, Emit
  <2>3. TypeOK'
    BY <1>1, <2>1, <2>2 DEF TypeOK, Single
  <2>4. RunsAreConsecutive'
    BY <1>1, <2>1, <2>2 DEF RunsAreConsecutive, TypeOK, Single
  <2>5. RunsCover' /\ LoopInv'
    BY <1>1, <2>1, <2>2 DEF RunsCover, Covered, InSomeRun, LoopInv, Single
  <2> QED
    BY <2>3, <2>4, <2>5
<1> HIDE DEF L
<1>2. CASE EnterLoop
  <2>1. start = 0 /\ end = 0 /\ count > 0 /\ subSequence = << >>
    BY <1>2 DEF EnterLoop, LoopInv, TypeOK
  <2>2. TypeOK'
    BY <1>2 DEF EnterLoop, TypeOK
  <2>3. LoopInv'
    BY <1>2, <2>1 DEF EnterLoop, LoopInv, TypeOK
  <2>4. RunsAreConsecutive' /\ RunsCover'
    BY <1>2, <2>1 DEF EnterLoop, RunsAreConsecutive, RunsCover
  <2> QED
    BY <2>2, <2>3, <2>4
<1>3. CASE Extend
  <2>1. pc = "loop" /\ start < count /\ end < count /\ q[end] + 1 = q[end + 1]
    BY <1>3 DEF Extend, LoopInv, TypeOK
  <2>2. \A i \in start .. end + 1 : q[i] = q[start] + (i - start)
    <3> TAKE i \in start .. end + 1
    <3>1. CASE i \in start .. end
      BY <3>1, <2>1, <1>l
    <3>2. CASE i = end + 1
      <4>1. q[end] = q[start] + (end - start)
        BY <2>1, <1>l, <1>t
      <4>2. q[start] \in Nat
        BY <1>t
      <4> QED
        BY <4>1, <4>2, <3>2, <2>1, <1>t
    <3> QED
      BY <3>1, <3>2, <1>t
  <2>3. CASE end + 1 # count
    <3>1. TypeOK'
      BY <1>3, <2>1, <2>3 DEF Extend, TypeOK
    <3>2. LoopInv'
      <4>1. /\ pc' = "loop" /\ end' = end + 1
            /\ UNCHANGED <<q, count, start, subSequence>>
        BY <1>3, <2>1, <2>3 DEF Extend
      <4>2. end + 1 < count
        BY <1>t, <2>1, <2>3
      <4> QED
        BY <4>1, <4>2, <2>1, <2>2, Zenon DEF LoopInv
    <3>3. RunsAreConsecutive' /\ RunsCover'
      BY <1>3, <2>1, <2>3 DEF Extend, RunsAreConsecutive, RunsCover
    <3> QED
      BY <3>1, <3>2, <3>3
  <2>4. CASE end + 1 = count
    <3>1. subSequence' = Append(subSequence, <<start, count>>) /\ pc' = "done"
      BY <1>3, <2>4 DEF Extend
    <3>2. <<start, count>> \in R
      BY DEF TypeOK
    <3>3. /\ DOMAIN subSequence' = 1 .. L + 1
          /\ \A n \in 1 .. L : /\ subSequence'[n][1] = subSequence[n][1]
                               /\ subSequence'[n][2] = subSequence[n][2]
          /\ subSequence'[L + 1][1] = start /\ subSequence'[L + 1][2] = count
      <4>1. start \in 0 .. count /\ count \in 0 .. count
        BY <1>t
      <4> QED
        BY <3>1, <1>b, <4>1
    <3>4. TypeOK'
      <4>1. subSequence' \in Seq(R)
        BY <3>1, <3>2, <1>a
      <4> QED
        BY <1>3, <2>1, <2>4, <3>1, <4>1 DEF Extend, TypeOK
    <3>5. RunsAreConsecutive'
      <4>1. start \in 0 .. count /\ count \in start .. count
        BY <1>t
      <4>2. \A i \in start .. count : q[i] = q[start] + (i - start)
        BY <2>2, <2>4
      <4>3. \A n \in DOMAIN subSequence : subSequence[n][2] < start
        BY <1>0, <1>l, <2>1
      <4>4. UNCHANGED <<q, count>>
        BY <1>3 DEF Extend
      <4> QED
        BY <4>1, <4>2, <4>3, <4>4, <3>1, EmitRun
    <3>6. LoopInv'
      <4>1. UNCHANGED <<q, count>>
        BY <1>3 DEF Extend
      <4>2. \A n \in 1 .. L + 1 :
              subSequence'[n][2] < count =>
                q[subSequence'[n][2] + 1] # q[subSequence'[n][2]] + 1
        <5> TAKE n \in 1 .. L + 1
        <5>1. CASE n \in 1 .. L
          BY <5>1, <1>m, <3>3
        <5>2. CASE n = L + 1
          BY <5>2, <3>3, <1>t
        <5> QED
          BY <5>1, <5>2, <1>0
      <4> QED
        BY <3>1, <3>3, <4>1, <4>2 DEF LoopInv
    <3>7. RunsCover'
      <4>1. \A i \in 0 .. count : \E n \in 1 .. L + 1 :
              subSequence'[n][1] <= i /\ i <= subSequence'[n][2]
        <5> TAKE i \in 0 .. count
        <5>1. CASE i < start
          <6>1. i \in 0 .. start - 1
            BY <5>1, <1>t
          <6>2. PICK n \in 1 .. L : subSequence[n][1] <= i /\ i <= subSequence[n][2]
            BY <6>1, <1>l, <2>1
          <6>3. n \in 1 .. L + 1
            BY <1>0
          <6> QED
            BY <6>2, <6>3, <3>3
        <5>2. CASE i >= start
          BY <5>2, <1>0, <1>t, <3>3
        <5> QED
          BY <5>1, <5>2, <1>t
      <4>2. q[count - 1] + 1 = q[count]
        BY <2>1, <2>4, <1>t
      <4> QED
        BY <1>3, <3>3, <4>1, <4>2 DEF Extend, RunsCover, Covered, InSomeRun
    <3> QED
      BY <3>4, <3>5, <3>6, <3>7
  <2> QED
    BY <2>3, <2>4
<1>4. CASE Cut
  <2>1. pc = "loop" /\ start < count /\ end < count /\ q[end] + 1 # q[end + 1]
    BY <1>4 DEF Cut, LoopInv, TypeOK
  <2>2. <<start, end>> \in R
    BY DEF TypeOK
  <2>3. /\ DOMAIN subSequence' = 1 .. L + 1
        /\ \A n \in 1 .. L : /\ subSequence'[n][1] = subSequence[n][1]
                             /\ subSequence'[n][2] = subSequence[n][2]
        /\ subSequence'[L + 1][1] = start /\ subSequence'[L + 1][2] = end
    <3>1. start \in 0 .. count /\ end \in 0 .. count
      BY <1>t
    <3>2. subSequence' = Append(subSequence, <<start, end>>)
      BY <1>4 DEF Cut, Emit
    <3> QED
      BY <3>1, <3>2, <1>b
  <2>4. TypeOK'
    <3>1. subSequence' \in Seq(R)
      BY <1>4, <2>2, <1>a DEF Cut, Emit
    <3> QED
      BY <1>4, <2>1, <3>1 DEF Cut, TypeOK
  <2>5. RunsAreConsecutive'
    BY <1>4, <2>1, EmitRun DEF Cut, Emit, LoopInv, TypeOK
  <2>6. \A i \in 0 .. end : \E n \in 1 .. L + 1 :
          subSequence'[n][1] <= i /\ i <= subSequence'[n][2]
    <3> TAKE i \in 0 .. end
    <3>1. CASE i < start
      <4>1. i \in 0 .. start - 1
        BY <3>1, <1>t
      <4>2. PICK n \in 1 .. L : subSequence[n][1] <= i /\ i <= subSequence[n][2]
        BY <4>1, <1>l, <2>1
      <4>3. n \in 1 .. L + 1
        BY <1>0
      <4> QED
        BY <4>2, <4>3, <2>3
    <3>2. CASE i >= start
      BY <3>2, <1>0, <1>t, <2>3
    <3> QED
      BY <3>1, <3>2, <1>t
  <2>7. LoopInv'
    <3>1. /\ pc' = "loop" /\ start' = end + 1 /\ end' = end + 1
          /\ UNCHANGED <<q, count>>
      BY <1>4, <2>1 DEF Cut
    <3>2. \A n \in 1 .. L + 1 : subSequence'[n][2] < end + 1
      <4> TAKE n \in 1 .. L + 1
      <4>1. CASE n \in 1 .. L
        <5>1. subSequence'[n][2] = subSequence[n][2] /\ subSequence[n][2] < start
          BY <4>1, <1>l, <2>1, <2>3
        <5>2. subSequence[n][2] \in 0 .. count
          BY <4>1, <1>0
        <5> QED
          BY <5>1, <5>2, <1>t
      <4>2. CASE n = L + 1
        BY <4>2, <2>3, <1>t
      <4> QED
        BY <4>1, <4>2, <1>0
    <3>3. \A n \in 1 .. L + 1 :
            subSequence'[n][2] < count =>
              q[subSequence'[n][2] + 1] # q[subSequence'[n][2]] + 1
      <4> TAKE n \in 1 .. L + 1
      <4>1. CASE n \in 1 .. L
        BY <4>1, <1>m, <2>3
      <4>2. CASE n = L + 1
        <5>1. q[end + 1] # q[end] + 1
          BY <2>1
        <5> QED
          BY <4>2, <5>1, <2>3
      <4> QED
        BY <4>1, <4>2, <1>0
    <3>4. \A i \in end + 1 .. end + 1 : q[i] = q[end + 1] + (i - (end + 1))
      BY <1>t, <2>1
    <3> QED
      <4>1. 0 .. (end + 1) - 1 = 0 .. end
        BY <1>t
      <4>2. /\ end + 1 < count \/ end + 1 = count
            /\ count > 0
            /\ q[(end + 1) - 1] + 1 # q[end + 1]
        BY <1>t, <2>1
      <4>3. \A n \in DOMAIN subSequence' : subSequence'[n][2] < end + 1
        BY <2>3, <3>2
      <4>4. \A i \in 0 .. (end + 1) - 1 : \E n \in DOMAIN subSequence' :
              subSequence'[n][1] <= i /\ i <= subSequence'[n][2]
        BY <2>3, <2>6, <4>1
      <4>5. \A n \in DOMAIN subSequence' :
              subSequence'[n][2] < count =>
                q[subSequence'[n][2] + 1] # q[subSequence'[n][2]] + 1
        BY <2>3, <3>3
      <4> QED
        BY <3>1, <3>4, <4>2, <4>3, <4>4, <4>5, Zenon DEF LoopInv
  <2>8. RunsCover'
    BY <1>4, <2>1 DEF Cut, RunsCover
  <2> QED
    BY <2>4, <2>5, <2>7, <2>8
<1>5. CASE LeaveLoop
  <2>1. pc = "loop" /\ start = count /\ count > 0 /\ pc' = "done"
    BY <1>5 DEF LeaveLoop, LoopInv, TypeOK
  <2>2. TypeOK' /\ LoopInv' /\ RunsAreConsecutive'
    BY <1>5, <2>1 DEF LeaveLoop, TypeOK, LoopInv, RunsAreConsecutive
  <2>3. ASSUME NEW i \in 0 .. count
        PROVE  (\E n \in DOMAIN subSequence :
                  subSequence[n][1] <= i /\ i <= subSequence[n][2]) <=> i < count
    <3>1. CASE i < count
      <4>1. i \in 0 .. start - 1
        BY <3>1, <2>1, <1>t
      <4> QED
        BY <3>1, <4>1, <2>1, <1>l, <1>0
    <3>2. CASE i = count
      BY <3>2, <2>1, <1>l, <1>0, <1>t
    <3> QED
      BY <3>1, <3>2, <1>t
  <2>4. q[count - 1] + 1 # q[count] /\ count # 0
    BY <2>1, <1>l, <1>t
  <2>5. Covered = InSomeRun
    BY <2>3, <2>4 DEF Covered, InSomeRun
  <2>6. RunsCover'
    BY <1>5, <2>5 DEF LeaveLoop, RunsCover, Covered, InSomeRun
  <2> QED
    BY <2>2, <2>6
<1>6. CASE Done \/ UNCHANGED vars
  BY <1>6 DEF Done, vars, TypeOK, LoopInv, RunsAreConsecutive, RunsCover,
              Covered, InSomeRun
<1> QED
  BY <1>1, <1>2, <1>3, <1>4, <1>5, <1>6 DEF Next

(* The invariant holds throughout the search.                              *)
THEOREM Invariance == Spec => []Inv
<1> QED
  BY InitInv, NextInv, PTL DEF Spec

(* The runs FindSinfoSubSequence returns are consecutive and disjoint.     *)
THEOREM Consecutive == Spec => []RunsAreConsecutive
<1>1. Inv => RunsAreConsecutive
  BY DEF Inv
<1> QED
  BY Invariance, <1>1, PTL

(* They are maximal.                                                       *)
THEOREM Maximal == Spec => []RunsAreMaximal
<1>1. Inv => RunsAreMaximal
  BY DEF Inv, LoopInv, RunsAreMaximal
<1> QED
  BY Invariance, <1>1, PTL

(* They cover all slabs but a last one that does not continue a run: what  *)
(* OptBatchWriteLazyFlush's loop over the runs reaches.                    *)
THEOREM Coverage == Spec => []RunsCover
<1>1. Inv => RunsCover
  BY DEF Inv
<1> QED
  BY Invariance, <1>1, PTL
=============================================================================
