------------------------------ MODULE SlabRuns ------------------------------
(***************************************************************************)
(* FindSinfoSubSequence (TreeSeries.cpp:655): splits a sorted array of     *)
(* slabs into runs of consecutive slab ids, so that the flusher can write  *)
(* a run with one pwrite.  The array is q[0] .. q[count]: both callers     *)
(* pass the index of the last slab, not their number.                      *)
(***************************************************************************)
EXTENDS Integers, Sequences, SequencesExt

CONSTANTS
  MaxId,      \* slab ids are 0 .. MaxId
  MaxCount    \* bound on the argument count

ASSUME RunsAssumption == MaxId \in Nat /\ MaxCount \in Nat

VARIABLES count, q, start, end, subSequence, pc

vars == <<count, q, start, end, subSequence, pc>>

(* What stable_sort by compareSlabInfo leaves: slabs are distinct.         *)
Sorted(f) == \A i, j \in DOMAIN f : i < j => f[i] < f[j]

Init ==
  /\ count \in 0 .. MaxCount
  /\ q \in {f \in [0 .. count -> 0 .. MaxId] : Sorted(f)}
  /\ start = 0 /\ end = 0
  /\ subSequence = << >>
  /\ pc = "entry"

Emit == subSequence' = Append(subSequence, <<start, end>>)

(* Mutant of Single: a single slab is no run.                              *)
SingleLost ==
  /\ pc = "entry" /\ start = count
  /\ pc' = "done"
  /\ UNCHANGED <<count, q, start, end, subSequence>>


Single ==
  /\ pc = "entry" /\ start = count
  /\ Emit
  /\ pc' = "done"
  /\ UNCHANGED <<count, q, start, end>>

EnterLoop ==
  /\ pc = "entry" /\ start # count
  /\ pc' = "loop"
  /\ UNCHANGED <<count, q, start, end, subSequence>>

(* Mutant of Extend: end is not advanced.                                  *)
ExtendStuck ==
  /\ pc = "loop" /\ start < count /\ q[end] + 1 = q[end + 1]
  /\ UNCHANGED vars

(* The next slab continues the run; reaching the last one ends the search. *)
Extend ==
  /\ pc = "loop" /\ start < count /\ q[end] + 1 = q[end + 1]
  /\ end' = end + 1
  /\ \/ /\ end + 1 = count
        /\ subSequence' = Append(subSequence, <<start, end + 1>>)
        /\ pc' = "done"
     \/ /\ end + 1 # count
        /\ UNCHANGED <<subSequence, pc>>
  /\ UNCHANGED <<count, q, start>>

(* Mutants of Cut: the next run starts one slab too late; end is advanced  *)
(* before the run is emitted; a run is cut anywhere.                       *)
CutLate ==
  /\ pc = "loop" /\ start < count /\ q[end] + 1 # q[end + 1]
  /\ Emit
  /\ end' = end + 2 /\ start' = end + 2
  /\ UNCHANGED <<count, q, pc>>

CutAdvanced ==
  /\ pc = "loop" /\ start < count /\ q[end] + 1 # q[end + 1]
  /\ subSequence' = Append(subSequence, <<start, end + 1>>)
  /\ end' = end + 1 /\ start' = end + 1
  /\ UNCHANGED <<count, q, pc>>

CutAnywhere ==
  /\ pc = "loop" /\ start < count
  /\ Emit
  /\ end' = end + 1 /\ start' = end + 1
  /\ UNCHANGED <<count, q, pc>>

(* The next slab starts a new run.                                         *)
Cut ==
  /\ pc = "loop" /\ start < count /\ q[end] + 1 # q[end + 1]
  /\ Emit
  /\ end' = end + 1 /\ start' = end + 1
  /\ UNCHANGED <<count, q, pc>>

LeaveLoop ==
  /\ pc = "loop" /\ ~(start < count)
  /\ pc' = "done"
  /\ UNCHANGED <<count, q, start, end, subSequence>>

Done == pc = "done" /\ UNCHANGED vars

Next == Single \/ EnterLoop \/ Extend \/ Cut \/ LeaveLoop \/ Done

Spec == Init /\ [][Next]_vars
FairSpec == Spec /\ WF_vars(Next)

-----------------------------------------------------------------------------
(* The locals are uint32_t indices of the array or one past a run.         *)
TypeOK ==
  /\ count \in Nat /\ q \in [0 .. count -> Nat]
  /\ start \in 0 .. count /\ end \in start .. count
  /\ subSequence \in Seq((0 .. count) \X (0 .. count))
  /\ pc \in {"entry", "loop", "done"}

Covered == {i \in 0 .. count : \E n \in DOMAIN subSequence :
                                 subSequence[n][1] <= i /\ i <= subSequence[n][2]}

(* A pwrite of a run writes adjacent slabs: each run found is a stretch of *)
(* consecutive ids, so that q[b] - q[a] = b - a, and the runs do not       *)
(* overlap: no slab is written twice.                                      *)
RunsAreConsecutive ==
  \A n \in DOMAIN subSequence :
    LET a == subSequence[n][1]
        b == subSequence[n][2]
    IN /\ a <= b
       /\ \A i \in a .. b : q[i] = q[a] + (i - a)
       /\ \A m \in DOMAIN subSequence : m < n => subSequence[m][2] < a

(* Runs are as long as possible, so the fewest pwrites are issued: the     *)
(* slab after a run does not continue it.                                  *)
RunsAreMaximal ==
  pc = "done" =>
    \A n \in DOMAIN subSequence :
      LET b == subSequence[n][2]
      IN b < count => q[b + 1] # q[b] + 1

(* What the flusher can rely on: every slab is in a run, except a last one *)
(* that does not continue the run before it; TreeSeries!InSomeRun says the *)
(* same of the batch as a set.                                             *)
InSomeRun == {i \in 0 .. count : \/ i < count
                                 \/ count = 0
                                 \/ q[count - 1] + 1 = q[count]}
RunsCover == pc = "done" => Covered = InSomeRun

(* The loop ends.                                                          *)
Terminates == <>(pc = "done")

(* tree_series_test.cpp:386-394 checks after OptBatchWrite that every slab *)
(* of the batch was copied to disk and freed, which needs every slab of    *)
(* the array to be in some run.                                            *)
RunsCoverAll == pc = "done" => Covered = 0 .. count
=============================================================================
