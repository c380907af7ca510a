---------------------------- MODULE MCTreeSeries ----------------------------
(* Small instances of TreeSeries for TLC.                                  *)
EXTENDS TreeSeries

CONSTANTS a1, a2, b1, A, B

(* One series: slabs go round the whole cycle several times.               *)
OneSeries == {a1}
OneClass == {A}
OneClassOf == [s \in OneSeries |-> A]
OneQuota == [s \in OneSeries |-> MaxChunk]

(* Two series that share the slabs of one class.                           *)
SharedSeries == {a1, a2}
SharedClassOf == [s \in SharedSeries |-> A]
SharedQuota == [s \in SharedSeries |-> IF s = a1 THEN MaxChunk ELSE 3]

(* Two classes that fill slabs side by side.                               *)
TwoSeries == {a1, b1}
TwoClasses == {A, B}
TwoClassOf == [s \in TwoSeries |-> IF s = a1 THEN A ELSE B]
TwoQuota == [s \in TwoSeries |-> IF s = a1 THEN MaxChunk ELSE 1]
=============================================================================
