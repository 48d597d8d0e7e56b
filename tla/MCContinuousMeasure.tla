------------------------ MODULE MCContinuousMeasure ------------------------
(* Instances of ContinuousMeasure for TLC. *)
EXTENDS ContinuousMeasure

CONSTANTS A, B

\* B has a chart view beside its main view.
MCViews == [d \in {A, B} |-> IF d = A THEN 1 ELSE 2]

\* B alone.
MCViews1 == [d \in {B} |-> 2]

NoMoreThan(n) == \A s \in Sessions : tcount[s] <= n

\* Only B is left, and A had no session.
OnlyB == A \notin open /\ \A s \in Sessions : tdoc[s] # A

\* What is explored on.  Until something raced: one measure for each session, two
\* where only B is left.  After a race of a failing thread, where RunningDocIsOpen
\* still claims something: only B, with sessions that made no measure.
Explored ==
  \/ ~raced /\ (NoMoreThan(1) \/ OnlyB)
  \/ OnlyB /\ NoMoreThan(0) /\ (interrupted => \A s \in Sessions : tpc[s] = "unborn")

\* Where the liveness properties claim something; the threads and the series that
\* come to an end by themselves are those of B.
ErrorsOfB ==
  /\ ~raced /\ series # A
  /\ \A s \in Sessions : tdoc[s] = A => tpc[s] \notin FailPCs \cup {"failed", "thrown"}
=============================================================================
