--------------------------- MODULE ParallelMeasure ---------------------------
(***************************************************************************)
(* What a simultaneous measure promises: several sensors look at one       *)
(* screen, which shows one pattern after the other; a pattern stays on     *)
(* while a sensor reads it, and a document takes the readings of its       *)
(* sensor only when it has a valid one of every pattern.                   *)
(***************************************************************************)
EXTENDS Naturals

CONSTANTS
  Sensors,
  NbSteps       \* the number of patterns; pattern k is the one of step k

VARIABLES
  shown,        \* the pattern on the screen, 0 when it shows none
  reading,      \* the sensors that are reading the screen
  readings,     \* for each sensor and step, the pattern it read; 0 is no data
  published     \* what the document of each sensor holds

vars == <<shown, reading, readings, published>>

Steps == 1 .. NbSteps
NoData == [k \in Steps |-> 0]
Complete == [k \in Steps |-> k]

Init ==
  /\ shown = 0 /\ reading = {}
  /\ readings = [s \in Sensors |-> NoData]
  /\ published = [s \in Sensors |-> NoData]

\* The screen changes only while no sensor reads it.
Show ==
  /\ reading = {}
  /\ shown + 1 \in Steps /\ shown' = shown + 1
  /\ UNCHANGED <<reading, readings, published>>

Blank ==
  /\ reading = {}
  /\ shown' = 0
  /\ UNCHANGED <<reading, readings, published>>

Begin(s) ==
  /\ s \notin reading /\ shown # 0
  /\ reading' = reading \cup {s}
  /\ UNCHANGED <<shown, readings, published>>

\* A reading is of the pattern that is shown, or invalid.
End(s) ==
  /\ s \in reading
  /\ reading' = reading \ {s}
  /\ \E value \in {shown, 0} : readings' = [readings EXCEPT ![s][shown] = value]
  /\ UNCHANGED <<shown, published>>

\* A sensor may stop without a reading.
Abandon(s) ==
  /\ s \in reading
  /\ reading' = reading \ {s}
  /\ UNCHANGED <<shown, readings, published>>

\* A new operation begins, or the last one is over.
Discard(s) ==
  /\ s \notin reading
  /\ readings' = [readings EXCEPT ![s] = NoData]
  /\ UNCHANGED <<shown, reading, published>>

Publish(s) ==
  /\ readings[s] = Complete
  /\ published' = [published EXCEPT ![s] = readings[s]]
  /\ UNCHANGED <<shown, reading, readings>>

Next ==
  \/ Show \/ Blank
  \/ \E s \in Sensors : Begin(s) \/ End(s) \/ Abandon(s) \/ Discard(s) \/ Publish(s)

Spec == Init /\ [][Next]_vars
=============================================================================
