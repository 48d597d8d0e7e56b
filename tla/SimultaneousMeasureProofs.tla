------------------------ MODULE SimultaneousMeasureProofs ------------------------
(* Theorems about SimultaneousMeasure, for any number of documents and steps. *)
EXTENDS SimultaneousMeasure, TLAPS

\* There is a document and a step.
LEMMA Bounds ==
  /\ NbDocs \in Nat /\ NbSteps \in Nat /\ NbDocs >= 1 /\ NbSteps >= 1
  /\ 1 \in Docs /\ 0 \in 0 .. NbSteps /\ 1 \in 1 .. NbSteps + 1
  /\ Steps \subseteq 0 .. NbSteps /\ Steps \subseteq Nat
  /\ NoData \in [Steps -> 0 .. NbSteps]
BY SizesAssumption DEF Docs, Steps, NoData

\* The loop variable after a step.
LEMMA NextStepBound == \A k \in Steps : k \in 1 .. NbSteps + 1 /\ k + 1 \in 1 .. NbSteps + 1
BY SizesAssumption DEF Steps

\* Each step keeps the types.
LEMMA TypeStep ==
  ASSUME TypeOK, LoopInv, [Next]_vars
  PROVE  TypeOK'
<1> USE DEF TypeOK, At, Thread, Fails, locals, device, shared
<1>1. CASE Perform
  <2>1. pc' \in UiPCs /\ ending' \in {"validate", "cancel", "undo"} /\ bOk' \in BOOLEAN /\ bEscape' \in BOOLEAN
    BY <1>1 DEF Perform, UiPCs
  <2>2. i' \in 1 .. NbSteps + 1
    BY <1>1, Bounds DEF Perform, Steps, LoopInv
  <2>3. j' \in Docs
    BY <1>1, Bounds DEF Perform, Docs
  <2>4. screen' \in 0 .. NbSteps /\ generatorOn' \in BOOLEAN
    BY <1>1, Bounds DEF Perform
  <2>5. /\ thread' \in [Docs -> ThreadPCs]
        /\ run' \in [Docs -> EventStates] /\ done' \in [Docs -> EventStates]
    BY <1>1 DEF Perform, ThreadPCs, EventStates
  <2>6. /\ terminate' \in [Docs -> BOOLEAN]
        /\ error' \in [Docs -> BOOLEAN]
        /\ sensorReady' \in [Docs -> BOOLEAN]
    BY <1>1 DEF Perform
  <2>7. step' \in [Docs -> 0 .. NbSteps]
    BY <1>1, Bounds DEF Perform, LoopInv
  <2>8. results' \in [Docs -> [Steps -> 0 .. NbSteps]]
    BY <1>1, Bounds DEF Perform
  <2>9. published' \in [Docs -> [Steps -> 0 .. NbSteps]]
    BY <1>1 DEF Perform
  <2> QED
    BY <2>1, <2>2, <2>3, <2>4, <2>5, <2>6, <2>7, <2>8, <2>9
<1>2. CASE InitBackgroundMeasures
  <2>1. pc' \in UiPCs /\ ending' \in {"validate", "cancel", "undo"} /\ bOk' \in BOOLEAN /\ bEscape' \in BOOLEAN
    BY <1>2 DEF InitBackgroundMeasures, BackgroundReset, NextInit, UndoInit, UiPCs
  <2>2. i' \in 1 .. NbSteps + 1
    BY <1>2, Bounds DEF InitBackgroundMeasures, BackgroundReset, NextInit, UndoInit, Steps, LoopInv
  <2>3. j' \in Docs
    BY <1>2, Bounds DEF InitBackgroundMeasures, BackgroundReset, NextInit, UndoInit, Docs
  <2>4. screen' \in 0 .. NbSteps /\ generatorOn' \in BOOLEAN
    BY <1>2, Bounds DEF InitBackgroundMeasures, BackgroundReset, NextInit, UndoInit
  <2>5. /\ thread' \in [Docs -> ThreadPCs]
        /\ run' \in [Docs -> EventStates] /\ done' \in [Docs -> EventStates]
    BY <1>2 DEF InitBackgroundMeasures, BackgroundReset, NextInit, UndoInit, ThreadPCs, EventStates
  <2>6. /\ terminate' \in [Docs -> BOOLEAN]
        /\ error' \in [Docs -> BOOLEAN]
        /\ sensorReady' \in [Docs -> BOOLEAN]
    BY <1>2 DEF InitBackgroundMeasures, BackgroundReset, NextInit, UndoInit
  <2>7. step' \in [Docs -> 0 .. NbSteps]
    BY <1>2, Bounds DEF InitBackgroundMeasures, BackgroundReset, NextInit, UndoInit, LoopInv
  <2>8. results' \in [Docs -> [Steps -> 0 .. NbSteps]]
    BY <1>2, Bounds DEF InitBackgroundMeasures, BackgroundReset, NextInit, UndoInit
  <2>9. published' \in [Docs -> [Steps -> 0 .. NbSteps]]
    BY <1>2 DEF InitBackgroundMeasures, BackgroundReset, NextInit, UndoInit
  <2> QED
    BY <2>1, <2>2, <2>3, <2>4, <2>5, <2>6, <2>7, <2>8, <2>9
<1>3. CASE InitGenerator
  BY <1>3 DEF InitGenerator, UiPCs, ThreadPCs, EventStates
<1>4. CASE Display
  <2>1. pc' \in UiPCs /\ ending' \in {"validate", "cancel", "undo"} /\ bOk' \in BOOLEAN /\ bEscape' \in BOOLEAN
    BY <1>4 DEF Display, UiPCs
  <2>2. i' \in 1 .. NbSteps + 1
    BY <1>4, Bounds DEF Display, Steps, LoopInv
  <2>3. j' \in Docs
    BY <1>4, Bounds DEF Display, Docs
  <2>4. screen' \in 0 .. NbSteps /\ generatorOn' \in BOOLEAN
    <3>1. i <= NbSteps => i \in 0 .. NbSteps
      BY Bounds
    <3> QED
      BY <1>4, <3>1 DEF Display
  <2>5. /\ thread' \in [Docs -> ThreadPCs]
        /\ run' \in [Docs -> EventStates] /\ done' \in [Docs -> EventStates]
    BY <1>4 DEF Display, ThreadPCs, EventStates
  <2>6. /\ terminate' \in [Docs -> BOOLEAN]
        /\ error' \in [Docs -> BOOLEAN]
        /\ sensorReady' \in [Docs -> BOOLEAN]
    BY <1>4 DEF Display
  <2>7. step' \in [Docs -> 0 .. NbSteps]
    BY <1>4, Bounds DEF Display, LoopInv
  <2>8. results' \in [Docs -> [Steps -> 0 .. NbSteps]]
    BY <1>4, Bounds DEF Display
  <2>9. published' \in [Docs -> [Steps -> 0 .. NbSteps]]
    BY <1>4 DEF Display
  <2> QED
    BY <2>1, <2>2, <2>3, <2>4, <2>5, <2>6, <2>7, <2>8, <2>9
<1>5. CASE LoopEnds
  BY <1>5 DEF LoopEnds, UiPCs, ThreadPCs, EventStates
<1>6. CASE WaitForDynamicIris
  <2>1. pc' \in UiPCs /\ ending' \in {"validate", "cancel", "undo"} /\ bOk' \in BOOLEAN /\ bEscape' \in BOOLEAN
    BY <1>6 DEF WaitForDynamicIris, UiPCs
  <2>2. i' \in 1 .. NbSteps + 1
    <3>1. i \in Steps /\ (i' = i \/ i' = i + 1)
      BY <1>6 DEF WaitForDynamicIris, LoopInv
    <3> QED
      BY <3>1, NextStepBound
  <2>3. j' \in Docs
    BY <1>6, Bounds DEF WaitForDynamicIris, Docs
  <2>4. screen' \in 0 .. NbSteps /\ generatorOn' \in BOOLEAN
    BY <1>6, Bounds DEF WaitForDynamicIris
  <2>5. /\ thread' \in [Docs -> ThreadPCs]
        /\ run' \in [Docs -> EventStates] /\ done' \in [Docs -> EventStates]
    BY <1>6 DEF WaitForDynamicIris, ThreadPCs, EventStates
  <2>6. /\ terminate' \in [Docs -> BOOLEAN]
        /\ error' \in [Docs -> BOOLEAN]
        /\ sensorReady' \in [Docs -> BOOLEAN]
    BY <1>6 DEF WaitForDynamicIris
  <2>7. step' \in [Docs -> 0 .. NbSteps]
    BY <1>6, Bounds DEF WaitForDynamicIris, LoopInv
  <2>8. results' \in [Docs -> [Steps -> 0 .. NbSteps]]
    BY <1>6, Bounds DEF WaitForDynamicIris
  <2>9. published' \in [Docs -> [Steps -> 0 .. NbSteps]]
    BY <1>6 DEF WaitForDynamicIris
  <2> QED
    BY <2>1, <2>2, <2>3, <2>4, <2>5, <2>6, <2>7, <2>8, <2>9
<1>7. CASE BackgroundMeasureColor
  <2>1. pc' \in UiPCs /\ ending' \in {"validate", "cancel", "undo"} /\ bOk' \in BOOLEAN /\ bEscape' \in BOOLEAN
    BY <1>7 DEF BackgroundMeasureColor, NextRequest, UiPCs
  <2>2. i' \in 1 .. NbSteps + 1
    BY <1>7, Bounds DEF BackgroundMeasureColor, NextRequest, Steps, LoopInv
  <2>3. j' \in Docs
    BY <1>7, Bounds DEF BackgroundMeasureColor, NextRequest, Docs
  <2>4. screen' \in 0 .. NbSteps /\ generatorOn' \in BOOLEAN
    BY <1>7, Bounds DEF BackgroundMeasureColor, NextRequest
  <2>5. /\ thread' \in [Docs -> ThreadPCs]
        /\ run' \in [Docs -> EventStates] /\ done' \in [Docs -> EventStates]
    BY <1>7 DEF BackgroundMeasureColor, NextRequest, ThreadPCs, EventStates
  <2>6. /\ terminate' \in [Docs -> BOOLEAN]
        /\ error' \in [Docs -> BOOLEAN]
        /\ sensorReady' \in [Docs -> BOOLEAN]
    BY <1>7 DEF BackgroundMeasureColor, NextRequest
  <2>7. step' \in [Docs -> 0 .. NbSteps]
    BY <1>7, Bounds DEF BackgroundMeasureColor, NextRequest, LoopInv
  <2>8. results' \in [Docs -> [Steps -> 0 .. NbSteps]]
    BY <1>7, Bounds DEF BackgroundMeasureColor, NextRequest
  <2>9. published' \in [Docs -> [Steps -> 0 .. NbSteps]]
    BY <1>7 DEF BackgroundMeasureColor, NextRequest
  <2> QED
    BY <2>1, <2>2, <2>3, <2>4, <2>5, <2>6, <2>7, <2>8, <2>9
<1>8. CASE SignalRun
  <2>1. pc' \in UiPCs /\ ending' \in {"validate", "cancel", "undo"} /\ bOk' \in BOOLEAN /\ bEscape' \in BOOLEAN
    BY <1>8 DEF SignalRun, NextRequest, UiPCs
  <2>2. i' \in 1 .. NbSteps + 1
    BY <1>8, Bounds DEF SignalRun, NextRequest, Steps, LoopInv
  <2>3. j' \in Docs
    BY <1>8, Bounds DEF SignalRun, NextRequest, Docs
  <2>4. screen' \in 0 .. NbSteps /\ generatorOn' \in BOOLEAN
    BY <1>8, Bounds DEF SignalRun, NextRequest
  <2>5. /\ thread' \in [Docs -> ThreadPCs]
        /\ run' \in [Docs -> EventStates] /\ done' \in [Docs -> EventStates]
    BY <1>8 DEF SignalRun, NextRequest, ThreadPCs, EventStates
  <2>6. /\ terminate' \in [Docs -> BOOLEAN]
        /\ error' \in [Docs -> BOOLEAN]
        /\ sensorReady' \in [Docs -> BOOLEAN]
    BY <1>8 DEF SignalRun, NextRequest
  <2>7. step' \in [Docs -> 0 .. NbSteps]
    BY <1>8, Bounds DEF SignalRun, NextRequest, LoopInv
  <2>8. results' \in [Docs -> [Steps -> 0 .. NbSteps]]
    BY <1>8, Bounds DEF SignalRun, NextRequest
  <2>9. published' \in [Docs -> [Steps -> 0 .. NbSteps]]
    BY <1>8 DEF SignalRun, NextRequest
  <2> QED
    BY <2>1, <2>2, <2>3, <2>4, <2>5, <2>6, <2>7, <2>8, <2>9
<1>9. CASE WaitForAll
  BY <1>9 DEF WaitForAll, UiPCs, ThreadPCs, EventStates
<1>10. CASE Check
  <2>1. pc' \in UiPCs /\ ending' \in {"validate", "cancel", "undo"} /\ bOk' \in BOOLEAN /\ bEscape' \in BOOLEAN
    BY <1>10 DEF Check, UiPCs
  <2>2. i' \in 1 .. NbSteps + 1
    <3>1. i \in Steps /\ (i' = i \/ i' = i + 1)
      BY <1>10 DEF Check, LoopInv
    <3> QED
      BY <3>1, NextStepBound
  <2>3. j' \in Docs
    BY <1>10, Bounds DEF Check, Docs
  <2>4. screen' \in 0 .. NbSteps /\ generatorOn' \in BOOLEAN
    BY <1>10, Bounds DEF Check
  <2>5. /\ thread' \in [Docs -> ThreadPCs]
        /\ run' \in [Docs -> EventStates] /\ done' \in [Docs -> EventStates]
    BY <1>10 DEF Check, ThreadPCs, EventStates
  <2>6. /\ terminate' \in [Docs -> BOOLEAN]
        /\ error' \in [Docs -> BOOLEAN]
        /\ sensorReady' \in [Docs -> BOOLEAN]
    BY <1>10 DEF Check
  <2>7. step' \in [Docs -> 0 .. NbSteps]
    BY <1>10, Bounds DEF Check, LoopInv
  <2>8. results' \in [Docs -> [Steps -> 0 .. NbSteps]]
    BY <1>10, Bounds DEF Check
  <2>9. published' \in [Docs -> [Steps -> 0 .. NbSteps]]
    BY <1>10 DEF Check
  <2> QED
    BY <2>1, <2>2, <2>3, <2>4, <2>5, <2>6, <2>7, <2>8, <2>9
<1>11. CASE ReleaseGenerator
  <2>1. pc' \in UiPCs /\ ending' \in {"validate", "cancel", "undo"} /\ bOk' \in BOOLEAN /\ bEscape' \in BOOLEAN
    BY <1>11 DEF ReleaseGenerator, UiPCs
  <2>2. i' \in 1 .. NbSteps + 1
    BY <1>11, Bounds DEF ReleaseGenerator, Steps, LoopInv
  <2>3. j' \in Docs
    BY <1>11, Bounds DEF ReleaseGenerator, Docs
  <2>4. screen' \in 0 .. NbSteps /\ generatorOn' \in BOOLEAN
    BY <1>11, Bounds DEF ReleaseGenerator
  <2>5. /\ thread' \in [Docs -> ThreadPCs]
        /\ run' \in [Docs -> EventStates] /\ done' \in [Docs -> EventStates]
    BY <1>11 DEF ReleaseGenerator, ThreadPCs, EventStates
  <2>6. /\ terminate' \in [Docs -> BOOLEAN]
        /\ error' \in [Docs -> BOOLEAN]
        /\ sensorReady' \in [Docs -> BOOLEAN]
    BY <1>11 DEF ReleaseGenerator
  <2>7. step' \in [Docs -> 0 .. NbSteps]
    BY <1>11, Bounds DEF ReleaseGenerator, LoopInv
  <2>8. results' \in [Docs -> [Steps -> 0 .. NbSteps]]
    BY <1>11, Bounds DEF ReleaseGenerator
  <2>9. published' \in [Docs -> [Steps -> 0 .. NbSteps]]
    BY <1>11 DEF ReleaseGenerator
  <2> QED
    BY <2>1, <2>2, <2>3, <2>4, <2>5, <2>6, <2>7, <2>8, <2>9
<1>12. CASE Decide
  BY <1>12, Bounds DEF Decide, UiPCs
<1>13. CASE Validate
  BY <1>13 DEF Validate, UiPCs, ThreadPCs, EventStates
<1>14. CASE CancelBackgroundMeasures
  <2>1. pc' \in UiPCs /\ ending' \in {"validate", "cancel", "undo"} /\ bOk' \in BOOLEAN /\ bEscape' \in BOOLEAN
    BY <1>14 DEF CancelBackgroundMeasures, NextClosed, UiPCs
  <2>2. i' \in 1 .. NbSteps + 1
    BY <1>14, Bounds DEF CancelBackgroundMeasures, NextClosed, Steps, LoopInv
  <2>3. j' \in Docs
    BY <1>14, Bounds DEF CancelBackgroundMeasures, NextClosed, Docs
  <2>4. screen' \in 0 .. NbSteps /\ generatorOn' \in BOOLEAN
    BY <1>14, Bounds DEF CancelBackgroundMeasures, NextClosed
  <2>5. /\ thread' \in [Docs -> ThreadPCs]
        /\ run' \in [Docs -> EventStates] /\ done' \in [Docs -> EventStates]
    BY <1>14 DEF CancelBackgroundMeasures, NextClosed, ThreadPCs, EventStates
  <2>6. /\ terminate' \in [Docs -> BOOLEAN]
        /\ error' \in [Docs -> BOOLEAN]
        /\ sensorReady' \in [Docs -> BOOLEAN]
    BY <1>14 DEF CancelBackgroundMeasures, NextClosed
  <2>7. step' \in [Docs -> 0 .. NbSteps]
    BY <1>14, Bounds DEF CancelBackgroundMeasures, NextClosed, LoopInv
  <2>8. results' \in [Docs -> [Steps -> 0 .. NbSteps]]
    BY <1>14, Bounds DEF CancelBackgroundMeasures, NextClosed
  <2>9. published' \in [Docs -> [Steps -> 0 .. NbSteps]]
    BY <1>14 DEF CancelBackgroundMeasures, NextClosed
  <2> QED
    BY <2>1, <2>2, <2>3, <2>4, <2>5, <2>6, <2>7, <2>8, <2>9
<1>15. CASE SignalStop
  BY <1>15 DEF SignalStop, UiPCs, ThreadPCs, EventStates
<1>16. CASE Join
  <2>1. pc' \in UiPCs /\ ending' \in {"validate", "cancel", "undo"} /\ bOk' \in BOOLEAN /\ bEscape' \in BOOLEAN
    BY <1>16 DEF Join, NextClosed, UiPCs
  <2>2. i' \in 1 .. NbSteps + 1
    BY <1>16, Bounds DEF Join, NextClosed, Steps, LoopInv
  <2>3. j' \in Docs
    BY <1>16, Bounds DEF Join, NextClosed, Docs
  <2>4. screen' \in 0 .. NbSteps /\ generatorOn' \in BOOLEAN
    BY <1>16, Bounds DEF Join, NextClosed
  <2>5. /\ thread' \in [Docs -> ThreadPCs]
        /\ run' \in [Docs -> EventStates] /\ done' \in [Docs -> EventStates]
    BY <1>16 DEF Join, NextClosed, ThreadPCs, EventStates
  <2>6. /\ terminate' \in [Docs -> BOOLEAN]
        /\ error' \in [Docs -> BOOLEAN]
        /\ sensorReady' \in [Docs -> BOOLEAN]
    BY <1>16 DEF Join, NextClosed
  <2>7. step' \in [Docs -> 0 .. NbSteps]
    BY <1>16, Bounds DEF Join, NextClosed, LoopInv
  <2>8. results' \in [Docs -> [Steps -> 0 .. NbSteps]]
    BY <1>16, Bounds DEF Join, NextClosed
  <2>9. published' \in [Docs -> [Steps -> 0 .. NbSteps]]
    BY <1>16 DEF Join, NextClosed
  <2> QED
    BY <2>1, <2>2, <2>3, <2>4, <2>5, <2>6, <2>7, <2>8, <2>9
<1>17. ASSUME NEW c \in Docs, Wake(c) PROVE TypeOK'
  BY <1>17 DEF Wake, UiPCs, ThreadPCs, EventStates
<1>18. ASSUME NEW c \in Docs, ResetRun(c) PROVE TypeOK'
  BY <1>18 DEF ResetRun, UiPCs, ThreadPCs, EventStates
<1>19. ASSUME NEW c \in Docs, TestTerminate(c) PROVE TypeOK'
  BY <1>19 DEF TestTerminate, UiPCs, ThreadPCs, EventStates
<1>20. ASSUME NEW c \in Docs, MeasureColor(c) PROVE TypeOK'
  <2>1. pc' \in UiPCs /\ ending' \in {"validate", "cancel", "undo"} /\ bOk' \in BOOLEAN /\ bEscape' \in BOOLEAN
    BY <1>20 DEF MeasureColor, UiPCs
  <2>2. i' \in 1 .. NbSteps + 1
    BY <1>20, Bounds DEF MeasureColor, Steps, LoopInv
  <2>3. j' \in Docs
    BY <1>20, Bounds DEF MeasureColor, Docs
  <2>4. screen' \in 0 .. NbSteps /\ generatorOn' \in BOOLEAN
    BY <1>20, Bounds DEF MeasureColor
  <2>5. /\ thread' \in [Docs -> ThreadPCs]
        /\ run' \in [Docs -> EventStates] /\ done' \in [Docs -> EventStates]
    BY <1>20 DEF MeasureColor, ThreadPCs, EventStates
  <2>6. /\ terminate' \in [Docs -> BOOLEAN]
        /\ error' \in [Docs -> BOOLEAN]
        /\ sensorReady' \in [Docs -> BOOLEAN]
    BY <1>20 DEF MeasureColor
  <2>7. step' \in [Docs -> 0 .. NbSteps]
    BY <1>20, Bounds DEF MeasureColor, LoopInv
  <2>8. results' \in [Docs -> [Steps -> 0 .. NbSteps]]
    <3>1. \E v \in 0 .. NbSteps : results' = [results EXCEPT ![c] = [results[c] EXCEPT ![step[c]] = v]]
      BY <1>20, Bounds DEF MeasureColor
    <3>2. \A v \in 0 .. NbSteps : [results[c] EXCEPT ![step[c]] = v] \in [Steps -> 0 .. NbSteps]
      OBVIOUS
    <3> QED
      BY <3>1, <3>2
  <2>9. published' \in [Docs -> [Steps -> 0 .. NbSteps]]
    BY <1>20 DEF MeasureColor
  <2> QED
    BY <2>1, <2>2, <2>3, <2>4, <2>5, <2>6, <2>7, <2>8, <2>9
<1>21. ASSUME NEW c \in Docs, SetDone(c) PROVE TypeOK'
  BY <1>21 DEF SetDone, UiPCs, ThreadPCs, EventStates
<1>22. ASSUME NEW c \in Docs, Leave(c) PROVE TypeOK'
  BY <1>22 DEF Leave, UiPCs, ThreadPCs, EventStates
<1>23. CASE UNCHANGED vars
  BY <1>23 DEF vars
<1>24. ASSUME NEW c \in Docs, Throws(c) PROVE TypeOK'
  BY <1>24 DEF Throws, UiPCs, ThreadPCs, EventStates
<1> QED
  BY <1>1, <1>2, <1>3, <1>4, <1>5, <1>6, <1>7, <1>8, <1>9, <1>10, <1>11, <1>12, <1>13,
     <1>14, <1>15, <1>16, <1>17, <1>18, <1>19, <1>20, <1>21, <1>22, <1>23, <1>24
  DEF Next, Ui, BkGndMeasure

\* Each step keeps each thread where the user interface expects it.
LEMMA HandOverStep ==
  ASSUME TypeOK, HandOver, [Next]_vars
  PROVE  HandOver'
<1> USE SizesAssumption DEF TypeOK, HandOver, HandledAt, Closed, Quiet, Asked, Stopping, Past, BetweenPCs, ClosingPCs, Docs, At, Thread, Fails, locals, device, shared
<1>1. CASE Perform
  BY <1>1 DEF Perform
<1>2. CASE InitBackgroundMeasures
  <2> SUFFICES ASSUME NEW d \in Docs PROVE HandledAt(d)'
    BY DEF HandOver
  <2>0. HandledAt(d) /\ HandledAt(j)
    BY DEF HandOver
  <2>1. CASE d = j /\ NextInit
    BY <1>2, <2>0, <2>1 DEF InitBackgroundMeasures, BackgroundReset, NextInit, UndoInit
  <2>2. CASE d # j /\ NextInit
    BY <1>2, <2>0, <2>2 DEF InitBackgroundMeasures, BackgroundReset, NextInit, UndoInit
  <2>3. CASE d = j /\ UndoInit
    BY <1>2, <2>0, <2>3 DEF InitBackgroundMeasures, BackgroundReset, NextInit, UndoInit
  <2>4. CASE d # j /\ UndoInit
    BY <1>2, <2>0, <2>4 DEF InitBackgroundMeasures, BackgroundReset, NextInit, UndoInit
  <2> QED
    BY <1>2, <2>1, <2>2, <2>3, <2>4 DEF InitBackgroundMeasures, BackgroundReset, NextInit, UndoInit
<1>3. CASE InitGenerator
  BY <1>3 DEF InitGenerator
<1>4. CASE Display
  BY <1>4 DEF Display
<1>5. CASE LoopEnds
  BY <1>5 DEF LoopEnds
<1>6. CASE WaitForDynamicIris
  BY <1>6 DEF WaitForDynamicIris
<1>7. CASE BackgroundMeasureColor
  <2> SUFFICES ASSUME NEW d \in Docs PROVE HandledAt(d)'
    BY DEF HandOver
  <2>0. HandledAt(d) /\ HandledAt(j)
    BY DEF HandOver
  <2>1. CASE thread[j] = "none"
    BY <1>7, <2>0, <2>1 DEF BackgroundMeasureColor, NextRequest
  <2>2. CASE thread[j] # "none" /\ d = j
    BY <1>7, <2>0, <2>2 DEF BackgroundMeasureColor, NextRequest
  <2>3. CASE thread[j] # "none" /\ d # j
    BY <1>7, <2>0, <2>3 DEF BackgroundMeasureColor, NextRequest
  <2> QED
    BY <1>7, <2>1, <2>2, <2>3 DEF BackgroundMeasureColor, NextRequest
<1>8. CASE SignalRun
  BY <1>8 DEF SignalRun, NextRequest
<1>9. CASE WaitForAll
  BY <1>9 DEF WaitForAll
<1>10. CASE Check
  BY <1>10 DEF Check
<1>11. CASE ReleaseGenerator
  BY <1>11 DEF ReleaseGenerator
<1>12. CASE Decide
  BY <1>12 DEF Decide
<1>13. CASE Validate
  BY <1>13 DEF Validate
<1>14. CASE CancelBackgroundMeasures
  BY <1>14 DEF CancelBackgroundMeasures, NextClosed
<1>15. CASE SignalStop
  BY <1>15 DEF SignalStop
<1>16. CASE Join
  BY <1>16 DEF Join, NextClosed
<1>17. ASSUME NEW c \in Docs, Wake(c) PROVE HandOver'
  BY <1>17 DEF Wake
<1>18. ASSUME NEW c \in Docs, ResetRun(c) PROVE HandOver'
  BY <1>18 DEF ResetRun
<1>19. ASSUME NEW c \in Docs, TestTerminate(c) PROVE HandOver'
  BY <1>19 DEF TestTerminate
<1>20. ASSUME NEW c \in Docs, MeasureColor(c) PROVE HandOver'
  BY <1>20 DEF MeasureColor
<1>21. ASSUME NEW c \in Docs, SetDone(c) PROVE HandOver'
  BY <1>21 DEF SetDone
<1>22. ASSUME NEW c \in Docs, Leave(c) PROVE HandOver'
  BY <1>22 DEF Leave
<1>23. CASE UNCHANGED vars
  BY <1>23 DEF vars
<1>24. ASSUME NEW c \in Docs, Throws(c) PROVE HandOver'
  BY <1>24 DEF Throws
<1> QED
  BY <1>1, <1>2, <1>3, <1>4, <1>5, <1>6, <1>7, <1>8, <1>9, <1>10, <1>11, <1>12, <1>13,
     <1>14, <1>15, <1>16, <1>17, <1>18, <1>19, <1>20, <1>21, <1>22, <1>23, <1>24
  DEF Next, Ui, BkGndMeasure

\* Each step keeps the step and the screen together.
LEMMA LoopStep ==
  ASSUME TypeOK, LoopInv, [Next]_vars
  PROVE  LoopInv'
<1> USE SizesAssumption DEF TypeOK, LoopInv, ClosingPCs, Steps, At, Thread, Fails, locals, device, shared
<1>1. CASE Perform
  BY <1>1 DEF Perform
<1>2. CASE InitBackgroundMeasures
  BY <1>2 DEF InitBackgroundMeasures, BackgroundReset, NextInit, UndoInit
<1>3. CASE InitGenerator
  BY <1>3 DEF InitGenerator
<1>4. CASE Display
  <2>1. CASE screen' = i /\ At("display", "iris") /\ UNCHANGED bOk
    BY <1>4, <2>1 DEF Display
  <2>2. CASE At("display", "blank") /\ bOk' = FALSE
    BY <1>4, <2>2 DEF Display
  <2> QED
    BY <1>4, <2>1, <2>2 DEF Display
<1>5. CASE LoopEnds
  BY <1>5 DEF LoopEnds
<1>6. CASE WaitForDynamicIris
  BY <1>6 DEF WaitForDynamicIris
<1>7. CASE BackgroundMeasureColor
  BY <1>7 DEF BackgroundMeasureColor, NextRequest
<1>8. CASE SignalRun
  BY <1>8 DEF SignalRun, NextRequest
<1>9. CASE WaitForAll
  BY <1>9 DEF WaitForAll
<1>10. CASE Check
  BY <1>10 DEF Check
<1>11. CASE ReleaseGenerator
  BY <1>11 DEF ReleaseGenerator
<1>12. CASE Decide
  BY <1>12 DEF Decide
<1>13. CASE Validate
  BY <1>13 DEF Validate
<1>14. CASE CancelBackgroundMeasures
  BY <1>14 DEF CancelBackgroundMeasures, NextClosed
<1>15. CASE SignalStop
  BY <1>15 DEF SignalStop
<1>16. CASE Join
  BY <1>16 DEF Join, NextClosed
<1>17. ASSUME NEW c \in Docs, Wake(c) PROVE LoopInv'
  BY <1>17 DEF Wake
<1>18. ASSUME NEW c \in Docs, ResetRun(c) PROVE LoopInv'
  BY <1>18 DEF ResetRun
<1>19. ASSUME NEW c \in Docs, TestTerminate(c) PROVE LoopInv'
  BY <1>19 DEF TestTerminate
<1>20. ASSUME NEW c \in Docs, MeasureColor(c) PROVE LoopInv'
  BY <1>20 DEF MeasureColor
<1>21. ASSUME NEW c \in Docs, SetDone(c) PROVE LoopInv'
  BY <1>21 DEF SetDone
<1>22. ASSUME NEW c \in Docs, Leave(c) PROVE LoopInv'
  BY <1>22 DEF Leave
<1>23. CASE UNCHANGED vars
  BY <1>23 DEF vars
<1>24. ASSUME NEW c \in Docs, Throws(c) PROVE LoopInv'
  BY <1>24 DEF Throws
<1> QED
  BY <1>1, <1>2, <1>3, <1>4, <1>5, <1>6, <1>7, <1>8, <1>9, <1>10, <1>11, <1>12, <1>13,
     <1>14, <1>15, <1>16, <1>17, <1>18, <1>19, <1>20, <1>21, <1>22, <1>23, <1>24
  DEF Next, Ui, BkGndMeasure

\* A document keeps its readings as long as none is missing that was answered.
LEMMA ReadKept ==
  ASSUME TypeOK, TypeOK', NEW d \in Docs, ReadAt(d), bOk' => bOk,
         results'[d] = results[d], error'[d] = error[d], thread'[d] = "none" <=> thread[d] = "none",
         bOk' => Answered(d)' <= Answered(d)
  PROVE  ReadAt(d)'
<1>1. Answered(d) \in Int /\ Answered(d)' \in Int
  BY DEF Answered, TypeOK
<1> QED
  BY <1>1 DEF ReadAt, Closed, Steps

\* Each step keeps the readings complete.
LEMMA ResultStep ==
  ASSUME TypeOK, TypeOK', HandOver, LoopInv, ResultInv, [Next]_vars
  PROVE  ResultInv'
<1> USE DEF TypeOK, Docs, At, Thread, Fails, locals, device, shared
<1>1. CASE Perform
  <2>1. \A d \in Docs : Closed(d)'
    BY <1>1 DEF Perform, HandOver, HandledAt, Closed
  <2> QED
    BY <2>1 DEF ResultInv, ReadAt
<1>2. CASE InitBackgroundMeasures
  <2> SUFFICES ASSUME NEW d \in Docs PROVE ReadAt(d)'
    BY DEF ResultInv
  <2>0. ReadAt(d) /\ HandledAt(d) /\ HandledAt(j)
    BY DEF ResultInv, HandOver, TypeOK
  <2>1. i = 1 /\ i' = 1 /\ pc' \notin {"check", "wait", "request", "signal"}
    BY <1>2 DEF InitBackgroundMeasures, BackgroundReset, NextInit, UndoInit, LoopInv
  <2>2. Answered(d)' = 0
    BY <2>1 DEF Answered
  <2> QED
    BY <2>2 DEF ReadAt, Steps
<1>3. CASE InitGenerator
  <2> SUFFICES ASSUME NEW d \in Docs PROVE ReadAt(d)'
    BY DEF ResultInv
  <2>0. ReadAt(d) /\ HandledAt(d) /\ HandledAt(j)
    BY DEF ResultInv, HandOver, TypeOK
  <2>1. bOk' => Answered(d)' <= Answered(d)
    BY <1>3, <2>0, Bounds DEF InitGenerator, Answered
  <2>2. results'[d] = results[d] /\ error'[d] = error[d] /\ (bOk' => bOk) /\ thread' = thread
    BY <1>3 DEF InitGenerator
  <2> QED
    BY <2>0, <2>1, <2>2, ReadKept
<1>4. CASE Display
  <2> SUFFICES ASSUME NEW d \in Docs PROVE ReadAt(d)'
    BY DEF ResultInv
  <2>0. ReadAt(d) /\ HandledAt(d) /\ HandledAt(j)
    BY DEF ResultInv, HandOver, TypeOK
  <2>1. bOk' => Answered(d)' <= Answered(d)
    BY <1>4, <2>0, Bounds DEF Display, Answered
  <2>2. results'[d] = results[d] /\ error'[d] = error[d] /\ (bOk' => bOk) /\ thread' = thread
    BY <1>4 DEF Display
  <2> QED
    BY <2>0, <2>1, <2>2, ReadKept
<1>5. CASE LoopEnds
  <2> SUFFICES ASSUME NEW d \in Docs PROVE ReadAt(d)'
    BY DEF ResultInv
  <2>0. ReadAt(d) /\ HandledAt(d) /\ HandledAt(j)
    BY DEF ResultInv, HandOver, TypeOK
  <2>1. bOk' => Answered(d)' <= Answered(d)
    BY <1>5, <2>0, Bounds DEF LoopEnds, Answered
  <2>2. results'[d] = results[d] /\ error'[d] = error[d] /\ (bOk' => bOk) /\ thread' = thread
    BY <1>5 DEF LoopEnds
  <2> QED
    BY <2>0, <2>1, <2>2, ReadKept
<1>6. CASE WaitForDynamicIris
  <2> SUFFICES ASSUME NEW d \in Docs PROVE ReadAt(d)'
    BY DEF ResultInv
  <2>0. ReadAt(d) /\ HandledAt(d) /\ HandledAt(j)
    BY DEF ResultInv, HandOver, TypeOK
  <2>1. bOk' => Answered(d)' <= Answered(d)
    BY <1>6, <2>0, Bounds DEF WaitForDynamicIris, Answered, HandledAt, Quiet, BetweenPCs
  <2>2. results'[d] = results[d] /\ error'[d] = error[d] /\ (bOk' => bOk) /\ thread' = thread
    BY <1>6 DEF WaitForDynamicIris
  <2> QED
    BY <2>0, <2>1, <2>2, ReadKept
<1>7. CASE BackgroundMeasureColor
  <2> SUFFICES ASSUME NEW d \in Docs PROVE ReadAt(d)'
    BY DEF ResultInv
  <2>0. ReadAt(d) /\ HandledAt(d) /\ HandledAt(j)
    BY DEF ResultInv, HandOver, TypeOK
  <2>1. bOk' => Answered(d)' <= Answered(d)
    BY <1>7, <2>0, Bounds DEF BackgroundMeasureColor, NextRequest, Answered, HandledAt, Quiet
  <2>2. results'[d] = results[d] /\ error'[d] = error[d] /\ (bOk' => bOk) /\ thread' = thread
    BY <1>7 DEF BackgroundMeasureColor, NextRequest
  <2> QED
    BY <2>0, <2>1, <2>2, ReadKept
<1>8. CASE SignalRun
  <2> SUFFICES ASSUME NEW d \in Docs PROVE ReadAt(d)'
    BY DEF ResultInv
  <2>0. ReadAt(d) /\ HandledAt(d) /\ HandledAt(j)
    BY DEF ResultInv, HandOver, TypeOK
  <2>1. Answered(d)' <= Answered(d)
    <3>1. CASE d = j
      <4>1. thread[d] = "wait" /\ pc = "signal"
        BY <1>8, <2>0, <3>1 DEF SignalRun, NextRequest, HandledAt, Quiet, Closed
      <4>2. run'[d] = "on" /\ thread' = thread /\ pc' # "check" /\ i' = i
        BY <1>8, <3>1 DEF SignalRun, NextRequest
      <4> QED
        BY <3>1, <4>1, <4>2 DEF Answered
    <3>2. CASE d # j
      <4>1. pc = "signal" /\ (pc' = "wait" => j = NbDocs) /\ (pc' = "request" => j' = j + 1)
            /\ pc' \in {"wait", "request"}
        BY <1>8, Bounds DEF SignalRun, NextRequest
      <4>2. (d < j' /\ pc' = "request") \/ pc' = "wait" => d < j
        BY <3>2, <4>1, Bounds
      <4>3. run'[d] = run[d] /\ thread' = thread /\ done' = done /\ i' = i
        BY <1>8, <3>2 DEF SignalRun, NextRequest
      <4> QED
        BY <3>2, <4>1, <4>2, <4>3 DEF Answered
    <3> QED
      BY <3>1, <3>2
  <2>2. results' = results /\ error' = error /\ bOk' = bOk /\ thread' = thread
    BY <1>8 DEF SignalRun, NextRequest
  <2> QED
    BY <2>0, <2>1, <2>2, ReadKept
<1>9. CASE WaitForAll
  <2> SUFFICES ASSUME NEW d \in Docs PROVE ReadAt(d)'
    BY DEF ResultInv
  <2>0. ReadAt(d) /\ HandledAt(d) /\ HandledAt(j)
    BY DEF ResultInv, HandOver, TypeOK
  <2>1. CASE Closed(d)
    BY <1>9, <2>1 DEF WaitForAll, ReadAt, Closed
  <2>2. CASE ~Closed(d)
    <3>1. Answered(d)' <= Answered(d)
      BY <1>9, <2>0, <2>2 DEF WaitForAll, Answered, HandledAt, Asked
    <3>2. results' = results /\ error' = error /\ bOk' = bOk /\ thread' = thread
      BY <1>9 DEF WaitForAll
    <3> QED
      BY <2>0, <3>1, <3>2, ReadKept
  <2> QED
    BY <2>1, <2>2
<1>10. CASE Check
  <2> SUFFICES ASSUME NEW d \in Docs PROVE ReadAt(d)'
    BY DEF ResultInv
  <2>0. ReadAt(d) /\ HandledAt(d) /\ HandledAt(j)
    BY DEF ResultInv, HandOver, TypeOK
  <2>1. bOk' => Answered(d)' <= Answered(d)
    BY <1>10, <2>0, Bounds DEF Check, Answered
  <2>2. results'[d] = results[d] /\ error'[d] = error[d] /\ (bOk' => bOk) /\ thread' = thread
    BY <1>10 DEF Check
  <2> QED
    BY <2>0, <2>1, <2>2, ReadKept
<1>11. CASE ReleaseGenerator
  <2> SUFFICES ASSUME NEW d \in Docs PROVE ReadAt(d)'
    BY DEF ResultInv
  <2>0. ReadAt(d) /\ HandledAt(d) /\ HandledAt(j)
    BY DEF ResultInv, HandOver, TypeOK
  <2>1. bOk' => Answered(d)' <= Answered(d)
    BY <1>11, <2>0, Bounds DEF ReleaseGenerator, Answered
  <2>2. results'[d] = results[d] /\ error'[d] = error[d] /\ (bOk' => bOk) /\ thread' = thread
    BY <1>11 DEF ReleaseGenerator
  <2> QED
    BY <2>0, <2>1, <2>2, ReadKept
<1>12. CASE Decide
  <2> SUFFICES ASSUME NEW d \in Docs PROVE ReadAt(d)'
    BY DEF ResultInv
  <2>0. ReadAt(d) /\ HandledAt(d) /\ HandledAt(j)
    BY DEF ResultInv, HandOver, TypeOK
  <2>1. bOk' => Answered(d)' <= Answered(d)
    BY <1>12, <2>0, Bounds DEF Decide, Answered
  <2>2. results'[d] = results[d] /\ error'[d] = error[d] /\ (bOk' => bOk) /\ thread' = thread
    BY <1>12 DEF Decide
  <2> QED
    BY <2>0, <2>1, <2>2, ReadKept
<1>13. CASE Validate
  <2> SUFFICES ASSUME NEW d \in Docs PROVE ReadAt(d)'
    BY DEF ResultInv
  <2>0. ReadAt(d) /\ HandledAt(d) /\ HandledAt(j)
    BY DEF ResultInv, HandOver, TypeOK
  <2>1. bOk' => Answered(d)' <= Answered(d)
    BY <1>13, <2>0, Bounds DEF Validate, Answered
  <2>2. results'[d] = results[d] /\ error'[d] = error[d] /\ (bOk' => bOk) /\ thread' = thread
    BY <1>13 DEF Validate
  <2> QED
    BY <2>0, <2>1, <2>2, ReadKept
<1>14. CASE CancelBackgroundMeasures
  <2> SUFFICES ASSUME NEW d \in Docs PROVE ReadAt(d)'
    BY DEF ResultInv
  <2>0. ReadAt(d) /\ HandledAt(d) /\ HandledAt(j)
    BY DEF ResultInv, HandOver, TypeOK
  <2>1. bOk' => Answered(d)' <= Answered(d)
    BY <1>14, <2>0, Bounds DEF CancelBackgroundMeasures, NextClosed, Answered
  <2>2. results'[d] = results[d] /\ error'[d] = error[d] /\ (bOk' => bOk) /\ thread' = thread
    BY <1>14 DEF CancelBackgroundMeasures, NextClosed
  <2> QED
    BY <2>0, <2>1, <2>2, ReadKept
<1>15. CASE SignalStop
  <2> SUFFICES ASSUME NEW d \in Docs PROVE ReadAt(d)'
    BY DEF ResultInv
  <2>0. ReadAt(d) /\ HandledAt(d) /\ HandledAt(j)
    BY DEF ResultInv, HandOver, TypeOK
  <2>1. bOk' => Answered(d)' <= Answered(d)
    BY <1>15, <2>0, Bounds DEF SignalStop, Answered
  <2>2. results'[d] = results[d] /\ error'[d] = error[d] /\ (bOk' => bOk) /\ thread' = thread
    BY <1>15 DEF SignalStop
  <2> QED
    BY <2>0, <2>1, <2>2, ReadKept
<1>16. CASE Join
  <2> SUFFICES ASSUME NEW d \in Docs PROVE ReadAt(d)'
    BY DEF ResultInv
  <2>0. ReadAt(d) /\ HandledAt(d) /\ HandledAt(j)
    BY DEF ResultInv, HandOver, TypeOK
  <2>1. CASE d = j
    <3>1. Closed(d)'
      BY <1>16, <2>1 DEF Join, NextClosed, Closed
    <3> QED
      BY <3>1 DEF ReadAt
  <2>2. CASE d # j
    <3>1. Answered(d)' <= Answered(d)
      BY <1>16, <2>2, Bounds DEF Join, NextClosed, Answered
    <3>2. results'[d] = results[d] /\ error' = error /\ bOk' = bOk /\ thread'[d] = thread[d]
      BY <1>16, <2>2 DEF Join, NextClosed
    <3> QED
      BY <2>0, <3>1, <3>2, ReadKept
  <2> QED
    BY <2>1, <2>2
<1>17. ASSUME NEW c \in Docs, Wake(c) PROVE ResultInv'
  <2> SUFFICES ASSUME NEW d \in Docs PROVE ReadAt(d)'
    BY DEF ResultInv
  <2>0. ReadAt(d) /\ HandledAt(d) /\ HandledAt(j)
    BY DEF ResultInv, HandOver, TypeOK
  <2>1. Answered(d)' <= Answered(d)
    BY <1>17, <2>0, Bounds DEF Wake, Answered, HandledAt, Asked, Quiet, BetweenPCs
  <2>2. results' = results /\ error' = error /\ bOk' = bOk /\ (thread'[d] = "none" <=> thread[d] = "none")
    BY <1>17 DEF Wake
  <2> QED
    BY <2>0, <2>1, <2>2, ReadKept
<1>18. ASSUME NEW c \in Docs, ResetRun(c) PROVE ResultInv'
  <2> SUFFICES ASSUME NEW d \in Docs PROVE ReadAt(d)'
    BY DEF ResultInv
  <2>0. ReadAt(d) /\ HandledAt(d) /\ HandledAt(j)
    BY DEF ResultInv, HandOver, TypeOK
  <2>1. Answered(d)' <= Answered(d)
    BY <1>18, <2>0, Bounds DEF ResetRun, Answered
  <2>2. results' = results /\ error' = error /\ bOk' = bOk /\ (thread'[d] = "none" <=> thread[d] = "none")
    BY <1>18 DEF ResetRun
  <2> QED
    BY <2>0, <2>1, <2>2, ReadKept
<1>19. ASSUME NEW c \in Docs, TestTerminate(c) PROVE ResultInv'
  <2> SUFFICES ASSUME NEW d \in Docs PROVE ReadAt(d)'
    BY DEF ResultInv
  <2>0. ReadAt(d) /\ HandledAt(d) /\ HandledAt(j)
    BY DEF ResultInv, HandOver, TypeOK
  <2>1. Answered(d)' <= Answered(d)
    BY <1>19, <2>0, Bounds DEF TestTerminate, Answered
  <2>2. results' = results /\ error' = error /\ bOk' = bOk /\ (thread'[d] = "none" <=> thread[d] = "none")
    BY <1>19 DEF TestTerminate
  <2> QED
    BY <2>0, <2>1, <2>2, ReadKept
<1>20. ASSUME NEW c \in Docs, MeasureColor(c) PROVE ResultInv'
  <2> SUFFICES ASSUME NEW d \in Docs PROVE ReadAt(d)'
    BY DEF ResultInv
  <2>0. ReadAt(d) /\ HandledAt(d) /\ HandledAt(j)
    BY DEF ResultInv, HandOver, TypeOK
  <2>1. CASE d # c
    <3>1. Answered(d)' <= Answered(d)
      BY <1>20, <2>1 DEF MeasureColor, Answered
    <3>2. results'[d] = results[d] /\ error'[d] = error[d] /\ bOk' = bOk /\ thread'[d] = thread[d]
      BY <1>20, <2>1 DEF MeasureColor
    <3> QED
      BY <2>0, <3>1, <3>2, ReadKept
  <2>2. CASE d = c /\ error'[d]
    BY <2>2 DEF ReadAt
  <2>3. CASE d = c /\ ~error'[d]
    <3>1. /\ (pc \in {"request", "signal"} /\ d < j) \/ pc = "wait"
          /\ step[d] = i
      BY <1>20, <2>0, <2>3 DEF MeasureColor, HandledAt, Quiet, Asked, Closed, BetweenPCs, ClosingPCs, Stopping, UiPCs, Past
    <3>2. screen = i
      BY <3>1 DEF LoopInv
    <3>3. ~error[d] /\ results' = [results EXCEPT ![d][step[d]] = screen] /\ UNCHANGED <<pc, i, j, bOk>>
      BY <1>20, <2>3 DEF MeasureColor
    <3>4. Answered(d) = i - 1 /\ Answered(d)' \in {i - 1, i}
      BY <1>20, <2>3, <3>1, <3>3 DEF MeasureColor, Answered
    <3>5. \A k \in Steps : k <= Answered(d)' => results'[d][k] = IF k = i THEN i ELSE results[d][k]
      BY <3>1, <3>2, <3>3
    <3>7. ~Closed(d)
      BY <1>20, <2>3 DEF MeasureColor, Closed
    <3>8. \A k \in Steps : k <= Answered(d)' => k <= i
      <4>1. i \in Int /\ \A k \in Steps : k \in Int
        BY Bounds
      <4> QED
        BY <3>4, <4>1
    <3>6. \A k \in Steps : k <= i /\ k # i => k <= i - 1
      BY DEF Steps
    <3> QED
      BY <2>0, <3>3, <3>4, <3>5, <3>6, <3>7, <3>8 DEF ReadAt
  <2> QED
    BY <2>1, <2>2, <2>3
<1>21. ASSUME NEW c \in Docs, SetDone(c) PROVE ResultInv'
  <2> SUFFICES ASSUME NEW d \in Docs PROVE ReadAt(d)'
    BY DEF ResultInv
  <2>0. ReadAt(d) /\ HandledAt(d) /\ HandledAt(j)
    BY DEF ResultInv, HandOver, TypeOK
  <2>1. Answered(d)' <= Answered(d)
    BY <1>21, <2>0, Bounds DEF SetDone, Answered
  <2>2. results' = results /\ error' = error /\ bOk' = bOk /\ (thread'[d] = "none" <=> thread[d] = "none")
    BY <1>21 DEF SetDone
  <2> QED
    BY <2>0, <2>1, <2>2, ReadKept
<1>22. ASSUME NEW c \in Docs, Leave(c) PROVE ResultInv'
  <2> SUFFICES ASSUME NEW d \in Docs PROVE ReadAt(d)'
    BY DEF ResultInv
  <2>0. ReadAt(d) /\ HandledAt(d) /\ HandledAt(j)
    BY DEF ResultInv, HandOver, TypeOK
  <2>1. Answered(d)' <= Answered(d)
    BY <1>22, <2>0, Bounds DEF Leave, Answered
  <2>2. results' = results /\ error' = error /\ bOk' = bOk /\ (thread'[d] = "none" <=> thread[d] = "none")
    BY <1>22 DEF Leave
  <2> QED
    BY <2>0, <2>1, <2>2, ReadKept
<1>23. CASE UNCHANGED vars
  BY <1>23 DEF vars, ResultInv, ReadAt, Answered, Closed
<1>24. ASSUME NEW c \in Docs, Throws(c) PROVE ResultInv'
  <2> SUFFICES ASSUME NEW d \in Docs PROVE ReadAt(d)'
    BY DEF ResultInv
  <2>0. ReadAt(d) /\ HandledAt(d) /\ HandledAt(j)
    BY DEF ResultInv, HandOver, TypeOK
  <2>1. Answered(d)' <= Answered(d)
    BY <1>24, <2>0, Bounds DEF Throws, Answered
  <2>2. results' = results /\ error' = error /\ bOk' = bOk /\ (thread'[d] = "none" <=> thread[d] = "none")
    BY <1>24 DEF Throws
  <2> QED
    BY <2>0, <2>1, <2>2, ReadKept
<1> QED
  BY <1>1, <1>2, <1>3, <1>4, <1>5, <1>6, <1>7, <1>8, <1>9, <1>10, <1>11, <1>12, <1>13,
     <1>14, <1>15, <1>16, <1>17, <1>18, <1>19, <1>20, <1>21, <1>22, <1>23, <1>24
  DEF Next, Ui, BkGndMeasure

LEMMA InitInv == Init => TypeOK /\ HandOver /\ LoopInv /\ ResultInv
<1> SUFFICES ASSUME Init PROVE TypeOK /\ HandOver /\ LoopInv /\ ResultInv
  OBVIOUS
<1>1. TypeOK
  BY Bounds DEF Init, TypeOK, UiPCs, ThreadPCs, EventStates
<1>2. HandOver
  BY DEF Init, HandOver, HandledAt, Closed, BetweenPCs, ClosingPCs
<1>3. LoopInv
  BY DEF Init, LoopInv, ClosingPCs
<1>4. ResultInv
  BY DEF Init, ResultInv, ReadAt, Closed
<1> QED
  BY <1>1, <1>2, <1>3, <1>4

LEMMA Step ==
  TypeOK /\ HandOver /\ LoopInv /\ ResultInv /\ [Next]_vars
    => TypeOK' /\ HandOver' /\ LoopInv' /\ ResultInv'
BY TypeStep, HandOverStep, LoopStep, ResultStep

\* What PerformSimultaneousMeasures and its threads share keeps its type.
THEOREM Typing == Spec => []TypeOK
BY InitInv, Step, PTL DEF Spec

\* Thread and user interface hand over to one another: between two requests, and
\* before a document is closed, its thread waits for m_hEventRun, which is reset.
THEOREM HandsOver == Spec => []HandOver
BY InitInv, Step, PTL DEF Spec

\* The two sides hand over, the loop is where the generator shows, and a document
\* without an error has the readings of the steps it has answered.
THEOREM Safety == Spec => []SafetyInv
BY InitInv, Step, PTL DEF Spec, SafetyInv

LEMMA ShownWhileRead == TypeOK /\ HandOver /\ LoopInv => MeasuresWhatIsShown
<1> SUFFICES ASSUME TypeOK, HandOver, LoopInv, NEW d \in Reading
             PROVE  screen = i /\ step[d] = i /\ sensorReady[d]
  BY DEF MeasuresWhatIsShown
<1>1. d \in Docs /\ thread[d] = "measure" /\ HandledAt(d)
  BY DEF Reading, HandOver
<1>2. pc \in {"request", "signal", "wait"} /\ Asked(d)
  BY <1>1 DEF HandledAt, Closed, Quiet, Stopping, Past, BetweenPCs, ClosingPCs, TypeOK, UiPCs, Docs
<1> QED
  BY <1>1, <1>2 DEF HandledAt, Asked, Closed, LoopInv

\* A thread measures while the pattern of its step is shown and its sensor is ready.
THEOREM MeasuresShown == Spec => []MeasuresWhatIsShown
BY ShownWhileRead, InitInv, Step, PTL DEF Spec

\* When the command returns nothing is left behind, whatever failed.
THEOREM LeavesNothing == Spec => []NothingLeft
<1>1. HandOver /\ LoopInv => NothingLeft
  BY DEF HandOver, HandledAt, LoopInv, NothingLeft, Closed
<1> QED
  BY <1>1, InitInv, Step, PTL DEF Spec

-----------------------------------------------------------------------------
(* The refinement of ParallelMeasure.  It needs a generator that initialises: *)
(* when Init fails, the loop is skipped and the results are validated.        *)

LEMMA ParallelInit == Init => Parallel!Init
BY DEF Init, Parallel!Init, Reading, NoData, Parallel!NoData, Steps, Parallel!Steps

\* Each step of the user interface and of the threads is one of the parallel
\* measure, or changes nothing of it.
LEMMA ParallelStep ==
  ASSUME TypeOK, HandOver, LoopInv, ResultInv, [Next]_vars, ~Fails("generator")
  PROVE  [Parallel!Next]_(Parallel!vars)
<1> USE DEF Parallel!vars
<1>1. CASE UNCHANGED <<screen, thread, results, published>>
  BY <1>1 DEF Reading
<1>2. CASE InitBackgroundMeasures
  <2>1. HandledAt(j)
    BY DEF HandOver, TypeOK
  <2>2. Closed(j)
    BY <1>2, <2>1 DEF InitBackgroundMeasures, HandledAt, Docs, TypeOK
  <2>3. Reading' = Reading
    BY <1>2, <2>2 DEF InitBackgroundMeasures, Closed, Reading, TypeOK
  <2>4. Parallel!Discard(j)
    BY <1>2, <2>2, <2>3 DEF InitBackgroundMeasures, BackgroundReset, Parallel!Discard, Closed, Reading,
       NoData, Parallel!NoData, Steps, Parallel!Steps, device
  <2> QED
    BY <2>4 DEF Parallel!Next, TypeOK
<1>3. CASE Display
  <2>1. Reading = {} /\ UNCHANGED <<Reading, results, published>>
    BY <1>3 DEF Display, At, HandOver, HandledAt, Quiet, Closed, BetweenPCs, Reading, shared
  <2>2. screen' = screen \/ (screen + 1 \in Steps /\ screen' = screen + 1)
    <3>1. screen' = screen \/ (screen' = i /\ i <= NbSteps /\ pc = "display" /\ bOk)
      BY <1>3 DEF Display, At
    <3>2. pc = "display" /\ bOk => screen + 1 = i
      BY Bounds DEF LoopInv, TypeOK
    <3>3. i <= NbSteps => i \in Steps
      BY Bounds DEF Steps, TypeOK
    <3> QED
      BY <3>1, <3>2, <3>3
  <2> QED
    BY <2>1, <2>2 DEF Parallel!Next, Parallel!Show, Steps, Parallel!Steps
<1>4. CASE ReleaseGenerator
  <2>1. Reading = {} /\ UNCHANGED <<Reading, results, published>> /\ screen' = 0
    BY <1>4 DEF ReleaseGenerator, At, HandOver, HandledAt, Quiet, Closed, BetweenPCs, Reading, shared
  <2> QED
    BY <2>1 DEF Parallel!Next, Parallel!Blank
<1>5. CASE Validate
  <2>1. UNCHANGED <<screen, Reading, results>>
    BY <1>5 DEF Validate, device, shared, Reading
  <2>2. CASE published' # published
    <3>1. ~error[j] /\ ~Closed(j) /\ published' = [published EXCEPT ![j] = results[j]] /\ pc = "validate"
      BY <1>5, <2>2 DEF Validate, At, Closed
    <3>2. bOk /\ i = NbSteps + 1
      BY <3>1 DEF LoopInv, ClosingPCs
    <3>3. Answered(j) = NbSteps
      BY <3>1, <3>2, Bounds DEF Answered
    <3>4. \A k \in Steps : results[j][k] = k
      BY <3>1, <3>2, <3>3 DEF ResultInv, ReadAt, TypeOK, Steps
    <3>5. results[j] = [k \in Steps |-> k]
      BY <3>4 DEF TypeOK
    <3>6. Parallel!Publish(j)
      BY <2>1, <3>1, <3>5 DEF Parallel!Publish, Parallel!Complete, Steps, Parallel!Steps
    <3> QED
      BY <3>6 DEF Parallel!Next, TypeOK
  <2> QED
    BY <2>1, <2>2
<1>6. CASE Join
  <2>1. Reading' = Reading /\ j \notin Reading
    BY <1>6 DEF Join, Reading, TypeOK
  <2>2. Parallel!Discard(j)
    BY <1>6, <2>1 DEF Join, Parallel!Discard, NoData, Parallel!NoData, Steps, Parallel!Steps, device
  <2> QED
    BY <2>2 DEF Parallel!Next, TypeOK
<1>7. ASSUME NEW d \in Docs, \/ Wake(d) \/ ResetRun(d) \/ SetDone(d) \/ Leave(d)
      PROVE  [Parallel!Next]_(Parallel!vars)
  <2>1. UNCHANGED <<screen, results, published>>
    BY <1>7 DEF Wake, ResetRun, SetDone, Leave, device, shared
  <2>2. Reading' = Reading
    BY <1>7 DEF Wake, ResetRun, SetDone, Leave, Thread, Reading, TypeOK
  <2> QED
    BY <2>1, <2>2
<1>8. ASSUME NEW d \in Docs, TestTerminate(d)
      PROVE  [Parallel!Next]_(Parallel!vars)
  <2>1. UNCHANGED <<screen, results, published>>
    BY <1>8 DEF TestTerminate, device, shared
  <2>2. CASE terminate[d]
    <3>1. Reading' = Reading
      BY <1>8, <2>2 DEF TestTerminate, Thread, Reading, TypeOK
    <3> QED
      BY <2>1, <3>1
  <2>3. CASE ~terminate[d]
    <3>1. Reading' = Reading \cup {d} /\ d \notin Reading
      BY <1>8, <2>3 DEF TestTerminate, Thread, Reading, TypeOK
    <3>2. HandledAt(d) /\ thread[d] = "test" /\ pc # "crashed"
      BY <1>8 DEF HandOver, TestTerminate, Thread
    <3>3. pc \in {"request", "signal", "wait"}
      BY <2>3, <3>2 DEF HandledAt, Closed, Quiet, Stopping, Past, BetweenPCs, ClosingPCs, TypeOK, UiPCs, Docs
    <3>4. screen # 0
      BY <3>3, Bounds DEF LoopInv, Steps
    <3> QED
      BY <2>1, <3>1, <3>4 DEF Parallel!Next, Parallel!Begin
  <2> QED
    BY <2>2, <2>3
<1>9. ASSUME NEW d \in Docs, MeasureColor(d)
      PROVE  [Parallel!Next]_(Parallel!vars)
  <2>1. Reading' = Reading \ {d} /\ d \in Reading
    BY <1>9 DEF MeasureColor, Thread, Reading, TypeOK
  <2>2. step[d] = screen
    BY <2>1, ShownWhileRead DEF MeasuresWhatIsShown
  <2>3. \E v \in {screen, 0} : results' = [results EXCEPT ![d][screen] = v]
    BY <1>9, <2>2 DEF MeasureColor
  <2>4. UNCHANGED <<screen, published>>
    BY <1>9 DEF MeasureColor, device
  <2> QED
    BY <2>1, <2>3, <2>4 DEF Parallel!Next, Parallel!End
<1>11. ASSUME NEW d \in Docs, Throws(d)
      PROVE  [Parallel!Next]_(Parallel!vars)
  <2>1. Reading' = Reading \ {d} /\ d \in Reading
    BY <1>11 DEF Throws, Thread, Reading, TypeOK
  <2>2. UNCHANGED <<screen, results, published>>
    BY <1>11 DEF Throws, device, shared
  <2> QED
    BY <2>1, <2>2 DEF Parallel!Next, Parallel!Abandon
<1>10. CASE Perform \/ InitGenerator \/ LoopEnds \/ WaitForDynamicIris \/ BackgroundMeasureColor
         \/ SignalRun \/ WaitForAll \/ Check \/ Decide \/ CancelBackgroundMeasures \/ SignalStop
  BY <1>1, <1>10 DEF Perform, InitGenerator, LoopEnds, WaitForDynamicIris, BackgroundMeasureColor,
     SignalRun, WaitForAll, Check, Decide, CancelBackgroundMeasures, SignalStop, device, shared
<1> QED
  BY <1>1, <1>2, <1>3, <1>4, <1>5, <1>6, <1>7, <1>8, <1>9, <1>10, <1>11 DEF Next, Ui, BkGndMeasure, vars, device, shared

\* A simultaneous measure whose generator initialises is a parallel one: a pattern
\* stays on while a sensor reads it, and only complete valid readings reach a document.
THEOREM Implementation == ~Fails("generator") => (Spec => Implements)
<1> SUFFICES ASSUME ~Fails("generator") PROVE Spec => Implements
  OBVIOUS
<1>1. Init => Parallel!Init
  BY ParallelInit
<1>2. TypeOK /\ HandOver /\ LoopInv /\ ResultInv /\ [Next]_vars => [Parallel!Next]_(Parallel!vars)
  BY ParallelStep
<1> QED
  BY <1>1, <1>2, InitInv, Step, PTL DEF Spec, Implements, Parallel!Spec

-----------------------------------------------------------------------------
\* Each step keeps the documents open.
LEMMA OpenedStep ==
  ASSUME TypeOK, HandOver, OpenedInv, [Next]_vars
  PROVE  OpenedInv'
<1> SUFFICES ASSUME ~Fails("run") PROVE OpenedInv'
  BY DEF OpenedInv, Fails
<1> USE SizesAssumption DEF TypeOK, OpenedInv, Closed, BetweenPCs, Docs, At, Thread, Fails, locals, device, shared
<1>1. CASE Perform
  BY <1>1 DEF Perform
<1>2. CASE InitBackgroundMeasures
  <2>1. CASE UndoInit
    BY <1>2, <2>1 DEF UndoInit, InitBackgroundMeasures
  <2>2. CASE NextInit
    <3>1. \A d \in Docs : thread'[d] = IF d = j THEN "wait" ELSE thread[d]
      BY <1>2, <2>2 DEF InitBackgroundMeasures, NextInit, UndoInit
    <3>2. \A d \in Docs : d < j => ~Closed(d)
      BY <1>2 DEF InitBackgroundMeasures
    <3>3. ASSUME NEW d \in Docs, d <= j PROVE ~Closed(d)'
      <4>1. d = j \/ d < j
        BY <3>3
      <4> QED
        BY <3>1, <3>2, <4>1
    <3>4. CASE j < NbDocs /\ j' = j + 1 /\ pc' = "init"
      BY <3>3, <3>4
    <3>5. CASE j = NbDocs /\ pc' = "generator"
      BY <3>3, <3>5
    <3> QED
      BY <1>2, <2>2, <3>4, <3>5 DEF NextInit, InitBackgroundMeasures
  <2> QED
    BY <1>2, <2>1, <2>2 DEF InitBackgroundMeasures
<1>3. CASE InitGenerator \/ Display \/ LoopEnds \/ WaitForDynamicIris \/ WaitForAll \/ Check
           \/ ReleaseGenerator \/ Decide
  BY <1>3 DEF InitGenerator, Display, LoopEnds, WaitForDynamicIris, WaitForAll, Check,
              ReleaseGenerator, Decide
<1>4. CASE BackgroundMeasureColor \/ SignalRun
  BY <1>4 DEF BackgroundMeasureColor, SignalRun, NextRequest
<1>5. CASE Validate \/ CancelBackgroundMeasures \/ SignalStop \/ Join
  BY <1>5 DEF Validate, CancelBackgroundMeasures, SignalStop, Join, NextClosed
<1>6. ASSUME NEW d \in Docs, BkGndMeasure(d) PROVE OpenedInv'
  BY <1>6 DEF BkGndMeasure, Wake, ResetRun, TestTerminate, MeasureColor, Throws, SetDone, Leave
<1>7. CASE UNCHANGED vars
  BY <1>7 DEF vars
<1> QED
  BY <1>1, <1>2, <1>3, <1>4, <1>5, <1>6, <1>7 DEF Next, Ui

\* The user interface never waits for a thread that sleeps without having answered,
\* unless it never had a thread to wait for or a measure has thrown.
THEOREM EveryWakeUpArrives == Spec => []NoLostWakeUp
<1>1. Init => OpenedInv
  BY DEF Init, OpenedInv, BetweenPCs
<1>2. ASSUME TypeOK, HandOver, OpenedInv PROVE NoLostWakeUp
  <2>1. ASSUME pc = "wait", NEW d \in Docs
        PROVE  done[d] = "on" \/ Awake(d) \/ Thrown(d) \/ (Fails("run") /\ thread[d] = "none")
    <3>1. Asked(d) /\ (Closed(d) => Fails("run"))
      BY <1>2, <2>1 DEF HandOver, HandledAt, OpenedInv
    <3> QED
      BY <3>1 DEF Asked, Closed, Awake, Thrown
  <2>2. ASSUME pc = "join" PROVE thread[j] = "over" \/ Awake(j)
    <3>1. Stopping(j)
      BY <1>2, <2>2 DEF HandOver, HandledAt, TypeOK
    <3> QED
      BY <3>1 DEF Stopping, Awake
  <2> QED
    BY <2>1, <2>2 DEF NoLostWakeUp
<1> QED
  BY <1>1, <1>2, OpenedStep, Typing, HandsOver, PTL DEF Spec

-----------------------------------------------------------------------------
\* A step of a thread.
LEMMA ThreadWorks ==
  ASSUME TypeOK, HandOver, pc # "idle", NEW d \in Docs, BkGndMeasure(d)
  PROVE  Works(d)
<1>1. /\ thread \in [Docs -> ThreadPCs] /\ run \in [Docs -> EventStates]
      /\ UNCHANGED <<pc, i, j, ending>>
      /\ \A e \in Docs \ {d} : thread'[e] = thread[e] /\ run'[e] = run[e]
  BY DEF TypeOK, BkGndMeasure, Wake, ResetRun, TestTerminate, MeasureColor, Throws, SetDone, Leave,
         Thread, locals, shared
<1>2. \A e \in Docs \ {d} : Work(e)' = Work(e)
  BY <1>1 DEF Work
<1>3. thread[d] = "report" => run[d] = "off"
  <2>1. HandledAt(d) /\ pc \in UiPCs
    BY DEF HandOver, TypeOK
  <2>2. thread[d] = "report" => Asked(d) \/ Stopping(d) \/ Quiet(d) \/ Closed(d)
    BY <2>1, Bounds DEF HandledAt, UiPCs, BetweenPCs, ClosingPCs, Past, Docs, TypeOK
  <2> QED
    BY <2>2 DEF Quiet, Asked, Stopping, Closed
<1>4. Work(d)' < Work(d)
  BY <1>1, <1>3 DEF Work, BkGndMeasure, Wake, ResetRun, TestTerminate, MeasureColor, Throws, SetDone,
         Leave, Thread, shared
<1> QED
  BY <1>1, <1>2, <1>4 DEF Works

\* A step of the user interface.
LEMMA UiWorks ==
  ASSUME TypeOK, Ui, pc # "idle", pc' # "idle"
  PROVE  UiAdvances
<1>1. i \in Nat /\ j \in 1 .. NbDocs /\ NbDocs \in Nat
  BY SizesAssumption DEF TypeOK, Docs
<1> USE <1>1 DEF UiAdvances, Place, Turn, DocsLeft, At, locals
<1>2. CASE InitBackgroundMeasures
  BY <1>2 DEF InitBackgroundMeasures, NextInit, UndoInit
<1>3. CASE InitGenerator
  BY <1>3 DEF InitGenerator
<1>4. CASE Display
  <2>1. pc = "display" /\ pc' \in {"iris", "blank"} /\ i' = i
    BY <1>4 DEF Display
  <2> QED
    BY <2>1
<1>5. CASE LoopEnds
  BY <1>5 DEF LoopEnds
<1>6. CASE WaitForDynamicIris
  BY <1>6 DEF WaitForDynamicIris
<1>7. CASE BackgroundMeasureColor
  BY <1>7 DEF BackgroundMeasureColor, NextRequest
<1>8. CASE SignalRun
  BY <1>8 DEF SignalRun, NextRequest
<1>9. CASE WaitForAll
  BY <1>9 DEF WaitForAll
<1>10. CASE Check
  BY <1>10 DEF Check
<1>11. CASE ReleaseGenerator
  BY <1>11 DEF ReleaseGenerator
<1>12. CASE Decide
  BY <1>12 DEF Decide
<1>13. CASE Validate
  BY <1>13 DEF Validate
<1>14. CASE CancelBackgroundMeasures
  BY <1>14 DEF CancelBackgroundMeasures, NextClosed
<1>15. CASE SignalStop
  BY <1>15 DEF SignalStop
<1>16. CASE Join
  <2>1. pc = "join" /\ ending' = ending /\ i' = i /\ NextClosed
    BY <1>16 DEF Join
  <2>2. CASE ending = "undo"
    BY <2>1, <2>2 DEF NextClosed
  <2>3. CASE ending # "undo"
    BY <2>1, <2>3 DEF NextClosed
  <2> QED
    BY <2>2, <2>3
<1> QED
  BY <1>2, <1>3, <1>4, <1>5, <1>6, <1>7, <1>8, <1>9, <1>10, <1>11, <1>12, <1>13, <1>14,
     <1>15, <1>16 DEF Ui

\* Each step of the command and of the threads brings the command nearer to its end,
\* whatever failed.
THEOREM CommandComesToItsEnd == Spec => CommandGoesOn
<1>1. ASSUME TypeOK, HandOver, [Next]_vars
      PROVE  [pc # "idle" /\ pc' # "idle" => UiAdvances \/ \E d \in Docs : Works(d)]_vars
  BY <1>1, UiWorks, ThreadWorks DEF Next, Perform, At
<1> QED
  BY <1>1, Typing, HandsOver, PTL DEF Spec, CommandGoesOn
==============================================================================
