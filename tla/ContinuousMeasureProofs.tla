----------------------- MODULE ContinuousMeasureProofs -----------------------
(* Theorems about ContinuousMeasure, for any documents, views and bounds.  *)
EXTENDS ContinuousMeasure, SequenceTheorems, TLAPS

\* The prefix of the list that OnBkgndMeasureReady moves is a list of measures.
LEMMA PrefixType ==
  ASSUME NEW S, NEW q \in Seq(S), NEW n \in Nat, n <= Len(q)
  PROVE  /\ SubSeq(q, 1, n) \in Seq(S)
         /\ Len(SubSeq(q, 1, n)) = n
         /\ \A i \in 1 .. n : SubSeq(q, 1, n)[i] = q[i]
<1>1. \A i \in 1 .. n : q[i] \in S
  BY ElementOfSeq, LenProperties
<1>2. QED
  BY <1>1, SubSeqProperties, IsASeq

\* A step of a thread leaves every program counter in its set.
LEMMA ThreadType ==
  ASSUME StateType, NEW s \in Sessions, NEW from, NEW to \in ThreadPCs, Thread(s, from, to)
  PROVE  tpc' \in [Sessions -> ThreadPCs]
BY DEF Thread, StateType

\* A start that dispatches messages leaves a frame in front of the others.
LEMMA Pushed ==
  ASSUME StateType, NEW at \in {"ask", "fail", "show"}, Pumps(at)
  PROVE  /\ starting' \in Seq(Frames) /\ starting' # <<>>
         /\ Head(starting') = [doc |-> mdoc, at |-> at]
         /\ Tail(starting') = starting
<1> DEFINE f == [doc |-> mdoc, at |-> at]
<1>1. f \in Frames /\ starting \in Seq(Frames)
  BY DEF StateType, Frames
<1>2. starting' = <<f>> \o starting
  BY DEF Pumps
<1>3. <<f>> \in Seq(Frames) /\ Len(<<f>>) = 1 /\ <<f>>[1] = f
  BY <1>1
<1> HIDE DEF f
<1>4. /\ starting' \in Seq(Frames) /\ Len(starting') = 1 + Len(starting)
      /\ starting'[1] = f
      /\ \A i \in 1 .. Len(starting) : starting'[i + 1] = starting[i]
  BY <1>1, <1>2, <1>3, ConcatProperties, LenProperties
<1>5. starting' # <<>> /\ Head(starting') = f
  BY <1>4, LenProperties, EmptySeq
<1>6. /\ Tail(starting') \in Seq(Frames) /\ Len(Tail(starting')) = Len(starting)
      /\ \A i \in 1 .. Len(starting) : Tail(starting')[i] = starting[i]
  BY <1>1, <1>4, <1>5, HeadTailProperties, LenProperties
<1>7. Tail(starting') = starting
  BY <1>1, <1>6, SeqEqual
<1> QED
  BY <1>4, <1>5, <1>7 DEF f

\* A start that goes on takes its frame away.
LEMMA Popped ==
  ASSUME StateType, NEW at, Resumes(at)
  PROVE  /\ starting' \in Seq(Frames)
         /\ Head(starting) \in Frames /\ Head(starting).doc \in Docs \cup {NoDoc}
<1>1. starting \in Seq(Frames) /\ starting # <<>> /\ starting' = Tail(starting)
  BY DEF StateType, Resumes
<1>2. Tail(starting) \in Seq(Frames) /\ Head(starting) \in Frames
  BY <1>1, HeadTailProperties
<1> QED
  BY <1>1, <1>2 DEF Frames

\* Every step keeps the type of the variables that are not the list, the message queue
\* or the measures of a document.
LEMMA StateTypeStep == StateType /\ [Next]_vars => StateType'
<1> SUFFICES ASSUME StateType, [Next]_vars PROVE StateType'
  OBVIOUS
<1> USE DEF StateType, UiPCs, ThreadPCs, WorkPCs, ExitPCs, FailPCs, Sessions, NoSession,
        Finish, Advance, Return, Thread, Crash, Ui, Restored, ReleaseGenerator,
        ui, globals, threads, devices, docs
<1>0. beneath \in Nat /\ Len(starting) \in Nat
  BY LenProperties
<1>1. ASSUME NEW d \in Docs, NEW to \in {"start", "stop"}, NEW then \in {"idle", "start", "series", "close"},
            Command(d, to, then) PROVE StateType'
  BY <1>1 DEF Command
<1>2. CASE StartRefused
  BY <1>2 DEF StartRefused
<1>3. CASE StartSensor
  <2>1. starting' \in Seq(Frames)
    BY <1>3, Pushed DEF StartSensor
  <2>2. sensorReady' \in [Docs -> BOOLEAN]
    BY <1>3 DEF StartSensor
  <2>3. /\ mpc' \in UiPCs /\ mthen' \in {"idle", "start", "series", "close"}
        /\ mdoc' \in Docs \cup {NoDoc} /\ mhandle' \in Sessions \cup {NoSession}
    BY <1>3 DEF StartSensor, Pumps
  <2>4. UNCHANGED <<hThread, terminate, runningDoc, genRunning, blankSaved, csLive,
                    tpc, tdoc, tcount, genOn, blanking, series, open, beneath>>
    BY <1>3 DEF StartSensor
  <2> QED
    BY <2>1, <2>2, <2>3, <2>4
<1>4. CASE StartGenerator
  <2>1. /\ mpc' \in UiPCs /\ mthen' \in {"idle", "start", "series", "close"}
        /\ mdoc' \in Docs \cup {NoDoc} /\ mhandle' \in Sessions \cup {NoSession}
    BY <1>4 DEF StartGenerator, Pumps
  <2>2. starting' \in Seq(Frames)
    BY <1>4, Pushed DEF StartGenerator
  <2>3. genOn' \in [Docs -> BOOLEAN] /\ blanking' \in [Docs -> BOOLEAN]
    BY <1>4 DEF StartGenerator
  <2>5. blankSaved' \in BOOLEAN
    <3>1. CASE mdoc \in GdiDocs
      BY <1>4, <3>1, DocsAssumption DEF StartGenerator
    <3>2. CASE mdoc \notin GdiDocs
      BY <1>4, <3>2 DEF StartGenerator
    <3> QED
      BY <3>1, <3>2
  <2>6. UNCHANGED <<hThread, terminate, runningDoc, csLive, genRunning, tpc, tdoc, tcount,
                    sensorReady, series, open, beneath>>
    BY <1>4 DEF StartGenerator
  <2> QED
    BY <2>1, <2>2, <2>3, <2>5, <2>6
<1>4a. CASE StartAsked
  <2>1. starting' \in Seq(Frames) /\ Head(starting).doc \in Docs \cup {NoDoc}
    BY <1>4a, Popped DEF StartAsked
  <2>2. sensorReady' \in [Docs -> BOOLEAN]
    BY <1>4a DEF StartAsked
  <2>3. /\ mpc' \in UiPCs /\ mthen' \in {"idle", "start", "series", "close"}
        /\ mdoc' \in Docs \cup {NoDoc} /\ mhandle' \in Sessions \cup {NoSession}
    BY <1>4a, <2>1 DEF StartAsked, GoesOn
  <2>4. UNCHANGED <<hThread, terminate, runningDoc, genRunning, blankSaved, csLive,
                    tpc, tdoc, tcount, genOn, blanking, series, open, beneath>>
    BY <1>4a DEF StartAsked
  <2> QED
    BY <2>1, <2>2, <2>3, <2>4
<1>4b. CASE StartShown
  <2>1. starting' \in Seq(Frames) /\ Head(starting).doc \in Docs \cup {NoDoc}
    BY <1>4b, Popped DEF StartShown
  <2> QED
    BY <1>4b, <2>1 DEF StartShown, GoesOn
<1>4c. CASE StartGenFails
  <2>1. starting' \in Seq(Frames) /\ Head(starting).doc \in Docs \cup {NoDoc}
    BY <1>4c, Popped DEF StartGenFails
  <2>2. sensorReady' \in [Docs -> BOOLEAN]
    BY <1>4c DEF StartGenFails
  <2>3. blanking' \in [Docs -> BOOLEAN]
    BY <1>4c DEF StartGenFails
  <2>4. blankSaved' = FALSE
    BY <1>4c DEF StartGenFails
  <2>5. UNCHANGED <<mpc, mthen, mdoc, mhandle, hThread, terminate, runningDoc, genRunning, csLive,
                    tpc, tdoc, tcount, genOn, series, open, beneath>>
    BY <1>4c DEF StartGenFails
  <2>6. blankSaved' \in BOOLEAN
    BY <2>4
  <2> HIDE DEF Return, Restored, ReleaseGenerator, Thread, Finish, Advance, Crash, Ui
  <2> QED
    BY <2>1, <2>2, <2>3, <2>5, <2>6
<1>4d. CASE StartCrashes
  <2>1. starting' \in Seq(Frames)
    BY <1>4d, Popped DEF StartCrashes
  <2> QED
    BY <1>4d, <2>1 DEF StartCrashes
<1>5. CASE StartThreadFails
  BY <1>5 DEF StartThreadFails
<1>6. CASE StartAssign
  BY <1>6 DEF StartAssign
<1>7. CASE StopRequest
  <2>1. mpc' \in UiPCs /\ terminate' \in BOOLEAN
    BY <1>7 DEF StopRequest
  <2>2. UNCHANGED <<mthen, mdoc, mhandle, hThread, runningDoc, genRunning, blankSaved, csLive,
                    threads, devices, docs>>
    BY <1>7 DEF StopRequest
  <2> QED
    BY <2>1, <2>2
<1>8. CASE StopTarget
  BY <1>8 DEF StopTarget
<1>9. CASE StopWait
  BY <1>9 DEF StopWait
<1>10. CASE StopDoc
  BY <1>10 DEF StopDoc
<1>11. CASE StopGenerator
  <2>1. /\ mpc' \in UiPCs /\ mthen' \in {"idle", "start", "series", "close"}
        /\ mdoc' \in Docs \cup {NoDoc} /\ mhandle' \in Sessions \cup {NoSession}
        /\ runningDoc' \in Docs \cup {NoDoc}
    BY <1>11 DEF StopGenerator
  <2>2. blankSaved' \in BOOLEAN /\ genRunning' \in BOOLEAN
    BY <1>11 DEF StopGenerator
  <2>3. genOn' \in [Docs -> BOOLEAN] /\ blanking' \in [Docs -> BOOLEAN]
    BY <1>11 DEF StopGenerator
  <2>4. UNCHANGED <<hThread, terminate, csLive, threads, sensorReady, docs>>
    BY <1>11 DEF StopGenerator
  <2> QED
    BY <2>1, <2>2, <2>3, <2>4
<1>12. CASE DrainEnter
  BY <1>12 DEF DrainEnter
<1>13. CASE Drain
  BY <1>13 DEF Drain
<1>14. CASE SeriesBegin
  BY <1>0, <1>14 DEF SeriesBegin
<1>15. CASE Close
  BY <1>15 DEF Close
<1>16. CASE Dispatch
  BY <1>16 DEF Dispatch
<1>17. CASE SeriesEnd
  BY <1>17 DEF SeriesEnd
<1>18. ASSUME NEW s \in Sessions, StartThread(s) PROVE StateType'
  BY <1>18 DEF StartThread
<1>19. ASSUME NEW s \in Sessions, LoopTop(s) PROVE StateType'
  BY <1>19 DEF LoopTop
<1>19a. ASSUME NEW s \in Sessions, Shown(s) PROVE StateType'
  BY <1>19a DEF Shown
<1>20. ASSUME NEW s \in Sessions, Measured(s) PROVE StateType'
  <2>1. tpc' \in [Sessions -> ThreadPCs]
    BY <1>20, ThreadType DEF Measured
  <2>2. tcount' \in [Sessions -> 0 .. MaxMeasures]
    <3>1. CASE tcount[s] < MaxMeasures
      <4>1. tcount[s] + 1 \in 0 .. MaxMeasures
        BY <3>1, BoundsAssumption
      <4>2. UNCHANGED tcount \/ tcount' = [tcount EXCEPT ![s] = tcount[s] + 1]
        BY <1>20 DEF Measured
      <4> QED
        BY <4>1, <4>2
    <3>2. CASE ~(tcount[s] < MaxMeasures)
      BY <1>20, <3>2 DEF Measured
    <3> QED
      BY <3>1, <3>2
  <2>3. UNCHANGED <<mpc, mthen, mdoc, mhandle, hThread, terminate, runningDoc, genRunning, blankSaved,
                    csLive, tdoc, sensorReady, genOn, blanking, series, open, starting, beneath>>
    BY <1>20 DEF Measured
  <2> QED
    BY <2>1, <2>2, <2>3
<1>20a. ASSUME NEW s \in Sessions, Throws(s) PROVE StateType'
  BY <1>20a DEF Throws
<1>21. ASSUME NEW s \in Sessions, CheckOk(s) PROVE StateType'
  BY <1>21 DEF CheckOk
<1>22. ASSUME NEW s \in Sessions, CheckBad(s) PROVE StateType'
  BY <1>22 DEF CheckBad
<1>23. ASSUME NEW s \in Sessions, Spin(s) PROVE StateType'
  BY <1>23 DEF Spin
<1>24. ASSUME NEW s \in Sessions, Enter(s) PROVE StateType'
  BY <1>24 DEF Enter
<1>25. ASSUME NEW s \in Sessions, Add(s) PROVE StateType'
  BY <1>25 DEF Add
<1>26. ASSUME NEW s \in Sessions, Post(s) PROVE StateType'
  BY <1>26 DEF Post
<1>27. ASSUME NEW s \in Sessions, FailHandle(s) PROVE StateType'
  BY <1>27 DEF FailHandle
<1>28. ASSUME NEW s \in Sessions, FailTerminate(s) PROVE StateType'
  <2>1. tpc' \in [Sessions -> ThreadPCs]
    BY <1>28 DEF FailTerminate
  <2>2. terminate' \in BOOLEAN
    BY <1>28 DEF FailTerminate
  <2>3. UNCHANGED <<mpc, mthen, mdoc, mhandle, hThread, runningDoc, genRunning, blankSaved, csLive, tdoc, tcount, sensorReady, genOn, blanking, series, open, starting, beneath>>
    BY <1>28 DEF FailTerminate
  <2> QED BY <2>1, <2>2, <2>3
<1>28a. ASSUME NEW s \in Sessions, FailButtons(s) PROVE StateType'
  <2>1. tpc' \in [Sessions -> ThreadPCs]
    BY <1>28a, ThreadType DEF FailButtons
  <2>2. mpc' \in UiPCs
    BY <1>28a DEF FailButtons
  <2>3. UNCHANGED <<mthen, mdoc, mhandle, hThread, terminate, runningDoc, genRunning, blankSaved, csLive,
                    tdoc, tcount, sensorReady, genOn, blanking, series, open, starting, beneath>>
    BY <1>28a DEF FailButtons
  <2> QED
    BY <2>1, <2>2, <2>3
<1>29. ASSUME NEW s \in Sessions, FailGenerator(s) PROVE StateType'
  <2>1. tpc' \in [Sessions -> ThreadPCs]
    BY <1>29, ThreadType DEF FailGenerator
  <2>2. genOn' \in [Docs -> BOOLEAN]
    BY <1>29 DEF FailGenerator
  <2>3. blanking' \in [Docs -> BOOLEAN]
    BY <1>29 DEF FailGenerator
  <2>4. genRunning' \in BOOLEAN /\ blankSaved' \in BOOLEAN
    BY <1>29 DEF FailGenerator
  <2>5. mpc' \in UiPCs
    BY <1>29 DEF FailGenerator
  <2>6. UNCHANGED <<mthen, mdoc, mhandle, hThread, terminate, runningDoc, csLive,
                    tdoc, tcount, sensorReady, series, open, starting, beneath>>
    BY <1>29 DEF FailGenerator
  <2> QED
    BY <2>1, <2>2, <2>3, <2>4, <2>5, <2>6
<1>30. ASSUME NEW s \in Sessions, FailDoc(s) PROVE StateType'
  BY <1>30 DEF FailDoc
<1>31. ASSUME NEW s \in Sessions, ReleaseSensor(s) PROVE StateType'
  <2>1. tpc' \in [Sessions -> ThreadPCs]
    BY <1>31, ThreadType DEF ReleaseSensor
  <2>2. sensorReady' \in [Docs -> BOOLEAN]
    BY <1>31 DEF ReleaseSensor
  <2>3. UNCHANGED <<mpc, mthen, mdoc, mhandle, hThread, terminate, runningDoc, genRunning, blankSaved,
                    csLive, tdoc, tcount, genOn, blanking, series, open, starting, beneath>>
    BY <1>31 DEF ReleaseSensor
  <2> QED
    BY <2>1, <2>2, <2>3
<1>32. ASSUME NEW s \in Sessions, DeleteCS(s) PROVE StateType'
  <2>1. tpc' \in [Sessions -> ThreadPCs]
    BY <1>32, ThreadType DEF DeleteCS
  <2>2. csLive' \in BOOLEAN
    BY <1>32 DEF DeleteCS
  <2>3. UNCHANGED <<mpc, mthen, mdoc, mhandle, hThread, terminate, runningDoc, genRunning, blankSaved,
                    tdoc, tcount, sensorReady, genOn, blanking, series, open, starting, beneath>>
    BY <1>32 DEF DeleteCS
  <2> QED
    BY <2>1, <2>2, <2>3
<1>33. CASE UNCHANGED vars
  BY <1>33 DEF vars
<1> QED
  BY <1>4a, <1>4b, <1>4c, <1>4d, <1>19a, <1>20a, <1>28a, <1>1, <1>2, <1>3, <1>4, <1>5, <1>6, <1>7, <1>8, <1>9, <1>10, <1>11, <1>12, <1>13, <1>14, <1>15, <1>16, <1>17, <1>18, <1>19, <1>20, <1>21, <1>22, <1>23, <1>24, <1>25, <1>26, <1>27, <1>28, <1>29, <1>30, <1>31, <1>32, <1>33
  DEF Next, Commands, UiStep, Resume, Start, Stop, Refresh, BkgndThread, OnContinuousMeasurement, OtherCommand, MeasureCommand, OnCloseDocument

\* Six actions touch the list, the message queue or the measures of a document.
LEMMA DataUnchanged ==
  [Next]_vars =>
    \/ UNCHANGED data
    \/ StopWait \/ Dispatch \/ Drain
    \/ \E s \in Sessions : Add(s) \/ Post(s)
BY DEF Next, Commands, UiStep, Resume, Start, Stop, Refresh, BkgndThread, vars, data,
   OnContinuousMeasurement, OtherCommand, MeasureCommand, OnCloseDocument, Command,
   StartRefused, StartSensor, StartGenerator,
   StartAsked, StartShown, StartGenFails, StartCrashes, StartThread, StartThreadFails, StartAssign,
   StopRequest, StopTarget, StopDoc, StopGenerator, SeriesBegin, SeriesEnd, Close, DrainEnter,
   LoopTop, Shown, Measured, Throws, CheckOk, CheckBad, Spin, Enter,
   FailHandle, FailTerminate, FailButtons, FailGenerator, FailDoc, ReleaseSensor, DeleteCS

\* Every step keeps the sequences sequences of measures and of documents.
LEMMA DataTypeStep == StateType /\ DataType /\ [Next]_vars => DataType'
<1> SUFFICES ASSUME StateType, DataType, [Next]_vars PROVE DataType'
  OBVIOUS
<1>1. CASE UNCHANGED data
  BY <1>1 DEF data, DataType
<1>2. CASE StopWait
  BY <1>2, EmptySeq DEF StopWait, DataType
<1>3. CASE Dispatch
  BY <1>3, HeadTailProperties DEF Dispatch, DataType
<1>4. CASE Drain
  <2>1. CASE runningDoc # NoDoc
    <3> DEFINE n == IF Len(list) < Views[runningDoc] THEN Len(list) ELSE Views[runningDoc]
    <3>1. n \in Nat /\ n <= Len(list)
      BY <2>1, DocsAssumption, LenProperties DEF StateType, DataType
    <3>2. SubSeq(list, 1, n) \in Seq(Measures)
      BY <3>1, PrefixType DEF DataType
    <3>3. free' = [free EXCEPT ![mdoc] = free[mdoc] \o SubSeq(list, 1, n)]
      BY <1>4, <2>1 DEF Drain
    <3>4. \A d \in Docs : free[d] \o SubSeq(list, 1, n) \in Seq(Measures)
      BY <3>2, ConcatProperties DEF DataType
    <3>5. free' \in [Docs -> Seq(Measures)]
      BY <3>3, <3>4 DEF DataType
    <3>6. list' = <<>> /\ posted' = posted
      BY <1>4, <2>1 DEF Drain
    <3> QED
      BY <3>5, <3>6, EmptySeq DEF DataType
  <2>2. CASE runningDoc = NoDoc
    BY <1>4, <2>2 DEF Drain, DataType
  <2> QED
    BY <2>1, <2>2
<1>5. ASSUME NEW s \in Sessions, Add(s) PROVE DataType'
  <2>1. <<s, tcount[s]>> \in Measures
    BY DEF StateType, Measures
  <2>2. Append(list, <<s, tcount[s]>>) \in Seq(Measures)
    BY <2>1, AppendProperties DEF DataType
  <2> QED
    BY <1>5, <2>2 DEF Add, DataType
<1>6. ASSUME NEW s \in Sessions, Post(s) PROVE DataType'
  BY <1>6, AppendProperties DEF Post, DataType, StateType
<1> QED
  BY <1>1, <1>2, <1>3, <1>4, <1>5, <1>6, DataUnchanged

\* Every step but a stutter records whether two activities overlapped.
LEMMA Watched == [Next]_vars => UNCHANGED vars \/ Watch
BY DEF Next, Commands, UiStep, Resume, Start, Stop, Refresh, BkgndThread,
   OnContinuousMeasurement, OtherCommand, MeasureCommand, OnCloseDocument, Command,
   StartRefused, StartSensor, StartGenerator,
   StartAsked, StartShown, StartGenFails, StartCrashes, StartThread, StartThreadFails, StartAssign,
   StopRequest, StopTarget, StopWait, StopDoc, StopGenerator, SeriesBegin, SeriesEnd, Close,
   Dispatch, DrainEnter, Drain, LoopTop, Shown, Measured, Throws, CheckOk, CheckBad, Spin, Enter, Add, Post,
   FailHandle, FailTerminate, FailButtons, FailGenerator, FailDoc, ReleaseSensor, DeleteCS

LEMMA InitType == Init => TypeOK
<1> SUFFICES ASSUME Init PROVE TypeOK
  OBVIOUS
<1>1. /\ blanking \in [Docs -> BOOLEAN] /\ genOn \in [Docs -> BOOLEAN]
      /\ sensorReady \in [Docs -> BOOLEAN]
  <2>1. \A d \in Docs : (d \in BlankDocs) \in BOOLEAN
    OBVIOUS
  <2> QED
    BY <2>1, Zenon DEF Init
<1>2. tcount \in [Sessions -> 0 .. MaxMeasures]
  BY BoundsAssumption DEF Init
<1>3. tpc \in [Sessions -> ThreadPCs] /\ tdoc \in [Sessions -> Docs \cup {NoDoc}]
  BY DEF Init, ThreadPCs
<1>4. StateType
  BY <1>1, <1>2, <1>3, EmptySeq DEF Init, StateType, UiPCs, NoSession
<1>5. DataType
  BY EmptySeq DEF Init, DataType
<1> QED
  BY <1>4, <1>5, Zenon DEF Init, TypeOK

LEMMA TypeStep == TypeOK /\ [Next]_vars => TypeOK'
<1> SUFFICES ASSUME TypeOK, [Next]_vars PROVE TypeOK'
  OBVIOUS
<1>1. raced' \in BOOLEAN /\ interrupted' \in BOOLEAN
  <2>1. CASE UNCHANGED vars
    BY <2>1 DEF TypeOK, vars
  <2>2. CASE Watch
    BY <2>2, Zenon DEF TypeOK, Watch
  <2> QED
    BY <2>1, <2>2, Watched
<1> QED
  BY <1>1, StateTypeStep, DataTypeStep DEF TypeOK

\* Type correctness of BkgndThreadFunc, the commands and what they share: every
\* variable, the list and the message queue included, keeps its type.
THEOREM Typing == Spec => []TypeOK
BY InitType, TypeStep, PTL DEF Spec
=============================================================================
