------------------------ MODULE ContinuousMeasureSafety ------------------------
(* The safety properties of ContinuousMeasure, proved from an inductive       *)
(* invariant: where the background thread can be for what the globals say.    *)
EXTENDS ContinuousMeasureProofs

\* g_hThread = NULL names no thread.
LEMMA NoSessionIsNone == NoSession \notin Sessions
BY DEF NoSession, Sessions

\* A NULL pointer is no document.
LEMMA NoDocIsNone == NoDoc \notin Docs
BY DocsAssumption

\* Where StartBackgroundMeasures runs no other start waits for its message loop.
LEMMA NoStartBeneath ==
  ASSUME Clean, mpc \in StartPCs
  PROVE  starting = <<>>
BY DEF Clean, Collision, Interrupted

\* What a start that waits in a message loop may rely on when it goes on.
LEMMA ResumesQuietly ==
  ASSUME StateType, Clean, NEW at, Resumes(at)
  PROVE  /\ mpc = "idle" /\ starting # <<>> /\ starting' = <<>> /\ Head(starting).at = at
         /\ Head(starting).doc \in Docs /\ Head(starting).doc \in open
         /\ Head(starting).doc # series
         /\ hThread = NoSession /\ runningDoc = NoDoc /\ ~genRunning
         /\ \A s \in Sessions : ~Live(s)
         /\ at # "ask" => sensorReady[Head(starting).doc]
         /\ at = "fail" => ~genOn[Head(starting).doc]
BY DEF StateType, Clean, StartingInv, Resumes

\* The document of a start that waits is open, as long as nothing interrupted it.
LEMMA NobodyCrashes ==
  ASSUME StateType, Clean
  PROVE  ~StartCrashes
BY ResumesQuietly DEF StartCrashes

\* What StartBackgroundMeasures leaves when it dispatches messages.
LEMMA PumpsQuietly ==
  ASSUME StateType, Clean, mpc \in StartPCs, NEW at \in {"ask", "fail", "show"}, Pumps(at)
  PROVE  /\ starting = <<>> /\ starting' # <<>> /\ Tail(starting') = <<>>
         /\ Head(starting').doc = mdoc /\ Head(starting').at = at
         /\ mpc' = "idle" /\ mthen' = "idle" /\ mdoc' = NoDoc /\ mhandle' = NoSession
BY NoStartBeneath, Pushed DEF Pumps, Finish

\* Each step leaves each thread where the globals say it can be.
LEMMA ThreadInvStep ==
  ASSUME StateType, DataType, Clean, [Next]_vars, ~Collision'
  PROVE  ThreadInv'
<1> USE NoSessionIsNone, NoDocIsNone DEF StateType, Clean, Collision, ThreadInv, Accounted, UiInv,
        UiPCs, ThreadPCs, WorkPCs, ExitPCs, FailPCs,
        Over, Live, Failing, Working, Serving, Exiting, Failed, QuietPCs, Known,
        Finish, Advance, Return, Thread, Crash, Ui, Restored, ReleaseGenerator,
        ui, globals, threads, devices, docs, data
<1>1. ASSUME NEW d \in Docs, NEW to \in {"start", "stop"},
             NEW then \in {"idle", "start", "series", "close"},
             to = "start" => then = "idle" /\ runningDoc = NoDoc,
             then = "series" => series = NoDoc,
             Command(d, to, then)
       PROVE ThreadInv'
  BY <1>1 DEF Command
<1>2. CASE StartRefused
  BY <1>2 DEF StartRefused
<1>3. CASE StartSensor
  BY <1>3 DEF StartSensor, Pumps
<1>4. CASE StartGenerator
  BY <1>4 DEF StartGenerator, Pumps
<1>5. CASE StartThreadFails
  BY <1>5 DEF StartThreadFails
<1>6. CASE StartAssign
  BY <1>6 DEF StartAssign
<1>7. CASE StopRequest
  BY <1>7 DEF StopRequest
<1>8. CASE StopTarget
  BY <1>8 DEF StopTarget
<1>9. CASE StopWait
  <2> SUFFICES ASSUME NEW t \in Sessions PROVE Accounted(t)'
    BY DEF ThreadInv
  <2>0. Accounted(t)
    BY DEF ThreadInv
  <2>1. ~Live(t) /\ ~Failing(t)
    BY <1>9, <2>0 DEF StopWait
  <2> QED
    BY <1>9, <2>0, <2>1, NoSessionIsNone DEF StopWait
<1>10. CASE StopDoc
  BY <1>10 DEF StopDoc
<1>11. CASE StopGenerator
  BY <1>11 DEF StopGenerator
<1>12. CASE DrainEnter
  BY <1>12 DEF DrainEnter
<1>13. CASE Drain
  BY <1>13 DEF Drain
<1>14. CASE SeriesBegin
  BY <1>14 DEF SeriesBegin
<1>15. CASE Close
  BY <1>15 DEF Close
<1>16. CASE Dispatch
  BY <1>16 DEF Dispatch
<1>17. CASE SeriesEnd
  BY <1>17 DEF SeriesEnd
<1>18. ASSUME NEW s \in Sessions, StartThread(s) PROVE ThreadInv'
  <2> SUFFICES ASSUME NEW t \in Sessions PROVE Accounted(t)'
    BY DEF ThreadInv
  <2>0. Accounted(s) /\ Accounted(t)
    BY DEF ThreadInv
  <2>1. CASE t = s
    BY <1>18, <2>0, <2>1 DEF StartThread
  <2>2. CASE t # s
    BY <1>18, <2>0, <2>2 DEF StartThread
  <2> QED
    BY <2>1, <2>2
<1>19. ASSUME NEW s \in Sessions, LoopTop(s) PROVE ThreadInv'
  BY <1>19 DEF LoopTop
<1>20. ASSUME NEW s \in Sessions, Measured(s) PROVE ThreadInv'
  BY <1>20 DEF Measured
<1>20a. ASSUME NEW s \in Sessions, Throws(s) PROVE ThreadInv'
  BY <1>20a DEF Throws
<1>21. ASSUME NEW s \in Sessions, CheckOk(s) PROVE ThreadInv'
  BY <1>21 DEF CheckOk
<1>22. ASSUME NEW s \in Sessions, CheckBad(s) PROVE ThreadInv'
  BY <1>22 DEF CheckBad
<1>23. ASSUME NEW s \in Sessions, Spin(s) PROVE ThreadInv'
  BY <1>23 DEF Spin
<1>24. ASSUME NEW s \in Sessions, Enter(s) PROVE ThreadInv'
  BY <1>24 DEF Enter
<1>25. ASSUME NEW s \in Sessions, Add(s) PROVE ThreadInv'
  BY <1>25 DEF Add
<1>26. ASSUME NEW s \in Sessions, Post(s) PROVE ThreadInv'
  BY <1>26 DEF Post
<1>27. ASSUME NEW s \in Sessions, FailHandle(s) PROVE ThreadInv'
  <2> SUFFICES ASSUME NEW t \in Sessions PROVE Accounted(t)'
    BY DEF ThreadInv
  <2>0. Accounted(s) /\ Accounted(t)
    BY DEF ThreadInv
  <2>1. CASE t = s
    BY <1>27, <2>0, <2>1 DEF FailHandle
  <2>2. CASE t # s
    BY <1>27, <2>0, <2>2 DEF FailHandle
  <2> QED
    BY <2>1, <2>2
<1>28. ASSUME NEW s \in Sessions, FailTerminate(s) PROVE ThreadInv'
  BY <1>28 DEF FailTerminate
<1>29. ASSUME NEW s \in Sessions, FailGenerator(s) PROVE ThreadInv'
  BY <1>29 DEF FailGenerator
<1>30. ASSUME NEW s \in Sessions, FailDoc(s) PROVE ThreadInv'
  BY <1>30 DEF FailDoc
<1>31. ASSUME NEW s \in Sessions, ReleaseSensor(s) PROVE ThreadInv'
  BY <1>31 DEF ReleaseSensor
<1>32. ASSUME NEW s \in Sessions, DeleteCS(s) PROVE ThreadInv'
  <2> SUFFICES ASSUME NEW t \in Sessions PROVE Accounted(t)'
    BY DEF ThreadInv
  <2>0. Accounted(s) /\ Accounted(t)
    BY DEF ThreadInv
  <2>1. CASE t = s
    BY <1>32, <2>0, <2>1 DEF DeleteCS
  <2>2. CASE t # s
    BY <1>32, <2>0, <2>2 DEF DeleteCS
  <2> QED
    BY <2>1, <2>2
<1>a1. CASE StartAsked
  <2>1. Resumes("ask")
    BY <1>a1 DEF StartAsked
  <2> QED
    BY <1>a1, <2>1, ResumesQuietly DEF StartAsked, GoesOn
<1>a2. CASE StartShown
  <2>1. Resumes("show")
    BY <1>a2 DEF StartShown
  <2> QED
    BY <1>a2, <2>1, ResumesQuietly DEF StartShown, GoesOn
<1>a3. CASE StartGenFails
  <2>1. Resumes("fail")
    BY <1>a3 DEF StartGenFails
  <2> QED
    BY <1>a3, <2>1, ResumesQuietly DEF StartGenFails, GoesOn
<1>a5. ASSUME NEW s \in Sessions, Shown(s) PROVE ThreadInv'
  BY <1>a5 DEF Shown
<1>a6. ASSUME NEW s \in Sessions, FailButtons(s) PROVE ThreadInv'
  BY <1>a6 DEF FailButtons
<1>33. CASE UNCHANGED vars
  BY <1>33 DEF vars
<1>c. CASE Commands
  BY <1>c, <1>1 DEF Commands, OnContinuousMeasurement, OtherCommand, MeasureCommand, OnCloseDocument
<1> HIDE DEF StateType, Clean, Collision, ThreadInv, Accounted, UiInv, UiPCs, ThreadPCs,
        WorkPCs, ExitPCs, FailPCs, Over, Live, Failing, Working, Serving, Exiting, Failed,
        QuietPCs, Known, Finish, Advance, Return, Thread, Crash, Ui, Restored,
        ReleaseGenerator, ui, globals, threads, devices, docs, data
<1> QED
  BY <1>c, <1>a1, <1>a2, <1>a3, <1>a5, <1>a6, NobodyCrashes, <1>20a, <1>2, <1>3, <1>4, <1>5, <1>6, <1>7, <1>8, <1>9, <1>10, <1>11, <1>12, <1>13,
     <1>14, <1>15, <1>16, <1>17, <1>18, <1>19, <1>20, <1>21, <1>22, <1>23, <1>24, <1>25,
     <1>26, <1>27, <1>28, <1>29, <1>30, <1>31, <1>32, <1>33
  DEF Next, UiStep, Resume, Start, Stop, Refresh, BkgndThread

\* Each step leaves the user interface with what it may rely on.
LEMMA UiInvStep ==
  ASSUME StateType, DataType, Clean, [Next]_vars, ~Collision'
  PROVE  UiInv'
<1> USE NoSessionIsNone, NoDocIsNone DEF StateType, Clean, Collision, ThreadInv, Accounted, UiInv, InsideBkgndRefresh,
        UiPCs, ThreadPCs, WorkPCs, ExitPCs, FailPCs,
        Over, Live, Failing, Working, Serving, Exiting, Failed, QuietPCs, Known,
        Finish, Advance, Return, Thread, Crash, Ui, Restored, ReleaseGenerator,
        ui, globals, threads, devices, docs, data
<1>1. ASSUME NEW d \in Docs, NEW to \in {"start", "stop"},
             NEW then \in {"idle", "start", "series", "close"},
             to = "start" => then = "idle" /\ runningDoc = NoDoc,
             then = "series" => series = NoDoc,
             Command(d, to, then)
       PROVE UiInv'
  <2>1. CASE to = "stop"
    BY <1>1, <2>1 DEF Command
  <2>2. CASE to = "start"
    <3>1. \A s \in Sessions : ~Live(s)
      BY <1>1, <2>2 DEF Command
    <3>2. hThread = NoSession
      BY <1>1, <2>2, <3>1 DEF Command
    <3> QED
      BY <1>1, <2>2, <3>1, <3>2 DEF Command
  <2> QED
    BY <2>1, <2>2
<1>2. CASE StartRefused
  BY <1>2 DEF StartRefused
<1>3. CASE StartSensor
  BY <1>3 DEF StartSensor, Pumps
<1>4. CASE StartGenerator
  BY <1>4 DEF StartGenerator, Pumps
<1>5. CASE StartThreadFails
  BY <1>5 DEF StartThreadFails
<1>6. CASE StartAssign
  BY <1>6 DEF StartAssign
<1>7. CASE StopRequest
  <2>1. CASE hThread # NoSession
    BY <1>7, <2>1 DEF StopRequest
  <2>2. CASE hThread = NoSession
    <3>1. \A s \in Sessions : ~Live(s)
      BY <1>7, <2>2, NoSessionIsNone DEF StopRequest
    <3> QED
      BY <1>7, <2>2, <3>1 DEF StopRequest
  <2> QED
    BY <2>1, <2>2
<1>8. CASE StopTarget
  BY <1>8 DEF StopTarget
<1>9. CASE StopWait
  BY <1>9 DEF StopWait
<1>10. CASE StopDoc
  BY <1>10 DEF StopDoc
<1>11. CASE StopGenerator
  BY <1>11 DEF StopGenerator
<1>12. CASE DrainEnter
  BY <1>12 DEF DrainEnter
<1>13. CASE Drain
  BY <1>13 DEF Drain
<1>14. CASE SeriesBegin
  BY <1>14 DEF SeriesBegin
<1>15. CASE Close
  BY <1>15 DEF Close
<1>16. CASE Dispatch
  <2>1. CASE hThread # NoSession /\ ~terminate /\ runningDoc = Head(posted)
    <3>1. mpc = "idle" /\ mpc' = "drainEnter" /\ mdoc' = Head(posted) /\ mthen' = mthen
      BY <1>16, <2>1 DEF Dispatch
    <3>2. hThread \in Sessions /\ runningDoc \in Docs
      BY <1>16, <2>1, <3>1 DEF Dispatch
    <3>3. ~Failing(hThread)
      BY <1>16, <3>1, <3>2 DEF Dispatch
    <3>4. Accounted(hThread)
      BY <3>2
    <3>5. tpc[hThread] \in WorkPCs \cup {"thrown"}
      BY <3>1, <3>2, <3>3, <3>4
    <3>6. /\ mhandle' = mhandle /\ tpc' = tpc /\ tdoc' = tdoc
          /\ UNCHANGED <<hThread, terminate, runningDoc, csLive, sensorReady, open, series>>
      BY <1>16 DEF Dispatch
    <3>7. mthen = "idle" /\ ~terminate
      BY <3>1
    <3> QED
      BY <2>1, <3>1, <3>2, <3>5, <3>6, <3>7
  <2>2. CASE ~(hThread # NoSession /\ ~terminate /\ runningDoc = Head(posted))
    BY <1>16, <2>2 DEF Dispatch
  <2> QED
    BY <2>1, <2>2
<1>17. CASE SeriesEnd
  BY <1>17 DEF SeriesEnd
<1>18. ASSUME NEW s \in Sessions, StartThread(s) PROVE UiInv'
  BY <1>18 DEF StartThread
<1>19. ASSUME NEW s \in Sessions, LoopTop(s) PROVE UiInv'
  BY <1>19 DEF LoopTop
<1>20. ASSUME NEW s \in Sessions, Measured(s) PROVE UiInv'
  BY <1>20 DEF Measured
<1>20a. ASSUME NEW s \in Sessions, Throws(s) PROVE UiInv'
  BY <1>20a DEF Throws
<1>21. ASSUME NEW s \in Sessions, CheckOk(s) PROVE UiInv'
  BY <1>21 DEF CheckOk
<1>22. ASSUME NEW s \in Sessions, CheckBad(s) PROVE UiInv'
  BY <1>22 DEF CheckBad
<1>23. ASSUME NEW s \in Sessions, Spin(s) PROVE UiInv'
  BY <1>23 DEF Spin
<1>24. ASSUME NEW s \in Sessions, Enter(s) PROVE UiInv'
  BY <1>24 DEF Enter
<1>25. ASSUME NEW s \in Sessions, Add(s) PROVE UiInv'
  BY <1>25 DEF Add
<1>26. ASSUME NEW s \in Sessions, Post(s) PROVE UiInv'
  BY <1>26 DEF Post
<1>27. ASSUME NEW s \in Sessions, FailHandle(s) PROVE UiInv'
  BY <1>27 DEF FailHandle
<1>28. ASSUME NEW s \in Sessions, FailTerminate(s) PROVE UiInv'
  BY <1>28 DEF FailTerminate
<1>29. ASSUME NEW s \in Sessions, FailGenerator(s) PROVE UiInv'
  BY <1>29 DEF FailGenerator
<1>30. ASSUME NEW s \in Sessions, FailDoc(s) PROVE UiInv'
  BY <1>30 DEF FailDoc
<1>31. ASSUME NEW s \in Sessions, ReleaseSensor(s) PROVE UiInv'
  BY <1>31 DEF ReleaseSensor
<1>32. ASSUME NEW s \in Sessions, DeleteCS(s) PROVE UiInv'
  BY <1>32 DEF DeleteCS
<1>a1. CASE StartAsked
  <2>1. Resumes("ask")
    BY <1>a1 DEF StartAsked
  <2> QED
    BY <1>a1, <2>1, ResumesQuietly DEF StartAsked, GoesOn
<1>a2. CASE StartShown
  <2>1. Resumes("show")
    BY <1>a2 DEF StartShown
  <2> QED
    BY <1>a2, <2>1, ResumesQuietly DEF StartShown, GoesOn
<1>a3. CASE StartGenFails
  <2>1. Resumes("fail")
    BY <1>a3 DEF StartGenFails
  <2> QED
    BY <1>a3, <2>1, ResumesQuietly DEF StartGenFails, GoesOn
<1>a5. ASSUME NEW s \in Sessions, Shown(s) PROVE UiInv'
  BY <1>a5 DEF Shown
<1>a6. ASSUME NEW s \in Sessions, FailButtons(s) PROVE UiInv'
  BY <1>a6 DEF FailButtons
<1>33. CASE UNCHANGED vars
  BY <1>33 DEF vars
<1> HIDE DEF StateType, Clean, Collision, ThreadInv, Accounted, UiInv, InsideBkgndRefresh,
        UiPCs, ThreadPCs, WorkPCs, ExitPCs, FailPCs, Over, Live, Failing, Working, Serving,
        Exiting, Failed, QuietPCs, Known, Finish, Advance, Return, Thread, Crash, Ui, Restored,
        ReleaseGenerator, ui, globals, threads, devices, docs, data
<1> QED
  BY <1>a1, <1>a2, <1>a3, <1>a5, <1>a6, NobodyCrashes, <1>20a, <1>1, <1>2, <1>3, <1>4, <1>5, <1>6, <1>7, <1>8, <1>9, <1>10, <1>11, <1>12, <1>13,
     <1>14, <1>15, <1>16, <1>17, <1>18, <1>19, <1>20, <1>21, <1>22, <1>23, <1>24, <1>25,
     <1>26, <1>27, <1>28, <1>29, <1>30, <1>31, <1>32, <1>33
  DEF Next, Commands, UiStep, Resume, Start, Stop, Refresh, BkgndThread,
      OnContinuousMeasurement, OtherCommand, MeasureCommand, OnCloseDocument

\* Each step leaves the generator on, and without its blanking, on one document.
LEMMA GeneratorInvStep ==
  ASSUME StateType, DataType, Clean, [Next]_vars, ~Collision'
  PROVE  GeneratorInv'
<1> USE NoSessionIsNone, NoDocIsNone DEF StateType, Clean, Collision, ThreadInv, Accounted, UiInv, GeneratorInv, GdiOwner, Taken,
        UiPCs, ThreadPCs, WorkPCs, ExitPCs, FailPCs,
        Over, Live, Failing, Working, Serving, Exiting, Failed, QuietPCs, Known,
        Finish, Advance, Return, Thread, Crash, Ui, Restored, ReleaseGenerator,
        ui, globals, threads, devices, docs, data
<1>0. /\ mpc \in {"start", "startGen", "startThread", "startAssign"} => starting = <<>>
      /\ starting # <<>> =>
           /\ runningDoc = NoDoc /\ ~genRunning /\ Head(starting).doc \in Docs
           /\ Head(starting).doc # series
           /\ mpc \in {"idle", "stop", "stopDoc", "series", "close"}
  BY NoStartBeneath DEF StartingInv, StartPCs
<1> USE <1>0
<1>1. ASSUME NEW d \in Docs, NEW to \in {"start", "stop"},
             NEW then \in {"idle", "start", "series", "close"},
             to = "start" => then = "idle" /\ runningDoc = NoDoc,
             then = "series" => series = NoDoc,
             Command(d, to, then)
       PROVE GeneratorInv'
  BY <1>1 DEF Command
<1>2. CASE StartRefused
  BY <1>2 DEF StartRefused
<1>3. CASE StartSensor
  BY <1>3, PumpsQuietly DEF StartSensor, StartPCs
<1>4. CASE StartGenerator
  <2>1. ~Taken /\ mdoc \in Docs /\ mpc = "startGen" /\ runningDoc = NoDoc
    BY <1>4 DEF StartGenerator
  <2>2. CASE mdoc \notin GdiDocs
    BY <1>4, <2>1, <2>2 DEF StartGenerator
  <2>3. CASE mdoc \in GdiDocs
    <3>1. Taken' /\ GdiOwner' = mdoc
      BY <1>4, <2>1, <2>3, PumpsQuietly DEF StartGenerator, StartPCs
    <3>2. /\ blankSaved' = blanking[mdoc] /\ blanking' = [blanking EXCEPT ![mdoc] = FALSE]
          /\ \A d \in Docs : genOn'[d] => genOn[d] \/ d = mdoc
          /\ series' = series
      BY <1>4, <2>3 DEF StartGenerator
    <3>3. /\ \A d \in Docs : blanking[d] <=> d \in BlankDocs
          /\ \A d \in Docs : genOn[d] => d = series
      BY <2>1
    <3> HIDE DEF Taken, GdiOwner
    <3> QED
      BY <2>1, <3>1, <3>2, <3>3
  <2> QED
    BY <2>2, <2>3
<1>5. CASE StartThreadFails
  <2>1. (Taken => GdiOwner \in Docs)'
    BY <1>5 DEF StartThreadFails
  <2>2. (blankSaved <=> Taken /\ GdiOwner \in BlankDocs)'
    BY <1>5 DEF StartThreadFails
  <2>3. \A d \in Docs : blanking'[d] <=> d \in BlankDocs /\ ~(Taken' /\ d = GdiOwner')
    BY <1>5 DEF StartThreadFails
  <2>4. \A d \in Docs : genOn'[d] => d = series' \/ (Taken' /\ d = GdiOwner')
    BY <1>5 DEF StartThreadFails
  <2> QED
    BY <2>1, <2>2, <2>3, <2>4
<1>6. CASE StartAssign
  BY <1>6 DEF StartAssign
<1>7. CASE StopRequest
  BY <1>7 DEF StopRequest
<1>8. CASE StopTarget
  BY <1>8 DEF StopTarget
<1>9. CASE StopWait
  BY <1>9 DEF StopWait
<1>10. CASE StopDoc
  BY <1>10 DEF StopDoc
<1>11. CASE StopGenerator
  <2>1. (Taken => GdiOwner \in Docs)'
    BY <1>11 DEF StopGenerator
  <2>2. (blankSaved <=> Taken /\ GdiOwner \in BlankDocs)'
    BY <1>11 DEF StopGenerator
  <2>3. \A d \in Docs : blanking'[d] <=> d \in BlankDocs /\ ~(Taken' /\ d = GdiOwner')
    BY <1>11 DEF StopGenerator
  <2>4. \A d \in Docs : genOn'[d] => d = series' \/ (Taken' /\ d = GdiOwner')
    BY <1>11 DEF StopGenerator
  <2> QED
    BY <2>1, <2>2, <2>3, <2>4
<1>12. CASE DrainEnter
  BY <1>12 DEF DrainEnter
<1>13. CASE Drain
  BY <1>13 DEF Drain
<1>14. CASE SeriesBegin
  <2>1. (Taken => GdiOwner \in Docs)'
    BY <1>14 DEF SeriesBegin
  <2>2. (blankSaved <=> Taken /\ GdiOwner \in BlankDocs)'
    BY <1>14 DEF SeriesBegin
  <2>3. \A d \in Docs : blanking'[d] <=> d \in BlankDocs /\ ~(Taken' /\ d = GdiOwner')
    BY <1>14 DEF SeriesBegin
  <2>4. \A d \in Docs : genOn'[d] => d = series' \/ (Taken' /\ d = GdiOwner')
    BY <1>14 DEF SeriesBegin
  <2> QED
    BY <2>1, <2>2, <2>3, <2>4
<1>15. CASE Close
  BY <1>15 DEF Close
<1>16. CASE Dispatch
  BY <1>16 DEF Dispatch
<1>17. CASE SeriesEnd
  BY <1>17 DEF SeriesEnd
<1>18. ASSUME NEW s \in Sessions, StartThread(s) PROVE GeneratorInv'
  BY <1>18 DEF StartThread
<1>19. ASSUME NEW s \in Sessions, LoopTop(s) PROVE GeneratorInv'
  BY <1>19 DEF LoopTop
<1>20. ASSUME NEW s \in Sessions, Measured(s) PROVE GeneratorInv'
  BY <1>20 DEF Measured
<1>20a. ASSUME NEW s \in Sessions, Throws(s) PROVE GeneratorInv'
  BY <1>20a DEF Throws
<1>21. ASSUME NEW s \in Sessions, CheckOk(s) PROVE GeneratorInv'
  BY <1>21 DEF CheckOk
<1>22. ASSUME NEW s \in Sessions, CheckBad(s) PROVE GeneratorInv'
  BY <1>22 DEF CheckBad
<1>23. ASSUME NEW s \in Sessions, Spin(s) PROVE GeneratorInv'
  BY <1>23 DEF Spin
<1>24. ASSUME NEW s \in Sessions, Enter(s) PROVE GeneratorInv'
  BY <1>24 DEF Enter
<1>25. ASSUME NEW s \in Sessions, Add(s) PROVE GeneratorInv'
  BY <1>25 DEF Add
<1>26. ASSUME NEW s \in Sessions, Post(s) PROVE GeneratorInv'
  BY <1>26 DEF Post
<1>27. ASSUME NEW s \in Sessions, FailHandle(s) PROVE GeneratorInv'
  BY <1>27 DEF FailHandle
<1>28. ASSUME NEW s \in Sessions, FailTerminate(s) PROVE GeneratorInv'
  BY <1>28 DEF FailTerminate
<1>29. ASSUME NEW s \in Sessions, FailGenerator(s) PROVE GeneratorInv'
  <2>1. (Taken => GdiOwner \in Docs)'
    BY <1>29 DEF FailGenerator
  <2>2. (blankSaved <=> Taken /\ GdiOwner \in BlankDocs)'
    BY <1>29 DEF FailGenerator
  <2>3. \A d \in Docs : blanking'[d] <=> d \in BlankDocs /\ ~(Taken' /\ d = GdiOwner')
    BY <1>29 DEF FailGenerator
  <2>4. \A d \in Docs : genOn'[d] => d = series' \/ (Taken' /\ d = GdiOwner')
    BY <1>29 DEF FailGenerator
  <2> QED
    BY <2>1, <2>2, <2>3, <2>4
<1>30. ASSUME NEW s \in Sessions, FailDoc(s) PROVE GeneratorInv'
  BY <1>30 DEF FailDoc
<1>31. ASSUME NEW s \in Sessions, ReleaseSensor(s) PROVE GeneratorInv'
  BY <1>31 DEF ReleaseSensor
<1>32. ASSUME NEW s \in Sessions, DeleteCS(s) PROVE GeneratorInv'
  BY <1>32 DEF DeleteCS
<1>a1. CASE StartAsked
  <2>1. Resumes("ask")
    BY <1>a1 DEF StartAsked
  <2> QED
    BY <1>a1, <2>1, ResumesQuietly DEF StartAsked, GoesOn
<1>a2. CASE StartShown
  <2>1. Resumes("show")
    BY <1>a2 DEF StartShown
  <2> QED
    BY <1>a2, <2>1, ResumesQuietly DEF StartShown, GoesOn
<1>a3. CASE StartGenFails
  <2>1. Resumes("fail")
    BY <1>a3 DEF StartGenFails
  <2>2. Taken /\ GdiOwner = Head(starting).doc /\ ~Taken'
    BY <1>a3, <2>1, ResumesQuietly DEF StartGenFails
  <2>3. /\ blanking' = (IF blankSaved THEN [blanking EXCEPT ![Head(starting).doc] = TRUE] ELSE blanking)
        /\ blankSaved' = FALSE /\ genOn' = genOn /\ series' = series
    BY <1>a3 DEF StartGenFails
  <2>4. /\ blankSaved <=> GdiOwner \in BlankDocs
        /\ \A d \in Docs : blanking[d] <=> d \in BlankDocs /\ d # GdiOwner
    BY <2>2
  <2>5. \A d \in Docs : blanking'[d] <=> d \in BlankDocs
    BY <2>2, <2>3, <2>4
  <2>6. \A d \in Docs : genOn'[d] => d = series' \/ (Taken' /\ d = GdiOwner')
    <3>1. ~genOn[Head(starting).doc]
      BY <2>1, ResumesQuietly
    <3>2. \A d \in Docs : genOn[d] => d = series \/ d = Head(starting).doc
      BY <2>2
    <3> QED
      BY <2>3, <3>1, <3>2
  <2> HIDE DEF Taken, GdiOwner
  <2> QED
    BY <2>2, <2>3, <2>5, <2>6
<1>a5. ASSUME NEW s \in Sessions, Shown(s) PROVE GeneratorInv'
  BY <1>a5 DEF Shown
<1>a6. ASSUME NEW s \in Sessions, FailButtons(s) PROVE GeneratorInv'
  BY <1>a6 DEF FailButtons
<1>33. CASE UNCHANGED vars
  BY <1>33 DEF vars
<1>c. CASE Commands
  BY <1>c, <1>1 DEF Commands, OnContinuousMeasurement, OtherCommand, MeasureCommand, OnCloseDocument
<1> HIDE DEF StateType, Clean, Collision, ThreadInv, Accounted, UiInv, GeneratorInv, GdiOwner,
        Taken, UiPCs, ThreadPCs, WorkPCs, ExitPCs, FailPCs, Over, Live, Failing, Working,
        Serving, Exiting, Failed, QuietPCs, Known, Finish, Advance, Return, Thread, Crash, Ui,
        Restored, ReleaseGenerator, ui, globals, threads, devices, docs, data
<1> QED
  BY <1>c, <1>a1, <1>a2, <1>a3, <1>a5, <1>a6, NobodyCrashes, <1>20a, <1>2, <1>3, <1>4, <1>5, <1>6, <1>7, <1>8, <1>9, <1>10, <1>11, <1>12, <1>13,
     <1>14, <1>15, <1>16, <1>17, <1>18, <1>19, <1>20, <1>21, <1>22, <1>23, <1>24, <1>25,
     <1>26, <1>27, <1>28, <1>29, <1>30, <1>31, <1>32, <1>33
  DEF Next, UiStep, Resume, Start, Stop, Refresh, BkgndThread

\* The starts that wait change where StartBackgroundMeasures dispatches messages, and
\* when it goes on.
LEMMA StartingKept ==
  [Next]_vars =>
    \/ starting' = starting
    \/ StartSensor \/ StartGenerator
    \/ StartAsked \/ StartShown \/ StartGenFails \/ StartCrashes
BY DEF Next, Commands, UiStep, Resume, Start, Stop, Refresh, BkgndThread, vars, docs,
   OnContinuousMeasurement, OtherCommand, MeasureCommand, OnCloseDocument, Command,
   StartRefused, StartThread, StartThreadFails, StartAssign,
   StopRequest, StopTarget, StopWait, StopDoc, StopGenerator, SeriesBegin, SeriesEnd, Close,
   Dispatch, DrainEnter, Drain, LoopTop, Shown, Measured, Throws, CheckOk, CheckBad, Spin, Enter, Add,
   Post, FailHandle, FailTerminate, FailButtons, FailGenerator, FailDoc, ReleaseSensor, DeleteCS

\* Each step leaves a start that waits with what it may rely on.
LEMMA StartingInvStep ==
  ASSUME StateType, DataType, Clean, [Next]_vars, ~Collision'
  PROVE  StartingInv'
<1>0. /\ StartingInv /\ NoDoc \notin Docs /\ open \subseteq Docs
      /\ mpc \in {"start", "startGen", "startThread", "startAssign"} => starting = <<>>
      /\ ~Interrupted'
  BY NoStartBeneath, NoDocIsNone DEF Clean, Collision, StartPCs, StateType
<1> SUFFICES ASSUME starting' # <<>> PROVE StartingInv'
  BY DEF StartingInv
<1>1. CASE StartSensor \/ StartGenerator
  <2>1. /\ mpc \in {"start", "startGen"} /\ starting = <<>>
        /\ UNCHANGED <<hThread, runningDoc, genRunning, tpc, series, open>>
    BY <1>0, <1>1 DEF StartSensor, StartGenerator, globals, threads
  <2>2. PICK at \in {"ask", "fail", "show"} :
          /\ Pumps(at) /\ (mpc = "start" => at = "ask")
          /\ at = "fail" => genOn' = genOn
    BY <1>1, <2>1 DEF StartSensor, StartGenerator
  <2>3. /\ Tail(starting') = <<>> /\ Head(starting').doc = mdoc /\ Head(starting').at = at
        /\ mpc' = "idle"
    BY <2>1, <2>2, PumpsQuietly DEF StartPCs
  <2>4. /\ hThread = NoSession /\ runningDoc = NoDoc /\ ~genRunning
        /\ \A s \in Sessions : ~Live(s)
        /\ mdoc \in open /\ mdoc # series /\ ~genOn[mdoc]
    BY <1>0, <2>1 DEF Clean, UiInv, QuietPCs, GeneratorInv, Taken, GdiOwner, Collision, StartPCs
  <2>5. at # "ask" => sensorReady'[mdoc]
    BY <1>1, <2>1, <2>2 DEF Clean, UiInv, StartGenerator, StartSensor
  <2> QED
    BY <2>1, <2>2, <2>3, <2>4, <2>5 DEF StartingInv, Live
<1>2. CASE StartAsked \/ StartShown \/ StartGenFails \/ StartCrashes
  BY <1>2, ResumesQuietly DEF StartAsked, StartShown, StartGenFails, StartCrashes
<1>3. CASE starting' = starting
  <2>0. /\ Tail(starting) = <<>> /\ Head(starting).doc \in open /\ Head(starting).doc # series
        /\ hThread = NoSession /\ runningDoc = NoDoc /\ ~genRunning
        /\ \A s \in Sessions : ~Live(s)
        /\ mpc \in {"idle", "stop", "stopDoc", "series", "close"}
        /\ Head(starting).at # "ask" => sensorReady[Head(starting).doc]
        /\ Head(starting).at = "fail" => ~genOn[Head(starting).doc]
    BY <1>0, <1>3 DEF StartingInv
  <2>1. ASSUME NEW s \in Sessions PROVE ~BkgndThread(s)
    BY <2>0 DEF BkgndThread, Live, Over, Thread, LoopTop, Shown, Measured, Throws, CheckOk, CheckBad,
       Spin, Enter, Add, Post, FailHandle, FailTerminate, FailButtons, FailGenerator, FailDoc,
       ReleaseSensor, DeleteCS
  <2>2. mpc' \notin StartPCs /\ (mpc' \in {"series", "close"} => mdoc' # Head(starting).doc)
    BY <1>0, <1>3 DEF Interrupted
  <2>3. mpc \in {"series", "close"} => mdoc # Head(starting).doc
    BY <1>3 DEF Clean, Collision, Interrupted
  <2> USE <1>0, <1>3, <2>0, <2>2, <2>3
      DEF StartingInv, StartPCs, StateType, Live, Finish, Advance, Return, Ui,
          globals, threads, devices, docs, data
  <2>4. ASSUME NEW d \in Docs, NEW to \in {"start", "stop"}, NEW then, Command(d, to, then)
        PROVE  StartingInv'
    BY <2>4 DEF Command
  <2>5. CASE StopRequest
    BY <2>5 DEF StopRequest
  <2>6. CASE StopDoc
    BY <2>6 DEF StopDoc
  <2>7. CASE SeriesBegin
    BY <2>7 DEF SeriesBegin
  <2>8. CASE SeriesEnd
    <3>1. /\ series' = NoDoc /\ sensorReady' = [sensorReady EXCEPT ![series] = FALSE]
          /\ genOn' = [genOn EXCEPT ![series] = FALSE]
          /\ UNCHANGED <<mpc, mdoc, hThread, runningDoc, genRunning, tpc, open>>
      BY <2>8 DEF SeriesEnd, ui
    <3>2. /\ sensorReady'[Head(starting).doc] = sensorReady[Head(starting).doc]
          /\ genOn'[Head(starting).doc] = genOn[Head(starting).doc]
      BY <3>1
    <3>3. Head(starting).doc # series'
      BY <3>1
    <3> QED
      BY <3>1, <3>2, <3>3
  <2>9. CASE Close
    BY <2>9 DEF Close
  <2>10. CASE Dispatch
    BY <2>10 DEF Dispatch
  <2>11. CASE UNCHANGED vars
    BY <2>11 DEF vars, ui
  <2>12. ~(\/ StartRefused \/ \E s \in Sessions : StartThread(s)
          \/ StartThreadFails \/ StartAssign \/ StopTarget \/ StopWait \/ StopGenerator
          \/ DrainEnter \/ Drain)
    BY DEF StartRefused, StartThread, StartThreadFails, StartAssign, StopTarget, StopWait,
           StopGenerator, DrainEnter, Drain
  <2> QED
    BY <1>1, <1>2, <2>1, <2>4, <2>5, <2>6, <2>7, <2>8, <2>9, <2>10, <2>11, <2>12
    DEF Next, Commands, UiStep, Resume, Start, Stop, Refresh,
        OnContinuousMeasurement, OtherCommand, MeasureCommand, OnCloseDocument
<1> QED
  BY <1>1, <1>2, <1>3, StartingKept

\* A sensor stays accounted for when its holders stay.
LEMMA SensorKept ==
  ASSUME SensorInv, tdoc' = tdoc, starting' = starting,
         \A s \in Sessions : tpc[s] = "unborn" <=> tpc'[s] = "unborn",
         \A d \in Docs : sensorReady'[d] =>
           /\ sensorReady[d]
           /\ d = series => d = series'
           /\ d = mdoc /\ mpc \in {"startGen", "startThread"} =>
                d = mdoc' /\ mpc' \in {"startGen", "startThread"}
           /\ \A s \in Sessions : tdoc[s] = d /\ Holds(s) => Holds(s)'
  PROVE  SensorInv'
BY DEF SensorInv, Latest

\* Each step leaves each initialised sensor with somebody to release it, or with a
\* session that threw.
LEMMA SensorInvStep ==
  ASSUME StateType, DataType, Clean, [Next]_vars
  PROVE  SensorInv'
<1>0. SensorInv /\ NoDoc \notin Docs
  BY NoDocIsNone DEF Clean
<1> USE DEF StateType, WorkPCs, FailPCs, ExitPCs, Holds, Finish, Advance, Return, Thread, Crash, Ui,
        ReleaseGenerator, ui, globals, threads, devices, docs, data
<1>1. ASSUME NEW d \in Docs, NEW to, NEW then, Command(d, to, then)
     PROVE  SensorInv'
  BY <1>0, <1>1, SensorKept DEF Command
<1>2. CASE StartRefused
  BY <1>0, <1>2, SensorKept DEF StartRefused
<1>3. CASE StartAssign
  BY <1>0, <1>3, SensorKept DEF StartAssign
<1>4. CASE StopRequest
  BY <1>0, <1>4, SensorKept DEF StopRequest
<1>5. CASE StopTarget
  BY <1>0, <1>5, SensorKept DEF StopTarget
<1>6. CASE StopWait
  BY <1>0, <1>6, SensorKept DEF StopWait
<1>7. CASE StopDoc
  BY <1>0, <1>7, SensorKept DEF StopDoc
<1>8. CASE StopGenerator
  BY <1>0, <1>8, SensorKept DEF StopGenerator
<1>9. CASE DrainEnter
  BY <1>0, <1>9, SensorKept DEF DrainEnter
<1>10. CASE Drain
  BY <1>0, <1>10, SensorKept DEF Drain
<1>11. CASE Dispatch
  BY <1>0, <1>11, SensorKept DEF Dispatch
<1>12. CASE StartSensor
  <2>1. starting = <<>> /\ mpc = "start"
    BY <1>12, NoStartBeneath DEF StartSensor, StartPCs
  <2>2. CASE Pumps("ask")
    <3>1. UNCHANGED <<tpc, tdoc, series, sensorReady>>
      BY <1>12, <2>1, <2>2, PumpsQuietly DEF StartSensor, StartPCs
    <3> QED
      BY <1>0, <2>1, <3>1 DEF SensorInv, Latest
  <2>3. CASE ~Pumps("ask")
    BY <1>0, <1>12, <2>1, <2>3 DEF StartSensor, SensorInv, Latest
  <2> QED
    BY <2>2, <2>3
<1>13. CASE StartGenerator
  <2>1. starting = <<>> /\ mpc = "startGen" /\ UNCHANGED <<tpc, tdoc, series, sensorReady>>
    BY <1>13, NoStartBeneath DEF StartGenerator, StartPCs
  <2>2. CASE mpc' = "startThread" /\ mdoc' = mdoc /\ starting' = starting
    BY <1>0, <2>1, <2>2 DEF SensorInv, Latest
  <2>3. CASE Pumps("show") \/ Pumps("fail")
    <3>1. starting' # <<>> /\ Head(starting').doc = mdoc /\ Head(starting').at # "ask"
      BY <2>1, <2>3, PumpsQuietly DEF StartPCs
    <3> QED
      BY <1>0, <2>1, <3>1 DEF SensorInv, Latest
  <2> QED
    BY <1>13, <2>2, <2>3 DEF StartGenerator
<1>a1. CASE StartAsked
  <2>1. /\ mpc = "idle" /\ starting' = <<>> /\ Head(starting).at = "ask"
        /\ UNCHANGED <<tpc, tdoc, series>>
    BY <1>a1, ResumesQuietly DEF StartAsked
  <2> QED
    BY <1>0, <1>a1, <2>1 DEF StartAsked, GoesOn, SensorInv, Latest
<1>a2. CASE StartShown
  <2>1. /\ mpc = "idle" /\ starting' = <<>> /\ mpc' = "startThread" /\ mdoc' = Head(starting).doc
        /\ UNCHANGED <<tpc, tdoc, series, sensorReady>>
    BY <1>a2, ResumesQuietly DEF StartShown, GoesOn
  <2> QED
    BY <1>0, <2>1 DEF SensorInv, Latest
<1>a3. CASE StartGenFails
  <2>1. /\ mpc = "idle" /\ starting' = <<>> /\ Head(starting).doc \in Docs
        /\ sensorReady' = [sensorReady EXCEPT ![Head(starting).doc] = FALSE]
        /\ UNCHANGED <<tpc, tdoc, series, mpc, mdoc>>
    BY <1>a3, ResumesQuietly DEF StartGenFails
  <2> QED
    BY <1>0, <2>1 DEF SensorInv, Latest
<1>14. CASE StartThreadFails
  BY <1>0, <1>14 DEF StartThreadFails, SensorInv, Latest
<1>15. CASE SeriesBegin
  <2>1. /\ mdoc \in Docs /\ series = NoDoc /\ mpc = "series"
        /\ UNCHANGED <<tpc, tdoc, starting>>
    BY <1>15 DEF SeriesBegin, Clean, UiInv
  <2>2. CASE series' = mdoc /\ sensorReady' = [sensorReady EXCEPT ![mdoc] = TRUE]
    <3>1. ASSUME NEW d \in Docs, sensorReady'[d]
          PROVE  d = series' \/ (sensorReady[d] /\ d # series)
      <4>1. sensorReady \in [Docs -> BOOLEAN] /\ d # series
        BY <1>0, <2>1
      <4> QED
        BY <2>2, <3>1, <4>1
    <3> QED
      BY <1>0, <2>1, <3>1 DEF SensorInv, Latest
  <2>3. CASE UNCHANGED <<series, sensorReady>>
    BY <1>0, <2>1, <2>3 DEF SensorInv, Latest
  <2> QED
    BY <1>15, <2>2, <2>3 DEF SeriesBegin
<1>16. CASE SeriesEnd
  BY <1>0, <1>16 DEF SeriesEnd, SensorInv, Latest
<1>17. CASE Close
  BY <1>0, <1>17 DEF Close, SensorInv, Latest
<1>18. ASSUME NEW s \in Sessions, StartThread(s) PROVE SensorInv'
  <2>1. /\ tdoc' = [tdoc EXCEPT ![s] = mdoc] /\ tpc' = [tpc EXCEPT ![s] = "top"]
        /\ UNCHANGED <<sensorReady, series>> /\ mdoc \in Docs /\ starting = <<>>
        /\ tpc[s] = "unborn" /\ \A t \in Sessions : t < s => tpc[t] # "unborn"
    BY <1>18, NoStartBeneath DEF StartThread, Clean, UiInv, StartPCs
  <2>2. \A t \in Sessions : tpc[t] = "unborn" <=> tdoc[t] = NoDoc
    BY DEF Clean, ThreadInv, Accounted
  <2>3. \A t, u \in Sessions : t < u /\ tpc'[u] # "unborn" => tpc'[t] # "unborn"
    BY <1>0, <2>1 DEF SensorInv
  <2>4. tdoc'[s] = mdoc /\ Holds(s)' /\ Latest(s)'
    BY <1>0, <2>1, <2>2 DEF SensorInv, Latest, Sessions
  <2>5. ASSUME NEW d \in Docs, d # mdoc, NEW t \in Sessions, tdoc[t] = d, Holds(t), Latest(t)
        PROVE  tdoc'[t] = d /\ Holds(t)' /\ Latest(t)'
    BY <2>1, <2>2, <2>5, <1>0 DEF Latest
  <2>6. ASSUME NEW d \in Docs, sensorReady'[d]
        PROVE  d = series' \/ \E t \in Sessions : tdoc'[t] = d /\ Holds(t)' /\ Latest(t)'
    <3>1. CASE d = mdoc
      BY <2>4, <3>1
    <3>2. CASE d # mdoc
      BY <1>0, <2>1, <2>5, <2>6, <3>2 DEF SensorInv
    <3> QED
      BY <3>1, <3>2
  <2> QED
    BY <2>3, <2>6 DEF SensorInv
<1>19. ASSUME NEW s \in Sessions, LoopTop(s) PROVE SensorInv'
  BY <1>0, <1>19, SensorKept DEF LoopTop
<1>a5. ASSUME NEW s \in Sessions, Shown(s) PROVE SensorInv'
  BY <1>0, <1>a5, SensorKept DEF Shown
<1>a6. ASSUME NEW s \in Sessions, FailButtons(s) PROVE SensorInv'
  <2>1. tpc[s] = "failShow" /\ runningDoc # NoDoc
    BY <1>0, <1>a6 DEF FailButtons, Clean, ThreadInv, Accounted
  <2>2. mpc' = mpc /\ tpc' = [tpc EXCEPT ![s] = "fail3"] /\ UNCHANGED <<series, starting, mdoc, tdoc, sensorReady>>
    BY <1>a6, <2>1 DEF FailButtons
  <2> QED
    BY <1>0, <2>1, <2>2, SensorKept
<1>20. ASSUME NEW s \in Sessions, Measured(s) PROVE SensorInv'
  BY <1>0, <1>20, SensorKept DEF Measured
<1>21. ASSUME NEW s \in Sessions, Throws(s) PROVE SensorInv'
  BY <1>0, <1>21, SensorKept DEF Throws
<1>22. ASSUME NEW s \in Sessions, CheckOk(s) PROVE SensorInv'
  BY <1>0, <1>22, SensorKept DEF CheckOk
<1>23. ASSUME NEW s \in Sessions, CheckBad(s) PROVE SensorInv'
  BY <1>0, <1>23, SensorKept DEF CheckBad
<1>24. ASSUME NEW s \in Sessions, Spin(s) PROVE SensorInv'
  BY <1>0, <1>24, SensorKept DEF Spin
<1>25. ASSUME NEW s \in Sessions, Enter(s) PROVE SensorInv'
  <2>1. csLive
    BY <1>25 DEF Enter, Clean, ThreadInv, Accounted, Serving, Working
  <2>2. mpc' = mpc /\ tpc' = [tpc EXCEPT ![s] = "add"] /\ tpc[s] = "enter"
    BY <1>25, <2>1 DEF Enter
  <2> QED
    BY <1>0, <1>25, <2>2, SensorKept DEF Enter
<1>26. ASSUME NEW s \in Sessions, Add(s) PROVE SensorInv'
  BY <1>0, <1>26, SensorKept DEF Add
<1>27. ASSUME NEW s \in Sessions, Post(s) PROVE SensorInv'
  BY <1>0, <1>27, SensorKept DEF Post
<1>28. ASSUME NEW s \in Sessions, FailHandle(s) PROVE SensorInv'
  BY <1>0, <1>28, SensorKept DEF FailHandle
<1>29. ASSUME NEW s \in Sessions, FailTerminate(s) PROVE SensorInv'
  BY <1>0, <1>29, SensorKept DEF FailTerminate
<1>30. ASSUME NEW s \in Sessions, FailGenerator(s) PROVE SensorInv'
  <2>1. tpc[s] = "fail3" /\ runningDoc # NoDoc
    BY <1>0, <1>30 DEF FailGenerator, Clean, ThreadInv, Accounted
  <2>2. mpc' = mpc /\ tpc' = [tpc EXCEPT ![s] = "fail4"] /\ UNCHANGED <<series, starting, mdoc, tdoc, sensorReady>>
    BY <1>30, <2>1 DEF FailGenerator
  <2> QED
    BY <1>0, <2>1, <2>2, SensorKept
<1>31. ASSUME NEW s \in Sessions, FailDoc(s) PROVE SensorInv'
  BY <1>0, <1>31, SensorKept DEF FailDoc
<1>32. ASSUME NEW s \in Sessions, DeleteCS(s) PROVE SensorInv'
  BY <1>0, <1>32, SensorKept DEF DeleteCS
<1>33. ASSUME NEW s \in Sessions, ReleaseSensor(s) PROVE SensorInv'
  <2>1. /\ tdoc[s] \in Docs => ~sensorReady'[tdoc[s]]
        /\ \A d \in Docs : sensorReady'[d] => sensorReady[d] /\ d # tdoc[s]
        /\ \A t \in Sessions : t # s => tpc'[t] = tpc[t]
        /\ tpc[s] # "unborn" /\ tpc'[s] # "unborn"
        /\ UNCHANGED <<tdoc, series, starting, mdoc, mpc>>
    BY <1>33 DEF ReleaseSensor
  <2> QED
    BY <1>0, <2>1, SensorKept
<1>34. CASE UNCHANGED vars
  BY <1>0, <1>34 DEF vars, SensorInv, Latest
<1> HIDE DEF StateType, WorkPCs, FailPCs, ExitPCs, Holds, Finish, Advance, Return, Thread,
        Crash, Ui, ReleaseGenerator, ui, globals, threads, devices, docs, data
<1> QED
  BY <1>a1, <1>a2, <1>a3, <1>a5, <1>a6, NobodyCrashes, <1>0, <1>1, <1>2, <1>3, <1>4, <1>5, <1>6, <1>7, <1>8, <1>9, <1>10, <1>11, <1>12, <1>13,
     <1>14, <1>15, <1>16, <1>17, <1>18, <1>19, <1>20, <1>21, <1>22, <1>23, <1>24, <1>25,
     <1>26, <1>27, <1>28, <1>29, <1>30, <1>31, <1>32, <1>33, <1>34
  DEF Next, Commands, UiStep, Resume, Start, Stop, Refresh, BkgndThread,
      OnContinuousMeasurement, OtherCommand, MeasureCommand, OnCloseDocument

\* The list and the free measures name sessions.
LEMMA ListedSessions ==
  ASSUME DataType
  PROVE  /\ \A i \in DOMAIN list : list[i][1] \in Sessions
         /\ \A d \in Docs : \A i \in DOMAIN free[d] : free[d][i][1] \in Sessions
BY ElementOfSeq, LenProperties DEF DataType, Measures

\* No session is taken away from those expected and at home.
BelongingsKept ==
  /\ \A t \in Sessions : Expected(t) => Expected(t)'
  /\ \A t \in Sessions, e \in Docs : AtHome(t, e) => AtHome(t, e)'

\* A step that changes neither the list nor a document keeps their measures in order.
LEMMA ListKept ==
  ASSUME DataType, ListInv, UNCHANGED <<list, free>>,
         BelongingsKept
  PROVE  ListInv'
BY ListedSessions DEF ListInv, BelongingsKept

\* Apart from the end of a wait, a step takes no session away from those expected
\* and at home.
LEMMA StaysExpected ==
  ASSUME StateType, DataType, Clean, [Next]_vars, ~Collision', ~StopWait
  PROVE  BelongingsKept
<1> USE NoSessionIsNone, NoDocIsNone DEF StateType, Clean, Collision, ThreadInv, Accounted, UiInv, BelongingsKept, Expected, AtHome,
        UiPCs, ThreadPCs, WorkPCs, ExitPCs, FailPCs,
        Over, Live, Failing, Working, Serving, Exiting, Failed, QuietPCs, Known,
        Finish, Advance, Return, Thread, Crash, Ui, Restored, ReleaseGenerator,
        ui, globals, threads, devices, docs, data
<1>1. ASSUME NEW d \in Docs, NEW to \in {"start", "stop"},
             NEW then \in {"idle", "start", "series", "close"},
             to = "start" => then = "idle" /\ runningDoc = NoDoc,
             then = "series" => series = NoDoc,
             Command(d, to, then)
       PROVE BelongingsKept
  BY <1>1 DEF Command
<1>2. CASE StartRefused
  BY <1>2 DEF StartRefused
<1>3. CASE StartSensor
  BY <1>3 DEF StartSensor, Pumps
<1>4. CASE StartGenerator
  BY <1>4 DEF StartGenerator, Pumps
<1>5. CASE StartThreadFails
  BY <1>5 DEF StartThreadFails
<1>6. CASE StartAssign
  BY <1>6 DEF StartAssign
<1>7. CASE StopRequest
  BY <1>7 DEF StopRequest
<1>8. CASE StopTarget
  BY <1>8 DEF StopTarget
<1>9. CASE StopDoc
  BY <1>9 DEF StopDoc
<1>10. CASE StopGenerator
  BY <1>10 DEF StopGenerator
<1>11. CASE DrainEnter
  BY <1>11 DEF DrainEnter
<1>12. CASE Drain
  BY <1>12 DEF Drain
<1>13. CASE SeriesBegin
  BY <1>13 DEF SeriesBegin
<1>14. CASE Close
  BY <1>14 DEF Close
<1>15. CASE Dispatch
  BY <1>15 DEF Dispatch
<1>16. CASE SeriesEnd
  BY <1>16 DEF SeriesEnd
<1>17. ASSUME NEW s \in Sessions, StartThread(s) PROVE BelongingsKept
  BY <1>17 DEF StartThread
<1>18. ASSUME NEW s \in Sessions, LoopTop(s) PROVE BelongingsKept
  BY <1>18 DEF LoopTop
<1>19. ASSUME NEW s \in Sessions, Measured(s) PROVE BelongingsKept
  BY <1>19 DEF Measured
<1>20a. ASSUME NEW s \in Sessions, Throws(s) PROVE BelongingsKept
  BY <1>20a DEF Throws
<1>20. ASSUME NEW s \in Sessions, CheckOk(s) PROVE BelongingsKept
  BY <1>20 DEF CheckOk
<1>21. ASSUME NEW s \in Sessions, CheckBad(s) PROVE BelongingsKept
  BY <1>21 DEF CheckBad
<1>22. ASSUME NEW s \in Sessions, Spin(s) PROVE BelongingsKept
  BY <1>22 DEF Spin
<1>23. ASSUME NEW s \in Sessions, Enter(s) PROVE BelongingsKept
  BY <1>23 DEF Enter
<1>24. ASSUME NEW s \in Sessions, Add(s) PROVE BelongingsKept
  BY <1>24 DEF Add
<1>25. ASSUME NEW s \in Sessions, Post(s) PROVE BelongingsKept
  BY <1>25 DEF Post
<1>26. ASSUME NEW s \in Sessions, FailHandle(s) PROVE BelongingsKept
  BY <1>26 DEF FailHandle
<1>27. ASSUME NEW s \in Sessions, FailTerminate(s) PROVE BelongingsKept
  BY <1>27 DEF FailTerminate
<1>28. ASSUME NEW s \in Sessions, FailGenerator(s) PROVE BelongingsKept
  BY <1>28 DEF FailGenerator
<1>29. ASSUME NEW s \in Sessions, FailDoc(s) PROVE BelongingsKept
  BY <1>29 DEF FailDoc
<1>30. ASSUME NEW s \in Sessions, ReleaseSensor(s) PROVE BelongingsKept
  BY <1>30 DEF ReleaseSensor
<1>31. ASSUME NEW s \in Sessions, DeleteCS(s) PROVE BelongingsKept
  BY <1>31 DEF DeleteCS
<1>a1. CASE StartAsked
  <2>1. Resumes("ask")
    BY <1>a1 DEF StartAsked
  <2> QED
    BY <1>a1, <2>1, ResumesQuietly DEF StartAsked, GoesOn
<1>a2. CASE StartShown
  <2>1. Resumes("show")
    BY <1>a2 DEF StartShown
  <2> QED
    BY <1>a2, <2>1, ResumesQuietly DEF StartShown, GoesOn
<1>a3. CASE StartGenFails
  <2>1. Resumes("fail")
    BY <1>a3 DEF StartGenFails
  <2> QED
    BY <1>a3, <2>1, ResumesQuietly DEF StartGenFails, GoesOn
<1>a5. ASSUME NEW s \in Sessions, Shown(s) PROVE BelongingsKept
  BY <1>a5 DEF Shown
<1>a6. ASSUME NEW s \in Sessions, FailButtons(s) PROVE BelongingsKept
  BY <1>a6 DEF FailButtons
<1>32. CASE UNCHANGED vars
  BY <1>32 DEF vars
<1> HIDE DEF StateType, Clean, Collision, ThreadInv, Accounted, UiInv, BelongingsKept,
        Expected, AtHome, UiPCs, ThreadPCs, WorkPCs, ExitPCs, FailPCs, Over, Live, Failing,
        Working, Serving, Exiting, Failed, QuietPCs, Known, Finish, Advance, Return, Thread,
        Crash, Ui, Restored, ReleaseGenerator, ui, globals, threads, devices, docs, data
<1> QED
  BY <1>a1, <1>a2, <1>a3, <1>a5, <1>a6, NobodyCrashes, <1>20a, <1>1, <1>2, <1>3, <1>4, <1>5, <1>6, <1>7, <1>8, <1>9, <1>10, <1>11, <1>12, <1>13,
     <1>14, <1>15, <1>16, <1>17, <1>18, <1>19, <1>20, <1>21, <1>22, <1>23, <1>24, <1>25,
     <1>26, <1>27, <1>28, <1>29, <1>30, <1>31, <1>32
  DEF Next, Commands, UiStep, Resume, Start, Stop, Refresh, BkgndThread,
      OnContinuousMeasurement, OtherCommand, MeasureCommand, OnCloseDocument

\* Each step leaves in the list, and in each document, measures that belong there.
LEMMA ListInvStep ==
  ASSUME StateType, DataType, Clean, [Next]_vars, ~Collision'
  PROVE  ListInv'
<1>0. ListInv
  BY DEF Clean
<1>1. CASE StopWait
  <2>1. list' = <<>> /\ UNCHANGED <<free, tpc, tdoc>>
    BY <1>1 DEF StopWait, threads
  <2> QED
    BY <1>0, <2>1 DEF ListInv, AtHome, Failed
<1>2. CASE ~StopWait
  <2>0. BelongingsKept
    BY <1>2, StaysExpected
  <2>1. CASE UNCHANGED <<list, free>>
    BY <1>0, <2>0, <2>1, ListKept
  <2>2. ASSUME NEW s \in Sessions, Add(s) PROVE ListInv'
    <3>1. list' = Append(list, <<s, tcount[s]>>) /\ free' = free
      BY <2>2 DEF Add
    <3>2. Expected(s)
      BY <2>2 DEF Add, Thread, Clean, ThreadInv, Accounted, Serving, Working, WorkPCs, Expected
    <3>3. <<s, tcount[s]>> \in Measures
      BY DEF StateType, Measures
    <3>4. \A i \in DOMAIN list' : (i \in DOMAIN list /\ list'[i] = list[i]) \/ list'[i] = <<s, tcount[s]>>
      BY <3>1, <3>3, AppendProperties, LenProperties DEF DataType
    <3>5. \A i \in DOMAIN list' : list'[i][1] \in Sessions /\ Expected(list'[i][1])
      BY <1>0, <3>2, <3>4, ListedSessions DEF ListInv
    <3>6. \A d \in Docs : \A i \in DOMAIN free[d] : free[d][i][1] \in Sessions /\ AtHome(free[d][i][1], d)
      BY <1>0, ListedSessions DEF ListInv
    <3> QED
      BY <2>0, <3>1, <3>5, <3>6 DEF ListInv, BelongingsKept
  <2>3. CASE Drain
    <3>1. runningDoc \in Docs /\ runningDoc = mdoc
      BY <2>3 DEF Drain, Clean, UiInv, InsideBkgndRefresh
    <3> DEFINE n == IF Len(list) < Views[runningDoc] THEN Len(list) ELSE Views[runningDoc]
               taken == SubSeq(list, 1, n)
    <3>2. n \in Nat /\ n <= Len(list)
      BY <3>1, DocsAssumption, LenProperties DEF DataType
    <3>3. /\ taken \in Seq(Measures) /\ Len(taken) = n
          /\ \A i \in 1 .. n : taken[i] = list[i]
      BY <3>2, PrefixType DEF DataType
    <3>4. list' = <<>> /\ free' = [free EXCEPT ![mdoc] = free[mdoc] \o taken]
      BY <2>3, <3>1, NoDocIsNone DEF Drain
    <3>5. \A i \in 1 .. n : AtHome(list[i][1], mdoc)
      BY <1>0, <3>1, <3>2, LenProperties DEF ListInv, Expected, AtHome, DataType
    <3>6. \A i \in DOMAIN (free[mdoc] \o taken) : AtHome((free[mdoc] \o taken)[i][1], mdoc)
      <4>1. free[mdoc] \in Seq(Measures)
        BY <3>1 DEF DataType
      <4>2. ASSUME NEW i \in DOMAIN (free[mdoc] \o taken)
            PROVE  \/ i \in DOMAIN free[mdoc] /\ (free[mdoc] \o taken)[i] = free[mdoc][i]
                   \/ \E j \in 1 .. n : (free[mdoc] \o taken)[i] = list[j]
        <5> HIDE DEF taken, n
        <5>1. /\ i \in 1 .. Len(free[mdoc]) + n
              /\ (free[mdoc] \o taken)[i] =
                   IF i <= Len(free[mdoc]) THEN free[mdoc][i] ELSE taken[i - Len(free[mdoc])]
          BY <3>2, <3>3, <4>1, ConcatProperties, LenProperties
        <5>2. Len(free[mdoc]) \in Nat /\ DOMAIN free[mdoc] = 1 .. Len(free[mdoc])
          BY <4>1, LenProperties
        <5>3. CASE i <= Len(free[mdoc])
          BY <5>1, <5>2, <5>3
        <5>4. CASE ~(i <= Len(free[mdoc]))
          <6>1. i - Len(free[mdoc]) \in 1 .. n
            BY <3>2, <5>1, <5>2, <5>4
          <6> QED
            BY <3>3, <5>1, <5>4, <6>1
        <5> QED
          BY <5>3, <5>4
      <4> QED
        BY <1>0, <3>1, <3>5, <4>2 DEF ListInv
    <3>7. \A d \in Docs : \A i \in DOMAIN free'[d] : AtHome(free'[d][i][1], d)
      BY <1>0, <3>1, <3>4, <3>6 DEF ListInv, DataType
    <3>8. \A t, e : AtHome(t, e) => AtHome(t, e)'
      BY <2>3 DEF Drain, threads, AtHome, Failed
    <3>9. (\A i \in DOMAIN list : Expected(list[i][1]))'
      BY <3>4, EmptySeq
    <3>10. (\A d \in Docs : \A i \in DOMAIN free[d] : AtHome(free[d][i][1], d))'
      BY <3>7, <3>8
    <3> QED
      BY <3>9, <3>10, Zenon DEF ListInv
  <2>4. CASE Dispatch
    BY <2>1, <2>4 DEF Dispatch
  <2>5. ASSUME NEW s \in Sessions, Post(s) PROVE ListInv'
    BY <2>1, <2>5 DEF Post
  <2>6. CASE UNCHANGED data
    BY <2>1, <2>6 DEF data
  <2> QED
    BY <1>2, <2>2, <2>3, <2>4, <2>5, <2>6, DataUnchanged
<1> QED
  BY <1>1, <1>2

LEMMA InitClean == Init => SafetyInv
<1> SUFFICES ASSUME Init PROVE Clean
  BY DEF SafetyInv
<1> USE NoSessionIsNone, NoDocIsNone DEF Init
<1>1. ~Collision
  BY DEF Collision, Interrupted
<1>2. ThreadInv
  BY DEF ThreadInv, Accounted, Live, Over, Serving, Working, WorkPCs, Exiting, ExitPCs, FailPCs
<1>3. UiInv
  BY DEF UiInv, InsideBkgndRefresh, QuietPCs
<1>4. GeneratorInv
  BY DEF GeneratorInv, GdiOwner, Taken
<1>4a. StartingInv
  BY DEF StartingInv
<1>5. ListInv
  BY DEF ListInv
<1>6. SensorInv
  BY DEF SensorInv
<1> HIDE DEF Init
<1> QED
  BY <1>1, <1>2, <1>3, <1>4, <1>4a, <1>5, <1>6 DEF Clean

LEMMA SafetyStep == TypeOK /\ SafetyInv /\ [Next]_vars => SafetyInv'
<1> SUFFICES ASSUME TypeOK, SafetyInv, [Next]_vars, ~raced' PROVE Clean'
  BY DEF SafetyInv
<1>1. ~raced /\ ~Collision'
  <2>1. CASE UNCHANGED vars
    BY <2>1 DEF vars, ui, globals, threads, docs, SafetyInv, Clean, Collision, Interrupted, Failing
  <2>2. CASE Watch
    <3>1. raced' = (raced \/ Collision')
      BY <2>2 DEF Watch
    <3> QED
      BY <3>1, Zenon
  <2> QED
    BY <2>1, <2>2, Watched
<1>2. StateType /\ DataType /\ Clean
  BY <1>1 DEF TypeOK, SafetyInv
<1> QED
  BY <1>1, <1>2, ThreadInvStep, UiInvStep, StartingInvStep, GeneratorInvStep,
     SensorInvStep, ListInvStep DEF Clean

\* As long as no failing thread overlapped a command and no start was interrupted by
\* what meddles with it, the background thread is where the five globals of
\* datasetdoc.cpp say it is, and the generator too.
THEOREM Safety == Spec => []SafetyInv
BY InitType, InitClean, TypeStep, SafetyStep, PTL DEF Spec

\* The whole of the inductive invariant, types included.
THEOREM Inductive == Spec => []Inv
BY Typing, Safety, PTL DEF Inv

\* StartBackgroundMeasures never creates a second thread beside a live one.
THEOREM AlwaysOneThread == Spec => []OneThread
<1>1. SafetyInv => OneThread
  BY DEF SafetyInv, Clean, ThreadInv, Accounted, OneThread
<1> QED
  BY <1>1, Safety, PTL

\* The assumption that opens BkgndThreadFunc: its sensor is initialised.
THEOREM SensorStaysInitialized == Spec => []SensorIsInitializedUnlessRaced
<1>1. SafetyInv => SensorIsInitializedUnlessRaced
  BY DEF SafetyInv, Clean, ThreadInv, Accounted, Working, WorkPCs,
         SensorIsInitialized, SensorIsInitializedUnlessRaced
<1> QED
  BY <1>1, Safety, PTL

\* No NULL document and no deleted critical section is used by either thread.
THEOREM NoCrash == Spec => []NeverCrashes
<1>1. SafetyInv => NeverCrashes
  BY DEF SafetyInv, Clean, UiInv, NeverCrashes
<1> QED
  BY <1>1, Safety, PTL

\* However a session ended, the generator is released with its blanking flag, and the
\* sensor, unless its thread has still to release it or was ended by an exception.
THEOREM DevicesComeBack == Spec => []DevicesGivenBack
<1>1. SafetyInv => DevicesGivenBack
  <2> SUFFICES ASSUME Clean, mpc = "idle", runningDoc = NoDoc, starting = <<>>
               PROVE  DevicesGivenBack
    BY DEF SafetyInv, DevicesGivenBack
  <2>1. /\ ~genRunning /\ ~blankSaved
        /\ \A d \in Docs : (blanking[d] <=> d \in BlankDocs) /\ (genOn[d] => d = series)
    BY NoDocIsNone DEF Clean, GeneratorInv, GdiOwner, Taken
  <2>2. ASSUME NEW s \in Sessions, NEW d \in Docs, tdoc[s] = d, Holds(s)
        PROVE  tpc[s] \in {"failRelease", "thrown"}
    BY <2>2, NoDocIsNone DEF Clean, ThreadInv, Accounted, Serving, Working, Exiting, ExitPCs, FailPCs, Holds
  <2> QED
    BY <2>1, <2>2 DEF Clean, SensorInv, DevicesGivenBack
<1> QED
  BY <1>1, Safety, PTL

\* A measure reaches the document whose sensor made it, unless its session failed.
THEOREM MeasuresComeHome == Spec => []MeasuresGoHome
<1>1. SafetyInv => MeasuresGoHome
  BY DEF SafetyInv, Clean, ListInv, AtHome, Failed, MeasuresGoHome
<1> QED
  BY <1>1, Safety, PTL

\* A series of measures never starts beside a background thread.
THEOREM SeriesAlone == Spec => SeriesStartsAlone
<1>1. TypeOK /\ SafetyInv /\ [Next]_vars =>
        [series = NoDoc /\ series' # NoDoc => raced \/ \A s \in Sessions : ~Live(s)]_vars
  <2> SUFFICES ASSUME Clean, [Next]_vars, series = NoDoc, series' # NoDoc
               PROVE  \A s \in Sessions : ~Live(s)
    BY DEF SafetyInv
  <2>1. SeriesBegin
    BY DEF Next, Commands, UiStep, Resume, Start, Stop, Refresh, BkgndThread, vars, docs,
       OnContinuousMeasurement, OtherCommand, MeasureCommand, OnCloseDocument, Command,
       StartRefused, StartSensor, StartGenerator,
       StartAsked, StartShown, StartGenFails, StartCrashes, StartThread, StartThreadFails, StartAssign,
       StopRequest, StopTarget, StopWait, StopDoc, StopGenerator, SeriesEnd, Close,
       Dispatch, DrainEnter, Drain, LoopTop, Shown, Measured, Throws, CheckOk, CheckBad, Spin, Enter, Add, Post,
       FailHandle, FailTerminate, FailButtons, FailGenerator, FailDoc, ReleaseSensor, DeleteCS
  <2> QED
    BY <2>1 DEF SeriesBegin, Clean, UiInv, QuietPCs
<1> QED
  BY <1>1, Typing, Safety, PTL DEF Spec, SeriesStartsAlone

\* Each step keeps the documents that are started on, and the running one, open, as
\* long as it interrupts no start.
LEMMA OpenStep ==
  ASSUME StateType, StartsOnOpen, [Next]_vars, ~Interrupted'
  PROVE  StartsOnOpen'
<1> USE NoSessionIsNone, NoDocIsNone
    DEF StateType, StartsOnOpen, Interrupted, StartPCs, Finish, Advance, Return, Thread, Crash, Ui,
        ReleaseGenerator, ui, globals, threads, devices, docs, data
<1>1. ASSUME NEW d \in Docs, NEW to \in {"start", "stop"},
             NEW then \in {"idle", "start", "series", "close"},
             Command(d, to, then)
      PROVE  StartsOnOpen'
  BY <1>1 DEF Command
<1>2. CASE StartRefused
  BY <1>2 DEF StartRefused
<1>3. CASE StartSensor
  <2>1. starting = <<>> /\ mpc = "start"
    BY <1>3 DEF StartSensor
  <2>2. CASE Pumps("ask")
    BY <1>3, <2>1, <2>2, Pushed DEF StartSensor, Pumps
  <2>3. CASE ~Pumps("ask")
    BY <1>3, <2>1, <2>3 DEF StartSensor
  <2> QED
    BY <2>2, <2>3
<1>4. CASE StartGenerator
  <2>1. starting = <<>> /\ mpc = "startGen" /\ UNCHANGED <<runningDoc, open>>
    BY <1>4 DEF StartGenerator
  <2>2. CASE Pumps("show") \/ Pumps("fail")
    BY <2>1, <2>2, Pushed DEF Pumps
  <2>3. CASE ~(Pumps("show") \/ Pumps("fail"))
    BY <1>4, <2>1, <2>3 DEF StartGenerator
  <2> QED
    BY <2>2, <2>3
<1>a1. CASE StartAsked
  BY <1>a1 DEF StartAsked, Resumes, GoesOn
<1>a2. CASE StartShown
  BY <1>a2 DEF StartShown, Resumes, GoesOn
<1>a3. CASE StartGenFails
  BY <1>a3 DEF StartGenFails, Resumes
<1>a4. CASE StartCrashes
  BY <1>a4 DEF StartCrashes, Resumes
<1>a5. ASSUME NEW s \in Sessions, Shown(s) PROVE StartsOnOpen'
  BY <1>a5 DEF Shown
<1>a6. ASSUME NEW s \in Sessions, FailButtons(s) PROVE StartsOnOpen'
  BY <1>a6 DEF FailButtons
<1>5. CASE StartThreadFails
  BY <1>5 DEF StartThreadFails
<1>6. CASE StartAssign
  BY <1>6 DEF StartAssign
<1>7. CASE StopRequest
  BY <1>7 DEF StopRequest
<1>8. CASE StopTarget
  BY <1>8 DEF StopTarget
<1>9. CASE StopWait
  BY <1>9 DEF StopWait
<1>10. CASE StopDoc
  BY <1>10 DEF StopDoc
<1>11. CASE StopGenerator
  BY <1>11 DEF StopGenerator
<1>12. CASE DrainEnter
  BY <1>12 DEF DrainEnter
<1>13. CASE Drain
  BY <1>13 DEF Drain
<1>14. CASE SeriesBegin
  BY <1>14 DEF SeriesBegin
<1>15. CASE Close
  BY <1>15 DEF Close
<1>16. CASE Dispatch
  BY <1>16 DEF Dispatch
<1>17. CASE SeriesEnd
  BY <1>17 DEF SeriesEnd
<1>18. ASSUME NEW s \in Sessions, StartThread(s) PROVE StartsOnOpen'
  BY <1>18 DEF StartThread
<1>19. ASSUME NEW s \in Sessions, LoopTop(s) PROVE StartsOnOpen'
  BY <1>19 DEF LoopTop
<1>20. ASSUME NEW s \in Sessions, Measured(s) PROVE StartsOnOpen'
  BY <1>20 DEF Measured
<1>20a. ASSUME NEW s \in Sessions, Throws(s) PROVE StartsOnOpen'
  BY <1>20a DEF Throws
<1>21. ASSUME NEW s \in Sessions, CheckOk(s) PROVE StartsOnOpen'
  BY <1>21 DEF CheckOk
<1>22. ASSUME NEW s \in Sessions, CheckBad(s) PROVE StartsOnOpen'
  BY <1>22 DEF CheckBad
<1>23. ASSUME NEW s \in Sessions, Spin(s) PROVE StartsOnOpen'
  BY <1>23 DEF Spin
<1>24. ASSUME NEW s \in Sessions, Enter(s) PROVE StartsOnOpen'
  BY <1>24 DEF Enter
<1>25. ASSUME NEW s \in Sessions, Add(s) PROVE StartsOnOpen'
  BY <1>25 DEF Add
<1>26. ASSUME NEW s \in Sessions, Post(s) PROVE StartsOnOpen'
  BY <1>26 DEF Post
<1>27. ASSUME NEW s \in Sessions, FailHandle(s) PROVE StartsOnOpen'
  BY <1>27 DEF FailHandle
<1>28. ASSUME NEW s \in Sessions, FailTerminate(s) PROVE StartsOnOpen'
  BY <1>28 DEF FailTerminate
<1>29. ASSUME NEW s \in Sessions, FailGenerator(s) PROVE StartsOnOpen'
  BY <1>29 DEF FailGenerator
<1>30. ASSUME NEW s \in Sessions, FailDoc(s) PROVE StartsOnOpen'
  BY <1>30 DEF FailDoc
<1>31. ASSUME NEW s \in Sessions, ReleaseSensor(s) PROVE StartsOnOpen'
  BY <1>31 DEF ReleaseSensor
<1>32. ASSUME NEW s \in Sessions, DeleteCS(s) PROVE StartsOnOpen'
  BY <1>32 DEF DeleteCS
<1>33. CASE UNCHANGED vars
  BY <1>33 DEF vars
<1> HIDE DEF StateType, StartsOnOpen, Interrupted, StartPCs, Finish, Advance, Return, Thread, Crash, Ui,
        ReleaseGenerator, ui, globals, threads, devices, docs, data
<1> QED
  BY <1>a1, <1>a2, <1>a3, <1>a4, <1>a5, <1>a6, <1>20a, <1>1, <1>2, <1>3, <1>4, <1>5, <1>6,
     <1>7, <1>8, <1>9, <1>10, <1>11, <1>12, <1>13,
     <1>14, <1>15, <1>16, <1>17, <1>18, <1>19, <1>20, <1>21, <1>22, <1>23, <1>24, <1>25,
     <1>26, <1>27, <1>28, <1>29, <1>30, <1>31, <1>32, <1>33
  DEF Next, Commands, UiStep, Resume, Start, Stop, Refresh, BkgndThread,
      OnContinuousMeasurement, OtherCommand, MeasureCommand, OnCloseDocument

\* Until a start is interrupted by another, or by a command on its own document, the
\* running document is an open one, however late a message comes and however a failing
\* thread races the commands.
THEOREM RunningDocStaysOpen == Spec => []RunningDocIsOpen
<1>1. Init => OpenInv
  BY NoDocIsNone DEF Init, OpenInv, StartsOnOpen, Interrupted, StartPCs
<1>2. TypeOK /\ OpenInv /\ [Next]_vars => OpenInv'
  <2> SUFFICES ASSUME TypeOK, OpenInv, [Next]_vars, ~interrupted' PROVE StartsOnOpen'
    BY DEF OpenInv
  <2>1. ~interrupted /\ ~Interrupted'
    <3>1. CASE UNCHANGED vars
      BY <3>1 DEF vars, ui, docs, OpenInv, StartsOnOpen, Interrupted, StartPCs
    <3>2. CASE Watch
      <4>1. interrupted' = (interrupted \/ Interrupted')
        BY <3>2 DEF Watch
      <4> QED
        BY <4>1, Zenon
    <3> QED
      BY <3>1, <3>2, Watched
  <2> QED
    BY <2>1, OpenStep DEF TypeOK, OpenInv
<1>3. OpenInv => RunningDocIsOpen
  BY DEF OpenInv, StartsOnOpen, RunningDocIsOpen
<1> QED
  BY <1>1, <1>2, <1>3, Typing, PTL DEF Spec

-----------------------------------------------------------------------------
\* No thread gets to the list without a new number, and no number is taken back.
NumbersKept ==
  \A t \in Sessions : /\ tcount[t] <= tcount'[t]
                      /\ WillAdd(t)' => WillAdd(t) \/ tcount[t] < tcount'[t]

\* Only the thread that is asked to terminate could be misled by the reset of the
\* request, and the reset waits for it.
LEMMA NumbersStep ==
  ASSUME StateType, Clean, [Next]_vars, ~Collision'
  PROVE  NumbersKept
<1> USE NoSessionIsNone, NoDocIsNone, BoundsAssumption DEF StateType, Clean, ThreadInv, Accounted, UiInv,
        WorkPCs, ExitPCs, FailPCs, Over, Live, Working, Serving, Exiting, QuietPCs, Known,
        NumbersKept, WillAdd, Finish, Advance, Return, Thread, Crash, Ui,
        ui, globals, threads
<1>1. ASSUME NEW d \in Docs, NEW to, NEW then, Command(d, to, then)
      PROVE  NumbersKept
  BY <1>1 DEF Command
<1>2. CASE StartRefused
  BY <1>2 DEF StartRefused
<1>3. CASE StartSensor
  BY <1>3 DEF StartSensor, Pumps
<1>4. CASE StartGenerator
  BY <1>4 DEF StartGenerator, Pumps
<1>5. CASE StartThreadFails
  BY <1>5 DEF StartThreadFails
<1>6. CASE StartAssign
  BY <1>6 DEF StartAssign
<1>7. CASE StopRequest
  BY <1>7 DEF StopRequest
<1>8. CASE StopTarget
  BY <1>8 DEF StopTarget
<1>9. CASE StopWait
  BY <1>9 DEF StopWait
<1>10. CASE StopDoc
  BY <1>10 DEF StopDoc
<1>11. CASE StopGenerator
  BY <1>11 DEF StopGenerator
<1>12. CASE DrainEnter
  BY <1>12 DEF DrainEnter
<1>13. CASE Drain
  BY <1>13 DEF Drain
<1>14. CASE SeriesBegin
  BY <1>14 DEF SeriesBegin
<1>15. CASE Close
  BY <1>15 DEF Close
<1>16. CASE Dispatch
  BY <1>16 DEF Dispatch
<1>17. CASE SeriesEnd
  BY <1>17 DEF SeriesEnd
<1>18. ASSUME NEW s \in Sessions, StartThread(s) PROVE NumbersKept
  BY <1>18 DEF StartThread
<1>19. ASSUME NEW s \in Sessions, LoopTop(s) PROVE NumbersKept
  BY <1>19 DEF LoopTop
<1>20. ASSUME NEW s \in Sessions, Measured(s) PROVE NumbersKept
  BY <1>20 DEF Measured
<1>20a. ASSUME NEW s \in Sessions, Throws(s) PROVE NumbersKept
  BY <1>20a DEF Throws
<1>21. ASSUME NEW s \in Sessions, CheckOk(s) PROVE NumbersKept
  BY <1>21 DEF CheckOk
<1>22. ASSUME NEW s \in Sessions, CheckBad(s) PROVE NumbersKept
  BY <1>22 DEF CheckBad
<1>23. ASSUME NEW s \in Sessions, Spin(s) PROVE NumbersKept
  BY <1>23 DEF Spin
<1>24. ASSUME NEW s \in Sessions, Enter(s) PROVE NumbersKept
  BY <1>24 DEF Enter
<1>25. ASSUME NEW s \in Sessions, Add(s) PROVE NumbersKept
  BY <1>25 DEF Add
<1>26. ASSUME NEW s \in Sessions, Post(s) PROVE NumbersKept
  BY <1>26 DEF Post
<1>27. ASSUME NEW s \in Sessions, FailHandle(s) PROVE NumbersKept
  BY <1>27 DEF FailHandle
<1>28. ASSUME NEW s \in Sessions, FailTerminate(s) PROVE NumbersKept
  BY <1>28 DEF FailTerminate
<1>29. ASSUME NEW s \in Sessions, FailGenerator(s) PROVE NumbersKept
  BY <1>29 DEF FailGenerator
<1>30. ASSUME NEW s \in Sessions, FailDoc(s) PROVE NumbersKept
  BY <1>30 DEF FailDoc
<1>31. ASSUME NEW s \in Sessions, ReleaseSensor(s) PROVE NumbersKept
  BY <1>31 DEF ReleaseSensor
<1>32. ASSUME NEW s \in Sessions, DeleteCS(s) PROVE NumbersKept
  BY <1>32 DEF DeleteCS
<1>a1. CASE StartAsked
  <2>1. Resumes("ask")
    BY <1>a1 DEF StartAsked
  <2> QED
    BY <1>a1, <2>1, ResumesQuietly DEF StartAsked, GoesOn
<1>a2. CASE StartShown
  <2>1. Resumes("show")
    BY <1>a2 DEF StartShown
  <2> QED
    BY <1>a2, <2>1, ResumesQuietly DEF StartShown, GoesOn
<1>a3. CASE StartGenFails
  <2>1. Resumes("fail")
    BY <1>a3 DEF StartGenFails
  <2> QED
    BY <1>a3, <2>1, ResumesQuietly DEF StartGenFails, GoesOn
<1>a5. ASSUME NEW s \in Sessions, Shown(s) PROVE NumbersKept
  BY <1>a5 DEF Shown
<1>a6. ASSUME NEW s \in Sessions, FailButtons(s) PROVE NumbersKept
  BY <1>a6 DEF FailButtons
<1>33. CASE UNCHANGED vars
  BY <1>33 DEF vars
<1> HIDE DEF StateType, Clean, ThreadInv, Accounted, UiInv, WorkPCs, ExitPCs, FailPCs, Over,
        Live, Working, Serving, Exiting, QuietPCs, Known, NumbersKept, WillAdd, Finish,
        Advance, Return, Thread, Crash, Ui, ui, globals, threads
<1> QED
  BY <1>a1, <1>a2, <1>a3, <1>a5, <1>a6, NobodyCrashes, <1>20a, <1>1, <1>2, <1>3, <1>4, <1>5, <1>6, <1>7, <1>8, <1>9, <1>10, <1>11, <1>12, <1>13, <1>14, <1>15, <1>16, <1>17, <1>18, <1>19, <1>20, <1>21, <1>22, <1>23, <1>24, <1>25, <1>26, <1>27, <1>28, <1>29, <1>30, <1>31, <1>32, <1>33
  DEF Next, Commands, UiStep, Resume, Start, Stop, Refresh, BkgndThread,
      OnContinuousMeasurement, OtherCommand, MeasureCommand, OnCloseDocument


\* A measure that was made stays made before whatever its thread adds next.
LEMMA MadeKept ==
  ASSUME StateType, StateType', NumbersKept
  PROVE  Made \subseteq Made'
<1> SUFFICES ASSUME NEW m \in Made PROVE m \in Made'
  OBVIOUS
<1>1. m \in Measures /\ m[1] \in Sessions /\ m[2] \in Nat
  BY DEF Measures, Made
<1>2. tcount[m[1]] \in Nat /\ tcount'[m[1]] \in Nat
  BY <1>1, BoundsAssumption DEF StateType
<1>3. Measures' = Measures
  BY DEF Measures, Sessions
<1> QED
  BY <1>1, <1>2, <1>3 DEF Made, NumbersKept

\* What was a sequence of some things is one of more things.
LEMMA SeqOfMore ==
  ASSUME NEW S, NEW T, S \subseteq T, NEW q \in Seq(S)
  PROVE  q \in Seq(T)
<1>1. \A k \in 1 .. Len(q) : q[k] \in T
  BY ElementOfSeq, LenProperties
<1> QED
  BY <1>1, IsASeq, LenProperties

\* Older measures may be put in front of newer ones.
LEMMA ConcatOrdered ==
  ASSUME NEW S, NEW q \in Seq(S), NEW r \in Seq(S),
         Ordered(q), Ordered(r), Older(q, r)
  PROVE  Ordered(q \o r)
<1> DEFINE c == q \o r
<1>1. /\ Len(q) \in Nat /\ Len(r) \in Nat
      /\ DOMAIN q = 1 .. Len(q) /\ DOMAIN r = 1 .. Len(r)
  BY LenProperties
<1>2. /\ DOMAIN c = 1 .. Len(q) + Len(r)
      /\ \A k \in DOMAIN c : c[k] = IF k <= Len(q) THEN q[k] ELSE r[k - Len(q)]
  BY <1>1, ConcatProperties, LenProperties
<1> SUFFICES ASSUME NEW k \in DOMAIN c, NEW l \in DOMAIN c, k < l, c[k][1] = c[l][1]
             PROVE  c[k][2] < c[l][2]
  BY DEF Ordered
<1> HIDE DEF c
<1>3. CASE l <= Len(q)
  <2>1. k \in DOMAIN q /\ l \in DOMAIN q /\ c[k] = q[k] /\ c[l] = q[l]
    BY <1>1, <1>2, <1>3
  <2> QED
    BY <2>1 DEF Ordered
<1>4. CASE k <= Len(q) /\ ~(l <= Len(q))
  <2>1. k \in DOMAIN q /\ l - Len(q) \in DOMAIN r /\ c[k] = q[k] /\ c[l] = r[l - Len(q)]
    BY <1>1, <1>2, <1>4
  <2> QED
    BY <2>1 DEF Older
<1>5. CASE ~(k <= Len(q))
  <2>1. /\ k - Len(q) \in DOMAIN r /\ l - Len(q) \in DOMAIN r /\ k - Len(q) < l - Len(q)
        /\ c[k] = r[k - Len(q)] /\ c[l] = r[l - Len(q)]
    BY <1>1, <1>2, <1>5
  <2> QED
    BY <2>1 DEF Ordered
<1> QED
  BY <1>1, <1>2, <1>3, <1>4, <1>5

\* Each step keeps the measures of a session in the order in which it made them.
LEMMA OrderStep ==
  ASSUME StateType, StateType', DataType, Clean, OrderInv, [Next]_vars, ~Collision'
  PROVE  OrderInv'
<1>0. Made \subseteq Made'
  BY NumbersStep, MadeKept
<1>1. list \in Seq(Made') /\ free \in [Docs -> Seq(Made')]
  BY <1>0, SeqOfMore DEF OrderInv
<1>2. CASE UNCHANGED <<list, free>>
  BY <1>1, <1>2 DEF OrderInv, Ordered, Older
<1>3. CASE StopWait
  <2>1. list' = <<>> /\ free' = free
    BY <1>3 DEF StopWait
  <2> QED
    BY <1>1, <2>1, EmptySeq DEF OrderInv, Ordered, Older
<1>4. ASSUME NEW s \in Sessions, Add(s) PROVE OrderInv'
  <2> DEFINE new == <<s, tcount[s]>>
  <2>1. list' = Append(list, new) /\ free' = free /\ tcount' = tcount
    BY <1>4 DEF Add
  <2>2. new \in Measures /\ new[1] = s /\ new[2] = tcount[s] /\ tcount[s] \in Nat
    BY BoundsAssumption DEF StateType, Measures
  <2>3. WillAdd(s) /\ ~WillAdd(s)'
    BY <1>4 DEF Add, Thread, WillAdd, StateType
  <2>4. new \in Made'
    BY <2>1, <2>2, <2>3 DEF Made, Measures, Sessions
  <2>5. \A m \in Made : m[1] = s => m[2] < tcount[s]
    BY <2>3 DEF Made
  <2> HIDE DEF new
  <2>6. /\ list' \in Seq(Made')
        /\ Len(list) \in Nat /\ DOMAIN list = 1 .. Len(list)
        /\ DOMAIN list' = 1 .. Len(list) + 1
        /\ \A k \in 1 .. Len(list) : list'[k] = list[k]
        /\ list'[Len(list) + 1] = new
    BY <1>1, <2>1, <2>4, AppendProperties, LenProperties
  <2>7. /\ \A k \in DOMAIN list : list[k] \in Made
        /\ \A d \in Docs : \A k \in DOMAIN free[d] : free[d][k] \in Made
    BY ElementOfSeq, LenProperties DEF OrderInv
  <2>8. Ordered(list')
    <3> SUFFICES ASSUME NEW k \in DOMAIN list', NEW l \in DOMAIN list', k < l,
                        list'[k][1] = list'[l][1]
                 PROVE  list'[k][2] < list'[l][2]
      BY DEF Ordered
    <3>1. k \in DOMAIN list /\ list'[k] = list[k]
      BY <2>6
    <3>2. CASE l \in DOMAIN list
      BY <2>6, <3>1, <3>2 DEF OrderInv, Ordered
    <3>3. CASE l = Len(list) + 1
      BY <2>2, <2>5, <2>6, <2>7, <3>1, <3>3
    <3> QED
      BY <2>6, <3>2, <3>3
  <2>9. ASSUME NEW d \in Docs PROVE Older(free[d], list')
    <3> SUFFICES ASSUME NEW k \in DOMAIN free[d], NEW l \in DOMAIN list',
                        free[d][k][1] = list'[l][1]
                 PROVE  free[d][k][2] < list'[l][2]
      BY DEF Older
    <3>1. CASE l \in DOMAIN list
      BY <2>6, <3>1 DEF OrderInv, Older
    <3>2. CASE l = Len(list) + 1
      BY <2>2, <2>5, <2>6, <2>7, <3>2
    <3> QED
      BY <2>6, <3>1, <3>2
  <2> QED
    BY <1>1, <2>1, <2>6, <2>8, <2>9 DEF OrderInv, Ordered, Older
<1>5. CASE Drain
  <2>1. runningDoc \in Docs /\ runningDoc = mdoc
    BY <1>5 DEF Drain, Clean, UiInv, InsideBkgndRefresh
  <2> DEFINE n == IF Len(list) < Views[runningDoc] THEN Len(list) ELSE Views[runningDoc]
             taken == SubSeq(list, 1, n)
             collected == free[mdoc] \o taken
  <2>2. n \in Nat /\ n <= Len(list) /\ DOMAIN list = 1 .. Len(list)
    BY <2>1, DocsAssumption, LenProperties DEF DataType
  <2>3. /\ taken \in Seq(Made') /\ Len(taken) = n /\ DOMAIN taken = 1 .. n
        /\ \A k \in 1 .. n : taken[k] = list[k] /\ k \in DOMAIN list
    BY <1>1, <2>2, PrefixType, LenProperties
  <2>4. list' = <<>> /\ free' = [free EXCEPT ![mdoc] = collected]
    BY <1>5, <2>1, NoDocIsNone DEF Drain
  <2> HIDE DEF n, taken
  <2>5. Ordered(taken) /\ Older(free[mdoc], taken)
    BY <2>1, <2>3 DEF OrderInv, Ordered, Older
  <2>6. collected \in Seq(Made') /\ Ordered(collected)
    <3>1. free[mdoc] \in Seq(Made') /\ Ordered(free[mdoc])
      BY <1>1, <2>1 DEF OrderInv
    <3> QED
      BY <2>3, <2>5, <3>1, ConcatOrdered, ConcatProperties
  <2> HIDE DEF collected
  <2>7. free' \in [Docs -> Seq(Made')]
    BY <1>1, <2>4, <2>6
  <2>8. \A d \in Docs : Ordered(free'[d])
    BY <1>1, <2>1, <2>4, <2>6 DEF OrderInv
  <2> QED
    BY <2>4, <2>7, <2>8, EmptySeq DEF OrderInv, Ordered, Older
<1>6. CASE Dispatch
  BY <1>2, <1>6 DEF Dispatch
<1>7. ASSUME NEW s \in Sessions, Post(s) PROVE OrderInv'
  BY <1>2, <1>7 DEF Post
<1>8. CASE UNCHANGED data
  BY <1>2, <1>8 DEF data
<1> QED
  BY <1>3, <1>4, <1>5, <1>6, <1>7, <1>8, DataUnchanged

\* The measures of a session arrive once each and in the order in which they were
\* made, for any backlog and any number of views, unless a race disturbs them.
THEOREM ArriveInOrder == Spec => []DeliveredInOrder
<1> DEFINE InOrder == raced \/ OrderInv
<1>1. Init => InOrder
  BY EmptySeq DEF Init, OrderInv, Ordered, Older
<1>2. TypeOK /\ TypeOK' /\ SafetyInv /\ SafetyInv' /\ InOrder /\ [Next]_vars => InOrder'
  <2> SUFFICES ASSUME TypeOK, TypeOK', SafetyInv, SafetyInv', InOrder, [Next]_vars, ~raced'
               PROVE  OrderInv'
    OBVIOUS
  <2>1. ~raced /\ ~Collision'
    <3>1. CASE UNCHANGED vars
      BY <3>1 DEF vars, ui, globals, threads, docs, SafetyInv, Clean, Collision, Interrupted, Failing
    <3>2. CASE Watch
      <4>1. raced' = (raced \/ Collision')
        BY <3>2 DEF Watch
      <4> QED
        BY <4>1, Zenon
    <3> QED
      BY <3>1, <3>2, Watched
  <2> QED
    BY <2>1, OrderStep DEF TypeOK, SafetyInv
<1>3. InOrder => DeliveredInOrder
  BY DEF OrderInv, Ordered, DeliveredInOrder
<1> QED
  BY <1>1, <1>2, <1>3, Typing, Safety, PTL DEF Spec


-----------------------------------------------------------------------------
\* The values of the variant.
LEMMA StepsCounted ==
  /\ StepsToEnd("spin") = 7 /\ StepsToEnd("enter") = 6 /\ StepsToEnd("add") = 5
  /\ StepsToEnd("post") = 4 /\ StepsToEnd("measure") = 4
  /\ StepsToEnd("top") = 3 /\ StepsToEnd("checkOk") = 3 /\ StepsToEnd("checkBad") = 3
  /\ StepsToEnd("release") = 2 /\ StepsToEnd("delcs") = 1 /\ StepsToEnd("ended") = 0
  /\ StepsToEnd("thrown") = 0
BY DEF StepsToEnd

\* Each step taken while StopBackgroundMeasures waits is one of the thread that it
\* waits for, towards its end: the flag is up, and no other thread lives.
THEOREM StopComesNearer == Spec => StopGetsNearer
<1>1. ASSUME TypeOK, SafetyInv, [Next]_vars
      PROVE  [mpc = "stopWait" /\ mpc' = "stopWait" =>
                raced' \/ StepsToEnd(tpc'[mhandle]) < StepsToEnd(tpc[mhandle])]_vars
  <2> SUFFICES ASSUME mpc = "stopWait", mpc' = "stopWait", ~raced', ~UNCHANGED vars
               PROVE  StepsToEnd(tpc'[mhandle]) < StepsToEnd(tpc[mhandle])
    OBVIOUS
  <2>1. Watch /\ ~raced /\ ~Collision'
    <3>1. Watch
      BY <1>1, Watched
    <3>2. raced' = (raced \/ Collision')
      BY <3>1 DEF Watch
    <3> QED
      BY <3>1, <3>2, Zenon
  <2>2. Clean
    BY <1>1, <2>1 DEF SafetyInv
  <2>3. /\ mhandle \in Sessions /\ hThread = mhandle
        /\ \A s \in Sessions : Live(s) => s = mhandle
        /\ \A s \in Sessions : ~Failing(s)'
    BY <1>1, <2>1, <2>2, NoSessionIsNone
       DEF TypeOK, StateType, Clean, UiInv, Collision, Failing, ThreadInv, Accounted,
           Working, WorkPCs, Exiting, ExitPCs, FailPCs, Known, Live, Over, ThreadPCs
  <2>4. PICK s \in Sessions : BkgndThread(s)
    BY <1>1 DEF Next, Commands, UiStep, Resume, Start, Stop, Refresh,
       OnContinuousMeasurement, OtherCommand, MeasureCommand, OnCloseDocument, Command, Ui,
       StartRefused, StartSensor, StartGenerator,
       StartAsked, StartShown, StartGenFails, StartCrashes, Resumes, StartThread, StartThreadFails, StartAssign,
       StopRequest, StopTarget, StopWait, StopDoc, StopGenerator, SeriesBegin, SeriesEnd, Close,
       Dispatch, DrainEnter, Drain
  <2>5. s = mhandle /\ mhandle' = mhandle /\ terminate
    <3>1. tpc[s] \notin {"unborn", "ended", "failed", "thrown"} /\ mhandle' = mhandle
      BY <2>4 DEF BkgndThread, Thread, ui, LoopTop, Shown, Measured, Throws, CheckOk, CheckBad, Spin, Enter, Add,
         Post, FailHandle, FailTerminate, FailButtons, FailGenerator, FailDoc, ReleaseSensor, DeleteCS
    <3> QED
      BY <2>2, <2>3, <3>1 DEF Live, Over, Clean, UiInv
  <2>6. tpc \in [Sessions -> ThreadPCs]
    BY <1>1 DEF TypeOK, StateType
  <2>7. ASSUME NEW from, NEW to, Thread(s, from, to)
        PROVE  tpc[mhandle] = from /\ tpc'[mhandle] = to
    BY <2>3, <2>5, <2>6, <2>7 DEF Thread
  <2>8. /\ ~FailHandle(s) /\ ~FailTerminate(s) /\ ~FailButtons(s) /\ ~FailGenerator(s)
        /\ ~FailDoc(s) /\ ~Shown(s)
    BY <2>1, <2>3, <2>7 DEF FailHandle, FailTerminate, FailButtons, FailGenerator, FailDoc,
           Shown, Failing, FailPCs
  <2>9. ASSUME NEW from, NEW to, Thread(s, from, to), StepsToEnd(to) < StepsToEnd(from)
        PROVE  StepsToEnd(tpc'[mhandle]) < StepsToEnd(tpc[mhandle])
    BY <2>7, <2>9
  <2> USE <2>5, StepsCounted DEF FailPCs
  <2>10. CASE LoopTop(s)
    <3>1. Thread(s, "top", "release")
      BY <2>10 DEF LoopTop
    <3> QED
      BY <3>1, <2>9
  <2>11. CASE Measured(s)
    <3>1. Thread(s, "measure", "checkOk") \/ Thread(s, "measure", "checkBad")
      BY <2>11 DEF Measured
    <3> QED
      BY <3>1, <2>9
  <2>11a. CASE Throws(s)
    <3>1. Thread(s, "measure", "thrown")
      BY <2>11a DEF Throws
    <3> QED
      BY <3>1, <2>9
  <2>12. CASE CheckOk(s) \/ CheckBad(s)
    <3>1. Thread(s, "checkOk", "release") \/ Thread(s, "checkBad", "release")
      BY <2>12 DEF CheckOk, CheckBad
    <3> QED
      BY <3>1, <2>9
  <2>13. CASE Spin(s) \/ Enter(s)
    <3>1. Thread(s, "spin", "enter") \/ Thread(s, "enter", "add")
      BY <1>1, <2>13 DEF Spin, Enter, Crash
    <3> QED
      BY <3>1, <2>9
  <2>14. CASE Add(s) \/ Post(s)
    <3>1. Thread(s, "add", "post") \/ Thread(s, "post", "top")
      BY <2>14 DEF Add, Post
    <3> QED
      BY <3>1, <2>9
  <2>15. CASE ReleaseSensor(s) \/ DeleteCS(s)
    <3>1. \/ Thread(s, "release", "delcs") \/ Thread(s, "delcs", "ended")
          \/ Thread(s, "failRelease", "failDelcs") \/ Thread(s, "failDelcs", "failed")
      BY <2>15 DEF ReleaseSensor, DeleteCS
    <3>2. tpc[s] \notin FailPCs
      BY <2>1, <2>2, <2>3 DEF Clean, Collision, Failing
    <3> QED
      BY <3>1, <3>2, <2>7, <2>9
  <2> QED
    BY <2>4, <2>8, <2>10, <2>11, <2>11a, <2>12, <2>13, <2>14, <2>15 DEF BkgndThread
<1> QED
  BY <1>1, Typing, Safety, PTL DEF Spec, StopGetsNearer

-----------------------------------------------------------------------------
\* A list that is left alone, with its messages, stays announced.
LEMMA StaysAnnounced ==
  ASSUME Announced, list' = list, posted' = posted, runningDoc' = runningDoc,
         InsideBkgndRefresh => InsideBkgndRefresh',
         \A s \in Sessions : tpc[s] \in FailPCs \cup {"failed", "post"} =>
                             tpc'[s] \in FailPCs \cup {"failed", "post"},
         raced => raced'
  PROVE  Announced'
BY DEF Announced

\* Each step keeps the list announced.  A session without an error fills the list only
\* while g_hThread names it, and so the messages that count are those for the running
\* document.
LEMMA AnnouncedStep ==
  ASSUME TypeOK, SafetyInv, Announced, [Next]_vars
  PROVE  Announced'
<1> SUFFICES ASSUME ~raced', ~\E s \in Sessions : tpc'[s] \in FailPCs \cup {"failed"}, list' # <<>>
             PROVE  Announced'
  BY DEF Announced
<1>0. CASE UNCHANGED vars
  BY <1>0 DEF vars, data, globals, ui, threads, Announced, InsideBkgndRefresh
<1> SUFFICES ASSUME Next
             PROVE  Announced'
  BY <1>0
<1>1. ~raced /\ Clean /\ StateType /\ list \in Seq(Measures) /\ posted \in Seq(Docs \cup {NoDoc})
  <2>1. ~raced
    <3>1. CASE UNCHANGED vars
      BY <3>1 DEF vars
    <3>2. CASE Watch
      <4>1. raced' = (raced \/ Collision')
        BY <3>2 DEF Watch
      <4> QED
        BY <4>1, Zenon
    <3> QED
      BY <3>1, <3>2, Watched
  <2> QED
    BY <2>1 DEF SafetyInv, TypeOK, DataType
<1>2. ASSUME list # <<>>, \A s \in Sessions : ~Failed(s)
      PROVE  \E s \in Sessions : Known(s)
  <2>1. 1 \in DOMAIN list
    BY <1>1, <1>2
  <2>2. list[1][1] \in Sessions
    BY <1>1, <2>1, ListedSessions DEF TypeOK
  <2> QED
    BY <1>1, <1>2, <2>1, <2>2 DEF Clean, ListInv, Expected
<1>3. ASSUME mpc \in QuietPCs, list # <<>> PROVE \E s \in Sessions : Failed(s)
  BY <1>1, <1>2, <1>3, NoSessionIsNone DEF Clean, UiInv, Known, QuietPCs
<1> USE DEF Announced, InsideBkgndRefresh, Thread, Ui, Advance, Finish, Return, Crash,
            FailPCs, ui, globals, threads, devices, docs, data, QuietPCs
<1>c. ASSUME NEW d \in Docs, NEW to, NEW then, Command(d, to, then)
      PROVE  Announced'
  <2>1. /\ mpc = "idle" /\ list' = list /\ posted' = posted /\ runningDoc' = runningDoc
        /\ tpc' = tpc
    BY <1>c DEF Command
  <2> QED
    BY <1>1, <2>1, StaysAnnounced
<1>4. CASE StartRefused
  BY <1>1, <1>4, StaysAnnounced DEF StartRefused
<1>5. CASE StartSensor
  <2>1. mpc = "start" /\ UNCHANGED <<list, posted, runningDoc, tpc>>
    BY <1>5 DEF StartSensor
  <2> QED
    BY <1>1, <2>1, StaysAnnounced
<1>6. CASE StartGenerator
  <2>1. mpc = "startGen" /\ UNCHANGED <<list, posted, runningDoc, tpc>>
    BY <1>6 DEF StartGenerator
  <2> QED
    BY <1>1, <2>1, StaysAnnounced
<1>a1. CASE Resume
  <2>1. mpc = "idle" /\ UNCHANGED <<list, posted, runningDoc, tpc>>
    BY <1>a1 DEF Resume, StartAsked, StartShown, StartGenFails, StartCrashes, Resumes
  <2> QED
    BY <1>1, <2>1, StaysAnnounced
<1>a2. ASSUME NEW s \in Sessions, Shown(s) PROVE Announced'
  BY <1>1, <1>a2, StaysAnnounced DEF Shown, StateType
<1>a3. ASSUME NEW s \in Sessions, FailButtons(s) PROVE Announced'
  BY <1>1, <1>a3 DEF FailButtons, StateType
<1>7. CASE StartAssign
  BY <1>1, <1>7, StaysAnnounced DEF StartAssign
<1>8. CASE StopRequest
  BY <1>1, <1>8, StaysAnnounced DEF StopRequest
<1>9. CASE StopTarget
  BY <1>1, <1>9, StaysAnnounced DEF StopTarget
<1>10. CASE StopDoc
  BY <1>1, <1>10, StaysAnnounced DEF StopDoc
<1>11. CASE DrainEnter
  <2>1. /\ list' = list /\ posted' = posted /\ runningDoc' = runningDoc /\ tpc' = tpc
        /\ mpc' \in {"drain", "crashed"}
    BY <1>11 DEF DrainEnter
  <2>2. csLive
    BY <1>1, <1>11, NoSessionIsNone DEF DrainEnter, Clean, UiInv, ThreadInv, Accounted, StateType
  <2>3. mpc' = "drain"
    BY <1>11, <2>2 DEF DrainEnter
  <2> QED
    BY <1>1, <2>1, <2>3, StaysAnnounced
<1>12. CASE SeriesBegin
  BY <1>1, <1>12, StaysAnnounced DEF SeriesBegin
<1>13. CASE Close
  BY <1>1, <1>13, StaysAnnounced DEF Close
<1>14. CASE SeriesEnd
  BY <1>1, <1>14, StaysAnnounced DEF SeriesEnd
<1>15. ASSUME NEW s \in Sessions, LoopTop(s) PROVE Announced'
  BY <1>1, <1>15, StaysAnnounced DEF LoopTop, StateType
<1>16. ASSUME NEW s \in Sessions, Measured(s) PROVE Announced'
  BY <1>1, <1>16, StaysAnnounced DEF Measured, StateType
<1>20a. ASSUME NEW s \in Sessions, Throws(s) PROVE Announced'
  BY <1>1, <1>20a, StaysAnnounced DEF Throws, StateType
<1>17. ASSUME NEW s \in Sessions, CheckOk(s) PROVE Announced'
  BY <1>1, <1>17, StaysAnnounced DEF CheckOk, StateType
<1>18. ASSUME NEW s \in Sessions, CheckBad(s) PROVE Announced'
  BY <1>1, <1>18, StaysAnnounced DEF CheckBad, StateType
<1>19. ASSUME NEW s \in Sessions, Spin(s) PROVE Announced'
  BY <1>1, <1>19, StaysAnnounced DEF Spin, StateType
<1>20. ASSUME NEW s \in Sessions, Enter(s) PROVE Announced'
  <2>1. /\ list' = list /\ posted' = posted /\ runningDoc' = runningDoc
        /\ tpc[s] = "enter"
    BY <1>20 DEF Enter
  <2>2. csLive
    BY <1>1, <2>1 DEF Clean, ThreadInv, Accounted, Serving, Working, WorkPCs
  <2>3. mpc' = mpc /\ tpc' = [tpc EXCEPT ![s] = "add"]
    BY <1>20, <2>2 DEF Enter
  <2> QED
    BY <1>1, <2>1, <2>3, StaysAnnounced DEF StateType
<1>21. ASSUME NEW s \in Sessions, FailHandle(s) PROVE Announced'
  BY <1>1, <1>21, StaysAnnounced DEF FailHandle, StateType
<1>22. ASSUME NEW s \in Sessions, FailTerminate(s) PROVE Announced'
  BY <1>1, <1>22, StaysAnnounced DEF FailTerminate, StateType
<1>23. ASSUME NEW s \in Sessions, FailGenerator(s) PROVE Announced'
  BY <1>1, <1>23, StaysAnnounced DEF FailGenerator, StateType
<1>24. ASSUME NEW s \in Sessions, ReleaseSensor(s) PROVE Announced'
  BY <1>1, <1>24, StaysAnnounced DEF ReleaseSensor, StateType
<1>25. ASSUME NEW s \in Sessions, DeleteCS(s) PROVE Announced'
  BY <1>1, <1>25, StaysAnnounced DEF DeleteCS, StateType
<1>26. CASE StopWait
  BY <1>26 DEF StopWait
<1>27. CASE Drain
  <2>1. runningDoc # NoDoc
    BY <1>1, <1>27, DocsAssumption DEF Drain, Clean, UiInv
  <2> QED
    BY <1>27, <2>1 DEF Drain
<1>28. CASE StopGenerator
  BY <1>1, <1>3, <1>28 DEF StopGenerator, Failed
<1>29. CASE StartThreadFails
  BY <1>1, <1>3, <1>29 DEF StartThreadFails, Failed
<1>30. ASSUME NEW s \in Sessions, StartThread(s) PROVE Announced'
  BY <1>1, <1>3, <1>30 DEF StartThread, Failed, StateType
<1>31. ASSUME NEW s \in Sessions, FailDoc(s) PROVE Announced'
  BY <1>1, <1>31 DEF FailDoc, StateType
<1>32. ASSUME NEW s \in Sessions, Add(s) PROVE Announced'
  BY <1>1, <1>32 DEF Add, StateType
<1>33. ASSUME NEW s \in Sessions, Post(s) PROVE Announced'
  <2>1. /\ Len(posted) + 1 \in DOMAIN Append(posted, runningDoc)
        /\ Append(posted, runningDoc)[Len(posted) + 1] = runningDoc
    BY <1>1 DEF StateType
  <2> QED
    BY <1>33, <2>1 DEF Post
<1>34. CASE Dispatch
  <2>1. CASE hThread # NoSession /\ ~terminate /\ runningDoc = Head(posted)
    BY <1>34, <2>1 DEF Dispatch
  <2>2. CASE ~(hThread # NoSession /\ ~terminate /\ runningDoc = Head(posted))
    <3>1. /\ mpc = "idle" /\ posted # <<>> /\ posted' = Tail(posted)
          /\ UNCHANGED <<mpc, list, runningDoc, tpc, hThread>>
      BY <1>34, <2>2 DEF Dispatch
    <3>2. \A s \in Sessions : ~Failed(s)
      BY <3>1 DEF Failed
    <3>3. hThread # NoSession /\ ~terminate
      BY <1>1, <1>2, <3>1, <3>2, NoSessionIsNone DEF Known, Clean, UiInv
    <3>4. CASE \E s \in Sessions : tpc[s] = "post"
      BY <3>1, <3>4
    <3>5. ASSUME NEW k \in DOMAIN posted, posted[k] = runningDoc PROVE Announced'
      <4>1. k # 1
        BY <1>1, <2>2, <3>1, <3>3, <3>5
      <4>2. k - 1 \in DOMAIN Tail(posted) /\ Tail(posted)[k - 1] = posted[k]
        BY <1>1, <3>1, <4>1
      <4> QED
        BY <3>1, <3>5, <4>2
    <3> QED
      BY <1>1, <3>1, <3>2, <3>4, <3>5 DEF Failed
  <2> QED
    BY <2>1, <2>2
<1> HIDE DEF Announced, InsideBkgndRefresh, Thread, Ui, Advance, Finish, Return, Crash,
        FailPCs, ui, globals, threads, devices, docs, data, QuietPCs
<1> QED
  BY <1>a1, <1>a2, <1>a3, <1>20a, <1>c, <1>4, <1>5, <1>6, <1>7, <1>8, <1>9, <1>10, <1>11, <1>12, <1>13, <1>14, <1>15, 
     <1>16, <1>17, <1>18, <1>19, <1>20, <1>21, <1>22, <1>23, <1>24, <1>25, <1>26, <1>27, 
     <1>28, <1>29, <1>30, <1>31, <1>32, <1>33, <1>34
  DEF Next, Commands, UiStep, Resume, Start, Stop, Refresh, BkgndThread,
      OnContinuousMeasurement, OtherCommand, MeasureCommand, OnCloseDocument

\* A measure in the list is always announced to the message loop.
THEOREM EachMeasureIsAnnounced == Spec => []Announced
<1>1. Init => Announced
  BY DEF Init, Announced
<1> QED
  BY <1>1, AnnouncedStep, Typing, Safety, PTL DEF Spec
================================================================================
