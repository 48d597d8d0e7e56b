------------------------- MODULE SimultaneousMeasure -------------------------
(***************************************************************************)
(* CDataSetDoc::PerformSimultaneousMeasures: the user interface thread     *)
(* shows one pattern after the other on the generator of the current       *)
(* document, and on each has the sensors of all documents measure, one     *)
(* thread each.  Thread and user interface hand over to one another with   *)
(* two manual-reset events, m_hEventRun and m_hEventDone.                  *)
(*                                                                         *)
(* The documents are numbered as in pDocs and the steps from 1.  A colour  *)
(* is the number of the pattern that was on the screen, 0 for no data.     *)
(***************************************************************************)
EXTENDS Integers

CONSTANTS
  NbDocs,       \* documents whose sensors differ, the current one included
  NbSteps,      \* steps of the measure
  CanFail       \* the calls that may fail, and the ways to cancel, see Failures

Failures == {"sensor", "run", "done", "thread", "generator", "display",
             "measure", "throw", "escape", "lux"}

ASSUME SizesAssumption == NbDocs \in Nat \ {0} /\ NbSteps \in Nat \ {0}
ASSUME CanFailAssumption == CanFail \subseteq Failures

Docs == 1 .. NbDocs
Steps == 1 .. NbSteps
NoData == [k \in Steps |-> 0]

VARIABLES
  pc,           \* where PerformSimultaneousMeasures is; "idle" is outside of it
  i,            \* its step
  j,            \* the document it deals with
  ending,       \* why documents are closed: results validated or not, or Init undone
  bOk, bEscape, \* its locals of these names
  screen,       \* the pattern on the screen
  generatorOn,  \* the generator is initialised
  thread,       \* where each measure thread is; "none" when m_hThread is NULL
  run, done,    \* m_hEventRun and m_hEventDone: "null", "off" or "on"
  terminate,    \* m_bTerminateThread
  error,        \* m_bErrorOccurred
  step,         \* m_nBkMeasureStep
  results,      \* *m_pBkMeasuredColor
  sensorReady,  \* the sensor is initialised
  published     \* the measures of the document

locals == <<i, j, ending, bOk, bEscape>>
device == <<screen, generatorOn>>
shared == <<run, done, terminate, error, step, results>>
vars == <<pc, locals, device, thread, shared, sensorReady, published>>

UiPCs == {"idle", "init", "generator", "display", "iris", "request", "signal", "wait",
          "check", "blank", "decide", "validate", "cancel", "stop", "join", "crashed"}
ThreadPCs == {"none", "wait", "reset", "test", "measure", "report", "leave", "over", "thrown"}
EventStates == {"null", "off", "on"}

Init ==
  /\ pc = "idle" /\ i = 1 /\ j = 1 /\ ending = "cancel" /\ bOk = TRUE /\ bEscape = FALSE
  /\ screen = 0 /\ generatorOn = FALSE
  /\ thread = [d \in Docs |-> "none"]
  /\ run = [d \in Docs |-> "null"] /\ done = [d \in Docs |-> "null"]
  /\ terminate = [d \in Docs |-> FALSE] /\ error = [d \in Docs |-> FALSE]
  /\ step = [d \in Docs |-> 0]
  /\ results = [d \in Docs |-> NoData]
  /\ sensorReady = [d \in Docs |-> FALSE]
  /\ published = [d \in Docs |-> NoData]

At(from, to) == pc = from /\ pc' = to
Thread(d, from, to) == pc # "crashed" /\ thread[d] = from /\ thread' = [thread EXCEPT ![d] = to]
Fails(what) == what \in CanFail

-----------------------------------------------------------------------------
(* PerformSimultaneousMeasures: the beginning                              *)

Perform ==
  /\ At("idle", "init")
  /\ i' = 1 /\ j' = 1 /\ bOk' = TRUE /\ bEscape' = FALSE
  /\ UNCHANGED <<ending, device, thread, shared, sensorReady, published>>

\* What InitBackgroundMeasures leaves in document j.
BackgroundReset(runEvent, doneEvent) ==
  /\ terminate' = [terminate EXCEPT ![j] = FALSE]
  /\ error' = [error EXCEPT ![j] = FALSE]
  /\ step' = [step EXCEPT ![j] = 0]
  /\ results' = [results EXCEPT ![j] = NoData]
  /\ run' = [run EXCEPT ![j] = runEvent]
  /\ done' = [done EXCEPT ![j] = doneEvent]

\* The caller goes on with the next document when it gets an event.
NextInit ==
  /\ IF j < NbDocs THEN j' = j + 1 /\ UNCHANGED pc ELSE j' = 1 /\ pc' = "generator"
  /\ UNCHANGED <<i, ending, bOk, bEscape>>

\* Mutant: the documents that were initialised are forgotten.
UndoNothing ==
  /\ bOk' = FALSE /\ ending' = "undo"
  /\ pc' = "idle" /\ UNCHANGED <<i, j, bEscape>>

\* Otherwise it cancels the documents before this one, the last one first.
UndoInit ==
  /\ bOk' = FALSE /\ ending' = "undo"
  /\ IF j = 1 THEN pc' = "idle" /\ UNCHANGED j ELSE pc' = "cancel" /\ j' = j - 1
  /\ UNCHANGED <<i, bEscape>>

InitBackgroundMeasures ==
  /\ pc = "init"
  /\ \/ /\ BackgroundReset("off", "off")
        /\ thread' = [thread EXCEPT ![j] = "wait"]
        /\ sensorReady' = [sensorReady EXCEPT ![j] = TRUE]
        /\ NextInit
     \/ /\ Fails("sensor") \/ Fails("thread")
        /\ BackgroundReset("null", "null")
        /\ UndoInit /\ UNCHANGED <<thread, sensorReady>>
     \/ /\ Fails("done")
        /\ BackgroundReset("off", "null")
        /\ UndoInit /\ UNCHANGED <<thread, sensorReady>>
     \/ /\ Fails("run")                          \* m_hEventDone is returned
        /\ BackgroundReset("null", "off")
        /\ NextInit /\ UNCHANGED <<thread, sensorReady>>
  /\ UNCHANGED <<device, published>>

-----------------------------------------------------------------------------
(* The loop over the steps                                                 *)

InitGenerator ==
  /\ \/ At("generator", "display") /\ generatorOn' = TRUE
     \/ Fails("generator") /\ At("generator", "decide") /\ UNCHANGED generatorOn
  /\ UNCHANGED <<locals, screen, thread, shared, sensorReady, published>>

\* Mutant: one step too many.
DisplayOneMore ==
  /\ bOk /\ i <= NbSteps + 1
  /\ At("display", "iris") /\ screen' = i
  /\ UNCHANGED <<locals, generatorOn, thread, shared, sensorReady, published>>

Display ==
  /\ bOk /\ i <= NbSteps
  /\ \/ At("display", "iris") /\ screen' = i /\ UNCHANGED bOk
     \/ Fails("display") /\ At("display", "blank") /\ bOk' = FALSE /\ UNCHANGED screen
  /\ UNCHANGED <<i, j, ending, bEscape, generatorOn, thread, shared, sensorReady, published>>

LoopEnds ==
  /\ ~(bOk /\ i <= NbSteps)
  /\ At("display", "blank")
  /\ UNCHANGED <<locals, device, thread, shared, sensorReady, published>>

WaitForDynamicIris ==
  /\ \/ At("iris", "request") /\ j' = 1 /\ UNCHANGED <<i, bOk, bEscape>>
     \/ Fails("escape") /\ At("iris", "display") /\ i' = i + 1 /\ bOk' = FALSE /\ bEscape' = TRUE
        /\ UNCHANGED j
  /\ UNCHANGED <<ending, device, thread, shared, sensorReady, published>>

NextRequest == IF j < NbDocs THEN j' = j + 1 /\ pc' = "request" ELSE j' = 1 /\ pc' = "wait"

\* Mutant: m_hEventDone is not reset.
RequestKeepsDone ==
  /\ pc = "request" /\ thread[j] # "none"
  /\ run' = [run EXCEPT ![j] = "off"]
  /\ step' = [step EXCEPT ![j] = i]
  /\ pc' = "signal"
  /\ UNCHANGED <<locals, device, thread, done, terminate, error, results, sensorReady, published>>

\* BackgroundMeasureColor: both events are reset before the request is written ...
BackgroundMeasureColor ==
  /\ pc = "request"
  /\ \/ /\ thread[j] # "none"
        /\ done' = [done EXCEPT ![j] = "off"]
        /\ run' = [run EXCEPT ![j] = "off"]
        /\ step' = [step EXCEPT ![j] = i]
        /\ pc' = "signal" /\ UNCHANGED <<j, bOk>>
     \/ /\ thread[j] = "none"
        /\ bOk' = FALSE
        /\ NextRequest /\ UNCHANGED <<done, run, step>>
  /\ UNCHANGED <<i, ending, bEscape, device, thread, terminate, error, results, sensorReady, published>>

\* ... and m_hEventRun is set after it.
SignalRun ==
  /\ pc = "signal"
  /\ run' = [run EXCEPT ![j] = "on"]
  /\ NextRequest
  /\ UNCHANGED <<i, ending, bOk, bEscape, device, thread, done, terminate, error, step, results>>
  /\ UNCHANGED <<sensorReady, published>>

\* Mutant: it waits for any of the events.
WaitForAny ==
  /\ At("wait", "check")
  /\ \E d \in Docs : done[d] = "on"
  /\ UNCHANGED <<locals, device, thread, shared, sensorReady, published>>

\* WaitForMultipleObjects, for all events and without a time limit.
WaitForAll ==
  /\ At("wait", "check")
  /\ \A d \in Docs : done[d] = "on"
  /\ UNCHANGED <<locals, device, thread, shared, sensorReady, published>>

\* A cancelled luminance leaves bOk alone, the escape key does not.
Check ==
  /\ At("check", "display")
  /\ i' = i + 1
  /\ \/ UNCHANGED <<bOk, bEscape>>
     \/ Fails("lux") /\ bEscape' = TRUE /\ UNCHANGED bOk
     \/ Fails("escape") /\ bEscape' = TRUE /\ bOk' = FALSE
  /\ UNCHANGED <<j, ending, device, thread, shared, sensorReady, published>>

ReleaseGenerator ==
  /\ At("blank", "decide")
  /\ screen' = 0 /\ generatorOn' = FALSE
  /\ UNCHANGED <<locals, thread, shared, sensorReady, published>>

-----------------------------------------------------------------------------
(* The end: validation or cancellation of each document                    *)

Decide ==
  /\ pc = "decide"
  /\ j' = 1
  /\ \/ bOk /\ pc' = "validate" /\ ending' = "validate"
     \/ ~bOk /\ pc' = "cancel" /\ ending' = "cancel"
  /\ UNCHANGED <<i, bOk, bEscape, device, thread, shared, sensorReady, published>>

\* Mutant: m_bErrorOccurred is not tested.
ValidateAnyway ==
  /\ At("validate", "cancel")
  /\ published' = [published EXCEPT ![j] = results[j]]
  /\ UNCHANGED <<locals, device, thread, shared, sensorReady>>

\* ValidateBackground...: the results go to the document unless a measure failed.
Validate ==
  /\ \/ error[j] /\ At("validate", "cancel") /\ UNCHANGED published
     \/ /\ ~error[j] /\ thread[j] # "none"
        /\ At("validate", "cancel")
        /\ published' = [published EXCEPT ![j] = results[j]]
     \/ /\ ~error[j] /\ thread[j] = "none"       \* m_pBkMeasuredColor is NULL
        /\ At("validate", "crashed")
        /\ UNCHANGED published
  /\ UNCHANGED <<locals, device, thread, shared, sensorReady>>

\* The next document of the loop that called CancelBackgroundMeasures.
NextClosed ==
  LET last == IF ending = "undo" THEN 1 ELSE NbDocs
      next == IF ending = "undo" THEN j - 1 ELSE j + 1
  IN  IF j = last THEN pc' = "idle" /\ UNCHANGED j
      ELSE /\ j' = next
           /\ pc' = IF ending = "validate" THEN "validate" ELSE "cancel"

\* CancelBackgroundMeasures: ask the thread to end ...
CancelBackgroundMeasures ==
  /\ pc = "cancel"
  /\ \/ /\ thread[j] # "none"
        /\ terminate' = [terminate EXCEPT ![j] = TRUE]
        /\ pc' = "stop" /\ UNCHANGED j
     \/ thread[j] = "none" /\ NextClosed /\ UNCHANGED terminate
  /\ UNCHANGED <<i, ending, bOk, bEscape, device, thread, run, done, error, step, results>>
  /\ UNCHANGED <<sensorReady, published>>

\* Mutant: the thread is not woken.
NoSignalStop ==
  /\ At("stop", "join")
  /\ UNCHANGED <<locals, device, thread, shared, sensorReady, published>>

\* ... wake it up ...
SignalStop ==
  /\ At("stop", "join")
  /\ run' = [run EXCEPT ![j] = "on"]
  /\ UNCHANGED <<locals, device, thread, done, terminate, error, step, results, sensorReady, published>>

\* ... wait for its end, again without a time limit, and delete what it used.
Join ==
  /\ pc = "join"
  /\ thread[j] = "over"
  /\ thread' = [thread EXCEPT ![j] = "none"]
  /\ run' = [run EXCEPT ![j] = "null"] /\ done' = [done EXCEPT ![j] = "null"]
  /\ results' = [results EXCEPT ![j] = NoData]
  /\ NextClosed
  /\ UNCHANGED <<i, ending, bOk, bEscape, device, terminate, error, step, sensorReady, published>>

-----------------------------------------------------------------------------
(* BkGndMeasureThreadFunc                                                  *)

Wake(d) ==
  /\ run[d] = "on"
  /\ Thread(d, "wait", "reset")
  /\ UNCHANGED <<pc, locals, device, shared, sensorReady, published>>

\* Mutant: m_hEventRun, which Windows does not reset by itself, is left on.
KeepRun(d) ==
  /\ Thread(d, "reset", "test")
  /\ UNCHANGED <<pc, locals, device, shared, sensorReady, published>>

ResetRun(d) ==
  /\ Thread(d, "reset", "test")
  /\ run' = [run EXCEPT ![d] = "off"]
  /\ UNCHANGED <<pc, locals, device, done, terminate, error, step, results, sensorReady, published>>

TestTerminate(d) ==
  /\ Thread(d, "test", IF terminate[d] THEN "leave" ELSE "measure")
  /\ UNCHANGED <<pc, locals, device, shared, sensorReady, published>>

\* MeasureColor returns what is on the screen, or an invalid measure.
MeasureColor(d) ==
  /\ Thread(d, "measure", "report")
  /\ \/ results' = [results EXCEPT ![d][step[d]] = screen] /\ UNCHANGED error
     \/ /\ Fails("measure")
        /\ results' = [results EXCEPT ![d][step[d]] = 0]
        /\ error' = [error EXCEPT ![d] = TRUE]
  /\ UNCHANGED <<pc, locals, device, run, done, terminate, step, sensorReady, published>>

\* An exception ends the thread: the error is not registered, m_hEventDone is not
\* set and the sensor is not released.
Throws(d) ==
  /\ Fails("throw")
  /\ Thread(d, "measure", "thrown")
  /\ UNCHANGED <<pc, locals, device, shared, sensorReady, published>>

SetDone(d) ==
  /\ Thread(d, "report", "wait")
  /\ done' = [done EXCEPT ![d] = "on"]
  /\ UNCHANGED <<pc, locals, device, run, terminate, error, step, results, sensorReady, published>>

Leave(d) ==
  /\ Thread(d, "leave", "over")
  /\ sensorReady' = [sensorReady EXCEPT ![d] = FALSE]
  /\ UNCHANGED <<pc, locals, device, shared, published>>

-----------------------------------------------------------------------------
\* What the user interface thread does once the command is given.
Ui ==
  \/ InitBackgroundMeasures \/ InitGenerator \/ Display \/ LoopEnds \/ WaitForDynamicIris
  \/ BackgroundMeasureColor \/ SignalRun \/ WaitForAll \/ Check \/ ReleaseGenerator
  \/ Decide \/ Validate \/ CancelBackgroundMeasures \/ SignalStop \/ Join

BkGndMeasure(d) ==
  \/ Wake(d) \/ ResetRun(d) \/ TestTerminate(d)
  \/ MeasureColor(d) \/ Throws(d) \/ SetDone(d) \/ Leave(d)

Next == Perform \/ Ui \/ \E d \in Docs : BkGndMeasure(d)

Spec == Init /\ [][Next]_vars

\* The operating system runs each thread that is not blocked, and MeasureColor
\* returns or throws; nobody has to give the command.
Fairness == WF_vars(Ui) /\ \A d \in Docs : WF_vars(BkGndMeasure(d))

FairSpec == Spec /\ Fairness

-----------------------------------------------------------------------------
(* Properties                                                              *)

\* Each variable keeps its type.
TypeOK ==
  /\ pc \in UiPCs /\ i \in 1 .. NbSteps + 1 /\ j \in Docs
  /\ ending \in {"validate", "cancel", "undo"}
  /\ bOk \in BOOLEAN /\ bEscape \in BOOLEAN
  /\ screen \in 0 .. NbSteps /\ generatorOn \in BOOLEAN
  /\ thread \in [Docs -> ThreadPCs]
  /\ run \in [Docs -> EventStates] /\ done \in [Docs -> EventStates]
  /\ terminate \in [Docs -> BOOLEAN] /\ error \in [Docs -> BOOLEAN]
  /\ step \in [Docs -> 0 .. NbSteps]
  /\ results \in [Docs -> [Steps -> 0 .. NbSteps]]
  /\ sensorReady \in [Docs -> BOOLEAN]
  /\ published \in [Docs -> [Steps -> 0 .. NbSteps]]

Reading == {d \in Docs : thread[d] = "measure"}

\* A sensor measures for the step whose pattern is on the screen, though it learns
\* of the step through shared fields that the events alone protect.
MeasuresWhatIsShown == \A d \in Reading : screen = i /\ step[d] = i /\ sensorReady[d]

\* Whatever failed or was cancelled, and in whatever order: when the command
\* returns no thread is left, and no sensor and no generator is left initialised.
NothingLeft ==
  pc = "idle" => ~generatorOn /\ \A d \in Docs : thread[d] = "none" /\ ~sensorReady[d]

\* PerformSimultaneousMeasures, "Transfer background results in document results":
\* what reaches a document was measured, on every step.
OnlyResultsAreTransferred ==
  [][\A d \in Docs : published'[d] # published[d] => \A k \in Steps : published'[d][k] = k]_vars

\* The simultaneous measure is a parallel one.
Parallel == INSTANCE ParallelMeasure WITH
  Sensors <- Docs, shown <- screen, reading <- Reading, readings <- results

Implements == Parallel!Spec

\* The command returns, unless a measure throws: no wake-up is lost, by a sensor or by
\* the user interface, although both wait without a time limit.
Thrown(d) == thread[d] = "thrown"
Returns == pc # "idle" ~> pc = "idle" \/ \E d \in Docs : Thrown(d)

\* Why it returns, first part: no wake-up is lost.  A thread that the user interface
\* waits for, without a time limit, has answered or has something left to do.  There
\* are two exceptions: a document without a thread, whose m_hEventRun could not be
\* created, and a thread that a measure has ended by an exception.
Awake(d) == thread[d] \in {"reset", "test", "measure", "report", "leave"}
            \/ (thread[d] = "wait" /\ run[d] = "on")
NoLostWakeUp ==
  /\ pc = "wait" => \A d \in Docs :
       done[d] = "on" \/ Awake(d) \/ Thrown(d) \/ (Fails("run") /\ thread[d] = "none")
  /\ pc = "join" => thread[j] = "over" \/ Awake(j)

\* Second part: each step of the command brings it nearer to its end, and so does
\* each step of a thread, which never does again what it was asked once.
Place ==
  CASE pc = "init" -> 10
    [] pc = "generator" -> 9
    [] pc = "display" -> 8
    [] pc = "iris" -> 7
    [] pc \in {"request", "signal"} -> 6
    [] pc = "wait" -> 5
    [] pc = "check" -> 4
    [] pc = "blank" -> 3
    [] pc = "decide" -> 2
    [] pc \in {"validate", "cancel", "stop", "join"} -> 1
    [] OTHER -> 0
Turn ==
  CASE pc = "validate" -> 3
    [] pc = "cancel" -> 2
    [] pc \in {"stop", "request"} -> 1
    [] OTHER -> 0
DocsLeft == 4 * (IF Place = 1 /\ ending = "undo" THEN j ELSE NbDocs - j) + Turn
Work(d) ==
  CASE thread[d] = "wait" /\ run[d] = "on" -> 6
    [] thread[d] = "reset" -> 5
    [] thread[d] = "test" -> 4
    [] thread[d] = "measure" -> 3
    [] thread[d] = "report" -> 2
    [] thread[d] = "leave" -> 1
    [] OTHER -> 0
UiAdvances ==
  \/ i' > i
  \/ i' = i /\ Place' < Place
  \/ i' = i /\ Place' = Place /\ DocsLeft' < DocsLeft
Works(d) ==
  /\ Work(d)' < Work(d) /\ \A e \in Docs \ {d} : Work(e)' = Work(e)
  /\ UNCHANGED <<pc, i, j, ending>>
CommandGoesOn ==
  [][pc # "idle" /\ pc' # "idle" => UiAdvances \/ \E d \in Docs : Works(d)]_vars

-----------------------------------------------------------------------------
(* The inductive invariants behind the safety properties and the refinement. *)

Closed(d) == thread[d] = "none"

\* Nothing is asked of a document's thread.
Quiet(d) == Closed(d) \/ (thread[d] = "wait" /\ run[d] = "off" /\ ~terminate[d])

\* The thread was asked to measure step i; when it has answered, m_hEventDone is set,
\* when it has thrown, never.
Asked(d) ==
  \/ Closed(d)
  \/ /\ step[d] = i /\ ~terminate[d]
     /\ <<thread[d], run[d], done[d]>> \in
          {<<"wait", "on", "off">>, <<"reset", "on", "off">>, <<"test", "off", "off">>,
           <<"measure", "off", "off">>, <<"report", "off", "off">>, <<"wait", "off", "on">>,
           <<"thrown", "off", "off">>}

\* The thread was asked to end.
Stopping(d) ==
  /\ terminate[d]
  /\ <<thread[d], run[d]>> \in {<<"wait", "on">>, <<"reset", "on">>, <<"test", "off">>,
                                <<"leave", "off">>, <<"over", "off">>}

BetweenPCs == {"generator", "display", "iris", "check", "blank", "decide"}
ClosingPCs == {"validate", "cancel", "stop", "join"}

\* The loop over the documents that closes them is past this one.
Past(d) == IF ending = "undo" THEN d > j ELSE d < j

\* What each document's thread may be doing while the user interface is where it is.
HandledAt(d) ==
  /\ pc = "idle" => Closed(d)
  /\ pc = "init" => IF d < j THEN Quiet(d) ELSE Closed(d)
  /\ pc \in BetweenPCs \cup {"crashed"} => Quiet(d)
  /\ pc \in {"request", "signal"} => IF d < j THEN Asked(d) ELSE Quiet(d)
  /\ pc = "signal" /\ d = j => ~Closed(d) /\ step[d] = i /\ done[d] = "off"
  /\ pc = "wait" => Asked(d)
  /\ pc \in ClosingPCs /\ Past(d) => Closed(d)
  /\ pc \in ClosingPCs /\ ~Past(d) /\ d # j => Quiet(d)
  /\ pc \in {"validate", "cancel"} /\ d = j => Quiet(d)
  /\ pc = "stop" /\ d = j => thread[d] = "wait" /\ run[d] = "off" /\ terminate[d]
  /\ pc = "join" /\ d = j => Stopping(d)
  /\ sensorReady[d] <=> thread[d] \notin {"none", "over"}
HandOver == \A d \in Docs : HandledAt(d)

\* Where the loop over the steps is, and what the generator shows meanwhile.
LoopInv ==
  /\ pc \in {"init", "generator"} => i = 1 /\ bOk
  /\ pc \in {"iris", "request", "signal", "wait", "check"} => i \in Steps /\ screen = i
  /\ pc \in {"init", "generator", "decide", "idle"} \cup ClosingPCs => screen = 0 /\ ~generatorOn
  /\ pc = "display" /\ bOk => screen = i - 1
  /\ pc = "blank" /\ bOk => i = NbSteps + 1
  /\ pc = "decide" /\ bOk => i = NbSteps + 1 \/ Fails("generator")
  /\ pc = "validate" => ending = "validate"
  /\ pc \in ClosingPCs /\ ending = "validate" => bOk /\ (i = NbSteps + 1 \/ Fails("generator"))

\* After the beginning every document has a thread, unless a run event is missing.
OpenedInv ==
  ~Fails("run") =>
    /\ pc = "init" => \A d \in Docs : d < j => ~Closed(d)
    /\ pc \in BetweenPCs \cup {"request", "signal", "wait"} => \A d \in Docs : ~Closed(d)

\* The last step for which the thread of a document has an answer.
Answered(d) ==
  IF \/ pc = "check"
     \/ /\ pc = "wait" \/ (pc \in {"request", "signal"} /\ d < j)
        /\ thread[d] = "report" \/ (thread[d] = "wait" /\ run[d] = "off" /\ done[d] = "on")
    THEN i ELSE i - 1

\* A document without an error has the readings of the steps answered.
ReadAt(d) == bOk /\ ~Closed(d) /\ ~error[d] =>
  \A k \in Steps : k <= Answered(d) => results[d][k] = k
ResultInv == \A d \in Docs : ReadAt(d)

SafetyInv == TypeOK /\ HandOver /\ LoopInv /\ ResultInv
=============================================================================
