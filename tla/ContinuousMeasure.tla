-------------------------- MODULE ContinuousMeasure --------------------------
(***************************************************************************)
(* The continuous ("free") measures of datasetdoc.cpp: one background      *)
(* thread measures for one document while the user interface thread runs   *)
(* the commands of all of them.  The two share the file's global variables *)
(* (lines 106-115), a list of measures guarded by a critical section, and  *)
(* the message queue through which the thread asks the user interface to   *)
(* collect the list.                                                       *)
(*                                                                         *)
(* A session is one call of AfxBeginThread.  A step is a stretch of code   *)
(* with one access, or one test and its consequence, to what the other     *)
(* thread can change, in the order of the code; only the block that gives  *)
(* the generator back is one step on either side.                          *)
(*                                                                         *)
(* StartBackgroundMeasures may dispatch messages in its middle: while the  *)
(* sensor asks the user something, while the generator tells that it fails *)
(* and while the first colour is shown.  What is left of it is a frame on  *)
(* a stack, and the user interface is back in a message loop.              *)
(***************************************************************************)
EXTENDS Naturals, Sequences, FiniteSets

CONSTANTS
  Docs,         \* the documents, each with a sensor and a generator of its own
  NoDoc,        \* the NULL document pointer
  MaxSessions,  \* bound: background threads created in a behaviour
  MaxMeasures,  \* bound: valid measures of a session
  MaxStarting,  \* bound: starts that wait beneath a new one, and that one
  GdiDocs,      \* the documents whose generator is the GDI one (test colours on)
  BlankDocs,    \* the documents whose generator blanks the screen
  Views         \* the number of views open on each document

ASSUME DocsAssumption ==
  /\ NoDoc \notin Docs
  /\ GdiDocs \subseteq Docs
  /\ BlankDocs \subseteq Docs
  /\ Views \in [Docs -> Nat \ {0}]
ASSUME BoundsAssumption ==
  MaxSessions \in Nat /\ MaxMeasures \in Nat /\ MaxStarting \in Nat

Sessions == 1 .. MaxSessions
NoSession == 0

VARIABLES
  mpc,          \* where the user interface thread is; "idle" is a message loop
  mthen,        \* where it goes when StopBackgroundMeasures returns
  mdoc,         \* the document its command is about
  mhandle,      \* the thread handle it holds in a local (created or waited for)
  hThread,      \* g_hThread
  terminate,    \* g_bTerminateThread
  runningDoc,   \* g_pDataDocRunningThread
  genRunning,   \* g_bGDIGeneratorRunning
  blankSaved,   \* g_bGeneratorUsesScreenBlanking
  csLive,       \* g_CritSec is initialised
  list,         \* g_MeasuredColorList: the measures <<session, number>> to collect
  posted,       \* WM_BKGND_MEASURE_READY messages waiting in the queue
  tpc,          \* where each background thread is
  tdoc,         \* the document whose pSensor and pGenerator it took
  tcount,       \* the valid measures it made
  sensorReady,  \* the sensors that are initialised
  genOn,        \* the generators that are initialised
  blanking,     \* m_doScreenBlanking of each generator
  series,       \* the document that a series of measures is running on
  open,         \* the documents that are open
  starting,     \* the starts whose message loop runs, the innermost first
  beneath,      \* how many of them the series that runs interrupted
  free,         \* the free measures of each document
  interrupted,  \* history: a command interrupted a start it meddles with
  raced         \* history: two activities overlapped, see Collision

ui == <<mpc, mthen, mdoc, mhandle>>
globals == <<hThread, terminate, runningDoc, genRunning, blankSaved, csLive>>
threads == <<tpc, tdoc, tcount>>
devices == <<sensorReady, genOn, blanking>>
docs == <<series, open, starting, beneath>>
data == <<list, posted, free>>
vars == <<ui, globals, threads, devices, docs, data, interrupted, raced>>

-----------------------------------------------------------------------------
UiPCs == {"idle", "start", "startGen", "startThread", "startAssign",
          "stop", "stopTarget", "stopWait", "stopDoc", "stopGen",
          "drainEnter", "drain", "series", "close", "crashed"}

WorkPCs == {"top", "show", "measure", "checkOk", "checkBad", "spin", "enter", "add", "post"}
ExitPCs == {"release", "delcs"}
FailPCs == {"fail1", "fail2", "failShow", "fail3", "fail4", "failRelease", "failDelcs"}
ThreadPCs == WorkPCs \cup ExitPCs \cup FailPCs \cup {"unborn", "ended", "failed", "thrown"}

Over == {"ended", "failed", "thrown"}
Live(s) == tpc[s] \notin Over \cup {"unborn"}
Failing(s) == tpc[s] \in FailPCs

\* Where a start waits: for the sensor's question to the user, for the message of a
\* generator that fails, for the first colour to be shown.
Frames == [doc : Docs \cup {NoDoc}, at : {"ask", "fail", "show"}]


\* g_bInsideBkgndRefresh: set and reset around the whole of OnBkgndMeasureReady.
InsideBkgndRefresh == mpc \in {"drainEnter", "drain"}

\* The critical section is held by the user interface while it collects the
\* list and by a thread while it adds to it.
CSFree == mpc # "drain" /\ \A s \in Sessions : tpc[s] # "add"

\* A start is interrupted by a command that meddles with it: by another start, or
\* by a series on its document, or the closing of that.
StartPCs == {"start", "startGen", "startThread", "startAssign"}
Interrupted ==
  /\ starting # <<>>
  /\ mpc \in StartPCs \/ (mpc \in {"series", "close"} /\ mdoc = Head(starting).doc)

\* The windows in which the code takes no precaution: a thread that is closing itself
\* after an invalid measure while the user interface is inside a command or a
\* refresh, a start that is interrupted, and continuous measures started by a
\* command that the message pump of a series dispatched, on the document of that.
Collision ==
  \/ mpc # "idle" /\ \E s \in Sessions : Failing(s)
  \/ Interrupted
  \/ series # NoDoc /\ (runningDoc = series \/ (mdoc = series /\ mpc \in StartPCs))

Watch ==
  /\ interrupted' = (interrupted \/ Interrupted')
  /\ raced' = (raced \/ Collision')

Ui(from, to) == mpc = from /\ mpc' = to
Crash == mpc' = "crashed"
Thread(s, from, to) ==
  /\ mpc # "crashed"
  /\ tpc[s] = from
  /\ tpc' = [tpc EXCEPT ![s] = to]

Init ==
  /\ mpc = "idle" /\ mthen = "idle" /\ mdoc = NoDoc /\ mhandle = NoSession
  /\ hThread = NoSession /\ terminate = FALSE /\ runningDoc = NoDoc
  /\ genRunning = FALSE /\ blankSaved = FALSE /\ csLive = FALSE
  /\ tpc = [s \in Sessions |-> "unborn"]
  /\ tdoc = [s \in Sessions |-> NoDoc]
  /\ tcount = [s \in Sessions |-> 0]
  /\ sensorReady = [d \in Docs |-> FALSE]
  /\ genOn = [d \in Docs |-> FALSE]
  /\ blanking = [d \in Docs |-> d \in BlankDocs]
  /\ series = NoDoc /\ open = Docs /\ starting = <<>> /\ beneath = 0
  /\ list = <<>> /\ posted = <<>> /\ free = [d \in Docs |-> <<>>]
  /\ interrupted = FALSE /\ raced = FALSE

-----------------------------------------------------------------------------
(* The commands.  Each starts in a message loop, on an open document.      *)

Command(d, to, then) ==
  /\ d \in open
  /\ Ui("idle", to)
  /\ mdoc' = d /\ mthen' = then
  /\ UNCHANGED <<mhandle, globals, threads, devices, docs, data>>
  /\ Watch

\* OnContinuousMeasurement: start on this document, stop it, or move it here.
OnContinuousMeasurement(d) ==
  \/ runningDoc = d /\ Command(d, "stop", "idle")
  \/ /\ Len(starting) < MaxStarting
     /\ \/ runningDoc = NoDoc /\ Command(d, "start", "idle")
        \/ runningDoc \notin {NoDoc, d} /\ Command(d, "stop", "start")

\* The commands that begin with StopBackgroundMeasures and touch no device:
\* configurations, serialisation, a change of display mode.
OtherCommand(d) == Command(d, "stop", "idle")

\* Mutants: a command that forgets StopBackgroundMeasures.
MeasureWithoutStop(d) == series = NoDoc /\ Command(d, "series", "idle")
CloseWithoutStop(d) == series = NoDoc /\ Command(d, "close", "idle")

\* The Measure... commands.  Bound: a series is not started inside another.
MeasureCommand(d) == series = NoDoc /\ Command(d, "stop", "series")

\* OnCloseDocument.  Bound: not from inside a series.
OnCloseDocument(d) == series = NoDoc /\ Command(d, "stop", "close")

-----------------------------------------------------------------------------
(* StartBackgroundMeasures                                                 *)

\* Back to the message loop: the locals are gone.
Finish == mpc' = "idle" /\ mthen' = "idle" /\ mdoc' = NoDoc /\ mhandle' = NoSession
Advance(to) == mpc' = to /\ UNCHANGED <<mthen, mdoc, mhandle>>

\* A message loop inside of the start (which is the last thing its command does).
Pumps(at) == Finish /\ starting' = <<[doc |-> mdoc, at |-> at]>> \o starting

\* Mutant: the saved flag is forgotten.
NotRestored(d) == blanking

\* Give a generator its blanking flag back.
Restored(d) == IF blankSaved THEN [blanking EXCEPT ![d] = TRUE] ELSE blanking

StartRefused ==
  /\ mpc = "start"
  /\ runningDoc # NoDoc \/ hThread # NoSession
  /\ Finish
  /\ UNCHANGED <<globals, threads, devices, docs, data>>
  /\ Watch

\* Mutant: the result of Init is ignored.
StartSensorUnchecked ==
  /\ mpc = "start"
  /\ runningDoc = NoDoc /\ hThread = NoSession
  /\ Advance("startGen")
  /\ \/ sensorReady' = [sensorReady EXCEPT ![mdoc] = TRUE]
     \/ UNCHANGED sensorReady
  /\ UNCHANGED <<globals, threads, genOn, blanking, docs, data>>
  /\ Watch

\* Init may ask the user something, as for a calibration, before it returns.
StartSensor ==
  /\ mpc = "start"
  /\ runningDoc = NoDoc /\ hThread = NoSession
  /\ \/ /\ Advance("startGen")
        /\ sensorReady' = [sensorReady EXCEPT ![mdoc] = TRUE]
        /\ UNCHANGED starting
     \/ Pumps("ask") /\ UNCHANGED sensorReady
     \/ Finish /\ UNCHANGED <<starting, sensorReady>>      \* Init failed
  /\ UNCHANGED <<globals, threads, genOn, blanking, series, open, beneath, data>>
  /\ Watch

\* The GDI generator is initialised and DisplayRGBColor dispatches messages for a
\* while, as its nCount is 0; or Init fails and tells the user so.
StartGenerator ==
  /\ mpc = "startGen"
  /\ \/ /\ mdoc \notin GdiDocs
        /\ Advance("startThread")
        /\ UNCHANGED <<starting, blankSaved, blanking, genOn>>
     \/ /\ mdoc \in GdiDocs
        /\ blankSaved' = blanking[mdoc]
        /\ blanking' = [blanking EXCEPT ![mdoc] = FALSE]
        /\ \/ Pumps("show") /\ genOn' = [genOn EXCEPT ![mdoc] = TRUE]
           \/ Pumps("fail") /\ UNCHANGED genOn
  /\ UNCHANGED <<hThread, terminate, runningDoc, genRunning, csLive>>
  /\ UNCHANGED <<threads, sensorReady, series, open, beneath, data>>
  /\ Watch

\* The innermost start goes on when what interrupted it is over.
Resumes(at) ==
  /\ mpc = "idle"
  /\ starting # <<>> /\ Head(starting).at = at
  /\ series # NoDoc => Len(starting) > beneath
  /\ starting' = Tail(starting)
GoesOn(to) == mpc' = to /\ mdoc' = Head(starting).doc /\ UNCHANGED <<mthen, mhandle>>

StartAsked ==
  /\ Resumes("ask")
  /\ \/ /\ GoesOn("startGen")
        /\ sensorReady' = [sensorReady EXCEPT ![Head(starting).doc] = TRUE]
     \/ UNCHANGED <<ui, sensorReady>>                      \* Init failed
  /\ UNCHANGED <<globals, threads, genOn, blanking, series, open, beneath, data>>
  /\ Watch

StartShown ==
  /\ Resumes("show")
  /\ GoesOn("startThread")
  /\ genRunning' = TRUE
  /\ UNCHANGED <<hThread, terminate, runningDoc, blankSaved, csLive>>
  /\ UNCHANGED <<threads, devices, series, open, beneath, data>>
  /\ Watch

\* Mutant: the sensor is not released.
StartGenFailsKeepsSensor ==
  /\ Resumes("fail")
  /\ blanking' = Restored(Head(starting).doc)
  /\ blankSaved' = FALSE
  /\ UNCHANGED <<ui, hThread, terminate, runningDoc, genRunning, csLive>>
  /\ UNCHANGED <<threads, sensorReady, genOn, series, open, beneath, data>>
  /\ Watch

StartGenFails ==
  /\ Resumes("fail")
  /\ sensorReady' = [sensorReady EXCEPT ![Head(starting).doc] = FALSE]
  /\ blanking' = Restored(Head(starting).doc)
  /\ blankSaved' = FALSE
  /\ UNCHANGED <<ui, hThread, terminate, runningDoc, genRunning, csLive>>
  /\ UNCHANGED <<threads, genOn, series, open, beneath, data>>
  /\ Watch

\* The document was closed in between: using it may crash, or go unnoticed.
StartCrashes ==
  /\ \E at \in {"ask", "fail", "show"} : Resumes(at)
  /\ Head(starting).doc \notin open
  /\ Advance("crashed")
  /\ UNCHANGED <<globals, threads, devices, series, open, beneath, data>>
  /\ Watch

\* Mutant: the critical section is not initialised.
StartThreadWithoutCS(s) ==
  /\ tpc[s] = "unborn" /\ \A t \in Sessions : t < s => tpc[t] # "unborn"
  /\ mpc = "startThread"
  /\ mpc' = "startAssign" /\ mhandle' = s /\ UNCHANGED <<mthen, mdoc>>
  /\ terminate' = FALSE /\ runningDoc' = mdoc
  /\ tpc' = [tpc EXCEPT ![s] = "top"]
  /\ tdoc' = [tdoc EXCEPT ![s] = mdoc]
  /\ UNCHANGED <<hThread, csLive, genRunning, blankSaved, tcount, devices, docs, data>>
  /\ Watch

\* AfxBeginThread: the thread runs before its handle is in g_hThread.
StartThread(s) ==
  /\ tpc[s] = "unborn" /\ \A t \in Sessions : t < s => tpc[t] # "unborn"
  /\ mpc = "startThread"
  /\ mpc' = "startAssign" /\ mhandle' = s /\ UNCHANGED <<mthen, mdoc>>
  /\ terminate' = FALSE /\ runningDoc' = mdoc /\ csLive' = TRUE
  /\ tpc' = [tpc EXCEPT ![s] = "top"]
  /\ tdoc' = [tdoc EXCEPT ![s] = mdoc]
  /\ UNCHANGED <<hThread, genRunning, blankSaved, tcount, devices, docs, data>>
  /\ Watch

StartThreadFails ==
  /\ mpc = "startThread"
  /\ Finish
  /\ terminate' = FALSE /\ csLive' = FALSE /\ hThread' = NoSession
  /\ sensorReady' = [sensorReady EXCEPT ![mdoc] = FALSE]
  /\ genRunning' = FALSE
  /\ IF genRunning
       THEN /\ genOn' = [genOn EXCEPT ![mdoc] = FALSE]
            /\ blanking' = Restored(mdoc)
            /\ blankSaved' = FALSE
       ELSE UNCHANGED <<genOn, blanking, blankSaved>>
  /\ runningDoc' = NoDoc
  /\ UNCHANGED <<threads, docs, data>>
  /\ Watch

\* The views of the running document get their button, if there still is one.
StartAssign ==
  /\ mpc = "startAssign"
  /\ \/ Finish
     \/ runningDoc = NoDoc /\ Advance("crashed")
  /\ hThread' = mhandle
  /\ UNCHANGED <<terminate, runningDoc, genRunning, blankSaved, csLive>>
  /\ UNCHANGED <<threads, devices, docs, data>>
  /\ Watch

-----------------------------------------------------------------------------
(* StopBackgroundMeasures                                                  *)

Return == IF mthen = "idle" THEN Finish ELSE mpc' = mthen /\ mthen' = "idle" /\ UNCHANGED <<mdoc, mhandle>>

StopRequest ==
  /\ mpc = "stop"
  /\ \/ hThread # NoSession /\ Advance("stopTarget") /\ terminate' = TRUE
     \/ hThread = NoSession /\ Advance("stopDoc") /\ UNCHANGED terminate
  /\ UNCHANGED <<hThread, runningDoc, genRunning, blankSaved, csLive>>
  /\ UNCHANGED <<threads, devices, docs, data>>
  /\ Watch

\* (HANDLE)(*g_hThread), read again; MFC turns a NULL object into a NULL handle.
StopTarget ==
  /\ mpc = "stopTarget"
  /\ mpc' = "stopWait" /\ mhandle' = hThread /\ UNCHANGED <<mthen, mdoc>>
  /\ UNCHANGED <<globals, threads, devices, docs, data>>
  /\ Watch

\* Mutants: no wait for the thread, no emptying of the list.
StopWithoutWait ==
  /\ mpc = "stopWait"
  /\ mpc' = "stopDoc" /\ mhandle' = NoSession /\ UNCHANGED <<mthen, mdoc>>
  /\ list' = <<>>
  /\ hThread' = NoSession /\ terminate' = FALSE
  /\ UNCHANGED <<runningDoc, genRunning, blankSaved, csLive>>
  /\ UNCHANGED <<threads, devices, docs, posted, free>>
  /\ Watch
StopKeepsList ==
  /\ mpc = "stopWait"
  /\ mhandle # NoSession => tpc[mhandle] \in Over
  /\ mpc' = "stopDoc" /\ mhandle' = NoSession /\ UNCHANGED <<mthen, mdoc>>
  /\ hThread' = NoSession /\ terminate' = FALSE
  /\ UNCHANGED <<runningDoc, genRunning, blankSaved, csLive>>
  /\ UNCHANGED <<threads, devices, docs, data>>
  /\ Watch

\* The wait ends with the thread, or at once on a NULL handle.
StopWait ==
  /\ mpc = "stopWait"
  /\ mhandle # NoSession => tpc[mhandle] \in Over
  /\ mpc' = "stopDoc" /\ mhandle' = NoSession /\ UNCHANGED <<mthen, mdoc>>
  /\ list' = <<>>
  /\ hThread' = NoSession /\ terminate' = FALSE
  /\ UNCHANGED <<runningDoc, genRunning, blankSaved, csLive>>
  /\ UNCHANGED <<threads, devices, docs, posted, free>>
  /\ Watch

StopDoc ==
  /\ mpc = "stopDoc"
  /\ \/ runningDoc # NoDoc /\ Advance("stopGen")
     \/ runningDoc = NoDoc /\ Return
  /\ UNCHANGED <<globals, threads, devices, docs, data>>
  /\ Watch

\* ReleaseGenerator is the block that Stop and the failing thread share.
ReleaseGenerator ==
  IF genRunning
    THEN /\ genOn' = [genOn EXCEPT ![runningDoc] = FALSE]
         /\ blanking' = Restored(runningDoc)
         /\ blankSaved' = FALSE
         /\ genRunning' = FALSE
    ELSE UNCHANGED <<genOn, blanking, blankSaved, genRunning>>

StopGenerator ==
  /\ mpc = "stopGen"
  /\ \/ /\ runningDoc # NoDoc
        /\ Return
        /\ ReleaseGenerator
        /\ runningDoc' = NoDoc
     \/ /\ runningDoc = NoDoc                   \* a NULL document is used
        /\ Advance("crashed")
        /\ UNCHANGED <<runningDoc, genRunning, blankSaved, genOn, blanking>>
  /\ UNCHANGED <<hThread, terminate, csLive, threads, sensorReady, docs, data>>
  /\ Watch

-----------------------------------------------------------------------------
(* What follows the stop in the commands that go on.                       *)

\* CMeasure::Measure...: the series owns the sensor and the generator.  Its
\* message pump dispatches commands, so the user interface is "idle" inside it.
SeriesBegin ==
  /\ mpc = "series"
  /\ Finish
  /\ \/ /\ series' = mdoc
        /\ sensorReady' = [sensorReady EXCEPT ![mdoc] = TRUE]
        /\ genOn' = [genOn EXCEPT ![mdoc] = TRUE]
     \/ UNCHANGED <<series, sensorReady, genOn>>           \* Init failed
  /\ beneath' = Len(starting)
  /\ UNCHANGED <<globals, threads, blanking, open, starting, data>>
  /\ Watch

SeriesEnd ==
  /\ mpc = "idle" /\ series # NoDoc /\ Len(starting) = beneath
  /\ series' = NoDoc /\ beneath' = 0
  /\ sensorReady' = [sensorReady EXCEPT ![series] = FALSE]
  /\ genOn' = [genOn EXCEPT ![series] = FALSE]
  /\ UNCHANGED <<ui, globals, threads, blanking, open, starting, data>>
  /\ Watch

\* The document, its sensor and its generator are deleted.
Close ==
  /\ mpc = "close"
  /\ Finish
  /\ open' = open \ {mdoc}
  /\ sensorReady' = [sensorReady EXCEPT ![mdoc] = FALSE]
  /\ genOn' = [genOn EXCEPT ![mdoc] = FALSE]
  /\ UNCHANGED <<globals, threads, blanking, series, starting, beneath, data>>
  /\ Watch

-----------------------------------------------------------------------------
(* OnBkgndMeasureReady, called for each WM_BKGND_MEASURE_READY message.    *)

Dispatch ==
  /\ mpc = "idle" /\ posted # <<>>
  /\ posted' = Tail(posted)
  /\ \/ /\ hThread # NoSession /\ ~terminate /\ runningDoc = Head(posted)
        /\ mpc' = "drainEnter" /\ mdoc' = Head(posted)
     \/ /\ ~(hThread # NoSession /\ ~terminate /\ runningDoc = Head(posted))
        /\ UNCHANGED <<mpc, mdoc>>
  /\ UNCHANGED <<mthen, mhandle, globals, threads, devices, docs, list, free>>
  /\ Watch

DrainEnter ==
  /\ mpc = "drainEnter"
  /\ \/ csLive /\ CSFree /\ Advance("drain")
     \/ ~csLive /\ Advance("crashed")           \* enters a deleted section
  /\ UNCHANGED <<globals, threads, devices, docs, data>>
  /\ Watch

\* Mutant: the list is not emptied.
DrainKeepsList ==
  /\ mpc = "drain" /\ runningDoc # NoDoc
  /\ Finish
  /\ LET n == IF Len(list) < Views[runningDoc] THEN Len(list) ELSE Views[runningDoc]
     IN  free' = [free EXCEPT ![mdoc] = @ \o SubSeq(list, 1, n)]
  /\ UNCHANGED <<globals, threads, devices, docs, list, posted>>
  /\ Watch

\* One list element is taken for each view of the document; the rest is dropped.
Drain ==
  /\ mpc = "drain"
  /\ \/ /\ runningDoc # NoDoc
        /\ Finish
        /\ LET n == IF Len(list) < Views[runningDoc] THEN Len(list) ELSE Views[runningDoc]
           IN  free' = [free EXCEPT ![mdoc] = @ \o SubSeq(list, 1, n)]
        /\ list' = <<>>
     \/ /\ runningDoc = NoDoc                   \* a NULL document is used
        /\ Advance("crashed")
        /\ UNCHANGED <<free, list>>
  /\ UNCHANGED <<globals, threads, devices, docs, posted>>
  /\ Watch

-----------------------------------------------------------------------------
(* BkgndThreadFunc                                                         *)

\* Mutant: the loop does not look at the flag.
LoopForEver(s) ==
  /\ Thread(s, "top", "measure")
  /\ UNCHANGED <<ui, globals, tdoc, tcount, devices, docs, data>>
  /\ Watch

\* With the GDI generator a new colour, or the one that dims the screen, is shown.
LoopTop(s) ==
  /\ \/ Thread(s, "top", IF terminate THEN "release" ELSE "measure")
     \/ ~terminate /\ genRunning /\ Thread(s, "top", "show")
  /\ UNCHANGED <<ui, globals, tdoc, tcount, devices, docs, data>>
  /\ Watch

\* The window of the generator belongs to the user interface thread, which must be
\* in a message loop for DisplayRGBColor to come back.
Shown(s) ==
  /\ mpc = "idle"
  /\ Thread(s, "show", "measure")
  /\ UNCHANGED <<ui, globals, tdoc, tcount, devices, docs, data>>
  /\ Watch

\* MeasureColor returns.  Bound: past MaxMeasures only once asked to terminate.
Measured(s) ==
  /\ \/ /\ tcount[s] < MaxMeasures
        /\ Thread(s, "measure", "checkOk")
        /\ tcount' = [tcount EXCEPT ![s] = @ + 1]
     \/ /\ tcount[s] = MaxMeasures /\ terminate
        /\ Thread(s, "measure", "checkOk")
        /\ UNCHANGED tcount
     \/ /\ Thread(s, "measure", "checkBad")
        /\ UNCHANGED tcount
  /\ UNCHANGED <<ui, globals, tdoc, devices, docs, data>>
  /\ Watch

\* MeasureColor, or the display of the colour before it, throws: the handlers at the
\* end of the function only log, and everything stays as it is.
Throws(s) ==
  /\ Thread(s, "measure", "thrown")
  /\ UNCHANGED <<ui, globals, tdoc, tcount, devices, docs, data>>
  /\ Watch

\* The termination request is tested before the validity of the measure.
CheckOk(s) ==
  /\ Thread(s, "checkOk", IF terminate THEN "release" ELSE "spin")
  /\ UNCHANGED <<ui, globals, tdoc, tcount, devices, docs, data>>
  /\ Watch

CheckBad(s) ==
  /\ Thread(s, "checkBad", IF terminate THEN "release" ELSE "fail1")
  /\ UNCHANGED <<ui, globals, tdoc, tcount, devices, docs, data>>
  /\ Watch

Spin(s) ==
  /\ ~InsideBkgndRefresh
  /\ Thread(s, "spin", "enter")
  /\ UNCHANGED <<ui, globals, tdoc, tcount, devices, docs, data>>
  /\ Watch

Enter(s) ==
  /\ \/ csLive /\ CSFree /\ Thread(s, "enter", "add") /\ UNCHANGED mpc
     \/ ~csLive /\ Thread(s, "enter", "enter") /\ Crash
  /\ UNCHANGED <<mthen, mdoc, mhandle, globals, tdoc, tcount, devices, docs, data>>
  /\ Watch

Add(s) ==
  /\ Thread(s, "add", "post")
  /\ list' = Append(list, <<s, tcount[s]>>)
  /\ UNCHANGED <<ui, globals, tdoc, tcount, devices, docs, posted, free>>
  /\ Watch

\* Mutant: no message is posted.
NoPost(s) ==
  /\ Thread(s, "post", "top")
  /\ UNCHANGED <<ui, globals, tdoc, tcount, devices, docs, data>>
  /\ Watch

Post(s) ==
  /\ Thread(s, "post", "top")
  /\ posted' = Append(posted, runningDoc)
  /\ UNCHANGED <<ui, globals, tdoc, tcount, devices, docs, list, free>>
  /\ Watch

\* "Error: close thread": the globals are reset one after the other.
FailHandle(s) ==
  /\ Thread(s, "fail1", "fail2")
  /\ hThread' = NoSession
  /\ UNCHANGED <<ui, terminate, runningDoc, genRunning, blankSaved, csLive>>
  /\ UNCHANGED <<tdoc, tcount, devices, docs, data>>
  /\ Watch

FailTerminate(s) ==
  /\ \/ Thread(s, "fail2", "fail3")
     \/ Thread(s, "fail2", "failShow")
  /\ terminate' = FALSE
  /\ UNCHANGED <<ui, hThread, runningDoc, genRunning, blankSaved, csLive>>
  /\ UNCHANGED <<tdoc, tcount, devices, docs, data>>
  /\ Watch

\* The button of each view that shows the free measures, and below the window of the
\* generator, belong to the user interface thread too.
FailButtons(s) ==
  /\ \/ /\ runningDoc # NoDoc /\ mpc = "idle"
        /\ Thread(s, "failShow", "fail3")
        /\ UNCHANGED mpc
     \/ /\ runningDoc = NoDoc                  \* a NULL document is used
        /\ Thread(s, "failShow", "fail3")
        /\ Crash
  /\ UNCHANGED <<mthen, mdoc, mhandle, globals, tdoc, tcount, devices, docs, data>>
  /\ Watch

FailGenerator(s) ==
  /\ \/ /\ genRunning => runningDoc # NoDoc /\ mpc = "idle"
        /\ Thread(s, "fail3", "fail4")
        /\ ReleaseGenerator
        /\ UNCHANGED mpc
     \/ /\ genRunning /\ runningDoc = NoDoc     \* a NULL document is used
        /\ Thread(s, "fail3", "fail4")
        /\ Crash
        /\ UNCHANGED <<genOn, blanking, blankSaved, genRunning>>
  /\ UNCHANGED <<mthen, mdoc, mhandle, hThread, terminate, runningDoc, csLive>>
  /\ UNCHANGED <<tdoc, tcount, sensorReady, docs, data>>
  /\ Watch

FailDoc(s) ==
  /\ Thread(s, "fail4", "failRelease")
  /\ runningDoc' = NoDoc
  /\ UNCHANGED <<ui, hThread, terminate, genRunning, blankSaved, csLive>>
  /\ UNCHANGED <<tdoc, tcount, devices, docs, data>>
  /\ Watch

\* After the loop, however it was left.
ReleaseSensor(s) ==
  /\ \/ Thread(s, "release", "delcs")
     \/ Thread(s, "failRelease", "failDelcs")
  /\ sensorReady' = [sensorReady EXCEPT ![tdoc[s]] = FALSE]
  /\ UNCHANGED <<ui, globals, tdoc, tcount, genOn, blanking, docs, data>>
  /\ Watch

DeleteCS(s) ==
  /\ \/ Thread(s, "delcs", "ended")
     \/ Thread(s, "failDelcs", "failed")
  /\ csLive' = FALSE
  /\ UNCHANGED <<ui, hThread, terminate, runningDoc, genRunning, blankSaved>>
  /\ UNCHANGED <<tdoc, tcount, devices, docs, data>>
  /\ Watch

-----------------------------------------------------------------------------
Commands == \E d \in Docs :
  \/ OnContinuousMeasurement(d)
  \/ OtherCommand(d)
  \/ MeasureCommand(d)
  \/ OnCloseDocument(d)

Start ==
  \/ StartRefused \/ StartSensor \/ StartGenerator
  \/ \E s \in Sessions : StartThread(s)
  \/ StartThreadFails \/ StartAssign
Resume == StartAsked \/ StartShown \/ StartGenFails \/ StartCrashes
Stop == StopRequest \/ StopTarget \/ StopWait \/ StopDoc \/ StopGenerator
Refresh == DrainEnter \/ Drain

BkgndThread(s) ==
  \/ LoopTop(s) \/ Shown(s) \/ Measured(s) \/ Throws(s) \/ CheckOk(s) \/ CheckBad(s)
  \/ Spin(s) \/ Enter(s) \/ Add(s) \/ Post(s)
  \/ FailHandle(s) \/ FailTerminate(s) \/ FailButtons(s) \/ FailGenerator(s) \/ FailDoc(s)
  \/ ReleaseSensor(s) \/ DeleteCS(s)

\* What the user interface does without a user: finish what it began.
UiStep == Start \/ Stop \/ Refresh \/ SeriesBegin \/ Close

Next ==
  \/ Commands \/ UiStep \/ Resume \/ Dispatch \/ SeriesEnd
  \/ \E s \in Sessions : BkgndThread(s)

Spec == Init /\ [][Next]_vars

\* The scheduler runs the threads (MeasureColor returns), the message loop
\* serves posted messages before the user's input; no user has to act, no start
\* has to go on, and no measure has to be invalid or to throw.
Fairness ==
  /\ WF_vars(UiStep)
  /\ SF_vars(Dispatch)
  /\ \A s \in Sessions : WF_vars(BkgndThread(s) /\ tpc'[s] \notin {"checkBad", "thrown"})

FairSpec == Spec /\ Fairness

-----------------------------------------------------------------------------
(* Properties                                                              *)

\* Each variable keeps its type; no thread comes back from its end.
StateType ==
  /\ mpc \in UiPCs /\ mthen \in {"idle", "start", "series", "close"}
  /\ mdoc \in Docs \cup {NoDoc} /\ mhandle \in Sessions \cup {NoSession}
  /\ hThread \in Sessions \cup {NoSession} /\ terminate \in BOOLEAN
  /\ runningDoc \in Docs \cup {NoDoc}
  /\ genRunning \in BOOLEAN /\ blankSaved \in BOOLEAN /\ csLive \in BOOLEAN
  /\ tpc \in [Sessions -> ThreadPCs]
  /\ tdoc \in [Sessions -> Docs \cup {NoDoc}]
  /\ tcount \in [Sessions -> 0 .. MaxMeasures]
  /\ sensorReady \in [Docs -> BOOLEAN]
  /\ genOn \in [Docs -> BOOLEAN] /\ blanking \in [Docs -> BOOLEAN]
  /\ series \in Docs \cup {NoDoc} /\ open \subseteq Docs
  /\ starting \in Seq(Frames) /\ beneath \in Nat

Measures == Sessions \X (0 .. MaxMeasures)
DataType ==
  /\ list \in Seq(Measures)
  /\ posted \in Seq(Docs \cup {NoDoc})
  /\ free \in [Docs -> Seq(Measures)]

TypeOK == StateType /\ DataType /\ interrupted \in BOOLEAN /\ raced \in BOOLEAN

\* "Assume sensor is initialized", says BkgndThreadFunc (line 123) of the sensor
\* it measures with.  A command that the message loop of a start or of a series
\* dispatches, or a failing thread that releases the sensor late, breaks it.
SensorIsInitialized == \A s \in Sessions : tpc[s] = "measure" => sensorReady[tdoc[s]]

\* The assumption holds as long as nothing overlapped.
SensorIsInitializedUnlessRaced == raced \/ SensorIsInitialized

\* One background thread at a time, although only two globals stand between two calls
\* of StartBackgroundMeasures, which a failing thread resets early, and which are
\* tested long before they are set: until a start is interrupted by another.
OneThread == raced \/ \A s, t \in Sessions : Live(s) /\ Live(t) => s = t

\* Neither thread uses a NULL document or a deleted critical section.
NeverCrashes == raced \/ mpc # "crashed"

\* Between two sessions, however the last one ended (stop, error, failed start) and
\* with no start under way, the generator is released and has its own blanking flag back, and the sensor is
\* released; but a thread that is closing itself has its own still, and one that
\* was ended by an exception leaves it behind.
Latest(s) == \A t \in Sessions : t > s => tdoc[t] # tdoc[s]
DevicesGivenBack ==
  \/ raced
  \/ mpc = "idle" /\ runningDoc = NoDoc /\ starting = <<>> =>
       /\ ~genRunning /\ ~blankSaved
       /\ \A d \in Docs : blanking[d] <=> d \in BlankDocs
       /\ \A d \in Docs : genOn[d] => d = series
       /\ \A d \in Docs : sensorReady[d] =>
            \/ d = series
            \/ \E s \in Sessions : tdoc[s] = d /\ tpc[s] \in {"failRelease", "thrown"} /\ Latest(s)

\* A measure goes to the document whose sensor made it, except what a session
\* that ended with an error left in the list: that goes to whoever is next.
MeasuresGoHome == \A d \in Docs : \A i \in DOMAIN free[d] :
  LET s == free[d][i][1] IN raced \/ tdoc[s] = d \/ tpc[s] \in {"failed"} \cup FailPCs

\* No measure is appended twice, and those of a session arrive in the order in
\* which it made them: the list is handed over under the critical section.
DeliveredInOrder == \A d \in Docs : \A i, j \in DOMAIN free[d] :
  i < j /\ free[d][i][1] = free[d][j][1] => raced \/ free[d][i][2] < free[d][j][2]

\* Measures are collected only into a document that is still open, although a
\* message may come after OnCloseDocument has deleted the one it names; failing
\* threads do not matter, but a document may be closed in the middle of its start.
RunningDocIsOpen == interrupted \/ (runningDoc # NoDoc => runningDoc \in open)

\* No measure is forgotten in the list: while it holds one, a message that will have
\* OnBkgndMeasureReady collect it is in the queue, about to be posted, or being
\* handled; unless a session ended with an error.  Messages of an earlier session,
\* which are dropped, may be in the queue before it.
Announced ==
  \/ list = <<>>
  \/ \E i \in DOMAIN posted : posted[i] = runningDoc
  \/ \E s \in Sessions : tpc[s] = "post"
  \/ InsideBkgndRefresh
  \/ raced \/ \E s \in Sessions : tpc[s] \in FailPCs \cup {"failed"}

\* A series of measures starts when no background thread is left.
SeriesStartsAlone ==
  [][series = NoDoc /\ series' # NoDoc => raced \/ \A s \in Sessions : ~Live(s)]_vars

\* Why StopBackgroundMeasures returns: as long as it waits, each step of the program
\* takes the thread nearer to its end, for the flag is tested at the top of the loop
\* and after each measure, and stays up until the wait is over.  (There may be no
\* such step: a thread that shows a colour has to wait for the one that waits.)
StepsToEnd(at) ==
  CASE at = "spin" -> 7
    [] at = "enter" -> 6
    [] at \in {"add", "show"} -> 5
    [] at \in {"post", "measure"} -> 4
    [] at \in {"top", "checkOk", "checkBad"} -> 3
    [] at = "release" -> 2
    [] at = "delcs" -> 1
    [] OTHER -> 0
StopGetsNearer ==
  [][mpc = "stopWait" /\ mpc' = "stopWait" =>
       raced' \/ StepsToEnd(tpc'[mhandle]) < StepsToEnd(tpc[mhandle])]_vars

\* The user interface waits for a thread that waits for the user interface.
WaitForEachOther == mpc = "stopWait" /\ mhandle # NoSession /\ tpc[mhandle] = "show"


\* "Wait for thread ending", says the comment of line 394 on the wait, which has no
\* limit: the thread ends.  It does not if it has begun to show a colour.
ThreadEnds == mpc = "stopWait" ~> (mpc # "stopWait" \/ raced)

\* "Another document uses background thread: stop it before starting our background
\* thread", says line 4089.  A start that interrupts another one finds no thread to
\* stop, and the interrupted one creates its own thread beside it.
StopsOtherDocument ==
  [][\A s \in Sessions : tpc[s] = "unborn" /\ tpc'[s] # "unborn" =>
       \A t \in Sessions : Live(t) => Failing(t) \/ tdoc[t] = tdoc'[s]]_vars

\* A measure in the list is collected or discarded in the end, unless a session
\* ended with an error, or everyone waits: the thread posts a message for each measure.
ListIsEmptied ==
  list # <<>> ~> (list = <<>> \/ raced \/ WaitForEachOther \/ \E s \in Sessions : tpc[s] \in FailPCs \cup {"failed"})

-----------------------------------------------------------------------------
(* The inductive invariant behind the safety properties: what holds as     *)
(* long as nothing raced.                                                  *)

Working(s) == tpc[s] \in WorkPCs
Exiting(s) == tpc[s] \in ExitPCs
Failed(s) == tpc[s] \in FailPCs \cup {"failed"}

\* StopBackgroundMeasures, or the end of the last session, is behind.
QuietPCs == {"start", "startGen", "startThread", "stopDoc", "stopGen", "series", "close"}

\* A session's thread is known by g_hThread, or about to be.
Known(s) == hThread = s \/ (mpc = "startAssign" /\ mhandle = s)

\* A session whose measures may still be collected: its thread works, or was ended
\* by an exception and nobody knows.
Serving(s) == Working(s) \/ (tpc[s] = "thrown" /\ Known(s))

\* Where each thread can be while the globals say what they say.
Accounted(s) ==
  /\ tpc[s] = "unborn" <=> tdoc[s] = NoDoc
  /\ Live(s) => \A t \in Sessions : Live(t) => t = s
  /\ Working(s) => Known(s) /\ sensorReady[tdoc[s]]
  /\ Serving(s) => csLive /\ runningDoc = tdoc[s]
  /\ Exiting(s) => hThread = s /\ runningDoc = tdoc[s] /\ mpc \in {"stopTarget", "stopWait"}
  /\ tpc[s] = "fail1" => hThread = s
  /\ tpc[s] \in FailPCs \ {"fail1"} => hThread = NoSession
  /\ tpc[s] \in {"fail1", "fail2", "failShow", "fail3", "fail4"} => runningDoc = tdoc[s]
  /\ tpc[s] \in {"failRelease", "failDelcs"} => runningDoc = NoDoc
  /\ tpc[s] = "fail4" => ~genRunning
  /\ tpc[s] = "ended" /\ hThread = s => mpc \in {"stopTarget", "stopWait"}
  /\ tpc[s] \in {"unborn", "failed"} => hThread # s
ThreadInv == \A s \in Sessions : Accounted(s)

\* What the user interface may rely on at each point of its commands.
UiInv ==
  /\ mpc # "crashed"
  /\ mpc \notin {"idle", "stop", "stopTarget", "stopWait", "stopDoc", "stopGen"} => mdoc \in Docs
  /\ mthen # "idle" => mdoc \in Docs
  /\ mpc = "idle" => mthen = "idle"
  /\ mpc \in {"start", "startGen"} \/ mthen = "start" => mdoc \in open
  /\ mthen = "series" \/ mpc = "series" => series = NoDoc
  /\ terminate <=> mpc \in {"stopTarget", "stopWait"}
  /\ mpc \in QuietPCs => hThread = NoSession /\ \A s \in Sessions : ~Live(s)
  /\ mpc \in QuietPCs \ {"stopDoc", "stopGen"} => runningDoc = NoDoc
  /\ mpc = "stopGen" => runningDoc # NoDoc
  /\ mpc \in {"startGen", "startThread", "startAssign"} => sensorReady[mdoc]
  /\ mpc = "startAssign" =>
       mhandle \in Sessions /\ Serving(mhandle) /\ hThread = NoSession /\ runningDoc = mdoc
  /\ mpc \in {"stopTarget", "stopWait"} => hThread # NoSession
  /\ mpc = "stopWait" => mhandle = hThread
  /\ InsideBkgndRefresh => hThread # NoSession /\ Serving(hThread) /\ runningDoc = mdoc

\* A start whose message loop runs: nothing else of a session is there, and what the
\* user interface does meanwhile does not concern its document.
StartingInv ==
  starting # <<>> =>
    /\ Tail(starting) = <<>>
    /\ hThread = NoSession /\ runningDoc = NoDoc /\ ~genRunning
    /\ \A s \in Sessions : ~Live(s)
    /\ mpc \in {"idle", "stop", "stopDoc", "series", "close"}
    /\ Head(starting).doc \in open \ {series}
    /\ Head(starting).at # "ask" => sensorReady[Head(starting).doc]
    /\ Head(starting).at = "fail" => ~genOn[Head(starting).doc]

\* The GDI generator, its blanking flag at least, is taken, and for which document.
Taken == genRunning \/ (starting # <<>> /\ Head(starting).at # "ask")
GdiOwner ==
  IF starting # <<>> THEN Head(starting).doc
  ELSE IF mpc = "startThread" THEN mdoc ELSE runningDoc

GeneratorInv ==
  /\ Taken => GdiOwner \in Docs
  /\ blankSaved <=> Taken /\ GdiOwner \in BlankDocs
  /\ \A d \in Docs : blanking[d] <=> d \in BlankDocs /\ ~(Taken /\ d = GdiOwner)
  /\ \A d \in Docs : genOn[d] => d = series \/ (Taken /\ d = GdiOwner)

\* A sensor that is initialised is that of a series, of a session about to begin, or
\* of the last session of its document, which has not released it yet or never will.
Holds(s) == tpc[s] \in WorkPCs \cup (FailPCs \ {"failDelcs"}) \cup {"release", "thrown"}
SensorInv ==
  /\ \A s, t \in Sessions : t < s /\ tpc[s] # "unborn" => tpc[t] # "unborn"
  /\ \A d \in Docs : sensorReady[d] =>
       \/ d = series
       \/ d = mdoc /\ mpc \in {"startGen", "startThread"}
       \/ starting # <<>> /\ d = Head(starting).doc /\ Head(starting).at # "ask"
       \/ \E s \in Sessions : tdoc[s] = d /\ Holds(s) /\ Latest(s)

\* The list holds measures of the running session and leftovers of failed ones.
Expected(s) == Failed(s) \/ (Known(s) /\ tdoc[s] = runningDoc)
AtHome(s, d) == Failed(s) \/ tdoc[s] = d
ListInv ==
  /\ \A i \in DOMAIN list : Expected(list[i][1])
  /\ \A d \in Docs : \A i \in DOMAIN free[d] : AtHome(free[d][i][1], d)

Clean ==
  /\ ~Collision
  /\ ThreadInv /\ UiInv /\ StartingInv /\ GeneratorInv /\ SensorInv /\ ListInv
SafetyInv == raced \/ Clean
Inv == TypeOK /\ SafetyInv

\* The inductive invariant behind RunningDocIsOpen, which failing threads respect.
StartsOnOpen ==
  /\ ~Interrupted
  /\ runningDoc # NoDoc => runningDoc \in open
  /\ mpc = "close" => runningDoc = NoDoc
  /\ mpc = "idle" => mthen = "idle"
  /\ mpc \in StartPCs \/ mthen = "start" => mdoc \in open
  /\ starting # <<>> => Head(starting).doc \in open /\ Tail(starting) = <<>>
OpenInv == interrupted \/ StartsOnOpen

\* The inductive invariant behind DeliveredInOrder.  On the way to add, a thread
\* has a measure with a number that no measure of its session had before; one
\* that went past the bound has been asked to terminate, and adds nothing.
Ordered(q) == \A i, j \in DOMAIN q : i < j /\ q[i][1] = q[j][1] => q[i][2] < q[j][2]
Older(q, r) == \A i \in DOMAIN q, j \in DOMAIN r : q[i][1] = r[j][1] => q[i][2] < r[j][2]
WillAdd(s) == tpc[s] \in {"spin", "enter", "add"} \/ (tpc[s] = "checkOk" /\ ~terminate)
Made == {m \in Measures : /\ m[2] <= tcount[m[1]]
                          /\ WillAdd(m[1]) => m[2] < tcount[m[1]]}
OrderInv ==
  /\ list \in Seq(Made) /\ free \in [Docs -> Seq(Made)]
  /\ Ordered(list)
  /\ \A d \in Docs : Ordered(free[d]) /\ Older(free[d], list)
=============================================================================
