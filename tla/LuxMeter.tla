------------------------------- MODULE LuxMeter -------------------------------
(***************************************************************************)
(* The lux meter of ColorHCFR.cpp: a thread receives one value after the   *)
(* other from a serial port; the user interface thread asks for the light  *)
(* of the pattern on the screen (BeginLuxMeasure, then GetLuxMeasure until *)
(* the values are stable) and has the user turn the scale of the meter     *)
(* through the advisor dialog of CMeasure::GetLuxMeasure.                  *)
(*                                                                         *)
(* The two threads share the value list and the flags of a measure under   *)
(* m_LuxCritSec; a block under it is one step.  A tick count is only ever  *)
(* compared with m_dwMeasureStartTime, so the model keeps the outcome.     *)
(***************************************************************************)
EXTENDS Naturals, Sequences

CONSTANTS
  Levels,       \* the light values that the meter may report
  Scales,       \* the scales of the meter, see AllScales
  WindowSize,   \* the length of m_LastLuxValues; 8 in the code
  MaxPatterns   \* bound: the patterns shown in a behaviour

AllScales == {"lowest", "middle", "highest"}
Kinds == {"low", "high", "in"}
NoScale == "none"

ASSUME LevelsAssumption == Levels \subseteq Nat
ASSUME ScalesAssumption == Scales \subseteq AllScales
ASSUME SizesAssumption == WindowSize \in Nat /\ WindowSize >= 3 /\ MaxPatterns \in Nat

VARIABLES
  pc,            \* where the user interface thread is
  after,         \* where it goes after BeginLuxMeasure or StartLuxMeasures
  answer,        \* what CColorHCFRApp::GetLuxMeasure returned
  result,        \* what CMeasure::GetLuxMeasure returns
  value,         \* the patterns of the values that *pLuxValue was computed from
  dialog,        \* pDlg and its buttons: "none", "open", "cancel" or "continue"
  pattern,       \* the number of the pattern on the screen
  lux,           \* where LuxMeterThreadFunc is; "none" when m_hLuxThread is NULL
  stop,          \* m_bStopLuxThread
  packet,        \* szBuf: the last packet received
  light,         \* the pattern on the screen when the last packet began
  refScale,      \* m_RefLuxParams
  current,       \* m_bLowLuxValue, m_bHighLuxValue and the two scale flags
  received,      \* m_dwLuxValueTime # 0
  silent,        \* m_dwLuxValueTime is 10 seconds old
  tickSince,     \* dwStartTick >= m_dwMeasureStartTime
  valueSince,    \* m_dwLuxValueTime >= m_dwMeasureStartTime
  previousSince, \* m_dwPreviousLuxValueTime >= m_dwMeasureStartTime
  inside,        \* m_bInsideMeasure
  window,        \* m_LastLuxValues, up to m_NbMeasures
  outOfRange,    \* m_bLastMeasureOutOfRange
  newScaleOk,    \* m_bFirstMeasureWithNewScaleOk
  valid,         \* m_bLuxMeasureValid
  first,         \* m_nFirstValidMeasure + 1
  used,          \* the patterns of the values in m_MeasuredLuxValue
  begun          \* history: BeginLuxMeasure found the meter running

caller == <<after, answer, result, value, dialog>>
meter == <<packet, light, refScale, current>>
times == <<received, silent, tickSince, valueSince, previousSince>>
measure == <<inside, window, outOfRange, newScaleOk, valid, first, used>>
vars == <<pc, caller, pattern, lux, stop, meter, times, measure, begun>>

UiPCs == {"idle", "begin", "reset", "measure", "get", "wait", "answer", "iris", "pump",
          "close", "joinLux", "startLux"}
LuxPCs == {"none", "open", "read", "packet", "test", "ended"}
Answers == {"OK", "NOT_RUNNING", "NEW_SCALE_OK", "ADJUST_SCALE", "OUT_OF_RANGE"}
Results == {"OK", "NOMEASURE", "CANCELED"}
NoPacket == [scale |-> NoScale, kind |-> "in", value |-> 0, of |-> 0]
Readings == {<<"low", 0>>, <<"high", 0>>} \cup ({"in"} \X Levels)

Init ==
  /\ pc = "idle" /\ after = "idle" /\ answer = "NOT_RUNNING" /\ result = "NOMEASURE"
  /\ value = {} /\ dialog = "none" /\ pattern = 0
  /\ lux = "none" /\ stop = FALSE
  /\ packet = NoPacket /\ light = 0 /\ refScale = NoScale
  /\ current = [scale |-> NoScale, kind |-> "in"]
  /\ received = FALSE /\ silent = FALSE
  /\ tickSince = TRUE /\ valueSince = TRUE /\ previousSince = TRUE
  /\ inside = FALSE /\ window = <<>> /\ outOfRange = FALSE /\ newScaleOk = FALSE
  /\ valid = FALSE /\ first = 1 /\ used = {} /\ begun = FALSE

Goto(from, to) == pc = from /\ pc' = to

IsLuxmeterRunning == lux # "none" /\ ~stop /\ received /\ ~silent

-----------------------------------------------------------------------------
(* The environment.                                                        *)

\* Ten seconds without a value.
FallSilent ==
  /\ received /\ ~silent /\ silent' = TRUE
  /\ UNCHANGED <<pc, caller, pattern, lux, stop, meter, measure, begun>>
  /\ UNCHANGED <<received, tickSince, valueSince, previousSince>>

\* A button of the advisor, dispatched while the caller pumps messages.
PressButton ==
  /\ dialog = "open" /\ pc \in {"wait", "pump"}
  /\ dialog' \in {"cancel", "continue"}
  /\ UNCHANGED <<pc, after, answer, result, value, pattern, lux, stop, meter, times, measure, begun>>

-----------------------------------------------------------------------------
(* LuxMeterThreadFunc                                                      *)

Thread(from, to) == lux = from /\ lux' = to

\* The port is opened and configured, or the thread ends at once.
OpenPort ==
  /\ lux = "open" /\ lux' \in {"read", "ended"}
  /\ UNCHANGED <<pc, caller, pattern, stop, meter, times, measure, begun>>

\* A packet holds what the meter saw since the packet before it, on the scale that
\* the user has turned it to.
ReceivePacket ==
  /\ Thread("read", "packet")
  /\ \E scale \in Scales, reading \in Readings :
       packet' = [scale |-> scale, kind |-> reading[1], value |-> reading[2], of |-> light]
  /\ light' = pattern
  /\ tickSince' = TRUE
  /\ UNCHANGED <<pc, caller, pattern, stop, refScale, current>>
  /\ UNCHANGED <<received, silent, valueSince, previousSince, measure, begun>>

\* Nothing received for one second.
ReadNothing ==
  /\ stop /\ Thread("read", "ended")
  /\ UNCHANGED <<pc, caller, pattern, stop, meter, times, measure, begun>>

LoopTest ==
  /\ Thread("test", IF stop THEN "ended" ELSE "read")
  /\ UNCHANGED <<pc, caller, pattern, stop, meter, times, measure, begun>>

-----------------------------------------------------------------------------
(* SetLuxmeterValue                                                        *)

\* A value of another scale than the last one is incoherent.
IgnoreNewScale ==
  /\ Thread("packet", "test")
  /\ packet.scale # refScale
  /\ refScale' = packet.scale /\ packet' = NoPacket
  /\ UNCHANGED <<pc, caller, pattern, stop, light, current, times, measure, begun>>

Store ==
  /\ Thread("packet", "test")
  /\ packet.scale = refScale
  /\ current' = [scale |-> packet.scale, kind |-> packet.kind] /\ packet' = NoPacket
  /\ received' = TRUE /\ silent' = FALSE
  /\ valueSince' = tickSince /\ previousSince' = valueSince
  /\ UNCHANGED <<pc, caller, pattern, stop, light, refScale, tickSince, begun>>

\* Mutant: no measure is obsolete.
AlwaysCounts == inside

\* Obsolete measures are ignored: the value before this one must be recent.
Counts == inside /\ valueSince

StoreOnly == Store /\ ~Counts /\ UNCHANGED measure

\* Mutant: the values that were found stable are kept.
StoreOutOfRangeKeepsValid ==
  /\ Store /\ Counts
  /\ packet.kind # "in"
  /\ outOfRange' = TRUE /\ newScaleOk' = FALSE /\ window' = <<>>
  /\ UNCHANGED <<inside, first, used, valid>>

StoreOutOfRange ==
  /\ Store /\ Counts
  /\ packet.kind # "in"
  /\ outOfRange' = TRUE /\ newScaleOk' = FALSE /\ window' = <<>> /\ valid' = FALSE
  /\ UNCHANGED <<inside, first, used>>

\* Back in range: the flag is reset by the main thread.
StoreBackInRange ==
  /\ Store /\ Counts
  /\ packet.kind = "in" /\ outOfRange
  /\ newScaleOk' = TRUE /\ window' = <<>>
  /\ UNCHANGED <<inside, outOfRange, valid, first, used>>

Least(a, b) == IF a < b THEN a ELSE b
Greatest(a, b) == IF a < b THEN b ELSE a
Distance(a, b) == Greatest(a, b) - Least(a, b)

\* fabs(a - b) / b < p / q
Within(a, b, p, q) == q * Distance(a, b) < p * b

\* Values n-2, n-1 and n of a list: "grow first, then decrease a little to stabilize",
Alternates(w) ==
  LET n == Len(w)
      d0 == w[n - 2].value
      d1 == w[n - 1].value
      d2 == w[n].value
  IN  /\ n >= 3
      /\ Within(d2, d0, 2, 100)
      /\ \/ d1 >= Greatest(d0, d2)
         \/ d1 <= Least(d0, d2) /\ Within(d1, d2, 5, 1000)

\* or "asymptotic stabilization", with a closer look at the dark ones.
Converges(w) ==
  LET n == Len(w)
      d0 == w[n - 2].value
      d1 == w[n - 1].value
      d2 == w[n].value
  IN  /\ n >= 3
      /\ Within(d2, d0, 2, 100) /\ ~Alternates(w)
      /\ \/ d1 >= Least(d0, d2)
         \/ d1 <= Greatest(d0, d2) /\ Within(d1, d2, 2, 1000)
      /\ \/ d2 >= d1 \/ d2 >= 10
         \/ d0 < d2 \/ 10000 * (d0 - d2) < d2

Sample == [value |-> packet.value, of |-> packet.of]

\* Only the last values are kept; the first stable one moves with them.
Shifts == Len(window) = WindowSize
Shifted == IF Shifts THEN Append(Tail(window), Sample) ELSE Append(window, Sample)

FirstMoved == IF Shifts /\ first > 1 THEN first - 1 ELSE first

\* The last two values, and those since the first stable one that are near them.
Averaged(w, from) ==
  LET n == Len(w)
      sum == w[n].value + w[n - 1].value
  IN  {w[n], w[n - 1]} \cup {w[k] : k \in {m \in from .. n : Within(2 * w[m].value, sum, 5, 1000)}}

PatternsOf(samples) == {sample.of : sample \in samples}

StoreStableAlready ==
  /\ Store /\ Counts
  /\ packet.kind = "in" /\ ~outOfRange /\ valid
  /\ window' = Shifted /\ first' = FirstMoved
  /\ used' = PatternsOf(Averaged(Shifted, FirstMoved))
  /\ UNCHANGED <<inside, outOfRange, newScaleOk, valid>>

StoreInRange ==
  /\ Store /\ Counts
  /\ packet.kind = "in" /\ ~outOfRange /\ ~valid
  /\ window' = Shifted
  /\ LET n == Len(Shifted) IN
       \/ /\ Alternates(Shifted)
          /\ valid' = TRUE /\ first' = n - 1 /\ used' = {Shifted[n].of, Shifted[n - 1].of}
       \/ /\ Converges(Shifted)
          /\ valid' = TRUE /\ first' = n /\ used' = {Shifted[n].of}
       \/ /\ ~Alternates(Shifted) /\ ~Converges(Shifted)
          /\ first' = FirstMoved /\ UNCHANGED <<valid, used>>
  /\ UNCHANGED <<inside, outOfRange, newScaleOk>>

SetLuxmeterValue ==
  \/ IgnoreNewScale \/ StoreOnly \/ StoreOutOfRange \/ StoreBackInRange
  \/ StoreStableAlready \/ StoreInRange

-----------------------------------------------------------------------------
(* BeginLuxMeasure                                                         *)

\* A step of a series shows its pattern and measures its light, if the series does.
ShowPattern ==
  /\ pc = "idle" /\ pattern < MaxPatterns
  /\ pattern' = pattern + 1
  /\ UNCHANGED <<pc, caller, lux, stop, meter, times, measure, begun>>

\* StartLuxMeasure, once for a pattern, or again and again for black.
StartLuxMeasure ==
  /\ Goto("idle", "begin") /\ after' = "measure"
  /\ UNCHANGED <<answer, result, value, dialog, pattern, lux, stop, meter, times, measure, begun>>

\* Without a meter only the start time is reset: every tick count is later.
BeginLuxMeasure ==
  /\ pc = "begin"
  /\ \/ IsLuxmeterRunning /\ pc' = "reset" /\ UNCHANGED <<tickSince, valueSince, previousSince, begun>>
     \/ /\ ~IsLuxmeterRunning /\ pc' = after
        /\ tickSince' = TRUE /\ valueSince' = TRUE /\ previousSince' = TRUE
        /\ begun' = FALSE
  /\ UNCHANGED <<caller, pattern, lux, stop, meter, received, silent, measure>>

\* Mutant: the out of range flag is not reset.
ResetKeepsRange ==
  /\ Goto("reset", after)
  /\ inside' = TRUE
  /\ tickSince' = FALSE /\ valueSince' = FALSE /\ previousSince' = FALSE
  /\ window' = <<>> /\ newScaleOk' = FALSE /\ valid' = FALSE /\ used' = {}
  /\ begun' = TRUE
  /\ UNCHANGED <<caller, pattern, lux, stop, meter, received, silent, first, outOfRange>>

Reset ==
  /\ Goto("reset", after)
  /\ inside' = TRUE
  /\ tickSince' = FALSE /\ valueSince' = FALSE /\ previousSince' = FALSE
  /\ window' = <<>> /\ outOfRange' = FALSE /\ newScaleOk' = FALSE /\ valid' = FALSE
  /\ used' = {} /\ begun' = TRUE
  /\ UNCHANGED <<caller, pattern, lux, stop, meter, received, silent, first>>

\* The sensor measures the pattern meanwhile.
MeasureColor ==
  /\ Goto("measure", "get")
  /\ UNCHANGED <<caller, pattern, lux, stop, meter, times, measure, begun>>

-----------------------------------------------------------------------------
(* CColorHCFRApp::GetLuxMeasure                                            *)

Reply(code) ==
  /\ pc' = "answer" /\ answer' = code
  /\ UNCHANGED <<after, result, dialog, pattern, lux, stop, meter, times, begun>>

GetLuxMeasure ==
  \/ /\ inside /\ Goto("get", "wait")
     /\ UNCHANGED <<caller, pattern, lux, stop, meter, times, measure, begun>>
  \/ /\ ~inside /\ pc = "get"
     /\ Reply("NOT_RUNNING") /\ value' = {}
     /\ UNCHANGED measure

ReplyValid ==
  /\ pc = "wait" /\ valid
  /\ Reply("OK") /\ value' = used
  /\ inside' = FALSE
  /\ UNCHANGED <<window, outOfRange, newScaleOk, valid, first, used>>

ReplyNewScale ==
  /\ pc = "wait" /\ ~valid /\ newScaleOk
  /\ Reply("NEW_SCALE_OK") /\ value' = {}
  /\ inside' = FALSE /\ outOfRange' = FALSE /\ newScaleOk' = FALSE
  /\ UNCHANGED <<window, valid, first, used>>

\* The last scale on this side, or a value that is in range: the code says that
\* the latter should never occur.
TotallyOut ==
  \/ current.kind = "low" /\ current.scale = "lowest"
  \/ current.kind = "high" /\ current.scale = "highest"
  \/ current.kind = "in"

ReplyOutOfRange ==
  /\ pc = "wait" /\ ~valid /\ ~newScaleOk /\ outOfRange
  /\ \/ TotallyOut /\ Reply("OUT_OF_RANGE") /\ inside' = FALSE
     \/ ~TotallyOut /\ Reply("ADJUST_SCALE") /\ UNCHANGED inside
  /\ UNCHANGED <<value, window, outOfRange, newScaleOk, valid, first, used>>

\* Otherwise it waits as long as the meter runs.
ReplyNotRunning ==
  /\ pc = "wait" /\ ~valid /\ ~newScaleOk /\ ~outOfRange
  /\ ~IsLuxmeterRunning
  /\ Reply("NOT_RUNNING")
  /\ inside' = FALSE
  /\ UNCHANGED <<value, window, outOfRange, newScaleOk, valid, first, used>>

-----------------------------------------------------------------------------
(* CMeasure::GetLuxMeasure and the advisor                                 *)

Return(code) == pc' = "close" /\ result' = code /\ UNCHANGED <<after, answer, value, dialog>>

TakeValue == answer = "OK" /\ Return("OK")
TakeNothing == answer \in {"NOT_RUNNING", "OUT_OF_RANGE"} /\ Return("NOMEASURE")

\* The advisor is created first, its buttons are looked at from then on.
AdviseScale ==
  /\ answer = "ADJUST_SCALE"
  /\ \/ /\ dialog = "none"
        /\ pc' = "pump" /\ dialog' = "open" /\ UNCHANGED <<after, answer, result, value>>
     \/ /\ dialog = "open"
        /\ pc' = "pump" /\ UNCHANGED caller
     \/ dialog = "cancel" /\ Return("CANCELED")
     \/ dialog = "continue" /\ Return("NOMEASURE")

\* The advisor is closed and the measure begins again, after the wait for the iris.
RestartMeasure ==
  /\ answer = "NEW_SCALE_OK"
  /\ pc' = "iris" /\ dialog' = "none"
  /\ UNCHANGED <<after, answer, result, value>>

HandleAnswer ==
  /\ pc = "answer"
  /\ TakeValue \/ TakeNothing \/ AdviseScale \/ RestartMeasure
  /\ UNCHANGED <<pattern, lux, stop, meter, times, measure, begun>>

\* Messages are dispatched for the time that the iris of the display takes.
WaitForDynamicIris ==
  /\ Goto("iris", "begin") /\ after' = "pump"
  /\ UNCHANGED <<answer, result, value, dialog, pattern, lux, stop, meter, times, measure, begun>>

Pump ==
  /\ Goto("pump", "get")
  /\ UNCHANGED <<caller, pattern, lux, stop, meter, times, measure, begun>>

\* An advisor that is still open is closed, and a measure begins.  The locals go.
Close ==
  /\ pc = "close"
  /\ \/ /\ dialog # "none"
        /\ dialog' = "none" /\ pc' = "begin" /\ after' = "idle"
     \/ /\ dialog = "none"
        /\ pc' = "idle" /\ after' = "idle" /\ UNCHANGED dialog
  /\ answer' = "NOT_RUNNING" /\ result' = "NOMEASURE" /\ value' = {}
  /\ UNCHANGED <<pattern, lux, stop, meter, times, measure, begun>>

-----------------------------------------------------------------------------
(* StartLuxMeasures: the port was changed in the preferences, which the user *)
(* can open wherever messages are dispatched.                              *)

StartLuxMeasures ==
  /\ pc \in {"idle", "wait", "iris", "pump"}
  /\ after' = pc
  /\ \/ lux # "none" /\ pc' = "joinLux" /\ stop' = TRUE
     \/ lux = "none" /\ pc' = "startLux" /\ UNCHANGED stop
  /\ UNCHANGED <<answer, result, value, dialog, pattern, lux, meter, times, measure, begun>>

\* The thread ends, or is killed after 10 seconds in a driver that hangs.
JoinThread ==
  /\ Goto("joinLux", "startLux")
  /\ lux \in {"ended", "open", "read"} /\ lux' = "none"
  /\ UNCHANGED <<caller, pattern, stop, meter, times, measure, begun>>

StartThread ==
  /\ Goto("startLux", after)
  /\ \/ stop' = FALSE /\ lux' \in {"open", "none"}
     \/ UNCHANGED <<stop, lux>>                   \* no port
  /\ UNCHANGED <<caller, pattern, meter, times, measure, begun>>

-----------------------------------------------------------------------------
LuxThread == OpenPort \/ ReceivePacket \/ ReadNothing \/ LoopTest \/ SetLuxmeterValue

Ui ==
  \/ BeginLuxMeasure \/ Reset \/ MeasureColor \/ GetLuxMeasure
  \/ ReplyValid \/ ReplyNewScale \/ ReplyOutOfRange \/ ReplyNotRunning
  \/ HandleAnswer \/ WaitForDynamicIris \/ Pump \/ Close \/ JoinThread \/ StartThread

Next ==
  \/ FallSilent \/ PressButton \/ ShowPattern \/ StartLuxMeasure \/ StartLuxMeasures
  \/ LuxThread \/ Ui

Spec == Init /\ [][Next]_vars

-----------------------------------------------------------------------------
(* Properties                                                              *)

Patterns == 0 .. MaxPatterns
Samples == [value : Levels, of : Patterns]

\* Each variable keeps its type.
TypeOK ==
  /\ pc \in UiPCs /\ after \in {"idle", "measure", "wait", "iris", "pump"}
  /\ answer \in Answers /\ result \in Results
  /\ value \subseteq Patterns /\ used \subseteq Patterns
  /\ dialog \in {"none", "open", "cancel", "continue"} /\ pattern \in Patterns
  /\ lux \in LuxPCs /\ stop \in BOOLEAN
  /\ packet \in [scale : Scales \cup {NoScale}, kind : Kinds, value : Levels \cup {0}, of : Patterns]
  /\ light \in Patterns /\ refScale \in Scales \cup {NoScale}
  /\ current \in [scale : Scales \cup {NoScale}, kind : Kinds]
  /\ received \in BOOLEAN /\ silent \in BOOLEAN
  /\ tickSince \in BOOLEAN /\ valueSince \in BOOLEAN /\ previousSince \in BOOLEAN
  /\ inside \in BOOLEAN /\ window \in Seq(Samples)
  /\ outOfRange \in BOOLEAN /\ newScaleOk \in BOOLEAN /\ valid \in BOOLEAN
  /\ first \in 1 .. WindowSize /\ begun \in BOOLEAN

\* "Should never occur ! (answer has no meaning)", GetLuxMeasure says (line 1439)
\* of a measure that is out of range with a last value that is in range.
AnswerHasMeaning ==
  pc = "wait" /\ outOfRange /\ ~valid /\ ~newScaleOk => current.kind # "in"

\* SetLuxmeterValue never reads outside of m_LastLuxValues or before its beginning,
\* however its list is emptied, shifted and begun again between two packets.
IndexesInBounds ==
  /\ Len(window) <= WindowSize
  /\ valid => Len(window) >= 3 /\ first \in 1 .. Len(window)
SafetyInv == TypeOK /\ IndexesInBounds

\* "Ignore obsolete measures" (line 1212): the light that a step gets is that of
\* its own pattern, all of it, when the meter was running as the step began.
LightOfThisPattern ==
  pc = "close" /\ result = "OK" /\ begun => value = {pattern}

=============================================================================
