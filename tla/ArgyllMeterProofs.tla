-------------------------- MODULE ArgyllMeterProofs --------------------------
(***************************************************************************)
(* Proofs about the meters driven by the Argyll library, for any number of *)
(* documents and without a bound on the measures.                          *)
(***************************************************************************)
EXTENDS ArgyllMeter, TLAPS

-----------------------------------------------------------------------------
(* Typing.                                                                 *)

\* While anything is done with a meter, it is done for a document.
WorksForDoc == pc \notin {"idle", "crashed"} => doc \in Docs

\* What a start of the device leaves has its types (connectAndStartMeter).
LEMMA InitOkTypes ==
  ASSUME TypeOK, NEW d, NEW s \in Settings, InitOk(d, s)
  PROVE  /\ UNCHANGED <<hasMeter, valid, failed>>
         /\ inst' = "ready" /\ setup' \in Settings
         /\ hrInited' \in BOOLEAN /\ nextCal' = "none"
BY DEF InitOk, TypeOK

LEMMA InitFailsTypes ==
  ASSUME TypeOK, NEW d, InitFails(d)
  PROVE  /\ hasMeter' \in [Docs -> BOOLEAN]
         /\ inst' = "deleted" /\ failed' = TRUE
         /\ UNCHANGED <<setup, hrInited, valid, nextCal>>
BY DEF InitFails, TypeOK

\* Every action keeps the types (CArgyllSensor, ArgyllMeterWrapper).
LEMMA TypeOKStep == TypeOK /\ WorksForDoc /\ [Next]_vars => TypeOK'
<1>. SUFFICES ASSUME TypeOK, WorksForDoc, [Next]_vars PROVE TypeOK'
  OBVIOUS
<1>. USE DEF TypeOK, Settings, Cals, Conds, Results, Jobs, PCs, sensors, archive,
         driver, wrapper, control
<1>1. ASSUME NEW d \in Docs, Commands(d) PROVE TypeOK'
  <2>1. CASE CreateSensor(d) BY <2>1 DEF CreateSensor
  <2>2. CASE SaveDocument(d) BY <2>2 DEF SaveDocument
  <2>3. CASE OpenPage(d)
    <3>1. doc' \in Docs /\ job' = "page" /\ pc' \in {"page", "crashed"}
      BY <2>3 DEF OpenPage
    <3>2. inst' \in {"ready", "deleted", inst} /\ nextCal' \in {"none", nextCal}
      BY <2>3 DEF OpenPage
    <3>3. failed' \in BOOLEAN BY <2>3 DEF OpenPage
    <3>4. UNCHANGED <<sensors, archive, setup, hrInited, valid, darkOnly, result>>
      BY <2>3 DEF OpenPage
    <3>. QED BY <3>1, <3>2, <3>3, <3>4
  <2>4. ASSUME NEW s \in Settings, OpenDocument(d, s) PROVE TypeOK'
    BY <2>4 DEF OpenDocument
  <2>5. ASSUME NEW e \in Docs, DuplicateSensor(d, e) PROVE TypeOK'
    <3>1. hasMeter' \in [Docs -> BOOLEAN] /\ settings' \in [Docs -> Settings]
      BY <2>5 DEF DuplicateSensor
    <3>2. pc' \in {pc, "crashed"} BY <2>5 DEF DuplicateSensor
    <3>. QED BY <2>5, <3>1, <3>2 DEF DuplicateSensor
  <2>6. ASSUME NEW who \in {"series", "thread"}, Begin(d, who) PROVE TypeOK'
    <3>1. CASE InitOk(d, settings[d])
      <4>1. pc' \in PCs /\ doc' \in Docs \cup {NoDoc} /\ job' \in Jobs
        BY <2>6 DEF Begin
      <4>. QED BY <2>6, <3>1, <4>1, InitOkTypes DEF Begin
    <3>2. CASE InitFails(d)
      <4>1. pc' \in PCs /\ doc' \in Docs \cup {NoDoc} /\ job' \in Jobs
        BY <2>6 DEF Begin
      <4>. QED BY <2>6, <3>2, <4>1, InitFailsTypes DEF Begin
    <3>3. CASE InitCrashes(d) /\ pc' = "crashed" /\ UNCHANGED <<doc, job>>
      BY <2>6, <3>3 DEF Begin, InitCrashes
    <3>. QED BY <2>6, <3>1, <3>2, <3>3 DEF Begin
  <2>. QED BY <1>1, <2>1, <2>2, <2>3, <2>4, <2>5, <2>6 DEF Commands
<1>2. CASE OpenBadDocument BY <1>2 DEF OpenBadDocument
<1>3. ASSUME NEW s \in Settings, NEW calibrate \in BOOLEAN, ApplySettings(s, calibrate)
      PROVE  TypeOK'
  <2>1. pc' \in PCs /\ doc' \in Docs \cup {NoDoc} /\ job' \in Jobs
    BY <1>3 DEF ApplySettings, Goto, Idle
  <2>2. settings' \in [Docs -> Settings] BY <1>3 DEF ApplySettings
  <2>3. CASE InitOk(doc, s)
    BY <1>3, <2>1, <2>2, <2>3, InitOkTypes DEF ApplySettings
  <2>4. CASE InitFails(doc)
    BY <1>3, <2>1, <2>2, <2>4, InitFailsTypes DEF ApplySettings
  <2>5. CASE UNCHANGED <<hasMeter, driver, nextCal, failed>>
    BY <1>3, <2>1, <2>2, <2>5 DEF ApplySettings
  <2>. QED BY <1>3, <2>3, <2>4, <2>5 DEF ApplySettings, InitCrashes
<1>4. CASE Measures
  <2>1. CASE MeasureColor BY <2>1 DEF MeasureColor, Goto, Escape, Idle
  <2>2. CASE TakeReading BY <2>2 DEF TakeReading, Goto, Positive
  <2>3. CASE NeedsManualCalibration BY <2>3 DEF NeedsManualCalibration, Goto, CondFor
  <2>4. CASE ReadingFails BY <2>4 DEF ReadingFails, Goto, Positive
  <2>5. CASE ReadingCrashes BY <2>5 DEF ReadingCrashes, Escape, Idle, Goto
  <2>6. CASE End BY <2>6 DEF End, Idle
  <2>. QED BY <1>4, <2>1, <2>2, <2>3, <2>4, <2>5, <2>6 DEF Measures
<1>5. CASE Calibrates
  <2>1. CASE Calibrate
    <3>1. pc' \in PCs /\ doc' \in Docs \cup {NoDoc} /\ job' \in Jobs
      BY <2>1 DEF Calibrate, Goto, Back, Escape, Idle
    <3>2. CASE InitOk(doc, settings[doc])
      <4>1. doc \in Docs => settings[doc] \in Settings OBVIOUS
      <4>2. doc \in Docs BY <2>1 DEF Calibrate, WorksForDoc
      <4>. QED BY <2>1, <3>1, <3>2, <4>1, <4>2, InitOkTypes DEF Calibrate
    <3>3. CASE InitFails(doc)
      BY <2>1, <3>1, <3>3, InitFailsTypes DEF Calibrate
    <3>4. CASE UNCHANGED <<hasMeter, driver, nextCal, failed>>
      BY <2>1, <3>1, <3>4 DEF Calibrate
    <3>. QED BY <2>1, <3>2, <3>3, <3>4 DEF Calibrate, InitCrashes
  <2>2. CASE ShowInstructions BY <2>2 DEF ShowInstructions, Goto
  <2>3. CASE CalibrateThere
    <3>1. Calt(darkOnly) \in SUBSET Cals BY DEF Calt, Available, Needed
    <3>2. valid' \in SUBSET Cals BY <2>3, <3>1 DEF CalibrateThere
    <3>3. nextCal' \in Conds BY <2>3 DEF CalibrateThere, CondFor
    <3>4. pc' \in PCs /\ UNCHANGED <<doc, job>> BY <2>3 DEF CalibrateThere, Goto
    <3>. QED BY <2>3, <3>2, <3>3, <3>4 DEF CalibrateThere
  <2>4. CASE CalibrateElsewhere BY <2>4 DEF CalibrateElsewhere, Goto
  <2>5. ASSUME NEW skip \in BOOLEAN, AskDriver(skip) PROVE TypeOK'
    BY <2>5 DEF AskDriver, Goto, CondFor
  <2>6. CASE CalibrationThrows BY <2>6 DEF CalibrationThrows, Escape, Idle, Goto
  <2>7. CASE Announce BY <2>7 DEF Announce, Back, Goto
  <2>. QED BY <1>5, <2>1, <2>2, <2>3, <2>4, <2>5, <2>6, <2>7 DEF Calibrates
<1>6. CASE Expire BY <1>6 DEF Expire
<1>7. CASE UNCHANGED vars BY <1>7 DEF vars
<1>. QED BY <1>1, <1>2, <1>3, <1>4, <1>5, <1>6, <1>7 DEF Next

-----------------------------------------------------------------------------
(* Pointers.                                                               *)

\* As long as the device never failed, every sensor has its meter and the
\* wrapper its instrument (connectAndStartMeter, Init).
PointersInv ==
  ~failed => /\ \A d \in Docs : hasMeter[d]
             /\ inst # "deleted"
             /\ ~badFile /\ ~unreadable
             /\ pc # "crashed"

LEMMA PointersStep ==
  TypeOK /\ WorksForDoc /\ PointersInv /\ [Next]_vars => WorksForDoc' /\ PointersInv'
<1>. SUFFICES ASSUME TypeOK, WorksForDoc, PointersInv, [Next]_vars
              PROVE  WorksForDoc' /\ PointersInv'
  OBVIOUS
<1>. USE DEF TypeOK, WorksForDoc, PointersInv, sensors, archive, driver, wrapper, control
<1>1. ASSUME NEW d \in Docs, Commands(d) PROVE WorksForDoc' /\ PointersInv'
  <2>1. CASE CreateSensor(d) BY <2>1 DEF CreateSensor
  <2>2. CASE SaveDocument(d) BY <2>2 DEF SaveDocument
  <2>3. CASE OpenPage(d) BY <2>3 DEF OpenPage, NullMeter
  <2>4. ASSUME NEW s \in Settings, OpenDocument(d, s) PROVE WorksForDoc' /\ PointersInv'
    BY <2>4 DEF OpenDocument
  <2>5. ASSUME NEW e \in Docs, DuplicateSensor(d, e) PROVE WorksForDoc' /\ PointersInv'
    BY <2>5 DEF DuplicateSensor
  <2>6. ASSUME NEW who \in {"series", "thread"}, Begin(d, who)
        PROVE  WorksForDoc' /\ PointersInv'
    BY <2>6 DEF Begin, InitOk, InitFails, InitCrashes, NullMeter
  <2>. QED BY <1>1, <2>1, <2>2, <2>3, <2>4, <2>5, <2>6 DEF Commands
<1>2. CASE OpenBadDocument BY <1>2 DEF OpenBadDocument
<1>3. ASSUME NEW s \in Settings, NEW calibrate \in BOOLEAN, ApplySettings(s, calibrate)
      PROVE  WorksForDoc' /\ PointersInv'
  BY <1>3 DEF ApplySettings, InitOk, InitFails, InitCrashes, NullMeter, Goto, Idle
<1>4. CASE Measures
  <2>1. CASE MeasureColor BY <2>1 DEF MeasureColor, Goto, Escape, Idle
  <2>2. CASE TakeReading BY <2>2 DEF TakeReading, Goto
  <2>3. CASE NeedsManualCalibration BY <2>3 DEF NeedsManualCalibration, Goto
  <2>4. CASE ReadingFails BY <2>4 DEF ReadingFails, Goto
  <2>5. CASE ReadingCrashes BY <2>5 DEF ReadingCrashes, Escape, Idle, Goto
  <2>6. CASE End BY <2>6 DEF End, Idle
  <2>. QED BY <1>4, <2>1, <2>2, <2>3, <2>4, <2>5, <2>6 DEF Measures
<1>5. CASE Calibrates
  <2>1. CASE Calibrate
    BY <2>1 DEF Calibrate, InitOk, InitFails, InitCrashes, NullMeter, Goto, Back,
                Escape, Idle
  <2>2. CASE ShowInstructions BY <2>2 DEF ShowInstructions, Goto
  <2>3. CASE CalibrateThere BY <2>3 DEF CalibrateThere, Goto
  <2>4. CASE CalibrateElsewhere BY <2>4 DEF CalibrateElsewhere, Goto
  <2>5. ASSUME NEW skip \in BOOLEAN, AskDriver(skip) PROVE WorksForDoc' /\ PointersInv'
    BY <2>5 DEF AskDriver, Goto
  <2>6. CASE CalibrationThrows BY <2>6 DEF CalibrationThrows, Escape, Idle, Goto
  <2>7. CASE Announce BY <2>7 DEF Announce, Back, Goto
  <2>. QED BY <1>5, <2>1, <2>2, <2>3, <2>4, <2>5, <2>6, <2>7 DEF Calibrates
<1>6. CASE Expire BY <1>6 DEF Expire
<1>7. CASE UNCHANGED vars BY <1>7 DEF vars
<1>. QED BY <1>1, <1>2, <1>3, <1>4, <1>5, <1>6, <1>7 DEF Next

LEMMA PointersAlways == Spec => [](TypeOK /\ WorksForDoc /\ PointersInv)
<1>1. Init => TypeOK /\ WorksForDoc /\ PointersInv
  BY DEF Init, TypeOK, WorksForDoc, PointersInv, Settings, Cals, Conds, Results, Jobs, PCs
<1>. QED BY <1>1, TypeOKStep, PointersStep, PTL DEF Spec

\* The variables of the model have their types in every reachable state.
THEOREM Typing == Spec => []TypeOK
BY PointersAlways, PTL

\* No null pointer is followed, and no unreadable document written, before the
\* device has failed to start or to calibrate (CArgyllSensor::Init, Copy, Serialize).
THEOREM PointersAreSafe == Spec => []SafetyInv
<1>1. TypeOK /\ PointersInv => SafetyInv
  BY DEF PointersInv, CrashesOnlyAfterFailure, SafetyInv
<1>. QED BY <1>1, PointersAlways, PTL

-----------------------------------------------------------------------------
(* The settings of the shared meter.                                       *)

\* A series measures with the meter as the sensor of its document set it; only
\* the property page may hold another one (CArgyllSensor::Init).
SetForDoc ==
  /\ pc \in {"next", "take"} => job # "page"
  /\ pc = "page" => job = "page"
  /\ pc \in {"next", "take", "calibrate", "instr", "ask", "done"} /\ job # "page"
       => setup = settings[doc]

\* The tile is skipped outside high resolution only (getCalibrationInstructions).
SkipIsAllowed ==
  /\ pc \in {"ask", "done"} => nextCal # "none"
  /\ pc \in {"instr", "ask", "done"} /\ nextCal # "none" /\ darkOnly
       => settings[doc] = "std"

CalibrationInv == SetForDoc /\ SkipIsAllowed /\ AnnouncedIsCalibrated

\* What is left to calibrate on the tile or in the dark when nothing is left.
LEMMA NothingLeft ==
  ASSUME TypeOK, pc = "ask", SkipIsAllowed, CalibrateThere, pc' = "done"
  PROVE  AnnouncedIsCalibrated'
<1>. USE DEF TypeOK, Cals
<1>1. UNCHANGED <<hrInited, settings, darkOnly, doc>>
  BY DEF CalibrateThere, sensors, Goto
<1>2. Left(Calt(darkOnly), nextCal) = {}
  BY DEF CalibrateThere, Goto
<1>3. valid' = valid \cup Calt(darkOnly)
  BY <1>2 DEF CalibrateThere
<1>4. CASE darkOnly
  <2>1. settings[doc] = "std" BY <1>4 DEF SkipIsAllowed
  <2>2. "dark" \in valid' BY <1>3, <1>4 DEF Calt
  <2>3. Needed' \in {{}, {"white"}} BY <2>2 DEF Needed
  <2>. QED BY <1>1, <1>4, <2>1, <2>3 DEF AnnouncedIsCalibrated
<1>5. CASE ~darkOnly
  <2>1. "dark" \in valid' BY <1>3, <1>5 DEF Calt, Available
  <2>2. hrInited => "white" \in valid' BY <1>3, <1>5 DEF Calt, Available, Needed
  <2>3. Needed' = {} BY <1>1, <2>1, <2>2 DEF Needed
  <2>. QED BY <2>3 DEF AnnouncedIsCalibrated
<1>. QED BY <1>4, <1>5

LEMMA CalibrationStep ==
  TypeOK /\ WorksForDoc /\ CalibrationInv /\ [Next]_vars => CalibrationInv'
<1>. SUFFICES ASSUME TypeOK, WorksForDoc, CalibrationInv, [Next]_vars
              PROVE  CalibrationInv'
  OBVIOUS
<1>. USE DEF TypeOK, WorksForDoc, CalibrationInv, SetForDoc, SkipIsAllowed, sensors,
         archive, driver, wrapper, control
<1>a. pc' # "done" => AnnouncedIsCalibrated' BY DEF AnnouncedIsCalibrated
<1>1. ASSUME NEW d \in Docs, Commands(d) PROVE CalibrationInv'
  <2>1. CASE CreateSensor(d) BY <1>a, <2>1 DEF CreateSensor
  <2>2. CASE SaveDocument(d) BY <1>a, <2>2 DEF SaveDocument
  <2>3. CASE OpenPage(d) BY <1>a, <2>3 DEF OpenPage
  <2>4. ASSUME NEW s \in Settings, OpenDocument(d, s) PROVE CalibrationInv'
    BY <1>a, <2>4 DEF OpenDocument
  <2>5. ASSUME NEW e \in Docs, DuplicateSensor(d, e) PROVE CalibrationInv'
    BY <1>a, <2>5 DEF DuplicateSensor
  <2>6. ASSUME NEW who \in {"series", "thread"}, Begin(d, who) PROVE CalibrationInv'
    BY <1>a, <2>6 DEF Begin, InitOk, InitFails, InitCrashes
  <2>. QED BY <1>1, <2>1, <2>2, <2>3, <2>4, <2>5, <2>6 DEF Commands
<1>2. CASE OpenBadDocument
  BY <1>2 DEF OpenBadDocument, AnnouncedIsCalibrated, Needed
<1>3. ASSUME NEW s \in Settings, NEW calibrate \in BOOLEAN, ApplySettings(s, calibrate)
      PROVE  CalibrationInv'
  <2>1. pc = "page" /\ pc' # "done" /\ pc' \in {"calibrate", "idle", "crashed"}
    BY <1>3 DEF ApplySettings, Goto, Idle
  <2>2. pc' = "calibrate" => job' = job /\ doc' = doc
    BY <1>3 DEF ApplySettings, Goto, Idle
  <2>. QED BY <1>a, <2>1, <2>2
<1>4. CASE Measures
  <2>1. CASE MeasureColor BY <1>a, <2>1 DEF MeasureColor, Goto, Escape, Idle
  <2>2. CASE TakeReading BY <1>a, <2>2 DEF TakeReading, Goto
  <2>3. CASE NeedsManualCalibration BY <1>a, <2>3 DEF NeedsManualCalibration, Goto
  <2>4. CASE ReadingFails BY <1>a, <2>4 DEF ReadingFails, Goto
  <2>5. CASE ReadingCrashes BY <1>a, <2>5 DEF ReadingCrashes, Escape, Idle, Goto
  <2>6. CASE End BY <1>a, <2>6 DEF End, Idle
  <2>. QED BY <1>4, <2>1, <2>2, <2>3, <2>4, <2>5, <2>6 DEF Measures
<1>5. CASE Calibrates
  <2>1. CASE Calibrate
    BY <1>a, <2>1 DEF Calibrate, InitOk, InitFails, InitCrashes, Goto, Back, Escape, Idle
  <2>2. CASE ShowInstructions BY <1>a, <2>2 DEF ShowInstructions, Goto
  <2>3. CASE CalibrateThere
    <3>1. UNCHANGED <<settings, setup, doc, job, darkOnly>> /\ pc' \in {"done", "instr"}
      BY <2>3 DEF CalibrateThere, Goto
    <3>2. nextCal' # "none" BY <2>3 DEF CalibrateThere, CondFor
    <3>3. AnnouncedIsCalibrated'
      BY <1>a, <2>3, NothingLeft DEF CalibrateThere
    <3>. QED BY <2>3, <3>1, <3>2, <3>3 DEF CalibrateThere
  <2>4. CASE CalibrateElsewhere BY <1>a, <2>4 DEF CalibrateElsewhere, Goto
  <2>5. ASSUME NEW skip \in BOOLEAN, AskDriver(skip) PROVE CalibrationInv'
    BY <1>a, <2>5 DEF AskDriver, Goto, CondFor
  <2>6. CASE CalibrationThrows
    BY <1>a, <2>6 DEF CalibrationThrows, Escape, Idle, Goto
  <2>7. CASE Announce BY <1>a, <2>7 DEF Announce, Back, Goto
  <2>. QED BY <1>5, <2>1, <2>2, <2>3, <2>4, <2>5, <2>6, <2>7 DEF Calibrates
<1>6. CASE Expire BY <1>a, <1>6 DEF Expire
<1>7. CASE UNCHANGED vars BY <1>7 DEF vars, AnnouncedIsCalibrated, Needed
<1>. QED BY <1>1, <1>2, <1>3, <1>4, <1>5, <1>6, <1>7 DEF Next

LEMMA CalibrationAlways == Spec => [](TypeOK /\ WorksForDoc /\ CalibrationInv)
<1>1. Init => CalibrationInv
  BY DEF Init, CalibrationInv, SetForDoc, SkipIsAllowed, AnnouncedIsCalibrated
<1>. QED BY <1>1, PointersAlways, CalibrationStep, PTL DEF Spec

\* The message that the device is calibrated is true: nothing is left but a tile
\* that the user skipped (CArgyllSensor::Calibrate).
THEOREM Announcement == Spec => []AnnouncedIsCalibrated
<1>1. CalibrationInv => AnnouncedIsCalibrated BY DEF CalibrationInv
<1>. QED BY <1>1, CalibrationAlways, PTL

\* A colour is read with the settings of the document it is for, although the
\* documents share the meter (CArgyllSensor::MeasureColorInternal).
THEOREM OwnSettings == Spec => ReadWithOwnSettings
<1>1. ASSUME CalibrationInv, [Next]_vars, pc = "take", pc' = "next"
      PROVE  result' \in {"black", settings[doc]}
  <2>1. CASE TakeReading
    <3>1. setup = settings[doc] BY <1>1 DEF CalibrationInv, SetForDoc
    <3>. QED BY <2>1, <3>1 DEF TakeReading, Positive
  <2>2. CASE ReadingFails BY <2>2 DEF ReadingFails, Positive
  <2>3. ~UNCHANGED vars BY <1>1 DEF vars, control
  <2>4. ASSUME NEW d \in Docs PROVE ~Commands(d)
    BY <1>1 DEF Commands, CreateSensor, SaveDocument, OpenPage, OpenDocument,
                DuplicateSensor, Begin
  <2>5. ~OpenBadDocument BY <1>1 DEF OpenBadDocument
  <2>6. ASSUME NEW s \in Settings, NEW calibrate \in BOOLEAN
        PROVE  ~ApplySettings(s, calibrate)
    BY <1>1 DEF ApplySettings
  <2>7. ~MeasureColor /\ ~NeedsManualCalibration /\ ~ReadingCrashes /\ ~End
    BY <1>1 DEF MeasureColor, NeedsManualCalibration, ReadingCrashes, End, Goto, Escape,
                Idle
  <2>8. ~Calibrates
    BY <1>1 DEF Calibrates, Calibrate, ShowInstructions, CalibrateThere, AskDriver,
                CalibrateElsewhere, CalibrationThrows, Announce
  <2>9. ~Expire BY <1>1 DEF Expire
  <2>. QED BY <1>1, <2>1, <2>2, <2>3, <2>4, <2>5, <2>6, <2>7, <2>8, <2>9 DEF Next, Measures
<1>2. CalibrationInv /\ [Next]_vars
        => [pc = "take" /\ pc' = "next" => result' \in {"black", settings[doc]}]_vars
  BY <1>1
<1>. QED BY <1>2, CalibrationAlways, PTL DEF Spec, ReadWithOwnSettings
=============================================================================
