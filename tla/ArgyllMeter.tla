----------------------------- MODULE ArgyllMeter -----------------------------
(***************************************************************************)
(* The colour meters driven through the Argyll library: the sensors of the *)
(* documents (CArgyllSensor, Sensors/ArgyllSensor.cpp) and the one wrapper *)
(* of the meter that all of them share (ArgyllMeterWrapper), which is made *)
(* once when the meter is detected and lives as long as the program.       *)
(*                                                                         *)
(* A job is a series of measures, the continuous measures or the property  *)
(* page of a sensor; StopBackgroundMeasures and modal dialogs allow one at *)
(* a time.  A step is what runs between two answers of the user: he moves  *)
(* the meter and answers when a dialog tells him how to calibrate it.      *)
(*                                                                         *)
(* The driver is that of the i1 Pro (Tools/spectro/i1pro_imp.c) in its     *)
(* emissive mode: a dark calibration, and one on the white tile that the   *)
(* high resolution mode needs, where the dark one is done as well.         *)
(***************************************************************************)
CONSTANTS
  Docs,      \* the documents whose sensor is this meter
  NoDoc      \* no document

ASSUME ArgyllAssumption == NoDoc \notin Docs

Settings == {"std", "hires"}
Cals == {"dark", "white"}
Conds == {"none"} \cup Cals
Results == {"none", "black"} \cup Settings
Jobs == {"none", "series", "thread", "page"}
PCs == {"idle", "next", "take", "calibrate", "instr", "ask", "done", "page", "crashed"}

VARIABLES
  hasMeter,     \* m_meter # 0, for each sensor
  settings,     \* m_HiRes and the other settings of each sensor
  badFile,      \* a sensor without a meter was saved
  unreadable,   \* and read back
  inst,         \* the instrument of the wrapper: "cold", "ready", or "deleted"
  setup,        \* the settings last sent to it
  hrInited,     \* its high resolution mode has been set up
  valid,        \* its calibrations that are in date
  nextCal,      \* m_nextCalibration
  darkOnly,     \* dark_only
  pc, doc,      \* what runs, for which document
  job,          \* who called: "series", "thread", "page" or "none"
  result,       \* the settings under which the last colour was read, or "black"
  failed        \* history: the device failed to start, or to calibrate

sensors == <<hasMeter, settings>>
archive == <<badFile, unreadable>>
driver == <<inst, setup, hrInited, valid>>
wrapper == <<nextCal, darkOnly>>
control == <<pc, doc, job>>
vars == <<sensors, archive, driver, wrapper, control, result, failed>>

\* The driver may restore a dark calibration from its file.
Init ==
  /\ hasMeter = [d \in Docs |-> TRUE] /\ settings \in [Docs -> Settings]
  /\ badFile = FALSE /\ unreadable = FALSE
  /\ inst = "cold" /\ setup = "none" /\ hrInited = FALSE /\ valid \in SUBSET {"dark"}
  /\ nextCal = "none" /\ darkOnly \in BOOLEAN
  /\ pc = "idle" /\ doc = NoDoc /\ job = "none"
  /\ result = "none" /\ failed = FALSE

-----------------------------------------------------------------------------
(* The driver: get_n_a_cals and calibrate of i1pro_imp.c.                  *)

\* The tile is needed once high resolution has been set up and either the tile
\* was not read since or a dark calibration will be made.
Needed ==
  IF ~hrInited THEN {"dark"} \ valid
  ELSE IF "dark" \in valid THEN {"white"} \ valid ELSE Cals

\* The tile is available under the same condition as it is needed.
Available == {"dark"} \cup Needed

\* A dark calibration can be made on the tile as well.
Left(calt, cond) ==
  calt \ (CASE cond = "white" -> Cals [] cond = "dark" -> {"dark"} [] OTHER -> {})

\* The condition asked for next: the tile first.
CondFor(cals) == IF "white" \in cals THEN "white" ELSE "dark"

-----------------------------------------------------------------------------
(* CArgyllSensor::Init and connectAndStartMeter.                           *)

\* The instrument is reached without a test, through a pointer of the sensor
\* and a pointer of the wrapper.
NullMeter(d) == ~hasMeter[d] \/ inst = "deleted"

\* Mutant: the calibration that was asked for is not forgotten.
InitOkKeepsCalibration(d, s) ==
  /\ ~NullMeter(d)
  /\ inst' = "ready" /\ setup' = s
  /\ hrInited' = (hrInited \/ s = "hires")
  /\ UNCHANGED <<hasMeter, valid, nextCal, failed>>

\* The display type is not sent: an i1 Pro has none to choose from (inst.c, line 157),
\* so that setDisplayType returns before anything that could throw.
InitOk(d, s) ==
  /\ ~NullMeter(d)
  /\ inst' = "ready" /\ setup' = s
  /\ hrInited' = (hrInited \/ s = "hires")
  /\ nextCal' = "none"
  /\ UNCHANGED <<hasMeter, valid, failed>>

\* Every error of the start deletes the instrument and forgets it.
InitFails(d) ==
  /\ ~NullMeter(d)
  /\ inst' = "deleted" /\ hasMeter' = [hasMeter EXCEPT ![d] = FALSE]
  /\ failed' = TRUE
  /\ UNCHANGED <<setup, hrInited, valid, nextCal>>

InitCrashes(d) ==
  /\ NullMeter(d)
  /\ UNCHANGED <<hasMeter, driver, nextCal, failed>>

Goto(p) == pc' = p /\ UNCHANGED <<doc, job>>
Idle == pc' = "idle" /\ doc' = NoDoc /\ job' = "none"

\* The functions of the threads catch everything, those of the commands nothing.
Escape == IF job = "thread" THEN Idle ELSE Goto("crashed")

-----------------------------------------------------------------------------
(* The user's commands.                                                    *)

\* OnNewDocument and OnChangeSensor: the wrapper is in the list of detected
\* meters whether or not it still has an instrument.
CreateSensor(d) ==
  /\ pc = "idle"
  /\ hasMeter' = [hasMeter EXCEPT ![d] = TRUE]
  /\ UNCHANGED <<settings, archive, driver, wrapper, control, result, failed>>

\* DuplicateSensor: Copy asks the meter of the other sensor for its name.
DuplicateSensor(d, e) ==
  /\ pc = "idle" /\ d # e
  /\ IF hasMeter[e]
       THEN /\ hasMeter' = [hasMeter EXCEPT ![d] = TRUE]
            /\ settings' = [settings EXCEPT ![d] = settings[e]]
            /\ UNCHANGED pc
       ELSE pc' = "crashed" /\ UNCHANGED sensors
  /\ UNCHANGED <<archive, driver, wrapper, doc, job, result, failed>>

\* Serialize writes the name of the meter only when the sensor has one.
SaveDocument(d) ==
  /\ pc = "idle"
  /\ badFile' = (badFile \/ ~hasMeter[d])
  /\ UNCHANGED <<sensors, unreadable, driver, wrapper, control, result, failed>>

\* Serialize reads a name in every case.  The document may be an older one.
OpenDocument(d, s) ==
  /\ pc = "idle"
  /\ hasMeter' = [hasMeter EXCEPT ![d] = TRUE]
  /\ settings' = [settings EXCEPT ![d] = s]
  /\ UNCHANGED <<archive, driver, wrapper, control, result, failed>>

OpenBadDocument ==
  /\ pc = "idle" /\ badFile /\ unreadable' = TRUE
  /\ UNCHANGED <<sensors, badFile, driver, wrapper, control, result, failed>>

\* Mutant: an instrument that is ready is not initialised again.
BeginWithReady(d, who) ==
  /\ pc = "idle" /\ hasMeter[d] /\ inst # "deleted"
  /\ IF inst = "ready" THEN UNCHANGED <<hasMeter, driver, nextCal, failed>>
                        ELSE InitOk(d, settings[d])
  /\ pc' = "next" /\ doc' = d /\ job' = who
  /\ UNCHANGED <<settings, archive, darkOnly, result>>

\* A series, or the start of the continuous measures, initialises the sensor.
Begin(d, who) ==
  /\ pc = "idle"
  /\ \/ InitOk(d, settings[d]) /\ pc' = "next" /\ doc' = d /\ job' = who
     \/ InitFails(d) /\ UNCHANGED control
     \/ InitCrashes(d) /\ pc' = "crashed" /\ UNCHANGED <<doc, job>>
  /\ UNCHANGED <<settings, archive, darkOnly, result>>

\* Mutant: Release gives the meter back.
EndDropsMeter ==
  /\ pc = "next" /\ Idle
  /\ hasMeter' = [hasMeter EXCEPT ![doc] = FALSE]
  /\ UNCHANGED <<settings, archive, driver, wrapper, result, failed>>

\* The series is over, or the continuous measures are stopped: Release.
End ==
  /\ pc = "next" /\ Idle
  /\ UNCHANGED <<sensors, archive, driver, wrapper, result, failed>>

\* OnConfigureSensor: the page asks the meter what it can do, which starts an
\* instrument that was never started, without the settings of the sensor.
OpenPage(d) ==
  /\ pc = "idle" /\ doc' = d /\ job' = "page"
  /\ \/ /\ ~NullMeter(d) /\ pc' = "page"
        /\ inst' = "ready" /\ nextCal' = IF inst = "cold" THEN "none" ELSE nextCal
        /\ UNCHANGED failed
     \/ /\ ~NullMeter(d) /\ inst = "cold" /\ pc' = "crashed"
        /\ inst' = "deleted" /\ failed' = TRUE
        /\ UNCHANGED nextCal
     \/ NullMeter(d) /\ pc' = "crashed" /\ UNCHANGED <<inst, nextCal, failed>>
  /\ UNCHANGED <<sensors, archive, setup, hrInited, valid, darkOnly, result>>

\* GetPropertiesSheetValues, by OK or by the button Calibrate: changed settings
\* are sent to the meter, and what Init returns is not looked at.
ApplySettings(s, calibrate) ==
  /\ pc = "page"
  /\ settings' = IF hasMeter[doc] THEN [settings EXCEPT ![doc] = s] ELSE settings
  /\ \/ /\ \/ /\ hasMeter[doc] /\ s = settings[doc]
              /\ UNCHANGED <<hasMeter, driver, nextCal, failed>>
           \/ s # settings[doc] /\ (InitOk(doc, s) \/ InitFails(doc))
        /\ IF calibrate THEN Goto("calibrate") ELSE Idle
     \/ /\ s # settings[doc] \/ ~hasMeter[doc]
        /\ InitCrashes(doc) /\ Goto("crashed")
  /\ UNCHANGED <<archive, darkOnly, result>>

-----------------------------------------------------------------------------
(* MeasureColor and takeReading.                                           *)

\* CSensor::MeasureColor raises every component to a small positive value; a failed
\* reading is a valid black, for no sensor ever says that a measure is invalid.
Positive(colour) == IF colour = "none" THEN "black" ELSE colour

MeasureColor ==
  /\ pc = "next" /\ result' = "none"
  /\ IF hasMeter[doc] THEN Goto("take") ELSE Escape
  /\ UNCHANGED <<sensors, archive, driver, wrapper, failed>>

Readable == hasMeter[doc] /\ inst = "ready" /\ Needed = {}

\* INCORRECT_POSITION, a message and the loop again, is a stuttering step here.
TakeReading ==
  /\ pc = "take" /\ Readable
  /\ result' = Positive(setup) /\ Goto("next")
  /\ UNCHANGED <<sensors, archive, driver, wrapper, failed>>

\* takeReading lets the instrument calibrate where it is before it asks.
NeedsManualCalibration ==
  /\ pc = "take" /\ hasMeter[doc] /\ inst = "ready" /\ Left(Needed, "none") # {}
  /\ nextCal' = CondFor(Left(Needed, "none"))
  /\ Goto("calibrate")
  /\ UNCHANGED <<sensors, archive, driver, darkOnly, result, failed>>

\* Any other error is thrown and caught: MeasureColorInternal returns noDataColor.
ReadingFails ==
  /\ pc = "take" /\ hasMeter[doc]
  /\ nextCal' = IF inst # "ready" \/ Needed = {} THEN nextCal ELSE "none"
  /\ result' = Positive("none") /\ Goto("next")
  /\ UNCHANGED <<sensors, archive, driver, darkOnly, failed>>

\* The loop goes on after a calibration that took the meter from the sensor.
ReadingCrashes ==
  /\ pc = "take" /\ ~hasMeter[doc] /\ Escape
  /\ UNCHANGED <<sensors, archive, driver, wrapper, result, failed>>

-----------------------------------------------------------------------------
(* Calibrate.                                                              *)

Back == IF job = "page" THEN Goto("page") ELSE Goto("take")

\* Mutant: only the dark calibration.
CaltDark(dark) == {"dark"}

\* What calibrate asks of the driver: not what was left the time before.
Calt(dark) == IF dark THEN {"dark"} ELSE Available

Calibrate ==
  /\ pc = "calibrate"
  /\ \/ InitOk(doc, settings[doc]) /\ Goto("instr")
     \/ InitFails(doc) /\ Back
     \/ InitCrashes(doc) /\ Escape
  /\ UNCHANGED <<settings, archive, darkOnly, result>>

\* getCalibrationInstructions: the first time the user is asked whether to skip
\* the white tile, and the driver which calibration it wants.
AskDriver(skip) ==
  /\ pc = "instr" /\ nextCal = "none"
  /\ darkOnly' = (skip /\ settings[doc] = "std")
  /\ nextCal' = CondFor(Left(Calt(darkOnly'), "none"))
  /\ Goto("ask")
  /\ UNCHANGED <<sensors, archive, driver, result, failed>>

\* After that the instructions are those of the condition asked for.
ShowInstructions ==
  /\ pc = "instr" /\ nextCal # "none" /\ Goto("ask")
  /\ UNCHANGED <<sensors, archive, driver, wrapper, result, failed>>

\* The user puts the meter in the condition asked for: calibrate.
CalibrateThere ==
  /\ pc = "ask"
  /\ LET calt == Calt(darkOnly)
         left == Left(calt, nextCal)
     IN  /\ valid' = valid \cup (calt \ left)
         /\ nextCal' = IF left = {} THEN nextCal ELSE CondFor(left)
         /\ Goto(IF left = {} THEN "done" ELSE "instr")
  /\ UNCHANGED <<sensors, archive, inst, setup, hrInited, darkOnly, result, failed>>

\* INCORRECT_POSITION: the instructions again.
CalibrateElsewhere ==
  /\ pc = "ask" /\ Goto("instr")
  /\ UNCHANGED <<sensors, archive, driver, wrapper, result, failed>>

\* Any other error is thrown, and nothing between here and the caller of
\* MeasureColor catches it.
CalibrationThrows ==
  /\ \/ pc = "instr" /\ nextCal = "none"
     \/ pc = "ask"
  /\ failed' = TRUE /\ Escape
  /\ UNCHANGED <<sensors, archive, driver, wrapper, result>>

\* "Device is now calibrated."
Announce ==
  /\ pc = "done" /\ Back
  /\ UNCHANGED <<sensors, archive, driver, wrapper, result, failed>>

-----------------------------------------------------------------------------
(* Time: the dark calibration goes out of date.                            *)

Expire ==
  /\ pc \in {"idle", "next", "page"} /\ "dark" \in valid
  /\ valid' = valid \ {"dark"}
  /\ UNCHANGED <<sensors, archive, inst, setup, hrInited, wrapper, control, result,
                 failed>>

Commands(d) ==
  \/ CreateSensor(d) \/ SaveDocument(d) \/ OpenPage(d)
  \/ \E s \in Settings : OpenDocument(d, s)
  \/ \E e \in Docs : DuplicateSensor(d, e)
  \/ \E who \in {"series", "thread"} : Begin(d, who)

Measures ==
  \/ MeasureColor \/ TakeReading \/ NeedsManualCalibration
  \/ ReadingFails \/ ReadingCrashes \/ End

Calibrates ==
  \/ Calibrate \/ ShowInstructions \/ CalibrateThere \/ CalibrateElsewhere
  \/ \E skip \in BOOLEAN : AskDriver(skip)
  \/ CalibrationThrows \/ Announce

Next ==
  \/ \E d \in Docs : Commands(d)
  \/ OpenBadDocument
  \/ \E s \in Settings, calibrate \in BOOLEAN : ApplySettings(s, calibrate)
  \/ Measures \/ Calibrates \/ Expire

\* The program goes on when it can.  The user answers the dialogs, puts the
\* meter where it belongs sooner or later, and does not skip the tile for ever.
Fairness ==
  /\ WF_vars(Measures /\ pc = "take") /\ WF_vars(Calibrates)
  /\ SF_vars(CalibrateThere) /\ SF_vars(AskDriver(FALSE))

Spec == Init /\ [][Next]_vars
FairSpec == Spec /\ Fairness

-----------------------------------------------------------------------------
(* Properties.                                                             *)

\* Typing.
TypeOK ==
  /\ hasMeter \in [Docs -> BOOLEAN] /\ settings \in [Docs -> Settings]
  /\ badFile \in BOOLEAN /\ unreadable \in BOOLEAN
  /\ inst \in {"cold", "ready", "deleted"} /\ setup \in Settings \cup {"none"}
  /\ hrInited \in BOOLEAN /\ valid \in SUBSET Cals
  /\ nextCal \in Conds /\ darkOnly \in BOOLEAN
  /\ pc \in PCs /\ doc \in Docs \cup {NoDoc} /\ job \in Jobs
  /\ result \in Results /\ failed \in BOOLEAN

\* The meter is shared: a colour that a document gets was read with the
\* settings of that document, whatever the pages and the series of the other
\* documents sent to the meter before (CArgyllSensor::MeasureColorInternal).
ReadWithOwnSettings ==
  [][ pc = "take" /\ pc' = "next" => result' \in {"black", settings[doc]} ]_vars

\* The pointers of the sensors and of the wrapper are never followed to nothing
\* unless a start or a calibration of the device failed before
\* (connectAndStartMeter, Copy, the property page), and no document is saved
\* that cannot be read.
CrashesOnlyAfterFailure == pc = "crashed" \/ unreadable => failed
SafetyInv == TypeOK /\ CrashesOnlyAfterFailure

\* "Device is now calibrated" is said when nothing is left to calibrate, but
\* for a white tile that the user chose to skip outside high resolution (CArgyllSensor::Calibrate).
AnnouncedIsCalibrated ==
  pc = "done" => \/ Needed = {}
                 \/ darkOnly /\ settings[doc] = "std" /\ Needed = {"white"}

\* A measure ends, whatever calibrations it takes.
MeasureEnds ==
  pc \in {"take", "calibrate", "instr", "ask", "done"} /\ job # "page"
    ~> pc \in {"next", "idle", "crashed"}
=============================================================================
