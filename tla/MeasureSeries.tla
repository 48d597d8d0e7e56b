----------------------------- MODULE MeasureSeries -----------------------------
(***************************************************************************)
(* The series of measures of Measure.cpp with the infrared DVD generator   *)
(* of KiGenerator.cpp.  The program cannot see what the DVD player shows:  *)
(* it sends infrared codes, which may get lost, counts the codes that will *)
(* bring the player back to its menu, and guesses from the colour it       *)
(* measures whether the picture has changed.  The user may cancel a        *)
(* series, and retry or ignore a measure that failed.                      *)
(*                                                                         *)
(* Everything runs on the user interface thread; the steps are the passes  *)
(* of a loop, cut where the player or the user answers.  The luminance     *)
(* values are in LuxMeter; what concerns other generators (m_isSettling,   *)
(* the longest checker of the manual DVD) and m_binMeasure, which the      *)
(* views read, are left out.                                               *)
(***************************************************************************)
EXTENDS Integers, Sequences

CONSTANTS
  Grays,          \* the patterns of a gray scale
  Colors,         \* those of the primaries and of the secondaries
  Levels,         \* those of a saturation scale
  Patches,        \* those of a colour checker
  Lead,           \* how many of them the mode MCD stores out of their order
  SatColors,      \* the scales that a measure of all saturations goes through
  RetryByPattern, \* m_patternCheckMaxRetryByPattern
  RetryBySeries,  \* m_patternCheckMaxRetryBySeries
  Checked,        \* the kinds of patterns on which the pattern check is active
  MaxRetries      \* bound: how often the user answers Retry in a series

Kinds == {"IRE", "PRIMARY", "SECONDARY", "SAT", "NEARBLACK"}
SatTitles == <<"red", "green", "blue", "yellow", "cyan", "magenta">>

ASSUME SizesAssumption ==
  /\ {Grays, Colors, Levels, Patches} \subseteq Nat \ {0}
  /\ Lead \in 0 .. Patches
  /\ SatColors \in 1 .. Len(SatTitles)
ASSUME RetriesAssumption == {RetryByPattern, RetryBySeries, MaxRetries} \subseteq Nat
\* HasPatternChanged never checks the near black patterns.
ASSUME CheckedAssumption == Checked \subseteq Kinds \ {"NEARBLACK"}

-----------------------------------------------------------------------------
(***************************************************************************)
(* The functions of CMeasure.  A series is a sequence of parts, one for    *)
(* each loop over the patterns of one title of the disc:                   *)
(*   - checkFirst: the pattern check is asked for the first pattern too;   *)
(*   - honoursRetry: Display... is told not to change the pattern when the *)
(*     user has answered Retry;                                            *)
(*   - restOnEscape: a cancel passes the rest of the part to Release;      *)
(*   - lead: how many measures are stored out of the order of the patterns. *)
(***************************************************************************)
Part(title, kind, size) ==
  [title |-> title, kind |-> kind, size |-> size, checkFirst |-> FALSE,
   honoursRetry |-> TRUE, restOnEscape |-> FALSE, lead |-> 0]

ColorPart(title, kind) ==
  [Part(title, kind, Colors) EXCEPT !.checkFirst = TRUE, !.honoursRetry = FALSE]

MeasureGrayScale == <<Part("grays", "IRE", Grays)>>

MeasureGrayScaleAndColors ==
  <<[Part("grays", "IRE", Grays) EXCEPT !.restOnEscape = TRUE],
    ColorPart("secondaries", "SECONDARY")>>

MeasureNearBlackScale == <<Part("dark", "NEARBLACK", Grays)>>

MeasureSatScale(k) == <<Part(SatTitles[k], "SAT", Levels)>>

MeasureCC24SatScale == <<Part("checker", "SAT", Patches)>>

\* The mode MCD of MeasureCC24SatScale begins with the pattern of the seventh patch.
MeasureMCD == <<[Part("checker", "SAT", Patches) EXCEPT !.lead = Lead]>>

\* Where the measure of pattern m of part p is stored: i + 6, or 23 - i.
Cell(p, m) == IF m + p.lead < p.size \/ p.lead = 0 THEN m + p.lead ELSE p.size - 1 - m

MeasurePrimarySecondarySaturationScales ==
  [k \in 1 .. SatColors |->
     [Part(SatTitles[k], "SAT", Levels) EXCEPT !.restOnEscape = TRUE]]

MeasurePrimaries == <<ColorPart("primaries", "PRIMARY")>>
MeasureSecondaries == <<ColorPart("secondaries", "SECONDARY")>>

AllSeries ==
  {MeasureGrayScale, MeasureGrayScaleAndColors, MeasureNearBlackScale, MeasureCC24SatScale,
   MeasureMCD, MeasurePrimarySecondarySaturationScales, MeasurePrimaries, MeasureSecondaries}
  \union {MeasureSatScale(k) : k \in 1 .. SatColors}

\* What the callers pass to Init.
NbMeasure(s) == IF Len(s) = 1 THEN s[1].size
                ELSE IF s = MeasureGrayScaleAndColors THEN Grays + Colors
                     ELSE Levels * SatColors

VARIABLES
  pc,          \* where the user interface thread is
  series,      \* the parts of the series
  part, i,     \* where the series is: the part and the pattern, from 0
  bRetry,      \* the user has answered Retry
  measured,    \* measuredColor, for each part
  lastColor,   \* CMeasure::lastColor
  generator,   \* the generator is initialised
  sensor,      \* the sensor is initialised
  beforeFirst, \* m_bBeforeFirstDisplay
  nbNext,      \* m_NbNextCodeToAdd
  patternRetry, totalRetry,  \* m_patternRetry, m_totalPatternRetry
  player,      \* what the DVD player shows
  retries,     \* how often the user has answered Retry in this series
  incidents    \* history: what has happened to this series, see Incidents

seriesVars == <<series, part, i, bRetry, retries>>
devices == <<generator, sensor>>
checkVars == <<patternRetry, totalRetry, lastColor>>
vars == <<pc, seriesVars, measured, devices, beforeFirst, nbNext,
          checkVars, player, incidents>>

(***************************************************************************)
(* What can happen to a series besides being cancelled:                    *)
(*   lost: a code for the next picture did not reach the player;           *)
(*   unchecked: the same, where the pattern check is not active;           *)
(*   lostMenu: the code that ends a title did not reach it;                *)
(*   lostNavigation: nor did a code that opens a title;                    *)
(*   lostRelease: nor did a code of Release;                               *)
(*   gaveUp: the pattern check found no change and no retry was left;      *)
(*   falseAlarm: it found no change although the right picture was shown;  *)
(*   retried, advanced: the user answered Retry, in a part that heeds it   *)
(*   or in one that changes the pattern all the same;                      *)
(*   ignored: the user answered Ignore;                                    *)
(*   failed: a code was not sent;                                          *)
(*   leftReady: a checker without colours, see Refused;                    *)
(*   override: the black level is given, the series begins at pattern 1.   *)
(***************************************************************************)
Incidents ==
  {"lost", "unchecked", "lostMenu", "lostNavigation", "lostRelease", "gaveUp",
   "falseAlarm", "retried", "advanced", "ignored", "failed", "leftReady", "override"}

Here == series[part]
-----------------------------------------------------------------------------
(***************************************************************************)
(* The DVD player, as the generator takes it to be: a title is opened from *)
(* the menu, the code for the next chapter moves to the next picture and,  *)
(* after the last one, to the menu, where it has no effect; the navigation *)
(* codes have none in a title.                                             *)
(***************************************************************************)
Titles == {"grays", "dark", "primaries", "secondaries", "checker"}
          \union {SatTitles[k] : k \in 1 .. SatColors}

PicturesOf(title) ==
  CASE title \in {"grays", "dark"} -> Grays
    [] title \in {"primaries", "secondaries"} -> Colors
    [] title = "checker" -> Patches
    [] OTHER -> Levels

Picture(title, at) == [title |-> title, at |-> at]
Menu == Picture("menu", 0)
Pictures == {Menu} \union
  UNION {{Picture(t, k) : k \in 0 .. PicturesOf(t) - 1} : t \in Titles}

\* What the player shows after n codes for the next chapter.
After(p, n) ==
  IF p = Menu \/ p.at + n >= PicturesOf(p.title) THEN IF n = 0 THEN p ELSE Menu
  ELSE [p EXCEPT !.at = p.at + n]

(***************************************************************************)
(* The colour of a picture: the primaries begin the secondaries too, and   *)
(* they end the saturation scales.  Two colours are the same when they     *)
(* differ by less than m_minDif; a measure is taken to be that precise.    *)
(***************************************************************************)
Color(p) ==
  LET pure == {k \in 1 .. SatColors : p = Picture(SatTitles[k], Levels - 1)}
  IN CASE p.title = "primaries" -> Picture("secondaries", p.at)
       [] pure # {} -> Picture("secondaries", (CHOOSE k \in pure : TRUE) - 1)
       [] OTHER -> p

NoColor == Picture("none", 0)
Invalid == Picture("invalid", 0)
-----------------------------------------------------------------------------
Init ==
  /\ pc = "idle" /\ series = <<>> /\ part = 0 /\ i = 0 /\ bRetry = FALSE
  /\ measured = <<>> /\ lastColor = NoColor
  /\ generator = FALSE /\ sensor = FALSE /\ beforeFirst = FALSE /\ nbNext = 0
  /\ patternRetry = 0 /\ totalRetry = 0 /\ player = Menu
  /\ retries = 0 /\ incidents = {}

\* Mutant: i < m_NbNextCodeToAdd.
ReleaseOneLess(n, what) ==
  /\ \E received \in 0 .. n :
       /\ player' = After(player, received)
       /\ incidents' = incidents \union what \union
            (IF received = n THEN {} ELSE {"lostRelease"})
  /\ nbNext' = 0 /\ beforeFirst' = FALSE
  /\ generator' = FALSE

(***************************************************************************)
(* CKiGenerator::Release(n): n + 1 codes for the next chapter, and no      *)
(* answer is looked at.                                                    *)
(***************************************************************************)
ReleaseGenerator(n, what) ==
  /\ \E received \in 0 .. n + 1 :
       /\ player' = After(player, received)
       /\ incidents' = incidents \union what \union
            (IF received = n + 1 THEN {} ELSE {"lostRelease"})
  /\ nbNext' = 0 /\ beforeFirst' = FALSE
  /\ generator' = FALSE

Release(n, what) == ReleaseGenerator(n, what) /\ sensor' = FALSE

\* The local variables of the series are gone.
Forget ==
  /\ series' = <<>> /\ part' = 0 /\ i' = 0 /\ bRetry' = FALSE /\ retries' = 0
  /\ measured' = <<>>

Cancel(n, what) == pc' = "cancelled" /\ Release(n, what) /\ Forget

\* Init of the generator: the part of it that does not depend on its success.
InitGenerator(s) ==
  /\ beforeFirst' = TRUE
  /\ patternRetry' = RetryByPattern /\ totalRetry' = RetryBySeries
  /\ nbNext' = NbMeasure(s)

BlackOverride(s) == s[1].title \in {"grays", "dark"}

\* The devices are initialised and the loop of the first part begins.
Start(s) ==
  /\ pc = "idle" /\ pc' = "display"
  /\ InitGenerator(s) /\ generator' = TRUE /\ sensor' = TRUE
  /\ series' = s /\ part' = 1 /\ bRetry' = FALSE /\ retries' = 0
  /\ \/ i' = 0 /\ incidents' = {}
     \/ i' = 1 /\ incidents' = {"override"} /\ BlackOverride(s) /\ s[1].size > 1
  /\ measured' = [k \in 1 .. Len(s) |-> [m \in 0 .. s[k].size - 1 |-> NoColor]]
  /\ UNCHANGED <<lastColor, player>>

(***************************************************************************)
(* No series is begun.  The generator refuses Init, and keeps what Init has *)
(* set; or it was initialised and is released, since it refuses the scale, *)
(* or the sensor refuses Init, or the colours of a checker are not found:  *)
(* the sensor has been initialised by then, and stays so.                  *)
(***************************************************************************)
Refused(s) ==
  /\ pc = "idle"
  /\ UNCHANGED <<pc, seriesVars, measured, lastColor>>
  /\ \/ InitGenerator(s) /\ UNCHANGED <<devices, player, incidents>>
     \/ /\ patternRetry' = RetryByPattern /\ totalRetry' = RetryBySeries
        /\ \/ ReleaseGenerator(NbMeasure(s), {}) /\ UNCHANGED sensor
           \/ Release(NbMeasure(s), {})
           \/ /\ s[1].title = "checker"
              /\ ReleaseGenerator(NbMeasure(s), {"leftReady"}) /\ sensor' = TRUE
-----------------------------------------------------------------------------
(***************************************************************************)
(* One pass of the loop up to the display of the pattern: DisplayGray or   *)
(* DisplayRGBColor.                                                        *)
(***************************************************************************)
\* Mutant: m_NbNextCodeToAdd is not tested first.
CountDownAlways == nbNext - 1

CountDown == IF nbNext > 0 THEN nbNext - 1 ELSE 0

\* Mutant: Display... is not told of the retry.
ChangePatternAlways == TRUE

\* The pattern is changed unless the user has answered Retry and that is heeded.
ChangePattern == ~bRetry \/ ~Here.honoursRetry

\* The first display opens the title.  A dialog has the user go to the menu
\* before the first title of a series.
OpenTitle ==
  LET from == IF part = 1 THEN Menu ELSE player
  IN \/ /\ player' = IF from = Menu THEN Picture(Here.title, 0) ELSE from
        /\ UNCHANGED incidents
     \/ /\ player' \in {from} \union
             (IF from = Menu THEN {Picture(t, 0) : t \in Titles} ELSE {})
        /\ incidents' = incidents \union {"lostNavigation"}

\* The pattern check compares the pattern with the one before it.
Verified == Here.kind \in Checked /\ Here.lead = 0

NextPicture ==
  \/ player' = After(player, 1) /\ UNCHANGED incidents
  \/ /\ UNCHANGED player
     /\ incidents' = incidents \union
          {IF Verified THEN "lost" ELSE "unchecked"}

SamePicture == UNCHANGED <<player, incidents>>

Display ==
  /\ pc = "display" /\ pc' = "measure"
  /\ nbNext' = CountDown /\ beforeFirst' = FALSE
  /\ \/ beforeFirst /\ OpenTitle
     \/ ~beforeFirst /\ ChangePattern /\ NextPicture
     \/ ~beforeFirst /\ ~ChangePattern /\ SamePicture
  /\ UNCHANGED <<seriesVars, measured, devices, checkVars>>

\* Mutant: the sensor is not released.
DisplayFailsOnly ==
  /\ pc = "display" /\ (beforeFirst \/ ChangePattern)
  /\ pc' = "cancelled" /\ Forget
  /\ incidents' = incidents \union {"failed"}
  /\ nbNext' = 0 /\ beforeFirst' = FALSE /\ generator' = FALSE
  /\ UNCHANGED <<checkVars, player, sensor>>

\* The code cannot be sent, or the user cancels the dialog.
DisplayFails ==
  /\ pc = "display" /\ (beforeFirst \/ ChangePattern)
  /\ Cancel(CountDown, {"failed"})
  /\ UNCHANGED checkVars
-----------------------------------------------------------------------------
(***************************************************************************)
(* The rest of the pass: the measure, and what becomes of it.              *)
(***************************************************************************)
Escape ==
  /\ pc = "measure"
  /\ Cancel(IF Here.restOnEscape THEN Here.size - 1 - i ELSE nbNext, {})
  /\ UNCHANGED checkVars

\* i++, and the test of the loop.
NextPattern ==
  /\ bRetry' = FALSE /\ UNCHANGED <<series, part, retries>>
  /\ IF i + 1 < Here.size THEN i' = i + 1 /\ pc' = "display"
     ELSE UNCHANGED i /\ pc' = IF part < Len(series) THEN "change" ELSE "end"

\* i-- before i++.
SamePattern == pc' = "display" /\ UNCHANGED <<series, part, i>>

Store(c) == measured' = [measured EXCEPT ![part][Cell(Here, i)] = c]

\* measuredColor[i] after the measure: with MCD that is an older measure, or none.
Compared == IF Cell(Here, i) = i THEN Color(player) ELSE measured[part][i]

\* Mutant: the second pattern is not checked.
CheckIsAskedLate == (i > 1 \/ Here.checkFirst) /\ Here.kind \in Checked

CheckIsAsked == (i # 0 \/ Here.checkFirst) /\ Here.kind \in Checked
Unchanged == Compared = lastColor

\* Mutant: m_totalPatternRetry and m_patternRetry are not counted.
PatternRetryForEver ==
  /\ pc = "measure" /\ CheckIsAsked /\ Unchanged
  /\ Store(Color(player)) /\ lastColor' = Compared
  /\ SamePattern /\ bRetry' = FALSE
  /\ UNCHANGED <<retries, devices, beforeFirst, nbNext, player, incidents, patternRetry, totalRetry>>

\* HasPatternChanged says no: the pattern is displayed again.
PatternRetry ==
  /\ pc = "measure" /\ CheckIsAsked /\ Unchanged
  /\ patternRetry > 0 /\ totalRetry > 0
  /\ patternRetry' = patternRetry - 1 /\ totalRetry' = totalRetry - 1
  /\ Store(Color(player)) /\ lastColor' = Compared
  /\ SamePattern /\ bRetry' = FALSE
  /\ incidents' = incidents \union
       (IF player = Picture(Here.title, i) THEN {"falseAlarm"} ELSE {})
  /\ UNCHANGED <<retries, devices, beforeFirst, nbNext, player>>

\* HasPatternChanged says yes, or is not asked.
PatternDone ==
  /\ pc = "measure"
  /\ CheckIsAsked /\ Unchanged => patternRetry = 0 \/ totalRetry = 0
  /\ patternRetry' = IF CheckIsAsked THEN RetryByPattern ELSE patternRetry
  /\ Store(Color(player)) /\ lastColor' = Compared
  /\ NextPattern
  /\ incidents' = incidents \union
       (IF CheckIsAsked /\ Unchanged THEN {"gaveUp"} ELSE {})
  /\ UNCHANGED <<totalRetry, devices, beforeFirst, nbNext, player>>

\* The measure is invalid: the user answers Abort, Retry or Ignore.
Abort ==
  /\ pc = "measure"
  /\ Cancel(nbNext, {})
  /\ UNCHANGED checkVars

Retry ==
  /\ pc = "measure" /\ retries < MaxRetries
  /\ Store(Invalid)
  /\ SamePattern /\ bRetry' = TRUE /\ retries' = retries + 1
  /\ incidents' = incidents \union {IF Here.honoursRetry THEN "retried" ELSE "advanced"}
  /\ UNCHANGED <<devices, beforeFirst, nbNext, checkVars, player>>

Ignore ==
  /\ pc = "measure" /\ Store(Invalid)
  /\ NextPattern
  /\ incidents' = incidents \union {"ignored"}
  /\ UNCHANGED <<devices, beforeFirst, nbNext, checkVars, player>>

\* ChangePatternSeries: a code for the next chapter leads to the menu.
ChangePatternSeries ==
  /\ pc = "change" /\ pc' = "display"
  /\ beforeFirst' = TRUE
  /\ \/ player' = After(player, 1) /\ UNCHANGED incidents
     \/ UNCHANGED player /\ incidents' = incidents \union {"lostMenu"}
  /\ part' = part + 1 /\ i' = 0
  /\ UNCHANGED <<series, bRetry, retries, measured, devices, nbNext, checkVars>>

ChangeFails ==
  /\ pc = "change"
  /\ Cancel(nbNext, {"failed"})
  /\ UNCHANGED checkVars

\* The end of the series: measuredColor becomes the measures of the document.
End ==
  /\ pc = "end" /\ pc' = "succeeded"
  /\ Release(nbNext, {})
  /\ UNCHANGED <<seriesVars, measured, checkVars>>

Return ==
  /\ pc \in {"succeeded", "cancelled"} /\ pc' = "idle"
  /\ Forget /\ incidents' = {}
  /\ UNCHANGED <<devices, beforeFirst, nbNext, checkVars, player>>

Step ==
  \/ Display \/ DisplayFails \/ Escape \/ PatternRetry \/ PatternDone
  \/ Abort \/ Retry \/ Ignore \/ ChangePatternSeries \/ ChangeFails \/ End \/ Return

Next == Step \/ \E s \in AllSeries : Start(s) \/ Refused(s)

Spec == Init /\ [][Next]_vars

\* A series goes on by itself, a measure ends, and the user answers.
FairSpec == Spec /\ WF_vars(Step)
-----------------------------------------------------------------------------
Colored == {Color(p) : p \in Pictures}
Values == Colored \union {NoColor, Invalid}
Running == {"display", "measure", "change", "end"}

\* The variables have the values that the code can give them; a running
\* series is at a pattern that it has.
TypeOK ==
  /\ pc \in Running \union {"idle", "succeeded", "cancelled"}
  /\ series \in AllSeries \union {<<>>}
  /\ pc \in {"idle", "cancelled"} <=> series = <<>>
  /\ series # <<>> => part \in 1 .. Len(series) /\ i \in 0 .. Here.size - 1
  /\ DOMAIN measured = 1 .. Len(series)
  /\ series # <<>> => \A k \in 1 .. Len(series) :
                         measured[k] \in [0 .. series[k].size - 1 -> Values]
  /\ {bRetry, generator, sensor, beforeFirst} \subseteq BOOLEAN
  /\ lastColor \in Values /\ player \in Pictures
  /\ nbNext \in Nat
  /\ patternRetry \in 0 .. RetryByPattern /\ totalRetry \in 0 .. RetryBySeries
  /\ retries \in 0 .. MaxRetries
  /\ incidents \subseteq Incidents

\* The devices are initialised as long as a series runs, and whatever way it
\* ends, both of them are released; nor does a series that is refused leave one
\* initialised, but for the sensor of a colour checker that has no colours.
DevicesReleased ==
  /\ pc \in Running => generator /\ sensor
  /\ pc \notin Running => ~generator
  /\ pc \notin Running /\ sensor => pc = "idle" /\ "leftReady" \in incidents

\* What the pattern check cannot make good.
Misleading == {"unchecked", "lostMenu", "lostNavigation", "gaveUp", "falseAlarm",
               "advanced", "override"}
Misled == incidents \intersect Misleading # {} \/ {"lost", "ignored"} \subseteq incidents

HasItsColor(k, m) ==
  LET c == measured[k][Cell(series[k], m)]
  IN c = Color(Picture(series[k].title, m)) \/ (c = Invalid /\ "ignored" \in incidents)

\* Whatever codes for the next picture get lost, and however often the user
\* retries, a series that succeeds has for each pattern the colour of that
\* pattern: the repeated codes and the repeated measures never get the program
\* and the player out of step.
MeasuredOnItsPattern ==
  pc = "succeeded" /\ ~Misled =>
    \A k \in 1 .. Len(series) : \A m \in 0 .. series[k].size - 1 :
      HasItsColor(k, m)

-----------------------------------------------------------------------------
(***************************************************************************)
(* Why that holds: the inductive invariant.                                *)
(***************************************************************************)
Shown(k) == Picture(Here.title, k)

\* The player shows the pattern, or the one before it: a code was lost, and the
\* check that is about to be asked finds out.
AtPattern ==
  \/ player = Shown(i)
  \/ ("lost" \in incidents /\ i > 0 /\ Verified /\ player = Shown(i - 1))

Control ==
  /\ pc = "measure" => ~beforeFirst
  /\ pc \in {"change", "end", "succeeded"} => i = Here.size - 1
  /\ pc = "change" => part < Len(series)
  /\ pc \in {"end", "succeeded"} => part = Len(series)

Measured(k, m) ==
  k < part \/ (k = part /\ (m < i \/ pc \notin {"display", "measure"}))

\* As long as nothing has misled the series, the player is where the loop takes
\* it to be, and what is measured was measured on its pattern.
InStep ==
  series # <<>> /\ ~Misled =>
    /\ \A k \in 1 .. Len(series) : \A m \in 0 .. series[k].size - 1 :
         Measured(k, m) => HasItsColor(k, m)
    /\ pc = "display" /\ beforeFirst => i = 0 /\ (part = 1 \/ player = Menu)
    /\ pc = "display" /\ ~beforeFirst =>
         IF ChangePattern THEN i > 0 /\ player = Shown(i - 1) ELSE AtPattern
    /\ pc = "measure" => AtPattern
    /\ pc \in {"display", "measure"} /\ i > 0 /\ "ignored" \notin incidents /\ Here.lead = 0 =>
         lastColor = Color(Shown(i - 1))
    /\ pc \in {"change", "end"} => player = Shown(i)

\* The inductive invariant of the proofs.
SafetyInv == TypeOK /\ DevicesReleased /\ Control /\ InStep
-----------------------------------------------------------------------------
\* Release brings the player back to its menu ("Send a next code to return
\* directly to menu"): after a series that succeeded unless the player was
\* behind, and after a series that was cancelled before anything was repeated.
Behind == {"unchecked", "lostNavigation", "gaveUp", "lostRelease", "override"}
InReach == incidents \intersect Behind = {} /\ ~({"lost", "ignored"} \subseteq incidents)
BackInMenu ==
  /\ pc = "succeeded" /\ InReach => player = Menu
  /\ pc = "cancelled" /\ incidents \subseteq {"ignored"} => player = Menu

\* The codes for the next chapter that take the player from a picture to its menu.
LeftOf(p) == IF p = Menu THEN 0 ELSE PicturesOf(p.title) - p.at

\* What the parts after part k will take from m_NbNextCodeToAdd.
Owed(s, k) == IF Len(s) = 1 THEN 0
              ELSE IF s = MeasureGrayScaleAndColors THEN IF k = 1 THEN Colors ELSE 0
                   ELSE Levels * (SatColors - k)

\* One code was lost, and the pattern check is about to find out.
OneCodeBehind ==
  /\ i > 0 /\ "lost" \in incidents /\ Verified
  /\ LeftOf(player) = Here.size - i + 1 /\ lastColor = Color(player)

\* The inductive invariant behind BackInMenu.  Whatever repeats patterns only
\* moves the player ahead, hence nearer to its menu; what is owed is counted down
\* too early if a pattern is repeated, which is why the second part is so weak.
NeverBehind ==
  series # <<>> /\ InReach =>
    /\ pc = "display" /\ beforeFirst => i = 0 /\ (part = 1 \/ LeftOf(player) <= 1)
    /\ pc = "display" /\ ~beforeFirst /\ ChangePattern =>
         \/ LeftOf(player) <= Here.size - i
         \/ /\ i > 0 /\ LeftOf(player) = Here.size - i + 1
            /\ "ignored" \in incidents \/ Here.lead > 0 \/ lastColor = Color(player)
    /\ pc = "measure" \/ (pc = "display" /\ ~beforeFirst /\ ~ChangePattern) =>
         LeftOf(player) <= Here.size - i \/ OneCodeBehind
    /\ pc \in {"change", "end"} => LeftOf(player) <= 1
    /\ pc = "succeeded" => player = Menu
EnoughOwed ==
  incidents \subseteq {"ignored"} =>
    /\ pc = "display" => nbNext >= Here.size - i + Owed(series, part)
    /\ pc = "measure" => nbNext >= Here.size - 1 - i + Owed(series, part)
    /\ pc \in {"change", "end"} => nbNext >= Owed(series, part)
    /\ pc = "cancelled" => player = Menu
MenuInv == NeverBehind /\ EnoughOwed

\* Why a series ends: each of its steps spends a retry of the pattern check or of
\* the user, or goes on to a later pattern, or goes on in the pass through the
\* loop.  Nothing gives the retries of a series back, although HasPatternChanged
\* gives those of a pattern back whenever it is content.
RetriesLeft == totalRetry + (MaxRetries - retries)
PassLeft == CASE pc = "display" -> 3
              [] pc = "measure" -> 2
              [] pc \in {"change", "end"} -> 1
              [] OTHER -> 0
Later == part' > part \/ (part' = part /\ i' > i)
SeriesGoesOn ==
  [][series # <<>> /\ series' # <<>> =>
       \/ RetriesLeft' < RetriesLeft
       \/ RetriesLeft' = RetriesLeft /\ Later
       \/ RetriesLeft' = RetriesLeft /\ UNCHANGED <<part, i>> /\ PassLeft' < PassLeft]_vars

\* Every series ends, even if the player never answers: HasPatternChanged gives
\* up.  The user's answers are bounded by MaxRetries.
SeriesEnds == pc # "idle" ~> pc = "idle"
=============================================================================
