--------------------------- MODULE MeasureSeriesProofs ---------------------------
(* Theorems about MeasureSeries, for scales of any size and any number of retries. *)
EXTENDS MeasureSeries, TLAPS

\* The titles of the saturations have the pictures of a saturation scale.
LEMMA Saturations ==
  ASSUME NEW k \in 1 .. SatColors
  PROVE  /\ SatTitles[k] \in Titles /\ SatTitles[k] # "menu"
         /\ PicturesOf(SatTitles[k]) = Levels
<1>1. k \in 1 .. 6
  BY SizesAssumption DEF SatTitles
<1>2. SatTitles[k] \in {"red", "green", "blue", "yellow", "cyan", "magenta"}
  BY <1>1 DEF SatTitles
<1> QED
  BY <1>2 DEF Titles, PicturesOf

\* A title has pictures, and none is the menu.
LEMMA TitlesHavePictures ==
  ASSUME NEW t \in Titles
  PROVE  t # "menu" /\ PicturesOf(t) \in Nat \ {0}
<1>1. CASE t \in {"grays", "dark", "primaries", "secondaries", "checker"}
  BY <1>1, SizesAssumption DEF PicturesOf
<1>2. CASE t \in {SatTitles[k] : k \in 1 .. SatColors}
  BY <1>2, Saturations, SizesAssumption
<1> QED
  BY <1>1, <1>2 DEF Titles

\* A part of a series shows the pictures of its title, all of them.
PartFits(p) ==
  /\ p.title \in Titles /\ p.title # "menu"
  /\ p.size \in Nat \ {0} /\ p.size = PicturesOf(p.title)
  /\ p.lead \in 0 .. p.size

SeriesFits(s) ==
  /\ s # <<>> /\ Len(s) \in Nat \ {0}
  /\ \A k \in 1 .. Len(s) : PartFits(s[k])

LEMMA Series ==
  ASSUME NEW s \in AllSeries
  PROVE  SeriesFits(s)
<1> USE SizesAssumption DEF SeriesFits, PartFits, Part, ColorPart
<1>1. CASE s \in {MeasureGrayScale, MeasureGrayScaleAndColors, MeasureNearBlackScale,
                  MeasureCC24SatScale, MeasureMCD, MeasurePrimaries, MeasureSecondaries}
  <2> USE DEF Titles, PicturesOf
  <2>1. CASE s = MeasureGrayScale
    BY <2>1 DEF MeasureGrayScale
  <2>2. CASE s = MeasureGrayScaleAndColors
    <3>1. Len(s) = 2 /\ s # <<>>
      BY <2>2 DEF MeasureGrayScaleAndColors
    <3>2. /\ s[1].title = "grays" /\ s[1].size = Grays /\ s[1].lead = 0
          /\ s[2].title = "secondaries" /\ s[2].size = Colors /\ s[2].lead = 0
      BY <2>2 DEF MeasureGrayScaleAndColors
    <3>3. PartFits(s[1]) /\ PartFits(s[2])
      BY <3>2
    <3> QED
      BY <3>1, <3>3
  <2>3. CASE s = MeasureNearBlackScale
    BY <2>3 DEF MeasureNearBlackScale
  <2>4. CASE s = MeasureCC24SatScale
    BY <2>4 DEF MeasureCC24SatScale
  <2>7. CASE s = MeasureMCD
    BY <2>7 DEF MeasureMCD
  <2>5. CASE s = MeasurePrimaries
    <3>1. Len(s) = 1 /\ s # <<>>
      BY <2>5 DEF MeasurePrimaries
    <3>2. s[1].title = "primaries" /\ s[1].size = Colors /\ s[1].lead = 0
      BY <2>5 DEF MeasurePrimaries
    <3>3. PartFits(s[1])
      BY <3>2
    <3> QED
      BY <3>1, <3>3
  <2>6. CASE s = MeasureSecondaries
    <3>1. Len(s) = 1 /\ s # <<>>
      BY <2>6 DEF MeasureSecondaries
    <3>2. s[1].title = "secondaries" /\ s[1].size = Colors /\ s[1].lead = 0
      BY <2>6 DEF MeasureSecondaries
    <3>3. PartFits(s[1])
      BY <3>2
    <3> QED
      BY <3>1, <3>3
  <2> QED
    BY <1>1, <2>1, <2>2, <2>3, <2>4, <2>5, <2>6, <2>7
<1>2. CASE s = MeasurePrimarySecondarySaturationScales
  <2>1. Len(s) = SatColors
    BY <1>2 DEF MeasurePrimarySecondarySaturationScales, SatTitles
  <2>2. SatColors \in Nat \ {0}
    BY DEF SatTitles
  <2>3. \A k \in 1 .. SatColors : s[k].title = SatTitles[k] /\ s[k].size = Levels
                                 /\ s[k].lead = 0
    BY <1>2 DEF MeasurePrimarySecondarySaturationScales
  <2> QED
    BY <2>1, <2>2, <2>3, Saturations
<1>3. CASE \E k \in 1 .. SatColors : s = MeasureSatScale(k)
  <2>1. PICK k \in 1 .. SatColors : s = MeasureSatScale(k)
    BY <1>3
  <2> QED
    BY <2>1, Saturations DEF MeasureSatScale
<1> QED
  BY <1>1, <1>2, <1>3 DEF AllSeries

\* The player: a code for the next chapter leads to the next picture, or to the menu.
LEMMA Pics ==
  /\ Menu \in Pictures
  /\ \A t \in Titles : \A k \in 0 .. PicturesOf(t) - 1 :
       Picture(t, k) \in Pictures /\ Picture(t, k) # Menu
  /\ \A p \in Pictures : p = Menu \/
       \E t \in Titles : \E k \in 0 .. PicturesOf(t) - 1 : p = Picture(t, k)
<1>1. \A t \in Titles : \A k \in 0 .. PicturesOf(t) - 1 : Picture(t, k) # Menu
  BY TitlesHavePictures DEF Menu, Picture
<1>2. \A t \in Titles : \A k \in 0 .. PicturesOf(t) - 1 : Picture(t, k) \in Pictures
  BY DEF Pictures
<1>3. \A p \in Pictures : p = Menu \/
        \E t \in Titles : \E k \in 0 .. PicturesOf(t) - 1 : p = Picture(t, k)
  BY DEF Pictures
<1> QED
  BY <1>1, <1>2, <1>3 DEF Pictures

LEMMA AfterPicture ==
  ASSUME NEW t \in Titles, NEW k \in 0 .. PicturesOf(t) - 1, NEW n \in Nat
  PROVE  After(Picture(t, k), n) =
           IF k + n < PicturesOf(t) THEN Picture(t, k + n) ELSE Menu
<1>1. PicturesOf(t) \in Nat /\ t # "menu"
  BY TitlesHavePictures
<1>2. /\ Picture(t, k) # Menu
      /\ Picture(t, k).at = k /\ Picture(t, k).title = t
      /\ [Picture(t, k) EXCEPT !.at = k + n] = Picture(t, k + n)
  BY <1>1 DEF Picture, Menu
<1> QED
  BY <1>1, <1>2 DEF After

LEMMA AfterStays ==
  ASSUME NEW p \in Pictures, NEW n \in Nat
  PROVE  After(p, n) \in Pictures
<1>1. CASE p = Menu
  BY <1>1, Pics DEF After
<1>2. CASE \E t \in Titles : \E k \in 0 .. PicturesOf(t) - 1 : p = Picture(t, k)
  <2>0. PICK t \in Titles : \E k \in 0 .. PicturesOf(t) - 1 : p = Picture(t, k)
    BY <1>2
  <2>1. PICK k \in 0 .. PicturesOf(t) - 1 : p = Picture(t, k)
    BY <2>0
  <2>2. PicturesOf(t) \in Nat
    BY TitlesHavePictures
  <2>3. k + n < PicturesOf(t) => k + n \in 0 .. PicturesOf(t) - 1
    BY <2>2
  <2> QED
    BY <2>1, <2>3, AfterPicture, Pics
<1> QED
  BY <1>1, <1>2, Pics

-----------------------------------------------------------------------------
\* Where a series is while it runs.
LEMMA AtPart ==
  ASSUME TypeOK, series # <<>>
  PROVE  /\ part \in 1 .. Len(series) /\ Len(series) \in Nat \ {0}
         /\ i \in 0 .. Here.size - 1 /\ Here.size \in Nat \ {0}
         /\ Here.title \in Titles /\ Here.size = PicturesOf(Here.title)
         /\ \A k \in 0 .. Here.size - 1 : Shown(k) \in Pictures
<1>1. SeriesFits(series)
  BY Series DEF TypeOK
<1>2. part \in 1 .. Len(series) /\ i \in 0 .. Here.size - 1
  BY DEF TypeOK
<1>3. PartFits(Here)
  BY <1>1, <1>2 DEF SeriesFits, Here
<1> QED
  BY <1>1, <1>2, <1>3, Pics DEF SeriesFits, PartFits, Shown

\* What is wrong with a series stays wrong.
LEMMA MisledStays ==
  ASSUME incidents \subseteq incidents', ~Misled'
  PROVE  ~Misled
BY DEF Misled

LEMMA Counted == nbNext \in Nat => CountDown \in Nat
BY DEF CountDown

LEMMA NbMeasures ==
  ASSUME NEW s \in AllSeries
  PROVE  NbMeasure(s) \in Nat
<1>1. s[1].size \in Nat
  BY Series DEF SeriesFits, PartFits
<1>2. Grays + Colors \in Nat /\ Levels * SatColors \in Nat
  BY SizesAssumption DEF SatTitles
<1> QED
  BY <1>1, <1>2 DEF NbMeasure

LEMMA EmptyMeasures == DOMAIN <<>> = 1 .. Len(<<>>)
OBVIOUS

\* A series that is given up leaves its devices released.
LEMMA Cancelled ==
  ASSUME TypeOK, NEW n \in Nat, NEW what \in SUBSET Incidents,
         Cancel(n, what), UNCHANGED checkVars
  PROVE  SafetyInv'
<1> USE DEF Cancel, Forget, Release, ReleaseGenerator
<1>1. player' \in Pictures /\ incidents' \subseteq Incidents
  <2>1. PICK received \in 0 .. n + 1 :
          /\ player' = After(player, received)
          /\ incidents' = incidents \union what \union
               (IF received = n + 1 THEN {} ELSE {"lostRelease"})
    OBVIOUS
  <2>2. received \in Nat /\ player \in Pictures
    BY DEF TypeOK
  <2> QED
    BY <2>1, <2>2, AfterStays DEF TypeOK, Incidents
<1>2. pc' = "cancelled" /\ series' = <<>>
  OBVIOUS
<1>3. TypeOK'
  <2>1. /\ measured' = <<>> /\ series' = <<>> /\ pc' = "cancelled" /\ retries' = 0
        /\ {bRetry', generator', sensor', beforeFirst'} \subseteq BOOLEAN /\ nbNext' = 0
    OBVIOUS
  <2>2. /\ lastColor' \in Values
        /\ patternRetry' \in 0 .. RetryByPattern /\ totalRetry' \in 0 .. RetryBySeries
    BY DEF TypeOK, checkVars
  <2>3. 0 \in 0 .. MaxRetries
    BY RetriesAssumption
  <2> QED
    BY <1>1, <2>1, <2>2, <2>3, EmptyMeasures DEF TypeOK, Running
<1>4. DevicesReleased' /\ Control'
  BY <1>2 DEF DevicesReleased, Control, Running
<1>5. InStep'
  BY <1>2 DEF InStep
<1> QED
  BY <1>3, <1>4, <1>5 DEF SafetyInv

LEMMA InitSafe == Init => SafetyInv
<1> SUFFICES ASSUME Init PROVE SafetyInv
  OBVIOUS
<1> USE DEF Init
<1>1. TypeOK
  <2>1. 0 \in 0 .. MaxRetries /\ 0 \in 0 .. RetryByPattern /\ 0 \in 0 .. RetryBySeries
    BY RetriesAssumption
  <2> QED
    BY Pics, EmptyMeasures, <2>1 DEF TypeOK, Incidents, Running, Values
<1>2. DevicesReleased /\ Control /\ InStep
  BY DEF DevicesReleased, Control, InStep, Running
<1> QED
  BY <1>1, <1>2 DEF SafetyInv

\* A series begins with its devices initialised and nothing measured.
LEMMA StartSafe ==
  ASSUME SafetyInv, NEW s \in AllSeries, Start(s)
  PROVE  SafetyInv'
<1> USE DEF Start
<1>1. SeriesFits(s)
  BY Series
<1>2. /\ pc' = "display" /\ series' = s /\ part' = 1 /\ beforeFirst' /\ ~bRetry'
      /\ generator' /\ sensor' /\ Here' = s[1]
  BY DEF InitGenerator, Here
<1>3. 1 \in 1 .. Len(s) /\ s[1].size \in Nat \ {0}
  BY <1>1 DEF SeriesFits, PartFits
<1>4. i' \in 0 .. s[1].size - 1
  BY <1>3
<1>5. NoColor \in Values
  BY DEF Values
<1>6. TypeOK'
  <2>1. /\ nbNext' \in Nat /\ patternRetry' \in 0 .. RetryByPattern
        /\ totalRetry' \in 0 .. RetryBySeries /\ retries' \in 0 .. MaxRetries
    BY NbMeasures, RetriesAssumption DEF InitGenerator
  <2>2. incidents' \subseteq Incidents
    BY DEF Incidents
  <2>3. /\ DOMAIN measured' = 1 .. Len(s)
        /\ \A k \in 1 .. Len(s) : measured'[k] \in [0 .. s[k].size - 1 -> Values]
    BY <1>5
  <2>4. s # <<>>
    BY <1>1 DEF SeriesFits
  <2> QED
    BY <1>2, <1>3, <1>4, <2>1, <2>2, <2>3, <2>4 DEF SafetyInv, TypeOK, Running
<1>7. DevicesReleased' /\ Control'
  BY <1>2 DEF DevicesReleased, Control, Running
<1>8. InStep'
  <2> SUFFICES ASSUME ~Misled' PROVE
        /\ i' = 0
        /\ \A k \in 1 .. Len(s) : \A m \in 0 .. s[k].size - 1 : ~Measured(k, m)'
    BY <1>2 DEF InStep
  <2>1. i' = 0
    BY DEF Misled, Misleading
  <2> QED
    BY <1>1, <1>2, <2>1 DEF Measured, SeriesFits, PartFits
<1> QED
  BY <1>6, <1>7, <1>8 DEF SafetyInv

\* A series that is refused leaves nothing initialised but what it may.
LEMMA RefusedSafe ==
  ASSUME SafetyInv, NEW s \in AllSeries, Refused(s)
  PROVE  SafetyInv'
<1> USE DEF Refused
<1>1. /\ pc = "idle" /\ pc' = pc /\ series = <<>>
      /\ UNCHANGED <<series, part, i, bRetry, retries, measured, lastColor>>
  BY DEF seriesVars, SafetyInv, TypeOK
<1>2. /\ nbNext' \in Nat /\ {generator', sensor', beforeFirst'} \subseteq BOOLEAN
      /\ player' \in Pictures /\ incidents' \subseteq Incidents
      /\ patternRetry' \in 0 .. RetryByPattern /\ totalRetry' \in 0 .. RetryBySeries
      /\ ~generator' /\ (sensor' => "leftReady" \in incidents')
  <2>1. ~generator /\ (sensor => "leftReady" \in incidents)
    BY <1>1 DEF SafetyInv, DevicesReleased, Running
  <2>2. CASE InitGenerator(s) /\ UNCHANGED <<devices, player, incidents>>
    BY <2>1, <2>2, NbMeasures, RetriesAssumption DEF InitGenerator, devices, SafetyInv, TypeOK
  <2>3. CASE /\ patternRetry' = RetryByPattern /\ totalRetry' = RetryBySeries
             /\ \/ ReleaseGenerator(NbMeasure(s), {}) /\ UNCHANGED sensor
                \/ Release(NbMeasure(s), {})
                \/ /\ s[1].title = "checker"
                   /\ ReleaseGenerator(NbMeasure(s), {"leftReady"}) /\ sensor' = TRUE
    <3>0. PICK what \in {{}, {"leftReady"}} :
            /\ ReleaseGenerator(NbMeasure(s), what)
            /\ sensor' = sensor \/ sensor' = FALSE \/ (sensor' = TRUE /\ "leftReady" \in what)
      BY <2>3 DEF Release
    <3>1. PICK received \in 0 .. NbMeasure(s) + 1 :
            /\ player' = After(player, received)
            /\ incidents' = incidents \union what \union
                 (IF received = NbMeasure(s) + 1 THEN {} ELSE {"lostRelease"})
      BY <3>0 DEF ReleaseGenerator
    <3>2. received \in Nat /\ player \in Pictures
      BY NbMeasures DEF SafetyInv, TypeOK
    <3>3. player' \in Pictures /\ incidents' \subseteq Incidents
      BY <3>1, <3>2, AfterStays DEF SafetyInv, TypeOK, Incidents
    <3>4. nbNext' = 0 /\ ~beforeFirst' /\ ~generator'
          /\ {generator', sensor', beforeFirst'} \subseteq BOOLEAN
      BY <3>0 DEF ReleaseGenerator, SafetyInv, TypeOK
    <3>5. sensor' => "leftReady" \in incidents'
      BY <2>1, <3>0, <3>1
    <3> QED
      BY <2>3, <3>3, <3>4, <3>5, RetriesAssumption
  <2> QED
    BY <2>2, <2>3
<1>3. TypeOK'
  BY <1>1, <1>2 DEF SafetyInv, TypeOK, Running, Here
<1>4. DevicesReleased' /\ Control'
  BY <1>1, <1>2 DEF DevicesReleased, Control, Running
<1>5. InStep'
  BY <1>1 DEF InStep
<1> QED
  BY <1>3, <1>4, <1>5 DEF SafetyInv
-----------------------------------------------------------------------------
\* The colours of the pictures are values.
LEMMA Colours ==
  /\ Invalid \in Values
  /\ \A p \in Pictures : Color(p) \in Values /\ Color(p) \in Colored
BY DEF Values, Colored

\* Each pattern has a cell of its own.
LEMMA Cells ==
  ASSUME NEW p, PartFits(p), NEW m \in 0 .. p.size - 1
  PROVE  /\ Cell(p, m) \in 0 .. p.size - 1
         /\ p.lead = 0 => Cell(p, m) = m
         /\ \A n \in 0 .. p.size - 1 : n # m => Cell(p, n) # Cell(p, m)
BY DEF Cell, PartFits

\* What a measure stores is in the cell of its pattern, and the rest stays.
LEMMA Stored ==
  ASSUME TypeOK, series # <<>>, NEW c \in Values, Store(c)
  PROVE  /\ DOMAIN measured' = 1 .. Len(series)
         /\ \A k \in 1 .. Len(series) : measured'[k] \in [0 .. series[k].size - 1 -> Values]
         /\ measured'[part][Cell(Here, i)] = c
         /\ \A k \in 1 .. Len(series) : \A m \in 0 .. series[k].size - 1 :
              (k # part \/ m # i) =>
                measured'[k][Cell(series[k], m)] = measured[k][Cell(series[k], m)]
<1> DEFINE j == Cell(Here, i)
<1>0. /\ SeriesFits(series) /\ \A k \in 1 .. Len(series) : PartFits(series[k])
      /\ Here = series[part]
  BY Series DEF TypeOK, SeriesFits, Here
<1>1. /\ DOMAIN measured = 1 .. Len(series) /\ part \in 1 .. Len(series)
      /\ \A k \in 1 .. Len(series) : measured[k] \in [0 .. series[k].size - 1 -> Values]
  BY DEF TypeOK
<1>2. i \in 0 .. series[part].size - 1 /\ j \in 0 .. series[part].size - 1
  BY <1>0, <1>1, AtPart, Cells DEF Here
<1>3. measured' = [measured EXCEPT ![part] = [measured[part] EXCEPT ![j] = c]]
  BY DEF Store
<1> HIDE DEF j
<1>4. /\ DOMAIN measured' = 1 .. Len(series)
      /\ measured'[part] = [measured[part] EXCEPT ![j] = c]
      /\ \A k \in 1 .. Len(series) : k # part => measured'[k] = measured[k]
  BY <1>1, <1>3
<1>5. /\ measured'[part] \in [0 .. series[part].size - 1 -> Values]
      /\ measured'[part][j] = c
      /\ \A m \in 0 .. series[part].size - 1 : m # j => measured'[part][m] = measured[part][m]
  BY <1>1, <1>2, <1>4
<1>6. ASSUME NEW m \in 0 .. series[part].size - 1, m # i
      PROVE  Cell(series[part], m) \in 0 .. series[part].size - 1 /\ Cell(series[part], m) # j
  BY <1>0, <1>1, <1>2, <1>6, Cells DEF j
<1>7. measured'[part][Cell(Here, i)] = c
  BY <1>5 DEF j
<1>8. ASSUME NEW k \in 1 .. Len(series), NEW m \in 0 .. series[k].size - 1, k # part \/ m # i
      PROVE  measured'[k][Cell(series[k], m)] = measured[k][Cell(series[k], m)]
  <2>1. CASE k = part
    BY <1>5, <1>6, <1>8, <2>1
  <2>2. CASE k # part
    BY <1>4, <2>2
  <2> QED
    BY <2>1, <2>2
<1> QED
  BY <1>1, <1>4, <1>5, <1>7, <1>8

\* The check is given the measure itself, unless the measures are stored out of order.
LEMMA InOrder ==
  ASSUME TypeOK, series # <<>>
  PROVE  Compared \in Values /\ (Here.lead = 0 => Compared = Color(player))
<1>1. /\ PartFits(Here) /\ part \in 1 .. Len(series) /\ i \in 0 .. Here.size - 1
  BY AtPart, Series DEF TypeOK, SeriesFits, Here
<1>2. measured[part][i] \in Values /\ Color(player) \in Values
  BY <1>1, Colours DEF TypeOK, Here
<1> QED
  BY <1>1, <1>2, Cells DEF Compared

\* The series goes on to a pattern that it has.
LEMMA NextExists ==
  ASSUME SafetyInv, pc = "measure", NextPattern
  PROVE  /\ pc' \in {"display", "change", "end"} /\ series' = series /\ part' = part
         /\ ~bRetry' /\ bRetry' \in BOOLEAN /\ retries' = retries /\ Here' = Here
         /\ i' \in 0 .. Here.size - 1
         /\ pc' = "display" => i' = i + 1
         /\ pc' \in {"change", "end"} => i' = i /\ i = Here.size - 1
         /\ pc' = "change" => part < Len(series)
         /\ pc' = "end" => part = Len(series)
<1>1. series # <<>>
  BY DEF SafetyInv, TypeOK, Running
<1>2. /\ part \in 1 .. Len(series) /\ Len(series) \in Nat
      /\ i \in 0 .. Here.size - 1 /\ Here.size \in Nat \ {0}
  BY <1>1, AtPart DEF SafetyInv
<1>3. series' = series /\ part' = part /\ ~bRetry' /\ bRetry' \in BOOLEAN /\ retries' = retries
      /\ Here' = Here
  BY DEF NextPattern, Here
<1>4. CASE i + 1 < Here.size
  BY <1>2, <1>3, <1>4 DEF NextPattern
<1>5. CASE ~(i + 1 < Here.size)
  BY <1>2, <1>3, <1>5 DEF NextPattern
<1> QED
  BY <1>4, <1>5

\* A pass that ends well leaves the loop, and what it has measured, in step.
LEMMA Advances ==
  ASSUME SafetyInv, pc = "measure", NextPattern, NEW c \in Values, Store(c),
         UNCHANGED <<beforeFirst, player>>, incidents \subseteq incidents', ~Misled',
         player = Shown(i),
         c = Color(Shown(i)) \/ (c = Invalid /\ "ignored" \in incidents'),
         "ignored" \notin incidents' /\ Here.lead = 0 => lastColor' = Color(Shown(i))
  PROVE  InStep'
<1>1. series # <<>> /\ TypeOK /\ ~beforeFirst
  BY DEF SafetyInv, TypeOK, Running, Control
<1>2. /\ part \in 1 .. Len(series) /\ Len(series) \in Nat
      /\ i \in 0 .. Here.size - 1 /\ Here.size \in Nat \ {0}
  BY <1>1, AtPart
<1>3. ~Misled
  BY MisledStays
<1>4. /\ pc' \in {"display", "change", "end"} /\ series' = series /\ part' = part
      /\ ~bRetry' /\ Here' = Here /\ ~beforeFirst'
      /\ pc' = "display" => i' = i + 1
      /\ pc' \in {"change", "end"} => i' = i /\ i = Here.size - 1
  BY <1>1, NextExists
<1>5. ASSUME NEW k \in 1 .. Len(series), NEW m \in 0 .. series[k].size - 1, Measured(k, m)'
      PROVE  HasItsColor(k, m)'
  <2>1. CASE k = part /\ m = i
    <3>1. measured'[k][Cell(series[k], m)] = c
      BY <1>1, <2>1, Stored DEF Here
    <3> QED
      BY <1>4, <2>1, <3>1 DEF HasItsColor, Shown, Here
  <2>2. CASE k # part \/ m # i
    <3>1. Measured(k, m)
      <4>1. CASE k = part
        <5>1. m \in 0 .. Here.size - 1 /\ m # i
          BY <2>2, <4>1 DEF Here
        <5>2. m < i' \/ pc' \in {"change", "end"}
          BY <1>2, <1>4, <1>5, <4>1 DEF Measured
        <5>3. m < i
          BY <1>2, <1>4, <5>1, <5>2
        <5> QED
          BY <4>1, <5>3 DEF Measured
      <4>2. CASE k # part
        BY <1>2, <1>4, <1>5, <4>2 DEF Measured
      <4> QED
        BY <4>1, <4>2
    <3>2. measured'[k][Cell(series[k], m)] = measured[k][Cell(series[k], m)]
      BY <1>1, <1>5, <2>2, Stored
    <3>3. HasItsColor(k, m)
      BY <1>1, <1>3, <1>5, <3>1 DEF SafetyInv, InStep
    <3> QED
      BY <1>4, <3>2, <3>3 DEF HasItsColor
  <2> QED
    BY <2>1, <2>2
<1>6. \A k : Shown(k)' = Shown(k)
  BY <1>4 DEF Shown
<1>7. pc' = "display" => i' > 0 /\ i' - 1 = i
  BY <1>2, <1>4
<1>8. ChangePattern'
  BY <1>4 DEF ChangePattern
<1>9. player' = player /\ lastColor' = lastColor' /\ pc' # "measure"
  BY <1>4
<1> QED
  BY <1>4, <1>5, <1>6, <1>7, <1>8, <1>9 DEF InStep

\* A pass that is repeated keeps what the passes before it have measured.
LEMMA Repeats ==
  ASSUME SafetyInv, pc = "measure", SamePattern, NEW c \in Values, Store(c),
         incidents \subseteq incidents', ~Misled'
  PROVE  \A k \in 1 .. Len(series) : \A m \in 0 .. series[k].size - 1 :
           Measured(k, m)' => HasItsColor(k, m)'
<1> SUFFICES ASSUME NEW k \in 1 .. Len(series), NEW m \in 0 .. series[k].size - 1,
                    Measured(k, m)'
             PROVE  HasItsColor(k, m)'
  OBVIOUS
<1>1. series # <<>> /\ TypeOK
  BY DEF SafetyInv, TypeOK, Running
<1>2. i \in Nat /\ part \in Nat /\ k \in Nat
  <2>1. i \in 0 .. Here.size - 1 /\ Here.size \in Nat /\ part \in 1 .. Len(series)
        /\ Len(series) \in Nat
    BY <1>1, AtPart
  <2> QED
    BY <2>1
<1>3. Measured(k, m) /\ (k # part \/ m # i)
  BY <1>2 DEF Measured, SamePattern
<1>4. measured'[k][Cell(series[k], m)] = measured[k][Cell(series[k], m)]
  BY <1>1, <1>3, Stored
<1>5. HasItsColor(k, m)
  BY <1>1, <1>3, MisledStays DEF SafetyInv, InStep
<1> QED
  BY <1>4, <1>5 DEF HasItsColor, SamePattern

-----------------------------------------------------------------------------
\* The pattern is displayed, or its code is lost where the check finds it out.
LEMMA DisplayShows ==
  ASSUME SafetyInv, Display
  PROVE  /\ player' \in Pictures /\ incidents' \subseteq Incidents /\ incidents \subseteq incidents'
         /\ ~Misled' => ~Misled
         /\ ~Misled' =>
              \/ player' = Shown(i)
              \/ ("lost" \in incidents' /\ i > 0 /\ Verified /\ player' = Shown(i - 1))
<1>1. /\ pc = "display" /\ pc' = "measure" /\ beforeFirst' = FALSE /\ nbNext' = CountDown
      /\ UNCHANGED <<series, part, i, bRetry, retries, measured, generator, sensor>>
      /\ UNCHANGED <<patternRetry, totalRetry, lastColor>>
      /\ Here' = Here /\ series # <<>> /\ TypeOK
  BY DEF Display, seriesVars, devices, checkVars, Here, SafetyInv, TypeOK, Running
<1>2. /\ i \in 0 .. Here.size - 1 /\ Here.size \in Nat \ {0}
      /\ Here.title \in Titles /\ Here.size = PicturesOf(Here.title)
      /\ \A k \in 0 .. Here.size - 1 : Shown(k) \in Pictures
  BY <1>1, AtPart
<1>3. CASE beforeFirst /\ OpenTitle
  <2>1. 0 \in 0 .. Here.size - 1 /\ Picture(Here.title, 0) \in Pictures
    BY <1>2 DEF Shown
  <2>2. \A t \in Titles : Picture(t, 0) \in Pictures
    BY TitlesHavePictures, Pics
  <2>3. player \in Pictures /\ Menu \in Pictures
    BY <1>1, Pics DEF TypeOK
  <2>4. player' \in Pictures
    BY <1>3, <2>1, <2>2, <2>3 DEF OpenTitle
  <2>5. incidents' \subseteq Incidents /\ incidents \subseteq incidents'
    BY <1>1, <1>3 DEF OpenTitle, TypeOK, Incidents
  <2>6. ~Misled' => ~Misled
    BY <2>5, MisledStays
  <2>7. ~Misled' => player' = Shown(i)
    <3> SUFFICES ASSUME ~Misled' PROVE player' = Shown(i)
      OBVIOUS
    <3>1. "lostNavigation" \notin incidents'
      BY DEF Misled, Misleading
    <3>2. i = 0 /\ (part = 1 \/ player = Menu)
      BY <1>1, <1>3, <2>6 DEF SafetyInv, InStep
    <3> QED
      BY <1>3, <3>1, <3>2 DEF OpenTitle, Shown
  <2> QED
    BY <2>4, <2>5, <2>6, <2>7
<1>4. CASE ~beforeFirst /\ ChangePattern /\ NextPicture
  <2>1. player' \in Pictures
    BY <1>1, <1>4, AfterStays DEF NextPicture, TypeOK
  <2>2. incidents' \subseteq Incidents /\ incidents \subseteq incidents'
    BY <1>1, <1>4 DEF NextPicture, TypeOK, Incidents
  <2>3. ~Misled' => ~Misled
    BY <2>2, MisledStays
  <2>4. ASSUME ~Misled'
        PROVE  \/ player' = Shown(i)
               \/ ("lost" \in incidents' /\ i > 0 /\ Verified /\ player' = Shown(i - 1))
    <3>1. i > 0 /\ player = Shown(i - 1)
      BY <1>1, <1>4, <2>3, <2>4 DEF SafetyInv, InStep
    <3>2. "unchecked" \notin incidents'
      BY <2>4 DEF Misled, Misleading
    <3>3. CASE player' = After(player, 1)
      <4>1. i - 1 \in 0 .. PicturesOf(Here.title) - 1 /\ i - 1 + 1 = i
            /\ i < PicturesOf(Here.title)
        BY <1>2, <3>1
      <4>2. After(Shown(i - 1), 1) = Shown(i)
        BY <1>2, <4>1, AfterPicture DEF Shown
      <4> QED
        BY <3>1, <3>3, <4>2
    <3>4. CASE UNCHANGED player /\ incidents' = incidents \union
                 {IF Verified THEN "lost" ELSE "unchecked"}
      BY <3>1, <3>2, <3>4
    <3> QED
      BY <1>4, <3>3, <3>4 DEF NextPicture
  <2> QED
    BY <2>1, <2>2, <2>3, <2>4
<1>5. CASE ~beforeFirst /\ ~ChangePattern /\ SamePicture
  <2>1. player' = player /\ incidents' = incidents
    BY <1>5 DEF SamePicture
  <2>2. ~Misled' => ~Misled
    BY <2>1, MisledStays
  <2>3. ~Misled => AtPattern
    BY <1>1, <1>5 DEF SafetyInv, InStep
  <2> QED
    BY <1>1, <2>1, <2>2, <2>3 DEF AtPattern, TypeOK
<1> QED
  BY <1>3, <1>4, <1>5 DEF Display

\* The rest of that step.
LEMMA DisplaySafe ==
  ASSUME SafetyInv, Display
  PROVE  SafetyInv'
<1>1. /\ pc = "display" /\ pc' = "measure" /\ beforeFirst' = FALSE /\ nbNext' = CountDown
      /\ UNCHANGED <<series, part, i, bRetry, retries, measured, generator, sensor>>
      /\ UNCHANGED <<patternRetry, totalRetry, lastColor>>
      /\ Here' = Here /\ series # <<>> /\ TypeOK
  BY DEF Display, seriesVars, devices, checkVars, Here, SafetyInv, TypeOK, Running
<1>6. /\ player' \in Pictures /\ incidents' \subseteq Incidents /\ incidents \subseteq incidents'
      /\ ~Misled' => ~Misled
      /\ ~Misled' =>
           \/ player' = Shown(i)
           \/ ("lost" \in incidents' /\ i > 0 /\ Verified /\ player' = Shown(i - 1))
  BY DisplayShows
<1>7. TypeOK'
  BY <1>1, <1>6, Counted DEF TypeOK, Running
<1>8. DevicesReleased' /\ Control'
  BY <1>1 DEF SafetyInv, DevicesReleased, Control, Running
<1>9. InStep'
  <2>1. \A k : Shown(k)' = Shown(k)
    BY <1>1 DEF Shown
  <2>2. \A k, m : Measured(k, m)' => Measured(k, m)
    BY <1>1 DEF Measured
  <2>3. ~Misled' => AtPattern'
    BY <1>1, <1>6, <2>1 DEF AtPattern, Verified
  <2>4. ASSUME ~Misled', i > 0, "ignored" \notin incidents', Here.lead = 0
        PROVE  lastColor' = Color(Shown(i - 1))
    BY <1>1, <1>6, <2>4 DEF SafetyInv, InStep
  <2>5. ASSUME ~Misled', NEW k \in 1 .. Len(series), NEW m \in 0 .. series[k].size - 1,
               Measured(k, m)'
        PROVE  HasItsColor(k, m)'
    <3>1. HasItsColor(k, m)
      BY <1>1, <1>6, <2>2, <2>5 DEF SafetyInv, InStep
    <3> QED
      BY <1>1, <1>6, <3>1 DEF HasItsColor
  <2> QED
    BY <1>1, <2>1, <2>3, <2>4, <2>5 DEF InStep
<1> QED
  BY <1>7, <1>8, <1>9 DEF SafetyInv

-----------------------------------------------------------------------------
\* The ways in which a series is given up.
LEMMA CancelSafe ==
  ASSUME SafetyInv, DisplayFails \/ Escape \/ Abort \/ ChangeFails
  PROVE  SafetyInv'
<1>1. TypeOK /\ nbNext \in Nat /\ CountDown \in Nat
  BY Counted DEF SafetyInv, TypeOK
<1>2. CASE DisplayFails
  <2>1. {"failed"} \in SUBSET Incidents
    BY DEF Incidents
  <2> QED
    BY <1>1, <1>2, <2>1, Cancelled DEF DisplayFails
<1>3. CASE Escape
  <2>1. series # <<>>
    BY <1>1, <1>3 DEF Escape, TypeOK, Running
  <2>2. Here.size - 1 - i \in Nat
    <3>1. i \in 0 .. Here.size - 1 /\ Here.size \in Nat
      BY <1>1, <2>1, AtPart
    <3> QED
      BY <3>1
  <2>3. (IF Here.restOnEscape THEN Here.size - 1 - i ELSE nbNext) \in Nat
    BY <1>1, <2>2
  <2> QED
    BY <1>1, <1>3, <2>3, Cancelled DEF Escape
<1>4. CASE Abort
  BY <1>1, <1>4, Cancelled DEF Abort
<1>5. CASE ChangeFails
  <2>1. {"failed"} \in SUBSET Incidents
    BY DEF Incidents
  <2> QED
    BY <1>1, <1>5, <2>1, Cancelled DEF ChangeFails
<1> QED
  BY <1>2, <1>3, <1>4, <1>5

\* What is measured is the colour of the picture that the player shows.
LEMMA Seen ==
  ASSUME TypeOK
  PROVE  Color(player) \in Values /\ Color(player) \in Colored
BY Colours DEF TypeOK

\* The pattern check finds no change and has the pattern displayed again: the
\* code for it was lost.
LEMMA PatternRetrySafe ==
  ASSUME SafetyInv, PatternRetry
  PROVE  SafetyInv'
<1>1. /\ pc = "measure" /\ pc' = "display" /\ bRetry' = FALSE
      /\ Store(Color(player)) /\ lastColor' = Compared /\ SamePattern
      /\ patternRetry > 0 /\ totalRetry > 0
      /\ patternRetry' = patternRetry - 1 /\ totalRetry' = totalRetry - 1
      /\ UNCHANGED <<series, part, i, retries, generator, sensor, beforeFirst, nbNext, player>>
      /\ Here' = Here /\ series # <<>> /\ TypeOK /\ ~beforeFirst
  BY DEF PatternRetry, SamePattern, devices, Here, SafetyInv, TypeOK, Running, Control
<1>2. incidents \subseteq incidents' /\ incidents' \subseteq Incidents
  BY <1>1 DEF PatternRetry, TypeOK, Incidents
<1>3. TypeOK'
  <2>1. patternRetry' \in 0 .. RetryByPattern /\ totalRetry' \in 0 .. RetryBySeries
    <3>1. patternRetry \in 0 .. RetryByPattern /\ totalRetry \in 0 .. RetryBySeries
      BY <1>1 DEF TypeOK
    <3> QED
      BY <1>1, <3>1, RetriesAssumption
  <2>2. /\ DOMAIN measured' = 1 .. Len(series)
        /\ \A k \in 1 .. Len(series) : measured'[k] \in [0 .. series[k].size - 1 -> Values]
    BY <1>1, Seen, Stored
  <2> QED
    BY <1>1, <1>2, <2>1, <2>2, InOrder DEF TypeOK, Running
<1>4. DevicesReleased' /\ Control'
  BY <1>1 DEF SafetyInv, DevicesReleased, Control, Running
<1>5. InStep'
  <2> SUFFICES ASSUME ~Misled' PROVE InStep'
    BY DEF InStep
  <2>1. ~Misled /\ "falseAlarm" \notin incidents'
    BY <1>2, MisledStays DEF Misled, Misleading
  <2>2. player # Shown(i)
    BY <2>1 DEF PatternRetry, Shown
  <2>3. i > 0 /\ player = Shown(i - 1)
    BY <1>1, <2>1, <2>2 DEF SafetyInv, InStep, AtPattern
  <2>4. \A k \in 1 .. Len(series) : \A m \in 0 .. series[k].size - 1 :
          Measured(k, m)' => HasItsColor(k, m)'
    BY <1>1, <1>2, Seen, Repeats
  <2>5. ChangePattern'
    BY <1>1 DEF ChangePattern
  <2>6. \A k : Shown(k)' = Shown(k)
    BY <1>1 DEF Shown
  <2>7. Here.lead = 0 => lastColor' = Color(Shown(i - 1))
    BY <1>1, <2>3, InOrder
  <2> QED
    BY <1>1, <2>3, <2>4, <2>5, <2>6, <2>7 DEF InStep
<1> QED
  BY <1>3, <1>4, <1>5 DEF SafetyInv

\* The pass is done.  Were the player one pattern behind, the check would have
\* been asked and would have found no change: it gave up.
LEMMA PatternDoneSafe ==
  ASSUME SafetyInv, PatternDone
  PROVE  SafetyInv'
<1>1. /\ pc = "measure" /\ NextPattern /\ Store(Color(player)) /\ lastColor' = Compared
      /\ UNCHANGED <<totalRetry, generator, sensor, beforeFirst, nbNext, player>>
      /\ series # <<>> /\ TypeOK /\ ~beforeFirst
  BY DEF PatternDone, devices, SafetyInv, TypeOK, Running, Control
<1>2. incidents \subseteq incidents' /\ incidents' \subseteq Incidents
  BY <1>1 DEF PatternDone, TypeOK, Incidents
<1>3. /\ pc' \in {"display", "change", "end"} /\ series' = series /\ part' = part
      /\ ~bRetry' /\ bRetry' \in BOOLEAN /\ retries' = retries /\ Here' = Here
      /\ i' \in 0 .. Here.size - 1
      /\ pc' \in {"change", "end"} => i' = Here.size - 1
      /\ pc' = "change" => part < Len(series)
      /\ pc' = "end" => part = Len(series)
  BY <1>1, NextExists
<1>4. TypeOK'
  <2>1. patternRetry' \in 0 .. RetryByPattern
    BY <1>1, RetriesAssumption DEF PatternDone, TypeOK
  <2>2. /\ DOMAIN measured' = 1 .. Len(series)
        /\ \A k \in 1 .. Len(series) : measured'[k] \in [0 .. series[k].size - 1 -> Values]
    BY <1>1, Seen, Stored
  <2> QED
    BY <1>1, <1>2, <1>3, <2>1, <2>2, InOrder DEF TypeOK, Running
<1>5. DevicesReleased' /\ Control'
  BY <1>1, <1>3 DEF SafetyInv, DevicesReleased, Control, Running
<1>6. InStep'
  <2> SUFFICES ASSUME ~Misled' PROVE InStep'
    BY DEF InStep
  <2>1. ~Misled /\ "gaveUp" \notin incidents' /\ ~({"lost", "ignored"} \subseteq incidents')
    BY <1>2, MisledStays DEF Misled, Misleading
  <2>2. ~(CheckIsAsked /\ Unchanged)
    BY <2>1 DEF PatternDone
  <2>3. player = Shown(i)
    <3> SUFFICES ASSUME "lost" \in incidents, i > 0, Verified,
                        player = Shown(i - 1)
                 PROVE  FALSE
      BY <1>1, <2>1 DEF SafetyInv, InStep, AtPattern
    <3>1. "ignored" \notin incidents
      BY <1>2, <2>1
    <3>2. lastColor = Color(Shown(i - 1))
      BY <1>1, <2>1, <3>1 DEF SafetyInv, InStep, Verified
    <3> QED
      BY <1>1, <2>2, <3>2, InOrder DEF CheckIsAsked, Unchanged, Verified
  <2>4. "ignored" \notin incidents' /\ Here.lead = 0 => lastColor' = Color(Shown(i))
    BY <1>1, <2>3, InOrder
  <2> QED
    BY <1>1, <1>2, <2>3, <2>4, Seen, Advances
<1> QED
  BY <1>4, <1>5, <1>6 DEF SafetyInv

\* The user has the measure repeated, of the same pattern.
LEMMA RetrySafe ==
  ASSUME SafetyInv, Retry
  PROVE  SafetyInv'
<1>1. /\ pc = "measure" /\ pc' = "display" /\ bRetry' = TRUE
      /\ Store(Invalid) /\ SamePattern /\ retries < MaxRetries /\ retries' = retries + 1
      /\ UNCHANGED <<series, part, i, generator, sensor, beforeFirst, nbNext, player>>
      /\ UNCHANGED <<patternRetry, totalRetry, lastColor>>
      /\ Here' = Here /\ series # <<>> /\ TypeOK /\ ~beforeFirst
  BY DEF Retry, SamePattern, devices, checkVars, Here, SafetyInv, TypeOK, Running, Control
<1>2. incidents \subseteq incidents' /\ incidents' \subseteq Incidents
  BY <1>1 DEF Retry, TypeOK, Incidents
<1>3. TypeOK'
  <2>1. retries' \in 0 .. MaxRetries
    <3>1. retries \in 0 .. MaxRetries
      BY <1>1 DEF TypeOK
    <3> QED
      BY <1>1, <3>1, RetriesAssumption
  <2>2. /\ DOMAIN measured' = 1 .. Len(series)
        /\ \A k \in 1 .. Len(series) : measured'[k] \in [0 .. series[k].size - 1 -> Values]
    BY <1>1, Colours, Stored
  <2> QED
    BY <1>1, <1>2, <2>1, <2>2 DEF TypeOK, Running
<1>4. DevicesReleased' /\ Control'
  BY <1>1 DEF SafetyInv, DevicesReleased, Control, Running
<1>5. InStep'
  <2> SUFFICES ASSUME ~Misled' PROVE InStep'
    BY DEF InStep
  <2>1. ~Misled /\ "advanced" \notin incidents'
    BY <1>2, MisledStays DEF Misled, Misleading
  <2>2. Here.honoursRetry
    BY <2>1 DEF Retry
  <2>3. AtPattern /\ AtPattern'
    <3>1. AtPattern
      BY <1>1, <2>1 DEF SafetyInv, InStep
    <3> QED
      BY <1>1, <1>2, <3>1 DEF AtPattern, Shown, Verified
  <2>4. \A k \in 1 .. Len(series) : \A m \in 0 .. series[k].size - 1 :
          Measured(k, m)' => HasItsColor(k, m)'
    BY <1>1, <1>2, Colours, Repeats
  <2>5. ~ChangePattern'
    BY <1>1, <2>2 DEF ChangePattern
  <2>6. \A k : Shown(k)' = Shown(k)
    BY <1>1 DEF Shown
  <2>7. i > 0 /\ "ignored" \notin incidents' /\ Here.lead = 0 =>
          lastColor' = Color(Shown(i - 1))
    BY <1>1, <1>2, <2>1 DEF SafetyInv, InStep
  <2> QED
    BY <1>1, <2>3, <2>4, <2>5, <2>6, <2>7 DEF InStep
<1> QED
  BY <1>3, <1>4, <1>5 DEF SafetyInv

\* The user goes on without the measure.
LEMMA IgnoreSafe ==
  ASSUME SafetyInv, Ignore
  PROVE  SafetyInv'
<1>1. /\ pc = "measure" /\ NextPattern /\ Store(Invalid)
      /\ UNCHANGED <<patternRetry, totalRetry, lastColor>>
      /\ UNCHANGED <<generator, sensor, beforeFirst, nbNext, player>>
      /\ incidents' = incidents \union {"ignored"}
      /\ series # <<>> /\ TypeOK /\ ~beforeFirst
  BY DEF Ignore, devices, checkVars, SafetyInv, TypeOK, Running, Control
<1>2. incidents \subseteq incidents' /\ incidents' \subseteq Incidents
  BY <1>1 DEF TypeOK, Incidents
<1>3. /\ pc' \in {"display", "change", "end"} /\ series' = series /\ part' = part
      /\ ~bRetry' /\ bRetry' \in BOOLEAN /\ retries' = retries /\ Here' = Here
      /\ i' \in 0 .. Here.size - 1
      /\ pc' \in {"change", "end"} => i' = Here.size - 1
      /\ pc' = "change" => part < Len(series)
      /\ pc' = "end" => part = Len(series)
  BY <1>1, NextExists
<1>4. TypeOK'
  <2>1. /\ DOMAIN measured' = 1 .. Len(series)
        /\ \A k \in 1 .. Len(series) : measured'[k] \in [0 .. series[k].size - 1 -> Values]
    BY <1>1, Colours, Stored
  <2> QED
    BY <1>1, <1>2, <1>3, <2>1 DEF TypeOK, Running
<1>5. DevicesReleased' /\ Control'
  BY <1>1, <1>3 DEF SafetyInv, DevicesReleased, Control, Running
<1>6. InStep'
  <2> SUFFICES ASSUME ~Misled' PROVE InStep'
    BY DEF InStep
  <2>1. ~Misled /\ "lost" \notin incidents
    BY <1>1, <1>2, MisledStays DEF Misled
  <2>2. player = Shown(i)
    BY <1>1, <2>1 DEF SafetyInv, InStep, AtPattern
  <2> QED
    BY <1>1, <1>2, <2>2, Colours, Advances
<1> QED
  BY <1>4, <1>5, <1>6 DEF SafetyInv

-----------------------------------------------------------------------------
\* The next part: the last picture of a title leads to the menu.
LEMMA ChangePatternSeriesSafe ==
  ASSUME SafetyInv, ChangePatternSeries
  PROVE  SafetyInv'
<1>1. /\ pc = "change" /\ pc' = "display" /\ beforeFirst' = TRUE /\ part' = part + 1 /\ i' = 0
      /\ UNCHANGED <<series, bRetry, retries, measured, generator, sensor, nbNext>>
      /\ UNCHANGED <<patternRetry, totalRetry, lastColor>>
      /\ series # <<>> /\ TypeOK /\ part < Len(series) /\ i = Here.size - 1
  BY DEF ChangePatternSeries, devices, checkVars, SafetyInv, TypeOK, Running, Control
<1>2. /\ part \in 1 .. Len(series) /\ Len(series) \in Nat /\ Here.title \in Titles
      /\ Here.size \in Nat \ {0} /\ Here.size = PicturesOf(Here.title)
      /\ i \in 0 .. Here.size - 1
  BY <1>1, AtPart
<1>3. part' \in 1 .. Len(series)
  BY <1>1, <1>2
<1>4. incidents \subseteq incidents' /\ incidents' \subseteq Incidents /\ player' \in Pictures
  BY <1>1, AfterStays DEF ChangePatternSeries, TypeOK, Incidents
<1>5. Here' = series[part']
  BY <1>1 DEF Here
<1>6. i' \in 0 .. Here'.size - 1
  BY <1>1, <1>3, <1>5, Series DEF TypeOK, SeriesFits, PartFits
<1>7. TypeOK'
  BY <1>1, <1>3, <1>4, <1>6 DEF TypeOK, Running
<1>8. DevicesReleased' /\ Control'
  BY <1>1 DEF SafetyInv, DevicesReleased, Control, Running
<1>9. InStep'
  <2> SUFFICES ASSUME ~Misled' PROVE InStep'
    BY DEF InStep
  <2>1. ~Misled /\ "lostMenu" \notin incidents'
    BY <1>4, MisledStays DEF Misled, Misleading
  <2>2. player = Shown(i)
    BY <1>1, <2>1 DEF SafetyInv, InStep
  <2>3. player' = Menu
    <3>1. i \in 0 .. PicturesOf(Here.title) - 1 /\ ~(i + 1 < PicturesOf(Here.title))
      BY <1>1, <1>2
    <3>2. After(Picture(Here.title, i), 1) = Menu
      BY <1>2, <3>1, AfterPicture
    <3>3. player' = After(player, 1)
      BY <2>1 DEF ChangePatternSeries
    <3> QED
      BY <2>2, <3>2, <3>3 DEF Shown
  <2>4. ASSUME NEW k \in 1 .. Len(series), NEW m \in 0 .. series[k].size - 1, Measured(k, m)'
        PROVE  HasItsColor(k, m)'
    <3>1. k < part + 1
      BY <1>1, <1>2, <2>4 DEF Measured
    <3>2. Measured(k, m)
      BY <1>1, <1>2, <3>1 DEF Measured
    <3> QED
      BY <1>1, <1>4, <2>1, <3>2 DEF SafetyInv, InStep, HasItsColor
  <2> QED
    BY <1>1, <2>3, <2>4 DEF InStep
<1> QED
  BY <1>7, <1>8, <1>9 DEF SafetyInv

\* The series succeeds.
LEMMA EndSafe ==
  ASSUME SafetyInv, End
  PROVE  SafetyInv'
<1>1. /\ pc = "end" /\ pc' = "succeeded"
      /\ UNCHANGED <<series, part, i, bRetry, retries, measured>>
      /\ UNCHANGED <<patternRetry, totalRetry, lastColor>>
      /\ beforeFirst' = FALSE /\ nbNext' = 0 /\ generator' = FALSE /\ sensor' = FALSE
      /\ Here' = Here /\ series # <<>> /\ TypeOK
  BY DEF End, Release, ReleaseGenerator, seriesVars, checkVars, Here, SafetyInv, TypeOK, Running
<1>2. incidents \subseteq incidents' /\ incidents' \subseteq Incidents /\ player' \in Pictures
  <2>1. PICK received \in 0 .. nbNext + 1 :
          /\ player' = After(player, received)
          /\ incidents' = incidents \union {} \union
               (IF received = nbNext + 1 THEN {} ELSE {"lostRelease"})
    BY DEF End, Release, ReleaseGenerator
  <2>2. received \in Nat /\ player \in Pictures
    BY <1>1 DEF TypeOK
  <2> QED
    BY <1>1, <2>1, <2>2, AfterStays DEF TypeOK, Incidents
<1>3. TypeOK'
  BY <1>1, <1>2 DEF TypeOK, Running
<1>4. DevicesReleased' /\ Control'
  BY <1>1 DEF SafetyInv, DevicesReleased, Control, Running
<1>5. InStep'
  <2> SUFFICES ASSUME ~Misled' PROVE InStep'
    BY DEF InStep
  <2>1. ~Misled
    BY <1>2, MisledStays
  <2>2. \A k, m : Measured(k, m)' => Measured(k, m)
    BY <1>1 DEF Measured
  <2>3. ASSUME NEW k \in 1 .. Len(series), NEW m \in 0 .. series[k].size - 1, Measured(k, m)'
        PROVE  HasItsColor(k, m)'
    <3>1. HasItsColor(k, m)
      BY <1>1, <2>1, <2>2, <2>3 DEF SafetyInv, InStep
    <3> QED
      BY <1>1, <1>2, <3>1 DEF HasItsColor
  <2> QED
    BY <1>1, <2>3 DEF InStep
<1> QED
  BY <1>3, <1>4, <1>5 DEF SafetyInv

LEMMA ReturnSafe ==
  ASSUME SafetyInv, Return
  PROVE  SafetyInv'
<1>1. /\ pc \in {"succeeded", "cancelled"} /\ pc' = "idle"
      /\ series' = <<>> /\ bRetry' = FALSE /\ retries' = 0 /\ measured' = <<>> /\ incidents' = {}
      /\ UNCHANGED <<generator, sensor, beforeFirst, nbNext, player>>
      /\ UNCHANGED <<patternRetry, totalRetry, lastColor>> /\ TypeOK
  BY DEF Return, Forget, devices, checkVars, SafetyInv
<1>2. 0 \in 0 .. MaxRetries
  BY RetriesAssumption
<1>3. TypeOK'
  BY <1>1, <1>2, EmptyMeasures DEF TypeOK, Running
<1>4. DevicesReleased' /\ Control'
  BY <1>1 DEF SafetyInv, DevicesReleased, Control, Running
<1>5. InStep'
  BY <1>1 DEF InStep
<1> QED
  BY <1>3, <1>4, <1>5 DEF SafetyInv

LEMMA StutterSafe ==
  ASSUME SafetyInv, UNCHANGED vars
  PROVE  SafetyInv'
<1> USE DEF vars, seriesVars, devices, checkVars
<1>1. TypeOK'
  BY DEF SafetyInv, TypeOK, Here
<1>2. DevicesReleased' /\ Control'
  BY DEF SafetyInv, DevicesReleased, Control, Here
<1>3. Misled' = Misled /\ Here' = Here /\ AtPattern' = AtPattern /\ ChangePattern' = ChangePattern
      /\ \A k : Shown(k)' = Shown(k)
  BY DEF Misled, Here, AtPattern, ChangePattern, Shown, Verified
<1>4. \A k, m : Measured(k, m)' = Measured(k, m) /\ HasItsColor(k, m)' = HasItsColor(k, m)
  BY DEF Measured, HasItsColor
<1>5. InStep'
  BY <1>3, <1>4 DEF SafetyInv, InStep
<1> QED
  BY <1>1, <1>2, <1>5 DEF SafetyInv

\* The inductive invariant: whatever the codes and the user do, the devices are
\* held by the running series only, and a series that nothing has misled is in
\* step with the player.
THEOREM Safety == Spec => []SafetyInv
<1>1. ASSUME SafetyInv, [Next]_vars
      PROVE  SafetyInv'
  <2>1. CASE Step
    BY <1>1, <2>1, DisplaySafe, CancelSafe, PatternRetrySafe, PatternDoneSafe, RetrySafe,
       IgnoreSafe, ChangePatternSeriesSafe, EndSafe, ReturnSafe DEF Step
  <2>2. CASE \E s \in AllSeries : Start(s) \/ Refused(s)
    BY <1>1, <2>2, StartSafe, RefusedSafe
  <2>3. CASE UNCHANGED vars
    BY <1>1, <2>3, StutterSafe
  <2> QED
    BY <1>1, <2>1, <2>2, <2>3 DEF Next
<1> QED
  BY InitSafe, <1>1, PTL DEF Spec

\* Every reachable state is well typed: no series measures a pattern that it has not.
THEOREM Typing == Spec => []TypeOK
<1>1. SafetyInv => TypeOK
  BY DEF SafetyInv
<1> QED
  BY <1>1, Safety, PTL

\* However a series ends, generator and sensor are released, and so they are when
\* it is refused, but for the sensor of a colour checker without colours.
THEOREM DevicesAreReleased == Spec => []DevicesReleased
<1>1. SafetyInv => DevicesReleased
  BY DEF SafetyInv
<1> QED
  BY <1>1, Safety, PTL

\* A series that succeeds and that nothing has misled has measured each pattern
\* on that pattern, however many codes were lost and measures repeated.
THEOREM EachOnItsPattern == Spec => []MeasuredOnItsPattern
<1>1. ASSUME SafetyInv PROVE MeasuredOnItsPattern
  <2> SUFFICES ASSUME pc = "succeeded", ~Misled,
                      NEW k \in 1 .. Len(series), NEW m \in 0 .. series[k].size - 1
               PROVE  HasItsColor(k, m)
    BY DEF MeasuredOnItsPattern
  <2>1. series # <<>> /\ part = Len(series) /\ Len(series) \in Nat
    BY <1>1, AtPart DEF SafetyInv, TypeOK, Control
  <2>2. Measured(k, m)
    BY <2>1 DEF Measured
  <2> QED
    BY <1>1, <2>1, <2>2 DEF SafetyInv, InStep
<1> QED
  BY <1>1, Safety, PTL

-----------------------------------------------------------------------------
\* Codes for the next chapter take a picture nearer to its menu, up to the menu.
LEMMA Nearer ==
  ASSUME NEW p \in Pictures, NEW n \in Nat
  PROVE  /\ LeftOf(p) \in Nat
         /\ LeftOf(p) = 0 <=> p = Menu
         /\ LeftOf(After(p, n)) = IF n < LeftOf(p) THEN LeftOf(p) - n ELSE 0
<1>1. CASE p = Menu
  <2>1. After(p, n) = Menu
    BY <1>1 DEF After
  <2> QED
    BY <1>1, <2>1 DEF LeftOf
<1>2. CASE \E t \in Titles : \E k \in 0 .. PicturesOf(t) - 1 : p = Picture(t, k)
  <2>0. PICK t \in Titles : \E k \in 0 .. PicturesOf(t) - 1 : p = Picture(t, k)
    BY <1>2
  <2>1. PICK k \in 0 .. PicturesOf(t) - 1 : p = Picture(t, k)
    BY <2>0
  <2>2. PicturesOf(t) \in Nat
    BY TitlesHavePictures
  <2>3. \A m \in 0 .. PicturesOf(t) - 1 :
          Picture(t, m) # Menu /\ LeftOf(Picture(t, m)) = PicturesOf(t) - m
    BY Pics DEF LeftOf, Picture
  <2>4. LeftOf(Menu) = 0
    BY DEF LeftOf
  <2>5. After(p, n) = IF k + n < PicturesOf(t) THEN Picture(t, k + n) ELSE Menu
    BY <2>1, AfterPicture
  <2>6. LeftOf(p) = PicturesOf(t) - k /\ p # Menu
    BY <2>1, <2>3
  <2>7. CASE k + n < PicturesOf(t)
    <3>1. k + n \in 0 .. PicturesOf(t) - 1
      BY <2>2, <2>7
    <3>2. LeftOf(After(p, n)) = PicturesOf(t) - (k + n)
      BY <2>3, <2>5, <2>7, <3>1
    <3> QED
      BY <2>2, <2>6, <2>7, <3>2
  <2>8. CASE ~(k + n < PicturesOf(t))
    BY <2>2, <2>4, <2>5, <2>6, <2>8
  <2> QED
    BY <2>7, <2>8
<1> QED
  BY <1>1, <1>2, Pics

\* A title that is opened at its first picture has all of them left.
LEMMA LeftOfTitle ==
  ASSUME NEW t \in Titles
  PROVE  LeftOf(Picture(t, 0)) = PicturesOf(t)
<1>1. PicturesOf(t) \in Nat \ {0}
  BY TitlesHavePictures
<1>2. Picture(t, 0) # Menu
  BY <1>1, Pics
<1> QED
  BY <1>1, <1>2 DEF LeftOf, Picture

\* NbMeasure counts the patterns of the series, part by part.
LEMMA OwedCounts ==
  ASSUME NEW s \in AllSeries
  PROVE  /\ \A k \in 1 .. Len(s) : Owed(s, k) \in Nat
         /\ \A k \in 1 .. Len(s) - 1 : Owed(s, k) = s[k + 1].size + Owed(s, k + 1)
         /\ NbMeasure(s) = s[1].size + Owed(s, 1)
<1>1. CASE Len(s) = 1
  <2>1. s[1].size \in Nat
    BY <1>1, Series DEF SeriesFits, PartFits
  <2> QED
    BY <1>1, <2>1 DEF Owed, NbMeasure
<1>2. CASE s = MeasureGrayScaleAndColors
  <2>1. Len(s) = 2 /\ s[1].size = Grays /\ s[2].size = Colors
    BY <1>2 DEF MeasureGrayScaleAndColors, Part, ColorPart
  <2>2. Owed(s, 1) = Colors /\ Owed(s, 2) = 0 /\ NbMeasure(s) = Grays + Colors
    BY <1>2, <2>1 DEF Owed, NbMeasure
  <2>3. Grays \in Nat /\ Colors \in Nat
    BY SizesAssumption
  <2> QED
    BY <2>1, <2>2, <2>3
<1>3. CASE s = MeasurePrimarySecondarySaturationScales /\ Len(s) # 1
  <2>1. /\ SatColors \in 1 .. 6 /\ Levels \in Nat
        /\ Len(s) = SatColors
    BY <1>3, SizesAssumption DEF MeasurePrimarySecondarySaturationScales, SatTitles
  <2>2. \A k \in 1 .. SatColors : s[k].size = Levels
    BY <1>3 DEF MeasurePrimarySecondarySaturationScales, Part
  <2>3. s # MeasureGrayScaleAndColors
    <3>1. s[1].title = "red"
      BY <1>3, <2>1 DEF MeasurePrimarySecondarySaturationScales, Part, SatTitles
    <3>2. MeasureGrayScaleAndColors[1].title = "grays"
      BY DEF MeasureGrayScaleAndColors, Part
    <3> QED
      BY <3>1, <3>2
  <2>4. /\ \A k \in 1 .. SatColors : Owed(s, k) = Levels * (SatColors - k)
        /\ NbMeasure(s) = Levels * SatColors
    BY <1>3, <2>1, <2>3 DEF Owed, NbMeasure
  <2>5. \A n \in 0 .. 6 : Levels * n \in Nat /\ Levels * (n + 1) = Levels + Levels * n
    BY <2>1
  <2>6. \A k \in 1 .. SatColors : SatColors - k \in 0 .. 6
    BY <2>1
  <2>7. \A k \in 1 .. Len(s) : Owed(s, k) \in Nat
    BY <2>1, <2>4, <2>5, <2>6
  <2>8. ASSUME NEW k \in 1 .. Len(s) - 1
        PROVE  Owed(s, k) = s[k + 1].size + Owed(s, k + 1)
    <3>1. k \in 1 .. SatColors /\ k + 1 \in 1 .. SatColors /\ SatColors - (k + 1) \in 0 .. 6
      BY <2>1
    <3>2. SatColors - k = (SatColors - (k + 1)) + 1
      BY <2>1
    <3> QED
      BY <2>2, <2>4, <2>5, <3>1, <3>2
  <2>9. NbMeasure(s) = s[1].size + Owed(s, 1)
    <3>1. SatColors = (SatColors - 1) + 1 /\ SatColors - 1 \in 0 .. 6 /\ 1 \in 1 .. SatColors
      BY <2>1
    <3> QED
      BY <2>2, <2>4, <2>5, <3>1
  <2> QED
    BY <2>7, <2>8, <2>9
<1>4. \/ Len(s) = 1 \/ s = MeasureGrayScaleAndColors
      \/ s = MeasurePrimarySecondarySaturationScales
  BY DEF AllSeries, MeasureGrayScale, MeasureNearBlackScale, MeasureCC24SatScale, MeasureMCD,
         MeasurePrimaries, MeasureSecondaries, MeasureSatScale
<1> QED
  BY <1>1, <1>2, <1>3, <1>4

\* What takes a series out of reach stays.
LEMMA ReachStays ==
  ASSUME incidents \subseteq incidents'
  PROVE  /\ InReach' => InReach
         /\ incidents' \subseteq {"ignored"} => incidents \subseteq {"ignored"}
BY DEF InReach

\* The numbers that the menu invariant speaks of.
LEMMA Numbers ==
  ASSUME TypeOK, series # <<>>
  PROVE  /\ LeftOf(player) \in Nat /\ nbNext \in Nat
         /\ i \in Nat /\ Here.size \in Nat /\ i < Here.size
         /\ Owed(series, part) \in Nat
<1>1. series \in AllSeries /\ part \in 1 .. Len(series) /\ i \in 0 .. Here.size - 1
      /\ Here.size \in Nat
  BY AtPart DEF TypeOK
<1> QED
  BY <1>1, Nearer, OwedCounts DEF TypeOK

\* Release is sent enough codes, and they arrive, unless that is an incident.
LEMMA Released ==
  ASSUME TypeOK, NEW n \in Nat, NEW what, Release(n, what), "lostRelease" \notin incidents',
         LeftOf(player) <= n + 1
  PROVE  player' = Menu
<1>1. player' = After(player, n + 1)
  BY DEF Release, ReleaseGenerator
<1>2. player \in Pictures /\ n + 1 \in Nat /\ After(player, n + 1) \in Pictures
  BY AfterStays DEF TypeOK
<1>3. LeftOf(After(player, n + 1)) = 0
  BY <1>2, Nearer
<1> QED
  BY <1>1, <1>2, <1>3, Nearer

LEMMA StartMenu ==
  ASSUME SafetyInv, NEW s \in AllSeries, Start(s)
  PROVE  MenuInv'
<1>1. /\ pc' = "display" /\ series' = s /\ part' = 1 /\ beforeFirst' /\ nbNext' = NbMeasure(s)
      /\ Here' = s[1] /\ i' \in {0, 1} /\ (i' = 1 => "override" \in incidents')
  BY DEF Start, InitGenerator, Here
<1>2. NeverBehind'
  BY <1>1 DEF NeverBehind, InReach, Behind
<1>3. EnoughOwed'
  <2>1. /\ s[1].size \in Nat /\ Owed(s, 1) \in Nat
        /\ NbMeasure(s) = s[1].size + Owed(s, 1)
    BY Series, OwedCounts DEF SeriesFits, PartFits
  <2> QED
    BY <1>1, <2>1 DEF EnoughOwed
<1> QED
  BY <1>2, <1>3 DEF MenuInv

LEMMA DisplayMenu ==
  ASSUME SafetyInv, MenuInv, Display
  PROVE  MenuInv'
<1>1. /\ pc = "display" /\ pc' = "measure" /\ beforeFirst' = FALSE /\ nbNext' = CountDown
      /\ UNCHANGED <<series, part, i, bRetry, lastColor>>
      /\ Here' = Here /\ series # <<>> /\ TypeOK
  BY DEF Display, seriesVars, checkVars, Here, SafetyInv, TypeOK, Running
<1>2. player' \in Pictures /\ incidents \subseteq incidents'
  BY DisplayShows
<1>3. /\ LeftOf(player) \in Nat /\ nbNext \in Nat /\ i \in Nat /\ Here.size \in Nat /\ i < Here.size
      /\ Owed(series, part) \in Nat
  BY <1>1, Numbers
<1>4. NeverBehind'
  <2> SUFFICES ASSUME InReach'
               PROVE  LeftOf(player') <= Here.size - i \/ OneCodeBehind'
    BY <1>1 DEF NeverBehind
  <2>1. InReach /\ "unchecked" \notin incidents' /\ "lostNavigation" \notin incidents'
    BY <1>2, ReachStays DEF InReach, Behind
  <2>2. CASE beforeFirst /\ OpenTitle
    <3>1. i = 0 /\ (part = 1 \/ LeftOf(player) <= 1)
      BY <1>1, <2>1, <2>2 DEF MenuInv, NeverBehind
    <3>2. LeftOf(Picture(Here.title, 0)) = Here.size
      BY <1>1, AtPart, LeftOfTitle
    <3>3. player' = Picture(Here.title, 0) \/ (part # 1 /\ player' = player)
      BY <2>1, <2>2 DEF OpenTitle
    <3> QED
      BY <1>3, <3>1, <3>2, <3>3
  <2>3. CASE ~beforeFirst /\ ChangePattern /\ NextPicture
    <3>1. \/ LeftOf(player) <= Here.size - i
          \/ /\ i > 0 /\ LeftOf(player) = Here.size - i + 1
             /\ "ignored" \in incidents \/ Here.lead > 0 \/ lastColor = Color(player)
      BY <1>1, <2>1, <2>3 DEF MenuInv, NeverBehind
    <3>2. CASE player' = After(player, 1)
      <4>1. LeftOf(player') = IF 1 < LeftOf(player) THEN LeftOf(player) - 1 ELSE 0
        BY <1>1, <3>2, Nearer DEF TypeOK
      <4> QED
        BY <1>3, <3>1, <4>1
    <3>3. CASE player' = player /\ incidents' = incidents \union
                 {IF Verified THEN "lost" ELSE "unchecked"}
      <4>1. Verified /\ "lost" \in incidents' /\ "ignored" \notin incidents'
        BY <2>1, <3>3 DEF InReach
      <4>0. Here.lead = 0
        BY <4>1 DEF Verified
      <4>2. \/ LeftOf(player) <= Here.size - i
            \/ i > 0 /\ LeftOf(player) = Here.size - i + 1 /\ lastColor = Color(player)
        BY <1>2, <3>1, <4>0, <4>1
      <4> QED
        BY <1>1, <3>3, <4>1, <4>2 DEF OneCodeBehind, Verified
    <3> QED
      BY <2>3, <3>2, <3>3 DEF NextPicture
  <2>4. CASE ~beforeFirst /\ ~ChangePattern /\ SamePicture
    <3>1. LeftOf(player) <= Here.size - i \/ OneCodeBehind
      BY <1>1, <2>1, <2>4 DEF MenuInv, NeverBehind
    <3> QED
      BY <1>1, <2>4, <3>1 DEF OneCodeBehind, SamePicture, Verified
  <2> QED
    BY <2>2, <2>3, <2>4 DEF Display
<1>5. EnoughOwed'
  <2> SUFFICES ASSUME incidents' \subseteq {"ignored"}
               PROVE  nbNext' >= Here.size - 1 - i + Owed(series, part)
    BY <1>1 DEF EnoughOwed
  <2>1. nbNext >= Here.size - i + Owed(series, part)
    BY <1>1, <1>2, ReachStays DEF MenuInv, EnoughOwed
  <2> QED
    BY <1>1, <1>3, <2>1 DEF CountDown
<1> QED
  BY <1>4, <1>5 DEF MenuInv

\* A cancel has at least as many codes sent as the player needs, for whatever was
\* displayed was also counted down.
LEMMA CancelMenu ==
  ASSUME SafetyInv, MenuInv, DisplayFails \/ Escape \/ Abort \/ ChangeFails
  PROVE  MenuInv'
<1>1. TypeOK /\ pc' = "cancelled" /\ series' = <<>>
  BY DEF SafetyInv, DisplayFails, Escape, Abort, ChangeFails, Cancel, Forget
<1>2. NeverBehind'
  BY <1>1 DEF NeverBehind
<1>3. EnoughOwed'
  <2> SUFFICES ASSUME incidents' \subseteq {"ignored"}
               PROVE  player' = Menu
    BY <1>1 DEF EnoughOwed
  <2>1. Escape \/ Abort
    BY DEF DisplayFails, ChangeFails, Cancel, Release, ReleaseGenerator
  <2> DEFINE n == IF Escape /\ Here.restOnEscape THEN Here.size - 1 - i ELSE nbNext
  <2>2. pc = "measure" /\ Release(n, {})
    BY <2>1 DEF Escape, Abort, Cancel
  <2>3. series # <<>> /\ incidents \subseteq incidents'
    BY <1>1, <2>2 DEF TypeOK, Running, Release, ReleaseGenerator
  <2>4. /\ LeftOf(player) \in Nat /\ nbNext \in Nat /\ i \in Nat /\ Here.size \in Nat /\ i < Here.size
        /\ Owed(series, part) \in Nat
    BY <1>1, <2>3, Numbers
  <2>5. nbNext >= Here.size - 1 - i + Owed(series, part)
    BY <2>2, <2>3 DEF MenuInv, EnoughOwed
  <2>6. LeftOf(player) <= Here.size - i
    <3>1. InReach /\ "lost" \notin incidents
      BY <2>3 DEF InReach, Behind
    <3> QED
      BY <2>2, <2>3, <3>1 DEF MenuInv, NeverBehind, OneCodeBehind
  <2>7. n \in Nat /\ LeftOf(player) <= n + 1
    BY <2>4, <2>5, <2>6
  <2> HIDE DEF n
  <2> QED
    BY <1>1, <2>2, <2>7, Released
<1> QED
  BY <1>2, <1>3 DEF MenuInv

LEMMA PatternRetryMenu ==
  ASSUME SafetyInv, MenuInv, PatternRetry
  PROVE  MenuInv'
<1>1. /\ pc = "measure" /\ pc' = "display" /\ bRetry' = FALSE /\ lastColor' = Compared
      /\ UNCHANGED <<series, part, i, beforeFirst, nbNext, player>>
      /\ Here' = Here /\ series # <<>> /\ TypeOK /\ ~beforeFirst
      /\ incidents \subseteq incidents'
  BY DEF PatternRetry, SamePattern, Here, SafetyInv, TypeOK, Running, Control
<1>2. NeverBehind'
  <2> SUFFICES ASSUME InReach'
               PROVE  \/ LeftOf(player) <= Here.size - i
                      \/ i > 0 /\ LeftOf(player) = Here.size - i + 1
    <3>1. Here.lead > 0 \/ lastColor' = Color(player)
      BY <1>1, InOrder, AtPart, Series DEF TypeOK, SeriesFits, PartFits, Here
    <3> QED
      BY <1>1, <3>1 DEF NeverBehind, ChangePattern
  <2>1. InReach
    BY <1>1, ReachStays
  <2> QED
    BY <1>1, <2>1 DEF MenuInv, NeverBehind, OneCodeBehind
<1>3. ~(incidents' \subseteq {"ignored"})
  <2> SUFFICES ASSUME incidents' \subseteq {"ignored"} PROVE FALSE
    OBVIOUS
  <2>1. ~Misled /\ "lost" \notin incidents
    BY <1>1 DEF Misled, Misleading
  <2>2. player = Shown(i)
    BY <1>1, <2>1 DEF SafetyInv, InStep, AtPattern
  <2> QED
    BY <2>2 DEF PatternRetry, Shown
<1>4. EnoughOwed'
  BY <1>3 DEF EnoughOwed
<1> QED
  BY <1>2, <1>4 DEF MenuInv

\* A pass that is done leaves the player in time, unless the check gave up.
LEMMA DoneMenu ==
  ASSUME SafetyInv, MenuInv, PatternDone \/ Ignore
  PROVE  MenuInv'
<1>1. /\ pc = "measure" /\ NextPattern /\ series # <<>> /\ TypeOK /\ ~beforeFirst
      /\ UNCHANGED <<beforeFirst, nbNext, player>> /\ incidents \subseteq incidents'
  BY DEF PatternDone, Ignore, SafetyInv, TypeOK, Running, Control
<1>2. /\ pc' \in {"display", "change", "end"} /\ series' = series /\ part' = part
      /\ ~bRetry' /\ Here' = Here
      /\ pc' = "display" => i' = i + 1
      /\ pc' \in {"change", "end"} => i' = i /\ i = Here.size - 1
  BY <1>1, NextExists
<1>3. /\ LeftOf(player) \in Nat /\ nbNext \in Nat /\ i \in Nat /\ Here.size \in Nat /\ i < Here.size
      /\ Owed(series, part) \in Nat
  BY <1>1, Numbers
<1>4. NeverBehind'
  <2> SUFFICES ASSUME InReach'
               PROVE  /\ LeftOf(player) <= Here.size - i
                      /\ "ignored" \in incidents' \/ Here.lead > 0 \/ lastColor' = Color(player)
    <3> SUFFICES ASSUME LeftOf(player) <= Here.size - i,
                        "ignored" \in incidents' \/ Here.lead > 0 \/ lastColor' = Color(player)
                 PROVE  /\ pc' = "display" =>
                             \/ LeftOf(player) <= Here.size - i'
                             \/ i' > 0 /\ LeftOf(player) = Here.size - i' + 1
                        /\ pc' \in {"change", "end"} => LeftOf(player) <= 1
      BY <1>1, <1>2 DEF NeverBehind, ChangePattern
    <3> QED
      BY <1>2, <1>3
  <2>1. InReach /\ "gaveUp" \notin incidents' /\ ~({"lost", "ignored"} \subseteq incidents')
    BY <1>1, ReachStays DEF InReach, Behind
  <2>2. "ignored" \in incidents' \/ Here.lead > 0 \/ lastColor' = Color(player)
    <3>1. Here.lead = 0 \/ Here.lead > 0
      BY <1>1, AtPart, Series DEF TypeOK, SeriesFits, PartFits, Here
    <3> QED
      BY <1>1, <3>1, InOrder DEF PatternDone, Ignore
  <2>3. ~OneCodeBehind
    <3> SUFFICES ASSUME OneCodeBehind PROVE FALSE
      OBVIOUS
    <3>1. CASE Ignore
      BY <1>1, <2>1, <3>1 DEF Ignore, OneCodeBehind
    <3>2. CASE PatternDone
      <4>1. CheckIsAsked /\ Unchanged
        BY <1>1, <1>3, InOrder DEF OneCodeBehind, CheckIsAsked, Unchanged, Verified
      <4> QED
        BY <2>1, <3>2, <4>1 DEF PatternDone
    <3> QED
      BY <3>1, <3>2
  <2> QED
    BY <1>1, <2>1, <2>2, <2>3 DEF MenuInv, NeverBehind
<1>5. EnoughOwed'
  <2> SUFFICES ASSUME incidents' \subseteq {"ignored"}
               PROVE  /\ pc' = "display" => nbNext >= Here.size - i' + Owed(series, part)
                      /\ pc' \in {"change", "end"} => nbNext >= Owed(series, part)
    BY <1>1, <1>2 DEF EnoughOwed
  <2>1. nbNext >= Here.size - 1 - i + Owed(series, part)
    BY <1>1 DEF MenuInv, EnoughOwed
  <2> QED
    BY <1>2, <1>3, <2>1
<1> QED
  BY <1>4, <1>5 DEF MenuInv

LEMMA RetryMenu ==
  ASSUME SafetyInv, MenuInv, Retry
  PROVE  MenuInv'
<1>1. /\ pc = "measure" /\ pc' = "display" /\ bRetry' = TRUE
      /\ UNCHANGED <<series, part, i, beforeFirst, nbNext, player, lastColor>>
      /\ Here' = Here /\ series # <<>> /\ TypeOK /\ ~beforeFirst
      /\ incidents \subseteq incidents' /\ ~(incidents' \subseteq {"ignored"})
  BY DEF Retry, SamePattern, checkVars, Here, SafetyInv, TypeOK, Running, Control
<1>2. NeverBehind'
  <2> SUFFICES ASSUME InReach'
               PROVE  LeftOf(player) <= Here.size - i \/ OneCodeBehind
    BY <1>1 DEF NeverBehind, OneCodeBehind, Verified
  <2> QED
    BY <1>1, ReachStays DEF MenuInv, NeverBehind
<1>3. EnoughOwed'
  BY <1>1 DEF EnoughOwed
<1> QED
  BY <1>2, <1>3 DEF MenuInv

LEMMA ChangeMenu ==
  ASSUME SafetyInv, MenuInv, ChangePatternSeries
  PROVE  MenuInv'
<1>1. /\ pc = "change" /\ pc' = "display" /\ beforeFirst' = TRUE /\ part' = part + 1 /\ i' = 0
      /\ UNCHANGED <<series, nbNext>> /\ series # <<>> /\ TypeOK /\ part < Len(series)
      /\ incidents \subseteq incidents'
  BY DEF ChangePatternSeries, SafetyInv, TypeOK, Running, Control
<1>2. NeverBehind'
  <2> SUFFICES ASSUME InReach' PROVE LeftOf(player') <= 1
    BY <1>1 DEF NeverBehind
  <2>1. LeftOf(player) <= 1 /\ LeftOf(player) \in Nat
    BY <1>1, ReachStays, Numbers DEF MenuInv, NeverBehind
  <2>2. player' = player \/ player' = After(player, 1)
    BY DEF ChangePatternSeries
  <2>3. LeftOf(After(player, 1)) = IF 1 < LeftOf(player) THEN LeftOf(player) - 1 ELSE 0
    BY <1>1, Nearer DEF TypeOK
  <2> QED
    BY <2>1, <2>2, <2>3
<1>3. EnoughOwed'
  <2> SUFFICES ASSUME incidents' \subseteq {"ignored"}
               PROVE  nbNext >= Here'.size - 0 + Owed(series, part + 1)
    BY <1>1 DEF EnoughOwed
  <2>1. nbNext >= Owed(series, part)
    BY <1>1 DEF MenuInv, EnoughOwed
  <2>2. part \in 1 .. Len(series) /\ Len(series) \in Nat /\ series \in AllSeries
    BY <1>1, AtPart DEF TypeOK
  <2>3. part \in 1 .. Len(series) - 1 /\ part + 1 \in 1 .. Len(series)
    BY <1>1, <2>2
  <2>4. Owed(series, part) = series[part + 1].size + Owed(series, part + 1)
    BY <2>2, <2>3, OwedCounts
  <2>5. Here'.size = series[part + 1].size /\ series[part + 1].size \in Nat
        /\ Owed(series, part + 1) \in Nat
    BY <1>1, <2>2, <2>3, Series, OwedCounts DEF Here, SeriesFits, PartFits
  <2> QED
    BY <1>1, <2>1, <2>4, <2>5
<1> QED
  BY <1>2, <1>3 DEF MenuInv

LEMMA EndMenu ==
  ASSUME SafetyInv, MenuInv, End
  PROVE  MenuInv'
<1>1. pc = "end" /\ pc' = "succeeded" /\ TypeOK /\ series # <<>> /\ Release(nbNext, {})
  BY DEF End, SafetyInv, TypeOK, Running
<1>2. incidents \subseteq incidents'
  BY <1>1 DEF Release, ReleaseGenerator
<1>3. NeverBehind'
  <2> SUFFICES ASSUME InReach' PROVE player' = Menu
    BY <1>1 DEF NeverBehind
  <2>1. LeftOf(player) <= 1 /\ LeftOf(player) \in Nat /\ nbNext \in Nat
    BY <1>1, <1>2, ReachStays, Numbers DEF MenuInv, NeverBehind
  <2>2. "lostRelease" \notin incidents'
    BY DEF InReach, Behind
  <2> QED
    BY <1>1, <2>1, <2>2, Released
<1>4. EnoughOwed'
  BY <1>1 DEF EnoughOwed
<1> QED
  BY <1>3, <1>4 DEF MenuInv

\* The menu invariant is inductive beside the safety invariant.
LEMMA MenuStep == SafetyInv /\ MenuInv /\ [Next]_vars => MenuInv'
<1> SUFFICES ASSUME SafetyInv, MenuInv, [Next]_vars PROVE MenuInv'
  OBVIOUS
<1>1. CASE Step
  <2>1. CASE Return
    BY <2>1 DEF Return, Forget, MenuInv, NeverBehind, EnoughOwed
  <2> QED
    BY <1>1, <2>1, DisplayMenu, CancelMenu, PatternRetryMenu, DoneMenu, RetryMenu, ChangeMenu,
       EndMenu DEF Step
<1>2. ASSUME NEW s \in AllSeries, Refused(s) PROVE MenuInv'
  <2>1. pc = "idle" /\ pc' = "idle" /\ series' = <<>>
    BY <1>2 DEF Refused, seriesVars, SafetyInv, TypeOK
  <2> QED
    BY <2>1 DEF MenuInv, NeverBehind, EnoughOwed
<1>3. CASE UNCHANGED vars
  BY <1>3 DEF vars, seriesVars, devices, checkVars, MenuInv, NeverBehind, EnoughOwed, InReach,
              OneCodeBehind, ChangePattern, Here, Verified
<1> QED
  BY <1>1, <1>2, <1>3, StartMenu DEF Next

\* Release brings the player back to its menu, for scales of any size: after every
\* series that succeeds unless the player was behind, and after every series that
\* is cancelled before anything was repeated.
THEOREM MenuAgain == Spec => []BackInMenu
<1>1. Init => MenuInv
  BY DEF Init, MenuInv, NeverBehind, EnoughOwed
<1>2. SafetyInv /\ MenuInv => BackInMenu
  BY DEF SafetyInv, TypeOK, Running, MenuInv, NeverBehind, EnoughOwed, BackInMenu
<1> QED
  BY <1>1, <1>2, MenuStep, Safety, PTL DEF Spec

-----------------------------------------------------------------------------
\* The variant of SeriesGoesOn.
GoesOn ==
  \/ RetriesLeft' < RetriesLeft
  \/ RetriesLeft' = RetriesLeft /\ Later
  \/ RetriesLeft' = RetriesLeft /\ UNCHANGED <<part, i>> /\ PassLeft' < PassLeft

\* Whatever the retries that the code and the user are given, no step of a running
\* series leaves the retries, the pattern and the pass as far from the end as they were.
THEOREM GoesOnToItsEnd == Spec => SeriesGoesOn
<1>1. ASSUME TypeOK, [Next]_vars
      PROVE  [series # <<>> /\ series' # <<>> => GoesOn]_vars
  <2> SUFFICES ASSUME series # <<>>, series' # <<>>, ~UNCHANGED vars
               PROVE  GoesOn
    OBVIOUS
  <2>1. /\ part \in Nat /\ i \in Nat /\ totalRetry \in Nat /\ retries \in 0 .. MaxRetries
        /\ MaxRetries \in Nat /\ pc # "idle"
    BY <1>1, AtPart, RetriesAssumption DEF TypeOK
  <2> USE <2>1 DEF GoesOn, RetriesLeft, Later, PassLeft
  <2>2. CASE Display
    BY <2>2 DEF Display, seriesVars, checkVars
  <2>3. CASE DisplayFails \/ Escape \/ Abort \/ ChangeFails \/ Return
    BY <2>3 DEF DisplayFails, Escape, Abort, ChangeFails, Cancel, Return, Forget
  <2>4. CASE PatternRetry
    BY <2>4 DEF PatternRetry, SamePattern
  <2>5. CASE PatternDone \/ Ignore
    BY <2>5 DEF PatternDone, Ignore, NextPattern, checkVars
  <2>6. CASE Retry
    BY <2>6 DEF Retry, SamePattern, checkVars
  <2>7. CASE ChangePatternSeries
    BY <2>7 DEF ChangePatternSeries, checkVars
  <2>8. CASE End
    BY <2>8 DEF End, seriesVars, checkVars
  <2>9. ASSUME NEW s \in AllSeries PROVE ~Start(s) /\ ~Refused(s)
    BY DEF Start, Refused
  <2> QED
    BY <1>1, <2>2, <2>3, <2>4, <2>5, <2>6, <2>7, <2>8, <2>9 DEF Next, Step
<1> QED
  BY <1>1, Typing, PTL DEF Spec, SeriesGoesOn, GoesOn
===============================================================================
