---------------------------- MODULE LuxMeterProofs ----------------------------
(* Proofs about LuxMeter, for any levels, scales, window and number of patterns. *)
EXTENDS LuxMeter, TLAPS

-----------------------------------------------------------------------------
(* The inductive invariant.                                                *)

\* A packet that waits for SetLuxmeterValue was received, on some scale.
PacketInv ==
  lux = "packet" => packet.scale # NoScale /\ (packet.kind = "in" => packet.value \in Levels)

\* A value was stored since the start of the measure only if a packet began since;
\* the measure is out of range only because of such a value, and is not stable then.
RangeInv ==
  /\ valueSince => tickSince
  /\ outOfRange => valueSince /\ ~valid

\* Where the caller waits a measure is open, and the last value tells why it is
\* out of range.
WaitInv ==
  /\ pc \in {"begin", "reset"} => after # "wait"
  /\ pc = "wait" \/ (pc \in {"joinLux", "startLux"} /\ after = "wait") => inside
  /\ inside /\ outOfRange /\ ~newScaleOk => current.kind # "in"

\* A step measures its light.
Measuring ==
  \/ pc \in {"measure", "get", "wait", "answer", "pump", "close"}
  \/ pc \in {"joinLux", "startLux"} /\ after \in {"wait", "pump"}

\* What is told apart by the three times: a packet that began since the start of
\* the measure saw the pattern of the measure, and only such packets are used.
LightInv ==
  Measuring /\ begun =>
    /\ tickSince => light = pattern
    /\ valueSince /\ lux = "packet" => packet.of = pattern
    /\ \A k \in 1 .. Len(window) : window[k].of = pattern
    /\ valid => used = {pattern}
    /\ pc = "answer" /\ answer = "OK" => value = {pattern}
    /\ pc = "close" /\ result = "OK" => value = {pattern}

\* Where BeginLuxMeasure and StartLuxMeasures go back to.
AfterInv ==
  /\ pc \in {"joinLux", "startLux"} => after \in {"idle", "wait", "iris", "pump"}

Inv == TypeOK /\ IndexesInBounds /\ PacketInv /\ RangeInv /\ WaitInv /\ AfterInv /\ LightInv

-----------------------------------------------------------------------------
(* The window of the last values.                                          *)

\* SetLuxmeterValue appends to the window, dropping its first value when full.
LEMMA Window ==
  ASSUME window \in Seq(Samples), Len(window) <= WindowSize, Sample \in Samples
  PROVE  /\ Shifted \in Seq(Samples)
         /\ Len(Shifted) = IF Shifts THEN WindowSize ELSE Len(window) + 1
         /\ Len(Shifted) <= WindowSize
         /\ \A k \in 1 .. Len(Shifted) :
              Shifted[k] = Sample \/ \E j \in 1 .. Len(window) : Shifted[k] = window[j]
<1> WindowSize \in Nat /\ WindowSize >= 3
  BY SizesAssumption
<1> DEFINE s == Sample
<1> s \in Samples
  OBVIOUS
<1>e. Sample = s
  OBVIOUS
<1> HIDE DEF s
<1>1. CASE Shifts
  <2>1. window # <<>> /\ Len(window) = WindowSize
    BY <1>1 DEF Shifts
  <2> DEFINE t == Tail(window)
  <2>2. t \in Seq(Samples) /\ Len(t) = WindowSize - 1
    BY <2>1
  <2>3. \A k \in 1 .. Len(t) : t[k] = window[k + 1] /\ k + 1 \in 1 .. Len(window)
    BY <2>1, <2>2
  <2> HIDE DEF t
  <2>4. Append(t, s) \in Seq(Samples) /\ Len(Append(t, s)) = WindowSize
    BY <2>2
  <2>5. \A k \in 1 .. WindowSize : Append(t, s)[k] = s \/ (k \in 1 .. Len(t) /\ Append(t, s)[k] = t[k])
    BY <2>2
  <2>6. Shifted = Append(t, s)
    BY <1>1, <1>e DEF Shifted, t
  <2> QED
    BY <2>3, <2>4, <2>5, <2>6, <1>1, <1>e
<1>2. CASE ~Shifts
  <2>1. Shifted = Append(window, s) /\ Len(window) < WindowSize
    BY <1>2, <1>e DEF Shifted, Shifts
  <2>2. /\ Append(window, s) \in Seq(Samples)
        /\ Len(Append(window, s)) = Len(window) + 1
        /\ \A k \in 1 .. Len(window) + 1 : Append(window, s)[k] = s
              \/ (k \in 1 .. Len(window) /\ Append(window, s)[k] = window[k])
    OBVIOUS
  <2> QED
    BY <2>1, <2>2, <1>2, <1>e
<1> QED
  BY <1>1, <1>2

\* A value in range is a sample.
LEMMA Sampled ==
  ASSUME TypeOK, PacketInv, lux = "packet", packet.kind = "in"
  PROVE  Sample \in Samples
BY DEF TypeOK, PacketInv, Sample, Samples

\* A stable value has two values before it.
LEMMA Three ==
  ASSUME NEW w \in Seq(Samples), Alternates(w) \/ Converges(w)
  PROVE  Len(w) >= 3
BY DEF Alternates, Converges

\* What is averaged are values of the window, the last one among them.
LEMMA Average ==
  ASSUME NEW w \in Seq(Samples), Len(w) >= 3, NEW from \in 1 .. Len(w)
  PROVE  /\ \A x \in Averaged(w, from) : \E k \in 1 .. Len(w) : x = w[k]
         /\ w[Len(w)] \in Averaged(w, from)
BY DEF Averaged

-----------------------------------------------------------------------------
(* Typing and bounds.                                                      *)

LEMMA BoundsStep ==
  TypeOK /\ IndexesInBounds /\ PacketInv /\ RangeInv /\ [Next]_vars => IndexesInBounds' /\ window' \in Seq(Samples) /\ first' \in 1 .. WindowSize
<1> SUFFICES ASSUME TypeOK, IndexesInBounds, PacketInv, RangeInv, [Next]_vars
             PROVE  IndexesInBounds' /\ window' \in Seq(Samples) /\ first' \in 1 .. WindowSize
  OBVIOUS
<1> WindowSize \in Nat /\ WindowSize >= 3
  BY SizesAssumption
<1> window \in Seq(Samples) /\ first \in 1 .. WindowSize /\ valid \in BOOLEAN /\ Len(window) \in Nat
  BY DEF TypeOK
<1>0. Len(window) <= WindowSize /\ (valid => Len(window) >= 3 /\ first \in 1 .. Len(window))
  BY DEF IndexesInBounds
<1>k. ASSUME UNCHANGED <<window, valid, first>>
      PROVE  IndexesInBounds' /\ window' \in Seq(Samples) /\ first' \in 1 .. WindowSize
  BY <1>k, <1>0 DEF IndexesInBounds
<1>r. ASSUME window' = <<>>, ~valid', first' = first
      PROVE  IndexesInBounds' /\ window' \in Seq(Samples) /\ first' \in 1 .. WindowSize
  BY <1>r DEF IndexesInBounds
<1>1. CASE FallSilent
  BY <1>1, <1>k DEF FallSilent, measure
<1>2. CASE PressButton
  BY <1>2, <1>k DEF PressButton, measure
<1>3. CASE ShowPattern
  BY <1>3, <1>k DEF ShowPattern, measure
<1>4. CASE StartLuxMeasure
  BY <1>4, <1>k DEF StartLuxMeasure, Goto, measure
<1>5. CASE StartLuxMeasures
  BY <1>5, <1>k DEF StartLuxMeasures, measure
<1>6. CASE OpenPort
  BY <1>6, <1>k DEF OpenPort, measure
<1>7. CASE ReceivePacket
  BY <1>7, <1>k DEF ReceivePacket, Thread, measure
<1>8. CASE ReadNothing
  BY <1>8, <1>k DEF ReadNothing, Thread, measure
<1>9. CASE LoopTest
  BY <1>9, <1>k DEF LoopTest, Thread, measure
<1>10. CASE IgnoreNewScale
  BY <1>10, <1>k DEF IgnoreNewScale, Thread, measure
<1>11. CASE StoreOnly
  BY <1>11, <1>k DEF StoreOnly, Store, Thread, Counts, measure
<1>12. CASE StoreOutOfRange
  BY <1>12, <1>r DEF StoreOutOfRange, Store, Thread, Counts
<1>13. CASE StoreBackInRange
  BY <1>13, <1>r DEF StoreBackInRange, Store, Thread, Counts, RangeInv
<1>14. CASE StoreStableAlready
  <2>1. lux = "packet" /\ packet.kind = "in" /\ valid /\ valid' = valid
        /\ window' = Shifted /\ first' = FirstMoved
    BY <1>14 DEF StoreStableAlready, Store, Thread, Counts
  <2>2. /\ Shifted \in Seq(Samples) /\ Len(Shifted) <= WindowSize /\ Len(Shifted) \in Nat
        /\ Len(Shifted) = IF Len(window) = WindowSize THEN WindowSize ELSE Len(window) + 1
    BY <1>0, <2>1, Window, Sampled DEF Shifts
  <2>3. FirstMoved \in 1 .. Len(Shifted) /\ Len(Shifted) >= 3
    BY <1>0, <2>1, <2>2 DEF FirstMoved, Shifts
  <2> QED
    BY <2>1, <2>2, <2>3 DEF IndexesInBounds
<1>15. CASE StoreInRange
  <2>1. /\ lux = "packet" /\ packet.kind = "in" /\ ~valid /\ window' = Shifted
        /\ \/ /\ Alternates(Shifted) \/ Converges(Shifted)
              /\ valid' = TRUE /\ first' \in {Len(Shifted), Len(Shifted) - 1}
           \/ valid' = valid /\ first' = FirstMoved
    BY <1>15 DEF StoreInRange, Store, Thread, Counts
  <2>2. Shifted \in Seq(Samples) /\ Len(Shifted) <= WindowSize /\ Len(Shifted) \in Nat
    BY <1>0, <2>1, Window, Sampled
  <2>3. FirstMoved \in 1 .. WindowSize
    BY DEF FirstMoved
  <2>4. CASE valid' = valid /\ first' = FirstMoved
    BY <2>1, <2>2, <2>3, <2>4 DEF IndexesInBounds
  <2>5. CASE /\ Alternates(Shifted) \/ Converges(Shifted)
             /\ valid' = TRUE /\ first' \in {Len(Shifted), Len(Shifted) - 1}
    <3>1. Len(Shifted) >= 3
      BY <2>2, <2>5, Three
    <3>2. first' \in 1 .. Len(Shifted)
      BY <2>2, <2>5, <3>1
    <3> QED
      BY <2>1, <2>2, <2>5, <3>1, <3>2 DEF IndexesInBounds
  <2> QED
    BY <2>1, <2>4, <2>5
<1>16. CASE BeginLuxMeasure
  BY <1>16, <1>k DEF BeginLuxMeasure, measure
<1>17. CASE Reset
  BY <1>17, <1>r DEF Reset, Goto
<1>18. CASE MeasureColor
  BY <1>18, <1>k DEF MeasureColor, Goto, measure
<1>19. CASE GetLuxMeasure
  BY <1>19, <1>k DEF GetLuxMeasure, Reply, Goto, measure
<1>20. CASE ReplyValid
  BY <1>20, <1>k DEF ReplyValid, Reply, measure
<1>21. CASE ReplyNewScale
  BY <1>21, <1>k DEF ReplyNewScale, Reply, measure
<1>22. CASE ReplyOutOfRange
  BY <1>22, <1>k DEF ReplyOutOfRange, Reply, measure
<1>23. CASE ReplyNotRunning
  BY <1>23, <1>k DEF ReplyNotRunning, Reply, measure
<1>24. CASE HandleAnswer
  BY <1>24, <1>k DEF HandleAnswer, TakeValue, TakeNothing, AdviseScale, RestartMeasure, Return, measure
<1>25. CASE Pump
  BY <1>25, <1>k DEF Pump, Goto, measure
<1>25a. CASE WaitForDynamicIris
  BY <1>25a, <1>k DEF WaitForDynamicIris, Goto, measure
<1>26. CASE Close
  BY <1>26, <1>k DEF Close, measure
<1>27. CASE JoinThread
  BY <1>27, <1>k DEF JoinThread, Goto, measure
<1>28. CASE StartThread
  BY <1>28, <1>k DEF StartThread, Goto, measure
<1>29. CASE UNCHANGED vars
  BY <1>29, <1>k DEF vars, measure
<1> QED
  BY <1>1, <1>2, <1>3, <1>4, <1>5, <1>6, <1>7, <1>8, <1>9, <1>10, <1>11, <1>12,
     <1>13, <1>14, <1>15, <1>16, <1>17, <1>18, <1>19, <1>20, <1>21, <1>22,
     <1>23, <1>24, <1>25, <1>25a, <1>26, <1>27, <1>28, <1>29 DEF Next, LuxThread,
     SetLuxmeterValue, Ui

(* The types, in four parts.                                               *)
CallerType ==
  /\ pc \in UiPCs /\ after \in {"idle", "measure", "wait", "iris", "pump"}
  /\ answer \in Answers /\ result \in Results
  /\ dialog \in {"none", "open", "cancel", "continue"}

FlagType ==
  /\ lux \in LuxPCs /\ stop \in BOOLEAN /\ received \in BOOLEAN /\ silent \in BOOLEAN
  /\ tickSince \in BOOLEAN /\ valueSince \in BOOLEAN /\ previousSince \in BOOLEAN
  /\ inside \in BOOLEAN /\ outOfRange \in BOOLEAN /\ newScaleOk \in BOOLEAN
  /\ valid \in BOOLEAN /\ begun \in BOOLEAN

PatternType ==
  /\ pattern \in Patterns /\ light \in Patterns
  /\ value \subseteq Patterns /\ used \subseteq Patterns

PacketType ==
  /\ packet \in [scale : Scales \cup {NoScale}, kind : Kinds, value : Levels \cup {0}, of : Patterns]
  /\ refScale \in Scales \cup {NoScale}
  /\ current \in [scale : Scales \cup {NoScale}, kind : Kinds]

LEMMA Parts ==
  TypeOK <=> /\ CallerType /\ FlagType /\ PatternType /\ PacketType
             /\ window \in Seq(Samples) /\ first \in 1 .. WindowSize
BY DEF TypeOK, CallerType, FlagType, PatternType, PacketType

LEMMA CallerStep == CallerType /\ [Next]_vars => CallerType'
<1> SUFFICES ASSUME CallerType, [Next]_vars PROVE CallerType'
  OBVIOUS
<1> USE DEF CallerType, UiPCs, Answers, Results, caller
<1>1. CASE FallSilent
  BY <1>1 DEF FallSilent
<1>2. CASE PressButton
  BY <1>2 DEF PressButton
<1>3. CASE ShowPattern
  BY <1>3 DEF ShowPattern
<1>4. CASE StartLuxMeasure
  BY <1>4 DEF StartLuxMeasure, Goto
<1>5. CASE StartLuxMeasures
  BY <1>5 DEF StartLuxMeasures
<1>6. CASE OpenPort
  BY <1>6 DEF OpenPort
<1>7. CASE ReceivePacket
  BY <1>7 DEF ReceivePacket, Thread
<1>8. CASE ReadNothing
  BY <1>8 DEF ReadNothing, Thread
<1>9. CASE LoopTest
  BY <1>9 DEF LoopTest, Thread
<1>10. CASE IgnoreNewScale
  BY <1>10 DEF IgnoreNewScale, Thread
<1>11. CASE StoreOnly
  BY <1>11 DEF StoreOnly, Store, Thread, Counts
<1>12. CASE StoreOutOfRange
  BY <1>12 DEF StoreOutOfRange, Store, Thread, Counts
<1>13. CASE StoreBackInRange
  BY <1>13 DEF StoreBackInRange, Store, Thread, Counts
<1>14. CASE StoreStableAlready
  BY <1>14 DEF StoreStableAlready, Store, Thread, Counts
<1>15. CASE StoreInRange
  BY <1>15 DEF StoreInRange, Store, Thread, Counts
<1>16. CASE BeginLuxMeasure
  BY <1>16 DEF BeginLuxMeasure
<1>17. CASE Reset
  BY <1>17 DEF Reset, Goto
<1>18. CASE MeasureColor
  BY <1>18 DEF MeasureColor, Goto
<1>19. CASE GetLuxMeasure
  BY <1>19 DEF GetLuxMeasure, Reply, Goto
<1>20. CASE ReplyValid
  BY <1>20 DEF ReplyValid, Reply
<1>21. CASE ReplyNewScale
  BY <1>21 DEF ReplyNewScale, Reply
<1>22. CASE ReplyOutOfRange
  BY <1>22 DEF ReplyOutOfRange, Reply
<1>23. CASE ReplyNotRunning
  BY <1>23 DEF ReplyNotRunning, Reply
<1>24. CASE HandleAnswer
  BY <1>24 DEF HandleAnswer, TakeValue, TakeNothing, AdviseScale, RestartMeasure, Return
<1>25. CASE Pump
  BY <1>25 DEF Pump, Goto
<1>25a. CASE WaitForDynamicIris
  BY <1>25a DEF WaitForDynamicIris, Goto
<1>26. CASE Close
  BY <1>26 DEF Close
<1>27. CASE JoinThread
  BY <1>27 DEF JoinThread, Goto
<1>28. CASE StartThread
  BY <1>28 DEF StartThread, Goto
<1>29. CASE UNCHANGED vars
  BY <1>29 DEF vars
<1> QED
  BY <1>1, <1>2, <1>3, <1>4, <1>5, <1>6, <1>7, <1>8, <1>9, <1>10, <1>11, <1>12,
     <1>13, <1>14, <1>15, <1>16, <1>17, <1>18, <1>19, <1>20, <1>21, <1>22,
     <1>23, <1>24, <1>25, <1>25a, <1>26, <1>27, <1>28, <1>29 DEF Next, LuxThread,
     SetLuxmeterValue, Ui

LEMMA FlagStep == FlagType /\ [Next]_vars => FlagType'
<1> SUFFICES ASSUME FlagType, [Next]_vars PROVE FlagType'
  OBVIOUS
<1> USE DEF FlagType, LuxPCs, times, measure
<1>1. CASE FallSilent
  BY <1>1 DEF FallSilent
<1>2. CASE PressButton
  BY <1>2 DEF PressButton
<1>3. CASE ShowPattern
  BY <1>3 DEF ShowPattern
<1>4. CASE StartLuxMeasure
  BY <1>4 DEF StartLuxMeasure, Goto
<1>5. CASE StartLuxMeasures
  <2>1. UNCHANGED <<lux, received, silent, times, measure, begun>>
    BY <1>5 DEF StartLuxMeasures, meter
  <2>2. stop' = TRUE \/ stop' = stop
    BY <1>5 DEF StartLuxMeasures
  <2>3. CASE stop' = TRUE
    BY <2>1, <2>3
  <2>4. CASE stop' = stop
    BY <2>1, <2>4
  <2> QED
    BY <2>2, <2>3, <2>4
<1>6. CASE OpenPort
  BY <1>6 DEF OpenPort
<1>7. CASE ReceivePacket
  BY <1>7 DEF ReceivePacket, Thread
<1>8. CASE ReadNothing
  BY <1>8 DEF ReadNothing, Thread
<1>9. CASE LoopTest
  BY <1>9 DEF LoopTest, Thread
<1>10. CASE IgnoreNewScale
  BY <1>10 DEF IgnoreNewScale, Thread
<1>11. CASE StoreOnly
  BY <1>11 DEF StoreOnly, Store, Thread, Counts
<1>12. CASE StoreOutOfRange
  BY <1>12 DEF StoreOutOfRange, Store, Thread, Counts
<1>13. CASE StoreBackInRange
  BY <1>13 DEF StoreBackInRange, Store, Thread, Counts
<1>14. CASE StoreStableAlready
  BY <1>14 DEF StoreStableAlready, Store, Thread, Counts
<1>15. CASE StoreInRange
  BY <1>15 DEF StoreInRange, Store, Thread
<1>16. CASE BeginLuxMeasure
  BY <1>16 DEF BeginLuxMeasure, IsLuxmeterRunning
<1>17. CASE Reset
  BY <1>17 DEF Reset, Goto
<1>18. CASE MeasureColor
  BY <1>18 DEF MeasureColor, Goto
<1>19. CASE GetLuxMeasure
  BY <1>19 DEF GetLuxMeasure, Reply, Goto
<1>20. CASE ReplyValid
  BY <1>20 DEF ReplyValid, Reply
<1>21. CASE ReplyNewScale
  BY <1>21 DEF ReplyNewScale, Reply
<1>22. CASE ReplyOutOfRange
  BY <1>22 DEF ReplyOutOfRange, Reply, TotallyOut
<1>23. CASE ReplyNotRunning
  BY <1>23 DEF ReplyNotRunning, Reply
<1>24. CASE HandleAnswer
  BY <1>24 DEF HandleAnswer, TakeValue, TakeNothing, AdviseScale, RestartMeasure, Return
<1>25. CASE Pump
  BY <1>25 DEF Pump, Goto
<1>25a. CASE WaitForDynamicIris
  BY <1>25a DEF WaitForDynamicIris, Goto
<1>26. CASE Close
  BY <1>26 DEF Close
<1>27. CASE JoinThread
  BY <1>27 DEF JoinThread, Goto
<1>28. CASE StartThread
  <2>1. stop' \in BOOLEAN /\ lux' \in LuxPCs
    BY <1>28 DEF StartThread
  <2> QED
    BY <1>28, <2>1 DEF StartThread
<1>29. CASE UNCHANGED vars
  BY <1>29 DEF vars
<1> QED
  BY <1>1, <1>2, <1>3, <1>4, <1>5, <1>6, <1>7, <1>8, <1>9, <1>10, <1>11, <1>12,
     <1>13, <1>14, <1>15, <1>16, <1>17, <1>18, <1>19, <1>20, <1>21, <1>22,
     <1>23, <1>24, <1>25, <1>25a, <1>26, <1>27, <1>28, <1>29 DEF Next, LuxThread,
     SetLuxmeterValue, Ui

LEMMA PatternStep ==
  TypeOK /\ IndexesInBounds /\ PacketInv /\ RangeInv /\ [Next]_vars => PatternType'
<1> SUFFICES ASSUME TypeOK, IndexesInBounds, PacketInv, RangeInv, [Next]_vars PROVE PatternType'
  OBVIOUS
<1> PatternType /\ window' \in Seq(Samples)
  BY BoundsStep, Parts
<1> MaxPatterns \in Nat
  BY SizesAssumption
<1> USE DEF PatternType, meter, measure, caller
<1>1. CASE FallSilent
  BY <1>1 DEF FallSilent
<1>2. CASE PressButton
  BY <1>2 DEF PressButton
<1>3. CASE ShowPattern
  BY <1>3 DEF ShowPattern, Patterns
<1>4. CASE StartLuxMeasure
  BY <1>4 DEF StartLuxMeasure, Goto
<1>5. CASE StartLuxMeasures
  BY <1>5 DEF StartLuxMeasures
<1>6. CASE OpenPort
  BY <1>6 DEF OpenPort
<1>7. CASE ReceivePacket
  BY <1>7 DEF ReceivePacket, Thread
<1>8. CASE ReadNothing
  BY <1>8 DEF ReadNothing, Thread
<1>9. CASE LoopTest
  BY <1>9 DEF LoopTest, Thread
<1>10. CASE IgnoreNewScale
  BY <1>10 DEF IgnoreNewScale, Thread
<1>11. CASE StoreOnly
  BY <1>11 DEF StoreOnly, Store, Thread, Counts
<1>12. CASE StoreOutOfRange
  BY <1>12 DEF StoreOutOfRange, Store, Thread, Counts
<1>13. CASE StoreBackInRange
  BY <1>13 DEF StoreBackInRange, Store, Thread, Counts
<1>14. CASE StoreStableAlready
  <2>1. lux = "packet" /\ packet.kind = "in" /\ valid /\ used' = PatternsOf(Averaged(Shifted, FirstMoved))
        /\ window' = Shifted /\ first' = FirstMoved /\ valid'
    BY <1>14 DEF StoreStableAlready, Store, Thread, Counts
  <2>2. Shifted \in Seq(Samples) /\ Len(Shifted) >= 3 /\ FirstMoved \in 1 .. Len(Shifted)
    BY <2>1, BoundsStep DEF IndexesInBounds
  <2>3. \A k \in 1 .. Len(Shifted) : Shifted[k] \in Samples
    BY <2>2
  <2>4. \A x \in Averaged(Shifted, FirstMoved) : x \in Samples
    BY <2>2, <2>3, Average
  <2>5. used' \subseteq Patterns
    BY <2>1, <2>4 DEF PatternsOf, Samples
  <2> QED
    BY <1>14, <2>5 DEF StoreStableAlready, Store, Thread, Counts
<1>15. CASE StoreInRange
  <2>1. /\ lux = "packet" /\ packet.kind = "in" /\ window' = Shifted
        /\ \/ /\ Alternates(Shifted) \/ Converges(Shifted)
              /\ used' \subseteq {Shifted[Len(Shifted)].of, Shifted[Len(Shifted) - 1].of}
           \/ used' = used
    BY <1>15 DEF StoreInRange, Store, Thread, Counts
  <2>2. Shifted \in Seq(Samples)
    BY <2>1
  <2>3. CASE used' = used
    BY <1>15, <2>3 DEF StoreInRange, Store, Thread, Counts
  <2>4. CASE /\ Alternates(Shifted) \/ Converges(Shifted)
             /\ used' \subseteq {Shifted[Len(Shifted)].of, Shifted[Len(Shifted) - 1].of}
    <3>1. Len(Shifted) >= 3
      BY <2>2, <2>4, Three
    <3>2. Shifted[Len(Shifted)] \in Samples /\ Shifted[Len(Shifted) - 1] \in Samples
      BY <2>2, <3>1
    <3>3. used' \subseteq Patterns
      BY <2>4, <3>2 DEF Samples
    <3> QED
      BY <1>15, <3>3 DEF StoreInRange, Store, Thread, Counts
  <2> QED
    BY <2>1, <2>3, <2>4
<1>16. CASE BeginLuxMeasure
  BY <1>16 DEF BeginLuxMeasure
<1>17. CASE Reset
  BY <1>17 DEF Reset, Goto
<1>18. CASE MeasureColor
  BY <1>18 DEF MeasureColor, Goto
<1>19. CASE GetLuxMeasure
  BY <1>19 DEF GetLuxMeasure, Reply, Goto
<1>20. CASE ReplyValid
  BY <1>20 DEF ReplyValid, Reply
<1>21. CASE ReplyNewScale
  BY <1>21 DEF ReplyNewScale, Reply
<1>22. CASE ReplyOutOfRange
  BY <1>22 DEF ReplyOutOfRange, Reply
<1>23. CASE ReplyNotRunning
  BY <1>23 DEF ReplyNotRunning, Reply
<1>24. CASE HandleAnswer
  BY <1>24 DEF HandleAnswer, TakeValue, TakeNothing, AdviseScale, RestartMeasure, Return
<1>25. CASE Pump
  BY <1>25 DEF Pump, Goto
<1>25a. CASE WaitForDynamicIris
  BY <1>25a DEF WaitForDynamicIris, Goto
<1>26. CASE Close
  BY <1>26 DEF Close
<1>27. CASE JoinThread
  BY <1>27 DEF JoinThread, Goto
<1>28. CASE StartThread
  BY <1>28 DEF StartThread, Goto
<1>29. CASE UNCHANGED vars
  BY <1>29 DEF vars
<1> QED
  BY <1>1, <1>2, <1>3, <1>4, <1>5, <1>6, <1>7, <1>8, <1>9, <1>10, <1>11, <1>12,
     <1>13, <1>14, <1>15, <1>16, <1>17, <1>18, <1>19, <1>20, <1>21, <1>22,
     <1>23, <1>24, <1>25, <1>25a, <1>26, <1>27, <1>28, <1>29 DEF Next, LuxThread,
     SetLuxmeterValue, Ui

LEMMA PacketStep == PatternType /\ PacketType /\ [Next]_vars => PacketType'
<1> SUFFICES ASSUME PatternType, PacketType, [Next]_vars PROVE PacketType'
  OBVIOUS
<1>k. ASSUME UNCHANGED <<packet, refScale, current>> PROVE PacketType'
  BY <1>k DEF PacketType
<1>s. ASSUME Store PROVE PacketType'
  <2>1. packet' = NoPacket /\ refScale' = refScale /\ current' = [scale |-> packet.scale, kind |-> packet.kind]
    BY <1>s DEF Store
  <2>2. 0 \in Patterns
    BY SizesAssumption DEF Patterns
  <2> QED
    BY <2>1, <2>2 DEF PacketType, NoPacket, Kinds
<1>1. CASE FallSilent
  BY <1>1, <1>k DEF FallSilent, meter
<1>2. CASE PressButton
  BY <1>2, <1>k DEF PressButton, meter
<1>3. CASE ShowPattern
  BY <1>3, <1>k DEF ShowPattern, meter
<1>4. CASE StartLuxMeasure
  BY <1>4, <1>k DEF StartLuxMeasure, Goto, meter
<1>5. CASE StartLuxMeasures
  BY <1>5, <1>k DEF StartLuxMeasures, meter
<1>6. CASE OpenPort
  BY <1>6, <1>k DEF OpenPort, meter
<1>7. CASE ReceivePacket
  <2>1. PICK scale \in Scales, reading \in Readings :
               packet' = [scale |-> scale, kind |-> reading[1], value |-> reading[2], of |-> light]
    BY <1>7 DEF ReceivePacket
  <2>2. reading[1] \in Kinds /\ reading[2] \in Levels \cup {0}
    BY DEF Readings, Kinds
  <2> QED
    BY <1>7, <2>1, <2>2 DEF ReceivePacket, PacketType, PatternType
<1>8. CASE ReadNothing
  BY <1>8, <1>k DEF ReadNothing, Thread, meter
<1>9. CASE LoopTest
  BY <1>9, <1>k DEF LoopTest, Thread, meter
<1>10. CASE IgnoreNewScale
  <2>1. 0 \in Patterns
    BY SizesAssumption DEF Patterns
  <2> QED
    BY <1>10, <2>1 DEF IgnoreNewScale, PacketType, NoPacket, Kinds
<1>11. CASE StoreOnly
  BY <1>11, <1>s DEF StoreOnly
<1>12. CASE StoreOutOfRange
  BY <1>12, <1>s DEF StoreOutOfRange
<1>13. CASE StoreBackInRange
  BY <1>13, <1>s DEF StoreBackInRange
<1>14. CASE StoreStableAlready
  BY <1>14, <1>s DEF StoreStableAlready
<1>15. CASE StoreInRange
  BY <1>15, <1>s DEF StoreInRange
<1>16. CASE BeginLuxMeasure
  BY <1>16, <1>k DEF BeginLuxMeasure, meter
<1>17. CASE Reset
  BY <1>17, <1>k DEF Reset, Goto, meter
<1>18. CASE MeasureColor
  BY <1>18, <1>k DEF MeasureColor, Goto, meter
<1>19. CASE GetLuxMeasure
  BY <1>19, <1>k DEF GetLuxMeasure, Reply, Goto, meter
<1>20. CASE ReplyValid
  BY <1>20, <1>k DEF ReplyValid, Reply, meter
<1>21. CASE ReplyNewScale
  BY <1>21, <1>k DEF ReplyNewScale, Reply, meter
<1>22. CASE ReplyOutOfRange
  BY <1>22, <1>k DEF ReplyOutOfRange, Reply, meter
<1>23. CASE ReplyNotRunning
  BY <1>23, <1>k DEF ReplyNotRunning, Reply, meter
<1>24. CASE HandleAnswer
  BY <1>24, <1>k DEF HandleAnswer, TakeValue, TakeNothing, AdviseScale, RestartMeasure, Return, meter
<1>25. CASE Pump
  BY <1>25, <1>k DEF Pump, Goto, meter
<1>25a. CASE WaitForDynamicIris
  BY <1>25a, <1>k DEF WaitForDynamicIris, Goto, meter
<1>26. CASE Close
  BY <1>26, <1>k DEF Close, meter
<1>27. CASE JoinThread
  BY <1>27, <1>k DEF JoinThread, Goto, meter
<1>28. CASE StartThread
  BY <1>28, <1>k DEF StartThread, Goto, meter
<1>29. CASE UNCHANGED vars
  BY <1>29, <1>k DEF vars, meter
<1> QED
  BY <1>1, <1>2, <1>3, <1>4, <1>5, <1>6, <1>7, <1>8, <1>9, <1>10, <1>11, <1>12,
     <1>13, <1>14, <1>15, <1>16, <1>17, <1>18, <1>19, <1>20, <1>21, <1>22,
     <1>23, <1>24, <1>25, <1>25a, <1>26, <1>27, <1>28, <1>29 DEF Next, LuxThread,
     SetLuxmeterValue, Ui

LEMMA TypeStep ==
  TypeOK /\ IndexesInBounds /\ PacketInv /\ RangeInv /\ [Next]_vars => TypeOK'
<1> SUFFICES ASSUME TypeOK, IndexesInBounds, PacketInv, RangeInv, [Next]_vars PROVE TypeOK'
  OBVIOUS
<1>1. CallerType' /\ FlagType' /\ PatternType' /\ PacketType'
  BY Parts, CallerStep, FlagStep, PatternStep, PacketStep
<1>2. window' \in Seq(Samples) /\ first' \in 1 .. WindowSize
  BY BoundsStep
<1> QED
  BY <1>1, <1>2 DEF TypeOK, CallerType, FlagType, PatternType, PacketType


\* A packet is received on a scale; its value counts only if it is recent.
LEMMA FlagsStep ==
  TypeOK /\ PacketInv /\ RangeInv /\ [Next]_vars => PacketInv' /\ RangeInv'
<1> SUFFICES ASSUME TypeOK, PacketInv, RangeInv, [Next]_vars PROVE PacketInv' /\ RangeInv'
  OBVIOUS
<1> USE DEF TypeOK, PacketInv, RangeInv, caller, meter, times, measure
<1>1. CASE FallSilent
  BY <1>1 DEF FallSilent
<1>2. CASE PressButton
  BY <1>2 DEF PressButton
<1>3. CASE ShowPattern
  BY <1>3 DEF ShowPattern
<1>4. CASE StartLuxMeasure
  BY <1>4 DEF StartLuxMeasure, Goto
<1>5. CASE StartLuxMeasures
  BY <1>5 DEF StartLuxMeasures
<1>6. CASE OpenPort
  BY <1>6 DEF OpenPort
<1>7. CASE ReceivePacket
  BY <1>7, ScalesAssumption DEF ReceivePacket, Thread, Readings, NoScale, AllScales
<1>8. CASE ReadNothing
  BY <1>8 DEF ReadNothing, Thread
<1>9. CASE LoopTest
  BY <1>9 DEF LoopTest, Thread
<1>10. CASE IgnoreNewScale
  BY <1>10 DEF IgnoreNewScale, Thread
<1>11. CASE StoreOnly
  BY <1>11 DEF StoreOnly, Store, Thread, Counts
<1>12. CASE StoreOutOfRange
  BY <1>12 DEF StoreOutOfRange, Store, Thread, Counts
<1>13. CASE StoreBackInRange
  BY <1>13 DEF StoreBackInRange, Store, Thread, Counts
<1>14. CASE StoreStableAlready
  BY <1>14 DEF StoreStableAlready, Store, Thread, Counts
<1>15. CASE StoreInRange
  BY <1>15 DEF StoreInRange, Store, Thread, Counts
<1>16. CASE BeginLuxMeasure
  BY <1>16 DEF BeginLuxMeasure
<1>17. CASE Reset
  BY <1>17 DEF Reset, Goto
<1>18. CASE MeasureColor
  BY <1>18 DEF MeasureColor, Goto
<1>19. CASE GetLuxMeasure
  BY <1>19 DEF GetLuxMeasure, Reply, Goto
<1>20. CASE ReplyValid
  BY <1>20 DEF ReplyValid, Reply
<1>21. CASE ReplyNewScale
  BY <1>21 DEF ReplyNewScale, Reply
<1>22. CASE ReplyOutOfRange
  <2>1. UNCHANGED <<lux, packet, valueSince, tickSince, outOfRange, valid>>
    BY <1>22 DEF ReplyOutOfRange, Reply
  <2> QED
    BY <2>1
<1>23. CASE ReplyNotRunning
  BY <1>23 DEF ReplyNotRunning, Reply
<1>24. CASE HandleAnswer
  BY <1>24 DEF HandleAnswer, TakeValue, TakeNothing, AdviseScale, RestartMeasure, Return
<1>25. CASE Pump
  BY <1>25 DEF Pump, Goto
<1>25a. CASE WaitForDynamicIris
  BY <1>25a DEF WaitForDynamicIris, Goto
<1>26. CASE Close
  BY <1>26 DEF Close
<1>27. CASE JoinThread
  BY <1>27 DEF JoinThread, Goto
<1>28. CASE StartThread
  BY <1>28 DEF StartThread, Goto
<1>29. CASE UNCHANGED vars
  BY <1>29 DEF vars
<1> QED
  BY <1>1, <1>2, <1>3, <1>4, <1>5, <1>6, <1>7, <1>8, <1>9, <1>10, <1>11, <1>12,
     <1>13, <1>14, <1>15, <1>16, <1>17, <1>18, <1>19, <1>20, <1>21, <1>22,
     <1>23, <1>24, <1>25, <1>25a, <1>26, <1>27, <1>28, <1>29 DEF Next, LuxThread,
     SetLuxmeterValue, Ui

\* A caller waits only inside a measure, and is out of range only with a value that is.
LEMMA WaitStep ==
  TypeOK /\ RangeInv /\ WaitInv /\ AfterInv /\ [Next]_vars => WaitInv' /\ AfterInv'
<1> SUFFICES ASSUME TypeOK, RangeInv, WaitInv, AfterInv, [Next]_vars PROVE WaitInv' /\ AfterInv'
  OBVIOUS
<1> USE DEF TypeOK, RangeInv, WaitInv, AfterInv, caller, meter, times, measure
<1>1. CASE FallSilent
  BY <1>1 DEF FallSilent
<1>2. CASE PressButton
  BY <1>2 DEF PressButton
<1>3. CASE ShowPattern
  BY <1>3 DEF ShowPattern
<1>4. CASE StartLuxMeasure
  BY <1>4 DEF StartLuxMeasure, Goto
<1>5. CASE StartLuxMeasures
  BY <1>5 DEF StartLuxMeasures
<1>6. CASE OpenPort
  BY <1>6 DEF OpenPort
<1>7. CASE ReceivePacket
  BY <1>7 DEF ReceivePacket, Thread
<1>8. CASE ReadNothing
  BY <1>8 DEF ReadNothing, Thread
<1>9. CASE LoopTest
  BY <1>9 DEF LoopTest, Thread
<1>10. CASE IgnoreNewScale
  BY <1>10 DEF IgnoreNewScale, Thread
<1>11. CASE StoreOnly
  BY <1>11 DEF StoreOnly, Store, Thread, Counts
<1>12. CASE StoreOutOfRange
  BY <1>12 DEF StoreOutOfRange, Store, Thread, Counts
<1>13. CASE StoreBackInRange
  BY <1>13 DEF StoreBackInRange, Store, Thread, Counts
<1>14. CASE StoreStableAlready
  BY <1>14 DEF StoreStableAlready, Store, Thread, Counts
<1>15. CASE StoreInRange
  BY <1>15 DEF StoreInRange, Store, Thread, Counts
<1>16. CASE BeginLuxMeasure
  BY <1>16 DEF BeginLuxMeasure
<1>17. CASE Reset
  BY <1>17 DEF Reset, Goto
<1>18. CASE MeasureColor
  BY <1>18 DEF MeasureColor, Goto
<1>19. CASE GetLuxMeasure
  BY <1>19 DEF GetLuxMeasure, Reply, Goto
<1>20. CASE ReplyValid
  BY <1>20 DEF ReplyValid, Reply
<1>21. CASE ReplyNewScale
  BY <1>21 DEF ReplyNewScale, Reply
<1>22. CASE ReplyOutOfRange
  BY <1>22 DEF ReplyOutOfRange, Reply
<1>23. CASE ReplyNotRunning
  BY <1>23 DEF ReplyNotRunning, Reply
<1>24. CASE HandleAnswer
  BY <1>24 DEF HandleAnswer, TakeValue, TakeNothing, AdviseScale, RestartMeasure, Return
<1>25. CASE Pump
  BY <1>25 DEF Pump, Goto
<1>25a. CASE WaitForDynamicIris
  BY <1>25a DEF WaitForDynamicIris, Goto
<1>26. CASE Close
  BY <1>26 DEF Close
<1>27. CASE JoinThread
  BY <1>27 DEF JoinThread, Goto
<1>28. CASE StartThread
  BY <1>28 DEF StartThread, Goto
<1>29. CASE UNCHANGED vars
  BY <1>29 DEF vars
<1> QED
  BY <1>1, <1>2, <1>3, <1>4, <1>5, <1>6, <1>7, <1>8, <1>9, <1>10, <1>11, <1>12,
     <1>13, <1>14, <1>15, <1>16, <1>17, <1>18, <1>19, <1>20, <1>21, <1>22,
     <1>23, <1>24, <1>25, <1>25a, <1>26, <1>27, <1>28, <1>29 DEF Next, LuxThread,
     SetLuxmeterValue, Ui

\* Only values of the pattern of the measure are used.
LEMMA LightStep ==
  TypeOK /\ IndexesInBounds /\ PacketInv /\ RangeInv /\ WaitInv /\ AfterInv /\ LightInv /\ [Next]_vars
    => LightInv'
<1> SUFFICES ASSUME TypeOK, IndexesInBounds, PacketInv, RangeInv, WaitInv, AfterInv, LightInv,
                    [Next]_vars, Measuring', begun'
             PROVE  LightInv'
  BY DEF LightInv
<1> window \in Seq(Samples)
  BY DEF TypeOK
<1> USE DEF LightInv, Measuring, AfterInv, caller, meter, times, measure
<1>1. CASE FallSilent
  BY <1>1 DEF FallSilent
<1>2. CASE PressButton
  BY <1>2 DEF PressButton
<1>3. CASE ShowPattern
  BY <1>3 DEF ShowPattern
<1>4. CASE StartLuxMeasure
  BY <1>4 DEF StartLuxMeasure, Goto
<1>5. CASE StartLuxMeasures
  BY <1>5 DEF StartLuxMeasures
<1>6. CASE OpenPort
  BY <1>6 DEF OpenPort
<1>7. CASE ReceivePacket
  BY <1>7 DEF ReceivePacket, Thread, RangeInv
<1>8. CASE ReadNothing
  BY <1>8 DEF ReadNothing, Thread
<1>9. CASE LoopTest
  BY <1>9 DEF LoopTest, Thread
<1>10. CASE IgnoreNewScale
  BY <1>10 DEF IgnoreNewScale, Thread
<1>11. CASE StoreOnly
  BY <1>11 DEF StoreOnly, Store, Thread, Counts
<1>12. CASE StoreOutOfRange
  BY <1>12 DEF StoreOutOfRange, Store, Thread, Counts
<1>13. CASE StoreBackInRange
  BY <1>13 DEF StoreBackInRange, Store, Thread, Counts
<1>14. CASE StoreStableAlready
  <2>0. Measuring /\ begun
    BY <1>14 DEF StoreStableAlready, Store, Thread, Counts
  <2>1. lux = "packet" /\ packet.kind = "in" /\ valid /\ valueSince /\ valid'
        /\ window' = Shifted /\ first' = FirstMoved /\ used' = PatternsOf(Averaged(Shifted, FirstMoved))
    BY <1>14 DEF StoreStableAlready, Store, Thread, Counts
  <2>2. Sample \in Samples /\ Sample.of = pattern
    BY <2>0, <2>1, Sampled DEF Sample
  <2>3. Shifted \in Seq(Samples) /\ \A k \in 1 .. Len(Shifted) : Shifted[k].of = pattern
    BY <2>0, <2>2, Window DEF IndexesInBounds
  <2>4. Len(Shifted) >= 3 /\ FirstMoved \in 1 .. Len(Shifted)
    BY <2>1, BoundsStep DEF IndexesInBounds
  <2>5. used' = {pattern}
    <3>1. \A x \in Averaged(Shifted, FirstMoved) : x.of = pattern
      BY <2>3, <2>4, Average
    <3>2. Averaged(Shifted, FirstMoved) # {}
      BY <2>3, <2>4, Average
    <3> QED
      BY <2>1, <3>1, <3>2 DEF PatternsOf
  <2> QED
    BY <1>14, <2>1, <2>3, <2>5 DEF StoreStableAlready, Store, Thread, Counts, RangeInv
<1>15. CASE StoreInRange
  <2>0. Measuring /\ begun
    BY <1>15 DEF StoreInRange, Store, Thread, Counts
  <2>1. /\ lux = "packet" /\ packet.kind = "in" /\ valueSince /\ ~valid /\ window' = Shifted
        /\ \/ /\ Alternates(Shifted) \/ Converges(Shifted)
              /\ used' \in {{Shifted[Len(Shifted)].of, Shifted[Len(Shifted) - 1].of}, {Shifted[Len(Shifted)].of}}
           \/ ~valid' /\ used' = used
    BY <1>15 DEF StoreInRange, Store, Thread, Counts
  <2>2. Sample \in Samples /\ Sample.of = pattern
    BY <2>0, <2>1, Sampled DEF Sample
  <2>3. Shifted \in Seq(Samples) /\ \A k \in 1 .. Len(Shifted) : Shifted[k].of = pattern
    BY <2>0, <2>2, Window DEF IndexesInBounds
  <2>4. valid' => used' = {pattern}
    BY <2>1, <2>3, Three
  <2> QED
    BY <1>15, <2>1, <2>3, <2>4 DEF StoreInRange, Store, Thread, Counts, RangeInv
<1>16. CASE BeginLuxMeasure
  BY <1>16 DEF BeginLuxMeasure
<1>17. CASE Reset
  <2>1. pc' \notin {"answer", "close"} /\ window' = <<>> /\ ~valid' /\ ~tickSince' /\ ~valueSince'
    BY <1>17 DEF Reset, Goto, TypeOK
  <2> QED
    BY <2>1
<1>18. CASE MeasureColor
  BY <1>18 DEF MeasureColor, Goto
<1>19. CASE GetLuxMeasure
  BY <1>19 DEF GetLuxMeasure, Reply, Goto
<1>20. CASE ReplyValid
  BY <1>20 DEF ReplyValid, Reply
<1>21. CASE ReplyNewScale
  BY <1>21 DEF ReplyNewScale, Reply
<1>22. CASE ReplyOutOfRange
  BY <1>22 DEF ReplyOutOfRange, Reply
<1>23. CASE ReplyNotRunning
  BY <1>23 DEF ReplyNotRunning, Reply
<1>24. CASE HandleAnswer
  BY <1>24 DEF HandleAnswer, TakeValue, TakeNothing, AdviseScale, RestartMeasure, Return
<1>25. CASE Pump
  BY <1>25 DEF Pump, Goto
<1>25a. CASE WaitForDynamicIris
  BY <1>25a DEF WaitForDynamicIris, Goto
<1>26. CASE Close
  BY <1>26 DEF Close
<1>27. CASE JoinThread
  BY <1>27 DEF JoinThread, Goto
<1>28. CASE StartThread
  BY <1>28 DEF StartThread, Goto
<1>29. CASE UNCHANGED vars
  BY <1>29 DEF vars
<1> QED
  BY <1>1, <1>2, <1>3, <1>4, <1>5, <1>6, <1>7, <1>8, <1>9, <1>10, <1>11, <1>12,
     <1>13, <1>14, <1>15, <1>16, <1>17, <1>18, <1>19, <1>20, <1>21, <1>22,
     <1>23, <1>24, <1>25, <1>25a, <1>26, <1>27, <1>28, <1>29 DEF Next, LuxThread,
     SetLuxmeterValue, Ui

-----------------------------------------------------------------------------
(* The theorems.                                                           *)

LEMMA Always == Spec => []Inv
<1>1. Init => Inv
  <2> SUFFICES ASSUME Init PROVE Inv
    OBVIOUS
  <2> USE SizesAssumption DEF Init
  <2>1. TypeOK
    <3>1. CallerType /\ FlagType
      BY DEF CallerType, FlagType, UiPCs, LuxPCs, Answers, Results
    <3>2. PatternType /\ PacketType
      BY DEF PatternType, PacketType, Patterns, Kinds, NoPacket
    <3> QED
      BY <3>1, <3>2, Parts
  <2>2. IndexesInBounds /\ PacketInv /\ RangeInv /\ WaitInv /\ AfterInv
    BY DEF IndexesInBounds, PacketInv, RangeInv, WaitInv, AfterInv
  <2>3. LightInv
    BY DEF LightInv, Measuring
  <2> QED
    BY <2>1, <2>2, <2>3 DEF Inv
<1>2. Inv /\ [Next]_vars => Inv'
  BY BoundsStep, TypeStep, FlagsStep, WaitStep, LightStep DEF Inv
<1> QED
  BY <1>1, <1>2, PTL DEF Spec

\* What the lux meter's thread and the user interface share keeps its type
\* (ColorHCFR.cpp, the members under m_LuxCritSec).
THEOREM Typing == Spec => []TypeOK
<1>1. Inv => TypeOK
  BY DEF Inv
<1> QED
  BY Always, <1>1, PTL

\* SetLuxmeterValue stays inside of m_LastLuxValues.
THEOREM Bounded == Spec => []SafetyInv
<1>1. Inv => SafetyInv
  BY DEF Inv, SafetyInv
<1> QED
  BY Always, <1>1, PTL

\* GetLuxMeasure never gives the answer that "has no meaning".
THEOREM Meaning == Spec => []AnswerHasMeaning
<1>1. Inv => AnswerHasMeaning
  BY DEF Inv, WaitInv, AnswerHasMeaning
<1> QED
  BY Always, <1>1, PTL

\* The light of a step is that of its pattern, although values come all the time
\* and a packet may be in the air while the pattern changes.
THEOREM OwnLight == Spec => []LightOfThisPattern
<1>1. Inv => LightOfThisPattern
  BY DEF Inv, LightInv, Measuring, LightOfThisPattern
<1> QED
  BY Always, <1>1, PTL
=============================================================================
