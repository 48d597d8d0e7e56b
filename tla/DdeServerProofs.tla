---------------------------- MODULE DdeServerProofs ----------------------------
(***************************************************************************)
(* Proofs about the DDE server, for any clients, command strings and depth *)
(* of nested handlers.                                                     *)
(***************************************************************************)
EXTENDS DdeServer, SequenceTheorems, TLAPS

-----------------------------------------------------------------------------
(* The inductive invariant.                                                *)

\* What the locals of a handler say at each place: an acknowledgement is sent by
\* the last command, when its devices are ready, or after the loop.
Sound(h) ==
  /\ h.pc \notin {"command", "answered"} => h.CmdList # <<>>
  /\ h.pc = "generator" => Head(h.CmdList).display
  /\ h.pc \in {"display", "iris"} => Head(h.CmdList).display /\ ~Head(h.CmdList).saturation
  /\ h.pc = "answered" => h.CmdList = <<>>
  /\ h.bAckSent =>
       /\ h.answers = 1
       /\ \/ h.pc \in {"display", "iris", "measure"} /\ Len(h.CmdList) = 1
          \/ h.pc \in {"command", "answered"} /\ h.CmdList = <<>>
  /\ ~h.bAckSent => h.answers = IF h.pc = "answered" THEN 1 ELSE 0
  /\ h.ok <=> ~h.failed
  /\ h.pc = "answered" /\ ~h.bAckSent => (h.reply <=> ~h.failed)

AllSound == \A i \in 1..Depth : Sound(stack[i])

\* A client waits for the answer of one string, which is in the inbox or at work;
\* what is below it on the stack, for the same client, is answered.
OneOpen ==
  /\ \A i \in 1..Depth : stack[i].answers = 0 => stack[i].client \in pending
  /\ \A i, j \in 1..Depth : i < j /\ stack[i].client = stack[j].client => stack[i].answers = 1
  /\ \A k \in 1..Len(inbox) : inbox[k].type = "execute" =>
       /\ inbox[k].client \in pending
       /\ \A i \in 1..Depth : stack[i].client = inbox[k].client => stack[i].answers = 1
       /\ \A l \in 1..Len(inbox) : inbox[l].type = "execute" /\ inbox[l].client = inbox[k].client => l = k

NestedAnswered == \A i \in 1..Depth : stack[i].client \in stack[i].nested => stack[i].answers = 1

\* What a handler has set up stays, as long as no nested handler used the devices.
Keeps(h, i, gen, sen, shown) ==
  h.nested = {} =>
    /\ Measures(h) => sen
    /\ Shows(h) => gen
    /\ h.pc = "iris" => shown = i
    /\ h.pc = "measure" /\ Head(h.CmdList).display /\ ~Head(h.CmdList).saturation => shown = i
AllKeep == \A i \in 1..Depth : Keeps(stack[i], i, generator, sensor, screen)

Inv == /\ TypeOK /\ AllSound /\ OneOpen /\ NestedAnswered
       /\ HeldForAHandler /\ AllKeep

-----------------------------------------------------------------------------
(* The steps of the innermost handler.                                     *)

\* A handler leaves the stack.
Leaves == Return \/ Abandon

\* The innermost handler goes on; those below it are only told of it.
Lower(h, g) == g = h \/ g = [h EXCEPT !.nested = @ \union {Top.client}]
Advances ==
  /\ stack # <<>>
  /\ stack' \in Seq(Handler) /\ Len(stack') = Depth
  /\ \A i \in 1..(Depth - 1) : Lower(stack[i], stack'[i])
  /\ LET h == stack'[Depth] IN
     /\ h.client = Top.client /\ h.nested = Top.nested
     /\ Top.answers = 1 => h.answers = 1
     /\ Sound(h)
     /\ \/ pending' = pending
        \/ pending' = pending \ {Top.client} /\ Top.answers = 0 /\ h.answers = 1
  /\ UNCHANGED wires

LEMMA TopTyped ==
  ASSUME TypeOK, stack # <<>>
  PROVE  Depth \in Nat /\ Depth >= 1 /\ Depth \in 1..Depth /\ Top = stack[Depth] /\ Top \in Handler
BY DEF TypeOK, Depth, Top

\* Replacing the innermost handler.
LEMMA Replaced ==
  ASSUME TypeOK, stack # <<>>, NEW h \in Handler, Becomes(h) \/ Disturb(h)
  PROVE  /\ stack' \in Seq(Handler) /\ Len(stack') = Depth
         /\ stack'[Depth] = h
         /\ \A i \in 1..(Depth - 1) : Lower(stack[i], stack'[i])
<1>1. Depth \in Nat /\ Depth >= 1 /\ stack \in Seq(Handler) /\ DOMAIN stack = 1..Depth /\ Top.client \in Clients
  BY TopTyped DEF TypeOK, Depth, Handler
<1>2. CASE Becomes(h)
  BY <1>1, <1>2 DEF Becomes, Lower, Depth
<1>3. CASE Disturb(h)
  <2> DEFINE told(i) == IF i = Depth THEN h ELSE [stack[i] EXCEPT !.nested = @ \union {Top.client}]
             d == Depth
  <2>1. ASSUME NEW i \in 1..d PROVE told(i) \in Handler
    <3>1. stack[i] \in Handler
      BY <1>1
    <3>2. [stack[i] EXCEPT !.nested = @ \union {Top.client}] \in Handler
      BY <1>1, <3>1 DEF Handler
    <3> QED
      BY <3>2
  <2>2. /\ stack' = [i \in 1..d |-> told(i)] /\ d \in Nat /\ d >= 1 /\ d = Depth
        /\ told(d) = h /\ \A i \in 1..(d - 1) : Lower(stack[i], told(i))
    BY <1>1, <1>3 DEF Disturb, Lower
  <2> HIDE DEF told, d
  <2>3. stack' \in Seq(Handler) /\ Len(stack') = d
    BY <2>1, <2>2
  <2>4. \A i \in 1..d : stack'[i] = told(i)
    BY <2>2
  <2> QED
    BY <2>2, <2>3, <2>4
<1> QED
  BY <1>2, <1>3

\* A handler that only goes to another place, or on to its next command.
LEMMA GoesTyped == ASSUME NEW h \in Handler, NEW place \in Places
                   PROVE  /\ Goes(h, place) \in Handler
                          /\ Goes(h, place).pc = place
                          /\ Goes(h, place).client = h.client
                          /\ Goes(h, place).CmdList = h.CmdList
                          /\ Goes(h, place).ok = h.ok
                          /\ Goes(h, place).bAckSent = h.bAckSent
                          /\ Goes(h, place).answers = h.answers
                          /\ Goes(h, place).reply = h.reply
                          /\ Goes(h, place).failed = h.failed
                          /\ Goes(h, place).nested = h.nested
BY DEF Goes, Handler

LEMMA FinishedTyped == ASSUME NEW h \in Handler, h.CmdList # <<>>, NEW good \in BOOLEAN
                   PROVE  /\ Finished(h, good) \in Handler
                          /\ Finished(h, good).pc = "command"
                          /\ Finished(h, good).client = h.client
                          /\ Finished(h, good).CmdList = Tail(h.CmdList)
                          /\ Finished(h, good).ok = (h.ok /\ good)
                          /\ Finished(h, good).bAckSent = h.bAckSent
                          /\ Finished(h, good).answers = h.answers
                          /\ Finished(h, good).failed = (h.failed \/ ~good)
                          /\ Finished(h, good).nested = h.nested
<1>1. Tail(h.CmdList) \in Seq(Command)
  BY DEF Handler
<1>2. (h.ok /\ good) \in BOOLEAN /\ (h.failed \/ ~good) \in BOOLEAN /\ "command" \in Places
  BY DEF Handler, Places
<1> QED
  BY <1>1, <1>2 DEF Finished, Handler

LEMMA FinishedSound ==
  ASSUME NEW h \in Handler, Sound(h), h.pc \notin {"command", "answered"} \/ (h.pc = "command" /\ h.CmdList # <<>>),
         NEW good \in BOOLEAN
  PROVE  Sound(Finished(h, good)) /\ Finished(h, good) \in Handler
<1>1. h.CmdList # <<>> /\ h.CmdList \in Seq(Command) /\ h.bAckSent \in BOOLEAN /\ h.ok \in BOOLEAN /\ h.failed \in BOOLEAN
  BY DEF Sound, Handler
<1>2. Len(h.CmdList) = 1 => Tail(h.CmdList) = <<>>
  <2>1. Tail(h.CmdList) \in Seq(Command) /\ Len(Tail(h.CmdList)) = Len(h.CmdList) - 1
    BY <1>1
  <2> DEFINE rest == Tail(h.CmdList)
  <2>2. rest # <<>> => Len(rest) \in Nat \ {0}
    BY <2>1, EmptySeq
  <2>3. Len(h.CmdList) = 1 => Len(rest) = 0
    BY <1>1, <2>1
  <2> HIDE DEF rest
  <2>4. Len(h.CmdList) = 1 => rest = <<>>
    BY <2>2, <2>3
  <2> QED
    BY <2>4 DEF rest
<1>3. h.bAckSent => h.answers = 1 /\ Len(h.CmdList) = 1
  BY <1>1 DEF Sound
<1>4. ~h.bAckSent => h.answers = 0
  BY DEF Sound
<1>5. h.ok <=> ~h.failed
  BY DEF Sound
<1> DEFINE g == Finished(h, good)
<1>6. /\ g \in Handler /\ g.pc = "command" /\ g.CmdList = Tail(h.CmdList)
      /\ g.bAckSent = h.bAckSent /\ g.answers = h.answers
      /\ g.ok = (h.ok /\ good) /\ g.failed = (h.failed \/ ~good)
  BY <1>1, FinishedTyped
<1> HIDE DEF g
<1>7. g.ok <=> ~g.failed
  BY <1>5, <1>6
<1> QED
  BY <1>1, <1>2, <1>3, <1>4, <1>6, <1>7 DEF Sound, g

LEMMA GoesSound ==
  ASSUME NEW h \in Handler, Sound(h), NEW place \in Places,
         h.pc \notin {"command", "answered"} \/ (h.pc = "command" /\ h.CmdList # <<>>),
         place \notin {"command", "answered"},
         place = "generator" => Head(h.CmdList).display,
         place \in {"display", "iris"} => Head(h.CmdList).display /\ ~Head(h.CmdList).saturation,
         h.bAckSent => place \in {"display", "iris", "measure"}
  PROVE  Sound(Goes(h, place)) /\ Goes(h, place) \in Handler
<1>1. h.CmdList # <<>>
  BY DEF Sound
<1>2. h.bAckSent => h.answers = 1 /\ Len(h.CmdList) = 1
  BY <1>1 DEF Sound
<1>3. ~h.bAckSent => h.answers = 0
  BY DEF Sound
<1>4. h.ok <=> ~h.failed
  BY DEF Sound
<1> QED
  BY <1>1, <1>2, <1>3, <1>4, GoesTyped DEF Sound

LEMMA AnsweredTyped ==
  ASSUME NEW h \in Handler, Sound(h), h.pc = "sensor"
  PROVE  /\ ~h.bAckSent /\ h.answers = 0
         /\ Answered(h) \in Handler
         /\ Answered(h).answers = 1 /\ Answered(h).bAckSent = TRUE /\ Answered(h).reply = TRUE
         /\ Answered(h).client = h.client /\ Answered(h).CmdList = h.CmdList
         /\ Answered(h).ok = h.ok /\ Answered(h).failed = h.failed
         /\ Answered(h).nested = h.nested
<1>1. ~h.bAckSent /\ h.answers = 0
  BY DEF Sound, Handler
<1>2. h.answers + 1 = 1 /\ 1 \in 0..2
  BY <1>1
<1>3. Answered(h) = [h EXCEPT !.bAckSent = TRUE, !.answers = 1, !.reply = TRUE]
  BY <1>2 DEF Answered
<1> QED
  BY <1>1, <1>2, <1>3 DEF Handler

\* Each step of a handler but its last is a step of the innermost one.
LEMMA HandlerAdvances ==
  ASSUME TypeOK, AllSound, Handlers, ~Leaves PROVE Advances
<1> DEFINE t == Top
<1>t. CASE stack = <<>>
  BY <1>t DEF Handlers, Leaves, At, Set, CloseDialog, SetThrows, Abandon, Configure, CloseSheet, Measure, InitGenerator, InitSensor,
        InitSensorFails, CloseNotice, DisplayPattern, IrisIsOver, MeasureColor, SendAck, Return
<1>s. SUFFICES ASSUME stack # <<>> PROVE Advances
  BY <1>t
<1>0. t \in Handler /\ Sound(t) /\ t.client \in Clients
  BY <1>s, TopTyped DEF AllSound, Handler
<1>1. ASSUME NEW h \in Handler, Becomes(h) \/ Disturb(h), Sound(h), h.client = t.client, h.nested = t.nested,
             t.answers = 1 => h.answers = 1, UNCHANGED wires,
             pending' = pending \/ (pending' = pending \ {t.client} /\ t.answers = 0 /\ h.answers = 1)
      PROVE  Advances
  <2>1. /\ stack' \in Seq(Handler) /\ Len(stack') = Depth /\ stack'[Depth] = h
        /\ \A i \in 1..(Depth - 1) : Lower(stack[i], stack'[i])
    BY <1>1, <1>s, Replaced
  <2> QED
    BY <1>1, <1>s, <2>1 DEF Advances
<1>2. ASSUME NEW place \in Places, Becomes(Goes(t, place)) \/ Disturb(Goes(t, place)),
             Sound(Goes(t, place)), UNCHANGED <<wires, pending>>
      PROVE  Advances
  BY <1>0, <1>1, <1>2, GoesTyped
<1>3. ASSUME NEW good \in BOOLEAN, Becomes(Finished(t, good)) \/ Disturb(Finished(t, good)),
             t.pc \notin {"command", "answered"} \/ (t.pc = "command" /\ t.CmdList # <<>>),
             UNCHANGED <<wires, pending>>
      PROVE  Advances
  <2>1. t.CmdList # <<>>
    BY <1>0, <1>3 DEF Sound
  <2> QED
    BY <1>0, <1>1, <1>3, <2>1, FinishedTyped, FinishedSound
<1>e. t.bAckSent => t.pc \in {"display", "iris", "measure", "answered"} \/ t.CmdList = <<>>
  BY <1>0 DEF Sound
<1> HIDE DEF t
<1>4. CASE Set
  <2>1. t.pc = "command" /\ t.CmdList # <<>>
    BY <1>4 DEF Set, At, t
  <2>2. Sound(Goes(t, "dialog"))
    BY <1>0, <1>e, <2>1, GoesSound DEF Places
  <2> QED
    BY <1>4, <1>2, <1>3, <2>1, <2>2 DEF Set, t, Places
<1>16. CASE CloseDialog
  BY <1>16, <1>3 DEF CloseDialog, At, t
<1>17. CASE SetThrows
  <2>1. t.pc = "command" /\ t.CmdList # <<>>
    BY <1>17 DEF SetThrows, At, t
  <2>2. Sound(Goes(t, "report"))
    BY <1>0, <1>e, <2>1, GoesSound DEF Places
  <2> QED
    BY <1>17, <1>2, <2>2 DEF SetThrows, t, Places
<1>5. CASE Configure
  <2>1. Sound(Goes(t, "sheet"))
    BY <1>0, <1>5, <1>e, GoesSound DEF Configure, At, t, Places
  <2> QED
    BY <1>5, <1>2, <2>1 DEF Configure, t, Places
<1>6. CASE CloseSheet
  BY <1>6, <1>3 DEF CloseSheet, At, t
<1>7. CASE Measure
  <2> DEFINE place == IF Cmd.display THEN "generator" ELSE "sensor"
  <2>1. t.pc = "command" /\ t.CmdList # <<>> /\ Cmd = Head(t.CmdList)
    BY <1>7 DEF Measure, At, Cmd, t
  <2>2. Sound(Goes(t, place))
    BY <1>0, <1>e, <2>1, GoesSound DEF Places
  <2> QED
    BY <1>7, <1>2, <2>2 DEF Measure, t, Places
<1>8. CASE InitGenerator
  <2>1. t.pc = "generator"
    BY <1>8 DEF InitGenerator, At, t
  <2>2. Sound(Goes(t, "sensor"))
    BY <1>0, <1>e, <2>1, GoesSound DEF Places, Sound
  <2> QED
    BY <1>8, <1>2, <1>3, <2>1, <2>2 DEF InitGenerator, t, Places
<1>9. CASE InitSensor
  <2> DEFINE a == IF EarlyAnswer THEN Answered(t) ELSE t
  <2>1. t.pc = "sensor" /\ Cmd = Head(t.CmdList) /\ t.CmdList # <<>>
    BY <1>9, <1>0 DEF InitSensor, At, t, Cmd, Sound
  <2>2. ~t.bAckSent /\ t.answers = 0
    BY <1>0, <2>1, AnsweredTyped
  <2>3. Ready \in {"display", "measure"} /\ (Ready = "display" => Head(t.CmdList).display /\ ~Head(t.CmdList).saturation)
    BY <2>1 DEF Ready
  <2>4. Disturb(Goes(a, Ready)) /\ UNCHANGED wires
        /\ pending' = IF EarlyAnswer THEN pending \ {t.client} ELSE pending
    BY <1>9 DEF InitSensor, t
  <2>5. CASE EarlyAnswer
    <3> DEFINE b == Answered(t)
    <3>1. /\ b \in Handler /\ b.bAckSent /\ b.answers = 1 /\ b.CmdList = t.CmdList /\ b.client = t.client
          /\ b.ok = t.ok /\ b.failed = t.failed /\ b.nested = t.nested
      BY <1>0, <2>1, AnsweredTyped
    <3>2. Len(b.CmdList) = 1
      BY <2>5, <3>1 DEF EarlyAnswer, t
    <3>3. Disturb(Goes(b, Ready)) /\ pending' = pending \ {t.client}
      BY <2>4, <2>5
    <3> HIDE DEF b
    <3>4. Ready \in Places
      BY <2>3 DEF Places
    <3> DEFINE g == Goes(b, Ready)
    <3>5. /\ g \in Handler /\ g.pc = Ready /\ g.bAckSent /\ g.answers = 1 /\ g.CmdList = t.CmdList
          /\ g.client = t.client /\ g.ok = t.ok /\ g.failed = t.failed /\ g.nested = t.nested
      BY <3>1, <3>4, GoesTyped
    <3> HIDE DEF g
    <3>6. t.ok <=> ~t.failed
      BY <1>0 DEF Sound
    <3>7. Sound(g)
      BY <2>1, <2>3, <3>1, <3>2, <3>5, <3>6 DEF Sound
    <3> QED
      BY <1>1, <2>2, <2>4, <3>3, <3>5, <3>7 DEF g
  <2>6. CASE ~EarlyAnswer
    <3>1. Sound(Goes(t, Ready))
      BY <1>0, <2>1, <2>2, <2>3, GoesSound DEF Places
    <3> QED
      BY <1>2, <2>3, <2>4, <2>6, <3>1 DEF Places
  <2> QED
    BY <2>5, <2>6
<1>10. CASE InitSensorFails
  <2>1. t.pc = "sensor"
    BY <1>10 DEF InitSensorFails, At, t
  <2>2. Sound(Goes(t, "notice"))
    BY <1>0, <1>e, <2>1, GoesSound DEF Places, Sound
  <2> QED
    BY <1>10, <1>2, <2>2 DEF InitSensorFails, t, Places
<1>11. CASE CloseNotice
  BY <1>11, <1>3 DEF CloseNotice, At, t
<1>12. CASE DisplayPattern
  <2>1. t.pc = "display"
    BY <1>12 DEF DisplayPattern, At, t
  <2>2. Sound(Goes(t, "iris"))
    BY <1>0, <2>1, GoesSound DEF Places, Sound
  <2> QED
    BY <1>12, <1>2, <1>3, <2>1, <2>2 DEF DisplayPattern, t, Places
<1>13. CASE IrisIsOver
  <2>1. t.pc = "iris"
    BY <1>13 DEF IrisIsOver, At, t
  <2>2. Sound(Goes(t, "measure"))
    BY <1>0, <2>1, GoesSound DEF Places, Sound
  <2> QED
    BY <1>13, <1>2, <2>2 DEF IrisIsOver, t, Places
<1>14. CASE MeasureColor
  BY <1>14, <1>3 DEF MeasureColor, At, t
<1>15. CASE SendAck
  <2>1. t.pc = "command" /\ t.CmdList = <<>> /\ UNCHANGED wires
    BY <1>15 DEF SendAck, At, t
  <2>2. CASE t.bAckSent
    <3>1. Sound(Goes(t, "answered"))
      <4>1. t.answers = 1 /\ (t.ok <=> ~t.failed)
        BY <1>0, <2>2 DEF Sound
      <4> QED
        BY <1>0, <2>1, <2>2, <4>1, GoesTyped DEF Sound, Places
    <3> QED
      BY <1>15, <1>2, <2>2, <3>1 DEF SendAck, t, Places
  <2>3. CASE ~t.bAckSent
    <3> DEFINE g == [t EXCEPT !.pc = "answered", !.answers = @ + 1, !.reply = t.ok]
    <3>1. t.answers = 0 /\ (t.ok <=> ~t.failed)
      BY <1>0, <2>1, <2>3 DEF Sound
    <3>a. t.ok \in BOOLEAN /\ "answered" \in Places /\ t.answers + 1 = 1 /\ 1 \in 0..2
      BY <1>0, <3>1 DEF Handler, Places
    <3>d. g = [t EXCEPT !.pc = "answered", !.answers = 1, !.reply = t.ok]
      BY <3>a
    <3>b. /\ g \in Handler /\ g.pc = "answered" /\ g.answers = 1 /\ g.CmdList = t.CmdList
          /\ g.client = t.client /\ g.nested = t.nested /\ g.bAckSent = t.bAckSent
      BY <1>0, <3>a, <3>d DEF Handler
    <3>c. g.ok = t.ok /\ g.failed = t.failed /\ g.reply = t.ok
      BY <1>0 DEF Handler
    <3>2. /\ g \in Handler /\ g.pc = "answered" /\ ~g.bAckSent /\ g.answers = 1 /\ g.CmdList = <<>>
          /\ g.client = t.client /\ g.ok = t.ok /\ g.failed = t.failed /\ g.nested = t.nested /\ g.reply = t.ok
      BY <2>1, <2>3, <3>b, <3>c
    <3>3. Becomes(g) /\ pending' = pending \ {t.client}
      BY <1>15, <2>3 DEF SendAck, t
    <3> HIDE DEF g
    <3>4. Sound(g)
      BY <3>1, <3>2 DEF Sound
    <3> QED
      BY <1>1, <2>1, <3>1, <3>2, <3>3, <3>4
  <2> QED
    BY <2>2, <2>3
<1> QED
  BY <1>4, <1>5, <1>6, <1>7, <1>8, <1>9, <1>10, <1>11, <1>12, <1>13, <1>14, <1>15, <1>16, <1>17
     DEF Handlers, Leaves

-----------------------------------------------------------------------------
(* The other steps.                                                        *)

\* A message that is dispatched leaves the inbox.
LEMMA Dispatched ==
  ASSUME TypeOK, NEW type \in {"execute", "terminate"}, Dispatch(type)
  PROVE  /\ Len(inbox) \in Nat /\ 1 \in 1..Len(inbox) /\ Head(inbox) = inbox[1]
         /\ Head(inbox) \in Message /\ Head(inbox).type = type
         /\ inbox' \in Seq(Message) /\ Len(inbox') = Len(inbox) - 1
         /\ \A k \in 1..Len(inbox') : inbox'[k] = inbox[k + 1] /\ k + 1 \in 1..Len(inbox)
<1>1. inbox \in Seq(Message) /\ inbox # <<>> /\ inbox' = Tail(inbox) /\ Head(inbox).type = type
  BY DEF TypeOK, Dispatch
<1>2. Len(inbox) \in Nat /\ Len(inbox) >= 1
  BY <1>1
<1>3. Head(inbox) = inbox[1] /\ Head(inbox) \in Message
  BY <1>1
<1>4. Tail(inbox) \in Seq(Message) /\ Len(Tail(inbox)) = Len(inbox) - 1
      /\ \A k \in 1..Len(Tail(inbox)) : Tail(inbox)[k] = inbox[k + 1]
  BY <1>1, HeadTailProperties
<1> QED
  BY <1>1, <1>2, <1>3, <1>4

\* A new handler is typed, sound and has asked nothing of the devices.
LEMMA NewTyped ==
  ASSUME NEW c \in Clients, NEW s \in Scripts
  PROVE  LET h == NewHandler(c, s) IN
         /\ h \in Handler /\ Sound(h) /\ h.client = c /\ h.answers = 0
         /\ h.pc = "command" /\ h.nested = {}
<1>1. s \in Seq(Command)
  BY DdeAssumption
<1> QED
  BY <1>1 DEF NewHandler, Handler, Places, Sound

\* A handler that starts is the innermost one.
Starts(h) == /\ Len(stack') = Depth + 1
             /\ stack'[Depth + 1] = h
             /\ \A i \in 1..Depth : stack'[i] = stack[i]

LEMMA ExecuteStarts ==
  ASSUME TypeOK, OnDDEExecute
  PROVE  /\ Head(inbox) \in Message /\ Head(inbox).type = "execute"
         /\ stack' \in Seq(Handler)
         /\ \/ stack' = stack
            \/ \E h \in Handler :
                  /\ Starts(h) /\ Sound(h) /\ h.client = Head(inbox).client
                  /\ h.answers = 0 /\ h.pc = "command" /\ h.nested = {}
<1> DEFINE m == Head(inbox)
<1>1. m \in Message /\ m.type = "execute"
  BY Dispatched DEF OnDDEExecute
<1>2. m.client \in Clients /\ m.script \in Scripts
  BY <1>1 DEF Message
<1> DEFINE h == NewHandler(m.client, m.script)
<1>3. /\ h \in Handler /\ Sound(h) /\ h.client = m.client /\ h.answers = 0
      /\ h.pc = "command" /\ h.nested = {}
  BY <1>2, NewTyped
<1>4. stack' = stack \/ stack' = Append(stack, h)
  BY DEF OnDDEExecute
<1> HIDE DEF m, h
<1>5. stack \in Seq(Handler)
  BY DEF TypeOK
<1>6. CASE stack' = stack
  BY <1>1, <1>5, <1>6 DEF m
<1>7. CASE stack' = Append(stack, h)
  <2>1. /\ Append(stack, h) \in Seq(Handler) /\ Len(Append(stack, h)) = Len(stack) + 1
        /\ \A i \in 1..Len(stack) : Append(stack, h)[i] = stack[i]
        /\ Append(stack, h)[Len(stack) + 1] = h
    BY <1>3, <1>5, AppendProperties
  <2> QED
    BY <1>1, <1>3, <1>7, <2>1 DEF Starts, Depth, m
<1> QED
  BY <1>4, <1>6, <1>7

\* The innermost handler returns, or is abandoned.
LEMMA ReturnPops ==
  ASSUME TypeOK, Leaves
  PROVE  /\ stack # <<>> /\ stack' \in Seq(Handler) /\ Len(stack') = Depth - 1
         /\ \A i \in 1..Len(stack') : stack'[i] = stack[i] /\ i \in 1..(Depth - 1)
<1>1. stack # <<>> /\ stack' = SubSeq(stack, 1, Depth - 1) /\ stack \in Seq(Handler)
  BY DEF Leaves, Return, Abandon, At, TypeOK
<1>2. Depth \in Nat /\ Depth >= 1 /\ Depth = Len(stack)
  BY <1>1, TopTyped DEF Depth
<1>3. /\ SubSeq(stack, 1, Depth - 1) \in Seq(Handler)
      /\ Len(SubSeq(stack, 1, Depth - 1)) = Depth - 1
      /\ \A i \in 1..(Depth - 1) : SubSeq(stack, 1, Depth - 1)[i] = stack[i]
  BY <1>1, <1>2, SubSeqProperties
<1> QED
  BY <1>1, <1>2, <1>3

-----------------------------------------------------------------------------
(* The invariant is inductive: its part about answers.                     *)

LEMMA TypeStep == ASSUME TypeOK, AllSound, Next PROVE TypeOK'
<1> USE DEF TypeOK
<1>1. CASE \E c \in Clients : OnDDEInitiate(c) \/ PostExecute(c) \/ PostTerminate(c)
  <2>1. PICK c \in Clients : OnDDEInitiate(c) \/ PostExecute(c) \/ PostTerminate(c)
    BY <1>1
  <2>2. CASE OnDDEInitiate(c)
    BY <2>2 DEF OnDDEInitiate, devices
  <2>3. CASE PostExecute(c)
    <3>1. PICK s \in Scripts : inbox' = Append(inbox, [type |-> "execute", client |-> c, script |-> s])
      BY <2>3 DEF PostExecute
    <3>2. [type |-> "execute", client |-> c, script |-> s] \in Message
      BY DEF Message
    <3>3. inbox' \in Seq(Message)
      BY <3>1, <3>2
    <3>4. sent[c] + 1 \in 0..MaxRequests
      BY <2>3, DdeAssumption DEF PostExecute
    <3>5. sent' \in [Clients -> 0..MaxRequests]
      BY <2>3, <3>4 DEF PostExecute
    <3> QED
      BY <2>3, <3>3, <3>5 DEF PostExecute, devices
  <2>4. CASE PostTerminate(c)
    <3>1. [type |-> "terminate", client |-> c] \in Message
      BY DEF Message
    <3> QED
      BY <2>4, <3>1 DEF PostTerminate, devices
  <2> QED
    BY <2>1, <2>2, <2>3, <2>4
<1>2. CASE OnDDEExecute
  BY <1>2, Dispatched, ExecuteStarts DEF OnDDEExecute, devices
<1>3. CASE OnDDETerminate
  <2>1. inbox' \in Seq(Message)
    BY <1>3, Dispatched DEF OnDDETerminate
  <2> QED
    BY <1>3, <2>1 DEF OnDDETerminate, devices
<1>4. CASE Leaves
  BY <1>4, ReturnPops DEF Leaves, Return, Abandon, wires, devices
<1>5. CASE Handlers /\ ~Leaves
  <2>1. stack' \in Seq(Handler) /\ pending' \subseteq Clients /\ UNCHANGED wires
    BY <1>5, HandlerAdvances DEF Advances
  <2>2. generator' \in BOOLEAN /\ sensor' \in BOOLEAN /\ screen' \in Nat \union {Nobody}
    <3>1. stack # <<>> => Depth \in Nat
      BY TopTyped
    <3>2. stack # <<>>
      BY <1>5, HandlerAdvances DEF Advances
    <3> QED
      BY <1>5, <3>1, <3>2 DEF Handlers, Leaves, devices, Release, Set, CloseDialog, SetThrows, Abandon, Configure, CloseSheet, Measure, InitGenerator,
         InitSensor, InitSensorFails, CloseNotice, DisplayPattern, IrisIsOver, MeasureColor, SendAck
  <2> QED
    BY <2>1, <2>2 DEF wires
<1> QED
  BY <1>1, <1>2, <1>3, <1>4, <1>5 DEF Next

LEMMA SoundStep == ASSUME TypeOK, AllSound, Next PROVE AllSound'
<1>0. Depth \in Nat /\ (stack # <<>> => Depth >= 1)
  BY TopTyped DEF TypeOK, Depth
<1>1. CASE \E c \in Clients : OnDDEInitiate(c) \/ PostExecute(c) \/ PostTerminate(c)
  BY <1>1 DEF AllSound, Depth, OnDDEInitiate, PostExecute, PostTerminate
<1>2. CASE OnDDEExecute
  <2>1. CASE stack' = stack
    BY <2>1 DEF AllSound, Depth
  <2>2. CASE stack' # stack
    <3>1. PICK h \in Handler : Starts(h) /\ Sound(h)
      BY <1>2, <2>2, ExecuteStarts
    <3>2. \A i \in 1..(Depth + 1) : Sound(stack'[i])
      BY <1>0, <3>1 DEF AllSound, Starts
    <3> QED
      BY <3>1, <3>2 DEF AllSound, Starts, Depth
  <2> QED
    BY <2>1, <2>2
<1>3. CASE OnDDETerminate
  BY <1>3 DEF AllSound, Depth, OnDDETerminate
<1>4. CASE Leaves
  BY <1>4, ReturnPops DEF AllSound, Depth
<1>5. CASE Handlers /\ ~Leaves
  <2>1. Advances
    BY <1>5, HandlerAdvances
  <2>2. ASSUME NEW i \in 1..(Depth - 1) PROVE Sound(stack'[i])
    <3>1. Sound(stack[i]) /\ stack[i] \in Handler /\ Lower(stack[i], stack'[i])
      BY <1>0, <2>1 DEF AllSound, Advances, TypeOK, Depth
    <3> QED
      BY <3>1 DEF Lower, Sound, Handler
  <2>3. Sound(stack'[Depth]) /\ Len(stack') = Depth
    BY <2>1 DEF Advances
  <2>4. \A i \in 1..Depth : Sound(stack'[i])
    BY <1>0, <2>2, <2>3
  <2> QED
    BY <2>3, <2>4 DEF AllSound, Depth
<1> QED
  BY <1>1, <1>2, <1>3, <1>4, <1>5 DEF Next

\* A handler has given no acknowledgement or one.
LEMMA AnswersAre ==
  ASSUME TypeOK, AllSound, NEW i \in 1..Depth PROVE stack[i] \in Handler /\ stack[i].answers \in {0, 1}
<1>1. stack[i] \in Handler /\ Sound(stack[i])
  BY DEF TypeOK, AllSound, Depth
<1>2. stack[i].bAckSent \in BOOLEAN
  BY <1>1 DEF Handler
<1> QED
  BY <1>1, <1>2 DEF Sound

LEMMA OpenStep == ASSUME TypeOK, AllSound, OneOpen, Next PROVE OneOpen'
<1>0. Depth \in Nat /\ (stack # <<>> => Depth >= 1) /\ Len(inbox) \in Nat /\ Depth = Len(stack)
  BY TopTyped DEF TypeOK, Depth
<1>1. CASE \E c \in Clients : OnDDEInitiate(c) \/ PostExecute(c) \/ PostTerminate(c)
  <2>1. PICK c \in Clients : OnDDEInitiate(c) \/ PostExecute(c) \/ PostTerminate(c)
    BY <1>1
  <2>2. CASE OnDDEInitiate(c)
    BY <2>2 DEF OnDDEInitiate, OneOpen, Depth
  <2>3. CASE PostExecute(c)
    <3>1. PICK s \in Scripts : inbox' = Append(inbox, [type |-> "execute", client |-> c, script |-> s])
      BY <2>3 DEF PostExecute
    <3> DEFINE m == [type |-> "execute", client |-> c, script |-> s]
    <3>2. m \in Message /\ m.type = "execute" /\ m.client = c
      BY DEF Message
    <3> HIDE DEF m
    <3>3. /\ Len(inbox') = Len(inbox) + 1 /\ inbox'[Len(inbox) + 1] = m
          /\ \A k \in 1..Len(inbox) : inbox'[k] = inbox[k]
      BY <3>1, <3>2, AppendProperties DEF TypeOK, m
    <3>4. /\ stack' = stack /\ c \notin pending /\ pending' = pending \union {c}
      BY <2>3 DEF PostExecute
    <3>5. \A i \in 1..Depth : stack[i].client = c => stack[i].answers = 1
      BY <3>4, AnswersAre DEF OneOpen
    <3>6. \A k \in 1..Len(inbox) : inbox[k].type = "execute" => inbox[k].client # c
      BY <3>4 DEF OneOpen
    <3>7. \A k \in 1..Len(inbox') : inbox'[k].type = "execute" =>
            /\ inbox'[k].client \in pending'
            /\ \A i \in 1..Depth : stack[i].client = inbox'[k].client => stack[i].answers = 1
            /\ \A l \in 1..Len(inbox') : inbox'[l].type = "execute" /\ inbox'[l].client = inbox'[k].client => l = k
      <4> TAKE k \in 1..Len(inbox')
      <4> HAVE inbox'[k].type = "execute"
      <4>1. CASE k = Len(inbox) + 1
        BY <1>0, <3>2, <3>3, <3>4, <3>5, <3>6, <4>1
      <4>2. CASE k \in 1..Len(inbox)
        BY <1>0, <3>2, <3>3, <3>4, <3>6, <4>2 DEF OneOpen
      <4> QED
        BY <1>0, <3>3, <4>1, <4>2
    <3> QED
      BY <3>4, <3>7 DEF OneOpen, Depth
  <2>4. CASE PostTerminate(c)
    <3> DEFINE m == [type |-> "terminate", client |-> c]
    <3>2. m \in Message /\ m.type # "execute"
      BY DEF Message
    <3>1. inbox' = Append(inbox, m) /\ stack' = stack /\ pending' = pending
      BY <2>4 DEF PostTerminate
    <3> HIDE DEF m
    <3>3. /\ Len(inbox') = Len(inbox) + 1 /\ inbox'[Len(inbox) + 1] = m
          /\ \A k \in 1..Len(inbox) : inbox'[k] = inbox[k]
      BY <3>1, <3>2, AppendProperties DEF TypeOK
    <3>4. \A k \in 1..Len(inbox') : inbox'[k].type = "execute" => k \in 1..Len(inbox) /\ inbox'[k] = inbox[k]
      BY <1>0, <3>2, <3>3
    <3> QED
      BY <3>1, <3>4 DEF OneOpen, Depth
  <2> QED
    BY <2>1, <2>2, <2>3, <2>4
<1>2. CASE OnDDEExecute
  <2>1. /\ 1 \in 1..Len(inbox) /\ Head(inbox) = inbox[1] /\ Head(inbox).type = "execute"
        /\ Len(inbox') = Len(inbox) - 1 /\ pending' = pending
        /\ \A k \in 1..Len(inbox') : inbox'[k] = inbox[k + 1] /\ k + 1 \in 1..Len(inbox)
    BY <1>2, Dispatched DEF OnDDEExecute
  <2>2. \A k \in 1..Len(inbox') : inbox'[k].type = "execute" =>
             /\ inbox'[k].client \in pending /\ inbox'[k].client # inbox[1].client
             /\ \A i \in 1..Depth : stack[i].client = inbox'[k].client => stack[i].answers = 1
             /\ \A l \in 1..Len(inbox') : inbox'[l].type = "execute" /\ inbox'[l].client = inbox'[k].client => l = k
    <3> TAKE k \in 1..Len(inbox')
    <3> HAVE inbox'[k].type = "execute"
    <3>1. k \in Int /\ k + 1 # 1
      BY <1>0, <2>1
    <3>2. \A l \in 1..Len(inbox') : l \in Int /\ (l + 1 = k + 1 => l = k)
      BY <1>0, <2>1
    <3>3. inbox'[k] = inbox[k + 1] /\ k + 1 \in 1..Len(inbox)
      BY <2>1
    <3>4. inbox[k + 1].client # inbox[1].client
      BY <2>1, <3>1, <3>3 DEF OneOpen
    <3> QED
      BY <2>1, <3>2, <3>3, <3>4 DEF OneOpen
  <2>3. CASE stack' = stack
    BY <2>1, <2>2, <2>3 DEF OneOpen, Depth
  <2>4. CASE stack' # stack
    <3>1. PICK h \in Handler : Starts(h) /\ h.client = inbox[1].client /\ h.answers = 0
      BY <1>2, <2>1, <2>4, ExecuteStarts
    <3>2. h.client \in pending /\ \A i \in 1..Depth : stack[i].client = h.client => stack[i].answers = 1
      BY <2>1, <3>1 DEF OneOpen
    <3>s. Len(stack') = Depth + 1 /\ stack'[Depth + 1] = h /\ \A i \in 1..Depth : stack'[i] = stack[i]
      BY <3>1 DEF Starts
    <3>3. \A i \in 1..Len(stack') :
             \/ i = Depth + 1 /\ stack'[i] = h
             \/ i \in 1..Depth /\ stack'[i] = stack[i]
      <4> TAKE i \in 1..Len(stack')
      <4>1. i = Depth + 1 \/ i \in 1..Depth
        BY <1>0, <3>s
      <4> QED
        BY <3>s, <4>1
    <3>4. \A i \in 1..Len(stack') : stack'[i].answers = 0 => stack'[i].client \in pending
      BY <3>2, <3>3 DEF OneOpen
    <3>5. \A i, j \in 1..Len(stack') : i < j /\ stack'[i].client = stack'[j].client => stack'[i].answers = 1
      <4> TAKE i, j \in 1..Len(stack')
      <4> HAVE i < j /\ stack'[i].client = stack'[j].client
      <4>1. i \in 1..Depth /\ stack'[i] = stack[i]
        BY <1>0, <3>1, <3>3 DEF Starts
      <4> QED
        BY <3>2, <3>3, <4>1 DEF OneOpen
    <3>6. \A k \in 1..Len(inbox') : inbox'[k].type = "execute" =>
            \A i \in 1..Len(stack') : stack'[i].client = inbox'[k].client => stack'[i].answers = 1
      BY <2>2, <3>1, <3>3
    <3> QED
      BY <2>1, <2>2, <3>4, <3>5, <3>6 DEF OneOpen, Depth
  <2> QED
    BY <2>3, <2>4
<1>3. CASE OnDDETerminate
  <2>1. /\ Len(inbox') = Len(inbox) - 1 /\ pending' = pending /\ stack' = stack
        /\ \A k \in 1..Len(inbox') : inbox'[k] = inbox[k + 1] /\ k + 1 \in 1..Len(inbox)
    BY <1>3, Dispatched DEF OnDDETerminate
  <2>2. \A k \in 1..Len(inbox') : inbox'[k].type = "execute" =>
             /\ inbox'[k].client \in pending
             /\ \A i \in 1..Depth : stack[i].client = inbox'[k].client => stack[i].answers = 1
             /\ \A l \in 1..Len(inbox') : inbox'[l].type = "execute" /\ inbox'[l].client = inbox'[k].client => l = k
    <3> TAKE k \in 1..Len(inbox')
    <3> HAVE inbox'[k].type = "execute"
    <3>2. \A l \in 1..Len(inbox') : l \in Int /\ (l + 1 = k + 1 => l = k)
      BY <1>0, <2>1
    <3>3. inbox'[k] = inbox[k + 1] /\ k + 1 \in 1..Len(inbox)
      BY <2>1
    <3>4. /\ inbox[k + 1].client \in pending
          /\ \A i \in 1..Depth : stack[i].client = inbox[k + 1].client => stack[i].answers = 1
          /\ \A l \in 1..Len(inbox) : inbox[l].type = "execute" /\ inbox[l].client = inbox[k + 1].client => l = k + 1
      BY <3>3 DEF OneOpen
    <3> QED
      BY <2>1, <3>2, <3>3, <3>4
  <2> QED
    BY <2>1, <2>2 DEF OneOpen, Depth
<1>4. CASE Leaves
  <2>1. /\ pending' = pending /\ inbox' = inbox
        /\ \A i \in 1..Len(stack') : stack'[i] = stack[i] /\ i \in 1..Depth
    BY <1>0, <1>4, ReturnPops DEF Leaves, Return, Abandon, wires
  <2> QED
    BY <2>1 DEF OneOpen, Depth
<1>5. CASE Handlers /\ ~Leaves
  <2>1. Advances
    BY <1>5, HandlerAdvances
  <2>2. stack # <<>> /\ Len(stack') = Depth /\ inbox' = inbox /\ Depth \in 1..Depth
    BY <1>0, <2>1 DEF Advances, wires
  <2>3. \A i \in 1..Depth :
           /\ stack'[i].client = stack[i].client
           /\ stack[i].answers = 1 => stack'[i].answers = 1
           /\ i < Depth => stack'[i].answers = stack[i].answers
    <3> TAKE i \in 1..Depth
    <3>1. CASE i = Depth
      BY <1>0, <2>1, <3>1 DEF Advances, Top
    <3>2. CASE i # Depth
      <4>1. i \in 1..(Depth - 1) /\ stack[i] \in Handler
        BY <1>0, <3>2 DEF TypeOK, Depth
      <4> QED
        BY <2>1, <4>1 DEF Advances, Lower, Handler
    <3> QED
      BY <3>1, <3>2
  <2>4. \A i \in 1..Depth : stack'[i].answers = 0 => stack[i].answers = 0
    <3> TAKE i \in 1..Depth
    <3> QED
      BY <2>3, AnswersAre
  <2>5. \A i, j \in 1..Depth : i < j /\ stack'[i].client = stack'[j].client => stack'[i].answers = 1
    BY <2>3 DEF OneOpen
  <2>6. \A i \in 1..Depth : stack'[i].answers = 0 => stack'[i].client \in pending'
    <3> TAKE i \in 1..Depth
    <3> HAVE stack'[i].answers = 0
    <3>1. stack[i].answers = 0 /\ stack'[i].client = stack[i].client /\ stack[i].client \in pending
      BY <2>3, <2>4 DEF OneOpen
    <3>2. CASE pending' = pending
      BY <3>1, <3>2
    <3>3. CASE pending' = pending \ {Top.client} /\ stack'[Depth].answers = 1
      <4>1. i # Depth
        BY <3>3
      <4>2. i < Depth
        BY <1>0, <4>1
      <4>3. stack[i].client # stack[Depth].client
        BY <2>2, <3>1, <4>2 DEF OneOpen
      <4> QED
        BY <3>1, <3>3, <4>3 DEF Top
    <3> QED
      BY <2>1, <3>2, <3>3 DEF Advances
  <2>7. \A k \in 1..Len(inbox) : inbox[k].type = "execute" => inbox[k].client \in pending'
    <3> TAKE k \in 1..Len(inbox)
    <3> HAVE inbox[k].type = "execute"
    <3>1. inbox[k].client \in pending /\ (stack[Depth].client = inbox[k].client => stack[Depth].answers = 1)
      BY <2>2 DEF OneOpen
    <3> QED
      BY <2>1, <3>1 DEF Advances, Top
  <2>8. \A k \in 1..Len(inbox) : inbox[k].type = "execute" =>
          \A i \in 1..Depth : stack'[i].client = inbox[k].client => stack'[i].answers = 1
    BY <2>3 DEF OneOpen
  <2> QED
    BY <2>2, <2>5, <2>6, <2>7, <2>8 DEF OneOpen, Depth
<1> QED
  BY <1>1, <1>2, <1>3, <1>4, <1>5 DEF Next

LEMMA NestedStep == ASSUME TypeOK, AllSound, OneOpen, NestedAnswered, Next PROVE NestedAnswered'
<1>0. Depth \in Nat /\ (stack # <<>> => Depth >= 1)
  BY TopTyped DEF TypeOK, Depth
<1>1. CASE UNCHANGED stack
  BY <1>1 DEF NestedAnswered, Depth
<1>2. CASE OnDDEExecute /\ stack' # stack
  <2>1. PICK h \in Handler : Starts(h) /\ h.nested = {}
    BY <1>2, ExecuteStarts
  <2>2. \A i \in 1..(Depth + 1) : stack'[i].client \in stack'[i].nested => stack'[i].answers = 1
    BY <1>0, <2>1 DEF NestedAnswered, Starts
  <2> QED
    BY <2>1, <2>2 DEF NestedAnswered, Starts, Depth
<1>3. CASE Leaves
  <2>1. \A i \in 1..Len(stack') : stack'[i] = stack[i] /\ i \in 1..Depth
    BY <1>0, <1>3, ReturnPops
  <2> QED
    BY <2>1 DEF NestedAnswered, Depth
<1>4. CASE Handlers /\ ~Leaves
  <2>1. Advances
    BY <1>4, HandlerAdvances
  <2>2. stack # <<>> /\ Len(stack') = Depth /\ Depth \in 1..Depth
    BY <1>0, <2>1 DEF Advances
  <2>3. ASSUME NEW i \in 1..Depth, stack'[i].client \in stack'[i].nested PROVE stack'[i].answers = 1
    <3>1. CASE i = Depth
      BY <2>1, <2>2, <2>3, <3>1 DEF Advances, NestedAnswered, Top
    <3>2. CASE i # Depth
      <4>1. i \in 1..(Depth - 1) /\ stack[i] \in Handler /\ i < Depth
        BY <1>0, <3>2 DEF TypeOK, Depth
      <4>2. Lower(stack[i], stack'[i])
        BY <2>1, <4>1 DEF Advances
      <4>3. /\ stack'[i].client = stack[i].client /\ stack'[i].answers = stack[i].answers
            /\ stack'[i].nested = stack[i].nested \/ stack'[i].nested = stack[i].nested \union {Top.client}
        BY <4>1, <4>2 DEF Lower, Handler
      <4>4. stack[i].client = Top.client => stack[i].answers = 1
        BY <2>2, <4>1 DEF OneOpen, Top
      <4> QED
        BY <2>3, <4>3, <4>4 DEF NestedAnswered
    <3> QED
      BY <3>1, <3>2
  <2> QED
    BY <2>2, <2>3 DEF NestedAnswered, Depth
<1> QED
  BY <1>1, <1>2, <1>3, <1>4 DEF Next, OnDDEInitiate, PostExecute, PostTerminate, OnDDETerminate

-----------------------------------------------------------------------------
(* The invariant is inductive: its part about the devices.                 *)

\* What a step of the innermost handler, that becomes h, may do to the devices.
LEMMA DevicesFollow ==
  ASSUME TypeOK, HeldForAHandler, AllKeep, stack # <<>>,
         NEW h \in Handler, Disturb(h) \/ (Becomes(h) /\ UNCHANGED devices),
         Keeps(h, Depth, generator', sensor', screen'),
         generator' => Shows(h) \/ (generator /\ ~Shows(Top)),
         sensor' => Measures(h) \/ (sensor /\ ~Measures(Top)),
         screen' # Nobody => Shows(h) \/ (screen # Nobody /\ ~Shows(Top))
  PROVE  HeldForAHandler' /\ AllKeep'
<1>0. Depth \in Nat /\ Depth >= 1 /\ Depth \in 1..Depth /\ Depth = Len(stack) /\ Top = stack[Depth] /\ Top \in Handler
  BY TopTyped DEF Depth
<1>1. /\ stack' \in Seq(Handler) /\ Len(stack') = Depth /\ stack'[Depth] = h
      /\ \A i \in 1..(Depth - 1) : Lower(stack[i], stack'[i])
  BY Replaced
<1>2. stack' # <<>> /\ Depth' = Depth /\ Top' = h
  BY <1>0, <1>1 DEF Depth, Top
<1>3. ASSUME NEW i \in 1..Depth, i # Depth
      PROVE  /\ i \in 1..(Depth - 1) /\ stack[i] \in Handler
             /\ stack'[i].pc = stack[i].pc /\ stack'[i].CmdList = stack[i].CmdList
  <2>1. i \in 1..(Depth - 1) /\ stack[i] \in Handler
    BY <1>0, <1>3 DEF TypeOK
  <2>2. Lower(stack[i], stack'[i])
    BY <1>1, <2>1
  <2> QED
    BY <2>1, <2>2 DEF Lower, Handler
<1>4. HeldForAHandler'
  <2>1. ASSUME generator' PROVE \E i \in 1..Depth : Shows(stack'[i])
    <3>1. CASE Shows(h)
      BY <1>0, <1>1, <3>1
    <3>2. CASE ~Shows(h)
      <4>1. PICK i \in 1..Depth : Shows(stack[i])
        BY <2>1, <3>2 DEF HeldForAHandler
      <4>2. i # Depth
        BY <1>0, <2>1, <3>2, <4>1
      <4> QED
        BY <1>3, <4>1, <4>2 DEF Shows, Working
    <3> QED
      BY <3>1, <3>2
  <2>2. ASSUME sensor' PROVE \E i \in 1..Depth : Measures(stack'[i])
    <3>1. CASE Measures(h)
      BY <1>0, <1>1, <3>1
    <3>2. CASE ~Measures(h)
      <4>1. PICK i \in 1..Depth : Measures(stack[i])
        BY <2>2, <3>2 DEF HeldForAHandler
      <4>2. i # Depth
        BY <1>0, <2>2, <3>2, <4>1
      <4> QED
        BY <1>3, <4>1, <4>2 DEF Measures
    <3> QED
      BY <3>1, <3>2
  <2>3. ASSUME screen' # Nobody PROVE \E i \in 1..Depth : Shows(stack'[i])
    <3>1. CASE Shows(h)
      BY <1>0, <1>1, <3>1
    <3>2. CASE ~Shows(h)
      <4>1. PICK i \in 1..Depth : Shows(stack[i])
        BY <2>3, <3>2 DEF HeldForAHandler
      <4>2. i # Depth
        BY <1>0, <2>3, <3>2, <4>1
      <4> QED
        BY <1>3, <4>1, <4>2 DEF Shows, Working
    <3> QED
      BY <3>1, <3>2
  <2> QED
    BY <1>2, <2>1, <2>2, <2>3 DEF HeldForAHandler
<1>5. AllKeep'
  <2>1. ASSUME NEW i \in 1..Depth PROVE Keeps(stack'[i], i, generator', sensor', screen')
    <3>1. CASE i = Depth
      BY <1>1, <3>1
    <3>2. CASE i # Depth /\ Becomes(h) /\ UNCHANGED devices
      <4>1. stack'[i] = stack[i]
        BY <1>0, <3>2 DEF Becomes, TypeOK
      <4>2. Keeps(stack[i], i, generator, sensor, screen)
        BY DEF AllKeep
      <4>3. generator' = generator /\ sensor' = sensor /\ screen' = screen
        BY <3>2 DEF devices
      <4> QED
        BY <4>1, <4>2, <4>3
    <3>3. CASE i # Depth /\ Disturb(h)
      <4>1. stack'[i] = [stack[i] EXCEPT !.nested = @ \union {Top.client}]
        BY <3>3 DEF Disturb
      <4>2. stack'[i].nested # {}
        BY <1>3, <3>3, <4>1 DEF Handler
      <4> QED
        BY <4>2 DEF Keeps
    <3> QED
      BY <3>1, <3>2, <3>3
  <2> QED
    BY <1>2, <2>1 DEF AllKeep
<1> QED
  BY <1>4, <1>5

LEMMA HandlerDevices ==
  ASSUME TypeOK, AllSound, HeldForAHandler, AllKeep, Handlers, ~Leaves
  PROVE  HeldForAHandler' /\ AllKeep'
<1> DEFINE t == Top
<1>0. stack # <<>>
  BY HandlerAdvances DEF Advances
<1>1. /\ t \in Handler /\ Sound(t) /\ Cmd = Head(t.CmdList)
      /\ Keeps(t, Depth, generator, sensor, screen)
  BY <1>0, TopTyped DEF AllSound, AllKeep, Cmd
<1> HIDE DEF t
<1>3. ASSUME NEW h \in Handler, Disturb(h) \/ (Becomes(h) /\ UNCHANGED devices),
             Keeps(h, Depth, generator', sensor', screen'),
             generator' => Shows(h) \/ (generator /\ ~Shows(t)),
             sensor' => Measures(h) \/ (sensor /\ ~Measures(t)),
             screen' # Nobody => Shows(h) \/ (screen # Nobody /\ ~Shows(t))
      PROVE  HeldForAHandler' /\ AllKeep'
  BY <1>0, <1>3, DevicesFollow DEF t
\* A command that ends holds nothing: its devices were never taken or are released.
<1>4. ASSUME NEW good \in BOOLEAN, t.CmdList # <<>>,
             Disturb(Finished(t, good)) \/ (Becomes(Finished(t, good)) /\ UNCHANGED devices),
             generator' => generator /\ ~Shows(t), sensor' => sensor /\ ~Measures(t),
             screen' # Nobody => screen # Nobody /\ ~Shows(t)
      PROVE  HeldForAHandler' /\ AllKeep'
  <2>1. Finished(t, good) \in Handler /\ Finished(t, good).pc = "command"
    BY <1>1, <1>4, FinishedTyped
  <2> DEFINE h == Finished(t, good)
  <2>2. h \in Handler /\ h.pc = "command"
    BY <2>1
  <2> HIDE DEF h
  <2>3. Keeps(h, Depth, generator', sensor', screen')
    BY <2>2 DEF Keeps, Measures, Shows, Working
  <2> QED
    BY <1>3, <1>4, <2>2, <2>3 DEF h
<1>5. ASSUME NEW place \in Places, Becomes(Goes(t, place)), UNCHANGED devices,
             place \in {"sheet", "dialog", "report", "generator", "answered"}
                \/ (place = "sensor" /\ ~Cmd.display) \/ (place = "notice" /\ t.pc = "sensor")
                \/ (place = "measure" /\ t.pc = "iris"),
             t.pc \in {"sensor", "iris", "command"}, Shows(t) => place \in {"notice", "measure"},
             Measures(t) => place = "measure"
      PROVE  HeldForAHandler' /\ AllKeep'
  <2> DEFINE h == Goes(t, place)
  <2>1. h \in Handler /\ h.pc = place /\ h.CmdList = t.CmdList /\ h.nested = t.nested
    BY <1>1, GoesTyped
  <2>2. Becomes(h)
    BY <1>5
  <2> HIDE DEF h
  <2>3. generator' = generator /\ sensor' = sensor /\ screen' = screen
    BY <1>5 DEF devices
  <2>5. Keeps(h, Depth, generator, sensor, screen)
    BY <1>1, <1>5, <2>1 DEF Keeps, Measures, Shows, Working
  <2>6. Shows(t) => Shows(h)
    BY <1>5, <2>1 DEF Shows, Working
  <2>7. Measures(t) => Measures(h)
    BY <1>5, <2>1 DEF Measures
  <2> QED
    BY <1>3, <1>5, <2>1, <2>2, <2>3, <2>5, <2>6, <2>7
<1>6. t.pc \notin {"command", "answered"} => t.CmdList # <<>>
  BY <1>1 DEF Sound
<1>7. CASE Set
  <2>1. t.pc = "command" /\ t.CmdList # <<>> /\ UNCHANGED devices
    BY <1>7 DEF Set, At, t
  <2>2. CASE \E good \in BOOLEAN : Becomes(Finished(t, good))
    BY <1>4, <2>1, <2>2 DEF devices, Shows, Measures, Working
  <2>3. CASE Becomes(Goes(t, "dialog"))
    BY <1>5, <2>1, <2>3 DEF Places, Shows, Measures, Working
  <2> QED
    BY <1>7, <2>2, <2>3 DEF Set, t
<1>19. CASE CloseDialog
  BY <1>19, <1>4, <1>6 DEF CloseDialog, At, t, devices, Shows, Measures, Working
<1>20. CASE SetThrows
  BY <1>20, <1>5 DEF SetThrows, At, t, Places, Shows, Measures, Working
<1>8. CASE Configure
  BY <1>8, <1>5 DEF Configure, At, t, Places, Shows, Measures, Working
<1>9. CASE CloseSheet
  BY <1>9, <1>4, <1>6 DEF CloseSheet, At, t, devices, Shows, Measures, Working
<1>10. CASE Measure
  BY <1>10, <1>5 DEF Measure, At, t, Places, Shows, Measures, Working
<1>11. CASE InitGenerator
  <2>1. t.pc = "generator" /\ sensor' = sensor
    BY <1>11 DEF InitGenerator, At, t
  <2>2. CASE generator' = TRUE /\ screen' = Nobody /\ Disturb(Goes(t, "sensor"))
    <3> DEFINE h == Goes(t, "sensor")
    <3>1. h \in Handler /\ h.pc = "sensor" /\ h.CmdList = t.CmdList
      BY <1>1, GoesTyped DEF Places
    <3>2. Disturb(h) /\ Head(t.CmdList).display
      BY <1>1, <2>1, <2>2 DEF Sound
    <3> HIDE DEF h
    <3> QED
      BY <1>3, <2>1, <2>2, <3>1, <3>2 DEF Keeps, Shows, Measures, Working
  <2>3. CASE Becomes(Finished(t, FALSE)) /\ UNCHANGED <<generator, screen>>
    BY <1>4, <1>6, <2>1, <2>3 DEF devices, Shows, Measures, Working
  <2> QED
    BY <1>11, <2>2, <2>3 DEF InitGenerator, t
<1>12. CASE InitSensor
  <2> DEFINE a == IF EarlyAnswer THEN Answered(t) ELSE t
  <2>1. t.pc = "sensor"
    BY <1>12 DEF InitSensor, At, t
  <2>2. a \in Handler /\ a.CmdList = t.CmdList /\ a.nested = t.nested
    BY <1>1, <2>1, AnsweredTyped
  <2>3. Disturb(Goes(a, Ready)) /\ sensor' = TRUE /\ generator' = generator /\ screen' = screen
    BY <1>12 DEF InitSensor, t
  <2> HIDE DEF a
  <2> DEFINE h == Goes(a, Ready)
  <2>4. Ready \in Places /\ Ready \in {"display", "measure"}
    BY DEF Ready, Places
  <2>5. h \in Handler /\ h.pc = Ready /\ h.CmdList = t.CmdList /\ h.nested = t.nested
    BY <2>2, <2>4, GoesTyped
  <2>6. Disturb(h)
    BY <2>3
  <2>a. Ready = "measure" => ~Cmd.display \/ Cmd.saturation
    BY DEF Ready
  <2> HIDE DEF h
  <2>7. Keeps(h, Depth, generator', sensor', screen')
    BY <1>1, <2>1, <2>3, <2>4, <2>5, <2>a DEF Keeps, Shows, Measures, Working
  <2>8. Measures(h) /\ (Shows(t) => Shows(h))
    BY <2>1, <2>4, <2>5 DEF Shows, Measures, Working
  <2> QED
    BY <1>3, <2>3, <2>5, <2>6, <2>7, <2>8
<1>13. CASE InitSensorFails
  BY <1>13, <1>5 DEF InitSensorFails, At, t, Places, Shows, Measures, Working
<1>14. CASE CloseNotice
  <2>1. t.pc = "notice" /\ sensor' = sensor
    BY <1>14 DEF CloseNotice, At, t
  <2>a. ~Measures(t) /\ t.CmdList # <<>>
    BY <1>6, <2>1 DEF Measures
  <2>2. CASE Cmd.display
    <3>1. generator' = FALSE /\ screen' = Nobody /\ Disturb(Finished(t, FALSE))
      BY <1>14, <2>2 DEF CloseNotice, t
    <3> QED
      BY <1>4, <2>1, <2>a, <3>1
  <2>3. CASE ~Cmd.display
    <3>1. UNCHANGED <<generator, screen>> /\ Becomes(Finished(t, FALSE))
      BY <1>14, <2>3 DEF CloseNotice, t
    <3>2. ~Shows(t)
      BY <1>1, <2>3 DEF Shows
    <3> QED
      BY <1>4, <2>1, <2>a, <3>1, <3>2 DEF devices
  <2> QED
    BY <2>2, <2>3
<1>15. CASE DisplayPattern
  <2>1. t.pc = "display"
    BY <1>15 DEF DisplayPattern, At, t
  <2>2. CASE screen' = Depth /\ Disturb(Goes(t, "iris")) /\ UNCHANGED <<generator, sensor>>
    <3> DEFINE h == Goes(t, "iris")
    <3>1. h \in Handler /\ h.pc = "iris" /\ h.CmdList = t.CmdList
      BY <1>1, GoesTyped DEF Places
    <3>2. Disturb(h) /\ Head(t.CmdList).display /\ h.nested = t.nested
      BY <1>1, <2>1, <2>2, GoesTyped DEF Sound, Places
    <3> HIDE DEF h
    <3> QED
      BY <1>1, <1>3, <2>1, <2>2, <3>1, <3>2 DEF Keeps, Shows, Measures, Working
  <2>3. CASE Release /\ Disturb(Finished(t, FALSE))
    BY <1>4, <1>6, <2>1, <2>3 DEF Release
  <2> QED
    BY <1>15, <2>2, <2>3 DEF DisplayPattern, t
<1>16. CASE IrisIsOver
  BY <1>16, <1>5 DEF IrisIsOver, At, t, Places
<1>17. CASE MeasureColor
  <2>1. t.pc = "measure" /\ Release
    BY <1>17 DEF MeasureColor, At, t
  <2>2. PICK good \in BOOLEAN : Disturb(Finished(t, good))
    BY <1>17 DEF MeasureColor, t
  <2> QED
    BY <1>4, <1>6, <2>1, <2>2 DEF Release
<1>18. CASE SendAck
  <2>1. t.pc = "command" /\ UNCHANGED devices
    BY <1>18 DEF SendAck, At, t
  <2>2. CASE t.bAckSent
    BY <1>18, <1>5, <2>1, <2>2 DEF SendAck, t, Places, Shows, Measures, Working
  <2>3. CASE ~t.bAckSent
    <3> DEFINE h == stack'[Depth]
    <3>1. Advances
      BY HandlerAdvances
    <3>2. Depth \in 1..Depth /\ DOMAIN stack = 1..Depth
      BY <1>0, TopTyped DEF TypeOK, Depth
    <3>3. h = [t EXCEPT !.pc = "answered", !.answers = @ + 1, !.reply = t.ok] /\ Becomes(h)
      BY <1>18, <2>3, <3>2 DEF SendAck, t, Becomes
    <3>4. h \in Handler /\ h.pc = "answered"
      BY <1>1, <3>1, <3>2, <3>3 DEF Advances, Handler
    <3> HIDE DEF h
    <3>5. Keeps(h, Depth, generator', sensor', screen')
      BY <3>4 DEF Keeps, Measures, Shows, Working
    <3>6. ~Shows(t) /\ ~Measures(t)
      BY <2>1 DEF Shows, Measures, Working
    <3> QED
      BY <1>3, <2>1, <3>3, <3>4, <3>5, <3>6 DEF devices
  <2> QED
    BY <2>2, <2>3
<1> QED
  BY <1>7, <1>8, <1>9, <1>10, <1>11, <1>12, <1>13, <1>14, <1>15, <1>16, <1>17, <1>18,
     <1>19, <1>20 DEF Handlers, Leaves

LEMMA DevicesStep ==
  ASSUME TypeOK, AllSound, HeldForAHandler, AllKeep, Next
  PROVE  HeldForAHandler' /\ AllKeep'
<1>0. Depth \in Nat /\ Depth = Len(stack) /\ stack \in Seq(Handler)
      /\ (stack # <<>> => Depth >= 1 /\ Depth \in 1..Depth /\ Top = stack[Depth])
  BY TopTyped DEF TypeOK, Depth
<1>1. CASE UNCHANGED <<stack, devices>>
  BY <1>1 DEF HeldForAHandler, AllKeep, Depth, devices
<1>2. CASE OnDDEExecute /\ stack' # stack
  <2>1. PICK h \in Handler : Starts(h) /\ h.pc = "command"
    BY <1>2, ExecuteStarts
  <2>2. /\ Len(stack') = Depth + 1 /\ stack'[Depth + 1] = h
        /\ \A i \in 1..Depth : stack'[i] = stack[i] /\ i \in 1..(Depth + 1)
    BY <1>0, <2>1 DEF Starts
  <2>3. generator' = generator /\ sensor' = sensor /\ screen' = screen
    BY <1>2 DEF OnDDEExecute, devices
  <2>4. HeldForAHandler'
    BY <2>2, <2>3 DEF HeldForAHandler, Depth
  <2>5. ASSUME NEW i \in 1..(Depth + 1) PROVE Keeps(stack'[i], i, generator, sensor, screen)
    <3>1. CASE i \in 1..Depth
      BY <2>2, <3>1 DEF AllKeep
    <3>2. CASE i = Depth + 1
      BY <2>1, <2>2, <3>2 DEF Keeps, Measures, Shows, Working
    <3> QED
      BY <1>0, <3>1, <3>2
  <2>6. AllKeep'
    BY <2>2, <2>3, <2>5 DEF AllKeep, Depth
  <2> QED
    BY <2>4, <2>6
<1>3. CASE Leaves
  <2>1. /\ stack # <<>> /\ stack' \in Seq(Handler) /\ Len(stack') = Depth - 1
        /\ \A i \in 1..Len(stack') : stack'[i] = stack[i] /\ i \in 1..(Depth - 1)
    BY <1>3, ReturnPops
  <2>2. Top.pc \in {"answered", "report"} /\ generator' = generator /\ sensor' = sensor /\ screen' = screen
    BY <1>3 DEF Leaves, Return, Abandon, At, devices
  <2>3. \A i \in 1..Depth : i = Depth \/ i \in 1..Len(stack')
    BY <1>0, <2>1
  <2>4. ~Shows(stack[Depth]) /\ ~Measures(stack[Depth])
    BY <1>0, <2>1, <2>2 DEF Shows, Measures, Working
  <2>5. HeldForAHandler'
    BY <2>1, <2>2, <2>3, <2>4 DEF HeldForAHandler, Depth
  <2>6. \A i \in 1..Len(stack') : i \in 1..Depth /\ stack'[i] = stack[i]
    BY <1>0, <2>1
  <2>7. AllKeep'
    BY <2>2, <2>6 DEF AllKeep, Depth
  <2> QED
    BY <2>5, <2>7
<1>4. CASE Handlers /\ ~Leaves
  BY <1>4, HandlerDevices
<1> QED
  BY <1>1, <1>2, <1>3, <1>4 DEF Next, OnDDEInitiate, PostExecute, PostTerminate, OnDDEExecute, OnDDETerminate

-----------------------------------------------------------------------------
LEMMA InvInit == Init => Inv
<1> SUFFICES ASSUME Init PROVE Inv
  OBVIOUS
<1>1. stack = <<>> /\ inbox = <<>> /\ Depth = 0 /\ Len(inbox) = 0
  BY DEF Init, Depth
<1>2. TypeOK
  <2>1. <<>> \in Seq(Message) /\ <<>> \in Seq(Handler)
    BY EmptySeq
  <2> QED
    <3>1. sent \in [Clients -> 0..MaxRequests] /\ talk \in [Clients -> {"apart", "talking", "closing"}]
      BY DdeAssumption DEF Init
    <3> QED
      BY <2>1, <3>1 DEF Init, TypeOK
<1> QED
  BY <1>1, <1>2 DEF Init, Inv, AllSound, OneOpen, NestedAnswered, HeldForAHandler, AllKeep

LEMMA InvStep == Inv /\ [Next]_vars => Inv'
<1> SUFFICES ASSUME Inv, [Next]_vars PROVE Inv'
  OBVIOUS
<1>1. CASE Next
  BY <1>1, TypeStep, SoundStep, OpenStep, NestedStep, DevicesStep DEF Inv
<1>2. CASE UNCHANGED vars
  BY <1>2 DEF vars, Inv, TypeOK, AllSound, OneOpen, NestedAnswered, HeldForAHandler, AllKeep, Depth
<1> QED
  BY <1>1, <1>2

LEMMA Invariance == Spec => []Inv
BY InvInit, InvStep, PTL DEF Spec

-----------------------------------------------------------------------------
\* The state is typed, and what the document holds it holds for a handler that
\* will give it back: nothing is held when none runs (the measure branch of
\* DdeCmdExec, whose every exit releases).
THEOREM Safety == Spec => []SafetyInv
<1>1. Inv => SafetyInv
  <2> SUFFICES ASSUME Inv PROVE SafetyInv
    OBVIOUS
  <2>1. stack = <<>> => Depth = 0
    BY DEF Depth
  <2>2. DevicesGivenBack
    BY <2>1 DEF Inv, HeldForAHandler, DevicesGivenBack
  <2> QED
    BY <2>2 DEF Inv, SafetyInv
<1> QED
  BY <1>1, Invariance, PTL

\* A string of commands that is executed to its end gets one acknowledgement, and a
\* truthful one when it is sent at the end of OnDDEExecute; one whose command throws
\* (SaveCalibrationFile) gets none.
THEOREM Answers == Spec => []AnsweredOnce
<1>1. Inv => AnsweredOnce
  <2> SUFFICES ASSUME Inv, NEW i \in 1..Depth
      PROVE  LET h == stack[i] IN
             /\ h.answers <= 1
             /\ h.answers = 0 =>
                  /\ h.client \in pending
                  /\ \A j \in 1..Depth : stack[j].client = h.client /\ stack[j].answers = 0 => j = i
             /\ h.pc = "answered" => /\ h.answers = 1
                                     /\ h.CmdList = <<>>
                                     /\ ~h.bAckSent => (h.reply <=> ~h.failed)
             /\ h.answers = 1 => Len(h.CmdList) <= 1
             /\ h.pc = "report" => h.answers = 0
    BY DEF AnsweredOnce
  <2>0. Depth \in Nat /\ TypeOK /\ AllSound /\ OneOpen
    BY DEF Inv, TypeOK, Depth
  <2>1. stack[i] \in Handler /\ stack[i].answers \in {0, 1}
    BY <2>0, AnswersAre
  <2>2. Sound(stack[i]) /\ stack[i].bAckSent \in BOOLEAN
    BY <2>0, <2>1 DEF AllSound, Handler
  <2>3. stack[i].answers = 0 => stack[i].client \in pending
    BY <2>0 DEF OneOpen
  <2>4. ASSUME NEW j \in 1..Depth, stack[j].client = stack[i].client, stack[j].answers = 0, stack[i].answers = 0
        PROVE  j = i
    <3>1. ~(i < j) /\ ~(j < i)
      BY <2>0, <2>4 DEF OneOpen
    <3> QED
      BY <2>0, <3>1
  <2>5. stack[i].pc = "answered" => stack[i].answers = 1 /\ stack[i].CmdList = <<>>
    BY <2>2 DEF Sound
  <2>6. stack[i].pc = "answered" /\ ~stack[i].bAckSent => (stack[i].reply <=> ~stack[i].failed)
    BY <2>2 DEF Sound
  <2>7. stack[i].answers = 1 => Len(stack[i].CmdList) <= 1
    <3>1. stack[i].answers = 1 => Len(stack[i].CmdList) = 1 \/ stack[i].CmdList = <<>>
      BY <2>2 DEF Sound
    <3>2. stack[i].CmdList = <<>> => Len(stack[i].CmdList) = 0
      OBVIOUS
    <3>3. stack[i].answers = 1 => Len(stack[i].CmdList) \in {0, 1}
      BY <3>1, <3>2
    <3>4. \A n \in {0, 1} : n <= 1
      OBVIOUS
    <3> QED
      BY <3>3, <3>4
  <2>8. stack[i].pc = "report" => stack[i].answers = 0
    BY <2>2 DEF Sound
  <2> QED
    BY <2>1, <2>3, <2>4, <2>5, <2>6, <2>7, <2>8
<1> QED
  BY <1>1, Invariance, PTL

\* A measure is taken on its own pattern with the sensor ready, unless a
\* nested handler used the devices.
THEOREM OwnPattern == Spec => []OwnPatternUnlessNested
<1>1. Inv => OwnPatternUnlessNested
  <2> SUFFICES ASSUME Inv, NEW i \in 1..Depth
      PROVE  /\ stack[i].client \in stack[i].nested => stack[i].answers = 1
             /\ (i = Depth /\ stack[i].pc = "measure" /\ stack[i].nested = {}) =>
                  /\ sensor
                  /\ (Cmd.display /\ ~Cmd.saturation) => generator /\ screen = i
    BY DEF OwnPatternUnlessNested
  <2>1. stack[i].client \in stack[i].nested => stack[i].answers = 1
    BY DEF Inv, NestedAnswered
  <2>2. Keeps(stack[i], i, generator, sensor, screen)
    BY DEF Inv, AllKeep
  <2>3. i = Depth => Cmd = Head(stack[i].CmdList)
    BY DEF Cmd, Top
  <2> QED
    BY <2>1, <2>2, <2>3 DEF Keeps, Measures, Shows, Working
<1> QED
  BY <1>1, Invariance, PTL

-----------------------------------------------------------------------------
(* The handlers get on with their strings.                                 *)

\* The values of the variant.
LEMMA PlacesCounted ==
  /\ PlaceLeft("command") = 5 /\ PlaceLeft("generator") = 4 /\ PlaceLeft("sensor") = 3
  /\ PlaceLeft("display") = 2 /\ PlaceLeft("iris") = 1 /\ PlaceLeft("notice") = 1
  /\ PlaceLeft("sheet") = 1 /\ PlaceLeft("dialog") = 1 /\ PlaceLeft("report") = 1
  /\ PlaceLeft("measure") = 0 /\ PlaceLeft("answered") = 0
BY DEF PlaceLeft

\* The innermost handler goes on, those below it stay.
TopGetsOn == /\ Len(stack') = Depth /\ GetsOn(Top, stack'[Depth])
             /\ \A i \in 1..(Depth - 1) : SameWork(stack[i], stack'[i])

LEMMA TopReplaced ==
  ASSUME TypeOK, stack # <<>>, NEW h \in Handler, Becomes(h) \/ Disturb(h), GetsOn(Top, h)
  PROVE  TopGetsOn
<1>1. /\ Len(stack') = Depth /\ stack'[Depth] = h
      /\ \A i \in 1..(Depth - 1) : Lower(stack[i], stack'[i])
  BY Replaced
<1>2. ASSUME NEW i \in 1..(Depth - 1) PROVE SameWork(stack[i], stack'[i])
  <2>1. stack[i] \in Handler
    BY TopTyped DEF TypeOK, Depth
  <2> QED
    BY <1>1, <2>1 DEF Lower, SameWork, Handler
<1> QED
  BY <1>1, <1>2 DEF TopGetsOn

\* A step of a handler that does not return.
LEMMA HandlerGetsOn ==
  ASSUME TypeOK, AllSound, Handlers, ~Leaves
  PROVE  TopGetsOn
<1>1. stack # <<>>
  BY DEF Handlers, Leaves, At, Set, CloseDialog, SetThrows, Abandon, Configure, CloseSheet, Measure, InitGenerator, InitSensor,
     InitSensorFails, CloseNotice, DisplayPattern, IrisIsOver, MeasureColor, SendAck, Return
<1> DEFINE t == Top
<1>2. t \in Handler /\ Sound(t) /\ t.CmdList \in Seq(Command)
  BY <1>1, TopTyped DEF AllSound, Handler
<1>3. ASSUME NEW place \in Places, Becomes(Goes(t, place)) \/ Disturb(Goes(t, place)),
             PlaceLeft(place) < PlaceLeft(t.pc)
      PROVE  TopGetsOn
  <2>1. /\ Goes(t, place) \in Handler
        /\ Goes(t, place).CmdList = t.CmdList /\ Goes(t, place).pc = place
    BY <1>2, GoesTyped
  <2>2. GetsOn(t, Goes(t, place))
    BY <1>3, <2>1 DEF GetsOn
  <2> QED
    BY <1>1, <1>3, <2>1, <2>2, TopReplaced
<1>4. ASSUME NEW good \in BOOLEAN, Becomes(Finished(t, good)) \/ Disturb(Finished(t, good)),
             t.pc \notin {"command", "answered"} \/ t.CmdList # <<>>
      PROVE  TopGetsOn
  <2>1. t.CmdList # <<>>
    BY <1>2, <1>4 DEF Sound
  <2>2. Finished(t, good) \in Handler /\ Finished(t, good).CmdList = Tail(t.CmdList)
    BY <1>2, <2>1, FinishedTyped
  <2>3. Len(Tail(t.CmdList)) < Len(t.CmdList)
    BY <1>2, <2>1
  <2>4. GetsOn(t, Finished(t, good))
    BY <2>2, <2>3 DEF GetsOn
  <2> QED
    BY <1>1, <1>4, <2>2, <2>4, TopReplaced
<1> HIDE DEF t
<1>5. CASE CloseDialog \/ CloseSheet \/ MeasureColor
  BY <1>4, <1>5 DEF CloseDialog, CloseSheet, MeasureColor, At, t
<1>10. CASE Set
  BY <1>3, <1>4, <1>10, PlacesCounted DEF Set, At, t, Places
<1>6. CASE SetThrows \/ Configure \/ Measure \/ InitSensorFails \/ IrisIsOver
  BY <1>3, <1>6, PlacesCounted
     DEF SetThrows, Configure, Measure, InitSensorFails, IrisIsOver, At, t, Places
<1>7. CASE InitGenerator \/ CloseNotice \/ DisplayPattern
  <2>1. t.pc \in {"generator", "notice", "display"}
    BY <1>7 DEF InitGenerator, CloseNotice, DisplayPattern, At, t
  <2>2. CASE Becomes(Finished(t, FALSE)) \/ Disturb(Finished(t, FALSE))
    BY <1>4, <2>1, <2>2
  <2>3. CASE InitGenerator /\ Disturb(Goes(t, "sensor"))
    BY <1>3, <2>3, PlacesCounted DEF InitGenerator, At, t, Places
  <2>4. CASE DisplayPattern /\ Disturb(Goes(t, "iris"))
    BY <1>3, <2>4, PlacesCounted DEF DisplayPattern, At, t, Places
  <2> QED
    BY <1>7, <2>2, <2>3, <2>4 DEF InitGenerator, CloseNotice, DisplayPattern, t
<1>8. CASE InitSensor
  <2>1. t.pc = "sensor" /\ Ready \in {"display", "measure"}
    BY <1>8 DEF InitSensor, At, Ready, t
  <2>2. CASE EarlyAnswer
    <3>1. Answered(t) \in Handler /\ Answered(t).CmdList = t.CmdList
      BY <1>2, <2>1, AnsweredTyped
    <3>2. /\ Goes(Answered(t), Ready) \in Handler
          /\ Goes(Answered(t), Ready).CmdList = t.CmdList /\ Goes(Answered(t), Ready).pc = Ready
      BY <2>1, <3>1, GoesTyped DEF Places
    <3>3. GetsOn(t, Goes(Answered(t), Ready))
      BY <2>1, <3>2, PlacesCounted DEF GetsOn
    <3> QED
      BY <1>1, <1>8, <2>2, <3>2, <3>3, TopReplaced DEF InitSensor, t
  <2>3. CASE ~EarlyAnswer
    BY <1>3, <1>8, <2>1, <2>3, PlacesCounted DEF InitSensor, t, Places
  <2> QED
    BY <2>2, <2>3
<1>9. CASE SendAck
  <2>1. t.pc = "command"
    BY <1>9 DEF SendAck, At, t
  <2>2. CASE t.bAckSent
    BY <1>3, <1>9, <2>1, <2>2, PlacesCounted DEF SendAck, t, Places
  <2>3. CASE ~t.bAckSent
    <3> DEFINE h == [t EXCEPT !.pc = "answered", !.answers = @ + 1, !.reply = t.ok]
    <3>1. t.answers = 0
      BY <1>2, <2>1, <2>3 DEF Sound
    <3>2. t.ok \in BOOLEAN /\ "answered" \in Places /\ t.answers + 1 = 1 /\ 1 \in 0..2
      BY <1>2, <3>1 DEF Handler, Places
    <3>3. h = [t EXCEPT !.pc = "answered", !.answers = 1, !.reply = t.ok]
      BY <3>2
    <3>4. h \in Handler /\ h.pc = "answered" /\ h.CmdList = t.CmdList
      BY <1>2, <3>2, <3>3 DEF Handler
    <3>5. GetsOn(t, h)
      BY <2>1, <3>4, PlacesCounted DEF GetsOn
    <3>6. Becomes(h)
      BY <1>9, <2>3 DEF SendAck, t
    <3> QED
      BY <1>1, <3>4, <3>5, <3>6, TopReplaced DEF t
  <2> QED
    BY <2>2, <2>3
<1> QED
  BY <1>5, <1>6, <1>7, <1>8, <1>9, <1>10 DEF Handlers, Leaves

\* A handler takes its message from the inbox when it starts, gets on with its string
\* whenever it is the innermost one, and is left where it is while it is not.
THEOREM HandlersGetOn == Spec => HandlersGoOn
<1>1. ASSUME Inv, Next, stack' # stack
      PROVE  \/ /\ Len(stack') = Depth + 1 /\ Len(inbox') < Len(inbox)
                /\ \A i \in 1..Depth : stack'[i] = stack[i]
             \/ /\ Len(stack') = Depth - 1
                /\ \A i \in 1..(Depth - 1) : stack'[i] = stack[i]
             \/ TopGetsOn
  <2>1. CASE OnDDEExecute
    <3>1. Len(inbox') < Len(inbox)
      BY <1>1, <2>1, Dispatched DEF OnDDEExecute, Inv
    <3> QED
      BY <1>1, <2>1, <3>1, ExecuteStarts DEF Starts, Inv
  <2>2. CASE Handlers
    BY <1>1, <2>2, ReturnPops, HandlerGetsOn DEF Inv
  <2> QED
    BY <1>1, <2>1, <2>2 DEF Next, OnDDEInitiate, PostExecute, PostTerminate, OnDDETerminate
<1>2. ASSUME Inv, [Next]_vars
      PROVE  [stack' # stack =>
                \/ /\ Len(stack') = Depth + 1 /\ Len(inbox') < Len(inbox)
                   /\ \A i \in 1..Depth : stack'[i] = stack[i]
                \/ /\ Len(stack') = Depth - 1
                   /\ \A i \in 1..(Depth - 1) : stack'[i] = stack[i]
                \/ /\ Len(stack') = Depth /\ GetsOn(Top, stack'[Depth])
                   /\ \A i \in 1..(Depth - 1) : SameWork(stack[i], stack'[i])]_vars
  BY <1>1, <1>2 DEF vars, TopGetsOn
<1> QED
  BY <1>2, Invariance, PTL DEF Spec, HandlersGoOn
=============================================================================
