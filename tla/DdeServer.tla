------------------------------ MODULE DdeServer ------------------------------
(***************************************************************************)
(* The DDE server of a document frame (MultiFrm.cpp): client programs open *)
(* a conversation, post strings of commands, and get one acknowledgement   *)
(* for each string.  A measure command initialises the generator and the   *)
(* sensor of the document, shows its pattern, waits for the dynamic iris   *)
(* and measures.                                                           *)
(*                                                                         *)
(* Handlers nest: whatever waits inside a command dispatches messages, the *)
(* next DDE message included: the wait for the iris, the message box of a  *)
(* failed initialisation, the sheet of CalibrateSensor, the dialog of a    *)
(* Save, the pause after a pattern of the GDI generator, the dialogs of a  *)
(* sensor that wants to be calibrated.  The handler of that message runs   *)
(* to its end before the one it interrupted goes on, and both use the same *)
(* devices.  The clients are external: they follow the DDE protocol (one   *)
(* request outstanding, no terminate while it is).                         *)
(***************************************************************************)
EXTENDS Integers, Sequences

CONSTANTS
  Clients,      \* the client programs
  Scripts,      \* the command strings they post, parsed: sequences of Command
  MaxRequests,  \* bound: the strings one client posts
  Nobody        \* stands for a blank screen

Command == [kind : {"set", "configure", "measure"},
            display : BOOLEAN, no_wait : BOOLEAN, saturation : BOOLEAN]

ASSUME DdeAssumption == /\ Scripts \subseteq Seq(Command)
                        /\ MaxRequests \in Nat
                        /\ Nobody \notin Nat

VARIABLES
  m_bDDERunning, \* the one flag of the frame, whoever talks to it
  talk,          \* what each client believes: "apart", "talking", "closing"
  pending,       \* the clients whose request has no acknowledgement yet
  sent,          \* how many strings each client has posted
  inbox,         \* the posted messages, first to be dispatched first
  stack,         \* the handlers of OnDDEExecute, the innermost last
  generator,     \* the generator is initialised
  sensor,        \* the sensor is initialised
  screen         \* the depth of the handler whose pattern is shown, or Nobody

vars == <<m_bDDERunning, talk, pending, sent, inbox, stack, generator, sensor, screen>>
wires == <<m_bDDERunning, talk, sent, inbox>>
devices == <<generator, sensor, screen>>

Message == [type : {"execute"}, client : Clients, script : Scripts]
             \union [type : {"terminate"}, client : Clients]

(***************************************************************************)
(* A handler.  ok, CmdList and bAckSent are its locals; answers counts     *)
(* the acknowledgements it has posted, reply is the last one, failed says  *)
(* that one of its commands failed, and nested names the clients whose     *)
(* commands have used the devices since this handler was interrupted (the  *)
(* last four are history).                                                 *)
(***************************************************************************)
Places == {"command", "generator", "sensor", "display", "iris", "notice",
           "sheet", "dialog", "report", "measure", "answered"}
Handler == [client : Clients, CmdList : Seq(Command), ok : BOOLEAN,
            bAckSent : BOOLEAN, pc : Places, answers : 0..2, reply : BOOLEAN,
            failed : BOOLEAN, nested : SUBSET Clients]

TypeOK == /\ m_bDDERunning \in BOOLEAN
          /\ talk \in [Clients -> {"apart", "talking", "closing"}]
          /\ pending \subseteq Clients
          /\ sent \in [Clients -> 0..MaxRequests]
          /\ inbox \in Seq(Message)
          /\ stack \in Seq(Handler)
          /\ generator \in BOOLEAN
          /\ sensor \in BOOLEAN
          /\ screen \in Nat \union {Nobody}

\* The constructor of the frame does not initialise m_bDDERunning.
Init == /\ m_bDDERunning \in BOOLEAN
        /\ talk = [c \in Clients |-> "apart"]
        /\ pending = {}
        /\ sent = [c \in Clients |-> 0]
        /\ inbox = <<>>
        /\ stack = <<>>
        /\ generator = FALSE
        /\ sensor = FALSE
        /\ screen = Nobody

Depth == Len(stack)
Top == stack[Depth]
Cmd == Head(Top.CmdList)

\* The user interface thread dispatches messages.  A call on a device may do so
\* on both sides of what it does to the device.
Pumping == stack # <<>> => Top.pc \notin {"command", "answered"}

-----------------------------------------------------------------------------
(***************************************************************************)
(* The clients, and the handlers of their messages.                        *)
(***************************************************************************)
\* WM_DDE_INITIATE is sent, not posted.
OnDDEInitiate(c) ==
  /\ Pumping
  /\ talk[c] = "apart"
  /\ talk' = [talk EXCEPT ![c] = "talking"]
  /\ m_bDDERunning' = TRUE
  /\ UNCHANGED <<pending, sent, inbox, stack, devices>>

PostExecute(c) ==
  /\ talk[c] = "talking"
  /\ c \notin pending
  /\ sent[c] < MaxRequests
  /\ sent' = [sent EXCEPT ![c] = @ + 1]
  /\ pending' = pending \union {c}
  /\ \E s \in Scripts : 
        inbox' = Append(inbox, [type |-> "execute", client |-> c, script |-> s])
  /\ UNCHANGED <<m_bDDERunning, talk, stack, devices>>

PostTerminate(c) ==
  /\ talk[c] = "talking"
  /\ c \notin pending
  /\ talk' = [talk EXCEPT ![c] = "closing"]
  /\ inbox' = Append(inbox, [type |-> "terminate", client |-> c])
  /\ UNCHANGED <<m_bDDERunning, pending, sent, stack, devices>>

Dispatch(type) == /\ Pumping
                  /\ inbox # <<>>
                  /\ Head(inbox).type = type
                  /\ inbox' = Tail(inbox)

NewHandler(c, s) ==
  [client |-> c, CmdList |-> s, ok |-> TRUE, bAckSent |-> FALSE,
   pc |-> "command", answers |-> 0, reply |-> FALSE, failed |-> FALSE,
   nested |-> {}]

\* A string without commands, or one that comes when the flag is down, is
\* dropped: its client gets no acknowledgement.
OnDDEExecute ==
  /\ Dispatch("execute")
  /\ LET m == Head(inbox) IN
     stack' = IF m_bDDERunning /\ m.script # <<>>
              THEN Append(stack, NewHandler(m.client, m.script))
              ELSE stack
  /\ UNCHANGED <<m_bDDERunning, talk, pending, sent, devices>>

\* Any client takes the flag down for all; one that comes second gets no
\* WM_DDE_TERMINATE back.
OnDDETerminate ==
  /\ Dispatch("terminate")
  /\ talk' = IF m_bDDERunning
             THEN [talk EXCEPT ![Head(inbox).client] = "apart"]
             ELSE talk
  /\ m_bDDERunning' = FALSE
  /\ UNCHANGED <<pending, sent, stack, devices>>

-----------------------------------------------------------------------------
(***************************************************************************)
(* The innermost handler runs its commands.                                *)
(***************************************************************************)
At(place) == stack # <<>> /\ Top.pc = place

Becomes(h) == stack' = [stack EXCEPT ![Depth] = h]

\* Mutant: CmdList is a member of the frame, not a local.
DisturbSharedList(h) ==
  stack' = [i \in 1..Depth |->
              IF i = Depth THEN h
              ELSE [stack[i] EXCEPT !.nested = @ \union {Top.client}, !.CmdList = h.CmdList]]

\* The handlers below this one learn that the devices are no longer theirs.
Disturb(h) ==
  stack' = [i \in 1..Depth |->
              IF i = Depth THEN h
              ELSE [stack[i] EXCEPT !.nested = @ \union {Top.client}]]

Goes(h, place) == [h EXCEPT !.pc = place]

\* bOk &= DdeCmdExec(...), and on to the next command.
Finished(h, good) == [h EXCEPT !.pc = "command", !.CmdList = Tail(@),
                               !.ok = @ /\ good, !.failed = @ \/ ~good]

\* Save, SetSensorMatrix and the other settings: one call, either outcome.  So
\* is a command, or a measure, whose name or colour is not recognised.  A Save
\* may ask the user first.
Set ==
  /\ At("command") /\ Top.CmdList # <<>> /\ Cmd.kind = "set"
  /\ \/ \E good \in BOOLEAN : Becomes(Finished(Top, good))
     \/ Becomes(Goes(Top, "dialog"))
  /\ UNCHANGED <<wires, pending, devices>>

CloseDialog ==
  /\ At("dialog")
  /\ \E good \in BOOLEAN : Becomes(Finished(Top, good))
  /\ UNCHANGED <<wires, pending, devices>>

\* SaveCalibrationFile throws when it cannot create the file.  The framework
\* catches that outside of OnDDEExecute, and shows it to the user.
SetThrows ==
  /\ At("command") /\ Top.CmdList # <<>> /\ Cmd.kind = "set"
  /\ Becomes(Goes(Top, "report"))
  /\ UNCHANGED <<wires, pending, devices>>

\* The rest of the string is not executed, nor is it answered.
Abandon ==
  /\ At("report")
  /\ stack' = SubSeq(stack, 1, Depth - 1)
  /\ UNCHANGED <<wires, pending, devices>>

\* CalibrateSensor opens the sheet of the sensor.
Configure ==
  /\ At("command") /\ Top.CmdList # <<>> /\ Cmd.kind = "configure"
  /\ Becomes(Goes(Top, "sheet"))
  /\ UNCHANGED <<wires, pending, devices>>

\* It leaves bOk FALSE: its answer is always negative.
CloseSheet ==
  /\ At("sheet")
  /\ Becomes(Finished(Top, FALSE))
  /\ UNCHANGED <<wires, pending, devices>>

Measure ==
  /\ At("command") /\ Top.CmdList # <<>> /\ Cmd.kind = "measure"
  /\ Becomes(Goes(Top, IF Cmd.display THEN "generator" ELSE "sensor"))
  /\ UNCHANGED <<wires, pending, devices>>

InitGenerator ==
  /\ At("generator")
  /\ \/ /\ generator' = TRUE
        /\ screen' = Nobody
        /\ Disturb(Goes(Top, "sensor"))
     \/ /\ Becomes(Finished(Top, FALSE))
        /\ UNCHANGED <<generator, screen>>
  /\ UNCHANGED <<wires, pending, sensor>>

\* The acknowledgement that does not wait for the measure is sent by the last
\* command only.
Answered(h) == [h EXCEPT !.bAckSent = TRUE, !.answers = @ + 1, !.reply = TRUE]
EarlyAnswer == Len(Top.CmdList) = 1 /\ Cmd.no_wait

\* Where the measure goes when the devices are ready.
Ready == IF Cmd.display /\ ~Cmd.saturation THEN "display" ELSE "measure"

\* Mutant: the caller is not told of the acknowledgement.
InitSensorUntold ==
  /\ At("sensor")
  /\ sensor' = TRUE
  /\ Disturb(Goes(IF EarlyAnswer THEN [Answered(Top) EXCEPT !.bAckSent = FALSE] ELSE Top, Ready))
  /\ pending' = IF EarlyAnswer THEN pending \ {Top.client} ELSE pending
  /\ UNCHANGED <<wires, generator, screen>>

InitSensor ==
  /\ At("sensor")
  /\ sensor' = TRUE
  /\ Disturb(Goes(IF EarlyAnswer THEN Answered(Top) ELSE Top, Ready))
  /\ pending' = IF EarlyAnswer THEN pending \ {Top.client} ELSE pending
  /\ UNCHANGED <<wires, generator, screen>>

\* The sensor tells the user why in a message box, which dispatches messages.
InitSensorFails ==
  /\ At("sensor")
  /\ Becomes(Goes(Top, "notice"))
  /\ UNCHANGED <<wires, pending, devices>>

\* Mutants: the generator is forgotten; the sensor is tried again and again.
CloseNoticeKeepsGenerator ==
  /\ At("notice")
  /\ Becomes(Finished(Top, FALSE))
  /\ UNCHANGED <<wires, pending, devices>>
CloseNoticeRetries ==
  /\ At("notice")
  /\ Becomes(Goes(Top, "sensor"))
  /\ UNCHANGED <<wires, pending, devices>>

CloseNotice ==
  /\ At("notice")
  /\ IF Cmd.display
     THEN /\ generator' = FALSE
          /\ screen' = Nobody
          /\ Disturb(Finished(Top, FALSE))
     ELSE /\ Becomes(Finished(Top, FALSE))
          /\ UNCHANGED <<generator, screen>>
  /\ UNCHANGED <<wires, pending, sensor>>

\* Both are released, the generator also when it was not initialised.
Release == generator' = FALSE /\ sensor' = FALSE /\ screen' = Nobody

\* Mutant: a pattern that could not be shown is measured.
DisplayPatternUnchecked ==
  /\ At("display")
  /\ \/ screen' = Depth /\ Disturb(Goes(Top, "iris"))
     \/ screen' = screen /\ Disturb(Goes(Top, "measure"))
  /\ UNCHANGED <<wires, pending, generator, sensor>>

DisplayPattern ==
  /\ At("display")
  /\ \/ /\ screen' = Depth
        /\ Disturb(Goes(Top, "iris"))
        /\ UNCHANGED <<generator, sensor>>
     \/ /\ Release
        /\ Disturb(Finished(Top, FALSE))
  /\ UNCHANGED <<wires, pending>>

\* WaitForDynamicIris(TRUE) ignores the escape key: it ends with the delay.
IrisIsOver ==
  /\ At("iris")
  /\ Becomes(Goes(Top, "measure"))
  /\ UNCHANGED <<wires, pending, devices>>

\* A saturation is not measured: "TODO" in the source, and bOk is FALSE.
MeasureColor ==
  /\ At("measure")
  /\ \E good \in (IF Cmd.saturation THEN {FALSE} ELSE BOOLEAN) :
        Disturb(Finished(Top, good))
  /\ Release
  /\ UNCHANGED <<wires, pending>>

\* The end of the loop over the commands: one acknowledgement, unless it is
\* sent already.
SendAck ==
  /\ At("command") /\ Top.CmdList = <<>>
  /\ IF Top.bAckSent
     THEN /\ Becomes(Goes(Top, "answered"))
          /\ UNCHANGED pending
     ELSE /\ Becomes([Top EXCEPT !.pc = "answered", !.answers = @ + 1, !.reply = Top.ok])
          /\ pending' = pending \ {Top.client}
  /\ UNCHANGED <<wires, devices>>

Return ==
  /\ At("answered")
  /\ stack' = SubSeq(stack, 1, Depth - 1)
  /\ UNCHANGED <<wires, pending, devices>>

-----------------------------------------------------------------------------
Handlers == \/ Set \/ CloseDialog \/ SetThrows \/ Abandon \/ Configure
            \/ CloseSheet \/ Measure \/ InitGenerator \/ InitSensor
            \/ InitSensorFails \/ CloseNotice \/ DisplayPattern \/ IrisIsOver
            \/ MeasureColor \/ SendAck \/ Return

Next == \/ \E c \in Clients : OnDDEInitiate(c) \/ PostExecute(c) \/ PostTerminate(c)
        \/ OnDDEExecute \/ OnDDETerminate
        \/ Handlers

Spec == Init /\ [][Next]_vars

(***************************************************************************)
(* The thread runs, the delay of the iris ends and the user closes what is *)
(* shown to him; nothing is assumed of the clients.  Messages are          *)
(* dispatched before the delay is looked at again.                         *)
(***************************************************************************)
FairSpec == Spec /\ WF_vars(Handlers)

-----------------------------------------------------------------------------
(***************************************************************************)
(* Properties.                                                             *)
(***************************************************************************)
\* A string that is executed to its end gets exactly one acknowledgement, after
\* its last command or from it, and one that is sent at the end is positive just
\* when all the commands succeeded.  One that is abandoned gets none.
AnsweredOnce ==
  \A i \in 1..Depth :
    LET h == stack[i] IN
    /\ h.answers <= 1
    /\ h.answers = 0 =>
         /\ h.client \in pending
         /\ \A j \in 1..Depth : stack[j].client = h.client /\ stack[j].answers = 0 => j = i
    /\ h.pc = "answered" => /\ h.answers = 1
                            /\ h.CmdList = <<>>
                            /\ ~h.bAckSent => (h.reply <=> ~h.failed)
    /\ h.answers = 1 => Len(h.CmdList) <= 1
    /\ h.pc = "report" => h.answers = 0

\* Whatever failed, and however handlers nested: when none runs, the document
\* holds neither device.
DevicesGivenBack == stack = <<>> => ~generator /\ ~sensor /\ screen = Nobody

\* The handlers that will release what is held.
Working(h) == h.pc \in {"sensor", "notice", "display", "iris", "measure"}
Shows(h) == Working(h) /\ Head(h.CmdList).display
Measures(h) == h.pc \in {"display", "iris", "measure"}

\* What is held is held for a handler that still runs.
HeldForAHandler ==
  /\ generator => \E i \in 1..Depth : Shows(stack[i])
  /\ sensor => \E i \in 1..Depth : Measures(stack[i])
  /\ screen # Nobody => \E i \in 1..Depth : Shows(stack[i])

SafetyInv == TypeOK /\ DevicesGivenBack /\ HeldForAHandler

\* A measure is taken with the sensor initialised and its own pattern shown,
\* unless a nested handler used the devices in between; and the client of a
\* measure can only have caused that itself when it was answered before the
\* measure was made.
OwnPatternUnlessNested ==
  \A i \in 1..Depth :
    LET h == stack[i] IN
    /\ h.client \in h.nested => h.answers = 1
    /\ (i = Depth /\ h.pc = "measure" /\ h.nested = {}) =>
         /\ sensor
         /\ (Cmd.display /\ ~Cmd.saturation) => generator /\ screen = i

\* The handlers all return, so that the frame is free for its user again.
HandlersReturn == (stack # <<>>) ~> (stack = <<>>)

\* Why they do: a handler starts with a message that it takes from the inbox, and
\* each step after that gets on with the string of the innermost handler, or returns
\* from it; those below it stay where they were interrupted.
PlaceLeft(place) ==
  CASE place = "command" -> 5
    [] place = "generator" -> 4
    [] place = "sensor" -> 3
    [] place = "display" -> 2
    [] place \in {"iris", "notice", "sheet", "dialog", "report"} -> 1
    [] OTHER -> 0
GetsOn(h, g) ==
  \/ Len(g.CmdList) < Len(h.CmdList)
  \/ g.CmdList = h.CmdList /\ PlaceLeft(g.pc) < PlaceLeft(h.pc)
SameWork(h, g) == g.CmdList = h.CmdList /\ g.pc = h.pc
HandlersGoOn ==
  [][stack' # stack =>
       \/ /\ Len(stack') = Depth + 1 /\ Len(inbox') < Len(inbox)
          /\ \A i \in 1..Depth : stack'[i] = stack[i]
       \/ /\ Len(stack') = Depth - 1
          /\ \A i \in 1..(Depth - 1) : stack'[i] = stack[i]
       \/ /\ Len(stack') = Depth /\ GetsOn(Top, stack'[Depth])
          /\ \A i \in 1..(Depth - 1) : SameWork(stack[i], stack'[i])]_vars

=============================================================================
