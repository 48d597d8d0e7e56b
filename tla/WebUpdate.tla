------------------------------ MODULE WebUpdate ------------------------------
(***************************************************************************)
(* The update check (CWebUpdate.cpp) and the command that runs it          *)
(* (MainFrm.cpp; the check at the start of the program is the same without *)
(* the notices).  A list of files is downloaded by a thread, in a wait     *)
(* that gives up after a hundred rounds; when the program differs from the *)
(* list the user is asked, the installer is downloaded by another thread,  *)
(* in a wait without limit, and offered.                                   *)
(*                                                                         *)
(* What to download, where to and with which result is told in global      *)
(* variables.  The waits and the message boxes dispatch messages, so that  *)
(* a command may run inside another; and the thread of a check that gave   *)
(* up runs on.                                                             *)
(***************************************************************************)
EXTENDS Integers, Sequences

CONSTANTS
  MaxCalls,  \* bound: how many times the user asks for an update
  Rounds     \* t_end, the rounds after which the wait for the list gives up

ASSUME WebUpdateAssumption == MaxCalls \in Nat /\ Rounds \in Nat \ {0}

\* A call starts at most two threads, the list's and the installer's.
Threads == 1..(2 * MaxCalls)
NoThread == 0

VARIABLES
  calls,        \* the running calls of OnUpdateSoft, the innermost last
  begun,        \* how many calls there have been
  localFile,    \* global: the file the next thread writes to
  dloadResult,  \* global: SUCCEEDED(dloadResult) of the last thread to end
  thread,       \* the download threads
  disk          \* what is in the two files

vars == <<calls, begun, localFile, dloadResult, thread, disk>>

Files == {"CheckUpdate.txt", "HCFRSetup.exe"}

Thread == [state : {"unused", "begun", "loading", "ended"},
           file : Files \union {""}, good : BOOLEAN]

(***************************************************************************)
(* A call of the command.  A round of its wait for the list dispatches the *)
(* messages that are there ("pump"), then waits for the thread or another  *)
(* message ("wait"); timer counts the rounds.  handle is its thread, or    *)
(* NoThread when _beginthread failed (the wait is then for the process     *)
(* itself); overlapped says that another download or another call was      *)
(* under way during the one it waits for (history).                        *)
(***************************************************************************)
Call == [pc : {"pump", "wait", "notice", "ask", "download", "offer"},
         timer : 0..Rounds,
         handle : Threads \union {NoThread}, overlapped : BOOLEAN]

TypeOK == /\ calls \in Seq(Call)
          /\ begun \in 0..MaxCalls
          /\ localFile \in Files \union {""}
          /\ dloadResult \in BOOLEAN
          /\ thread \in [Threads -> Thread]
          /\ disk \in [Files -> {"absent", "partial", "whole"}]

\* A global HRESULT is 0, which is S_OK.
Init == /\ calls = <<>>
        /\ begun = 0
        /\ localFile = ""
        /\ dloadResult = TRUE
        /\ thread = [t \in Threads |-> [state |-> "unused", file |-> "", good |-> FALSE]]
        /\ disk \in [Files -> {"absent", "whole"}]

Top == calls[Len(calls)]
At(place) == calls # <<>> /\ Top.pc = place

Live(t) == thread[t].state \in {"begun", "loading"}

-----------------------------------------------------------------------------
(***************************************************************************)
(* The download threads.                                                   *)
(***************************************************************************)
\* The thread reads the global variables when it runs, not when it is begun.
DownloadFile(t) ==
  /\ thread[t].state = "begun"
  /\ thread' = [thread EXCEPT ![t].state = "loading", ![t].file = localFile]
  /\ UNCHANGED <<calls, begun, localFile, dloadResult, disk>>

ThreadEnds(t) ==
  /\ thread[t].state = "loading"
  /\ \E good \in BOOLEAN, left \in {"absent", "partial"} :
       /\ thread' = [thread EXCEPT ![t].state = "ended", ![t].good = good]
       /\ dloadResult' = good
       /\ disk' = [disk EXCEPT ![thread[t].file] = IF good THEN "whole" ELSE left]
  /\ UNCHANGED <<calls, begun, localFile>>

-----------------------------------------------------------------------------
(***************************************************************************)
(* The calls.                                                              *)
(***************************************************************************)
\* _beginthread for a call at place, on top of the calls below it.  (Threads
\* are numbered in the order of their beginning.)
BeginThread(below, place, file) ==
  /\ localFile' = file
  /\ \E t \in Threads \union {NoThread} :
       /\ t \in Threads => /\ thread[t].state = "unused"
                          /\ \A u \in 1..(t - 1) : thread[u].state # "unused"
       /\ thread' = [u \in Threads |->
                       IF u = t THEN [thread[u] EXCEPT !.state = "begun"] ELSE thread[u]]
       /\ calls' = Append([i \in 1..Len(below) |-> [below[i] EXCEPT !.overlapped = TRUE]],
                          [pc |-> place, timer |-> 0, handle |-> t,
                           overlapped |-> \E u \in Threads : Live(u)])

Below == SubSeq(calls, 1, Len(calls) - 1)

\* Every place of a call but the end of a round dispatches messages.
OnUpdateSoft ==
  /\ ~At("wait")
  /\ begun < MaxCalls
  /\ begun' = begun + 1
  /\ BeginThread(calls, "pump", "CheckUpdate.txt")
  /\ UNCHANGED <<dloadResult, disk>>

Turns(place, n) ==
  calls' = [calls EXCEPT ![Len(calls)] = [@ EXCEPT !.pc = place, !.timer = n]]
Goes(place) == Turns(place, Top.timer)
Returns == calls' = Below

Ended == Top.handle # NoThread /\ thread[Top.handle].state = "ended"

\* There are no more messages, or the thread was seen to end.
QueueIsEmpty ==
  /\ At("pump")
  /\ Goes("wait")
  /\ UNCHANGED <<begun, localFile, dloadResult, thread, disk>>

\* Mutant: the rounds are not counted.
RoundEndsUncounted ==
  /\ At("wait")
  /\ Goes("pump")
  /\ UNCHANGED <<begun, localFile, dloadResult, thread, disk>>

\* A message or the time-out ended the wait, and so does a thread that was too
\* fast: it closes its handle as it ends, and a wait for a closed handle fails.
\* After the last round the check is given up.
RoundEnds ==
  /\ At("wait") /\ Top.timer < Rounds
  /\ Turns(IF Top.timer + 1 < Rounds THEN "pump" ELSE "notice", Top.timer + 1)
  /\ UNCHANGED <<begun, localFile, dloadResult, thread, disk>>

\* Mutant: a failed download is parsed.
CheckEndsUnchecked ==
  /\ At("wait") /\ Ended
  /\ disk' = [disk EXCEPT ![localFile] = "absent"]
  /\ (Goes("ask") \/ Returns)
  /\ UNCHANGED <<begun, localFile, dloadResult, thread>>

\* The wait saw the thread end.  The list is read and deleted; whether it
\* names one file that differs is up to the list.  A list that cannot be
\* opened throws, past the end of the command.
CheckEnds ==
  /\ At("wait") /\ Ended
  /\ IF ~dloadResult
     THEN Goes("notice") /\ disk' = disk
     ELSE /\ disk' = [disk EXCEPT ![localFile] = "absent"]
          /\ \/ disk[localFile] # "absent" /\ Goes("ask")
             \/ Returns
  /\ UNCHANGED <<begun, localFile, dloadResult, thread>>

CloseNotice ==
  /\ At("notice")
  /\ Returns
  /\ UNCHANGED <<begun, localFile, dloadResult, thread, disk>>

\* The answer to "do you want to download it".
DownloadDifferent ==
  /\ At("ask")
  /\ BeginThread(Below, "download", "HCFRSetup.exe")
  /\ UNCHANGED <<begun, dloadResult, disk>>

\* No to either question; or the program was not closed after all.
Decline ==
  /\ At("ask") \/ At("offer")
  /\ Returns
  /\ UNCHANGED <<begun, localFile, dloadResult, thread, disk>>

DownloadEnds ==
  /\ At("download") /\ Ended
  /\ IF dloadResult THEN Goes("offer") ELSE Returns
  /\ UNCHANGED <<begun, localFile, dloadResult, thread, disk>>

\* The installer is started and the program closes, with all that runs in it.
Install ==
  /\ At("offer")
  /\ calls' = <<>>
  /\ begun' = MaxCalls
  /\ thread' = [t \in Threads |-> [thread[t] EXCEPT !.state = "ended"]]
  /\ UNCHANGED <<localFile, dloadResult, disk>>

-----------------------------------------------------------------------------
Command == \/ QueueIsEmpty \/ RoundEnds \/ CheckEnds \/ CloseNotice
           \/ DownloadDifferent \/ Decline \/ DownloadEnds \/ Install

Next == \/ OnUpdateSoft
        \/ Command
        \/ \E t \in Threads : DownloadFile(t) \/ ThreadEnds(t)

Spec == Init /\ [][Next]_vars

\* The user interface runs, the messages that wait in a round get fewer, and the
\* user answers the boxes.  A download may hang.
FairSpec == Spec /\ WF_vars(Command)

-----------------------------------------------------------------------------
(***************************************************************************)
(* Properties.                                                             *)
(***************************************************************************)
\* The user is asked about a version only after the list of this very check
\* was downloaded, and an installer is offered only if its own download has
\* succeeded and it is on the disk, unless another download overlapped.
OwnDownloadUnlessOverlapped ==
  \A i \in 1..Len(calls) :
    LET c == calls[i] IN
    c.pc \in {"ask", "offer"} /\ ~c.overlapped =>
      /\ c.handle # NoThread
      /\ thread[c.handle].good
      /\ c.pc = "offer" => disk["HCFRSetup.exe"] = "whole"

SafetyInv == TypeOK /\ OwnDownloadUnlessOverlapped

\* A check ends although its download hangs ("replace with routine below to
\* prevent hang"), whatever calls its pump dispatches, unless one of these waits
\* for an installer, without limit.
Checking(i) == i <= Len(calls) /\ calls[i].pc \in {"pump", "wait"}
CheckReturns ==
  \A i \in 1..MaxCalls : Checking(i) ~> (~Checking(i) \/ At("download"))
=============================================================================
