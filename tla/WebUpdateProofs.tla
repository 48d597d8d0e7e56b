---------------------------- MODULE WebUpdateProofs ----------------------------
(***************************************************************************)
(* Proofs about the update check, for any number of calls.                 *)
(***************************************************************************)
EXTENDS WebUpdate, SequenceTheorems, TLAPS

-----------------------------------------------------------------------------
(* The inductive invariant.                                                *)

FileOf(place) == IF place \in {"pump", "wait"} THEN "CheckUpdate.txt" ELSE "HCFRSetup.exe"

\* What the thread of a call that runs alone has done so far: it is given the
\* file of the call, writes to it, and its result is the one that is looked at.
Waits(c, file, result, threads, files) ==
  c.pc \in {"pump", "wait", "download"} /\ c.handle # NoThread =>
    LET t == threads[c.handle] IN
    /\ t.state # "unused"
    /\ t.state = "begun" => file = FileOf(c.pc)
    /\ t.state \in {"loading", "ended"} => t.file = FileOf(c.pc)
    /\ t.state = "ended" =>
         /\ result = t.good
         /\ t.good => files[FileOf(c.pc)] = "whole"

\* What a call that ran alone has found.
Found(c, threads, files) ==
  c.pc \in {"ask", "offer"} =>
    /\ c.handle # NoThread
    /\ threads[c.handle].good
    /\ c.pc = "offer" => files["HCFRSetup.exe"] = "whole"

\* While it works no other thread does, so nobody else touches globals and files.
Alone(c, threads) ==
  c.pc # "notice" => \A t \in Threads \ {c.handle} : threads[t].state \notin {"begun", "loading"}

\* The thread of a call that found something has ended.
Over(c, threads) ==
  c.pc \in {"ask", "offer"} => threads[c.handle].state = "ended"

Good(c, file, result, threads, files) ==
  /\ Waits(c, file, result, threads, files) /\ Found(c, threads, files)
  /\ Alone(c, threads) /\ Over(c, threads)

\* Only the innermost call can have run alone.
Inv ==
  /\ TypeOK
  /\ \A i \in 1..(Len(calls) - 1) : calls[i].overlapped
  /\ calls # <<>> /\ ~Top.overlapped => Good(Top, localFile, dloadResult, thread, disk)

-----------------------------------------------------------------------------
(* The stack of calls.                                                     *)

\* Beginning a call on others leaves those marked as overlapped, and all well typed.
LEMMA Begun ==
  ASSUME NEW below \in Seq(Call), NEW c \in Call
  PROVE  LET all == Append([i \in 1..Len(below) |-> [below[i] EXCEPT !.overlapped = TRUE]], c)
         IN  /\ all \in Seq(Call) /\ all # <<>>
             /\ Len(all) = Len(below) + 1 /\ all[Len(all)] = c
             /\ \A i \in 1..(Len(all) - 1) : all[i].overlapped
<1> DEFINE marked == [i \in 1..Len(below) |-> [below[i] EXCEPT !.overlapped = TRUE]]
<1>1. \A i \in 1..Len(below) : below[i] \in Call
  OBVIOUS
<1>2. \A i \in 1..Len(below) : marked[i] \in Call /\ marked[i].overlapped
  BY <1>1 DEF Call
<1>3. marked \in Seq(Call) /\ Len(marked) = Len(below)
  BY <1>2, Len(below) \in Nat
<1>4. \A i \in 1..Len(below) : marked[i].overlapped
  BY <1>2
<1> HIDE DEF marked
<1> DEFINE all == Append(marked, c)
<1>5. /\ all \in Seq(Call) /\ Len(all) = Len(below) + 1 /\ all # <<>>
      /\ \A i \in 1..Len(below) : all[i] = marked[i]
      /\ all[Len(below) + 1] = c
  BY <1>3
<1>6. all[Len(all)] = c /\ \A i \in 1..(Len(all) - 1) : all[i].overlapped
  BY <1>4, <1>5, Len(below) \in Nat
<1> QED
  BY <1>5, <1>6 DEF marked

LEMMA Depth == ASSUME Inv, calls # <<>> PROVE calls \in Seq(Call) /\ Len(calls) \in Nat /\ Len(calls) > 0
<1>1. calls \in Seq(Call)
  BY DEF Inv, TypeOK
<1> QED
  BY <1>1, EmptySeq

\* A call goes on to another place, or is over.
LEMMA Moved ==
  ASSUME Inv, calls # <<>>, NEW place \in {"pump", "wait", "notice", "ask", "offer"},
         NEW n \in 0..Rounds, Turns(place, n)
  PROVE  /\ calls' \in Seq(Call) /\ calls' # <<>> /\ Len(calls') = Len(calls)
         /\ Top' = [Top EXCEPT !.pc = place, !.timer = n]
         /\ \A i \in 1..(Len(calls') - 1) : calls'[i].overlapped
<1>1. Len(calls) \in Nat /\ Len(calls) > 0 /\ calls \in Seq(Call)
  BY Depth
<1>2. Top \in Call
  BY <1>1 DEF Top
<1>3. [Top EXCEPT !.pc = place, !.timer = n] \in Call
  BY <1>2 DEF Call
<1>4. calls' = [calls EXCEPT ![Len(calls)] = [Top EXCEPT !.pc = place, !.timer = n]]
  BY DEF Turns, Top
<1>5. calls' \in Seq(Call) /\ Len(calls') = Len(calls) /\ calls' # <<>>
  BY <1>1, <1>3, <1>4
<1>6. /\ calls'[Len(calls)] = [Top EXCEPT !.pc = place, !.timer = n]
      /\ \A i \in 1..(Len(calls) - 1) : calls'[i] = calls[i]
  BY <1>1, <1>4
<1>7. Top' = calls'[Len(calls')]
  BY DEF Top
<1> QED
  BY <1>5, <1>6, <1>7 DEF Inv

LEMMA BelowTop ==
  ASSUME Inv, calls # <<>>
  PROVE  /\ Below \in Seq(Call) /\ Len(Below) = Len(calls) - 1
         /\ \A i \in 1..(Len(calls) - 1) : Below[i] = calls[i]
<1>1. Len(calls) \in Nat /\ Len(calls) > 0 /\ calls \in Seq(Call)
  BY Depth
<1> DEFINE n == Len(calls) - 1
<1>2. n \in Nat /\ \A i \in 1..n : calls[i] \in Call
  BY <1>1
<1>3. Below = SubSeq(calls, 1, n)
  BY DEF Below
<1> HIDE DEF n
<1>4. /\ SubSeq(calls, 1, n) \in Seq(Call)
      /\ Len(SubSeq(calls, 1, n)) = IF 1 <= n THEN n - 1 + 1 ELSE 0
      /\ \A i \in 1..(n - 1 + 1) : SubSeq(calls, 1, n)[i] = calls[1 + i - 1]
  BY <1>2, SubSeqProperties
<1>5. Len(Below) = n
  BY <1>2, <1>3, <1>4
<1>6. ASSUME NEW i \in 1..n PROVE Below[i] = calls[i]
  <2>1. i \in 1..(n - 1 + 1) /\ 1 + i - 1 = i
    BY <1>2
  <2> QED
    BY <1>3, <1>4, <2>1
<1> QED
  BY <1>3, <1>4, <1>5, <1>6 DEF n

LEMMA Returned ==
  ASSUME Inv, calls # <<>>, Returns
  PROVE  /\ calls' \in Seq(Call)
         /\ \A i \in 1..(Len(calls') - 1) : calls'[i].overlapped
         /\ calls' # <<>> => Top'.overlapped
<1>1. Len(calls) \in Nat /\ Len(calls) > 0
  BY Depth
<1>2. /\ calls' \in Seq(Call) /\ Len(calls') = Len(calls) - 1
      /\ \A i \in 1..(Len(calls) - 1) : calls'[i] = calls[i]
  BY BelowTop DEF Returns
<1>3. \A i \in 1..Len(calls') : calls'[i].overlapped
  BY <1>2 DEF Inv
<1>4. calls' # <<>> => Len(calls') \in 1..Len(calls')
  BY <1>2, EmptySeq
<1>5. Top' = calls'[Len(calls')]
  BY DEF Top
<1> QED
  BY <1>1, <1>2, <1>3, <1>4, <1>5

-----------------------------------------------------------------------------
(* The invariant is kept.                                                  *)

\* A thread that is begun for a call is the only one, or the call is overlapped.
LEMMA ThreadBegun ==
  ASSUME TypeOK, NEW below \in Seq(Call), NEW place \in {"pump", "download"},
         BeginThread(below, place, FileOf(place)),
         UNCHANGED <<dloadResult, disk>>, begun' \in 0..MaxCalls
  PROVE  Inv'
<1>1. PICK t \in Threads \cup {NoThread} :
         /\ t \in Threads => thread[t].state = "unused"
         /\ thread' = [u \in Threads |->
                         IF u = t THEN [thread[u] EXCEPT !.state = "begun"] ELSE thread[u]]
         /\ calls' = Append([i \in 1..Len(below) |-> [below[i] EXCEPT !.overlapped = TRUE]],
                            [pc |-> place, timer |-> 0, handle |-> t,
                             overlapped |-> \E u \in Threads : Live(u)])
  BY DEF BeginThread
<1> DEFINE c == [pc |-> place, timer |-> 0, handle |-> t, overlapped |-> \E u \in Threads : Live(u)]
<1>2. c \in Call
  <2>1. 0 \in 0..Rounds
    BY WebUpdateAssumption
  <2> QED
    BY <2>1 DEF Call
<1>3. localFile' = FileOf(place) /\ localFile' \in Files
  BY DEF BeginThread, FileOf, Files
<1>4. thread' \in [Threads -> Thread]
  BY <1>1 DEF TypeOK, Thread
<1>5. NoThread \notin Threads
  BY DEF NoThread, Threads
<1> HIDE DEF c
<1>6. /\ calls' \in Seq(Call) /\ calls' # <<>> /\ calls'[Len(calls')] = c
      /\ \A i \in 1..(Len(calls') - 1) : calls'[i].overlapped
  BY <1>1, <1>2, Begun DEF c
<1>7. Top' = c
  BY <1>6 DEF Top
<1>8. ASSUME ~c.overlapped PROVE Good(c, localFile', dloadResult', thread', disk')
  <2>1. c.pc = place /\ c.handle = t /\ \A u \in Threads : ~Live(u)
    BY <1>8 DEF c
  <2>2. t # NoThread => thread'[t].state = "begun"
    BY <1>1, <1>4 DEF TypeOK, Thread
  <2>3. Waits(c, localFile', dloadResult', thread', disk')
    BY <1>3, <2>1, <2>2 DEF Waits
  <2>4. Alone(c, thread')
    BY <1>1, <2>1 DEF Alone, Live
  <2> QED
    BY <2>1, <2>3, <2>4 DEF Good, Found, Over
<1>9. TypeOK'
  BY <1>3, <1>4, <1>6 DEF TypeOK
<1> QED
  BY <1>6, <1>7, <1>8, <1>9 DEF Inv

\* The innermost call goes on, and what it is said to have found is there.
LEMMA CallGoesOn ==
  ASSUME Inv, calls # <<>>, NEW place \in {"pump", "wait", "notice", "ask", "offer"},
         NEW n \in 0..Rounds, Turns(place, n),
         UNCHANGED <<begun, localFile, dloadResult, thread>>,
         disk' \in [Files -> {"absent", "partial", "whole"}],
         Top.pc \in {"pump", "wait", "download"},
         place \in {"ask", "offer"} => Ended /\ dloadResult,
         place = "offer" => Top.pc = "download",
         place # "ask" => UNCHANGED disk,
         place \in {"pump", "wait"} => Top.pc \in {"pump", "wait"}
  PROVE  Inv'
<1> DEFINE c == [Top EXCEPT !.pc = place, !.timer = n]
<1>1. Top \in Call
  BY Depth DEF Top
<1>2. /\ calls' \in Seq(Call) /\ calls' # <<>> /\ Top' = c
      /\ \A i \in 1..(Len(calls') - 1) : calls'[i].overlapped
  BY Moved
<1>3. c.pc = place /\ c.handle = Top.handle /\ c.overlapped = Top.overlapped
  BY <1>1 DEF Call
<1> HIDE DEF c
<1>4. ASSUME ~c.overlapped PROVE Good(c, localFile', dloadResult', thread', disk')
  <2>1. Good(Top, localFile, dloadResult, thread, disk)
    BY <1>3, <1>4 DEF Inv
  <2>2. Waits(c, localFile', dloadResult', thread', disk')
    BY <1>3, <2>1 DEF Good, Waits, FileOf
  <2>3. Alone(c, thread')
    BY <1>3, <2>1 DEF Good, Alone
  <2>4. place \in {"ask", "offer"} =>
           /\ c.handle # NoThread /\ thread[c.handle].state = "ended"
           /\ thread[c.handle].good
           /\ disk[FileOf(Top.pc)] = "whole"
    BY <1>3, <2>1 DEF Good, Waits, Ended
  <2>5. Over(c, thread')
    BY <1>3, <2>4 DEF Over
  <2>6. Found(c, thread', disk')
    BY <1>3, <2>4 DEF Found, FileOf
  <2> QED
    BY <2>2, <2>3, <2>5, <2>6 DEF Good
<1>5. TypeOK'
  BY <1>2 DEF Inv, TypeOK
<1> QED
  BY <1>2, <1>4, <1>5 DEF Inv

LEMMA CallReturns ==
  ASSUME Inv, calls # <<>>, Returns, UNCHANGED <<begun, localFile, dloadResult, thread>>,
         disk' \in [Files -> {"absent", "partial", "whole"}]
  PROVE  Inv'
<1>1. /\ calls' \in Seq(Call)
      /\ \A i \in 1..(Len(calls') - 1) : calls'[i].overlapped
      /\ calls' # <<>> => Top'.overlapped
  BY Returned
<1>2. TypeOK'
  BY <1>1 DEF Inv, TypeOK
<1> QED
  BY <1>1, <1>2 DEF Inv

\* A thread that runs while a call works alone is its own.
LEMMA OwnThread ==
  ASSUME Inv, calls # <<>>, ~Top.overlapped, NEW t \in Threads, Live(t)
  PROVE  Top.pc = "notice" \/ (Top.pc \in {"pump", "wait", "download"} /\ Top.handle = t)
<1>1. Good(Top, localFile, dloadResult, thread, disk) /\ Top \in Call
  <2>1. Top \in Call
    BY Depth DEF Top
  <2> QED
    BY <2>1 DEF Inv
<1>2. Top.pc # "notice" => Top.handle = t
  BY <1>1 DEF Good, Alone, Live
<1>3. Top.pc \notin {"ask", "offer"} \/ Top.handle # t
  BY <1>1 DEF Good, Over, Live
<1>4. Top.pc \in {"pump", "wait", "notice", "ask", "download", "offer"}
  BY <1>1 DEF Call
<1> QED
  BY <1>2, <1>3, <1>4

LEMMA FileRead ==
  ASSUME Inv, NEW t \in Threads, DownloadFile(t)
  PROVE  Inv'
<1>1. thread' \in [Threads -> Thread]
  <2>1. [thread[t] EXCEPT !.state = "loading", !.file = localFile] \in Thread
    BY DEF Inv, TypeOK, Thread
  <2> QED
    BY <2>1 DEF Inv, TypeOK, DownloadFile
<1>2. TypeOK' /\ Top' = Top /\ calls' = calls
  BY <1>1 DEF Inv, TypeOK, DownloadFile, Top
<1>3. /\ thread'[t].state = "loading" /\ thread'[t].file = localFile
      /\ thread'[t].good = thread[t].good
      /\ \A u \in Threads \ {t} : thread'[u] = thread[u]
  BY DEF Inv, TypeOK, DownloadFile, Thread
<1>4. ASSUME calls # <<>>, ~Top.overlapped
      PROVE  Good(Top, localFile', dloadResult', thread', disk')
  <2>1. Good(Top, localFile, dloadResult, thread, disk) /\ Live(t) /\ thread[t].state = "begun"
    BY <1>4 DEF Inv, DownloadFile, Live
  <2>2. Top.pc = "notice" \/ (Top.pc \in {"pump", "wait", "download"} /\ Top.handle = t)
    BY <1>4, <2>1, OwnThread
  <2>3. CASE Top.pc = "notice"
    BY <2>3 DEF Good, Waits, Found, Alone, Over
  <2>4. CASE Top.pc \in {"pump", "wait", "download"} /\ Top.handle = t
    <3>1. t # NoThread
      BY DEF NoThread, Threads
    <3>2. localFile = FileOf(Top.pc)
      BY <2>1, <2>4, <3>1 DEF Good, Waits
    <3>3. Waits(Top, localFile', dloadResult', thread', disk')
      BY <1>3, <2>4, <3>2 DEF Waits
    <3>4. Alone(Top, thread')
      BY <1>3, <2>1, <2>4 DEF Good, Alone
    <3> QED
      BY <2>4, <3>3, <3>4 DEF Good, Found, Over
  <2> QED
    BY <2>2, <2>3, <2>4
<1> QED
  BY <1>2, <1>4 DEF Inv

LEMMA FileWritten ==
  ASSUME Inv, NEW t \in Threads, ThreadEnds(t)
  PROVE  Inv'
<1>1. PICK good \in BOOLEAN, left \in {"absent", "partial"} :
        /\ thread' = [thread EXCEPT ![t].state = "ended", ![t].good = good]
        /\ dloadResult' = good
        /\ disk' = [disk EXCEPT ![thread[t].file] = IF good THEN "whole" ELSE left]
  BY DEF ThreadEnds
<1>2. thread' \in [Threads -> Thread]
  <2>1. [thread[t] EXCEPT !.state = "ended", !.good = good] \in Thread
    BY DEF Inv, TypeOK, Thread
  <2> QED
    BY <1>1, <2>1 DEF Inv, TypeOK
<1>3. TypeOK' /\ Top' = Top /\ calls' = calls
  <2>1. disk' \in [Files -> {"absent", "partial", "whole"}]
    BY <1>1 DEF Inv, TypeOK
  <2> QED
    BY <1>1, <1>2, <2>1 DEF Inv, TypeOK, ThreadEnds, Top
<1>4. /\ thread'[t].state = "ended" /\ thread'[t].file = thread[t].file
      /\ thread'[t].good = good
      /\ \A u \in Threads \ {t} : thread'[u] = thread[u]
  BY <1>1 DEF Inv, TypeOK, Thread
<1>5. ASSUME calls # <<>>, ~Top.overlapped
      PROVE  Good(Top, localFile', dloadResult', thread', disk')
  <2>1. Good(Top, localFile, dloadResult, thread, disk) /\ Live(t) /\ thread[t].state = "loading"
    BY <1>5 DEF Inv, ThreadEnds, Live
  <2>2. Top.pc = "notice" \/ (Top.pc \in {"pump", "wait", "download"} /\ Top.handle = t)
    BY <1>5, <2>1, OwnThread
  <2>3. CASE Top.pc = "notice"
    BY <2>3 DEF Good, Waits, Found, Alone, Over
  <2>4. CASE Top.pc \in {"pump", "wait", "download"} /\ Top.handle = t
    <3>1. t # NoThread
      BY DEF NoThread, Threads
    <3>2. thread[t].file = FileOf(Top.pc)
      BY <2>1, <2>4, <3>1 DEF Good, Waits
    <3>3. good => disk'[FileOf(Top.pc)] = "whole"
      BY <1>1, <3>2 DEF Inv, TypeOK, Files, FileOf
    <3>4. Waits(Top, localFile', dloadResult', thread', disk')
      BY <1>1, <1>4, <2>4, <3>2, <3>3 DEF Waits
    <3>5. Alone(Top, thread')
      BY <1>4, <2>1, <2>4 DEF Good, Alone
    <3> QED
      BY <2>4, <3>4, <3>5 DEF Good, Found, Over
  <2> QED
    BY <2>2, <2>3, <2>4
<1> QED
  BY <1>3, <1>5 DEF Inv

LEMMA InvStep == Inv /\ [Next]_vars => Inv'
<1> SUFFICES ASSUME Inv, [Next]_vars PROVE Inv'
  OBVIOUS
<1>0. disk \in [Files -> {"absent", "partial", "whole"}] /\ calls \in Seq(Call) /\ TypeOK
  BY DEF Inv, TypeOK
<1>1. CASE OnUpdateSoft
  <2>1. begun' \in 0..MaxCalls
    <3>1. begun \in 0..MaxCalls /\ begun < MaxCalls /\ begun' = begun + 1
      BY <1>0, <1>1 DEF OnUpdateSoft, TypeOK
    <3> QED
      BY <3>1, WebUpdateAssumption
  <2>2. BeginThread(calls, "pump", FileOf("pump"))
    BY <1>1 DEF OnUpdateSoft, FileOf
  <2> QED
    BY <1>0, <1>1, <2>1, <2>2, ThreadBegun DEF OnUpdateSoft
<1>t. ASSUME NEW place, Goes(place), calls # <<>> PROVE Top.timer \in 0..Rounds /\ Turns(place, Top.timer)
  <2>1. Top \in Call
    BY <1>t, Depth DEF Top
  <2> QED
    BY <1>t, <2>1 DEF Goes, Call
<1>2. CASE QueueIsEmpty
  <2>1. calls # <<>> /\ Top.pc = "pump" /\ Goes("wait") /\ UNCHANGED <<begun, localFile, dloadResult, thread, disk>>
    BY <1>2 DEF QueueIsEmpty, At
  <2> QED
    BY <1>0, <1>t, <2>1, CallGoesOn
<1>12. CASE RoundEnds
  <2> DEFINE n == Top.timer + 1
             place == IF n < Rounds THEN "pump" ELSE "notice"
  <2>1. /\ calls # <<>> /\ Top.pc = "wait" /\ Turns(place, n)
        /\ UNCHANGED <<begun, localFile, dloadResult, thread, disk>>
    BY <1>12 DEF RoundEnds, At
  <2>a. Top \in Call
    BY <2>1, Depth DEF Top
  <2>2. n \in 0..Rounds
    BY <1>12, <2>a, WebUpdateAssumption DEF RoundEnds, Call
  <2>3. place \in {"pump", "notice"}
    OBVIOUS
  <2> HIDE DEF n, place
  <2> QED
    BY <1>0, <2>1, <2>2, <2>3, CallGoesOn
<1>3. CASE CheckEnds
  <2>1. disk' \in [Files -> {"absent", "partial", "whole"}]
    BY <1>0, <1>3 DEF CheckEnds
  <2>2. CASE ~dloadResult /\ Goes("notice") /\ UNCHANGED disk
    BY <1>3, <2>1, <1>t, <2>2, CallGoesOn DEF CheckEnds, At
  <2>3. CASE dloadResult /\ Goes("ask")
    BY <1>3, <2>1, <1>t, <2>3, CallGoesOn DEF CheckEnds, At
  <2>4. CASE Returns
    BY <1>3, <2>1, <2>4, CallReturns DEF CheckEnds, At
  <2> QED
    BY <1>3, <2>2, <2>3, <2>4 DEF CheckEnds
<1>4. CASE CloseNotice
  BY <1>0, <1>4, CallReturns DEF CloseNotice, At
<1>5. CASE DownloadDifferent
  <2>1. Below \in Seq(Call)
    BY <1>5, BelowTop DEF DownloadDifferent, At
  <2>2. begun' \in 0..MaxCalls
    BY <1>0, <1>5 DEF DownloadDifferent, TypeOK
  <2>3. BeginThread(Below, "download", FileOf("download"))
    BY <1>5 DEF DownloadDifferent, FileOf
  <2> QED
    BY <1>0, <1>5, <2>1, <2>2, <2>3, ThreadBegun DEF DownloadDifferent
<1>6. CASE Decline
  BY <1>0, <1>6, CallReturns DEF Decline, At
<1>7. CASE DownloadEnds
  <2>1. CASE dloadResult /\ Goes("offer")
    BY <1>0, <1>7, <1>t, <2>1, CallGoesOn DEF DownloadEnds, At
  <2>2. CASE Returns
    BY <1>0, <1>7, <2>2, CallReturns DEF DownloadEnds, At
  <2> QED
    BY <1>7, <2>1, <2>2 DEF DownloadEnds
<1>8. CASE Install
  <2>1. thread' \in [Threads -> Thread]
    BY <1>0, <1>8 DEF Install, TypeOK, Thread
  <2>2. begun' \in 0..MaxCalls
    BY <1>8, WebUpdateAssumption DEF Install
  <2>3. calls' = <<>> /\ calls' \in Seq(Call) /\ Len(calls') = 0
    BY <1>8 DEF Install
  <2>4. TypeOK'
    BY <1>0, <1>8, <2>1, <2>2, <2>3 DEF Install, TypeOK
  <2> QED
    BY <2>3, <2>4 DEF Inv
<1>9. ASSUME NEW t \in Threads, DownloadFile(t) PROVE Inv'
  BY <1>9, FileRead
<1>10. ASSUME NEW t \in Threads, ThreadEnds(t) PROVE Inv'
  BY <1>10, FileWritten
<1>11. CASE UNCHANGED vars
  BY <1>11 DEF vars, Inv, TypeOK, Top
<1> QED
  BY <1>1, <1>2, <1>3, <1>4, <1>5, <1>6, <1>7, <1>8, <1>9, <1>10, <1>11, <1>12 DEF Next, Command

-----------------------------------------------------------------------------
(* The theorem.                                                            *)

LEMMA InvImplies == Inv => SafetyInv
<1> SUFFICES ASSUME Inv, NEW i \in 1..Len(calls), calls[i].pc \in {"ask", "offer"},
                    ~calls[i].overlapped
             PROVE  /\ calls[i].handle # NoThread
                    /\ thread[calls[i].handle].good
                    /\ calls[i].pc = "offer" => disk["HCFRSetup.exe"] = "whole"
  BY DEF SafetyInv, OwnDownloadUnlessOverlapped, Inv
<1>1. calls \in Seq(Call) /\ Len(calls) \in Nat /\ calls # <<>>
  <2>1. calls \in Seq(Call)
    BY DEF Inv, TypeOK
  <2>2. Len(calls) \in Nat /\ Len(calls) # 0
    BY <2>1
  <2> QED
    BY <2>1, <2>2, EmptySeq
<1>2. i = Len(calls)
  BY <1>1 DEF Inv
<1>3. Found(calls[i], thread, disk)
  BY <1>1, <1>2 DEF Inv, Top, Good
<1> QED
  BY <1>3 DEF Found

\* A call that no other overlaps asks about a version, and offers an installer,
\* only after its own download, for any number of calls (DoUpdateCheck,
\* DownloadDifferent, OnUpdateSoft).
THEOREM Safety == Spec => []SafetyInv
<1>1. Init => Inv
  <2> SUFFICES ASSUME Init PROVE Inv
    OBVIOUS
  <2>1. thread \in [Threads -> Thread]
    BY DEF Init, Thread
  <2>2. calls = <<>> /\ calls \in Seq(Call) /\ Len(calls) = 0
    BY EmptySeq DEF Init
  <2>3. begun \in 0..MaxCalls
    <3>1. begun = 0
      BY DEF Init
    <3> QED
      BY <3>1, WebUpdateAssumption DEF WebUpdateAssumption
  <2>4. disk \in [Files -> {"absent", "partial", "whole"}]
    BY DEF Init
  <2>5. TypeOK
    BY <2>1, <2>2, <2>3, <2>4 DEF TypeOK, Init
  <2> QED
    BY <2>2, <2>5 DEF Inv
<1> QED
  BY <1>1, InvStep, InvImplies, PTL DEF Spec
=============================================================================
