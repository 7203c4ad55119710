--------------------------- MODULE AutosaveProofs ---------------------------
(***************************************************************************)
(* Theorems about Autosave, for every length of the autosave list, however *)
(* far behind the loop is and however the process is started.              *)
(***************************************************************************)
EXTENDS Autosave, TLAPS

Loading == {"choose", "copy", "send"}

\* What the process is about to do fits the way it was started: a step that
\* subtracts an interval from due has one to subtract.
Shape ==
  /\ pc \in Loading => mode \in {"loop", "r"} /\ turn = 1
  /\ pc \in Saving => mode # "r"
  /\ pc \in {"poll", "open", "write", "update"} /\ mode # "s" => due > 0
  /\ pc \in {"copy", "send"} => src \in complete
  /\ pc = "down" => turn = 1 /\ held = {}
  /\ pc \in {"down", "choose", "copy"} => i = 1

\* As long as nothing went wrong unnoticed, what the server has at the other
\* end of an open connection has been restored, and so has what is held.
Held ==
  ~excused /\ pc # "down" =>
    /\ held = {}
    /\ conn # "closed"
    /\ pc \in Saving /\ conn = "up" => lost = {}
    /\ pc = "send" /\ conn = "up" => \A v \in Vars : v < i => v \notin lost

\* The later of two complete files is the one whose save was the last.
Newest ==
  /\ complete = {1, 2} => newer \in {last, 0}
  /\ pc = "write" => newer \in {turn, 0} /\ turn \notin complete
  /\ pc \in {"copy", "send"} /\ mode # "r" /\ last \in complete
       => src = last \/ newer = 0

Whole == \E f \in Files : bak[f] = "whole"

\* Where the values of the completed saves are: in a backup, in a file that
\* is about to be copied, or in the file that is not about to be written.
Kept ==
  ~unkept =>
    /\ last = 0 => complete = {} /\ (pc \in Saving => turn = 1)
    /\ last # 0 => \/ Whole
                   \/ complete # {} /\ pc \in {"down", "choose", "copy"}
                   \/ last \in complete /\ turn # last /\ pc \in Saving

IInv == TypeOK /\ Shape /\ Held /\ Newest /\ Kept

-----------------------------------------------------------------------------
(* Types *)

\* The invariant holds at the start.
LEMMA InvInit == Init => IInv
<1> SUFFICES ASSUME Init PROVE IInv
  OBVIOUS
<1> USE NVarsAssumption DEF Init
<1>1. TypeOK
  <2>1. pc \in {"down", "choose", "copy", "send"} \cup Saving BY DEF Saving
  <2>2. bak \in [Files -> {"none", "mixed", "whole"}] OBVIOUS
  <2>3. i \in 1 .. NVars + 1 OBVIOUS
  <2>4. excused \in BOOLEAN /\ unkept \in BOOLEAN OBVIOUS
  <2> QED BY <2>1, <2>2, <2>3, <2>4 DEF TypeOK, Files
<1>2. Shape BY DEF Shape, Loading, Saving
<1>3. Held BY DEF Held
<1>4. Newest BY DEF Newest
<1>5. Kept BY DEF Kept, Saving
<1> QED BY <1>1, <1>2, <1>3, <1>4, <1>5 DEF IInv

\* The file to use is a complete one, if it is one.
LEMMA FileToUseIsComplete ==
  ASSUME TypeOK, FileToUse # 0
  PROVE  /\ FileToUse \in Files
         /\ FileToUse \in complete
BY DEF FileToUse, TypeOK, Files

\* The end of the process keeps the types.
LEMMA TypeGone ==
  ASSUME TypeOK, Gone
  PROVE  /\ pc' \in {"down", "choose", "copy", "send"} \cup Saving
         /\ mode' \in {"loop", "R", "r", "s"}
         /\ turn' \in Files /\ due' \in Nat /\ i' \in 1 .. NVars + 1
         /\ src' \in {0} \cup Files /\ held' \in SUBSET Vars
BY NVarsAssumption DEF TypeOK, Gone, Files

\* So does the return of a save or of a poll.
LEMMA TypeReturns ==
  ASSUME TypeOK, Shape, \/ pc \in {"poll", "open", "write"} /\ SaveReturns
                        \/ pc = "update" /\ UpdateReturns
  PROVE  /\ pc' \in {"down", "choose", "copy", "send"} \cup Saving
         /\ mode' \in {"loop", "R", "r", "s"}
         /\ turn' \in Files /\ due' \in Nat /\ i' \in 1 .. NVars + 1
         /\ src' \in {0} \cup Files /\ held' \in SUBSET Vars
<1>1. CASE Gone BY <1>1, TypeGone
<1>2. CASE mode = "s" /\ pc = "update" /\ UpdateReturns
  BY <1>2, NVarsAssumption DEF TypeOK, UpdateReturns, Saving
<1>3. CASE mode # "s" /\ pc = "update" /\ UpdateReturns
  BY <1>3, NVarsAssumption DEF TypeOK, Shape, UpdateReturns, Saving
<1>4. CASE mode # "s" /\ pc \in {"poll", "open", "write"} /\ SaveReturns
  <2>1. 3 - turn \in Files BY DEF TypeOK, Files
  <2> QED BY <1>4, <2>1, NVarsAssumption DEF TypeOK, Shape, SaveReturns, Saving
<1> QED BY <1>1, <1>2, <1>3, <1>4 DEF SaveReturns

\* So does what follows the restore.
LEMMA TypeRestored ==
  ASSUME TypeOK, Restored
  PROVE  /\ pc' \in {"down", "choose", "copy", "send"} \cup Saving
         /\ mode' \in {"loop", "R", "r", "s"}
         /\ turn' \in Files /\ due' \in Nat /\ i' \in 1 .. NVars + 1
         /\ src' \in {0} \cup Files /\ held' \in SUBSET Vars
<1>1. CASE Gone BY <1>1, TypeGone
<1>2. CASE ~ Gone BY <1>2, NVarsAssumption DEF TypeOK, Restored, Saving
<1> QED BY <1>1, <1>2

\* The types are kept as long as the shape is.
LEMMA TypeStep == TypeOK /\ Shape /\ [Next]_vars => TypeOK'
<1> SUFFICES ASSUME TypeOK, Shape, [Next]_vars PROVE TypeOK'
  OBVIOUS
<1> USE DEF TypeOK, files, process
<1>1. CASE ServerRestart BY <1>1 DEF ServerRestart
<1>2. ASSUME NEW v \in Vars, UserSets(v) PROVE TypeOK'
  BY <1>2 DEF UserSets
<1>3. ASSUME NEW m \in Modes, Start(m) PROVE TypeOK'
  <2>1. m \in {"loop", "R", "r", "s"} BY ModesAssumption
  <2>2. excused' \in BOOLEAN /\ unkept' \in BOOLEAN BY <1>3 DEF Start
  <2> QED BY <1>3, <2>1, <2>2 DEF Start, Saving
<1>4. CASE Crash BY <1>4, TypeGone DEF Crash, Gone
<1>5. CASE ChooseNone BY <1>5, TypeRestored DEF ChooseNone
<1>6. CASE Choose
  <2>1. FileToUse \in Files BY <1>6, FileToUseIsComplete DEF Choose
  <2>2. bak' \in [Files -> {"none", "mixed", "whole"}] BY <1>6, <2>1 DEF Choose
  <2>3. unkept' \in BOOLEAN BY <1>6 DEF Choose
  <2> QED BY <1>6, <2>1, <2>2, <2>3 DEF Choose
<1>7. ASSUME NEW fails \in BOOLEAN, Copy(fails) PROVE TypeOK'
  <2>1. bak' \in [Files -> {"none", "mixed", "whole"}] BY <1>7 DEF Copy
  <2>2. unkept' \in BOOLEAN BY <1>7 DEF Copy
  <2> QED BY <1>7, <2>1, <2>2 DEF Copy
<1>8. CASE Send
  <2>1. i' \in 1 .. NVars + 1 BY <1>8, NVarsAssumption DEF Send, Vars
  <2> QED BY <1>8, <2>1 DEF Send
<1>9. CASE SentAll BY <1>9, TypeRestored DEF SentAll
<1>10. CASE StopShort BY <1>10, TypeRestored DEF StopShort
<1>11. CASE Look
  <2>1. due' \in Nat BY <1>11, MaxDueAssumption DEF Look
  <2> QED BY <1>11, <2>1, NVarsAssumption DEF Look, Saving
<1>12. CASE Receive
  <2>1. i' \in 1 .. NVars + 1 BY <1>12, NVarsAssumption DEF Receive, Vars
  <2>2. held' \in SUBSET Vars BY <1>12 DEF Receive
  <2> QED BY <1>12, <2>1, <2>2 DEF Receive
<1>13. CASE ReceiveLost BY <1>13, TypeGone DEF ReceiveLost, Gone
<1>14. CASE ReceiveFails
  <2>1. CASE Gone BY <1>14, <2>1, TypeGone DEF ReceiveFails, Gone
  <2>2. CASE ~ Gone
    <3>1. unkept' \in BOOLEAN /\ excused' \in BOOLEAN BY <1>14 DEF ReceiveFails
    <3>2. conn' \in {"up", "stale", "closed"} BY <1>14, <2>2 DEF ReceiveFails
    <3> QED BY <1>14, <2>2, <3>1, <3>2, TypeReturns DEF ReceiveFails
  <2> QED BY <2>1, <2>2
<1>15. CASE PolledAll
  <2>1. CASE pc = "poll" BY <1>15, <2>1, NVarsAssumption DEF PolledAll, Saving
  <2>2. CASE pc = "update" BY <1>15, <2>2, TypeReturns DEF PolledAll
  <2> QED BY <1>15, <2>1, <2>2 DEF PolledAll
<1>16. CASE Open BY <1>16 DEF Open, Saving
<1>17. CASE OpenFails BY <1>17, TypeReturns DEF OpenFails, SaveEnds
<1>18. CASE Write BY <1>18, TypeReturns DEF Write, SaveEnds
<1>19. CASE WriteFails BY <1>19, TypeReturns DEF WriteFails, SaveEnds
<1>20. CASE UNCHANGED vars BY <1>20 DEF vars
<1> QED BY <1>1, <1>2, <1>3, <1>4, <1>5, <1>6, <1>7, <1>8, <1>9, <1>10, <1>11,
           <1>12, <1>13, <1>14, <1>15, <1>16, <1>17, <1>18, <1>19, <1>20
        DEF Next, Step

\* The shape is inductive.
LEMMA ShapeStep == TypeOK /\ Shape /\ [Next]_vars => Shape'
<1> SUFFICES ASSUME TypeOK, Shape, [Next]_vars PROVE Shape'
  OBVIOUS
<1> USE DEF Shape, Loading, Saving, files, process
<1>1. CASE ServerRestart BY <1>1 DEF ServerRestart
<1>2. ASSUME NEW v \in Vars, UserSets(v) PROVE Shape'
  BY <1>2 DEF UserSets
<1>3. ASSUME NEW m \in Modes, Start(m) PROVE Shape'
  BY <1>3, ModesAssumption DEF Start
<1>4. CASE Crash BY <1>4 DEF Crash, Gone
<1>5. CASE ChooseNone BY <1>5 DEF ChooseNone, Restored, Gone
<1>6. CASE Choose BY <1>6, FileToUseIsComplete DEF Choose
<1>7. ASSUME NEW fails \in BOOLEAN, Copy(fails) PROVE Shape'
  BY <1>7 DEF Copy
<1>8. CASE Send BY <1>8 DEF Send
<1>9. CASE SentAll BY <1>9 DEF SentAll, Restored, Gone
<1>10. CASE StopShort BY <1>10 DEF StopShort, Restored, Gone
<1>11. CASE Look BY <1>11 DEF Look
<1>12. CASE Receive BY <1>12 DEF Receive
<1>13. CASE ReceiveLost BY <1>13 DEF ReceiveLost, Gone
<1>14. CASE ReceiveFails
  BY <1>14 DEF TypeOK, ReceiveFails, SaveReturns, UpdateReturns, Gone
<1>15. CASE PolledAll BY <1>15 DEF PolledAll, UpdateReturns
<1>16. CASE Open BY <1>16 DEF Open
<1>17. CASE OpenFails BY <1>17 DEF TypeOK, OpenFails, SaveEnds, SaveReturns, Gone
<1>18. CASE Write BY <1>18 DEF TypeOK, Write, SaveEnds, SaveReturns, Gone
<1>19. CASE WriteFails BY <1>19 DEF TypeOK, WriteFails, SaveEnds, SaveReturns, Gone
<1>20. CASE UNCHANGED vars BY <1>20 DEF vars
<1> QED BY <1>1, <1>2, <1>3, <1>4, <1>5, <1>6, <1>7, <1>8, <1>9, <1>10, <1>11,
           <1>12, <1>13, <1>14, <1>15, <1>16, <1>17, <1>18, <1>19, <1>20
        DEF Next, Step

-----------------------------------------------------------------------------
(* What is saved has been restored *)

\* Held is inductive.
LEMMA HeldStep == TypeOK /\ Shape /\ Held /\ [Next]_vars => Held'
<1> SUFFICES ASSUME TypeOK, Shape, Held, [Next]_vars PROVE Held'
  OBVIOUS
<1> USE DEF Shape, Held, Loading, Saving, files, process
<1>1. CASE ServerRestart BY <1>1 DEF ServerRestart
<1>2. ASSUME NEW v \in Vars, UserSets(v) PROVE Held'
  BY <1>2 DEF UserSets
<1>3. ASSUME NEW m \in Modes, Start(m) PROVE Held'
  BY <1>3, ModesAssumption DEF Start
<1>4. CASE Crash BY <1>4 DEF Crash, Gone
<1>5. CASE ChooseNone BY <1>5 DEF ChooseNone
<1>6. CASE Choose
  <2>1. pc' \in {"copy", "send"} /\ UNCHANGED <<i, conn, held, lost, excused>>
    BY <1>6 DEF Choose
  <2>2. i = 1 BY <1>6 DEF Choose
  <2> QED BY <1>6, <2>1, <2>2 DEF Choose, Vars
<1>7. ASSUME NEW fails \in BOOLEAN, Copy(fails) PROVE Held'
  BY <1>7 DEF Copy, Vars
<1>8. CASE Send
  <2>1. CASE excused' = TRUE BY <1>8, <2>1 DEF Send
  <2>2. CASE conn # "stale" /\ lost' = lost \ {i} /\ conn' = "up" /\ excused' = excused
    <3>1. SUFFICES ASSUME ~excused, NEW v \in Vars, v < i'
                   PROVE  v \notin lost'
      BY <1>8, <2>2 DEF Send
    <3>2. v < i \/ v = i BY <1>8, <3>1 DEF TypeOK, Send, Vars
    <3>3. conn = "up" BY <1>8, <2>2, <3>1 DEF TypeOK, Send
    <3> QED BY <1>8, <2>2, <3>1, <3>2, <3>3 DEF Send
  <2> QED BY <1>8, <2>1, <2>2 DEF Send
<1>9. CASE SentAll
  <2>1. ~excused /\ conn = "up" => lost = {}
    <3> SUFFICES ASSUME ~excused, conn = "up" PROVE lost = {}
      OBVIOUS
    <3>1. \A v \in Vars : v < NVars + 1 BY NVarsAssumption DEF Vars
    <3>2. \A v \in Vars : v \notin lost BY <1>9, <3>1 DEF SentAll
    <3> QED BY <3>2 DEF TypeOK
  <2> QED BY <1>9, <2>1 DEF SentAll, Restored, Gone
<1>10. CASE StopShort BY <1>10 DEF StopShort
<1>11. CASE Look BY <1>11 DEF Look
<1>12. CASE Receive
  <2>1. ~excused => conn = "up" /\ lost = {} /\ held = {}
    BY <1>12 DEF TypeOK, Receive
  <2>2. ~excused => held' = {} BY <1>12, <2>1 DEF Receive
  <2> QED BY <1>12, <2>1, <2>2 DEF Receive
<1>13. CASE ReceiveLost BY <1>13 DEF ReceiveLost, Gone
<1>14. CASE ReceiveFails BY <1>14 DEF ReceiveFails
<1>15. CASE PolledAll BY <1>15 DEF PolledAll, UpdateReturns
<1>16. CASE Open BY <1>16 DEF Open
<1>17. CASE OpenFails BY <1>17 DEF OpenFails, SaveEnds, SaveReturns, Gone
<1>18. CASE Write BY <1>18 DEF Write, SaveEnds, SaveReturns, Gone
<1>19. CASE WriteFails BY <1>19 DEF WriteFails, SaveEnds, SaveReturns, Gone
<1>20. CASE UNCHANGED vars BY <1>20 DEF vars
<1> QED BY <1>1, <1>2, <1>3, <1>4, <1>5, <1>6, <1>7, <1>8, <1>9, <1>10, <1>11,
           <1>12, <1>13, <1>14, <1>15, <1>16, <1>17, <1>18, <1>19, <1>20
        DEF Next, Step

-----------------------------------------------------------------------------
(* Which file is the last one *)

\* When the file saved last is complete, it is the one that is used, unless
\* the files were written in the same second.
LEMMA FileToUseIsLast ==
  ASSUME TypeOK, Newest, mode # "r", last \in complete
  PROVE  FileToUse = last \/ newer = 0
<1>1. complete \subseteq {1, 2} /\ last \in {1, 2} /\ newer \in {0, 1, 2}
  BY DEF TypeOK, Files
<1>2. CASE complete = {1, 2}
  <2>1. newer = last \/ newer = 0 BY <1>2 DEF Newest
  <2>2. CASE newer = last
    <3>1. (IF newer = 2 THEN 2 ELSE 1) = last BY <1>1, <2>2
    <3>2. complete \cap Files = {1, 2} BY <1>2 DEF Files
    <3> QED BY <1>1, <3>1, <3>2 DEF FileToUse
  <2> QED BY <2>1, <2>2
<1>3. CASE complete # {1, 2}
  <2>1. complete = {last} BY <1>1, <1>3
  <2>2. complete \cap Files = {last} BY <1>1, <2>1 DEF Files
  <2>3. CASE last = 1 BY <2>2, <2>3 DEF FileToUse
  <2>4. CASE last = 2 BY <2>2, <2>4 DEF FileToUse
  <2> QED BY <1>1, <2>3, <2>4
<1> QED BY <1>2, <1>3

\* Newest is inductive.
LEMMA NewestStep == TypeOK /\ Shape /\ Newest /\ [Next]_vars => Newest'
<1> SUFFICES ASSUME TypeOK, Shape, Newest, [Next]_vars PROVE Newest'
  OBVIOUS
<1>a. CASE Choose
  <2>1. mode # "r" /\ last \in complete => FileToUse = last \/ newer = 0
    BY FileToUseIsLast
  <2> QED BY <1>a, <2>1 DEF Choose, Newest
<1> USE DEF TypeOK, Shape, Newest, Loading, Saving, Files, files, process
<1>1. CASE ServerRestart BY <1>1 DEF ServerRestart
<1>2. ASSUME NEW v \in Vars, UserSets(v) PROVE Newest'
  BY <1>2 DEF UserSets
<1>3. ASSUME NEW m \in Modes, Start(m) PROVE Newest'
  BY <1>3, ModesAssumption DEF Start
<1>4. CASE Crash BY <1>4 DEF Crash, Gone
<1>5. CASE ChooseNone BY <1>5 DEF ChooseNone, Restored, Gone
<1>7. ASSUME NEW fails \in BOOLEAN, Copy(fails) PROVE Newest'
  BY <1>7 DEF Copy
<1>8. CASE Send BY <1>8 DEF Send
<1>9. CASE SentAll BY <1>9 DEF SentAll, Restored, Gone
<1>10. CASE StopShort BY <1>10 DEF StopShort, Restored, Gone
<1>11. CASE Look BY <1>11 DEF Look
<1>12. CASE Receive BY <1>12 DEF Receive
<1>13. CASE ReceiveLost BY <1>13 DEF ReceiveLost, Gone
<1>14. CASE ReceiveFails
  BY <1>14 DEF ReceiveFails, SaveReturns, UpdateReturns, Gone
<1>15. CASE PolledAll BY <1>15 DEF PolledAll, UpdateReturns
<1>16. CASE Open BY <1>16 DEF Open
<1>17. CASE OpenFails BY <1>17 DEF OpenFails, SaveEnds, SaveReturns, Gone
<1>18. CASE Write BY <1>18 DEF Write, SaveEnds, SaveReturns, Gone
<1>19. CASE WriteFails BY <1>19 DEF WriteFails, SaveEnds, SaveReturns, Gone
<1>20. CASE UNCHANGED vars BY <1>20 DEF vars
<1> QED BY <1>a, <1>1, <1>2, <1>3, <1>4, <1>5, <1>7, <1>8, <1>9, <1>10, <1>11,
           <1>12, <1>13, <1>14, <1>15, <1>16, <1>17, <1>18, <1>19, <1>20
        DEF Next, Step

-----------------------------------------------------------------------------
(* What is left after crashes *)

\* No file is chosen only when none is complete.
LEMMA NoFileToUse ==
  ASSUME TypeOK, mode # "r", FileToUse = 0
  PROVE  complete = {}
<1>1. complete \cap Files = complete BY DEF TypeOK
<1> QED BY <1>1 DEF FileToUse

\* Kept is inductive.
LEMMA KeptStep == TypeOK /\ Shape /\ Kept /\ [Next]_vars => Kept'
<1> SUFFICES ASSUME TypeOK, Shape, Kept, [Next]_vars PROVE Kept'
  OBVIOUS
<1> USE DEF TypeOK, Shape, Kept, Whole, Loading, Saving, Files, files, process
<1>1. CASE ServerRestart BY <1>1 DEF ServerRestart
<1>2. ASSUME NEW v \in Vars, UserSets(v) PROVE Kept'
  BY <1>2 DEF UserSets
<1>3. ASSUME NEW m \in Modes, Start(m) PROVE Kept'
  BY <1>3, ModesAssumption DEF Start
<1>4. CASE Crash BY <1>4 DEF Crash, Gone
<1>5. CASE ChooseNone
  <2>1. CASE mode = "r" BY <1>5, <2>1 DEF ChooseNone, Restored, Gone
  <2>2. CASE mode # "r"
    <3>1. complete = {} BY <1>5, <2>2, NoFileToUse DEF ChooseNone
    <3> QED BY <1>5, <2>2, <3>1 DEF ChooseNone, Restored
  <2> QED BY <2>1, <2>2
<1>6. CASE Choose BY <1>6, FileToUseIsComplete DEF Choose
<1>7. ASSUME NEW fails \in BOOLEAN, Copy(fails) PROVE Kept'
  BY <1>7 DEF Copy
<1>8. CASE Send BY <1>8 DEF Send
<1>9. CASE SentAll BY <1>9 DEF SentAll, Restored, Gone
<1>10. CASE StopShort BY <1>10 DEF StopShort, Restored, Gone
<1>11. CASE Look BY <1>11 DEF Look
<1>12. CASE Receive BY <1>12 DEF Receive
<1>13. CASE ReceiveLost BY <1>13 DEF ReceiveLost, Gone
<1>14. CASE ReceiveFails
  BY <1>14 DEF ReceiveFails, SaveReturns, UpdateReturns, Gone
<1>15. CASE PolledAll BY <1>15 DEF PolledAll, UpdateReturns
<1>16. CASE Open BY <1>16 DEF Open
<1>17. CASE OpenFails BY <1>17 DEF OpenFails, SaveEnds, SaveReturns, Gone
<1>18. CASE Write BY <1>18 DEF Write, SaveEnds, SaveReturns, Gone
<1>19. CASE WriteFails BY <1>19 DEF WriteFails, SaveEnds, SaveReturns, Gone
<1>20. CASE UNCHANGED vars BY <1>20 DEF vars
<1> QED BY <1>1, <1>2, <1>3, <1>4, <1>5, <1>6, <1>7, <1>8, <1>9, <1>10, <1>11,
           <1>12, <1>13, <1>14, <1>15, <1>16, <1>17, <1>18, <1>19, <1>20
        DEF Next, Step

-----------------------------------------------------------------------------
(* The theorems *)

\* The invariant is one.
LEMMA InvCorrect == Spec => []IInv
<1>1. IInv /\ [Next]_vars => IInv'
  BY TypeStep, ShapeStep, HeldStep, NewestStep, KeptStep DEF IInv
<1> QED BY InvInit, <1>1, PTL DEF Spec

(* The variables have their types; in particular the loop is never ahead   *)
(* of the clock by more than the interval it is waiting for.               *)
THEOREM TypeCorrect == Spec => []TypeOK
<1>1. IInv => TypeOK BY DEF IInv
<1> QED BY InvCorrect, <1>1, PTL

(* The values of a restarted server are saved over those that were saved   *)
(* before only when main() was told not to restore, had nothing to restore *)
(* or went on after a failure.                                             *)
THEOREM RestoredCorrect == Spec => []OnlyRestoredIsSaved
<1>1. IInv => OnlyRestoredIsSaved
  BY DEF IInv, Held, OnlyRestoredIsSaved
<1> QED BY InvCorrect, <1>1, PTL

(* Crashes alone never destroy the last complete copy of saved values.     *)
THEOREM KeptCorrect == Spec => []NothingLostByCrashes
<1>1. IInv => NothingLostByCrashes
  BY DEF IInv, Kept, Whole, NothingLostByCrashes
<1> QED BY InvCorrect, <1>1, PTL

(* msauto_choose_autosave_file_to_use() finds the save that was completed  *)
(* last, unless it is no more or the times of the files are the same.      *)
THEOREM LatestCorrect == Spec => []RestoresTheLatest
<1>1. IInv => RestoresTheLatest
  BY DEF IInv, Newest, Shape, RestoresTheLatest
<1> QED BY InvCorrect, <1>1, PTL
=============================================================================
