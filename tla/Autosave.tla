------------------------------ MODULE Autosave ------------------------------
(***************************************************************************)
(* The autosave utility (src/autosave/ms_autosave.c): a process that keeps *)
(* the values of the listed variables of an MX server in two files, which  *)
(* it writes in turn, and that puts the values of one of them back into    *)
(* the server when it is started.                                          *)
(*                                                                         *)
(* A value is only "lost" (what a restarted server found in its own        *)
(* database, in place of the value that was to be restored) or not, a file *)
(* only complete (it has the line of asterisks at its end) or not.         *)
(***************************************************************************)
EXTENDS Naturals

CONSTANTS NVars,      \* the number of entries of the autosave list
          MaxDue,     \* bound: the intervals that autosave can be behind by
          Modes       \* how it is started: subset of {"loop", "R", "r", "s"}

ASSUME NVarsAssumption == NVars \in Nat \ {0}
ASSUME MaxDueAssumption == MaxDue \in Nat \ {0}
ASSUME ModesAssumption == Modes \subseteq {"loop", "R", "r", "s"}

VARIABLES
  pc,         \* what the process does next; "down": there is none
  mode,       \* its command line switch, "loop" for none
  turn,       \* autosave_filename: the file that is to be written
  due,        \* the intervals from next_event_time to current_time
  i,          \* the entry that is polled or sent next
  src,        \* filename_to_use, 0 for none
  conn,       \* the connection to the server
  held,       \* the variables whose value in the process is a lost one
  lost,       \* the variables whose value in the server is a lost one
  complete,   \* the files that are complete
  newer,      \* the file with the later st_mtime, 0: the same second
  bak,        \* the backup copies of the two files
  last,       \* (history) the file whose save was completed last
  excused,    \* (history) the process was told not to restore, or had
              \* nothing to restore, or went on after a failure
  unkept      \* (history) a save or a copy failed or was not asked for

process == <<pc, mode, turn, due, i, src, conn, held>>
files == <<complete, newer, bak, last>>
vars == <<process, files, lost, excused, unkept>>

Files == {1, 2}
Vars == 1 .. NVars
Saving == {"look", "poll", "open", "write", "update"}

TypeOK ==
  /\ pc \in {"down", "choose", "copy", "send"} \cup Saving
  /\ mode \in {"loop", "R", "r", "s"}
  /\ turn \in Files
  /\ due \in Nat
  /\ i \in 1 .. NVars + 1
  /\ src \in {0} \cup Files
  /\ conn \in {"up", "stale", "closed"}
  /\ held \in SUBSET Vars
  /\ lost \in SUBSET Vars
  /\ complete \in SUBSET Files
  /\ newer \in {0} \cup Files
  /\ bak \in [Files -> {"none", "mixed", "whole"}]
  /\ last \in {0} \cup Files
  /\ excused \in BOOLEAN
  /\ unkept \in BOOLEAN

Init ==
  /\ pc = "down" /\ mode = "loop" /\ turn = 1 /\ due = 0 /\ i = 1
  /\ src = 0 /\ conn = "closed" /\ held = {}
  /\ lost \in SUBSET Vars
  /\ complete = {} /\ newer = 0 /\ bak = [f \in Files |-> "none"]
  /\ last = 0
  /\ excused = FALSE
  /\ unkept = FALSE

----------------------------------------------------------------------------
(***************************************************************************)
(* The server and its users.                                               *)
(***************************************************************************)

\* The server is restarted: its variables have the values of its database,
\* and the connection of a running autosave leads nowhere.
ServerRestart ==
  /\ lost' = Vars
  /\ conn' = IF conn = "up" THEN "stale" ELSE conn
  /\ UNCHANGED <<pc, mode, turn, due, i, src, held, files, excused, unkept>>

\* A user sets a variable: its value is one that is meant.
UserSets(v) ==
  /\ lost' = lost \ {v}
  /\ UNCHANGED <<process, files, excused, unkept>>

----------------------------------------------------------------------------
(***************************************************************************)
(* The process begins and ends.                                            *)
(***************************************************************************)

\* main() up to the choice of what is done: the server has been reached.
Start(m) ==
  /\ pc = "down"
  /\ mode' = m
  /\ pc' = CASE m \in {"loop", "r"} -> "choose"
             [] m = "R" -> "look"
             [] m = "s" -> "update"
  /\ conn' = "up"
  /\ excused' = (m \in {"R", "s"})
  /\ unkept' = (unkept \/ m \in {"R", "s"})
  /\ UNCHANGED <<turn, due, i, src, held, files, lost>>

\* What is left of the process when it has ended.
Gone ==
  /\ pc' = "down" /\ turn' = 1 /\ due' = 0 /\ i' = 1 /\ src' = 0
  /\ conn' = "closed" /\ held' = {}
  /\ UNCHANGED mode

\* It crashes, is killed or exits for a reason that is not modelled.
Crash ==
  /\ pc # "down"
  /\ Gone
  /\ UNCHANGED <<files, lost, excused, unkept>>

----------------------------------------------------------------------------
(***************************************************************************)
(* The restore at the start.                                               *)
(***************************************************************************)

\* Mutant: the older of two complete files is used.
FileOldest ==
  LET first == IF newer = 2 THEN 1 ELSE 2
      usable == complete \cap (IF mode = "r" THEN {1} ELSE Files)
  IN IF usable = {} THEN 0
     ELSE IF first \in usable THEN first ELSE 3 - first

\* msauto_choose_autosave_file_to_use(): the newer file when it is complete,
\* else the older one when that is, and file 1 counts as the newer one when
\* both were written in the same second.  With -r there is only file 1.
FileToUse ==
  LET named == IF mode = "r" THEN {1} ELSE Files
      first == IF newer = 2 THEN 2 ELSE 1
      usable == complete \cap named
  IN IF usable = {} THEN 0
     ELSE IF first \in usable THEN first ELSE 3 - first

\* After the restore: -r ends, else the loop begins with file 1.
Restored ==
  IF mode = "r"
  THEN Gone
  ELSE /\ pc' = "look" /\ i' = 1 /\ src' = 0
       /\ UNCHANGED <<mode, turn, due, held>>

\* Nothing is restored for want of a complete file.
ChooseNone ==
  /\ pc = "choose"
  /\ FileToUse = 0
  /\ Restored
  /\ conn' = IF mode = "r" THEN "closed" ELSE conn
  /\ excused' = TRUE
  /\ UNCHANGED <<files, lost, unkept>>

\* The copy of the chosen file is begun, or cannot be.  mx_copy_file() does
\* not truncate a backup that exists: until the copy is finished, its first
\* part is the new one and the rest the old.
Choose ==
  /\ pc = "choose"
  /\ FileToUse # 0
  /\ src' = FileToUse
  /\ \/ /\ pc' = "copy"
        /\ bak' = [bak EXCEPT ![FileToUse] =
                     IF @ = "none" THEN "none" ELSE "mixed"]
        /\ UNCHANGED unkept
     \/ /\ pc' = "send"
        /\ unkept' = TRUE
        /\ UNCHANGED bak
  /\ UNCHANGED <<mode, turn, due, i, conn, held, complete, newer, last,
                 lost, excused>>

\* Mutant: the chosen file is not copied.
CopyNothing(fails) ==
  /\ pc = "copy"
  /\ pc' = "send"
  /\ UNCHANGED <<mode, turn, due, i, src, conn, held, complete, newer, bak,
                 last, lost, excused, unkept>>

\* The copy is finished, or breaks off, for which there is only a warning.
Copy(fails) ==
  /\ pc = "copy"
  /\ pc' = "send"
  /\ bak' = IF fails THEN bak ELSE [bak EXCEPT ![src] = "whole"]
  /\ unkept' = (unkept \/ fails)
  /\ UNCHANGED <<mode, turn, due, i, src, conn, held, complete, newer, last,
                 lost, excused>>

\* Entry i is put back with mx_send_variable(), whose result is ignored.
\* A closed connection is opened again.
Send ==
  /\ pc = "send"
  /\ i \in Vars
  /\ \/ /\ conn # "stale"
        /\ lost' = lost \ {i}
        /\ conn' = "up"
        /\ UNCHANGED excused
     \/ /\ conn' \in {conn, "closed"}
        /\ excused' = TRUE
        /\ UNCHANGED lost
  /\ i' = i + 1
  /\ UNCHANGED <<pc, mode, turn, due, src, held, files, unkept>>

\* All the entries have been put back.
SentAll ==
  /\ pc = "send"
  /\ i = NVars + 1
  /\ Restored
  /\ conn' = IF mode = "r" THEN "closed" ELSE conn
  /\ UNCHANGED <<files, lost, excused, unkept>>

\* The file cannot be opened, or its line is not that of entry i, or cannot
\* be parsed: what is left of it is not restored, and no error is returned.
StopShort ==
  /\ pc = "send"
  /\ i \in Vars
  /\ Restored
  /\ conn' = IF mode = "r" THEN "closed" ELSE conn
  /\ excused' = TRUE
  /\ UNCHANGED <<files, lost, unkept>>

----------------------------------------------------------------------------
(***************************************************************************)
(* The loop.                                                               *)
(***************************************************************************)

\* The top of the loop.  Passes in which nothing is due change nothing.
Look ==
  /\ pc = "look"
  /\ due' \in due .. MaxDue
  /\ due' > 0
  /\ pc' = "poll"
  /\ i' = 1
  /\ UNCHANGED <<mode, turn, src, conn, held, files, lost, excused, unkept>>

\* Mutant: the file name is not changed.
SameFileAgain ==
  IF mode = "s"
  THEN Gone
  ELSE /\ due' = due - 1
       /\ pc' = IF due > 1 THEN "update" ELSE "look"
       /\ i' = 1
       /\ UNCHANGED <<mode, turn, src, held>>

\* msauto_save_fields_to_autosave_file() has returned to main(): whatever it
\* returned, the turn is the other file's, and when another interval is over
\* the values are polled.  With -s the process ends.
SaveReturns ==
  IF mode = "s"
  THEN Gone
  ELSE /\ turn' = 3 - turn
       /\ due' = due - 1
       /\ pc' = IF due > 1 THEN "update" ELSE "look"
       /\ i' = 1
       /\ UNCHANGED <<mode, src, held>>

\* The second msauto_poll_autosave_list() of a pass has returned.  With -s
\* it is the first one, and is followed by the save.
UpdateReturns ==
  IF mode = "s"
  THEN /\ pc' = "poll" /\ i' = 1
       /\ UNCHANGED <<mode, turn, due, src, held>>
  ELSE /\ pc' = "look" /\ i' = 1 /\ due' = due - 1
       /\ UNCHANGED <<mode, turn, src, held>>

\* msauto_poll_autosave_list() receives the value of entry i.  A connection
\* that was closed is opened again, whichever server is there by now.
Receive ==
  /\ pc \in {"poll", "update"}
  /\ i \in Vars
  /\ conn # "stale"
  /\ conn' = "up"
  /\ held' = (held \ {i}) \cup (lost \cap {i})
  /\ i' = i + 1
  /\ UNCHANGED <<pc, mode, turn, due, src, files, lost, excused, unkept>>

\* Mutant: the process goes on when the connection is lost.
GoOnWhenLost ==
  /\ pc \in {"poll", "update"}
  /\ i \in Vars
  /\ conn' = "closed"
  /\ IF pc = "poll" THEN SaveReturns ELSE UpdateReturns
  /\ UNCHANGED <<files, lost, excused, unkept>>

\* MXE_NETWORK_CONNECTION_LOST: the process exits.
ReceiveLost ==
  /\ pc \in {"poll", "update"}
  /\ i \in Vars
  /\ Gone
  /\ UNCHANGED <<files, lost, excused, unkept>>

\* Any other error, a timeout among them, ends the poll: the file is left
\* alone and the loop goes on.  The connection may have been closed.
ReceiveFails ==
  /\ pc \in {"poll", "update"}
  /\ i \in Vars
  /\ IF mode = "s"
     THEN Gone
     ELSE /\ conn' \in {conn, "closed"}
          /\ IF pc = "poll" THEN SaveReturns ELSE UpdateReturns
  /\ excused' = TRUE
  /\ unkept' = (unkept \/ pc = "poll")
  /\ UNCHANGED <<files, lost>>

PolledAll ==
  /\ pc \in {"poll", "update"}
  /\ i = NVars + 1
  /\ IF pc = "poll"
     THEN /\ pc' = "open" /\ i' = 1
          /\ UNCHANGED <<mode, turn, due, src, held>>
     ELSE UpdateReturns
  /\ UNCHANGED <<conn, files, lost, excused, unkept>>

\* remove() of the old file and fopen() of the new one.
Open ==
  /\ pc = "open"
  /\ pc' = "write"
  /\ complete' = complete \ {turn}
  /\ newer' \in {turn, 0}
  /\ UNCHANGED <<mode, turn, due, i, src, conn, held, bak, last,
                 lost, excused, unkept>>

\* The connection is closed with the process, or as it was.
SaveEnds ==
  /\ SaveReturns
  /\ conn' = IF mode = "s" THEN "closed" ELSE conn

\* fopen() fails: the old file is gone and there is no new one.
OpenFails ==
  /\ pc = "open"
  /\ complete' = complete \ {turn}
  /\ SaveEnds
  /\ unkept' = TRUE
  /\ UNCHANGED <<newer, bak, last, lost, excused>>

\* The entries and the line of asterisks are written.
Write ==
  /\ pc = "write"
  /\ complete' = complete \cup {turn}
  /\ newer' \in {turn, newer}
  /\ last' = turn
  /\ SaveEnds
  /\ UNCHANGED <<bak, lost, excused, unkept>>

\* A value cannot be converted (an error is returned) or the disk is full
\* (which goes unnoticed): the file stays incomplete.
WriteFails ==
  /\ pc = "write"
  /\ newer' \in {turn, newer}
  /\ SaveEnds
  /\ unkept' = TRUE
  /\ UNCHANGED <<complete, bak, last, lost, excused>>

----------------------------------------------------------------------------

\* What the running process does.
Step ==
  \/ ChooseNone \/ Choose \/ Send \/ SentAll \/ StopShort
  \/ \E fails \in BOOLEAN : Copy(fails)
  \/ Look \/ Receive \/ ReceiveLost \/ ReceiveFails \/ PolledAll
  \/ Open \/ OpenFails \/ Write \/ WriteFails

Next ==
  \/ ServerRestart
  \/ \E v \in Vars : UserSets(v)
  \/ \E m \in Modes : Start(m)
  \/ Crash
  \/ Step

Spec == Init /\ [][Next]_vars

\* The process is given the processor, and the clock goes on.
FairSpec == Spec /\ WF_vars(Step)

----------------------------------------------------------------------------
(***************************************************************************)
(* Properties.                                                             *)
(***************************************************************************)

\* The values that a server has because it was restarted are not written
\* over the ones that were saved before it was, unless autosave was told not
\* to restore, had nothing to restore, or went on after a failure: the exit
\* at a lost connection and the restore at the next start see to it.
OnlyRestoredIsSaved ==
  pc \in {"open", "write"} /\ ~excused => held = {}

\* However often and wherever autosave crashes, the values of a completed
\* save are still in one of the two files or in a backup, unless a save or a
\* copy has failed, or autosave was started to save without a restore.
NothingLostByCrashes ==
  last # 0 /\ ~unkept
    => \/ complete # {}
       \/ \E f \in Files : bak[f] = "whole"

\* The file that is restored is a complete one, and it is the last one whose
\* save was completed unless a later save has removed that, or the two files
\* were written in the same second.
RestoresTheLatest ==
  pc \in {"copy", "send"}
    => /\ src \in complete
       /\ last \in complete /\ mode # "r" => src = last \/ newer = 0

\* While autosave keeps running, both files have their turn again and again,
\* whatever errors the saves return.
TurnsGoOn ==
  <>[](pc # "down") => []<>(turn = 1) /\ []<>(turn = 2)

=============================================================================
