---------------------------- MODULE RestoreJournal ----------------------------
(***************************************************************************)
(* Restoring a backup replaces two files of the backend, the database and  *)
(* the secrets, which no file system swaps together.  The handler stages   *)
(* the new pair and writes an intent (restore_journal.go); on shutdown the *)
(* process renames the live files away and the staged ones in; the next    *)
(* start finishes or undoes what it finds (RecoverPendingRestore).         *)
(*                                                                         *)
(* A file's content is the generation of the pair it belongs to: 0 at      *)
(* first, n for what the n-th restore staged.  Every durable operation is  *)
(* one step; the process may die between any two, and an operation may     *)
(* report an error without effect or, when only the directory sync failed, *)
(* with it.  Of the phase markers only "completed" is ever read.           *)
(*                                                                         *)
(* The server creates missing secrets before it serves, so                 *)
(* LiveSecretsExisted is TRUE.                                             *)
(***************************************************************************)
EXTENDS Naturals

CONSTANTS None,
          MaxRestores,   \* bound: restores requested
          MaxFaults,     \* bound: crashes and failed operations
          DoubtfulMarker \* may a marked restore fail its check, or the marking
                         \* itself report an error once it is durable?

ASSUME NoneAssumption == None \notin Nat \cup [old : Nat, new : Nat]
ASSUME BoundsAssumption == MaxRestores \in Nat /\ MaxFaults \in Nat
ASSUME DoubtfulMarkerAssumption == DoubtfulMarker \in BOOLEAN

VARIABLES pc,             \* where the process is
          db, sec,        \* the database's files and the secrets'
          journal,        \* the intent file
          completed,      \* the "completed" marker file
          rollbackErrors, \* of the rollback under way
          restoring,      \* generations whose backup record says 'restoring'
          attempt,        \* restores requested
          faults          \* crashes and failed operations

vars == <<pc, db, sec, journal, completed, rollbackErrors, restoring, attempt, faults>>
files == <<db, sec>>

Generation == Nat \cup {None}
Files == [live : Generation, staged : Generation, rollback : Generation]

\* old: what the live paths held when the intent was written (a history field).
Intent == [old : Nat, new : Nat]

Handling == {"staging", "writing", "prepared"}
Discarding == {"discardStaged", "discardJournal", "discardMarkers"}
Applying == {"scheduled", "dbBackedUp", "secretsBackedUp", "dbInstalled", "secretsInstalled"}
Undoing == {"undoDb", "undoDbRename", "undoSecrets", "undoSecretsRename", "undoRecord"}
Cleaning == {"cleanStaged", "cleanRollbackDb", "cleanRollbackSecrets", "cleanJournal",
             "cleanMarkers"}
PC == {"serving", "down"} \cup Handling \cup Discarding \cup Applying \cup Undoing \cup Cleaning

RestoreTypeOK ==
    /\ pc \in PC
    /\ db \in Files /\ sec \in Files
    /\ journal \in Intent \cup {None}
    /\ completed \in BOOLEAN /\ rollbackErrors \in BOOLEAN
    /\ restoring \subseteq Nat
    /\ attempt \in Nat /\ faults \in Nat

Init ==
    /\ pc = "serving"
    /\ db = [live |-> 0, staged |-> None, rollback |-> None]
    /\ sec = db
    /\ journal = None
    /\ completed = FALSE /\ rollbackErrors = FALSE
    /\ restoring = {}
    /\ attempt = 0 /\ faults = 0

-----------------------------------------------------------------------------
Faulty == faults < MaxFaults /\ faults' = faults + 1
Goto(from, to) == pc = from /\ pc' = to

\* Renames, removals and writes of the pair's files.
Moved(f, from, to) == [f EXCEPT ![to] = f[from], ![from] = None]
Without(f, place) == [f EXCEPT ![place] = None]

Leaves(newDb, newSec) == db' = newDb /\ sec' = newSec

\* One operation on the files, and where its error leads.
Operation(from, newDb, newSec, next, onError) ==
    /\ \/ /\ Goto(from, next)
          /\ Leaves(newDb, newSec)
          /\ UNCHANGED faults
       \/ /\ Goto(from, onError)
          /\ Leaves(db, sec) \/ Leaves(newDb, newSec)
          /\ Faulty
    /\ UNCHANGED <<journal, completed, rollbackErrors, restoring, attempt>>

\* handleAdminBackupRestoreV1, under backupMu: a prepared pair next to the
\* live one.  A server that came up with a record 'restoring' is in
\* maintenance and refuses.
Stage ==
    /\ Goto("serving", "staging")
    /\ db.live \notin restoring
    /\ attempt < MaxRestores
    /\ attempt' = attempt + 1
    /\ db' = [db EXCEPT !.staged = attempt + 1]
    /\ sec' = [sec EXCEPT !.staged = attempt + 1]
    /\ UNCHANGED <<journal, completed, rollbackErrors, restoring, faults>>

\* Staging or writeAdminV1RestoreIntent fails: the handler removes what it
\* staged.  An intent that is there already refuses a second one.
Unstage == db' = Without(db, "staged") /\ sec' = Without(sec, "staged")

StageFails ==
    /\ Goto("staging", "serving")
    /\ Unstage
    /\ \/ journal # None /\ UNCHANGED <<completed, faults>>
       \/ Faulty /\ UNCHANGED completed
       \/ Faulty /\ journal = None /\ completed' = FALSE
    /\ UNCHANGED <<journal, rollbackErrors, restoring, attempt>>

\* writeAdminV1RestoreIntent: first the markers of an earlier restore go.
\* (slip: they stay)
KeepOldMarkers ==
    /\ Goto("staging", "writing")
    /\ journal = None
    /\ UNCHANGED <<files, completed, journal, rollbackErrors, restoring, attempt, faults>>

RemoveOldMarkers ==
    /\ Goto("staging", "writing")
    /\ journal = None
    /\ completed' = FALSE
    /\ UNCHANGED <<files, journal, rollbackErrors, restoring, attempt, faults>>

\* (slip: the rollback file recorded as the original)
WriteJournalOfRollback ==
    /\ Goto("writing", "prepared")
    /\ journal' = [old |-> db.rollback, new |-> attempt]
    /\ UNCHANGED <<files, completed, rollbackErrors, restoring, attempt, faults>>

WriteJournal ==
    /\ Goto("writing", "prepared")
    /\ journal' = [old |-> db.live, new |-> attempt]
    /\ UNCHANGED <<files, completed, rollbackErrors, restoring, attempt, faults>>

\* The intent may be left behind by a failed write of its first marker.
WriteFails ==
    /\ Goto("writing", "serving")
    /\ Unstage
    /\ journal' \in {None, [old |-> db.live, new |-> attempt]}
    /\ Faulty
    /\ UNCHANGED <<completed, rollbackErrors, restoring, attempt>>

\* The record goes from ready to restoring in one transaction; the process
\* leaves its listeners and applies the restore.
Schedule ==
    /\ Goto("prepared", "scheduled")
    /\ db.live \notin restoring
    /\ restoring' = restoring \cup {db.live}
    /\ UNCHANGED <<files, journal, completed, rollbackErrors, attempt, faults>>

ScheduleFails ==
    /\ Goto("prepared", "discardStaged")
    /\ Faulty
    /\ UNCHANGED <<files, journal, completed, rollbackErrors, restoring, attempt>>

\* discardAdminV1PreparedRestore: an error of one removal stops the markers'
\* removal only.
DiscardStaged ==
    Operation("discardStaged", Without(db, "staged"), Without(sec, "staged"),
              "discardJournal", "discardJournal")

RemoveJournal(from, next, onError) ==
    /\ \/ Goto(from, next) /\ journal' = None /\ UNCHANGED faults
       \/ Goto(from, onError) /\ journal' \in {journal, None} /\ Faulty
    /\ UNCHANGED <<files, completed, rollbackErrors, restoring, attempt>>

RemoveMarkers(from, next) ==
    /\ Goto(from, next)
    /\ \/ completed' = FALSE /\ UNCHANGED faults
       \/ UNCHANGED completed /\ Faulty
    /\ UNCHANGED <<files, journal, rollbackErrors, restoring, attempt>>

DiscardJournal == RemoveJournal("discardJournal", "discardMarkers", "serving")
DiscardMarkers == RemoveMarkers("discardMarkers", "serving")

-----------------------------------------------------------------------------
\* applyAdminV1Restore: checkpoint and close the database, then four renames.
BackUpDb ==
    Operation("scheduled", Moved(db, "live", "rollback"), sec, "dbBackedUp", "undoDb")
BackUpSecrets ==
    Operation("dbBackedUp", db, Moved(sec, "live", "rollback"), "secretsBackedUp", "undoDb")
InstallDb ==
    Operation("secretsBackedUp", Moved(db, "staged", "live"), sec, "dbInstalled", "undoDb")
InstallSecrets ==
    Operation("dbInstalled", db, Moved(sec, "staged", "live"), "secretsInstalled", "undoDb")

\* The installed pair is checked, then the restore marked completed.
Complete ==
    /\ \/ Goto("secretsInstalled", "cleanStaged") /\ completed' = TRUE /\ UNCHANGED faults
       \/ Goto("secretsInstalled", "undoDb") /\ UNCHANGED completed /\ Faulty
       \/ /\ DoubtfulMarker
          /\ Goto("secretsInstalled", "undoDb") /\ completed' = TRUE /\ Faulty
    /\ UNCHANGED <<files, journal, rollbackErrors, restoring, attempt>>

\* RecoverPendingRestore at the next start.
Installed == db.live # None /\ sec.live # None

\* (slips: what is installed is taken to be completed, or is always undone)
RecoverInstalled ==
    /\ pc = "down"
    /\ rollbackErrors' = FALSE
    /\ pc' = IF journal = None THEN "serving"
             ELSE IF Installed THEN "cleanStaged" ELSE "undoDb"
    /\ UNCHANGED <<files, journal, completed, restoring, attempt, faults>>

RecoverUndoing ==
    /\ pc = "down"
    /\ rollbackErrors' = FALSE
    /\ pc' = IF journal = None THEN "serving" ELSE "undoDb"
    /\ UNCHANGED <<files, journal, completed, restoring, attempt, faults>>

Recover ==
    /\ pc = "down"
    /\ rollbackErrors' = FALSE
    /\ \/ journal = None /\ pc' = "serving" /\ UNCHANGED faults
       \/ /\ journal # None /\ completed /\ Installed
          /\ pc' = "cleanStaged" /\ UNCHANGED faults
       \/ journal # None /\ ~(completed /\ Installed) /\ pc' = "undoDb" /\ UNCHANGED faults
       \/ journal # None /\ DoubtfulMarker /\ completed /\ pc' = "undoDb" /\ Faulty
    /\ UNCHANGED <<files, journal, completed, restoring, attempt>>

-----------------------------------------------------------------------------
\* rollbackAdminV1RestoreIntent: an error with the database does not keep it
\* from the secrets, but ends it after them.
UndoFails(from) ==
    /\ Goto(from, IF from \in {"undoDb", "undoDbRename"} THEN "undoSecrets" ELSE "undoRecord")
    /\ rollbackErrors' = TRUE

UndoOperation(from, newDb, newSec, next) ==
    /\ \/ /\ Goto(from, next)
          /\ Leaves(newDb, newSec)
          /\ UNCHANGED <<rollbackErrors, faults>>
       \/ /\ UndoFails(from)
          /\ Leaves(db, sec) \/ Leaves(newDb, newSec)
          /\ Faulty
    /\ UNCHANGED <<journal, completed, restoring, attempt>>

\* There is no rollback file: the live one was never moved, or is back.
\* (slip: a missing rollback file is an error)
NothingToUndoFails(from, next, f) ==
    /\ UndoFails(from)
    /\ UNCHANGED <<files, journal, completed, restoring, attempt, faults>>

NothingToUndo(from, next, f) ==
    /\ \/ f.live # None /\ Goto(from, next) /\ UNCHANGED rollbackErrors
       \/ f.live = None /\ UndoFails(from)
    /\ UNCHANGED <<files, journal, completed, restoring, attempt, faults>>

UndoDb ==
    IF db.rollback # None
    THEN UndoOperation("undoDb", Without(db, "live"), sec, "undoDbRename")
    ELSE NothingToUndo("undoDb", "undoSecrets", db)
UndoDbRename ==
    UndoOperation("undoDbRename", Moved(db, "rollback", "live"), sec, "undoSecrets")

UndoSecrets ==
    IF sec.rollback # None
    THEN UndoOperation("undoSecrets", db, Without(sec, "live"), "undoSecretsRename")
    ELSE NothingToUndo("undoSecrets", "undoRecord", sec)
UndoSecretsRename ==
    UndoOperation("undoSecretsRename", db, Moved(sec, "rollback", "live"), "undoRecord")

\* resetAdminV1RestoreRecord, unless there were errors.
\* (slip: the record is left as it is)
UndoNoRecord ==
    /\ Goto("undoRecord", IF rollbackErrors THEN "down" ELSE "cleanStaged")
    /\ UNCHANGED <<files, journal, completed, rollbackErrors, restoring, attempt, faults>>

UndoRecord ==
    /\ \/ /\ ~rollbackErrors
          /\ Goto("undoRecord", "cleanStaged")
          /\ restoring' = restoring \ {db.live}
          /\ UNCHANGED faults
       \/ rollbackErrors /\ Goto("undoRecord", "down") /\ UNCHANGED <<restoring, faults>>
       \/ Faulty /\ Goto("undoRecord", "down") /\ UNCHANGED restoring
    /\ UNCHANGED <<files, journal, completed, rollbackErrors, attempt>>

\* cleanupAdminV1CompletedRestore, which is also how a rollback ends: the
\* files beside the live pair, then the intent, then the markers.
\* (slip: the intent goes before the rollback files)
CleanStagedOnly ==
    Operation("cleanStaged", Without(db, "staged"), Without(sec, "staged"),
              "cleanJournal", "down")

CleanStaged ==
    Operation("cleanStaged", Without(db, "staged"), Without(sec, "staged"),
              "cleanRollbackDb", "down")
CleanRollbackDb ==
    Operation("cleanRollbackDb", Without(db, "rollback"), sec, "cleanRollbackSecrets", "down")
CleanRollbackSecrets ==
    Operation("cleanRollbackSecrets", db, Without(sec, "rollback"), "cleanJournal", "down")
CleanJournal == RemoveJournal("cleanJournal", "cleanMarkers", "down")
CleanMarkers == RemoveMarkers("cleanMarkers", "down")

Crash ==
    /\ pc # "down"
    /\ pc' = "down"
    /\ Faulty
    /\ UNCHANGED <<files, journal, completed, rollbackErrors, restoring, attempt>>

-----------------------------------------------------------------------------
Handle ==
    \/ StageFails \/ RemoveOldMarkers \/ WriteJournal \/ WriteFails
    \/ Schedule \/ ScheduleFails \/ DiscardStaged \/ DiscardJournal \/ DiscardMarkers
Apply == BackUpDb \/ BackUpSecrets \/ InstallDb \/ InstallSecrets \/ Complete
Undo == UndoDb \/ UndoDbRename \/ UndoSecrets \/ UndoSecretsRename \/ UndoRecord
Clean ==
    CleanStaged \/ CleanRollbackDb \/ CleanRollbackSecrets \/ CleanJournal \/ CleanMarkers

Advance == Handle \/ Apply \/ Recover \/ Undo \/ Clean
Next == Stage \/ Advance \/ Crash
Spec == Init /\ [][Next]_vars

\* The process runs on and a supervisor starts it again; nobody need ask for
\* a restore.
FairSpec == Spec /\ WF_vars(Advance)

-----------------------------------------------------------------------------
\* A server that serves has the database and the secrets of one pair, the
\* original or the restored one, never one file of each (what
\* RecoverPendingRestore's comment promises of every interrupted restore).
WholePair ==
    pc \in {"serving"} \cup Handling \cup Discarding =>
        db.live # None /\ sec.live = db.live

\* Until the marker is durable the original pair can be put back: neither of
\* its files has been removed, whichever step a crash or an error hit, in the
\* restore itself or in an earlier attempt to undo it.
OriginalIsKept ==
    journal # None /\ ~completed =>
        /\ journal.old \in {db.live, db.rollback}
        /\ journal.old \in {sec.live, sec.rollback}

\* No server comes up with the record of an abandoned restore still
\* 'restoring': it would refuse every user as under maintenance, and every
\* later restore as already running.
RecordIsSettled ==
    pc \in {"serving"} \cup Handling \cup Discarding => db.live \notin restoring

\* Once the marker is durable the restored pair stays, through every crash
\* before the cleanup has ended.
CompletedStays ==
    [][journal # None /\ completed => db'.live = db.live /\ sec'.live = sec.live]_vars

\* The intent goes last: with no intent both files are in place and none is
\* set aside, since nothing would ever look for it (the order of
\* cleanupAdminV1CompletedRestore, also where the marker is in doubt).
JournalIsLast ==
    journal = None => Installed /\ db.rollback = None /\ sec.rollback = None

\* However a restore ends, after any crashes and errors, the server serves
\* again: no state of the files makes every start fail.
ServesAgain == []<>(pc = "serving")
=============================================================================
