------------------------- MODULE RestoreJournalProofs -------------------------
(***************************************************************************)
(* For any number of restores, crashes and failed operations: a backend    *)
(* that serves has a whole pair, the original of an unfinished restore is  *)
(* never lost, a completed restore is never undone, and no server comes up *)
(* with a record left 'restoring'; provided that a pair marked completed   *)
(* passes its check (DoubtfulMarker is FALSE).                             *)
(***************************************************************************)
EXTENDS RestoreJournal, TLAPS

\* The type invariant in two parts, for provers of different strengths.
Flags == completed \in BOOLEAN /\ rollbackErrors \in BOOLEAN
Shapes ==
    /\ pc \in PC
    /\ db \in Files /\ sec \in Files
    /\ journal \in Intent \cup {None}
    /\ restoring \subseteq Nat
    /\ attempt \in Nat /\ faults \in Nat

Quiet == pc \in {"serving"} \cup Handling \cup Discarding

\* The original of a file is in its place, or aside.
InPlace(f) == f.rollback = None /\ f.live = journal.old
Aside(f) == f.rollback = journal.old
Kept(f) == Aside(f) \/ InPlace(f)

Whole == db.live \in Nat /\ sec.live = db.live /\ db.live \notin restoring
NoneAside == db.rollback = None /\ sec.rollback = None

\* Generations only grow, and a record names an older one.
AgeInv ==
    /\ \A g \in restoring : g <= attempt
    /\ db.live # None => db.live <= attempt
    /\ journal # None => journal.old < journal.new /\ journal.new <= attempt
    /\ journal # None => journal.new \notin restoring
    /\ pc \in Handling => db.live < attempt /\ attempt \notin restoring
    /\ pc \in Handling => db.staged = attempt /\ sec.staged = attempt

QuietInv ==
    /\ Quiet => Whole /\ NoneAside
    /\ Quiet /\ journal # None => ~completed /\ journal.old = db.live
    /\ pc = "writing" => journal = None /\ ~completed
    /\ pc = "prepared" => journal # None /\ journal.new = attempt
    /\ pc = "discardMarkers" => journal = None

ApplyInv ==
    /\ pc \in Applying => journal # None /\ ~completed
    /\ pc \in {"scheduled"} => InPlace(db) /\ db.staged = journal.new
    /\ pc \in {"scheduled", "dbBackedUp"} => InPlace(sec)
    /\ pc \in {"dbBackedUp", "secretsBackedUp"} => Aside(db) /\ db.staged = journal.new
    /\ pc \in {"scheduled", "dbBackedUp", "secretsBackedUp", "dbInstalled"} =>
           sec.staged = journal.new
    /\ pc \in {"secretsBackedUp", "dbInstalled", "secretsInstalled"} => Aside(sec)
    /\ pc \in {"dbInstalled", "secretsInstalled"} => Aside(db) /\ db.live = journal.new
    /\ pc = "secretsInstalled" => sec.live = journal.new

UndoInv ==
    /\ pc \in Undoing => journal # None /\ ~completed /\ Kept(db) /\ Kept(sec)
    /\ pc = "undoDbRename" => Aside(db)
    /\ pc \in {"undoSecrets", "undoSecretsRename", "undoRecord"} /\ ~rollbackErrors => InPlace(db)
    /\ pc = "undoSecretsRename" => Aside(sec)
    /\ pc = "undoRecord" /\ ~rollbackErrors => InPlace(sec)

CleanInv ==
    /\ pc \in Cleaning => Whole
    /\ pc \in Cleaning \ {"cleanMarkers"} => journal # None
    /\ pc \in Cleaning /\ journal # None /\ ~completed => InPlace(db) /\ InPlace(sec)
    /\ pc \in Cleaning /\ journal # None /\ completed => db.live = journal.new
    /\ pc \in {"cleanRollbackSecrets", "cleanJournal", "cleanMarkers"} => db.rollback = None
    /\ pc \in {"cleanJournal", "cleanMarkers"} => sec.rollback = None
    /\ pc = "cleanMarkers" => journal = None

DownInv ==
    pc = "down" =>
        /\ journal = None => Whole /\ NoneAside
        /\ journal # None /\ completed => Whole /\ db.live = journal.new
        /\ journal # None /\ ~completed => Kept(db) /\ Kept(sec)

\* The inductive invariant: what the files must hold at each place for the
\* next start to find its way.
Strengthening == AgeInv /\ QuietInv /\ ApplyInv /\ UndoInv /\ CleanInv /\ DownInv
IInv == RestoreTypeOK /\ Strengthening

-----------------------------------------------------------------------------
\* The parts of the invariant and the vocabulary of the actions.
USE NoneAssumption
    DEF Handling, Discarding, Applying, Undoing, Cleaning, PC, Generation, Files, Intent,
        Goto, files, Faulty, Leaves, Moved, Without, Unstage, Operation, RemoveJournal,
        RemoveMarkers, UndoOperation, NothingToUndo, UndoFails, Installed,
        Quiet, InPlace, Aside, Kept, Whole, NoneAside

\* The type invariant from its parts, and back.
LEMMA TypeParts == (RestoreTypeOK <=> Flags /\ Shapes) /\ (RestoreTypeOK' <=> Flags' /\ Shapes')
BY DEF RestoreTypeOK, Flags, Shapes

\* The steps of the request handler preserve the invariant.
LEMMA HandleStep == IInv /\ DoubtfulMarker = FALSE /\ Handle => IInv'
<1> SUFFICES ASSUME IInv, DoubtfulMarker = FALSE, Handle PROVE IInv'
    OBVIOUS
<1>0. Flags /\ Shapes /\ Strengthening
    BY TypeParts DEF IInv
<1>1. CASE StageFails
    <2>1. Flags'
        BY <1>0, <1>1 DEF StageFails, Flags
    <2>2. Shapes'
        BY <1>0, <1>1 DEF StageFails, Shapes, Strengthening, QuietInv
    <2>3. Strengthening'
        BY <1>0, <1>1, <2>2 DEF StageFails, Shapes, Strengthening, AgeInv, QuietInv, ApplyInv,
            UndoInv, CleanInv, DownInv
    <2>. QED
        BY <2>1, <2>2, <2>3, TypeParts DEF IInv
<1>2. CASE RemoveOldMarkers
    <2>1. Flags'
        BY <1>0, <1>2 DEF RemoveOldMarkers, Flags
    <2>2. Shapes'
        BY <1>0, <1>2 DEF RemoveOldMarkers, Shapes, Strengthening, QuietInv
    <2>3. Strengthening'
        BY <1>0, <1>2, <2>2 DEF RemoveOldMarkers, Shapes, Strengthening, AgeInv, QuietInv, ApplyInv,
            UndoInv, CleanInv, DownInv
    <2>. QED
        BY <2>1, <2>2, <2>3, TypeParts DEF IInv
<1>3. CASE WriteJournal
    <2>1. Flags'
        BY <1>0, <1>3 DEF WriteJournal, Flags
    <2>2. Shapes'
        BY <1>0, <1>3 DEF WriteJournal, Shapes, Strengthening, QuietInv
    <2>3. Strengthening'
        <3>1. AgeInv'
            BY <1>0, <1>3 DEF WriteJournal, Shapes, Strengthening, AgeInv
        <3>2. QuietInv'
            BY <1>0, <1>3, <2>2 DEF WriteJournal, Shapes, Strengthening, QuietInv
        <3>3. ApplyInv' /\ UndoInv' /\ CleanInv' /\ DownInv'
            BY <1>0, <1>3 DEF WriteJournal, ApplyInv, UndoInv, CleanInv, DownInv
        <3>. QED
            BY <3>1, <3>2, <3>3 DEF Strengthening
    <2>. QED
        BY <2>1, <2>2, <2>3, TypeParts DEF IInv
<1>4. CASE WriteFails
    <2>1. Flags'
        BY <1>0, <1>4 DEF WriteFails, Flags
    <2>2. Shapes'
        BY <1>0, <1>4 DEF WriteFails, Shapes, Strengthening, QuietInv
    <2>3. Strengthening'
        BY <1>0, <1>4, <2>2 DEF WriteFails, Shapes, Strengthening, AgeInv, QuietInv, ApplyInv,
            UndoInv, CleanInv, DownInv
    <2>. QED
        BY <2>1, <2>2, <2>3, TypeParts DEF IInv
<1>5. CASE Schedule
    <2>1. Flags'
        BY <1>0, <1>5 DEF Schedule, Flags
    <2>2. Shapes'
        BY <1>0, <1>5 DEF Schedule, Shapes, Strengthening, QuietInv
    <2>3. Strengthening'
        BY <1>0, <1>5, <2>2 DEF Schedule, Shapes, Strengthening, AgeInv, QuietInv, ApplyInv,
            UndoInv, CleanInv, DownInv
    <2>. QED
        BY <2>1, <2>2, <2>3, TypeParts DEF IInv
<1>6. CASE ScheduleFails
    <2>1. Flags'
        BY <1>0, <1>6 DEF ScheduleFails, Flags
    <2>2. Shapes'
        BY <1>0, <1>6 DEF ScheduleFails, Shapes, Strengthening, QuietInv
    <2>3. Strengthening'
        BY <1>0, <1>6, <2>2 DEF ScheduleFails, Shapes, Strengthening, AgeInv, QuietInv, ApplyInv,
            UndoInv, CleanInv, DownInv
    <2>. QED
        BY <2>1, <2>2, <2>3, TypeParts DEF IInv
<1>7. CASE DiscardStaged
    <2>1. Flags'
        BY <1>0, <1>7 DEF DiscardStaged, Flags
    <2>2. Shapes'
        BY <1>0, <1>7 DEF DiscardStaged, Shapes, Strengthening, QuietInv
    <2>3. Strengthening'
        BY <1>0, <1>7, <2>2 DEF DiscardStaged, Shapes, Strengthening, AgeInv, QuietInv, ApplyInv,
            UndoInv, CleanInv, DownInv
    <2>. QED
        BY <2>1, <2>2, <2>3, TypeParts DEF IInv
<1>8. CASE DiscardJournal
    <2>1. Flags'
        BY <1>0, <1>8 DEF DiscardJournal, Flags
    <2>2. Shapes'
        BY <1>0, <1>8 DEF DiscardJournal, Shapes, Strengthening, QuietInv
    <2>3. Strengthening'
        BY <1>0, <1>8, <2>2 DEF DiscardJournal, Shapes, Strengthening, AgeInv, QuietInv, ApplyInv,
            UndoInv, CleanInv, DownInv
    <2>. QED
        BY <2>1, <2>2, <2>3, TypeParts DEF IInv
<1>9. CASE DiscardMarkers
    <2>1. Flags'
        BY <1>0, <1>9 DEF DiscardMarkers, Flags
    <2>2. Shapes'
        BY <1>0, <1>9 DEF DiscardMarkers, Shapes, Strengthening, QuietInv
    <2>3. Strengthening'
        BY <1>0, <1>9, <2>2 DEF DiscardMarkers, Shapes, Strengthening, AgeInv, QuietInv, ApplyInv,
            UndoInv, CleanInv, DownInv
    <2>. QED
        BY <2>1, <2>2, <2>3, TypeParts DEF IInv
<1>. QED
    BY <1>1, <1>2, <1>3, <1>4, <1>5, <1>6, <1>7, <1>8, <1>9 DEF Handle

\* The steps of the swap preserve the invariant.
LEMMA ApplyStep == IInv /\ DoubtfulMarker = FALSE /\ Apply => IInv'
<1> SUFFICES ASSUME IInv, DoubtfulMarker = FALSE, Apply PROVE IInv'
    OBVIOUS
<1>0. Flags /\ Shapes /\ Strengthening
    BY TypeParts DEF IInv
<1>1. CASE BackUpDb
    <2>1. Flags'
        BY <1>0, <1>1 DEF BackUpDb, Flags
    <2>2. Shapes'
        BY <1>0, <1>1 DEF BackUpDb, Shapes, Strengthening, QuietInv
    <2>3. Strengthening'
        BY <1>0, <1>1, <2>2 DEF BackUpDb, Shapes, Strengthening, AgeInv, QuietInv, ApplyInv,
            UndoInv, CleanInv, DownInv
    <2>. QED
        BY <2>1, <2>2, <2>3, TypeParts DEF IInv
<1>2. CASE BackUpSecrets
    <2>1. Flags'
        BY <1>0, <1>2 DEF BackUpSecrets, Flags
    <2>2. Shapes'
        BY <1>0, <1>2 DEF BackUpSecrets, Shapes, Strengthening, QuietInv
    <2>3. Strengthening'
        BY <1>0, <1>2, <2>2 DEF BackUpSecrets, Shapes, Strengthening, AgeInv, QuietInv, ApplyInv,
            UndoInv, CleanInv, DownInv
    <2>. QED
        BY <2>1, <2>2, <2>3, TypeParts DEF IInv
<1>3. CASE InstallDb
    <2>1. Flags'
        BY <1>0, <1>3 DEF InstallDb, Flags
    <2>2. Shapes'
        BY <1>0, <1>3 DEF InstallDb, Shapes, Strengthening, QuietInv
    <2>3. Strengthening'
        BY <1>0, <1>3, <2>2 DEF InstallDb, Shapes, Strengthening, AgeInv, QuietInv, ApplyInv,
            UndoInv, CleanInv, DownInv
    <2>. QED
        BY <2>1, <2>2, <2>3, TypeParts DEF IInv
<1>4. CASE InstallSecrets
    <2>1. Flags'
        BY <1>0, <1>4 DEF InstallSecrets, Flags
    <2>2. Shapes'
        BY <1>0, <1>4 DEF InstallSecrets, Shapes, Strengthening, QuietInv
    <2>3. Strengthening'
        BY <1>0, <1>4, <2>2 DEF InstallSecrets, Shapes, Strengthening, AgeInv, QuietInv, ApplyInv,
            UndoInv, CleanInv, DownInv
    <2>. QED
        BY <2>1, <2>2, <2>3, TypeParts DEF IInv
<1>5. CASE Complete
    <2>1. Flags'
        BY <1>0, <1>5 DEF Complete, Flags
    <2>2. Shapes'
        BY <1>0, <1>5 DEF Complete, Shapes, Strengthening, QuietInv
    <2>3. Strengthening'
        BY <1>0, <1>5, <2>2 DEF Complete, Shapes, Strengthening, AgeInv, QuietInv, ApplyInv,
            UndoInv, CleanInv, DownInv
    <2>. QED
        BY <2>1, <2>2, <2>3, TypeParts DEF IInv
<1>. QED
    BY <1>1, <1>2, <1>3, <1>4, <1>5 DEF Apply

\* The rollback's steps keep the files, the records and the counters what they are.
LEMMA UndoDbShapes == ASSUME Shapes, UndoDb PROVE Shapes'
<1>1. CASE db.rollback # None
    <2>1. pc' \in PC
        BY <1>1 DEF UndoDb
    <2>2. db' \in Files /\ sec' \in Files
        BY <1>1 DEF UndoDb, Shapes
    <2>3. faults' \in Nat /\ UNCHANGED <<journal, restoring, attempt>>
        BY <1>1 DEF UndoDb, Shapes
    <2>. QED
        BY <2>1, <2>2, <2>3 DEF Shapes
<1>2. CASE db.rollback = None
    BY <1>2 DEF UndoDb, Shapes
<1>. QED
    BY <1>1, <1>2

LEMMA UndoSecretsShapes == ASSUME Shapes, UndoSecrets PROVE Shapes'
<1>1. CASE sec.rollback # None
    <2>1. pc' \in PC
        BY <1>1 DEF UndoSecrets
    <2>2. db' \in Files /\ sec' \in Files
        BY <1>1 DEF UndoSecrets, Shapes
    <2>3. faults' \in Nat /\ UNCHANGED <<journal, restoring, attempt>>
        BY <1>1 DEF UndoSecrets, Shapes
    <2>. QED
        BY <2>1, <2>2, <2>3 DEF Shapes
<1>2. CASE sec.rollback = None
    BY <1>2 DEF UndoSecrets, Shapes
<1>. QED
    BY <1>1, <1>2

LEMMA UndoRecordShapes == ASSUME Shapes, UndoRecord PROVE Shapes'
<1>1. pc' \in {"cleanStaged", "down"} /\ restoring' \subseteq restoring /\ faults' \in Nat
    BY DEF UndoRecord, Shapes
<1>. QED
    BY <1>1 DEF UndoRecord, Shapes

\* The steps of the rollback preserve the invariant.
LEMMA UndoStep == IInv /\ DoubtfulMarker = FALSE /\ Undo => IInv'
<1> SUFFICES ASSUME IInv, DoubtfulMarker = FALSE, Undo PROVE IInv'
    OBVIOUS
<1>0. Flags /\ Shapes /\ Strengthening
    BY TypeParts DEF IInv
<1>1. CASE UndoDb
    <2>1. Flags'
        BY <1>0, <1>1 DEF UndoDb, Flags
    <2>2. Shapes'
        BY <1>0, <1>1, UndoDbShapes
    <2>3. Strengthening'
        BY <1>0, <1>1, <2>2 DEF UndoDb, Shapes, Strengthening, AgeInv, QuietInv, ApplyInv,
            UndoInv, CleanInv, DownInv
    <2>. QED
        BY <2>1, <2>2, <2>3, TypeParts DEF IInv
<1>2. CASE UndoDbRename
    <2>1. Flags'
        BY <1>0, <1>2 DEF UndoDbRename, Flags
    <2>2. Shapes'
        BY <1>0, <1>2 DEF UndoDbRename, Shapes, Strengthening, QuietInv
    <2>3. Strengthening'
        BY <1>0, <1>2, <2>2 DEF UndoDbRename, Shapes, Strengthening, AgeInv, QuietInv, ApplyInv,
            UndoInv, CleanInv, DownInv
    <2>. QED
        BY <2>1, <2>2, <2>3, TypeParts DEF IInv
<1>3. CASE UndoSecrets
    <2>1. Flags'
        BY <1>0, <1>3 DEF UndoSecrets, Flags
    <2>2. Shapes'
        BY <1>0, <1>3, UndoSecretsShapes
    <2>3. Strengthening'
        BY <1>0, <1>3, <2>2 DEF UndoSecrets, Shapes, Strengthening, AgeInv, QuietInv, ApplyInv,
            UndoInv, CleanInv, DownInv
    <2>. QED
        BY <2>1, <2>2, <2>3, TypeParts DEF IInv
<1>4. CASE UndoSecretsRename
    <2>1. Flags'
        BY <1>0, <1>4 DEF UndoSecretsRename, Flags
    <2>2. Shapes'
        BY <1>0, <1>4 DEF UndoSecretsRename, Shapes, Strengthening, QuietInv
    <2>3. Strengthening'
        BY <1>0, <1>4, <2>2 DEF UndoSecretsRename, Shapes, Strengthening, AgeInv, QuietInv, ApplyInv,
            UndoInv, CleanInv, DownInv
    <2>. QED
        BY <2>1, <2>2, <2>3, TypeParts DEF IInv
<1>5. CASE UndoRecord
    <2>1. Flags'
        BY <1>0, <1>5 DEF UndoRecord, Flags
    <2>2. Shapes'
        BY <1>0, <1>5, UndoRecordShapes
    <2>3. Strengthening'
        BY <1>0, <1>5, <2>2 DEF UndoRecord, Shapes, Strengthening, AgeInv, QuietInv, ApplyInv,
            UndoInv, CleanInv, DownInv
    <2>. QED
        BY <2>1, <2>2, <2>3, TypeParts DEF IInv
<1>. QED
    BY <1>1, <1>2, <1>3, <1>4, <1>5 DEF Undo

\* The steps of the cleanup preserve the invariant.
LEMMA CleanStep == IInv /\ DoubtfulMarker = FALSE /\ Clean => IInv'
<1> SUFFICES ASSUME IInv, DoubtfulMarker = FALSE, Clean PROVE IInv'
    OBVIOUS
<1>0. Flags /\ Shapes /\ Strengthening
    BY TypeParts DEF IInv
<1>1. CASE CleanStaged
    <2>1. Flags'
        BY <1>0, <1>1 DEF CleanStaged, Flags
    <2>2. Shapes'
        BY <1>0, <1>1 DEF CleanStaged, Shapes, Strengthening, QuietInv
    <2>3. Strengthening'
        BY <1>0, <1>1, <2>2 DEF CleanStaged, Shapes, Strengthening, AgeInv, QuietInv, ApplyInv,
            UndoInv, CleanInv, DownInv
    <2>. QED
        BY <2>1, <2>2, <2>3, TypeParts DEF IInv
<1>2. CASE CleanRollbackDb
    <2>1. Flags'
        BY <1>0, <1>2 DEF CleanRollbackDb, Flags
    <2>2. Shapes'
        BY <1>0, <1>2 DEF CleanRollbackDb, Shapes, Strengthening, QuietInv
    <2>3. Strengthening'
        BY <1>0, <1>2, <2>2 DEF CleanRollbackDb, Shapes, Strengthening, AgeInv, QuietInv, ApplyInv,
            UndoInv, CleanInv, DownInv
    <2>. QED
        BY <2>1, <2>2, <2>3, TypeParts DEF IInv
<1>3. CASE CleanRollbackSecrets
    <2>1. Flags'
        BY <1>0, <1>3 DEF CleanRollbackSecrets, Flags
    <2>2. Shapes'
        BY <1>0, <1>3 DEF CleanRollbackSecrets, Shapes, Strengthening, QuietInv
    <2>3. Strengthening'
        BY <1>0, <1>3, <2>2 DEF CleanRollbackSecrets, Shapes, Strengthening, AgeInv, QuietInv, ApplyInv,
            UndoInv, CleanInv, DownInv
    <2>. QED
        BY <2>1, <2>2, <2>3, TypeParts DEF IInv
<1>4. CASE CleanJournal
    <2>1. Flags'
        BY <1>0, <1>4 DEF CleanJournal, Flags
    <2>2. Shapes'
        BY <1>0, <1>4 DEF CleanJournal, Shapes, Strengthening, QuietInv
    <2>3. Strengthening'
        BY <1>0, <1>4, <2>2 DEF CleanJournal, Shapes, Strengthening, AgeInv, QuietInv, ApplyInv,
            UndoInv, CleanInv, DownInv
    <2>. QED
        BY <2>1, <2>2, <2>3, TypeParts DEF IInv
<1>5. CASE CleanMarkers
    <2>1. Flags'
        BY <1>0, <1>5 DEF CleanMarkers, Flags
    <2>2. Shapes'
        BY <1>0, <1>5 DEF CleanMarkers, Shapes, Strengthening, QuietInv
    <2>3. Strengthening'
        BY <1>0, <1>5, <2>2 DEF CleanMarkers, Shapes, Strengthening, AgeInv, QuietInv, ApplyInv,
            UndoInv, CleanInv, DownInv
    <2>. QED
        BY <2>1, <2>2, <2>3, TypeParts DEF IInv
<1>. QED
    BY <1>1, <1>2, <1>3, <1>4, <1>5 DEF Clean

\* The steps of a request, a crash and the next start preserve the invariant.
LEMMA OtherStep == IInv /\ DoubtfulMarker = FALSE /\ (Stage \/ Crash \/ Recover) => IInv'
<1> SUFFICES ASSUME IInv, DoubtfulMarker = FALSE, Stage \/ Crash \/ Recover PROVE IInv'
    OBVIOUS
<1>0. Flags /\ Shapes /\ Strengthening
    BY TypeParts DEF IInv
<1>1. CASE Stage
    <2>1. Flags'
        BY <1>0, <1>1 DEF Stage, Flags
    <2>2. Shapes'
        BY <1>0, <1>1 DEF Stage, Shapes, Strengthening, QuietInv
    <2>3. Strengthening'
        BY <1>0, <1>1, <2>2 DEF Stage, Shapes, Strengthening, AgeInv, QuietInv, ApplyInv,
            UndoInv, CleanInv, DownInv
    <2>. QED
        BY <2>1, <2>2, <2>3, TypeParts DEF IInv
<1>2. CASE Crash
    <2>1. Flags'
        BY <1>0, <1>2 DEF Crash, Flags
    <2>2. Shapes'
        BY <1>0, <1>2 DEF Crash, Shapes, Strengthening, QuietInv
    <2>3. Strengthening'
        BY <1>0, <1>2, <2>2 DEF Crash, Shapes, Strengthening, AgeInv, QuietInv, ApplyInv,
            UndoInv, CleanInv, DownInv
    <2>. QED
        BY <2>1, <2>2, <2>3, TypeParts DEF IInv
<1>3. CASE Recover
    <2>1. Flags'
        BY <1>0, <1>3 DEF Recover, Flags
    <2>2. Shapes'
        BY <1>0, <1>3 DEF Recover, Shapes, Strengthening, QuietInv
    <2>3. Strengthening'
        BY <1>0, <1>3, <2>2 DEF Recover, Shapes, Strengthening, AgeInv, QuietInv, ApplyInv,
            UndoInv, CleanInv, DownInv
    <2>. QED
        BY <2>1, <2>2, <2>3, TypeParts DEF IInv
<1>. QED
    BY <1>1, <1>2, <1>3

\* The server before its first restore.
LEMMA InitInv == Init => IInv
<1> SUFFICES ASSUME Init PROVE IInv
    OBVIOUS
<1>1. Flags
    BY DEF Init, Flags
<1>2. Shapes
    BY DEF Init, Shapes
<1>3. Strengthening
    BY DEF Init, Strengthening, AgeInv, QuietInv, ApplyInv, UndoInv, CleanInv, DownInv
<1>. QED
    BY <1>1, <1>2, <1>3, TypeParts DEF IInv

\* Every behaviour keeps the invariant.
LEMMA Inductive == ASSUME DoubtfulMarker = FALSE PROVE Spec => []IInv
<1>1. IInv /\ [Next]_vars => IInv'
    <2> SUFFICES ASSUME IInv, [Next]_vars PROVE IInv'
        OBVIOUS
    <2>1. CASE UNCHANGED vars
        BY <2>1 DEF IInv, RestoreTypeOK, Strengthening, AgeInv, QuietInv, ApplyInv, UndoInv,
            CleanInv, DownInv, vars
    <2>2. CASE Next
        BY <2>2, HandleStep, ApplyStep, UndoStep, CleanStep, OtherStep DEF Next, Advance
    <2>. QED
        BY <2>1, <2>2
<1>. QED
    BY <1>1, InitInv, PTL DEF Spec

\* A serving backend has the database and the secrets of one pair, however
\* often it was killed while it swapped, undid or cleaned up.
THEOREM PairIsWhole == ASSUME DoubtfulMarker = FALSE PROVE Spec => []WholePair
<1>1. IInv => WholePair
    BY DEF IInv, Strengthening, QuietInv, WholePair
<1>. QED
    BY <1>1, Inductive, PTL

\* The original pair exists until the restored one is marked completed.
THEOREM OriginalSurvives == ASSUME DoubtfulMarker = FALSE PROVE Spec => []OriginalIsKept
<1>1. IInv => OriginalIsKept
    BY DEF IInv, RestoreTypeOK, Strengthening, QuietInv, ApplyInv, UndoInv, CleanInv, DownInv,
        OriginalIsKept
<1>. QED
    BY <1>1, Inductive, PTL

\* A backend comes up with no restore on record as under way.
THEOREM RecordSettles == ASSUME DoubtfulMarker = FALSE PROVE Spec => []RecordIsSettled
<1>1. IInv => RecordIsSettled
    BY DEF IInv, Strengthening, QuietInv, RecordIsSettled
<1>. QED
    BY <1>1, Inductive, PTL

\* No step after the marker is durable takes the restored pair away.
LEMMA CompletedStep ==
    ASSUME DoubtfulMarker = FALSE, IInv, Next, journal # None, completed
    PROVE  db'.live = db.live /\ sec'.live = sec.live
<1>1. pc \in Cleaning \cup {"down"} /\ db \in Files /\ sec \in Files
    BY DEF IInv, RestoreTypeOK, Strengthening, QuietInv, ApplyInv, UndoInv
<1>2. CASE Recover \/ Crash
    BY <1>2 DEF Recover, Crash
<1>3. CASE Clean
    BY <1>1, <1>3 DEF Clean, CleanStaged, CleanRollbackDb, CleanRollbackSecrets, CleanJournal,
        CleanMarkers
<1>4. ~Stage /\ ~Handle
    BY <1>1 DEF Stage, Handle, StageFails, RemoveOldMarkers, WriteJournal, WriteFails, Schedule,
        ScheduleFails, DiscardStaged, DiscardJournal, DiscardMarkers
<1>5. ~Apply
    BY <1>1 DEF Apply, BackUpDb, BackUpSecrets, InstallDb, InstallSecrets, Complete
<1>6. ~Undo
    BY <1>1 DEF Undo, UndoDb, UndoDbRename, UndoSecrets, UndoSecretsRename, UndoRecord
<1>. QED
    BY <1>2, <1>3, <1>4, <1>5, <1>6 DEF Next, Advance

\* A completed restore is never undone.
THEOREM CompletedIsFinal == ASSUME DoubtfulMarker = FALSE PROVE Spec => CompletedStays
<1>1. IInv /\ [Next]_vars => [journal # None /\ completed => db'.live = db.live /\ sec'.live = sec.live]_vars
    BY CompletedStep
<1>. QED
    BY <1>1, Inductive, PTL DEF Spec, CompletedStays
-----------------------------------------------------------------------------
\* What holds of the files even where a marker is in doubt: while no intent is
\* there both of them are in place; a step that renames a file finds it; and
\* the cleanup has removed what it has passed.
PlacesInv ==
    /\ Quiet \/ pc \in {"cleanJournal", "cleanMarkers"} \/ (pc = "down" /\ journal = None) =>
           NoneAside
    /\ Quiet \/ pc \in Cleaning \/ (pc = "down" /\ journal = None) => Installed
    /\ pc \in Applying \cup Undoing \cup (Cleaning \ {"cleanMarkers"}) => journal # None
    /\ pc \in Handling \cup {"scheduled", "dbBackedUp", "secretsBackedUp"} => db.staged # None
    /\ pc \in Handling \cup (Applying \ {"secretsInstalled"}) => sec.staged # None
    /\ pc \in {"dbInstalled", "secretsInstalled"} => db.live # None
    /\ pc = "secretsInstalled" => sec.live # None
    /\ pc = "prepared" => journal # None
    /\ pc = "cleanRollbackSecrets" => db.rollback = None

UndoneInv ==
    /\ pc = "undoDbRename" => db.rollback # None
    /\ pc = "undoSecretsRename" => sec.rollback # None
    /\ pc \in {"undoSecrets", "undoSecretsRename", "undoRecord"} /\ ~rollbackErrors =>
           db.live # None
    /\ pc = "undoRecord" /\ ~rollbackErrors => sec.live # None

\* Booleans apart, again for the provers' sake.
LastInv == Flags /\ Shapes /\ PlacesInv /\ UndoneInv

\* The request handler's steps keep it.
LEMMA HandleLast == LastInv /\ Handle => LastInv'
<1> SUFFICES ASSUME LastInv, Handle PROVE LastInv'
    OBVIOUS
<1>1. CASE StageFails
    <2>1. Flags'
        BY <1>1 DEF StageFails, LastInv, Flags
    <2>2. Shapes' /\ PlacesInv' /\ UndoneInv'
        BY <1>1 DEF StageFails, LastInv, Shapes, PlacesInv, UndoneInv
    <2>. QED
        BY <2>1, <2>2 DEF LastInv
<1>2. CASE RemoveOldMarkers
    <2>1. Flags'
        BY <1>2 DEF RemoveOldMarkers, LastInv, Flags
    <2>2. Shapes' /\ PlacesInv' /\ UndoneInv'
        BY <1>2 DEF RemoveOldMarkers, LastInv, Shapes, PlacesInv, UndoneInv
    <2>. QED
        BY <2>1, <2>2 DEF LastInv
<1>3. CASE WriteJournal
    <2>1. Flags'
        BY <1>3 DEF WriteJournal, LastInv, Flags
    <2>2. Shapes' /\ PlacesInv' /\ UndoneInv'
        BY <1>3 DEF WriteJournal, LastInv, Shapes, PlacesInv, UndoneInv
    <2>. QED
        BY <2>1, <2>2 DEF LastInv
<1>4. CASE WriteFails
    <2>1. Flags'
        BY <1>4 DEF WriteFails, LastInv, Flags
    <2>2. Shapes' /\ PlacesInv' /\ UndoneInv'
        BY <1>4 DEF WriteFails, LastInv, Shapes, PlacesInv, UndoneInv
    <2>. QED
        BY <2>1, <2>2 DEF LastInv
<1>5. CASE Schedule
    <2>1. Flags'
        BY <1>5 DEF Schedule, LastInv, Flags
    <2>2. Shapes' /\ PlacesInv' /\ UndoneInv'
        BY <1>5 DEF Schedule, LastInv, Shapes, PlacesInv, UndoneInv
    <2>. QED
        BY <2>1, <2>2 DEF LastInv
<1>6. CASE ScheduleFails
    <2>1. Flags'
        BY <1>6 DEF ScheduleFails, LastInv, Flags
    <2>2. Shapes' /\ PlacesInv' /\ UndoneInv'
        BY <1>6 DEF ScheduleFails, LastInv, Shapes, PlacesInv, UndoneInv
    <2>. QED
        BY <2>1, <2>2 DEF LastInv
<1>7. CASE DiscardStaged
    <2>1. Flags'
        BY <1>7 DEF DiscardStaged, LastInv, Flags
    <2>2. Shapes' /\ PlacesInv' /\ UndoneInv'
        BY <1>7 DEF DiscardStaged, LastInv, Shapes, PlacesInv, UndoneInv
    <2>. QED
        BY <2>1, <2>2 DEF LastInv
<1>8. CASE DiscardJournal
    <2>1. Flags'
        BY <1>8 DEF DiscardJournal, LastInv, Flags
    <2>2. Shapes' /\ PlacesInv' /\ UndoneInv'
        BY <1>8 DEF DiscardJournal, LastInv, Shapes, PlacesInv, UndoneInv
    <2>. QED
        BY <2>1, <2>2 DEF LastInv
<1>9. CASE DiscardMarkers
    <2>1. Flags'
        BY <1>9 DEF DiscardMarkers, LastInv, Flags
    <2>2. Shapes' /\ PlacesInv' /\ UndoneInv'
        BY <1>9 DEF DiscardMarkers, LastInv, Shapes, PlacesInv, UndoneInv
    <2>. QED
        BY <2>1, <2>2 DEF LastInv
<1>. QED
    BY <1>1, <1>2, <1>3, <1>4, <1>5, <1>6, <1>7, <1>8, <1>9 DEF Handle

\* So do those of the swap,
LEMMA ApplyLast == LastInv /\ Apply => LastInv'
<1> SUFFICES ASSUME LastInv, Apply PROVE LastInv'
    OBVIOUS
<1>1. CASE BackUpDb
    <2>1. Flags'
        BY <1>1 DEF BackUpDb, LastInv, Flags
    <2>2. Shapes' /\ PlacesInv' /\ UndoneInv'
        BY <1>1 DEF BackUpDb, LastInv, Shapes, PlacesInv, UndoneInv
    <2>. QED
        BY <2>1, <2>2 DEF LastInv
<1>2. CASE BackUpSecrets
    <2>1. Flags'
        BY <1>2 DEF BackUpSecrets, LastInv, Flags
    <2>2. Shapes' /\ PlacesInv' /\ UndoneInv'
        BY <1>2 DEF BackUpSecrets, LastInv, Shapes, PlacesInv, UndoneInv
    <2>. QED
        BY <2>1, <2>2 DEF LastInv
<1>3. CASE InstallDb
    <2>1. Flags'
        BY <1>3 DEF InstallDb, LastInv, Flags
    <2>2. Shapes' /\ PlacesInv' /\ UndoneInv'
        BY <1>3 DEF InstallDb, LastInv, Shapes, PlacesInv, UndoneInv
    <2>. QED
        BY <2>1, <2>2 DEF LastInv
<1>4. CASE InstallSecrets
    <2>1. Flags'
        BY <1>4 DEF InstallSecrets, LastInv, Flags
    <2>2. Shapes' /\ PlacesInv' /\ UndoneInv'
        BY <1>4 DEF InstallSecrets, LastInv, Shapes, PlacesInv, UndoneInv
    <2>. QED
        BY <2>1, <2>2 DEF LastInv
<1>5. CASE Complete
    <2>1. Flags'
        BY <1>5 DEF Complete, LastInv, Flags
    <2>2. Shapes' /\ PlacesInv' /\ UndoneInv'
        BY <1>5 DEF Complete, LastInv, Shapes, PlacesInv, UndoneInv
    <2>. QED
        BY <2>1, <2>2 DEF LastInv
<1>. QED
    BY <1>1, <1>2, <1>3, <1>4, <1>5 DEF Apply

\* those of the rollback,
LEMMA UndoLast == LastInv /\ Undo => LastInv'
<1> SUFFICES ASSUME LastInv, Undo PROVE LastInv'
    OBVIOUS
<1>1. CASE UndoDb
    <2>1. Flags'
        BY <1>1 DEF UndoDb, LastInv, Flags
    <2>2. Shapes'
        BY <1>1, UndoDbShapes DEF LastInv
    <2>3. PlacesInv' /\ UndoneInv'
        BY <1>1 DEF UndoDb, LastInv, Shapes, PlacesInv, UndoneInv
    <2>. QED
        BY <2>1, <2>2, <2>3 DEF LastInv
<1>2. CASE UndoDbRename
    <2>1. Flags'
        BY <1>2 DEF UndoDbRename, LastInv, Flags
    <2>2. Shapes' /\ PlacesInv' /\ UndoneInv'
        BY <1>2 DEF UndoDbRename, LastInv, Shapes, PlacesInv, UndoneInv
    <2>. QED
        BY <2>1, <2>2 DEF LastInv
<1>3. CASE UndoSecrets
    <2>1. Flags'
        BY <1>3 DEF UndoSecrets, LastInv, Flags
    <2>2. Shapes'
        BY <1>3, UndoSecretsShapes DEF LastInv
    <2>3. PlacesInv' /\ UndoneInv'
        BY <1>3 DEF UndoSecrets, LastInv, Shapes, PlacesInv, UndoneInv
    <2>. QED
        BY <2>1, <2>2, <2>3 DEF LastInv
<1>4. CASE UndoSecretsRename
    <2>1. Flags'
        BY <1>4 DEF UndoSecretsRename, LastInv, Flags
    <2>2. Shapes' /\ PlacesInv' /\ UndoneInv'
        BY <1>4 DEF UndoSecretsRename, LastInv, Shapes, PlacesInv, UndoneInv
    <2>. QED
        BY <2>1, <2>2 DEF LastInv
<1>5. CASE UndoRecord
    <2>1. Flags'
        BY <1>5 DEF UndoRecord, LastInv, Flags
    <2>2. Shapes'
        BY <1>5, UndoRecordShapes DEF LastInv
    <2>3. PlacesInv' /\ UndoneInv'
        BY <1>5 DEF UndoRecord, LastInv, Shapes, PlacesInv, UndoneInv
    <2>. QED
        BY <2>1, <2>2, <2>3 DEF LastInv
<1>. QED
    BY <1>1, <1>2, <1>3, <1>4, <1>5 DEF Undo

\* those of the cleanup,
LEMMA CleanLast == LastInv /\ Clean => LastInv'
<1> SUFFICES ASSUME LastInv, Clean PROVE LastInv'
    OBVIOUS
<1>1. CASE CleanStaged
    <2>1. Flags'
        BY <1>1 DEF CleanStaged, LastInv, Flags
    <2>2. Shapes' /\ PlacesInv' /\ UndoneInv'
        BY <1>1 DEF CleanStaged, LastInv, Shapes, PlacesInv, UndoneInv
    <2>. QED
        BY <2>1, <2>2 DEF LastInv
<1>2. CASE CleanRollbackDb
    <2>1. Flags'
        BY <1>2 DEF CleanRollbackDb, LastInv, Flags
    <2>2. Shapes' /\ PlacesInv' /\ UndoneInv'
        BY <1>2 DEF CleanRollbackDb, LastInv, Shapes, PlacesInv, UndoneInv
    <2>. QED
        BY <2>1, <2>2 DEF LastInv
<1>3. CASE CleanRollbackSecrets
    <2>1. Flags'
        BY <1>3 DEF CleanRollbackSecrets, LastInv, Flags
    <2>2. Shapes' /\ PlacesInv' /\ UndoneInv'
        BY <1>3 DEF CleanRollbackSecrets, LastInv, Shapes, PlacesInv, UndoneInv
    <2>. QED
        BY <2>1, <2>2 DEF LastInv
<1>4. CASE CleanJournal
    <2>1. Flags'
        BY <1>4 DEF CleanJournal, LastInv, Flags
    <2>2. Shapes' /\ PlacesInv' /\ UndoneInv'
        BY <1>4 DEF CleanJournal, LastInv, Shapes, PlacesInv, UndoneInv
    <2>. QED
        BY <2>1, <2>2 DEF LastInv
<1>5. CASE CleanMarkers
    <2>1. Flags'
        BY <1>5 DEF CleanMarkers, LastInv, Flags
    <2>2. Shapes' /\ PlacesInv' /\ UndoneInv'
        BY <1>5 DEF CleanMarkers, LastInv, Shapes, PlacesInv, UndoneInv
    <2>. QED
        BY <2>1, <2>2 DEF LastInv
<1>. QED
    BY <1>1, <1>2, <1>3, <1>4, <1>5 DEF Clean

\* and the others.
LEMMA OtherLast == LastInv /\ (Stage \/ Recover \/ Crash) => LastInv'
<1> SUFFICES ASSUME LastInv, Stage \/ Recover \/ Crash PROVE LastInv'
    OBVIOUS
<1>1. CASE Stage
    <2>1. Flags'
        BY <1>1 DEF Stage, LastInv, Flags
    <2>2. Shapes' /\ PlacesInv' /\ UndoneInv'
        BY <1>1 DEF Stage, LastInv, Shapes, PlacesInv, UndoneInv
    <2>. QED
        BY <2>1, <2>2 DEF LastInv
<1>2. CASE Recover
    <2>1. Flags'
        BY <1>2 DEF Recover, LastInv, Flags
    <2>2. Shapes' /\ PlacesInv' /\ UndoneInv'
        BY <1>2 DEF Recover, LastInv, Shapes, PlacesInv, UndoneInv
    <2>. QED
        BY <2>1, <2>2 DEF LastInv
<1>3. CASE Crash
    <2>1. Flags'
        BY <1>3 DEF Crash, LastInv, Flags
    <2>2. Shapes' /\ PlacesInv' /\ UndoneInv'
        BY <1>3 DEF Crash, LastInv, Shapes, PlacesInv, UndoneInv
    <2>. QED
        BY <2>1, <2>2 DEF LastInv
<1>. QED
    BY <1>1, <1>2, <1>3

\* Every behaviour keeps it, with the markers in doubt or not.
LEMMA LastIsInductive == Spec => []LastInv
<1>1. Init => LastInv
    <2> SUFFICES ASSUME Init PROVE LastInv
        OBVIOUS
    <2>1. Flags
        BY DEF Init, Flags
    <2>2. Shapes /\ PlacesInv /\ UndoneInv
        BY DEF Init, Shapes, PlacesInv, UndoneInv
    <2>. QED
        BY <2>1, <2>2 DEF LastInv
<1>2. LastInv /\ [Next]_vars => LastInv'
    <2> SUFFICES ASSUME LastInv, [Next]_vars PROVE LastInv'
        OBVIOUS
    <2>1. CASE UNCHANGED vars
        BY <2>1 DEF LastInv, Flags, Shapes, PlacesInv, UndoneInv, vars
    <2>2. CASE Next
        BY <2>2, HandleLast, ApplyLast, UndoLast, CleanLast, OtherLast DEF Next, Advance
    <2>. QED
        BY <2>1, <2>2
<1>. QED
    BY <1>1, <1>2, PTL DEF Spec

\* The variables keep their types: in particular the process is always at a
\* place the code has, and no record or intent names a database that was never
\* there.
THEOREM TypeIsKept == Spec => []RestoreTypeOK
<1>1. LastInv => RestoreTypeOK
    BY TypeParts DEF LastInv
<1>. QED
    BY <1>1, LastIsInductive, PTL

\* With no intent there is nothing to recover: both files are in place and no
\* original is left aside, even where a marker is in doubt.
THEOREM IntentGoesLast == Spec => []JournalIsLast
<1>1. LastInv => JournalIsLast
    BY DEF LastInv, Shapes, PlacesInv, JournalIsLast
<1>. QED
    BY <1>1, LastIsInductive, PTL
=============================================================================
