----------------------------- MODULE SyncRecovery -----------------------------
(***************************************************************************)
(* Profile synchronisation when the backend's data goes back in time: an   *)
(* administrator restores a backup, or an account's profile row is lost.   *)
(*                                                                         *)
(* A restored snapshot holds no session and no token                       *)
(* (adminV1PrepareDataOnlyRestore, backup_security.go), so every session   *)
(* opened before it is answered 401 from then on; browsers may keep their  *)
(* old credentials and go on trying.  How the files are swapped is         *)
(* RestoreJournal's.                                                       *)
(*                                                                         *)
(* Nothing in the repository deletes the profile row and keeps the         *)
(* account's tokens; the extension guards against it all the same          *)
(* (SERVER_EMPTY_CONFLICT), so ProfileLost is an event of the environment. *)
(***************************************************************************)
EXTENDS SyncProtocol

CONSTANTS MaxRestores, \* bound: backups restored
          MaxLosses    \* bound: profile rows lost

VARIABLES backup,   \* [Account -> Server]: the snapshot kept
          revoked,  \* generations opened before the last restore
          restores, losses

recoveryVars == <<vars, backup, revoked, restores, losses>>
events == <<backup, revoked, restores, losses>>

RecoveryInit ==
    /\ Init
    /\ backup = server
    /\ revoked = {} /\ restores = 0 /\ losses = 0

TakeBackup ==
    /\ backup # server
    /\ backup' = server
    /\ UNCHANGED <<vars, revoked, restores, losses>>

\* The conflict ids drawn later are fresh: newID is random.
\* (slip: the sessions outlive the restore)
RestoreBackupOnly ==
    /\ restores < MaxRestores
    /\ restores' = restores + 1
    /\ server' = [a \in Account |-> [backup[a] EXCEPT !.serial = server[a].serial]]
    /\ UNCHANGED <<store, vault, calls, nextId, nextGen, faults, backup, revoked, losses>>

RestoreBackup ==
    /\ restores < MaxRestores
    /\ restores' = restores + 1
    /\ server' = [a \in Account |-> [backup[a] EXCEPT !.serial = server[a].serial]]
    /\ revoked' = 1 .. nextGen - 1
    /\ UNCHANGED <<store, vault, calls, nextId, nextGen, faults, backup, losses>>

ProfileLost(a) ==
    /\ losses < MaxLosses
    /\ server[a].history # <<>>
    /\ losses' = losses + 1
    /\ server' = [server EXCEPT ![a].history = <<>>, ![a].log = {}]
    /\ UNCHANGED <<store, vault, calls, nextId, nextGen, faults, backup, revoked, restores>>

\* A browser whose session is gone reads nothing: a call it makes fails.
Served(d) == vault[d] # None => vault[d].gen \notin revoked

UserStep ==
    \/ \E d \in Device, p \in Profile : Save(d, p)
    \/ \E d \in Device, a \in Account, scope \in AuthScope : LoginStart(d, a, scope)
    \/ \E d \in Device : Served(d) /\ (UseLocal(d) \/ PullStart(d))
    \/ \E d \in Device : Logout(d) \/ ResolveStart(d)

ServerStep ==
    \/ \E c \in puts : c.gen \notin revoked /\ ServerPut(c)
    \/ \E q \in late : q.gen \notin revoked /\ ServerLate(q)
    \/ \E a \in Account : AdminRestores(a) \/ Retention(a)

RecoveryNext ==
    \/ (UserStep \/ WorkerNext \/ ServerStep) /\ UNCHANGED events
    \/ TakeBackup \/ RestoreBackup
    \/ \E a \in Account : ProfileLost(a)

RecoverySpec == RecoveryInit /\ [][RecoveryNext]_recoveryVars

-----------------------------------------------------------------------------
\* Even when a restored backup puts an account's version back, so that a
\* version number a browser remembers names another profile, every version
\* was written by someone who had the one before it: compare-and-set alone
\* would not see it, the revoked sessions make it so.  (A lost row revokes
\* nobody: a browser that remembers version 1 of it overwrites the version 1
\* another browser writes next.)
NoLostUpdate ==
    losses = 0 => \A a \in Account : \A v \in 2 .. Len(server[a].history) :
                       server[a].history[v].base = server[a].history[v - 1].content

\* A mutation stopped because the server had lost the profile is kept as it
\* is until the user loads a profile from the server or signs in again.
Frozen(d) == {q \in store[d].outbox : q.terminal}
Reopened(d, q) == vault[d] = None \/ vault[d].gen # q.gen
FrozenIsKept ==
    [][\A d \in Device : \A q \in Frozen(d) :
         \/ q \in store'[d].outbox
         \/ Reopened(d, q)
         \/ \E c \in pulls \ pulls' : c.dev = d /\ c.gen = q.gen]_recoveryVars

\* ... and the browser sends nothing for that session meanwhile: an emptied
\* account is not refilled by a machine.
FrozenIsSilent ==
    [][\A c \in puts' \ puts : c.reply = None =>
         ~\E q \in Frozen(c.dev) : q.acct = c.acct /\ q.pid = c.pid /\ q.gen = c.gen]_recoveryVars
=============================================================================
