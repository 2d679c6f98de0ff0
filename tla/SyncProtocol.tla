----------------------------- MODULE SyncProtocol -----------------------------
(***************************************************************************)
(* Profile synchronisation: browsers whose tabs edit a local profile, each *)
(* with a service worker that pushes the outbox to the backend             *)
(* (extension/src/shared/sync/workerRuntime.ts), and the backend's profile *)
(* of every account.  The worker's handlers suspend at every await: each   *)
(* is split at its network calls, with what it read before the call kept   *)
(* in a call record and checked again by the transaction after it.         *)
(* Workers are evicted at any moment; requests and answers are lost,       *)
(* delayed past the caller's life, or sent twice.                          *)
(*                                                                         *)
(* Login and logout are taken as far apart as their network calls; the     *)
(* awaits between vault, store and session epoch are Session's.           *)
(***************************************************************************)
EXTENDS ProfileServer, FiniteSets

CONSTANTS Device,     \* browsers
          InitialPid, \* [Device -> ProfileId]: the id each drew at first start
          Seeded,     \* [Account -> Profile or None]: what earlier devices uploaded
          AuthScope,  \* scopes the backend's logins may grant
          MaxId,      \* bound: mutations created
          MaxRev,     \* bound: local revisions of a browser
          MaxGen,     \* bound: sessions opened
          MaxVersion, \* bound: versions written by administrators reach this far
          MaxSerial,  \* bound: conflicts up to which responses are forgotten
          MaxFaults,  \* bound: failed calls and evicted workers
          Slots       \* bound: drains a worker runs at once

ASSUME InitialPidAssumption == InitialPid \in [Device -> ProfileId]
ASSUME SeededAssumption == Seeded \in [Account -> Profile \cup {None}]
ASSUME AuthScopeAssumption == AuthScope \subseteq {"full", "migration_read"}
ASSUME BoundsAssumption == {MaxId, MaxRev, MaxGen, MaxVersion, MaxSerial, MaxFaults} \subseteq Nat

VARIABLES
    server,    \* [Account -> Server]
    store,     \* [Device -> Store]
    vault,     \* [Device -> Session \cup {None}]: CredentialVault
    logins,    \* worker calls under way: login,
    pulls,     \*   completeFirstConnection("use-remote"),
    puts,      \*   drain,
    merges,    \*   resolveConflict
    late,      \* requests on the wire whose caller is gone
    nextId,    \* fresh mutation ids
    nextGen,   \* fresh session generations
    faults     \* failed calls and evictions so far

vars == <<server, store, vault, logins, pulls, puts, merges, late, nextId, nextGen, faults>>
calls == <<logins, pulls, puts, merges, late>>

Session == [acct : Account, gen : Nat, scope : AuthScope, pending : BOOLEAN]

Login == [dev : Device, acct : Account, gen : Nat, pid : ProfileId, version : Nat, base : Profile]
Pull  == [dev : Device, acct : Account, pid : ProfileId, gen : Nat, rev : Nat,
          version : Nat, remote : Profile]
Put   == [dev : Device, slot : Slots, acct : Account, pid : ProfileId, gen : Nat,
          mut : Mutation, reply : Reply \cup {None}]
Merge == [dev : Device, acct : Account, pid : ProfileId, gen : Nat, rev : Nat,
          conflict : Conflict, successor : SUBSET Mutation, merged : Profile]

TypeOK ==
    /\ server \in [Account -> Server]
    /\ store \in [Device -> Store]
    /\ vault \in [Device -> Session \cup {None}]
    /\ logins \subseteq Login
    /\ pulls \subseteq Pull
    /\ puts \subseteq Put
    /\ merges \subseteq Merge
    /\ late \subseteq Mutation
    /\ nextId \in Nat
    /\ nextGen \in Nat
    /\ faults \in Nat

Init ==
    /\ server = [a \in Account |-> IF Seeded[a] = None THEN EmptyServer
                                    ELSE SeededServer(Seeded[a])]
    /\ \E body \in [Device -> Body] :
          store = [d \in Device |-> NewStore([pid |-> InitialPid[d], body |-> body[d]], FALSE)]
    /\ vault = [d \in Device |-> None]
    /\ logins = {} /\ pulls = {} /\ puts = {} /\ merges = {} /\ late = {}
    /\ nextId = 1
    /\ nextGen = 1
    /\ faults = 0

-----------------------------------------------------------------------------
\* A session that may push: full, and past the first-connection decision.
Ready(d) == vault[d] # None /\ vault[d].scope = "full" /\ ~vault[d].pending

\* The active metadata row of the vault's account.
SyncContext(d) == {m \in ActiveMeta(store[d]) : m.acct = vault[d].acct}

Others(called, d) == {c \in called : c.dev # d}
SetStore(d, st) == store' = [store EXCEPT ![d] = st]
Faulty == faults < MaxFaults /\ faults' = faults + 1
Fresh == nextId <= MaxId /\ nextId' = nextId + 1

\* A tab saves a profile (ProfileStore.save): an edit, or an imported backup,
\* which brings the profileId it was exported with.  Saving the same shared
\* profile is a device-only change.
Save(d, p) ==
    /\ store[d].rev < MaxRev
    /\ CanCommit(store[d], p)
    /\ IF p = store[d].local THEN UNCHANGED nextId ELSE Fresh
    /\ SetStore(d, CommitProfile(store[d], p, nextId))
    /\ UNCHANGED <<server, vault, calls, nextGen, faults>>

\* login: reads the local profile, saves the credentials, reads the remote
\* profile.  It ends the epoch of every login and first connection before it.
LoginStart(d, a, scope) ==
    /\ nextGen <= MaxGen
    /\ nextGen' = nextGen + 1
    /\ vault' = [vault EXCEPT ![d] =
                   [acct |-> a, gen |-> nextGen, scope |-> scope, pending |-> TRUE]]
    /\ logins' = Others(logins, d) \cup
          {[dev |-> d, acct |-> a, gen |-> nextGen, pid |-> store[d].local.pid,
            version |-> CurrentVersion(server[a]),
            base |-> IF CurrentProfile(server[a]) = None THEN store[d].local
                     ELSE CurrentProfile(server[a])]}
    /\ pulls' = Others(pulls, d)
    /\ UNCHANGED <<server, store, puts, merges, late, nextId, faults>>

LoginActivate(c) ==
    /\ logins' = logins \ {c}
    /\ SetStore(c.dev, ActivateAccount(store[c.dev], c.acct, c.pid, c.gen, c.version, c.base))
    /\ UNCHANGED <<server, vault, pulls, puts, merges, late, nextId, nextGen, faults>>

\* getProfile failed: the new credentials are cleared.
LoginFail(c) ==
    /\ logins' = logins \ {c}
    /\ vault' = [vault EXCEPT ![c.dev] =
                   IF @ # None /\ @.gen = c.gen THEN None ELSE @]
    /\ UNCHANGED <<server, store, pulls, puts, merges, late, nextId, nextGen, faults>>

\* CredentialVault.completeFirstConnection, which the worker may not live to.
CompleteFirstConnection(d, gen) ==
    IF vault[d] # None /\ vault[d].gen = gen THEN [vault EXCEPT ![d].pending = FALSE]
                                             ELSE vault
Decided(d, gen) == vault' \in {vault, CompleteFirstConnection(d, gen)}

\* completeFirstConnection("use-local"), whether or not another tab has
\* decided already.
UseLocal(d) ==
    LET s == [acct |-> vault[d].acct, pid |-> store[d].local.pid]
    IN  /\ vault[d] # None /\ vault[d].scope = "full"
        /\ CanForceEnqueue(store[d], s, vault[d].gen)
        /\ Fresh
        /\ SetStore(d, ForceEnqueue(store[d], s, vault[d].gen, nextId))
        /\ Decided(d, vault[d].gen)
        /\ UNCHANGED <<server, calls, nextGen, faults>>

\* completeFirstConnection("use-remote"), as the first decision or later to
\* load the backend's profile.
PullStart(d) ==
    /\ vault[d] # None
    /\ CurrentVersion(server[vault[d].acct]) > 0
    /\ pulls' = Others(pulls, d) \cup
          {[dev |-> d, acct |-> vault[d].acct, pid |-> store[d].local.pid,
            gen |-> vault[d].gen, rev |-> store[d].rev,
            version |-> CurrentVersion(server[vault[d].acct]),
            remote |-> CurrentProfile(server[vault[d].acct])]}
    /\ UNCHANGED <<server, store, vault, logins, puts, merges, late, nextId, nextGen, faults>>

PullApply(c) ==
    /\ CanAcceptRemote(store[c.dev], c, c.gen, c.rev)
    /\ store[c.dev].rev < MaxRev
    /\ SetStore(c.dev, AcceptRemote(store[c.dev], c, c.gen, c.version, c.remote))
    /\ Decided(c.dev, c.gen)
    /\ pulls' = pulls \ {c}
    /\ UNCHANGED <<server, logins, puts, merges, late, nextId, nextGen, faults>>

PullFail(c) ==
    /\ pulls' = pulls \ {c}
    /\ UNCHANGED <<server, store, vault, logins, puts, merges, late, nextId, nextGen, faults>>

\* logout: the backend's answer is not waited for.
Logout(d) ==
    /\ vault[d] # None
    /\ vault' = [vault EXCEPT ![d] = None]
    /\ SetStore(d, IF SyncContext(d) = {} THEN store[d]
                   ELSE DeactivateAccount(store[d], CHOOSE m \in SyncContext(d) : TRUE,
                                          vault[d].gen))
    /\ logins' = Others(logins, d)
    /\ pulls' = Others(pulls, d)
    /\ UNCHANGED <<server, puts, merges, late, nextId, nextGen, faults>>

-----------------------------------------------------------------------------
\* drain, up to its request: nothing while a conflict of this session stands,
\* else the due mutation of the active scope.
Standing(st, m, gen) ==
    \/ \E c \in Rows(st.conflicts, m) : c.gen = gen
    \/ \E q \in Queued(st, m, "conflict") : q.terminal /\ q.gen = gen

DrainClaim(d, slot) ==
    /\ Ready(d)
    /\ \A c \in puts : c.dev = d => c.slot # slot
    /\ \E m \in SyncContext(d) :
          /\ ~Standing(store[d], m, vault[d].gen)
          /\ m.gen = vault[d].gen
          /\ \E q \in Claimable(store[d], m, vault[d].gen) :
                /\ SetStore(d, ClaimDue(store[d], q))
                /\ puts' = puts \cup
                      {[dev |-> d, slot |-> slot, acct |-> m.acct, pid |-> m.pid,
                        gen |-> vault[d].gen, mut |-> InFlight(q), reply |-> None]}
    /\ UNCHANGED <<server, vault, logins, pulls, merges, late, nextId, nextGen, faults>>

\* handlePutSyncProfileV1 for a waiting caller, or for one that is gone.
ServerPut(c) ==
    /\ c.reply = None
    /\ server' = [server EXCEPT ![c.acct] = ApplySyncMutation(@, c.mut)]
    /\ puts' = (puts \ {c}) \cup {[c EXCEPT !.reply = AnswerOf(server[c.acct], c.mut)]}
    /\ UNCHANGED <<store, vault, logins, pulls, merges, late, nextId, nextGen, faults>>

ServerLate(q) ==
    /\ server' = [server EXCEPT ![q.acct] = ApplySyncMutation(@, q)]
    /\ late' = late \ {q}
    /\ UNCHANGED <<store, vault, logins, pulls, puts, merges, nextId, nextGen, faults>>

\* drain, from its answer.  `authenticated` looks at the vault again before a
\* success is used; a conflict reaches the store at once.
SessionHolds(c) == Ready(c.dev) /\ vault[c.dev].acct = c.acct /\ vault[c.dev].gen = c.gen

Answered(c, status) == c.reply # None /\ c.reply.status = status
Return(c) == puts' = puts \ {c}

DeliverAck(c) ==
    /\ Answered(c, "ok")
    /\ SessionHolds(c)
    /\ CanAcknowledge(store[c.dev], c, c.gen, c.mut.id)
    /\ SetStore(c.dev, Acknowledge(store[c.dev], c, c.gen, c.mut.id,
                                   c.reply.version, c.reply.content))
    /\ Return(c)
    /\ UNCHANGED <<server, vault, logins, pulls, merges, late, nextId, nextGen, faults>>

DeliverConflict(c) ==
    /\ Answered(c, "conflict") /\ c.reply.version > 0
    /\ CanSettle(store[c.dev], c, c.gen, c.mut.id)
    /\ SetStore(c.dev, RecordConflict(store[c.dev], c, c.gen, c.mut.id, c.reply.version,
                                      c.reply.content, c.reply.cid))
    /\ Return(c)
    /\ UNCHANGED <<server, vault, logins, pulls, merges, late, nextId, nextGen, faults>>

DeliverServerEmpty(c) ==
    /\ Answered(c, "conflict") /\ c.reply.version = 0
    /\ CanSettle(store[c.dev], c, c.gen, c.mut.id)
    /\ SetStore(c.dev, FreezeServerEmpty(store[c.dev], c, c.gen, c.mut.id))
    /\ Return(c)
    /\ UNCHANGED <<server, vault, logins, pulls, merges, late, nextId, nextGen, faults>>

\* scheduleRetry, when it does not throw as well.
RetryLater(c) ==
    SetStore(c.dev, IF CanSettle(store[c.dev], c, c.gen, c.mut.id)
                    THEN ScheduleRetry(store[c.dev], c, c.gen) ELSE store[c.dev])

\* The session check or the transaction throws: nothing is stored, unless it
\* was acknowledge for its successor's sake.
DeliverRefused(c) ==
    /\ c.reply # None
    /\ \/ Answered(c, "ok") /\ ~SessionHolds(c)
       \/ ~CanSettle(store[c.dev], c, c.gen, c.mut.id)
       \/ Answered(c, "ok") /\ ~CanAcknowledge(store[c.dev], c, c.gen, c.mut.id)
    /\ IF Answered(c, "ok") /\ SessionHolds(c) THEN RetryLater(c) ELSE UNCHANGED store
    /\ Return(c)
    /\ UNCHANGED <<server, vault, logins, pulls, merges, late, nextId, nextGen, faults>>

\* An error status, or no answer (timeout, network, quota, an answer lost):
\* retry later.  A request not yet served may still arrive.
Rejected(c) == Answered(c, "rejected") \/ Answered(c, "mismatch")

CallFails(c) ==
    /\ IF Rejected(c) THEN UNCHANGED faults ELSE Faulty
    /\ RetryLater(c)
    /\ late' = IF c.reply = None THEN late \cup {c.mut} ELSE late
    /\ Return(c)
    /\ UNCHANGED <<server, vault, logins, pulls, merges, nextId, nextGen>>

-----------------------------------------------------------------------------
\* resolveConflict: merges what it reads, then commits if nothing moved.
ResolveStart(d) ==
    /\ Ready(d)
    /\ \A c \in merges : c.dev # d
    /\ \E m \in SyncContext(d) : \E c \in Rows(store[d].conflicts, m) :
          /\ c.gen = vault[d].gen
          /\ store[d].local.pid = m.pid
          /\ \E pid \in Resolutions(c).pid, body \in Resolutions(c).body :
             LET to == Rebased(c.mine, Branch(store[d], m, c), [pid |-> pid, body |-> body])
             IN  \E mergedPid \in to.pid, mergedBody \in to.body :
                    merges' = merges \cup
                       {[dev |-> d, acct |-> m.acct, pid |-> m.pid, gen |-> vault[d].gen,
                         rev |-> store[d].rev, conflict |-> c,
                         successor |-> Pending(store[d], m),
                         merged |-> [pid |-> mergedPid, body |-> mergedBody]]}
    /\ UNCHANGED <<server, store, vault, logins, pulls, puts, late, nextId, nextGen, faults>>

ResolveCommit(c) ==
    /\ CanResolve(store[c.dev], c, c.gen, c.conflict, c.rev, c.successor)
    /\ store[c.dev].rev < MaxRev
    /\ Fresh
    /\ SetStore(c.dev, Resolve(store[c.dev], c, c.gen, c.conflict, c.successor,
                               c.merged, nextId))
    /\ merges' = merges \ {c}
    /\ UNCHANGED <<server, vault, logins, pulls, puts, late, nextGen, faults>>

ResolveFail(c) ==
    /\ merges' = merges \ {c}
    /\ UNCHANGED <<server, store, vault, logins, pulls, puts, late, nextId, nextGen, faults>>

\* The service worker is evicted: its calls end where they are.
WorkerStops(d) ==
    /\ Faulty
    /\ \E c \in logins \cup pulls \cup puts \cup merges : c.dev = d
    /\ logins' = Others(logins, d)
    /\ pulls' = Others(pulls, d)
    /\ puts' = Others(puts, d)
    /\ merges' = Others(merges, d)
    /\ late' = late \cup {c.mut : c \in {x \in puts : x.dev = d /\ x.reply = None}}
    /\ UNCHANGED <<server, store, vault, nextId, nextGen>>

AdminRestores(a) ==
    /\ CurrentVersion(server[a]) < MaxVersion
    /\ \E v \in DOMAIN server[a].history : server' = [server EXCEPT ![a] = AdminRestore(@, v)]
    /\ UNCHANGED <<store, vault, calls, nextId, nextGen, faults>>

Retention(a) ==
    /\ server[a].serial < MaxSerial
    /\ \E r \in server[a].log : server' = [server EXCEPT ![a] = Forget(@, r.mid)]
    /\ UNCHANGED <<store, vault, calls, nextId, nextGen, faults>>

-----------------------------------------------------------------------------
UserNext ==
    \/ \E d \in Device, p \in Profile : Save(d, p)
    \/ \E d \in Device, a \in Account, scope \in AuthScope : LoginStart(d, a, scope)
    \/ \E d \in Device : UseLocal(d) \/ PullStart(d) \/ Logout(d) \/ ResolveStart(d)

WorkerNext ==
    \/ \E c \in logins : LoginActivate(c) \/ LoginFail(c)
    \/ \E c \in pulls : PullApply(c) \/ PullFail(c)
    \/ \E c \in merges : ResolveCommit(c) \/ ResolveFail(c)
    \/ \E d \in Device, slot \in Slots : DrainClaim(d, slot)
    \/ \E c \in puts : \/ DeliverAck(c) \/ DeliverConflict(c) \/ DeliverServerEmpty(c)
                       \/ DeliverRefused(c) \/ CallFails(c)
    \/ \E d \in Device : WorkerStops(d)

ServerNext ==
    \/ \E c \in puts : ServerPut(c)
    \/ \E q \in late : ServerLate(q)
    \/ \E a \in Account : AdminRestores(a) \/ Retention(a)

Next == UserNext \/ WorkerNext \/ ServerNext

Spec == Init /\ [][Next]_vars

-----------------------------------------------------------------------------
(* Properties *)

\* The profiles of the server's versions are a chain of edits each made on
\* top of the version before it, none applied twice: no upload overwrites a
\* version its author had not seen, whatever is lost, delayed, retried or
\* forgotten (compare-and-set and replay in ApplySyncMutation; the frozen
\* in-flight mutation of claimDue; the rebasing in acknowledge).
Chain == INSTANCE ProfileChain WITH chain <- [a \in Account |-> server[a].history]
ChainSpec == Chain!Spec

\* Workers go on, and the server answers; calls fail MaxFaults times at most.
\* Users need do nothing.
Fairness ==
    /\ \A d \in Device :
          /\ WF_vars(\E slot \in Slots : DrainClaim(d, slot))
          /\ WF_vars(\E c \in puts : /\ c.dev = d
                                    /\ \/ DeliverAck(c) \/ DeliverConflict(c)
                                       \/ DeliverServerEmpty(c) \/ DeliverRefused(c))
    /\ WF_vars(\E c \in puts : ServerPut(c))

FairSpec == Spec /\ Fairness

\* What browsers and requests believe the server to hold as some version.
Belief(acct, v, profile) == [acct |-> acct, v |-> v, profile |-> profile]
Beliefs ==
    {Belief(x.acct, x.baseV, x.base) :
        x \in (UNION {store[d].metas \cup store[d].outbox : d \in Device})
             \cup {c.mut : c \in puts} \cup late}
    \cup {Belief(x.acct, x.theirsV, x.theirs) :
            x \in UNION {store[d].conflicts : d \in Device}}
    \cup {Belief(c.acct, c.version, c.remote) : c \in pulls}
    \cup {Belief(c.acct, c.version, c.base) : c \in logins}

\* Every base a browser would compare with or merge from is the server's
\* content of that very version: a version number and a base never part
\* (acknowledge, acceptRemote, recordConflict, resolveConflict and the
\* rebased successor, under answers that arrive late or out of order).
BaseIsHistory ==
    \A b \in Beliefs : b.v \notin {None, 0} =>
        /\ b.v \in DOMAIN server[b.acct].history
        /\ server[b.acct].history[b.v].content = b.profile

\* The outbox of a scope: one mutation waits, at most one is ahead of it, and
\* it has no base exactly when one is; a conflict to resolve belongs to the
\* mutation stopped by it (commitProfile's blocker and coalescing).
OutboxShape ==
    \A d \in Device : \A s \in Scope :
        LET rows == Rows(store[d].outbox, s)
            waiting == {q \in rows : q.state = "pending"}
            ahead == rows \ waiting
            stopped == {q \in ahead : q.state = "conflict" /\ ~q.terminal}
        IN  /\ Cardinality(waiting) <= 1 /\ Cardinality(ahead) <= 1
            /\ \A q \in waiting : (q.baseV = None) <=> (ahead # {})
            /\ {c.mid : c \in Rows(store[d].conflicts, s)} = {q.id : q \in stopped}
            /\ Cardinality(Rows(store[d].conflicts, s)) <= 1

\* The rows of the session a ready browser works in.
InSession(d, m) == Ready(d) /\ m \in SyncContext(d) /\ m.gen = vault[d].gen
Newest(st, s) == IF Pending(st, s) # {} THEN Pending(st, s) ELSE Blocker(st, s)

\* While a session is ready, whatever the user has that differs from the last
\* known server version is queued: the newest mutation carries the local
\* profile, through edits behind a request, conflicts and their resolution,
\* pulls, crashes and late answers (commitProfile, resolveConflict,
\* forceEnqueueCurrent, acknowledge).
NothingForgotten ==
    \A d \in Device : \A m \in store[d].metas :
        InSession(d, m) /\ store[d].local # m.base =>
            \E q \in Newest(store[d], m) : q.content = store[d].local

\* A profile shown as in sync is: the session has nothing queued and the local
\* profile is the server's content of the version it was last seen at.
IdleMeansSynced ==
    \A d \in Device : \A m \in store[d].metas :
        InSession(d, m) /\ m.status = "idle" /\ m.baseV > 0 =>
            /\ \A q \in Rows(store[d].outbox, m) : q.gen # m.gen
            /\ store[d].local = server[m.acct].history[m.baseV].content

\* A ready session works on the profile it has: its metadata is filed under
\* the profileId of the local profile (what commitProfile asserts before it
\* accepts an edit, and every transaction of a pull or a resolution).
ScopeFollowsProfile ==
    \A d \in Device : \A m \in store[d].metas :
        InSession(d, m) => store[d].local.pid = m.pid

\* The queue a ready session works on is its own: no mutation in its scope
\* belongs to an earlier session (what assertMutationSession asserts in
\* claimDue before anything is sent).
QueueIsOwn ==
    \A d \in Device : \A m \in store[d].metas :
        InSession(d, m) => \A q \in Rows(store[d].outbox, m) : q.gen = m.gen

\* A ready browser with work to do always gets somewhere: its queue empties,
\* or it waits for the user to settle a conflict or to sign in again.
AwaitsUser(d) == \E m \in SyncContext(d) : Standing(store[d], m, vault[d].gen)
Drained(d) == \A m \in SyncContext(d) : Rows(store[d].outbox, m) = {} /\ m.status = "idle"
EventuallySettled ==
    \A d \in Device : []<>(~Ready(d) \/ AwaitsUser(d) \/ Drained(d))

\* A mutation is frozen once claimed and its id never reused, so a retry
\* never reads as another request under an old id (409 IDEMPOTENCY_MISMATCH);
\* and the conflict a resolution names is open until that resolution is
\* applied (400 SYNC_REJECTED): either answer would be retried for ever.
NeverRefused == \A c \in puts : c.reply # None => c.reply.status \notin {"mismatch", "rejected"}
=============================================================================
