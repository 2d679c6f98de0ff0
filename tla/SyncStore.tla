------------------------------ MODULE SyncStore ------------------------------
(***************************************************************************)
(* The IndexedDB store of one browser (class SyncStore of                  *)
(* extension/src/shared/storage/syncStore.ts).  Every method of the class  *)
(* runs one read-write Dexie transaction, so each is one state function    *)
(* here: a guard CanX, the conditions under which the transaction commits  *)
(* (it throws, and rolls back, otherwise), and X, the store it leaves.     *)
(*                                                                         *)
(* A store is a record                                                     *)
(*   local      the shared part of localProfiles["current"]                *)
(*   rev        its revision                                               *)
(*   edits      deviceStates["current"].hasUserEdits                       *)
(*   metas      the syncMetadata rows                                      *)
(*   outbox     the outbox rows                                            *)
(*   conflicts  the conflicts rows                                         *)
(*                                                                         *)
(* A shared profile is its profileId and a body, everything else.  Its     *)
(* SHA-256 is taken to be injective, so a hash is the profile itself and   *)
(* "base" stands for both baseHash and baseSnapshot.  Clock readings       *)
(* (dueAt, nextAttemptAt) are left out: whatever waits may have fallen     *)
(* due.                                                                    *)
(***************************************************************************)
EXTENDS Naturals

CONSTANTS Account,    \* accountScope: backend URL and user id
          ProfileId,  \* profileId, a random UUID drawn by each browser
          Body,       \* the rest of a shared profile
          None        \* absent value (null, undefined)

ASSUME NoneAssumption == None \notin Nat /\ None \notin [pid : ProfileId, body : Body]

Profile == [pid : ProfileId, body : Body]

Scope == [acct : Account, pid : ProfileId]

Metadata ==
    [acct : Account, pid : ProfileId, active : BOOLEAN, gen : Nat,
     baseV : Nat, base : Profile,
     status : {"idle", "dirty", "syncing", "conflict", "error"}]

Mutation ==
    [id : Nat, acct : Account, pid : ProfileId, gen : Nat,
     state : {"pending", "in-flight", "conflict"},
     baseV : Nat \cup {None}, base : Profile \cup {None}, content : Profile,
     resolves : Nat \cup {None}, terminal : BOOLEAN]

Conflict ==
    [mid : Nat, acct : Account, pid : ProfileId, gen : Nat, base : Profile,
     mine : Profile, theirs : Profile, theirsV : Nat, serverId : Nat]

Store ==
    [local : Profile, rev : Nat, edits : BOOLEAN, metas : SUBSET Metadata,
     outbox : SUBSET Mutation, conflicts : SUBSET Conflict]

\* Table.first(): a row of the index, {} when there is none.
First(rows) == IF rows = {} THEN {} ELSE {CHOOSE x \in rows : TRUE}

InScope(x, s) == x.acct = s.acct /\ x.pid = s.pid

\* Rows of a table in a scope, and those of the outbox in one state.
Rows(table, s) == {x \in table : InScope(x, s)}
Queued(st, s, state) == {q \in Rows(st.outbox, s) : q.state = state}
Pending(st, s) == First(Queued(st, s, "pending"))

\* const blocker = inFlight ?? conflicted
Blocker(st, s) ==
    IF Queued(st, s, "in-flight") # {} THEN First(Queued(st, s, "in-flight"))
                                       ELSE First(Queued(st, s, "conflict"))

\* getActiveMetadata, and table.put by primary key.
ActiveMeta(st) == {m \in st.metas : m.active}
PutMeta(metas, m) == {x \in metas : ~InScope(x, m)} \cup {m}

\* assertSessionMetadata: the scope's row, when active and of this session.
\* (slip: whichever session the row is of)
AnySessionMeta(st, s, gen) == {m \in Rows(st.metas, s) : m.active}

SessionMeta(st, s, gen) == {m \in Rows(st.metas, s) : m.active /\ m.gen = gen}

NewMutation(id, m, baseV, base, content, resolves) ==
    [id |-> id, acct |-> m.acct, pid |-> m.pid, gen |-> m.gen,
     state |-> "pending", baseV |-> baseV, base |-> base, content |-> content,
     resolves |-> resolves, terminal |-> FALSE]

-----------------------------------------------------------------------------
\* initialize: a browser's first start.
NewStore(profile, edits) ==
    [local |-> profile, rev |-> 0, edits |-> edits, metas |-> {},
     outbox |-> {}, conflicts |-> {}]

\* activateAccount: every other row loses its active flag, this one is new.
ActivateAccount(st, acct, pid, gen, baseV, base) ==
    [st EXCEPT !.metas =
        PutMeta({[m EXCEPT !.active = FALSE] : m \in @},
                [acct |-> acct, pid |-> pid, active |-> TRUE, gen |-> gen,
                 baseV |-> baseV, base |-> base, status |-> "idle"])]

\* deactivateAccount: nothing when the row belongs to another session.
DeactivateAccount(st, s, gen) ==
    [st EXCEPT !.metas =
        {IF InScope(m, s) /\ m.gen = gen THEN [m EXCEPT !.active = FALSE] ELSE m
            : m \in @}]

\* commitProfile: a tab saves the profile p.  A changed profile whose id is
\* not the one of the active account's row is refused.
CanCommit(st, p) ==
    p # st.local => \A m \in ActiveMeta(st) : m.pid = p.pid

\* (slip: edits pile up instead of coalescing)
EnqueueBehind(st, m, p, id) ==
    [st EXCEPT !.outbox = @ \cup {NewMutation(id, m, m.baseV, m.base, p, None)}]

\* (slip: the edit goes into the mutation already sent)
EnqueueInto(st, m, p, id) ==
    [st EXCEPT !.outbox = IF Blocker(st, m) = {}
                          THEN (@ \ Pending(st, m)) \cup
                                   {NewMutation(id, m, m.baseV, m.base, p, None)}
                          ELSE (@ \ Blocker(st, m)) \cup
                                   {[q EXCEPT !.content = p] : q \in Blocker(st, m)}]

\* (slip: the edit replaces what is ahead of it)
EnqueueInstead(st, m, p, id) ==
    [st EXCEPT !.outbox = (@ \ (Pending(st, m) \cup Blocker(st, m))) \cup
                              {NewMutation(id, m, m.baseV, m.base, p, None)}]

Enqueue(st, m, p, id) ==
    LET blocked == Blocker(st, m) # {}
    IN  [st EXCEPT
           !.outbox = (@ \ Pending(st, m)) \cup
               {NewMutation(id, m, IF blocked THEN None ELSE m.baseV,
                            IF blocked THEN None ELSE m.base, p, None)},
           !.metas = PutMeta(@, [m EXCEPT !.status = "dirty"])]

BackToBase(st, m) ==
    [st EXCEPT !.outbox = @ \ Pending(st, m),
               !.metas = PutMeta(@, [m EXCEPT !.status = "idle"])]

CommitProfile(st, p, id) ==
    LET saved == [st EXCEPT !.local = p, !.rev = @ + 1,
                            !.edits = @ \/ p # st.local]
    IN  IF p = st.local \/ ActiveMeta(st) = {} THEN saved
        ELSE LET m == CHOOSE x \in ActiveMeta(st) : TRUE
             IN  IF Blocker(st, m) = {} /\ p = m.base
                 THEN BackToBase(saved, m)
                 ELSE Enqueue(saved, m, p, id)

\* claimDue: an in-flight mutation is sent again, else the pending one is
\* frozen as in-flight; a successor behind a blocker (no base) waits.
\* (slip: a mutation whose answer was lost is not sent again)
ClaimableOnce(st, s, gen) ==
    {q \in Pending(st, s) : q.baseV # None /\ q.gen = gen /\ Blocker(st, s) = {}}

Claimable(st, s, gen) ==
    IF Queued(st, s, "in-flight") # {}
    THEN {q \in First(Queued(st, s, "in-flight")) : q.gen = gen}
    ELSE {q \in Pending(st, s) : q.baseV # None /\ q.gen = gen}

InFlight(q) == [q EXCEPT !.state = "in-flight"]

ClaimDue(st, q) ==
    IF q.state = "in-flight" THEN st
    ELSE [st EXCEPT !.outbox = (@ \ {q}) \cup {InFlight(q)},
                    !.metas = {IF InScope(m, q) THEN [m EXCEPT !.status = "syncing"]
                                                ELSE m : m \in @}]

-----------------------------------------------------------------------------
\* The methods that settle a request start alike: the mutation is still
\* in-flight and of this session, and the session's row is still active.
CanSettle(st, s, gen, mid) ==
    /\ \E q \in Queued(st, s, "in-flight") : q.id = mid /\ q.gen = gen
    /\ SessionMeta(st, s, gen) # {}

Settled(st, s, mid) == CHOOSE q \in Queued(st, s, "in-flight") : q.id = mid
MetaOf(st, s, gen) == CHOOSE m \in SessionMeta(st, s, gen) : TRUE

\* acknowledge: the server holds `profile` as `version`; a successor that
\* waited behind the mutation is rebased onto it.
CanAcknowledge(st, s, gen, mid) ==
    /\ CanSettle(st, s, gen, mid)
    /\ \A q \in Pending(st, s) : q.gen = gen

\* (slip: the successor gets the new version but not the new base)
AcknowledgeVersionOnly(st, s, gen, mid, version, profile) ==
    [st EXCEPT
       !.outbox = {IF InScope(q, s) THEN [q EXCEPT !.baseV = version] ELSE q :
                       q \in @ \ {Settled(st, s, mid)}},
       !.metas = PutMeta(@, [MetaOf(st, s, gen) EXCEPT !.baseV = version, !.base = profile])]

\* (slip: the queue is taken to be empty now)
AcknowledgeAll(st, s, gen, mid, version, profile) ==
    [st EXCEPT
       !.outbox = @ \ Rows(@, s),
       !.metas = PutMeta(@, [MetaOf(st, s, gen) EXCEPT
           !.baseV = version, !.base = profile, !.status = "idle"])]

Acknowledge(st, s, gen, mid, version, profile) ==
    LET rest == st.outbox \ {Settled(st, s, mid)}
        successor == Pending(st, s)
    IN  [st EXCEPT
           !.outbox = (rest \ successor) \cup
               {[q EXCEPT !.baseV = version, !.base = profile] : q \in successor},
           !.metas = PutMeta(@, [MetaOf(st, s, gen) EXCEPT
               !.baseV = version, !.base = profile,
               !.status = IF successor = {} THEN "idle" ELSE "dirty"])]

SetStatus(st, s, gen, status) ==
    PutMeta(st.metas, [MetaOf(st, s, gen) EXCEPT !.status = status])

\* scheduleRetry: the mutation stays in-flight.
ScheduleRetry(st, s, gen) == [st EXCEPT !.metas = SetStatus(st, s, gen, "error")]

\* recordConflict: keeps the three versions to merge.
RecordConflict(st, s, gen, mid, version, profile, serverId) ==
    LET q == Settled(st, s, mid)
    IN  [st EXCEPT
           !.outbox = (@ \ {q}) \cup {[q EXCEPT !.state = "conflict"]},
           !.conflicts = @ \cup
               {[mid |-> mid, acct |-> s.acct, pid |-> s.pid, gen |-> gen,
                 base |-> MetaOf(st, s, gen).base, mine |-> q.content,
                 theirs |-> profile, theirsV |-> version, serverId |-> serverId]},
           !.metas = SetStatus(st, s, gen, "conflict")]

\* freezeServerEmptyConflict: the server lost everything; no automatic retry.
\* (slip: marked, but left in flight)
FreezeInFlight(st, s, gen, mid) ==
    [st EXCEPT !.outbox = (@ \ {Settled(st, s, mid)}) \cup
                              {[Settled(st, s, mid) EXCEPT !.terminal = TRUE]}]

FreezeServerEmpty(st, s, gen, mid) ==
    LET q == Settled(st, s, mid)
    IN  [st EXCEPT
           !.outbox = (@ \ {q}) \cup {[q EXCEPT !.state = "conflict", !.terminal = TRUE]},
           !.metas = SetStatus(st, s, gen, "conflict")]

-----------------------------------------------------------------------------
\* acceptRemote: the server's profile replaces the local one, provided the
\* local one is the revision the decision was taken on.
CanAcceptRemote(st, s, gen, rev) ==
    /\ SessionMeta(st, s, gen) # {}
    /\ st.local.pid = s.pid
    /\ st.rev = rev

AcceptRemote(st, s, gen, version, profile) ==
    [st EXCEPT
       !.local = profile,
       !.rev = @ + 1,
       !.outbox = @ \ Rows(@, s),
       !.conflicts = @ \ Rows(@, s),
       !.metas = PutMeta(@ \ Rows(@, s),
           [MetaOf(st, s, gen) EXCEPT !.pid = profile.pid, !.baseV = version,
                                      !.base = profile, !.status = "idle"])]

\* forceEnqueueCurrent: upload the local profile whatever it is.  A blocker
\* left by an earlier session is dropped, one of this session refuses.
CanForceEnqueue(st, s, gen) ==
    /\ SessionMeta(st, s, gen) # {}
    /\ st.local.pid = s.pid
    /\ \A q \in Blocker(st, s) : q.gen # gen

ForceEnqueue(st, s, gen, id) ==
    LET m == MetaOf(st, s, gen)
        stale == Blocker(st, s)
    IN  [st EXCEPT
           !.outbox = ((@ \ stale) \ Pending(st, s)) \cup
               {NewMutation(id, m, m.baseV, m.base, st.local, None)},
           !.conflicts = IF stale = {} THEN @ ELSE @ \ Rows(@, s),
           !.metas = PutMeta(@, [m EXCEPT !.status = "dirty"])]

-----------------------------------------------------------------------------
\* mergeSharedProfiles on one field, as the values it may yield: a side equal
\* to the base gives way, and two changed sides merge to some value or not at
\* all.  (updatedAt, the latest of the three, is not a difference here.)
MergeScalar(base, left, right, mixed) ==
    IF left = right \/ right = base THEN {left}
    ELSE IF left = base THEN {right} ELSE mixed

\* What resolveMergeConflicts can make of a conflict: each field one of the
\* two sides or, for entities, both together.
Resolutions(c) ==
    [pid |-> MergeScalar(c.base.pid, c.mine.pid, c.theirs.pid, {c.mine.pid, c.theirs.pid}),
     body |-> MergeScalar(c.base.body, c.mine.body, c.theirs.body, Body)]

\* The resolved profile with the edits made since the conflict reapplied.
Rebased(mine, branch, resolved) ==
    [pid |-> MergeScalar(mine.pid, branch.pid, resolved.pid, {}),
     body |-> MergeScalar(mine.body, branch.body, resolved.body, Body)]

\* resolveConflict, first part: what it reads before its transaction.
Branch(st, s, c) ==
    IF Pending(st, s) = {} THEN c.mine
                           ELSE (CHOOSE q \in Pending(st, s) : TRUE).content

\* resolveConflict, the transaction: c, rev and successor as read before it.
CanResolve(st, s, gen, c, rev, successor) ==
    /\ c \in Rows(st.conflicts, s)
    /\ c.gen = gen
    /\ SessionMeta(st, s, gen) # {}
    /\ st.rev = rev
    /\ \A q \in successor : q.gen = gen

Resolve(st, s, gen, c, successor, merged, id) ==
    LET m == MetaOf(st, s, gen)
    IN  [st EXCEPT
           !.local = merged,
           !.rev = @ + 1,
           !.edits = TRUE,
           !.outbox = {q \in @ : ~(InScope(q, s) /\
                                   q.id \in {c.mid} \cup {x.id : x \in successor})}
               \cup {NewMutation(id, m, c.theirsV, c.theirs, merged, c.serverId)},
           !.conflicts = @ \ {c},
           !.metas = PutMeta(@, [m EXCEPT !.baseV = c.theirsV, !.base = c.theirs,
                                          !.status = "dirty"])]
=============================================================================
