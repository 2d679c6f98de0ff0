---------------------------- MODULE SyncStoreProofs ----------------------------
(***************************************************************************)
(* What the transactions of the browser's store and of the backend return, *)
(* for every store and request: a store, and a server, of the right shape; *)
(* and what the browser's do to its outbox.                                *)
(***************************************************************************)
EXTENDS ProfileServer, TLAPS

\* Table.first() yields a row of the table or none.
LEMMA FirstIsRow == ASSUME NEW rows PROVE First(rows) \subseteq rows
<1>1. CASE rows = {}
    BY <1>1 DEF First
<1>2. CASE rows # {}
    <2>1. (CHOOSE x \in rows : TRUE) \in rows
        BY <1>2
    <2>. QED
        BY <1>2, <2>1 DEF First
<1>. QED
    BY <1>1, <1>2

\* What a query of the outbox yields are rows of the outbox.
LEMMA QueriesAreRows ==
    ASSUME NEW st, NEW s
    PROVE  /\ Pending(st, s) \subseteq Queued(st, s, "pending")
           /\ Blocker(st, s) \subseteq st.outbox
           /\ \A state : Queued(st, s, state) \subseteq st.outbox
BY FirstIsRow DEF Pending, Blocker, Queued, Rows

\* put by primary key keeps a table of metadata one.
LEMMA PutMetaType ==
    ASSUME NEW metas \in SUBSET Metadata, NEW m \in Metadata
    PROVE  PutMeta(metas, m) \in SUBSET Metadata
BY DEF PutMeta

\* The rows a settling transaction works on exist.
LEMMA SettledIsRow ==
    ASSUME NEW st, NEW s, NEW gen, NEW mid, CanSettle(st, s, gen, mid)
    PROVE  /\ Settled(st, s, mid) \in Queued(st, s, "in-flight")
           /\ Settled(st, s, mid).id = mid
BY DEF CanSettle, Settled

LEMMA MetaOfIsRow ==
    ASSUME NEW st, NEW s, NEW gen, SessionMeta(st, s, gen) # {}
    PROVE  MetaOf(st, s, gen) \in SessionMeta(st, s, gen)
BY DEF MetaOf

LEMMA SessionMetaIsRow ==
    ASSUME NEW st \in Store, NEW s, NEW gen, SessionMeta(st, s, gen) # {}
    PROVE  /\ MetaOf(st, s, gen) \in Metadata
           /\ MetaOf(st, s, gen) \in st.metas
BY MetaOfIsRow DEF SessionMeta, Rows, Store

\* A new mutation is one.
LEMMA NewMutationType ==
    ASSUME NEW id \in Nat, NEW m \in Metadata, NEW baseV \in Nat \cup {None},
           NEW base \in Profile \cup {None}, NEW content \in Profile,
           NEW resolves \in Nat \cup {None}
    PROVE  NewMutation(id, m, baseV, base, content, resolves) \in Mutation
BY DEF NewMutation, Mutation, Metadata

-----------------------------------------------------------------------------
\* Every transaction leaves a store: first those of the tabs ...
LEMMA NewStoreType ==
    ASSUME NEW profile \in Profile, NEW edits \in BOOLEAN
    PROVE  NewStore(profile, edits) \in Store
BY DEF NewStore, Store

LEMMA InactiveType == ASSUME NEW m \in Metadata PROVE [m EXCEPT !.active = FALSE] \in Metadata
BY DEF Metadata

LEMMA ActivateAccountType ==
    ASSUME NEW st \in Store, NEW acct \in Account, NEW pid \in ProfileId, NEW gen \in Nat,
           NEW baseV \in Nat, NEW base \in Profile
    PROVE  ActivateAccount(st, acct, pid, gen, baseV, base) \in Store
<1> DEFINE old == {[m EXCEPT !.active = FALSE] : m \in st.metas}
           row == [acct |-> acct, pid |-> pid, active |-> TRUE, gen |-> gen,
                   baseV |-> baseV, base |-> base, status |-> "idle"]
<1>1. old \in SUBSET Metadata
    <2>1. \A m \in st.metas : [m EXCEPT !.active = FALSE] \in Metadata
        BY InactiveType DEF Store
    <2>. QED
        BY <2>1
<1>2. row \in Metadata
    BY DEF Metadata
<1>3. PutMeta(old, row) \in SUBSET Metadata
    BY <1>1, <1>2, PutMetaType
<1>. QED
    BY <1>3 DEF ActivateAccount, Store

LEMMA DeactivateAccountType ==
    ASSUME NEW st \in Store, NEW s, NEW gen
    PROVE  DeactivateAccount(st, s, gen) \in Store
<1> DEFINE row(m) == IF InScope(m, s) /\ m.gen = gen THEN [m EXCEPT !.active = FALSE] ELSE m
<1>1. \A m \in st.metas : row(m) \in Metadata
    BY InactiveType DEF Store
<1>2. {row(m) : m \in st.metas} \in SUBSET Metadata
    BY <1>1
<1>. QED
    BY <1>2 DEF DeactivateAccount, Store

LEMMA EnqueueType ==
    ASSUME NEW st \in Store, NEW m \in Metadata, NEW p \in Profile, NEW id \in Nat
    PROVE  Enqueue(st, m, p, id) \in Store
<1> DEFINE blocked == Blocker(st, m) # {}
           q == NewMutation(id, m, IF blocked THEN None ELSE m.baseV,
                            IF blocked THEN None ELSE m.base, p, None)
<1>1. q \in Mutation
    <2>1. m.baseV \in Nat /\ m.base \in Profile
        BY DEF Metadata
    <2>. QED
        BY <2>1, NewMutationType
<1>2. PutMeta(st.metas, [m EXCEPT !.status = "dirty"]) \in SUBSET Metadata
    BY PutMetaType DEF Store, Metadata
<1>. QED
    BY <1>1, <1>2 DEF Enqueue, Store

LEMMA BackToBaseType ==
    ASSUME NEW st \in Store, NEW m \in Metadata
    PROVE  BackToBase(st, m) \in Store
<1>1. PutMeta(st.metas, [m EXCEPT !.status = "idle"]) \in SUBSET Metadata
    BY PutMetaType DEF Store, Metadata
<1>. QED
    BY <1>1 DEF BackToBase, Store

LEMMA CommitProfileType ==
    ASSUME NEW st \in Store, NEW p \in Profile, NEW id \in Nat
    PROVE  CommitProfile(st, p, id) \in Store
<1> DEFINE saved == [st EXCEPT !.local = p, !.rev = @ + 1, !.edits = @ \/ p # st.local]
<1>1. saved \in Store
    <2>1. PICK e \in BOOLEAN : e = (st.edits \/ p # st.local)
        OBVIOUS
    <2>2. saved = [st EXCEPT !.local = p, !.rev = @ + 1, !.edits = e]
        BY <2>1, Zenon DEF Store
    <2>3. [st EXCEPT !.local = p, !.rev = @ + 1, !.edits = e] \in Store
        <3>1. PICK n \in Nat : n = st.rev + 1
            BY DEF Store
        <3>2. [st EXCEPT !.local = p, !.rev = n, !.edits = e] \in Store
            BY DEF Store
        <3>. QED
            BY <3>1, <3>2
    <2>. QED
        BY <2>2, <2>3
<1>2. CASE p = st.local \/ ActiveMeta(st) = {}
    BY <1>1, <1>2 DEF CommitProfile
<1>3. CASE ~(p = st.local \/ ActiveMeta(st) = {})
    <2> DEFINE m == CHOOSE x \in ActiveMeta(st) : TRUE
    <2>1. m \in Metadata
        BY <1>3 DEF ActiveMeta, Store
    <2>2. Enqueue(saved, m, p, id) \in Store /\ BackToBase(saved, m) \in Store
        BY <1>1, <2>1, EnqueueType, BackToBaseType
    <2>3. CommitProfile(st, p, id) \in {Enqueue(saved, m, p, id), BackToBase(saved, m)}
        BY <1>3 DEF CommitProfile
    <2>. QED
        BY <2>2, <2>3
<1>. QED
    BY <1>2, <1>3

\* ... then those of the worker's drain ...
LEMMA InFlightType == ASSUME NEW q \in Mutation PROVE InFlight(q) \in Mutation
BY DEF InFlight, Mutation

LEMMA ClaimDueType ==
    ASSUME NEW st \in Store, NEW q \in Mutation
    PROVE  ClaimDue(st, q) \in Store
<1>1. {IF InScope(m, q) THEN [m EXCEPT !.status = "syncing"] ELSE m : m \in st.metas}
          \in SUBSET Metadata
    BY DEF Store, Metadata
<1>. QED
    BY <1>1, InFlightType DEF ClaimDue, Store

LEMMA SetStatusType ==
    ASSUME NEW st \in Store, NEW s, NEW gen, SessionMeta(st, s, gen) # {},
           NEW status \in {"idle", "dirty", "syncing", "conflict", "error"}
    PROVE  SetStatus(st, s, gen, status) \in SUBSET Metadata
<1>1. [MetaOf(st, s, gen) EXCEPT !.status = status] \in Metadata
    BY SessionMetaIsRow DEF Metadata
<1>. QED
    BY <1>1, PutMetaType DEF SetStatus, Store

LEMMA AcknowledgeType ==
    ASSUME NEW st \in Store, NEW s, NEW gen, NEW mid, CanSettle(st, s, gen, mid),
           NEW version \in Nat, NEW profile \in Profile
    PROVE  Acknowledge(st, s, gen, mid, version, profile) \in Store
<1> DEFINE waiting == Pending(st, s)
           rebased == {[q EXCEPT !.baseV = version, !.base = profile] : q \in waiting}
           row == [MetaOf(st, s, gen) EXCEPT !.baseV = version, !.base = profile,
                       !.status = IF waiting = {} THEN "idle" ELSE "dirty"]
<1>1. waiting \in SUBSET Mutation
    BY QueriesAreRows DEF Store
<1>2. rebased \in SUBSET Mutation
    BY <1>1 DEF Mutation
<1>3. row \in Metadata
    <2>1. MetaOf(st, s, gen) \in Metadata
        BY SessionMetaIsRow DEF CanSettle
    <2>2. (IF waiting = {} THEN "idle" ELSE "dirty") \in {"idle", "dirty"}
        OBVIOUS
    <2>. QED
        BY <2>1, <2>2 DEF Metadata
<1>4. PutMeta(st.metas, row) \in SUBSET Metadata
    BY <1>3, PutMetaType DEF Store
<1>. QED
    BY <1>2, <1>4 DEF Acknowledge, Store

LEMMA SettledType ==
    ASSUME NEW st \in Store, NEW s, NEW gen, NEW mid, CanSettle(st, s, gen, mid)
    PROVE  Settled(st, s, mid) \in Mutation
BY SettledIsRow DEF Queued, Rows, Store

LEMMA ScheduleRetryType ==
    ASSUME NEW st \in Store, NEW s, NEW gen, NEW mid, CanSettle(st, s, gen, mid)
    PROVE  ScheduleRetry(st, s, gen) \in Store
BY SetStatusType DEF CanSettle, ScheduleRetry, Store

LEMMA RecordConflictType ==
    ASSUME NEW st \in Store, NEW s, s.acct \in Account, s.pid \in ProfileId,
           NEW gen \in Nat, NEW mid \in Nat, CanSettle(st, s, gen, mid),
           NEW version \in Nat, NEW profile \in Profile, NEW serverId \in Nat
    PROVE  RecordConflict(st, s, gen, mid, version, profile, serverId) \in Store
<1> DEFINE q == Settled(st, s, mid)
           c == [mid |-> mid, acct |-> s.acct, pid |-> s.pid, gen |-> gen,
                 base |-> MetaOf(st, s, gen).base, mine |-> q.content,
                 theirs |-> profile, theirsV |-> version, serverId |-> serverId]
<1>1. q \in Mutation /\ [q EXCEPT !.state = "conflict"] \in Mutation
    BY SettledType DEF Mutation
<1>2. c \in Conflict
    BY <1>1, SessionMetaIsRow DEF CanSettle, Conflict, Metadata, Mutation
<1>3. SetStatus(st, s, gen, "conflict") \in SUBSET Metadata
    BY SetStatusType DEF CanSettle
<1>. QED
    BY <1>1, <1>2, <1>3 DEF RecordConflict, Store

LEMMA FreezeServerEmptyType ==
    ASSUME NEW st \in Store, NEW s, NEW gen, NEW mid, CanSettle(st, s, gen, mid)
    PROVE  FreezeServerEmpty(st, s, gen, mid) \in Store
<1> DEFINE q == Settled(st, s, mid)
<1>1. [q EXCEPT !.state = "conflict", !.terminal = TRUE] \in Mutation
    <2>1. q \in Mutation
        BY SettledType
    <2>2. \A t \in BOOLEAN : [q EXCEPT !.state = "conflict", !.terminal = t] \in Mutation
        BY <2>1 DEF Mutation
    <2>. QED
        BY <2>2, Zenon
<1>2. SetStatus(st, s, gen, "conflict") \in SUBSET Metadata
    BY SetStatusType DEF CanSettle
<1>. QED
    BY <1>1, <1>2 DEF FreezeServerEmpty, Store

\* ... and those of the user's decisions.
LEMMA AcceptRemoteType ==
    ASSUME NEW st \in Store, NEW s, NEW gen, SessionMeta(st, s, gen) # {},
           NEW version \in Nat, NEW profile \in Profile
    PROVE  AcceptRemote(st, s, gen, version, profile) \in Store
<1> DEFINE row == [MetaOf(st, s, gen) EXCEPT !.pid = profile.pid, !.baseV = version,
                       !.base = profile, !.status = "idle"]
           others == st.metas \ Rows(st.metas, s)
<1>1. row \in Metadata
    <2>1. MetaOf(st, s, gen) \in Metadata
        BY SessionMetaIsRow
    <2>2. profile.pid \in ProfileId
        BY DEF Profile
    <2>. QED
        BY <2>1, <2>2 DEF Metadata
<1>2. PutMeta(others, row) \in SUBSET Metadata
    BY <1>1, PutMetaType DEF Store
<1> DEFINE n == st.rev + 1
           metas == PutMeta(others, row)
           outbox == st.outbox \ Rows(st.outbox, s)
           conflicts == st.conflicts \ Rows(st.conflicts, s)
<1>3. n \in Nat /\ outbox \in SUBSET Mutation /\ conflicts \in SUBSET Conflict
    BY DEF Store
<1>4. AcceptRemote(st, s, gen, version, profile)
        = [st EXCEPT !.local = profile, !.rev = n, !.outbox = outbox,
                     !.conflicts = conflicts, !.metas = metas]
    BY DEF AcceptRemote
<1> HIDE DEF n, metas, outbox, conflicts, row, others
<1>. QED
    BY <1>2, <1>3, <1>4 DEF Store, metas

LEMMA ForceEnqueueType ==
    ASSUME NEW st \in Store, NEW s, NEW gen, SessionMeta(st, s, gen) # {}, NEW id \in Nat
    PROVE  ForceEnqueue(st, s, gen, id) \in Store
<1> DEFINE m == MetaOf(st, s, gen)
           kept == IF Blocker(st, s) = {} THEN st.conflicts
                   ELSE st.conflicts \ Rows(st.conflicts, s)
<1>1. m \in Metadata /\ [m EXCEPT !.status = "dirty"] \in Metadata
    BY SessionMetaIsRow DEF Metadata
<1>2. NewMutation(id, m, m.baseV, m.base, st.local, None) \in Mutation
    <2>1. m.baseV \in Nat /\ m.base \in Profile /\ st.local \in Profile
        BY <1>1 DEF Metadata, Store
    <2>. QED
        BY <1>1, <2>1, NewMutationType
<1>3. PutMeta(st.metas, [m EXCEPT !.status = "dirty"]) \in SUBSET Metadata
    BY <1>1, PutMetaType DEF Store
<1>4. kept \in SUBSET Conflict
    BY DEF Store
<1>. QED
    BY <1>2, <1>3, <1>4 DEF ForceEnqueue, Store

LEMMA ResolveType ==
    ASSUME NEW st \in Store, NEW s, NEW gen, SessionMeta(st, s, gen) # {},
           NEW c \in Conflict, NEW successor, NEW merged \in Profile, NEW id \in Nat
    PROVE  Resolve(st, s, gen, c, successor, merged, id) \in Store
<1> DEFINE m == MetaOf(st, s, gen)
           row == [m EXCEPT !.baseV = c.theirsV, !.base = c.theirs, !.status = "dirty"]
           kept == {q \in st.outbox : ~(InScope(q, s) /\
                                        q.id \in {c.mid} \cup {x.id : x \in successor})}
<1>1. m \in Metadata
    BY SessionMetaIsRow
<1>2. c.theirsV \in Nat /\ c.theirs \in Profile /\ c.serverId \in Nat
    BY DEF Conflict
<1>3. row \in Metadata
    BY <1>1, <1>2 DEF Metadata
<1>4. NewMutation(id, m, c.theirsV, c.theirs, merged, c.serverId) \in Mutation
    BY <1>1, <1>2, NewMutationType
<1>5. PutMeta(st.metas, row) \in SUBSET Metadata
    BY <1>3, PutMetaType DEF Store
<1>6. kept \in SUBSET Mutation
    BY DEF Store
<1>7. PICK n \in Nat : n = st.rev + 1
    BY DEF Store
<1>. QED
    BY <1>4, <1>5, <1>6, <1>7 DEF Resolve, Store

-----------------------------------------------------------------------------
\* A mutation is sent with a base; one that has none yet waits.
Based(q) == q.baseV \in Nat /\ q.base \in Profile
Waits(q) == q.state = "pending" /\ q.baseV = None
QueueOK(st) == \A q \in st.outbox : Based(q) \/ Waits(q)

\* No transaction leaves a mutation without a base that does not wait.
LEMMA EnqueueQueue ==
    ASSUME NEW st \in Store, QueueOK(st), NEW m \in Metadata, NEW p \in Profile, NEW id \in Nat
    PROVE  QueueOK(Enqueue(st, m, p, id))
<1> DEFINE blocked == Blocker(st, m) # {}
           q == NewMutation(id, m, IF blocked THEN None ELSE m.baseV,
                            IF blocked THEN None ELSE m.base, p, None)
<1>1. Enqueue(st, m, p, id).outbox \subseteq st.outbox \cup {q}
    BY DEF Enqueue, Store
<1>2. Based(q) \/ Waits(q)
    BY DEF NewMutation, Based, Waits, Metadata
<1>. QED
    BY <1>1, <1>2 DEF QueueOK

LEMMA CommitProfileQueue ==
    ASSUME NEW st \in Store, QueueOK(st), NEW p \in Profile, NEW id \in Nat
    PROVE  QueueOK(CommitProfile(st, p, id))
<1> DEFINE saved == [st EXCEPT !.local = p, !.rev = @ + 1, !.edits = @ \/ p # st.local]
<1>1. saved.outbox = st.outbox
    BY DEF Store
<1>2. saved \in Store
    <2>1. PICK e \in BOOLEAN : e = (st.edits \/ p # st.local)
        OBVIOUS
    <2>2. saved = [st EXCEPT !.local = p, !.rev = @ + 1, !.edits = e]
        BY <2>1, Zenon DEF Store
    <2>3. PICK n \in Nat : n = st.rev + 1
        BY DEF Store
    <2>4. [st EXCEPT !.local = p, !.rev = n, !.edits = e] \in Store
        BY DEF Store
    <2>. QED
        BY <2>2, <2>3, <2>4
<1>3. CASE p = st.local \/ ActiveMeta(st) = {}
    BY <1>1, <1>3 DEF CommitProfile, QueueOK
<1>4. CASE ~(p = st.local \/ ActiveMeta(st) = {})
    <2> DEFINE m == CHOOSE x \in ActiveMeta(st) : TRUE
    <2>1. m \in Metadata
        BY <1>4 DEF ActiveMeta, Store
    <2>2. QueueOK(Enqueue(saved, m, p, id))
        BY <1>1, <1>2, <2>1, EnqueueQueue DEF QueueOK
    <2>3. QueueOK(BackToBase(saved, m))
        BY <1>1, <1>2 DEF QueueOK, BackToBase, Store
    <2>4. CommitProfile(st, p, id) \in {Enqueue(saved, m, p, id), BackToBase(saved, m)}
        BY <1>4 DEF CommitProfile
    <2>. QED
        BY <2>2, <2>3, <2>4
<1>. QED
    BY <1>3, <1>4

LEMMA ClaimDueQueue ==
    ASSUME NEW st \in Store, QueueOK(st), NEW q \in Mutation, Based(q)
    PROVE  QueueOK(ClaimDue(st, q)) /\ Based(InFlight(q))
<1>1. Based(InFlight(q))
    BY DEF Based, InFlight, Mutation
<1>2. ClaimDue(st, q).outbox \subseteq st.outbox \cup {InFlight(q)}
    BY DEF ClaimDue, Store
<1>. QED
    BY <1>1, <1>2 DEF QueueOK

LEMMA AcknowledgeQueue ==
    ASSUME NEW st \in Store, QueueOK(st), NEW s, NEW gen, NEW mid,
           NEW version \in Nat, NEW profile \in Profile
    PROVE  QueueOK(Acknowledge(st, s, gen, mid, version, profile))
<1> DEFINE rebase(q) == [q EXCEPT !.baseV = version, !.base = profile]
<1>1. Acknowledge(st, s, gen, mid, version, profile).outbox
          \subseteq st.outbox \cup {rebase(q) : q \in Pending(st, s)}
    BY DEF Acknowledge, Store
<1>2. \A q \in Pending(st, s) : Based(rebase(q))
    BY QueriesAreRows DEF Store, Mutation, Based
<1>. QED
    BY <1>1, <1>2 DEF QueueOK

LEMMA RecordConflictQueue ==
    ASSUME NEW st \in Store, QueueOK(st), NEW s, NEW gen, NEW mid, CanSettle(st, s, gen, mid),
           NEW version, NEW profile, NEW serverId
    PROVE  QueueOK(RecordConflict(st, s, gen, mid, version, profile, serverId))
<1> DEFINE q == Settled(st, s, mid)
<1>1. q \in st.outbox /\ q \in Mutation /\ Based(q)
    BY SettledIsRow DEF Queued, Rows, Store, QueueOK, Waits
<1>2. Based([q EXCEPT !.state = "conflict"])
    BY <1>1 DEF Based, Mutation
<1>3. RecordConflict(st, s, gen, mid, version, profile, serverId).outbox
          \subseteq st.outbox \cup {[q EXCEPT !.state = "conflict"]}
    BY DEF RecordConflict, Store
<1>. QED
    BY <1>2, <1>3 DEF QueueOK

LEMMA FreezeServerEmptyQueue ==
    ASSUME NEW st \in Store, QueueOK(st), NEW s, NEW gen, NEW mid, CanSettle(st, s, gen, mid)
    PROVE  QueueOK(FreezeServerEmpty(st, s, gen, mid))
<1> DEFINE q == Settled(st, s, mid)
<1>1. q \in st.outbox /\ q \in Mutation /\ Based(q)
    BY SettledIsRow DEF Queued, Rows, Store, QueueOK, Waits
<1>2. Based([q EXCEPT !.state = "conflict", !.terminal = TRUE])
    BY <1>1 DEF Based, Mutation
<1>3. FreezeServerEmpty(st, s, gen, mid).outbox
          \subseteq st.outbox \cup {[q EXCEPT !.state = "conflict", !.terminal = TRUE]}
    BY DEF FreezeServerEmpty, Store
<1>. QED
    BY <1>2, <1>3 DEF QueueOK

LEMMA ScheduleRetryQueue ==
    ASSUME NEW st \in Store, QueueOK(st), NEW s, NEW gen
    PROVE  QueueOK(ScheduleRetry(st, s, gen))
BY DEF ScheduleRetry, Store, QueueOK

LEMMA AcceptRemoteQueue ==
    ASSUME NEW st \in Store, QueueOK(st), NEW s, NEW gen, NEW version, NEW profile
    PROVE  QueueOK(AcceptRemote(st, s, gen, version, profile))
BY DEF AcceptRemote, Store, QueueOK

LEMMA ForceEnqueueQueue ==
    ASSUME NEW st \in Store, QueueOK(st), NEW s, NEW gen, SessionMeta(st, s, gen) # {}, NEW id
    PROVE  QueueOK(ForceEnqueue(st, s, gen, id))
<1> DEFINE m == MetaOf(st, s, gen)
           q == NewMutation(id, m, m.baseV, m.base, st.local, None)
<1>1. Based(q)
    BY SessionMetaIsRow DEF Based, NewMutation, Metadata
<1>2. ForceEnqueue(st, s, gen, id).outbox \subseteq st.outbox \cup {q}
    BY DEF ForceEnqueue, Store
<1>. QED
    BY <1>1, <1>2 DEF QueueOK

LEMMA ResolveQueue ==
    ASSUME NEW st \in Store, QueueOK(st), NEW s, NEW gen, NEW c \in Conflict, NEW successor,
           NEW merged, NEW id
    PROVE  QueueOK(Resolve(st, s, gen, c, successor, merged, id))
<1> DEFINE q == NewMutation(id, MetaOf(st, s, gen), c.theirsV, c.theirs, merged, c.serverId)
<1>1. Based(q)
    BY DEF Based, NewMutation, Conflict
<1>2. Resolve(st, s, gen, c, successor, merged, id).outbox \subseteq st.outbox \cup {q}
    BY DEF Resolve, Store
<1>. QED
    BY <1>1, <1>2 DEF QueueOK

-----------------------------------------------------------------------------
\* An answer that names a version carries its profile.
Telling(r) == r.status = "ok" \/ r.version > 0 => r.content \in Profile
LogOK(sv) == \A r \in sv.log : Telling(r)

LEMMA NoneIsNoProfile == None \notin Profile
BY NoneAssumption DEF Profile

LEMMA CurrentProfileType ==
    ASSUME NEW sv \in Server
    PROVE  /\ CurrentVersion(sv) \in Nat
           /\ CurrentVersion(sv) > 0 => CurrentProfile(sv) \in Profile
           /\ CurrentProfile(sv) \in Profile \cup {None}
<1>1. sv.history \in Seq(Version)
    BY DEF Server
<1>2. CASE sv.history = <<>>
    BY <1>1, <1>2 DEF CurrentVersion, CurrentProfile
<1>3. CASE sv.history # <<>>
    <2>1. sv.history[Len(sv.history)] \in Version
        BY <1>1, <1>3
    <2>. QED
        BY <1>1, <1>3, <2>1 DEF CurrentVersion, CurrentProfile, Version
<1>. QED
    BY <1>2, <1>3

LEMMA EmptyServerType == EmptyServer \in Server /\ LogOK(EmptyServer)
BY DEF EmptyServer, Server, LogOK

LEMMA SeededServerType ==
    ASSUME NEW p \in Profile
    PROVE  SeededServer(p) \in Server /\ LogOK(SeededServer(p))
<1>1. EmptyServer \in Server
    BY EmptyServerType
<1>2. <<[content |-> p, base |-> p, mid |-> 0]>> \in Seq(Version)
    BY DEF Version
<1>3. SeededServer(p) \in Server /\ SeededServer(p).log = {}
    BY <1>1, <1>2 DEF SeededServer, EmptyServer, Server
<1>. QED
    BY <1>1, <1>3 DEF LogOK, EmptyServer

\* ApplySyncMutation leaves a server, whichever of its branches it takes.
LEMMA AcceptType ==
    ASSUME NEW sv \in Server, LogOK(sv), NEW q \in Mutation, Based(q)
    PROVE  Accept(sv, q) \in Server /\ LogOK(Accept(sv, q))
<1> DEFINE row == [mid |-> q.id, request |-> Request(q), status |-> "ok",
                   version |-> Len(sv.history) + 1, content |-> q.content, cid |-> 0]
           version == [content |-> q.content, base |-> q.base, mid |-> q.id]
<1>1. Len(sv.history) + 1 \in Nat
    BY DEF Server
<1>2. row \in Response
    BY <1>1 DEF Response, Request, Based, Mutation
<1>3. version \in Version
    BY DEF Version, Based, Mutation
<1>4. Append(sv.history, version) \in Seq(Version)
    BY <1>3 DEF Server
<1>5. sv.log \cup {row} \in SUBSET Response /\ sv.open \ {q.resolves} \in SUBSET Nat
    BY <1>2 DEF Server
<1>6. Accept(sv, q) \in Server /\ Accept(sv, q).log = sv.log \cup {row}
    BY <1>4, <1>5 DEF Accept, Server
<1>. QED
    BY <1>6 DEF LogOK, Telling, Mutation

LEMMA ConflictedType ==
    ASSUME NEW sv \in Server, LogOK(sv), NEW q \in Mutation, Based(q)
    PROVE  Conflicted(sv, q) \in Server /\ LogOK(Conflicted(sv, q))
<1> DEFINE row == [mid |-> q.id, request |-> Request(q), status |-> "conflict",
                   version |-> Len(sv.history), content |-> CurrentProfile(sv),
                   cid |-> sv.serial + 1]
<1>1. PICK n \in Nat : n = sv.serial + 1
    BY DEF Server
<1>2. row \in Response
    BY <1>1, CurrentProfileType DEF Response, Request, Based, Mutation, CurrentVersion
<1>3. Telling(row)
    BY CurrentProfileType DEF Telling, CurrentVersion
<1>4. sv.log \cup {row} \in SUBSET Response /\ sv.open \cup {n} \in SUBSET Nat
    BY <1>2 DEF Server
<1>5. Conflicted(sv, q) \in Server /\ Conflicted(sv, q).log = sv.log \cup {row}
    BY <1>1, <1>4 DEF Conflicted, Server
<1>. QED
    BY <1>3, <1>5 DEF LogOK

LEMMA ApplySyncMutationType ==
    ASSUME NEW sv \in Server, LogOK(sv), NEW q \in Mutation, Based(q)
    PROVE  ApplySyncMutation(sv, q) \in Server /\ LogOK(ApplySyncMutation(sv, q))
BY AcceptType, ConflictedType DEF ApplySyncMutation

LEMMA AnswerOfType ==
    ASSUME NEW sv \in Server, LogOK(sv), NEW q \in Mutation, Based(q)
    PROVE  AnswerOf(sv, q) \in Reply /\ Telling(AnswerOf(sv, q))
<1> DEFINE rows == Stored(ApplySyncMutation(sv, q), q)
           r == CHOOSE x \in rows : TRUE
<1>1. \A status \in {"rejected", "mismatch"} :
          Refusal(status) \in Reply /\ Telling(Refusal(status))
    BY DEF Refusal, Reply, Telling
<1>2. CASE rows = {}
    BY <1>1, <1>2 DEF AnswerOf
<1>3. CASE rows # {}
    <2>1. r \in Response /\ Telling(r)
        <3>1. r \in ApplySyncMutation(sv, q).log
            BY <1>3 DEF Stored
        <3>. QED
            BY <3>1, ApplySyncMutationType DEF Server, LogOK
    <2>2. CASE r.request # Request(q)
        BY <1>1, <1>3, <2>2 DEF AnswerOf
    <2>3. CASE r.request = Request(q)
        <3>1. AnswerOf(sv, q) = [status |-> r.status, version |-> r.version,
                                 content |-> r.content, cid |-> r.cid]
            BY <1>3, <2>3 DEF AnswerOf
        <3>. QED
            BY <2>1, <3>1 DEF Response, Reply, Telling
    <2>. QED
        BY <2>2, <2>3
<1>. QED
    BY <1>2, <1>3

LEMMA AdminRestoreType ==
    ASSUME NEW sv \in Server, LogOK(sv), NEW v \in DOMAIN sv.history
    PROVE  AdminRestore(sv, v) \in Server /\ LogOK(AdminRestore(sv, v))
<1> DEFINE version == [content |-> sv.history[v].content,
                       base |-> sv.history[Len(sv.history)].content, mid |-> 0]
<1>1. sv.history \in Seq(Version)
    BY DEF Server
<1>2. sv.history[v] \in Version /\ sv.history[Len(sv.history)] \in Version
    BY <1>1
<1>3. version \in Version
    BY <1>2 DEF Version
<1>4. Append(sv.history, version) \in Seq(Version)
    BY <1>1, <1>3
<1>5. AdminRestore(sv, v) \in Server /\ AdminRestore(sv, v).log = sv.log
    BY <1>4 DEF AdminRestore, Server
<1>. QED
    BY <1>5 DEF LogOK

LEMMA ForgetType ==
    ASSUME NEW sv \in Server, LogOK(sv), NEW mid
    PROVE  Forget(sv, mid) \in Server /\ LogOK(Forget(sv, mid))
BY DEF Forget, Server, LogOK

-----------------------------------------------------------------------------
\* A request served adds at most one version, its own, on top of the one it
\* names; and at most one stored response, its own.
LEMMA AppendGrows ==
    ASSUME NEW h \in Seq(Version), NEW x \in Version
    PROVE  /\ Append(h, x) \in Seq(Version) /\ Len(Append(h, x)) = Len(h) + 1
           /\ DOMAIN Append(h, x) = DOMAIN h \cup {Len(h) + 1}
           /\ Len(h) + 1 \notin DOMAIN h
           /\ Append(h, x)[Len(h) + 1] = x
           /\ \A v \in DOMAIN h : Append(h, x)[v] = h[v]
OBVIOUS

Written(q) == [content |-> q.content, base |-> q.base, mid |-> q.id]

LEMMA WrittenType == ASSUME NEW q \in Mutation, Based(q) PROVE Written(q) \in Version
BY DEF Written, Version, Mutation, Based

LEMMA ApplyGrows ==
    ASSUME NEW sv \in Server, NEW q \in Mutation, Based(q)
    PROVE  LET sv2 == ApplySyncMutation(sv, q)
           IN  /\ \/ sv2.history = sv.history
                  \/ /\ sv2.history = Append(sv.history, Written(q))
                     /\ q.baseV = Len(sv.history)
                     /\ \A r \in sv.log : r.mid # q.id
               /\ \A r \in sv2.log : r \in sv.log \/ (r.mid = q.id /\ r.request = Request(q))
<1> DEFINE sv2 == ApplySyncMutation(sv, q)
<1>1. CASE sv2 = sv
    BY <1>1
<1>2. CASE sv2 = Conflicted(sv, q)
    BY <1>2 DEF Conflicted, Server
<1>3. CASE sv2 = Accept(sv, q) /\ ~IsStale(sv, q) /\ Stored(sv, q) = {}
    BY <1>3 DEF Accept, Server, Written, IsStale, CurrentVersion, Stored
<1>. QED
    BY <1>1, <1>2, <1>3 DEF ApplySyncMutation

\* The server holds `content` as its version v.
Holds(sv, v, content) == v \in DOMAIN sv.history /\ sv.history[v].content = content

\* A response names a version the server holds; a success, what was sent.
Truthful(sv, r) == r.status = "ok" \/ r.version > 0 => Holds(sv, r.version, r.content)
LogHolds(sv) ==
    \A r \in sv.log : Truthful(sv, r) /\ (r.status = "ok" => r.content = r.request.content)

LEMMA HoldsOn ==
    ASSUME NEW sv \in Server, NEW q \in Mutation, Based(q)
    PROVE  \A v, content : Holds(sv, v, content) => Holds(ApplySyncMutation(sv, q), v, content)
<1>1. sv.history \in Seq(Version)
    BY DEF Server
<1>. QED
    BY <1>1, ApplyGrows, WrittenType, AppendGrows DEF Holds

LEMMA ApplyHolds ==
    ASSUME NEW sv \in Server, LogHolds(sv), NEW q \in Mutation, Based(q)
    PROVE  LogHolds(ApplySyncMutation(sv, q))
<1> DEFINE sv2 == ApplySyncMutation(sv, q)
<1>0. sv.history \in Seq(Version) /\ DOMAIN sv.history = 1 .. Len(sv.history)
    BY DEF Server
<1>1. \A r \in sv.log : Truthful(sv2, r) /\ (r.status = "ok" => r.content = r.request.content)
    BY HoldsOn DEF LogHolds, Truthful
<1>2. CASE sv2 = sv
    BY <1>2
<1>3. CASE sv2 = Conflicted(sv, q)
    <2> DEFINE row == [mid |-> q.id, request |-> Request(q), status |-> "conflict",
                       version |-> Len(sv.history), content |-> CurrentProfile(sv),
                       cid |-> sv.serial + 1]
    <2>1. sv2.log = sv.log \cup {row} /\ sv2.history = sv.history
        BY <1>3 DEF Conflicted, Server
    <2>2. Len(sv.history) > 0 => Holds(sv2, Len(sv.history), CurrentProfile(sv))
        BY <1>0, <2>1 DEF Holds, CurrentProfile
    <2>3. Truthful(sv2, row) /\ row.status # "ok"
        BY <2>2 DEF Truthful
    <2> HIDE DEF row, sv2
    <2>. QED
        BY <1>1, <2>1, <2>3 DEF LogHolds, sv2
<1>4. CASE sv2 = Accept(sv, q)
    <2> DEFINE row == [mid |-> q.id, request |-> Request(q), status |-> "ok",
                       version |-> Len(sv.history) + 1, content |-> q.content, cid |-> 0]
    <2>1. sv2.log = sv.log \cup {row} /\ sv2.history = Append(sv.history, Written(q))
        BY <1>4 DEF Accept, Server, Written
    <2>2. Holds(sv2, Len(sv.history) + 1, q.content)
        BY <1>0, <2>1, WrittenType, AppendGrows DEF Holds, Written
    <2>3. Truthful(sv2, row) /\ row.content = row.request.content
        BY <2>2 DEF Truthful, Request
    <2> HIDE DEF row, sv2
    <2>. QED
        BY <1>1, <2>1, <2>3 DEF LogHolds, sv2
<1>. QED
    BY <1>2, <1>3, <1>4 DEF ApplySyncMutation

LEMMA AnswerHolds ==
    ASSUME NEW sv \in Server, LogHolds(sv), NEW q \in Mutation, Based(q)
    PROVE  LET r == AnswerOf(sv, q)
           IN  /\ Truthful(ApplySyncMutation(sv, q), r)
               /\ r.status = "ok" => r.content = q.content
<1> DEFINE sv2 == ApplySyncMutation(sv, q)
           rows == Stored(sv2, q)
           x == CHOOSE y \in rows : TRUE
<1>1. \A status \in {"rejected", "mismatch"} :
          Truthful(sv2, Refusal(status)) /\ Refusal(status).status # "ok"
    BY DEF Truthful, Refusal
<1>2. CASE rows = {}
    BY <1>1, <1>2 DEF AnswerOf
<1>3. CASE rows # {} /\ x.request # Request(q)
    BY <1>1, <1>3 DEF AnswerOf
<1>4. CASE rows # {} /\ x.request = Request(q)
    <2>1. x \in sv2.log
        BY <1>4 DEF Stored
    <2>2. Truthful(sv2, x) /\ (x.status = "ok" => x.content = q.content)
        BY <1>4, <2>1, ApplyHolds DEF LogHolds, Request
    <2>3. AnswerOf(sv, q) = [status |-> x.status, version |-> x.version,
                             content |-> x.content, cid |-> x.cid]
        BY <1>4 DEF AnswerOf
    <2>. QED
        BY <2>2, <2>3 DEF Truthful
<1>. QED
    BY <1>2, <1>3, <1>4

\* What an administrator restores is one of the versions, on top of the last.
LEMMA RestoreGrows ==
    ASSUME NEW sv \in Server, NEW v \in DOMAIN sv.history
    PROVE  LET sv2 == AdminRestore(sv, v)
               new == [content |-> sv.history[v].content,
                       base |-> sv.history[Len(sv.history)].content, mid |-> 0]
           IN  /\ new \in Version /\ sv2.history = Append(sv.history, new) /\ sv2.log = sv.log
               /\ \A w, content : Holds(sv, w, content) => Holds(sv2, w, content)
               /\ LogHolds(sv) => LogHolds(sv2)
<1> DEFINE sv2 == AdminRestore(sv, v)
           new == [content |-> sv.history[v].content,
                   base |-> sv.history[Len(sv.history)].content, mid |-> 0]
<1>1. sv.history \in Seq(Version)
    BY DEF Server
<1>2. sv.history[v] \in Version /\ sv.history[Len(sv.history)] \in Version
    BY <1>1
<1>3. new \in Version
    BY <1>2 DEF Version
<1>4. sv2.history = Append(sv.history, new) /\ sv2.log = sv.log
    BY DEF AdminRestore, Server
<1> HIDE DEF sv2, new
<1>5. \A w, content : Holds(sv, w, content) => Holds(sv2, w, content)
    BY <1>1, <1>3, <1>4, AppendGrows DEF Holds
<1>6. LogHolds(sv) => LogHolds(sv2)
    BY <1>4, <1>5 DEF LogHolds, Truthful
<1>. QED
    BY <1>3, <1>4, <1>5, <1>6 DEF sv2, new


\* The three things ApplySyncMutation does to the conflicts of an account:
\* nothing, a new one raised against the mutation, or the one it resolves closed.
Raises(sv, q, sv2) ==
    /\ sv2.history = sv.history
    /\ sv2.open = sv.open \cup {sv.serial + 1} /\ sv2.serial = sv.serial + 1
    /\ \A r \in sv2.log :
           r \in sv.log \/ (r.mid = q.id /\ r.status = "conflict" /\ r.cid = sv.serial + 1)

Closes(sv, q, sv2) ==
    /\ Len(sv2.history) = Len(sv.history) + 1 /\ q.baseV = Len(sv.history)
    /\ sv2.open = sv.open \ {q.resolves} /\ sv2.serial = sv.serial
    /\ \A r \in sv2.log : r \in sv.log \/ r.status = "ok"

LEMMA AppliesAs ==
    ASSUME NEW sv \in Server, NEW q \in Mutation, Based(q)
    PROVE  LET sv2 == ApplySyncMutation(sv, q)
           IN  sv2 = sv \/ Raises(sv, q, sv2) \/ Closes(sv, q, sv2)
<1> DEFINE sv2 == ApplySyncMutation(sv, q)
<1>1. CASE sv2 = Conflicted(sv, q)
    BY <1>1 DEF Conflicted, Server, Raises
<1>2. CASE sv2 = Accept(sv, q) /\ ~IsStale(sv, q)
    <2>1. /\ sv2.history = Append(sv.history, Written(q)) /\ q.baseV = Len(sv.history)
          /\ sv2.open = sv.open \ {q.resolves} /\ sv2.serial = sv.serial
          /\ \A r \in sv2.log : r \in sv.log \/ r.status = "ok"
        BY <1>2 DEF Accept, Server, Written, IsStale, CurrentVersion
    <2>2. Len(sv2.history) = Len(sv.history) + 1
        BY <2>1, WrittenType, AppendGrows DEF Server
    <2>. QED
        BY <2>1, <2>2 DEF Closes
<1>. QED
    BY <1>1, <1>2 DEF ApplySyncMutation

\* Where an answer that is no success comes from.
LEMMA AnswersAs ==
    ASSUME NEW sv \in Server, LogOK(sv), NEW q \in Mutation, Based(q)
    PROVE  LET r == AnswerOf(sv, q)
               log == ApplySyncMutation(sv, q).log
           IN  /\ r.status = "conflict" =>
                      \E y \in log : y.mid = q.id /\ y.status = "conflict" /\ y.cid = r.cid
               /\ r.status = "mismatch" => \E y \in log : y.mid = q.id /\ y.request # Request(q)
               /\ r.status = "rejected" =>
                      /\ q.baseV = Len(sv.history)
                      /\ q.resolves # None /\ q.resolves \notin sv.open
<1> DEFINE sv2 == ApplySyncMutation(sv, q)
           rows == Stored(sv2, q)
           x == CHOOSE y \in rows : TRUE
<1>1. CASE rows = {}
    <2>1. AnswerOf(sv, q) = Refusal("rejected")
        BY <1>1 DEF AnswerOf
    <2>2. sv2 # Conflicted(sv, q)
        <3>1. SUFFICES ASSUME sv2 = Conflicted(sv, q) PROVE \E r \in sv2.log : r.mid = q.id
            BY <1>1 DEF Stored
        <3> DEFINE row == [mid |-> q.id, request |-> Request(q), status |-> "conflict",
                           version |-> Len(sv.history), content |-> CurrentProfile(sv),
                           cid |-> sv.serial + 1]
        <3>2. row \in sv2.log
            BY <3>1 DEF Conflicted, Server
        <3>3. row.mid = q.id
            OBVIOUS
        <3>. QED
            BY <3>2, <3>3
    <2>3. sv2 # Accept(sv, q)
        <3>1. SUFFICES ASSUME sv2 = Accept(sv, q) PROVE \E r \in sv2.log : r.mid = q.id
            BY <1>1 DEF Stored
        <3> DEFINE row == [mid |-> q.id, request |-> Request(q), status |-> "ok",
                           version |-> Len(sv.history) + 1, content |-> q.content, cid |-> 0]
        <3>2. row \in sv2.log
            BY <3>1 DEF Accept, Server
        <3>3. row.mid = q.id
            OBVIOUS
        <3>. QED
            BY <3>2, <3>3
    <2>4. Stored(sv, q) # {} => sv2 = sv
        BY DEF ApplySyncMutation
    <2>5. Stored(sv, q) = {}
        BY <1>1, <2>4
    <2>6. ~IsStale(sv, q) /\ ResolutionRefused(sv, q)
        BY <2>2, <2>3, <2>5 DEF ApplySyncMutation
    <2>. QED
        BY <2>1, <2>6 DEF IsStale, ResolutionRefused, CurrentVersion, Refusal
<1>2. CASE rows # {} /\ x.request # Request(q)
    <2>1. AnswerOf(sv, q) = Refusal("mismatch")
        BY <1>2 DEF AnswerOf
    <2>2. x \in rows
        BY <1>2
    <2>. QED
        BY <1>2, <2>1, <2>2 DEF Refusal, Stored
<1>3. CASE rows # {} /\ x.request = Request(q)
    <2>1. AnswerOf(sv, q) = [status |-> x.status, version |-> x.version,
                             content |-> x.content, cid |-> x.cid]
        BY <1>3 DEF AnswerOf
    <2>2. x \in sv2.log /\ x.mid = q.id
        BY <1>3 DEF Stored
    <2>3. sv2 \in Server
        BY ApplySyncMutationType
    <2>4. x.status \in {"ok", "conflict"}
        BY <2>2, <2>3 DEF Server, Response
    <2> HIDE DEF sv2, x
    <2>. QED
        BY <2>1, <2>2, <2>4 DEF sv2
<1>. QED
    BY <1>1, <1>2, <1>3
-----------------------------------------------------------------------------
(* Queues: the shape of a scope's, what becomes of a mutation, what bases   *)
(* mutations and metadata rows take over, and what a session's queue holds. *)

\* A mutation waits, or is ahead: sent, or stopped by a conflict.
Waiting(q) == q.state = "pending"
WaitingRows(st, s) == {q \in Rows(st.outbox, s) : Waiting(q)}
AheadRows(st, s) == {q \in Rows(st.outbox, s) : ~Waiting(q)}

\* The queue of one scope, and the conflicts kept for it.
ScopeShape(rows, conflicts) ==
    /\ \A q, r \in rows : (Waiting(q) <=> Waiting(r)) => q = r
    /\ \A q \in rows : Waiting(q) => ((q.baseV = None) <=> \E r \in rows : ~Waiting(r))
    /\ \A q \in rows : q.terminal => q.state = "conflict"
    /\ \A c \in conflicts : \E q \in rows : q.state = "conflict" /\ ~q.terminal /\ q.id = c.mid
    /\ \A q \in rows : q.state = "conflict" /\ ~q.terminal => \E c \in conflicts : c.mid = q.id
    /\ \A c, e \in conflicts : c = e

ShapeOK(st) == \A s \in Scope : ScopeShape(Rows(st.outbox, s), Rows(st.conflicts, s))

\* A row of a table is in the scope of its own account and profileId.
ScopeOf(x) == [acct |-> x.acct, pid |-> x.pid]

LEMMA RowsHaveScope ==
    ASSUME NEW st \in Store
    PROVE  \A x \in st.outbox \cup st.conflicts \cup st.metas :
               ScopeOf(x) \in Scope /\ InScope(x, ScopeOf(x))
BY DEF Store, Mutation, Conflict, Metadata, Scope, ScopeOf, InScope

\* The shape of a scope that is given as the key of a row or of a call.
LEMMA ShapeOf ==
    ASSUME NEW st \in Store, ShapeOK(st), NEW s, s.acct \in Account, s.pid \in ProfileId
    PROVE  ScopeShape(Rows(st.outbox, s), Rows(st.conflicts, s))
<1>1. ScopeOf(s) \in Scope
    BY DEF ScopeOf, Scope
<1>2. \A table : Rows(table, ScopeOf(s)) = Rows(table, s)
    BY DEF Rows, InScope, ScopeOf
<1>. QED
    BY <1>1, <1>2 DEF ShapeOK

\* In a queue of this shape the queries find everything there is.
LEMMA FirstOfOne ==
    ASSUME NEW rows, \A x, y \in rows : x = y
    PROVE  First(rows) = rows
<1>1. CASE rows = {}
    BY <1>1 DEF First
<1>2. CASE rows # {}
    <2>1. PICK x \in rows : TRUE
        BY <1>2
    <2>2. rows = {x}
        BY <2>1
    <2>. QED
        BY <1>2, <2>2 DEF First
<1>. QED
    BY <1>1, <1>2

LEMMA QueriesFindAll ==
    ASSUME NEW st \in Store, NEW s, ScopeShape(Rows(st.outbox, s), Rows(st.conflicts, s))
    PROVE  /\ Pending(st, s) = WaitingRows(st, s)
           /\ Blocker(st, s) = AheadRows(st, s)
           /\ Rows(st.outbox, s) = WaitingRows(st, s) \cup AheadRows(st, s)
<1>1. Pending(st, s) = WaitingRows(st, s)
    <2>1. Queued(st, s, "pending") = WaitingRows(st, s)
        BY DEF Queued, WaitingRows, Waiting
    <2>2. \A x, y \in WaitingRows(st, s) : x = y
        BY DEF ScopeShape, WaitingRows
    <2>. QED
        BY <2>1, <2>2, FirstOfOne DEF Pending
<1>2. Blocker(st, s) = AheadRows(st, s)
    <2> DEFINE flying == Queued(st, s, "in-flight")
               stopped == Queued(st, s, "conflict")
    <2>1. AheadRows(st, s) = flying \cup stopped
        BY DEF AheadRows, Queued, Rows, Store, Mutation, Waiting
    <2>2. \A x, y \in AheadRows(st, s) : x = y
        BY DEF ScopeShape, AheadRows
    <2>3. First(flying) = flying /\ First(stopped) = stopped
        BY <2>1, <2>2, FirstOfOne
    <2>4. flying # {} => stopped \subseteq flying
        BY <2>1, <2>2
    <2>. QED
        BY <2>1, <2>3, <2>4 DEF Blocker
<1>. QED
    BY <1>1, <1>2 DEF WaitingRows, AheadRows

\* A transaction that changes one scope, and leaves it in shape, leaves all.
Outside(table, s) == {x \in table : ~InScope(x, s)}

LEMMA ScopeStep ==
    ASSUME NEW st \in Store, ShapeOK(st), NEW st2, NEW s, NEW rows, NEW conflicts,
           \A x \in rows \cup conflicts : InScope(x, s),
           st2.outbox = Outside(st.outbox, s) \cup rows,
           st2.conflicts = Outside(st.conflicts, s) \cup conflicts,
           ScopeShape(rows, conflicts)
    PROVE  ShapeOK(st2)
<1> SUFFICES ASSUME NEW t \in Scope
             PROVE  ScopeShape(Rows(st2.outbox, t), Rows(st2.conflicts, t))
    BY DEF ShapeOK
<1>1. CASE InScope(t, s)
    <2>1. Rows(st2.outbox, t) = rows
        BY <1>1 DEF Rows, InScope, Outside
    <2>2. Rows(st2.conflicts, t) = conflicts
        BY <1>1 DEF Rows, InScope, Outside
    <2>. QED
        BY <2>1, <2>2
<1>2. CASE ~InScope(t, s)
    <2>1. Rows(st2.outbox, t) = Rows(st.outbox, t)
        BY <1>2 DEF Rows, InScope, Outside
    <2>2. Rows(st2.conflicts, t) = Rows(st.conflicts, t)
        BY <1>2 DEF Rows, InScope, Outside
    <2>. QED
        BY <2>1, <2>2 DEF ShapeOK
<1>. QED
    BY <1>1, <1>2

-----------------------------------------------------------------------------
\* What becomes of mutations: a row is kept, is new and waits, is rebased, is
\* sent as it is, or is stopped.  It keeps its id, and no two rows share one;
\* fresh holds the ids the transaction may draw.
UniqueIds(st) == \A q, r \in st.outbox : q.id = r.id => q = r
Becomes(q, r) ==
    /\ r.id = q.id /\ r.acct = q.acct /\ r.pid = q.pid /\ r.gen = q.gen
    /\ r.resolves = q.resolves /\ r.content = q.content
    /\ \/ Waiting(q) /\ (Waiting(r) \/ r = InFlight(q))
       \/ q.state = "in-flight" /\ r.state = "conflict" /\ r.baseV = q.baseV /\ r.base = q.base

Follows(st, r, fresh) ==
    \/ r \in st.outbox
    \/ Waiting(r) /\ r.id \in fresh
    \/ \E q \in st.outbox : Becomes(q, r)

Moves(st, st2, fresh) == UniqueIds(st2) /\ \A r \in st2.outbox : Follows(st, r, fresh)

\* The transaction leaves rows and conflicts in the scope s, all others alone.
ScopeBecomes(st, st2, s, rows, conflicts) ==
    /\ st2.outbox = Outside(st.outbox, s) \cup rows
    /\ st2.conflicts = Outside(st.conflicts, s) \cup conflicts
    /\ \A x \in rows \cup conflicts : InScope(x, s)
    /\ ScopeShape(rows, conflicts)
    /\ \A q, r \in rows : q.id = r.id => q = r

\* Where each of the rows comes from.
FollowIn(st, s, rows, fresh) ==
    \A r \in rows : \/ r \in Rows(st.outbox, s)
                    \/ Waiting(r) /\ r.id \in fresh
                    \/ \E q \in Rows(st.outbox, s) : Becomes(q, r)

LEMMA ScopeMoves ==
    ASSUME NEW st \in Store, ShapeOK(st), UniqueIds(st), NEW st2, NEW s, NEW rows, NEW conflicts,
           ScopeBecomes(st, st2, s, rows, conflicts),
           NEW fresh, \A q \in st.outbox : q.id \notin fresh,
           FollowIn(st, s, rows, fresh)
    PROVE  ShapeOK(st2) /\ Moves(st, st2, fresh)
<1>1. ShapeOK(st2)
    BY ScopeStep DEF ScopeBecomes
<1>2. \A r \in st2.outbox : Follows(st, r, fresh)
    BY DEF ScopeBecomes, FollowIn, Outside, Follows, Rows
<1>3. \A r \in rows : r.id \in fresh \/ \E q \in Rows(st.outbox, s) : q.id = r.id
    BY DEF FollowIn, Becomes
<1>4. \A x \in Outside(st.outbox, s), r \in rows : x.id # r.id
    BY <1>3 DEF UniqueIds, Outside, Rows
<1>5. UniqueIds(st2)
    BY <1>4 DEF ScopeBecomes, UniqueIds, Outside
<1>. QED
    BY <1>1, <1>2, <1>5 DEF Moves

-----------------------------------------------------------------------------
\* The queue and the conflicts of the scope after each transaction.
EnqueueRow(st, m, p, id) ==
    NewMutation(id, m, IF AheadRows(st, m) # {} THEN None ELSE m.baseV,
                IF AheadRows(st, m) # {} THEN None ELSE m.base, p, None)
EnqueueRows(st, m, p, id) == AheadRows(st, m) \cup {EnqueueRow(st, m, p, id)}

LEMMA EnqueueEffect ==
    ASSUME NEW st \in Store, ShapeOK(st), NEW m \in Metadata, NEW p \in Profile, NEW id \in Nat,
           \A q \in st.outbox : q.id # id
    PROVE  /\ ScopeBecomes(st, Enqueue(st, m, p, id), m,
                           EnqueueRows(st, m, p, id), Rows(st.conflicts, m))
           /\ FollowIn(st, m, EnqueueRows(st, m, p, id), {id})
<1> DEFINE new == EnqueueRow(st, m, p, id)
           ahead == AheadRows(st, m)
<1>1. ScopeShape(Rows(st.outbox, m), Rows(st.conflicts, m))
    BY ShapeOf DEF Metadata
<1>2. Pending(st, m) = WaitingRows(st, m) /\ Blocker(st, m) = AheadRows(st, m)
    BY <1>1, QueriesFindAll
<1>3. new.id = id /\ Waiting(new) /\ InScope(new, m) /\ ~new.terminal
      /\ new.baseV = IF ahead # {} THEN None ELSE m.baseV
    BY DEF EnqueueRow, NewMutation, Waiting, InScope
<1>4. (new.baseV = None) <=> ahead # {}
    BY <1>3, NoneAssumption DEF Metadata
<1>5. Enqueue(st, m, p, id).outbox = (st.outbox \ WaitingRows(st, m)) \cup {new}
    BY <1>2 DEF Enqueue, EnqueueRow, Store
<1>6. Enqueue(st, m, p, id).conflicts = st.conflicts
    BY DEF Enqueue, Store
<1>7. ahead \subseteq Rows(st.outbox, m) /\ ahead \subseteq st.outbox
    BY DEF AheadRows, Rows
<1>8. st.outbox \ WaitingRows(st, m) = Outside(st.outbox, m) \cup ahead
    BY DEF Outside, AheadRows, WaitingRows, Rows
<1>9. ScopeShape(ahead \cup {new}, Rows(st.conflicts, m))
    <2> HIDE DEF new
    <2>1. \A q \in ahead : ~Waiting(q)
        BY DEF AheadRows
    <2>2. \A q \in Rows(st.outbox, m) : ~Waiting(q) => q \in ahead
        BY DEF AheadRows
    <2>. QED
        BY <1>1, <1>3, <1>4, <1>7, <2>1, <2>2 DEF ScopeShape, Waiting
<1> HIDE DEF new, ahead
<1>10. \A q \in ahead : InScope(q, m) /\ q.id # id
    BY <1>7 DEF Rows
<1>11. \A q, r \in ahead : q = r
    BY <1>1, <1>7 DEF ahead, AheadRows, ScopeShape
<1>. QED
    BY <1>3, <1>5, <1>6, <1>7, <1>8, <1>9, <1>10, <1>11
    DEF ScopeBecomes, FollowIn, EnqueueRows, new, ahead, Outside, Rows

LEMMA BackToBaseEffect ==
    ASSUME NEW st \in Store, ShapeOK(st), NEW m \in Metadata, Blocker(st, m) = {}
    PROVE  /\ ScopeBecomes(st, BackToBase(st, m), m, {}, Rows(st.conflicts, m))
           /\ \A fresh : FollowIn(st, m, {}, fresh)
           /\ Rows(st.conflicts, m) = {}
<1>1. ScopeShape(Rows(st.outbox, m), Rows(st.conflicts, m))
    BY ShapeOf DEF Metadata
<1>2. Pending(st, m) = Rows(st.outbox, m) /\ AheadRows(st, m) = {}
    BY <1>1, QueriesFindAll
<1>3. Rows(st.conflicts, m) = {}
    BY <1>1, <1>2 DEF ScopeShape, AheadRows, Waiting
<1>4. ScopeShape({}, {})
    BY DEF ScopeShape
<1>5. /\ BackToBase(st, m).outbox = st.outbox \ Rows(st.outbox, m)
      /\ BackToBase(st, m).conflicts = st.conflicts
    BY <1>2 DEF BackToBase, Store
<1>. QED
    BY <1>3, <1>4, <1>5 DEF ScopeBecomes, FollowIn, Outside, Rows

\* A mutation claimed for the first time is alone in its queue.
LEMMA ClaimedIsAlone ==
    ASSUME NEW st \in Store, ShapeOK(st), NEW s, s.acct \in Account, s.pid \in ProfileId,
           NEW gen, NEW q \in Claimable(st, s, gen)
    PROVE  /\ q \in Rows(st.outbox, s) /\ q.gen = gen /\ ~q.terminal
           /\ q.state \in {"pending", "in-flight"}
           /\ q.state = "pending" =>
                /\ Rows(st.outbox, s) = {q} /\ Rows(st.conflicts, s) = {}
                /\ q.baseV # None
<1>1. ScopeShape(Rows(st.outbox, s), Rows(st.conflicts, s))
    BY ShapeOf
<1>2. Pending(st, s) = WaitingRows(st, s)
    BY <1>1, QueriesFindAll
<1>3. CASE Queued(st, s, "in-flight") # {}
    <2>1. q \in Queued(st, s, "in-flight") /\ q.gen = gen
        BY <1>3, FirstIsRow DEF Claimable
    <2>. QED
        BY <1>1, <2>1 DEF Queued, ScopeShape, Rows, Store, Mutation
<1>4. CASE Queued(st, s, "in-flight") = {}
    <2>1. q \in WaitingRows(st, s) /\ q.gen = gen /\ q.baseV # None
        BY <1>2, <1>4 DEF Claimable
    <2>2. q \in Rows(st.outbox, s) /\ Waiting(q)
        BY <2>1 DEF WaitingRows
    <2>3. \A r \in Rows(st.outbox, s) : Waiting(r)
        BY <1>1, <2>1, <2>2 DEF ScopeShape
    <2>4. Rows(st.outbox, s) = {q}
        BY <1>1, <2>2, <2>3 DEF ScopeShape
    <2>5. Rows(st.conflicts, s) = {}
        BY <1>1, <2>3 DEF ScopeShape, Waiting
    <2>. QED
        BY <1>1, <2>1, <2>2, <2>4, <2>5 DEF Waiting, ScopeShape, Rows, Store, Mutation
<1>. QED
    BY <1>3, <1>4

LEMMA ClaimDueEffect ==
    ASSUME NEW st \in Store, ShapeOK(st), NEW s, s.acct \in Account, s.pid \in ProfileId,
           NEW gen, NEW q \in Claimable(st, s, gen), q.state = "pending"
    PROVE  /\ ScopeBecomes(st, ClaimDue(st, q), s, {InFlight(q)}, {})
           /\ \A fresh : FollowIn(st, s, {InFlight(q)}, fresh)
<1>1. /\ q \in Rows(st.outbox, s) /\ ~q.terminal /\ q \in Mutation
      /\ Rows(st.outbox, s) = {q} /\ Rows(st.conflicts, s) = {}
    BY ClaimedIsAlone DEF Rows, Store
<1>2. /\ ClaimDue(st, q).outbox = (st.outbox \ {q}) \cup {InFlight(q)}
      /\ ClaimDue(st, q).conflicts = st.conflicts
    BY DEF ClaimDue, Store
<1>3. /\ InScope(InFlight(q), s) /\ InFlight(q).state = "in-flight" /\ ~InFlight(q).terminal
      /\ Becomes(q, InFlight(q))
    BY <1>1 DEF InFlight, Rows, InScope, Mutation, Becomes, Waiting
<1>4. ScopeShape({InFlight(q)}, {})
    BY <1>3 DEF ScopeShape, Waiting
<1>. QED
    BY <1>1, <1>2, <1>3, <1>4 DEF ScopeBecomes, FollowIn, Outside, Rows

\* A request that is settled is all that is ahead in its queue.
LEMMA SettledIsAhead ==
    ASSUME NEW st \in Store, ShapeOK(st), NEW s, s.acct \in Account, s.pid \in ProfileId,
           NEW gen, NEW mid, CanSettle(st, s, gen, mid)
    PROVE  LET q == Settled(st, s, mid)
           IN  /\ q \in Rows(st.outbox, s) /\ q \in Mutation /\ q.id = mid /\ q.state = "in-flight"
               /\ q.gen = gen /\ ~q.terminal
               /\ AheadRows(st, s) = {q} /\ Rows(st.conflicts, s) = {}
               /\ Rows(st.outbox, s) = WaitingRows(st, s) \cup {q}
<1> DEFINE q == Settled(st, s, mid)
<1>1. ScopeShape(Rows(st.outbox, s), Rows(st.conflicts, s))
    BY ShapeOf
<1>2. q \in Queued(st, s, "in-flight") /\ q.id = mid
    BY SettledIsRow
<1>3. q \in Rows(st.outbox, s) /\ q \in Mutation /\ q.state = "in-flight"
    BY <1>2 DEF Queued, Rows, Store
<1>4. PICK r \in Queued(st, s, "in-flight") : r.id = mid /\ r.gen = gen
    BY DEF CanSettle
<1>5. \A x \in Rows(st.outbox, s) : ~Waiting(x) => x = q
    BY <1>1, <1>3 DEF ScopeShape, Waiting
<1>6. r = q
    BY <1>4, <1>5 DEF Queued, Waiting
<1>7. AheadRows(st, s) = {q}
    BY <1>3, <1>5 DEF AheadRows, Waiting
<1>8. Rows(st.conflicts, s) = {}
    BY <1>1, <1>5, <1>3 DEF ScopeShape, Waiting
<1>9. ~q.terminal
    BY <1>1, <1>3 DEF ScopeShape
<1>. QED
    BY <1>1, <1>2, <1>3, <1>4, <1>6, <1>7, <1>8, <1>9, QueriesFindAll

Rebase(q, version, profile) == [q EXCEPT !.baseV = version, !.base = profile]
RebasedRows(st, s, version, profile) == {Rebase(q, version, profile) : q \in WaitingRows(st, s)}

LEMMA RebasedQueue ==
    ASSUME NEW st \in Store, ShapeOK(st), NEW s, s.acct \in Account, s.pid \in ProfileId,
           NEW version \in Nat, NEW profile \in Profile
    PROVE  /\ \A r \in RebasedRows(st, s, version, profile) :
                  \E q \in WaitingRows(st, s) : r = Rebase(q, version, profile) /\ Becomes(q, r)
           /\ \A r \in RebasedRows(st, s, version, profile) :
                  Waiting(r) /\ InScope(r, s) /\ ~r.terminal /\ r.baseV # None
           /\ \A q, r \in RebasedRows(st, s, version, profile) : q = r
<1>1. ScopeShape(Rows(st.outbox, s), Rows(st.conflicts, s))
    BY ShapeOf
<1>2. \A q \in WaitingRows(st, s) :
          q \in Rows(st.outbox, s) /\ q \in Mutation /\ Waiting(q) /\ InScope(q, s) /\ ~q.terminal
    BY <1>1 DEF WaitingRows, Rows, Store, ScopeShape, Waiting
<1>3. \A q \in WaitingRows(st, s) :
          LET r == Rebase(q, version, profile)
          IN  /\ Becomes(q, r) /\ Waiting(r) /\ InScope(r, s) /\ ~r.terminal /\ r.baseV # None
    BY <1>2, NoneAssumption DEF Rebase, Becomes, Waiting, InScope, Mutation
<1>4. \A q, r \in WaitingRows(st, s) : q = r
    BY <1>1, <1>2 DEF ScopeShape
<1>. QED
    BY <1>3, <1>4 DEF RebasedRows

LEMMA AcknowledgeEffect ==
    ASSUME NEW st \in Store, ShapeOK(st), NEW s, s.acct \in Account, s.pid \in ProfileId,
           NEW gen, NEW mid, CanSettle(st, s, gen, mid),
           NEW version \in Nat, NEW profile \in Profile
    PROVE  /\ ScopeBecomes(st, Acknowledge(st, s, gen, mid, version, profile), s,
                           RebasedRows(st, s, version, profile), {})
           /\ \A fresh : FollowIn(st, s, RebasedRows(st, s, version, profile), fresh)
<1> DEFINE q == Settled(st, s, mid)
           rows == RebasedRows(st, s, version, profile)
           st2 == Acknowledge(st, s, gen, mid, version, profile)
<1>1. /\ Rows(st.outbox, s) = WaitingRows(st, s) \cup {q} /\ Rows(st.conflicts, s) = {}
    BY SettledIsAhead
<1>2. Pending(st, s) = WaitingRows(st, s)
    BY ShapeOf, QueriesFindAll
<1>3. /\ st2.outbox = ((st.outbox \ {q}) \ WaitingRows(st, s)) \cup rows
      /\ st2.conflicts = st.conflicts
    BY <1>2 DEF Acknowledge, RebasedRows, Rebase, Store
<1>4. /\ \A r \in rows : \E x \in WaitingRows(st, s) : Becomes(x, r)
      /\ \A r \in rows : Waiting(r) /\ InScope(r, s) /\ ~r.terminal /\ r.baseV # None
      /\ \A x, r \in rows : x = r
    BY RebasedQueue
<1> HIDE DEF q, rows, st2
<1>5. (st.outbox \ {q}) \ WaitingRows(st, s) = Outside(st.outbox, s)
    BY <1>1 DEF Outside, Rows
<1>6. ScopeShape(rows, {})
    BY <1>4 DEF ScopeShape, Waiting
<1>7. st.conflicts = Outside(st.conflicts, s)
    BY <1>1 DEF Outside, Rows
<1>8. ScopeBecomes(st, st2, s, rows, {})
    BY <1>3, <1>4, <1>5, <1>6, <1>7 DEF ScopeBecomes
<1>9. \A fresh : FollowIn(st, s, rows, fresh)
    BY <1>1, <1>4 DEF FollowIn
<1>. QED
    BY <1>8, <1>9 DEF rows, st2

\* A request stopped by a conflict, or by a server that lost the profile.
LEMMA StoppedEffect ==
    ASSUME NEW st \in Store, ShapeOK(st), NEW s, s.acct \in Account, s.pid \in ProfileId,
           NEW gen, NEW mid, CanSettle(st, s, gen, mid),
           NEW stopped, NEW conflicts,
           stopped.state = "conflict", InScope(stopped, s), stopped.id = mid,
           Becomes(Settled(st, s, mid), stopped),
           \A c \in conflicts : InScope(c, s) /\ c.mid = mid,
           \A c, e \in conflicts : c = e,
           stopped.terminal <=> conflicts = {},
           NEW st2,
           st2.outbox = (st.outbox \ {Settled(st, s, mid)}) \cup {stopped},
           st2.conflicts = st.conflicts \cup conflicts,
           UniqueIds(st)
    PROVE  /\ ScopeBecomes(st, st2, s, WaitingRows(st, s) \cup {stopped}, conflicts)
           /\ \A fresh : FollowIn(st, s, WaitingRows(st, s) \cup {stopped}, fresh)
<1> DEFINE q == Settled(st, s, mid)
           waiting == WaitingRows(st, s)
<1>1. /\ q \in Rows(st.outbox, s) /\ q.id = mid /\ q.state = "in-flight"
      /\ Rows(st.outbox, s) = waiting \cup {q} /\ Rows(st.conflicts, s) = {}
      /\ AheadRows(st, s) = {q}
    BY SettledIsAhead
<1>2. ScopeShape(Rows(st.outbox, s), Rows(st.conflicts, s))
    BY ShapeOf
<1>3. waiting \subseteq Rows(st.outbox, s) /\ \A x \in waiting : Waiting(x) /\ InScope(x, s)
    BY DEF WaitingRows, Rows
<1> HIDE DEF q, waiting
<1>4. q \notin waiting /\ \A x \in waiting : x.id # mid
    BY <1>1, <1>3 DEF UniqueIds, Rows, Waiting
<1>5. (st.outbox \ {q}) \cup {stopped} = Outside(st.outbox, s) \cup (waiting \cup {stopped})
    BY <1>1, <1>3, <1>4 DEF Outside, Rows
<1>6. st.conflicts = Outside(st.conflicts, s)
    BY <1>1 DEF Outside, Rows
<1>7. ScopeShape(waiting \cup {stopped}, conflicts)
    BY <1>1, <1>2, <1>3, <1>4 DEF ScopeShape, Waiting
<1>8. ScopeBecomes(st, st2, s, waiting \cup {stopped}, conflicts)
    <2>1. st2.outbox = Outside(st.outbox, s) \cup (waiting \cup {stopped})
        BY <1>5 DEF q
    <2>2. \A x, r \in waiting \cup {stopped} : x.id = r.id => x = r
        BY <1>3, <1>4 DEF UniqueIds, Rows
    <2>. QED
        BY <1>3, <1>6, <1>7, <2>1, <2>2 DEF ScopeBecomes
<1>9. \A fresh : FollowIn(st, s, waiting \cup {stopped}, fresh)
    BY <1>1, <1>3 DEF FollowIn, q
<1>. QED
    BY <1>8, <1>9 DEF waiting

StoppedRow(st, s, mid) == [Settled(st, s, mid) EXCEPT !.state = "conflict"]
FrozenRow(st, s, mid) == [Settled(st, s, mid) EXCEPT !.state = "conflict", !.terminal = TRUE]
ConflictOf(st, s, gen, mid, version, profile, serverId) ==
    [mid |-> mid, acct |-> s.acct, pid |-> s.pid, gen |-> gen,
     base |-> MetaOf(st, s, gen).base, mine |-> Settled(st, s, mid).content,
     theirs |-> profile, theirsV |-> version, serverId |-> serverId]

LEMMA RecordConflictEffect ==
    ASSUME NEW st \in Store, ShapeOK(st), UniqueIds(st),
           NEW s, s.acct \in Account, s.pid \in ProfileId,
           NEW gen, NEW mid, CanSettle(st, s, gen, mid),
           NEW version, NEW profile, NEW serverId
    PROVE  LET rows == WaitingRows(st, s) \cup {StoppedRow(st, s, mid)}
           IN  /\ ScopeBecomes(st, RecordConflict(st, s, gen, mid, version, profile, serverId), s,
                              rows, {ConflictOf(st, s, gen, mid, version, profile, serverId)})
               /\ \A fresh : FollowIn(st, s, rows, fresh)
<1> DEFINE stopped == StoppedRow(st, s, mid)
           c == ConflictOf(st, s, gen, mid, version, profile, serverId)
           st2 == RecordConflict(st, s, gen, mid, version, profile, serverId)
           q == Settled(st, s, mid)
<1>1. /\ q \in Rows(st.outbox, s) /\ q \in Mutation /\ q.id = mid /\ q.state = "in-flight"
      /\ ~q.terminal
    BY SettledIsAhead
<1>2. /\ stopped.state = "conflict" /\ InScope(stopped, s) /\ stopped.id = mid
      /\ ~stopped.terminal
      /\ Becomes(q, stopped)
    BY <1>1 DEF StoppedRow, Mutation, Rows, InScope, Becomes
<1>3. InScope(c, s) /\ c.mid = mid
    BY DEF ConflictOf, InScope
<1>4. /\ st2.outbox = (st.outbox \ {q}) \cup {stopped}
      /\ st2.conflicts = st.conflicts \cup {c}
    BY DEF RecordConflict, StoppedRow, ConflictOf, Store
<1> HIDE DEF stopped, c, st2
<1>5. /\ ScopeBecomes(st, st2, s, WaitingRows(st, s) \cup {stopped}, {c})
      /\ \A fresh : FollowIn(st, s, WaitingRows(st, s) \cup {stopped}, fresh)
    BY <1>2, <1>3, <1>4, StoppedEffect
<1>. QED
    BY <1>5 DEF stopped, c, st2

LEMMA FreezeServerEmptyEffect ==
    ASSUME NEW st \in Store, ShapeOK(st), UniqueIds(st),
           NEW s, s.acct \in Account, s.pid \in ProfileId,
           NEW gen, NEW mid, CanSettle(st, s, gen, mid)
    PROVE  LET rows == WaitingRows(st, s) \cup {FrozenRow(st, s, mid)}
           IN  /\ ScopeBecomes(st, FreezeServerEmpty(st, s, gen, mid), s, rows, {})
               /\ \A fresh : FollowIn(st, s, rows, fresh)
<1> DEFINE frozen == FrozenRow(st, s, mid)
           st2 == FreezeServerEmpty(st, s, gen, mid)
           q == Settled(st, s, mid)
<1>1. /\ q \in Rows(st.outbox, s) /\ q \in Mutation /\ q.id = mid /\ q.state = "in-flight"
    BY SettledIsAhead
<1>2. /\ frozen.state = "conflict" /\ InScope(frozen, s) /\ frozen.id = mid
      /\ frozen.terminal
      /\ Becomes(q, frozen)
    BY <1>1 DEF FrozenRow, Mutation, Rows, InScope, Becomes
<1>3. /\ st2.outbox = (st.outbox \ {q}) \cup {frozen}
      /\ st2.conflicts = st.conflicts \cup {}
    BY DEF FreezeServerEmpty, FrozenRow, Store
<1> HIDE DEF frozen, st2
<1>4. /\ ScopeBecomes(st, st2, s, WaitingRows(st, s) \cup {frozen}, {})
      /\ \A fresh : FollowIn(st, s, WaitingRows(st, s) \cup {frozen}, fresh)
    BY <1>2, <1>3, StoppedEffect
<1>. QED
    BY <1>4 DEF frozen, st2

LEMMA AcceptRemoteEffect ==
    ASSUME NEW st \in Store, NEW s, NEW gen, NEW version, NEW profile
    PROVE  /\ ScopeBecomes(st, AcceptRemote(st, s, gen, version, profile), s, {}, {})
           /\ \A fresh : FollowIn(st, s, {}, fresh)
<1> DEFINE st2 == AcceptRemote(st, s, gen, version, profile)
<1>1. /\ st2.outbox = st.outbox \ Rows(st.outbox, s)
      /\ st2.conflicts = st.conflicts \ Rows(st.conflicts, s)
    BY DEF AcceptRemote, Store
<1>2. ScopeShape({}, {})
    BY DEF ScopeShape
<1>. QED
    BY <1>1, <1>2 DEF ScopeBecomes, FollowIn, Outside, Rows

\* A mutation that replaces whatever its scope held.
LEMMA OnlyOneEffect ==
    ASSUME NEW st, NEW st2, NEW s, NEW new, NEW id,
           Waiting(new), InScope(new, s), new.id = id, new.baseV # None, ~new.terminal,
           st2.outbox = Outside(st.outbox, s) \cup {new},
           st2.conflicts = Outside(st.conflicts, s)
    PROVE  ScopeBecomes(st, st2, s, {new}, {}) /\ FollowIn(st, s, {new}, {id})
<1>1. ScopeShape({new}, {})
    BY DEF ScopeShape, Waiting
<1>. QED
    BY <1>1 DEF ScopeBecomes, FollowIn

ForcedRow(st, s, gen, id) ==
    NewMutation(id, MetaOf(st, s, gen), MetaOf(st, s, gen).baseV, MetaOf(st, s, gen).base,
                st.local, None)

LEMMA ForceEnqueueEffect ==
    ASSUME NEW st \in Store, ShapeOK(st), NEW s, s.acct \in Account, s.pid \in ProfileId,
           NEW gen, SessionMeta(st, s, gen) # {}, NEW id
    PROVE  /\ ScopeBecomes(st, ForceEnqueue(st, s, gen, id), s, {ForcedRow(st, s, gen, id)}, {})
           /\ FollowIn(st, s, {ForcedRow(st, s, gen, id)}, {id})
<1> DEFINE new == ForcedRow(st, s, gen, id)
           st2 == ForceEnqueue(st, s, gen, id)
<1>1. ScopeShape(Rows(st.outbox, s), Rows(st.conflicts, s))
    BY ShapeOf
<1>2. /\ Pending(st, s) = WaitingRows(st, s) /\ Blocker(st, s) = AheadRows(st, s)
      /\ Rows(st.outbox, s) = WaitingRows(st, s) \cup AheadRows(st, s)
    BY <1>1, QueriesFindAll
<1>3. st2.outbox = ((st.outbox \ AheadRows(st, s)) \ WaitingRows(st, s)) \cup {new}
    BY <1>2 DEF ForceEnqueue, ForcedRow, Store
<1>4. st2.outbox = Outside(st.outbox, s) \cup {new}
    BY <1>2, <1>3 DEF Outside, Rows
<1>5. st2.conflicts = Outside(st.conflicts, s)
    <2>1. CASE Blocker(st, s) = {}
        <3>1. Rows(st.conflicts, s) = {}
            BY <1>1, <1>2, <2>1 DEF ScopeShape, AheadRows, Waiting
        <3>. QED
            BY <2>1, <3>1 DEF ForceEnqueue, Store, Outside, Rows
    <2>2. CASE Blocker(st, s) # {}
        BY <2>2 DEF ForceEnqueue, Store, Outside, Rows
    <2>. QED
        BY <2>1, <2>2
<1>6. /\ Waiting(new) /\ InScope(new, s) /\ new.id = id /\ new.baseV # None /\ ~new.terminal
    <2>1. MetaOf(st, s, gen) \in Metadata /\ InScope(MetaOf(st, s, gen), s)
        BY SessionMetaIsRow, MetaOfIsRow DEF SessionMeta, Rows
    <2>. QED
        BY <2>1, NoneAssumption DEF ForcedRow, NewMutation, Waiting, InScope, Metadata
<1> HIDE DEF new, st2
<1>7. ScopeBecomes(st, st2, s, {new}, {}) /\ FollowIn(st, s, {new}, {id})
    BY <1>4, <1>5, <1>6, OnlyOneEffect
<1>. QED
    BY <1>7 DEF new, st2

ResolvedRow(st, s, gen, c, merged, id) ==
    NewMutation(id, MetaOf(st, s, gen), c.theirsV, c.theirs, merged, c.serverId)

LEMMA ResolveEffect ==
    ASSUME NEW st \in Store, ShapeOK(st), NEW s, s.acct \in Account, s.pid \in ProfileId,
           NEW gen, SessionMeta(st, s, gen) # {}, NEW c \in Rows(st.conflicts, s),
           NEW merged, NEW id
    PROVE  LET new == ResolvedRow(st, s, gen, c, merged, id)
           IN  /\ ScopeBecomes(st, Resolve(st, s, gen, c, Pending(st, s), merged, id), s,
                               {new}, {})
               /\ FollowIn(st, s, {new}, {id})
<1> DEFINE new == ResolvedRow(st, s, gen, c, merged, id)
           st2 == Resolve(st, s, gen, c, Pending(st, s), merged, id)
           ids == {c.mid} \cup {x.id : x \in Pending(st, s)}
<1>1. ScopeShape(Rows(st.outbox, s), Rows(st.conflicts, s))
    BY ShapeOf
<1>2. Pending(st, s) = WaitingRows(st, s)
    BY <1>1, QueriesFindAll
<1>3. \A q \in Rows(st.outbox, s) : q.id \in ids
    <2>1. SUFFICES ASSUME NEW q \in Rows(st.outbox, s) PROVE q.id \in ids
        OBVIOUS
    <2>2. CASE Waiting(q)
        BY <1>2, <2>2 DEF WaitingRows
    <2>3. CASE ~Waiting(q)
        <3>1. PICK r \in Rows(st.outbox, s) : r.state = "conflict" /\ r.id = c.mid
            BY <1>1 DEF ScopeShape
        <3>2. q = r
            BY <1>1, <2>3, <3>1 DEF ScopeShape, Waiting
        <3>. QED
            BY <3>1, <3>2
    <2>. QED
        BY <2>2, <2>3
<1>4. st2.outbox = {q \in st.outbox : ~(InScope(q, s) /\ q.id \in ids)} \cup {new}
    BY DEF Resolve, ResolvedRow, Store
<1>5. st2.outbox = Outside(st.outbox, s) \cup {new}
    BY <1>3, <1>4 DEF Outside, Rows
<1>6. st2.conflicts = Outside(st.conflicts, s)
    <2>1. Rows(st.conflicts, s) = {c}
        BY <1>1 DEF ScopeShape
    <2>2. st2.conflicts = st.conflicts \ {c}
        BY DEF Resolve, Store
    <2>. QED
        BY <2>1, <2>2 DEF Outside, Rows
<1>7. /\ Waiting(new) /\ InScope(new, s) /\ new.id = id /\ new.baseV # None /\ ~new.terminal
    <2>1. MetaOf(st, s, gen) \in Metadata /\ InScope(MetaOf(st, s, gen), s)
        BY SessionMetaIsRow, MetaOfIsRow DEF SessionMeta, Rows
    <2>2. c.theirsV \in Nat
        BY DEF Rows, Store, Conflict
    <2>. QED
        BY <2>1, <2>2, NoneAssumption DEF ResolvedRow, NewMutation, Waiting, InScope
<1> HIDE DEF new, st2
<1>8. ScopeBecomes(st, st2, s, {new}, {}) /\ FollowIn(st, s, {new}, {id})
    BY <1>5, <1>6, <1>7, OnlyOneEffect
<1>. QED
    BY <1>8 DEF new, st2

\* A tab's save: the profile, then what it does to the active session's queue.
CommitsAs(st, saved, p, id, st2) ==
    /\ saved.local = p
    /\ saved.metas = st.metas /\ saved.outbox = st.outbox /\ saved.conflicts = st.conflicts
    /\ \/ /\ p = st.local \/ ActiveMeta(st) = {}
          /\ st2 = saved
       \/ \E m \in ActiveMeta(st) :
             /\ p # st.local
             /\ \/ Blocker(saved, m) = {} /\ p = m.base /\ st2 = BackToBase(saved, m)
                \/ st2 = Enqueue(saved, m, p, id)

LEMMA CommitProfileCases ==
    ASSUME NEW st \in Store, NEW p \in Profile, NEW id
    PROVE  \E saved \in Store : CommitsAs(st, saved, p, id, CommitProfile(st, p, id))
<1> DEFINE saved == [st EXCEPT !.local = p, !.rev = @ + 1, !.edits = @ \/ p # st.local]
<1>1. /\ saved \in Store /\ saved.local = p
      /\ saved.metas = st.metas /\ saved.outbox = st.outbox /\ saved.conflicts = st.conflicts
    <2>1. PICK e \in BOOLEAN : e = (st.edits \/ p # st.local)
        OBVIOUS
    <2>2. PICK n \in Nat : n = st.rev + 1
        BY DEF Store
    <2>3. saved = [st EXCEPT !.local = p, !.rev = st.rev + 1, !.edits = e]
        BY <2>1, Zenon DEF Store
    <2>. QED
        BY <2>2, <2>3 DEF Store
<1>2. CASE p = st.local \/ ActiveMeta(st) = {}
    <2>1. CommitProfile(st, p, id) = saved
        BY <1>2 DEF CommitProfile
    <2> HIDE DEF saved
    <2>. QED
        BY <1>1, <1>2, <2>1 DEF CommitsAs
<1>3. CASE ~(p = st.local \/ ActiveMeta(st) = {})
    <2> DEFINE m == CHOOSE x \in ActiveMeta(st) : TRUE
    <2>1. m \in ActiveMeta(st)
        BY <1>3
    <2>2. Blocker(saved, m) = Blocker(st, m)
        BY <1>1 DEF Blocker, Queued
    <2>3. CommitProfile(st, p, id) = IF Blocker(st, m) = {} /\ p = m.base
                                     THEN BackToBase(saved, m) ELSE Enqueue(saved, m, p, id)
        BY <1>3 DEF CommitProfile
    <2> HIDE DEF m, saved
    <2>. QED
        BY <1>1, <1>3, <2>1, <2>2, <2>3 DEF CommitsAs
<1>. QED
    BY <1>2, <1>3

-----------------------------------------------------------------------------
\* What a resolution read stays so until its transaction checks it: the
\* conflict it merges is kept, with what waits behind it, or is gone for good.
Reading(st, c) ==
    /\ InScope(c.conflict, c)
    /\ c.rev \in Nat /\ c.rev <= st.rev
    /\ c.conflict \in st.conflicts /\ c.rev = st.rev => c.successor = Pending(st, c)
    /\ c.conflict \notin st.conflicts => \A q \in st.outbox : q.id # c.conflict.mid

\* All that a transaction may do to the queues of a browser.
Steps(st, st2, fresh) ==
    /\ ShapeOK(st2) /\ Moves(st, st2, fresh)
    /\ \A c : Reading(st, c) /\ c.conflict.mid \notin fresh => Reading(st2, c)

\* What becomes of the scope's conflicts.
ConflictsOf(st, st2, s, rows, conflicts, fresh) ==
    \/ Rows(st.conflicts, s) = {}
    \/ conflicts = {} /\ \A r \in rows : r.id \in fresh
    \/ conflicts = Rows(st.conflicts, s) /\ st2.rev > st.rev

LEMMA ReadingStep ==
    ASSUME NEW st \in Store, ShapeOK(st), UniqueIds(st), NEW st2, st2.rev \in Nat, st2.rev >= st.rev,
           NEW s, NEW rows, NEW conflicts, ScopeBecomes(st, st2, s, rows, conflicts),
           NEW fresh, \A q \in st.outbox : q.id \notin fresh,
           FollowIn(st, s, rows, fresh), ConflictsOf(st, st2, s, rows, conflicts, fresh),
           NEW c, Reading(st, c), c.conflict.mid \notin fresh
    PROVE  Reading(st2, c)
<1> DEFINE x == c.conflict
<1>1. ShapeOK(st2) /\ Moves(st, st2, fresh)
    BY ScopeMoves
<1>2. ASSUME x \notin st.conflicts
      PROVE  x \notin st2.conflicts /\ \A q \in st2.outbox : q.id # x.mid
    <2>1. \A q \in st.outbox : q.id # x.mid
        BY <1>2 DEF Reading
    <2>2. \A q \in st2.outbox : q.id # x.mid
        BY <1>1, <2>1 DEF Moves, Follows, Becomes
    <2>3. x \notin st2.conflicts
        <3>1. SUFFICES ASSUME x \in st2.conflicts PROVE FALSE
            OBVIOUS
        <3>2. x \in conflicts
            BY <1>2, <3>1 DEF ScopeBecomes, Outside
        <3>3. \E q \in rows : q.id = x.mid
            BY <3>2 DEF ScopeBecomes, ScopeShape
        <3>. QED
            BY <2>2, <3>3 DEF ScopeBecomes
    <2>. QED
        BY <2>2, <2>3
<1>3. ASSUME x \in st.conflicts, ~InScope(x, s)
      PROVE  x \in st2.conflicts /\ Pending(st2, c) = Pending(st, c)
    <2>1. x \in st2.conflicts
        BY <1>3 DEF ScopeBecomes, Outside
    <2>2. ~InScope(c, s)
        BY <1>3 DEF Reading, InScope
    <2>3. Rows(st2.outbox, c) = Rows(st.outbox, c)
        BY <2>2 DEF ScopeBecomes, Outside, Rows, InScope
    <2>. QED
        BY <2>1, <2>3 DEF Pending, Queued
<1>4. ASSUME x \in st.conflicts, InScope(x, s)
      PROVE  \/ x \in st2.conflicts /\ st2.rev > st.rev
             \/ x \notin st2.conflicts /\ \A q \in st2.outbox : q.id # x.mid
    <2>1. x \in Rows(st.conflicts, s)
        BY <1>4 DEF Rows
    <2>2. CASE conflicts = Rows(st.conflicts, s) /\ st2.rev > st.rev
        BY <2>1, <2>2 DEF ScopeBecomes
    <2>3. CASE conflicts = {} /\ \A r \in rows : r.id \in fresh
        <3>1. x \notin st2.conflicts
            BY <1>4, <2>3 DEF ScopeBecomes, Outside
        <3>2. ScopeOf(x) \in Scope /\ \A table : Rows(table, ScopeOf(x)) = Rows(table, s)
            BY <1>4, RowsHaveScope DEF ScopeOf, Rows, InScope
        <3>3. PICK q \in Rows(st.outbox, s) : q.id = x.mid
            BY <2>1, <3>2 DEF ShapeOK, ScopeShape
        <3>4. \A r \in Outside(st.outbox, s) : r.id # x.mid
            BY <3>3 DEF UniqueIds, Outside, Rows
        <3>. QED
            BY <2>3, <3>1, <3>4 DEF ScopeBecomes
    <2>. QED
        BY <2>1, <2>2, <2>3 DEF ConflictsOf
<1>5. c.rev \in Nat /\ c.rev <= st.rev /\ InScope(x, c) /\ c.rev <= st2.rev
      /\ (st2.rev > st.rev => c.rev # st2.rev)
    <2>1. c.rev \in Nat /\ c.rev <= st.rev /\ InScope(x, c)
        BY DEF Reading
    <2>. QED
        BY <2>1 DEF Store
<1>6. CASE x \notin st.conflicts
    BY <1>2, <1>5, <1>6 DEF Reading
<1>7. CASE x \in st.conflicts /\ ~InScope(x, s)
    <2>1. x \in st2.conflicts /\ Pending(st2, c) = Pending(st, c)
        BY <1>3, <1>7
    <2>2. c.rev = st2.rev => c.rev = st.rev
        BY <1>5 DEF Store
    <2>. QED
        BY <1>5, <1>7, <2>1, <2>2 DEF Reading
<1>8. CASE x \in st.conflicts /\ InScope(x, s)
    BY <1>4, <1>5, <1>8 DEF Reading
<1>. QED
    BY <1>6, <1>7, <1>8

LEMMA ScopeSteps ==
    ASSUME NEW st \in Store, ShapeOK(st), UniqueIds(st), NEW st2, st2.rev \in Nat, st2.rev >= st.rev,
           NEW s, NEW rows, NEW conflicts, ScopeBecomes(st, st2, s, rows, conflicts),
           NEW fresh, \A q \in st.outbox : q.id \notin fresh,
           FollowIn(st, s, rows, fresh), ConflictsOf(st, st2, s, rows, conflicts, fresh)
    PROVE  Steps(st, st2, fresh)
BY ScopeMoves, ReadingStep DEF Steps

\* A transaction that leaves the queues alone.
LEMMA SameQueueSteps ==
    ASSUME NEW st \in Store, ShapeOK(st), UniqueIds(st), NEW st2, st2.rev \in Nat, st2.rev >= st.rev,
           st2.outbox = st.outbox, st2.conflicts = st.conflicts
    PROVE  Steps(st, st2, {})
<1>1. ShapeOK(st2) /\ Moves(st, st2, {})
    BY DEF ShapeOK, Moves, UniqueIds, Follows
<1>2. ASSUME NEW c, Reading(st, c)
      PROVE  Reading(st2, c)
    <2>1. Pending(st2, c) = Pending(st, c)
        BY DEF Pending, Queued
    <2>2. c.rev <= st2.rev /\ (c.rev = st2.rev => c.rev = st.rev)
        BY <1>2 DEF Reading, Store
    <2>. QED
        BY <1>2, <2>1, <2>2 DEF Reading
<1>. QED
    BY <1>1, <1>2 DEF Steps

\* Each transaction is such a step.
LEMMA CommitProfileSteps ==
    ASSUME NEW st \in Store, ShapeOK(st), UniqueIds(st), NEW p \in Profile, NEW id \in Nat,
           NEW fresh, p # st.local => fresh = {id}, p = st.local => fresh = {},
           \A q \in st.outbox : q.id \notin fresh
    PROVE  Steps(st, CommitProfile(st, p, id), fresh)
<1> DEFINE st2 == CommitProfile(st, p, id)
<1> SUFFICES Steps(st, st2, fresh)
    OBVIOUS
<1>0. PICK saved \in Store : CommitsAs(st, saved, p, id, CommitProfile(st, p, id))
    BY CommitProfileCases
<1>1. /\ saved.metas = st.metas /\ saved.outbox = st.outbox /\ saved.conflicts = st.conflicts
      /\ \/ /\ p = st.local \/ ActiveMeta(st) = {}
            /\ st2 = saved
         \/ \E m \in ActiveMeta(st) :
              /\ p # st.local
              /\ \/ Blocker(saved, m) = {} /\ st2 = BackToBase(saved, m)
                 \/ st2 = Enqueue(saved, m, p, id)
    BY <1>0 DEF CommitsAs
<1>2. ShapeOK(saved) /\ UniqueIds(saved)
    BY <1>1 DEF ShapeOK, UniqueIds
<1>3. st2.rev = st.rev + 1 /\ saved.rev \in Nat /\ st.rev \in Nat
    BY DEF CommitProfile, BackToBase, Enqueue, Store
<1> HIDE DEF st2
<1>4. CASE st2 = saved
    <2>1. Steps(st, st2, {})
        BY <1>1, <1>3, <1>4, SameQueueSteps
    <2>. QED
        BY <2>1 DEF Steps, Moves, Follows
<1>5. ASSUME NEW m \in ActiveMeta(st), p # st.local,
             Blocker(saved, m) = {} /\ st2 = BackToBase(saved, m)
      PROVE  Steps(st, st2, fresh)
    <2>1. /\ ScopeBecomes(saved, st2, m, {}, Rows(saved.conflicts, m))
          /\ FollowIn(saved, m, {}, fresh) /\ Rows(saved.conflicts, m) = {}
        BY <1>2, <1>5, BackToBaseEffect DEF ActiveMeta, Store
    <2>2. ScopeBecomes(st, st2, m, {}, Rows(st.conflicts, m)) /\ FollowIn(st, m, {}, fresh)
          /\ Rows(st.conflicts, m) = {}
        BY <1>1, <2>1 DEF ScopeBecomes, FollowIn
    <2>. QED
        BY <1>3, <2>2, ScopeSteps DEF ConflictsOf
<1>6. ASSUME NEW m \in ActiveMeta(st), p # st.local, st2 = Enqueue(saved, m, p, id)
      PROVE  Steps(st, st2, fresh)
    <2> DEFINE rows == EnqueueRows(saved, m, p, id)
    <2>1. /\ ScopeBecomes(saved, st2, m, rows, Rows(saved.conflicts, m))
          /\ FollowIn(saved, m, rows, {id})
        BY <1>1, <1>2, <1>6, EnqueueEffect DEF ActiveMeta, Store
    <2> HIDE DEF rows
    <2>2. ScopeBecomes(st, st2, m, rows, Rows(st.conflicts, m)) /\ FollowIn(st, m, rows, fresh)
        BY <1>1, <1>6, <2>1 DEF ScopeBecomes, FollowIn
    <2>. QED
        BY <1>3, <2>2, ScopeSteps DEF ConflictsOf
<1>. QED
    BY <1>1, <1>4, <1>5, <1>6

LEMMA ClaimDueSteps ==
    ASSUME NEW st \in Store, ShapeOK(st), UniqueIds(st),
           NEW s, s.acct \in Account, s.pid \in ProfileId, NEW gen, NEW q \in Claimable(st, s, gen)
    PROVE  /\ Steps(st, ClaimDue(st, q), {})
           /\ InFlight(q) \in ClaimDue(st, q).outbox
           /\ q.state = "in-flight" => InFlight(q) = q
<1> DEFINE st2 == ClaimDue(st, q)
<1>1. q \in Rows(st.outbox, s) /\ q \in Mutation /\ q.state \in {"pending", "in-flight"}
    BY ClaimedIsAlone DEF Rows, Store
<1>2. q.state = "in-flight" => InFlight(q) = q
    BY <1>1 DEF InFlight, Mutation
<1>3. CASE q.state = "in-flight"
    <2>1. st2 = st
        BY <1>3 DEF ClaimDue
    <2>2. st.rev \in Nat
        BY DEF Store
    <2>3. Steps(st, st, {})
        BY <2>2, SameQueueSteps
    <2>. QED
        BY <1>1, <1>2, <1>3, <2>1, <2>3 DEF Rows
<1>4. CASE q.state = "pending"
    <2>1. ScopeBecomes(st, st2, s, {InFlight(q)}, {}) /\ FollowIn(st, s, {InFlight(q)}, {})
        BY <1>4, ClaimDueEffect
    <2>2. Rows(st.conflicts, s) = {}
        BY <1>4, ClaimedIsAlone
    <2>3. st2.rev = st.rev /\ st.rev \in Nat
        BY DEF ClaimDue, Store
    <2> HIDE DEF st2
    <2>4. Steps(st, st2, {})
        BY <2>1, <2>2, <2>3, ScopeSteps DEF ConflictsOf
    <2>. QED
        BY <1>2, <2>1, <2>4 DEF ScopeBecomes, st2
<1>. QED
    BY <1>1, <1>3, <1>4

\* The transactions that settle a request.
LEMMA SettleSteps ==
    ASSUME NEW st \in Store, ShapeOK(st), UniqueIds(st),
           NEW s, s.acct \in Account, s.pid \in ProfileId,
           NEW gen, NEW mid, CanSettle(st, s, gen, mid)
    PROVE  /\ \A version \in Nat, profile \in Profile :
                  Steps(st, Acknowledge(st, s, gen, mid, version, profile), {})
           /\ \A version, profile, serverId :
                  Steps(st, RecordConflict(st, s, gen, mid, version, profile, serverId), {})
           /\ Steps(st, FreezeServerEmpty(st, s, gen, mid), {})
           /\ Steps(st, ScheduleRetry(st, s, gen), {})
<1>1. Rows(st.conflicts, s) = {} /\ st.rev \in Nat
    BY SettledIsAhead DEF Store
<1>2. \A st2, rows, conflicts :
          /\ ScopeBecomes(st, st2, s, rows, conflicts)
          /\ FollowIn(st, s, rows, {})
          /\ st2.rev = st.rev
          => Steps(st, st2, {})
    BY <1>1, ScopeSteps DEF ConflictsOf
<1>3. ASSUME NEW version \in Nat, NEW profile \in Profile
      PROVE  Steps(st, Acknowledge(st, s, gen, mid, version, profile), {})
    <2>1. Acknowledge(st, s, gen, mid, version, profile).rev = st.rev
        BY DEF Acknowledge, Store
    <2>. QED
        BY <1>2, <2>1, AcknowledgeEffect
<1>4. ASSUME NEW version, NEW profile, NEW serverId
      PROVE  Steps(st, RecordConflict(st, s, gen, mid, version, profile, serverId), {})
    <2>1. RecordConflict(st, s, gen, mid, version, profile, serverId).rev = st.rev
        BY DEF RecordConflict, Store
    <2>. QED
        BY <1>2, <2>1, RecordConflictEffect
<1>5. Steps(st, FreezeServerEmpty(st, s, gen, mid), {})
    <2>1. FreezeServerEmpty(st, s, gen, mid).rev = st.rev
        BY DEF FreezeServerEmpty, Store
    <2>. QED
        BY <1>2, <2>1, FreezeServerEmptyEffect
<1>6. Steps(st, ScheduleRetry(st, s, gen), {})
    <2>1. /\ ScheduleRetry(st, s, gen).rev = st.rev
          /\ ScheduleRetry(st, s, gen).outbox = st.outbox
          /\ ScheduleRetry(st, s, gen).conflicts = st.conflicts
        BY DEF ScheduleRetry, Store
    <2>. QED
        BY <1>1, <2>1, SameQueueSteps
<1>. QED
    BY <1>3, <1>4, <1>5, <1>6

\* The transactions that decide what becomes of the session's profile.
LEMMA DecisionSteps ==
    ASSUME NEW st \in Store, ShapeOK(st), UniqueIds(st),
           NEW s, s.acct \in Account, s.pid \in ProfileId,
           NEW gen, SessionMeta(st, s, gen) # {}
    PROVE  /\ \A version, profile : Steps(st, AcceptRemote(st, s, gen, version, profile), {})
           /\ \A id : (\A q \in st.outbox : q.id # id) =>
                  Steps(st, ForceEnqueue(st, s, gen, id), {id})
           /\ \A id, merged : \A c \in Rows(st.conflicts, s) : (\A q \in st.outbox : q.id # id) =>
                  Steps(st, Resolve(st, s, gen, c, Pending(st, s), merged, id), {id})
<1>1. st.rev \in Nat
    BY DEF Store
<1>2. ASSUME NEW version, NEW profile
      PROVE  Steps(st, AcceptRemote(st, s, gen, version, profile), {})
    <2>1. AcceptRemote(st, s, gen, version, profile).rev = st.rev + 1
        BY DEF AcceptRemote, Store
    <2>. QED
        BY <1>1, <2>1, AcceptRemoteEffect, ScopeSteps DEF ConflictsOf
<1>3. ASSUME NEW id, \A q \in st.outbox : q.id # id
      PROVE  Steps(st, ForceEnqueue(st, s, gen, id), {id})
    <2>1. ForceEnqueue(st, s, gen, id).rev = st.rev
        BY DEF ForceEnqueue, Store
    <2>2. ForcedRow(st, s, gen, id).id = id
        BY DEF ForcedRow, NewMutation
    <2> DEFINE st2 == ForceEnqueue(st, s, gen, id)
               new == ForcedRow(st, s, gen, id)
    <2>3. ScopeBecomes(st, st2, s, {new}, {}) /\ FollowIn(st, s, {new}, {id})
        BY ForceEnqueueEffect
    <2> SUFFICES Steps(st, st2, {id})
        OBVIOUS
    <2> HIDE DEF st2, new
    <2>4. ConflictsOf(st, st2, s, {new}, {}, {id})
        BY <2>2 DEF ConflictsOf, new
    <2>. QED
        BY <1>1, <1>3, <2>1, <2>3, <2>4, ScopeSteps DEF st2
<1>4. ASSUME NEW id, NEW merged, NEW c \in Rows(st.conflicts, s), \A q \in st.outbox : q.id # id
      PROVE  Steps(st, Resolve(st, s, gen, c, Pending(st, s), merged, id), {id})
    <2>1. Resolve(st, s, gen, c, Pending(st, s), merged, id).rev = st.rev + 1
        BY DEF Resolve, Store
    <2>2. ResolvedRow(st, s, gen, c, merged, id).id = id
        BY DEF ResolvedRow, NewMutation
    <2> DEFINE st2 == Resolve(st, s, gen, c, Pending(st, s), merged, id)
               new == ResolvedRow(st, s, gen, c, merged, id)
    <2>3. ScopeBecomes(st, st2, s, {new}, {}) /\ FollowIn(st, s, {new}, {id})
        BY ResolveEffect
    <2> SUFFICES Steps(st, st2, {id})
        OBVIOUS
    <2> HIDE DEF st2, new
    <2>4. ConflictsOf(st, st2, s, {new}, {}, {id})
        BY <2>2 DEF ConflictsOf, new
    <2>. QED
        BY <1>1, <1>4, <2>1, <2>3, <2>4, ScopeSteps DEF st2
<1>. QED
    BY <1>2, <1>3, <1>4

-----------------------------------------------------------------------------
\* What a browser believes: K holds the versions it may, <<account, version,
\* profile>>; G the sessions whose rows are held to it.
Trusted(K, G, x) == x.gen \in G /\ x.baseV \notin {None, 0} => <<x.acct, x.baseV, x.base>> \in K
Sighted(K, G, c) == c.gen \in G /\ c.theirsV # 0 => <<c.acct, c.theirsV, c.theirs>> \in K
Knows(K, G, st) ==
    /\ \A x \in st.metas \cup st.outbox : Trusted(K, G, x)
    /\ \A c \in st.conflicts : Sighted(K, G, c)

\* What is known of some version stays known when more becomes so.
LEMMA KnowsMore ==
    ASSUME NEW K, NEW L, K \subseteq L, NEW G, NEW st, Knows(K, G, st)
    PROVE  Knows(L, G, st)
BY DEF Knows, Trusted, Sighted

\* A transaction that takes over only known versions keeps a browser's beliefs.
LEMMA KnowsStep ==
    ASSUME NEW K, NEW G, NEW st, Knows(K, G, st), NEW st2,
           \A x \in st2.metas : x \in st.metas \/ Trusted(K, G, x),
           \A x \in st2.outbox : x \in st.outbox \/ Trusted(K, G, x),
           \A x \in st2.conflicts : x \in st.conflicts \/ Sighted(K, G, x)
    PROVE  Knows(K, G, st2)
BY DEF Knows

\* A row that differs in other fields is as trustworthy.
LEMMA TrustedLike ==
    ASSUME NEW K, NEW G, NEW x, Trusted(K, G, x),
           NEW y, y.gen = x.gen, y.baseV = x.baseV, y.base = x.base, y.acct = x.acct
    PROVE  Trusted(K, G, y)
BY DEF Trusted

LEMMA ActivateKnows ==
    ASSUME NEW K, NEW G, NEW st \in Store, Knows(K, G, st),
           NEW acct, NEW pid, NEW gen, NEW baseV, NEW base,
           gen \in G /\ baseV # 0 => <<acct, baseV, base>> \in K
    PROVE  Knows(K, G, ActivateAccount(st, acct, pid, gen, baseV, base))
<1> DEFINE old == {[m EXCEPT !.active = FALSE] : m \in st.metas}
           row == [acct |-> acct, pid |-> pid, active |-> TRUE, gen |-> gen,
                   baseV |-> baseV, base |-> base, status |-> "idle"]
           st2 == ActivateAccount(st, acct, pid, gen, baseV, base)
<1>1. \A m \in st.metas : Trusted(K, G, [m EXCEPT !.active = FALSE])
    BY DEF Knows, Trusted, Store, Metadata
<1>2. Trusted(K, G, row)
    BY DEF Trusted
<1>3. /\ st2.metas = PutMeta(old, row) /\ st2.outbox = st.outbox
      /\ st2.conflicts = st.conflicts
    BY DEF ActivateAccount, Store
<1> HIDE DEF row, st2
<1>. QED
    BY <1>1, <1>2, <1>3 DEF Knows, PutMeta, st2

LEMMA DeactivateKnows ==
    ASSUME NEW K, NEW G, NEW st \in Store, Knows(K, G, st), NEW s, NEW gen
    PROVE  Knows(K, G, DeactivateAccount(st, s, gen))
<1> DEFINE st2 == DeactivateAccount(st, s, gen)
           row(m) == IF InScope(m, s) /\ m.gen = gen THEN [m EXCEPT !.active = FALSE] ELSE m
<1>1. \A m \in st.metas : Trusted(K, G, row(m))
    BY DEF Knows, Trusted, Store, Metadata
<1>2. /\ st2.metas = {row(m) : m \in st.metas}
      /\ st2.outbox = st.outbox /\ st2.conflicts = st.conflicts
    BY DEF DeactivateAccount, Store
<1> HIDE DEF st2, row
<1>. QED
    BY <1>1, <1>2 DEF Knows, st2

LEMMA EnqueueKnows ==
    ASSUME NEW K, NEW G, NEW st \in Store, Knows(K, G, st), NEW m \in st.metas, NEW p, NEW id
    PROVE  Knows(K, G, Enqueue(st, m, p, id)) /\ Knows(K, G, BackToBase(st, m))
<1>1. Trusted(K, G, m) /\ m \in Metadata
    BY DEF Knows, Store
<1>2. \A status : Trusted(K, G, [m EXCEPT !.status = status])
    BY <1>1 DEF Trusted, Metadata
<1> DEFINE blocked == Blocker(st, m) # {}
           new == NewMutation(id, m, IF blocked THEN None ELSE m.baseV,
                              IF blocked THEN None ELSE m.base, p, None)
<1>3. Trusted(K, G, new)
    BY <1>1 DEF Trusted, NewMutation
<1>4. Knows(K, G, Enqueue(st, m, p, id))
    <2>1. /\ Enqueue(st, m, p, id).outbox \subseteq st.outbox \cup {new}
          /\ Enqueue(st, m, p, id).conflicts = st.conflicts
          /\ Enqueue(st, m, p, id).metas \subseteq st.metas \cup {[m EXCEPT !.status = "dirty"]}
        BY DEF Enqueue, Store, PutMeta
    <2> HIDE DEF new
    <2>. QED
        BY <1>2, <1>3, <2>1, KnowsStep
<1>5. Knows(K, G, BackToBase(st, m))
    <2>1. /\ BackToBase(st, m).outbox \subseteq st.outbox
          /\ BackToBase(st, m).conflicts = st.conflicts
          /\ BackToBase(st, m).metas \subseteq st.metas \cup {[m EXCEPT !.status = "idle"]}
        BY DEF BackToBase, Store, PutMeta
    <2>. QED
        BY <1>2, <2>1, KnowsStep
<1>. QED
    BY <1>4, <1>5

LEMMA ClaimDueKnows ==
    ASSUME NEW K, NEW G, NEW st \in Store, Knows(K, G, st), NEW q \in st.outbox
    PROVE  Knows(K, G, ClaimDue(st, q)) /\ Trusted(K, G, InFlight(q))
<1> DEFINE row(m) == IF InScope(m, q) THEN [m EXCEPT !.status = "syncing"] ELSE m
<1>1. Trusted(K, G, InFlight(q))
    BY DEF InFlight, Knows, Trusted, Store, Mutation
<1>2. \A m \in st.metas : Trusted(K, G, row(m))
    BY DEF Knows, Trusted, Store, Metadata
<1>3. CASE q.state = "in-flight"
    BY <1>1, <1>3 DEF ClaimDue
<1>4. CASE q.state # "in-flight"
    <2>1. /\ ClaimDue(st, q).outbox \subseteq st.outbox \cup {InFlight(q)}
          /\ ClaimDue(st, q).conflicts = st.conflicts
          /\ ClaimDue(st, q).metas = {row(m) : m \in st.metas}
        BY <1>4 DEF ClaimDue, Store
    <2> HIDE DEF row
    <2>. QED
        BY <1>1, <1>2, <2>1, KnowsStep
<1>. QED
    BY <1>1, <1>3, <1>4

\* The session's row in the table, with another status.
LEMMA SetStatusKnows ==
    ASSUME NEW K, NEW G, NEW st \in Store, Knows(K, G, st),
           NEW s, NEW gen, SessionMeta(st, s, gen) # {}, NEW status
    PROVE  \A x \in SetStatus(st, s, gen, status) : x \in st.metas \/ Trusted(K, G, x)
<1> DEFINE m == MetaOf(st, s, gen)
<1>1. m \in Metadata /\ m \in st.metas
    BY SessionMetaIsRow
<1>2. Trusted(K, G, [m EXCEPT !.status = status])
    BY <1>1 DEF Knows, Trusted, Metadata
<1>. QED
    BY <1>2 DEF SetStatus, PutMeta

LEMMA ScheduleRetryKnows ==
    ASSUME NEW K, NEW G, NEW st \in Store, Knows(K, G, st),
           NEW s, NEW gen, SessionMeta(st, s, gen) # {}
    PROVE  Knows(K, G, ScheduleRetry(st, s, gen))
<1>1. /\ ScheduleRetry(st, s, gen).metas = SetStatus(st, s, gen, "error")
      /\ ScheduleRetry(st, s, gen).outbox = st.outbox
      /\ ScheduleRetry(st, s, gen).conflicts = st.conflicts
    BY DEF ScheduleRetry, Store
<1>. QED
    BY <1>1, SetStatusKnows, KnowsStep

\* The session's row, rebased onto a known version.
LEMMA RebasedMetaKnows ==
    ASSUME NEW K, NEW G, NEW st \in Store, NEW s, NEW gen, SessionMeta(st, s, gen) # {},
           NEW row, row.gen = MetaOf(st, s, gen).gen, row.acct = MetaOf(st, s, gen).acct,
           gen \in G /\ row.baseV # 0 => <<s.acct, row.baseV, row.base>> \in K
    PROVE  Trusted(K, G, row)
BY MetaOfIsRow DEF Trusted, SessionMeta, Rows, InScope

LEMMA AcknowledgeKnows ==
    ASSUME NEW K, NEW G, NEW st \in Store, Knows(K, G, st),
           NEW s, NEW gen, NEW mid, CanAcknowledge(st, s, gen, mid),
           NEW version, NEW profile, gen \in G => <<s.acct, version, profile>> \in K
    PROVE  Knows(K, G, Acknowledge(st, s, gen, mid, version, profile))
<1> DEFINE waiting == Pending(st, s)
           row == [MetaOf(st, s, gen) EXCEPT !.baseV = version, !.base = profile,
                       !.status = IF waiting = {} THEN "idle" ELSE "dirty"]
           st2 == Acknowledge(st, s, gen, mid, version, profile)
<1>0. SessionMeta(st, s, gen) # {} /\ MetaOf(st, s, gen) \in Metadata
    BY SessionMetaIsRow DEF CanAcknowledge, CanSettle
<1>1. Trusted(K, G, row)
    <2>1. /\ row.gen = MetaOf(st, s, gen).gen /\ row.acct = MetaOf(st, s, gen).acct
          /\ row.baseV = version /\ row.base = profile
        BY <1>0 DEF Metadata
    <2> HIDE DEF row
    <2>. QED
        BY <1>0, <2>1, RebasedMetaKnows
<1>2. \A q \in waiting : Trusted(K, G, [q EXCEPT !.baseV = version, !.base = profile])
    <2>1. \A q \in waiting : q \in Mutation /\ q.gen = gen /\ q.acct = s.acct
        BY QueriesAreRows DEF CanAcknowledge, Queued, Rows, InScope, Store
    <2>. QED
        BY <2>1 DEF Trusted, Mutation
<1>3. /\ st2.outbox \subseteq st.outbox \cup
             {[q EXCEPT !.baseV = version, !.base = profile] : q \in waiting}
      /\ st2.conflicts = st.conflicts
      /\ st2.metas \subseteq st.metas \cup {row}
    BY DEF Acknowledge, Store, PutMeta
<1> HIDE DEF row, st2, waiting
<1>4. Knows(K, G, st2)
    <2>1. \A x \in st2.outbox : x \in st.outbox \/ Trusted(K, G, x)
        BY <1>2, <1>3
    <2>2. \A x \in st2.metas : x \in st.metas \/ Trusted(K, G, x)
        BY <1>1, <1>3
    <2>. QED
        BY <1>3, <2>1, <2>2, KnowsStep
<1>. QED
    BY <1>4 DEF st2

LEMMA RecordConflictKnows ==
    ASSUME NEW K, NEW G, NEW st \in Store, Knows(K, G, st),
           NEW s, NEW gen, NEW mid, CanSettle(st, s, gen, mid),
           NEW version, NEW profile, gen \in G => <<s.acct, version, profile>> \in K,
           NEW serverId
    PROVE  Knows(K, G, RecordConflict(st, s, gen, mid, version, profile, serverId))
<1> DEFINE q == Settled(st, s, mid)
           stopped == StoppedRow(st, s, mid)
           c == ConflictOf(st, s, gen, mid, version, profile, serverId)
           st2 == RecordConflict(st, s, gen, mid, version, profile, serverId)
<1>0. SessionMeta(st, s, gen) # {}
    BY DEF CanSettle
<1>1. Trusted(K, G, stopped)
    <2>1. q \in st.outbox /\ q \in Mutation
        BY SettledIsRow DEF Queued, Rows, Store
    <2>. QED
        BY <2>1 DEF Knows, Trusted, StoppedRow, Mutation
<1>2. Sighted(K, G, c)
    BY DEF Sighted, ConflictOf
<1>3. /\ st2.outbox \subseteq st.outbox \cup {stopped}
      /\ st2.conflicts = st.conflicts \cup {c}
      /\ st2.metas = SetStatus(st, s, gen, "conflict")
    BY DEF RecordConflict, StoppedRow, ConflictOf, Store
<1>4. \A x \in st2.metas : x \in st.metas \/ Trusted(K, G, x)
    BY <1>0, <1>3, SetStatusKnows
<1> HIDE DEF st2, stopped, c
<1>5. Knows(K, G, st2)
    BY <1>1, <1>2, <1>3, <1>4, KnowsStep
<1>. QED
    BY <1>5 DEF st2

LEMMA FreezeServerEmptyKnows ==
    ASSUME NEW K, NEW G, NEW st \in Store, Knows(K, G, st),
           NEW s, NEW gen, NEW mid, CanSettle(st, s, gen, mid)
    PROVE  Knows(K, G, FreezeServerEmpty(st, s, gen, mid))
<1> DEFINE q == Settled(st, s, mid)
           frozen == FrozenRow(st, s, mid)
           st2 == FreezeServerEmpty(st, s, gen, mid)
<1>0. SessionMeta(st, s, gen) # {}
    BY DEF CanSettle
<1>1. Trusted(K, G, frozen)
    <2>1. q \in st.outbox /\ q \in Mutation
        BY SettledIsRow DEF Queued, Rows, Store
    <2>. QED
        BY <2>1 DEF Knows, Trusted, FrozenRow, Mutation
<1>2. /\ st2.outbox \subseteq st.outbox \cup {frozen}
      /\ st2.conflicts = st.conflicts
      /\ st2.metas = SetStatus(st, s, gen, "conflict")
    BY DEF FreezeServerEmpty, FrozenRow, Store
<1>3. \A x \in st2.metas : x \in st.metas \/ Trusted(K, G, x)
    BY <1>0, <1>2, SetStatusKnows
<1> HIDE DEF st2, frozen
<1>4. Knows(K, G, st2)
    BY <1>1, <1>2, <1>3, KnowsStep
<1>. QED
    BY <1>4 DEF st2

LEMMA AcceptRemoteKnows ==
    ASSUME NEW K, NEW G, NEW st \in Store, Knows(K, G, st),
           NEW s, NEW gen, SessionMeta(st, s, gen) # {},
           NEW version, NEW profile, gen \in G => <<s.acct, version, profile>> \in K
    PROVE  Knows(K, G, AcceptRemote(st, s, gen, version, profile))
<1> DEFINE row == [MetaOf(st, s, gen) EXCEPT !.pid = profile.pid, !.baseV = version,
                       !.base = profile, !.status = "idle"]
           st2 == AcceptRemote(st, s, gen, version, profile)
<1>1. Trusted(K, G, row)
    <2>1. MetaOf(st, s, gen) \in Metadata
        BY SessionMetaIsRow
    <2>2. /\ row.gen = MetaOf(st, s, gen).gen /\ row.acct = MetaOf(st, s, gen).acct
          /\ row.baseV = version /\ row.base = profile
        BY <2>1 DEF Metadata
    <2> HIDE DEF row
    <2>. QED
        BY <2>2, RebasedMetaKnows
<1>2. /\ st2.outbox = st.outbox \ Rows(st.outbox, s)
      /\ st2.conflicts = st.conflicts \ Rows(st.conflicts, s)
      /\ st2.metas = PutMeta(st.metas \ Rows(st.metas, s), row)
    BY DEF AcceptRemote, Store
<1>3. /\ st2.outbox \subseteq st.outbox /\ st2.conflicts \subseteq st.conflicts
      /\ st2.metas \subseteq st.metas \cup {row}
    BY <1>2 DEF PutMeta
<1> HIDE DEF st2, row
<1>4. Knows(K, G, st2)
    BY <1>1, <1>3, KnowsStep
<1>. QED
    BY <1>4 DEF st2

LEMMA ForceEnqueueKnows ==
    ASSUME NEW K, NEW G, NEW st \in Store, Knows(K, G, st),
           NEW s, NEW gen, SessionMeta(st, s, gen) # {}, NEW id
    PROVE  Knows(K, G, ForceEnqueue(st, s, gen, id))
<1> DEFINE m == MetaOf(st, s, gen)
           new == NewMutation(id, m, m.baseV, m.base, st.local, None)
           row == [m EXCEPT !.status = "dirty"]
           st2 == ForceEnqueue(st, s, gen, id)
<1>1. m \in Metadata /\ Trusted(K, G, m)
    BY SessionMetaIsRow DEF Knows
<1>2. Trusted(K, G, new) /\ Trusted(K, G, row)
    BY <1>1 DEF Trusted, NewMutation, Metadata
<1>3. /\ st2.outbox \subseteq st.outbox \cup {new}
      /\ st2.conflicts \subseteq st.conflicts
      /\ st2.metas \subseteq st.metas \cup {row}
    BY DEF ForceEnqueue, Store, PutMeta
<1> HIDE DEF st2, row, new
<1>4. Knows(K, G, st2)
    BY <1>2, <1>3, KnowsStep
<1>. QED
    BY <1>4 DEF st2

LEMMA ResolveKnows ==
    ASSUME NEW K, NEW G, NEW st \in Store, Knows(K, G, st),
           NEW s, NEW gen, SessionMeta(st, s, gen) # {},
           NEW c \in Rows(st.conflicts, s), c.gen = gen,
           NEW successor, NEW merged, NEW id
    PROVE  Knows(K, G, Resolve(st, s, gen, c, successor, merged, id))
<1> DEFINE m == MetaOf(st, s, gen)
           new == NewMutation(id, m, c.theirsV, c.theirs, merged, c.serverId)
           row == [m EXCEPT !.baseV = c.theirsV, !.base = c.theirs, !.status = "dirty"]
           st2 == Resolve(st, s, gen, c, successor, merged, id)
<1>1. /\ Sighted(K, G, c) /\ c.acct = s.acct
      /\ m \in Metadata /\ m.acct = s.acct /\ m.gen = gen
    BY SessionMetaIsRow, MetaOfIsRow DEF Knows, Rows, InScope, SessionMeta
<1>2. Trusted(K, G, new)
    BY <1>1 DEF Trusted, Sighted, NewMutation
<1>3. Trusted(K, G, row)
    <2>1. row.gen = gen /\ row.acct = s.acct /\ row.baseV = c.theirsV /\ row.base = c.theirs
        BY <1>1 DEF Metadata
    <2> HIDE DEF row, m
    <2>. QED
        BY <1>1, <2>1 DEF Trusted, Sighted
<1>4. /\ st2.outbox \subseteq st.outbox \cup {new}
      /\ st2.conflicts \subseteq st.conflicts
      /\ st2.metas \subseteq st.metas \cup {row}
    BY DEF Resolve, Store, PutMeta
<1> HIDE DEF st2, row, new
<1>5. Knows(K, G, st2)
    BY <1>2, <1>3, <1>4, KnowsStep
<1>. QED
    BY <1>5 DEF st2

LEMMA CommitProfileKnows ==
    ASSUME NEW K, NEW G, NEW st \in Store, Knows(K, G, st), NEW p \in Profile, NEW id
    PROVE  Knows(K, G, CommitProfile(st, p, id))
<1>0. PICK saved \in Store : CommitsAs(st, saved, p, id, CommitProfile(st, p, id))
    BY CommitProfileCases
<1>1. /\ saved.metas = st.metas /\ saved.outbox = st.outbox
      /\ saved.conflicts = st.conflicts
      /\ \/ CommitProfile(st, p, id) = saved
         \/ \E m \in ActiveMeta(st) :
              \/ CommitProfile(st, p, id) = BackToBase(saved, m)
              \/ CommitProfile(st, p, id) = Enqueue(saved, m, p, id)
    BY <1>0 DEF CommitsAs
<1>2. Knows(K, G, saved)
    BY <1>1 DEF Knows
<1>. QED
    BY <1>1, <1>2, EnqueueKnows DEF ActiveMeta

-----------------------------------------------------------------------------
\* What a session's queue holds.  One session is active; its mutations are in
\* its own scope; an idle one has none.
NewestRows(st, s) == IF WaitingRows(st, s) # {} THEN WaitingRows(st, s) ELSE AheadRows(st, s)

SessionOK(st) ==
    /\ \A m, n \in ActiveMeta(st) : m = n
    /\ \A m \in ActiveMeta(st) : \A q \in st.outbox :
           q.gen = m.gen => InScope(q, m) /\ m.status # "idle"

\* The newest mutation carries the local profile, or there is nothing to send;
\* an idle session's base is the local profile.
Working(st, m) ==
    /\ \/ \E q \in NewestRows(st, m) : q.content = st.local
       \/ st.local = m.base /\ \A q \in st.outbox : q.gen # m.gen
    /\ m.status = "idle" => st.local = m.base

\* The session that is active afterwards was before, and works on if it did.
GoesOn(st, st2) ==
    \A m2 \in ActiveMeta(st2) : \E m \in ActiveMeta(st) :
        m.acct = m2.acct /\ m.gen = m2.gen /\ (Working(st, m) => Working(st2, m2))

\* In a queue of the right shape, that newest mutation is what the queries see.
LEMMA NewestIsSeen ==
    ASSUME NEW st \in Store, ShapeOK(st), NEW s, s.acct \in Account, s.pid \in ProfileId
    PROVE  NewestRows(st, s) = IF Pending(st, s) # {} THEN Pending(st, s) ELSE Blocker(st, s)
BY ShapeOf, QueriesFindAll DEF NewestRows

\* The active row written back, with other values.
LEMMA ActivePut ==
    ASSUME NEW st, NEW m \in ActiveMeta(st), \A n \in ActiveMeta(st) : n = m,
           NEW st2, NEW row, InScope(row, m), row.active,
           st2.metas = PutMeta(st.metas, row)
    PROVE  ActiveMeta(st2) = {row}
BY DEF ActiveMeta, PutMeta, InScope

\* A transaction on the active session's own scope, or on another's.
LEMMA SessionScope ==
    ASSUME NEW st \in Store, SessionOK(st), NEW m \in ActiveMeta(st),
           NEW s, InScope(m, s), NEW rows, NEW conflicts, NEW st2,
           ScopeBecomes(st, st2, s, rows, conflicts),
           NEW row, ActiveMeta(st2) = {row}, row.gen = m.gen, InScope(row, s),
           row.status = "idle" => \A q \in rows : q.gen # m.gen
    PROVE  /\ SessionOK(st2)
           /\ Rows(st2.outbox, row) = rows
           /\ \A q \in st2.outbox : q.gen = row.gen => q \in rows
<1>1. \A q \in st2.outbox : q.gen = row.gen => q \in rows
    BY DEF SessionOK, ScopeBecomes, Outside, InScope
<1>2. \A q \in rows : InScope(q, row)
    BY DEF ScopeBecomes, InScope
<1>3. Rows(st2.outbox, row) = rows
    BY <1>2 DEF ScopeBecomes, Outside, Rows, InScope
<1>. QED
    BY <1>1, <1>2, <1>3 DEF SessionOK

\* The newest mutation, when the scope's rows are known.
LEMMA NewestOf ==
    ASSUME NEW st, NEW s, NEW rows, Rows(st.outbox, s) = rows
    PROVE  NewestRows(st, s) = IF \E q \in rows : Waiting(q) THEN {q \in rows : Waiting(q)}
                               ELSE {q \in rows : ~Waiting(q)}
BY DEF NewestRows, WaitingRows, AheadRows

\* Only the local profile is saved: nothing else may differ.
LEMMA SameSession ==
    ASSUME NEW st, NEW st2, SessionOK(st), st2.metas = st.metas, st2.outbox = st.outbox,
           st2.local = st.local
    PROVE  SessionOK(st2) /\ GoesOn(st, st2)
<1>1. \A m : Working(st, m) => Working(st2, m)
    BY DEF Working, NewestRows, WaitingRows, AheadRows
<1>. QED
    BY <1>1 DEF SessionOK, GoesOn, ActiveMeta

LEMMA EnqueueSession ==
    ASSUME NEW st \in Store, ShapeOK(st), SessionOK(st), NEW m \in ActiveMeta(st),
           NEW p \in Profile, st.local = p, NEW id \in Nat, \A q \in st.outbox : q.id # id
    PROVE  LET st2 == Enqueue(st, m, p, id)
           IN  SessionOK(st2) /\ \A m2 \in ActiveMeta(st2) :
                                    m2.acct = m.acct /\ m2.gen = m.gen /\ Working(st2, m2)
<1> DEFINE st2 == Enqueue(st, m, p, id)
           row == [m EXCEPT !.status = "dirty"]
           rows == EnqueueRows(st, m, p, id)
           new == EnqueueRow(st, m, p, id)
<1>1. m \in Metadata /\ m.active
    BY DEF ActiveMeta, Store
<1>2. /\ row.acct = m.acct /\ row.pid = m.pid /\ row.gen = m.gen /\ row.active
      /\ row.status = "dirty"
    BY <1>1 DEF Metadata
<1>3. st2.metas = PutMeta(st.metas, row) /\ st2.local = st.local
    BY DEF Enqueue, Store
<1>4. ScopeBecomes(st, st2, m, rows, Rows(st.conflicts, m))
    BY <1>1, EnqueueEffect
<1>5. new \in rows /\ Waiting(new) /\ new.content = p
    BY DEF EnqueueRows, EnqueueRow, NewMutation, Waiting
<1> HIDE DEF st2, row, rows, new
<1>6. ActiveMeta(st2) = {row}
    BY <1>2, <1>3, ActivePut DEF SessionOK, InScope
<1>7. SessionOK(st2) /\ Rows(st2.outbox, row) = rows
    BY <1>2, <1>4, <1>6, SessionScope DEF InScope
<1>8. \A q \in rows : Waiting(q) => q = new
    BY <1>5 DEF rows, EnqueueRows, AheadRows, new
<1>9. NewestRows(st2, row) = {new}
    BY <1>5, <1>7, <1>8, NewestOf
<1>10. Working(st2, row)
    BY <1>2, <1>3, <1>5, <1>9 DEF Working
<1>11. SessionOK(st2) /\ \A m2 \in ActiveMeta(st2) :
            m2.acct = m.acct /\ m2.gen = m.gen /\ Working(st2, m2)
    BY <1>2, <1>6, <1>7, <1>10
<1>. QED
    BY <1>11 DEF st2

LEMMA BackToBaseSession ==
    ASSUME NEW st \in Store, ShapeOK(st), SessionOK(st), NEW m \in ActiveMeta(st),
           Blocker(st, m) = {}, st.local = m.base
    PROVE  LET st2 == BackToBase(st, m)
           IN  SessionOK(st2) /\ \A m2 \in ActiveMeta(st2) :
                                    m2.acct = m.acct /\ m2.gen = m.gen /\ Working(st2, m2)
<1> DEFINE st2 == BackToBase(st, m)
           row == [m EXCEPT !.status = "idle"]
<1>1. m \in Metadata /\ m.active
    BY DEF ActiveMeta, Store
<1>2. /\ row.acct = m.acct /\ row.pid = m.pid /\ row.gen = m.gen /\ row.active
      /\ row.base = m.base
    BY <1>1 DEF Metadata
<1>3. st2.metas = PutMeta(st.metas, row) /\ st2.local = st.local
    BY DEF BackToBase, Store
<1>4. ScopeBecomes(st, st2, m, {}, Rows(st.conflicts, m))
    BY <1>1, BackToBaseEffect
<1> HIDE DEF st2, row
<1>5. ActiveMeta(st2) = {row}
    BY <1>2, <1>3, ActivePut DEF SessionOK, InScope
<1>6. SessionOK(st2) /\ \A q \in st2.outbox : q.gen # row.gen
    BY <1>2, <1>4, <1>5, SessionScope DEF InScope
<1>7. Working(st2, row)
    BY <1>2, <1>3, <1>6 DEF Working
<1>8. SessionOK(st2) /\ \A m2 \in ActiveMeta(st2) :
            m2.acct = m.acct /\ m2.gen = m.gen /\ Working(st2, m2)
    BY <1>2, <1>5, <1>6, <1>7
<1>. QED
    BY <1>8 DEF st2

LEMMA CommitProfileSession ==
    ASSUME NEW st \in Store, ShapeOK(st), SessionOK(st), NEW p \in Profile,
           NEW id \in Nat, p # st.local => \A q \in st.outbox : q.id # id
    PROVE  SessionOK(CommitProfile(st, p, id)) /\ GoesOn(st, CommitProfile(st, p, id))
<1> DEFINE st2 == CommitProfile(st, p, id)
<1> SUFFICES SessionOK(st2) /\ GoesOn(st, st2)
    OBVIOUS
<1>0. PICK saved \in Store : CommitsAs(st, saved, p, id, CommitProfile(st, p, id))
    BY CommitProfileCases
<1>1. /\ saved.local = p
      /\ saved.metas = st.metas /\ saved.outbox = st.outbox
      /\ saved.conflicts = st.conflicts
      /\ \/ /\ p = st.local \/ ActiveMeta(st) = {}
            /\ st2 = saved
         \/ \E m \in ActiveMeta(st) :
              /\ p # st.local
              /\ \/ /\ Blocker(saved, m) = {} /\ p = m.base
                    /\ st2 = BackToBase(saved, m)
                 \/ st2 = Enqueue(saved, m, p, id)
    BY <1>0 DEF CommitsAs
<1> HIDE DEF st2
<1>2. ShapeOK(saved) /\ SessionOK(saved) /\ ActiveMeta(saved) = ActiveMeta(st)
    BY <1>1 DEF ShapeOK, SessionOK, ActiveMeta
<1>3. CASE p = st.local /\ st2 = saved
    BY <1>1, <1>3, SameSession
<1>4. CASE ActiveMeta(st) = {} /\ st2 = saved
    BY <1>2, <1>4 DEF SessionOK, GoesOn
<1>5. CASE ~((p = st.local \/ ActiveMeta(st) = {}) /\ st2 = saved)
    <2>1. PICK m \in ActiveMeta(st) :
              /\ p # st.local
              /\ \/ Blocker(saved, m) = {} /\ p = m.base /\ st2 = BackToBase(saved, m)
                 \/ st2 = Enqueue(saved, m, p, id)
        BY <1>1, <1>5
    <2>2. SessionOK(st2) /\ \A m2 \in ActiveMeta(st2) :
              m2.acct = m.acct /\ m2.gen = m.gen /\ Working(st2, m2)
        BY <1>1, <1>2, <2>1, EnqueueSession, BackToBaseSession
    <2>. QED
        BY <2>1, <2>2 DEF GoesOn
<1>. QED
    BY <1>3, <1>4, <1>5

LEMMA SessionMetaIsActive ==
    ASSUME NEW st \in Store, NEW s, NEW gen, SessionMeta(st, s, gen) # {}
    PROVE  LET m == MetaOf(st, s, gen)
           IN  m \in ActiveMeta(st) /\ m \in Metadata /\ InScope(m, s) /\ m.gen = gen
BY MetaOfIsRow, SessionMetaIsRow DEF SessionMeta, Rows, ActiveMeta

\* The session's row with another status stays the active one.
LEMMA StatusIsSet ==
    ASSUME NEW st \in Store, SessionOK(st), NEW s, NEW gen, SessionMeta(st, s, gen) # {},
           NEW status, NEW st2, st2.metas = SetStatus(st, s, gen, status)
    PROVE  \E row : /\ ActiveMeta(st2) = {row}
                    /\ row.acct = MetaOf(st, s, gen).acct /\ row.pid = MetaOf(st, s, gen).pid
                    /\ row.gen = gen /\ row.status = status /\ InScope(row, s)
                    /\ row.base = MetaOf(st, s, gen).base
<1> DEFINE m == MetaOf(st, s, gen)
           row == [m EXCEPT !.status = status]
<1>1. m \in ActiveMeta(st) /\ m \in Metadata /\ InScope(m, s) /\ m.gen = gen
    BY SessionMetaIsActive
<1>2. /\ row.acct = m.acct /\ row.pid = m.pid /\ row.gen = gen /\ row.status = status
      /\ row.base = m.base /\ row.active /\ InScope(row, s)
    BY <1>1 DEF Metadata, InScope, ActiveMeta
<1>3. st2.metas = PutMeta(st.metas, row)
    BY DEF SetStatus
<1> HIDE DEF row, m
<1>4. ActiveMeta(st2) = {row}
    BY <1>1, <1>2, <1>3, ActivePut DEF SessionOK, InScope
<1>. QED
    BY <1>2, <1>4 DEF m

LEMMA ClaimDueSession ==
    ASSUME NEW st \in Store, ShapeOK(st), SessionOK(st), NEW m \in ActiveMeta(st),
           NEW q \in Claimable(st, m, m.gen)
    PROVE  SessionOK(ClaimDue(st, q)) /\ GoesOn(st, ClaimDue(st, q))
<1> DEFINE st2 == ClaimDue(st, q)
           row == [m EXCEPT !.status = "syncing"]
           new == InFlight(q)
<1> SUFFICES SessionOK(st2) /\ GoesOn(st, st2)
    OBVIOUS
<1>1. m \in Metadata /\ m.active
    BY DEF ActiveMeta, Store
<1>2. CASE q.state = "in-flight"
    <2>1. st2 = st
        BY <1>2 DEF ClaimDue
    <2>. QED
        BY <2>1 DEF GoesOn
<1>3. CASE q.state # "in-flight"
    <2>1. /\ q.state = "pending" /\ q \in Rows(st.outbox, m) /\ q \in Mutation /\ q.gen = m.gen
          /\ Rows(st.outbox, m) = {q}
        BY <1>1, <1>3, ClaimedIsAlone DEF Metadata, Rows, Store
    <2>2. ScopeBecomes(st, st2, m, {new}, {})
        BY <1>1, <2>1, ClaimDueEffect DEF Metadata
    <2>3. /\ st2.metas = {IF InScope(n, q) THEN [n EXCEPT !.status = "syncing"] ELSE n : n \in st.metas}
          /\ st2.local = st.local
        BY <1>3 DEF ClaimDue, Store
    <2>4. /\ row.acct = m.acct /\ row.pid = m.pid /\ row.gen = m.gen /\ row.active
          /\ row.status = "syncing" /\ row.base = m.base
        BY <1>1 DEF Metadata
    <2>5. ActiveMeta(st2) = {row}
        <3>1. InScope(m, q)
            BY <2>1 DEF Rows, InScope
        <3>2. \A n \in st.metas : [n EXCEPT !.status = "syncing"].active = n.active
            BY DEF Store, Metadata
        <3>3. row \in ActiveMeta(st2)
            BY <2>3, <2>4, <3>1 DEF ActiveMeta
        <3>4. \A x \in ActiveMeta(st2) : x = row
            <4>1. SUFFICES ASSUME NEW x \in ActiveMeta(st2) PROVE x = row
                OBVIOUS
            <4>2. PICK n \in st.metas :
                      x = IF InScope(n, q) THEN [n EXCEPT !.status = "syncing"] ELSE n
                BY <2>3 DEF ActiveMeta
            <4>3. n.active
                BY <3>2, <4>2 DEF ActiveMeta
            <4>4. n = m
                BY <4>3 DEF SessionOK, ActiveMeta
            <4>. QED
                BY <3>1, <4>2, <4>4
        <3>. QED
            BY <3>3, <3>4
    <2>6. ~Waiting(new) /\ new.content = q.content
        BY <2>1 DEF InFlight, Waiting, Mutation
    <2> HIDE DEF st2, row, new
    <2>7. SessionOK(st2) /\ Rows(st2.outbox, row) = {new}
        BY <2>2, <2>4, <2>5, SessionScope DEF InScope
    <2>8. NewestRows(st2, row) = {new}
        BY <2>6, <2>7, NewestOf
    <2>9. Working(st, m) => Working(st2, row)
        <3>1. SUFFICES ASSUME Working(st, m) PROVE Working(st2, row)
            OBVIOUS
        <3>2. PICK x \in NewestRows(st, m) : x.content = st.local
            BY <2>1, <3>1 DEF Working, Rows
        <3>3. x = q
            BY <2>1, <3>2 DEF NewestRows, WaitingRows, AheadRows
        <3>. QED
            BY <2>3, <2>4, <2>6, <2>8, <3>2, <3>3 DEF Working
    <2>. QED
        BY <2>4, <2>5, <2>7, <2>9 DEF GoesOn
<1>. QED
    BY <1>2, <1>3

\* A session with a request under way has something to send: the second half
\* of Working does not apply.
LEMMA WorkingQueue ==
    ASSUME NEW st, NEW m, Working(st, m), NEW q \in st.outbox, q.gen = m.gen
    PROVE  \E x \in NewestRows(st, m) : x.content = st.local
BY DEF Working

LEMMA SameScopeRows ==
    ASSUME NEW st, NEW s, NEW t, InScope(s, t)
    PROVE  /\ Rows(st.outbox, s) = Rows(st.outbox, t)
           /\ NewestRows(st, s) = NewestRows(st, t)
           /\ WaitingRows(st, s) = WaitingRows(st, t)
           /\ AheadRows(st, s) = AheadRows(st, t)
BY DEF Rows, InScope, NewestRows, WaitingRows, AheadRows

LEMMA ScheduleRetrySession ==
    ASSUME NEW st \in Store, SessionOK(st), NEW s, NEW gen, NEW mid, CanSettle(st, s, gen, mid)
    PROVE  SessionOK(ScheduleRetry(st, s, gen)) /\ GoesOn(st, ScheduleRetry(st, s, gen))
<1> DEFINE st2 == ScheduleRetry(st, s, gen)
           m == MetaOf(st, s, gen)
<1> SUFFICES SessionOK(st2) /\ GoesOn(st, st2)
    OBVIOUS
<1>1. m \in ActiveMeta(st) /\ InScope(m, s) /\ m.gen = gen
    BY SessionMetaIsActive DEF CanSettle
<1>2. /\ st2.metas = SetStatus(st, s, gen, "error")
      /\ st2.outbox = st.outbox /\ st2.local = st.local
    BY DEF ScheduleRetry, Store
<1>3. PICK row : /\ ActiveMeta(st2) = {row} /\ row.acct = m.acct /\ row.pid = m.pid
                 /\ row.gen = gen /\ row.status = "error" /\ row.base = m.base
    BY <1>2, StatusIsSet DEF CanSettle
<1> HIDE DEF st2, m
<1>4. SessionOK(st2)
    BY <1>1, <1>2, <1>3 DEF SessionOK, InScope
<1>5. InScope(row, m)
    BY <1>3 DEF InScope
<1>6. Working(st, m) => Working(st2, row)
    BY <1>1, <1>2, <1>3, <1>5 DEF Working, NewestRows, WaitingRows, AheadRows, Rows, InScope
<1>. QED
    BY <1>1, <1>3, <1>4, <1>6 DEF GoesOn

\* A request stopped: it stays the newest unless an edit waits behind it.
LEMMA StoppedSession ==
    ASSUME NEW st \in Store, ShapeOK(st), SessionOK(st),
           NEW s, s.acct \in Account, s.pid \in ProfileId,
           NEW gen, NEW mid, CanSettle(st, s, gen, mid),
           NEW stopped, ~Waiting(stopped), stopped.content = Settled(st, s, mid).content,
           NEW conflicts, NEW st2, st2.local = st.local,
           ScopeBecomes(st, st2, s, WaitingRows(st, s) \cup {stopped}, conflicts),
           st2.metas = SetStatus(st, s, gen, "conflict")
    PROVE  SessionOK(st2) /\ GoesOn(st, st2)
<1> DEFINE m == MetaOf(st, s, gen)
           q == Settled(st, s, mid)
           rows == WaitingRows(st, s) \cup {stopped}
<1>1. m \in ActiveMeta(st) /\ InScope(m, s) /\ m.gen = gen
    BY SessionMetaIsActive DEF CanSettle
<1>2. PICK row : /\ ActiveMeta(st2) = {row} /\ row.acct = m.acct /\ row.pid = m.pid
                 /\ row.gen = gen /\ row.status = "conflict" /\ row.base = m.base
                 /\ InScope(row, s)
    BY StatusIsSet DEF CanSettle
<1>3. q \in Rows(st.outbox, s) /\ q.gen = gen /\ AheadRows(st, s) = {q}
    BY SettledIsAhead
<1> HIDE DEF m, q
<1>4. SessionOK(st2) /\ Rows(st2.outbox, row) = rows
    BY <1>1, <1>2, SessionScope
<1>5. {x \in rows : Waiting(x)} = WaitingRows(st, s) /\ {x \in rows : ~Waiting(x)} = {stopped}
    BY DEF WaitingRows
<1>6. NewestRows(st2, row) = IF WaitingRows(st, s) # {} THEN WaitingRows(st, s) ELSE {stopped}
    <2>1. (\E x \in rows : Waiting(x)) <=> WaitingRows(st, s) # {}
        BY <1>5
    <2> HIDE DEF rows
    <2>2. NewestRows(st2, row) = IF \E x \in rows : Waiting(x) THEN {x \in rows : Waiting(x)}
                                 ELSE {x \in rows : ~Waiting(x)}
        BY <1>4, NewestOf
    <2>. QED
        BY <1>5, <2>1, <2>2
<1>7. NewestRows(st, m) = IF WaitingRows(st, s) # {} THEN WaitingRows(st, s) ELSE {q}
    BY <1>1, <1>3, SameScopeRows DEF NewestRows
<1>8. Working(st, m) => Working(st2, row)
    <2>1. SUFFICES ASSUME Working(st, m) PROVE Working(st2, row)
        OBVIOUS
    <2>2. \E x \in NewestRows(st, m) : x.content = st.local
        BY <1>1, <1>3, <2>1, WorkingQueue DEF Rows
    <2>3. \E x \in NewestRows(st2, row) : x.content = st2.local
        BY <1>6, <1>7, <2>2 DEF q
    <2>. QED
        BY <1>2, <2>3 DEF Working
<1>. QED
    BY <1>1, <1>2, <1>4, <1>8 DEF GoesOn

LEMMA RecordConflictSession ==
    ASSUME NEW st \in Store, ShapeOK(st), UniqueIds(st), SessionOK(st),
           NEW s, s.acct \in Account, s.pid \in ProfileId,
           NEW gen, NEW mid, CanSettle(st, s, gen, mid),
           NEW version, NEW profile, NEW serverId
    PROVE  LET st2 == RecordConflict(st, s, gen, mid, version, profile, serverId)
           IN  SessionOK(st2) /\ GoesOn(st, st2)
<1> DEFINE st2 == RecordConflict(st, s, gen, mid, version, profile, serverId)
           stopped == StoppedRow(st, s, mid)
           c == ConflictOf(st, s, gen, mid, version, profile, serverId)
<1> SUFFICES SessionOK(st2) /\ GoesOn(st, st2)
    OBVIOUS
<1>1. ScopeBecomes(st, st2, s, WaitingRows(st, s) \cup {stopped}, {c})
    BY RecordConflictEffect
<1>2. ~Waiting(stopped) /\ stopped.content = Settled(st, s, mid).content
    BY SettledIsAhead DEF StoppedRow, Waiting, Mutation
<1>3. st2.local = st.local /\ st2.metas = SetStatus(st, s, gen, "conflict")
    BY DEF RecordConflict, Store
<1> HIDE DEF st2, stopped, c
<1>. QED
    BY <1>1, <1>2, <1>3, StoppedSession

LEMMA FreezeServerEmptySession ==
    ASSUME NEW st \in Store, ShapeOK(st), UniqueIds(st), SessionOK(st),
           NEW s, s.acct \in Account, s.pid \in ProfileId,
           NEW gen, NEW mid, CanSettle(st, s, gen, mid)
    PROVE  LET st2 == FreezeServerEmpty(st, s, gen, mid)
           IN  SessionOK(st2) /\ GoesOn(st, st2)
<1> DEFINE st2 == FreezeServerEmpty(st, s, gen, mid)
           frozen == FrozenRow(st, s, mid)
<1> SUFFICES SessionOK(st2) /\ GoesOn(st, st2)
    OBVIOUS
<1>1. ScopeBecomes(st, st2, s, WaitingRows(st, s) \cup {frozen}, {})
    BY FreezeServerEmptyEffect
<1>2. ~Waiting(frozen) /\ frozen.content = Settled(st, s, mid).content
    BY SettledIsAhead DEF FrozenRow, Waiting, Mutation
<1>3. st2.local = st.local /\ st2.metas = SetStatus(st, s, gen, "conflict")
    BY DEF FreezeServerEmpty, Store
<1> HIDE DEF st2, frozen
<1>. QED
    BY <1>1, <1>2, <1>3, StoppedSession

\* A success names the profile that was sent: what waited, or nothing, is left.
LEMMA AcknowledgeSession ==
    ASSUME NEW st \in Store, ShapeOK(st), SessionOK(st),
           NEW s, s.acct \in Account, s.pid \in ProfileId,
           NEW gen, NEW mid, CanSettle(st, s, gen, mid),
           NEW version \in Nat, NEW profile \in Profile,
           profile = Settled(st, s, mid).content
    PROVE  LET st2 == Acknowledge(st, s, gen, mid, version, profile)
           IN  SessionOK(st2) /\ GoesOn(st, st2)
<1> DEFINE st2 == Acknowledge(st, s, gen, mid, version, profile)
           m == MetaOf(st, s, gen)
           q == Settled(st, s, mid)
           waiting == WaitingRows(st, s)
           rows == RebasedRows(st, s, version, profile)
           row == [m EXCEPT !.baseV = version, !.base = profile,
                       !.status = IF waiting = {} THEN "idle" ELSE "dirty"]
<1> SUFFICES SessionOK(st2) /\ GoesOn(st, st2)
    OBVIOUS
<1>1. m \in ActiveMeta(st) /\ m \in Metadata /\ InScope(m, s) /\ m.gen = gen /\ m.active
    BY SessionMetaIsActive DEF CanSettle, ActiveMeta
<1>2. q \in Rows(st.outbox, s) /\ q.gen = gen /\ AheadRows(st, s) = {q}
    BY SettledIsAhead
<1>3. ScopeBecomes(st, st2, s, rows, {})
    BY AcknowledgeEffect
<1>4. Pending(st, s) = waiting
    BY ShapeOf, QueriesFindAll
<1>5. st2.metas = PutMeta(st.metas, row) /\ st2.local = st.local
    BY <1>4 DEF Acknowledge, Store
<1>6. /\ row.acct = m.acct /\ row.pid = m.pid /\ row.gen = gen /\ row.active
      /\ row.base = profile
      /\ row.status = IF waiting = {} THEN "idle" ELSE "dirty"
    BY <1>1 DEF Metadata
<1>7. /\ \A r \in rows : \E x \in waiting : r.content = x.content
      /\ \A r \in rows : Waiting(r)
      /\ \A x \in waiting : \E r \in rows : r.content = x.content
    <2>1. /\ \A r \in rows : \E x \in waiting : r = Rebase(x, version, profile) /\ Becomes(x, r)
          /\ \A r \in rows : Waiting(r)
        BY RebasedQueue
    <2>2. \A x, y \in waiting : x = y
        BY ShapeOf DEF ScopeShape, WaitingRows
    <2>3. \A x \in waiting : Rebase(x, version, profile) \in rows
        BY DEF RebasedRows
    <2> HIDE DEF waiting, rows
    <2>4. \A r \in rows : \E x \in waiting : r.content = x.content
        BY <2>1 DEF Becomes
    <2>. QED
        BY <2>1, <2>2, <2>3, <2>4
<1> HIDE DEF st2, row, rows, m, q, waiting
<1>8. ActiveMeta(st2) = {row}
    BY <1>1, <1>5, <1>6, ActivePut DEF SessionOK, InScope
<1>9. waiting = {} => rows = {}
    BY <1>7
<1>10. /\ SessionOK(st2) /\ Rows(st2.outbox, row) = rows
       /\ \A x \in st2.outbox : x.gen = row.gen => x \in rows
    BY <1>1, <1>3, <1>6, <1>8, <1>9, SessionScope DEF InScope
<1>11. Working(st, m) => Working(st2, row)
    <2>1. SUFFICES ASSUME Working(st, m) PROVE Working(st2, row)
        OBVIOUS
    <2>2. PICK x \in NewestRows(st, m) : x.content = st.local
        BY <1>1, <1>2, <2>1, WorkingQueue DEF Rows
    <2>3. NewestRows(st, m) = IF waiting # {} THEN waiting ELSE {q}
        BY <1>1, <1>2, SameScopeRows DEF NewestRows, waiting
    <2>4. CASE waiting = {}
        BY <1>5, <1>6, <1>9, <1>10, <2>2, <2>3, <2>4 DEF Working, q
    <2>5. CASE waiting # {}
        <3>1. NewestRows(st2, row) = rows
            <4>1. {y \in rows : Waiting(y)} = rows /\ \E y \in rows : Waiting(y)
                BY <1>7, <2>5
            <4>2. NewestRows(st2, row) = IF \E y \in rows : Waiting(y)
                                         THEN {y \in rows : Waiting(y)}
                                         ELSE {y \in rows : ~Waiting(y)}
                BY <1>10, NewestOf
            <4>. QED
                BY <4>1, <4>2
        <3>. QED
            BY <1>5, <1>6, <1>7, <2>2, <2>3, <2>5, <3>1 DEF Working
    <2>. QED
        BY <2>4, <2>5
<1>. QED
    BY <1>1, <1>6, <1>8, <1>10, <1>11 DEF GoesOn

LEMMA AcceptRemoteSession ==
    ASSUME NEW st \in Store, SessionOK(st), NEW s, NEW gen, SessionMeta(st, s, gen) # {},
           NEW version, NEW profile
    PROVE  LET st2 == AcceptRemote(st, s, gen, version, profile)
           IN  SessionOK(st2) /\ \A m2 \in ActiveMeta(st2) :
                                    m2.acct = s.acct /\ m2.gen = gen /\ Working(st2, m2)
<1> DEFINE st2 == AcceptRemote(st, s, gen, version, profile)
           m == MetaOf(st, s, gen)
           row == [m EXCEPT !.pid = profile.pid, !.baseV = version,
                            !.base = profile, !.status = "idle"]
<1> SUFFICES SessionOK(st2) /\ \A m2 \in ActiveMeta(st2) :
                 m2.acct = s.acct /\ m2.gen = gen /\ Working(st2, m2)
    OBVIOUS
<1>1. m \in ActiveMeta(st) /\ m \in Metadata /\ InScope(m, s) /\ m.gen = gen /\ m.active
    BY SessionMetaIsActive DEF ActiveMeta
<1>2. /\ row.acct = m.acct /\ row.gen = gen /\ row.active
      /\ row.base = profile /\ row.status = "idle"
    BY <1>1 DEF Metadata
<1>3. /\ st2.metas = PutMeta(st.metas \ Rows(st.metas, s), row) /\ st2.local = profile
      /\ st2.outbox = st.outbox \ Rows(st.outbox, s)
    BY DEF AcceptRemote, Store
<1> HIDE DEF st2, row, m
<1>4. ActiveMeta(st2) = {row}
    BY <1>1, <1>2, <1>3 DEF ActiveMeta, PutMeta, Rows, SessionOK
<1>5. \A q \in st2.outbox : q.gen # gen
    BY <1>1, <1>3 DEF SessionOK, Rows, InScope
<1>. QED
    BY <1>1, <1>2, <1>3, <1>4, <1>5 DEF SessionOK, Working, InScope

\* A scope left with one mutation, the local profile's.
LEMMA OnlyOneSession ==
    ASSUME NEW st \in Store, SessionOK(st), NEW s, NEW gen, SessionMeta(st, s, gen) # {},
           NEW new, Waiting(new), NEW conflicts, NEW st2, new.content = st2.local,
           ScopeBecomes(st, st2, s, {new}, conflicts),
           NEW row, InScope(row, s), row.gen = gen, row.active, row.status = "dirty",
           st2.metas = PutMeta(st.metas, row)
    PROVE  SessionOK(st2) /\ \A m2 \in ActiveMeta(st2) :
                                 m2.acct = s.acct /\ m2.gen = gen /\ Working(st2, m2)
<1> DEFINE m == MetaOf(st, s, gen)
<1>1. m \in ActiveMeta(st) /\ InScope(m, s) /\ m.gen = gen
    BY SessionMetaIsActive
<1> HIDE DEF m
<1>2. ActiveMeta(st2) = {row}
    BY <1>1, ActivePut DEF SessionOK, InScope
<1>3. SessionOK(st2) /\ Rows(st2.outbox, row) = {new}
    BY <1>1, <1>2, SessionScope
<1>4. NewestRows(st2, row) = {new}
    BY <1>3, NewestOf
<1>5. Working(st2, row)
    BY <1>4 DEF Working
<1>. QED
    BY <1>2, <1>3, <1>5 DEF InScope

LEMMA ForceEnqueueSession ==
    ASSUME NEW st \in Store, ShapeOK(st), SessionOK(st),
           NEW s, s.acct \in Account, s.pid \in ProfileId,
           NEW gen, SessionMeta(st, s, gen) # {}, NEW id
    PROVE  LET st2 == ForceEnqueue(st, s, gen, id)
           IN  SessionOK(st2) /\ \A m2 \in ActiveMeta(st2) :
                                    m2.acct = s.acct /\ m2.gen = gen /\ Working(st2, m2)
<1> DEFINE st2 == ForceEnqueue(st, s, gen, id)
           m == MetaOf(st, s, gen)
           row == [m EXCEPT !.status = "dirty"]
           new == ForcedRow(st, s, gen, id)
<1> SUFFICES SessionOK(st2) /\ \A m2 \in ActiveMeta(st2) :
                 m2.acct = s.acct /\ m2.gen = gen /\ Working(st2, m2)
    OBVIOUS
<1>1. m \in Metadata /\ InScope(m, s) /\ m.gen = gen /\ m.active
    BY SessionMetaIsActive DEF ActiveMeta
<1>2. InScope(row, s) /\ row.gen = gen /\ row.active /\ row.status = "dirty"
    BY <1>1 DEF Metadata, InScope
<1>3. st2.metas = PutMeta(st.metas, row) /\ st2.local = st.local
    BY DEF ForceEnqueue, Store
<1>4. ScopeBecomes(st, st2, s, {new}, {})
    BY ForceEnqueueEffect
<1>5. Waiting(new) /\ new.content = st.local
    BY DEF ForcedRow, NewMutation, Waiting
<1> HIDE DEF st2, m, row, new
<1>. QED
    BY <1>2, <1>3, <1>4, <1>5, OnlyOneSession

LEMMA ResolveSession ==
    ASSUME NEW st \in Store, ShapeOK(st), SessionOK(st),
           NEW s, s.acct \in Account, s.pid \in ProfileId,
           NEW gen, SessionMeta(st, s, gen) # {}, NEW c \in Rows(st.conflicts, s),
           NEW merged, NEW id
    PROVE  LET st2 == Resolve(st, s, gen, c, Pending(st, s), merged, id)
           IN  SessionOK(st2) /\ \A m2 \in ActiveMeta(st2) :
                                    m2.acct = s.acct /\ m2.gen = gen /\ Working(st2, m2)
<1> DEFINE st2 == Resolve(st, s, gen, c, Pending(st, s), merged, id)
           m == MetaOf(st, s, gen)
           row == [m EXCEPT !.baseV = c.theirsV, !.base = c.theirs, !.status = "dirty"]
           new == ResolvedRow(st, s, gen, c, merged, id)
<1> SUFFICES SessionOK(st2) /\ \A m2 \in ActiveMeta(st2) :
                 m2.acct = s.acct /\ m2.gen = gen /\ Working(st2, m2)
    OBVIOUS
<1>1. m \in Metadata /\ InScope(m, s) /\ m.gen = gen /\ m.active
    BY SessionMetaIsActive DEF ActiveMeta
<1>2. InScope(row, s) /\ row.gen = gen /\ row.active /\ row.status = "dirty"
    BY <1>1 DEF Metadata, InScope
<1>3. st2.metas = PutMeta(st.metas, row) /\ st2.local = merged
    BY DEF Resolve, Store
<1>4. ScopeBecomes(st, st2, s, {new}, {})
    BY ResolveEffect
<1>5. Waiting(new) /\ new.content = merged
    BY DEF ResolvedRow, NewMutation, Waiting
<1> HIDE DEF st2, m, row, new
<1>. QED
    BY <1>2, <1>3, <1>4, <1>5, OnlyOneSession

\* A new session: nothing in the outbox is its own yet.
LEMMA ActivateSession ==
    ASSUME NEW st \in Store, NEW acct, NEW pid, NEW gen, NEW baseV, NEW base,
           \A q \in st.outbox : q.gen # gen
    PROVE  LET st2 == ActivateAccount(st, acct, pid, gen, baseV, base)
           IN  /\ SessionOK(st2) /\ \A m2 \in ActiveMeta(st2) : m2.gen = gen
               /\ st2.outbox = st.outbox /\ st2.conflicts = st.conflicts
               /\ st2.local = st.local /\ st2.rev = st.rev
<1> DEFINE st2 == ActivateAccount(st, acct, pid, gen, baseV, base)
           old == {[m EXCEPT !.active = FALSE] : m \in st.metas}
           row == [acct |-> acct, pid |-> pid, active |-> TRUE, gen |-> gen,
                   baseV |-> baseV, base |-> base, status |-> "idle"]
<1>1. \A m \in old : ~m.active
    BY DEF Store, Metadata
<1>2. row.active /\ row.gen = gen
    OBVIOUS
<1>3. /\ st2.metas = PutMeta(old, row) /\ st2.outbox = st.outbox
      /\ st2.conflicts = st.conflicts /\ st2.local = st.local /\ st2.rev = st.rev
    BY DEF ActivateAccount, Store
<1> HIDE DEF st2, old, row
<1>4. ActiveMeta(st2) = {row}
    BY <1>1, <1>2, <1>3 DEF ActiveMeta, PutMeta
<1>5. SessionOK(st2)
    BY <1>2, <1>3, <1>4 DEF SessionOK
<1>. QED
    BY <1>2, <1>3, <1>4, <1>5 DEF st2

LEMMA DeactivateSession ==
    ASSUME NEW st \in Store, SessionOK(st), NEW s, NEW gen
    PROVE  LET st2 == DeactivateAccount(st, s, gen)
           IN  /\ SessionOK(st2) /\ ActiveMeta(st2) \subseteq ActiveMeta(st) /\ GoesOn(st, st2)
               /\ st2.outbox = st.outbox /\ st2.conflicts = st.conflicts
               /\ st2.local = st.local /\ st2.rev = st.rev
<1> DEFINE st2 == DeactivateAccount(st, s, gen)
           row(m) == IF InScope(m, s) /\ m.gen = gen THEN [m EXCEPT !.active = FALSE] ELSE m
<1>1. \A m \in st.metas : row(m).active => row(m) = m
    BY DEF Store, Metadata
<1>2. /\ st2.metas = {row(m) : m \in st.metas} /\ st2.outbox = st.outbox
      /\ st2.conflicts = st.conflicts /\ st2.local = st.local /\ st2.rev = st.rev
    BY DEF DeactivateAccount, Store
<1> HIDE DEF st2, row
<1>3. ActiveMeta(st2) \subseteq ActiveMeta(st)
    BY <1>1, <1>2 DEF ActiveMeta
<1>4. \A m : Working(st, m) => Working(st2, m)
    BY <1>2 DEF Working, NewestRows, WaitingRows, AheadRows
<1>5. SessionOK(st2) /\ GoesOn(st, st2)
    BY <1>2, <1>3, <1>4 DEF SessionOK, GoesOn
<1>. QED
    BY <1>2, <1>3, <1>5 DEF st2

-----------------------------------------------------------------------------
\* The sessions a store's rows belong to: no transaction but activateAccount
\* brings in another.
GensIn(G, st) == \A x \in st.metas \cup st.outbox \cup st.conflicts : x.gen \in G

LEMMA ActivateGens ==
    ASSUME NEW G, NEW st \in Store, GensIn(G, st), NEW acct, NEW pid, NEW gen \in G,
           NEW baseV, NEW base
    PROVE  GensIn(G, ActivateAccount(st, acct, pid, gen, baseV, base))
<1> DEFINE row == [acct |-> acct, pid |-> pid, active |-> TRUE, gen |-> gen,
                   baseV |-> baseV, base |-> base, status |-> "idle"]
           off == {[m EXCEPT !.active = FALSE] : m \in st.metas}
           st2 == ActivateAccount(st, acct, pid, gen, baseV, base)
<1>1. \A m \in off : m.gen \in G
    BY DEF GensIn, Store, Metadata
<1>2. st2.metas \subseteq off \cup {row} /\ st2.outbox = st.outbox /\ st2.conflicts = st.conflicts
    BY DEF ActivateAccount, PutMeta, Store
<1>3. row.gen \in G
    OBVIOUS
<1> HIDE DEF row, off, st2
<1>4. GensIn(G, st2)
    BY <1>1, <1>2, <1>3 DEF GensIn
<1>. QED
    BY <1>4 DEF st2

LEMMA DeactivateGens ==
    ASSUME NEW G, NEW st \in Store, GensIn(G, st), NEW s, NEW gen
    PROVE  GensIn(G, DeactivateAccount(st, s, gen))
<1>1. \A m \in st.metas : [m EXCEPT !.active = FALSE].gen = m.gen
    BY DEF Store, Metadata
<1>. QED
    BY <1>1 DEF GensIn, DeactivateAccount, Store

LEMMA EnqueueGens ==
    ASSUME NEW G, NEW st \in Store, GensIn(G, st), NEW m \in st.metas, NEW p, NEW id
    PROVE  GensIn(G, Enqueue(st, m, p, id)) /\ GensIn(G, BackToBase(st, m))
<1> DEFINE row(status) == [m EXCEPT !.status = status]
           new(baseV, base) == NewMutation(id, m, baseV, base, p, None)
<1>1. \A status : row(status).gen \in G
    BY DEF GensIn, Store, Metadata
<1>2. \A baseV, base : new(baseV, base).gen \in G
    BY DEF GensIn, NewMutation
<1>3. /\ Enqueue(st, m, p, id).metas \subseteq st.metas \cup {row("dirty")}
      /\ \A x \in Enqueue(st, m, p, id).outbox : x \in st.outbox \/ \E baseV, base : x = new(baseV, base)
      /\ Enqueue(st, m, p, id).conflicts = st.conflicts
    BY DEF Enqueue, PutMeta, Store
<1>4. /\ BackToBase(st, m).metas \subseteq st.metas \cup {row("idle")}
      /\ BackToBase(st, m).outbox \subseteq st.outbox
      /\ BackToBase(st, m).conflicts = st.conflicts
    BY DEF BackToBase, PutMeta, Store
<1> HIDE DEF row, new
<1>. QED
    BY <1>1, <1>2, <1>3, <1>4 DEF GensIn

LEMMA CommitProfileGens ==
    ASSUME NEW G, NEW st \in Store, GensIn(G, st), NEW p \in Profile, NEW id
    PROVE  GensIn(G, CommitProfile(st, p, id))
<1>0. PICK saved \in Store : CommitsAs(st, saved, p, id, CommitProfile(st, p, id))
    BY CommitProfileCases
<1>1. /\ saved.metas = st.metas /\ saved.outbox = st.outbox
      /\ saved.conflicts = st.conflicts
      /\ \/ CommitProfile(st, p, id) = saved
         \/ \E m \in ActiveMeta(st) :
              \/ CommitProfile(st, p, id) = BackToBase(saved, m)
              \/ CommitProfile(st, p, id) = Enqueue(saved, m, p, id)
    BY <1>0 DEF CommitsAs
<1>2. GensIn(G, saved)
    BY <1>1 DEF GensIn
<1>. QED
    BY <1>1, <1>2, EnqueueGens DEF ActiveMeta

LEMMA ClaimDueGens ==
    ASSUME NEW G, NEW st \in Store, GensIn(G, st), NEW q \in st.outbox
    PROVE  GensIn(G, ClaimDue(st, q)) /\ InFlight(q).gen = q.gen /\ q.gen \in G
<1>1. InFlight(q).gen = q.gen /\ q.gen \in G
    BY DEF InFlight, GensIn, Store, Mutation
<1>2. \A m \in st.metas : [m EXCEPT !.status = "syncing"].gen \in G /\ m.gen \in G
    BY DEF GensIn, Store, Metadata
<1>3. CASE q.state = "in-flight"
    BY <1>1, <1>3 DEF ClaimDue
<1>4. CASE q.state # "in-flight"
    <2> DEFINE st2 == ClaimDue(st, q)
    <2>1. /\ \A x \in st2.metas : x.gen \in G
          /\ st2.outbox \subseteq st.outbox \cup {InFlight(q)}
          /\ st2.conflicts = st.conflicts
        BY <1>2, <1>4 DEF ClaimDue, Store
    <2>. QED
        BY <1>1, <2>1 DEF GensIn
<1>. QED
    BY <1>1, <1>3, <1>4

\* A transaction of a session adds rows of that session.
LEMMA SessionGens ==
    ASSUME NEW G, NEW st \in Store, GensIn(G, st), NEW s, NEW gen, SessionMeta(st, s, gen) # {},
           NEW st2,
           \A x \in st2.metas : x \in st.metas \/ x.gen = gen,
           \A x \in st2.outbox : x \in st.outbox \/ x.gen = gen,
           \A x \in st2.conflicts : x \in st.conflicts \/ x.gen = gen
    PROVE  GensIn(G, st2) /\ gen \in G
<1>1. gen \in G
    BY SessionMetaIsRow, MetaOfIsRow DEF GensIn, SessionMeta
<1>. QED
    BY <1>1 DEF GensIn

LEMMA SettleGens ==
    ASSUME NEW G, NEW st \in Store, GensIn(G, st), NEW s, NEW gen, NEW mid,
           CanSettle(st, s, gen, mid)
    PROVE  /\ \A version, profile : CanAcknowledge(st, s, gen, mid) =>
                  GensIn(G, Acknowledge(st, s, gen, mid, version, profile))
           /\ UniqueIds(st) => \A version, profile, serverId :
                  GensIn(G, RecordConflict(st, s, gen, mid, version, profile, serverId))
           /\ UniqueIds(st) => GensIn(G, FreezeServerEmpty(st, s, gen, mid))
           /\ GensIn(G, ScheduleRetry(st, s, gen))
<1> DEFINE m == MetaOf(st, s, gen)
           q == Settled(st, s, mid)
<1>1. SessionMeta(st, s, gen) # {} /\ m \in Metadata /\ m.gen = gen
    BY SessionMetaIsRow, MetaOfIsRow DEF CanSettle, SessionMeta
<1>2. q \in Queued(st, s, "in-flight") /\ q.id = mid /\ q \in Mutation
    BY SettledIsRow, SettledType
<1>3. \A status : \A x \in SetStatus(st, s, gen, status) : x \in st.metas \/ x.gen = gen
    BY <1>1 DEF SetStatus, PutMeta, Metadata
<1>4. ASSUME UniqueIds(st)
      PROVE  q.gen = gen
    BY <1>2, <1>4 DEF CanSettle, UniqueIds, Queued, Rows
<1> HIDE DEF m, q
<1>5. ASSUME NEW version, NEW profile, CanAcknowledge(st, s, gen, mid)
      PROVE  GensIn(G, Acknowledge(st, s, gen, mid, version, profile))
    <2> DEFINE st2 == Acknowledge(st, s, gen, mid, version, profile)
               rebased == {[x EXCEPT !.baseV = version, !.base = profile] : x \in Pending(st, s)}
               row(status) == [m EXCEPT !.baseV = version, !.base = profile, !.status = status]
    <2>0. \A x \in Pending(st, s) : x \in Mutation /\ x.gen = gen
        BY <1>5, QueriesAreRows DEF CanAcknowledge, Queued, Rows, Store
    <2>1. \A x \in rebased : x.gen = gen
        BY <2>0 DEF Mutation
    <2>2. \A status : row(status).gen = gen
        BY <1>1 DEF Metadata
    <2>3. /\ st2.outbox \subseteq st.outbox \cup rebased /\ st2.conflicts = st.conflicts
          /\ \A x \in st2.metas : x \in st.metas \/ \E status : x = row(status)
        BY DEF Acknowledge, PutMeta, Store, m
    <2> HIDE DEF st2, rebased, row
    <2>4. GensIn(G, st2)
        BY <1>1, <2>1, <2>2, <2>3, SessionGens
    <2>. QED
        BY <2>4 DEF st2
<1>6. ASSUME NEW version, NEW profile, NEW serverId, UniqueIds(st)
      PROVE  GensIn(G, RecordConflict(st, s, gen, mid, version, profile, serverId))
    <2> DEFINE st2 == RecordConflict(st, s, gen, mid, version, profile, serverId)
               stopped == [q EXCEPT !.state = "conflict"]
               c == ConflictOf(st, s, gen, mid, version, profile, serverId)
    <2>1. stopped.gen = gen /\ c.gen = gen
        BY <1>2, <1>4, <1>6 DEF Mutation, ConflictOf
    <2>2. /\ st2.outbox \subseteq st.outbox \cup {stopped}
          /\ st2.conflicts \subseteq st.conflicts \cup {c}
          /\ st2.metas = SetStatus(st, s, gen, "conflict")
        BY DEF RecordConflict, ConflictOf, Store, q
    <2> HIDE DEF st2, stopped, c
    <2>3. GensIn(G, st2)
        BY <1>1, <1>3, <2>1, <2>2, SessionGens
    <2>. QED
        BY <2>3 DEF st2
<1>7. ASSUME UniqueIds(st)
      PROVE  GensIn(G, FreezeServerEmpty(st, s, gen, mid))
    <2> DEFINE st2 == FreezeServerEmpty(st, s, gen, mid)
               stopped == [q EXCEPT !.state = "conflict", !.terminal = TRUE]
    <2>1. stopped.gen = gen
        BY <1>2, <1>4, <1>7 DEF Mutation
    <2>2. /\ st2.outbox \subseteq st.outbox \cup {stopped} /\ st2.conflicts = st.conflicts
          /\ st2.metas = SetStatus(st, s, gen, "conflict")
        BY DEF FreezeServerEmpty, Store, q
    <2> HIDE DEF st2, stopped
    <2>3. GensIn(G, st2)
        BY <1>1, <1>3, <2>1, <2>2, SessionGens
    <2>. QED
        BY <2>3 DEF st2
<1>8. GensIn(G, ScheduleRetry(st, s, gen))
    <2> DEFINE st2 == ScheduleRetry(st, s, gen)
    <2>1. st2.outbox = st.outbox /\ st2.conflicts = st.conflicts
          /\ st2.metas = SetStatus(st, s, gen, "error")
        BY DEF ScheduleRetry, Store
    <2> HIDE DEF st2
    <2>2. GensIn(G, st2)
        BY <1>1, <1>3, <2>1, SessionGens
    <2>. QED
        BY <2>2 DEF st2
<1>. QED
    BY <1>5, <1>6, <1>7, <1>8

LEMMA DecisionGens ==
    ASSUME NEW G, NEW st \in Store, GensIn(G, st), NEW s, NEW gen, SessionMeta(st, s, gen) # {}
    PROVE  /\ gen \in G
           /\ \A version, profile : GensIn(G, AcceptRemote(st, s, gen, version, profile))
           /\ \A id : GensIn(G, ForceEnqueue(st, s, gen, id))
           /\ \A c, successor, merged, id : GensIn(G, Resolve(st, s, gen, c, successor, merged, id))
<1> DEFINE m == MetaOf(st, s, gen)
<1>1. m \in Metadata /\ m.gen = gen
    BY SessionMetaIsRow, MetaOfIsRow DEF SessionMeta
<1>2. \A id, baseV, base, content, resolves :
          NewMutation(id, m, baseV, base, content, resolves).gen = gen
    BY <1>1 DEF NewMutation
<1> HIDE DEF m
<1>3. ASSUME NEW version, NEW profile
      PROVE  GensIn(G, AcceptRemote(st, s, gen, version, profile))
    <2> DEFINE st2 == AcceptRemote(st, s, gen, version, profile)
               row == [m EXCEPT !.pid = profile.pid, !.baseV = version,
                                !.base = profile, !.status = "idle"]
    <2>1. row.gen = gen
        BY <1>1 DEF Metadata
    <2>2. /\ st2.outbox \subseteq st.outbox /\ st2.conflicts \subseteq st.conflicts
          /\ st2.metas \subseteq st.metas \cup {row}
        BY DEF AcceptRemote, PutMeta, Store, m, Rows
    <2> HIDE DEF st2, row
    <2>3. GensIn(G, st2)
        BY <2>1, <2>2, SessionGens
    <2>. QED
        BY <2>3 DEF st2
<1>4. ASSUME NEW id
      PROVE  GensIn(G, ForceEnqueue(st, s, gen, id))
    <2> DEFINE st2 == ForceEnqueue(st, s, gen, id)
               row == [m EXCEPT !.status = "dirty"]
               new == NewMutation(id, m, m.baseV, m.base, st.local, None)
    <2>1. row.gen = gen /\ new.gen = gen
        BY <1>1, <1>2 DEF Metadata
    <2>2. /\ st2.outbox \subseteq st.outbox \cup {new} /\ st2.conflicts \subseteq st.conflicts
          /\ st2.metas \subseteq st.metas \cup {row}
        BY DEF ForceEnqueue, PutMeta, Store, m
    <2> HIDE DEF st2, row, new
    <2>3. GensIn(G, st2)
        BY <2>1, <2>2, SessionGens
    <2>. QED
        BY <2>3 DEF st2
<1>5. ASSUME NEW c, NEW successor, NEW merged, NEW id
      PROVE  GensIn(G, Resolve(st, s, gen, c, successor, merged, id))
    <2> DEFINE st2 == Resolve(st, s, gen, c, successor, merged, id)
               row == [m EXCEPT !.baseV = c.theirsV, !.base = c.theirs, !.status = "dirty"]
               new == NewMutation(id, m, c.theirsV, c.theirs, merged, c.serverId)
    <2>1. row.gen = gen /\ new.gen = gen
        BY <1>1, <1>2 DEF Metadata
    <2>2. /\ st2.outbox \subseteq st.outbox \cup {new} /\ st2.conflicts \subseteq st.conflicts
          /\ st2.metas \subseteq st.metas \cup {row}
        BY DEF Resolve, PutMeta, Store, m
    <2> HIDE DEF st2, row, new
    <2>3. GensIn(G, st2)
        BY <2>1, <2>2, SessionGens
    <2>. QED
        BY <2>3 DEF st2
<1>6. gen \in G
    BY SessionGens
<1>. QED
    BY <1>3, <1>4, <1>5, <1>6

-----------------------------------------------------------------------------
\* Which conflict of the server a mutation resolves: only resolveConflict
\* writes one in, and a mutation that has one does not wait for a base.
Traces(q, r) ==
    /\ q.id = r.id /\ q.acct = r.acct /\ q.resolves = r.resolves
    /\ r.state # "conflict" => q.state # "conflict" /\ q.baseV = r.baseV

Refers(st, st2, new) ==
    \A r \in st2.outbox : r.resolves # None => r \in new \/ \E q \in st.outbox : Traces(q, r)

Direct(st) == \A q \in st.outbox : Waiting(q) /\ q.resolves # None => q.baseV # None

RefersOnly(st, st2) == Refers(st, st2, {}) /\ st2.conflicts \subseteq st.conflicts

LEMMA ScopeRefers ==
    ASSUME NEW st, NEW st2, NEW s, NEW rows, NEW conflicts,
           ScopeBecomes(st, st2, s, rows, conflicts), NEW new,
           \A r \in rows : r.resolves # None => r \in new \/ \E q \in st.outbox : Traces(q, r)
    PROVE  /\ Refers(st, st2, new)
           /\ conflicts \subseteq st.conflicts => st2.conflicts \subseteq st.conflicts
BY DEF ScopeBecomes, Refers, Outside, Traces

LEMMA SameRefers ==
    ASSUME NEW st, NEW st2, st2.outbox = st.outbox, st2.conflicts = st.conflicts
    PROVE  RefersOnly(st, st2)
BY DEF RefersOnly, Refers, Traces

LEMMA CommitProfileRefers ==
    ASSUME NEW st \in Store, ShapeOK(st), NEW p \in Profile, NEW id \in Nat,
           p # st.local => \A q \in st.outbox : q.id # id
    PROVE  RefersOnly(st, CommitProfile(st, p, id))
<1>0. PICK saved \in Store : CommitsAs(st, saved, p, id, CommitProfile(st, p, id))
    BY CommitProfileCases
<1>1. saved.metas = st.metas /\ saved.outbox = st.outbox /\ saved.conflicts = st.conflicts
    BY <1>0 DEF CommitsAs
<1>2. ShapeOK(saved) /\ (p # st.local => \A q \in saved.outbox : q.id # id)
    BY <1>1 DEF ShapeOK
<1> DEFINE st2 == CommitProfile(st, p, id)
<1>3. CASE st2 = saved
    BY <1>1, <1>3, SameRefers
<1>4. ASSUME NEW m \in ActiveMeta(st), Blocker(saved, m) = {}, st2 = BackToBase(saved, m)
      PROVE  RefersOnly(st, st2)
    <2>1. m \in Metadata
        BY DEF ActiveMeta, Store
    <2>2. ScopeBecomes(saved, st2, m, {}, Rows(saved.conflicts, m))
        BY <1>2, <1>4, <2>1, BackToBaseEffect
    <2> HIDE DEF st2
    <2>3. Refers(saved, st2, {}) /\ st2.conflicts \subseteq saved.conflicts
        BY <2>2, ScopeRefers DEF Rows
    <2>. QED
        BY <1>1, <2>3 DEF RefersOnly, Refers
<1>5. ASSUME NEW m \in ActiveMeta(st), p # st.local, st2 = Enqueue(saved, m, p, id)
      PROVE  RefersOnly(st, st2)
    <2> DEFINE rows == EnqueueRows(saved, m, p, id)
    <2>1. m \in Metadata
        BY DEF ActiveMeta, Store
    <2>2. ScopeBecomes(saved, st2, m, rows, Rows(saved.conflicts, m))
        BY <1>2, <1>5, <2>1, EnqueueEffect
    <2>3. \A r \in rows : r.resolves # None => \E q \in saved.outbox : Traces(q, r)
        BY DEF EnqueueRows, EnqueueRow, NewMutation, AheadRows, Rows, Traces
    <2> HIDE DEF st2, rows
    <2>4. Refers(saved, st2, {}) /\ st2.conflicts \subseteq saved.conflicts
        BY <2>2, <2>3, ScopeRefers DEF Rows
    <2>. QED
        BY <1>1, <2>4 DEF RefersOnly, Refers
<1>. QED
    BY <1>0, <1>3, <1>4, <1>5 DEF CommitsAs

LEMMA ClaimDueRefers ==
    ASSUME NEW st \in Store, ShapeOK(st), NEW s, s.acct \in Account, s.pid \in ProfileId,
           NEW gen, NEW q \in Claimable(st, s, gen)
    PROVE  RefersOnly(st, ClaimDue(st, q)) /\ Traces(q, InFlight(q)) /\ q \in st.outbox
<1>1. q \in Rows(st.outbox, s) /\ q \in Mutation /\ q.state \in {"pending", "in-flight"}
    BY ClaimedIsAlone DEF Rows, Store
<1>2. Traces(q, InFlight(q))
    BY <1>1 DEF Traces, InFlight, Mutation
<1>3. RefersOnly(st, ClaimDue(st, q))
    <2> DEFINE st2 == ClaimDue(st, q)
    <2>1. CASE q.state = "in-flight"
        <3>1. st2 = st
            BY <2>1 DEF ClaimDue
        <3> HIDE DEF st2
        <3>2. RefersOnly(st, st2)
            BY <3>1, SameRefers
        <3>. QED
            BY <3>2 DEF st2
    <2>2. CASE q.state = "pending"
        <3>1. ScopeBecomes(st, st2, s, {InFlight(q)}, {})
            BY <2>2, ClaimDueEffect
        <3> HIDE DEF st2
        <3>2. RefersOnly(st, st2)
            BY <1>1, <1>2, <3>1, ScopeRefers DEF RefersOnly, Rows
        <3>. QED
            BY <3>2 DEF st2
    <2>. QED
        BY <1>1, <2>1, <2>2
<1>. QED
    BY <1>1, <1>2, <1>3 DEF Rows

LEMMA AcknowledgeRefers ==
    ASSUME NEW st \in Store, ShapeOK(st), Direct(st),
           NEW s, s.acct \in Account, s.pid \in ProfileId,
           NEW gen, NEW mid, CanSettle(st, s, gen, mid),
           NEW version \in Nat, NEW profile \in Profile
    PROVE  RefersOnly(st, Acknowledge(st, s, gen, mid, version, profile))
<1> DEFINE st2 == Acknowledge(st, s, gen, mid, version, profile)
           rows == RebasedRows(st, s, version, profile)
<1>1. ScopeBecomes(st, st2, s, rows, {})
    BY AcknowledgeEffect
<1>2. \A q \in WaitingRows(st, s) : q.baseV = None /\ q \in Mutation
    <2>1. AheadRows(st, s) # {}
        BY SettledIsAhead
    <2>2. ScopeShape(Rows(st.outbox, s), Rows(st.conflicts, s))
        BY ShapeOf
    <2>. QED
        BY <2>1, <2>2 DEF ScopeShape, AheadRows, WaitingRows, Rows, Store
<1>3. \A q \in WaitingRows(st, s) : q.resolves = None
    BY <1>2 DEF Direct, WaitingRows, Rows
<1>4. \A r \in rows : r.resolves = None
    BY <1>2, <1>3 DEF RebasedRows, Rebase, Mutation
<1> HIDE DEF st2, rows
<1>5. RefersOnly(st, st2)
    BY <1>1, <1>4, ScopeRefers DEF RefersOnly
<1>. QED
    BY <1>5 DEF st2

LEMMA StoppedRefers ==
    ASSUME NEW st \in Store, ShapeOK(st), UniqueIds(st),
           NEW s, s.acct \in Account, s.pid \in ProfileId,
           NEW gen, NEW mid, CanSettle(st, s, gen, mid)
    PROVE  /\ \A version, profile, serverId :
                  LET st2 == RecordConflict(st, s, gen, mid, version, profile, serverId)
                  IN  /\ Refers(st, st2, {})
                      /\ \A c \in st2.conflicts :
                             c \in st.conflicts \/ (c.mid = mid /\ c.acct = s.acct /\ c.serverId = serverId)
           /\ RefersOnly(st, FreezeServerEmpty(st, s, gen, mid))
           /\ RefersOnly(st, ScheduleRetry(st, s, gen))
<1> DEFINE q == Settled(st, s, mid)
<1>1. q \in st.outbox /\ q \in Mutation
    BY SettledIsAhead DEF Rows
<1>2. Traces(q, StoppedRow(st, s, mid)) /\ Traces(q, FrozenRow(st, s, mid))
    BY <1>1 DEF Traces, StoppedRow, FrozenRow, Mutation
<1> HIDE DEF q
<1>3. ASSUME NEW version, NEW profile, NEW serverId
      PROVE  LET st2 == RecordConflict(st, s, gen, mid, version, profile, serverId)
             IN  /\ Refers(st, st2, {})
                 /\ \A c \in st2.conflicts :
                        c \in st.conflicts \/ (c.mid = mid /\ c.acct = s.acct /\ c.serverId = serverId)
    <2> DEFINE st2 == RecordConflict(st, s, gen, mid, version, profile, serverId)
               conflict == ConflictOf(st, s, gen, mid, version, profile, serverId)
               rows == WaitingRows(st, s) \cup {StoppedRow(st, s, mid)}
    <2>1. ScopeBecomes(st, st2, s, rows, {conflict})
        BY RecordConflictEffect
    <2>2. conflict.mid = mid /\ conflict.acct = s.acct /\ conflict.serverId = serverId
        BY DEF ConflictOf
    <2>3. \A r \in rows : \E x \in st.outbox : Traces(x, r)
        BY <1>1, <1>2 DEF WaitingRows, Rows, Traces
    <2> HIDE DEF st2, conflict, rows
    <2>4. Refers(st, st2, {})
        BY <2>1, <2>3, ScopeRefers
    <2>5. \A c \in st2.conflicts : c \in st.conflicts \/ c = conflict
        BY <2>1 DEF ScopeBecomes, Outside
    <2>. QED
        BY <2>2, <2>4, <2>5 DEF st2
<1>4. RefersOnly(st, FreezeServerEmpty(st, s, gen, mid))
    <2> DEFINE st2 == FreezeServerEmpty(st, s, gen, mid)
               rows == WaitingRows(st, s) \cup {FrozenRow(st, s, mid)}
    <2>1. ScopeBecomes(st, st2, s, rows, {})
        BY FreezeServerEmptyEffect
    <2>2. \A r \in rows : \E x \in st.outbox : Traces(x, r)
        BY <1>1, <1>2 DEF WaitingRows, Rows, Traces
    <2> HIDE DEF st2, rows
    <2>3. RefersOnly(st, st2)
        BY <2>1, <2>2, ScopeRefers DEF RefersOnly
    <2>. QED
        BY <2>3 DEF st2
<1>5. RefersOnly(st, ScheduleRetry(st, s, gen))
    BY SameRefers DEF ScheduleRetry, Store
<1>. QED
    BY <1>3, <1>4, <1>5

LEMMA DecisionRefers ==
    ASSUME NEW st \in Store, ShapeOK(st), NEW s, s.acct \in Account, s.pid \in ProfileId,
           NEW gen, SessionMeta(st, s, gen) # {}
    PROVE  /\ \A version, profile : RefersOnly(st, AcceptRemote(st, s, gen, version, profile))
           /\ \A id : RefersOnly(st, ForceEnqueue(st, s, gen, id))
           /\ \A c \in Rows(st.conflicts, s) : \A merged, id :
                  LET st2 == Resolve(st, s, gen, c, Pending(st, s), merged, id)
                  IN  /\ Refers(st, st2, {ResolvedRow(st, s, gen, c, merged, id)})
                      /\ st2.conflicts = Outside(st.conflicts, s)
<1>1. ASSUME NEW version, NEW profile
      PROVE  RefersOnly(st, AcceptRemote(st, s, gen, version, profile))
    <2> DEFINE st2 == AcceptRemote(st, s, gen, version, profile)
    <2>1. ScopeBecomes(st, st2, s, {}, {})
        BY AcceptRemoteEffect
    <2> HIDE DEF st2
    <2>2. RefersOnly(st, st2)
        BY <2>1, ScopeRefers DEF RefersOnly
    <2>. QED
        BY <2>2 DEF st2
<1>2. ASSUME NEW id
      PROVE  RefersOnly(st, ForceEnqueue(st, s, gen, id))
    <2> DEFINE st2 == ForceEnqueue(st, s, gen, id)
    <2>1. ScopeBecomes(st, st2, s, {ForcedRow(st, s, gen, id)}, {})
        BY ForceEnqueueEffect
    <2>2. ForcedRow(st, s, gen, id).resolves = None
        BY DEF ForcedRow, NewMutation
    <2> HIDE DEF st2
    <2>3. RefersOnly(st, st2)
        BY <2>1, <2>2, ScopeRefers DEF RefersOnly
    <2>. QED
        BY <2>3 DEF st2
<1>3. ASSUME NEW c \in Rows(st.conflicts, s), NEW merged, NEW id
      PROVE  LET st2 == Resolve(st, s, gen, c, Pending(st, s), merged, id)
             IN  /\ Refers(st, st2, {ResolvedRow(st, s, gen, c, merged, id)})
                 /\ st2.conflicts = Outside(st.conflicts, s)
    <2> DEFINE st2 == Resolve(st, s, gen, c, Pending(st, s), merged, id)
               new == ResolvedRow(st, s, gen, c, merged, id)
    <2>1. ScopeBecomes(st, st2, s, {new}, {})
        BY ResolveEffect
    <2> HIDE DEF st2, new
    <2>2. Refers(st, st2, {new}) /\ st2.conflicts = Outside(st.conflicts, s)
        BY <2>1, ScopeRefers DEF ScopeBecomes
    <2>. QED
        BY <2>2 DEF st2, new
<1>. QED
    BY <1>1, <1>2, <1>3
=============================================================================
