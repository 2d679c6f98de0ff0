-------------------------- MODULE SyncProtocolProofs --------------------------
(***************************************************************************)
(* Theorems about profile synchronisation, for any number of browsers,     *)
(* accounts, profiles, sessions, requests and failures.                    *)
(***************************************************************************)
EXTENDS SyncProtocol, SyncStoreProofs, FiniteSetTheorems

\* The type invariant needs more to be inductive: a request has a base, and an
\* answer that names a version carries its profile.
QueueInv == \A d \in Device : QueueOK(store[d])
PutInv == \A c \in puts : Based(c.mut) /\ (c.reply # None => Telling(c.reply))
LateInv == \A q \in late : Based(q)
LogInv == \A a \in Account : LogOK(server[a])

TypeInv == TypeOK /\ QueueInv /\ PutInv /\ LateInv /\ LogInv

LEMMA InitType == Init => TypeInv
<1> SUFFICES ASSUME Init PROVE TypeInv
    OBVIOUS
<1>1. server \in [Account -> Server] /\ LogInv
    <2>1. \A a \in Account : Seeded[a] # None => Seeded[a] \in Profile
        BY SeededAssumption
    <2>2. \A a \in Account : server[a] \in Server /\ LogOK(server[a])
        <3>1. SUFFICES ASSUME NEW a \in Account PROVE server[a] \in Server /\ LogOK(server[a])
            OBVIOUS
        <3>2. server[a] = IF Seeded[a] = None THEN EmptyServer ELSE SeededServer(Seeded[a])
            BY DEF Init
        <3>. QED
            BY <2>1, <3>2, EmptyServerType, SeededServerType
    <2>. QED
        BY <2>2 DEF Init, LogInv
<1>2. store \in [Device -> Store] /\ QueueInv
    <2>1. PICK body \in [Device -> Body] :
              store = [d \in Device |-> NewStore([pid |-> InitialPid[d], body |-> body[d]], FALSE)]
        BY DEF Init
    <2>2. \A d \in Device : [pid |-> InitialPid[d], body |-> body[d]] \in Profile
        BY <2>1, InitialPidAssumption DEF Profile
    <2>3. \A d \in Device : NewStore([pid |-> InitialPid[d], body |-> body[d]], FALSE) \in Store
        BY <2>2, NewStoreType
    <2>. QED
        BY <2>1, <2>3 DEF QueueInv, QueueOK, NewStore
<1>. QED
    BY <1>1, <1>2 DEF Init, TypeInv, TypeOK, PutInv, LateInv

\* The frames most actions have in common.
LEMMA StoreChanges ==
    ASSUME TypeInv, NEW d \in Device, NEW st \in Store, QueueOK(st), SetStore(d, st)
    PROVE  store' \in [Device -> Store] /\ QueueInv'
BY DEF TypeInv, TypeOK, QueueInv, SetStore

LEMMA ServerChanges ==
    ASSUME TypeInv, NEW a \in Account, NEW sv \in Server, LogOK(sv),
           server' = [server EXCEPT ![a] = sv]
    PROVE  server' \in [Account -> Server] /\ LogInv'
BY DEF TypeInv, TypeOK, LogInv

LEMMA SessionType ==
    ASSUME TypeInv, NEW d \in Device, vault[d] # None
    PROVE  vault[d] \in Session
BY DEF TypeInv, TypeOK

LEMMA DecidedType ==
    ASSUME TypeInv, NEW d \in Device, NEW gen, Decided(d, gen)
    PROVE  vault' \in [Device -> Session \cup {None}]
<1>1. CASE vault' = vault
    BY <1>1 DEF TypeInv, TypeOK
<1>2. CASE vault[d] # None /\ vault' = [vault EXCEPT ![d].pending = FALSE]
    <2>1. [vault[d] EXCEPT !.pending = FALSE] \in Session
        BY <1>2, SessionType DEF Session
    <2>. QED
        BY <1>2, <2>1 DEF TypeInv, TypeOK
<1>. QED
    BY <1>1, <1>2 DEF Decided, CompleteFirstConnection

\* The user's steps keep the types.
LEMMA SaveType ==
    ASSUME TypeInv, NEW d \in Device, NEW p \in Profile, Save(d, p)
    PROVE  TypeInv'
<1>1. store[d] \in Store /\ QueueOK(store[d]) /\ nextId \in Nat
    BY DEF TypeInv, TypeOK, QueueInv
<1>2. store' \in [Device -> Store] /\ QueueInv'
    BY <1>1, CommitProfileType, CommitProfileQueue, StoreChanges DEF Save
<1>3. nextId' \in Nat
    BY <1>1 DEF Save, Fresh
<1>. QED
    BY <1>2, <1>3 DEF Save, calls, TypeInv, TypeOK, PutInv, LateInv, LogInv

LEMMA LoginStartType ==
    ASSUME TypeInv, NEW d \in Device, NEW a \in Account, NEW scope \in AuthScope,
           LoginStart(d, a, scope)
    PROVE  TypeInv'
<1> DEFINE c == [dev |-> d, acct |-> a, gen |-> nextGen, pid |-> store[d].local.pid,
                 version |-> CurrentVersion(server[a]),
                 base |-> IF CurrentProfile(server[a]) = None THEN store[d].local
                          ELSE CurrentProfile(server[a])]
           session == [acct |-> a, gen |-> nextGen, scope |-> scope, pending |-> TRUE]
<1>1. c \in Login
    <2>1. store[d].local \in Profile /\ store[d].local.pid \in ProfileId /\ nextGen \in Nat
        BY DEF TypeInv, TypeOK, Store, Profile
    <2>2. /\ CurrentVersion(server[a]) \in Nat
          /\ CurrentProfile(server[a]) \in Profile \cup {None}
        BY CurrentProfileType DEF TypeInv, TypeOK
    <2>. QED
        BY <2>1, <2>2 DEF Login
<1>2. session \in Session
    BY DEF TypeInv, TypeOK, Session
<1>3. logins' \subseteq Login /\ pulls' \subseteq Pull
    BY <1>1 DEF LoginStart, Others, TypeInv, TypeOK
<1>4. vault' \in [Device -> Session \cup {None}] /\ nextGen' \in Nat
    BY <1>2 DEF LoginStart, TypeInv, TypeOK
<1>. QED
    BY <1>3, <1>4 DEF LoginStart, TypeInv, TypeOK, QueueInv, PutInv, LateInv, LogInv

LEMMA UseLocalType ==
    ASSUME TypeInv, NEW d \in Device, UseLocal(d)
    PROVE  TypeInv'
<1> DEFINE s == [acct |-> vault[d].acct, pid |-> store[d].local.pid]
<1>1. store[d] \in Store /\ QueueOK(store[d]) /\ nextId \in Nat
    BY DEF TypeInv, TypeOK, QueueInv
<1>2. SessionMeta(store[d], s, vault[d].gen) # {}
    BY DEF UseLocal, CanForceEnqueue
<1>3. ForceEnqueue(store[d], s, vault[d].gen, nextId) \in Store
    BY <1>1, <1>2, ForceEnqueueType
<1>4. QueueOK(ForceEnqueue(store[d], s, vault[d].gen, nextId))
    BY <1>1, <1>2, ForceEnqueueQueue
<1>5. store' \in [Device -> Store] /\ QueueInv'
    BY <1>3, <1>4, StoreChanges DEF UseLocal
<1>6. vault' \in [Device -> Session \cup {None}]
    BY DecidedType DEF UseLocal
<1>7. nextId' \in Nat
    BY <1>1 DEF UseLocal, Fresh
<1>. QED
    BY <1>5, <1>6, <1>7 DEF UseLocal, calls, TypeInv, TypeOK, PutInv, LateInv, LogInv

LEMMA PullStartType ==
    ASSUME TypeInv, NEW d \in Device, PullStart(d)
    PROVE  TypeInv'
<1> DEFINE sv == server[vault[d].acct]
           c == [dev |-> d, acct |-> vault[d].acct, pid |-> store[d].local.pid,
                 gen |-> vault[d].gen, rev |-> store[d].rev,
                 version |-> CurrentVersion(sv), remote |-> CurrentProfile(sv)]
<1>1. vault[d] \in Session
    BY SessionType DEF PullStart
<1>2. sv \in Server
    BY <1>1 DEF TypeInv, TypeOK, Session
<1>3. CurrentVersion(sv) \in Nat /\ CurrentProfile(sv) \in Profile
    BY <1>2, CurrentProfileType DEF PullStart
<1>4. store[d].local.pid \in ProfileId /\ store[d].rev \in Nat
    BY DEF TypeInv, TypeOK, Store, Profile
<1>5. c \in Pull
    BY <1>1, <1>3, <1>4 DEF Pull, Session
<1>6. pulls' \subseteq Pull
    BY <1>5 DEF PullStart, Others, TypeInv, TypeOK
<1>. QED
    BY <1>6 DEF PullStart, TypeInv, TypeOK, QueueInv, PutInv, LateInv, LogInv

LEMMA LogoutType ==
    ASSUME TypeInv, NEW d \in Device, Logout(d)
    PROVE  TypeInv'
<1> DEFINE gone == DeactivateAccount(store[d], CHOOSE m \in SyncContext(d) : TRUE, vault[d].gen)
<1>1. store[d] \in Store /\ QueueOK(store[d])
    BY DEF TypeInv, TypeOK, QueueInv
<1>2. gone \in Store
    BY <1>1, DeactivateAccountType
<1>3. gone.outbox = store[d].outbox
    BY <1>1 DEF DeactivateAccount, Store
<1>4. QueueOK(gone)
    BY <1>1, <1>3 DEF QueueOK
<1>5. store' \in [Device -> Store] /\ QueueInv'
    BY <1>1, <1>2, <1>4, StoreChanges DEF Logout
<1>6. vault' \in [Device -> Session \cup {None}]
    BY DEF Logout, TypeInv, TypeOK
<1>7. logins' \subseteq Login /\ pulls' \subseteq Pull
    BY DEF Logout, Others, TypeInv, TypeOK
<1>. QED
    BY <1>5, <1>6, <1>7 DEF Logout, TypeInv, TypeOK, PutInv, LateInv, LogInv

LEMMA ResolveStartType ==
    ASSUME TypeInv, NEW d \in Device, ResolveStart(d)
    PROVE  TypeInv'
<1> DEFINE call(m, c, pid, body) ==
               [dev |-> d, acct |-> m.acct, pid |-> m.pid, gen |-> vault[d].gen,
                rev |-> store[d].rev, conflict |-> c, successor |-> Pending(store[d], m),
                merged |-> [pid |-> pid, body |-> body]]
           to(m, c, pid, body) ==
               Rebased(c.mine, Branch(store[d], m, c), [pid |-> pid, body |-> body])
<1>1. PICK m \in SyncContext(d) : \E c \in Rows(store[d].conflicts, m) :
          \E pid \in Resolutions(c).pid, body \in Resolutions(c).body :
          \E mergedPid \in to(m, c, pid, body).pid, mergedBody \in to(m, c, pid, body).body :
              merges' = merges \cup {call(m, c, mergedPid, mergedBody)}
    BY DEF ResolveStart
<1>2. PICK c \in Rows(store[d].conflicts, m) :
          \E pid \in Resolutions(c).pid, body \in Resolutions(c).body :
          \E mergedPid \in to(m, c, pid, body).pid, mergedBody \in to(m, c, pid, body).body :
              merges' = merges \cup {call(m, c, mergedPid, mergedBody)}
    BY <1>1
<1>3. PICK pid \in Resolutions(c).pid, body \in Resolutions(c).body :
          \E mergedPid \in to(m, c, pid, body).pid, mergedBody \in to(m, c, pid, body).body :
              merges' = merges \cup {call(m, c, mergedPid, mergedBody)}
    BY <1>2
<1>3a. PICK mergedPid \in to(m, c, pid, body).pid, mergedBody \in to(m, c, pid, body).body :
              merges' = merges \cup {call(m, c, mergedPid, mergedBody)}
    BY <1>3
<1>4. /\ store[d] \in Store /\ vault[d] \in Session
      /\ m \in Metadata /\ c \in Conflict
    BY SessionType DEF ResolveStart, Ready, SyncContext, ActiveMeta, Rows, TypeInv, TypeOK, Store
<1>5. Pending(store[d], m) \subseteq Mutation
    BY <1>4, QueriesAreRows DEF Store
<1>6. Branch(store[d], m, c) \in Profile
    <2>1. CASE Pending(store[d], m) = {}
        BY <1>4, <2>1 DEF Branch, Conflict
    <2>2. CASE Pending(store[d], m) # {}
        <3>1. (CHOOSE q \in Pending(store[d], m) : TRUE) \in Mutation
            BY <1>5, <2>2
        <3>. QED
            BY <2>2, <3>1 DEF Branch, Mutation
    <2>. QED
        BY <2>1, <2>2
<1>7. pid \in ProfileId /\ body \in Body
    BY <1>4 DEF Resolutions, MergeScalar, Conflict, Profile
<1>8. mergedPid \in ProfileId /\ mergedBody \in Body
    BY <1>4, <1>6, <1>7 DEF Rebased, MergeScalar, Conflict, Profile
<1>9. merges' \subseteq Merge
    <2>1. [pid |-> mergedPid, body |-> mergedBody] \in Profile
        BY <1>8 DEF Profile
    <2>. QED
        BY <1>3a, <1>4, <1>5, <2>1 DEF Merge, Session, Metadata, Store, TypeInv, TypeOK
<1>. QED
    BY <1>9 DEF ResolveStart, TypeInv, TypeOK, QueueInv, PutInv, LateInv, LogInv

-----------------------------------------------------------------------------
\* The worker's steps keep the types.
LEMMA LoginEndsType ==
    ASSUME TypeInv, NEW c \in logins, LoginActivate(c) \/ LoginFail(c)
    PROVE  TypeInv'
<1>1. c \in Login /\ c.dev \in Device
    BY DEF TypeInv, TypeOK, Login
<1>2. store[c.dev] \in Store /\ QueueOK(store[c.dev])
    BY <1>1 DEF TypeInv, TypeOK, QueueInv
<1>3. CASE LoginActivate(c)
    <2> DEFINE st == ActivateAccount(store[c.dev], c.acct, c.pid, c.gen, c.version, c.base)
    <2>1. st \in Store
        BY <1>1, <1>2, ActivateAccountType DEF Login
    <2>2. st.outbox = store[c.dev].outbox
        BY <1>2 DEF ActivateAccount, Store
    <2>3. QueueOK(st)
        BY <1>2, <2>2 DEF QueueOK
    <2>4. store' \in [Device -> Store] /\ QueueInv'
        BY <1>1, <1>3, <2>1, <2>3, StoreChanges DEF LoginActivate
    <2>. QED
        BY <1>3, <2>4 DEF LoginActivate, TypeInv, TypeOK, PutInv, LateInv, LogInv
<1>4. CASE LoginFail(c)
    <2>1. vault' \in [Device -> Session \cup {None}]
        BY <1>1, <1>4 DEF LoginFail, TypeInv, TypeOK
    <2>. QED
        BY <1>4, <2>1 DEF LoginFail, TypeInv, TypeOK, QueueInv, PutInv, LateInv, LogInv
<1>. QED
    BY <1>3, <1>4

LEMMA PullEndsType ==
    ASSUME TypeInv, NEW c \in pulls, PullApply(c) \/ PullFail(c)
    PROVE  TypeInv'
<1>1. c \in Pull /\ c.dev \in Device
    BY DEF TypeInv, TypeOK, Pull
<1>2. store[c.dev] \in Store /\ QueueOK(store[c.dev])
    BY <1>1 DEF TypeInv, TypeOK, QueueInv
<1>3. CASE PullApply(c)
    <2> DEFINE st == AcceptRemote(store[c.dev], c, c.gen, c.version, c.remote)
    <2>1. st \in Store /\ QueueOK(st)
        BY <1>1, <1>2, <1>3, AcceptRemoteType, AcceptRemoteQueue
        DEF PullApply, CanAcceptRemote, Pull
    <2>2. store' \in [Device -> Store] /\ QueueInv'
        BY <1>1, <1>3, <2>1, StoreChanges DEF PullApply
    <2>3. vault' \in [Device -> Session \cup {None}]
        BY <1>1, <1>3, DecidedType DEF PullApply
    <2>. QED
        BY <1>3, <2>2, <2>3 DEF PullApply, TypeInv, TypeOK, PutInv, LateInv, LogInv
<1>4. CASE PullFail(c)
    BY <1>4 DEF PullFail, TypeInv, TypeOK, QueueInv, PutInv, LateInv, LogInv
<1>. QED
    BY <1>3, <1>4

LEMMA MergeEndsType ==
    ASSUME TypeInv, NEW c \in merges, ResolveCommit(c) \/ ResolveFail(c)
    PROVE  TypeInv'
<1>1. c \in Merge /\ c.dev \in Device
    BY DEF TypeInv, TypeOK, Merge
<1>2. store[c.dev] \in Store /\ QueueOK(store[c.dev]) /\ nextId \in Nat
    BY <1>1 DEF TypeInv, TypeOK, QueueInv
<1>3. CASE ResolveCommit(c)
    <2> DEFINE st == Resolve(store[c.dev], c, c.gen, c.conflict, c.successor, c.merged, nextId)
    <2>1. st \in Store /\ QueueOK(st)
        BY <1>1, <1>2, <1>3, ResolveType, ResolveQueue DEF ResolveCommit, CanResolve, Merge
    <2>2. store' \in [Device -> Store] /\ QueueInv'
        BY <1>1, <1>3, <2>1, StoreChanges DEF ResolveCommit
    <2>3. nextId' \in Nat
        BY <1>2, <1>3 DEF ResolveCommit, Fresh
    <2>. QED
        BY <1>3, <2>2, <2>3 DEF ResolveCommit, TypeInv, TypeOK, PutInv, LateInv, LogInv
<1>4. CASE ResolveFail(c)
    BY <1>4 DEF ResolveFail, TypeInv, TypeOK, QueueInv, PutInv, LateInv, LogInv
<1>. QED
    BY <1>3, <1>4

\* What claimDue hands out is a mutation with a base.
LEMMA ClaimableIsBased ==
    ASSUME NEW st \in Store, QueueOK(st), NEW s, NEW gen, NEW q \in Claimable(st, s, gen)
    PROVE  q \in Mutation /\ Based(q) /\ q \in st.outbox
<1>1. CASE Queued(st, s, "in-flight") # {}
    <2>1. q \in Queued(st, s, "in-flight")
        BY <1>1, FirstIsRow DEF Claimable
    <2>. QED
        BY <2>1 DEF Queued, Rows, Store, QueueOK, Waits
<1>2. CASE Queued(st, s, "in-flight") = {}
    <2>1. q \in Queued(st, s, "pending") /\ q.baseV # None
        BY <1>2, QueriesAreRows DEF Claimable
    <2>. QED
        BY <2>1 DEF Queued, Rows, Store, QueueOK, Waits
<1>. QED
    BY <1>1, <1>2

LEMMA DrainClaimType ==
    ASSUME TypeInv, NEW d \in Device, NEW slot \in Slots, DrainClaim(d, slot)
    PROVE  TypeInv'
<1> DEFINE call(m, q) == [dev |-> d, slot |-> slot, acct |-> m.acct, pid |-> m.pid,
                          gen |-> vault[d].gen, mut |-> InFlight(q), reply |-> None]
<1>1. PICK m \in SyncContext(d) : \E q \in Claimable(store[d], m, vault[d].gen) :
          SetStore(d, ClaimDue(store[d], q)) /\ puts' = puts \cup {call(m, q)}
    BY DEF DrainClaim
<1>2. PICK q \in Claimable(store[d], m, vault[d].gen) :
          SetStore(d, ClaimDue(store[d], q)) /\ puts' = puts \cup {call(m, q)}
    BY <1>1
<1>3. store[d] \in Store /\ QueueOK(store[d]) /\ vault[d] \in Session
    BY SessionType DEF DrainClaim, Ready, TypeInv, TypeOK, QueueInv
<1>4. q \in Mutation /\ Based(q)
    BY <1>3, ClaimableIsBased
<1>5. store' \in [Device -> Store] /\ QueueInv'
    BY <1>2, <1>3, <1>4, ClaimDueType, ClaimDueQueue, StoreChanges
<1>6. call(m, q) \in Put /\ Based(call(m, q).mut)
    <2>1. m \in Metadata
        BY <1>3 DEF SyncContext, ActiveMeta, Store
    <2>2. InFlight(q) \in Mutation /\ Based(InFlight(q))
        BY <1>3, <1>4, InFlightType, ClaimDueQueue
    <2>. QED
        BY <1>3, <2>1, <2>2 DEF Put, Session, Metadata
<1>7. puts' \subseteq Put /\ PutInv'
    BY <1>2, <1>6 DEF TypeInv, TypeOK, PutInv
<1>. QED
    BY <1>5, <1>7 DEF DrainClaim, TypeInv, TypeOK, LateInv, LogInv

\* What a drain call and its mutation are.
LEMMA PutType ==
    ASSUME TypeInv, NEW c \in puts
    PROVE  /\ c \in Put /\ c.dev \in Device /\ c.acct \in Account /\ c.gen \in Nat
           /\ c.pid \in ProfileId
           /\ c.mut \in Mutation /\ Based(c.mut) /\ c.mut.id \in Nat
           /\ store[c.dev] \in Store /\ QueueOK(store[c.dev])
           /\ puts \ {c} \subseteq Put
BY DEF TypeInv, TypeOK, Put, Mutation, QueueInv, PutInv

LEMMA ReplyType ==
    ASSUME TypeInv, NEW c \in puts, c.reply # None
    PROVE  c.reply \in Reply /\ Telling(c.reply)
BY DEF TypeInv, TypeOK, Put, PutInv

\* A call that returns leaves the others as they are.
LEMMA ReturnType ==
    ASSUME TypeInv, NEW c, Return(c)
    PROVE  puts' \subseteq Put /\ PutInv'
BY DEF Return, TypeInv, TypeOK, PutInv

LEMMA DeliverAckType ==
    ASSUME TypeInv, NEW c \in puts, DeliverAck(c)
    PROVE  TypeInv'
<1> DEFINE st == Acknowledge(store[c.dev], c, c.gen, c.mut.id, c.reply.version, c.reply.content)
<1>1. c.reply.version \in Nat /\ c.reply.content \in Profile
    BY ReplyType DEF DeliverAck, Answered, Reply, Telling
<1>2. st \in Store /\ QueueOK(st)
    BY <1>1, PutType, AcknowledgeType, AcknowledgeQueue DEF DeliverAck, CanAcknowledge
<1>3. store' \in [Device -> Store] /\ QueueInv'
    BY <1>2, PutType, StoreChanges DEF DeliverAck
<1>. QED
    BY <1>3, ReturnType DEF DeliverAck, TypeInv, TypeOK, LateInv, LogInv

LEMMA DeliverConflictType ==
    ASSUME TypeInv, NEW c \in puts, DeliverConflict(c)
    PROVE  TypeInv'
<1> DEFINE st == RecordConflict(store[c.dev], c, c.gen, c.mut.id, c.reply.version,
                                c.reply.content, c.reply.cid)
<1>1. c.reply.version \in Nat /\ c.reply.content \in Profile /\ c.reply.cid \in Nat
    BY ReplyType DEF DeliverConflict, Answered, Reply, Telling
<1>2. CanSettle(store[c.dev], c, c.gen, c.mut.id)
    BY DEF DeliverConflict
<1>3. st \in Store
    BY <1>1, <1>2, PutType, RecordConflictType
<1>4. QueueOK(st)
    BY <1>2, PutType, RecordConflictQueue
<1>5. store' \in [Device -> Store] /\ QueueInv'
    BY <1>3, <1>4, PutType, StoreChanges DEF DeliverConflict
<1>. QED
    BY <1>5, ReturnType DEF DeliverConflict, TypeInv, TypeOK, LateInv, LogInv

LEMMA DeliverServerEmptyType ==
    ASSUME TypeInv, NEW c \in puts, DeliverServerEmpty(c)
    PROVE  TypeInv'
<1> DEFINE st == FreezeServerEmpty(store[c.dev], c, c.gen, c.mut.id)
<1>1. CanSettle(store[c.dev], c, c.gen, c.mut.id)
    BY DEF DeliverServerEmpty
<1>2. st \in Store /\ QueueOK(st)
    BY <1>1, PutType, FreezeServerEmptyType, FreezeServerEmptyQueue
<1>3. store' \in [Device -> Store] /\ QueueInv'
    BY <1>2, PutType, StoreChanges DEF DeliverServerEmpty
<1>. QED
    BY <1>3, ReturnType DEF DeliverServerEmpty, TypeInv, TypeOK, LateInv, LogInv

LEMMA RetryLaterType ==
    ASSUME TypeInv, NEW c \in puts, RetryLater(c)
    PROVE  store' \in [Device -> Store] /\ QueueInv'
<1> DEFINE st == IF CanSettle(store[c.dev], c, c.gen, c.mut.id)
                 THEN ScheduleRetry(store[c.dev], c, c.gen) ELSE store[c.dev]
<1>1. st \in Store /\ QueueOK(st)
    BY PutType, ScheduleRetryType, ScheduleRetryQueue
<1>. QED
    BY <1>1, PutType, StoreChanges DEF RetryLater

LEMMA DeliverRefusedType ==
    ASSUME TypeInv, NEW c \in puts, DeliverRefused(c)
    PROVE  TypeInv'
<1>1. store' \in [Device -> Store] /\ QueueInv'
    BY RetryLaterType DEF DeliverRefused, TypeInv, TypeOK, QueueInv
<1>. QED
    BY <1>1, ReturnType DEF DeliverRefused, TypeInv, TypeOK, LateInv, LogInv

LEMMA CallFailsType ==
    ASSUME TypeInv, NEW c \in puts, CallFails(c)
    PROVE  TypeInv'
<1>1. store' \in [Device -> Store] /\ QueueInv'
    BY RetryLaterType DEF CallFails
<1>2. late' \subseteq Mutation /\ LateInv'
    BY PutType DEF CallFails, TypeInv, TypeOK, LateInv
<1>3. faults' \in Nat
    BY DEF CallFails, Faulty, TypeInv, TypeOK
<1>. QED
    BY <1>1, <1>2, <1>3, ReturnType DEF CallFails, TypeInv, TypeOK, LogInv

LEMMA WorkerStopsType ==
    ASSUME TypeInv, NEW d \in Device, WorkerStops(d)
    PROVE  TypeInv'
<1>1. /\ logins' \subseteq logins /\ pulls' \subseteq pulls
      /\ puts' \subseteq puts /\ merges' \subseteq merges
    BY DEF WorkerStops, Others
<1>2. late' \subseteq Mutation /\ LateInv'
    BY PutType DEF WorkerStops, TypeInv, TypeOK, LateInv
<1>3. faults' \in Nat
    BY DEF WorkerStops, Faulty, TypeInv, TypeOK
<1>. QED
    BY <1>1, <1>2, <1>3 DEF WorkerStops, TypeInv, TypeOK, QueueInv, PutInv, LogInv

-----------------------------------------------------------------------------
\* The server's steps keep the types.
LEMMA ServerPutType ==
    ASSUME TypeInv, NEW c \in puts, ServerPut(c)
    PROVE  TypeInv'
<1> DEFINE answered == [c EXCEPT !.reply = AnswerOf(server[c.acct], c.mut)]
<1>1. server[c.acct] \in Server /\ LogOK(server[c.acct])
    BY PutType DEF TypeInv, TypeOK, LogInv
<1>2. server' \in [Account -> Server] /\ LogInv'
    BY <1>1, PutType, ApplySyncMutationType, ServerChanges DEF ServerPut
<1>3. AnswerOf(server[c.acct], c.mut) \in Reply /\ Telling(AnswerOf(server[c.acct], c.mut))
    BY <1>1, PutType, AnswerOfType
<1>4. /\ answered \in Put /\ answered.mut = c.mut
      /\ answered.reply = AnswerOf(server[c.acct], c.mut)
    BY <1>3, PutType DEF Put
<1>5. puts' = (puts \ {c}) \cup {answered}
    BY DEF ServerPut
<1>6. puts' \subseteq Put /\ PutInv'
    BY <1>3, <1>4, <1>5, PutType DEF TypeInv, PutInv
<1>. QED
    BY <1>2, <1>6 DEF ServerPut, TypeInv, TypeOK, QueueInv, LateInv

LEMMA ServerLateType ==
    ASSUME TypeInv, NEW q \in late, ServerLate(q)
    PROVE  TypeInv'
<1>1. q \in Mutation /\ Based(q) /\ q.acct \in Account
    BY DEF TypeInv, TypeOK, LateInv, Mutation
<1>2. server[q.acct] \in Server /\ LogOK(server[q.acct])
    BY <1>1 DEF TypeInv, TypeOK, LogInv
<1>3. server' \in [Account -> Server] /\ LogInv'
    BY <1>1, <1>2, ApplySyncMutationType, ServerChanges DEF ServerLate
<1>. QED
    BY <1>3 DEF ServerLate, TypeInv, TypeOK, QueueInv, PutInv, LateInv

LEMMA AdminType ==
    ASSUME TypeInv, NEW a \in Account, AdminRestores(a) \/ Retention(a)
    PROVE  TypeInv'
<1>1. server[a] \in Server /\ LogOK(server[a])
    BY DEF TypeInv, TypeOK, LogInv
<1>2. CASE AdminRestores(a)
    <2>1. PICK v \in DOMAIN server[a].history :
              server' = [server EXCEPT ![a] = AdminRestore(server[a], v)]
        BY <1>2 DEF AdminRestores
    <2>2. server' \in [Account -> Server] /\ LogInv'
        BY <1>1, <2>1, AdminRestoreType, ServerChanges
    <2>. QED
        BY <1>2, <2>2 DEF AdminRestores, calls, TypeInv, TypeOK, QueueInv, PutInv, LateInv
<1>3. CASE Retention(a)
    <2>1. PICK r \in server[a].log : server' = [server EXCEPT ![a] = Forget(server[a], r.mid)]
        BY <1>3 DEF Retention
    <2>2. server' \in [Account -> Server] /\ LogInv'
        BY <1>1, <2>1, ForgetType, ServerChanges
    <2>. QED
        BY <1>3, <2>2 DEF Retention, calls, TypeInv, TypeOK, QueueInv, PutInv, LateInv
<1>. QED
    BY <1>2, <1>3

-----------------------------------------------------------------------------
\* Every step keeps the types.
LEMMA NextType == TypeInv /\ [Next]_vars => TypeInv'
<1> SUFFICES ASSUME TypeInv, [Next]_vars PROVE TypeInv'
    OBVIOUS
<1>1. CASE UserNext
    BY <1>1, SaveType, LoginStartType, UseLocalType, PullStartType, LogoutType, ResolveStartType
    DEF UserNext
<1>2. CASE WorkerNext
    BY <1>2, LoginEndsType, PullEndsType, MergeEndsType, DrainClaimType, DeliverAckType,
       DeliverConflictType, DeliverServerEmptyType, DeliverRefusedType, CallFailsType,
       WorkerStopsType
    DEF WorkerNext
<1>3. CASE ServerNext
    BY <1>3, ServerPutType, ServerLateType, AdminType DEF ServerNext
<1>4. CASE UNCHANGED vars
    BY <1>4 DEF vars, TypeInv, TypeOK, QueueInv, PutInv, LateInv, LogInv
<1>. QED
    BY <1>1, <1>2, <1>3, <1>4 DEF Next

\* Every store, server, session and call keeps its shape, for any number of
\* browsers, accounts and requests, whatever order they are served in.
THEOREM TypeIsKept == Spec => []TypeOK
<1>1. TypeInv => TypeOK
    BY DEF TypeInv
<1>. QED
    BY <1>1, InitType, NextType, PTL DEF Spec

\* A successor that waits behind a request has no base version to send; none
\* ever goes on the wire before acknowledge or a resolution gave it one, and an
\* answer drain applies as a success or a conflict carries the profile of the
\* version it names (the non-null assertions drain makes on both).
THEOREM WireIsTyped ==
    Spec => [](\A c \in puts : Based(c.mut) /\ (c.reply # None => Telling(c.reply)))
<1>1. TypeInv => \A c \in puts : Based(c.mut) /\ (c.reply # None => Telling(c.reply))
    BY DEF TypeInv, PutInv
<1>. QED
    BY <1>1, InitType, NextType, PTL DEF Spec

-----------------------------------------------------------------------------
\* Mutations and requests are told apart by their id.  What is on the wire is
\* a copy of a mutation frozen in an outbox, and no other mutation has its id.
Sent == {c.mut : c \in puts} \cup late
IsCopy(x) == x \in Sent \/ \E d \in Device : x \in store[d].outbox /\ x.state = "in-flight"
Drawn(id) == 0 < id /\ id < nextId

ShapeInv == \A d \in Device : ShapeOK(store[d])
DrawnInv ==
    /\ nextId > 0
    /\ \A d \in Device : \A q \in store[d].outbox : Drawn(q.id)
    /\ \A x \in Sent : Drawn(x.id) /\ x.state = "in-flight"
OneRow ==
    \A d, e \in Device : \A q \in store[d].outbox, r \in store[e].outbox :
        q.id = r.id => d = e /\ q = r
SentOnce == \A x, y \in Sent : x.id = y.id => x = y
SentRow ==
    \A x \in Sent, d \in Device : \A q \in store[d].outbox :
        q.id = x.id => ~Waiting(q) /\ (q.state = "in-flight" => q = x)
PutScope == \A c \in puts : InScope(c.mut, c) /\ c.mut.gen = c.gen
MergeInv == \A c \in merges : Reading(store[c.dev], c) /\ c.conflict.mid < nextId

IdInv == ShapeInv /\ DrawnInv /\ OneRow /\ SentOnce /\ SentRow /\ PutScope /\ MergeInv

\* A server has seen no id that still waits, and knows the id of a copy only as
\* that copy's.
Unknown(id) ==
    \A a \in Account : /\ \A v \in DOMAIN server[a].history : server[a].history[v].mid # id
                       /\ \A r \in server[a].log : r.mid # id
ServedDrawn ==
    \A a \in Account : /\ \A v \in DOMAIN server[a].history : server[a].history[v].mid < nextId
                       /\ \A r \in server[a].log : r.mid < nextId
Unserved ==
    \A d \in Device : \A q \in store[d].outbox : Waiting(q) => Unknown(q.id)
WrittenAs ==
    \A x : IsCopy(x) => \A a \in Account : \A v \in DOMAIN server[a].history :
        server[a].history[v].mid = x.id => a = x.acct /\ v = x.baseV + 1
LoggedAs ==
    \A x : IsCopy(x) => \A a \in Account : \A r \in server[a].log :
        r.mid = x.id => r.request = Request(x)

ServedInv == ServedDrawn /\ Unserved /\ WrittenAs /\ LoggedAs

\* What a step of a browser may do to the ids: those that wait did so before, or
\* are new; and so do the copies that are new.
WaitingId(id) == \E d \in Device : \E q \in store[d].outbox : Waiting(q) /\ q.id = id
QueueStep ==
    /\ nextId' \in Nat /\ nextId' >= nextId
    /\ \A d \in Device : \A q \in store'[d].outbox : Waiting(q) => q.id = nextId \/ WaitingId(q.id)
    /\ \A x : IsCopy(x)' => IsCopy(x) \/ WaitingId(x.id)

LEMMA HistoryType ==
    ASSUME TypeInv, NEW a \in Account
    PROVE  /\ server[a] \in Server /\ server[a].history \in Seq(Version)
           /\ DOMAIN server[a].history = 1 .. Len(server[a].history)
           /\ \A v \in DOMAIN server[a].history : server[a].history[v] \in Version
<1>1. server[a] \in Server
    BY DEF TypeInv, TypeOK
<1>2. server[a].history \in Seq(Version)
    BY <1>1 DEF Server
<1>. QED
    BY <1>1, <1>2

LEMMA UniqueRows == ASSUME IdInv, NEW d \in Device PROVE UniqueIds(store[d])
BY DEF IdInv, OneRow, UniqueIds

\* A transaction of one browser, with what it puts on the wire.
LEMMA StoreKeepsIds ==
    ASSUME TypeInv, IdInv, NEW d \in Device, NEW st \in Store, SetStore(d, st), NEW fresh,
           Steps(store[d], st, fresh),
           \A id \in fresh : id = nextId /\ nextId' = nextId + 1,
           nextId' \in {nextId, nextId + 1},
           \A x \in Sent' : x \in Sent \/ (x \in st.outbox /\ x.state = "in-flight"),
           PutScope', merges' \subseteq merges
    PROVE  IdInv' /\ QueueStep
<1>1. /\ store' = [store EXCEPT ![d] = st] /\ store \in [Device -> Store]
      /\ store'[d] = st /\ \A e \in Device : e # d => store'[e] = store[e]
      /\ nextId \in Nat /\ nextId' \in Nat /\ nextId' >= nextId
    BY DEF SetStore, TypeInv, TypeOK
<1>2. ShapeInv'
    BY <1>1 DEF IdInv, ShapeInv, Steps
<1>3. \A r \in st.outbox : \/ r \in store[d].outbox
                           \/ Waiting(r) /\ r.id = nextId /\ nextId' = nextId + 1
                           \/ \E q \in store[d].outbox : Becomes(q, r)
    BY DEF Steps, Moves, Follows
<1>4. \A r \in st.outbox : \/ r.id = nextId /\ nextId' = nextId + 1
                           \/ \E q \in store[d].outbox : q.id = r.id
    BY <1>3 DEF Becomes
<1>5. \A e \in Device : \A q \in store[e].outbox : Drawn(q.id) /\ Drawn(q.id)'
    BY <1>1 DEF IdInv, DrawnInv, Drawn, Store, Mutation, TypeInv, TypeOK
<1>6. \A r \in st.outbox : Drawn(r.id)'
    BY <1>1, <1>4, <1>5 DEF Drawn, IdInv, DrawnInv
<1>7. DrawnInv'
    <2>1. \A e \in Device : \A q \in store'[e].outbox : Drawn(q.id)'
        BY <1>1, <1>5, <1>6
    <2>2. \A x \in Sent : Drawn(x.id)' /\ x.state = "in-flight"
        <3>1. \A x \in Sent : x.id \in Nat
            BY PutType DEF Sent, TypeInv, TypeOK, Mutation
        <3>. QED
            BY <1>1, <3>1 DEF IdInv, DrawnInv, Drawn
    <2>3. \A x \in Sent' : Drawn(x.id)' /\ x.state = "in-flight"
        BY <1>6, <2>2
    <2>4. nextId' > 0
        BY <1>1 DEF IdInv, DrawnInv
    <2>. QED
        BY <2>1, <2>3, <2>4 DEF DrawnInv
<1>8. \A e \in Device : e # d => \A q \in store[e].outbox, r \in st.outbox : q.id # r.id
    BY <1>4, <1>5, <1>1 DEF IdInv, OneRow, Drawn
<1>9. OneRow'
    BY <1>1, <1>8 DEF IdInv, OneRow, Steps, Moves, UniqueIds
\* A copy in the browser's new outbox is one it had, or froze a mutation that waited.
<1>10. \A x \in st.outbox : x.state = "in-flight" =>
           \/ x \in store[d].outbox
           \/ \E q \in store[d].outbox : Waiting(q) /\ Becomes(q, x) /\ x = InFlight(q)
    BY <1>3 DEF Becomes, Waiting
<1>11. SentRow'
    <2>1. SUFFICES ASSUME NEW x \in Sent', NEW e \in Device, NEW q \in store'[e].outbox, q.id = x.id
                   PROVE  ~Waiting(q) /\ (q.state = "in-flight" => q = x)
        BY DEF SentRow
    <2>2. CASE x \in st.outbox /\ x.state = "in-flight"
        <3>1. q = x
            BY <1>1, <1>9, <2>1, <2>2 DEF OneRow
        <3>. QED
            BY <2>2, <3>1 DEF Waiting
    <2>3. CASE x \in Sent /\ e # d
        BY <1>1, <2>1, <2>3 DEF IdInv, SentRow
    <2>4. CASE x \in Sent /\ e = d
        <3>1. q \in st.outbox /\ Drawn(x.id)
            BY <1>1, <2>1, <2>4 DEF IdInv, DrawnInv
        <3>2. CASE q \in store[d].outbox
            BY <2>1, <2>4, <3>2 DEF IdInv, SentRow
        <3>3. CASE Waiting(q) /\ q.id = nextId
            BY <1>1, <2>1, <3>1, <3>3 DEF Drawn
        <3>4. CASE \E r \in store[d].outbox : Becomes(r, q)
            <4>1. PICK r \in store[d].outbox : Becomes(r, q)
                BY <3>4
            <4>2. ~Waiting(r)
                BY <2>1, <2>4, <4>1 DEF IdInv, SentRow, Becomes
            <4>. QED
                BY <4>1, <4>2 DEF Becomes, Waiting
        <3>. QED
            BY <1>3, <3>1, <3>2, <3>3, <3>4
    <2>. QED
        BY <2>2, <2>3, <2>4
<1>12. SentOnce'
    <2>1. SUFFICES ASSUME NEW x \in Sent', NEW y \in Sent', x.id = y.id PROVE x = y
        BY DEF SentOnce
    <2>2. \A z \in Sent' : z \notin Sent => z \in st.outbox /\ z.state = "in-flight"
        OBVIOUS
    <2>3. CASE x \in Sent /\ y \in Sent
        BY <2>1, <2>3 DEF IdInv, SentOnce
    <2>4. CASE x \notin Sent
        BY <1>1, <1>11, <2>1, <2>2, <2>4 DEF SentRow
    <2>5. CASE y \notin Sent
        BY <1>1, <1>11, <2>1, <2>2, <2>5 DEF SentRow
    <2>. QED
        BY <2>3, <2>4, <2>5
<1>13. \A r \in st.outbox : Waiting(r) =>
           r.id = nextId \/ \E q \in store[d].outbox : Waiting(q) /\ q.id = r.id
    BY <1>3 DEF Becomes, Waiting
<1>14. \A e \in Device : \A r \in store'[e].outbox : Waiting(r) => r.id = nextId \/ WaitingId(r.id)
    BY <1>1, <1>13 DEF WaitingId
\* A copy was one before, or is of a mutation that waited.
<1>15. \A x : IsCopy(x)' => IsCopy(x) \/ WaitingId(x.id)
    <2>1. SUFFICES ASSUME NEW x, IsCopy(x)', ~IsCopy(x)
                   PROVE  WaitingId(x.id)
        OBVIOUS
    <2>2. x \in st.outbox /\ x.state = "in-flight"
        BY <1>1, <2>1 DEF IsCopy
    <2>3. x \notin store[d].outbox
        BY <2>1, <2>2 DEF IsCopy
    <2>4. PICK q \in store[d].outbox : Waiting(q) /\ q.id = x.id
        BY <1>10, <2>2, <2>3 DEF Becomes
    <2>. QED
        BY <2>4 DEF WaitingId
<1>16. MergeInv'
    <2>1. SUFFICES ASSUME NEW c \in merges PROVE Reading(store'[c.dev], c) /\ c.conflict.mid < nextId'
        BY DEF MergeInv
    <2>2. Reading(store[c.dev], c) /\ c.conflict.mid < nextId /\ c.dev \in Device
          /\ c.conflict.mid \in Nat
        BY DEF IdInv, MergeInv, TypeInv, TypeOK, Merge, Conflict
    <2>3. c.conflict.mid \notin fresh
        BY <1>1, <2>2
    <2>. QED
        BY <1>1, <2>2, <2>3 DEF Steps
<1>. QED
    BY <1>1, <1>2, <1>7, <1>9, <1>11, <1>12, <1>14, <1>15, <1>16 DEF IdInv, QueueStep

\* A step that does not touch the outboxes.
LEMMA QuietKeepsIds ==
    ASSUME TypeInv, IdInv, store' = store, nextId' = nextId, Sent' \subseteq Sent,
           PutScope', MergeInv'
    PROVE  IdInv' /\ QueueStep
<1>1. ShapeInv' /\ OneRow' /\ DrawnInv'
    BY DEF IdInv, ShapeInv, OneRow, DrawnInv, Drawn
<1>2. SentOnce' /\ SentRow'
    BY DEF IdInv, SentOnce, SentRow
<1>3. \A x : IsCopy(x)' => IsCopy(x)
    BY DEF IsCopy
<1>4. QueueStep
    BY <1>3 DEF QueueStep, WaitingId, TypeInv, TypeOK
<1>. QED
    BY <1>1, <1>2, <1>4 DEF IdInv

\* What waits, and what was just frozen, is unknown to the servers.
LEMMA BrowserKeepsServed ==
    ASSUME TypeInv, IdInv, ServedInv, QueueStep, server' = server
    PROVE  ServedInv'
<1>1. nextId \in Nat /\ nextId' \in Nat /\ nextId' >= nextId
    BY DEF TypeInv, TypeOK, QueueStep
<1>2. ServedDrawn'
    <2>1. \A a \in Account : \A v \in DOMAIN server[a].history : server[a].history[v].mid \in Nat
        BY HistoryType DEF Version
    <2>2. \A a \in Account : \A r \in server[a].log : r.mid \in Nat
        BY DEF TypeInv, TypeOK, Server, Response
    <2>. QED
        BY <1>1, <2>1, <2>2 DEF ServedInv, ServedDrawn
<1>3. Unknown(nextId) /\ \A id : WaitingId(id) => Unknown(id)
    BY <1>1 DEF ServedInv, ServedDrawn, Unserved, WaitingId, Unknown
<1>4. \A id : Unknown(id) => Unknown(id)'
    BY DEF Unknown
<1>5. Unserved'
    BY <1>3, <1>4 DEF QueueStep, Unserved
<1>6. WrittenAs' /\ LoggedAs'
    BY <1>3 DEF QueueStep, ServedInv, WrittenAs, LoggedAs, Unknown
<1>. QED
    BY <1>2, <1>5, <1>6 DEF ServedInv

\* Copies with the same id are the same.
LEMMA CopiesAreOne ==
    ASSUME IdInv, NEW x \in Sent, NEW y, IsCopy(y), y.id = x.id
    PROVE  y = x
BY DEF IdInv, SentOnce, SentRow, IsCopy

\* A request is served: the only id the server learns is the one of a copy.
LEMMA ServingKeepsIds ==
    ASSUME TypeInv, IdInv, ServedInv, NEW x \in Sent,
           server' = [server EXCEPT ![x.acct] = ApplySyncMutation(@, x)],
           store' = store, nextId' = nextId, Sent' \subseteq Sent
    PROVE  ServedInv'
<1> DEFINE sv == server[x.acct]
           sv2 == ApplySyncMutation(sv, x)
<1>1. x \in Mutation /\ Based(x) /\ x.acct \in Account
    BY PutType DEF Sent, TypeInv, TypeOK, LateInv, Mutation
<1>2. /\ sv \in Server /\ sv.history \in Seq(Version)
      /\ DOMAIN sv.history = 1 .. Len(sv.history)
      /\ server'[x.acct] = sv2
      /\ \A a \in Account : a # x.acct => server'[a] = server[a]
    BY <1>1, HistoryType DEF TypeInv, TypeOK
<1>3. /\ \/ sv2.history = sv.history
         \/ sv2.history = Append(sv.history, Written(x)) /\ x.baseV = Len(sv.history)
      /\ \A r \in sv2.log : r \in sv.log \/ (r.mid = x.id /\ r.request = Request(x))
    BY <1>1, <1>2, ApplyGrows
\* A version or a response of the server is an old one, or the request's.
<1>4. \A a \in Account : \A v \in DOMAIN server'[a].history :
          \/ v \in DOMAIN server[a].history /\ server'[a].history[v] = server[a].history[v]
          \/ a = x.acct /\ v = x.baseV + 1 /\ server'[a].history[v].mid = x.id
    <2> DEFINE longer == Append(sv.history, Written(x))
    <2>1. /\ DOMAIN longer = DOMAIN sv.history \cup {Len(sv.history) + 1}
          /\ longer[Len(sv.history) + 1] = Written(x)
          /\ \A v \in DOMAIN sv.history : longer[v] = sv.history[v]
        BY <1>1, <1>2, WrittenType, AppendGrows
    <2>2. Written(x).mid = x.id
        BY DEF Written
    <2> HIDE DEF longer
    <2>3. \A v \in DOMAIN sv2.history :
              \/ v \in DOMAIN sv.history /\ sv2.history[v] = sv.history[v]
              \/ v = x.baseV + 1 /\ sv2.history[v].mid = x.id
        BY <1>3, <2>1, <2>2 DEF longer
    <2>. QED
        BY <1>2, <2>3
<1>5. \A a \in Account : \A r \in server'[a].log :
          r \in server[a].log \/ (r.mid = x.id /\ r.request = Request(x))
    BY <1>2, <1>3
<1> HIDE DEF sv, sv2
<1>6. ServedDrawn'
    <2>1. x.id < nextId
        BY DEF IdInv, DrawnInv, Drawn
    <2>. QED
        BY <1>4, <1>5, <2>1 DEF ServedInv, ServedDrawn
<1>7. Unserved'
    <2>1. \A d \in Device : \A q \in store[d].outbox : Waiting(q) => q.id # x.id
        BY DEF IdInv, SentRow
    <2>. QED
        BY <1>4, <1>5, <2>1 DEF ServedInv, Unserved, Unknown
<1>8. \A y : IsCopy(y)' => IsCopy(y) /\ (y.id = x.id => y = x)
    BY CopiesAreOne DEF IsCopy
<1>9. WrittenAs' /\ LoggedAs'
    <2>1. SUFFICES ASSUME NEW y, IsCopy(y), y.id = x.id => y = x, NEW a \in Account
                   PROVE  /\ \A v \in DOMAIN server'[a].history :
                                 server'[a].history[v].mid = y.id => a = y.acct /\ v = y.baseV + 1
                          /\ \A r \in server'[a].log : r.mid = y.id => r.request = Request(y)
        BY <1>8 DEF WrittenAs, LoggedAs
    <2>. QED
        BY <1>4, <1>5, <2>1 DEF ServedInv, WrittenAs, LoggedAs
<1>. QED
    BY <1>6, <1>7, <1>9 DEF ServedInv

\* What an administrator or the retention does draws no id.
LEMMA AdminKeepsIds ==
    ASSUME TypeInv, IdInv, ServedInv, NEW a \in Account, AdminRestores(a) \/ Retention(a)
    PROVE  ServedInv'
<1>1. server[a] \in Server /\ server[a].history \in Seq(Version)
    BY HistoryType
<1>2. /\ store' = store /\ nextId' = nextId /\ Sent' = Sent /\ puts' = puts /\ merges' = merges
      /\ \A b \in Account : b # a => server'[b] = server[b]
    BY DEF AdminRestores, Retention, calls, Sent, TypeInv, TypeOK
<1>3. /\ \A v \in DOMAIN server'[a].history :
             \/ v \in DOMAIN server[a].history /\ server'[a].history[v] = server[a].history[v]
             \/ server'[a].history[v].mid = 0
      /\ server'[a].log \subseteq server[a].log
    <2>1. CASE AdminRestores(a)
        <3>1. PICK v \in DOMAIN server[a].history :
                  server' = [server EXCEPT ![a] = AdminRestore(server[a], v)]
            BY <2>1 DEF AdminRestores
        <3>2. server'[a] = AdminRestore(server[a], v)
            BY <3>1 DEF TypeInv, TypeOK
        <3> DEFINE sv == server[a]
                   new == [content |-> sv.history[v].content,
                           base |-> sv.history[Len(sv.history)].content, mid |-> 0]
                   longer == Append(sv.history, new)
        <3>3. /\ new \in Version /\ new.mid = 0
              /\ server'[a].history = longer /\ server'[a].log = sv.log
            BY <1>1, <3>2, RestoreGrows
        <3> HIDE DEF new
        <3>4. /\ DOMAIN longer = DOMAIN sv.history \cup {Len(sv.history) + 1}
              /\ longer[Len(sv.history) + 1] = new
              /\ \A w \in DOMAIN sv.history : longer[w] = sv.history[w]
            BY <1>1, <3>3, AppendGrows
        <3>. QED
            BY <3>3, <3>4
    <2>2. CASE Retention(a)
        <3>1. PICK r \in server[a].log : server' = [server EXCEPT ![a] = Forget(server[a], r.mid)]
            BY <2>2 DEF Retention
        <3>2. server'[a] = Forget(server[a], r.mid)
            BY <3>1 DEF TypeInv, TypeOK
        <3>. QED
            BY <1>1, <3>2 DEF Forget, Server
    <2>. QED
        BY <2>1, <2>2
<1>4. \A b \in Account :
          /\ \A v \in DOMAIN server'[b].history :
                 \/ v \in DOMAIN server[b].history /\ server'[b].history[v] = server[b].history[v]
                 \/ server'[b].history[v].mid = 0
          /\ server'[b].log \subseteq server[b].log
    BY <1>2, <1>3
<1>5. ServedDrawn'
    <2>1. nextId > 0
        BY DEF IdInv, DrawnInv
    <2>. QED
        BY <1>2, <1>4, <2>1 DEF ServedInv, ServedDrawn
<1>6. \A d \in Device : \A q \in store[d].outbox : q.id # 0
    BY DEF IdInv, DrawnInv, Drawn
<1>7. Unserved'
    BY <1>2, <1>4, <1>6 DEF ServedInv, Unserved, Unknown
<1>8. \A x : IsCopy(x)' => IsCopy(x) /\ x.id # 0
    BY <1>2, <1>6 DEF IsCopy, IdInv, DrawnInv, Drawn
<1>9. WrittenAs' /\ LoggedAs'
    BY <1>4, <1>8 DEF ServedInv, WrittenAs, LoggedAs
<1>. QED
    BY <1>5, <1>7, <1>9 DEF ServedInv

-----------------------------------------------------------------------------
\* The first state, and every step, action by action.
LEMMA InitIds == Init => IdInv /\ ServedInv
<1> SUFFICES ASSUME Init PROVE IdInv /\ ServedInv
    OBVIOUS
<1>1. \A d \in Device : store[d].outbox = {} /\ store[d].conflicts = {}
    BY DEF Init, NewStore
<1>2. Sent = {} /\ merges = {} /\ puts = {} /\ nextId = 1
    BY DEF Init, Sent
<1>3. ShapeInv
    <2>1. SUFFICES ASSUME NEW d \in Device, NEW s \in Scope
                   PROVE  ScopeShape(Rows(store[d].outbox, s), Rows(store[d].conflicts, s))
        BY DEF ShapeInv, ShapeOK
    <2>2. Rows(store[d].outbox, s) = {} /\ Rows(store[d].conflicts, s) = {}
        BY <1>1 DEF Rows
    <2>. QED
        BY <2>2 DEF ScopeShape
<1>4. \A a \in Account : server[a].log = {} /\ \A v \in DOMAIN server[a].history :
                             server[a].history[v].mid = 0
    <2>1. SUFFICES ASSUME NEW a \in Account
                   PROVE  server[a].log = {} /\ \A v \in DOMAIN server[a].history :
                                                    server[a].history[v].mid = 0
        OBVIOUS
    <2>2. CASE Seeded[a] = None
        <3>1. server[a] = EmptyServer
            BY <2>2 DEF Init
        <3>. QED
            BY <3>1 DEF EmptyServer
    <2>3. CASE Seeded[a] # None
        <3>1. server[a] = SeededServer(Seeded[a])
            BY <2>3 DEF Init
        <3>2. /\ server[a].log = {}
              /\ server[a].history = <<[content |-> Seeded[a], base |-> Seeded[a], mid |-> 0]>>
            BY <3>1 DEF SeededServer, EmptyServer
        <3>. QED
            BY <3>2
    <2>. QED
        BY <2>2, <2>3
<1>. QED
    BY <1>1, <1>2, <1>3, <1>4
    DEF IdInv, DrawnInv, OneRow, SentOnce, SentRow, PutScope, MergeInv, ServedInv, ServedDrawn,
        Unserved, WrittenAs, LoggedAs, IsCopy

\* The id drawn next is no row's.
LEMMA FreshId ==
    ASSUME TypeInv, IdInv, NEW d \in Device
    PROVE  /\ nextId \in Nat /\ store[d] \in Store
           /\ ShapeOK(store[d]) /\ UniqueIds(store[d])
           /\ \A q \in store[d].outbox : q.id # nextId
BY UniqueRows DEF TypeInv, TypeOK, IdInv, ShapeInv, DrawnInv, Drawn

LEMMA StoreAfter ==
    ASSUME TypeInv, TypeInv', NEW d \in Device, NEW st, SetStore(d, st)
    PROVE  st \in Store /\ store'[d] = st /\ \A e \in Device : e # d => store'[e] = store[e]
<1>1. store'[d] = st /\ \A e \in Device : e # d => store'[e] = store[e]
    BY DEF SetStore, TypeInv, TypeOK
<1>. QED
    BY <1>1 DEF TypeInv, TypeOK

LEMMA FewerCalls ==
    ASSUME IdInv, puts' \subseteq puts, late' \subseteq late \cup {c.mut : c \in puts}
    PROVE  Sent' \subseteq Sent /\ PutScope'
BY DEF Sent, IdInv, PutScope

\* A transaction that draws no id and sends nothing.
LEMMA PlainKeepsIds ==
    ASSUME TypeInv, IdInv, TypeInv', NEW d \in Device, NEW st, SetStore(d, st),
           Steps(store[d], st, {}), nextId' = nextId,
           puts' \subseteq puts, late' \subseteq late \cup {c.mut : c \in puts},
           merges' \subseteq merges
    PROVE  IdInv' /\ QueueStep
<1>1. st \in Store
    BY StoreAfter
<1>. QED
    BY <1>1, FewerCalls, StoreKeepsIds

\* One that draws the next id.
LEMMA DrawingKeepsIds ==
    ASSUME TypeInv, IdInv, TypeInv', NEW d \in Device, NEW st, SetStore(d, st),
           Steps(store[d], st, {nextId}), Fresh,
           puts' = puts, late' = late, merges' \subseteq merges
    PROVE  IdInv' /\ QueueStep
<1>1. st \in Store
    BY StoreAfter
<1>2. nextId' = nextId + 1
    BY DEF Fresh
<1>. QED
    BY <1>1, <1>2, FewerCalls, StoreKeepsIds

LEMMA SaveIds ==
    ASSUME TypeInv, IdInv, TypeInv', NEW d \in Device, NEW p \in Profile, Save(d, p)
    PROVE  IdInv' /\ QueueStep
<1>1. CASE p = store[d].local
    <2>1. Steps(store[d], CommitProfile(store[d], p, nextId), {})
        BY <1>1, FreshId, CommitProfileSteps
    <2>. QED
        BY <1>1, <2>1, PlainKeepsIds DEF Save, calls
<1>2. CASE p # store[d].local
    <2>1. Steps(store[d], CommitProfile(store[d], p, nextId), {nextId})
        BY <1>2, FreshId, CommitProfileSteps
    <2>. QED
        BY <1>2, <2>1, DrawingKeepsIds DEF Save, calls
<1>. QED
    BY <1>1, <1>2

\* Calls that begin or end without a transaction.
LEMMA QuietCallIds ==
    ASSUME TypeInv, IdInv, store' = store, nextId' = nextId,
           puts' \subseteq puts, late' \subseteq late \cup {c.mut : c \in puts},
           merges' \subseteq merges
    PROVE  IdInv' /\ QueueStep
<1>1. MergeInv'
    BY DEF IdInv, MergeInv
<1>. QED
    BY <1>1, FewerCalls, QuietKeepsIds

LEMMA LoginIds ==
    ASSUME TypeInv, IdInv, TypeInv', NEW c \in logins, LoginActivate(c) \/ LoginFail(c)
    PROVE  IdInv' /\ QueueStep
<1>1. CASE LoginActivate(c)
    <2> DEFINE st == ActivateAccount(store[c.dev], c.acct, c.pid, c.gen, c.version, c.base)
    <2>1. c.dev \in Device
        BY DEF TypeInv, TypeOK, Login
    <2>2. /\ st.outbox = store[c.dev].outbox /\ st.conflicts = store[c.dev].conflicts
          /\ st.rev = store[c.dev].rev /\ st.rev \in Nat
        BY <2>1 DEF ActivateAccount, Store, TypeInv, TypeOK
    <2>3. Steps(store[c.dev], st, {})
        <3> HIDE DEF st
        <3>. QED
            BY <2>1, <2>2, FreshId, SameQueueSteps
    <2>. QED
        BY <1>1, <2>1, <2>3, PlainKeepsIds DEF LoginActivate
<1>2. CASE LoginFail(c)
    BY <1>2, QuietCallIds DEF LoginFail
<1>. QED
    BY <1>1, <1>2

LEMMA LogoutIds ==
    ASSUME TypeInv, IdInv, TypeInv', NEW d \in Device, Logout(d)
    PROVE  IdInv' /\ QueueStep
<1> DEFINE st == IF SyncContext(d) = {} THEN store[d]
                 ELSE DeactivateAccount(store[d], CHOOSE m \in SyncContext(d) : TRUE, vault[d].gen)
<1>1. /\ st.outbox = store[d].outbox /\ st.conflicts = store[d].conflicts
      /\ st.rev = store[d].rev /\ st.rev \in Nat
    BY DEF DeactivateAccount, Store, TypeInv, TypeOK
<1>2. Steps(store[d], st, {})
    <2> HIDE DEF st
    <2>. QED
        BY <1>1, FreshId, SameQueueSteps
<1>. QED
    BY <1>2, PlainKeepsIds DEF Logout

LEMMA UseLocalIds ==
    ASSUME TypeInv, IdInv, TypeInv', NEW d \in Device, UseLocal(d)
    PROVE  IdInv' /\ QueueStep
<1> DEFINE s == [acct |-> vault[d].acct, pid |-> store[d].local.pid]
           gen == vault[d].gen
<1>1. SessionMeta(store[d], s, gen) # {}
    BY DEF UseLocal, CanForceEnqueue
<1>2. s.acct \in Account /\ s.pid \in ProfileId
    BY SessionType DEF UseLocal, Session, TypeInv, TypeOK, Store, Profile
<1>3. Steps(store[d], ForceEnqueue(store[d], s, gen, nextId), {nextId})
    <2> HIDE DEF s, gen
    <2>. QED
        BY <1>1, <1>2, FreshId, DecisionSteps
<1>. QED
    BY <1>3, DrawingKeepsIds DEF UseLocal, calls

LEMMA PullIds ==
    ASSUME TypeInv, IdInv, TypeInv', NEW c \in pulls, PullApply(c) \/ PullFail(c)
    PROVE  IdInv' /\ QueueStep
<1>1. CASE PullApply(c)
    <2>1. c.dev \in Device /\ c.acct \in Account /\ c.pid \in ProfileId
        BY DEF TypeInv, TypeOK, Pull
    <2>2. SessionMeta(store[c.dev], c, c.gen) # {}
        BY <1>1 DEF PullApply, CanAcceptRemote
    <2>3. Steps(store[c.dev], AcceptRemote(store[c.dev], c, c.gen, c.version, c.remote), {})
        BY <2>1, <2>2, FreshId, DecisionSteps
    <2>. QED
        BY <1>1, <2>1, <2>3, PlainKeepsIds DEF PullApply
<1>2. CASE PullFail(c)
    BY <1>2, QuietCallIds DEF PullFail
<1>. QED
    BY <1>1, <1>2

\* A conflict kept in a store is about a mutation of its outbox.
LEMMA ConflictRow ==
    ASSUME TypeInv, IdInv, NEW d \in Device, NEW c \in store[d].conflicts
    PROVE  \E q \in store[d].outbox : InScope(q, c) /\ q.state = "conflict" /\ q.id = c.mid
<1>1. store[d] \in Store /\ ShapeOK(store[d])
    BY FreshId
<1>2. ScopeOf(c) \in Scope /\ InScope(c, ScopeOf(c))
    BY <1>1, RowsHaveScope
<1>3. ScopeShape(Rows(store[d].outbox, ScopeOf(c)), Rows(store[d].conflicts, ScopeOf(c)))
    BY <1>1, <1>2 DEF ShapeOK
<1>4. PICK q \in Rows(store[d].outbox, ScopeOf(c)) : q.state = "conflict" /\ q.id = c.mid
    BY <1>2, <1>3 DEF ScopeShape, Rows
<1>. QED
    BY <1>2, <1>4 DEF Rows, InScope

\* What resolveConflict has read when it starts.
LEMMA ResolveStartReads ==
    ASSUME TypeInv, NEW d \in Device, ResolveStart(d)
    PROVE  \E m \in SyncContext(d) : \E c \in Rows(store[d].conflicts, m) : \E merged :
               merges' = merges \cup
                   {[dev |-> d, acct |-> m.acct, pid |-> m.pid, gen |-> vault[d].gen,
                     rev |-> store[d].rev, conflict |-> c, successor |-> Pending(store[d], m),
                     merged |-> merged]}
BY DEF ResolveStart

LEMMA ResolveStartIds ==
    ASSUME TypeInv, IdInv, NEW d \in Device, ResolveStart(d)
    PROVE  IdInv' /\ QueueStep
<1> DEFINE call(m, c, merged) ==
               [dev |-> d, acct |-> m.acct, pid |-> m.pid, gen |-> vault[d].gen,
                rev |-> store[d].rev, conflict |-> c, successor |-> Pending(store[d], m),
                merged |-> merged]
<1>1. PICK m \in SyncContext(d) : \E c \in Rows(store[d].conflicts, m) : \E merged :
          merges' = merges \cup {call(m, c, merged)}
    BY ResolveStartReads
<1>2. PICK c \in Rows(store[d].conflicts, m) : \E merged : merges' = merges \cup {call(m, c, merged)}
    BY <1>1
<1>8. PICK merged : merges' = merges \cup {call(m, c, merged)}
    BY <1>2
<1>3. /\ c \in store[d].conflicts /\ InScope(c, m) /\ store[d].rev \in Nat
      /\ \A st, x : Pending(st, m) = Pending(st, x) \/ ~InScope(x, m)
    BY <1>2 DEF Rows, TypeInv, TypeOK, Store, Pending, Queued, InScope
<1>4. Reading(store[d], call(m, c, merged))
    BY <1>3 DEF Reading, InScope, Pending, Queued, Rows
<1>5. c.mid < nextId
    BY <1>3, ConflictRow DEF IdInv, DrawnInv, Drawn
<1>6. MergeInv'
    <2>1. SUFFICES ASSUME NEW x \in merges'
                   PROVE  Reading(store[x.dev], x) /\ x.conflict.mid < nextId
        BY DEF MergeInv, ResolveStart
    <2>2. CASE x \in merges
        BY <2>2 DEF IdInv, MergeInv
    <2>3. CASE x = call(m, c, merged)
        BY <1>4, <1>5, <2>3
    <2>. QED
        BY <1>8, <2>2, <2>3
<1>7. Sent' \subseteq Sent /\ PutScope'
    BY DEF ResolveStart, Sent, IdInv, PutScope
<1>. QED
    BY <1>6, <1>7, QuietKeepsIds DEF ResolveStart

LEMMA MergeIds ==
    ASSUME TypeInv, IdInv, TypeInv', NEW c \in merges, ResolveCommit(c) \/ ResolveFail(c)
    PROVE  IdInv' /\ QueueStep
<1>1. CASE ResolveCommit(c)
    <2>1. c.dev \in Device /\ c.acct \in Account /\ c.pid \in ProfileId
        BY DEF TypeInv, TypeOK, Merge
    <2>2. /\ SessionMeta(store[c.dev], c, c.gen) # {}
          /\ c.conflict \in Rows(store[c.dev].conflicts, c) /\ store[c.dev].rev = c.rev
        BY <1>1 DEF ResolveCommit, CanResolve
    <2>3. c.successor = Pending(store[c.dev], c)
        BY <2>2 DEF IdInv, MergeInv, Reading, Rows
    <2>4. Steps(store[c.dev],
                Resolve(store[c.dev], c, c.gen, c.conflict, c.successor, c.merged, nextId), {nextId})
        BY <2>1, <2>2, <2>3, FreshId, DecisionSteps
    <2>. QED
        BY <1>1, <2>1, <2>4, DrawingKeepsIds DEF ResolveCommit
<1>2. CASE ResolveFail(c)
    BY <1>2, QuietCallIds DEF ResolveFail
<1>. QED
    BY <1>1, <1>2

LEMMA DrainClaimIds ==
    ASSUME TypeInv, IdInv, TypeInv', NEW d \in Device, NEW slot \in Slots, DrainClaim(d, slot)
    PROVE  IdInv' /\ QueueStep
<1> DEFINE call(m, q) == [dev |-> d, slot |-> slot, acct |-> m.acct, pid |-> m.pid,
                          gen |-> vault[d].gen, mut |-> InFlight(q), reply |-> None]
<1>1. PICK m \in SyncContext(d) : \E q \in Claimable(store[d], m, vault[d].gen) :
          SetStore(d, ClaimDue(store[d], q)) /\ puts' = puts \cup {call(m, q)}
    BY DEF DrainClaim
<1>2. PICK q \in Claimable(store[d], m, vault[d].gen) :
          SetStore(d, ClaimDue(store[d], q)) /\ puts' = puts \cup {call(m, q)}
    BY <1>1
<1>3. m \in Metadata /\ m.acct \in Account /\ m.pid \in ProfileId
    BY DEF SyncContext, ActiveMeta, TypeInv, TypeOK, Store, Metadata
<1>4. /\ Steps(store[d], ClaimDue(store[d], q), {})
      /\ InFlight(q) \in ClaimDue(store[d], q).outbox
    BY <1>2, <1>3, FreshId, ClaimDueSteps
<1>5. q \in Rows(store[d].outbox, m) /\ q.gen = vault[d].gen /\ q \in Mutation
    BY <1>2, <1>3, FreshId, ClaimedIsAlone DEF Rows, Store
<1>6. InFlight(q).state = "in-flight" /\ InScope(InFlight(q), m) /\ InFlight(q).gen = q.gen
    BY <1>5 DEF InFlight, InScope, Rows, Mutation
<1> DEFINE st == ClaimDue(store[d], q)
<1>7. \A x \in Sent' : x \in Sent \/ (x \in st.outbox /\ x.state = "in-flight")
    BY <1>2, <1>4, <1>6 DEF DrainClaim, Sent
<1>8. PutScope'
    BY <1>2, <1>5, <1>6 DEF IdInv, PutScope, InScope
<1>9. st \in Store
    BY <1>2, StoreAfter
<1>. QED
    BY <1>2, <1>4, <1>7, <1>8, <1>9, StoreKeepsIds DEF DrainClaim, TypeInv, TypeOK

LEMMA DeliverIds ==
    ASSUME TypeInv, IdInv, TypeInv', NEW c \in puts,
           DeliverAck(c) \/ DeliverConflict(c) \/ DeliverServerEmpty(c)
    PROVE  IdInv' /\ QueueStep
<1>1. /\ c.dev \in Device /\ c.acct \in Account /\ c.pid \in ProfileId
      /\ CanSettle(store[c.dev], c, c.gen, c.mut.id)
    BY PutType DEF DeliverAck, CanAcknowledge, DeliverConflict, DeliverServerEmpty
<1>2. CASE DeliverAck(c)
    <2> DEFINE st == Acknowledge(store[c.dev], c, c.gen, c.mut.id, c.reply.version, c.reply.content)
    <2>1. c.reply.version \in Nat /\ c.reply.content \in Profile
        BY <1>2, ReplyType DEF DeliverAck, Answered, Reply, Telling
    <2>2. Steps(store[c.dev], st, {})
        BY <1>1, <2>1, FreshId, SettleSteps
    <2>. QED
        BY <1>1, <1>2, <2>2, PlainKeepsIds DEF DeliverAck, Return
<1>3. CASE DeliverConflict(c)
    <2> DEFINE st == RecordConflict(store[c.dev], c, c.gen, c.mut.id, c.reply.version,
                                    c.reply.content, c.reply.cid)
    <2>2. Steps(store[c.dev], st, {})
        BY <1>1, FreshId, SettleSteps
    <2>. QED
        BY <1>1, <1>3, <2>2, PlainKeepsIds DEF DeliverConflict, Return
<1>4. CASE DeliverServerEmpty(c)
    <2>2. Steps(store[c.dev], FreezeServerEmpty(store[c.dev], c, c.gen, c.mut.id), {})
        BY <1>1, FreshId, SettleSteps
    <2>. QED
        BY <1>1, <1>4, <2>2, PlainKeepsIds DEF DeliverServerEmpty, Return
<1>. QED
    BY <1>2, <1>3, <1>4

\* scheduleRetry, or nothing: the queue is as it was.
LEMMA RetrySteps ==
    ASSUME TypeInv, IdInv, NEW c \in puts
    PROVE  Steps(store[c.dev], IF CanSettle(store[c.dev], c, c.gen, c.mut.id)
                               THEN ScheduleRetry(store[c.dev], c, c.gen) ELSE store[c.dev], {})
<1>1. c.dev \in Device /\ c.acct \in Account /\ c.pid \in ProfileId
    BY PutType
<1>2. Steps(store[c.dev], store[c.dev], {})
    BY <1>1, FreshId, SameQueueSteps DEF Store
<1>3. ASSUME CanSettle(store[c.dev], c, c.gen, c.mut.id)
      PROVE  Steps(store[c.dev], ScheduleRetry(store[c.dev], c, c.gen), {})
    BY <1>1, <1>3, FreshId, SettleSteps
<1>. QED
    BY <1>2, <1>3

LEMMA GivenUpIds ==
    ASSUME TypeInv, IdInv, TypeInv', NEW c \in puts, DeliverRefused(c) \/ CallFails(c)
    PROVE  IdInv' /\ QueueStep
<1>1. /\ nextId' = nextId /\ puts' \subseteq puts /\ merges' = merges
      /\ late' \subseteq late \cup {x.mut : x \in puts}
    BY DEF DeliverRefused, CallFails, Return
<1>2. CASE RetryLater(c)
    BY <1>1, <1>2, PutType, RetrySteps, PlainKeepsIds DEF RetryLater
<1>3. CASE UNCHANGED store
    BY <1>1, <1>3, QuietCallIds
<1>. QED
    BY <1>2, <1>3 DEF DeliverRefused, CallFails

LEMMA WorkerStopsIds ==
    ASSUME TypeInv, IdInv, NEW d \in Device, WorkerStops(d)
    PROVE  IdInv' /\ QueueStep
BY QuietCallIds DEF WorkerStops, Others

\* The backend's steps leave the browsers' ids alone.
LEMMA ServedIds ==
    ASSUME TypeInv, IdInv
    PROVE  /\ \A c \in puts : ServerPut(c) => IdInv' /\ QueueStep /\ Sent' \subseteq Sent
           /\ \A q \in late : ServerLate(q) => IdInv' /\ QueueStep /\ Sent' \subseteq Sent
<1>1. ASSUME NEW c \in puts, ServerPut(c)
      PROVE  IdInv' /\ QueueStep /\ Sent' \subseteq Sent
    <2> DEFINE answered == [c EXCEPT !.reply = AnswerOf(server[c.acct], c.mut)]
    <2>1. c \in Put /\ InScope(c.mut, c) /\ c.mut \in Sent
        BY PutType DEF IdInv, PutScope, Sent
    <2>2. /\ answered.mut = c.mut /\ answered.acct = c.acct /\ answered.pid = c.pid
          /\ answered.gen = c.gen
        BY <2>1 DEF Put
    <2>3. puts' = (puts \ {c}) \cup {answered} /\ late' = late
        BY <1>1 DEF ServerPut
    <2> HIDE DEF answered
    <2>4. Sent' \subseteq Sent
        BY <2>1, <2>2, <2>3 DEF Sent
    <2>5. PutScope'
        BY <2>1, <2>2, <2>3 DEF IdInv, PutScope, InScope
    <2>6. MergeInv'
        BY <1>1 DEF ServerPut, IdInv, MergeInv
    <2>. QED
        BY <1>1, <2>4, <2>5, <2>6, QuietKeepsIds DEF ServerPut
<1>2. ASSUME NEW q \in late, ServerLate(q)
      PROVE  IdInv' /\ QueueStep /\ Sent' \subseteq Sent
    <2>1. Sent' \subseteq Sent /\ PutScope' /\ MergeInv'
        BY <1>2 DEF Sent, ServerLate, IdInv, PutScope, MergeInv
    <2>. QED
        BY <1>2, <2>1, QuietKeepsIds DEF ServerLate
<1>. QED
    BY <1>1, <1>2

LEMMA AdminIds ==
    ASSUME TypeInv, IdInv, NEW a \in Account, AdminRestores(a) \/ Retention(a)
    PROVE  IdInv' /\ QueueStep
BY QuietCallIds DEF AdminRestores, Retention, calls

LEMMA UserIds ==
    ASSUME TypeInv, IdInv, TypeInv', UserNext
    PROVE  IdInv' /\ QueueStep /\ server' = server
<1>1. \A d \in Device, a \in Account, scope \in AuthScope :
          LoginStart(d, a, scope) => IdInv' /\ QueueStep
    BY QuietCallIds DEF LoginStart
<1>2. \A d \in Device : PullStart(d) => IdInv' /\ QueueStep
    BY QuietCallIds DEF PullStart
<1>3. server' = server
    BY DEF UserNext, Save, LoginStart, UseLocal, PullStart, Logout, ResolveStart
<1>. QED
    BY <1>1, <1>2, <1>3, SaveIds, UseLocalIds, LogoutIds, ResolveStartIds DEF UserNext

LEMMA WorkerIds ==
    ASSUME TypeInv, IdInv, TypeInv', WorkerNext
    PROVE  IdInv' /\ QueueStep /\ server' = server
<1>1. server' = server
    BY DEF WorkerNext, LoginActivate, LoginFail, PullApply, PullFail, ResolveCommit, ResolveFail,
           DrainClaim, DeliverAck, DeliverConflict, DeliverServerEmpty, DeliverRefused, CallFails,
           WorkerStops
<1>. QED
    BY <1>1, LoginIds, PullIds, MergeIds, DrainClaimIds, DeliverIds, GivenUpIds, WorkerStopsIds
    DEF WorkerNext

LEMMA NextIds == TypeInv /\ IdInv /\ TypeInv' /\ [Next]_vars => IdInv'
<1> SUFFICES ASSUME TypeInv, IdInv, TypeInv', [Next]_vars PROVE IdInv'
    OBVIOUS
<1>1. CASE ServerNext
    BY <1>1, ServedIds, AdminIds DEF ServerNext
<1>2. CASE UNCHANGED vars
    BY <1>2, QuietCallIds DEF vars
<1>. QED
    BY <1>1, <1>2, UserIds, WorkerIds DEF Next

LEMMA NextServed == TypeInv /\ IdInv /\ ServedInv /\ TypeInv' /\ [Next]_vars => ServedInv'
<1> SUFFICES ASSUME TypeInv, IdInv, ServedInv, TypeInv', [Next]_vars PROVE ServedInv'
    OBVIOUS
<1>1. ASSUME NEW c \in puts, ServerPut(c) PROVE ServedInv'
    <2>1. c.mut \in Sent /\ c.mut.acct = c.acct /\ Sent' \subseteq Sent
        BY <1>1, ServedIds DEF Sent, IdInv, PutScope, InScope
    <2>. QED
        BY <1>1, <2>1, ServingKeepsIds DEF ServerPut
<1>2. ASSUME NEW q \in late, ServerLate(q) PROVE ServedInv'
    <2>1. q \in Sent /\ Sent' \subseteq Sent
        BY <1>2, ServedIds DEF Sent
    <2>. QED
        BY <1>2, <2>1, ServingKeepsIds DEF ServerLate
<1>3. CASE ServerNext
    BY <1>1, <1>2, <1>3, AdminKeepsIds DEF ServerNext
<1>4. CASE UNCHANGED vars
    <2>1. QueueStep /\ server' = server
        BY <1>4, QuietCallIds DEF vars
    <2>. QED
        BY <2>1, BrowserKeepsServed
<1>. QED
    BY <1>3, <1>4, UserIds, WorkerIds, BrowserKeepsServed DEF Next

\* A scope's queue in that shape, counted.
LEMMA AtMostOne ==
    ASSUME NEW S, \A x, y \in S : x = y
    PROVE  IsFiniteSet(S) /\ Cardinality(S) <= 1
<1>1. CASE S = {}
    BY <1>1, FS_EmptySet
<1>2. CASE S # {}
    <2>1. PICK x : x \in S
        BY <1>2
    <2>2. S = {x}
        BY <2>1
    <2>3. IsFiniteSet({x}) /\ Cardinality({x}) = 1
        BY FS_Singleton
    <2>. QED
        BY <2>2, <2>3
<1>. QED
    BY <1>1, <1>2

LEMMA ShapeIsOutboxShape == TypeInv /\ ShapeInv => OutboxShape
<1> SUFFICES ASSUME TypeInv, ShapeInv, NEW d \in Device, NEW s \in Scope
             PROVE  LET rows == Rows(store[d].outbox, s)
                        waiting == {q \in rows : q.state = "pending"}
                        ahead == rows \ waiting
                        stopped == {q \in ahead : q.state = "conflict" /\ ~q.terminal}
                    IN  /\ Cardinality(waiting) <= 1 /\ Cardinality(ahead) <= 1
                        /\ \A q \in waiting : (q.baseV = None) <=> (ahead # {})
                        /\ {c.mid : c \in Rows(store[d].conflicts, s)} = {q.id : q \in stopped}
                        /\ Cardinality(Rows(store[d].conflicts, s)) <= 1
    BY DEF OutboxShape
<1> DEFINE rows == Rows(store[d].outbox, s)
           conflicts == Rows(store[d].conflicts, s)
           waiting == {q \in rows : q.state = "pending"}
           ahead == rows \ waiting
           stopped == {q \in ahead : q.state = "conflict" /\ ~q.terminal}
<1>1. ScopeShape(rows, conflicts)
    BY DEF ShapeInv, ShapeOK
<1> HIDE DEF rows, conflicts
<1>2. Cardinality(waiting) <= 1 /\ Cardinality(ahead) <= 1
    BY <1>1, AtMostOne DEF ScopeShape, Waiting
<1>3. Cardinality(conflicts) <= 1
    BY <1>1, AtMostOne DEF ScopeShape
<1>4. \A q \in waiting : (q.baseV = None) <=> (ahead # {})
    BY <1>1 DEF ScopeShape, Waiting
<1>5. {c.mid : c \in conflicts} = {q.id : q \in stopped}
    BY <1>1 DEF ScopeShape, Waiting
<1>. QED
    BY <1>2, <1>3, <1>4, <1>5 DEF rows, conflicts

\* At most one mutation of a scope waits and at most one is ahead of it, it
\* has no base exactly when one is, and the conflict kept is about the one a
\* conflict stopped (commitProfile's coalescing behind a blocker, and every
\* transaction that settles or drops one).
THEOREM QueueHasItsShape == Spec => []OutboxShape
<1>1. TypeInv /\ IdInv => OutboxShape
    BY ShapeIsOutboxShape DEF IdInv
<1>2. Init => TypeInv /\ IdInv
    BY InitType, InitIds
<1>3. TypeInv /\ IdInv /\ [Next]_vars => (TypeInv /\ IdInv)'
    BY NextType, NextIds
<1>. QED
    BY <1>1, <1>2, <1>3, PTL DEF Spec

\* No two requests on the wire under one id differ, and the server never
\* knows an id as another request than its copies are: what an idempotency
\* key identifies stays one mutation (nothing answers 409 IDEMPOTENCY_MISMATCH).
Identified ==
    /\ \A x, y \in Sent : x.id = y.id => x = y
    /\ \A x \in Sent, a \in Account : \A r \in server[a].log :
           r.mid = x.id => r.request = Request(x)

THEOREM IdsIdentify == Spec => []Identified
<1>1. IdInv /\ ServedInv => Identified
    BY DEF IdInv, ServedInv, SentOnce, LoggedAs, IsCopy, Identified
<1>2. Init => TypeInv /\ IdInv /\ ServedInv
    BY InitType, InitIds
<1>3. TypeInv /\ IdInv /\ ServedInv /\ [Next]_vars => (TypeInv /\ IdInv /\ ServedInv)'
    BY NextType, NextIds, NextServed
<1>. QED
    BY <1>1, <1>2, <1>3, PTL DEF Spec

-----------------------------------------------------------------------------
\* What the servers hold, and what the sessions in G believe them to hold: a
\* row, a request, an answer or a call that names a version knows its content.
Known == {t \in Account \X Nat \X Profile : Holds(server[t[1]], t[2], t[3])}

Answers(K, G, c) ==
    c.reply # None /\ c.gen \in G /\ (c.reply.status = "ok" \/ c.reply.version > 0) =>
        <<c.acct, c.reply.version, c.reply.content>> \in K

BeliefsIn(K, G) ==
    /\ \A d \in Device : Knows(K, G, store[d])
    /\ \A x \in Sent : Trusted(K, G, x)
    /\ \A c \in pulls : c.gen \in G => <<c.acct, c.version, c.remote>> \in K
    /\ \A c \in logins : c.gen \in G /\ c.version # 0 => <<c.acct, c.version, c.base>> \in K
    /\ \A c \in puts : Answers(K, G, c)

LogsHold == \A a \in Account : LogHolds(server[a])
OkSays == \A c \in puts : c.reply # None /\ c.reply.status = "ok" => c.reply.content = c.mut.content

BeliefInv == BeliefsIn(Known, Nat) /\ LogsHold /\ OkSays

LEMMA KnownIs ==
    \A a \in Account, v \in Nat, p \in Profile : <<a, v, p>> \in Known <=> Holds(server[a], v, p)
BY DEF Known

LEMMA BeliefsMore ==
    ASSUME NEW K, NEW L, K \subseteq L, NEW G, NEW H, H \subseteq G, BeliefsIn(K, G)
    PROVE  BeliefsIn(L, H)
<1>1. \A d \in Device : Knows(L, H, store[d])
    BY DEF BeliefsIn, Knows, Trusted, Sighted
<1>2. \A x \in Sent : Trusted(L, H, x)
    BY DEF BeliefsIn, Trusted
<1>3. \A c \in puts : Answers(L, H, c)
    BY DEF BeliefsIn, Answers
<1>. QED
    BY <1>1, <1>2, <1>3 DEF BeliefsIn

\* What is read from a server is known of it.
LEMMA ReadIsKnown ==
    ASSUME TypeInv, NEW a \in Account, CurrentVersion(server[a]) # 0
    PROVE  /\ <<a, CurrentVersion(server[a]), CurrentProfile(server[a])>> \in Known
           /\ CurrentProfile(server[a]) \in Profile /\ CurrentProfile(server[a]) # None
<1>1. server[a] \in Server /\ server[a].history \in Seq(Version)
    BY HistoryType
<1>2. CurrentVersion(server[a]) \in Nat /\ CurrentProfile(server[a]) \in Profile
    BY <1>1, CurrentProfileType
<1>3. Holds(server[a], CurrentVersion(server[a]), CurrentProfile(server[a]))
    BY <1>1 DEF Holds, CurrentVersion, CurrentProfile
<1>. QED
    BY <1>2, <1>3, KnownIs, NoneIsNoProfile

\* A transaction of one browser, whatever it reads from its calls.
LEMMA StoreKeepsBeliefs ==
    ASSUME TypeInv, NEW K, NEW G, BeliefsIn(K, G), NEW d \in Device, NEW st, SetStore(d, st),
           Knows(K, G, st), Sent' \subseteq Sent, puts' \subseteq puts,
           pulls' \subseteq pulls, logins' \subseteq logins
    PROVE  BeliefsIn(K, G)'
<1>1. \A e \in Device : Knows(K, G, store'[e])
    BY DEF BeliefsIn, SetStore, TypeInv, TypeOK
<1>. QED
    BY <1>1 DEF BeliefsIn, Trusted, Answers

LEMMA CallsKeepBeliefs ==
    ASSUME NEW K, NEW G, BeliefsIn(K, G), store' = store,
           Sent' \subseteq Sent, puts' \subseteq puts,
           pulls' \subseteq pulls, logins' \subseteq logins
    PROVE  BeliefsIn(K, G)'
BY DEF BeliefsIn, Trusted, Answers

\* The users' steps.
LEMMA SaveBeliefs ==
    ASSUME TypeInv, NEW K, NEW G, BeliefsIn(K, G), NEW d \in Device, NEW p \in Profile, Save(d, p)
    PROVE  BeliefsIn(K, G)'
<1>1. Knows(K, G, CommitProfile(store[d], p, nextId))
    BY CommitProfileKnows DEF BeliefsIn, TypeInv, TypeOK
<1>. QED
    BY <1>1, StoreKeepsBeliefs DEF Save, calls, Sent

LEMMA LoginStartBeliefs ==
    ASSUME TypeInv, NEW K, Known \subseteq K, NEW G, BeliefsIn(K, G),
           NEW d \in Device, NEW a \in Account, NEW scope \in AuthScope, LoginStart(d, a, scope)
    PROVE  BeliefsIn(K, G)'
<1> DEFINE c == [dev |-> d, acct |-> a, gen |-> nextGen, pid |-> store[d].local.pid,
                 version |-> CurrentVersion(server[a]),
                 base |-> IF CurrentProfile(server[a]) = None THEN store[d].local
                          ELSE CurrentProfile(server[a])]
<1>1. c.version # 0 => <<c.acct, c.version, c.base>> \in K
    BY ReadIsKnown
<1>2. logins' \subseteq logins \cup {c} /\ pulls' \subseteq pulls
    BY DEF LoginStart, Others
<1>3. store' = store /\ puts' = puts /\ Sent' = Sent
    BY DEF LoginStart, Sent
<1> HIDE DEF c
<1>. QED
    BY <1>1, <1>2, <1>3 DEF BeliefsIn, Trusted, Answers

LEMMA PullStartBeliefs ==
    ASSUME TypeInv, NEW K, Known \subseteq K, NEW G, BeliefsIn(K, G),
           NEW d \in Device, PullStart(d)
    PROVE  BeliefsIn(K, G)'
<1> DEFINE sv == server[vault[d].acct]
           c == [dev |-> d, acct |-> vault[d].acct, pid |-> store[d].local.pid,
                 gen |-> vault[d].gen, rev |-> store[d].rev,
                 version |-> CurrentVersion(sv), remote |-> CurrentProfile(sv)]
<1>1. vault[d].acct \in Account /\ CurrentVersion(sv) # 0
    BY SessionType DEF PullStart, Session
<1>2. <<c.acct, c.version, c.remote>> \in K
    BY <1>1, ReadIsKnown
<1>3. pulls' \subseteq pulls \cup {c} /\ logins' = logins /\ store' = store /\ puts' = puts
      /\ Sent' = Sent
    BY DEF PullStart, Others, Sent
<1> HIDE DEF c
<1>. QED
    BY <1>2, <1>3 DEF BeliefsIn, Trusted, Answers

LEMMA UseLocalBeliefs ==
    ASSUME TypeInv, NEW K, NEW G, BeliefsIn(K, G), NEW d \in Device, UseLocal(d)
    PROVE  BeliefsIn(K, G)'
<1> DEFINE s == [acct |-> vault[d].acct, pid |-> store[d].local.pid]
           st == ForceEnqueue(store[d], s, vault[d].gen, nextId)
<1>1. Knows(K, G, st)
    BY ForceEnqueueKnows DEF UseLocal, CanForceEnqueue, BeliefsIn, TypeInv, TypeOK
<1>. QED
    BY <1>1, StoreKeepsBeliefs DEF UseLocal, calls, Sent

LEMMA LogoutBeliefs ==
    ASSUME TypeInv, NEW K, NEW G, BeliefsIn(K, G), NEW d \in Device, Logout(d)
    PROVE  BeliefsIn(K, G)'
<1> DEFINE st == IF SyncContext(d) = {} THEN store[d]
                 ELSE DeactivateAccount(store[d], CHOOSE m \in SyncContext(d) : TRUE, vault[d].gen)
<1>1. Knows(K, G, st)
    BY DeactivateKnows DEF BeliefsIn, TypeInv, TypeOK
<1>. QED
    BY <1>1, StoreKeepsBeliefs DEF Logout, Others, Sent

\* The worker's steps.
LEMMA LoginBeliefs ==
    ASSUME TypeInv, NEW K, NEW G, BeliefsIn(K, G), NEW c \in logins, LoginActivate(c) \/ LoginFail(c)
    PROVE  BeliefsIn(K, G)'
<1>1. CASE LoginActivate(c)
    <2>1. c.dev \in Device /\ store[c.dev] \in Store
        BY DEF TypeInv, TypeOK, Login
    <2>2. Knows(K, G, ActivateAccount(store[c.dev], c.acct, c.pid, c.gen, c.version, c.base))
        BY <2>1, ActivateKnows DEF BeliefsIn
    <2>. QED
        BY <1>1, <2>1, <2>2, StoreKeepsBeliefs DEF LoginActivate, Sent
<1>2. CASE LoginFail(c)
    BY <1>2, CallsKeepBeliefs DEF LoginFail, Sent
<1>. QED
    BY <1>1, <1>2

LEMMA PullBeliefs ==
    ASSUME TypeInv, NEW K, NEW G, BeliefsIn(K, G), NEW c \in pulls, PullApply(c) \/ PullFail(c)
    PROVE  BeliefsIn(K, G)'
<1>1. CASE PullApply(c)
    <2>1. c.dev \in Device /\ store[c.dev] \in Store
        BY DEF TypeInv, TypeOK, Pull
    <2>2. Knows(K, G, AcceptRemote(store[c.dev], c, c.gen, c.version, c.remote))
        BY <1>1, <2>1, AcceptRemoteKnows DEF BeliefsIn, PullApply, CanAcceptRemote
    <2>. QED
        BY <1>1, <2>1, <2>2, StoreKeepsBeliefs DEF PullApply, Sent
<1>2. CASE PullFail(c)
    BY <1>2, CallsKeepBeliefs DEF PullFail, Sent
<1>. QED
    BY <1>1, <1>2

LEMMA MergeBeliefs ==
    ASSUME TypeInv, NEW K, NEW G, BeliefsIn(K, G), NEW c \in merges, ResolveCommit(c) \/ ResolveFail(c)
    PROVE  BeliefsIn(K, G)'
<1>1. CASE ResolveCommit(c)
    <2>1. c.dev \in Device /\ store[c.dev] \in Store
        BY DEF TypeInv, TypeOK, Merge
    <2>2. Knows(K, G, Resolve(store[c.dev], c, c.gen, c.conflict, c.successor, c.merged, nextId))
        BY <1>1, <2>1, ResolveKnows DEF BeliefsIn, ResolveCommit, CanResolve
    <2>. QED
        BY <1>1, <2>1, <2>2, StoreKeepsBeliefs DEF ResolveCommit, Sent
<1>2. CASE ResolveFail(c)
    BY <1>2, CallsKeepBeliefs DEF ResolveFail, Sent
<1>. QED
    BY <1>1, <1>2

LEMMA DrainClaimBeliefs ==
    ASSUME TypeInv, NEW K, NEW G, BeliefsIn(K, G),
           NEW d \in Device, NEW slot \in Slots, DrainClaim(d, slot)
    PROVE  BeliefsIn(K, G)'
<1> DEFINE call(m, q) == [dev |-> d, slot |-> slot, acct |-> m.acct, pid |-> m.pid,
                          gen |-> vault[d].gen, mut |-> InFlight(q), reply |-> None]
<1>1. PICK m \in SyncContext(d) : \E q \in Claimable(store[d], m, vault[d].gen) :
          SetStore(d, ClaimDue(store[d], q)) /\ puts' = puts \cup {call(m, q)}
    BY DEF DrainClaim
<1>2. PICK q \in Claimable(store[d], m, vault[d].gen) :
          SetStore(d, ClaimDue(store[d], q)) /\ puts' = puts \cup {call(m, q)}
    BY <1>1
<1>3. q \in store[d].outbox /\ store[d] \in Store
    BY <1>2, ClaimableIsBased DEF TypeInv, TypeOK, QueueInv
<1>4. Knows(K, G, ClaimDue(store[d], q)) /\ Trusted(K, G, InFlight(q))
    BY <1>3, ClaimDueKnows DEF BeliefsIn
<1>5. \A e \in Device : Knows(K, G, store'[e])
    BY <1>2, <1>4 DEF BeliefsIn, SetStore, TypeInv, TypeOK
<1>6. \A x \in Sent' : Trusted(K, G, x)
    <2>1. Sent' \subseteq Sent \cup {InFlight(q)}
        BY <1>2 DEF DrainClaim, Sent
    <2>. QED
        BY <1>4, <2>1 DEF BeliefsIn
<1>7. \A c \in puts' : Answers(K, G, c)
    BY <1>2 DEF BeliefsIn, Answers
<1>. QED
    BY <1>5, <1>6, <1>7 DEF BeliefsIn, DrainClaim

LEMMA DeliverBeliefs ==
    ASSUME TypeInv, NEW K, NEW G, BeliefsIn(K, G), NEW c \in puts,
           DeliverAck(c) \/ DeliverConflict(c) \/ DeliverServerEmpty(c)
    PROVE  BeliefsIn(K, G)'
<1>1. /\ c.dev \in Device /\ store[c.dev] \in Store /\ Knows(K, G, store[c.dev])
      /\ Answers(K, G, c)
    BY PutType DEF BeliefsIn
<1>2. CASE DeliverAck(c)
    <2> DEFINE st == Acknowledge(store[c.dev], c, c.gen, c.mut.id, c.reply.version, c.reply.content)
    <2>1. Knows(K, G, st)
        BY <1>1, <1>2, AcknowledgeKnows DEF DeliverAck, Answered, Answers
    <2>. QED
        BY <1>1, <1>2, <2>1, StoreKeepsBeliefs DEF DeliverAck, Return, Sent
<1>3. CASE DeliverConflict(c)
    <2> DEFINE st == RecordConflict(store[c.dev], c, c.gen, c.mut.id, c.reply.version,
                                    c.reply.content, c.reply.cid)
    <2>1. Knows(K, G, st)
        BY <1>1, <1>3, RecordConflictKnows DEF DeliverConflict, Answered, Answers
    <2>. QED
        BY <1>1, <1>3, <2>1, StoreKeepsBeliefs DEF DeliverConflict, Return, Sent
<1>4. CASE DeliverServerEmpty(c)
    <2>1. Knows(K, G, FreezeServerEmpty(store[c.dev], c, c.gen, c.mut.id))
        BY <1>1, <1>4, FreezeServerEmptyKnows DEF DeliverServerEmpty
    <2>. QED
        BY <1>1, <1>4, <2>1, StoreKeepsBeliefs DEF DeliverServerEmpty, Return, Sent
<1>. QED
    BY <1>2, <1>3, <1>4

LEMMA GivenUpBeliefs ==
    ASSUME TypeInv, NEW K, NEW G, BeliefsIn(K, G), NEW c \in puts, DeliverRefused(c) \/ CallFails(c)
    PROVE  BeliefsIn(K, G)'
<1>1. /\ puts' \subseteq puts /\ pulls' = pulls /\ logins' = logins /\ Sent' \subseteq Sent
    BY DEF DeliverRefused, CallFails, Return, Sent
<1>2. CASE RetryLater(c)
    <2> DEFINE st == IF CanSettle(store[c.dev], c, c.gen, c.mut.id)
                     THEN ScheduleRetry(store[c.dev], c, c.gen) ELSE store[c.dev]
    <2>1. c.dev \in Device /\ store[c.dev] \in Store /\ Knows(K, G, store[c.dev])
        BY PutType DEF BeliefsIn
    <2>2. Knows(K, G, st)
        BY <2>1, ScheduleRetryKnows DEF CanSettle
    <2>. QED
        BY <1>1, <1>2, <2>1, <2>2, StoreKeepsBeliefs DEF RetryLater
<1>3. CASE UNCHANGED store
    BY <1>1, <1>3, CallsKeepBeliefs
<1>. QED
    BY <1>2, <1>3 DEF DeliverRefused, CallFails

LEMMA WorkerStopsBeliefs ==
    ASSUME NEW K, NEW G, BeliefsIn(K, G), NEW d \in Device, WorkerStops(d)
    PROVE  BeliefsIn(K, G)'
BY CallsKeepBeliefs DEF WorkerStops, Others, Sent

\* A step of a browser: what the servers hold does not change, and what its
\* sessions believe stays within it.
LEMMA BrowserBeliefs ==
    ASSUME TypeInv, NEW K, Known \subseteq K, NEW G, BeliefsIn(K, G), UserNext \/ WorkerNext
    PROVE  BeliefsIn(K, G)'
<1>1. ASSUME NEW d \in Device, ResolveStart(d)
      PROVE  BeliefsIn(K, G)'
    BY <1>1, CallsKeepBeliefs DEF ResolveStart, Sent
<1>2. CASE UserNext
    BY <1>1, <1>2, SaveBeliefs, LoginStartBeliefs, UseLocalBeliefs, PullStartBeliefs, LogoutBeliefs
    DEF UserNext
<1>3. CASE WorkerNext
    BY <1>3, LoginBeliefs, PullBeliefs, MergeBeliefs, DrainClaimBeliefs, DeliverBeliefs,
       GivenUpBeliefs, WorkerStopsBeliefs
    DEF WorkerNext
<1>. QED
    BY <1>2, <1>3

\* A request is served: the server holds what it held, and one more version
\* perhaps; its answer tells the truth.
LEMMA ServedHolds ==
    ASSUME TypeInv, LogsHold, NEW a \in Account, NEW x \in Mutation, Based(x),
           server' = [server EXCEPT ![a] = ApplySyncMutation(@, x)]
    PROVE  /\ Known \subseteq Known' /\ LogsHold'
           /\ LET r == AnswerOf(server[a], x)
              IN  /\ r.status = "ok" \/ r.version > 0 =>
                         r \in Reply /\ <<a, r.version, r.content>> \in Known'
                  /\ r.status = "ok" => r.content = x.content
<1> DEFINE sv == server[a]
           sv2 == ApplySyncMutation(sv, x)
           r == AnswerOf(sv, x)
<1>1. sv \in Server /\ LogOK(sv) /\ LogHolds(sv)
    BY DEF TypeInv, TypeOK, LogInv, LogsHold
<1>2. server'[a] = sv2 /\ \A b \in Account : b # a => server'[b] = server[b]
    BY DEF TypeInv, TypeOK
<1>3. \A v, content : Holds(sv, v, content) => Holds(sv2, v, content)
    BY <1>1, HoldsOn
<1>4. LogHolds(sv2)
    BY <1>1, ApplyHolds
<1>5. r \in Reply /\ Telling(r) /\ Truthful(sv2, r) /\ (r.status = "ok" => r.content = x.content)
    BY <1>1, AnswerOfType, AnswerHolds
<1> HIDE DEF sv, sv2, r
<1>6. Known \subseteq Known'
    BY <1>2, <1>3 DEF Known, sv
<1>7. LogsHold'
    BY <1>2, <1>4 DEF LogsHold
<1>8. r.status = "ok" \/ r.version > 0 => <<a, r.version, r.content>> \in Known'
    <2>1. SUFFICES ASSUME r.status = "ok" \/ r.version > 0
                   PROVE  <<a, r.version, r.content>> \in Known'
        OBVIOUS
    <2>2. r.version \in Nat /\ r.content \in Profile /\ Holds(sv2, r.version, r.content)
        BY <1>5, <2>1 DEF Reply, Telling, Truthful
    <2>. QED
        BY <1>2, <2>2 DEF Known
<1>. QED
    BY <1>5, <1>6, <1>7, <1>8 DEF r, sv

LEMMA ServerPutBeliefs ==
    ASSUME TypeInv, LogsHold, OkSays, NEW L, Known' \subseteq L, NEW G, BeliefsIn(L, G),
           NEW c \in puts, ServerPut(c)
    PROVE  BeliefsIn(L, G)' /\ OkSays' /\ LogsHold'
<1> DEFINE r == AnswerOf(server[c.acct], c.mut)
           answered == [c EXCEPT !.reply = r]
<1>1. c \in Put /\ c.mut \in Mutation /\ Based(c.mut) /\ c.acct \in Account /\ c.mut \in Sent
    BY PutType DEF Sent
<1>2. /\ LogsHold'
      /\ r.status = "ok" \/ r.version > 0 => <<c.acct, r.version, r.content>> \in L
      /\ r.status = "ok" => r.content = c.mut.content
    BY <1>1, ServedHolds DEF ServerPut
<1>3. /\ answered.mut = c.mut /\ answered.acct = c.acct /\ answered.gen = c.gen
      /\ answered.reply = r
    BY <1>1 DEF Put
<1>4. puts' = (puts \ {c}) \cup {answered} /\ late' = late /\ store' = store
      /\ pulls' = pulls /\ logins' = logins
    BY DEF ServerPut
<1> HIDE DEF r, answered
<1>5. OkSays'
    BY <1>2, <1>3, <1>4 DEF OkSays
<1>6. \A x \in puts' : Answers(L, G, x)
    BY <1>2, <1>3, <1>4 DEF BeliefsIn, Answers
<1>7. Sent' \subseteq Sent
    BY <1>1, <1>3, <1>4 DEF Sent
<1>. QED
    BY <1>2, <1>4, <1>5, <1>6, <1>7 DEF BeliefsIn

LEMMA ServerLateBeliefs ==
    ASSUME TypeInv, LogsHold, OkSays, NEW L, NEW G, BeliefsIn(L, G), NEW q \in late, ServerLate(q)
    PROVE  BeliefsIn(L, G)' /\ OkSays' /\ LogsHold' /\ Known \subseteq Known'
<1>1. q \in Mutation /\ Based(q) /\ q.acct \in Account
    BY DEF TypeInv, TypeOK, LateInv, Mutation
<1>2. LogsHold' /\ Known \subseteq Known'
    BY <1>1, ServedHolds DEF ServerLate
<1>3. OkSays'
    BY DEF ServerLate, OkSays
<1>. QED
    BY <1>2, <1>3, CallsKeepBeliefs DEF ServerLate, Sent

LEMMA AdminHolds ==
    ASSUME TypeInv, LogsHold, NEW a \in Account, AdminRestores(a) \/ Retention(a)
    PROVE  LogsHold' /\ Known \subseteq Known'
<1>1. server[a] \in Server /\ \A b \in Account : b # a => server'[b] = server[b]
    BY DEF TypeInv, TypeOK, AdminRestores, Retention
<1>2. LogHolds(server'[a]) /\ \A v, content : Holds(server[a], v, content) =>
                                              Holds(server'[a], v, content)
    <2>1. CASE AdminRestores(a)
        <3>1. PICK v \in DOMAIN server[a].history :
                  server' = [server EXCEPT ![a] = AdminRestore(server[a], v)]
            BY <2>1 DEF AdminRestores
        <3>2. server'[a] = AdminRestore(server[a], v)
            BY <3>1 DEF TypeInv, TypeOK
        <3>. QED
            BY <1>1, <3>2, RestoreGrows DEF LogsHold
    <2>2. CASE Retention(a)
        <3>1. PICK r \in server[a].log : server' = [server EXCEPT ![a] = Forget(server[a], r.mid)]
            BY <2>2 DEF Retention
        <3>2. server'[a] = Forget(server[a], r.mid)
            BY <3>1 DEF TypeInv, TypeOK
        <3>3. server'[a].history = server[a].history /\ server'[a].log \subseteq server[a].log
            BY <1>1, <3>2 DEF Forget, Server
        <3>. QED
            BY <3>3 DEF LogsHold, LogHolds, Truthful, Holds
    <2>. QED
        BY <2>1, <2>2
<1>. QED
    BY <1>1, <1>2 DEF LogsHold, Known

\* Answers are not made up by browsers.
LEMMA NoNewAnswers ==
    ASSUME UserNext \/ WorkerNext
    PROVE  /\ \A c \in puts' : c \in puts \/ c.reply = None
           /\ server' = server
<1>1. \A c \in puts' : c \in puts \/ c.reply = None
    <2>1. CASE UserNext
        BY <2>1 DEF UserNext, Save, LoginStart, UseLocal, PullStart, Logout, ResolveStart, calls
    <2>2. CASE WorkerNext
        BY <2>2 DEF WorkerNext, LoginActivate, LoginFail, PullApply, PullFail, ResolveCommit,
           ResolveFail, DrainClaim, DeliverAck, DeliverConflict, DeliverServerEmpty, DeliverRefused,
           CallFails, WorkerStops, Return, Others
    <2>. QED
        BY <2>1, <2>2
<1>2. server' = server
    BY DEF UserNext, Save, LoginStart, UseLocal, PullStart, Logout, ResolveStart, WorkerNext,
       LoginActivate, LoginFail, PullApply, PullFail, ResolveCommit, ResolveFail, DrainClaim,
       DeliverAck, DeliverConflict, DeliverServerEmpty, DeliverRefused, CallFails, WorkerStops
<1>. QED
    BY <1>1, <1>2

LEMMA BrowserSays ==
    ASSUME TypeInv, OkSays, UserNext \/ WorkerNext
    PROVE  OkSays' /\ server' = server
BY NoNewAnswers DEF OkSays

LEMMA InitBeliefs == Init => BeliefInv
<1> SUFFICES ASSUME Init PROVE BeliefInv
    OBVIOUS
<1>1. /\ \A d \in Device : /\ store[d].outbox = {} /\ store[d].conflicts = {}
                           /\ store[d].metas = {}
      /\ Sent = {} /\ puts = {} /\ logins = {} /\ pulls = {}
    BY DEF Init, NewStore, Sent
<1>2. \A a \in Account : server[a].log = {}
    <2>1. SUFFICES ASSUME NEW a \in Account PROVE server[a].log = {}
        OBVIOUS
    <2>2. server[a] = IF Seeded[a] = None THEN EmptyServer ELSE SeededServer(Seeded[a])
        BY DEF Init
    <2>. QED
        BY <2>2 DEF EmptyServer, SeededServer
<1>. QED
    BY <1>1, <1>2 DEF BeliefInv, BeliefsIn, Knows, LogsHold, LogHolds, OkSays

LEMMA NextBeliefs == TypeInv /\ BeliefInv /\ [Next]_vars => BeliefInv'
<1> SUFFICES ASSUME TypeInv, BeliefInv, [Next]_vars PROVE BeliefInv'
    OBVIOUS
<1>0. BeliefsIn(Known, Nat) /\ LogsHold /\ OkSays
    BY DEF BeliefInv
<1>1. PICK K : K = Known
    OBVIOUS
<1>2. PICK L : L = Known'
    OBVIOUS
<1>3. SUFFICES BeliefsIn(L, Nat)' /\ LogsHold' /\ OkSays'
    BY <1>2 DEF BeliefInv
<1>4. ASSUME K \subseteq L
      PROVE  BeliefsIn(L, Nat)
    BY <1>0, <1>1, <1>4, BeliefsMore
<1>5. CASE UserNext \/ WorkerNext
    <2>1. server' = server /\ OkSays'
        BY <1>0, <1>5, BrowserSays
    <2>2. K = L
        BY <1>1, <1>2, <2>1 DEF Known
    <2>3. BeliefsIn(L, Nat) /\ Known \subseteq L
        BY <1>1, <1>4, <2>2
    <2>. QED
        BY <1>0, <1>5, <2>1, <2>3, BrowserBeliefs DEF LogsHold
<1>6. ASSUME NEW c \in puts, ServerPut(c)
      PROVE  BeliefsIn(L, Nat)' /\ LogsHold' /\ OkSays'
    <2>1. K \subseteq L
        BY <1>0, <1>1, <1>2, <1>6, PutType, ServedHolds DEF ServerPut
    <2>. QED
        BY <1>0, <1>2, <1>4, <1>6, <2>1, ServerPutBeliefs
<1>7. ASSUME NEW q \in late, ServerLate(q)
      PROVE  BeliefsIn(L, Nat)' /\ LogsHold' /\ OkSays'
    <2>1. K \subseteq L
        BY <1>0, <1>1, <1>2, <1>7, ServerLateBeliefs
    <2>. QED
        BY <1>0, <1>4, <1>7, <2>1, ServerLateBeliefs
<1>8. ASSUME NEW a \in Account, AdminRestores(a) \/ Retention(a)
      PROVE  BeliefsIn(L, Nat)' /\ LogsHold' /\ OkSays'
    <2>1. K \subseteq L /\ LogsHold'
        BY <1>0, <1>1, <1>2, <1>8, AdminHolds
    <2>2. OkSays' /\ BeliefsIn(L, Nat)'
        BY <1>0, <1>4, <1>8, <2>1, CallsKeepBeliefs DEF AdminRestores, Retention, calls, Sent, OkSays
    <2>. QED
        BY <2>1, <2>2
<1>9. CASE UNCHANGED vars
    <2>1. K = L
        BY <1>1, <1>2, <1>9 DEF vars, Known
    <2>2. BeliefsIn(L, Nat)'
        BY <1>4, <1>9, <2>1, CallsKeepBeliefs DEF vars, Sent
    <2>. QED
        BY <1>0, <1>9, <2>2 DEF vars, LogsHold, OkSays
<1>. QED
    BY <1>5, <1>6, <1>7, <1>8, <1>9 DEF Next, ServerNext

LEMMA BeliefIsHistory == TypeInv /\ BeliefInv => BaseIsHistory
<1> SUFFICES ASSUME TypeInv, BeliefInv, NEW b \in Beliefs, b.v \notin {None, 0}
             PROVE  b.v \in DOMAIN server[b.acct].history
                    /\ server[b.acct].history[b.v].content = b.profile
    BY DEF BaseIsHistory
<1>1. SUFFICES <<b.acct, b.v, b.profile>> \in Known
    BY DEF Known, Holds
<1>2. CASE \E d \in Device : \E x \in store[d].metas \cup store[d].outbox :
               b = Belief(x.acct, x.baseV, x.base)
    <2>1. PICK d \in Device : \E x \in store[d].metas \cup store[d].outbox :
              b = Belief(x.acct, x.baseV, x.base)
        BY <1>2
    <2>2. PICK x \in store[d].metas \cup store[d].outbox : b = Belief(x.acct, x.baseV, x.base)
        BY <2>1
    <2>3. Trusted(Known, Nat, x) /\ x.gen \in Nat
        BY DEF BeliefInv, BeliefsIn, Knows, TypeInv, TypeOK, Store, Metadata, Mutation
    <2>. QED
        BY <2>2, <2>3 DEF Trusted, Belief
<1>3. CASE \E x \in Sent : b = Belief(x.acct, x.baseV, x.base)
    <2>1. PICK x \in Sent : b = Belief(x.acct, x.baseV, x.base)
        BY <1>3
    <2>2. Trusted(Known, Nat, x) /\ x.gen \in Nat
        BY PutType DEF BeliefInv, BeliefsIn, Sent, TypeInv, TypeOK, Mutation
    <2>. QED
        BY <2>1, <2>2 DEF Trusted, Belief
<1>4. CASE \E d \in Device : \E x \in store[d].conflicts : b = Belief(x.acct, x.theirsV, x.theirs)
    <2>1. PICK d \in Device : \E x \in store[d].conflicts : b = Belief(x.acct, x.theirsV, x.theirs)
        BY <1>4
    <2>2. PICK x \in store[d].conflicts : b = Belief(x.acct, x.theirsV, x.theirs)
        BY <2>1
    <2>3. Sighted(Known, Nat, x) /\ x.gen \in Nat
        BY DEF BeliefInv, BeliefsIn, Knows, TypeInv, TypeOK, Store, Conflict
    <2>. QED
        BY <2>2, <2>3 DEF Sighted, Belief
<1>5. CASE \E c \in pulls : b = Belief(c.acct, c.version, c.remote)
    BY <1>5 DEF BeliefInv, BeliefsIn, Belief, TypeInv, TypeOK, Pull
<1>6. CASE \E c \in logins : b = Belief(c.acct, c.version, c.base)
    BY <1>6 DEF BeliefInv, BeliefsIn, Belief, TypeInv, TypeOK, Login
<1>7. ASSUME NEW x \in (UNION {store[d].metas \cup store[d].outbox : d \in Device})
                         \cup {c.mut : c \in puts} \cup late,
             b = Belief(x.acct, x.baseV, x.base)
      PROVE  <<b.acct, b.v, b.profile>> \in Known
    <2>1. CASE x \in Sent
        BY <1>3, <1>7, <2>1
    <2>2. CASE x \in UNION {store[d].metas \cup store[d].outbox : d \in Device}
        BY <1>2, <1>7, <2>2
    <2>. QED
        BY <1>7, <2>1, <2>2 DEF Sent
<1>8. ASSUME NEW x \in UNION {store[d].conflicts : d \in Device},
             b = Belief(x.acct, x.theirsV, x.theirs)
      PROVE  <<b.acct, b.v, b.profile>> \in Known
    BY <1>4, <1>8
<1>. QED
    BY <1>5, <1>6, <1>7, <1>8 DEF Beliefs

\* Every base a browser compares with or merges from, in its tables, in what
\* is on the wire and in the calls under way, is the server's content of that
\* very version: a version number and a base never part, whatever arrives late,
\* twice or out of order (acknowledge and the successor it rebases,
\* recordConflict, acceptRemote, resolveConflict, and login).
THEOREM BasesAreHistory == Spec => []BaseIsHistory
<1>1. Init => TypeInv /\ BeliefInv
    BY InitType, InitBeliefs
<1>2. TypeInv /\ BeliefInv /\ [Next]_vars => (TypeInv /\ BeliefInv)'
    BY NextType, NextBeliefs
<1>. QED
    BY <1>1, <1>2, BeliefIsHistory, PTL DEF Spec

-----------------------------------------------------------------------------
\* The abstract specification: every step is one of the chain's, or none.
Chains == [a \in Account |-> server[a].history]

LEMMA ChainOf ==
    \A a \in Account : Chains[a] = server[a].history /\ Chains'[a] = server'[a].history
BY DEF Chains

\* One more version of one account.
LEMMA ChainGrows ==
    ASSUME TypeInv, NEW a \in Account, NEW x \in Version, NEW sv,
           server' = [server EXCEPT ![a] = sv], sv.history = Append(server[a].history, x)
    PROVE  /\ Chain!Grows(a)
           /\ Chain!Newest(Chains'[a]) = x
<1>1. server[a].history \in Seq(Version)
    BY HistoryType
<1>2. server'[a] = sv /\ \A b \in Account : b # a => server'[b] = server[b]
    BY DEF TypeInv, TypeOK
<1> DEFINE longer == Append(server[a].history, x)
<1>3. Len(longer) = Len(server[a].history) + 1 /\ longer[Len(server[a].history) + 1] = x
    BY <1>1, AppendGrows
<1>4. Chains'[a] = longer /\ Chains[a] = server[a].history
    BY <1>2 DEF Chains
<1> HIDE DEF longer
<1>5. Chain!Newest(Chains'[a]) = x
    BY <1>3, <1>4 DEF Chain!Newest
<1>6. Chains' = [Chains EXCEPT ![a] = Append(@, x)]
    <2>1. \A b \in Account : b # a => Chains'[b] = Chains[b]
        BY <1>2 DEF Chains
    <2>2. Chains' = [Chains EXCEPT ![a] = longer]
        <3>1. Chains = [b \in Account |-> Chains[b]] /\ Chains' = [b \in Account |-> Chains'[b]]
            BY DEF Chains
        <3>. QED
            BY <1>4, <2>1, <3>1
    <2>. QED
        BY <1>4, <2>2 DEF longer
<1>7. Len(Chains'[a]) = Len(Chains[a]) + 1
    BY <1>3, <1>4
<1>. QED
    BY <1>5, <1>6, <1>7 DEF Chain!Grows, Chains

\* ApplySyncMutation writes on top of what the author had, and once.
LEMMA ServingIsWriting ==
    ASSUME TypeInv, IdInv, ServedInv, BeliefInv, NEW x \in Sent,
           server' = [server EXCEPT ![x.acct] = ApplySyncMutation(@, x)]
    PROVE  Chain!Write(x.acct) \/ Chains' = Chains
<1> DEFINE a == x.acct
           sv == server[a]
           sv2 == ApplySyncMutation(sv, x)
<1>1. x \in Mutation /\ Based(x) /\ a \in Account /\ x.gen \in Nat
    BY PutType DEF Sent, TypeInv, TypeOK, LateInv, Mutation
<1>2. sv \in Server /\ sv.history \in Seq(Version) /\ DOMAIN sv.history = 1 .. Len(sv.history)
    BY <1>1, HistoryType
<1>3. \/ sv2.history = sv.history
      \/ sv2.history = Append(sv.history, Written(x)) /\ x.baseV = Len(sv.history)
    BY <1>1, <1>2, ApplyGrows
<1>4. server' = [server EXCEPT ![a] = sv2]
    OBVIOUS
<1>5. CASE sv2.history = sv.history
    <2>1. server'[a] = sv2 /\ \A b \in Account : b # a => server'[b] = server[b]
        BY <1>1, <1>4 DEF TypeInv, TypeOK
    <2>2. \A b \in Account : server'[b].history = server[b].history
        BY <1>5, <2>1
    <2>. QED
        BY <2>2 DEF Chains
<1>6. CASE sv2.history = Append(sv.history, Written(x)) /\ x.baseV = Len(sv.history)
    <2>1. /\ Chain!Grows(a) /\ Chain!Newest(Chains'[a]) = Written(x)
        BY <1>1, <1>4, <1>6, WrittenType, ChainGrows
    <2>2. Written(x).base = x.base /\ Written(x).mid = x.id
        BY DEF Written
    <2>3. Chain!OnTopOf(Chains[a], x.base)
        <3>1. SUFFICES ASSUME sv.history # <<>> PROVE sv.history[Len(sv.history)].content = x.base
            BY <1>1, ChainOf DEF Chain!OnTopOf, Chain!Newest
        <3>2. x.baseV \notin {None, 0}
            BY <1>2, <1>6, <3>1, NoneAssumption
        <3>3. <<a, x.baseV, x.base>> \in Known
            BY <1>1, <3>2 DEF BeliefInv, BeliefsIn, Trusted
        <3>. QED
            BY <1>6, <3>3 DEF Known, Holds
    <2>4. x.id # 0
        BY DEF IdInv, DrawnInv, Drawn
    <2>5. \A b \in Account : \A v \in DOMAIN server[b].history : server[b].history[v].mid # x.id
        <3>1. IsCopy(x)
            BY DEF IsCopy
        <3>2. SUFFICES ASSUME NEW b \in Account, NEW v \in DOMAIN server[b].history,
                              server[b].history[v].mid = x.id
                       PROVE  FALSE
            OBVIOUS
        <3>3. b = a /\ v = x.baseV + 1
            BY <3>1, <3>2 DEF ServedInv, WrittenAs
        <3>4. v \in 1 .. Len(sv.history)
            BY <1>2, <3>2, <3>3
        <3>5. Len(sv.history) \in Nat
            BY <1>2
        <3>. QED
            BY <1>6, <3>3, <3>4, <3>5
    <2>6. ~Chain!Applied(x.id)
        BY <2>5 DEF Chain!Applied
    <2>. QED
        BY <2>1, <2>2, <2>3, <2>4, <2>6 DEF Chain!Write, Chains
<1>. QED
    BY <1>3, <1>5, <1>6

LEMMA RestoringIsBringingBack ==
    ASSUME TypeInv, NEW a \in Account, AdminRestores(a)
    PROVE  Chain!BringBack(a)
<1>1. PICK v \in DOMAIN server[a].history :
          server' = [server EXCEPT ![a] = AdminRestore(server[a], v)]
    BY DEF AdminRestores
<1>2. server[a] \in Server
    BY HistoryType
<1> DEFINE new == [content |-> server[a].history[v].content,
                   base |-> server[a].history[Len(server[a].history)].content, mid |-> 0]
<1>3. new \in Version /\ AdminRestore(server[a], v).history = Append(server[a].history, new)
    BY <1>1, <1>2, RestoreGrows
<1>4. new.mid = 0 /\ new.content = server[a].history[v].content
    OBVIOUS
<1> HIDE DEF new
<1>5. Chain!Grows(a) /\ Chain!Newest(Chains'[a]) = new
    BY <1>1, <1>3, ChainGrows
<1>6. \E w \in DOMAIN Chains[a] : Chains[a][w].content = new.content
    BY <1>4, ChainOf
<1>. QED
    BY <1>4, <1>5, <1>6 DEF Chain!BringBack, Chains

LEMMA ChainStarts == Init => Chain!Init
<1> SUFFICES ASSUME Init, NEW a \in Account, NEW v \in DOMAIN Chains[a]
             PROVE  Chains[a][v].mid = 0
    BY DEF Chain!Init, Chains
<1>1. server[a] = IF Seeded[a] = None THEN EmptyServer ELSE SeededServer(Seeded[a])
    BY DEF Init
<1>2. Chains[a] = server[a].history
    BY DEF Chains
<1>. QED
    BY <1>1, <1>2 DEF EmptyServer, SeededServer

LEMMA ChainSteps ==
    TypeInv /\ IdInv /\ ServedInv /\ BeliefInv /\ [Next]_vars => Chain!Next \/ Chains' = Chains
<1> SUFFICES ASSUME TypeInv, IdInv, ServedInv, BeliefInv, [Next]_vars
             PROVE  Chain!Next \/ Chains' = Chains
    OBVIOUS
<1>1. CASE UserNext \/ WorkerNext
    BY <1>1, BrowserSays DEF BeliefInv, Chains
<1>2. ASSUME NEW c \in puts, ServerPut(c)
      PROVE  Chain!Next \/ Chains' = Chains
    <2>1. c.mut \in Sent /\ c.mut.acct = c.acct /\ c.acct \in Account
        BY PutType DEF Sent, IdInv, PutScope, InScope
    <2>. QED
        BY <1>2, <2>1, ServingIsWriting DEF ServerPut, Chain!Next
<1>3. ASSUME NEW q \in late, ServerLate(q)
      PROVE  Chain!Next \/ Chains' = Chains
    <2>1. q \in Sent /\ q.acct \in Account
        BY DEF Sent, TypeInv, TypeOK, Mutation
    <2>. QED
        BY <1>3, <2>1, ServingIsWriting DEF ServerLate, Chain!Next
<1>4. ASSUME NEW a \in Account, AdminRestores(a)
      PROVE  Chain!Next
    BY <1>4, RestoringIsBringingBack DEF Chain!Next
<1>5. ASSUME NEW a \in Account, Retention(a)
      PROVE  Chains' = Chains
    <2>1. PICK r \in server[a].log : server' = [server EXCEPT ![a] = Forget(server[a], r.mid)]
        BY <1>5 DEF Retention
    <2>2. \A b \in Account : server'[b].history = server[b].history
        BY <2>1 DEF Forget, TypeInv, TypeOK, Server
    <2>. QED
        BY <2>2 DEF Chains
<1>6. CASE UNCHANGED vars
    BY <1>6 DEF vars, Chains
<1>. QED
    BY <1>1, <1>2, <1>3, <1>4, <1>5, <1>6 DEF Next, ServerNext

\* The profile of every account is a chain of edits, each made by a user who
\* had the version before it in front of him, none applied twice: the protocol
\* of compare-and-set, replay, frozen requests and rebased successors
\* implements ProfileChain, for any number of browsers, sessions, lost and
\* late requests, administrator restores and forgotten responses.
THEOREM ChainIsImplemented == Spec => ChainSpec
<1>1. Init => TypeInv /\ IdInv /\ ServedInv /\ BeliefInv
    BY InitType, InitIds, InitBeliefs
<1>2. TypeInv /\ IdInv /\ ServedInv /\ BeliefInv /\ [Next]_vars =>
          (TypeInv /\ IdInv /\ ServedInv /\ BeliefInv)'
    BY NextType, NextIds, NextServed, NextBeliefs
<1>3. TypeInv /\ IdInv /\ ServedInv /\ BeliefInv /\ [Next]_vars =>
          [Chain!Next]_[a \in Account |-> server[a].history]
    BY ChainSteps DEF Chains
<1>4. Init => Chain!Init
    BY ChainStarts
<1>. QED
    BY <1>1, <1>2, <1>3, <1>4, PTL DEF Spec, ChainSpec, Chain!Spec

-----------------------------------------------------------------------------
\* Sessions.  A login under way is of a session no row belongs to yet and whose
\* first connection is still to be decided; a session past that decision works
\* on the local profile.
Works(ses, st) ==
    ses # None /\ ses.scope = "full" /\ ~ses.pending =>
        \A m \in ActiveMeta(st) : m.acct = ses.acct /\ m.gen = ses.gen => Working(st, m)

Opened == 1 .. (nextGen - 1)

GenInv ==
    /\ nextGen > 0
    /\ \A d \in Device : GensIn(Opened, store[d])
    /\ \A d \in Device : vault[d] # None => vault[d].gen \in Opened
    /\ \A c \in logins : c.gen \in Opened
NewLogin ==
    \A c \in logins :
        /\ GensIn(Nat \ {c.gen}, store[c.dev])
        /\ vault[c.dev] # None /\ vault[c.dev].gen = c.gen => vault[c.dev].pending
OneLogin == \A c, e \in logins : c.dev = e.dev => c = e
Sessions == \A d \in Device : SessionOK(store[d])
AtWork == \A d \in Device : Works(vault[d], store[d])

SessInv == GenInv /\ NewLogin /\ OneLogin /\ Sessions /\ AtWork

LEMMA GoesOnWorks ==
    ASSUME NEW ses, NEW st, NEW st2, Works(ses, st), GoesOn(st, st2)
    PROVE  Works(ses, st2)
BY DEF Works, GoesOn

LEMMA SessionsWork ==
    ASSUME NEW ses, NEW st2, \A m \in ActiveMeta(st2) : Working(st2, m)
    PROVE  Works(ses, st2)
BY DEF Works

\* A transaction of the session a browser is in, or of none.
LEMMA StoreKeepsSessions ==
    ASSUME TypeInv, SessInv, NEW d \in Device, NEW st, SetStore(d, st),
           SessionOK(st), \A G : GensIn(G, store[d]) => GensIn(G, st),
           logins' \subseteq logins, nextGen' = nextGen,
           \A e \in Device : e # d => vault'[e] = vault[e],
           Works(vault'[d], st),
           \/ vault'[d] \in {vault[d], None}
           \/ /\ vault[d] # None /\ vault'[d].gen = vault[d].gen
              /\ \E m \in store[d].metas : m.gen = vault[d].gen
    PROVE  SessInv'
<1>1. store'[d] = st /\ \A e \in Device : e # d => store'[e] = store[e]
    BY DEF SetStore, TypeInv, TypeOK
<1>2. Sessions' /\ AtWork'
    BY <1>1 DEF SessInv, Sessions, AtWork
<1>3. GenInv'
    <2>1. \A e \in Device : GensIn(Opened, store'[e])
        BY <1>1 DEF SessInv, GenInv
    <2>. QED
        BY <2>1 DEF SessInv, GenInv, Opened
<1>4. NewLogin'
    <2>1. SUFFICES ASSUME NEW c \in logins
                   PROVE  /\ GensIn(Nat \ {c.gen}, store'[c.dev])
                          /\ vault'[c.dev] # None /\ vault'[c.dev].gen = c.gen => vault'[c.dev].pending
        BY DEF NewLogin
    <2>2. c.dev \in Device /\ GensIn(Nat \ {c.gen}, store[c.dev])
          /\ (vault[c.dev] # None /\ vault[c.dev].gen = c.gen => vault[c.dev].pending)
        BY DEF SessInv, NewLogin, TypeInv, TypeOK, Login
    <2>3. GensIn(Nat \ {c.gen}, store'[c.dev])
        BY <1>1, <2>2
    <2>4. CASE c.dev # d
        BY <2>2, <2>3, <2>4
    <2>5. CASE c.dev = d /\ vault'[d] \in {vault[d], None}
        BY <2>2, <2>3, <2>5
    <2>6. CASE c.dev = d /\ vault'[d].gen = vault[d].gen /\ \E m \in store[d].metas : m.gen = vault[d].gen
        <3>1. vault[d].gen # c.gen
            BY <2>2, <2>6 DEF GensIn
        <3>. QED
            BY <2>3, <2>6, <3>1
    <2>. QED
        BY <2>4, <2>5, <2>6
<1>5. OneLogin'
    BY DEF SessInv, OneLogin
<1>. QED
    BY <1>2, <1>3, <1>4, <1>5 DEF SessInv

LEMMA CallsKeepSessions ==
    ASSUME TypeInv, SessInv, store' = store, logins' \subseteq logins, nextGen' = nextGen,
           \A e \in Device : vault'[e] \in {vault[e], None}
    PROVE  SessInv'
<1>1. GenInv' /\ Sessions' /\ OneLogin'
    BY DEF SessInv, GenInv, Opened, Sessions, OneLogin
<1>2. AtWork'
    BY DEF SessInv, AtWork, Works
<1>3. NewLogin'
    BY DEF SessInv, NewLogin, TypeInv, TypeOK, Login
<1>. QED
    BY <1>1, <1>2, <1>3 DEF SessInv

\* What a decision does to the vault.
LEMMA DecidedVault ==
    ASSUME TypeInv, NEW d \in Device, NEW gen, Decided(d, gen)
    PROVE  /\ \A e \in Device : e # d => vault'[e] = vault[e]
           /\ \/ vault'[d] = vault[d]
              \/ vault[d] # None /\ vault[d].gen = gen /\ vault'[d].gen = gen
<1>1. CASE vault' = vault
    BY <1>1
<1>2. CASE vault[d] # None /\ vault[d].gen = gen /\ vault' = [vault EXCEPT ![d].pending = FALSE]
    <2>1. vault[d] \in Session
        BY <1>2, SessionType
    <2>2. vault'[d] = [vault[d] EXCEPT !.pending = FALSE]
        BY <1>2 DEF TypeInv, TypeOK
    <2>3. vault'[d].gen = vault[d].gen
        BY <2>1, <2>2 DEF Session
    <2>. QED
        BY <1>2, <2>3 DEF TypeInv, TypeOK
<1>. QED
    BY <1>1, <1>2 DEF Decided, CompleteFirstConnection

LEMMA SaveSessions ==
    ASSUME TypeInv, IdInv, SessInv, NEW d \in Device, NEW p \in Profile, Save(d, p)
    PROVE  SessInv'
<1> DEFINE st == CommitProfile(store[d], p, nextId)
<1>1. SessionOK(st) /\ GoesOn(store[d], st)
    BY FreshId, CommitProfileSession DEF SessInv, Sessions
<1>2. \A G : GensIn(G, store[d]) => GensIn(G, st)
    BY FreshId, CommitProfileGens
<1>3. Works(vault[d], st)
    BY <1>1, GoesOnWorks DEF SessInv, AtWork
<1> HIDE DEF st
<1>4. SetStore(d, st) /\ vault' = vault /\ logins' = logins /\ nextGen' = nextGen
    BY DEF Save, calls, st
<1>. QED
    BY <1>1, <1>2, <1>3, <1>4, StoreKeepsSessions

LEMMA LoginStartSessions ==
    ASSUME TypeInv, SessInv, NEW d \in Device, NEW a \in Account, NEW scope \in AuthScope,
           LoginStart(d, a, scope)
    PROVE  SessInv'
<1> DEFINE c == [dev |-> d, acct |-> a, gen |-> nextGen, pid |-> store[d].local.pid,
                 version |-> CurrentVersion(server[a]),
                 base |-> IF CurrentProfile(server[a]) = None THEN store[d].local
                          ELSE CurrentProfile(server[a])]
           ses == [acct |-> a, gen |-> nextGen, scope |-> scope, pending |-> TRUE]
<1>1. /\ logins' = Others(logins, d) \cup {c} /\ nextGen' = nextGen + 1 /\ nextGen \in Nat
      /\ store' = store
      /\ vault'[d] = ses /\ \A e \in Device : e # d => vault'[e] = vault[e]
    BY DEF LoginStart, TypeInv, TypeOK
<1>2. c.dev = d /\ c.gen = nextGen /\ ses.gen = nextGen /\ ses.pending
    OBVIOUS
<1> HIDE DEF c, ses
<1>3. GenInv'
    <2>1. Opened \subseteq Opened' /\ nextGen \in Opened'
        BY <1>1 DEF Opened, SessInv, GenInv
    <2>2. \A e \in Device : GensIn(Opened', store'[e])
        BY <1>1, <2>1 DEF SessInv, GenInv, GensIn
    <2>3. \A e \in Device : vault'[e] # None => vault'[e].gen \in Opened'
        BY <1>1, <1>2, <2>1 DEF SessInv, GenInv
    <2>4. \A x \in logins' : x.gen \in Opened'
        BY <1>1, <1>2, <2>1 DEF SessInv, GenInv, Others
    <2>. QED
        BY <1>1, <2>2, <2>3, <2>4 DEF GenInv, SessInv
<1>4. OneLogin'
    BY <1>1, <1>2 DEF SessInv, OneLogin, Others
<1>5. NewLogin'
    <2>1. GensIn(Nat \ {nextGen}, store[d])
        BY <1>1 DEF SessInv, GenInv, GensIn, Opened
    <2>2. \A x \in Others(logins, d) : x.dev \in Device /\ x.dev # d /\ x \in logins
        BY DEF Others, TypeInv, TypeOK, Login
    <2>. QED
        BY <1>1, <1>2, <2>1, <2>2 DEF SessInv, NewLogin
<1>6. AtWork'
    BY <1>1, <1>2 DEF SessInv, AtWork, Works
<1>7. Sessions'
    BY <1>1 DEF SessInv, Sessions
<1>. QED
    BY <1>3, <1>4, <1>5, <1>6, <1>7 DEF SessInv

LEMMA LoginSessions ==
    ASSUME TypeInv, SessInv, NEW c \in logins, LoginActivate(c) \/ LoginFail(c)
    PROVE  SessInv'
<1>1. CASE LoginActivate(c)
    <2> DEFINE d == c.dev
               st == ActivateAccount(store[d], c.acct, c.pid, c.gen, c.version, c.base)
    <2>1. /\ d \in Device /\ store[d] \in Store /\ c.gen \in Opened
          /\ GensIn(Nat \ {c.gen}, store[d])
          /\ (vault[d] # None /\ vault[d].gen = c.gen => vault[d].pending)
        BY DEF TypeInv, TypeOK, Login, SessInv, NewLogin, GenInv
    <2>2. /\ SessionOK(st) /\ \A m \in ActiveMeta(st) : m.gen = c.gen
        BY <2>1, ActivateSession DEF GensIn
    <2>3. GensIn(Opened, st)
        BY <2>1, ActivateGens DEF SessInv, GenInv
    <2>4. Works(vault[d], st)
        BY <2>1, <2>2 DEF Works
    <2>5. SetStore(d, st) /\ logins' = logins \ {c} /\ nextGen' = nextGen /\ vault' = vault
        BY <1>1 DEF LoginActivate
    <2> HIDE DEF st, d
    <2>6. store'[d] = st /\ \A e \in Device : e # d => store'[e] = store[e]
        BY <2>1, <2>5 DEF SetStore, TypeInv, TypeOK
    <2>7. \A x \in logins' : x.dev # d /\ x \in logins /\ x.dev \in Device
        BY <2>5 DEF d, SessInv, OneLogin, TypeInv, TypeOK, Login
    <2>8. Sessions' /\ AtWork'
        BY <2>2, <2>4, <2>5, <2>6 DEF SessInv, Sessions, AtWork
    <2>9. GenInv'
        BY <2>3, <2>5, <2>6 DEF SessInv, GenInv, Opened
    <2>10. NewLogin' /\ OneLogin'
        BY <2>5, <2>6, <2>7 DEF SessInv, NewLogin, OneLogin
    <2>. QED
        BY <2>8, <2>9, <2>10 DEF SessInv
<1>2. CASE LoginFail(c)
    <2>1. \A e \in Device : vault'[e] \in {vault[e], None}
        BY <1>2 DEF LoginFail, TypeInv, TypeOK
    <2>. QED
        BY <1>2, <2>1, CallsKeepSessions DEF LoginFail
<1>. QED
    BY <1>1, <1>2

LEMMA UseLocalSessions ==
    ASSUME TypeInv, IdInv, SessInv, NEW d \in Device, UseLocal(d)
    PROVE  SessInv'
<1> DEFINE s == [acct |-> vault[d].acct, pid |-> store[d].local.pid]
           gen == vault[d].gen
           st == ForceEnqueue(store[d], s, gen, nextId)
<1>1. /\ SessionMeta(store[d], s, gen) # {} /\ vault[d] # None
      /\ s.acct \in Account /\ s.pid \in ProfileId /\ store[d] \in Store /\ ShapeOK(store[d])
      /\ SessionOK(store[d])
    BY FreshId, SessionType
    DEF UseLocal, CanForceEnqueue, Session, SessInv, Sessions, TypeInv, TypeOK, Store, Profile
<1>2. SetStore(d, st) /\ Decided(d, gen) /\ logins' = logins /\ nextGen' = nextGen
    BY DEF UseLocal, calls
<1> HIDE DEF s
<1>3. SessionOK(st) /\ \A m2 \in ActiveMeta(st) : Working(st, m2)
    BY <1>1, ForceEnqueueSession
<1>4. \A G : GensIn(G, store[d]) => GensIn(G, st)
    BY <1>1, DecisionGens
<1>5. \E m \in store[d].metas : m.gen = gen
    BY <1>1, SessionMetaIsActive, SessionMetaIsRow
<1>6. Works(vault'[d], st)
    BY <1>3, SessionsWork
<1> HIDE DEF st
<1>. QED
    BY <1>1, <1>2, <1>3, <1>4, <1>5, <1>6, DecidedVault, StoreKeepsSessions

LEMMA PullSessions ==
    ASSUME TypeInv, SessInv, NEW c \in pulls, PullApply(c) \/ PullFail(c)
    PROVE  SessInv'
<1>1. CASE PullApply(c)
    <2> DEFINE d == c.dev
               st == AcceptRemote(store[d], c, c.gen, c.version, c.remote)
    <2>1. /\ d \in Device /\ store[d] \in Store /\ SessionOK(store[d])
          /\ SessionMeta(store[d], c, c.gen) # {}
        BY <1>1 DEF TypeInv, TypeOK, Pull, SessInv, Sessions, PullApply, CanAcceptRemote
    <2>2. SessionOK(st) /\ \A m2 \in ActiveMeta(st) : Working(st, m2)
        BY <2>1, AcceptRemoteSession
    <2>3. \A G : GensIn(G, store[d]) => GensIn(G, st)
        BY <2>1, DecisionGens
    <2>4. \E m \in store[d].metas : m.gen = c.gen
        BY <2>1, SessionMetaIsActive, SessionMetaIsRow
    <2>5. Works(vault'[d], st)
        BY <2>2, SessionsWork
    <2>6. SetStore(d, st) /\ Decided(d, c.gen) /\ logins' = logins /\ nextGen' = nextGen
        BY <1>1 DEF PullApply
    <2> HIDE DEF st, d
    <2>. QED
        BY <2>1, <2>2, <2>3, <2>4, <2>5, <2>6, DecidedVault, StoreKeepsSessions
<1>2. CASE PullFail(c)
    BY <1>2, CallsKeepSessions DEF PullFail
<1>. QED
    BY <1>1, <1>2

LEMMA LogoutSessions ==
    ASSUME TypeInv, SessInv, NEW d \in Device, Logout(d)
    PROVE  SessInv'
<1> DEFINE off == DeactivateAccount(store[d], CHOOSE m \in SyncContext(d) : TRUE, vault[d].gen)
           st == IF SyncContext(d) = {} THEN store[d] ELSE off
<1>1. store[d] \in Store /\ SessionOK(store[d])
    BY DEF TypeInv, TypeOK, SessInv, Sessions
<1>2. SessionOK(off) /\ \A G : GensIn(G, store[d]) => GensIn(G, off)
    BY <1>1, DeactivateSession, DeactivateGens
<1>3. SessionOK(st) /\ \A G : GensIn(G, store[d]) => GensIn(G, st)
    BY <1>1, <1>2
<1>4. /\ SetStore(d, st) /\ logins' \subseteq logins /\ nextGen' = nextGen
      /\ vault'[d] = None /\ \A e \in Device : e # d => vault'[e] = vault[e]
    BY DEF Logout, Others, TypeInv, TypeOK
<1>5. Works(vault'[d], st)
    BY <1>4 DEF Works
<1> HIDE DEF st
<1>. QED
    BY <1>3, <1>4, <1>5, StoreKeepsSessions

LEMMA MergeSessions ==
    ASSUME TypeInv, IdInv, SessInv, NEW c \in merges, ResolveCommit(c) \/ ResolveFail(c)
    PROVE  SessInv'
<1>1. CASE ResolveCommit(c)
    <2> DEFINE d == c.dev
               st == Resolve(store[d], c, c.gen, c.conflict, c.successor, c.merged, nextId)
    <2>1. /\ d \in Device /\ c.acct \in Account /\ c.pid \in ProfileId
          /\ store[d] \in Store /\ SessionOK(store[d]) /\ ShapeOK(store[d])
        BY FreshId DEF TypeInv, TypeOK, Merge, SessInv, Sessions
    <2>2. /\ SessionMeta(store[d], c, c.gen) # {}
          /\ c.conflict \in Rows(store[d].conflicts, c) /\ store[d].rev = c.rev
        BY <1>1 DEF ResolveCommit, CanResolve
    <2>3. c.successor = Pending(store[d], c)
        BY <2>2 DEF IdInv, MergeInv, Reading, Rows
    <2>4. SessionOK(st) /\ \A m2 \in ActiveMeta(st) : Working(st, m2)
        BY <2>1, <2>2, <2>3, ResolveSession
    <2>5. \A G : GensIn(G, store[d]) => GensIn(G, st)
        BY <2>1, <2>2, DecisionGens
    <2>6. Works(vault'[d], st)
        BY <2>4, SessionsWork
    <2>7. SetStore(d, st) /\ vault' = vault /\ logins' = logins /\ nextGen' = nextGen
        BY <1>1 DEF ResolveCommit
    <2> HIDE DEF st, d
    <2>. QED
        BY <2>1, <2>4, <2>5, <2>6, <2>7, StoreKeepsSessions
<1>2. CASE ResolveFail(c)
    BY <1>2, CallsKeepSessions DEF ResolveFail
<1>. QED
    BY <1>1, <1>2

LEMMA DrainClaimSessions ==
    ASSUME TypeInv, IdInv, SessInv, NEW d \in Device, NEW slot \in Slots, DrainClaim(d, slot)
    PROVE  SessInv'
<1>1. PICK m \in SyncContext(d) : m.gen = vault[d].gen
              /\ \E q \in Claimable(store[d], m, vault[d].gen) : SetStore(d, ClaimDue(store[d], q))
    BY DEF DrainClaim
<1>2. PICK q \in Claimable(store[d], m, vault[d].gen) : SetStore(d, ClaimDue(store[d], q))
    BY <1>1
<1> DEFINE st == ClaimDue(store[d], q)
<1>3. m \in ActiveMeta(store[d]) /\ q \in store[d].outbox
    BY FreshId, ClaimableIsBased DEF SyncContext, TypeInv, QueueInv
<1>4. SessionOK(st) /\ GoesOn(store[d], st)
    BY <1>1, <1>3, FreshId, ClaimDueSession DEF SessInv, Sessions
<1>5. \A G : GensIn(G, store[d]) => GensIn(G, st)
    BY <1>3, FreshId, ClaimDueGens
<1>6. Works(vault[d], st)
    BY <1>4, GoesOnWorks DEF SessInv, AtWork
<1>7. SetStore(d, st) /\ vault' = vault /\ logins' = logins /\ nextGen' = nextGen
    BY <1>2 DEF DrainClaim
<1> HIDE DEF st
<1>. QED
    BY <1>4, <1>5, <1>6, <1>7, StoreKeepsSessions

LEMMA DeliverSessions ==
    ASSUME TypeInv, IdInv, OkSays, SessInv, NEW c \in puts,
           DeliverAck(c) \/ DeliverConflict(c) \/ DeliverServerEmpty(c)
    PROVE  SessInv'
<1> DEFINE d == c.dev
           after(st) == /\ SessionOK(st) /\ GoesOn(store[d], st)
                        /\ \A G : GensIn(G, store[d]) => GensIn(G, st)
<1>1. /\ d \in Device /\ c.acct \in Account /\ c.pid \in ProfileId
      /\ store[d] \in Store /\ ShapeOK(store[d]) /\ UniqueIds(store[d]) /\ SessionOK(store[d])
      /\ CanSettle(store[d], c, c.gen, c.mut.id)
    BY PutType, FreshId DEF DeliverAck, CanAcknowledge, DeliverConflict, DeliverServerEmpty,
                            SessInv, Sessions
<1>2. SUFFICES \E st : after(st) /\ SetStore(d, st)
    <2>1. PICK st : after(st) /\ SetStore(d, st)
        BY <1>2
    <2>2. vault' = vault /\ logins' = logins /\ nextGen' = nextGen
        BY DEF DeliverAck, DeliverConflict, DeliverServerEmpty
    <2>3. Works(vault[d], st)
        BY <1>1, <2>1, GoesOnWorks DEF SessInv, AtWork
    <2> HIDE DEF d
    <2>. QED
        BY <1>1, <2>1, <2>2, <2>3, StoreKeepsSessions
<1>3. CASE DeliverAck(c)
    <2> DEFINE st == Acknowledge(store[d], c, c.gen, c.mut.id, c.reply.version, c.reply.content)
    <2>1. c.reply.version \in Nat /\ c.reply.content \in Profile
          /\ CanAcknowledge(store[d], c, c.gen, c.mut.id)
        BY <1>3, ReplyType DEF DeliverAck, Answered, Reply, Telling
    <2>2. Settled(store[d], c, c.mut.id) = c.mut
        <3>1. /\ Settled(store[d], c, c.mut.id) \in store[d].outbox
              /\ Settled(store[d], c, c.mut.id).id = c.mut.id
              /\ Settled(store[d], c, c.mut.id).state = "in-flight"
            BY <1>1, SettledIsRow DEF Queued, Rows
        <3>. QED
            BY <1>1, <3>1 DEF IdInv, SentRow, Sent
    <2>3. c.reply.content = Settled(store[d], c, c.mut.id).content
        BY <1>3, <2>2 DEF OkSays, DeliverAck, Answered
    <2>4. after(st)
        BY <1>1, <2>1, <2>3, AcknowledgeSession, SettleGens
    <2>5. SetStore(d, st)
        BY <1>3 DEF DeliverAck
    <2>. QED
        BY <2>4, <2>5
<1>4. CASE DeliverConflict(c)
    <2> DEFINE st == RecordConflict(store[d], c, c.gen, c.mut.id, c.reply.version,
                                    c.reply.content, c.reply.cid)
    <2>1. after(st)
        BY <1>1, RecordConflictSession, SettleGens
    <2>2. SetStore(d, st)
        BY <1>4 DEF DeliverConflict
    <2>. QED
        BY <2>1, <2>2
<1>5. CASE DeliverServerEmpty(c)
    <2> DEFINE st == FreezeServerEmpty(store[d], c, c.gen, c.mut.id)
    <2>1. after(st)
        BY <1>1, FreezeServerEmptySession, SettleGens
    <2>2. SetStore(d, st)
        BY <1>5 DEF DeliverServerEmpty
    <2>. QED
        BY <2>1, <2>2
<1>. QED
    BY <1>3, <1>4, <1>5

LEMMA GivenUpSessions ==
    ASSUME TypeInv, IdInv, SessInv, NEW c \in puts, DeliverRefused(c) \/ CallFails(c)
    PROVE  SessInv'
<1>1. vault' = vault /\ logins' = logins /\ nextGen' = nextGen
    BY DEF DeliverRefused, CallFails
<1>2. CASE UNCHANGED store
    BY <1>1, <1>2, CallsKeepSessions
<1>3. CASE RetryLater(c)
    <2> DEFINE d == c.dev
               retry == ScheduleRetry(store[d], c, c.gen)
    <2>1. d \in Device /\ store[d] \in Store /\ SessionOK(store[d])
        BY PutType DEF SessInv, Sessions
    <2>2. CASE CanSettle(store[d], c, c.gen, c.mut.id)
        <3>1. SessionOK(retry) /\ GoesOn(store[d], retry)
            BY <2>1, <2>2, ScheduleRetrySession
        <3>2. \A G : GensIn(G, store[d]) => GensIn(G, retry)
            BY <2>1, <2>2, SettleGens
        <3>3. Works(vault[d], retry)
            BY <2>1, <3>1, GoesOnWorks DEF SessInv, AtWork
        <3>4. SetStore(d, retry)
            BY <1>3, <2>2 DEF RetryLater
        <3> HIDE DEF retry, d
        <3>. QED
            BY <1>1, <2>1, <3>1, <3>2, <3>3, <3>4, StoreKeepsSessions
    <2>3. CASE ~CanSettle(store[d], c, c.gen, c.mut.id)
        <3>1. store' = store
            BY <1>3, <2>3 DEF RetryLater, SetStore, TypeInv, TypeOK
        <3>. QED
            BY <1>1, <3>1, CallsKeepSessions
    <2>. QED
        BY <2>2, <2>3
<1>. QED
    BY <1>2, <1>3 DEF DeliverRefused, CallFails

LEMMA BrowserSessions ==
    ASSUME TypeInv, IdInv, OkSays, SessInv, UserNext \/ WorkerNext
    PROVE  SessInv'
<1>1. ASSUME NEW d \in Device, PullStart(d) \/ ResolveStart(d) \/ WorkerStops(d)
      PROVE  SessInv'
    BY <1>1, CallsKeepSessions DEF PullStart, ResolveStart, WorkerStops, Others
<1>2. CASE UserNext
    BY <1>1, <1>2, SaveSessions, LoginStartSessions, UseLocalSessions, LogoutSessions DEF UserNext
<1>3. CASE WorkerNext
    BY <1>1, <1>3, LoginSessions, PullSessions, MergeSessions, DrainClaimSessions,
       DeliverSessions, GivenUpSessions
    DEF WorkerNext
<1>. QED
    BY <1>2, <1>3

LEMMA InitSessions == Init => SessInv
<1> SUFFICES ASSUME Init PROVE SessInv
    OBVIOUS
<1>1. /\ \A d \in Device : /\ store[d].metas = {} /\ store[d].outbox = {}
                           /\ store[d].conflicts = {} /\ vault[d] = None
      /\ logins = {} /\ nextGen = 1
    BY DEF Init, NewStore
<1>. QED
    BY <1>1 DEF SessInv, GenInv, GensIn, NewLogin, OneLogin, Sessions, SessionOK, ActiveMeta,
                AtWork, Works

LEMMA NextSessions == TypeInv /\ IdInv /\ OkSays /\ SessInv /\ [Next]_vars => SessInv'
<1> SUFFICES ASSUME TypeInv, IdInv, OkSays, SessInv, [Next]_vars PROVE SessInv'
    OBVIOUS
<1>1. CASE UserNext \/ WorkerNext
    BY <1>1, BrowserSessions
<1>2. CASE ServerNext
    BY <1>2, CallsKeepSessions DEF ServerNext, ServerPut, ServerLate, AdminRestores, Retention, calls
<1>3. CASE UNCHANGED vars
    BY <1>3, CallsKeepSessions DEF vars
<1>. QED
    BY <1>1, <1>2, <1>3 DEF Next

\* The invariant of the whole protocol.
Inv == TypeInv /\ IdInv /\ ServedInv /\ BeliefInv /\ SessInv

LEMMA InvIsKept == Spec => []Inv
<1>1. Init => Inv
    BY InitType, InitIds, InitBeliefs, InitSessions DEF Inv
<1>2. Inv /\ [Next]_vars => Inv'
    BY NextType, NextIds, NextServed, NextBeliefs, NextSessions DEF Inv, BeliefInv
<1>. QED
    BY <1>1, <1>2, PTL DEF Spec

\* While a session is ready, whatever the user has that differs from the last
\* known server version is queued, and the newest mutation carries it: through
\* edits behind a request, conflicts and their resolution, pulls, crashes and
\* late answers (commitProfile, acknowledge, resolveConflict, forceEnqueueCurrent).
THEOREM NothingIsForgotten == Spec => []NothingForgotten
<1>1. Inv => NothingForgotten
    <2> SUFFICES ASSUME Inv, NEW d \in Device, NEW m \in store[d].metas, InSession(d, m),
                        store[d].local # m.base
                 PROVE  \E q \in Newest(store[d], m) : q.content = store[d].local
        BY DEF NothingForgotten
    <2>1. /\ store[d] \in Store /\ ShapeOK(store[d]) /\ m.acct \in Account /\ m.pid \in ProfileId
        BY FreshId DEF Inv, Store, Metadata
    <2>2. Working(store[d], m)
        BY DEF Inv, SessInv, AtWork, Works, InSession, Ready, SyncContext
    <2>3. NewestRows(store[d], m) = Newest(store[d], m)
        BY <2>1, NewestIsSeen DEF Newest
    <2>. QED
        BY <2>2, <2>3 DEF Working
<1>. QED
    BY <1>1, InvIsKept, PTL

\* A profile shown as in sync is in sync: nothing of the session is queued,
\* and the local profile is what the server held as the version it was last
\* seen at (the statuses acknowledge, acceptRemote and commitProfile set).
THEOREM IdleIsSynced == Spec => []IdleMeansSynced
<1>1. Inv => IdleMeansSynced
    <2> SUFFICES ASSUME Inv, NEW d \in Device, NEW m \in store[d].metas, InSession(d, m),
                        m.status = "idle", m.baseV > 0
                 PROVE  /\ \A q \in Rows(store[d].outbox, m) : q.gen # m.gen
                        /\ store[d].local = server[m.acct].history[m.baseV].content
        BY DEF IdleMeansSynced
    <2>1. m \in ActiveMeta(store[d]) /\ m \in Metadata /\ m.baseV \in Nat /\ m.gen \in Nat
        BY DEF Inv, InSession, SyncContext, TypeInv, TypeOK, Store, Metadata
    <2>2. \A q \in store[d].outbox : q.gen # m.gen
        BY <2>1 DEF Inv, SessInv, Sessions, SessionOK
    <2>3. store[d].local = m.base
        BY DEF Inv, SessInv, AtWork, Works, InSession, Ready, SyncContext, Working
    <2>4. Trusted(Known, Nat, m)
        BY DEF Inv, BeliefInv, BeliefsIn, Knows
    <2>5. m.baseV \notin {None, 0}
        BY <2>1, NoneAssumption
    <2>6. <<m.acct, m.baseV, m.base>> \in Known
        BY <2>1, <2>4, <2>5 DEF Trusted
    <2>7. server[m.acct].history[m.baseV].content = m.base
        BY <2>6 DEF Known, Holds
    <2>. QED
        BY <2>2, <2>3, <2>7 DEF Rows
<1>. QED
    BY <1>1, InvIsKept, PTL


-----------------------------------------------------------------------------
\* Conflicts and their resolutions.  A conflict of the server is raised against
\* one mutation: in the log, in an answer, in a store.  While its mutation is
\* still in flight, or its store keeps it, it is open and nothing resolves it;
\* a resolution goes on top of the version the conflict named, and whoever
\* closes a conflict moves the account past that version.
Exists(x) == x \in Sent \/ \E d \in Device : x \in store[d].outbox

RaisedAs(a, cid, mid) ==
    \/ \E r \in server[a].log : r.status = "conflict" /\ r.cid = cid /\ r.mid = mid
    \/ \E c \in puts : /\ c.acct = a /\ c.reply # None /\ c.reply.status = "conflict"
                       /\ c.reply.cid = cid /\ c.mut.id = mid
    \/ \E d \in Device : \E c \in store[d].conflicts :
           c.acct = a /\ c.serverId = cid /\ c.mid = mid

Unresolved(a, cid) ==
    /\ cid \in server[a].open
    /\ \A x : Exists(x) /\ x.acct = a => x.resolves # cid

OneResolution ==
    \A x, y : Exists(x) /\ Exists(y) /\ x.resolves # None /\ x.resolves = y.resolves
              /\ x.acct = y.acct => x.id = y.id
StillOpen ==
    \A x : Exists(x) /\ x.state # "conflict" /\ x.resolves # None =>
        /\ x.baseV \in Nat
        /\ x.resolves \in server[x.acct].open \/ Len(server[x.acct].history) > x.baseV
KeptUnresolved == \A d \in Device : \A c \in store[d].conflicts : Unresolved(c.acct, c.serverId)
RaisedOnce ==
    \A a \in Account : \A cid, mid, mid2 :
        RaisedAs(a, cid, mid) /\ RaisedAs(a, cid, mid2) => mid = mid2
FlyingUnresolved ==
    \A a \in Account : \A cid, mid : RaisedAs(a, cid, mid) =>
        \A d \in Device : \A q \in store[d].outbox :
            q.state = "in-flight" /\ q.id = mid => Unresolved(a, cid)
Numbered ==
    /\ \A a \in Account : \A cid, mid : RaisedAs(a, cid, mid) => cid <= server[a].serial
    /\ \A x : Exists(x) /\ x.resolves # None => x.resolves <= server[x.acct].serial

ResInv == /\ OneResolution /\ StillOpen /\ KeptUnresolved
          /\ RaisedOnce /\ FlyingUnresolved /\ Numbered

\* What exists is a mutation, what is raised has a number.
LEMMA ExistsType ==
    ASSUME TypeInv, NEW x, Exists(x)
    PROVE  x \in Mutation /\ x.acct \in Account /\ x.resolves \in Nat \cup {None}
<1>1. x \in Mutation
    BY PutType DEF Exists, Sent, TypeInv, TypeOK, Store
<1>. QED
    BY <1>1 DEF Mutation

LEMMA RaisedType ==
    ASSUME TypeInv, NEW a \in Account, NEW cid, NEW mid, RaisedAs(a, cid, mid)
    PROVE  cid \in Nat /\ cid # None
<1>1. CASE \E r \in server[a].log : r.status = "conflict" /\ r.cid = cid /\ r.mid = mid
    BY <1>1, NoneAssumption DEF TypeInv, TypeOK, Server, Response
<1>2. CASE \E c \in puts : /\ c.acct = a /\ c.reply # None /\ c.reply.status = "conflict"
                           /\ c.reply.cid = cid /\ c.mut.id = mid
    BY <1>2, ReplyType, NoneAssumption DEF Reply
<1>3. CASE \E d \in Device : \E c \in store[d].conflicts :
               c.acct = a /\ c.serverId = cid /\ c.mid = mid
    BY <1>3, NoneAssumption DEF TypeInv, TypeOK, Store, Conflict
<1>. QED
    BY <1>1, <1>2, <1>3, NoneAssumption DEF RaisedAs

\* A mutation that waits has been refused by nobody.
LEMMA WaitingNotRaised ==
    ASSUME TypeInv, IdInv, ServedInv, NEW d \in Device, NEW q \in store[d].outbox, Waiting(q),
           NEW a \in Account, NEW cid
    PROVE  ~RaisedAs(a, cid, q.id)
<1>1. \A r \in server[a].log : r.mid # q.id
    BY DEF ServedInv, Unserved, Unknown
<1>2. \A c \in puts : c.mut.id # q.id
    BY DEF IdInv, SentRow, Sent
<1>3. \A e \in Device : \A c \in store[e].conflicts : c.mid # q.id
    <2>1. SUFFICES ASSUME NEW e \in Device, NEW c \in store[e].conflicts, c.mid = q.id PROVE FALSE
        OBVIOUS
    <2>2. PICK r \in store[e].outbox : r.state = "conflict" /\ r.id = c.mid
        BY ConflictRow
    <2>3. r = q
        BY <2>1, <2>2 DEF IdInv, OneRow
    <2>. QED
        BY <2>2, <2>3 DEF Waiting
<1>. QED
    BY <1>1, <1>2, <1>3 DEF RaisedAs

\* Two conflicts kept about one mutation are the same.
LEMMA KeptOnce ==
    ASSUME TypeInv, IdInv, NEW d \in Device, NEW c \in store[d].conflicts,
           NEW e \in Device, NEW c2 \in store[e].conflicts, c.mid = c2.mid
    PROVE  d = e /\ c = c2
<1>1. PICK q \in store[d].outbox : InScope(q, c) /\ q.id = c.mid
    BY ConflictRow
<1>2. PICK q2 \in store[e].outbox : InScope(q2, c2) /\ q2.id = c2.mid
    BY ConflictRow
<1>3. d = e /\ q = q2
    BY <1>1, <1>2 DEF IdInv, OneRow
<1>4. InScope(c2, c)
    BY <1>1, <1>2, <1>3 DEF InScope
<1>5. store[d] \in Store /\ ShapeOK(store[d])
    BY FreshId
<1>6. c.acct \in Account /\ c.pid \in ProfileId
    BY <1>5 DEF Store, Conflict
<1>7. ScopeShape(Rows(store[d].outbox, c), Rows(store[d].conflicts, c))
    BY <1>5, <1>6, ShapeOf
<1>8. c \in Rows(store[d].conflicts, c) /\ c2 \in Rows(store[d].conflicts, c)
    BY <1>3, <1>4 DEF Rows, InScope
<1>. QED
    BY <1>3, <1>7, <1>8 DEF ScopeShape

\* A step of a browser that resolves nothing.
LEMMA ResFrame ==
    ASSUME ResInv, server' = server,
           \A x : Exists(x)' /\ x.resolves # None => \E y : Exists(y) /\ Traces(y, x),
           \A a, cid, mid : RaisedAs(a, cid, mid)' => RaisedAs(a, cid, mid),
           \A d \in Device : \A c \in store'[d].conflicts :
               c \in store[d].conflicts \/ Unresolved(c.acct, c.serverId),
           \A a \in Account : \A cid : \A d \in Device : \A q \in store'[d].outbox :
               q.state = "in-flight" /\ RaisedAs(a, cid, q.id) =>
                   q \in store[d].outbox \/ Unresolved(a, cid),
           \A a \in Account : \A cid, mid : RaisedAs(a, cid, mid) => cid # None,
           \A d \in Device : \A c \in store'[d].conflicts : c.serverId # None
    PROVE  ResInv'
<1>1. \A a, cid : cid # None /\ Unresolved(a, cid) => Unresolved(a, cid)'
    <2>1. SUFFICES ASSUME NEW a, NEW cid, cid # None, Unresolved(a, cid),
                          NEW x, Exists(x)', x.acct = a, x.resolves = cid
                   PROVE  FALSE
        BY DEF Unresolved
    <2>2. PICK y : Exists(y) /\ Traces(y, x)
        BY <2>1
    <2>. QED
        BY <2>1, <2>2 DEF Unresolved, Traces
<1>2. OneResolution'
    <2>1. SUFFICES ASSUME NEW x, NEW y, Exists(x)', Exists(y)', x.resolves # None,
                          x.resolves = y.resolves, x.acct = y.acct
                   PROVE  x.id = y.id
        BY DEF OneResolution
    <2>2. PICK x0 : Exists(x0) /\ Traces(x0, x)
        BY <2>1
    <2>3. PICK y0 : Exists(y0) /\ Traces(y0, y)
        BY <2>1
    <2>. QED
        BY <2>1, <2>2, <2>3 DEF ResInv, OneResolution, Traces
<1>3. StillOpen'
    <2>1. SUFFICES ASSUME NEW x, Exists(x)', x.state # "conflict", x.resolves # None
                   PROVE  /\ x.baseV \in Nat
                          /\ \/ x.resolves \in server[x.acct].open
                             \/ Len(server[x.acct].history) > x.baseV
        BY DEF StillOpen
    <2>2. PICK y : Exists(y) /\ Traces(y, x)
        BY <2>1
    <2>. QED
        BY <2>1, <2>2 DEF ResInv, StillOpen, Traces
<1>4. KeptUnresolved'
    BY <1>1 DEF ResInv, KeptUnresolved
<1>5. RaisedOnce'
    BY DEF ResInv, RaisedOnce
<1>6. FlyingUnresolved'
    <2>1. SUFFICES ASSUME NEW a \in Account, NEW cid, NEW mid, RaisedAs(a, cid, mid),
                          NEW d \in Device, NEW q \in store'[d].outbox,
                          q.state = "in-flight", q.id = mid
                   PROVE  Unresolved(a, cid)'
        BY DEF FlyingUnresolved
    <2>2. Unresolved(a, cid)
        BY <2>1 DEF ResInv, FlyingUnresolved
    <2>. QED
        BY <1>1, <2>1, <2>2
<1>7. Numbered'
    <2>1. \A x : Exists(x)' /\ x.resolves # None => x.resolves <= server[x.acct].serial
        BY DEF ResInv, Numbered, Traces
    <2>. QED
        BY <2>1 DEF ResInv, Numbered
<1>. QED
    BY <1>2, <1>3, <1>4, <1>5, <1>6, <1>7 DEF ResInv


\* Calls that begin or end without a transaction.
LEMMA QuietRes ==
    ASSUME TypeInv, ResInv, store' = store, server' = server,
           Sent' \subseteq Sent, \A c \in puts' : c \in puts \/ c.reply = None
    PROVE  ResInv'
<1>1. \A x : Exists(x)' => Exists(x) /\ Traces(x, x)
    BY DEF Exists, Traces
<1>2. \A a, cid, mid : RaisedAs(a, cid, mid)' => RaisedAs(a, cid, mid)
    BY DEF RaisedAs
<1>3. \A a \in Account : \A cid, mid : RaisedAs(a, cid, mid) => cid # None
    BY RaisedType
<1>4. \A d \in Device : \A c \in store[d].conflicts : c.serverId # None
    BY NoneAssumption DEF TypeInv, TypeOK, Store, Conflict
<1>. QED
    BY <1>1, <1>2, <1>3, <1>4, ResFrame

\* A resolution waits with a base: the one of the conflict it resolves.
LEMMA StoreIsDirect == ASSUME TypeInv, ResInv, NEW d \in Device PROVE Direct(store[d])
<1>1. \A q \in store[d].outbox : Waiting(q) /\ q.resolves # None => q.baseV \in Nat
    BY DEF ResInv, StillOpen, Exists, Waiting
<1>. QED
    BY <1>1, NoneAssumption DEF Direct

\* What is in flight in an outbox now was, or waited.
LEMMA FlyingWas ==
    ASSUME TypeInv, IdInv, NEW d \in Device, NEW st, NEW fresh, Steps(store[d], st, fresh),
           NEW q \in st.outbox, q.state = "in-flight"
    PROVE  \/ q \in store[d].outbox
           \/ \E r \in store[d].outbox : Waiting(r) /\ r.id = q.id
BY DEF Steps, Moves, Follows, Becomes, Waiting

\* A transaction that resolves nothing and draws on no answer it has not got.
LEMMA StoreKeepsRes ==
    ASSUME TypeInv, IdInv, ServedInv, ResInv, NEW d \in Device, NEW st \in Store, SetStore(d, st),
           NEW fresh, Steps(store[d], st, fresh), Refers(store[d], st, {}), server' = server,
           \A x \in Sent' : x \in Sent \/ x \in st.outbox,
           \A c \in puts' : c \in puts \/ c.reply = None,
           \A c \in st.conflicts : c \in store[d].conflicts \/
               (RaisedAs(c.acct, c.serverId, c.mid) /\ Unresolved(c.acct, c.serverId))
    PROVE  ResInv'
<1>1. store'[d] = st /\ \A e \in Device : e # d => store'[e] = store[e]
    BY DEF SetStore, TypeInv, TypeOK
<1>2. \A x : Exists(x)' => Exists(x) \/ x \in st.outbox
    BY <1>1 DEF Exists
<1>3. \A x : Exists(x)' /\ x.resolves # None => \E y : Exists(y) /\ Traces(y, x)
    <2>1. SUFFICES ASSUME NEW x, Exists(x)', x.resolves # None
                   PROVE  \E y : Exists(y) /\ Traces(y, x)
        OBVIOUS
    <2>2. CASE Exists(x)
        BY <2>2 DEF Traces
    <2>3. CASE x \in st.outbox
        BY <2>1, <2>3 DEF Refers, Exists
    <2>. QED
        BY <1>2, <2>1, <2>2, <2>3
<1>4. \A a, cid, mid : RaisedAs(a, cid, mid)' => RaisedAs(a, cid, mid)
    <2>1. SUFFICES ASSUME NEW a, NEW cid, NEW mid, RaisedAs(a, cid, mid)'
                   PROVE  RaisedAs(a, cid, mid)
        OBVIOUS
    <2>2. CASE \E e \in Device : \E c \in store'[e].conflicts :
                   c.acct = a /\ c.serverId = cid /\ c.mid = mid
        <3>1. PICK e \in Device : \E c \in store'[e].conflicts :
                  c.acct = a /\ c.serverId = cid /\ c.mid = mid
            BY <2>2
        <3>2. PICK c \in store'[e].conflicts : c.acct = a /\ c.serverId = cid /\ c.mid = mid
            BY <3>1
        <3>3. CASE c \in store[e].conflicts
            BY <3>2, <3>3 DEF RaisedAs
        <3>4. CASE c \notin store[e].conflicts
            <4>1. c \in st.conflicts /\ c \notin store[d].conflicts
                BY <1>1, <3>2, <3>4
            <4>. QED
                BY <3>2, <4>1
        <3>. QED
            BY <3>3, <3>4
    <2>3. CASE \E r \in server[a].log : r.status = "conflict" /\ r.cid = cid /\ r.mid = mid
        BY <2>3 DEF RaisedAs
    <2>4. CASE \E c \in puts' : /\ c.acct = a /\ c.reply # None /\ c.reply.status = "conflict"
                                /\ c.reply.cid = cid /\ c.mut.id = mid
        BY <2>4 DEF RaisedAs
    <2>. QED
        BY <2>1, <2>2, <2>3, <2>4 DEF RaisedAs
<1>5. \A e \in Device : \A c \in store'[e].conflicts :
          c \in store[e].conflicts \/ Unresolved(c.acct, c.serverId)
    BY <1>1
<1>6. \A a \in Account : \A cid : \A e \in Device : \A q \in store'[e].outbox :
          q.state = "in-flight" /\ RaisedAs(a, cid, q.id) =>
              q \in store[e].outbox \/ Unresolved(a, cid)
    <2>1. SUFFICES ASSUME NEW a \in Account, NEW cid, NEW q \in st.outbox, q.state = "in-flight",
                          RaisedAs(a, cid, q.id)
                   PROVE  q \in store[d].outbox
        BY <1>1
    <2>. QED
        BY <2>1, FlyingWas, WaitingNotRaised
<1>7. \A a \in Account : \A cid, mid : RaisedAs(a, cid, mid) => cid # None
    BY RaisedType
<1>8. \A e \in Device : \A c \in store'[e].conflicts : c.serverId # None
    <2>1. \A c \in st.conflicts : c.serverId # None
        BY NoneAssumption DEF Store, Conflict
    <2>2. \A e \in Device : \A c \in store[e].conflicts : c.serverId # None
        BY NoneAssumption DEF TypeInv, TypeOK, Store, Conflict
    <2>. QED
        BY <1>1, <2>1, <2>2
<1>. QED
    BY <1>3, <1>4, <1>5, <1>6, <1>7, <1>8, ResFrame


\* resolveConflict writes the one mutation that resolves the conflict it merged.
LEMMA ResolveCommitRes ==
    ASSUME TypeInv, TypeInv', IdInv, ServedInv, ResInv, NEW c \in merges, ResolveCommit(c)
    PROVE  ResInv'
<1> DEFINE d == c.dev
           kept == c.conflict
           st == Resolve(store[d], c, c.gen, kept, c.successor, c.merged, nextId)
           new == ResolvedRow(store[d], c, c.gen, kept, c.merged, nextId)
<1>1. /\ d \in Device /\ c.acct \in Account /\ c.pid \in ProfileId
      /\ store[d] \in Store /\ ShapeOK(store[d]) /\ UniqueIds(store[d])
      /\ \A q \in store[d].outbox : q.id # nextId
    BY FreshId DEF TypeInv, TypeOK, Merge
<1>2. /\ SessionMeta(store[d], c, c.gen) # {}
      /\ kept \in Rows(store[d].conflicts, c) /\ store[d].rev = c.rev
    BY DEF ResolveCommit, CanResolve
<1>3. c.successor = Pending(store[d], c)
    BY <1>2 DEF IdInv, MergeInv, Reading, Rows
<1>4. /\ Steps(store[d], st, {nextId}) /\ Refers(store[d], st, {new})
      /\ st.conflicts = Outside(store[d].conflicts, c)
    BY <1>1, <1>2, <1>3, DecisionSteps, DecisionRefers
<1>5. /\ kept \in store[d].conflicts /\ kept.acct = c.acct /\ kept \in Conflict
      /\ kept.theirsV \in Nat /\ kept.serverId \in Nat
    BY <1>1, <1>2 DEF Rows, InScope, Store, Conflict
<1>6. /\ new.acct = c.acct /\ new.resolves = kept.serverId /\ new.baseV = kept.theirsV
      /\ new.id = nextId /\ new.state = "pending"
    <2>1. MetaOf(store[d], c, c.gen) \in Rows(store[d].metas, c)
        BY <1>2 DEF MetaOf, SessionMeta
    <2>. QED
        BY <2>1 DEF ResolvedRow, NewMutation, Rows, InScope
<1>7. /\ SetStore(d, st) /\ server' = server /\ Sent' = Sent /\ puts' = puts
    BY DEF ResolveCommit, Sent
<1>8. RaisedAs(c.acct, kept.serverId, kept.mid) /\ Unresolved(c.acct, kept.serverId)
    BY <1>1, <1>5 DEF RaisedAs, ResInv, KeptUnresolved
<1>9. \A e \in Device : \A k \in st.conflicts \cup store[e].conflicts : k.serverId # None
    BY <1>4, <1>1, NoneAssumption DEF TypeInv, TypeOK, Store, Conflict, Outside
<1> HIDE DEF st, new, d, kept
<1>10. store'[d] = st /\ \A e \in Device : e # d => store'[e] = store[e]
    BY <1>1, <1>7 DEF SetStore, TypeInv, TypeOK
<1>11. \A x : Exists(x)' => Exists(x) \/ x \in st.outbox
    BY <1>7, <1>10 DEF Exists
\* What resolves anything was there before, or is the new row.
<1>12. ASSUME NEW x, Exists(x)', x.resolves # None
       PROVE  x = new \/ \E y : Exists(y) /\ Traces(y, x)
    <2>1. CASE Exists(x)
        BY <2>1 DEF Traces
    <2>2. CASE x \in st.outbox
        BY <1>1, <1>4, <1>12, <2>2 DEF Refers, Exists
    <2>. QED
        BY <1>11, <1>12, <2>1, <2>2
<1>13. \A y : Exists(y) /\ y.acct = c.acct => y.resolves # kept.serverId
    BY <1>8 DEF Unresolved
<1>14. \A a, cid, mid : RaisedAs(a, cid, mid)' => RaisedAs(a, cid, mid)
    <2>1. \A e \in Device : \A k \in store'[e].conflicts : k \in store[e].conflicts
        BY <1>4, <1>10 DEF Outside
    <2>. QED
        BY <1>7, <2>1 DEF RaisedAs
\* Another conflict keeps being unresolved.
<1>15. ASSUME NEW a, NEW cid, cid # None, Unresolved(a, cid), a # c.acct \/ cid # kept.serverId
       PROVE  Unresolved(a, cid)'
    <2>1. SUFFICES ASSUME NEW x, Exists(x)', x.acct = a, x.resolves = cid PROVE FALSE
        BY <1>7, <1>15 DEF Unresolved
    <2>2. PICK y : Exists(y) /\ Traces(y, x)
        BY <1>6, <1>12, <1>15, <2>1
    <2>. QED
        BY <1>15, <2>1, <2>2 DEF Unresolved, Traces
<1>16. OneResolution'
    <2>1. SUFFICES ASSUME NEW x, NEW y, Exists(x)', Exists(y)', x.resolves # None,
                          x.resolves = y.resolves, x.acct = y.acct
                   PROVE  x.id = y.id
        BY DEF OneResolution
    <2>2. x = new \/ \E z : Exists(z) /\ Traces(z, x)
        BY <1>12, <2>1
    <2>3. y = new \/ \E z : Exists(z) /\ Traces(z, y)
        BY <1>12, <2>1
    <2>4. CASE x = new /\ y = new
        BY <2>4
    <2>5. CASE x = new /\ \E z : Exists(z) /\ Traces(z, y)
        BY <1>6, <1>13, <2>1, <2>5 DEF Traces
    <2>6. CASE y = new /\ \E z : Exists(z) /\ Traces(z, x)
        BY <1>6, <1>13, <2>1, <2>6 DEF Traces
    <2>7. ASSUME NEW x0, NEW y0, Exists(x0), Exists(y0), Traces(x0, x), Traces(y0, y)
          PROVE  x.id = y.id
        BY <2>1, <2>7 DEF ResInv, OneResolution, Traces
    <2>. QED
        BY <2>2, <2>3, <2>4, <2>5, <2>6, <2>7
<1>17. StillOpen'
    <2>1. SUFFICES ASSUME NEW x, Exists(x)', x.state # "conflict", x.resolves # None
                   PROVE  /\ x.baseV \in Nat
                          /\ \/ x.resolves \in server[x.acct].open
                             \/ Len(server[x.acct].history) > x.baseV
        BY <1>7 DEF StillOpen
    <2>2. CASE x = new
        BY <1>5, <1>6, <1>8, <2>2 DEF Unresolved
    <2>3. ASSUME NEW y, Exists(y), Traces(y, x)
          PROVE  /\ x.baseV \in Nat
                 /\ \/ x.resolves \in server[x.acct].open
                    \/ Len(server[x.acct].history) > x.baseV
        BY <2>1, <2>3 DEF ResInv, StillOpen, Traces
    <2>. QED
        BY <1>12, <2>1, <2>2, <2>3
<1>18. KeptUnresolved'
    <2>1. SUFFICES ASSUME NEW e \in Device, NEW k \in store'[e].conflicts
                   PROVE  Unresolved(k.acct, k.serverId)'
        BY DEF KeptUnresolved
    <2>2. k \in store[e].conflicts /\ (e # d \/ k # kept)
        BY <1>2, <1>4, <1>10 DEF Outside, Rows
    <2>3. Unresolved(k.acct, k.serverId) /\ k.serverId # None /\ k.acct \in Account
        BY <1>9, <2>2 DEF ResInv, KeptUnresolved, TypeInv, TypeOK, Store, Conflict
    <2>4. k.acct # c.acct \/ k.serverId # kept.serverId
        <3>1. SUFFICES ASSUME k.acct = c.acct, k.serverId = kept.serverId PROVE FALSE
            OBVIOUS
        <3>2. RaisedAs(c.acct, kept.serverId, k.mid)
            BY <2>2, <3>1 DEF RaisedAs
        <3>3. k.mid = kept.mid
            BY <1>1, <1>8, <3>2 DEF ResInv, RaisedOnce
        <3>. QED
            BY <1>1, <1>5, <2>2, <3>3, KeptOnce
    <2>. QED
        BY <1>15, <2>3, <2>4
<1>19. RaisedOnce'
    BY <1>14 DEF ResInv, RaisedOnce
<1>20. FlyingUnresolved'
    <2>1. SUFFICES ASSUME NEW a \in Account, NEW cid, NEW mid, RaisedAs(a, cid, mid),
                          NEW e \in Device, NEW q \in store'[e].outbox,
                          q.state = "in-flight", q.id = mid
                   PROVE  Unresolved(a, cid)'
        BY <1>14 DEF FlyingUnresolved
    <2>2. q \in store[e].outbox
        BY <1>1, <1>4, <1>10, <2>1, FlyingWas, WaitingNotRaised
    <2>3. Unresolved(a, cid) /\ cid # None
        BY <2>1, <2>2, RaisedType DEF ResInv, FlyingUnresolved
    <2>4. a # c.acct \/ cid # kept.serverId
        <3>1. SUFFICES ASSUME a = c.acct, cid = kept.serverId PROVE FALSE
            OBVIOUS
        <3>2. q.id = kept.mid
            BY <1>8, <2>1, <3>1 DEF ResInv, RaisedOnce
        <3>3. PICK r \in store[d].outbox : r.state = "conflict" /\ r.id = kept.mid
            BY <1>1, <1>5, ConflictRow
        <3>4. r = q
            BY <1>1, <2>2, <3>2, <3>3 DEF IdInv, OneRow
        <3>. QED
            BY <2>1, <3>3, <3>4
    <2>. QED
        BY <1>15, <2>3, <2>4
<1>21. Numbered'
    <2>1. \A a \in Account : \A cid, mid : RaisedAs(a, cid, mid)' => cid <= server[a].serial
        BY <1>14 DEF ResInv, Numbered
    <2>2. ASSUME NEW x, Exists(x)', x.resolves # None
          PROVE  x.resolves <= server[x.acct].serial
        <3>1. CASE x = new
            BY <1>1, <1>6, <1>8, <3>1 DEF ResInv, Numbered
        <3>2. ASSUME NEW y, Exists(y), Traces(y, x)
              PROVE  x.resolves <= server[x.acct].serial
            BY <2>2, <3>2 DEF ResInv, Numbered, Traces
        <3>. QED
            BY <1>12, <2>2, <3>1, <3>2
    <2>. QED
        BY <1>7, <2>1, <2>2 DEF Numbered
<1>. QED
    BY <1>16, <1>17, <1>18, <1>19, <1>20, <1>21 DEF ResInv


\* The other transactions of a browser.
LEMMA SaveRes ==
    ASSUME TypeInv, TypeInv', IdInv, ServedInv, ResInv, NEW d \in Device, NEW p \in Profile, Save(d, p)
    PROVE  ResInv'
<1> DEFINE st == CommitProfile(store[d], p, nextId)
<1>1. PICK fresh \in {{}, {nextId}} : Steps(store[d], st, fresh)
    BY FreshId, CommitProfileSteps
<1>2. RefersOnly(store[d], st)
    BY FreshId, CommitProfileRefers
<1>3. SetStore(d, st) /\ server' = server /\ Sent' = Sent /\ puts' = puts
    BY DEF Save, calls, Sent
<1> HIDE DEF st
<1>4. st \in Store
    BY <1>3, StoreAfter
<1>. QED
    BY <1>1, <1>2, <1>3, <1>4, StoreKeepsRes DEF RefersOnly

\* A transaction that touches neither outbox nor conflicts.
LEMMA SameQueueRes ==
    ASSUME TypeInv, TypeInv', IdInv, ServedInv, ResInv, NEW d \in Device, NEW st, SetStore(d, st),
           st.outbox = store[d].outbox, st.conflicts = store[d].conflicts,
           st.rev = store[d].rev, server' = server,
           Sent' \subseteq Sent, \A c \in puts' : c \in puts \/ c.reply = None
    PROVE  ResInv'
<1>1. Steps(store[d], st, {})
    BY FreshId, SameQueueSteps DEF Store
<1>2. RefersOnly(store[d], st)
    BY SameRefers
<1>3. st \in Store
    BY StoreAfter
<1>. QED
    BY <1>1, <1>2, <1>3, StoreKeepsRes DEF RefersOnly

LEMMA LoginRes ==
    ASSUME TypeInv, TypeInv', IdInv, ServedInv, ResInv, NEW c \in logins, LoginActivate(c) \/ LoginFail(c)
    PROVE  ResInv'
<1>1. CASE LoginActivate(c)
    <2> DEFINE st == ActivateAccount(store[c.dev], c.acct, c.pid, c.gen, c.version, c.base)
    <2>1. c.dev \in Device
        BY DEF TypeInv, TypeOK, Login
    <2>2. /\ st.outbox = store[c.dev].outbox /\ st.conflicts = store[c.dev].conflicts
          /\ st.rev = store[c.dev].rev
        BY <2>1 DEF ActivateAccount, Store, TypeInv, TypeOK
    <2>3. SetStore(c.dev, st) /\ server' = server /\ Sent' = Sent /\ puts' = puts
        BY <1>1 DEF LoginActivate, Sent
    <2> HIDE DEF st
    <2>. QED
        BY <2>1, <2>2, <2>3, SameQueueRes
<1>2. CASE LoginFail(c)
    BY <1>2, QuietRes DEF LoginFail, Sent
<1>. QED
    BY <1>1, <1>2

LEMMA LogoutRes ==
    ASSUME TypeInv, TypeInv', IdInv, ServedInv, ResInv, NEW d \in Device, Logout(d)
    PROVE  ResInv'
<1> DEFINE st == IF SyncContext(d) = {} THEN store[d]
                 ELSE DeactivateAccount(store[d], CHOOSE m \in SyncContext(d) : TRUE, vault[d].gen)
<1>1. /\ st.outbox = store[d].outbox /\ st.conflicts = store[d].conflicts
      /\ st.rev = store[d].rev
    BY DEF DeactivateAccount, Store, TypeInv, TypeOK
<1>2. SetStore(d, st) /\ server' = server /\ Sent' = Sent /\ puts' = puts
    BY DEF Logout, Sent
<1> HIDE DEF st
<1>. QED
    BY <1>1, <1>2, SameQueueRes

LEMMA UseLocalRes ==
    ASSUME TypeInv, TypeInv', IdInv, ServedInv, ResInv, NEW d \in Device, UseLocal(d)
    PROVE  ResInv'
<1> DEFINE s == [acct |-> vault[d].acct, pid |-> store[d].local.pid]
           gen == vault[d].gen
           st == ForceEnqueue(store[d], s, gen, nextId)
<1>1. /\ SessionMeta(store[d], s, gen) # {} /\ s.acct \in Account /\ s.pid \in ProfileId
    BY SessionType DEF UseLocal, CanForceEnqueue, Session, TypeInv, TypeOK, Store, Profile
<1>2. SetStore(d, st) /\ server' = server /\ Sent' = Sent /\ puts' = puts
    BY DEF UseLocal, calls, Sent
<1> HIDE DEF s, gen
<1>3. Steps(store[d], st, {nextId}) /\ RefersOnly(store[d], st)
    BY <1>1, FreshId, DecisionSteps, DecisionRefers
<1> HIDE DEF st
<1>4. st \in Store
    BY <1>2, StoreAfter
<1>. QED
    BY <1>2, <1>3, <1>4, StoreKeepsRes DEF RefersOnly

LEMMA PullRes ==
    ASSUME TypeInv, TypeInv', IdInv, ServedInv, ResInv, NEW c \in pulls, PullApply(c) \/ PullFail(c)
    PROVE  ResInv'
<1>1. CASE PullApply(c)
    <2> DEFINE d == c.dev
               st == AcceptRemote(store[d], c, c.gen, c.version, c.remote)
    <2>1. d \in Device /\ c.acct \in Account /\ c.pid \in ProfileId
        BY DEF TypeInv, TypeOK, Pull
    <2>2. SessionMeta(store[d], c, c.gen) # {}
        BY <1>1 DEF PullApply, CanAcceptRemote
    <2>3. Steps(store[d], st, {}) /\ RefersOnly(store[d], st)
        BY <2>1, <2>2, FreshId, DecisionSteps, DecisionRefers
    <2>4. SetStore(d, st) /\ server' = server /\ Sent' = Sent /\ puts' = puts
        BY <1>1 DEF PullApply, Sent
    <2> HIDE DEF st, d
    <2>5. st \in Store
        BY <2>1, <2>4, StoreAfter
    <2>. QED
        BY <2>1, <2>3, <2>4, <2>5, StoreKeepsRes DEF RefersOnly
<1>2. CASE PullFail(c)
    BY <1>2, QuietRes DEF PullFail, Sent
<1>. QED
    BY <1>1, <1>2

LEMMA DrainClaimRes ==
    ASSUME TypeInv, TypeInv', IdInv, ServedInv, ResInv,
           NEW d \in Device, NEW slot \in Slots, DrainClaim(d, slot)
    PROVE  ResInv'
<1> DEFINE call(m, q) == [dev |-> d, slot |-> slot, acct |-> m.acct, pid |-> m.pid,
                          gen |-> vault[d].gen, mut |-> InFlight(q), reply |-> None]
<1>1. PICK m \in SyncContext(d) : \E q \in Claimable(store[d], m, vault[d].gen) :
          SetStore(d, ClaimDue(store[d], q)) /\ puts' = puts \cup {call(m, q)}
    BY DEF DrainClaim
<1>2. PICK q \in Claimable(store[d], m, vault[d].gen) :
          SetStore(d, ClaimDue(store[d], q)) /\ puts' = puts \cup {call(m, q)}
    BY <1>1
<1> DEFINE st == ClaimDue(store[d], q)
<1>3. m.acct \in Account /\ m.pid \in ProfileId
    BY DEF SyncContext, ActiveMeta, TypeInv, TypeOK, Store, Metadata
<1>4. /\ Steps(store[d], st, {}) /\ InFlight(q) \in st.outbox
      /\ RefersOnly(store[d], st)
    BY <1>2, <1>3, FreshId, ClaimDueSteps, ClaimDueRefers
<1>5. /\ SetStore(d, st) /\ server' = server
      /\ \A c \in puts' : c \in puts \/ c.reply = None
      /\ \A x \in Sent' : x \in Sent \/ x = InFlight(q)
    BY <1>2 DEF DrainClaim, Sent
<1> HIDE DEF st
<1>6. st \in Store
    BY <1>5, StoreAfter
<1>. QED
    BY <1>4, <1>5, <1>6, StoreKeepsRes DEF RefersOnly

\* An answer is taken: a conflict, while the mutation it stops is in flight.
LEMMA DeliverRes ==
    ASSUME TypeInv, TypeInv', IdInv, ServedInv, ResInv, NEW c \in puts,
           DeliverAck(c) \/ DeliverConflict(c) \/ DeliverServerEmpty(c)
    PROVE  ResInv'
<1> DEFINE d == c.dev
           after(st) == /\ Steps(store[d], st, {}) /\ Refers(store[d], st, {})
                        /\ \A k \in st.conflicts : k \in store[d].conflicts \/
                             (RaisedAs(k.acct, k.serverId, k.mid) /\ Unresolved(k.acct, k.serverId))
<1>1. /\ d \in Device /\ c.acct \in Account /\ c.pid \in ProfileId
      /\ store[d] \in Store /\ ShapeOK(store[d]) /\ UniqueIds(store[d])
      /\ CanSettle(store[d], c, c.gen, c.mut.id)
    BY PutType, FreshId DEF DeliverAck, CanAcknowledge, DeliverConflict, DeliverServerEmpty
<1>2. SUFFICES \E st : after(st) /\ SetStore(d, st)
    <2>1. PICK st : after(st) /\ SetStore(d, st)
        BY <1>2
    <2>2. server' = server /\ Sent' \subseteq Sent /\ puts' \subseteq puts
        BY DEF DeliverAck, DeliverConflict, DeliverServerEmpty, Return, Sent
    <2>3. st \in Store
        BY <1>1, <2>1, StoreAfter
    <2> HIDE DEF d
    <2>. QED
        BY <1>1, <2>1, <2>2, <2>3, StoreKeepsRes
<1>3. CASE DeliverAck(c)
    <2> DEFINE st == Acknowledge(store[d], c, c.gen, c.mut.id, c.reply.version, c.reply.content)
    <2>1. c.reply.version \in Nat /\ c.reply.content \in Profile
        BY <1>3, ReplyType DEF DeliverAck, Answered, Reply, Telling
    <2>2. after(st)
        BY <1>1, <2>1, StoreIsDirect, SettleSteps, AcknowledgeRefers DEF RefersOnly
    <2>3. SetStore(d, st)
        BY <1>3 DEF DeliverAck
    <2>. QED
        BY <2>2, <2>3
<1>4. CASE DeliverConflict(c)
    <2> DEFINE st == RecordConflict(store[d], c, c.gen, c.mut.id, c.reply.version,
                                    c.reply.content, c.reply.cid)
    <2>1. Steps(store[d], st, {})
        BY <1>1, SettleSteps
    <2>2. /\ Refers(store[d], st, {})
          /\ \A k \in st.conflicts : k \in store[d].conflicts \/
                 (k.mid = c.mut.id /\ k.acct = c.acct /\ k.serverId = c.reply.cid)
        BY <1>1, StoppedRefers
    <2>3. RaisedAs(c.acct, c.reply.cid, c.mut.id)
        BY <1>4 DEF DeliverConflict, Answered, RaisedAs
    <2>4. PICK q \in store[d].outbox : q.state = "in-flight" /\ q.id = c.mut.id
        BY <1>1 DEF CanSettle, Queued, Rows
    <2>5. Unresolved(c.acct, c.reply.cid)
        BY <1>1, <2>3, <2>4 DEF ResInv, FlyingUnresolved
    <2>6. SetStore(d, st)
        BY <1>4 DEF DeliverConflict
    <2> HIDE DEF st
    <2>7. after(st)
        BY <2>1, <2>2, <2>3, <2>5
    <2>. QED
        BY <2>6, <2>7
<1>5. CASE DeliverServerEmpty(c)
    <2> DEFINE st == FreezeServerEmpty(store[d], c, c.gen, c.mut.id)
    <2>1. after(st)
        BY <1>1, SettleSteps, StoppedRefers DEF RefersOnly
    <2>2. SetStore(d, st)
        BY <1>5 DEF DeliverServerEmpty
    <2>. QED
        BY <2>1, <2>2
<1>. QED
    BY <1>3, <1>4, <1>5

LEMMA GivenUpRes ==
    ASSUME TypeInv, TypeInv', IdInv, ServedInv, ResInv, NEW c \in puts, DeliverRefused(c) \/ CallFails(c)
    PROVE  ResInv'
<1>1. server' = server /\ puts' \subseteq puts /\ Sent' \subseteq Sent
    BY DEF DeliverRefused, CallFails, Return, Sent
<1>2. CASE UNCHANGED store
    BY <1>1, <1>2, QuietRes
<1>3. CASE RetryLater(c)
    <2> DEFINE d == c.dev
               st == IF CanSettle(store[d], c, c.gen, c.mut.id)
                     THEN ScheduleRetry(store[d], c, c.gen) ELSE store[d]
    <2>1. d \in Device /\ store[d] \in Store
        BY PutType
    <2>2. /\ st.outbox = store[d].outbox /\ st.conflicts = store[d].conflicts
          /\ st.rev = store[d].rev
        BY <2>1 DEF ScheduleRetry, Store
    <2>3. SetStore(d, st)
        BY <1>3 DEF RetryLater
    <2> HIDE DEF st, d
    <2>. QED
        BY <1>1, <2>1, <2>2, <2>3, SameQueueRes
<1>. QED
    BY <1>2, <1>3 DEF DeliverRefused, CallFails


\* A request is served: the account's conflicts stay as they were, one is
\* raised under a number of its own, or the one it resolves is closed.
LEMMA ServedRes ==
    ASSUME TypeInv, IdInv, ServedInv, ResInv, NEW x \in Sent,
           server' = [server EXCEPT ![x.acct] = ApplySyncMutation(@, x)], store' = store,
           Sent' \subseteq Sent,
           \A c \in puts' : c \in puts \/
               (c.acct = x.acct /\ c.mut.id = x.id /\ c.reply = AnswerOf(server[x.acct], x))
    PROVE  ResInv'
<1> DEFINE a == x.acct
           sv == server[a]
           sv2 == ApplySyncMutation(sv, x)
           cid2 == sv.serial + 1
<1>1. x \in Mutation /\ Based(x) /\ a \in Account /\ x.baseV \in Nat
    BY PutType DEF Sent, TypeInv, TypeOK, LateInv, Mutation, Based
<1>2. sv \in Server /\ LogOK(sv) /\ sv.serial \in Nat /\ Len(sv.history) \in Nat
    BY <1>1 DEF TypeInv, TypeOK, LogInv, Server
<1>3. server'[a] = sv2 /\ \A b \in Account : b # a => server'[b] = server[b]
    BY <1>1 DEF TypeInv, TypeOK
<1>4. sv2 = sv \/ Raises(sv, x, sv2) \/ Closes(sv, x, sv2)
    BY <1>1, <1>2, AppliesAs
<1>5. AnswerOf(sv, x).status = "conflict" =>
          \E y \in sv2.log : y.mid = x.id /\ y.status = "conflict" /\ y.cid = AnswerOf(sv, x).cid
    BY <1>1, <1>2, AnswersAs
<1>6. \A y : Exists(y)' => Exists(y)
    BY DEF Exists
<1>7. \A y : Exists(y) => y.acct \in Account /\ y.resolves \in Nat \cup {None}
    BY ExistsType
<1>8. Exists(x)
    BY DEF Exists
\* What is raised was, or is the new conflict.
<1>9. ASSUME NEW b \in Account, NEW cid, NEW mid, RaisedAs(b, cid, mid)'
      PROVE  \/ RaisedAs(b, cid, mid)
             \/ Raises(sv, x, sv2) /\ b = a /\ cid = cid2 /\ mid = x.id
    <2>1. ASSUME NEW r \in server'[b].log, r.status = "conflict", r.cid = cid, r.mid = mid
          PROVE  \/ RaisedAs(b, cid, mid)
                 \/ Raises(sv, x, sv2) /\ b = a /\ cid = cid2 /\ mid = x.id
        <3>1. CASE r \in server[b].log
            BY <2>1, <3>1 DEF RaisedAs
        <3>2. CASE r \notin server[b].log
            <4>1. b = a /\ r \in sv2.log /\ r \notin sv.log
                BY <1>3, <2>1, <3>2
            <4>. QED
                BY <1>4, <2>1, <4>1 DEF Raises, Closes
        <3>. QED
            BY <3>1, <3>2
    <2>2. CASE \E c \in puts' : /\ c.acct = b /\ c.reply # None /\ c.reply.status = "conflict"
                                /\ c.reply.cid = cid /\ c.mut.id = mid
        <3>1. PICK c \in puts' : /\ c.acct = b /\ c.reply # None /\ c.reply.status = "conflict"
                                 /\ c.reply.cid = cid /\ c.mut.id = mid
            BY <2>2
        <3>2. CASE c \in puts
            BY <3>1, <3>2 DEF RaisedAs
        <3>3. CASE c \notin puts
            <4>1. c.acct = a /\ c.mut.id = x.id /\ c.reply = AnswerOf(sv, x)
                BY <3>3
            <4>2. \E y \in server'[a].log : y.mid = x.id /\ y.status = "conflict" /\ y.cid = c.reply.cid
                BY <1>3, <1>5, <3>1, <4>1
            <4>. QED
                BY <2>1, <3>1, <4>1, <4>2
        <3>. QED
            BY <3>2, <3>3
    <2>3. CASE \E d \in Device : \E c \in store[d].conflicts :
                   c.acct = b /\ c.serverId = cid /\ c.mid = mid
        BY <2>3 DEF RaisedAs
    <2>. QED
        BY <1>9, <2>1, <2>2, <2>3 DEF RaisedAs
<1> HIDE DEF a, sv, sv2, cid2
\* A conflict nothing resolves stays open.
<1>10. ASSUME NEW b \in Account, NEW cid, Unresolved(b, cid)
       PROVE  Unresolved(b, cid)'
    <2>1. cid \in server'[b].open
        <3>1. CASE b # a
            BY <1>3, <1>10, <3>1 DEF Unresolved
        <3>2. CASE b = a
            <4>1. x.resolves # cid
                BY <1>8, <1>10, <3>2 DEF Unresolved, a
            <4>. QED
                BY <1>3, <1>4, <1>10, <3>2, <4>1 DEF Unresolved, Raises, Closes, sv
        <3>. QED
            BY <3>1, <3>2
    <2>. QED
        BY <1>6, <1>10, <2>1 DEF Unresolved
<1>11. OneResolution'
    BY <1>6 DEF ResInv, OneResolution
<1>12. StillOpen'
    <2>1. SUFFICES ASSUME NEW y, Exists(y), y.state # "conflict", y.resolves # None
                   PROVE  /\ y.baseV \in Nat
                          /\ \/ y.resolves \in server'[y.acct].open
                             \/ Len(server'[y.acct].history) > y.baseV
        BY <1>6 DEF StillOpen
    <2>2. /\ y.baseV \in Nat /\ y.acct \in Account
          /\ y.resolves \in server[y.acct].open \/ Len(server[y.acct].history) > y.baseV
        BY <1>7, <2>1 DEF ResInv, StillOpen
    <2>3. CASE y.acct # a \/ sv2 = sv
        BY <1>3, <2>2, <2>3 DEF sv
    <2>4. CASE y.acct = a /\ Raises(sv, x, sv2)
        BY <1>3, <2>2, <2>4 DEF sv, Raises
    <2>5. CASE y.acct = a /\ Closes(sv, x, sv2)
        <3>1. CASE Len(sv.history) > y.baseV
            BY <1>2, <1>3, <2>2, <2>5, <3>1 DEF Closes
        <3>2. CASE y.resolves \in sv.open /\ y.resolves # x.resolves
            BY <1>3, <2>2, <2>5, <3>2 DEF Closes
        <3>3. CASE y.resolves = x.resolves
            <4>1. y.id = x.id
                BY <1>8, <2>1, <2>5, <3>3 DEF ResInv, OneResolution, a
            <4>2. y = x
                <5>1. CASE y \in Sent
                    BY <4>1, <5>1 DEF IdInv, SentOnce
                <5>2. ASSUME NEW d \in Device, y \in store[d].outbox
                      PROVE  y = x
                    <6>1. ~Waiting(y) /\ (y.state = "in-flight" => y = x)
                        BY <4>1, <5>2 DEF IdInv, SentRow
                    <6>2. y.state \in {"pending", "in-flight", "conflict"}
                        BY <2>1, ExistsType DEF Mutation
                    <6>. QED
                        BY <2>1, <6>1, <6>2 DEF Waiting
                <5>. QED
                    BY <2>1, <5>1, <5>2 DEF Exists
            <4>. QED
                BY <1>1, <1>2, <1>3, <2>2, <2>5, <4>2 DEF Closes
        <3>. QED
            BY <2>2, <2>5, <3>1, <3>2, <3>3 DEF sv
    <2>. QED
        BY <1>4, <2>3, <2>4, <2>5
<1>13. KeptUnresolved'
    <2>1. \A d \in Device : \A c \in store[d].conflicts : c.acct \in Account
        BY DEF TypeInv, TypeOK, Store, Conflict
    <2>. QED
        BY <1>10, <2>1 DEF ResInv, KeptUnresolved
<1>14. \A mid : ~RaisedAs(a, cid2, mid)
    BY <1>1, <1>2 DEF ResInv, Numbered, cid2, sv
<1>15. RaisedOnce'
    <2>1. SUFFICES ASSUME NEW b \in Account, NEW cid, NEW mid, NEW mid2,
                          RaisedAs(b, cid, mid)', RaisedAs(b, cid, mid2)'
                   PROVE  mid = mid2
        BY DEF RaisedOnce
    <2>2. \/ RaisedAs(b, cid, mid)
          \/ b = a /\ cid = cid2 /\ mid = x.id
        BY <1>9, <2>1
    <2>3. \/ RaisedAs(b, cid, mid2)
          \/ b = a /\ cid = cid2 /\ mid2 = x.id
        BY <1>9, <2>1
    <2>. QED
        BY <1>14, <2>2, <2>3 DEF ResInv, RaisedOnce
<1>16. FlyingUnresolved'
    <2>1. SUFFICES ASSUME NEW b \in Account, NEW cid, NEW mid, RaisedAs(b, cid, mid)',
                          NEW d \in Device, NEW q \in store[d].outbox,
                          q.state = "in-flight", q.id = mid
                   PROVE  Unresolved(b, cid)'
        BY DEF FlyingUnresolved
    <2>2. CASE RaisedAs(b, cid, mid)
        BY <1>10, <2>1, <2>2 DEF ResInv, FlyingUnresolved
    <2>3. CASE Raises(sv, x, sv2) /\ b = a /\ cid = cid2
        <3>1. cid2 \in server'[a].open
            BY <1>3, <2>3 DEF Raises, cid2
        <3>2. ASSUME NEW y, Exists(y), y.acct = a, y.resolves = cid2
              PROVE  FALSE
            <4>1. cid2 \in Nat /\ cid2 # None
                BY <1>2, NoneAssumption DEF cid2
            <4>2. cid2 <= sv.serial
                BY <3>2, <4>1 DEF ResInv, Numbered, sv
            <4>. QED
                BY <1>2, <4>2 DEF cid2
        <3>. QED
            BY <1>6, <2>3, <3>1, <3>2 DEF Unresolved
    <2>. QED
        BY <1>9, <2>1, <2>2, <2>3
<1>17. Numbered'
    <2>1. \A b \in Account : server[b].serial \in Nat /\ server'[b].serial \in Nat
                             /\ server'[b].serial >= server[b].serial
        <3>1. \A b \in Account : server[b].serial \in Nat
            BY DEF TypeInv, TypeOK, Server
        <3>2. sv2.serial \in Nat /\ sv2.serial >= sv.serial
            BY <1>2, <1>4 DEF Raises, Closes
        <3>. QED
            BY <1>3, <3>1, <3>2 DEF sv
    <2>2. ASSUME NEW b \in Account, NEW cid, NEW mid, RaisedAs(b, cid, mid)'
          PROVE  cid <= server'[b].serial
        <3>1. CASE RaisedAs(b, cid, mid)
            <4>1. cid \in Nat /\ cid <= server[b].serial
                BY <3>1, RaisedType DEF ResInv, Numbered
            <4>. QED
                BY <2>1, <4>1
        <3>2. CASE Raises(sv, x, sv2) /\ b = a /\ cid = cid2
            BY <1>2, <1>3, <3>2 DEF Raises, cid2
        <3>. QED
            BY <1>9, <2>2, <3>1, <3>2
    <2>3. ASSUME NEW y, Exists(y)', y.resolves # None
          PROVE  y.resolves <= server'[y.acct].serial
        <3>1. y.resolves \in Nat /\ y.acct \in Account /\ y.resolves <= server[y.acct].serial
            BY <1>6, <1>7, <2>3 DEF ResInv, Numbered
        <3>. QED
            BY <2>1, <3>1
    <2>. QED
        BY <2>2, <2>3 DEF Numbered
<1>. QED
    BY <1>11, <1>12, <1>13, <1>15, <1>16, <1>17 DEF ResInv


LEMMA AdminRes ==
    ASSUME TypeInv, ResInv, NEW a \in Account, AdminRestores(a) \/ Retention(a)
    PROVE  ResInv'
<1>1. /\ server[a] \in Server /\ server[a].history \in Seq(Version)
      /\ store' = store /\ puts' = puts /\ late' = late
      /\ \A b \in Account : b # a => server'[b] = server[b]
    BY HistoryType DEF AdminRestores, Retention, calls, TypeInv, TypeOK
<1>2. /\ server'[a].open = server[a].open /\ server'[a].serial = server[a].serial
      /\ server'[a].log \subseteq server[a].log
      /\ Len(server'[a].history) >= Len(server[a].history)
      /\ Len(server'[a].history) \in Nat
    <2>1. CASE AdminRestores(a)
        <3>1. PICK v \in DOMAIN server[a].history :
                  server' = [server EXCEPT ![a] = AdminRestore(server[a], v)]
            BY <2>1 DEF AdminRestores
        <3>2. server'[a] = AdminRestore(server[a], v)
            BY <3>1 DEF TypeInv, TypeOK
        <3> DEFINE sv == server[a]
                   new == [content |-> sv.history[v].content,
                           base |-> sv.history[Len(sv.history)].content, mid |-> 0]
        <3>3. new \in Version /\ AdminRestore(sv, v).history = Append(sv.history, new)
            BY <1>1, <3>1, RestoreGrows
        <3> HIDE DEF new
        <3>4. Len(server'[a].history) = Len(sv.history) + 1
            BY <1>1, <3>2, <3>3, AppendGrows
        <3>5. /\ server'[a].open = sv.open /\ server'[a].serial = sv.serial
              /\ server'[a].log = sv.log
            BY <1>1, <3>2 DEF AdminRestore, Server
        <3>6. Len(sv.history) \in Nat
            BY <1>1
        <3>. QED
            BY <3>4, <3>5, <3>6
    <2>2. CASE Retention(a)
        <3>1. PICK r \in server[a].log : server' = [server EXCEPT ![a] = Forget(server[a], r.mid)]
            BY <2>2 DEF Retention
        <3>2. server'[a] = Forget(server[a], r.mid)
            BY <3>1 DEF TypeInv, TypeOK
        <3>. QED
            BY <1>1, <3>2 DEF Forget, Server
    <2>. QED
        BY <2>1, <2>2
<1>3. \A b \in Account :
          /\ server'[b].open = server[b].open /\ server'[b].serial = server[b].serial
          /\ server'[b].log \subseteq server[b].log
          /\ Len(server'[b].history) >= Len(server[b].history)
          /\ Len(server'[b].history) \in Nat /\ Len(server[b].history) \in Nat
    <2>1. \A b \in Account : Len(server[b].history) \in Nat
        BY HistoryType
    <2>. QED
        BY <1>1, <1>2, <2>1
<1>4. \A x : Exists(x)' <=> Exists(x)
    BY <1>1 DEF Exists, Sent
<1>5. \A b \in Account : \A cid, mid : RaisedAs(b, cid, mid)' => RaisedAs(b, cid, mid)
    BY <1>1, <1>3 DEF RaisedAs
<1>6. \A b \in Account : \A cid : Unresolved(b, cid) => Unresolved(b, cid)'
    BY <1>3, <1>4 DEF Unresolved
<1>7. OneResolution' /\ RaisedOnce'
    BY <1>4, <1>5 DEF ResInv, OneResolution, RaisedOnce
<1>8. StillOpen'
    <2>1. SUFFICES ASSUME NEW y, Exists(y), y.state # "conflict", y.resolves # None
                   PROVE  /\ y.baseV \in Nat
                          /\ \/ y.resolves \in server'[y.acct].open
                             \/ Len(server'[y.acct].history) > y.baseV
        BY <1>4 DEF StillOpen
    <2>2. /\ y.baseV \in Nat /\ y.acct \in Account
          /\ y.resolves \in server[y.acct].open \/ Len(server[y.acct].history) > y.baseV
        BY <2>1, ExistsType DEF ResInv, StillOpen
    <2>. QED
        BY <1>3, <2>2
<1>9. KeptUnresolved' /\ FlyingUnresolved'
    <2>1. \A d \in Device : \A c \in store[d].conflicts : c.acct \in Account
        BY DEF TypeInv, TypeOK, Store, Conflict
    <2>. QED
        BY <1>1, <1>5, <1>6, <2>1 DEF ResInv, KeptUnresolved, FlyingUnresolved
<1>10. Numbered'
    <2>1. \A y : Exists(y) => y.acct \in Account
        BY ExistsType
    <2>. QED
        BY <1>3, <1>4, <1>5, <2>1 DEF ResInv, Numbered
<1>. QED
    BY <1>7, <1>8, <1>9, <1>10 DEF ResInv

LEMMA ServerRes ==
    ASSUME TypeInv, IdInv, ServedInv, ResInv, ServerNext
    PROVE  ResInv'
<1>1. ASSUME NEW c \in puts, ServerPut(c)
      PROVE  ResInv'
    <2> DEFINE answered == [c EXCEPT !.reply = AnswerOf(server[c.acct], c.mut)]
    <2>1. c \in Put /\ c.mut \in Sent /\ c.mut.acct = c.acct
        BY PutType DEF Sent, IdInv, PutScope, InScope
    <2>2. /\ answered.mut = c.mut /\ answered.acct = c.acct
          /\ answered.reply = AnswerOf(server[c.acct], c.mut)
        BY <2>1 DEF Put
    <2>3. puts' = (puts \ {c}) \cup {answered} /\ late' = late /\ store' = store
          /\ server' = [server EXCEPT ![c.acct] = ApplySyncMutation(@, c.mut)]
        BY <1>1 DEF ServerPut
    <2> HIDE DEF answered
    <2>4. Sent' \subseteq Sent
        BY <2>1, <2>2, <2>3 DEF Sent
    <2>. QED
        BY <2>1, <2>2, <2>3, <2>4, ServedRes
<1>2. ASSUME NEW q \in late, ServerLate(q)
      PROVE  ResInv'
    BY <1>2, ServedRes DEF ServerLate, Sent
<1>. QED
    BY <1>1, <1>2, AdminRes DEF ServerNext

LEMMA BrowserRes ==
    ASSUME TypeInv, TypeInv', IdInv, ServedInv, ResInv, UserNext \/ WorkerNext
    PROVE  ResInv'
<1>1. ASSUME NEW d \in Device, PullStart(d) \/ ResolveStart(d) \/ WorkerStops(d)
      PROVE  ResInv'
    BY <1>1, QuietRes DEF PullStart, ResolveStart, WorkerStops, Others, Sent
<1>2. ASSUME NEW d \in Device, NEW a \in Account, NEW scope \in AuthScope, LoginStart(d, a, scope)
      PROVE  ResInv'
    BY <1>2, QuietRes DEF LoginStart, Sent
<1>3. ASSUME NEW c \in merges, ResolveFail(c)
      PROVE  ResInv'
    BY <1>3, QuietRes DEF ResolveFail, Sent
<1>4. CASE UserNext
    BY <1>1, <1>2, <1>4, SaveRes, UseLocalRes, LogoutRes DEF UserNext
<1>5. CASE WorkerNext
    BY <1>1, <1>3, <1>5, LoginRes, PullRes, ResolveCommitRes, DrainClaimRes, DeliverRes, GivenUpRes
    DEF WorkerNext
<1>. QED
    BY <1>4, <1>5

LEMMA InitRes == Init => ResInv
<1> SUFFICES ASSUME Init PROVE ResInv
    OBVIOUS
<1>1. \A d \in Device : store[d].outbox = {} /\ store[d].conflicts = {}
    BY DEF Init, NewStore
<1>2. Sent = {} /\ puts = {}
    BY DEF Init, Sent
<1>3. \A x : ~Exists(x)
    BY <1>1, <1>2 DEF Exists
<1>4. \A a \in Account : server[a].log = {}
    <2>1. SUFFICES ASSUME NEW a \in Account PROVE server[a].log = {}
        OBVIOUS
    <2>2. server[a] = IF Seeded[a] = None THEN EmptyServer ELSE SeededServer(Seeded[a])
        BY DEF Init
    <2>. QED
        BY <2>2 DEF EmptyServer, SeededServer
<1>5. \A a \in Account : \A cid, mid : ~RaisedAs(a, cid, mid)
    BY <1>1, <1>2, <1>4 DEF RaisedAs
<1>. QED
    BY <1>1, <1>3, <1>5
    DEF ResInv, OneResolution, StillOpen, KeptUnresolved, RaisedOnce, FlyingUnresolved, Numbered

LEMMA NextRes == TypeInv /\ TypeInv' /\ IdInv /\ ServedInv /\ ResInv /\ [Next]_vars => ResInv'
<1> SUFFICES ASSUME TypeInv, TypeInv', IdInv, ServedInv, ResInv, [Next]_vars PROVE ResInv'
    OBVIOUS
<1>1. CASE UNCHANGED vars
    BY <1>1, QuietRes DEF vars, Sent
<1>. QED
    BY <1>1, BrowserRes, ServerRes DEF Next

\* No request is answered 409 IDEMPOTENCY_MISMATCH or 400 SYNC_REJECTED.
LEMMA ServingDoesNotRefuse ==
    ASSUME TypeInv, IdInv, IdInv', ServedInv', ResInv, NEW c \in puts, ServerPut(c)
    PROVE  AnswerOf(server[c.acct], c.mut).status \notin {"mismatch", "rejected"}
<1> DEFINE x == c.mut
           sv == server[c.acct]
           r == AnswerOf(sv, x)
<1>1. /\ x \in Mutation /\ Based(x) /\ c.acct \in Account /\ x \in Sent /\ x.acct = c.acct
      /\ c \in Put
    BY PutType DEF Sent, IdInv, PutScope, InScope
<1>2. sv \in Server /\ LogOK(sv) /\ server'[c.acct] = ApplySyncMutation(sv, x)
    BY <1>1 DEF TypeInv, TypeOK, LogInv, ServerPut
<1>3. r.status # "mismatch"
    <2>1. SUFFICES ASSUME NEW y \in ApplySyncMutation(sv, x).log, y.mid = x.id,
                          y.request # Request(x)
                   PROVE  FALSE
        BY <1>1, <1>2, AnswersAs
    <2>2. x \in Sent'
        <3>1. [c EXCEPT !.reply = r].mut = x /\ [c EXCEPT !.reply = r] \in puts'
            BY <1>1 DEF ServerPut, Put
        <3> HIDE DEF r, sv
        <3>. QED
            BY <3>1 DEF Sent
    <2>3. IsCopy(x)'
        BY <2>2 DEF IsCopy
    <2>. QED
        BY <1>1, <1>2, <2>1, <2>3 DEF ServedInv, LoggedAs
<1>4. r.status # "rejected"
    <2>1. SUFFICES ASSUME x.baseV = Len(sv.history), x.resolves # None, x.resolves \notin sv.open
                   PROVE  FALSE
        BY <1>1, <1>2, AnswersAs
    <2>2. x.state # "conflict" /\ Exists(x)
        BY <1>1 DEF IdInv, DrawnInv, Exists
    <2>3. Len(sv.history) > x.baseV
        BY <1>1, <2>1, <2>2 DEF ResInv, StillOpen
    <2>4. x.baseV \in Nat
        BY <1>1 DEF Based
    <2>. QED
        BY <2>1, <2>3, <2>4
<1>. QED
    BY <1>3, <1>4

LEMMA NextRefuses ==
    TypeInv /\ IdInv /\ IdInv' /\ ServedInv' /\ ResInv /\ NeverRefused /\ [Next]_vars =>
        NeverRefused'
<1> SUFFICES ASSUME TypeInv, IdInv, IdInv', ServedInv', ResInv, NeverRefused, [Next]_vars
             PROVE  NeverRefused'
    OBVIOUS
<1>1. ASSUME \A c \in puts' : c \in puts \/ c.reply = None
      PROVE  NeverRefused'
    BY <1>1 DEF NeverRefused
<1>2. CASE UserNext \/ WorkerNext
    BY <1>1, <1>2, NoNewAnswers
<1>3. ASSUME NEW c \in puts, ServerPut(c)
      PROVE  NeverRefused'
    <2> DEFINE r == AnswerOf(server[c.acct], c.mut)
               answered == [c EXCEPT !.reply = r]
    <2>1. r.status \notin {"mismatch", "rejected"}
        BY <1>3, ServingDoesNotRefuse
    <2>2. answered.reply = r
        BY PutType DEF Put
    <2>3. puts' = (puts \ {c}) \cup {answered}
        BY <1>3 DEF ServerPut
    <2> HIDE DEF answered, r
    <2>. QED
        BY <2>1, <2>2, <2>3 DEF NeverRefused
<1>4. ASSUME NEW q \in late, ServerLate(q)
      PROVE  NeverRefused'
    BY <1>1, <1>4 DEF ServerLate
<1>5. ASSUME NEW a \in Account, AdminRestores(a) \/ Retention(a)
      PROVE  NeverRefused'
    BY <1>1, <1>5 DEF AdminRestores, Retention, calls
<1>6. CASE UNCHANGED vars
    BY <1>1, <1>6 DEF vars
<1>. QED
    BY <1>2, <1>3, <1>4, <1>5, <1>6 DEF Next, ServerNext

\* No request ever reads as another under its id (409 IDEMPOTENCY_MISMATCH),
\* and no resolution arrives for a conflict already closed while its base is
\* still the current version (400 SYNC_REJECTED): neither answer, which drain
\* would retry for ever, is ever given, however often requests are repeated,
\* delayed past their caller or forgotten by the log.
THEOREM NothingIsRefused == Spec => []NeverRefused
<1> DEFINE AnswerInv == TypeInv /\ IdInv /\ ServedInv /\ ResInv /\ NeverRefused
<1>1. Init => AnswerInv
    <2>1. Init => NeverRefused
        BY DEF Init, NeverRefused
    <2>. QED
        BY <2>1, InitType, InitIds, InitRes
<1>2. AnswerInv /\ [Next]_vars => AnswerInv'
    BY NextType, NextIds, NextServed, NextRes, NextRefuses
<1>3. AnswerInv => NeverRefused
    OBVIOUS
<1> HIDE DEF AnswerInv
<1>. QED
    BY <1>1, <1>2, <1>3, PTL DEF Spec
=============================================================================
