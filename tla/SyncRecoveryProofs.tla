-------------------------- MODULE SyncRecoveryProofs --------------------------
(***************************************************************************)
(* Theorems about profile synchronisation when the backend's data goes     *)
(* back in time, for any number of browsers, accounts, sessions, restores  *)
(* and failures.                                                           *)
(***************************************************************************)
EXTENDS SyncRecovery, SyncProtocolProofs

\* The backup kept is a possible state of the servers.
BackupInv ==
    /\ backup \in [Account -> Server] /\ \A a \in Account : LogOK(backup[a])
    /\ losses \in Nat

RecTypeInv == TypeInv /\ BackupInv

\* A step in which the data does not go back is one of the protocol's.
LEMMA OrdinaryIsNext ==
    ASSUME UserStep \/ WorkerNext \/ ServerStep
    PROVE  Next
<1>1. ASSUME UserStep PROVE UserNext
    BY <1>1 DEF UserStep, UserNext
<1>2. ASSUME ServerStep PROVE ServerNext
    BY <1>2 DEF ServerStep, ServerNext
<1>. QED
    BY <1>1, <1>2 DEF Next

\* What the exceptional steps leave alone, and the servers they leave.
LEMMA RestoredServers ==
    ASSUME RecTypeInv, RestoreBackup
    PROVE  /\ server' \in [Account -> Server]
           /\ \A a \in Account : server'[a].history = backup[a].history
                                 /\ server'[a].log = backup[a].log
<1>1. ASSUME NEW a \in Account
      PROVE  /\ server'[a] \in Server
             /\ server'[a].history = backup[a].history /\ server'[a].log = backup[a].log
    <2>1. backup[a] \in Server /\ server[a].serial \in Nat
        BY DEF RecTypeInv, BackupInv, TypeInv, TypeOK, Server
    <2>2. server'[a] = [backup[a] EXCEPT !.serial = server[a].serial]
        BY DEF RestoreBackup
    <2>. QED
        BY <2>1, <2>2 DEF Server
<1>. QED
    BY <1>1 DEF RestoreBackup

LEMMA LostServers ==
    ASSUME RecTypeInv, NEW a \in Account, ProfileLost(a)
    PROVE  /\ server' \in [Account -> Server]
           /\ server'[a].history = <<>> /\ server'[a].log = {}
           /\ \A b \in Account : b # a => server'[b] = server[b]
<1>1. server[a] \in Server /\ server' = [server EXCEPT ![a].history = <<>>, ![a].log = {}]
    BY DEF RecTypeInv, TypeInv, TypeOK, ProfileLost
<1>2. PICK none : none = <<>>
    OBVIOUS
<1>3. none \in Seq(Version)
    BY <1>2
<1>4. server'[a] \in Server /\ server'[a].history = <<>> /\ server'[a].log = {}
    <2>1. server'[a] = [server[a] EXCEPT !.history = none, !.log = {}]
        BY <1>1, <1>2 DEF RecTypeInv, TypeInv, TypeOK
    <2>2. server'[a] \in Server /\ server'[a].history = none /\ server'[a].log = {}
        <3>1. PICK sv \in Server : sv = server[a]
            BY <1>1
        <3>2. server'[a] = [history |-> none, log |-> {}, open |-> sv.open, serial |-> sv.serial]
            BY <2>1, <3>1 DEF Server
        <3>3. sv.open \subseteq Nat /\ sv.serial \in Nat
            BY DEF Server
        <3>. QED
            BY <1>3, <3>2, <3>3 DEF Server
    <2>. QED
        BY <1>2, <2>2
<1>5. \A b \in Account : b # a => server'[b] = server[b]
    BY <1>1 DEF RecTypeInv, TypeInv, TypeOK
<1>. QED
    BY <1>1, <1>4, <1>5 DEF RecTypeInv, TypeInv, TypeOK

LEMMA RecoveryInitType == RecoveryInit => RecTypeInv
BY InitType DEF RecoveryInit, RecTypeInv, BackupInv, TypeInv, TypeOK, LogInv

LEMMA RecoveryNextType == RecTypeInv /\ [RecoveryNext]_recoveryVars => RecTypeInv'
<1> SUFFICES ASSUME RecTypeInv, [RecoveryNext]_recoveryVars PROVE RecTypeInv'
    OBVIOUS
<1>1. CASE (UserStep \/ WorkerNext \/ ServerStep) /\ UNCHANGED events
    BY <1>1, OrdinaryIsNext, NextType DEF RecTypeInv, BackupInv, events
<1>2. CASE TakeBackup
    <2>1. TypeInv'
        BY <1>2, NextType DEF TakeBackup, RecTypeInv
    <2>. QED
        BY <1>2, <2>1 DEF TakeBackup, RecTypeInv, BackupInv, TypeInv, TypeOK, LogInv
<1>3. CASE RestoreBackup
    <2>1. server' \in [Account -> Server] /\ LogInv'
        BY <1>3, RestoredServers DEF RecTypeInv, BackupInv, LogInv, LogOK
    <2>. QED
        BY <1>3, <2>1 DEF RestoreBackup, calls, RecTypeInv, BackupInv, TypeInv, TypeOK, QueueInv,
                          PutInv, LateInv
<1>4. ASSUME NEW a \in Account, ProfileLost(a)
      PROVE  RecTypeInv'
    <2>1. server' \in [Account -> Server] /\ LogInv'
        BY <1>4, LostServers DEF RecTypeInv, TypeInv, LogInv, LogOK
    <2>. QED
        BY <1>4, <2>1 DEF ProfileLost, calls, RecTypeInv, BackupInv, TypeInv, TypeOK, QueueInv,
                          PutInv, LateInv
<1>5. CASE UNCHANGED recoveryVars
    BY <1>5, NextType DEF recoveryVars, RecTypeInv, BackupInv
<1>. QED
    BY <1>1, <1>2, <1>3, <1>4, <1>5 DEF RecoveryNext

-----------------------------------------------------------------------------
\* Going back in time changes no browser and nothing on the wire.
OnlyServers == UNCHANGED <<store, vault, calls, nextId, nextGen>>

LEMMA ExceptionalSteps ==
    ASSUME TakeBackup \/ RestoreBackup \/ (\E a \in Account : ProfileLost(a)) \/ UNCHANGED recoveryVars
    PROVE  OnlyServers
BY DEF TakeBackup, RestoreBackup, ProfileLost, OnlyServers, recoveryVars, vars, calls

\* Responses of the servers and of the backup name versions that are there.
RecLogsHold == LogsHold /\ \A a \in Account : LogHolds(backup[a])

\* Every session in sight was opened before now; the call that loads the
\* server's profile is of the session its browser is in.
SeenInv ==
    /\ \A c \in pulls : c.gen \in Opened
    /\ \A x \in Sent : x.gen \in Opened
    /\ \A c \in pulls : vault[c.dev] # None => vault[c.dev].gen = c.gen

RecSessInv == SessInv /\ SeenInv /\ revoked \subseteq Opened

RecInv == RecTypeInv /\ IdInv /\ RecLogsHold /\ OkSays /\ RecSessInv

LEMMA OnlyServersKeeps ==
    ASSUME RecTypeInv, IdInv, OkSays, SessInv, SeenInv, OnlyServers
    PROVE  IdInv' /\ OkSays' /\ SessInv' /\ SeenInv' /\ Opened' = Opened
<1>1. IdInv'
    BY QuietCallIds DEF OnlyServers, calls, RecTypeInv
<1>2. SessInv'
    BY CallsKeepSessions DEF OnlyServers, calls, RecTypeInv
<1>. QED
    BY <1>1, <1>2 DEF OnlyServers, calls, OkSays, SeenInv, Sent, Opened

\* A history and a log alone decide what a server holds.
LEMMA SameHolds ==
    ASSUME NEW sv, NEW sv2, sv2.history = sv.history, sv2.log = sv.log, LogHolds(sv)
    PROVE  LogHolds(sv2)
BY DEF LogHolds, Truthful, Holds

\* The protocol's steps keep the servers' responses and their answers true,
\* whatever the browsers believe.
LEMMA NextLogs == TypeInv /\ LogsHold /\ OkSays /\ [Next]_vars => LogsHold' /\ OkSays'
<1> SUFFICES ASSUME TypeInv, LogsHold, OkSays, [Next]_vars PROVE LogsHold' /\ OkSays'
    OBVIOUS
<1>1. CASE UserNext \/ WorkerNext
    BY <1>1, BrowserSays DEF LogsHold
<1>2. PICK L : L = Known'
    OBVIOUS
<1>3. BeliefsIn(L, {})
    BY DEF BeliefsIn, Knows, Trusted, Sighted, Answers
<1>4. \A c \in puts : ServerPut(c) => LogsHold' /\ OkSays'
    BY <1>2, <1>3, ServerPutBeliefs
<1>5. \A q \in late : ServerLate(q) => LogsHold' /\ OkSays'
    BY <1>3, ServerLateBeliefs
<1>6. \A a \in Account : AdminRestores(a) \/ Retention(a) => LogsHold' /\ OkSays'
    BY AdminHolds DEF AdminRestores, Retention, calls, OkSays
<1>7. CASE UNCHANGED vars
    BY <1>7 DEF vars, LogsHold, OkSays
<1>. QED
    BY <1>1, <1>4, <1>5, <1>6, <1>7 DEF Next, ServerNext

LEMMA RecoveryLogs ==
    RecTypeInv /\ RecLogsHold /\ OkSays /\ [RecoveryNext]_recoveryVars => RecLogsHold' /\ OkSays'
<1> SUFFICES ASSUME RecTypeInv, RecLogsHold, OkSays, [RecoveryNext]_recoveryVars
             PROVE  RecLogsHold' /\ OkSays'
    OBVIOUS
<1>1. TypeInv /\ LogsHold
    BY DEF RecTypeInv, RecLogsHold
<1>2. CASE (UserStep \/ WorkerNext \/ ServerStep) /\ UNCHANGED events
    BY <1>1, <1>2, OrdinaryIsNext, NextLogs DEF RecLogsHold, events
<1>3. CASE TakeBackup
    BY <1>3 DEF TakeBackup, vars, RecLogsHold, LogsHold, OkSays
<1>4. CASE RestoreBackup
    <2>1. LogsHold'
        BY <1>4, RestoredServers, SameHolds DEF RecLogsHold, LogsHold
    <2>. QED
        BY <1>4, <2>1 DEF RestoreBackup, calls, RecLogsHold, OkSays
<1>5. ASSUME NEW a \in Account, ProfileLost(a)
      PROVE  RecLogsHold' /\ OkSays'
    <2>1. LogsHold'
        BY <1>5, LostServers DEF RecLogsHold, LogsHold, LogHolds
    <2>. QED
        BY <1>5, <2>1 DEF ProfileLost, calls, RecLogsHold, OkSays
<1>6. CASE UNCHANGED recoveryVars
    BY <1>6 DEF recoveryVars, vars, RecLogsHold, LogsHold, OkSays
<1>. QED
    BY <1>2, <1>3, <1>4, <1>5, <1>6 DEF RecoveryNext

\* The protocol's steps show no session that was never opened.
LEMMA SeenFrame ==
    ASSUME TypeInv, SeenInv, nextGen' = nextGen,
           \A x \in Sent' : x \in Sent \/ x.gen \in Opened, pulls' \subseteq pulls,
           \A d \in Device : vault'[d] # None => vault[d] # None /\ vault'[d].gen = vault[d].gen
    PROVE  SeenInv'
<1>1. Opened' = Opened
    BY DEF Opened
<1>2. \A c \in pulls : c.dev \in Device
    BY DEF TypeInv, TypeOK, Pull
<1>. QED
    BY <1>1, <1>2 DEF SeenInv

LEMMA DecidedSeen ==
    ASSUME TypeInv, NEW d \in Device, NEW gen, Decided(d, gen)
    PROVE  \A e \in Device : vault'[e] # None => vault[e] # None /\ vault'[e].gen = vault[e].gen
BY DecidedVault

LEMMA LoginStartSeen ==
    ASSUME TypeInv, SeenInv, NEW d \in Device, NEW a \in Account, NEW scope \in AuthScope,
           LoginStart(d, a, scope)
    PROVE  SeenInv'
<1>1. Opened \subseteq Opened'
    BY DEF Opened, LoginStart, TypeInv, TypeOK
<1>2. /\ \A c \in pulls' : c \in pulls /\ c.dev # d /\ c.dev \in Device
      /\ \A e \in Device : e # d => vault'[e] = vault[e]
    BY DEF LoginStart, Others, TypeInv, TypeOK, Pull
<1>3. Sent' = Sent
    BY DEF LoginStart, Sent
<1>. QED
    BY <1>1, <1>2, <1>3 DEF SeenInv

LEMMA PullStartSeen ==
    ASSUME TypeInv, GenInv, SeenInv, NEW d \in Device, PullStart(d)
    PROVE  SeenInv'
<1> DEFINE sv == server[vault[d].acct]
           call == [dev |-> d, acct |-> vault[d].acct, pid |-> store[d].local.pid,
                    gen |-> vault[d].gen, rev |-> store[d].rev,
                    version |-> CurrentVersion(sv), remote |-> CurrentProfile(sv)]
<1>1. pulls' = Others(pulls, d) \cup {call} /\ call.gen = vault[d].gen /\ call.dev = d
    BY DEF PullStart
<1>2. vault[d].gen \in Opened
    BY DEF PullStart, GenInv
<1>3. vault' = vault /\ Sent' = Sent /\ Opened' = Opened
    BY DEF PullStart, Sent, Opened
<1> HIDE DEF call
<1>. QED
    BY <1>1, <1>2, <1>3 DEF SeenInv, Others

LEMMA DrainClaimSeen ==
    ASSUME TypeInv, GenInv, SeenInv, NEW d \in Device, NEW slot \in Slots, DrainClaim(d, slot)
    PROVE  SeenInv'
<1> DEFINE call(m, q) == [dev |-> d, slot |-> slot, acct |-> m.acct, pid |-> m.pid,
                          gen |-> vault[d].gen, mut |-> InFlight(q), reply |-> None]
<1>1. PICK m \in SyncContext(d) : \E q \in Claimable(store[d], m, vault[d].gen) :
          SetStore(d, ClaimDue(store[d], q)) /\ puts' = puts \cup {call(m, q)}
    BY DEF DrainClaim
<1>2. PICK q \in Claimable(store[d], m, vault[d].gen) :
          SetStore(d, ClaimDue(store[d], q)) /\ puts' = puts \cup {call(m, q)}
    BY <1>1
<1>3. q \in store[d].outbox /\ store[d] \in Store /\ GensIn(Opened, store[d])
    BY <1>2, ClaimableIsBased DEF TypeInv, TypeOK, QueueInv, GenInv
<1>4. InFlight(q).gen \in Opened
    BY <1>3, ClaimDueGens
<1>5. \A x \in Sent' : x \in Sent \/ x = InFlight(q)
    BY <1>2 DEF DrainClaim, Sent
<1>6. nextGen' = nextGen /\ pulls' = pulls /\ vault' = vault
    BY DEF DrainClaim
<1>. QED
    BY <1>4, <1>5, <1>6, SeenFrame

LEMMA UserSeen ==
    ASSUME TypeInv, GenInv, SeenInv, UserNext
    PROVE  SeenInv'
<1>1. ASSUME NEW d \in Device, NEW p \in Profile, Save(d, p)
      PROVE  SeenInv'
    BY <1>1, SeenFrame DEF Save, calls, Sent
<1>2. ASSUME NEW d \in Device, UseLocal(d)
      PROVE  SeenInv'
    BY <1>2, SeenFrame, DecidedSeen DEF UseLocal, calls, Sent
<1>3. ASSUME NEW d \in Device, Logout(d)
      PROVE  SeenInv'
    BY <1>3, SeenFrame DEF Logout, Others, Sent, TypeInv, TypeOK
<1>4. ASSUME NEW d \in Device, ResolveStart(d)
      PROVE  SeenInv'
    BY <1>4, SeenFrame DEF ResolveStart, Sent
<1>. QED
    BY <1>1, <1>2, <1>3, <1>4, LoginStartSeen, PullStartSeen DEF UserNext

LEMMA WorkerSeen ==
    ASSUME TypeInv, GenInv, SeenInv, WorkerNext
    PROVE  SeenInv'
<1>1. ASSUME NEW c \in logins, LoginActivate(c) \/ LoginFail(c)
      PROVE  SeenInv'
    <2>1. c.dev \in Device
        BY DEF TypeInv, TypeOK, Login
    <2>. QED
        BY <1>1, <2>1, SeenFrame DEF LoginActivate, LoginFail, Sent, TypeInv, TypeOK
<1>2. ASSUME NEW c \in pulls, PullApply(c) \/ PullFail(c)
      PROVE  SeenInv'
    <2>1. c.dev \in Device
        BY DEF TypeInv, TypeOK, Pull
    <2>2. \A e \in Device : vault'[e] # None => vault[e] # None /\ vault'[e].gen = vault[e].gen
        BY <1>2, <2>1, DecidedSeen DEF PullApply, PullFail
    <2>. QED
        BY <1>2, <2>2, SeenFrame DEF PullApply, PullFail, Sent
<1>3. ASSUME NEW c \in merges, ResolveCommit(c) \/ ResolveFail(c)
      PROVE  SeenInv'
    BY <1>3, SeenFrame DEF ResolveCommit, ResolveFail, Sent
<1>4. ASSUME NEW c \in puts, \/ DeliverAck(c) \/ DeliverConflict(c) \/ DeliverServerEmpty(c)
                             \/ DeliverRefused(c) \/ CallFails(c)
      PROVE  SeenInv'
    <2>1. /\ puts' \subseteq puts /\ late' \subseteq late \cup {c.mut}
          /\ pulls' = pulls /\ vault' = vault /\ nextGen' = nextGen
        BY <1>4 DEF DeliverAck, DeliverConflict, DeliverServerEmpty, DeliverRefused, CallFails, Return
    <2>2. Sent' \subseteq Sent
        BY <2>1 DEF Sent
    <2>. QED
        BY <2>1, <2>2, SeenFrame
<1>5. ASSUME NEW d \in Device, WorkerStops(d)
      PROVE  SeenInv'
    <2>1. Sent' \subseteq Sent
        BY <1>5 DEF WorkerStops, Others, Sent
    <2>. QED
        BY <1>5, <2>1, SeenFrame DEF WorkerStops, Others
<1>. QED
    BY <1>1, <1>2, <1>3, <1>4, <1>5, DrainClaimSeen DEF WorkerNext

LEMMA ServerSeen ==
    ASSUME TypeInv, IdInv, SeenInv, ServerNext
    PROVE  SeenInv'
<1>1. Sent' \subseteq Sent
    BY ServedIds DEF ServerNext, AdminRestores, Retention, calls, Sent
<1>. QED
    BY <1>1, SeenFrame DEF ServerNext, ServerPut, ServerLate, AdminRestores, Retention, calls

LEMMA NextSeen == TypeInv /\ IdInv /\ GenInv /\ SeenInv /\ [Next]_vars => SeenInv'
<1> SUFFICES ASSUME TypeInv, IdInv, GenInv, SeenInv, [Next]_vars PROVE SeenInv'
    OBVIOUS
<1>1. CASE UNCHANGED vars
    BY <1>1, SeenFrame DEF vars, Sent
<1>. QED
    BY <1>1, UserSeen, WorkerSeen, ServerSeen DEF Next

\* Sessions are only ever opened.
LEMMA OpenedGrows == TypeInv /\ [Next]_vars => Opened \subseteq Opened'
<1> SUFFICES ASSUME TypeInv, [Next]_vars PROVE Opened \subseteq Opened'
    OBVIOUS
<1>1. nextGen \in Nat
    BY DEF TypeInv, TypeOK
<1>2. nextGen' = nextGen \/ nextGen' = nextGen + 1
    BY DEF Next, UserNext, Save, LoginStart, UseLocal, PullStart, Logout, ResolveStart, WorkerNext,
           LoginActivate, LoginFail, PullApply, PullFail, ResolveCommit, ResolveFail, DrainClaim,
           DeliverAck, DeliverConflict, DeliverServerEmpty, DeliverRefused, CallFails, WorkerStops,
           ServerNext, ServerPut, ServerLate, AdminRestores, Retention, vars
<1>. QED
    BY <1>1, <1>2 DEF Opened

-----------------------------------------------------------------------------
\* The invariant that holds whatever has been restored or lost.
LEMMA RecInvInit == RecoveryInit => RecInv
<1> SUFFICES ASSUME RecoveryInit PROVE RecInv
    OBVIOUS
<1>1. Init /\ backup = server /\ revoked = {}
    BY DEF RecoveryInit
<1>2. IdInv /\ SessInv /\ LogsHold /\ OkSays
    BY <1>1, InitIds, InitSessions, InitBeliefs DEF BeliefInv
<1>3. SeenInv
    BY <1>1 DEF Init, SeenInv, Sent
<1>4. RecLogsHold
    BY <1>1, <1>2 DEF RecLogsHold, LogsHold
<1>. QED
    BY <1>1, <1>2, <1>3, <1>4, RecoveryInitType DEF RecInv, RecSessInv

LEMMA RecInvNext == RecInv /\ [RecoveryNext]_recoveryVars => RecInv'
<1> SUFFICES ASSUME RecInv, [RecoveryNext]_recoveryVars PROVE RecInv'
    OBVIOUS
<1>1. /\ TypeInv /\ RecTypeInv /\ IdInv /\ RecLogsHold /\ OkSays /\ SessInv /\ SeenInv /\ GenInv
      /\ revoked \subseteq Opened
    BY DEF RecInv, RecTypeInv, RecSessInv, SessInv
<1>2. RecTypeInv' /\ TypeInv' /\ RecLogsHold' /\ OkSays'
    BY <1>1, RecoveryNextType, RecoveryLogs DEF RecTypeInv
<1>3. CASE (UserStep \/ WorkerNext \/ ServerStep) /\ UNCHANGED events
    <2>1. Next /\ revoked' = revoked
        BY <1>3, OrdinaryIsNext DEF events
    <2>2. IdInv' /\ SessInv' /\ SeenInv' /\ Opened \subseteq Opened'
        BY <1>1, <1>2, <2>1, NextIds, NextSessions, NextSeen, OpenedGrows
    <2>. QED
        BY <1>1, <1>2, <2>1, <2>2 DEF RecInv, RecSessInv
<1>4. CASE OnlyServers
    <2>1. IdInv' /\ SessInv' /\ SeenInv' /\ Opened' = Opened
        BY <1>1, <1>4, OnlyServersKeeps
    <2>2. revoked' \in {revoked, Opened}
        BY DEF Opened, RecoveryNext, events, TakeBackup, RestoreBackup, ProfileLost, recoveryVars
    <2>. QED
        BY <1>1, <1>2, <2>1, <2>2 DEF RecInv, RecSessInv
<1>. QED
    BY <1>3, <1>4, ExceptionalSteps DEF RecoveryNext

LEMMA RecInvIsKept == RecoverySpec => []RecInv
BY RecInvInit, RecInvNext, PTL DEF RecoverySpec

-----------------------------------------------------------------------------
\* A history in which every version was written on top of the one before it.
Chained(history) == \A v \in 2 .. Len(history) : history[v].base = history[v - 1].content

\* While no profile row is lost, the sessions that are not revoked know what
\* the servers hold; a revoked one may know a version that is gone.
Live == Nat \ revoked
TrustInv ==
    losses = 0 => /\ BeliefsIn(Known, Live)
                  /\ \A a \in Account : Chained(server[a].history) /\ Chained(backup[a].history)

LEMMA ChainedOn ==
    ASSUME NEW history \in Seq(Version), Chained(history), NEW new \in Version,
           Len(history) > 0 => new.base = history[Len(history)].content
    PROVE  Chained(Append(history, new))
<1> DEFINE longer == Append(history, new)
           n == Len(history)
<1>1. n \in Nat /\ DOMAIN history = 1 .. n
    OBVIOUS
<1>2. /\ Len(longer) = n + 1 /\ longer[n + 1] = new
      /\ \A v \in DOMAIN history : longer[v] = history[v]
    BY AppendGrows
<1> HIDE DEF longer
<1>3. SUFFICES ASSUME NEW v \in 2 .. (n + 1) PROVE longer[v].base = longer[v - 1].content
    BY <1>2 DEF Chained, longer
<1>4. CASE v = n + 1
    <2>1. n > 0 /\ n \in DOMAIN history /\ v - 1 = n
        BY <1>1, <1>4
    <2>. QED
        BY <1>2, <1>4, <2>1
<1>5. CASE v # n + 1
    <2>1. v \in 2 .. n /\ v \in DOMAIN history /\ v - 1 \in DOMAIN history
        BY <1>1, <1>5
    <2>. QED
        BY <1>2, <2>1 DEF Chained
<1>. QED
    BY <1>4, <1>5

AllChained == \A a \in Account : Chained(server[a].history)

\* A request that is answered to a session that is not revoked writes on top
\* of what its author had: it knows the version it names.
LEMMA ServingChains ==
    ASSUME TypeInv, AllChained, NEW G, BeliefsIn(Known, G), NEW x \in Sent, x.gen \in G,
           server' = [server EXCEPT ![x.acct] = ApplySyncMutation(@, x)]
    PROVE  AllChained'
<1> DEFINE sv == server[x.acct]
<1>1. x \in Mutation /\ Based(x) /\ x.acct \in Account
    BY PutType DEF Sent, TypeInv, TypeOK, LateInv, Mutation
<1>2. /\ sv \in Server /\ sv.history \in Seq(Version)
      /\ server'[x.acct] = ApplySyncMutation(sv, x)
      /\ \A a \in Account : a # x.acct => server'[a] = server[a]
    BY <1>1, HistoryType DEF TypeInv, TypeOK
<1>3. \/ server'[x.acct].history = sv.history
      \/ server'[x.acct].history = Append(sv.history, Written(x)) /\ x.baseV = Len(sv.history)
    BY <1>1, <1>2, ApplyGrows
<1>4. CASE server'[x.acct].history = Append(sv.history, Written(x)) /\ x.baseV = Len(sv.history)
    <2>1. ASSUME Len(sv.history) > 0
          PROVE  x.base = sv.history[Len(sv.history)].content
        <3>1. x.baseV \notin {None, 0}
            BY <1>2, <1>4, <2>1, NoneAssumption
        <3>2. <<x.acct, x.baseV, x.base>> \in Known
            BY <3>1 DEF BeliefsIn, Trusted
        <3>. QED
            BY <1>4, <3>2 DEF Known, Holds
    <2>2. Written(x) \in Version /\ Written(x).base = x.base
        BY <1>1, WrittenType DEF Written
    <2>3. Chained(server'[x.acct].history)
        BY <1>1, <1>2, <1>4, <2>1, <2>2, ChainedOn DEF AllChained
    <2>. QED
        BY <1>2, <2>3 DEF AllChained
<1>5. CASE server'[x.acct].history = sv.history
    BY <1>2, <1>5 DEF AllChained
<1>. QED
    BY <1>3, <1>4, <1>5

LEMMA AdminChains ==
    ASSUME TypeInv, AllChained, NEW a \in Account, AdminRestores(a) \/ Retention(a)
    PROVE  AllChained'
<1>1. /\ server[a] \in Server /\ server[a].history \in Seq(Version)
      /\ \A b \in Account : b # a => server'[b] = server[b]
    BY HistoryType DEF AdminRestores, Retention, TypeInv, TypeOK
<1>2. CASE AdminRestores(a)
    <2>1. PICK v \in DOMAIN server[a].history :
              server' = [server EXCEPT ![a] = AdminRestore(server[a], v)]
        BY <1>2 DEF AdminRestores
    <2> DEFINE sv == server[a]
               new == [content |-> sv.history[v].content,
                       base |-> sv.history[Len(sv.history)].content, mid |-> 0]
    <2>2. /\ new \in Version /\ new.base = sv.history[Len(sv.history)].content
          /\ server'[a].history = Append(sv.history, new)
        BY <1>1, <2>1, RestoreGrows DEF TypeInv, TypeOK
    <2> HIDE DEF new
    <2>3. Chained(server'[a].history)
        BY <1>1, <2>2, ChainedOn DEF AllChained
    <2>. QED
        BY <1>1, <2>3 DEF AllChained
<1>3. CASE Retention(a)
    <2>1. PICK r \in server[a].log : server' = [server EXCEPT ![a] = Forget(server[a], r.mid)]
        BY <1>3 DEF Retention
    <2>2. server'[a].history = server[a].history
        BY <1>1, <2>1 DEF Forget, TypeInv, TypeOK, Server
    <2>. QED
        BY <1>1, <2>2 DEF AllChained
<1>. QED
    BY <1>2, <1>3

\* What the sessions in G know, and the chains, through the protocol's steps
\* when only requests of those sessions are served.
LEMMA LiveStepsKeepTrust ==
    ASSUME TypeInv, IdInv, LogsHold, OkSays, NEW G, BeliefsIn(Known, G), AllChained,
           \/ UserNext \/ WorkerNext
           \/ \E c \in puts : c.gen \in G /\ ServerPut(c)
           \/ \E q \in late : q.gen \in G /\ ServerLate(q)
           \/ \E a \in Account : AdminRestores(a) \/ Retention(a)
    PROVE  BeliefsIn(Known, G)' /\ AllChained'
<1>1. PICK K : K = Known
    OBVIOUS
<1>2. PICK L : L = Known'
    OBVIOUS
<1>3. SUFFICES BeliefsIn(L, G)' /\ AllChained'
    BY <1>2
<1>4. ASSUME K \subseteq L
      PROVE  BeliefsIn(L, G)
    BY <1>1, <1>4, BeliefsMore
<1>5. CASE UserNext \/ WorkerNext
    <2>1. server' = server
        BY <1>5, NoNewAnswers
    <2>2. K = L
        BY <1>1, <1>2, <2>1 DEF Known
    <2>3. BeliefsIn(L, G) /\ Known \subseteq L
        BY <1>1, <1>4, <2>2
    <2>. QED
        BY <1>5, <2>1, <2>3, BrowserBeliefs DEF AllChained
<1>6. ASSUME NEW c \in puts, c.gen \in G, ServerPut(c)
      PROVE  BeliefsIn(L, G)' /\ AllChained'
    <2>1. c.mut \in Sent /\ c.mut.acct = c.acct /\ c.mut.gen \in G
        BY <1>6 DEF Sent, IdInv, PutScope, InScope
    <2>2. AllChained'
        BY <1>6, <2>1, ServingChains DEF ServerPut
    <2>3. K \subseteq L
        BY <1>1, <1>2, <1>6, PutType, ServedHolds DEF ServerPut
    <2>. QED
        BY <1>2, <1>4, <1>6, <2>2, <2>3, ServerPutBeliefs
<1>7. ASSUME NEW q \in late, q.gen \in G, ServerLate(q)
      PROVE  BeliefsIn(L, G)' /\ AllChained'
    <2>1. AllChained'
        BY <1>7, ServingChains DEF ServerLate, Sent
    <2>2. K \subseteq L
        BY <1>1, <1>2, <1>4, <1>7, ServerLateBeliefs
    <2>. QED
        BY <1>4, <1>7, <2>1, <2>2, ServerLateBeliefs
<1>8. ASSUME NEW a \in Account, AdminRestores(a) \/ Retention(a)
      PROVE  BeliefsIn(L, G)' /\ AllChained'
    <2>1. K \subseteq L /\ AllChained'
        BY <1>1, <1>2, <1>8, AdminHolds, AdminChains
    <2>2. BeliefsIn(L, G)'
        BY <1>4, <1>8, <2>1, CallsKeepBeliefs DEF AdminRestores, Retention, calls, Sent
    <2>. QED
        BY <2>1, <2>2
<1>. QED
    BY <1>5, <1>6, <1>7, <1>8

LEMMA TrustInit == RecoveryInit => TrustInv
<1> SUFFICES ASSUME RecoveryInit PROVE BeliefsIn(Known, Live) /\ AllChained
    BY DEF TrustInv, AllChained, RecoveryInit
<1>1. BeliefsIn(Known, Live)
    BY InitBeliefs, BeliefsMore DEF RecoveryInit, BeliefInv, Live
<1>2. AllChained
    <2>1. SUFFICES ASSUME NEW a \in Account PROVE Len(server[a].history) \in 0 .. 1
        BY DEF AllChained, Chained
    <2>2. server[a] = IF Seeded[a] = None THEN EmptyServer ELSE SeededServer(Seeded[a])
        BY DEF RecoveryInit, Init
    <2>. QED
        BY <2>2 DEF EmptyServer, SeededServer
<1>. QED
    BY <1>1, <1>2

\* A restored backup revokes every session there is: none is left that knows
\* more than the servers hold.
LEMMA RevokedKnowNothing ==
    ASSUME RecInv, OnlyServers, revoked' = Opened
    PROVE  BeliefsIn(Known, Live)'
<1>1. /\ TypeInv /\ IdInv /\ \A d \in Device : GensIn(Opened, store[d])
      /\ \A c \in logins \cup pulls : c.gen \in Opened
      /\ \A x \in Sent : x.gen \in Opened
    BY DEF RecInv, RecTypeInv, RecSessInv, SeenInv, SessInv, GenInv
<1>2. \A c \in puts : c.gen \in Opened
    BY <1>1 DEF IdInv, PutScope, Sent
<1>3. PICK G : G = Nat \ Opened
    OBVIOUS
<1>4. PICK L : L = Known'
    OBVIOUS
<1>5. \A d \in Device : Knows(L, G, store[d])
    BY <1>1, <1>3 DEF Knows, GensIn, Trusted, Sighted
<1>6. \A x \in Sent : Trusted(L, G, x)
    BY <1>1, <1>3 DEF Trusted
<1>7. \A c \in puts : Answers(L, G, c)
    BY <1>2, <1>3 DEF Answers
<1>8. BeliefsIn(L, G)
    BY <1>1, <1>3, <1>5, <1>6, <1>7 DEF BeliefsIn
<1>9. BeliefsIn(L, G)'
    BY <1>8, CallsKeepBeliefs DEF OnlyServers, calls, Sent
<1>. QED
    BY <1>3, <1>4, <1>9 DEF Live

LEMMA TrustNext == RecInv /\ TrustInv /\ [RecoveryNext]_recoveryVars => TrustInv'
<1> SUFFICES ASSUME RecInv, TrustInv, [RecoveryNext]_recoveryVars, losses' = 0 PROVE TrustInv'
    BY DEF TrustInv
<1>1. TypeInv /\ IdInv /\ LogsHold /\ OkSays /\ losses \in Nat
    BY DEF RecInv, RecTypeInv, RecLogsHold, BackupInv
<1>2. \A a \in Account : ~ProfileLost(a)
    BY <1>1 DEF ProfileLost
<1>3. losses' = losses
    BY <1>2 DEF RecoveryNext, events, TakeBackup, RestoreBackup, recoveryVars
<1>4. /\ BeliefsIn(Known, Live) /\ AllChained
      /\ \A a \in Account : Chained(backup[a].history)
    BY <1>3 DEF TrustInv, AllChained
<1>5. SUFFICES /\ BeliefsIn(Known, Live)' /\ AllChained'
               /\ \A a \in Account : Chained(backup'[a].history)
    BY DEF TrustInv, AllChained
<1>6. CASE (UserStep \/ WorkerNext \/ ServerStep) /\ UNCHANGED events
    <2>1. PICK G : G = Live
        OBVIOUS
    <2>2. Live' = G /\ backup' = backup
        BY <1>6, <2>1 DEF events, Live
    <2>3. \/ UserNext \/ WorkerNext
          \/ \E c \in puts : c.gen \in G /\ ServerPut(c)
          \/ \E q \in late : q.gen \in G /\ ServerLate(q)
          \/ \E a \in Account : AdminRestores(a) \/ Retention(a)
        <3>1. CASE UserStep
            BY <3>1 DEF UserStep, UserNext
        <3>2. ASSUME NEW c \in puts, c.gen \notin revoked, ServerPut(c)
              PROVE  c.gen \in G
            BY <1>1, <2>1, <3>2, PutType DEF Live, Put
        <3>3. ASSUME NEW q \in late, q.gen \notin revoked, ServerLate(q)
              PROVE  q.gen \in G
            BY <1>1, <2>1, <3>3 DEF Live, TypeInv, TypeOK, Mutation
        <3>. QED
            BY <1>6, <3>1, <3>2, <3>3 DEF ServerStep
    <2>4. BeliefsIn(Known, G)' /\ AllChained'
        BY <1>1, <1>4, <2>1, <2>3, LiveStepsKeepTrust
    <2>. QED
        BY <1>4, <2>2, <2>4
<1>7. CASE TakeBackup \/ UNCHANGED recoveryVars
    <2>1. /\ UNCHANGED vars /\ revoked' = revoked
          /\ \A a \in Account : backup'[a] \in {backup[a], server[a]}
        BY <1>7 DEF TakeBackup, recoveryVars
    <2>2. AllChained' /\ \A a \in Account : Chained(backup'[a].history)
        BY <1>4, <2>1 DEF AllChained, vars
    <2>3. PICK G : G = Live
        OBVIOUS
    <2>4. PICK K : K = Known
        OBVIOUS
    <2>5. Known' = K /\ Live' = G
        BY <2>1, <2>3, <2>4 DEF Known, Live, vars
    <2>6. BeliefsIn(K, G)'
        BY <1>4, <2>1, <2>3, <2>4, CallsKeepBeliefs DEF vars, Sent
    <2>. QED
        BY <2>2, <2>5, <2>6
<1>8. CASE RestoreBackup
    <2>1. BeliefsIn(Known, Live)'
        BY <1>8, ExceptionalSteps, RevokedKnowNothing DEF RestoreBackup, Opened
    <2>2. AllChained'
        BY <1>4, <1>8, RestoredServers DEF RecInv, AllChained
    <2>. QED
        BY <1>4, <1>8, <2>1, <2>2 DEF RestoreBackup
<1>. QED
    BY <1>2, <1>6, <1>7, <1>8 DEF RecoveryNext

\* While no profile row is lost, no version hides an edit, even when restored
\* backups make version numbers name other profiles than browsers remember:
\* compare-and-set would not see it, the revoked sessions make it so
\* (adminV1PrepareDataOnlyRestore keeps no session and no token).
THEOREM RestoresLoseNoUpdate == RecoverySpec => []NoLostUpdate
<1>1. RecoveryInit => RecInv /\ TrustInv
    BY RecInvInit, TrustInit
<1>2. RecInv /\ TrustInv /\ [RecoveryNext]_recoveryVars => (RecInv /\ TrustInv)'
    BY RecInvNext, TrustNext
<1>3. RecInv /\ TrustInv => NoLostUpdate
    BY DEF TrustInv, NoLostUpdate, Chained
<1>. QED
    BY <1>1, <1>2, <1>3, PTL DEF RecoverySpec

-----------------------------------------------------------------------------
\* What a conflict has stopped, no transaction takes from the outbox but those
\* that decide about it.
IsStopped(st, q) == q \in st.outbox /\ q.state = "conflict"

LEMMA CommitKeepsStopped ==
    ASSUME NEW st \in Store, NEW p \in Profile, NEW id, NEW q, IsStopped(st, q)
    PROVE  q \in CommitProfile(st, p, id).outbox
<1> DEFINE saved == [st EXCEPT !.local = p, !.rev = @ + 1, !.edits = @ \/ p # st.local]
<1>1. saved.outbox = st.outbox
    BY DEF Store
<1>2. \A m : q \notin Pending(saved, m)
    BY QueriesAreRows DEF IsStopped, Queued
<1>3. \A m : /\ Enqueue(saved, m, p, id).outbox = (saved.outbox \ Pending(saved, m)) \cup
                    {NewMutation(id, m, IF Blocker(saved, m) # {} THEN None ELSE m.baseV,
                                 IF Blocker(saved, m) # {} THEN None ELSE m.base, p, None)}
             /\ BackToBase(saved, m).outbox = saved.outbox \ Pending(saved, m)
    BY DEF Enqueue, BackToBase, Store
<1>4. \A m : q \in Enqueue(saved, m, p, id).outbox /\ q \in BackToBase(saved, m).outbox
    BY <1>1, <1>2, <1>3 DEF IsStopped
<1>5. \/ CommitProfile(st, p, id) = saved
      \/ \E m : CommitProfile(st, p, id) \in {Enqueue(saved, m, p, id), BackToBase(saved, m)}
    BY DEF CommitProfile
<1> HIDE DEF saved
<1>. QED
    BY <1>1, <1>4, <1>5 DEF IsStopped

LEMMA SettlingKeepsStopped ==
    ASSUME NEW st \in Store, NEW s, NEW gen, NEW mid, CanSettle(st, s, gen, mid),
           NEW q, IsStopped(st, q)
    PROVE  /\ \A version, profile : q \in Acknowledge(st, s, gen, mid, version, profile).outbox
           /\ \A version, profile, serverId :
                  q \in RecordConflict(st, s, gen, mid, version, profile, serverId).outbox
           /\ q \in FreezeServerEmpty(st, s, gen, mid).outbox
           /\ q \in ScheduleRetry(st, s, gen).outbox
<1>1. q # Settled(st, s, mid) /\ q \notin Pending(st, s) /\ q \in st.outbox
    BY SettledIsRow, QueriesAreRows DEF IsStopped, Queued
<1>2. \A version, profile : q \in Acknowledge(st, s, gen, mid, version, profile).outbox
    BY <1>1 DEF Acknowledge, Store
<1>3. \A version, profile, serverId :
          q \in RecordConflict(st, s, gen, mid, version, profile, serverId).outbox
    BY <1>1 DEF RecordConflict, Store
<1>. QED
    BY <1>1, <1>2, <1>3 DEF FreezeServerEmpty, ScheduleRetry, Store

LEMMA ClaimKeepsStopped ==
    ASSUME NEW st \in Store, NEW r, r.state # "conflict", NEW q, IsStopped(st, q)
    PROVE  q \in ClaimDue(st, r).outbox
BY DEF IsStopped, ClaimDue, Store

\* forceEnqueueCurrent drops a stopped mutation of another session only.
LEMMA ForceKeepsStopped ==
    ASSUME NEW st \in Store, NEW s, NEW gen, CanForceEnqueue(st, s, gen), NEW id,
           NEW q, IsStopped(st, q), q.gen = gen
    PROVE  q \in ForceEnqueue(st, s, gen, id).outbox
<1>1. q \in st.outbox /\ q \notin Blocker(st, s) /\ q \notin Pending(st, s)
    BY QueriesAreRows DEF IsStopped, Queued, CanForceEnqueue
<1>. QED
    BY <1>1 DEF ForceEnqueue, Store

\* resolveConflict removes the mutation the conflict is about, which the loss of
\* the profile did not stop, and one that waits.
LEMMA ResolveKeepsStopped ==
    ASSUME NEW st \in Store, UniqueIds(st), ShapeOK(st), NEW s, NEW gen,
           NEW c \in st.conflicts, InScope(c, s), NEW successor, successor = Pending(st, s),
           NEW merged, NEW id, NEW q, IsStopped(st, q), q.terminal
    PROVE  q \in Resolve(st, s, gen, c, successor, merged, id).outbox
<1>1. ScopeOf(c) \in Scope /\ InScope(c, ScopeOf(c))
    BY RowsHaveScope
<1>2. PICK r \in Rows(st.outbox, ScopeOf(c)) : ~r.terminal /\ r.id = c.mid
    BY <1>1 DEF ShapeOK, ScopeShape, Rows
<1>3. q.id # c.mid
    BY <1>2 DEF Rows, UniqueIds, IsStopped
<1>4. \A x \in successor : q.id # x.id
    BY QueriesAreRows DEF Queued, Rows, UniqueIds, IsStopped
<1>5. q \in {x \in st.outbox : ~(InScope(x, s) /\
                                 x.id \in {c.mid} \cup {y.id : y \in successor})}
    BY <1>3, <1>4 DEF IsStopped
<1>. QED
    BY <1>5 DEF Resolve, Store

\* What the lost profile stopped is stopped: a queue's shape says so.
LEMMA FrozenIsStopped ==
    ASSUME RecInv, NEW d \in Device, NEW q \in Frozen(d)
    PROVE  /\ IsStopped(store[d], q) /\ q.terminal
           /\ store[d] \in Store /\ ShapeOK(store[d]) /\ UniqueIds(store[d])
<1>1. store[d] \in Store /\ ShapeOK(store[d]) /\ UniqueIds(store[d])
    BY FreshId DEF RecInv, RecTypeInv
<1>2. q \in store[d].outbox /\ q.terminal
    BY DEF Frozen
<1>3. ScopeOf(q) \in Scope /\ InScope(q, ScopeOf(q))
    BY <1>1, <1>2, RowsHaveScope
<1>. QED
    BY <1>1, <1>2, <1>3 DEF ShapeOK, ScopeShape, Rows, IsStopped

\* What FrozenIsKept says of one step.
Kept(d, q) ==
    \/ q \in store'[d].outbox
    \/ Reopened(d, q)
    \/ \E c \in pulls \ pulls' : c.dev = d /\ c.gen = q.gen

\* A transaction of one browser that keeps what is stopped.
LEMMA StoreKeepsFrozen ==
    ASSUME RecInv, NEW e \in Device, NEW st, SetStore(e, st), NEW d \in Device, NEW q \in Frozen(d),
           e = d => q \in st.outbox \/ Reopened(d, q)
    PROVE  Kept(d, q)
<1>1. store'[e] = st /\ \A x \in Device : x # e => store'[x] = store[x]
    BY DEF SetStore, RecInv, RecTypeInv, TypeInv, TypeOK
<1>. QED
    BY <1>1 DEF Kept, Frozen

LEMMA UserKeepsFrozen ==
    ASSUME RecInv, UserNext, NEW d \in Device, NEW q \in Frozen(d)
    PROVE  Kept(d, q)
<1>0. IsStopped(store[d], q) /\ store[d] \in Store
    BY FrozenIsStopped
<1>1. ASSUME NEW e \in Device, NEW p \in Profile, Save(e, p)
      PROVE  Kept(d, q)
    BY <1>0, <1>1, CommitKeepsStopped, StoreKeepsFrozen DEF Save
<1>2. ASSUME NEW e \in Device, UseLocal(e)
      PROVE  Kept(d, q)
    <2> DEFINE s == [acct |-> vault[e].acct, pid |-> store[e].local.pid]
               st == ForceEnqueue(store[e], s, vault[e].gen, nextId)
    <2>1. e = d => q \in st.outbox \/ Reopened(d, q)
        BY <1>0, <1>2, ForceKeepsStopped DEF UseLocal, Reopened
    <2>2. SetStore(e, st)
        BY <1>2 DEF UseLocal
    <2> HIDE DEF st
    <2>. QED
        BY <2>1, <2>2, StoreKeepsFrozen
<1>3. ASSUME NEW e \in Device, Logout(e)
      PROVE  Kept(d, q)
    <2> DEFINE st == IF SyncContext(e) = {} THEN store[e]
                     ELSE DeactivateAccount(store[e], CHOOSE m \in SyncContext(e) : TRUE,
                                            vault[e].gen)
    <2>1. e = d => q \in st.outbox
        BY <1>0 DEF DeactivateAccount, Store, IsStopped
    <2>2. SetStore(e, st)
        BY <1>3 DEF Logout
    <2> HIDE DEF st
    <2>. QED
        BY <2>1, <2>2, StoreKeepsFrozen
<1>4. ASSUME store' = store
      PROVE  Kept(d, q)
    BY <1>4 DEF Kept, Frozen
<1>. QED
    BY <1>1, <1>2, <1>3, <1>4 DEF UserNext, LoginStart, PullStart, ResolveStart

LEMMA PutsKeepFrozen ==
    ASSUME RecInv, NEW d \in Device, NEW q \in Frozen(d), NEW c \in puts,
           \/ DeliverAck(c) \/ DeliverConflict(c) \/ DeliverServerEmpty(c)
           \/ DeliverRefused(c) \/ CallFails(c)
    PROVE  Kept(d, q)
<1>0. IsStopped(store[d], q) /\ store[d] \in Store
    BY FrozenIsStopped
<1>1. c.dev \in Device
    BY PutType DEF RecInv, RecTypeInv
<1>2. CASE DeliverAck(c)
    <2>1. CanSettle(store[c.dev], c, c.gen, c.mut.id)
        BY <1>2 DEF DeliverAck, CanAcknowledge
    <2>. QED
        BY <1>0, <1>1, <1>2, <2>1, SettlingKeepsStopped, StoreKeepsFrozen DEF DeliverAck
<1>3. CASE DeliverConflict(c)
    BY <1>0, <1>1, <1>3, SettlingKeepsStopped, StoreKeepsFrozen DEF DeliverConflict
<1>4. CASE DeliverServerEmpty(c)
    BY <1>0, <1>1, <1>4, SettlingKeepsStopped, StoreKeepsFrozen DEF DeliverServerEmpty
<1>5. CASE RetryLater(c)
    BY <1>0, <1>1, <1>5, SettlingKeepsStopped, StoreKeepsFrozen DEF RetryLater, IsStopped
<1>6. CASE store' = store
    BY <1>6 DEF Kept, Frozen
<1>. QED
    BY <1>2, <1>3, <1>4, <1>5, <1>6 DEF DeliverRefused, CallFails

LEMMA WorkerKeepsFrozen ==
    ASSUME RecInv, WorkerNext, NEW d \in Device, NEW q \in Frozen(d)
    PROVE  Kept(d, q)
<1>0. /\ IsStopped(store[d], q) /\ store[d] \in Store /\ q.terminal
      /\ ShapeOK(store[d]) /\ UniqueIds(store[d]) /\ TypeInv /\ IdInv /\ SeenInv
    BY FrozenIsStopped DEF RecInv, RecTypeInv, RecSessInv
<1>1. ASSUME store' = store
      PROVE  Kept(d, q)
    BY <1>1 DEF Kept, Frozen
<1>2. ASSUME NEW c \in logins, LoginActivate(c)
      PROVE  Kept(d, q)
    <2>1. c.dev \in Device
        BY <1>0 DEF TypeInv, TypeOK, Login
    <2>2. c.dev = d =>
              q \in ActivateAccount(store[c.dev], c.acct, c.pid, c.gen, c.version, c.base).outbox
        BY <1>0 DEF ActivateAccount, Store, IsStopped
    <2>. QED
        BY <1>2, <2>1, <2>2, StoreKeepsFrozen DEF LoginActivate
<1>3. ASSUME NEW c \in pulls, PullApply(c)
      PROVE  Kept(d, q)
    <2>1. c.dev \in Device /\ c \in pulls \ pulls'
        BY <1>0, <1>3 DEF TypeInv, TypeOK, Pull, PullApply
    <2>2. CASE c.dev = d
        <3>1. vault[d] # None => vault[d].gen = c.gen
            BY <1>0, <2>2 DEF SeenInv
        <3>. QED
            BY <2>1, <2>2, <3>1 DEF Kept, Reopened
    <2>3. CASE c.dev # d
        BY <1>3, <2>1, <2>3, StoreKeepsFrozen DEF PullApply
    <2>. QED
        BY <2>2, <2>3
<1>4. ASSUME NEW c \in merges, ResolveCommit(c)
      PROVE  Kept(d, q)
    <2> DEFINE st == Resolve(store[c.dev], c, c.gen, c.conflict, c.successor, c.merged, nextId)
    <2>1. c.dev \in Device
        BY <1>0 DEF TypeInv, TypeOK, Merge
    <2>2. c.conflict \in Rows(store[c.dev].conflicts, c) /\ store[c.dev].rev = c.rev
        BY <1>4 DEF ResolveCommit, CanResolve
    <2>3. c.successor = Pending(store[c.dev], c)
        BY <1>0, <2>2 DEF IdInv, MergeInv, Reading, Rows
    <2>4. c.dev = d => q \in st.outbox
        BY <1>0, <2>2, <2>3, ResolveKeepsStopped DEF Rows
    <2>5. SetStore(c.dev, st)
        BY <1>4 DEF ResolveCommit
    <2> HIDE DEF st
    <2>. QED
        BY <2>1, <2>4, <2>5, StoreKeepsFrozen
<1>5. ASSUME NEW e \in Device, NEW slot \in Slots, DrainClaim(e, slot)
      PROVE  Kept(d, q)
    <2>1. PICK m \in SyncContext(e) : \E r \in Claimable(store[e], m, vault[e].gen) :
              SetStore(e, ClaimDue(store[e], r))
        BY <1>5 DEF DrainClaim
    <2>2. PICK r \in Claimable(store[e], m, vault[e].gen) : SetStore(e, ClaimDue(store[e], r))
        BY <2>1
    <2>3. r.state # "conflict"
        BY QueriesAreRows, FirstIsRow DEF Claimable, Queued
    <2>. QED
        BY <1>0, <2>2, <2>3, ClaimKeepsStopped, StoreKeepsFrozen
<1>. QED
    BY <1>1, <1>2, <1>3, <1>4, <1>5, PutsKeepFrozen
    DEF WorkerNext, LoginFail, PullFail, ResolveFail, WorkerStops

\* A mutation stopped because the server had lost the profile stays in the
\* outbox as it is, through edits, other answers, resolutions, restarts, and
\* restores, until the user loads a profile from the server, or signs out or
\* in again (freezeServerEmptyConflict: no automatic retry, nothing discarded).
THEOREM FrozenStays == RecoverySpec => FrozenIsKept
<1>1. ASSUME RecInv, [RecoveryNext]_recoveryVars, NEW d \in Device, NEW q \in Frozen(d)
      PROVE  Kept(d, q)
    <2>1. CASE OnlyServers
        BY <2>1 DEF OnlyServers, Kept, Frozen
    <2>2. CASE ServerStep
        BY <2>2 DEF ServerStep, ServerPut, ServerLate, AdminRestores, Retention, Kept, Frozen
    <2>3. CASE UserStep
        <3>1. UserNext
            BY <2>3 DEF UserStep, UserNext
        <3>. QED
            BY <1>1, <3>1, UserKeepsFrozen
    <2>4. CASE WorkerNext
        BY <1>1, <2>4, WorkerKeepsFrozen
    <2>. QED
        BY <1>1, <2>1, <2>2, <2>3, <2>4, ExceptionalSteps DEF RecoveryNext
<1>2. RecInv /\ [RecoveryNext]_recoveryVars =>
          [\A d \in Device : \A q \in Frozen(d) :
               \/ q \in store'[d].outbox
               \/ Reopened(d, q)
               \/ \E c \in pulls \ pulls' : c.dev = d /\ c.gen = q.gen]_recoveryVars
    BY <1>1 DEF Kept
<1>. QED
    BY <1>2, RecInvIsKept, PTL DEF RecoverySpec, FrozenIsKept

\* The only calls that begin to wait for an answer are drain's.
LEMMA RequestsStart ==
    ASSUME WorkerNext, NEW c \in puts' \ puts
    PROVE  \E d \in Device, slot \in Slots : DrainClaim(d, slot)
<1>1. ASSUME \A d \in Device, slot \in Slots : ~DrainClaim(d, slot)
      PROVE  puts' \subseteq puts
    BY <1>1 DEF WorkerNext, LoginActivate, LoginFail, PullApply, PullFail, ResolveCommit, ResolveFail,
                DeliverAck, DeliverConflict, DeliverServerEmpty, DeliverRefused, CallFails,
                WorkerStops, Return, Others
<1>. QED
    BY <1>1

\* For a session with a mutation so stopped no new request leaves the browser:
\* an account that lost its profile is not refilled by a machine.
THEOREM FrozenSendsNothing == RecoverySpec => FrozenIsSilent
<1>1. ASSUME RecInv, [RecoveryNext]_recoveryVars, NEW c \in puts' \ puts, c.reply = None,
             NEW q \in Frozen(c.dev), q.acct = c.acct, q.pid = c.pid, q.gen = c.gen
      PROVE  FALSE
    <2>1. WorkerNext
        <3>1. ~OnlyServers
            BY <1>1 DEF OnlyServers, calls
        <3>2. ~UserStep
            BY <1>1 DEF UserStep, Save, LoginStart, UseLocal, PullStart, Logout, ResolveStart, calls
        <3>3. ~ServerStep
            <4>1. ASSUME NEW x \in puts, ServerPut(x)
                  PROVE  FALSE
                <5> DEFINE answered == [x EXCEPT !.reply = AnswerOf(server[x.acct], x.mut)]
                <5>1. x \in Put /\ x.reply = None
                    BY <1>1, <4>1, PutType DEF ServerPut, RecInv, RecTypeInv
                <5>2. c = answered
                    BY <1>1, <4>1 DEF ServerPut
                <5>3. answered = [x EXCEPT !.reply = None]
                    BY <1>1, <5>1, <5>2 DEF Put
                <5>4. answered = x
                    BY <5>1, <5>3 DEF Put
                <5>. QED
                    BY <1>1, <5>2, <5>4
            <4>. QED
                BY <1>1, <4>1 DEF ServerStep, ServerLate, AdminRestores, Retention, calls
        <3>. QED
            BY <1>1, <3>1, <3>2, <3>3, ExceptionalSteps DEF RecoveryNext
    <2>2. PICK d \in Device, slot \in Slots : DrainClaim(d, slot)
        BY <1>1, <2>1, RequestsStart
    <2>3. PICK m \in SyncContext(d) :
              /\ ~Standing(store[d], m, vault[d].gen)
              /\ \E r \in Claimable(store[d], m, vault[d].gen) :
                     puts' = puts \cup
                         {[dev |-> d, slot |-> slot, acct |-> m.acct, pid |-> m.pid,
                           gen |-> vault[d].gen, mut |-> InFlight(r), reply |-> None]}
        BY <2>2 DEF DrainClaim
    <2>4. c.dev = d /\ c.acct = m.acct /\ c.pid = m.pid /\ c.gen = vault[d].gen /\ d \in Device
        BY <1>1, <2>3
    <2>5. IsStopped(store[d], q) /\ q.terminal
        BY <1>1, <2>4, FrozenIsStopped
    <2>6. q \in Queued(store[d], m, "conflict")
        BY <1>1, <2>4, <2>5 DEF IsStopped, Queued, Rows, InScope
    <2>. QED
        BY <1>1, <2>3, <2>4, <2>5, <2>6 DEF Standing
<1>2. RecInv /\ [RecoveryNext]_recoveryVars =>
          [\A c \in puts' \ puts : c.reply = None =>
               ~\E q \in Frozen(c.dev) : q.acct = c.acct /\ q.pid = c.pid /\ q.gen = c.gen]_recoveryVars
    BY <1>1
<1>. QED
    BY <1>2, RecInvIsKept, PTL DEF RecoverySpec, FrozenIsSilent
=============================================================================
