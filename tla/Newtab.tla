-------------------------------- MODULE Newtab --------------------------------
(***************************************************************************)
(* The new tab pages of one browser with their worker: what a page does    *)
(* while syncBusyRef is set (newtab/App.tsx connectBackend,                *)
(* saveProfileToBackend, resolveSyncConflict, loadProfileFromBackend,      *)
(* disconnectBackend), and how it ties together the profile (Tabs), the    *)
(* session (Session), the page's resources (PageResources) and its gist    *)
(* backups (GistBackup).  The operations to run are those of todo.         *)
(***************************************************************************)
EXTENDS Tabs, Session, PageResources, GistBackup

vars == <<tabsVars, todo, sessionVars, page, gistVars>>

Init == TabsInit /\ SessionInit /\ PagesInit /\ GistInit

Scope == IF meta = None THEN None ELSE meta.pid

Free(t, op, kind) == Starts(op, kind) /\ op.by = t /\ page[t].job = None
Job(p, op, stage) ==
    [p EXCEPT !.job = [op |-> op, stage |-> stage, session |-> None, offered |-> {}, run |-> 0]]
Is(t, stage) == page[t].job # None /\ page[t].job.stage = stage
Idled(p) == [p EXCEPT !.job = None]

\* The worker's answer to the page's job.
Answered(t, stage, kind, c) ==
    Is(t, stage) /\ Over(c) /\ c.kind = kind /\ c.op = page[t].job.op /\ Heard(c)

\* The job ends by saving what profileRef holds, with a status; persist throws
\* while a bookmark import runs.
EndSaving(t, p) ==
    IF WriteAllowed(tabs[t])
    THEN /\ Become(t, Persist(tabs[t], tabs[t].ref))
         /\ SetPage(t, [p EXCEPT !.job.stage = "ending", !.job.run = tabs[t].run + 1])
    ELSE UNCHANGED tabs /\ SetPage(t, Idled(p))

Saved(t) == \A i \in DOMAIN tabs[t].queue : tabs[t].queue[i].run # page[t].job.run

JobEnds(t) ==
    /\ \/ Is(t, "ending") /\ Saved(t)
       \/ Is(t, "refreshing")
          /\ ~\E f \in page[t].flows : f.kind = "refresh" /\ f.generation = page[t].job.run
    /\ SetPage(t, Idled(page[t]))
    /\ UNCHANGED <<tabsVars, todo, sessionVars, gistVars>>

-----------------------------------------------------------------------------
(* connectBackend *)

\* What the two sides hold, as the worker's login tells it.
FirstConnections == {"both-empty", "local-only", "remote-only", "both-have-data"}

\* How the first connection may go on: with a side that is taken without
\* asking, with the user's choice, or without a profile.
Offered(kind, scope) ==
    LET local == IF scope = "full" THEN {"use-local"} ELSE {}
    IN IF kind = "remote-only" THEN {"use-remote"}
       ELSE IF kind = "both-have-data" THEN local \cup {"use-remote", "cancel"}
       ELSE IF scope = "full" THEN local ELSE {"read-only"}

Connect(t, op) ==
    /\ Free(t, op, "connect") /\ page[t].auth = None
    /\ LoginBegin(op, op.n, store.profile.pid)
    /\ SetPage(t, Job(page[t], op, "login"))
    /\ UNCHANGED <<tabsVars, gistVars>>

ConnectAnswered(t, c) ==
    /\ Answered(t, "login", "login", c)
    /\ IF c.stage = "done"
       THEN /\ \E kind \in FirstConnections :
                   SetPage(t, [WithoutConflict(page[t]) EXCEPT
                       !.job.stage = "asked", !.job.session = c.session,
                       !.job.offered = Offered(kind, c.session.scope)])
            /\ UNCHANGED tabs
       ELSE EndSaving(t, page[t])
    /\ UNCHANGED <<store, seen, untold, todo, gistVars>>

ConnectChosen(t, strategy) ==
    LET job == page[t].job
    IN /\ Is(t, "asked") /\ strategy \in job.offered
       /\ FirstBegin(job.op, job.session, strategy, store.rev, store.profile.pid)
       /\ SetPage(t, [page[t] EXCEPT !.job.stage = "first", !.job.offered = {}])
       /\ UNCHANGED <<tabsVars, todo, gistVars>>

ConnectCancelled(t) ==
    /\ Is(t, "asked") /\ "cancel" \in page[t].job.offered
    /\ LogoutBegin(page[t].job.op, page[t].job.session)
    /\ SetPage(t, [page[t] EXCEPT !.job.stage = "cancelling", !.job.offered = {}])
    /\ UNCHANGED <<tabsVars, todo, gistVars>>

ConnectLeft(t, c) ==
    /\ Answered(t, "cancelling", "logout", c)
    /\ SetPage(t, Idled(page[t]))
    /\ UNCHANGED <<tabsVars, todo, gistVars>>

\* rememberBackendAuth: the session first, then the save, which may throw.
Remember(t, auth, tab, profile) ==
    IF WriteAllowed(tab)
    THEN /\ Become(t, Persist(tab, profile))
         /\ SetPage(t, [Remembered(page[t], auth) EXCEPT
                !.job.stage = "saving", !.job.offered = {}, !.job.run = tab.run + 1])
    ELSE Become(t, tab) /\ SetPage(t, Idled(Remembered(page[t], auth)))

\* A session that may only read, of an account without a profile.
ConnectReadOnly(t) ==
    /\ Is(t, "asked") /\ "read-only" \in page[t].job.offered
    /\ Remember(t, page[t].job.session, tabs[t], tabs[t].ref)
    /\ UNCHANGED <<store, seen, untold, todo, sessionVars, gistVars>>

ConnectCompleted(t, c) ==
    LET auth == [c.session EXCEPT !.pending = FALSE]
    IN /\ Answered(t, "first", "first", c)
       /\ IF c.stage = "failed" THEN EndSaving(t, page[t]) /\ UNCHANGED seen
          ELSE IF c.strategy = "use-local" THEN Remember(t, auth, tabs[t], tabs[t].ref) /\ UNCHANGED seen
          ELSE /\ ~Unanswered(tabs[t])
               /\ Remember(t, auth, Knows(tabs[t], store.rev), store.profile)
               /\ Sees(t, store.profile)
       /\ UNCHANGED <<store, untold, todo, gistVars>>

ConnectSaved(t) ==
    LET p == page[t]
        q == Started(p, FALSE)
    IN /\ Is(t, "saving") /\ Saved(t)
       /\ IF p.job.run \in tabs[t].refused THEN EndSaving(t, p)
          ELSE /\ SetPage(t, IF p.busy THEN Idled(q)
                             ELSE [q EXCEPT !.job.stage = "refreshing", !.job.run = q.generation])
               /\ UNCHANGED tabs
       /\ UNCHANGED <<store, seen, untold, todo, sessionVars, gistVars>>

-----------------------------------------------------------------------------
(* The other jobs *)

Disconnect(t, op) ==
    /\ Free(t, op, "leave") /\ page[t].auth # None
    /\ LogoutBegin(op, page[t].auth)
    /\ SetPage(t, Job(Forgotten(page[t]), op, "leaving"))
    /\ UNCHANGED <<tabsVars, gistVars>>

Disconnected(t, c) ==
    /\ Answered(t, "leaving", "logout", c)
    /\ EndSaving(t, page[t])
    /\ UNCHANGED <<store, seen, untold, todo, gistVars>>

SaveToBackend(t, op) ==
    /\ Free(t, op, "sync") /\ Writable(page[t].auth)
    /\ CallBegin(op, FALSE)
    /\ SetPage(t, Job(page[t], op, "syncing"))
    /\ UNCHANGED <<tabsVars, gistVars>>

\* Synced, or failed: saved with the status.  A conflict is asked for.  Else
\* only shown.
SavedToBackend(t, c) ==
    /\ Answered(t, "syncing", "call", c)
    /\ \/ EndSaving(t, page[t])
       \/ SetPage(t, Idled(page[t])) /\ UNCHANGED tabs
       \/ c.ok /\ SetPage(t, [page[t] EXCEPT !.job.stage = "asking"]) /\ UNCHANGED tabs
    /\ UNCHANGED <<store, seen, untold, todo, gistVars>>

ConflictShown(t) ==
    /\ Is(t, "asking")
    /\ \/ SetPage(t, Idled([page[t] EXCEPT !.conflict = page[t].auth.gen])) /\ UNCHANGED tabs
       \/ EndSaving(t, page[t])
    /\ UNCHANGED <<store, seen, untold, todo, sessionVars, gistVars>>

\* The worker writes the merged profile, then drains.
ResolveConflict(op) ==
    /\ CanWrite(vault) /\ MetaIs(vault) /\ meta.pid = store.profile.pid
    /\ WorkerWrites(With(store.profile, op))
    /\ CallBegin(op, TRUE)

Resolve(t, op) ==
    /\ Free(t, op, "resolve") /\ Writable(page[t].auth) /\ page[t].conflict # None
    /\ ResolveConflict(op)
    /\ SetPage(t, Job(page[t], op, "resolving"))
    /\ UNCHANGED gistVars

LoadFromBackend(t, op) ==
    /\ Free(t, op, "load") /\ page[t].auth # None
    /\ FirstBegin(op, page[t].auth, "use-remote", store.rev, store.profile.pid)
    /\ SetPage(t, Job(page[t], op, "loading"))
    /\ UNCHANGED <<tabsVars, gistVars>>

\* Both show what the worker has written.
Shown(t, c) ==
    /\ Answered(t, "resolving", "call", c) \/ Answered(t, "loading", "first", c)
    /\ IF c.stage = "done"
       THEN /\ ~Unanswered(tabs[t])
            /\ Become(t, Load(tabs[t])) /\ Sees(t, store.profile)
            /\ SetPage(t, Idled([page[t] EXCEPT !.conflict = IF c.kind = "call" THEN None ELSE @]))
       ELSE SetPage(t, Idled(page[t])) /\ UNCHANGED <<tabs, seen>>
    /\ UNCHANGED <<store, untold, todo, gistVars>>

-----------------------------------------------------------------------------
(* The worker *)

\* What completeFirstConnection writes.
FirstStores(c) ==
    /\ IF c.strategy = "use-remote"
       THEN \E pid \in {1, 2} :
                /\ FirstWrite(c, store.rev, store.profile.pid, pid)
                /\ WorkerWrites([pid |-> pid, items |-> {c.op}])
       ELSE FirstWrite(c, store.rev, store.profile.pid, c.pid) /\ UNCHANGED tabsVars
    /\ UNCHANGED <<todo, page, gistVars>>

\* A resolution whose drain failed is broadcast when the drain says so, and not
\* when it throws.
Tell(c) ==
    /\ c.stage = "telling"
    /\ \/ Goto(c, "done") /\ WorkerTells
       \/ ~c.ok /\ Goto(c, "failed") /\ UNCHANGED <<tabsVars, todo>>
    /\ UNCHANGED <<vault, meta, decided, epoch, flights, families, drawn, evicted, page, gistVars>>

WorkerOp(op) ==
    \/ Starts(op, "evict") /\ Evict
    \/ Starts(op, "late") /\ \E gen \in DOMAIN families : TimePasses(gen, FALSE)
    \/ Starts(op, "expire") /\ \E gen \in DOMAIN families : TimePasses(gen, TRUE)

-----------------------------------------------------------------------------
(* A page that is opened asks for the session and, when it may, syncs. *)

Reopen(t, op) ==
    LET p == IF vault = None THEN NewPage ELSE Opened(NewPage, Public(vault), op)
    IN /\ Starts(op, "reopen") /\ op.by = t
       /\ Reopened(t) /\ GithubLoad(t) /\ SetPage(t, p)
       /\ IF Writable(p.auth) THEN CallBegin(op, FALSE) ELSE UNCHANGED sessionVars

StartupAnswered(t, f, c) ==
    /\ Over(c) /\ f.kind = "startup" /\ c.op = f.op /\ Heard(c)
    /\ \E conflict \in {FALSE, c.ok} : StartupSynced(t, f, conflict)
    /\ UNCHANGED <<tabsVars, todo, gistVars>>

RefreshResources(t, op) ==
    /\ Starts(op, "refresh") /\ op.by = t
    /\ SetPage(t, Started(page[t], TRUE))
    /\ UNCHANGED <<tabsVars, sessionVars, gistVars>>

LoadMore(t, op) ==
    /\ Starts(op, "more") /\ op.by = t
    /\ MoreStart(t)
    /\ UNCHANGED <<tabsVars, sessionVars, gistVars>>

Backup(t, op) ==
    /\ \/ Starts(op, "backup") /\ BackupStart(t, tabs[t].ref)
       \/ Starts(op, "restore") /\ RestoreAsk(t)
       \/ Starts(op, "clear") /\ GithubClear(t)
    /\ op.by = t
    /\ UNCHANGED <<tabsVars, sessionVars, page>>

\* Bound: the other device has this one's profile id.
BackupElsewhere(op) ==
    /\ Starts(op, "elsewhere")
    /\ \E id \in DOMAIN gists : Elsewhere(id, [pid |-> store.profile.pid, items |-> {op}])
    /\ UNCHANGED <<tabsVars, sessionVars, page>>

Overwrite(t) == BackupOverwrite(t, tabs[t].ref) /\ UNCHANGED <<tabsVars, todo, sessionVars, page>>

\* loadProfileFromGitHub keeps the hash, then saves.
Restore(t) ==
    LET profile == gists[github[t].job.id].profile
    IN /\ RestoreLoaded(t)
       /\ IF WriteAllowed(tabs[t]) THEN Become(t, Persist(tabs[t], profile)) /\ Sees(t, profile)
                                   ELSE UNCHANGED <<tabs, seen>>
       /\ UNCHANGED <<store, untold, todo, sessionVars, page>>

-----------------------------------------------------------------------------
JobStep(t, c) ==
    \/ ConnectAnswered(t, c) \/ ConnectLeft(t, c) \/ ConnectCompleted(t, c)
    \/ Disconnected(t, c) \/ SavedToBackend(t, c) \/ Shown(t, c)

\* A bookmark import is not begun beside another operation.
Undisturbed(t, op) == op.kind = "bookmarks" => page[t].job = None /\ github[t].job = None

JobOp(t, op) ==
    \/ Connect(t, op) \/ Disconnect(t, op) \/ SaveToBackend(t, op) \/ Resolve(t, op)
    \/ LoadFromBackend(t, op)

Next ==
    \/ \E t \in Tab :
          \/ \E op \in todo : \/ TabOp(t, op) /\ Undisturbed(t, op) /\ UNCHANGED <<sessionVars, page, gistVars>>
                              \/ JobOp(t, op) \/ Reopen(t, op) \/ RefreshResources(t, op)
                              \/ LoadMore(t, op) \/ Backup(t, op)
          \/ TabStep(t, Scope) /\ UNCHANGED <<sessionVars, page, gistVars>>
          \/ \E c \in calls : JobStep(t, c) \/ \E f \in page[t].flows : StartupAnswered(t, f, c)
          \/ \E strategy \in {"use-local", "use-remote"} : ConnectChosen(t, strategy)
          \/ ConnectCancelled(t) \/ ConnectReadOnly(t) \/ ConnectSaved(t)
          \/ ConflictShown(t) \/ JobEnds(t)
          \/ \E f \in page[t].flows : PageStep(t, f) /\ UNCHANGED <<tabsVars, todo, sessionVars, gistVars>>
          \/ GistStep(t) /\ UNCHANGED <<tabsVars, todo, sessionVars, page>>
          \/ Overwrite(t) \/ Restore(t)
    \/ \E c \in calls :
          \/ SessionStep(c) /\ UNCHANGED <<tabsVars, todo, page, gistVars>>
          \/ FirstStores(c) \/ Tell(c)
    \/ \E f \in flights : FlightStep(f) /\ UNCHANGED <<tabsVars, todo, page, gistVars>>
    \/ \E op \in todo : WorkerOp(op) /\ UNCHANGED <<tabsVars, page, gistVars>>
    \/ \E op \in todo : BackupElsewhere(op)

Spec == Init /\ [][Next]_vars
===============================================================================
