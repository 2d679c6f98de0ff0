----------------------------- MODULE NewtabProofs -----------------------------
(* Theorems of Newtab, for any pages, scenarios and scopes.                *)
EXTENDS Newtab, SessionProofs

-----------------------------------------------------------------------------
(* What the pages of Tabs do to the revisions they know *)

\* A page's state; the proofs look into four of its fields.
IsTab(tab) ==
    tab \in [ref : {tab.ref}, screen : {tab.screen}, known : {tab.known}, told : {tab.told},
             deaf : BOOLEAN, blind : BOOLEAN, queue : {tab.queue}, call : {tab.call},
             wrote : {tab.wrote}, run : {tab.run}, feedback : {tab.feedback}, refused : {tab.refused}, flow : {tab.flow}]

TabsShape ==
    /\ tabs = [t \in Tab |-> tabs[t]]
    /\ \A t \in Tab : IsTab(tabs[t])

\* A page whose write has been followed by another one will hear of that, too.
WriterIsTold ==
    \A t \in Tab :
        \/ tabs[t].wrote \in {None, store.rev} \/ tabs[t].told # {}
        \/ untold

ToldInv == TabsShape /\ TabIsTold /\ WriterIsTold

\* A page is as much up to date as another state of it.
AsTold(tab, old) ==
    /\ tab.known = old.known /\ tab.told = old.told /\ tab.deaf = old.deaf
    /\ tab.wrote = old.wrote

\* A load leaves the answer that is awaited and the broadcasts that come.
SameWrite(tab, old) == tab.wrote = old.wrote /\ tab.told = old.told

LEMMA NewTabIsTab == IsTab(NewTab)
  BY DEF NewTab, IsTab

LEMMA ToldInit == TabsInit => ToldInv
<1> SUFFICES ASSUME TabsInit PROVE ToldInv
  OBVIOUS
<1>1. tabs = [t \in Tab |-> NewTab]
  BY DEF TabsInit
<1>2. store.rev = 0 /\ NewTab.known = 0
  BY DEF TabsInit, NewTab
<1>3. NewTab.wrote = None
  BY DEF NewTab
<1> QED
  BY <1>1, <1>2, <1>3, NewTabIsTab DEF ToldInv, TabsShape, TabIsTold, WriterIsTold

-----------------------------------------------------------------------------
(* The states a page goes through *)

LEMMA PersistKeeps ==
    ASSUME NEW tab, IsTab(tab), NEW profile
    PROVE  IsTab(Persist(tab, profile)) /\ AsTold(Persist(tab, profile), tab)
  BY DEF IsTab, Persist, AsTold

LEMMA SavingKeeps ==
    ASSUME NEW tab, IsTab(tab), NEW profile
    PROVE  IsTab(Saving(tab, profile)) /\ AsTold(Saving(tab, profile), tab)
  BY DEF IsTab, Persist, Saving, AsTold

LEMMA SettledKeeps ==
    ASSUME NEW tab, IsTab(tab), NEW result
    PROVE  IsTab(Settled(tab, result)) /\ AsTold(Settled(tab, result), tab)
  BY DEF IsTab, Settled, AsTold

LEMMA LoadKnows ==
    ASSUME NEW tab, IsTab(tab)
    PROVE  /\ IsTab(Load(tab)) /\ Load(tab).known = store.rev /\ SameWrite(Load(tab), tab)
           /\ IsTab(LoadLatest(tab)) /\ LoadLatest(tab).known = store.rev
           /\ SameWrite(LoadLatest(tab), tab)
  BY DEF IsTab, Load, LoadLatest, Knows, SameWrite

LEMMA ToldKeeps ==
    ASSUME NEW tab, IsTab(tab), NEW pid
    PROVE  LET new == [tab EXCEPT !.told = @ \cup {pid}]
           IN IsTab(new) /\ new.told # {}
  BY DEF IsTab

LEMMA KnownKeeps ==
    ASSUME NEW tab, IsTab(tab), NEW rev
    PROVE  /\ IsTab(Knows(tab, rev)) /\ Knows(tab, rev).known = rev
           /\ SameWrite(Knows(tab, rev), tab)
  BY DEF IsTab, Knows, SameWrite

-----------------------------------------------------------------------------
(* The ways the pages change *)

LEMMA BecomesAsTold ==
    ASSUME ToldInv, NEW t \in Tab, NEW tab, IsTab(tab), AsTold(tab, tabs[t]),
           Become(t, tab), store' = store, untold' = untold
    PROVE  ToldInv'
  BY DEF ToldInv, TabsShape, TabIsTold, WriterIsTold, AsTold, Become, IsTab

LEMMA BecomesCurrent ==
    ASSUME ToldInv, NEW t \in Tab, NEW tab, IsTab(tab), tab.known = store.rev,
           tab.wrote = None \/ SameWrite(tab, tabs[t]),
           Become(t, tab), store' = store, untold' = untold
    PROVE  ToldInv'
  BY DEF ToldInv, TabsShape, TabIsTold, WriterIsTold, SameWrite, Become, IsTab

LEMMA BecomesDeaf ==
    ASSUME ToldInv, NEW t \in Tab, NEW tab, IsTab(tab), tab.deaf, tab.wrote = None,
           Become(t, tab), store' = store, untold' = untold
    PROVE  ToldInv'
  BY DEF ToldInv, TabsShape, TabIsTold, WriterIsTold, Become, IsTab

\* Whoever writes owes a broadcast.
LEMMA CommitOwes ==
    ASSUME ToldInv, NEW t \in Tab, NEW tab, IsTab(tab), NEW profile, NEW by,
           Commit(t, profile, tab, by)
    PROVE  ToldInv'
<1> DEFINE now == [tab EXCEPT !.wrote = store.rev + 1]
<1>1. IsTab(now)
  BY DEF IsTab
<1>2. tabs' = [tabs EXCEPT ![t] = now] /\ untold'
  BY DEF Commit, Become
<1> QED
  BY <1>1, <1>2 DEF ToldInv, TabsShape, TabIsTold, WriterIsTold, IsTab

\* Whoever is answered knows what it wrote, and the others are told.
LEMMA AnswerTells ==
    ASSUME ToldInv, NEW t \in Tab, NEW tab, IsTab(tab), SameWrite(tab, tabs[t]),
           Unanswered(tabs[t]), NEW pid, CommitAnswered(t, tab, pid), store' = store
    PROVE  ToldInv'
<1> DEFINE knowing == Knows(tab, tab.wrote)
           now == [knowing EXCEPT !.wrote = None]
<1>1. IsTab(knowing) /\ knowing.known = tab.wrote /\ SameWrite(knowing, tab)
  BY KnownKeeps
<1> HIDE DEF knowing
<1>2. IsTab(now) /\ now.known = tab.wrote /\ now.wrote = None /\ now.told = tabs[t].told
  BY <1>1 DEF IsTab, SameWrite
<1>3. tabs' = Publish([tabs EXCEPT ![t] = now], t, pid)
  BY DEF CommitAnswered, Knowing, knowing
<1> HIDE DEF now
<1>4. tabs' = [u \in Tab |-> IF u = t THEN now ELSE [tabs[u] EXCEPT !.told = @ \cup {pid}]]
  BY <1>3 DEF Publish, ToldInv, TabsShape
<1>5. \A u \in Tab : u # t => IsTab(tabs'[u]) /\ tabs'[u].told # {}
  BY <1>4, ToldKeeps DEF ToldInv, TabsShape
<1>6. tab.wrote = store.rev \/ now.told # {} \/ untold'
  BY <1>2 DEF ToldInv, WriterIsTold, SameWrite, Unanswered, CommitAnswered
<1>7. tabs' = [u \in Tab |-> tabs'[u]]
  BY <1>4
<1> QED
  BY <1>2, <1>4, <1>5, <1>6, <1>7 DEF ToldInv, TabsShape, TabIsTold, WriterIsTold

LEMMA WorkerWritesOwes ==
    ASSUME ToldInv, NEW profile, WorkerWrites(profile)
    PROVE  ToldInv'
  BY DEF ToldInv, TabsShape, TabIsTold, WriterIsTold, WorkerWrites, IsTab

LEMMA WorkerTellsAll ==
    ASSUME ToldInv, WorkerTells
    PROVE  ToldInv'
<1>1. tabs' = [u \in Tab |-> [tabs[u] EXCEPT !.told = @ \cup {store.profile.pid}]]
  BY NoneAssumption DEF WorkerTells, Publish
<1>2. \A u \in Tab : IsTab(tabs'[u]) /\ tabs'[u].told # {}
  BY <1>1, ToldKeeps DEF ToldInv, TabsShape
<1> QED
  BY <1>1, <1>2 DEF ToldInv, TabsShape, TabIsTold, WriterIsTold

LEMMA NothingTold ==
    ASSUME ToldInv, UNCHANGED <<store, tabs, untold>>
    PROVE  ToldInv'
  BY DEF ToldInv, TabsShape, TabIsTold, WriterIsTold, IsTab

-----------------------------------------------------------------------------
(* The actions of a page *)

\* A broadcast that arrives, and comes again or not.
LEMMA HearingKeepsTold ==
    ASSUME ToldInv, NEW t \in Tab, NEW pid, NEW coming, Hears(t, pid, coming)
    PROVE  ToldInv'
<1> DEFINE tab == tabs[t]
           loaded == [Load(tab) EXCEPT !.told = coming]
           deafened == [tab EXCEPT !.told = coming, !.deaf = TRUE]
<1>0. IsTab(tab) /\ tab.wrote = None
  BY DEF ToldInv, TabsShape, Hears, Unanswered
<1>1. IsTab(loaded) /\ loaded.known = store.rev /\ loaded.wrote = tab.wrote
  BY <1>0, LoadKnows DEF IsTab, SameWrite
<1>2. IsTab(deafened) /\ deafened.deaf /\ deafened.wrote = tab.wrote
  BY <1>0 DEF IsTab
<1>3. Become(t, loaded) \/ Become(t, deafened)
  BY DEF Hears
<1>4. UNCHANGED <<store, untold>>
  BY DEF Hears
<1> HIDE DEF loaded, deafened
<1> QED
  BY <1>0, <1>1, <1>2, <1>3, <1>4, BecomesCurrent, BecomesDeaf

LEMMA OpKeepsTold ==
    ASSUME ToldInv, NEW t \in Tab, NEW op, TabOp(t, op)
    PROVE  ToldInv'
<1> DEFINE tab == tabs[t]
<1>0. IsTab(tab)
  BY DEF ToldInv, TabsShape
<1>1. CASE Edit(t, op)
  BY <1>0, <1>1, PersistKeeps, BecomesAsTold DEF Edit
<1>2. CASE Rotate(t, op)
  BY <1>0, <1>2, PersistKeeps, BecomesAsTold DEF Rotate
<1>3. CASE Ask(t, op)
  <2>1. PICK flow : Become(t, [tab EXCEPT !.flow = flow]) /\ UNCHANGED <<store, untold>>
    BY <1>3 DEF Ask
  <2>2. IsTab([tab EXCEPT !.flow = flow]) /\ AsTold([tab EXCEPT !.flow = flow], tab)
    BY <1>0 DEF IsTab, AsTold
  <2> QED
    BY <2>1, <2>2, BecomesAsTold
<1>4. CASE BookmarksRead(t, op)
  <2>1. PICK flow : Become(t, [tab EXCEPT !.flow = flow]) /\ UNCHANGED <<store, untold>>
    BY <1>4 DEF BookmarksRead
  <2>2. IsTab([tab EXCEPT !.flow = flow]) /\ AsTold([tab EXCEPT !.flow = flow], tab)
    BY <1>0 DEF IsTab, AsTold
  <2> QED
    BY <2>1, <2>2, BecomesAsTold
<1>5. CASE HeardTwice(t, op)
  BY <1>5, HearingKeepsTold DEF HeardTwice
<1> QED
  BY <1>1, <1>2, <1>3, <1>4, <1>5 DEF TabOp

\* A save that is committed, answered or refused.
LEMMA SaveKeepsTold ==
    ASSUME ToldInv, NEW t \in Tab, NEW scope,
           SaveCall(t) \/ SaveCommit(t, scope) \/ SaveAnswered(t) \/ SaveRefused(t, scope)
    PROVE  ToldInv'
<1>0. IsTab(tabs[t])
  BY DEF ToldInv, TabsShape
<1>1. CASE SaveCall(t)
  <2>1. LET tab == [tabs[t] EXCEPT !.call = tabs[t].known] IN IsTab(tab) /\ AsTold(tab, tabs[t])
    BY <1>0 DEF IsTab, AsTold
  <2> QED
    BY <1>1, <2>1, BecomesAsTold DEF SaveCall
<1>2. CASE SaveCommit(t, scope)
  <2>1. IsTab([tabs[t] EXCEPT !.call = None])
    BY <1>0 DEF IsTab
  <2> QED
    BY <1>2, <2>1, CommitOwes DEF SaveCommit
<1>3. CASE SaveAnswered(t)
  BY <1>0, <1>3, SettledKeeps, AnswerTells DEF SaveAnswered, AsTold, SameWrite
<1>4. CASE SaveRefused(t, scope)
  BY <1>0, <1>4, SettledKeeps, BecomesAsTold DEF SaveRefused
<1> QED
  BY <1>1, <1>2, <1>3, <1>4

\* An invalidation that arrives, and the effect that follows a rendering.
LEMMA InvalidationKeepsTold ==
    ASSUME ToldInv, NEW t \in Tab, Invalidated(t) \/ Effect(t)
    PROVE  ToldInv'
<1> DEFINE tab == tabs[t]
           shown == [tab EXCEPT !.ref = tab.screen]
<1>1. IsTab(shown) /\ AsTold(shown, tab)
  BY DEF IsTab, AsTold, ToldInv, TabsShape
<1>2. CASE Invalidated(t)
  BY <1>2, HearingKeepsTold DEF Invalidated
<1>3. CASE Effect(t)
  BY <1>1, <1>3, BecomesAsTold DEF Effect
<1> QED
  BY <1>2, <1>3

\* Dialogs, and the reset that follows one.
LEMMA AnswerKeepsTold ==
    ASSUME ToldInv, NEW t \in Tab, NEW scope,
           \/ Confirmed(t) \/ Cancelled(t) \/ ResetLoad(t) \/ ResetCommit(t, scope)
           \/ ResetAnswered(t)
    PROVE  ToldInv'
<1> DEFINE tab == tabs[t]
<1>0. IsTab(tab)
  BY DEF ToldInv, TabsShape
<1>1. \A flow : IsTab([tab EXCEPT !.flow = flow]) /\ AsTold([tab EXCEPT !.flow = flow], tab)
  BY <1>0 DEF IsTab, AsTold
<1>2. CASE Confirmed(t)
  <2>1. \/ Become(t, Saving(tab, tab.flow.kept))
        \/ Become(t, [tab EXCEPT !.flow = [tab.flow EXCEPT !.stage = "accepted"]])
    BY <1>2 DEF Confirmed
  <2> QED
    BY <1>0, <1>1, <1>2, <2>1, SavingKeeps, BecomesAsTold DEF Confirmed
<1>3. CASE Cancelled(t)
  BY <1>1, <1>3, BecomesAsTold DEF Cancelled
<1>4. CASE ResetLoad(t)
  <2> DEFINE knowing == Knows(tab, store.rev)
             new == [knowing EXCEPT !.blind = TRUE, !.flow.stage = "resetting",
                                    !.flow.run = store.rev, !.flow.kept.pid = store.profile.pid]
  <2>1. Become(t, new) /\ store' = store /\ untold' = untold
    BY <1>4 DEF ResetLoad
  <2>2. IsTab(knowing) /\ knowing.known = store.rev /\ SameWrite(knowing, tab)
    BY <1>0, KnownKeeps
  <2> HIDE DEF knowing
  <2>3. IsTab(new) /\ new.known = store.rev /\ SameWrite(new, tab)
    BY <2>2 DEF IsTab, SameWrite
  <2> QED
    BY <2>1, <2>3, BecomesCurrent
<1>5. CASE ResetCommit(t, scope)
  <2> DEFINE written == [tab EXCEPT !.flow = [tab.flow EXCEPT !.stage = "written"]]
  <2>1. IsTab(written)
    BY <1>1
  <2>2. \/ Commit(t, tab.flow.kept, written, "reset")
        \/ Become(t, [tab EXCEPT !.flow = None]) /\ UNCHANGED <<store, untold>>
    BY <1>5 DEF ResetCommit
  <2> QED
    BY <1>1, <2>1, <2>2, CommitOwes, BecomesAsTold
<1>6. CASE ResetAnswered(t)
  <2> DEFINE cleared == tab.flow.kept
             done == [tab EXCEPT !.ref = cleared, !.screen = cleared, !.feedback = "success", !.flow = None]
  <2>1. IsTab(done) /\ SameWrite(done, tab)
    BY <1>0 DEF IsTab, SameWrite
  <2>2. Unanswered(tab) /\ CommitAnswered(t, done, cleared.pid) /\ store' = store
    BY <1>6 DEF ResetAnswered
  <2> QED
    BY <2>1, <2>2, AnswerTells
<1> QED
  BY <1>2, <1>3, <1>4, <1>5, <1>6

\* A bookmark import loads at each of its steps.
LEMMA ImportKeepsTold ==
    ASSUME ToldInv, NEW t \in Tab, BookmarksPlan(t) \/ BookmarksSave(t) \/ BookmarksReload(t)
    PROVE  ToldInv'
<1> DEFINE now == LoadLatest(tabs[t])
<1>0. IsTab(now) /\ now.known = store.rev /\ SameWrite(now, tabs[t])
  BY LoadKnows DEF ToldInv, TabsShape
<1>1. \A flow : LET new == [now EXCEPT !.flow = flow]
                IN IsTab(new) /\ new.known = store.rev /\ SameWrite(new, tabs[t])
  BY <1>0 DEF IsTab, SameWrite
<1>2. \A profile : LET new == Saving(now, profile)
                   IN IsTab(new) /\ new.known = store.rev /\ SameWrite(new, tabs[t])
  BY <1>0, SavingKeeps DEF AsTold, SameWrite
<1>3. UNCHANGED <<store, untold>>
  BY DEF BookmarksPlan, BookmarksSave, BookmarksReload
<1>4. \/ \E flow : Become(t, [now EXCEPT !.flow = flow])
      \/ \E profile : Become(t, Saving(now, profile))
  BY DEF BookmarksPlan, BookmarksSave, BookmarksReload
<1> QED
  BY <1>1, <1>2, <1>3, <1>4, BecomesCurrent

LEMMA StepKeepsTold ==
    ASSUME ToldInv, NEW t \in Tab, NEW scope, TabStep(t, scope)
    PROVE  ToldInv'
  BY SaveKeepsTold, InvalidationKeepsTold, AnswerKeepsTold, ImportKeepsTold DEF TabStep

LEMMA ReopenedIsCurrent ==
    ASSUME ToldInv, NEW t \in Tab, Reopened(t)
    PROVE  ToldInv'
<1>1. NewTab.wrote = None
  BY DEF NewTab
<1> QED
  BY <1>1, NewTabIsTab, LoadKnows, BecomesCurrent DEF Reopened, SameWrite

-----------------------------------------------------------------------------
(* What the other parts do to the pages' revisions *)

LEMMA EndSavingTold ==
    ASSUME ToldInv, NEW t \in Tab, NEW p, EndSaving(t, p), store' = store, untold' = untold
    PROVE  ToldInv'
<1>1. CASE WriteAllowed(tabs[t])
  <2>1. Become(t, Persist(tabs[t], tabs[t].ref))
    BY <1>1 DEF EndSaving
  <2> QED
    BY <2>1, PersistKeeps, BecomesAsTold DEF ToldInv, TabsShape
<1>2. CASE ~WriteAllowed(tabs[t])
  BY <1>2, NothingTold DEF EndSaving
<1> QED
  BY <1>1, <1>2

LEMMA RememberTold ==
    ASSUME ToldInv, NEW t \in Tab, NEW auth, NEW tab, NEW profile,
           IsTab(tab), AsTold(tab, tabs[t]) \/ (tab.known = store.rev /\ SameWrite(tab, tabs[t])),
           Remember(t, auth, tab, profile), store' = store, untold' = untold
    PROVE  ToldInv'
<1>1. Become(t, Persist(tab, profile)) \/ Become(t, tab)
  BY DEF Remember
<1>2. IsTab(Persist(tab, profile)) /\ AsTold(Persist(tab, profile), tab)
  BY PersistKeeps
<1> QED
  BY <1>1, <1>2, BecomesAsTold, BecomesCurrent DEF AsTold, SameWrite

LEMMA JobStepTold ==
    ASSUME ToldInv, NEW t \in Tab, NEW c, JobStep(t, c)
    PROVE  ToldInv'
<1>0. IsTab(tabs[t])
  BY DEF ToldInv, TabsShape
<1>1. CASE ConnectAnswered(t, c)
  BY <1>1, EndSavingTold, NothingTold DEF ConnectAnswered
<1>2. CASE ConnectLeft(t, c)
  BY <1>2, NothingTold DEF ConnectLeft, tabsVars
<1>3. CASE ConnectCompleted(t, c)
  <2> DEFINE auth == [c.session EXCEPT !.pending = FALSE]
             now == Knows(tabs[t], store.rev)
  <2>1. IsTab(now) /\ now.known = store.rev /\ SameWrite(now, tabs[t])
    BY <1>0, KnownKeeps
  <2>2. AsTold(tabs[t], tabs[t])
    BY DEF AsTold
  <2>3. \/ EndSaving(t, page[t])
        \/ Remember(t, auth, tabs[t], tabs[t].ref)
        \/ Remember(t, auth, now, store.profile)
    BY <1>3 DEF ConnectCompleted
  <2>4. store' = store /\ untold' = untold
    BY <1>3 DEF ConnectCompleted
  <2> QED
    BY <1>0, <2>1, <2>2, <2>3, <2>4, EndSavingTold, RememberTold
<1>4. CASE Disconnected(t, c)
  BY <1>4, EndSavingTold DEF Disconnected
<1>5. CASE SavedToBackend(t, c)
  BY <1>5, EndSavingTold, NothingTold DEF SavedToBackend
<1>6. CASE Shown(t, c)
  BY <1>0, <1>6, LoadKnows, BecomesCurrent, NothingTold DEF Shown
<1> QED
  BY <1>1, <1>2, <1>3, <1>4, <1>5, <1>6 DEF JobStep

LEMMA JobOpTold ==
    ASSUME ToldInv, NEW t \in Tab, NEW op, JobOp(t, op)
    PROVE  ToldInv'
<1>1. CASE Resolve(t, op)
  BY <1>1, WorkerWritesOwes DEF Resolve, ResolveConflict
<1> QED
  BY <1>1, NothingTold
  DEF JobOp, Connect, Disconnect, SaveToBackend, LoadFromBackend, tabsVars

LEMMA PageOpTold ==
    ASSUME ToldInv, NEW t \in Tab, NEW op,
           Reopen(t, op) \/ RefreshResources(t, op) \/ LoadMore(t, op) \/ Backup(t, op)
    PROVE  ToldInv'
<1>1. CASE Reopen(t, op)
  BY <1>1, ReopenedIsCurrent DEF Reopen
<1> QED
  BY <1>1, NothingTold DEF RefreshResources, LoadMore, Backup, tabsVars

LEMMA JobProceedsTold ==
    ASSUME ToldInv, NEW t \in Tab,
           \/ \E strategy \in {"use-local", "use-remote"} : ConnectChosen(t, strategy)
           \/ ConnectCancelled(t) \/ ConnectReadOnly(t) \/ ConnectSaved(t)
           \/ ConflictShown(t) \/ JobEnds(t)
    PROVE  ToldInv'
<1>1. CASE ConnectReadOnly(t)
  BY <1>1, RememberTold DEF ConnectReadOnly, AsTold, ToldInv, TabsShape
<1>2. CASE ConnectSaved(t)
  BY <1>2, EndSavingTold, NothingTold DEF ConnectSaved
<1>3. CASE ConflictShown(t)
  BY <1>3, EndSavingTold, NothingTold DEF ConflictShown
<1> QED
  BY <1>1, <1>2, <1>3, NothingTold DEF ConnectChosen, ConnectCancelled, JobEnds, tabsVars

LEMMA GistTold ==
    ASSUME ToldInv, NEW t \in Tab, Overwrite(t) \/ Restore(t)
    PROVE  ToldInv'
<1>1. CASE Overwrite(t)
  BY <1>1, NothingTold DEF Overwrite, tabsVars
<1>2. CASE Restore(t)
  BY <1>2, PersistKeeps, BecomesAsTold, NothingTold DEF Restore, ToldInv, TabsShape
<1> QED
  BY <1>1, <1>2

LEMMA WorkerTold ==
    ASSUME ToldInv, NEW c, FirstStores(c) \/ Tell(c)
    PROVE  ToldInv'
<1>1. CASE FirstStores(c)
  BY <1>1, WorkerWritesOwes, NothingTold DEF FirstStores, tabsVars
<1>2. CASE Tell(c)
  BY <1>2, WorkerTellsAll, NothingTold DEF Tell, tabsVars
<1> QED
  BY <1>1, <1>2

LEMMA NextTold == ToldInv /\ [Next]_vars => ToldInv'
<1> SUFFICES ASSUME ToldInv, [Next]_vars PROVE ToldInv'
  OBVIOUS
<1>1. CASE UNCHANGED tabsVars
  BY <1>1, NothingTold DEF tabsVars
<1>2. CASE \E t \in Tab, op \in todo :
              \/ TabOp(t, op) \/ JobOp(t, op) \/ Reopen(t, op) \/ RefreshResources(t, op)
              \/ LoadMore(t, op) \/ Backup(t, op)
  BY <1>2, OpKeepsTold, JobOpTold, PageOpTold
<1>3. CASE \E t \in Tab : \/ TabStep(t, Scope)
                          \/ \E c \in calls : JobStep(t, c)
                          \/ Overwrite(t) \/ Restore(t)
  BY <1>3, StepKeepsTold, JobStepTold, GistTold
<1>4. CASE \E t \in Tab :
              \/ \E strategy \in {"use-local", "use-remote"} : ConnectChosen(t, strategy)
              \/ ConnectCancelled(t) \/ ConnectReadOnly(t) \/ ConnectSaved(t)
              \/ ConflictShown(t) \/ JobEnds(t)
  BY <1>4, JobProceedsTold
<1>5. CASE \E c \in calls : FirstStores(c) \/ Tell(c)
  BY <1>5, WorkerTold
<1>6. CASE \E t \in Tab : \E f \in page[t].flows : \E c \in calls : StartupAnswered(t, f, c)
  BY <1>6, NothingTold DEF StartupAnswered, tabsVars
<1>7. CASE \E op \in todo : BackupElsewhere(op)
  BY <1>7, NothingTold DEF BackupElsewhere, tabsVars
<1>8. CASE UNCHANGED vars
  BY <1>8, NothingTold DEF vars, tabsVars
<1> QED
  BY <1>1, <1>2, <1>3, <1>4, <1>5, <1>6, <1>7, <1>8 DEF Next

\* TabIsTold, for any number of pages, however writes, their answers and
\* broadcasts overtake one another: a page that shows an older revision has a
\* broadcast coming, unless nobody has been told of the newest one, or the page
\* was deaf to it.
THEOREM EveryTabIsTold == Spec => []TabIsTold
<1>1. Init => ToldInv
  BY ToldInit DEF Init
<1>2. ToldInv => TabIsTold
  BY DEF ToldInv
<1> QED
  BY <1>1, <1>2, NextTold, PTL DEF Spec

-----------------------------------------------------------------------------
(* What the pages do to the tokens of the session: they begin calls, and     *)
(* hear their answers                                                        *)

LEMMA JobTokens ==
    ASSUME TokensInv, NEW t \in Tab, NEW op, JobOp(t, op)
    PROVE  TokensInv'
  BY LoginBeginTokens, LogoutBeginTokens, CallBeginTokens, FirstBeginTokens
  DEF JobOp, Connect, Disconnect, SaveToBackend, Resolve, ResolveConflict, LoadFromBackend

LEMMA JobStepTokens ==
    ASSUME TokensInv, NEW t \in Tab, NEW c, JobStep(t, c)
    PROVE  TokensInv'
  BY HeardTokens
  DEF JobStep, ConnectAnswered, ConnectLeft, ConnectCompleted, Disconnected, SavedToBackend,
      Shown, Answered

LEMMA JobProceedsTokens ==
    ASSUME TokensInv, NEW t \in Tab,
           \/ \E strategy \in {"use-local", "use-remote"} : ConnectChosen(t, strategy)
           \/ ConnectCancelled(t) \/ ConnectReadOnly(t) \/ ConnectSaved(t)
           \/ ConflictShown(t) \/ JobEnds(t)
    PROVE  TokensInv'
  BY FirstBeginTokens, LogoutBeginTokens, NothingOfTheSession
  DEF ConnectChosen, ConnectCancelled, ConnectReadOnly, ConnectSaved, ConflictShown, JobEnds

LEMMA PageTokens ==
    ASSUME TokensInv, NEW t \in Tab,
           \/ \E op \in todo : \/ Reopen(t, op) \/ RefreshResources(t, op)
                               \/ LoadMore(t, op) \/ Backup(t, op)
           \/ \E f \in page[t].flows : \E c \in calls : StartupAnswered(t, f, c)
           \/ Overwrite(t) \/ Restore(t)
    PROVE  TokensInv'
<1>1. CASE \E op \in todo : Reopen(t, op)
  BY <1>1, CallBeginTokens, NothingOfTheSession DEF Reopen
<1>2. CASE \E f \in page[t].flows : \E c \in calls : StartupAnswered(t, f, c)
  BY <1>2, HeardTokens DEF StartupAnswered
<1> QED
  BY <1>1, <1>2, NothingOfTheSession DEF RefreshResources, LoadMore, Backup, Overwrite, Restore

LEMMA TellTokens ==
    ASSUME TokensInv, NEW c \in calls, Tell(c)
    PROVE  TokensInv'
<1>1. CallsInv /\ UNCHANGED <<vault, flights, families, drawn>>
  BY DEF Tell, TokensInv
<1>2. Goto(c, "done") \/ Goto(c, "failed")
  BY DEF Tell
<1>3. Unsaved
  BY <1>1, <1>2, GotoUnsaved
<1> QED
  BY <1>1, <1>3, CallsOnly

LEMMA WorkerTokens ==
    ASSUME TokensInv, NEW c \in calls, SessionStep(c) \/ FirstStores(c) \/ Tell(c)
    PROVE  TokensInv'
<1>1. CASE FirstStores(c)
  BY <1>1, FirstWriteTokens DEF FirstStores
<1> QED
  BY <1>1, SessionStepTokens, TellTokens

LEMMA NextTokens == TokensInv /\ [Next]_vars => TokensInv'
<1> SUFFICES ASSUME TokensInv, [Next]_vars PROVE TokensInv'
  OBVIOUS
<1>1. CASE UNCHANGED sessionVars
  BY <1>1, NothingOfTheSession
<1>2. CASE \E t \in Tab, op \in todo : JobOp(t, op)
  BY <1>2, JobTokens
<1>3. CASE \E t \in Tab, c \in calls : JobStep(t, c)
  BY <1>3, JobStepTokens
<1>4. CASE \E t \in Tab :
              \/ \E strategy \in {"use-local", "use-remote"} : ConnectChosen(t, strategy)
              \/ ConnectCancelled(t) \/ ConnectReadOnly(t) \/ ConnectSaved(t)
              \/ ConflictShown(t) \/ JobEnds(t)
  BY <1>4, JobProceedsTokens
<1>5. CASE \E t \in Tab :
              \/ \E op \in todo : \/ Reopen(t, op) \/ RefreshResources(t, op)
                                  \/ LoadMore(t, op) \/ Backup(t, op)
              \/ \E f \in page[t].flows : \E c \in calls : StartupAnswered(t, f, c)
              \/ Overwrite(t) \/ Restore(t)
  BY <1>5, PageTokens
<1>6. CASE \E c \in calls : SessionStep(c) \/ FirstStores(c) \/ Tell(c)
  BY <1>6, WorkerTokens
<1>7. CASE \E f \in flights : FlightStep(f)
  BY <1>7, FlightStepTokens
<1>8. CASE \E op \in todo : WorkerOp(op)
  BY <1>8, EvictTokens, TimePassesTokens DEF WorkerOp
<1>9. CASE \E op \in todo : BackupElsewhere(op)
  BY <1>9, NothingOfTheSession DEF BackupElsewhere
<1>10. CASE UNCHANGED vars
  BY <1>10, NothingOfTheSession DEF vars
<1> QED
  BY <1>1, <1>2, <1>3, <1>4, <1>5, <1>6, <1>7, <1>8, <1>9, <1>10 DEF Next

\* NeverLocksItselfOut, for any pages, scenarios and scopes: however logins,
\* refreshes, lost answers and stopped workers fall together, the backend
\* revokes a family for a replayed token only when its retry came too late.
THEOREM NoFamilyIsReplayed == Spec => []NeverLocksItselfOut
<1>1. Init => TokensInv
  BY TokensInit DEF Init
<1> QED
  BY <1>1, NextTokens, TokensEnough, PTL DEF Spec

-----------------------------------------------------------------------------
(* What a page's requests, their late answers and its jobs keep true of    *)
(* what it shows and of the refresh it believes to be running              *)

\* Records by their fields; only some of the values matter here.
IsPage(p) ==
    p \in [auth : {p.auth}, generation : {p.generation}, busy : BOOLEAN, asked : {p.asked},
           feedback : {p.feedback}, gate : {p.gate}, release : {p.release}, startup : {p.startup},
           conflict : {p.conflict}, styles : {p.styles}, web : {p.web}, official : {p.official},
           previews : {p.previews}, loading : {p.loading}, flows : {p.flows}, job : {p.job}]
IsRefresh(f) ==
    f \in [kind : {"refresh"}, generation : {f.generation}, auth : {f.auth}, stage : {f.stage},
           token : {f.token}]
IsStartup(f) ==
    f \in [kind : {"startup"}, stage : {f.stage}, op : {f.op}, auth : {f.auth}, token : {f.token}]
IsJob(j) ==
    j \in [op : {j.op}, stage : {j.stage}, session : {j.session}, offered : {j.offered}, run : {j.run}]

FlowOk(f) ==
    /\ f.kind = "refresh" => IsRefresh(f)
    /\ f.kind = "startup" => IsStartup(f)

Owned(auth, x) == x # None => auth # None /\ x = auth.gen

\* What the page shows is its session's.
Owns(p) ==
    /\ Owned(p.auth, p.styles) /\ Owned(p.auth, p.web) /\ Owned(p.auth, p.conflict)
    /\ \A x \in p.previews : Owned(p.auth, x)

Runs(p) == p.busy => \E f \in p.flows : f.kind = "refresh" /\ f.generation = p.generation

\* A page that signs in has no session; one that asks for a conflict has one.
JobOk(p) ==
    p.job # None =>
        /\ IsJob(p.job)
        /\ p.job.stage \in {"login", "asked", "first", "cancelling"} => p.auth = None
        /\ p.job.stage \in {"syncing", "asking"} => p.auth # None

Sound(p) == IsPage(p) /\ (\A f \in p.flows : FlowOk(f)) /\ Owns(p) /\ Runs(p)

PageInv(p) == Sound(p) /\ JobOk(p)

PagesInv == page = [t \in Tab |-> page[t]] /\ \A t \in Tab : PageInv(page[t])

LEMMA PagesEnough == PagesInv => ResourcesOfSession
  BY DEF PagesInv, PageInv, Sound, Owns, Owned, Runs, ResourcesOfSession

LEMMA NewPageInv == PageInv(NewPage)
<1>1. IsPage(NewPage)
  BY DEF IsPage, NewPage
<1> QED
  BY <1>1 DEF PageInv, Sound, NewPage, Owns, Owned, Runs, JobOk

LEMMA PagesFirst == PagesInit => PagesInv
  BY NewPageInv DEF PagesInit, PagesInv

LEMMA SetPageInv ==
    ASSUME PagesInv, NEW t \in Tab, NEW p, PageInv(p), SetPage(t, p)
    PROVE  PagesInv'
  BY DEF PagesInv, SetPage

LEMMA NothingOnPages ==
    ASSUME PagesInv, page' = page
    PROVE  PagesInv'
  BY DEF PagesInv

\* A page that takes over what another one shows, or less of it.
Shows(q, p) ==
    /\ q.styles \in {p.styles, None} /\ q.web \in {p.web, None} /\ q.conflict \in {p.conflict, None}
    /\ q.previews \subseteq p.previews

-----------------------------------------------------------------------------
(* The parts of a page *)

LEMMA WithoutPreviewsFields ==
    ASSUME NEW p, IsPage(p)
    PROVE  LET q == WithoutPreviews(p)
           IN /\ IsPage(q) /\ Shows(q, p) /\ q.previews = {} /\ q.auth = p.auth /\ q.flows = p.flows
              /\ q.busy = p.busy /\ q.generation = p.generation /\ q.job = p.job
              /\ q.styles = p.styles /\ q.web = p.web /\ q.conflict = p.conflict
  BY DEF IsPage, WithoutPreviews, Shows

LEMMA WithoutConflictFields ==
    ASSUME NEW p, IsPage(p)
    PROVE  LET q == WithoutConflict(p)
           IN /\ IsPage(q) /\ Shows(q, p) /\ q.conflict = None /\ q.auth = p.auth /\ q.flows = p.flows
              /\ q.busy = p.busy /\ q.generation = p.generation /\ q.job = p.job
              /\ q.styles = p.styles /\ q.web = p.web /\ q.previews = p.previews
  BY DEF IsPage, WithoutConflict, Shows

LEMMA Kept ==
    ASSUME NEW p, NEW q, PageInv(p), IsPage(q), Shows(q, p), q.auth = p.auth, q.flows = p.flows,
           q.busy = p.busy, q.generation = p.generation, q.job = p.job
    PROVE  PageInv(q)
<1>1. Owns(q)
  BY DEF PageInv, Sound, Owns, Owned, Shows
<1>2. Runs(q) /\ JobOk(q)
  BY DEF PageInv, Sound, Runs, JobOk
<1> QED
  BY <1>1, <1>2 DEF PageInv, Sound

\* Flows end, or begin; no refresh ends.
LEMMA FlowsChange ==
    ASSUME NEW p, NEW q, PageInv(p), IsPage(q), Owns(q), q.auth = p.auth,
           q.busy = p.busy, q.generation = p.generation, q.job = p.job,
           \A g \in p.flows : g.kind = "refresh" => g \in q.flows,
           \A g \in q.flows : FlowOk(g)
    PROVE  PageInv(q)
<1>1. Runs(q)
  BY DEF PageInv, Sound, Runs
<1> QED
  BY <1>1 DEF PageInv, Sound, JobOk

-----------------------------------------------------------------------------
(* A refresh *)

LEMMA StartedInv ==
    ASSUME NEW p, PageInv(p), NEW manual \in BOOLEAN
    PROVE  PageInv(Started(p, manual)) /\ Started(p, manual).auth = p.auth
           /\ Started(p, manual).job = p.job
<1> DEFINE next == p.generation + 1
           feedback == IF manual THEN "pending" ELSE p.feedback
           q == [p EXCEPT !.generation = next, !.feedback = feedback]
           flow == [kind |-> "refresh", generation |-> q.generation, auth |-> p.auth,
                    stage |-> "fetching", token |-> GateBegin(p.auth, p.gate)]
           public == [flow EXCEPT !.stage = "public"]
           r == Started(p, manual)
<1>0. IsPage(p) /\ p.busy \in BOOLEAN
  BY DEF PageInv, Sound, IsPage
<1>1. CASE p.busy
  <2>1. r = [p EXCEPT !.asked = @ \/ manual, !.feedback = feedback]
    BY <1>1 DEF Started
  <2>2. /\ IsPage(r) /\ Shows(r, p) /\ r.auth = p.auth /\ r.flows = p.flows
        /\ r.busy = p.busy /\ r.generation = p.generation /\ r.job = p.job
    BY <1>0, <2>1 DEF IsPage, Shows
  <2> QED
    BY <2>2, Kept
<1>2. CASE ~p.busy /\ p.auth = None
  <2>1. r = [WithoutPreviews(q) EXCEPT !.styles = None, !.release = GateInvalid(@), !.asked = FALSE,
                                       !.feedback = IF manual THEN "warning" ELSE @]
    BY <1>2 DEF Started
  <2>2. /\ IsPage(q) /\ Shows(q, p) /\ q.auth = p.auth /\ q.flows = p.flows /\ q.busy = p.busy
        /\ q.job = p.job
    BY <1>0 DEF IsPage, Shows
  <2> HIDE DEF q
  <2>3. /\ IsPage(WithoutPreviews(q)) /\ Shows(WithoutPreviews(q), p)
        /\ WithoutPreviews(q).auth = p.auth /\ WithoutPreviews(q).flows = p.flows
        /\ WithoutPreviews(q).busy = p.busy /\ WithoutPreviews(q).job = p.job
    BY <2>2, WithoutPreviewsFields DEF Shows
  <2>4. /\ IsPage(r) /\ Shows(r, p) /\ r.auth = p.auth /\ r.flows = p.flows
        /\ r.busy = p.busy /\ r.job = p.job
    BY <2>1, <2>3 DEF IsPage, Shows
  <2> HIDE DEF r
  <2>5. Owns(r) /\ Runs(r) /\ JobOk(r)
    BY <1>2, <2>4 DEF PageInv, Sound, Owns, Owned, Shows, Runs, JobOk
  <2> QED
    BY <2>4, <2>5 DEF PageInv, Sound, r
<1>3. FlowOk(flow) /\ flow.kind = "refresh" /\ flow.generation = next
      /\ FlowOk(public) /\ public.kind = "refresh" /\ public.generation = next
  BY <1>0 DEF FlowOk, IsRefresh, IsPage
<1>4. CASE ~p.busy /\ p.auth # None /\ Writable(p.auth)
  <2>1. r = [q EXCEPT !.busy = TRUE, !.gate = flow.token, !.previews = {},
                      !.release = GateBegin("backend", @), !.flows = @ \cup {flow}]
    BY <1>4 DEF Started
  <2> HIDE DEF flow, next
  <2>2. /\ IsPage(r) /\ Shows(r, p) /\ r.auth = p.auth /\ r.flows = p.flows \cup {flow}
        /\ r.generation = next /\ r.job = p.job
    BY <1>0, <2>1 DEF IsPage, Shows
  <2> HIDE DEF r
  <2>3. Owns(r) /\ Runs(r) /\ JobOk(r) /\ \A f \in r.flows : FlowOk(f)
    BY <1>3, <2>2 DEF PageInv, Sound, Owns, Owned, Shows, Runs, JobOk
  <2> QED
    BY <2>2, <2>3 DEF PageInv, Sound, r
<1>5. CASE ~p.busy /\ p.auth # None /\ ~Writable(p.auth)
  <2>1. r = [WithoutPreviews(q) EXCEPT !.busy = TRUE, !.styles = None, !.web = None, !.official = None,
                                       !.release = GateBegin("backend", @),
                                       !.flows = @ \cup {public}]
    BY <1>5 DEF Started
  <2> HIDE DEF public, next
  <2>2. /\ IsPage(q) /\ Shows(q, p) /\ q.auth = p.auth /\ q.flows = p.flows /\ q.busy = p.busy
        /\ q.job = p.job /\ q.generation = next
    BY <1>0 DEF IsPage, Shows
  <2> HIDE DEF q
  <2>3. /\ IsPage(WithoutPreviews(q)) /\ Shows(WithoutPreviews(q), p)
        /\ WithoutPreviews(q).auth = p.auth /\ WithoutPreviews(q).flows = p.flows
        /\ WithoutPreviews(q).generation = next /\ WithoutPreviews(q).job = p.job
    BY <2>2, WithoutPreviewsFields DEF Shows
  <2>4. /\ IsPage(r) /\ Shows(r, p) /\ r.auth = p.auth /\ r.flows = p.flows \cup {public}
        /\ r.generation = next /\ r.job = p.job
    BY <2>1, <2>3 DEF IsPage, Shows
  <2> HIDE DEF r
  <2>5. Owns(r) /\ Runs(r) /\ JobOk(r) /\ \A f \in r.flows : FlowOk(f)
    BY <1>3, <2>4 DEF PageInv, Sound, Owns, Owned, Shows, Runs, JobOk
  <2> QED
    BY <2>4, <2>5 DEF PageInv, Sound, r
<1> QED
  BY <1>0, <1>1, <1>2, <1>4, <1>5

\* The page may have been given to show what the flow brought.
LEMMA FinishedInv ==
    ASSUME NEW p, PageInv(p), NEW f, f.kind = "refresh", NEW feedback
    PROVE  PageInv(Finished(f, p, feedback))
<1> DEFINE flows == p.flows \ {f}
           q == [p EXCEPT !.flows = flows]
           said == IF p.asked \/ p.feedback = "pending" THEN feedback ELSE p.feedback
           r == [p EXCEPT !.flows = flows, !.busy = FALSE, !.asked = FALSE, !.feedback = said]
<1>0. IsPage(p) /\ \A g \in flows : FlowOk(g)
  BY DEF PageInv, Sound
<1>1. CASE f.generation # p.generation
  <2>1. Finished(f, p, feedback) = q
    BY <1>1 DEF Finished
  <2> HIDE DEF flows
  <2>2. /\ IsPage(q) /\ Shows(q, p) /\ q.auth = p.auth /\ q.flows = flows
        /\ q.busy = p.busy /\ q.generation = p.generation /\ q.job = p.job
    BY <1>0 DEF IsPage, Shows
  <2> HIDE DEF q
  <2>3. Owns(q) /\ JobOk(q)
    BY <2>2 DEF PageInv, Sound, Owns, Owned, Shows, JobOk
  <2>4. Runs(q)
    BY <1>1, <2>2 DEF PageInv, Sound, Runs, flows
  <2> QED
    BY <1>0, <2>1, <2>2, <2>3, <2>4 DEF PageInv, Sound
<1>2. CASE f.generation = p.generation
  <2>1. Finished(f, p, feedback) = r
    BY <1>2 DEF Finished
  <2> HIDE DEF flows, said
  <2>2. /\ IsPage(r) /\ Shows(r, p) /\ r.auth = p.auth /\ r.flows = flows
        /\ r.busy = FALSE /\ r.job = p.job
    BY <1>0 DEF IsPage, Shows
  <2> HIDE DEF r
  <2>3. Owns(r) /\ JobOk(r) /\ Runs(r)
    BY <2>2 DEF PageInv, Sound, Owns, Owned, Shows, JobOk, Runs
  <2> QED
    BY <1>0, <2>1, <2>2, <2>3 DEF PageInv, Sound
<1> QED
  BY <1>1, <1>2

LEMMA WithoutPreviewsInv ==
    ASSUME NEW p, PageInv(p)
    PROVE  PageInv(WithoutPreviews(p))
<1>1. IsPage(p)
  BY DEF PageInv, Sound
<1> QED
  BY <1>1, WithoutPreviewsFields, Kept

LEMMA RefreshFetchedInv ==
    ASSUME PagesInv, NEW t \in Tab, NEW f \in page[t].flows, NEW ok, RefreshFetched(t, f, ok)
    PROVE  PagesInv'
<1> DEFINE p == page[t]
           f2 == [f EXCEPT !.stage = "verifying"]
           q == [p EXCEPT !.flows = (@ \ {f}) \cup {f2}]
<1>1. PageInv(p) /\ IsPage(p) /\ f.kind = "refresh" /\ IsRefresh(f)
  BY DEF PagesInv, PageInv, Sound, RefreshFetched, FlowOk
<1>2. PageInv(RefreshFailed(f, p))
  BY <1>1, FinishedInv, WithoutPreviewsInv DEF RefreshFailed
<1>3. PageInv(Finished(f, p, p.feedback))
  BY <1>1, FinishedInv
<1>4. FlowOk(f2) /\ f2.kind = "refresh" /\ f2.generation = f.generation
  BY <1>1 DEF IsRefresh, FlowOk
<1>5. PageInv(q)
  <2> HIDE DEF f2
  <2>1. /\ IsPage(q) /\ Shows(q, p) /\ q.auth = p.auth /\ q.flows = (p.flows \ {f}) \cup {f2}
        /\ q.busy = p.busy /\ q.generation = p.generation /\ q.job = p.job
    BY <1>1 DEF IsPage, Shows
  <2> HIDE DEF q
  <2>2. Owns(q) /\ JobOk(q)
    BY <1>1, <2>1 DEF PageInv, Sound, Owns, Owned, Shows, JobOk
  <2>3. Runs(q) /\ \A g \in q.flows : FlowOk(g)
    BY <1>1, <1>4, <2>1 DEF PageInv, Sound, Runs
  <2> QED
    BY <2>1, <2>2, <2>3 DEF PageInv, Sound
<1>6. \/ SetPage(t, RefreshFailed(f, p))
      \/ SetPage(t, Finished(f, p, p.feedback))
      \/ SetPage(t, q)
  BY DEF RefreshFetched
<1> HIDE DEF q, p
<1> QED
  BY <1>2, <1>3, <1>5, <1>6, SetPageInv

LEMMA RefreshVerifiedInv ==
    ASSUME PagesInv, NEW t \in Tab, NEW f \in page[t].flows, RefreshVerified(t, f)
    PROVE  PagesInv'
<1> DEFINE p == page[t]
           n == f.auth.gen
           more == Hydration(f.auth, f.token)
           q == [p EXCEPT !.styles = n, !.web = n, !.official = n, !.flows = @ \cup {more}]
<1>1. PageInv(p) /\ IsPage(p) /\ f.kind = "refresh"
  BY DEF PagesInv, PageInv, Sound, RefreshVerified
<1>2. PageInv(Finished(f, p, p.feedback))
  BY <1>1, FinishedInv
<1>3. StillWanted(f, p) => p.auth # None /\ n = p.auth.gen
  BY DEF StillWanted, Same, Writable
<1>4. FlowOk(more)
  BY DEF FlowOk, Hydration
<1>5. StillWanted(f, p) => PageInv(q)
  <2> HIDE DEF n, more
  <2>1. /\ IsPage(q) /\ q.auth = p.auth /\ q.flows = p.flows \cup {more}
        /\ q.busy = p.busy /\ q.generation = p.generation /\ q.job = p.job
        /\ q.styles = n /\ q.web = n /\ q.conflict = p.conflict /\ q.previews = p.previews
    BY <1>1 DEF IsPage
  <2> HIDE DEF q
  <2>2. StillWanted(f, p) => Owns(q)
    BY <1>1, <1>3, <2>1 DEF PageInv, Sound, Owns, Owned
  <2>3. /\ \A g \in p.flows : g \in q.flows
        /\ \A g \in q.flows : FlowOk(g)
    BY <1>1, <1>4, <2>1 DEF PageInv, Sound
  <2> HIDE DEF p
  <2> QED
    BY <1>1, <2>1, <2>2, <2>3, FlowsChange
<1>6. \/ StillWanted(f, p) /\ SetPage(t, Finished(f, q, "success"))
      \/ SetPage(t, Finished(f, p, p.feedback))
  BY DEF RefreshVerified
<1> HIDE DEF q, p
<1>7. StillWanted(f, p) => PageInv(Finished(f, q, "success"))
  BY <1>1, <1>5, FinishedInv
<1> QED
  BY <1>2, <1>6, <1>7, SetPageInv

LEMMA PublicFetchedInv ==
    ASSUME PagesInv, NEW t \in Tab, NEW f \in page[t].flows, PublicFetched(t, f)
    PROVE  PagesInv'
<1>1. PageInv(Finished(f, page[t], "warning"))
  BY FinishedInv DEF PagesInv, PublicFetched
<1> QED
  BY <1>1, SetPageInv DEF PublicFetched

-----------------------------------------------------------------------------
(* Previews, more wallpapers, the startup sync *)

LEMMA PreviewFetchedInv ==
    ASSUME PagesInv, NEW t \in Tab, NEW f \in page[t].flows, PreviewFetched(t, f)
    PROVE  PagesInv'
<1> DEFINE p == page[t]
           images == IF IsCurrent(f.token, p.gate) /\ Same(f.auth, p.auth)
                     THEN p.previews \cup {f.auth.gen} ELSE p.previews
           q == [p EXCEPT !.flows = @ \ {f}, !.previews = images]
<1>1. PageInv(p) /\ IsPage(p) /\ f.kind = "preview"
  BY DEF PagesInv, PageInv, Sound, PreviewFetched
<1>2. \A x \in images : Owned(p.auth, x)
  BY <1>1 DEF PageInv, Sound, Owns, Owned, Same, Writable
<1> HIDE DEF images
<1>3. /\ IsPage(q) /\ q.auth = p.auth /\ q.flows = p.flows \ {f}
      /\ q.busy = p.busy /\ q.generation = p.generation /\ q.job = p.job
      /\ q.styles = p.styles /\ q.web = p.web /\ q.conflict = p.conflict /\ q.previews = images
  BY <1>1 DEF IsPage
<1>4. SetPage(t, q)
  BY DEF PreviewFetched, images
<1> HIDE DEF q, p
<1>5. Owns(q)
  BY <1>1, <1>2, <1>3 DEF PageInv, Sound, Owns
<1>6. /\ \A g \in p.flows : g.kind = "refresh" => g \in q.flows
      /\ \A g \in q.flows : FlowOk(g)
  BY <1>1, <1>3 DEF PageInv, Sound
<1>7. PageInv(q)
  BY <1>1, <1>3, <1>5, <1>6, FlowsChange
<1> QED
  BY <1>4, <1>7, SetPageInv

LEMMA MoreStartInv ==
    ASSUME PagesInv, NEW t \in Tab, MoreStart(t)
    PROVE  PagesInv'
<1> DEFINE p == page[t]
           flow == [kind |-> "more", auth |-> p.auth]
           q == [p EXCEPT !.loading = TRUE, !.flows = @ \cup {flow}]
<1>1. PageInv(p) /\ IsPage(p) /\ FlowOk(flow)
  BY DEF PagesInv, PageInv, Sound, FlowOk
<1>2. SetPage(t, q)
  BY DEF MoreStart
<1> HIDE DEF flow
<1>3. /\ IsPage(q) /\ Shows(q, p) /\ q.auth = p.auth /\ q.flows = p.flows \cup {flow}
      /\ q.busy = p.busy /\ q.generation = p.generation /\ q.job = p.job
  BY <1>1 DEF IsPage, Shows
<1> HIDE DEF q, p
<1>4. /\ Owns(q)
      /\ \A g \in p.flows : g \in q.flows
      /\ \A g \in q.flows : FlowOk(g)
  BY <1>1, <1>3 DEF PageInv, Sound, Owns, Owned, Shows
<1>5. PageInv(q)
  BY <1>1, <1>3, <1>4, FlowsChange
<1> QED
  BY <1>2, <1>5, SetPageInv

LEMMA MoreFetchedInv ==
    ASSUME PagesInv, NEW t \in Tab, NEW f \in page[t].flows, NEW ok, MoreFetched(t, f, ok)
    PROVE  PagesInv'
<1> DEFINE p == page[t]
           q == [p EXCEPT !.loading = FALSE, !.flows = @ \ {f}]
           token == PreviewToken(f.auth, q)
           n == f.auth.gen
           images == IF token = q.gate THEN q.previews ELSE {}
           more == Hydration(f.auth, token)
           r == [q EXCEPT !.web = n, !.gate = token, !.previews = images, !.flows = @ \cup {more}]
<1>1. PageInv(p) /\ IsPage(p) /\ f.kind = "more"
  BY DEF PagesInv, PageInv, Sound, MoreFetched
<1>2. /\ IsPage(q) /\ Shows(q, p) /\ q.auth = p.auth /\ q.flows = p.flows \ {f}
      /\ q.busy = p.busy /\ q.generation = p.generation /\ q.job = p.job
  BY <1>1 DEF IsPage, Shows
<1>3. \/ Same(f.auth, q.auth) /\ SetPage(t, r)
      \/ SetPage(t, q)
  BY DEF MoreFetched
<1> HIDE DEF q, p
<1>4. /\ Owns(q)
      /\ \A g \in p.flows : g.kind = "refresh" => g \in q.flows
      /\ \A g \in q.flows : FlowOk(g)
  BY <1>1, <1>2 DEF PageInv, Sound, Owns, Owned, Shows
<1>5. PageInv(q)
  BY <1>1, <1>2, <1>4, FlowsChange
<1>6. FlowOk(more)
  BY DEF FlowOk, Hydration
<1>7. Same(f.auth, q.auth) => q.auth # None /\ n = q.auth.gen
  BY DEF Same, Writable
<1>8. images \subseteq q.previews
  OBVIOUS
<1> HIDE DEF n, images, more, token
<1>9. /\ IsPage(r) /\ r.auth = q.auth /\ r.flows = q.flows \cup {more}
      /\ r.busy = q.busy /\ r.generation = q.generation /\ r.job = q.job
      /\ r.styles = q.styles /\ r.web = n /\ r.conflict = q.conflict /\ r.previews = images
  BY <1>2 DEF IsPage
<1> HIDE DEF r
<1>10. /\ Same(f.auth, q.auth) => Owns(r)
       /\ \A g \in q.flows : g \in r.flows
       /\ \A g \in r.flows : FlowOk(g)
  BY <1>4, <1>6, <1>7, <1>8, <1>9 DEF Owns, Owned
<1>11. Same(f.auth, q.auth) => PageInv(r)
  BY <1>5, <1>9, <1>10, FlowsChange
<1> QED
  BY <1>3, <1>5, <1>11, SetPageInv

LEMMA StartupSyncedInv ==
    ASSUME PagesInv, NEW t \in Tab, NEW f \in page[t].flows, NEW conflict, StartupSynced(t, f, conflict)
    PROVE  PagesInv'
<1> DEFINE p == page[t]
           f2 == [f EXCEPT !.stage = "asking"]
           more == IF conflict /\ StartupIsCurrent(f, p) THEN {f2} ELSE {}
           q == [p EXCEPT !.flows = (@ \ {f}) \cup more]
<1>1. PageInv(p) /\ IsPage(p) /\ f.kind = "startup" /\ IsStartup(f)
  BY DEF PagesInv, PageInv, Sound, FlowOk, StartupSynced
<1>2. FlowOk(f2)
  BY <1>1 DEF IsStartup, FlowOk
<1>3. \A g \in more : FlowOk(g)
  BY <1>2
<1>4. SetPage(t, q)
  BY DEF StartupSynced
<1> HIDE DEF more, f2
<1>5. /\ IsPage(q) /\ Shows(q, p) /\ q.auth = p.auth /\ q.flows = (p.flows \ {f}) \cup more
      /\ q.busy = p.busy /\ q.generation = p.generation /\ q.job = p.job
  BY <1>1 DEF IsPage, Shows
<1> HIDE DEF q, p
<1>6. /\ Owns(q)
      /\ \A g \in p.flows : g.kind = "refresh" => g \in q.flows
      /\ \A g \in q.flows : FlowOk(g)
  BY <1>1, <1>3, <1>5 DEF PageInv, Sound, Owns, Owned, Shows
<1>7. PageInv(q)
  BY <1>1, <1>5, <1>6, FlowsChange
<1> QED
  BY <1>4, <1>7, SetPageInv

LEMMA ConflictFetchedInv ==
    ASSUME PagesInv, NEW t \in Tab, NEW f \in page[t].flows, NEW ok, ConflictFetched(t, f, ok)
    PROVE  PagesInv'
<1> DEFINE p == page[t]
           met == IF ok /\ StartupIsCurrent(f, p) THEN f.auth.gen ELSE p.conflict
           q == [p EXCEPT !.flows = @ \ {f}, !.conflict = met]
<1>1. PageInv(p) /\ IsPage(p) /\ f.kind = "startup"
  BY DEF PagesInv, PageInv, Sound, ConflictFetched
<1>2. Owned(p.auth, met)
  BY <1>1 DEF PageInv, Sound, Owns, Owned, StartupIsCurrent, Same, Writable
<1>3. SetPage(t, q)
  BY DEF ConflictFetched
<1> HIDE DEF met
<1>4. /\ IsPage(q) /\ q.auth = p.auth /\ q.flows = p.flows \ {f}
      /\ q.busy = p.busy /\ q.generation = p.generation /\ q.job = p.job
      /\ q.styles = p.styles /\ q.web = p.web /\ q.conflict = met /\ q.previews = p.previews
  BY <1>1 DEF IsPage
<1> HIDE DEF q, p
<1>5. /\ Owns(q)
      /\ \A g \in p.flows : g.kind = "refresh" => g \in q.flows
      /\ \A g \in q.flows : FlowOk(g)
  BY <1>1, <1>2, <1>4 DEF PageInv, Sound, Owns
<1>6. PageInv(q)
  BY <1>1, <1>4, <1>5, FlowsChange
<1> QED
  BY <1>3, <1>6, SetPageInv

LEMMA PageStepInv ==
    ASSUME PagesInv, NEW t \in Tab, NEW f \in page[t].flows, PageStep(t, f)
    PROVE  PagesInv'
  BY RefreshFetchedInv, MoreFetchedInv, ConflictFetchedInv, RefreshVerifiedInv, PublicFetchedInv,
     PreviewFetchedInv DEF PageStep

-----------------------------------------------------------------------------
(* Sessions come and go *)

LEMMA WithoutConflictInv ==
    ASSUME NEW p, PageInv(p)
    PROVE  PageInv(WithoutConflict(p))
<1>1. IsPage(p)
  BY DEF PageInv, Sound
<1> QED
  BY <1>1, WithoutConflictFields, Kept

\* A page that signs in has shown nothing that was any session's.
LEMMA RememberedInv ==
    ASSUME NEW p, PageInv(p), p.auth = None, NEW auth
    PROVE  LET q == Remembered(p, auth) IN Sound(q) /\ q.auth = auth /\ q.job = p.job
<1> DEFINE o == WithoutPreviews(p)
           n == WithoutConflict(o)
           q == Remembered(p, auth)
<1>1. IsPage(p)
  BY DEF PageInv, Sound
<1>2. IsPage(o) /\ PageInv(o) /\ o.previews = {} /\ o.auth = p.auth /\ o.job = p.job
  BY <1>1, WithoutPreviewsInv, WithoutPreviewsFields
<1>3. /\ IsPage(n) /\ PageInv(n) /\ n.conflict = None /\ n.previews = {} /\ n.auth = None
      /\ n.job = p.job
  BY <1>2, WithoutConflictInv, WithoutConflictFields
<1>4. q = [n EXCEPT !.auth = auth, !.release = GateInvalid(@)]
  BY DEF Remembered
<1> HIDE DEF n, o
<1>5. /\ IsPage(q) /\ q.auth = auth /\ q.flows = n.flows /\ q.job = p.job
      /\ q.busy = n.busy /\ q.generation = n.generation
      /\ q.styles = n.styles /\ q.web = n.web /\ q.conflict = None /\ q.previews = {}
  BY <1>3, <1>4 DEF IsPage
<1> HIDE DEF q
<1>6. n.styles = None /\ n.web = None
  BY <1>3 DEF PageInv, Sound, Owns, Owned
<1>7. Owns(q) /\ Runs(q)
  BY <1>3, <1>5, <1>6 DEF PageInv, Sound, Owns, Owned, Runs
<1> QED
  BY <1>3, <1>5, <1>7 DEF PageInv, Sound, q

LEMMA ForgottenInv ==
    ASSUME NEW p, PageInv(p), p.job = None
    PROVE  LET q == Forgotten(p) IN PageInv(q) /\ q.job = None
<1> DEFINE o == WithoutPreviews(p)
           n == WithoutConflict(o)
           next == n.generation + 1
           q == Forgotten(p)
<1>1. IsPage(p)
  BY DEF PageInv, Sound
<1>2. IsPage(o) /\ PageInv(o) /\ o.previews = {} /\ o.job = None
  BY <1>1, WithoutPreviewsInv, WithoutPreviewsFields
<1>3. /\ IsPage(n) /\ PageInv(n) /\ n.conflict = None /\ n.previews = {} /\ n.job = None
  BY <1>2, WithoutConflictInv, WithoutConflictFields
<1>4. q = [n EXCEPT !.auth = None, !.generation = next, !.busy = FALSE, !.asked = FALSE,
                    !.release = GateInvalid(@), !.styles = None, !.web = None]
  BY DEF Forgotten
<1> HIDE DEF n, o, next
<1>5. /\ IsPage(q) /\ q.flows = n.flows /\ q.job = None /\ q.busy = FALSE
      /\ q.styles = None /\ q.web = None /\ q.conflict = None /\ q.previews = {}
  BY <1>3, <1>4 DEF IsPage
<1> HIDE DEF q
<1>6. Owns(q) /\ Runs(q) /\ JobOk(q)
  BY <1>5 DEF Owns, Owned, Runs, JobOk
<1> QED
  BY <1>3, <1>5, <1>6 DEF PageInv, Sound, q

\* A page is opened with the session that the worker tells it.
LEMMA OpenedInv ==
    ASSUME NEW auth, NEW op
    PROVE  PageInv(Opened(NewPage, auth, op))
<1> DEFINE o == [NewPage EXCEPT !.auth = auth]
           q == Started(o, FALSE)
           token == GateBegin(auth.gen, NewPage.startup)
           flow == [kind |-> "startup", stage |-> "syncing", op |-> op, auth |-> auth, token |-> token]
           r == Opened(NewPage, auth, op)
<1>1. /\ IsPage(o) /\ o.auth = auth /\ o.flows = {} /\ o.busy = FALSE /\ o.job = None
      /\ o.styles = None /\ o.web = None /\ o.conflict = None /\ o.previews = {}
  BY DEF IsPage, NewPage
<1> HIDE DEF o
<1>2. PageInv(o)
  BY <1>1 DEF PageInv, Sound, Owns, Owned, Runs, JobOk
<1>3. PageInv(q) /\ IsPage(q) /\ FlowOk(flow)
  BY <1>2, StartedInv DEF PageInv, Sound, FlowOk, IsStartup
<1>4. IF ~Writable(auth) THEN r = [q EXCEPT !.startup = GateInvalid(@)]
      ELSE r = [q EXCEPT !.startup = token, !.flows = @ \cup {flow}]
  BY DEF Opened, o
<1> HIDE DEF q, flow, token, r
<1>5. CASE ~Writable(auth)
  <2>1. /\ IsPage(r) /\ Shows(r, q) /\ r.auth = q.auth /\ r.flows = q.flows
        /\ r.busy = q.busy /\ r.generation = q.generation /\ r.job = q.job
    BY <1>3, <1>4, <1>5 DEF IsPage, Shows
  <2>2. PageInv(r)
    BY <1>3, <2>1, Kept
  <2> QED
    BY <2>2 DEF r
<1>6. CASE Writable(auth)
  <2>1. /\ IsPage(r) /\ Shows(r, q) /\ r.auth = q.auth /\ r.flows = q.flows \cup {flow}
        /\ r.busy = q.busy /\ r.generation = q.generation /\ r.job = q.job
    BY <1>3, <1>4, <1>6 DEF IsPage, Shows
  <2>2. /\ Owns(r)
        /\ \A g \in q.flows : g \in r.flows
        /\ \A g \in r.flows : FlowOk(g)
    BY <1>3, <2>1 DEF PageInv, Sound, Owns, Owned, Shows
  <2>3. PageInv(r)
    BY <1>3, <2>1, <2>2, FlowsChange
  <2> QED
    BY <2>3 DEF r
<1> QED
  BY <1>5, <1>6

-----------------------------------------------------------------------------
(* Jobs *)

\* A page goes on with another job, or none.
LEMMA JobChanges ==
    ASSUME NEW p, Sound(p), NEW q, IsPage(q), Shows(q, p), q.auth = p.auth, q.flows = p.flows,
           q.busy = p.busy, q.generation = p.generation, JobOk(q)
    PROVE  PageInv(q)
<1>1. Owns(q)
  BY DEF Sound, Owns, Owned, Shows
<1>2. Runs(q)
  BY DEF Sound, Runs
<1> QED
  BY <1>1, <1>2 DEF PageInv, Sound

-----------------------------------------------------------------------------
(* The jobs of a page, and what it shows *)

LEMMA IdledInv ==
    ASSUME NEW p, PageInv(p)
    PROVE  PageInv(Idled(p))
<1>1. LET q == Idled(p)
      IN /\ IsPage(q) /\ Shows(q, p) /\ q.auth = p.auth /\ q.flows = p.flows
         /\ q.busy = p.busy /\ q.generation = p.generation /\ JobOk(q)
  BY DEF PageInv, Sound, IsPage, Shows, Idled, JobOk
<1> QED
  BY <1>1, JobChanges DEF PageInv

LEMMA JobInv ==
    ASSUME NEW p, PageInv(p), NEW op, NEW stage,
           stage \in {"login", "asked", "first", "cancelling"} => p.auth = None,
           stage \in {"syncing", "asking"} => p.auth # None
    PROVE  PageInv(Job(p, op, stage))
<1> DEFINE job == [op |-> op, stage |-> stage, session |-> None, offered |-> {}, run |-> 0]
           q == [p EXCEPT !.job = job]
<1>1. IsJob(job) /\ job.stage = stage
  BY DEF IsJob
<1>2. Job(p, op, stage) = q
  BY DEF Job
<1> HIDE DEF job
<1>3. /\ IsPage(q) /\ Shows(q, p) /\ q.auth = p.auth /\ q.flows = p.flows
      /\ q.busy = p.busy /\ q.generation = p.generation /\ q.job = job
  BY DEF PageInv, Sound, IsPage, Shows
<1> HIDE DEF q
<1>4. JobOk(q)
  BY <1>1, <1>3 DEF JobOk
<1> QED
  BY <1>2, <1>3, <1>4, JobChanges DEF PageInv

\* The job of a page goes to another stage; it may take a run, a session or
\* another offer along.
LEMMA StageInv ==
    ASSUME NEW p, Sound(p), IsJob(p.job), NEW stage, NEW run, NEW session, NEW offered,
           stage \in {"login", "asked", "first", "cancelling"} => p.auth = None,
           stage \in {"syncing", "asking"} => p.auth # None
    PROVE  /\ PageInv([p EXCEPT !.job.stage = stage])
           /\ PageInv([p EXCEPT !.job.stage = stage, !.job.run = run])
           /\ PageInv([p EXCEPT !.job.stage = stage, !.job.offered = offered])
           /\ PageInv([p EXCEPT !.job.stage = stage, !.job.session = session, !.job.offered = offered])
           /\ PageInv([p EXCEPT !.job.stage = stage, !.job.offered = offered, !.job.run = run])
<1> DEFINE Goes(q) ==
               /\ IsPage(q) /\ Shows(q, p) /\ q.auth = p.auth /\ q.flows = p.flows
               /\ q.busy = p.busy /\ q.generation = p.generation
               /\ IsJob(q.job) /\ q.job.stage = stage
<1>1. ASSUME NEW q, Goes(q) PROVE PageInv(q)
  <2>1. JobOk(q)
    BY <1>1 DEF JobOk
  <2> QED
    BY <1>1, <2>1, JobChanges
<1>2. Goes([p EXCEPT !.job.stage = stage])
  BY DEF Sound, IsPage, IsJob, Shows
<1>3. Goes([p EXCEPT !.job.stage = stage, !.job.run = run])
  BY DEF Sound, IsPage, IsJob, Shows
<1>4. Goes([p EXCEPT !.job.stage = stage, !.job.offered = offered])
  BY DEF Sound, IsPage, IsJob, Shows
<1>5. Goes([p EXCEPT !.job.stage = stage, !.job.session = session, !.job.offered = offered])
  BY DEF Sound, IsPage, IsJob, Shows
<1>6. Goes([p EXCEPT !.job.stage = stage, !.job.offered = offered, !.job.run = run])
  BY DEF Sound, IsPage, IsJob, Shows
<1> HIDE DEF Goes
<1> QED
  BY <1>1, <1>2, <1>3, <1>4, <1>5, <1>6

LEMMA InStage ==
    ASSUME PagesInv, NEW t \in Tab, NEW stage, Is(t, stage)
    PROVE  /\ PageInv(page[t]) /\ Sound(page[t]) /\ IsJob(page[t].job)
           /\ stage \in {"login", "asked", "first", "cancelling"} => page[t].auth = None
           /\ stage \in {"syncing", "asking"} => page[t].auth # None
  BY DEF PagesInv, PageInv, JobOk, Is

LEMMA EndSavingPages ==
    ASSUME PagesInv, NEW t \in Tab, PageInv(page[t]), page[t].job # None, EndSaving(t, page[t])
    PROVE  PagesInv'
<1>1. Sound(page[t]) /\ IsJob(page[t].job)
  BY DEF PageInv, JobOk
<1>2. PageInv([page[t] EXCEPT !.job.stage = "ending", !.job.run = tabs[t].run + 1])
  BY <1>1, StageInv
<1>3. PageInv(Idled(page[t]))
  BY IdledInv
<1> QED
  BY <1>2, <1>3, SetPageInv DEF EndSaving

LEMMA RememberPages ==
    ASSUME PagesInv, NEW t \in Tab, Is(t, "asked") \/ Is(t, "first"),
           NEW auth, NEW tab, NEW profile, Remember(t, auth, tab, profile)
    PROVE  PagesInv'
<1> DEFINE q == Remembered(page[t], auth)
           run == tab.run + 1
<1>1. PageInv(page[t]) /\ page[t].auth = None /\ IsJob(page[t].job)
  BY InStage
<1>2. Sound(q) /\ q.job = page[t].job
  BY <1>1, RememberedInv
<1>3. \/ SetPage(t, [q EXCEPT !.job.stage = "saving", !.job.offered = {}, !.job.run = run])
      \/ SetPage(t, Idled(q))
  BY DEF Remember
<1> HIDE DEF q, run
<1>4. PageInv([q EXCEPT !.job.stage = "saving", !.job.offered = {}, !.job.run = run])
  BY <1>1, <1>2, StageInv
<1>5. PageInv(Idled(q))
  <2>1. LET r == Idled(q)
        IN /\ IsPage(r) /\ Shows(r, q) /\ r.auth = q.auth /\ r.flows = q.flows
           /\ r.busy = q.busy /\ r.generation = q.generation /\ JobOk(r)
    BY <1>2 DEF Sound, IsPage, Shows, Idled, JobOk
  <2> QED
    BY <1>2, <2>1, JobChanges
<1> QED
  BY <1>3, <1>4, <1>5, SetPageInv

LEMMA ConnectAnsweredPages ==
    ASSUME PagesInv, NEW t \in Tab, NEW c, ConnectAnswered(t, c)
    PROVE  PagesInv'
<1> DEFINE q == WithoutConflict(page[t])
<1>1. Is(t, "login") /\ PageInv(page[t]) /\ page[t].job # None
  BY InStage DEF ConnectAnswered, Answered, Is
<1>2. Sound(q) /\ q.auth = None /\ IsJob(q.job)
  BY <1>1, InStage, WithoutConflictInv, WithoutConflictFields DEF PageInv, Sound
<1>3. \/ \E kind \in FirstConnections :
            SetPage(t, [q EXCEPT !.job.stage = "asked", !.job.session = c.session,
                                 !.job.offered = Offered(kind, c.session.scope)])
      \/ EndSaving(t, page[t])
  BY DEF ConnectAnswered
<1> HIDE DEF q
<1>4. \A kind \in FirstConnections :
         PageInv([q EXCEPT !.job.stage = "asked", !.job.session = c.session,
                           !.job.offered = Offered(kind, c.session.scope)])
  BY <1>2, StageInv
<1> QED
  BY <1>1, <1>3, <1>4, EndSavingPages, SetPageInv

LEMMA ShownPages ==
    ASSUME PagesInv, NEW t \in Tab, NEW c, Shown(t, c)
    PROVE  PagesInv'
<1> DEFINE p == page[t]
           met == IF c.kind = "call" THEN None ELSE p.conflict
           q == [p EXCEPT !.conflict = met]
<1>1. PageInv(p) /\ IsPage(p)
  BY DEF PagesInv, PageInv, Sound
<1>2. SetPage(t, Idled(q)) \/ SetPage(t, Idled(p))
  BY DEF Shown
<1>3. met \in {p.conflict, None}
  OBVIOUS
<1> HIDE DEF met, p
<1>4. /\ IsPage(q) /\ Shows(q, p) /\ q.auth = p.auth /\ q.flows = p.flows
      /\ q.busy = p.busy /\ q.generation = p.generation /\ q.job = p.job
  BY <1>1, <1>3 DEF IsPage, Shows
<1>5. PageInv(q)
  BY <1>1, <1>4, Kept
<1> QED
  BY <1>1, <1>2, <1>5, IdledInv, SetPageInv

LEMMA JobStepPages ==
    ASSUME PagesInv, NEW t \in Tab, NEW c, JobStep(t, c)
    PROVE  PagesInv'
<1>0. PageInv(page[t])
  BY DEF PagesInv
<1>1. CASE ConnectLeft(t, c)
  BY <1>0, <1>1, IdledInv, SetPageInv DEF ConnectLeft
<1>2. CASE ConnectCompleted(t, c)
  <2>1. Is(t, "first") /\ page[t].job # None
    BY <1>2 DEF ConnectCompleted, Answered, Is
  <2>2. \/ EndSaving(t, page[t])
        \/ \E auth, tab, profile : Remember(t, auth, tab, profile)
    BY <1>2 DEF ConnectCompleted
  <2> QED
    BY <1>0, <2>1, <2>2, EndSavingPages, RememberPages
<1>3. CASE Disconnected(t, c)
  BY <1>0, <1>3, EndSavingPages DEF Disconnected, Answered, Is
<1>4. CASE SavedToBackend(t, c)
  <2>1. Is(t, "syncing") /\ page[t].job # None
    BY <1>4 DEF SavedToBackend, Answered, Is
  <2>2. PageInv([page[t] EXCEPT !.job.stage = "asking"])
    BY <2>1, InStage, StageInv
  <2> QED
    BY <1>0, <1>4, <2>1, <2>2, EndSavingPages, IdledInv, SetPageInv DEF SavedToBackend
<1> QED
  BY <1>1, <1>2, <1>3, <1>4, ConnectAnsweredPages, ShownPages DEF JobStep

LEMMA JobOpPages ==
    ASSUME PagesInv, NEW t \in Tab, NEW op, JobOp(t, op)
    PROVE  PagesInv'
<1>0. PageInv(page[t])
  BY DEF PagesInv
<1>1. CASE Connect(t, op)
  BY <1>0, <1>1, JobInv, SetPageInv DEF Connect
<1>2. CASE Disconnect(t, op)
  <2>1. PageInv(Forgotten(page[t]))
    BY <1>0, <1>2, ForgottenInv DEF Disconnect, Free
  <2> QED
    BY <1>2, <2>1, JobInv, SetPageInv DEF Disconnect
<1>3. CASE SaveToBackend(t, op)
  BY <1>0, <1>3, JobInv, SetPageInv DEF SaveToBackend, Writable
<1>4. CASE Resolve(t, op)
  BY <1>0, <1>4, JobInv, SetPageInv DEF Resolve
<1>5. CASE LoadFromBackend(t, op)
  BY <1>0, <1>5, JobInv, SetPageInv DEF LoadFromBackend
<1> QED
  BY <1>1, <1>2, <1>3, <1>4, <1>5 DEF JobOp

LEMMA ConnectSavedPages ==
    ASSUME PagesInv, NEW t \in Tab, ConnectSaved(t)
    PROVE  PagesInv'
<1> DEFINE p == page[t]
           q == Started(p, FALSE)
           n == q.generation
<1>1. Is(t, "saving") /\ PageInv(p) /\ p.job # None /\ IsJob(p.job)
  BY InStage DEF ConnectSaved, Is
<1>2. PageInv(q) /\ Sound(q) /\ IsJob(q.job)
  BY <1>1, StartedInv DEF PageInv
<1>3. \/ EndSaving(t, p)
      \/ SetPage(t, Idled(q))
      \/ SetPage(t, [q EXCEPT !.job.stage = "refreshing", !.job.run = n])
  BY DEF ConnectSaved
<1> HIDE DEF q, n
<1>4. PageInv([q EXCEPT !.job.stage = "refreshing", !.job.run = n])
  BY <1>2, StageInv
<1> QED
  BY <1>1, <1>2, <1>3, <1>4, EndSavingPages, IdledInv, SetPageInv

LEMMA ConflictShownPages ==
    ASSUME PagesInv, NEW t \in Tab, ConflictShown(t)
    PROVE  PagesInv'
<1> DEFINE p == page[t]
           met == p.auth.gen
           q == [p EXCEPT !.conflict = met]
<1>1. PageInv(p) /\ IsPage(p) /\ p.job # None /\ p.auth # None
  BY InStage DEF ConflictShown, Is, PageInv, Sound
<1>2. SetPage(t, Idled(q)) \/ EndSaving(t, p)
  BY DEF ConflictShown
<1>3. Owned(p.auth, met)
  BY <1>1 DEF Owned
<1> HIDE DEF met
<1>4. /\ IsPage(q) /\ q.auth = p.auth /\ q.flows = p.flows
      /\ q.busy = p.busy /\ q.generation = p.generation /\ q.job = p.job
      /\ q.styles = p.styles /\ q.web = p.web /\ q.conflict = met /\ q.previews = p.previews
  BY <1>1 DEF IsPage
<1> HIDE DEF q
<1>5. PageInv(q)
  BY <1>1, <1>3, <1>4 DEF PageInv, Sound, Owns, Runs, JobOk
<1> QED
  BY <1>1, <1>2, <1>5, EndSavingPages, IdledInv, SetPageInv

LEMMA JobProceedsPages ==
    ASSUME PagesInv, NEW t \in Tab,
           \/ \E strategy \in {"use-local", "use-remote"} : ConnectChosen(t, strategy)
           \/ ConnectCancelled(t) \/ ConnectReadOnly(t) \/ ConnectSaved(t)
           \/ ConflictShown(t) \/ JobEnds(t)
    PROVE  PagesInv'
<1>1. CASE \E strategy \in {"use-local", "use-remote"} : ConnectChosen(t, strategy)
  BY <1>1, InStage, StageInv, SetPageInv DEF ConnectChosen
<1>2. CASE ConnectCancelled(t)
  BY <1>2, InStage, StageInv, SetPageInv DEF ConnectCancelled
<1>3. CASE ConnectReadOnly(t)
  BY <1>3, RememberPages DEF ConnectReadOnly
<1>4. CASE JobEnds(t)
  BY <1>4, IdledInv, SetPageInv DEF JobEnds, PagesInv
<1> QED
  BY <1>1, <1>2, <1>3, <1>4, ConnectSavedPages, ConflictShownPages

LEMMA PageOpPages ==
    ASSUME PagesInv, NEW t \in Tab, NEW op,
           Reopen(t, op) \/ RefreshResources(t, op) \/ LoadMore(t, op) \/ Backup(t, op)
    PROVE  PagesInv'
<1>1. CASE Reopen(t, op)
  BY <1>1, NewPageInv, OpenedInv, SetPageInv DEF Reopen
<1>2. CASE RefreshResources(t, op)
  BY <1>2, StartedInv, SetPageInv DEF RefreshResources, PagesInv
<1>3. CASE LoadMore(t, op)
  BY <1>3, MoreStartInv DEF LoadMore
<1>4. CASE Backup(t, op)
  BY <1>4, NothingOnPages DEF Backup
<1> QED
  BY <1>1, <1>2, <1>3, <1>4

LEMMA NextPages == PagesInv /\ [Next]_vars => PagesInv'
<1> SUFFICES ASSUME PagesInv, [Next]_vars PROVE PagesInv'
  OBVIOUS
<1>1. CASE page' = page
  BY <1>1, NothingOnPages
<1>2. CASE \E t \in Tab, op \in todo :
              \/ JobOp(t, op) \/ Reopen(t, op) \/ RefreshResources(t, op)
              \/ LoadMore(t, op) \/ Backup(t, op)
  BY <1>2, JobOpPages, PageOpPages
<1>3. CASE \E t \in Tab, c \in calls : JobStep(t, c)
  BY <1>3, JobStepPages
<1>4. CASE \E t \in Tab :
              \/ \E strategy \in {"use-local", "use-remote"} : ConnectChosen(t, strategy)
              \/ ConnectCancelled(t) \/ ConnectReadOnly(t) \/ ConnectSaved(t)
              \/ ConflictShown(t) \/ JobEnds(t)
  BY <1>4, JobProceedsPages
<1>5. CASE \E t \in Tab : \E f \in page[t].flows : PageStep(t, f)
  BY <1>5, PageStepInv
<1>6. CASE \E t \in Tab : \E f \in page[t].flows : \E c \in calls : StartupAnswered(t, f, c)
  BY <1>6, StartupSyncedInv DEF StartupAnswered
<1>7. CASE \E c \in calls : FirstStores(c) \/ Tell(c)
  BY <1>7, NothingOnPages DEF FirstStores, Tell
<1>8. CASE \E t \in Tab : Overwrite(t) \/ Restore(t)
  BY <1>8, NothingOnPages DEF Overwrite, Restore
<1>9. CASE \E op \in todo : BackupElsewhere(op)
  BY <1>9, NothingOnPages DEF BackupElsewhere
<1>10. CASE UNCHANGED vars
  BY <1>10, NothingOnPages DEF vars
<1> QED
  BY <1>1, <1>2, <1>3, <1>4, <1>5, <1>6, <1>7, <1>8, <1>9, <1>10 DEF Next

\* ResourcesOfSession, for any pages, scenarios and scopes: whatever arrives
\* late, a page shows only what is its session's, and believes a refresh to be
\* running only while one is.
THEOREM PagesShowTheirOwn == Spec => []ResourcesOfSession
<1>1. Init => PagesInv
  BY PagesFirst DEF Init
<1> QED
  BY <1>1, NextPages, PagesEnough, PTL DEF Spec

-----------------------------------------------------------------------------
(* Queues *)

IsSeq(q) == \E S : q \in Seq(S)

LEMMA AppendIsSeq ==
    ASSUME NEW q, IsSeq(q), NEW e
    PROVE  /\ IsSeq(Append(q, e)) /\ Len(q) \in Nat /\ Len(Append(q, e)) = Len(q) + 1
           /\ \A i \in 1 .. Len(q) : Append(q, e)[i] = q[i]
           /\ Append(q, e)[Len(q) + 1] = e
<1>1. PICK S : q \in Seq(S)
  BY DEF IsSeq
<1> DEFINE T == S \cup {e}
<1>2. q \in Seq(T)
  BY <1>1
<1>3. Append(q, e) \in Seq(T)
  BY <1>2
<1> QED
  BY <1>1, <1>3 DEF IsSeq

LEMMA TailIsSeq ==
    ASSUME NEW q, IsSeq(q), q # <<>>
    PROVE  /\ IsSeq(Tail(q)) /\ Len(q) \in Nat \ {0} /\ Len(Tail(q)) = Len(q) - 1
           /\ Head(q) = q[1]
           /\ \A i \in 1 .. Len(q) - 1 : Tail(q)[i] = q[i + 1]
  BY DEF IsSeq

(* What a page holds *)

\* A profile with edits out of W.
Fine(profile, W) == profile \in [pid : Nat, items : SUBSET W]

QueueFine(q, W) == IsSeq(q) /\ \A i \in 1 .. Len(q) : Fine(q[i].profile, W)

FlowFine(flow, W) ==
    flow # None =>
        /\ flow \in [kind : {flow.kind}, stage : {flow.stage}, kept : {flow.kept}, op : {flow.op},
                     run : {flow.run}]
        /\ Fine(flow.kept, W)
        /\ flow.kind = "bookmarks" /\ flow.stage # "reading" => flow.op \in W

Contents(tab, W) ==
    /\ IsTab(tab)
    /\ Fine(tab.ref, W) /\ Fine(tab.screen, W)
    /\ QueueFine(tab.queue, W) /\ FlowFine(tab.flow, W)

Holds(tab, W) == Contents(tab, W) /\ (tab.call # None => tab.queue # <<>>)

LEMMA FineMore ==
    ASSUME NEW W, NEW V, W \subseteq V
    PROVE  \A profile : Fine(profile, W) => Fine(profile, V)
  BY DEF Fine

LEMMA HoldsMore ==
    ASSUME NEW W, NEW V, W \subseteq V, NEW tab, Holds(tab, W)
    PROVE  Holds(tab, V)
  BY FineMore DEF Holds, Contents, QueueFine, FlowFine

LEMMA AppendFine ==
    ASSUME NEW W, NEW q, QueueFine(q, W), NEW e, Fine(e.profile, W)
    PROVE  QueueFine(Append(q, e), W) /\ Append(q, e) # <<>>
<1>1. \A i \in 1 .. Len(Append(q, e)) : i \in 1 .. Len(q) \/ i = Len(q) + 1
  BY AppendIsSeq DEF QueueFine
<1> QED
  BY <1>1, AppendIsSeq DEF QueueFine

LEMMA TailFine ==
    ASSUME NEW W, NEW q, QueueFine(q, W), q # <<>>
    PROVE  QueueFine(Tail(q), W) /\ Fine(Head(q).profile, W)
<1>1. \A i \in 1 .. Len(Tail(q)) : i + 1 \in 1 .. Len(q)
  BY TailIsSeq DEF QueueFine
<1> QED
  BY <1>1, TailIsSeq DEF QueueFine

LEMMA WithFine ==
    ASSUME NEW W, NEW profile, Fine(profile, W), NEW e
    PROVE  Fine(With(profile, e), W \cup {e}) /\ With(profile, e).items = profile.items \cup {e}
  BY DEF Fine, With

\* As far as revisions go, one state of a page is like another.
SameRev(tab, old) ==
    /\ tab.known = old.known /\ tab.call = old.call /\ tab.wrote = old.wrote
    /\ tab.blind = old.blind

LEMMA PersistHolds ==
    ASSUME NEW W, NEW tab, Holds(tab, W), NEW profile, Fine(profile, W)
    PROVE  /\ Holds(Persist(tab, profile), W) /\ SameRev(Persist(tab, profile), tab)
           /\ Persist(tab, profile).flow = tab.flow
<1> DEFINE save == [profile |-> profile, run |-> tab.run + 1]
           q == Append(tab.queue, save)
<1>1. QueueFine(q, W) /\ q # <<>>
  BY AppendFine DEF Holds, Contents
<1>2. Persist(tab, profile) = [tab EXCEPT !.ref = profile, !.screen = profile, !.run = @ + 1,
                                          !.feedback = "pending", !.queue = q]
  BY DEF Persist
<1> HIDE DEF q, save
<1>3. LET new == Persist(tab, profile)
      IN Contents(new, W) /\ new.queue # <<>> /\ SameRev(new, tab) /\ new.flow = tab.flow
  BY <1>1, <1>2 DEF Holds, Contents, IsTab, SameRev
<1> QED
  BY <1>3 DEF Holds

LEMMA FlowSaves ==
    ASSUME NEW W, NEW flow, FlowFine(flow, W), flow # None, flow.kind = "bookmarks" => flow.op \in W,
           NEW run
    PROVE  FlowFine([flow EXCEPT !.stage = "saving", !.run = run], W)
  BY DEF FlowFine

LEMMA SavingHolds ==
    ASSUME NEW W, NEW tab, Holds(tab, W), NEW profile, Fine(profile, W),
           tab.flow # None, tab.flow.kind = "bookmarks" => tab.flow.op \in W
    PROVE  Holds(Saving(tab, profile), W) /\ SameRev(Saving(tab, profile), tab)
<1> DEFINE p == Persist(tab, profile)
           run == tab.run + 1
           s == [p EXCEPT !.flow.stage = "saving", !.flow.run = run]
<1>1. Holds(p, W) /\ SameRev(p, tab) /\ p.flow = tab.flow
  BY PersistHolds
<1> HIDE DEF p, run
<1>2. IsTab(s) /\ s.ref = p.ref /\ s.screen = p.screen /\ s.queue = p.queue /\ SameRev(s, p)
      /\ s.flow = [p.flow EXCEPT !.stage = "saving", !.run = run]
  BY <1>1 DEF Holds, Contents, IsTab, SameRev
<1>3. FlowFine(s.flow, W)
  <2>1. FlowFine(tab.flow, W) /\ p.flow = tab.flow
    BY <1>1 DEF Holds, Contents
  <2>2. FlowFine([tab.flow EXCEPT !.stage = "saving", !.run = run], W)
    BY <2>1, FlowSaves
  <2>3. s.flow = [tab.flow EXCEPT !.stage = "saving", !.run = run]
    BY <1>2, <2>1
  <2> QED
    BY <2>2, <2>3
<1>4. Saving(tab, profile) = s
  BY DEF Saving, p, run
<1>5. s.queue # <<>>
  BY <1>2, AppendFine DEF Persist, Holds, Contents, IsTab, p
<1> QED
  BY <1>1, <1>2, <1>3, <1>4, <1>5 DEF Holds, Contents, SameRev

\* The flow of a page goes on, or ends.
LEMMA FlowHolds ==
    ASSUME NEW W, NEW tab, Holds(tab, W), NEW flow, FlowFine(flow, W)
    PROVE  LET new == [tab EXCEPT !.flow = flow] IN Holds(new, W) /\ SameRev(new, tab)
  BY DEF Holds, Contents, IsTab, SameRev

LEMMA SettledHolds ==
    ASSUME NEW W, NEW tab, Contents(tab, W), tab.queue # <<>>, NEW result
    PROVE  LET new == Settled(tab, result)
           IN /\ Contents(new, W) /\ new.known = tab.known /\ new.blind = tab.blind
              /\ new.call = None /\ new.wrote = tab.wrote
<1> DEFINE save == Head(tab.queue)
           mine == tab.flow # None /\ tab.flow.stage = "saving" /\ tab.flow.run = save.run
           feedback == IF save.run = tab.run THEN result ELSE tab.feedback
           refused == IF result = "error" THEN tab.refused \cup {save.run} ELSE tab.refused
           flow == IF ~mine THEN tab.flow
                   ELSE IF result = "error" /\ tab.flow.kind = "bookmarks"
                   THEN [tab.flow EXCEPT !.stage = "failed"] ELSE None
           q == Tail(tab.queue)
           new == [tab EXCEPT !.queue = q, !.call = None, !.feedback = feedback,
                              !.refused = refused, !.flow = flow]
<1>1. Settled(tab, result) = new
  BY DEF Settled, Contents, IsTab
<1>2. QueueFine(q, W)
  BY TailFine DEF Contents
<1>3. FlowFine(flow, W)
  BY DEF Contents, FlowFine
<1> HIDE DEF q, flow, refused, feedback, mine, save
<1>4. /\ Contents(new, W) /\ new.known = tab.known /\ new.blind = tab.blind
      /\ new.call = None /\ new.wrote = tab.wrote
  BY <1>2, <1>3 DEF Contents, IsTab
<1> HIDE DEF new
<1> QED
  BY <1>1, <1>4

-----------------------------------------------------------------------------
(* What a page knows *)

\* Somebody else has written a revision after rev.
Other(st, t, rev) == \E i \in rev + 1 .. st.rev : st.log[i] # t

KnowsRev(st, t, rev) == rev \in 0 .. st.rev /\ (rev < st.rev => Other(st, t, rev))

\* While a write is not answered, what has been written stands for what is known.
KnowsFine(st, t, tab, W) ==
    /\ ~Unanswered(tab) => KnowsRev(st, t, tab.known)
    /\ Unanswered(tab) => KnowsRev(st, t, tab.wrote) /\ tab.call # st.rev
    /\ tab.call # None => KnowsRev(st, t, tab.call)
    /\ tab.wrote = st.rev => st.profile.items \subseteq W
    /\ (tab.known = st.rev /\ ~Unanswered(tab)) \/ tab.call = st.rev
          => tab.blind \/ st.profile.items \subseteq W

StoreFine ==
    /\ store.rev \in Nat /\ IsSeq(store.log) /\ Len(store.log) = store.rev
    /\ Fine(store.profile, store.profile.items)

EditsInv ==
    /\ StoreFine
    /\ tabs = [t \in Tab |-> tabs[t]] /\ seen = [t \in Tab |-> seen[t]]
    /\ \A t \in Tab : Holds(tabs[t], seen[t]) /\ KnowsFine(store, t, tabs[t], seen[t])

LEMMA EditsInit == TabsInit => EditsInv
<1> SUFFICES ASSUME TabsInit PROVE EditsInv
  OBVIOUS
<1>1. tabs = [t \in Tab |-> NewTab] /\ seen = [t \in Tab |-> {}]
  BY DEF TabsInit
<1>2. store.rev = 0 /\ store.profile = Start /\ store.log = <<>>
  BY DEF TabsInit
<1>3. Fine(Start, {}) /\ Start.items = {}
  BY DEF Fine, Start
<1>4. IsSeq(<<>>) /\ Len(<<>>) = 0
  BY DEF IsSeq
<1>5. StoreFine
  BY <1>2, <1>3, <1>4 DEF StoreFine
<1>6. Holds(NewTab, {})
  <2>1. /\ NewTab.ref = Start /\ NewTab.screen = Start /\ NewTab.queue = <<>>
        /\ NewTab.flow = None /\ NewTab.call = None /\ NewTab.wrote = None
    BY DEF NewTab
  <2> QED
    BY <1>3, <1>4, <2>1, NewTabIsTab
    DEF Holds, Contents, QueueFine, FlowFine
<1>7. \A t \in Tab : KnowsFine(store, t, NewTab, {})
  <2>1. NewTab.known = 0 /\ NewTab.call = None /\ NewTab.wrote = None
    BY DEF NewTab
  <2> QED
    BY <1>2, <1>3, <2>1, NoneAssumption DEF KnowsFine, KnowsRev, Unanswered
<1> QED
  BY <1>1, <1>5, <1>6, <1>7 DEF EditsInv

LEMMA KnowsMore ==
    ASSUME NEW t, NEW tab, NEW W, NEW V, W \subseteq V, KnowsFine(store, t, tab, W)
    PROVE  KnowsFine(store, t, tab, V)
  BY DEF KnowsFine

LEMMA SameRevKnows ==
    ASSUME NEW t, NEW tab, NEW old, SameRev(tab, old), NEW W, KnowsFine(store, t, old, W)
    PROVE  KnowsFine(store, t, tab, W)
  BY DEF KnowsFine, SameRev, Unanswered

\* One page changes, and has perhaps seen more.
LEMMA BecomesFine ==
    ASSUME EditsInv, NEW t \in Tab, NEW tab, NEW W, Holds(tab, W), KnowsFine(store, t, tab, W),
           Become(t, tab), seen' = [seen EXCEPT ![t] = W], store' = store
    PROVE  EditsInv'
<1>1. tabs' = [u \in Tab |-> IF u = t THEN tab ELSE tabs[u]]
  BY DEF Become, EditsInv
<1>2. seen' = [u \in Tab |-> IF u = t THEN W ELSE seen[u]]
  BY DEF EditsInv
<1>3. StoreFine'
  BY DEF EditsInv, StoreFine
<1>4. ASSUME NEW u \in Tab
      PROVE  Holds(tabs'[u], seen'[u]) /\ KnowsFine(store', u, tabs'[u], seen'[u])
  BY <1>1, <1>2 DEF EditsInv, KnowsFine, KnowsRev, Other
<1> QED
  BY <1>1, <1>2, <1>3, <1>4 DEF EditsInv

LEMMA BecomesFineSame ==
    ASSUME EditsInv, NEW t \in Tab, NEW tab, Holds(tab, seen[t]), SameRev(tab, tabs[t]),
           Become(t, tab), seen' = seen, store' = store
    PROVE  EditsInv'
<1>1. seen' = [seen EXCEPT ![t] = seen[t]]
  BY DEF EditsInv
<1>2. KnowsFine(store, t, tab, seen[t])
  BY SameRevKnows DEF EditsInv
<1> QED
  BY <1>1, <1>2, BecomesFine

LEMMA NothingEdited ==
    ASSUME EditsInv, UNCHANGED <<store, tabs, seen>>
    PROVE  EditsInv'
  BY DEF EditsInv, StoreFine, KnowsFine, KnowsRev, Other

\* A page is told, and keeps all else.
LEMMA ToldHolds ==
    ASSUME NEW W, NEW tab, Holds(tab, W), NEW told
    PROVE  LET new == [tab EXCEPT !.told = told] IN Holds(new, W) /\ SameRev(new, tab)
  BY DEF Holds, Contents, IsTab, SameRev

\* Somebody else's revision is one more; nobody is at it.
LEMMA OneMore ==
    ASSUME StoreFine, NEW profile, NEW by, store' = Written(profile, by), NEW t, t # by
    PROVE  /\ \A rev : KnowsRev(store, t, rev) => KnowsRev(store', t, rev) /\ rev # store'.rev
           /\ \A tab, W : KnowsFine(store, t, tab, W) => KnowsFine(store', t, tab, W)
           /\ None # store'.rev
<1>1. /\ store'.rev = store.rev + 1 /\ store'.log[store.rev + 1] = by
      /\ store'.rev \in Nat /\ store'.rev # None
  BY AppendIsSeq, NoneAssumption DEF Written, StoreFine
<1>2. ASSUME NEW rev, KnowsRev(store, t, rev) PROVE KnowsRev(store', t, rev) /\ rev # store'.rev
  <2>1. rev \in 0 .. store.rev /\ store.rev \in Nat
    BY <1>2 DEF KnowsRev, StoreFine
  <2>2. store.rev + 1 \in rev + 1 .. store'.rev
    BY <1>1, <2>1
  <2> QED
    BY <1>1, <2>1, <2>2 DEF KnowsRev, Other
<1> QED
  BY <1>1, <1>2 DEF KnowsFine, Unanswered

LEMMA WrittenFine ==
    ASSUME StoreFine, NEW profile, NEW by, NEW W, Fine(profile, W), store' = Written(profile, by)
    PROVE  /\ StoreFine' /\ store'.profile = profile /\ store'.rev = store.rev + 1
           /\ store'.log[store'.rev] = by
<1>1. /\ store'.rev = store.rev + 1 /\ store'.profile = profile
      /\ store'.log = Append(store.log, by)
  BY DEF Written
<1>2. Fine(profile, profile.items)
  BY DEF Fine
<1> QED
  BY <1>1, <1>2, AppendIsSeq DEF StoreFine

LEMMA WorkerWritesFine ==
    ASSUME EditsInv, NEW profile, NEW W, Fine(profile, W), WorkerWrites(profile)
    PROVE  EditsInv'
<1>1. store' = Written(profile, "worker") /\ tabs' = tabs /\ seen' = seen
  BY DEF WorkerWrites
<1>2. StoreFine'
  BY <1>1, WrittenFine DEF EditsInv
<1>3. ASSUME NEW t \in Tab PROVE KnowsFine(store', t, tabs'[t], seen'[t])
  BY <1>1, OneMore, PageNames DEF EditsInv
<1> QED
  BY <1>1, <1>2, <1>3 DEF EditsInv

LEMMA WorkerTellsFine ==
    ASSUME EditsInv, WorkerTells
    PROVE  EditsInv'
<1>1. tabs' = [u \in Tab |-> [tabs[u] EXCEPT !.told = tabs[u].told \cup {store.profile.pid}]]
  BY NoneAssumption DEF WorkerTells, Publish
<1>2. store' = store /\ seen' = seen
  BY DEF WorkerTells
<1>3. ASSUME NEW u \in Tab
      PROVE  Holds(tabs'[u], seen[u]) /\ KnowsFine(store, u, tabs'[u], seen[u])
  BY <1>1, ToldHolds, SameRevKnows DEF EditsInv
<1> QED
  BY <1>1, <1>2, <1>3 DEF EditsInv, StoreFine, KnowsFine, KnowsRev, Other

\* A page has written what it had, and nobody knows it yet.
LEMMA CommitFine ==
    ASSUME EditsInv, NEW t \in Tab, NEW tab, NEW profile, NEW by,
           by = t \/ by = "reset", Fine(profile, seen[t]), Contents(tab, seen[t]),
           tab.call = None \/ (by = "reset" /\ KnowsRev(store, t, tab.call)),
           tab.call # None => tab.queue # <<>>,
           Commit(t, profile, tab, by), seen' = seen
    PROVE  EditsInv'
<1> DEFINE rev == store.rev + 1
           now == [tab EXCEPT !.wrote = rev]
<1>1. store' = Written(profile, by) /\ StoreFine' /\ store'.profile = profile /\ store'.rev = rev
  BY WrittenFine DEF Commit, EditsInv
<1>2. \A u \in Tab : u # "reset"
  BY PageNames
<1>3. tabs' = [u \in Tab |-> IF u = t THEN now ELSE tabs[u]]
  BY DEF Commit, Become, EditsInv
<1>4. rev \in Nat /\ rev # None
  BY NoneAssumption DEF EditsInv, StoreFine
<1> HIDE DEF rev
<1>5. Contents(now, seen[t]) /\ now.wrote = rev /\ now.call = tab.call
      /\ now.queue = tab.queue
  BY DEF Contents, IsTab
<1> HIDE DEF now
<1>6. Holds(now, seen[t])
  BY <1>5 DEF Holds
<1>7. ASSUME NEW u \in Tab, u # t
      PROVE  Holds(tabs'[u], seen'[u]) /\ KnowsFine(store', u, tabs'[u], seen'[u])
  <2>1. Holds(tabs[u], seen[u]) /\ KnowsFine(store, u, tabs[u], seen[u]) /\ tabs'[u] = tabs[u]
    BY <1>3, <1>7 DEF EditsInv
  <2>2. u # by
    BY <1>2, <1>7
  <2> QED
    BY <1>1, <2>1, <2>2, OneMore DEF EditsInv
<1>8. KnowsFine(store', t, now, seen[t])
  <2>1. now.call # None => KnowsRev(store', t, now.call) /\ now.call # rev
    BY <1>1, <1>2, <1>5, OneMore DEF EditsInv
  <2>2. KnowsRev(store', t, rev)
    BY <1>1, <1>4 DEF KnowsRev
  <2>3. store'.profile.items \subseteq seen'[t]
    BY <1>1 DEF Fine
  <2> QED
    BY <1>1, <1>4, <1>5, <2>1, <2>2, <2>3 DEF KnowsFine, Unanswered
<1> QED
  BY <1>1, <1>3, <1>6, <1>7, <1>8 DEF EditsInv

\* The answer: the page knows what it has written, the others are told.
LEMMA AnsweredFine ==
    ASSUME EditsInv, NEW t \in Tab, NEW tab, Contents(tab, seen[t]),
           Unanswered(tabs[t]), tab.wrote = tabs[t].wrote,
           tab.call = None \/ (tab.call = tabs[t].call /\ tab.queue # <<>>),
           NEW pid, CommitAnswered(t, tab, pid), UNCHANGED <<store, seen>>
    PROVE  EditsInv'
<1> DEFINE knowing == Knows(tab, tab.wrote)
           now == [knowing EXCEPT !.wrote = None]
<1>1. /\ Contents(knowing, seen[t]) /\ knowing.known = tab.wrote /\ knowing.call = tab.call
      /\ knowing.queue = tab.queue
  BY DEF Knows, Contents, IsTab
<1>2. tabs' = Publish([tabs EXCEPT ![t] = now], t, pid)
  BY DEF CommitAnswered, Knowing
<1> HIDE DEF knowing
<1>3. /\ Contents(now, seen[t]) /\ now.known = tab.wrote /\ now.call = tab.call
      /\ now.queue = tab.queue /\ now.wrote = None
  BY <1>1 DEF Contents, IsTab
<1> HIDE DEF now
<1>4. tabs' = [u \in Tab |-> IF u = t THEN now
                            ELSE [tabs[u] EXCEPT !.told = tabs[u].told \cup {pid}]]
  BY <1>2 DEF Publish, EditsInv
<1>5. KnowsFine(store, t, tabs[t], seen[t]) /\ store.rev # None
  BY NoneAssumption DEF EditsInv, StoreFine
<1>6. Holds(now, seen[t])
  BY <1>3 DEF Holds
<1>7. KnowsFine(store, t, now, seen[t])
  BY <1>3, <1>5 DEF KnowsFine, Unanswered
<1>8. ASSUME NEW u \in Tab, u # t
      PROVE  Holds(tabs'[u], seen[u]) /\ KnowsFine(store, u, tabs'[u], seen[u])
  BY <1>4, <1>8, ToldHolds, SameRevKnows DEF EditsInv
<1>9. store' = store /\ seen' = seen /\ tabs'[t] = now
  BY <1>4
<1>10. StoreFine'
  BY <1>9 DEF EditsInv, StoreFine
<1>11. tabs' = [u \in Tab |-> tabs'[u]] /\ seen' = [u \in Tab |-> seen'[u]]
  BY <1>4, <1>9 DEF EditsInv
<1>12. ASSUME NEW u \in Tab
       PROVE  Holds(tabs'[u], seen'[u]) /\ KnowsFine(store', u, tabs'[u], seen'[u])
  BY <1>6, <1>7, <1>8, <1>9, <1>12
<1> QED
  BY <1>10, <1>11, <1>12 DEF EditsInv

-----------------------------------------------------------------------------
(* The steps of a page *)

\* A page changes, and shows a profile.
LEMMA ShowsFine ==
    ASSUME EditsInv, NEW t \in Tab, NEW tab, NEW profile, NEW W, W = seen[t] \cup profile.items,
           Holds(tab, W), KnowsFine(store, t, tab, W),
           Become(t, tab), Sees(t, profile), store' = store
    PROVE  EditsInv'
<1>1. seen' = [seen EXCEPT ![t] = W]
  BY DEF Sees
<1> QED
  BY <1>1, BecomesFine

LEMMA ShowsFineSame ==
    ASSUME EditsInv, NEW t \in Tab, NEW tab, NEW profile, NEW W, W = seen[t] \cup profile.items,
           Holds(tab, W), SameRev(tab, tabs[t]),
           Become(t, tab), Sees(t, profile), store' = store
    PROVE  EditsInv'
<1>1. KnowsFine(store, t, tab, W)
  BY SameRevKnows, KnowsMore DEF EditsInv
<1> QED
  BY <1>1, ShowsFine

\* An edit is made on the page, and queued.
LEMMA EditedFine ==
    ASSUME EditsInv, NEW t \in Tab, NEW profile, Fine(profile, seen[t] \cup profile.items),
           Become(t, Persist(tabs[t], profile)), Sees(t, profile), store' = store
    PROVE  EditsInv'
<1> DEFINE W == seen[t] \cup profile.items
<1>1. Holds(tabs[t], W)
  BY HoldsMore DEF EditsInv
<1>2. Holds(Persist(tabs[t], profile), W) /\ SameRev(Persist(tabs[t], profile), tabs[t])
  BY <1>1, PersistHolds
<1> QED
  BY <1>2, ShowsFineSame

LEMMA LoadFine ==
    ASSUME StoreFine, NEW t, NEW tab, NEW V, Holds(tab, V), KnowsFine(store, t, tab, V),
           NEW W, W = V \cup store.profile.items
    PROVE  \A now \in {Load(tab), LoadLatest(tab)} :
               Holds(now, W) /\ KnowsFine(store, t, now, W) /\ now.flow = tab.flow
<1>1. Holds(tab, W) /\ Fine(store.profile, W)
  BY HoldsMore, FineMore DEF StoreFine
<1>2. ASSUME NEW now \in {Load(tab), LoadLatest(tab)}
      PROVE  /\ Contents(now, W) /\ now.known = store.rev /\ now.call = tab.call
             /\ now.wrote = tab.wrote /\ now.queue = tab.queue /\ now.flow = tab.flow
  BY <1>1, <1>2 DEF Load, LoadLatest, Knows, Holds, Contents, IsTab
<1>3. KnowsRev(store, t, store.rev)
  BY DEF StoreFine, KnowsRev
<1>4. store.profile.items \subseteq W
  OBVIOUS
<1>5. ASSUME NEW now \in {Load(tab), LoadLatest(tab)} PROVE KnowsFine(store, t, now, W)
  BY <1>2, <1>3, <1>4, <1>5 DEF KnowsFine, Unanswered
<1>6. ASSUME NEW now \in {Load(tab), LoadLatest(tab)} PROVE Holds(now, W)
  BY <1>1, <1>2, <1>6 DEF Holds
<1> QED
  BY <1>2, <1>5, <1>6

LEMMA HearingFine ==
    ASSUME EditsInv, NEW t \in Tab, NEW pid, NEW coming, Hears(t, pid, coming)
    PROVE  EditsInv'
<1> DEFINE tab == tabs[t]
           W == seen[t] \cup store.profile.items
           now == Load(tab)
           loaded == [now EXCEPT !.told = coming]
           deafened == [tab EXCEPT !.told = coming, !.deaf = TRUE]
<1>0. Holds(tab, seen[t]) /\ KnowsFine(store, t, tab, seen[t]) /\ StoreFine
  BY DEF EditsInv
<1>1. Holds(loaded, W) /\ KnowsFine(store, t, loaded, W)
  <2>1. Holds(now, W) /\ KnowsFine(store, t, now, W)
    BY <1>0, LoadFine DEF Hears
  <2> HIDE DEF now
  <2>2. Holds(loaded, W) /\ SameRev(loaded, now)
    BY <2>1, ToldHolds
  <2> QED
    BY <2>1, <2>2, SameRevKnows
<1>2. Holds(deafened, seen[t]) /\ SameRev(deafened, tab)
  BY <1>0 DEF Holds, Contents, IsTab, SameRev
<1>3. \/ Become(t, loaded) /\ Sees(t, store.profile)
      \/ Become(t, deafened) /\ seen' = seen
  BY DEF Hears
<1>4. store' = store
  BY DEF Hears
<1> HIDE DEF loaded, deafened
<1> QED
  BY <1>1, <1>2, <1>3, <1>4, ShowsFine, BecomesFineSame

LEMMA OpFine ==
    ASSUME EditsInv, NEW t \in Tab, NEW op, TabOp(t, op)
    PROVE  EditsInv'
<1> DEFINE tab == tabs[t]
<1>0. Holds(tab, seen[t]) /\ Fine(tab.ref, seen[t])
  BY DEF EditsInv, Holds, Contents
<1>1. ASSUME NEW W, W = seen[t] \cup With(tab.ref, op).items
      PROVE  Fine(With(tab.ref, op), W)
  BY <1>0, <1>1, WithFine DEF Fine
<1>2. CASE Edit(t, op)
  BY <1>1, <1>2, EditedFine DEF Edit
<1>3. CASE Rotate(t, op)
  BY <1>1, <1>3, EditedFine DEF Rotate
<1>4. CASE Ask(t, op)
  <2> DEFINE picked == IF op.kind = "group" THEN With(tab.ref, op)
                     ELSE [pid |-> tab.ref.pid, items |-> {op}]
             flow == [kind |-> op.kind, stage |-> "asked", kept |-> picked, op |-> op, run |-> 0]
             W == seen[t] \cup picked.items
  <2>1. Become(t, [tab EXCEPT !.flow = flow]) /\ Sees(t, picked) /\ store' = store
    BY <1>4 DEF Ask
  <2>2. Fine(picked, W) /\ op.kind # "bookmarks"
    BY <1>0, <1>1, <1>4 DEF Ask, Starts, Fine
  <2> HIDE DEF picked
  <2>3. FlowFine(flow, W)
    BY <2>2 DEF FlowFine
  <2>4. Holds(tab, W)
    BY <1>0, HoldsMore
  <2> HIDE DEF flow
  <2>5. Holds([tab EXCEPT !.flow = flow], W) /\ SameRev([tab EXCEPT !.flow = flow], tab)
    BY <2>3, <2>4, FlowHolds
  <2> QED
    BY <2>1, <2>5, ShowsFineSame
<1>5. CASE BookmarksRead(t, op)
  <2> DEFINE flow == [kind |-> op.kind, stage |-> "reading", kept |-> Start, op |-> op, run |-> 0]
  <2>1. Become(t, [tab EXCEPT !.flow = flow]) /\ seen' = seen /\ store' = store
    BY <1>5 DEF BookmarksRead
  <2>2. FlowFine(flow, seen[t])
    BY DEF FlowFine, Fine, Start
  <2> HIDE DEF flow
  <2>3. Holds([tab EXCEPT !.flow = flow], seen[t]) /\ SameRev([tab EXCEPT !.flow = flow], tab)
    BY <1>0, <2>2, FlowHolds
  <2> QED
    BY <2>1, <2>3, BecomesFineSame
<1>6. CASE HeardTwice(t, op)
  BY <1>6, HearingFine DEF HeardTwice
<1> QED
  BY <1>2, <1>3, <1>4, <1>5, <1>6 DEF TabOp

LEMMA SaveFine ==
    ASSUME EditsInv, NEW t \in Tab, NEW scope,
           SaveCall(t) \/ SaveCommit(t, scope) \/ SaveAnswered(t) \/ SaveRefused(t, scope)
    PROVE  EditsInv'
<1> DEFINE tab == tabs[t]
<1>0. Holds(tab, seen[t]) /\ KnowsFine(store, t, tab, seen[t]) /\ Contents(tab, seen[t])
  BY DEF EditsInv, Holds
<1>1. CASE SaveCall(t)
  <2> DEFINE new == [tab EXCEPT !.call = tab.known]
  <2>1. Become(t, new) /\ seen' = seen /\ store' = store /\ ~Unanswered(tab) /\ tab.queue # <<>>
    BY <1>1 DEF SaveCall
  <2>2. seen' = [seen EXCEPT ![t] = seen[t]]
    BY <2>1 DEF EditsInv
  <2>3. /\ Contents(new, seen[t]) /\ new.known = tab.known /\ new.call = tab.known
        /\ new.wrote = tab.wrote /\ new.blind = tab.blind /\ new.queue = tab.queue
    BY <1>0 DEF Contents, IsTab
  <2> HIDE DEF new
  <2>4. Holds(new, seen[t])
    BY <2>1, <2>3 DEF Holds
  <2>5. KnowsFine(store, t, new, seen[t])
    BY <1>0, <2>1, <2>3 DEF KnowsFine, Unanswered
  <2> QED
    BY <2>1, <2>2, <2>4, <2>5, BecomesFine
<1>2. CASE SaveCommit(t, scope)
  <2> DEFINE new == [tab EXCEPT !.call = None]
             profile == Head(tab.queue).profile
  <2>1. Commit(t, profile, new, t) /\ seen' = seen /\ tab.call # None
    BY <1>2 DEF SaveCommit
  <2>2. tab.queue # <<>>
    BY <1>0, <2>1 DEF Holds
  <2>3. Contents(new, seen[t]) /\ new.call = None /\ new.queue = tab.queue
    BY <1>0 DEF Contents, IsTab
  <2>4. Fine(profile, seen[t])
    BY <1>0, <2>2, TailFine DEF Contents
  <2> HIDE DEF new, profile
  <2> QED
    BY <2>1, <2>2, <2>3, <2>4, CommitFine
<1>3. CASE SaveAnswered(t)
  <2> DEFINE new == Settled(tab, "success")
             profile == Head(tab.queue).profile
  <2>1. /\ CommitAnswered(t, new, profile.pid) /\ UNCHANGED <<store, seen>>
        /\ Unanswered(tab) /\ tab.queue # <<>>
    BY <1>3 DEF SaveAnswered
  <2>2. Contents(new, seen[t]) /\ new.call = None /\ new.wrote = tab.wrote
    BY <1>0, <2>1, SettledHolds
  <2> HIDE DEF new, profile
  <2> QED
    BY <2>1, <2>2, AnsweredFine
<1>4. CASE SaveRefused(t, scope)
  <2> DEFINE new == Settled(tab, "error")
  <2>1. /\ Become(t, new) /\ seen' = seen /\ store' = store /\ tab.call # None
        /\ ~Unanswered(tab)
    BY <1>4 DEF SaveRefused
  <2>2. seen' = [seen EXCEPT ![t] = seen[t]]
    BY <2>1 DEF EditsInv
  <2>3. /\ Contents(new, seen[t]) /\ new.known = tab.known /\ new.call = None
        /\ new.blind = tab.blind /\ new.wrote = tab.wrote
    BY <1>0, <2>1, SettledHolds DEF Holds
  <2> HIDE DEF new
  <2>4. Holds(new, seen[t])
    BY <2>1, <2>3 DEF Holds
  <2>5. KnowsFine(store, t, new, seen[t])
    <3>1. store.rev # None
      BY NoneAssumption DEF EditsInv, StoreFine
    <3> QED
      BY <1>0, <2>1, <2>3, <3>1 DEF KnowsFine, Unanswered
  <2> QED
    BY <2>1, <2>2, <2>4, <2>5, BecomesFine
<1> QED
  BY <1>1, <1>2, <1>3, <1>4

LEMMA InvalidationFine ==
    ASSUME EditsInv, NEW t \in Tab, Invalidated(t) \/ Effect(t)
    PROVE  EditsInv'
<1> DEFINE tab == tabs[t]
           shown == [tab EXCEPT !.ref = tab.screen]
<1>1. Holds(shown, seen[t]) /\ SameRev(shown, tab)
  BY DEF EditsInv, Holds, Contents, IsTab, SameRev
<1>2. CASE Invalidated(t)
  BY <1>2, HearingFine DEF Invalidated
<1>3. CASE Effect(t)
  <2>1. Become(t, shown) /\ seen' = seen /\ store' = store
    BY <1>3 DEF Effect
  <2> HIDE DEF shown
  <2> QED
    BY <1>1, <2>1, BecomesFineSame
<1> QED
  BY <1>2, <1>3

LEMMA AnswerFine ==
    ASSUME EditsInv, NEW t \in Tab, NEW scope,
           \/ Confirmed(t) \/ Cancelled(t) \/ ResetLoad(t) \/ ResetCommit(t, scope)
           \/ ResetAnswered(t)
    PROVE  EditsInv'
<1> DEFINE tab == tabs[t]
<1>0. /\ Holds(tab, seen[t]) /\ KnowsFine(store, t, tab, seen[t]) /\ StoreFine
      /\ FlowFine(tab.flow, seen[t]) /\ Contents(tab, seen[t])
  BY DEF EditsInv, Holds, Contents
<1>1. \A flow : FlowFine(flow, seen[t]) =>
         Holds([tab EXCEPT !.flow = flow], seen[t]) /\ SameRev([tab EXCEPT !.flow = flow], tab)
  BY <1>0, FlowHolds
<1>2. FlowFine(None, seen[t])
  BY DEF FlowFine
<1>3. CASE Confirmed(t)
  <2> DEFINE accepted == [tab.flow EXCEPT !.stage = "accepted"]
  <2>1. tab.flow # None /\ tab.flow.stage = "asked" /\ seen' = seen /\ store' = store
    BY <1>3 DEF Confirmed, Asked
  <2>2. \/ Become(t, Saving(tab, tab.flow.kept)) /\ tab.flow.kind # "bookmarks"
        \/ Become(t, [tab EXCEPT !.flow = accepted])
    BY <1>3 DEF Confirmed
  <2>3. FlowFine(accepted, seen[t]) /\ Fine(tab.flow.kept, seen[t])
    BY <1>0, <2>1 DEF FlowFine
  <2> HIDE DEF accepted
  <2> QED
    BY <1>0, <1>1, <2>1, <2>2, <2>3, SavingHolds, BecomesFineSame
<1>4. CASE Cancelled(t)
  <2>1. Become(t, [tab EXCEPT !.flow = None]) /\ seen' = seen /\ store' = store
    BY <1>4 DEF Cancelled
  <2> QED
    BY <1>1, <1>2, <2>1, BecomesFineSame
<1>5. CASE ResetLoad(t)
  <2> DEFINE picked == [tab.flow.kept EXCEPT !.pid = store.profile.pid]
             flow == [tab.flow EXCEPT !.stage = "resetting", !.run = store.rev, !.kept = picked]
             new == [tab EXCEPT !.known = store.rev, !.deaf = FALSE, !.blind = TRUE, !.flow = flow]
  <2>1. /\ tab.flow # None /\ tab.flow.kind = "reset" /\ seen' = seen /\ store' = store
        /\ ~Unanswered(tab)
    BY <1>5 DEF ResetLoad
  <2>2. Become(t, new)
    <3>1. Become(t, [Knows(tab, store.rev) EXCEPT !.blind = TRUE, !.flow.stage = "resetting",
                                !.flow.run = store.rev, !.flow.kept.pid = store.profile.pid])
      BY <1>5 DEF ResetLoad
    <3>2. tab.flow \in [kind : {tab.flow.kind}, stage : {tab.flow.stage}, kept : {tab.flow.kept},
                        op : {tab.flow.op}, run : {tab.flow.run}]
      BY <1>0, <2>1 DEF FlowFine
    <3>3. Knows(tab, store.rev) = [tab EXCEPT !.known = store.rev, !.blind = FALSE, !.deaf = FALSE]
      BY DEF Knows
    <3>4. [Knows(tab, store.rev) EXCEPT !.blind = TRUE, !.flow.stage = "resetting",
                                !.flow.run = store.rev, !.flow.kept.pid = store.profile.pid] = new
      BY <1>0, <3>2, <3>3 DEF Contents, IsTab
    <3> QED
      BY <3>1, <3>4
  <2>3. Fine(picked, seen[t])
    BY <1>0, <2>1 DEF EditsInv, StoreFine, FlowFine, Fine
  <2> HIDE DEF picked
  <2>4. FlowFine(flow, seen[t])
    BY <1>0, <2>1, <2>3 DEF FlowFine
  <2> HIDE DEF flow
  <2>5. /\ Contents(new, seen[t]) /\ new.known = store.rev /\ new.call = tab.call /\ new.blind
        /\ new.wrote = tab.wrote /\ new.queue = tab.queue
    BY <1>0, <2>4 DEF Contents, IsTab
  <2> HIDE DEF new
  <2>6. Holds(new, seen[t])
    BY <1>0, <2>5 DEF Holds
  <2>7. KnowsFine(store, t, new, seen[t])
    <3>1. store.rev # None
      BY <1>0, NoneAssumption DEF StoreFine
    <3> QED
      BY <1>0, <2>1, <2>5, <3>1 DEF KnowsFine, KnowsRev, StoreFine, Unanswered
  <2>8. seen' = [seen EXCEPT ![t] = seen[t]]
    BY <2>1 DEF EditsInv
  <2> QED
    BY <2>1, <2>2, <2>6, <2>7, <2>8, BecomesFine
<1>6. CASE ResetCommit(t, scope)
  <2> DEFINE flow == [tab.flow EXCEPT !.stage = "written"]
             written == [tab EXCEPT !.flow = flow]
  <2>1. tab.flow # None /\ seen' = seen
    BY <1>6 DEF ResetCommit, Resetting
  <2>2. \/ Commit(t, tab.flow.kept, written, "reset")
        \/ Become(t, [tab EXCEPT !.flow = None]) /\ store' = store
    BY <1>6 DEF ResetCommit
  <2>3. Fine(tab.flow.kept, seen[t])
    BY <1>0, <2>1 DEF FlowFine
  <2>4. FlowFine(flow, seen[t])
    <3>1. tab.flow.stage = "resetting"
      BY <1>6 DEF ResetCommit, Resetting
    <3> QED
      BY <1>0, <2>1, <3>1 DEF FlowFine
  <2> HIDE DEF flow
  <2>5. Contents(written, seen[t]) /\ written.call = tab.call /\ written.queue = tab.queue
    BY <1>0, <2>4 DEF Contents, IsTab
  <2> HIDE DEF written
  <2>6. written.call = None \/ (KnowsRev(store, t, written.call) /\ written.queue # <<>>)
    BY <1>0, <2>5 DEF KnowsFine, Holds
  <2> QED
    BY <1>1, <1>2, <2>1, <2>2, <2>3, <2>5, <2>6, CommitFine, BecomesFineSame
<1>7. CASE ResetAnswered(t)
  <2> DEFINE picked == tab.flow.kept
             done == [tab EXCEPT !.ref = picked, !.screen = picked, !.feedback = "success", !.flow = None]
  <2>1. tab.flow # None /\ Unanswered(tab) /\ UNCHANGED <<store, seen>>
    BY <1>7 DEF ResetAnswered, Resetting
  <2>2. CommitAnswered(t, done, picked.pid)
    BY <1>7 DEF ResetAnswered
  <2>3. Fine(picked, seen[t])
    BY <1>0, <2>1 DEF FlowFine
  <2> HIDE DEF picked
  <2>4. /\ Contents(done, seen[t]) /\ done.call = tab.call /\ done.wrote = tab.wrote
        /\ done.queue = tab.queue
    BY <1>0, <1>2, <2>3 DEF Contents, IsTab
  <2>5. done.call = None \/ done.queue # <<>>
    BY <1>0, <2>4 DEF Holds
  <2> HIDE DEF done
  <2> QED
    BY <2>1, <2>2, <2>4, <2>5, AnsweredFine
<1> QED
  BY <1>3, <1>4, <1>5, <1>6, <1>7

LEMMA ImportFine ==
    ASSUME EditsInv, NEW t \in Tab, BookmarksPlan(t) \/ BookmarksSave(t) \/ BookmarksReload(t)
    PROVE  EditsInv'
<1> DEFINE tab == tabs[t]
           flow == tab.flow
           now == LoadLatest(tab)
           W == seen[t] \cup store.profile.items
<1>0. /\ Holds(tab, seen[t]) /\ KnowsFine(store, t, tab, seen[t]) /\ StoreFine
      /\ FlowFine(flow, seen[t]) /\ flow # None /\ store' = store
  BY DEF EditsInv, Holds, Contents, BookmarksPlan, BookmarksSave, BookmarksReload
<1>1. Holds(now, W) /\ KnowsFine(store, t, now, W) /\ now.flow = flow
  BY <1>0, LoadFine
<1>2. Fine(store.profile, W)
  BY <1>0, FineMore DEF StoreFine
<1> HIDE DEF now
<1>3. ASSUME NEW V, W \subseteq V, NEW f, FlowFine(f, V)
      PROVE  Holds([now EXCEPT !.flow = f], V) /\ KnowsFine(store, t, [now EXCEPT !.flow = f], V)
  BY <1>1, <1>3, FlowHolds, HoldsMore, KnowsMore, SameRevKnows
<1>4. CASE BookmarksPlan(t)
  <2> DEFINE f == [flow EXCEPT !.stage = "asked", !.kept = store.profile]
             made == With(store.profile, flow.op)
             V == seen[t] \cup made.items
  <2>1. Become(t, [now EXCEPT !.flow = f]) /\ Sees(t, made)
    <3>1. Become(t, [now EXCEPT !.flow.stage = "asked", !.flow.kept = store.profile]) /\ Sees(t, made)
      BY <1>4 DEF BookmarksPlan, now
    <3>2. flow \in [kind : {flow.kind}, stage : {flow.stage}, kept : {flow.kept},
                    op : {flow.op}, run : {flow.run}]
      BY <1>0 DEF FlowFine
    <3> QED
      BY <1>1, <3>1, <3>2 DEF Holds, Contents, IsTab
  <2>2. made.items = store.profile.items \cup {flow.op}
    <3>1. ASSUME NEW e PROVE With(store.profile, e).items = store.profile.items \cup {e}
      <4>1. Fine(store.profile, store.profile.items)
        BY <1>0 DEF StoreFine
      <4> QED
        BY <4>1, WithFine
    <3> QED
      BY <3>1
  <2> HIDE DEF made
  <2>3. W \subseteq V /\ flow.op \in V
    BY <2>2
  <2>4. FlowFine(f, V)
    <3>1. Fine(store.profile, V)
      BY <1>2, <2>3, FineMore
    <3> HIDE DEF V, W
    <3> QED
      BY <1>0, <2>3, <3>1 DEF FlowFine
  <2>5. Holds([now EXCEPT !.flow = f], V) /\ KnowsFine(store, t, [now EXCEPT !.flow = f], V)
    BY <1>3, <2>3, <2>4
  <2> HIDE DEF f
  <2> QED
    BY <1>0, <2>1, <2>5, ShowsFine
<1>5. CASE BookmarksSave(t)
  <2> DEFINE made == With(flow.kept, flow.op)
             f == [flow EXCEPT !.stage = "failed"]
  <2>1. flow.kind = "bookmarks" /\ flow.stage = "accepted" /\ Sees(t, store.profile)
    BY <1>5 DEF BookmarksSave
  <2>2. Become(t, Saving(now, made)) \/ Become(t, [now EXCEPT !.flow = f])
    <3>1. \/ Become(t, Saving(now, made)) \/ Become(t, [now EXCEPT !.flow.stage = "failed"])
      BY <1>5 DEF BookmarksSave, now
    <3> QED
      BY <1>1, <3>1 DEF Holds, Contents, IsTab
  <2>3. flow.op \in seen[t] /\ Fine(flow.kept, seen[t])
    BY <1>0, <2>1 DEF FlowFine
  <2>4. Fine(made, W)
    <3>1. Fine(made, seen[t] \cup {flow.op})
      BY <2>3, WithFine
    <3>2. seen[t] \cup {flow.op} \subseteq W
      BY <2>3
    <3> HIDE DEF made, W
    <3> QED
      BY <3>1, <3>2, FineMore
  <2>5. FlowFine(f, W)
    BY <1>0, <2>3, FineMore DEF FlowFine
  <2> HIDE DEF f, made
  <2>6. Holds(Saving(now, made), W) /\ SameRev(Saving(now, made), now)
    BY <1>0, <1>1, <2>3, <2>4, SavingHolds
  <2>7. KnowsFine(store, t, Saving(now, made), W)
    BY <1>1, <2>6, SameRevKnows
  <2> QED
    BY <1>0, <1>3, <2>1, <2>2, <2>5, <2>6, <2>7, ShowsFine
<1>6. CASE BookmarksReload(t)
  <2>1. Become(t, [now EXCEPT !.flow = None]) /\ Sees(t, store.profile)
    BY <1>6 DEF BookmarksReload, now
  <2>2. FlowFine(None, W)
    BY DEF FlowFine
  <2> QED
    BY <1>0, <1>3, <2>1, <2>2, ShowsFine
<1> QED
  BY <1>4, <1>5, <1>6

LEMMA StepFine ==
    ASSUME EditsInv, NEW t \in Tab, NEW scope, TabStep(t, scope)
    PROVE  EditsInv'
  BY SaveFine, InvalidationFine, AnswerFine, ImportFine DEF TabStep

\* A page that is opened shows what is stored.
LEMMA ReopenedFine ==
    ASSUME EditsInv, NEW t \in Tab, Reopened(t)
    PROVE  EditsInv'
<1> DEFINE W == store.profile.items
           now == LoadLatest(NewTab)
<1>1. Become(t, now) /\ seen' = [seen EXCEPT ![t] = W] /\ store' = store
  BY DEF Reopened
<1>2. StoreFine
  BY DEF EditsInv
<1>3. Holds(now, W) /\ now.known = store.rev /\ now.call = None /\ now.wrote = None
  <2>1. /\ IsTab(now) /\ now.ref = store.profile /\ now.screen = store.profile /\ now.queue = <<>>
        /\ now.flow = None /\ now.call = None /\ now.known = store.rev /\ now.wrote = None
    BY NewTabIsTab DEF LoadLatest, Load, Knows, NewTab, IsTab
  <2>2. IsSeq(<<>>) /\ Len(<<>>) = 0
    BY DEF IsSeq
  <2> QED
    BY <1>2, <2>1, <2>2
    DEF Holds, Contents, QueueFine, FlowFine, StoreFine
<1> HIDE DEF now
<1>4. KnowsFine(store, t, now, W)
  BY <1>2, <1>3, NoneAssumption DEF KnowsFine, KnowsRev, StoreFine, Unanswered
<1> QED
  BY <1>1, <1>3, <1>4, BecomesFine

-----------------------------------------------------------------------------
(* The gists *)

GistsFine(gs) ==
    /\ IsSeq(gs)
    /\ \A i \in 1 .. Len(gs) :
          /\ gs[i] \in [profile : {gs[i].profile}, n : Nat]
          /\ Fine(gs[i].profile, gs[i].profile.items)

\* A gist that is not as it was has been written.
Later(gs, new) ==
    /\ Len(gs) \in Nat /\ Len(new) \in Nat /\ Len(gs) <= Len(new)
    /\ \A i \in 1 .. Len(gs) : gs[i].n \in Nat /\ (new[i] = gs[i] \/ (new[i].n \in Nat /\ new[i].n > gs[i].n))

AuthFine(auth, gs) == auth # None => auth \in [id : 1 .. Len(gs), hash : {auth.hash}]

RestoreFine(job, gs) ==
    /\ job \in [kind : {"restore"}, stage : {job.stage}, id : 1 .. Len(gs)]
    /\ job.stage \in {"asked", "loading"}

\* What is there is what the page had put there or loaded, or came after it looked.
Guarded(job, gs) ==
    gs[job.id].n >= job.n /\ (gs[job.id].n = job.n => gs[job.id].profile \in job.hash)

BackupFine(job, known, gs) ==
    /\ job \in [kind : {"backup"}, allow : BOOLEAN, profile : {job.profile}, n : Nat,
                id : {None} \cup 1 .. Len(gs), hash : SUBSET known,
                stage : {"writing", "checking", "asked", "verifying"}]
    /\ Fine(job.profile, job.profile.items)
    /\ job.stage # "writing" => job.id # None
    /\ job.stage = "writing" /\ job.id # None /\ ~job.allow => Guarded(job, gs)

JobFine(job, known, gs) == job # None => RestoreFine(job, gs) \/ BackupFine(job, known, gs)

GithubFine(g, gs) ==
    /\ g \in [auth : {g.auth}, job : {g.job}, known : {g.known}]
    /\ AuthFine(g.auth, gs) /\ (g.auth # None => g.auth.hash \in g.known)
    /\ JobFine(g.job, g.known, gs)

GistInv ==
    /\ GistsFine(gists) /\ AuthFine(kept, gists)
    /\ github = [t \in Tab |-> github[t]]
    /\ \A t \in Tab : GithubFine(github[t], gists)

LEMMA GistsInit == GistInit => GistInv
<1> SUFFICES ASSUME GistInit PROVE GistInv
  OBVIOUS
<1>1. gists = <<>> /\ kept = None /\ github = [t \in Tab |-> NewGithub]
  BY DEF GistInit
<1>2. GistsFine(<<>>)
  BY DEF GistsFine, IsSeq
<1>3. GithubFine(NewGithub, <<>>)
  BY DEF GithubFine, NewGithub, AuthFine, JobFine
<1> QED
  BY <1>1, <1>2, <1>3 DEF GistInv, AuthFine

LEMMA LaterFine ==
    ASSUME NEW gs, NEW new, Later(gs, new)
    PROVE  /\ \A auth : AuthFine(auth, gs) => AuthFine(auth, new)
           /\ \A g : GithubFine(g, gs) => GithubFine(g, new)
<1>1. 1 .. Len(gs) \subseteq 1 .. Len(new)
  BY DEF Later
<1>2. ASSUME NEW auth, AuthFine(auth, gs) PROVE AuthFine(auth, new)
  BY <1>1, <1>2 DEF AuthFine
<1>3. ASSUME NEW job, RestoreFine(job, gs) PROVE RestoreFine(job, new)
  BY <1>1, <1>3 DEF RestoreFine
<1>4. ASSUME NEW job, NEW known, BackupFine(job, known, gs) PROVE BackupFine(job, known, new)
  <2>1. job.n \in Nat /\ job.id \in {None} \cup 1 .. Len(gs)
    BY <1>4 DEF BackupFine
  <2>2. ASSUME job.id # None, Guarded(job, gs) PROVE Guarded(job, new)
    BY <2>1, <2>2 DEF Later, Guarded
  <2>3. job \in [kind : {"backup"}, allow : BOOLEAN, profile : {job.profile}, n : Nat,
                 id : {None} \cup 1 .. Len(new), hash : SUBSET known,
                 stage : {"writing", "checking", "asked", "verifying"}]
    BY <1>1, <1>4 DEF BackupFine
  <2> QED
    BY <1>4, <2>2, <2>3 DEF BackupFine
<1> QED
  BY <1>2, <1>3, <1>4 DEF GithubFine, JobFine

\* A page's part of it changes, and perhaps a gist.
LEMMA SetFine ==
    ASSUME GistInv, NEW t \in Tab, NEW g, Set(t, g), GithubFine(g, gists'),
           Later(gists, gists'), GistsFine(gists'), AuthFine(kept', gists')
    PROVE  GistInv'
<1>1. github' = [u \in Tab |-> IF u = t THEN g ELSE github[u]]
  BY DEF Set, GistInv
<1>2. ASSUME NEW u \in Tab PROVE GithubFine(github'[u], gists')
  BY <1>1, LaterFine DEF GistInv
<1> QED
  BY <1>1, <1>2 DEF GistInv

LEMMA LaterSame == ASSUME NEW gs, GistsFine(gs) PROVE Later(gs, gs) /\ Len(gs) \in Nat
  BY DEF GistsFine, IsSeq, Later

\* The same, when no gist is written.
LEMMA SetFineOnly ==
    ASSUME GistInv, NEW t \in Tab, NEW g, Set(t, g), GithubFine(g, gists), gists' = gists,
           AuthFine(kept', gists)
    PROVE  GistInv'
<1>1. Later(gists, gists')
  BY LaterSame DEF GistInv
<1>2. GistsFine(gists') /\ AuthFine(kept', gists') /\ GithubFine(g, gists')
  BY DEF GistInv
<1> QED
  BY <1>1, <1>2, SetFine

\* A gist is written, and it is one more write of it.
LEMMA WriteFine ==
    ASSUME NEW gs, GistsFine(gs), NEW profile, Fine(profile, profile.items)
    PROVE  /\ LET new == Append(gs, [profile |-> profile, n |-> 1])
              IN GistsFine(new) /\ Later(gs, new) /\ Len(gs) + 1 \in 1 .. Len(new)
           /\ \A id \in 1 .. Len(gs) :
                 LET new == [gs EXCEPT ![id] = [profile |-> profile, n |-> @.n + 1]]
                 IN GistsFine(new) /\ Later(gs, new) /\ id \in 1 .. Len(new)
<1>1. ASSUME NEW new, new = Append(gs, [profile |-> profile, n |-> 1])
      PROVE  GistsFine(new) /\ Later(gs, new) /\ Len(gs) + 1 \in 1 .. Len(new)
  <2> DEFINE gist == [profile |-> profile, n |-> 1]
  <2>1. gist \in [profile : {gist.profile}, n : Nat] /\ Fine(gist.profile, gist.profile.items)
    OBVIOUS
  <2> HIDE DEF gist
  <2>2. /\ IsSeq(new) /\ Len(gs) \in Nat /\ Len(new) = Len(gs) + 1
        /\ \A i \in 1 .. Len(gs) : new[i] = gs[i]
        /\ new[Len(gs) + 1] = gist
    BY <1>1, AppendIsSeq DEF GistsFine, gist
  <2>3. \A i \in 1 .. Len(new) : i \in 1 .. Len(gs) \/ i = Len(gs) + 1
    BY <2>2
  <2>4. GistsFine(new)
    BY <2>1, <2>2, <2>3 DEF GistsFine
  <2>5. Later(gs, new)
    BY <2>2 DEF Later, GistsFine
  <2> QED
    BY <2>2, <2>4, <2>5
<1>2. ASSUME NEW id \in 1 .. Len(gs), NEW new,
             new = [gs EXCEPT ![id] = [profile |-> profile, n |-> @.n + 1]]
      PROVE  GistsFine(new) /\ Later(gs, new) /\ id \in 1 .. Len(new)
  <2> DEFINE gist == [profile |-> profile, n |-> gs[id].n + 1]
  <2>1. PICK S : gs \in Seq(S)
    BY DEF GistsFine, IsSeq
  <2>2. gist \in [profile : {gist.profile}, n : Nat] /\ Fine(gist.profile, gist.profile.items)
        /\ gist.n > gs[id].n /\ gs[id].n \in Nat
    BY DEF GistsFine
  <2>3. new = [gs EXCEPT ![id] = gist]
    BY <1>2
  <2> HIDE DEF gist
  <2>4. new \in Seq(S \cup {gist}) /\ Len(new) = Len(gs) /\ Len(gs) \in Nat
        /\ \A i \in 1 .. Len(gs) : new[i] = IF i = id THEN gist ELSE gs[i]
    BY <2>1, <2>3
  <2>5. GistsFine(new)
    BY <2>2, <2>4 DEF GistsFine, IsSeq
  <2>6. Later(gs, new)
    BY <2>2, <2>4 DEF Later, GistsFine
  <2> QED
    BY <2>4, <2>5, <2>6
<1> QED
  BY <1>1, <1>2

\* The job of a page is over.
LEMMA IdleFine ==
    ASSUME NEW gs, NEW g, GithubFine(g, gs)
    PROVE  /\ GithubFine(Idle(g), gs)
           /\ \A auth : AuthFine(auth, gs) =>
                 GithubFine([Idle(g) EXCEPT !.auth = auth, !.known = @ \cup {auth.hash}], gs)
  BY DEF GithubFine, Idle, JobFine, AuthFine

WithJob(g, job) == [g EXCEPT !.job = job]

LEMMA WithJobFine ==
    ASSUME NEW gs, NEW g, GithubFine(g, gs), NEW job, JobFine(job, g.known, gs),
           NEW new, new = WithJob(g, job)
    PROVE  GithubFine(new, gs)
<1>1. new.auth = g.auth /\ new.known = g.known /\ new.job = job
  BY DEF GithubFine, WithJob
<1>2. new \in [auth : {new.auth}, job : {new.job}, known : {new.known}]
  BY DEF GithubFine, WithJob
<1>3. AuthFine(new.auth, gs) /\ JobFine(new.job, new.known, gs)
  BY <1>1 DEF GithubFine
<1> QED
  BY <1>1, <1>2, <1>3 DEF GithubFine

LEMMA SaveStartFine ==
    ASSUME GistInv, NEW t \in Tab, NEW profile, Fine(profile, profile.items),
           NEW id \in {None} \cup 1 .. Len(gists), NEW allow \in BOOLEAN,
           SaveStart(t, profile, id, allow), UNCHANGED <<gists, kept>>
    PROVE  GistInv'
<1> DEFINE auth == github[t].auth
           hash == IF auth = None THEN {} ELSE {auth.hash}
           stage == IF id = None THEN "writing" ELSE "checking"
           job == [kind |-> "backup", allow |-> allow, profile |-> profile, n |-> 0, id |-> id,
                   hash |-> hash, stage |-> stage]
<1>1. Set(t, WithJob(github[t], job))
  BY DEF SaveStart, WithJob
<1>2. GithubFine(github[t], gists) /\ AuthFine(kept', gists)
  BY DEF GistInv
<1>3. BackupFine(job, github[t].known, gists)
  <2>1. hash \subseteq github[t].known
    BY <1>2 DEF GithubFine
  <2>2. stage \in {"writing", "checking"} /\ (stage = "writing" <=> id = None)
    OBVIOUS
  <2> HIDE DEF hash, stage
  <2> QED
    BY <2>1, <2>2 DEF BackupFine
<1> HIDE DEF job
<1>4. JobFine(job, github[t].known, gists)
  BY <1>3 DEF JobFine
<1>5. GithubFine(WithJob(github[t], job), gists)
  BY <1>2, <1>4, WithJobFine
<1> QED
  BY <1>1, <1>2, <1>5, SetFineOnly
LEMMA GistStepFine ==
    ASSUME GistInv, NEW t \in Tab, GistStep(t)
    PROVE  GistInv'
<1> DEFINE g == github[t]
           job == g.job
<1>0. /\ GithubFine(g, gists) /\ JobFine(job, g.known, gists) /\ GistsFine(gists)
      /\ AuthFine(kept, gists)
  BY DEF GistInv, GithubFine
<1>1. CASE BackupChecked(t)
  <2> DEFINE gist == gists[job.id]
             stage == IF job.allow \/ gist.profile \in job.hash THEN "writing" ELSE "asked"
             new == [job EXCEPT !.n = gist.n, !.stage = stage]
  <2>1. job # None /\ job.kind = "backup" /\ job.stage = "checking" /\ UNCHANGED <<gists, kept>>
    BY <1>1 DEF BackupChecked, Doing
  <2>2. BackupFine(job, g.known, gists) /\ job.id \in 1 .. Len(gists)
    BY <1>0, <2>1 DEF JobFine, RestoreFine, BackupFine
  <2>3. Set(t, WithJob(g, new))
    <3>1. Set(t, [g EXCEPT !.job.n = gist.n, !.job.stage = stage])
      BY <1>1 DEF BackupChecked
    <3> HIDE DEF gist, stage
    <3> QED
      BY <1>0, <3>1, <2>2 DEF GithubFine, BackupFine, WithJob
  <2>4. gist.n \in Nat
    BY <1>0, <2>2 DEF GistsFine
  <2>5. stage \in {"writing", "asked"} /\ (stage = "writing" /\ ~job.allow => gist.profile \in job.hash)
    BY <2>2 DEF BackupFine
  <2> HIDE DEF stage
  <2>6. BackupFine(new, g.known, gists)
    <3>1. /\ new.stage = stage /\ new.n = gist.n /\ new.id = job.id /\ new.allow = job.allow
          /\ new.hash = job.hash /\ new.profile = job.profile
      BY <2>2 DEF BackupFine
    <3>2. new \in [kind : {"backup"}, allow : BOOLEAN, profile : {new.profile}, n : Nat,
                   id : {None} \cup 1 .. Len(gists), hash : SUBSET g.known,
                   stage : {"writing", "checking", "asked", "verifying"}]
      BY <2>2, <2>4, <2>5 DEF BackupFine
    <3>3. Fine(new.profile, new.profile.items) /\ new.id # None
      BY <2>2, <3>1, LaterSame, <1>0, NoneAssumption DEF BackupFine
    <3> HIDE DEF new
    <3>4. new.stage = "writing" /\ ~new.allow => Guarded(new, gists)
      BY <2>4, <2>5, <3>1 DEF Guarded
    <3> QED
      BY <3>2, <3>3, <3>4 DEF BackupFine
  <2> HIDE DEF new
  <2>7. GithubFine(WithJob(g, new), gists)
    BY <1>0, <2>6, WithJobFine DEF JobFine
  <2> QED
    BY <1>0, <2>1, <2>3, <2>7, SetFineOnly
<1>2. CASE BackupVerified(t)
  <2> DEFINE auth == [id |-> job.id, hash |-> job.profile]
             done == [Idle(g) EXCEPT !.auth = auth, !.known = @ \cup {auth.hash}]
  <2>1. job # None /\ job.kind = "backup" /\ job.stage = "verifying" /\ gists' = gists
    BY <1>2 DEF BackupVerified, Doing
  <2>2. BackupFine(job, g.known, gists) /\ job.id \in 1 .. Len(gists)
    BY <1>0, <2>1 DEF JobFine, RestoreFine, BackupFine
  <2>3. AuthFine(auth, gists)
    BY <2>2, NoneAssumption DEF AuthFine
  <2>4. (Set(t, done) /\ kept' = auth) \/ (Set(t, Idle(g)) /\ kept' = kept)
    <3>1. CASE gists[job.id].profile = job.profile
      BY <1>2, <3>1 DEF BackupVerified
    <3>2. CASE gists[job.id].profile # job.profile
      BY <1>2, <3>2 DEF BackupVerified
    <3> QED
      BY <3>1, <3>2
  <2> HIDE DEF auth
  <2> QED
    BY <1>0, <2>1, <2>3, <2>4, IdleFine, SetFineOnly
<1>3. CASE GistGivesUp(t)
  BY <1>0, <1>3, IdleFine, SetFineOnly DEF GistGivesUp
<1>4. CASE RestoreConfirmed(t)
  <2> DEFINE new == [job EXCEPT !.stage = "loading"]
  <2>1. job # None /\ job.kind = "restore" /\ UNCHANGED <<gists, kept>>
        /\ Set(t, [g EXCEPT !.job.stage = "loading"])
    BY <1>4 DEF RestoreConfirmed, Doing, Stage
  <2>2. RestoreFine(job, gists)
    BY <1>0, <2>1 DEF JobFine, BackupFine
  <2>3. RestoreFine(new, gists)
    BY <2>2 DEF RestoreFine
  <2>4. GithubFine(WithJob(g, new), gists)
    <3> HIDE DEF new
    <3> QED
      BY <1>0, <2>3, WithJobFine DEF JobFine
  <2>5. Set(t, WithJob(g, new))
    BY <1>0, <2>1, <2>2 DEF GithubFine, RestoreFine, WithJob
  <2> HIDE DEF new
  <2> QED
    BY <1>0, <2>1, <2>4, <2>5, SetFineOnly
<1>5. ASSUME NEW lost \in BOOLEAN, BackupWritten(t, lost) PROVE GistInv'
  <2> DEFINE id == IF job.id = None THEN Len(gists) + 1 ELSE job.id
             new == [job EXCEPT !.stage = "verifying", !.id = id]
  <2>1. job # None /\ job.kind = "backup" /\ job.stage = "writing" /\ kept' = kept
    BY <1>5 DEF BackupWritten, Doing
  <2>2. BackupFine(job, g.known, gists) /\ Fine(job.profile, job.profile.items)
    BY <1>0, <2>1 DEF JobFine, RestoreFine, BackupFine
  <2>3. GistsFine(gists') /\ Later(gists, gists') /\ id \in 1 .. Len(gists')
    <3>1. CASE job.id = None
      BY <1>0, <1>5, <2>2, <3>1, WriteFine DEF BackupWritten
    <3>2. CASE job.id # None
      <4>1. job.id \in 1 .. Len(gists)
        BY <2>2, <3>2 DEF BackupFine
      <4> QED
        BY <1>0, <1>5, <2>2, <3>2, <4>1, WriteFine DEF BackupWritten
    <3> QED
      BY <3>1, <3>2
  <2>4. Set(t, Idle(g)) \/ Set(t, WithJob(g, new))
    <3>1. Set(t, Idle(g)) \/ Set(t, [g EXCEPT !.job.stage = "verifying", !.job.id = id])
      BY <1>5 DEF BackupWritten
    <3> HIDE DEF id
    <3> QED
      BY <1>0, <2>2, <3>1 DEF GithubFine, BackupFine, WithJob
  <2> HIDE DEF id
  <2>5. GithubFine(g, gists') /\ AuthFine(kept', gists')
    BY <1>0, <2>1, <2>3, LaterFine
  <2>6. BackupFine(new, g.known, gists')
    <3>1. id \in {None} \cup 1 .. Len(gists') /\ id # None
      BY <2>3, NoneAssumption DEF Later
    <3> QED
      BY <2>2, <3>1 DEF BackupFine
  <2> HIDE DEF new
  <2>7. GithubFine(WithJob(g, new), gists')
    BY <2>5, <2>6, WithJobFine DEF JobFine
  <2> QED
    BY <2>3, <2>4, <2>5, <2>7, IdleFine, SetFine
<1> QED
  BY <1>1, <1>2, <1>3, <1>4, <1>5 DEF GistStep

\* What the user starts at the gists.
LEMMA GistOpsFine ==
    ASSUME GistInv, NEW t \in Tab, NEW profile, Fine(profile, profile.items)
    PROVE  /\ BackupStart(t, profile) \/ BackupOverwrite(t, profile) => GistInv'
           /\ RestoreAsk(t) \/ RestoreLoaded(t) \/ GithubClear(t) \/ GithubLoad(t) => GistInv'
<1> DEFINE g == github[t]
           job == g.job
<1>0. /\ GithubFine(g, gists) /\ JobFine(job, g.known, gists) /\ GistsFine(gists)
      /\ AuthFine(kept, gists) /\ AuthFine(g.auth, gists)
  BY DEF GistInv, GithubFine
<1>1. DOMAIN gists = 1 .. Len(gists)
  BY <1>0 DEF GistsFine, IsSeq
<1>2. ASSUME BackupStart(t, profile) PROVE GistInv'
  <2>1. PICK id \in {None} \cup 1 .. Len(gists) : SaveStart(t, profile, id, FALSE)
    BY <1>0, <1>1, <1>2 DEF BackupStart, AuthFine
  <2> QED
    BY <1>2, <2>1, SaveStartFine DEF BackupStart
<1>3. ASSUME BackupOverwrite(t, profile) PROVE GistInv'
  <2>1. job # None /\ job.kind = "backup"
    BY <1>3 DEF BackupOverwrite, Doing
  <2>2. job.id \in {None} \cup 1 .. Len(gists)
    BY <1>0, <2>1 DEF JobFine, BackupFine, RestoreFine
  <2> QED
    BY <1>3, <2>2, SaveStartFine DEF BackupOverwrite
<1>4. ASSUME RestoreAsk(t) PROVE GistInv'
  <2>1. PICK id \in 1 .. Len(gists) :
            Set(t, WithJob(g, [kind |-> "restore", stage |-> "asked", id |-> id]))
    BY <1>0, <1>1, <1>4 DEF RestoreAsk, AuthFine, WithJob
  <2> DEFINE new == [kind |-> "restore", stage |-> "asked", id |-> id]
  <2>2. JobFine(new, g.known, gists)
    BY DEF JobFine, RestoreFine
  <2> HIDE DEF new
  <2>3. GithubFine(WithJob(g, new), gists)
    BY <1>0, <2>2, WithJobFine
  <2> QED
    BY <1>0, <1>4, <2>1, <2>3, SetFineOnly DEF RestoreAsk, new
<1>5. ASSUME RestoreLoaded(t) PROVE GistInv'
  <2> DEFINE auth == [id |-> job.id, hash |-> gists[job.id].profile]
             done == [Idle(g) EXCEPT !.auth = auth, !.known = @ \cup {auth.hash}]
  <2>1. job # None /\ job.kind = "restore" /\ kept' = auth /\ gists' = gists /\ Set(t, done)
    BY <1>5 DEF RestoreLoaded, Doing
  <2>2. job.id \in 1 .. Len(gists)
    BY <1>0, <2>1 DEF JobFine, RestoreFine, BackupFine
  <2>3. AuthFine(auth, gists)
    BY <2>2, NoneAssumption DEF AuthFine
  <2> HIDE DEF auth
  <2> QED
    BY <1>0, <2>1, <2>3, IdleFine, SetFineOnly
<1>6. ASSUME GithubClear(t) PROVE GistInv'
  <2> DEFINE new == [g EXCEPT !.auth = None]
  <2>1. Set(t, new) /\ kept' = None /\ gists' = gists
    BY <1>6 DEF GithubClear
  <2>2. GithubFine(new, gists)
    BY <1>0 DEF GithubFine, AuthFine
  <2> QED
    BY <2>1, <2>2, SetFineOnly DEF AuthFine
<1>7. ASSUME GithubLoad(t) PROVE GistInv'
  <2> DEFINE new == IF kept = None THEN NewGithub ELSE [NewGithub EXCEPT !.auth = kept, !.known = {kept.hash}]
  <2>1. Set(t, new) /\ kept' = kept /\ gists' = gists
    BY <1>7 DEF GithubLoad
  <2>2. GithubFine(new, gists)
    BY <1>0 DEF GithubFine, AuthFine, NewGithub, JobFine
  <2> QED
    BY <1>0, <2>1, <2>2, SetFineOnly
<1> QED
  BY <1>2, <1>3, <1>4, <1>5, <1>6, <1>7

LEMMA ElsewhereFine ==
    ASSUME GistInv, NEW profile, Fine(profile, profile.items), NEW id, Elsewhere(id, profile)
    PROVE  GistInv'
<1>1. DOMAIN gists = 1 .. Len(gists)
  BY DEF GistInv, GistsFine, IsSeq
<1>2. GistsFine(gists') /\ Later(gists, gists') /\ UNCHANGED <<kept, github>>
  BY <1>1, WriteFine DEF Elsewhere, GistInv
<1>3. ASSUME NEW u \in Tab PROVE GithubFine(github'[u], gists')
  BY <1>2, LaterFine DEF GistInv
<1> QED
  BY <1>2, <1>3, LaterFine DEF GistInv

-----------------------------------------------------------------------------
(* What the other parts do to the profile                                    *)

LEMMA OwnFine ==
    ASSUME EditsInv, NEW t \in Tab
    PROVE  /\ Holds(tabs[t], seen[t]) /\ KnowsFine(store, t, tabs[t], seen[t])
           /\ Fine(tabs[t].ref, seen[t]) /\ Fine(tabs[t].ref, tabs[t].ref.items)
           /\ seen = [seen EXCEPT ![t] = seen[t]]
  BY DEF EditsInv, Holds, Contents, Fine

LEMMA EndSavingFine ==
    ASSUME EditsInv, NEW t \in Tab, NEW p, EndSaving(t, p), store' = store, seen' = seen
    PROVE  EditsInv'
<1>1. CASE WriteAllowed(tabs[t])
  <2> DEFINE now == Persist(tabs[t], tabs[t].ref)
  <2>1. Become(t, now)
    BY <1>1 DEF EndSaving
  <2>2. Holds(now, seen[t]) /\ SameRev(now, tabs[t])
    BY OwnFine, PersistHolds
  <2> HIDE DEF now
  <2> QED
    BY <2>1, <2>2, BecomesFineSame
<1>2. CASE ~WriteAllowed(tabs[t])
  BY <1>2, NothingEdited DEF EndSaving
<1> QED
  BY <1>1, <1>2

LEMMA RememberFine ==
    ASSUME EditsInv, NEW t \in Tab, NEW auth, NEW tab, NEW W, NEW profile,
           Holds(tab, W), KnowsFine(store, t, tab, W), Fine(profile, W),
           Remember(t, auth, tab, profile), seen' = [seen EXCEPT ![t] = W], store' = store
    PROVE  EditsInv'
<1> DEFINE now == Persist(tab, profile)
<1>1. Become(t, now) \/ Become(t, tab)
  BY DEF Remember
<1>2. Holds(now, W) /\ SameRev(now, tab)
  BY PersistHolds
<1> HIDE DEF now
<1>3. KnowsFine(store, t, now, W)
  BY <1>2, SameRevKnows
<1> QED
  BY <1>1, <1>2, <1>3, BecomesFine

LEMMA KnowsHolds ==
    ASSUME NEW W, NEW tab, Holds(tab, W), NEW rev, rev \in Nat
    PROVE  LET now == Knows(tab, rev)
           IN /\ Holds(now, W) /\ now.known = rev /\ now.call = tab.call
              /\ now.wrote = tab.wrote /\ ~now.blind
  BY DEF Knows, Holds, Contents, IsTab

LEMMA CompletedFine ==
    ASSUME EditsInv, NEW t \in Tab, NEW c, ConnectCompleted(t, c)
    PROVE  EditsInv'
<1> DEFINE auth == [c.session EXCEPT !.pending = FALSE]
           now == Knows(tabs[t], store.rev)
           W == seen[t] \cup store.profile.items
<1>1. \/ EndSaving(t, page[t]) /\ seen' = seen
      \/ Remember(t, auth, tabs[t], tabs[t].ref) /\ seen' = seen
      \/ Remember(t, auth, now, store.profile) /\ Sees(t, store.profile)
  BY DEF ConnectCompleted
<1>2. store' = store
  BY DEF ConnectCompleted
<1>3. /\ Holds(tabs[t], seen[t]) /\ KnowsFine(store, t, tabs[t], seen[t]) /\ StoreFine
      /\ Fine(tabs[t].ref, seen[t]) /\ seen = [seen EXCEPT ![t] = seen[t]]
  BY OwnFine DEF EditsInv
<1>4. Holds(tabs[t], W) /\ Fine(store.profile, W) /\ KnowsFine(store, t, tabs[t], W)
  BY <1>3, HoldsMore, FineMore, KnowsMore DEF StoreFine
<1>5. /\ Holds(now, W) /\ now.known = store.rev /\ now.call = tabs[t].call
      /\ now.wrote = tabs[t].wrote
  BY <1>3, <1>4, KnowsHolds DEF StoreFine
<1> HIDE DEF now, auth
<1>6. KnowsFine(store, t, now, W)
  BY <1>3, <1>4, <1>5 DEF KnowsFine, KnowsRev, StoreFine, Unanswered
<1>7. Sees(t, store.profile) => seen' = [seen EXCEPT ![t] = W]
  BY DEF Sees
<1> HIDE DEF W
<1> QED
  BY <1>1, <1>2, <1>3, <1>4, <1>5, <1>6, <1>7, EndSavingFine, RememberFine

LEMMA ShownFine ==
    ASSUME EditsInv, NEW t \in Tab, NEW c, Shown(t, c)
    PROVE  EditsInv'
<1> DEFINE now == Load(tabs[t])
           W == seen[t] \cup store.profile.items
<1>1. \/ Become(t, now) /\ Sees(t, store.profile)
      \/ tabs' = tabs /\ seen' = seen
  BY DEF Shown
<1>2. store' = store
  BY DEF Shown
<1>3. Holds(now, W) /\ KnowsFine(store, t, now, W)
  BY OwnFine, LoadFine DEF EditsInv
<1> HIDE DEF now
<1> QED
  BY <1>1, <1>2, <1>3, ShowsFine, NothingEdited

LEMMA JobStepFine ==
    ASSUME EditsInv, NEW t \in Tab, NEW c, JobStep(t, c)
    PROVE  EditsInv'
<1>1. CASE ConnectAnswered(t, c)
  BY <1>1, EndSavingFine, NothingEdited DEF ConnectAnswered
<1>2. CASE ConnectLeft(t, c)
  BY <1>2, NothingEdited DEF ConnectLeft, tabsVars
<1>3. CASE Disconnected(t, c)
  BY <1>3, EndSavingFine DEF Disconnected
<1>4. CASE SavedToBackend(t, c)
  BY <1>4, EndSavingFine, NothingEdited DEF SavedToBackend
<1> QED
  BY <1>1, <1>2, <1>3, <1>4, CompletedFine, ShownFine DEF JobStep

LEMMA JobOpFine ==
    ASSUME EditsInv, NEW t \in Tab, NEW op, JobOp(t, op)
    PROVE  EditsInv'
<1>1. CASE Resolve(t, op)
  <2> DEFINE made == With(store.profile, op)
  <2>1. WorkerWrites(made)
    BY <1>1 DEF Resolve, ResolveConflict
  <2>2. Fine(made, store.profile.items \cup {op})
    BY WithFine DEF EditsInv, StoreFine
  <2> HIDE DEF made
  <2> QED
    BY <2>1, <2>2, WorkerWritesFine
<1> QED
  BY <1>1, NothingEdited
  DEF JobOp, Connect, Disconnect, SaveToBackend, LoadFromBackend, tabsVars

LEMMA PageOpFine ==
    ASSUME EditsInv, NEW t \in Tab, NEW op,
           Reopen(t, op) \/ RefreshResources(t, op) \/ LoadMore(t, op) \/ Backup(t, op)
    PROVE  EditsInv'
<1>1. CASE Reopen(t, op)
  BY <1>1, ReopenedFine DEF Reopen
<1> QED
  BY <1>1, NothingEdited DEF RefreshResources, LoadMore, Backup, tabsVars

LEMMA JobProceedsFine ==
    ASSUME EditsInv, NEW t \in Tab,
           \/ \E strategy \in {"use-local", "use-remote"} : ConnectChosen(t, strategy)
           \/ ConnectCancelled(t) \/ ConnectReadOnly(t) \/ ConnectSaved(t)
           \/ ConflictShown(t) \/ JobEnds(t)
    PROVE  EditsInv'
<1>1. CASE ConnectReadOnly(t)
  <2>1. Remember(t, page[t].job.session, tabs[t], tabs[t].ref) /\ store' = store /\ seen' = seen
    BY <1>1 DEF ConnectReadOnly
  <2>2. seen' = [seen EXCEPT ![t] = seen[t]]
    BY <2>1, OwnFine
  <2> QED
    BY <2>1, <2>2, OwnFine, RememberFine
<1>2. CASE ConnectSaved(t)
  BY <1>2, EndSavingFine, NothingEdited DEF ConnectSaved
<1>3. CASE ConflictShown(t)
  BY <1>3, EndSavingFine, NothingEdited DEF ConflictShown
<1> QED
  BY <1>1, <1>2, <1>3, NothingEdited DEF ConnectChosen, ConnectCancelled, JobEnds, tabsVars

\* A restore shows what the gist holds.
LEMMA RestoreKeeps ==
    ASSUME EditsInv, GistInv, NEW t \in Tab, Overwrite(t) \/ Restore(t)
    PROVE  EditsInv' /\ GistInv'
<1> DEFINE profile == gists[github[t].job.id].profile
<1>1. CASE Overwrite(t)
  BY <1>1, OwnFine, NothingEdited, GistOpsFine DEF Overwrite, tabsVars
<1>2. CASE Restore(t)
  <2>1. github[t].job # None /\ github[t].job.kind = "restore" /\ RestoreLoaded(t)
    BY <1>2 DEF Restore, RestoreLoaded, Doing
  <2>2. github[t].job.id \in 1 .. Len(gists)
    BY <2>1 DEF GistInv, GithubFine, JobFine, RestoreFine, BackupFine
  <2>3. Fine(profile, profile.items)
    BY <2>2 DEF GistInv, GistsFine
  <2>4. \/ Become(t, Persist(tabs[t], profile)) /\ Sees(t, profile)
        \/ tabs' = tabs /\ seen' = seen
    BY <1>2 DEF Restore
  <2>5. store' = store
    BY <1>2 DEF Restore
  <2> HIDE DEF profile
  <2>6. Fine(profile, seen[t] \cup profile.items)
    BY <2>3, FineMore
  <2>7. EditsInv'
    BY <2>4, <2>5, <2>6, EditedFine, NothingEdited
  <2> QED
    BY <2>1, <2>3, <2>7, GistOpsFine
<1> QED
  BY <1>1, <1>2

LEMMA WorkerFine ==
    ASSUME EditsInv, NEW c, FirstStores(c) \/ Tell(c)
    PROVE  EditsInv'
<1>1. CASE FirstStores(c)
  <2>1. \/ \E pid \in {1, 2} : WorkerWrites([pid |-> pid, items |-> {c.op}])
        \/ UNCHANGED tabsVars
    BY <1>1 DEF FirstStores
  <2>2. \A pid \in {1, 2} : Fine([pid |-> pid, items |-> {c.op}], {c.op})
    BY DEF Fine
  <2> QED
    BY <2>1, <2>2, WorkerWritesFine, NothingEdited DEF tabsVars
<1>2. CASE Tell(c)
  BY <1>2, WorkerTellsFine, NothingEdited DEF Tell, tabsVars
<1> QED
  BY <1>1, <1>2

LEMMA NextFine ==
    ASSUME EditsInv, GistInv, [Next]_vars
    PROVE  EditsInv'
<1>1. CASE UNCHANGED tabsVars
  BY <1>1, NothingEdited DEF tabsVars
<1>2. CASE \E t \in Tab, op \in todo :
              \/ TabOp(t, op) \/ JobOp(t, op) \/ Reopen(t, op) \/ RefreshResources(t, op)
              \/ LoadMore(t, op) \/ Backup(t, op)
  BY <1>2, OpFine, JobOpFine, PageOpFine
<1>3. CASE \E t \in Tab : \/ TabStep(t, Scope)
                          \/ \E c \in calls : JobStep(t, c)
                          \/ Overwrite(t) \/ Restore(t)
  BY <1>3, StepFine, JobStepFine, RestoreKeeps
<1>4. CASE \E t \in Tab :
              \/ \E strategy \in {"use-local", "use-remote"} : ConnectChosen(t, strategy)
              \/ ConnectCancelled(t) \/ ConnectReadOnly(t) \/ ConnectSaved(t)
              \/ ConflictShown(t) \/ JobEnds(t)
  BY <1>4, JobProceedsFine
<1>5. CASE \E c \in calls : FirstStores(c) \/ Tell(c)
  BY <1>5, WorkerFine
<1>6. CASE \E t \in Tab : \E f \in page[t].flows : \E c \in calls : StartupAnswered(t, f, c)
  BY <1>6, NothingEdited DEF StartupAnswered, tabsVars
<1>7. CASE \E op \in todo : BackupElsewhere(op)
  BY <1>7, NothingEdited DEF BackupElsewhere, tabsVars
<1>8. CASE UNCHANGED vars
  BY <1>8, NothingEdited DEF vars, tabsVars
<1> QED
  BY <1>1, <1>2, <1>3, <1>4, <1>5, <1>6, <1>7, <1>8 DEF Next

LEMMA NothingBackedUp ==
    ASSUME GistInv, UNCHANGED gistVars
    PROVE  GistInv'
  BY DEF GistInv, gistVars

LEMMA NextGists ==
    ASSUME EditsInv, GistInv, [Next]_vars
    PROVE  GistInv'
<1>1. CASE UNCHANGED gistVars
  BY <1>1, NothingBackedUp
<1>2. CASE \E t \in Tab, op \in todo : Reopen(t, op) \/ Backup(t, op)
  <2>1. PICK t \in Tab, op \in todo : Reopen(t, op) \/ Backup(t, op)
    BY <1>2
  <2> QED
    BY <2>1, OwnFine, GistOpsFine DEF Reopen, Backup
<1>3. CASE \E t \in Tab : GistStep(t) \/ Overwrite(t) \/ Restore(t)
  BY <1>3, GistStepFine, RestoreKeeps
<1>4. CASE \E op \in todo : BackupElsewhere(op)
  <2>1. PICK op \in todo : BackupElsewhere(op)
    BY <1>4
  <2> DEFINE profile == [pid |-> store.profile.pid, items |-> {op}]
  <2>2. \E id : Elsewhere(id, profile)
    BY <2>1 DEF BackupElsewhere
  <2>3. Fine(profile, profile.items)
    BY DEF EditsInv, StoreFine, Fine
  <2> HIDE DEF profile
  <2> QED
    BY <2>2, <2>3, ElsewhereFine
<1>5. CASE \E t \in Tab, op \in todo : JobOp(t, op) \/ RefreshResources(t, op) \/ LoadMore(t, op)
  BY <1>5, NothingBackedUp
  DEF JobOp, Connect, Disconnect, SaveToBackend, Resolve, LoadFromBackend, RefreshResources, LoadMore
<1>6. CASE \E t \in Tab : \E c \in calls :
              JobStep(t, c) \/ \E f \in page[t].flows : StartupAnswered(t, f, c)
  BY <1>6, NothingBackedUp
  DEF JobStep, ConnectAnswered, ConnectLeft, ConnectCompleted, Disconnected, SavedToBackend, Shown,
      StartupAnswered
<1>7. CASE \E t \in Tab :
              \/ \E strategy \in {"use-local", "use-remote"} : ConnectChosen(t, strategy)
              \/ ConnectCancelled(t) \/ ConnectReadOnly(t) \/ ConnectSaved(t)
              \/ ConflictShown(t) \/ JobEnds(t)
  BY <1>7, NothingBackedUp
  DEF ConnectChosen, ConnectCancelled, ConnectReadOnly, ConnectSaved, ConflictShown, JobEnds
<1>8. CASE \E c \in calls : FirstStores(c) \/ Tell(c)
  BY <1>8, NothingBackedUp DEF FirstStores, Tell
<1>9. CASE UNCHANGED vars
  BY <1>9, NothingBackedUp DEF vars
<1> QED
  BY <1>1, <1>2, <1>3, <1>4, <1>5, <1>6, <1>7, <1>8, <1>9 DEF Next

LEMMA EditsAndGists == Spec => [](EditsInv /\ GistInv)
<1>1. Init => EditsInv /\ GistInv
  BY EditsInit, GistsInit DEF Init
<1>2. EditsInv /\ GistInv /\ [Next]_vars => (EditsInv /\ GistInv)'
  BY NextFine, NextGists
<1> QED
  BY <1>1, <1>2, PTL DEF Spec

-----------------------------------------------------------------------------
(* Saves *)

\* Each revision names its writer.
LEMMA WriterIsNamed ==
    ASSUME EditsInv, NEW profile, NEW by, store' = Written(profile, by), NEW t \in Tab, Saves(t)
    PROVE  by = t
  BY AppendIsSeq DEF EditsInv, StoreFine, Written, Saves

\* The only writer of a revision in a page's name is that page's save.
LEMMA SaveWrites ==
    ASSUME EditsInv, [Next]_vars, NEW t \in Tab, Saves(t)
    PROVE  SaveCommit(t, Scope)
<1>0. ASSUME NEW profile PROVE ~WorkerWrites(profile)
  BY WriterIsNamed, PageNames DEF WorkerWrites
<1>1. store' # store
  BY DEF Saves
<1>2. ASSUME NEW u \in Tab, TabStep(u, Scope) PROVE SaveCommit(t, Scope)
  <2>1. SaveCommit(u, Scope) \/ ResetCommit(u, Scope)
    BY <1>1, <1>2
    DEF TabStep, SaveCall, SaveAnswered, SaveRefused, Invalidated, Hears, Effect, Confirmed,
        Cancelled, ResetLoad, ResetAnswered, BookmarksPlan, BookmarksSave, BookmarksReload
  <2>2. ASSUME SaveCommit(u, Scope) PROVE u = t
    <3>1. \E profile : store' = Written(profile, u)
      BY <2>2 DEF SaveCommit, Commit
    <3> QED
      BY <3>1, WriterIsNamed
  <2>3. ASSUME ResetCommit(u, Scope) PROVE FALSE
    <3>1. \E profile : store' = Written(profile, "reset")
      BY <1>1, <2>3 DEF ResetCommit, Commit
    <3> QED
      BY <3>1, WriterIsNamed, PageNames
  <2> QED
    BY <2>1, <2>2, <2>3
<1>3. ASSUME NEW u \in Tab, NEW op \in todo,
             \/ TabOp(u, op) \/ JobOp(u, op) \/ Reopen(u, op) \/ RefreshResources(u, op)
             \/ LoadMore(u, op) \/ Backup(u, op)
      PROVE  FALSE
  <2>1. ~TabOp(u, op)
    BY <1>1 DEF TabOp, Edit, Rotate, HeardTwice, Hears, Ask, BookmarksRead
  <2>2. ~JobOp(u, op)
    BY <1>0, <1>1
    DEF JobOp, Connect, Disconnect, SaveToBackend, Resolve, ResolveConflict, LoadFromBackend, tabsVars
  <2> QED
    BY <1>1, <1>3, <2>1, <2>2 DEF Reopen, Reopened, RefreshResources, LoadMore, Backup, tabsVars
<1>4. ~ \E u \in Tab : \E c \in calls :
           JobStep(u, c) \/ \E f \in page[u].flows : StartupAnswered(u, f, c)
  BY <1>1
  DEF JobStep, ConnectAnswered, ConnectLeft, ConnectCompleted, Disconnected, SavedToBackend, Shown,
      StartupAnswered, tabsVars
<1>5. ~ \E u \in Tab :
           \/ \E strategy \in {"use-local", "use-remote"} : ConnectChosen(u, strategy)
           \/ ConnectCancelled(u) \/ ConnectReadOnly(u) \/ ConnectSaved(u)
           \/ ConflictShown(u) \/ JobEnds(u) \/ Overwrite(u) \/ Restore(u)
  BY <1>1
  DEF ConnectChosen, ConnectCancelled, ConnectReadOnly, ConnectSaved, ConflictShown, JobEnds,
      Overwrite, Restore, tabsVars
<1>6. ~ \E c \in calls : FirstStores(c) \/ Tell(c)
  BY <1>0, <1>1 DEF FirstStores, Tell, WorkerTells, tabsVars
<1>7. ~ \E op \in todo : BackupElsewhere(op)
  BY <1>1 DEF BackupElsewhere, tabsVars
<1>8. ~ UNCHANGED tabsVars
  BY <1>1 DEF tabsVars
<1> QED
  BY <1>2, <1>3, <1>4, <1>5, <1>6, <1>7, <1>8 DEF Next, vars, tabsVars

LEMMA SaveIsNotBlind ==
    ASSUME EditsInv, [Next]_vars, NEW t \in Tab, Saves(t), ~tabs[t].blind
    PROVE  store.profile.items \subseteq seen[t]
<1>1. tabs[t].call = store.rev
  BY SaveWrites DEF SaveCommit
<1>2. KnowsFine(store, t, tabs[t], seen[t])
  BY DEF EditsInv
<1> QED
  BY <1>1, <1>2 DEF KnowsFine

\* NoBlindOverwrite, for any pages, scenarios and scopes: a save takes away no
\* edit that its page has neither made nor been shown.
THEOREM NothingOverwrittenBlindly == Spec => NoBlindOverwrite
<1>1. EditsInv /\ [Next]_vars =>
        [\A t \in Tab :
            Saves(t) /\ ~tabs[t].blind
               => store.profile.items \subseteq store'.profile.items \cup seen[t]]_tabsVars
  BY SaveIsNotBlind
<1> QED
  BY <1>1, EditsAndGists, PTL DEF Spec, NoBlindOverwrite

\* NoSelfConflict, for any pages, scenarios and scopes: a save that is refused
\* for its revision has met somebody else's write.
THEOREM OwnSavesAgree == Spec => NoSelfConflict
<1>1. ASSUME EditsInv, NEW t \in Tab, tabs[t].call # None, tabs[t].call # store.rev
      PROVE  \E i \in tabs[t].call + 1 .. store.rev : store.log[i] # t
  BY <1>1 DEF EditsInv, StoreFine, KnowsFine, KnowsRev, Other
<1>2. EditsInv =>
        [\A t \in Tab :
            Refused(t) /\ tabs[t].call # store.rev
               => \E i \in tabs[t].call + 1 .. store.rev : store.log[i] # t]_tabsVars
  BY <1>1 DEF Refused
<1> QED
  BY <1>2, EditsAndGists, PTL DEF Spec, NoSelfConflict

\* GistGuard, for any pages and scenarios: what a backup replaces without having
\* asked, its page had put there or loaded, or it came after the page looked.
THEOREM BackupsAreGuarded == Spec => GistGuard
<1>1. ASSUME GistInv, NEW t \in Tab, Doing(t, "backup", "writing"), github[t].job.id # None,
             ~github[t].job.allow
      PROVE  LET job == github[t].job
             IN gists[job.id].profile \in github[t].known \/ gists[job.id].n > job.n
  <2> DEFINE job == github[t].job
  <2>1. BackupFine(job, github[t].known, gists)
    BY <1>1 DEF GistInv, GithubFine, JobFine, RestoreFine, Doing
  <2>2. job.id \in 1 .. Len(gists) /\ Guarded(job, gists)
        /\ job.hash \subseteq github[t].known /\ job.n \in Nat
    BY <1>1, <2>1 DEF BackupFine, Doing
  <2>3. gists[job.id].n \in Nat
    BY <1>1, <2>2 DEF GistInv, GistsFine
  <2> QED
    BY <2>2, <2>3 DEF Guarded
<1>2. GistInv =>
        [\A t \in Tab :
            LET job == github[t].job
            IN Doing(t, "backup", "writing") /\ job.id # None /\ ~job.allow /\ gists' # gists
                 /\ github'[t] # github[t]
               => gists[job.id].profile \in github[t].known \/ gists[job.id].n > job.n]_gistVars
  BY <1>1
<1> QED
  BY <1>2, EditsAndGists, PTL DEF Spec, GistGuard

-----------------------------------------------------------------------------
(* The session is whole, whatever the pages ask of the worker *)

OpsInv == todo \subseteq Op

\* An operation that has been started is not started again.
LEMMA TodoShrinks == [Next]_vars => todo' \subseteq todo
<1> SUFFICES ASSUME [Next]_vars PROVE todo' \subseteq todo
  OBVIOUS
<1>1. ASSUME NEW t \in Tab, NEW op, TabOp(t, op) PROVE todo' \subseteq todo
  BY <1>1 DEF TabOp, Starts, Edit, Rotate, HeardTwice, Ask, BookmarksRead
<1>2. ASSUME NEW t \in Tab, NEW op, JobOp(t, op) PROVE todo' \subseteq todo
  BY <1>2 DEF JobOp, Connect, Disconnect, SaveToBackend, Resolve, LoadFromBackend, Free, Starts
<1>3. ASSUME NEW t \in Tab, NEW op,
             Reopen(t, op) \/ RefreshResources(t, op) \/ LoadMore(t, op) \/ Backup(t, op)
      PROVE  todo' \subseteq todo
  BY <1>3 DEF Reopen, RefreshResources, LoadMore, Backup, Starts
<1>4. ASSUME NEW t \in Tab, TabStep(t, Scope) PROVE todo' = todo
  BY <1>4 DEF TabStep, SaveCall, SaveCommit, SaveAnswered, SaveRefused, Invalidated, Effect, Confirmed,
              Cancelled, ResetLoad, ResetCommit, ResetAnswered, BookmarksPlan, BookmarksSave, BookmarksReload
<1>5. ASSUME NEW t \in Tab, NEW c, JobStep(t, c) PROVE todo' = todo
  BY <1>5 DEF JobStep, ConnectAnswered, ConnectLeft, ConnectCompleted, Disconnected, SavedToBackend, Shown
<1>6. ASSUME NEW t \in Tab,
             \/ \E strategy \in {"use-local", "use-remote"} : ConnectChosen(t, strategy)
             \/ ConnectCancelled(t) \/ ConnectReadOnly(t) \/ ConnectSaved(t)
             \/ ConflictShown(t) \/ JobEnds(t) \/ Overwrite(t) \/ Restore(t)
      PROVE  todo' = todo
  BY <1>6 DEF ConnectChosen, ConnectCancelled, ConnectReadOnly, ConnectSaved, ConflictShown, JobEnds,
              Overwrite, Restore
<1>7. ASSUME NEW t \in Tab, NEW f, NEW c, StartupAnswered(t, f, c) PROVE todo' = todo
  BY <1>7 DEF StartupAnswered
<1>8. ASSUME NEW c, FirstStores(c) \/ Tell(c) PROVE todo' = todo
  BY <1>8 DEF FirstStores, Tell, WorkerTells
<1>9. ASSUME NEW op, WorkerOp(op) \/ BackupElsewhere(op) PROVE todo' \subseteq todo
  BY <1>9 DEF WorkerOp, BackupElsewhere, Starts
<1>10. CASE UNCHANGED vars
  BY <1>10 DEF vars
<1> QED
  BY <1>1, <1>2, <1>3, <1>4, <1>5, <1>6, <1>7, <1>8, <1>9, <1>10 DEF Next

LEMMA JobWhole ==
    ASSUME WholeInv, EditsInv, NEW t \in Tab, NEW op \in Op, JobOp(t, op)
    PROVE  WholeInv'
<1>1. CASE Connect(t, op)
  <2>1. op.n \in Nat /\ store.profile.pid \in Nat
    BY DEF Op, EditsInv, StoreFine, Fine
  <2> QED
    BY <1>1, <2>1, LoginBeginWhole DEF Connect
<1> QED
  BY <1>1, LogoutBeginWhole, CallBeginWhole, FirstBeginWhole
  DEF JobOp, Disconnect, SaveToBackend, Resolve, ResolveConflict, LoadFromBackend

LEMMA JobStepWhole ==
    ASSUME WholeInv, NEW t \in Tab, NEW c, JobStep(t, c)
    PROVE  WholeInv'
  BY HeardWhole
  DEF JobStep, ConnectAnswered, ConnectLeft, ConnectCompleted, Disconnected, SavedToBackend,
      Shown, Answered

LEMMA JobProceedsWhole ==
    ASSUME WholeInv, NEW t \in Tab,
           \/ \E strategy \in {"use-local", "use-remote"} : ConnectChosen(t, strategy)
           \/ ConnectCancelled(t) \/ ConnectReadOnly(t) \/ ConnectSaved(t)
           \/ ConflictShown(t) \/ JobEnds(t)
    PROVE  WholeInv'
  BY FirstBeginWhole, LogoutBeginWhole, NothingWhole
  DEF ConnectChosen, ConnectCancelled, ConnectReadOnly, ConnectSaved, ConflictShown, JobEnds

LEMMA PageWhole ==
    ASSUME WholeInv, NEW t \in Tab,
           \/ \E op \in todo : \/ Reopen(t, op) \/ RefreshResources(t, op)
                               \/ LoadMore(t, op) \/ Backup(t, op)
           \/ \E f \in page[t].flows : \E c \in calls : StartupAnswered(t, f, c)
           \/ Overwrite(t) \/ Restore(t)
    PROVE  WholeInv'
<1>1. CASE \E op \in todo : Reopen(t, op)
  BY <1>1, CallBeginWhole, NothingWhole DEF Reopen
<1>2. CASE \E f \in page[t].flows : \E c \in calls : StartupAnswered(t, f, c)
  BY <1>2, HeardWhole DEF StartupAnswered
<1> QED
  BY <1>1, <1>2, NothingWhole DEF RefreshResources, LoadMore, Backup, Overwrite, Restore

\* What the worker writes for a first connection keeps the row's profile id a
\* number.
LEMMA WorkerWhole ==
    ASSUME WholeInv, NEW c \in calls, SessionStep(c) \/ FirstStores(c) \/ Tell(c)
    PROVE  WholeInv'
<1>1. CASE FirstStores(c)
  <2>1. \E newPid \in {1, 2, c.pid} : FirstWrite(c, store.rev, store.profile.pid, newPid)
    BY <1>1 DEF FirstStores
  <2>2. c.pid \in Nat
    BY <2>1 DEF FirstWrite, MetaIs, WholeInv, RowWhole
  <2> QED
    BY <2>1, <2>2, FirstWriteWhole
<1>2. CASE Tell(c)
  <2>1. Aside /\ flights' = flights /\ c.stage = "telling"
    BY <1>2 DEF Tell, Aside
  <2>2. Goto(c, "done") \/ Goto(c, "failed")
    BY <1>2 DEF Tell
  <2>3. TokensInv' /\ ~Settling(c)
    BY <1>2, <2>1, TellTokens DEF WholeInv, Settling
  <2> QED
    BY <2>1, <2>2, <2>3, AsideFlights, QuietMoves DEF TokenStages, AnswerStages
<1> QED
  BY <1>1, <1>2, SessionStepWhole

LEMMA NextWhole ==
    ASSUME WholeInv, EditsInv, OpsInv, [Next]_vars
    PROVE  WholeInv'
<1>1. CASE UNCHANGED sessionVars
  BY <1>1, NothingWhole
<1>2. CASE \E t \in Tab, op \in todo : JobOp(t, op)
  BY <1>2, JobWhole DEF OpsInv
<1>3. CASE \E t \in Tab, c \in calls : JobStep(t, c)
  BY <1>3, JobStepWhole
<1>4. CASE \E t \in Tab :
              \/ \E strategy \in {"use-local", "use-remote"} : ConnectChosen(t, strategy)
              \/ ConnectCancelled(t) \/ ConnectReadOnly(t) \/ ConnectSaved(t)
              \/ ConflictShown(t) \/ JobEnds(t)
  BY <1>4, JobProceedsWhole
<1>5. CASE \E t \in Tab :
              \/ \E op \in todo : \/ Reopen(t, op) \/ RefreshResources(t, op)
                                  \/ LoadMore(t, op) \/ Backup(t, op)
              \/ \E f \in page[t].flows : \E c \in calls : StartupAnswered(t, f, c)
              \/ Overwrite(t) \/ Restore(t)
  BY <1>5, PageWhole
<1>6. CASE \E c \in calls : SessionStep(c) \/ FirstStores(c) \/ Tell(c)
  BY <1>6, WorkerWhole
<1>7. CASE \E f \in flights : FlightStep(f)
  BY <1>7, FlightStepWhole
<1>8. CASE \E op \in todo : WorkerOp(op)
  BY <1>8, EvictWhole, TimePassesWhole DEF WorkerOp
<1>9. CASE \E op \in todo : BackupElsewhere(op)
  BY <1>9, NothingWhole DEF BackupElsewhere
<1>10. CASE UNCHANGED vars
  BY <1>10, NothingWhole DEF vars
<1> QED
  BY <1>1, <1>2, <1>3, <1>4, <1>5, <1>6, <1>7, <1>8, <1>9, <1>10 DEF Next

\* SessionIsWhole, for any pages, scenarios and scopes: however logins, logouts
\* and first connections overtake each other, a session that may write has
\* decided its first connection, and the vault's session has its own row.
THEOREM SessionsAreWhole == Spec => []SessionIsWhole
<1>1. Init => WholeInv /\ OpsInv
  BY WholeInit, ScenariosAssumption DEF Init, TabsInit, OpsInv
<1>2. WholeInv /\ OpsInv /\ EditsInv /\ [Next]_vars => (WholeInv /\ OpsInv)'
  BY NextWhole, TodoShrinks DEF OpsInv
<1>3. WholeInv => SessionIsWhole
  BY WholeEnough
<1> QED
  BY <1>1, <1>2, <1>3, EditsAndGists, PTL DEF Spec
===============================================================================
