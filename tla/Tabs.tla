--------------------------------- MODULE Tabs ---------------------------------
(***************************************************************************)
(* New tab pages that share one local profile                              *)
(* (shared/storage/profileStore.ts and the profile's state in              *)
(* newtab/App.tsx).  A page edits the copy in profileRef and saves whole   *)
(* profiles, one after the other, each by compare-and-set on the revision  *)
(* the page knows; the others are told by a broadcast and load.  Dialogs   *)
(* and file imports keep what they read before across their awaits.        *)
(*                                                                         *)
(* A profile is its id and the set of the edits it is the result of, each  *)
(* named by the operation that made it.  What the edits do is              *)
(* ProfileEdits'.                                                          *)
(***************************************************************************)
EXTENDS Pages, Sequences

CONSTANT Scenarios \* bound: the sets of operations to run in any order

ASSUME ScenariosAssumption == Scenarios \subseteq SUBSET Op

VARIABLES
    store,  \* the local record: revision, profile, and who wrote each revision
    tabs,   \* [Tab -> the page's state]
    seen,   \* [Tab -> edits the page has loaded or made]
    untold, \* nobody has been told of the newest revision yet
    todo    \* operations not started

tabsVars == <<store, tabs, seen, untold>>

Start == [pid |-> 1, items |-> {}]

NewTab == [ref |-> Start,       \* profileRef.current
           screen |-> Start,    \* the rendered profile
           known |-> 0,         \* ProfileStore.knownRevision
           told |-> {},         \* profile ids of the invalidations that are coming
           deaf |-> FALSE,      \* the last one was taken to be of another profile
           blind |-> FALSE,     \* history: known was taken by a reset and not shown
           queue |-> <<>>,      \* the profiles of profileSaveTailRef
           call |-> None,       \* expectedRevision of the save under way
           wrote |-> None,      \* the revision written, while commitProfile's answer is awaited
           run |-> 0,           \* profileSaveRunRef
           feedback |-> "none", \* localSaveFeedback
           refused |-> {},      \* runs whose save was refused
           flow |-> None]       \* the import, reset or deletion under way

TabsInit ==
    /\ store = [rev |-> 0, profile |-> Start, log |-> <<>>]
    /\ tabs = [t \in Tab |-> NewTab]
    /\ seen = [t \in Tab |-> {}]
    /\ untold = FALSE
    /\ todo \in Scenarios

Asked(tab) == tab.flow # None /\ tab.flow.stage = "asked"
Resetting(tab, stage) == tab.flow # None /\ tab.flow.stage = stage
\* backupActionRef; deleteGroup does not take it.
BackupAction(tab) ==
    IF tab.flow = None THEN "none" ELSE IF tab.flow.kind = "group" THEN "none" ELSE tab.flow.kind
WriteAllowed(tab) == BackupAction(tab) # "bookmarks"

With(profile, e) == [profile EXCEPT !.items = @ \cup {e}]

\* persist: page and queue first, then the disk.
Persist(tab, profile) ==
    [tab EXCEPT !.ref = profile, !.screen = profile, !.run = @ + 1, !.feedback = "pending",
                !.queue = Append(@, [profile |-> profile, run |-> tab.run + 1])]

\* The page knows a revision: what it holds is on the page, or was made there.
Knows(tab, rev) == [tab EXCEPT !.known = rev, !.blind = FALSE, !.deaf = FALSE]

\* IndexedDB answers in order: nothing is read between a write and its answer.
Unanswered(tab) == tab.wrote # None

Load(tab) == [Knows(tab, store.rev) EXCEPT !.screen = store.profile]
LoadLatest(tab) == [Load(tab) EXCEPT !.ref = store.profile]

Become(t, tab) == tabs' = [tabs EXCEPT ![t] = tab]
Sees(t, profile) == seen' = [seen EXCEPT ![t] = @ \cup profile.items]

Written(profile, by) == [rev |-> store.rev + 1, profile |-> profile, log |-> Append(store.log, by)]

\* commitProfile writes; the page goes on when it is answered.
Commit(t, profile, tab, by) ==
    /\ store' = Written(profile, by)
    /\ Become(t, [tab EXCEPT !.wrote = store.rev + 1])
    /\ untold' = TRUE

\* The invalidation bus: every page but the sender hears of this profile.
Publish(all, by, pid) ==
    [u \in Tab |-> IF u = by THEN all[u] ELSE [all[u] EXCEPT !.told = @ \cup {pid}]]

Knowing(t, tab) == [tabs EXCEPT ![t] = [Knows(tab, tab.wrote) EXCEPT !.wrote = None]]

\* (slip: nobody is told)
CommitUntold(t, tab, pid) ==
    /\ tabs' = Knowing(t, tab)
    /\ untold' = (untold /\ tab.wrote # store.rev)

\* (slip: the page does not keep the revision it is answered)
CommitUnknown(t, tab, pid) ==
    /\ tabs' = Publish([tabs EXCEPT ![t] = [tab EXCEPT !.wrote = None]], t, pid)
    /\ untold' = (untold /\ tab.wrote # store.rev)

\* The answer: the page knows its revision and tells the others.
CommitAnswered(t, tab, pid) ==
    /\ tabs' = Publish(Knowing(t, tab), t, pid)
    /\ untold' = (untold /\ tab.wrote # store.rev)

Starts(op, kind) == op \in todo /\ op.kind = kind /\ todo' = todo \ {op}

\* An edit on the page, from what profileRef holds at that moment.
Edit(t, op) ==
    /\ Starts(op, "edit") /\ op.by = t
    /\ ~Asked(tabs[t]) /\ WriteAllowed(tabs[t])
    /\ Become(t, Persist(tabs[t], With(tabs[t].ref, op)))
    /\ Sees(t, With(tabs[t].ref, op))
    /\ UNCHANGED <<store, untold>>

\* The rotation timer does not wait for dialogs.
Rotate(t, op) ==
    /\ Starts(op, "rotate") /\ op.by = t
    /\ WriteAllowed(tabs[t])
    /\ Become(t, Persist(tabs[t], With(tabs[t].ref, op)))
    /\ Sees(t, With(tabs[t].ref, op))
    /\ UNCHANGED <<store, untold>>

\* ProfileStore.save has awaited initialize and getLocalProfile.
SaveCall(t) ==
    /\ tabs[t].queue # <<>> /\ tabs[t].call = None /\ ~Unanswered(tabs[t])
    /\ Become(t, [tabs[t] EXCEPT !.call = tabs[t].known])
    /\ UNCHANGED <<store, seen, untold, todo>>

\* What persist and its caller do when the save is over.
Settled(tab, result) ==
    LET save == Head(tab.queue)
        mine == tab.flow # None /\ tab.flow.stage = "saving" /\ tab.flow.run = save.run
    IN [tab EXCEPT !.queue = Tail(@), !.call = None,
                   !.feedback = IF save.run = tab.run THEN result ELSE @,
                   !.refused = IF result = "error" THEN @ \cup {save.run} ELSE @,
                   !.flow = IF ~mine THEN @
                            ELSE IF result = "error" /\ @.kind = "bookmarks"
                            THEN [@ EXCEPT !.stage = "failed"] ELSE None]

\* scope is the profile id of the active account's metadata, or None.  What
\* leaves the shared content as it is does not look for it.
Fits(profile, scope) == scope = None \/ profile = store.profile \/ profile.pid = scope

\* (slip: without the compare)
SaveCommitBlind(t, scope) ==
    /\ tabs[t].call # None /\ ~Unanswered(tabs[t])
    /\ Fits(Head(tabs[t].queue).profile, scope)
    /\ Commit(t, Head(tabs[t].queue).profile, [tabs[t] EXCEPT !.call = None], t)
    /\ UNCHANGED <<seen, todo>>

SaveCommit(t, scope) ==
    /\ tabs[t].call # None
    /\ tabs[t].call = store.rev
    /\ Fits(Head(tabs[t].queue).profile, scope)
    /\ Commit(t, Head(tabs[t].queue).profile, [tabs[t] EXCEPT !.call = None], t)
    /\ UNCHANGED <<seen, todo>>

SaveAnswered(t) ==
    /\ tabs[t].queue # <<>> /\ Unanswered(tabs[t]) /\ ~Resetting(tabs[t], "written")
    /\ CommitAnswered(t, Settled(tabs[t], "success"), Head(tabs[t].queue).profile.pid)
    /\ UNCHANGED <<store, seen, todo>>

\* PROFILE_REVISION_CONFLICT, or SYNC_PROFILE_SCOPE_MISMATCH
SaveRefused(t, scope) ==
    /\ tabs[t].call # None /\ ~Unanswered(tabs[t])
    /\ tabs[t].call = store.rev => ~Fits(Head(tabs[t].queue).profile, scope)
    /\ Become(t, Settled(tabs[t], "error"))
    /\ UNCHANGED <<store, seen, untold, todo>>

\* A broadcast names the profile it is about; the page reads its own id from
\* profileRef.  The rendered profile reaches profileRef in an effect.
Hears(t, pid, coming) ==
    /\ ~Unanswered(tabs[t])
    /\ IF pid = tabs[t].ref.pid
       THEN Become(t, [Load(tabs[t]) EXCEPT !.told = coming]) /\ Sees(t, store.profile)
       ELSE Become(t, [tabs[t] EXCEPT !.told = coming, !.deaf = TRUE]) /\ UNCHANGED seen
    /\ UNCHANGED <<store, untold>>

\* One broadcast stands for all that name one profile.
Invalidated(t) ==
    /\ \E pid \in tabs[t].told : Hears(t, pid, tabs[t].told \ {pid})
    /\ UNCHANGED todo

\* It is sent on two channels, and comes again.
HeardTwice(t, op) ==
    /\ Starts(op, "twice") /\ op.by = t
    /\ \E pid \in tabs[t].told : Hears(t, pid, tabs[t].told)

Effect(t) ==
    /\ tabs[t].ref # tabs[t].screen
    /\ Become(t, [tabs[t] EXCEPT !.ref = tabs[t].screen])
    /\ UNCHANGED <<store, seen, untold, todo>>

\* deleteGroup, importConfig and resetLocalConfig ask first; the first two keep
\* what they will save.
Ask(t, op) ==
    /\ \E kind \in {"group", "import", "reset"} : Starts(op, kind)
    /\ op.by = t
    /\ tabs[t].flow = None
    /\ LET kept == IF op.kind = "group" THEN With(tabs[t].ref, op)
                   ELSE [pid |-> tabs[t].ref.pid, items |-> {op}]
       IN /\ Become(t, [tabs[t] EXCEPT !.flow =
                  [kind |-> op.kind, stage |-> "asked", kept |-> kept, op |-> op, run |-> 0]])
          /\ Sees(t, kept)
    /\ UNCHANGED <<store, untold>>

Saving(tab, profile) ==
    [Persist(tab, profile) EXCEPT !.flow.stage = "saving", !.flow.run = tab.run + 1]

Confirmed(t) ==
    /\ Asked(tabs[t])
    /\ Become(t, IF tabs[t].flow.kind \in {"group", "import"}
                 THEN Saving(tabs[t], tabs[t].flow.kept)
                 ELSE [tabs[t] EXCEPT !.flow.stage = "accepted"])
    /\ UNCHANGED <<store, seen, untold, todo>>

Cancelled(t) ==
    /\ Asked(tabs[t])
    /\ Become(t, [tabs[t] EXCEPT !.flow = None])
    /\ UNCHANGED <<store, seen, untold, todo>>

\* ProfileStore.reset: load, then commit; it does not queue behind the saves.
\* The page shows the new profile when it is answered.
ResetLoad(t) ==
    LET tab == tabs[t]
    IN /\ tab.flow # None /\ ~Unanswered(tab)
       /\ tab.flow.kind = "reset" /\ tab.flow.stage = "accepted"
       /\ Become(t, [Knows(tab, store.rev) EXCEPT
              !.blind = TRUE, !.flow.stage = "resetting", !.flow.run = store.rev,
              !.flow.kept.pid = store.profile.pid])
       /\ UNCHANGED <<store, seen, untold, todo>>

ResetCommit(t, scope) ==
    LET tab == tabs[t]
    IN /\ Resetting(tab, "resetting") /\ ~Unanswered(tab)
       /\ IF tab.flow.run = store.rev /\ Fits(tab.flow.kept, scope)
          THEN Commit(t, tab.flow.kept, [tab EXCEPT !.flow.stage = "written"], "reset")
          ELSE Become(t, [tab EXCEPT !.flow = None]) /\ UNCHANGED <<store, untold>>
       /\ UNCHANGED <<seen, todo>>

ResetAnswered(t) ==
    LET kept == tabs[t].flow.kept
    IN /\ Unanswered(tabs[t]) /\ Resetting(tabs[t], "written")
       /\ CommitAnswered(t, [tabs[t] EXCEPT !.ref = kept, !.screen = kept, !.feedback = "success",
                                    !.flow = None], kept.pid)
       /\ UNCHANGED <<store, seen, todo>>

\* importBrowserBookmarks: after the tab's own saves, load and plan.
BookmarksRead(t, op) ==
    /\ Starts(op, "bookmarks") /\ op.by = t
    /\ tabs[t].flow = None
    /\ Become(t, [tabs[t] EXCEPT !.flow =
           [kind |-> op.kind, stage |-> "reading", kept |-> Start, op |-> op, run |-> 0]])
    /\ UNCHANGED <<store, seen, untold>>

BookmarksPlan(t) ==
    LET tab == tabs[t]
    IN /\ tab.flow # None
       /\ tab.flow.kind = "bookmarks" /\ tab.flow.stage = "reading"
       /\ tab.queue = <<>>
       /\ Become(t, [LoadLatest(tab) EXCEPT !.flow.stage = "asked", !.flow.kept = store.profile])
       /\ Sees(t, With(store.profile, tab.flow.op))
       /\ UNCHANGED <<store, untold, todo>>

\* After the answer: load again, and save only on what the user saw.
BookmarksSave(t) ==
    LET tab == tabs[t]
        now == LoadLatest(tab)
    IN /\ tab.flow # None
       /\ tab.flow.kind = "bookmarks" /\ tab.flow.stage = "accepted"
       /\ tab.queue = <<>>
       /\ Sees(t, store.profile)
       /\ Become(t, IF store.profile = tab.flow.kept
                    THEN Saving(now, With(tab.flow.kept, tab.flow.op))
                    ELSE [now EXCEPT !.flow.stage = "failed"])
       /\ UNCHANGED <<store, untold, todo>>

BookmarksReload(t) ==
    /\ tabs[t].flow # None
    /\ tabs[t].flow.stage = "failed"
    /\ tabs[t].queue = <<>>
    /\ Become(t, [LoadLatest(tabs[t]) EXCEPT !.flow = None])
    /\ Sees(t, store.profile)
    /\ UNCHANGED <<store, untold, todo>>

\* The worker accepts a remote profile, with its id, or a merged one.  It tells
\* the tabs of what is stored when it has answered.
WorkerWrites(profile) ==
    /\ store' = Written(profile, "worker")
    /\ untold' = TRUE
    /\ UNCHANGED <<tabs, seen>>

WorkerTells ==
    /\ tabs' = Publish(tabs, None, store.profile.pid)
    /\ untold' = FALSE
    /\ UNCHANGED <<store, seen, todo>>

\* The page is loaded anew: what it had not saved is gone, and of what it has
\* saved without being answered nobody is told.
Reopened(t) ==
    /\ Become(t, LoadLatest(NewTab))
    /\ seen' = [seen EXCEPT ![t] = store.profile.items]
    /\ UNCHANGED <<store, untold>>

TabStep(t, scope) ==
    \/ SaveCall(t) \/ SaveCommit(t, scope) \/ SaveAnswered(t) \/ SaveRefused(t, scope)
    \/ Invalidated(t) \/ Effect(t) \/ Confirmed(t) \/ Cancelled(t)
    \/ ResetLoad(t) \/ ResetCommit(t, scope) \/ ResetAnswered(t)
    \/ BookmarksPlan(t) \/ BookmarksSave(t) \/ BookmarksReload(t)

TabOp(t, op) ==
    Edit(t, op) \/ Rotate(t, op) \/ HeardTwice(t, op) \/ Ask(t, op) \/ BookmarksRead(t, op)

-----------------------------------------------------------------------------
(* Properties *)

Saves(t) == store'.rev # store.rev /\ store'.log[store'.rev] = t
Refused(t) == tabs[t].call # None /\ tabs'[t].call = None /\ store' = store

\* Two tabs, a dialog kept open, an import, the worker: a save takes away no
\* edit that its page has neither made nor been shown, unless the revision it
\* goes by was taken by a reset (which does not show it: what was queued before
\* goes by it too, and so does what follows when the reset is refused).
NoBlindOverwrite ==
    [][\A t \in Tab :
          Saves(t) /\ ~tabs[t].blind
             => store.profile.items \subseteq store'.profile.items \cup seen[t]]_tabsVars

\* A page's own saves never refuse one another, however fast the edits come and
\* whatever they overtake: when one is refused for its revision, another page
\* or the worker has written since, or this page has been reset around its
\* queue.
NoSelfConflict ==
    [][\A t \in Tab :
          Refused(t) /\ tabs[t].call # store.rev
             => \E i \in tabs[t].call + 1 .. store.rev : store.log[i] # t]_tabsVars

\* A page that shows an older revision has a broadcast coming, however writes,
\* their answers and broadcasts overtake one another; unless nobody has been told
\* of the newest revision, because its author, a page or the worker, is not
\* answered yet or was stopped before it could tell; or the page took the
\* broadcast to be about another profile.
TabIsTold ==
    \A t \in Tab :
        \/ tabs[t].known = store.rev \/ tabs[t].told # {}
        \/ tabs[t].deaf \/ untold

\* "rejects a stale tab write by revision CAS": with edits alone, no edit that
\* was saved is taken away by another.
NoEditLost == [][store.profile.items \subseteq store'.profile.items]_tabsVars
===============================================================================
