# KeKeio_Tab in TLA+

KeKeio_Tab is a new-tab extension that keeps its profile (groups, shortcuts, settings) locally and,
when the user signs in, synchronises it with a self-hosted Go backend. Three promises are worth a
formal model:

* local first, and never a silent choice between two versions (`src/PRODUCT.md:40-46`,
  `src/README.md:24`): an edit is neither lost nor laid over a version its author has not seen;
* a backup restore, which swaps the database and the secrets, ends with one whole pair
  (`src/backend/internal/server/restore_journal.go:204`);
* what a user files, moves, merges or imports stays on the page, and what a page shows belongs to the
  session it is in.

All are promises about interleavings, lost answers, crashes and long sequences of legal edits, which
the unit tests reach one hand-written order at a time. These modules state them, TLC checks them on
small instances, and TLAPS proves a part of them for every instance.

## 1. The system

| Part | State | Operations |
| --- | --- | --- |
| New tab page (`newtab/App.tsx`), `ProfileStore` (`shared/storage/profileStore.ts`) | profile on screen, known revision, queued saves, open dialogs | edit, save, reset, import, invalidation |
| Profile editing (`shared/profile/mutations.ts`, drag in `App.tsx`) | groups and shortcuts with sort indices and tombstones; press, drag, edit mode | upsert, move, delete, rename, swap; press, hover, wheel, release |
| Wallpapers (`shared/wallpaper/rotation.ts`, `repository.ts`) | selection, history, images on the device, downloads under way | rotate, choose, save, upload |
| Bookmark import (`shared/profile/bookmarkImport.ts`), configuration backups (`backup.ts`, `migrate.ts`) | none | read a file, plan its groups; export, import |
| Page's session and resources (`App.tsx`, `shared/sync/requestGate.ts`) | session the page believes in, generation of the running refresh, request gates, styles, wallpaper lists, previews | connect, disconnect, sync, resolve, load; refresh, load more, hydrate |
| Gist backup (`shared/sync/client.ts`, `githubSyncAuth.ts`) | gist id and hash remembered | back up, overwrite, restore, disconnect |
| `SyncStore` (`shared/storage/syncStore.ts`) | IndexedDB: local profile and revision, metadata per account and profileId, outbox, conflicts | commitProfile, activate/deactivateAccount, claimDue, acknowledge, scheduleRetry, recordConflict, freezeServerEmptyConflict, acceptRemote, forceEnqueueCurrent, resolveConflict |
| `SyncWorkerRuntime` (`shared/sync/workerRuntime.ts`) | session epoch and refresh flights (memory only); calls under way | login, completeFirstConnection, logout, drain, resolveConflict, refresh |
| `CredentialVault` (`shared/sync/credentialVault.ts`) | tokens, session generation, pending decision, request id of an unacknowledged refresh | save, replaceIfCurrent, completeFirstConnection, clearIfCurrent |
| Merge (`shared/sync/merge.ts`, `shared/profile/sharedProfile.ts`) | none | three-way merge, conflicts, resolution; share, accept |
| Sync API (`backend/internal/server/sync_v1.go`) | `sync_profiles`, `sync_versions`, `sync_mutations`, `sync_conflicts` | ApplySyncMutation, get profile |
| Administration (`admin_v1.go`), `retention.go` | the same tables | version restore; deletion of old rows |
| Backup and restore (`backup_security.go`, `admin_v1.go`, `restore_journal.go`) | snapshots; live, staged and rollback files; intent and phase markers; backup records | stage, schedule, apply, roll back, recover, clean up |
| Authentication (`auth_v1.go`) | refresh token families | login, rotate, revoke |
| The rest | alarms, installation, mail, catalog and wallpaper proxy, admin UI, options page, dialogs, deployment | outside what is modelled |

How they interact. Pages and worker share one IndexedDB; every `SyncStore` method is one read-write
transaction, and between two of them anything may run: an edit in a page, a second drain (alarm,
message and resolveConflict start them side by side), a sign-in, the eviction of the worker. A page
edits a copy, saves whole profiles one after the other against the revision it knows, and hears of
other pages' and the worker's writes by broadcast. It asks the worker by messages that the worker
answers in any order, or not at all when the browser stops it. The worker calls the backend over HTTP
with a 30 s timeout; a request given up may still be applied. The backend opens one SQLite connection
(`store.go:53`), so a database transaction is atomic there. Retention and administrators change the
same tables. Restoring a backup replaces the whole database while browsers keep what they remember.

What is hard in it, part by part (all of it, line by line, under `hazards` in `PROJECT.json`):

* pages: a broadcast, a dialog or an import between an edit and its save; correct when no save takes
  away what its page was never shown, and every page is told of every revision;
* editing and merging: sequences of moves, deletions, merges and imports; correct when every shortcut
  stays in a live group at a place of its own, and a merge loses and invents nothing, asks both sides
  the same, and can be answered;
* session: login, logout, first connection and refresh, split at every await between three stores;
  correct when vault and metadata agree at rest, no pending session writes, and no retry of a refresh
  looks like theft to the backend;
* resources: answers that arrive after a logout or another login; correct when the page shows only
  what belongs to its session and can always refresh again;
* store: edits behind a request on the wire, answers out of order or of an earlier session, scopes
  that change when a profile with another id is accepted; correct when the queue has its shape, the
  base is always the server's content of the version it is filed with, and nothing the user has is
  missing from the queue;
* worker: calls that end between their await and their transaction, two drains at once, eviction;
  correct when the store's properties survive, and every queue empties or waits for the user;
* sync API: replay against compare-and-set, with responses that retention deletes; correct when
  versions form a chain of edits, each written once on top of the one its author saw;
* backup and synchronisation: versions going back; correct when no browser overwrites a version
  whose number it only remembers;
* restore journal: a crash or a failed operation between any two of some twenty durable operations;
  correct when the server always comes back with one pair, and with the original one until the
  restore is durable.

## 2. The modules

Four systems, which share the code's parts but not their state: each takes one question as far as a
checker can follow it, and leaves to the others what they ask.

| Module | Models | Uses |
| --- | --- | --- |
| **Synchronisation** | | |
| `SyncStore` | `syncStore.ts`: a store is a record, each transaction a pair `CanX` (it commits) and `X` (the store it leaves) | |
| `ProfileServer` | `ApplySyncMutation`, retention, version restore, on the record of one account | `SyncStore` |
| `ProfileChain` | the abstract specification: what an account's versions may do, without browsers or messages | |
| `SyncProtocol` | the worker's drains, pulls, merges and logins against the server of each account; implements `ProfileChain` | `ProfileServer` |
| `SyncRecovery` | `SyncProtocol` with backups taken and restored and profile rows lost | `SyncProtocol` |
| **New tab pages** | | |
| `Pages` | who acts: the pages and the worker, and how operations are named | |
| `Tabs` | `profileStore.ts` and the profile's state in `App.tsx`: copies, queued saves, revisions, broadcasts, dialogs, imports, reset | `Pages` |
| `Session` | login, logout, first connection, authenticated calls and refresh flights, await by await (`workerRuntime.ts`, `credentialVault.ts`), and the token families of `auth_v1.go` | `Pages` |
| `PageResources` | what a page fetches for its session, and the gates that drop late answers (`App.tsx`, `requestGate.ts`, `writableSessionRequestGate.ts`) | `Pages` |
| `GistBackup` | backups to a gist (`client.ts`, `gistBackup.ts`, `githubSyncAuth.ts`, `App.tsx`) | `Pages` |
| `Newtab` | the composition: the jobs a page runs while `syncBusyRef` is set | all four |
| **Profiles** | | |
| `ProfileEdits` | `mutations.ts`, as functions on profiles | |
| `Wallpapers` | rotation, and images fetched, stored and then shown | `ProfileEdits` |
| `ProfileMerge` | `merge.ts`, `sharedProfile.ts`, `migrate.ts`, `backup.ts`, as functions | `Wallpapers` |
| `BookmarkImport` | `bookmarkImport.ts`: the reader with its stack, and the plan | `ProfileMerge` |
| `Drag` | the drag of a shortcut in `App.tsx` | `ProfileMerge` |
| `Editing` | the composition: two devices that edit, exchange, import and drag | all five |
| **Restore** | | |
| `RestoreJournal` | `restore_journal.go`, `applyAdminV1Restore` and the restore handler | |
| **Proofs and instances** | | |
| `SyncStoreProofs`, `SyncProtocolProofs`, `SyncRecoveryProofs`, `RestoreJournalProofs`, `SessionProofs`, `NewtabProofs`, `ProfileProofs`, `EditingProofs` | lemmas and theorems | |
| `MCSyncProtocol`, `MCSyncRecovery`, `MCNewtab`, `MCEditing` | values for the constants | |

`SyncProtocol` splits every worker method at its network calls. What the method read before the call
is a record in `logins`, `pulls`, `puts` or `merges`; the action that ends the call evaluates again
the checks the code's transaction makes, and nothing else protects it. `DrainClaim`, `ServerPut` and
`DeliverAck` (or `DeliverConflict`, `DeliverServerEmpty`, `DeliverRefused`, `CallFails`) are one
drain. `CallFails` and `WorkerStops` leave a request that was not served in `late`, from where
`ServerLate` may apply it at any time. `LoginStart` and `Logout` empty `logins` and `pulls` because a
new session epoch stops those calls. `Decided` lets the vault's `completeFirstConnection` happen or
not: the worker may be evicted between the two databases. How vault, metadata and epoch come to agree
is left to `Session`, which has no outbox.

`Session` has one record per message the worker is answering, in `calls`; its `stage` is the await it
is at. An action is what runs between two awaits, so every guard it reads is read in that turn, and
what it read earlier is in the record. A refresh is a flight of its own that several calls wait for.
`Evict` empties the worker's memory. `RotateRefreshToken` is the backend's transaction: token number
`k` of a family is used once, and once more by the same request within 60 s. `Newtab` adds what a
page does before a message is sent and after its answer came (`Connect`, `ConnectAnswered`, ...), and
what `completeFirstConnection` and `resolveConflict` write to the store (`FirstStores`,
`ResolveConflict`); `Answered` hands each job the answer to its own message.

`Tabs` keeps a profile as its id and the set of edits it is the result of: which edit is lost is what
its properties ask, and what an edit does is `ProfileEdits`' business. A save is queued with the run
that asked for it, taken up when the one before has ended (`SaveCall`), and committed or refused by
the store's compare-and-set (`SaveCommit`, `SaveRefused`). A commit and what follows its answer are
two steps: `Commit` writes the store and leaves in `wrote` what the page waits to be answered;
`CommitAnswered` makes it the revision the page knows and sends the broadcast (`profileStore.ts:64-66`,
and `80-82` for a reset). Between the two the others do not know, and the page may be closed: then
they are not told (`untold`). `told` is the profile ids of the broadcasts that are on their way to a
page, each of which may come before or after any write or answer; `Hears` compares the id in the
message with the page's own, as the code does, and loads what is stored by then. One goes out on two
channels: `Invalidated` is the last that is heard of it, `HeardTwice` one that comes again.

`Editing` calls the functions of `mutations.ts`, `merge.ts` and `bookmarkImport.ts` on real arrays of
entries. Its devices are two authors who agree on `base`; at each state the properties ask what
merging the two profiles would give, in either order, with any answers to the conflicts, so the
exchange itself needs no state. `Drag` splits a drag into the pointer's events; between two of them
another page of the device may edit, which is why a release looks everything up again. A file to
import is one a device has exported, or one of an older version, which shows the entries both devices
started from; `Portion` is what it shares once it is migrated.

What is abstracted:

* in `SyncProtocol` a shared profile is its `profileId`, which keys scopes, and a `body`, everything
  else. SHA-256 is taken to be injective, so a hash is the profile, and `base` stands for hash and
  snapshot at once; a merge is a relation (`Resolutions`, `Rebased`): a field only one side changed
  follows exactly `mergeScalar`, a body both changed may become any body;
* in `ProfileMerge` eight scalar settings stand for all that are merged one by one, `style` for what
  the theme has besides `columns`; a shortcut's title and url are one value. An icon is of the kinds
  that `migrateProfile` and `portableIcon` tell apart: the favicon of its address or of a former one,
  the first letter of its title, another text, a local image, or an image by address. What older
  versions called default, the engines, the built-in wallpapers and the addresses with an icon of
  their own are constants, so that every migration is a case of `Migrated`. That a user's own engines
  are merged into the list of this version's, which are always in it, is left out. In
  `BookmarkImport` titles are sequences of texts, and the limits on bytes are left out, which refuse a
  file as a whole;
* times are left out of `SyncProtocol`: whatever waits for `nextAttemptAt` may be due. In `Session`
  the two times that matter, 60 s and 15 minutes, pass by `TimePasses`, at any moment;
* quota refusals, timeouts and network errors look alike to the worker (`CallFails`);
* fresh ids are counters. In `Editing` one device counts up from the ids there are and the other
  down (`nextId`), so that no two ever give one id, as with `crypto.randomUUID`; a group and a shortcut
  are looked up apart and may have one number. `SyncRecovery` keeps the server's counter through a restore because the
  code's ids are random;
* the server's history keeps the base an author had in front of him, which the request does not
  carry: a history field, read by properties only. So are `seen`, `blind`, `deaf`, `untold` and the store's log in
  `Tabs`, `decided` and `evicted` in `Session`, `known` in `GistBackup`, and `stray` in `Editing`;
* in `RestoreJournal` a file is the generation of the pair it belongs to, and an operation fails
  without effect or, when only the directory sync failed, with it. Why a token family is revoked is
  its first reason.

What is assumed of the environment, each where it is used: the backend's answer to a login takes
longer than a local write that another login has begun (`LoginAnswered`); the startup session is
known before the user acts (`Reopen`); another device that writes the gist has this one's profile id
(`BackupElsewhere`); a page's modal dialogs stop its own flow only; a bookmark import is one step of
`Editing`, its awaits being those of `Tabs`; a page with no edits left does not drag.

Operators marked "(slip: ...)" are plausible mistakes in the operator next to them. Nothing in the
specifications uses them: each is the mutated form of a definition, and shows that a property
would notice (`mutants` in `PROJECT.json`).

## 3. The runs

Every configuration says `CHECK_DEADLOCK FALSE`: the systems end where the bounds are used up.

| Run | Instance | Question |
| --- | --- | --- |
| `progress` | 1 browser, 2 drains at once, 2 mutations, 2 edits, an administrator writing up to version 2, 1 response forgotten, 1 fault, `FairSpec` | does every queue empty or wait for the user, when edits, answers, conflicts, evictions and duplicate requests interleave; does the base stay the server's? |
| `two_browsers` | 2 browsers on one account, 1 edit each, 3 mutations, 2 sessions | is anything lost or overwritten unseen between two authors who conflict and resolve? |
| `two_sessions` | 1 browser, 2 accounts, one with a profile of another device, both login scopes, 3 mutations, 2 edits, 1 fault | does an answer, a row or a request of an earlier session disturb a later one, or the shape of the queue? |
| `recovery` | 1 browser, 2 sessions, 1 backup restored, 1 profile lost | is a version overwritten unseen after the server went back in time; does a browser refill an emptied account by itself? |
| `restore_journal` | 3 restores, 4 faults, the marker never in doubt | one pair, original kept, record settled, completed stays completed |
| `restore_faults` | the same with the marker in doubt, `FairSpec` | is the intent the last to go; does the server always serve again? |
| `newtab` | 2 pages, their worker, 23 sets of two to five operations, both login scopes | do saves, dialogs, imports, resets, broadcasts, the worker's writes, logins, logouts, refreshes, late answers and gist backups keep what they promise, in every order and at every await, pages closed at any moment included? |
| `editing` | 2 devices, 2 groups, 2 shortcuts, a local icon on one of the devices, 3 edits in all (2 and 1, or 3 and 0), 2 bookmark files, 2 files of an older version, 1 image | does anything vanish, lose its place, merge differently on the two sides, or come back from a device other than it was sent? |
| `tabs`, `scope`, `queue`, `doubtful_marker` | see section 5 | four statements of the code and its tests that its behaviour violates |

Properties of synchronisation:

* `ChainSpec` (refinement): versions of an account are appended only, an edit once and on top of the
  version its author had. It covers replay, compare-and-set, late requests and forgotten responses
  in one statement;
* `BaseIsHistory`: version number and base never part, in metadata, queue, conflicts and calls;
* `OutboxShape`: one waiting mutation, one ahead of it, and the waiting one has no base exactly then;
* `NothingForgotten`: what the user has and the server does not is in the newest queued mutation;
* `IdleMeansSynced`: a profile shown as in sync is the server's content of its version. Version 0 is
  left out, where the base is the profile as it was at sign-in (a hazard in `PROJECT.json`);
* `NeverRefused`: no retry is taken for another request under an old id, no resolution names a
  closed conflict; both would be retried for ever;
* `EventuallySettled` (liveness);
* `NoLostUpdate`, `FrozenIsKept`, `FrozenIsSilent` (`SyncRecovery`).

Of the new tab pages:

* `NoBlindOverwrite`: no save takes away an edit its page has neither made nor been shown. Exempt is a
  save that goes by a revision taken by `reset`, which loads the newest without showing it;
* `NoSelfConflict`: a page's own saves do not refuse one another, however fast they come;
* `TabIsTold`: a page on an older revision has a broadcast coming, however writes, their answers and
  broadcasts overtake one another. Two things are exempt. One is a newest revision of which nobody has
  been told, because its author, a page or the worker, is not answered yet or was closed or stopped
  before it could tell: this the code does, and no later step makes up for it but the next write. The
  other is a page that took the broadcast to be about another profile. In both the page stays on what
  it shows, and what then protects the newer profile is `NoBlindOverwrite`;
* `SessionIsWhole`: a session that may write has a first connection that reached the store; and at
  rest a session in the vault has its own metadata row, unless the worker was ever stopped midway;
* `NeverLocksItselfOut`: concurrent refreshes, lost answers and a stopped worker make the backend
  revoke a family for replay only when 60 s have gone by since the lost answer;
* `ResourcesOfSession`: what a page shows was asked for by the session it is in, and it never believes
  a refresh to be running that is not;
* `GistGuard`: a backup replaces, unasked, only what this page had put there or loaded, or what came
  between its look at the gist and its write.

Of profiles: `Visible`, `OrderIsTotal` (every shortcut in a live group, at a place of its own),
`NothingVanishes`, `MergeCommutes`, `Resolvable` (the merge), `AcceptIsFaithful` (accepting is not an edit,
except where an own icon hides another, a wallpaper is missing or retired: exactly then it is),
`AcceptSettles` (and then the other device accepts it as it is), `ImportIsFiled` (bookmarks under the folders the file was written from, nothing twice),
`LocalIsStored`, `RotationMoves` (wallpapers), `DropTakesPlace` (drag). The reference definitions are
in the properties themselves: `NothingVanishes` says by set difference what a merge owes, `MCFiles`
lists the bookmarks each file was written from.

Of the journal: `WholePair`, `OriginalIsKept`, `RecordIsSettled`, `CompletedStays`, `JournalIsLast`,
`ServesAgain`.

Why the bounds suffice. The queue of a scope holds a mutation ahead and one behind: three mutations
and two edits (`two_sessions`) reach "sent, edited, edited again"; three and one edit in each of two
browsers (`two_browsers`) reach "conflict, edited, resolved". Two slots give both answers to one
mutation. Two bodies make two profiles differ, conflict and return to base; the second `profileId`
gives a browser that accepts a profile drawn elsewhere. Two generations give an old session and a new
one. One fault is a lost answer followed by a retry, or an eviction with a request under way. With
three mutations `progress` outgrows its time, so the queue's shape is asked where liveness is not.
`two_browsers` needs no fault of its own: one browser's slow request is the other's late one. For the
journal, four faults allow a crash in the restore, in the rollback, and two in what follows, and a
third restore meets what two left behind. In `newtab` the constant `Scenarios` names the operations
that run together, and every order and every interleaving of their awaits is explored: two saves in
one page against one or two in the other, each flow that holds a profile across an await beside an
edit of the other page, a page closed and opened again at every moment of a save and of a reset, the
worker's writes beside both pages'; two logins, login and logout and login, three refreshes' worth of
calls with both times passing; gists from two pages and a third device. A broadcast goes out on two
channels and comes a second time (`HeardTwice`) where the set has `twice`. A third page or a third
login meets no state that two do not make.
In `editing` three edits are enough to delete a group under a shortcut
that moves, to reorder around a tombstone, and to delete, edit and add on two sides; a drag with two
edits of other pages before its release; nested, unnamed, unclosed and superfluous lists in the
files, whose limits (depth 2, stack 4, 9 shortcuts, 5 groups) are in reach. `SYMMETRY` is over `Body`
only, whose elements no definition tells apart, and in runs without liveness.

Fairness. `FairSpec` of `SyncProtocol` is weak fairness of each browser's drain and of taking its
answers (alarms, a heartbeat and one for what falls due, and every message wake the worker) and of the
server answering. Failures are bounded by `MaxFaults`; users need do nothing. `FairSpec` of
`RestoreJournal` is weak fairness of the process going on (its supervisor restarts it; the restore ends
by shutting the process down on purpose). No strong fairness is used anywhere. The page models state
no fairness: a browser may close a page or stop a worker at any time, and nothing there is promised to
happen.

## 4. The proofs

Every theorem holds for any sets of browsers, accounts, pages, ids, bodies and operations, and any
bounds, from the assumptions the modules state: `None` is neither a number nor a profile nor a metadata
row, the initial ids and seeded profiles are such, no page has the name of the worker or of the reset
in the store's log, the scenarios are sets of operations, the scopes are the backend's two, the bounds
are numbers. `Editing` assumes besides that there are two devices; that `None` is no id; that there are two wallpapers which
are not local images; that a bookmark file is a sequence of tags; and that the profiles to start with
are what `migrateProfile` lets through: fields of the schema, a live group, shortcuts on the page, an
image in the database for every local wallpaper listed or shown, and shared as they are they pass
`sharedProfileV2Schema` (ids once, every shortcut in a group of the list). Two theorems have a
hypothesis of their own, named where they are described.

### Synchronisation

`SyncProtocolProofs` proves every safety property that runs check of `SyncProtocol`, and the refinement.
What one transaction of the store does is in the lemmas of `SyncStoreProofs`, by what they are about:
types, queues, bases, sessions. None of the properties is inductive. The invariant `Inv` that carries them is built in five layers, each kept by every action given those before it:

* `TypeInv`: `TypeOK`, and that whatever is in flight, in conflict or on the wire has a base
  (`QueueInv`, `PutInv`, `LateInv`), because `claimDue` waits for one; that stored responses which are
  read carry their profile (`LogInv`). Theorems `TypeIsKept`, `WireIsTyped`.
* `IdInv`, about browsers alone: each queue has its shape (`ShapeInv`), an id names one row and one
  request (`OneRow`, `SentOnce`), what is on the wire is a copy of its row as long as the row is in
  flight (`SentRow`), and a merge under way reads the conflict that is stored (`MergeInv`). Theorem
  `QueueHasItsShape` (`OutboxShape`).
* `ServedInv`, about the servers: they have seen no id that still waits (`Unserved`), and know the id
  of a copy only as that copy's, one version above its base (`WrittenAs`, `LoggedAs`). This is why an
  idempotency key may be retried after any loss. Theorem `IdsIdentify`.
* `BeliefInv`: every version number with a base, wherever it is kept, is a pair that the server of its
  account holds (`BeliefsIn`); responses in the log name versions that are there (`LogsHold`); an
  answer "ok" says what was written (`OkSays`). It is stated for any set of pairs `Known` and any set
  of generations that count, so that `SyncRecoveryProofs` can use it where some are no longer true.
  Theorem `BasesAreHistory` (`BaseIsHistory`), and with `ServedInv` theorem `ChainIsImplemented`
  (`Spec => ChainSpec`): the initial states map, `ServerPut` and `ServerLate` map to an edit of
  `ProfileChain` or a stutter, an administrator's restore to one, everything else to a stutter.
* `SessInv`: generations are opened once (`GenInv`), and the row of a session that is ready is backed
  by its outbox: what differs from the base is in the newest mutation, a status of "idle" has nothing
  queued (`Sessions`, `AtWork`); a login under way has not yet written anything of its generation
  (`NewLogin`). Theorems `NothingIsForgotten`, `IdleIsSynced`.

`NothingIsRefused` (`NeverRefused`) adds `ResInv`: a conflict is raised under one number for one
mutation, is resolved by one mutation at most, and stays open until that one is served.

`SyncRecoveryProofs` is about backups restored and profile rows lost, where `BeliefInv` is false: a
version number that a browser remembers may name another profile, or none.

* `RestoresLoseNoUpdate` (`NoLostUpdate`). `RecInv` keeps the layers that speak of browsers, and adds
  that the revoked generations are opened ones. `TrustInv` says what is left of the beliefs: while no
  row was lost, those of sessions not revoked (`Live`) are held by the server, and the histories of
  the server and of the backup are chains. A restore cuts the history back and revokes every session
  opened before it, so what was believed on the strength of the versions cut off is of a session the
  server refuses; a new session starts from what it pulls. A lost row revokes nobody: there the
  property claims nothing, and freezing takes over.
* `FrozenStays` (`FrozenIsKept`) and `FrozenSendsNothing` (`FrozenIsSilent`): the first lists what each
  transaction may do to a frozen row, the second that `claimDue` is the only way to the wire and never
  takes a row behind or beside a frozen one.

### The restore journal

`RestoreJournalProofs`, for any number of restores and faults. `TypeIsKept` and `IntentGoesLast`
(`JournalIsLast`) hold whether the completed marker may be in doubt or not; their invariant `LastInv`
says that without an intent both files are in place, that a rename finds the file it moves, and that
the cleanup has removed what it has passed.

`PairIsWhole`, `OriginalSurvives`, `RecordSettles` and `CompletedIsFinal` have the hypothesis
`DoubtfulMarker = FALSE`, which is needed: see `doubtful_marker` below. Their inductive invariant
`IInv` says what the files hold at each place of the code so that the next start finds its
way: `AgeInv` (generations grow, so a record never names a pair staged later), `QuietInv` (while
serving the pair is whole and nothing is aside), `ApplyInv` (which renames are done at each step),
`UndoInv` (both originals are in place or aside), `CleanInv` (the pair is whole before anything is
removed) and `DownInv` (what a crash may leave). `HandleStep`, `ApplyStep`, `UndoStep`, `CleanStep`
and `OtherStep` preserve it.

### The new tab pages

`NewtabProofs`, from `NoneAssumption` (`None` is neither a number nor a page) and `PageNames`, and for
`SessionsAreWhole` also `RowAssumption` (`None` is no metadata row) and `ScenariosAssumption`:

* `EveryTabIsTold`: `Spec => []TabIsTold`. The invariant `ToldInv` adds the shape of a page's state and
  `WriterIsTold`: a page whose write is not answered has written the newest revision, or has a
  broadcast coming of a later one, or nobody has been told yet. It is needed because the answer makes
  the page know the revision it wrote, which may be an older one by then. A step of `Tabs` either leaves
  every page as well informed as it was (`BecomesAsTold`), makes the acting page current
  (`BecomesCurrent`), writes and owes a broadcast (`CommitOwes`), or sends it to all others
  (`AnswerTells`); and what the rest of the page does to the profile are such steps.
* `NoFamilyIsReplayed`: `Spec => []NeverLocksItselfOut`. The invariant `TokensInv` of `SessionProofs`
  says why a retry is recognised: the vault's refresh token is the family's last, or the one before
  it, and then the vault still holds the id of the request that used it (`Fresh`); a flight has what
  the vault has as long as its session is the vault's, and there is one flight for a session
  (`FlightsInv`); a login about to be saved is the last one accepted, and nothing has used its tokens
  (`SavingInv`: here the assumption on logins enters). `RotateKeeps` is the backend's side; one lemma
  for each action shows the rest.
* `SessionsAreWhole`: `Spec => []SessionIsWhole`. `WholeInv` adds to `TokensInv` what every call under
  way still owes to the vault and the metadata row. A vault without its row has a call that will write
  the row or empty the vault (`RowWhole`, `Settling`); a login that is current, or about to write its
  row, has not been replaced in the vault, and a logout past its clearing is of a session that is no
  longer there (`CallWhole`). Of two logins only one is at a write, and it is the later one
  (`PairWhole`): the epoch a login takes when it starts is what an older one fails at, and here the
  assumption on logins enters again. `EditsInv` gives that a profile id is a number, `OpsInv` that what
  pages ask for are operations. The lemmas are one for each action, as for the tokens.
* `PagesShowTheirOwn`: `Spec => []ResourcesOfSession`. `PagesInv` adds the shapes of the
  requests under way and, for the composition, that a job which signs in has a page without a
  session (so that nothing on it is another session's when the new one comes) and one that asks for a
  conflict has a page with one (`JobOk`). The gates themselves are not needed for safety: the session
  check beside each of them is what the proof uses.
* `NothingOverwrittenBlindly` (`NoBlindOverwrite`) and `OwnSavesAgree` (`NoSelfConflict`). Whatever a
  page holds (its copy, the rendered one, each queued save, what a dialog keeps) is made of edits the
  page has seen, except a bookmark plan not yet shown (`Holds`); and a revision a page goes by is the
  stored one, or was followed by somebody else's (`KnowsRev`); if it is the stored one, its edits have
  been seen, unless a reset took it (`KnowsFine`). Until a write is answered, the revision written
  stands for the known one. `EditsInv` says all this; `CommitFine` is the step that matters, where one
  page writes and the others fall behind by a revision that is not theirs, and `AnsweredFine` the one
  where it goes by its own. `SaveWrites` then shows that only `SaveCommit` writes a revision in a
  page's name.
* `BackupsAreGuarded` (`GistGuard`). `GistInv` says of a backup about to write, unasked, that the gist
  is as it was at the look and of a hash the page had, or has been written since (`Guarded`); it needs
  that ids name gists that exist and that a hash remembered is one the page had, also after the page
  is opened again (`AuthFine`). A restore shows what a gist holds, so `EditsInv` needs `GistInv`, and
  a backup takes what the page holds, so `GistInv` needs `EditsInv`: they are proved together
  (`EditsAndGists`).

### Profiles

`EditingProofs`, for any profiles, files and number of edits; what the functions do is in the lemmas
of `ProfileProofs`. Three invariants carry the theorems, each kept by every action given those before
it. The first is `Safe`: there is
a set of values (titles, addresses, times, wallpapers; an edit may make it larger) such that every
profile, the base and an exported backup are of the schema over it, and

* `Housed`: some group is live, there is a shortcut, and every live shortcut is in a live group or in
  `stray`. It speaks of the profile a page holds and of the backup it may read again, because a
  restore brings back what was exported. `Visible` alone is nearly enough; what it lacks is
  that the array of shortcuts is not empty, which is when `migrateProfile` would put the defaults in.
* `KeysIn`: local images that are listed or shown are stored, and what other devices are told is not a
  local image. `Images` adds that what a fetch under way is about to show has been stored: the
  `await` of `saveLocalWallpaper` comes before the edit.

Each function of `mutations.ts` has a lemma for each of the two (`DeleteHouses`, `MoveHouses`, ...,
`RemoveKeeps`), each action has one that puts them together. A bookmark import reads a sequence of
tags with a stack and files a sequence of bookmarks: two folds. `StepByStep` says what a function
defined by its value one place earlier has at every place, by the least place where it would not; no
induction theorem is cited. `ReadsInSteps` is that for the reader, `ImportHouses` for the plan.

The second is `OwnNames`, theorem `NamesAlways`: in every profile, the base and the backup no list has an
id twice and every shortcut names a group of the list (`Named`); every id was given, that is, lies
strictly between the two counters (`Within`); and every entry the two devices started from is still
there, live or as a tombstone (`Descends`). The code relies on all three. A merge looks up both sides by
id and takes an id the base lacks to be new, which is wrong once an id is given twice; the merged list
is checked against the same schema; and an entry removed rather than marked would come back from the
other device. `Descends` is kept because `mutations.ts` never removes an entry from an array.

The third is `PickedUp`: what is dragged is an entry with an id, over another one or over none.

* `VisibleAlways`, `LocalIsStoredAlways`: from `Safe`.
* `AcceptIsFaithfulAlways`: `AcceptReturns` follows `sharedProfileToLocalProfile` and back through
  `toSharedProfileV2`, icon by icon (`IconReturns`) and key by key (`KeysReturn`), for a profile that
  has been migrated (`Fresh`), as every uploaded one has; migrating twice is migrating once
  (`MigratedIsFresh`). The two conditions say when an icon and the wallpapers come back, and each is
  shown both ways. `DeviceReturns` gives it for the profiles of the system.
* `AcceptSettlesAlways`: what came back has the letter of an own icon, a retired wallpaper's stand-in and
  a list that is not empty (`ReturnsOnce`), which a second device returns as they are (`ReturnedSame`).
* `RotationAlwaysMoves`: where there is another wallpaper at all, the candidates leave out the one shown
  (`CandidatesDiffer`), whichever list they come from.
* `MergeAlwaysCommutes`: `mergeScalar` is symmetric (`ScalarCommutes`), so the merged entries are, id by
  id (`MergedEntries`), the merged list of wallpapers (`IdsCommute`) and the questions asked
  (`AskedCommutes`). It needs of `Safe` only that an entry is a record of the schema.
* `OrderIsAlwaysTotal` (`OrderIsTotal`), for profiles that start in order (hypothesis: live groups, and
  the live shortcuts of a group, have distinct places; the schema does not ask for it, so a profile
  of another origin may not). Each function keeps `Ordered`: `MoveOrders` says it of `moveShortcut`, which
  renumbers the group it leaves and the one it enters, `UpsertOrders`, `DeleteGroupOrders` and the others
  of the rest. `OwnNames` is needed, because a place belongs to an entry only as long as its id does.
* `NothingVanishesAlways` (`NothingVanishes`), for every answer to every set of conflicts. The answers are
  applied one at a time, a fold over a set (`Settled`); `SettlesInSteps` turns it into a function of the
  number of answers taken, and `SettledEntries` says what it leaves: under an id that was asked about what
  was decided, under any other what was merged. Copies are added behind (`CopiesList`), group ids
  are set on what is there (`ResolvedInParts`), and the schema's check refuses a result rather than
  change it. `ResolvedHolds` says whose entry is under each id, and `DueLives` that what is owed is live.
* `ResolvableAlways` (`Resolvable`), both ways. If every shortcut without a group can be housed, the answers
  that keep a group the other side has live, and give each shortcut the group that is kept, resolve
  (`Keeping`, `KeepingResolves`); if answers resolve, each shortcut has a kept group or was left deleted
  (`ResolvedIsHousable`). The hypothesis `NoneIsNoProfile` says that `None`, which stands for a refusal, is
  not a profile; no configuration could evaluate it, but a model value is no function.
* `DropAlwaysTakesPlace` (`DropTakesPlace`): a list in order of place, with one entry taken out and put
  before or after another (`MovedList`), has it at the place the other one had, and keeps the
  rest as it was (`DropTakes`, `DropKeeps`). A place is the number of entries before it, so both are facts
  about the cardinality of the image of a set (`ImageCounts`, `RankCounts`). The target is looked up at the
  release: `PickedUp` says all that a page remembers of it.

### What is only model-checked

* `EventuallySettled` and `ServesAgain`: liveness under fairness is out of the prover's reach.
* `ImportIsFiled`: it says what the folds of the reader and of the plan compute together, for files whose
  structure `MCFiles` gives, and not what each step of them keeps. That is an induction over the tree a
  file was written from.
* That no id is ever given twice by one device and that ids of two devices differ is how `nextId` is
  defined; that what the profiles hold stays within is proved.
* The four properties of section 5 are violated; there is nothing to prove.

## 5. What disagrees

* `scope`: `resolveConflict` writes the merged profile in place (`syncStore.ts:770`); when the
  resolution takes the remote `profileId`, the session's metadata stays under the old one, and every
  later edit fails the assertion of `syncStore.ts:357`. `acceptRemote` re-keys the row, this does not.
* `queue`: `acceptRemote` (`syncStore.ts:526`) clears the outbox of the scope it leaves, not of the
  one it enters. What an earlier session left in flight there fails the assertion of
  `syncStore.ts:429` on every drain. `forceEnqueueCurrent` drops such a row.
* `doubtful_marker`: `restore_journal.go:204` promises one pair after every interruption. When the
  completed marker is durable but its writing or its check reported an error, the rollback runs with
  the marker in place, and a crash between its renames leaves a mixed pair that the next start takes
  for the installed one.
* `tabs`: `profileStore.test.ts:62` says a stale tab's write is rejected by its revision. A page that
  hears the broadcast while an edit of its own is queued loads the new revision and then saves the
  older content under it: the other page's edit is overwritten without an error.

Seen while modelling, and kept in the models as they are:

* some merge conflicts have no answer that `resolveMergeConflicts` accepts (`merge.ts:327-338`), although
  `README.md:24` offers the choice of a side. Where one side deletes a group that the other only adds
  a shortcut to, the user is asked for the shortcut's group and not for the group; and where each side
  deletes the group in which the other has a shortcut, neither group is kept. `Resolvable` says
  exactly which conflicts these are. That only added shortcuts are concerned is true within the bounds
  of `editing` and false beyond, with three groups: the proof of it failed there;
* `upsertShortcut` does not look whether the form's group is still live (`mutations.ts:7`): the
  shortcut is stored and on no page (`stray` in `Editing`);
* `deleteShortcutGroup` renumbers groups by their place in the array (`mutations.ts:263`); after a
  merge two entries may share a sort index, and moving one past the other then changes nothing;
* accepting a profile may look like an edit, and is uploaded again: a local icon that the device keeps
  under a shortcut's id is shared as the first letter of the title (`sharedProfile.ts:147,236`), a list
  without wallpapers is filled (`migrate.ts:137`), a wallpaper that this version does not have is
  replaced (`migrate.ts:78`). `AcceptIsFaithful` says that there is nothing else, and `AcceptSettles`
  that it ends there;
* a former default chosen again does not stand: an overlay of 16 % or 58 %, which the control offers, or
  the looks of `migrate.ts:91-108` are replaced when the profile is next loaded;
* the rotation's candidates leave out the wallpaper shown, so the history forgets it, and A, B, A is
  possible; a rotation from the web stores a new image each time and writes the mode back;
* a broadcast whose profile id is not the page's own is ignored (`App.tsx:615`): after the worker has
  taken a profile with another id, a page of the old one stays on it, and its saves are refused; worker
  and pages broadcast only after the answer to their write (`profileStore.ts:64-66`), so a worker stopped
  or a page closed in between tells nobody, and the others stay on the older profile until the next
  write;
* a login that fails after its save, or a worker stopped midway, may leave an active metadata row with
  an empty vault, or a session without a row: `SessionIsWhole` is one-directional for it;
* `rememberBackendAuth` sets the page's session before the save that may fail; `loadProfileFromBackend`
  leaves the page's session pending until it is opened again; official wallpapers outlive a logout on
  the page; what the worker answers about catalog and conflicts is its current session's, whoever asked;
* a refresh retried more than 60 s after its answer was lost ends the session by design;
* a reset loads the newest revision before it writes (`profileStore.ts:71`); when the write is refused
  because another account's profile id is active, the page stays on that revision without showing it,
  and its next save is laid over it without an error (`blind` in `Tabs`);
* a gist may be written by another device between a backup's look and its write: GitHub has no
  compare-and-set (`GistGuard` exempts it);
* a drop goes by the profile of the moment of release: a target that another page has moved to another
  group takes the shortcut along, and a group deleted meanwhile makes the drop do nothing.

## 6. Not modelled, and the plan

Not modelled: canonical JSON and field conversion (pure data), validation, limits on bytes and quotas
of the request body, rate limits, CORS, logging, passwords and lockouts, installation, mail, the
catalog and wallpaper proxy behind the answers a page takes, the alarms (a drain may start at any
time), the options page (the same `ProfileStore` calls without broadcasts), the dialogs' queue (an
answer may come at any time or never), the administration UI and deployment. `PROJECT.json` lists
every part with its reason.

The plan, most important first. Done: the sync core, its abstract specification and the two
recoveries; the pages with their session, tokens, resources and gists; editing, merging, importing and
dragging; every property of the passing runs proved but liveness and `ImportIsFiled`, the refinement
included. What is left:

1. the alarms, as two timers re-created after every message, with the race of two ensure calls;
2. `ImportIsFiled` beyond the files of `MCFiles`, which takes a description of all trees of a file.
