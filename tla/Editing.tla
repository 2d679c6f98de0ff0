------------------------------- MODULE Editing -------------------------------
(***************************************************************************)
(* Two devices that last agreed on a base edit their profiles apart: what  *)
(* the edits of a new tab page (App.tsx) leave on each, and what merging   *)
(* the two, accepting one on the other or importing a file into one would  *)
(* give.  When and how the devices exchange profiles is SyncProtocol's.    *)
(***************************************************************************)
EXTENDS BookmarkImport, Wallpapers, Drag

CONSTANTS Device,        \* two of them
          Start,         \* profiles both may start from
          Scenarios,     \* bound: a bookmark file, the edits of each device, and of what;
                         \* and an exported profile of an older version
          Stored,        \* [Device -> local images it has at first]
          Pictured,      \* [Device -> ids of the shortcuts it has local icons for at first]
          Urls, Icons, Titles, Columns, Styles, Overlays

ASSUME DevicesAssumption == \E d, e \in Device : d # e /\ Device = {d, e}
ASSUME NoneAssumption == None \notin Int \* no id
ASSUME WallpapersAssumption ==
    /\ Packaged \subseteq Web /\ Mist \in Builtin
    /\ Builtin \cup Web # {Mist}
    /\ (Builtin \cup Web) \cap LocalWallpaper = {}
    /\ None \notin Builtin \cup Web \cup LocalWallpaper
    /\ Retired \cap (Builtin \cup Web \cup LocalWallpaper) = {}
    /\ Stored \in [Device -> SUBSET LocalWallpaper]
\* What sharedProfileV2Schema accepts, with a place for every shortcut.
Shareable(s) ==
    /\ s \in [pid : {s.pid}, engine : {s.engine}, columns : {s.columns}, style : {s.style},
              overlay : {s.overlay}, mode : {s.mode}, source : {s.source},
              groups : Seq(Entries(s.groups)), shortcuts : Seq(Entries(s.shortcuts)),
              selected : {s.selected}, ids : Seq(Entries(s.ids))]
    /\ \A g \in Entries(s.groups) :
          g \in [id : Int, title : {g.title}, sort : Int, at : {g.at}, del : BOOLEAN]
    /\ \A x \in Entries(s.shortcuts) :
          x \in [id : Int, group : Int, url : {x.url}, icon : {x.icon}, sort : Int, at : {x.at},
                del : BOOLEAN]
    /\ WellFormed(s) /\ s.selected \notin LocalWallpaper
    /\ Live(s.groups) # {} /\ s.shortcuts # <<>> /\ Homeless(s) = {}
    /\ None \notin Entries(s.ids) \cup {s.selected}

\* An older version's file is of an earlier state of the same entries.
ASSUME ScenariosAssumption ==
    \A s \in Scenarios :
        /\ s.edits \in [Device -> Nat] /\ s.images \in Nat
        /\ s.file = None \/
           /\ s.file.tags \in Seq(Entries(s.file.tags))
           /\ \A tag \in Entries(s.file.tags) : tag.is \in {"text", "open", "close", "dl", "/dl"}
        /\ s.backup = None \/
           /\ Shareable(Portion(s.backup))
           /\ \A p \in Start : /\ Ids(Portion(s.backup).groups) = Ids(p.groups)
                              /\ Ids(Portion(s.backup).shortcuts) = Ids(p.shortcuts)
\* Profiles as the page's store gives them, which has migrated them: no page
\* shows an image that is not in its database, and what two devices agreed on
\* has passed sharedProfileV2Schema.
ASSUME StartAssumption ==
    \A p \in Start :
        /\ p \in [pid : {p.pid}, engine : {p.engine}, columns : {p.columns}, style : {p.style},
                  overlay : {p.overlay}, mode : {p.mode}, source : {p.source},
                  groups : Seq(Entries(p.groups)), shortcuts : Seq(Entries(p.shortcuts)),
                  selected : {p.selected}, portable : {p.portable}, ids : Seq(Entries(p.ids)), history : Seq(Entries(p.history))]
        /\ Shareable(ToShared(p))
        /\ p.engine \in Engines /\ <<p.columns, p.style>> \notin OutdatedLooks
        /\ p.overlay \notin OutdatedOverlays
        /\ \A s \in Entries(p.shortcuts) :
              /\ s.icon \notin {"local", "stale"}
              /\ (\E d \in Device : s.id \in Pictured[d]) => s.icon = "initial" /\ s.url \notin KnownUrls
        /\ None \notin Entries(p.ids) \cup {p.selected, p.portable}
        /\ p.portable \notin LocalWallpaper
        /\ \A d \in Device : (Entries(p.ids) \cup {p.selected}) \cap LocalWallpaper \subseteq Stored[d]

VARIABLES
    profile,   \* [Device -> local profile]
    base,      \* the shared profile both started from
    left,      \* [Device -> edits it may still make]
    nextId,    \* [Device -> the id it gives next]
    file,      \* the bookmark file at hand, and the bookmarks it was written from
    backup,    \* the exported configuration at hand, or None
    focus,     \* bound: "entries", "wallpapers", "theme" or "drag", what the edits are of
    stray      \* shortcuts that were saved into a group that was gone

vars == <<profile, base, left, nextId, file, backup, focus, stray, imageVars, dragVars>>

Other(d) == CHOOSE e \in Device : e # d
First == CHOOSE d \in Device : TRUE

\* crypto.randomUUID() gives ids that nothing had, has or will have, anywhere:
\* one device counts up from the ids there are, the other down.
Step(d) == IF d = First THEN 1 ELSE -1

Init ==
    \E p \in Start, scenario \in Scenarios :
        /\ profile = [d \in Device |-> [p EXCEPT !.shortcuts = Drawn(@, Pictured[d])]]
        /\ base = ToShared(p)
        /\ left = scenario.edits
        /\ LET ids == Ids(p.groups) \cup Ids(p.shortcuts)
           IN nextId = [d \in Device |-> IF d = First THEN Max(ids) + 1 ELSE Min(ids) - 1]
        /\ file = scenario.file
        /\ backup = scenario.backup
        /\ focus = scenario.focus
        /\ stray = {}
        /\ stored = Stored
        /\ fetching = [d \in Device |-> {}]
        /\ images = scenario.images
        /\ DragInit(Device, FirstLive(p))

\* A timestamp of the device's own, later than its earlier ones.
Now(d) == IF d = First THEN 2 * (10 - left[d]) ELSE 2 * (10 - left[d]) + 1

\* persist(next), which numbers the edit.
Persist(d, next) ==
    /\ left[d] > 0
    /\ left' = [left EXCEPT ![d] = @ - 1]
    /\ profile' = [profile EXCEPT ![d] = next]
    /\ UNCHANGED <<base, file, focus>>

Draw(d) == nextId' = [nextId EXCEPT ![d] = @ + Step(d)]

EditWithIds(d, next) ==
    Persist(d, next) /\ Adopt(d, next) /\ UNCHANGED <<backup, stray, imageVars>>
Edit(d, next) == EditWithIds(d, next) /\ UNCHANGED nextId

\* The form keeps the group it was opened for, which another tab of the device
\* may have deleted since.
SubmitShortcut(d) ==
    \E id \in Ids(profile[d].shortcuts) \cup {nextId[d]}, g \in Ids(profile[d].groups),
       u \in Urls, i \in Icons :
        /\ Persist(d, UpsertShortcut(profile[d], [id |-> id, group |-> g, url |-> u, icon |-> i], Now(d)))
        /\ IF id = nextId[d] THEN Draw(d) ELSE UNCHANGED nextId
        /\ stray' = IF ById(profile[d].groups, g).del THEN stray \cup {id} ELSE stray
        /\ UNCHANGED <<backup, imageVars, dragVars>>

DropShortcut(d) ==
    \E s \in Live(profile[d].shortcuts), g \in Live(profile[d].groups),
       t \in Ids(profile[d].shortcuts) \cup {None} :
        Edit(d, MoveShortcut(profile[d], s.id, g.id, t, Now(d)))

RemoveShortcut(d) ==
    \E s \in Live(profile[d].shortcuts) : Edit(d, DeleteShortcut(profile[d], s.id, Now(d)))

CreateGroup(d) ==
    \E t \in Titles :
        EditWithIds(d, AddShortcutGroup(profile[d], nextId[d], t, Now(d))) /\ Draw(d)

RenameGroup(d) ==
    \E g \in Live(profile[d].groups), t \in Titles :
        Edit(d, RenameShortcutGroup(profile[d], g.id, t, Now(d)))

\* The button moves a group past its neighbour on the page.
MoveGroup(d) ==
    \E g, h \in Live(profile[d].groups) :
        /\ Rank(h, Live(profile[d].groups)) = Rank(g, Live(profile[d].groups)) + 1
        /\ Edit(d, SwapShortcutGroupOrder(profile[d], g.id, h.id, Now(d)))

DeleteGroup(d) ==
    \E g \in Live(profile[d].groups) : Edit(d, DeleteShortcutGroup(profile[d], g.id, Now(d)))

ChooseWallpaper(d) ==
    \E k \in AllCandidates(d) :
        \/ Edit(d, SetProfileWallpaper(profile[d], k))
        \/ Edit(d, AddWallpaperToSelection(profile[d], k))
        \/ Contains(profile[d].ids, k) /\ Edit(d, RemoveWallpaperFromSelection(profile[d], k))

\* updateProfile, by the controls of the settings.
UpdateSource(d) ==
    profile[d].source # "web" /\ Edit(d, [profile[d] EXCEPT !.source = "web"])

UpdateTheme(d) ==
    \/ \E v \in Columns : Edit(d, [profile[d] EXCEPT !.columns = v])
    \/ \E v \in Styles : Edit(d, [profile[d] EXCEPT !.style = v])
    \/ \E v \in Overlays : Edit(d, [profile[d] EXCEPT !.overlay = v])

\* By the timer or the button, where no upload or rotation is under way.  An
\* image that does not come with the extension is fetched first.
RotateWallpaper(d) ==
    /\ ~ActionRuns(d)
    /\ IF profile[d].source = "selected"
       THEN \E p \in RotationsOfSelected(d, profile[d]) : Edit(d, p)
       ELSE \E pool \in SUBSET Web : \E pick \in WebPicks(pool, profile[d]) :
                IF pick.id \in Packaged
                THEN Edit(d, Rotated(profile[d], pick.id, pick.history, "web"))
                ELSE StartFetch(d, "rotate", pick.id, pick.history)
                     /\ UNCHANGED <<profile, base, left, nextId, file, backup, focus, stray, dragVars>>

FetchImage(d) ==
    /\ \/ \E k \in Web \ Packaged, select \in BOOLEAN : SaveWeb(d, k, select)
       \/ Upload(d)
       \/ \E f \in fetching[d] : Store(d, f)
    /\ UNCHANGED <<profile, base, left, nextId, file, backup, focus, stray, dragVars>>

ShowImage(d) ==
    \E f \in fetching[d] : \E p \in Shows(profile[d], f) :
        Persist(d, p) /\ EndFetch(d, f) /\ UNCHANGED <<nextId, backup, stray, dragVars>>

\* The fetch or the database fails, or the page closes.
FetchFails(d) ==
    \E f \in fetching[d] :
        EndFetch(d, f) /\ UNCHANGED <<profile, base, left, nextId, file, backup, focus, stray, dragVars>>

\* The pointer and the wheel, which leave the profile alone until the release.
\* Bound: a page that may not edit any more does not drag.
MovePointer(d) ==
    /\ left[d] > 0
    /\ \/ Press(d, profile[d]) \/ LongPress(d) \/ ClearPendingPress(d)
       \/ Hover(d, profile[d]) \/ SwitchGroup(d, profile[d])
       \/ BeginShortcutEditMode(d) \/ FinishShortcutEditMode(d)
    /\ UNCHANGED <<profile, base, left, nextId, file, backup, focus, stray, imageVars>>

ReleaseDrag(d) ==
    /\ Released(d)
    /\ UNCHANGED <<nextId, backup, stray, imageVars>>
    /\ \E drop \in Drops(d, profile[d]) :
          LET next == IF drop = None THEN profile[d]
                      ELSE MoveShortcut(profile[d], drop.id, drop.dest, drop.onto, Now(d))
          IN IF next = profile[d] THEN UNCHANGED <<profile, base, left, file, focus>>
             ELSE Persist(d, next)

Plan(d) ==
    BuildBookmarkImportPlan(profile[d], ParseNetscapeBookmarkHtml(file.tags), nextId[d], Step(d), Now(d))

ImportBrowserBookmarks(d) ==
    /\ file # None /\ ~ActionRuns(d)
    /\ ParseNetscapeBookmarkHtml(file.tags) # None
    /\ Plan(d).imported > 0
    /\ EditWithIds(d, Plan(d).profile)
    /\ nextId' = [nextId EXCEPT ![d] = Plan(d).next]

ExportConfig(d) ==
    /\ backup = None
    /\ backup' = [format |-> "v2", profile |-> ToShared(profile[d])]
    /\ UNCHANGED <<profile, base, left, nextId, file, focus, stray, imageVars, dragVars>>

\* Entries made since the export are gone without a tombstone.
ImportConfig(d) ==
    /\ backup # None
    /\ Edit(d, ParseBackup(backup, profile[d]))

\* What a device uploads: the profile as its store keeps it.
Shared(d) == ToShared(MigrateProfile(profile[d]))

\* Take the other device's profile for one's own.
Accept(d) == Edit(d, ToLocal(Shared(Other(d)), profile[d]))

EditEntries(d) ==
    \/ SubmitShortcut(d) \/ DropShortcut(d) \/ RemoveShortcut(d)
    \/ CreateGroup(d) \/ RenameGroup(d) \/ MoveGroup(d) \/ DeleteGroup(d)

EditWallpapers(d) ==
    \/ ChooseWallpaper(d) \/ UpdateSource(d)
    \/ RotateWallpaper(d) \/ FetchImage(d) \/ ShowImage(d) \/ FetchFails(d)

\* What other tabs of the device do during a drag takes its place in Edit.
DragShortcuts(d) ==
    \/ MovePointer(d) \/ ReleaseDrag(d)
    \/ DropShortcut(d) \/ RemoveShortcut(d) \/ DeleteGroup(d) \/ Accept(d)

ReplaceProfile(d) ==
    \/ ImportBrowserBookmarks(d) \/ ExportConfig(d) \/ ImportConfig(d) \/ Accept(d)

Next ==
    \E d \in Device :
        \/ focus = "entries" /\ EditEntries(d)
        \/ focus = "wallpapers" /\ EditWallpapers(d)
        \/ focus = "theme" /\ UpdateTheme(d)
        \/ focus = "drag" /\ DragShortcuts(d)
        \/ focus # "drag" /\ ReplaceProfile(d)

Spec == Init /\ [][Next]_vars
-----------------------------------------------------------------------------
\* Every live shortcut is on the page, in a live group, except one that was
\* saved into a group deleted under the open form; and some group is live.
Visible ==
    \A d \in Device :
        /\ \A s \in Homeless(profile[d]) : s.id \in stray
        /\ Live(profile[d].groups) # {}

\* A device's edits leave no two live groups, and no two live shortcuts of a
\* group, with one sortIndex: the order on the page is the user's.
OrderIsTotal ==
    \A d \in Device :
        LET distinct(S) == \A x, y \in S : x.sort = y.sort => x.id = y.id
        IN /\ distinct(Live(profile[d].groups))
           /\ \A g \in Ids(profile[d].groups) : distinct(LiveIn(profile[d], g))

\* A device lists and shows only local images it has stored, and a list is
\* never shared with a local image in it.
LocalIsStored ==
    \A d \in Device :
        (Entries(profile[d].ids) \cup {profile[d].selected}) \cap LocalWallpaper \subseteq stored[d]

\* A rotation by the timer or the button puts up another wallpaper.
RotationMoves ==
    [][\A d \in Device :
        RotateWallpaper(d) /\ profile' # profile => profile'[d].selected # profile[d].selected]_vars

\* A drop gives the shortcut the place of the one it was dropped on, if that
\* one still lives, on the page or in the group another tab has moved it to; and
\* leaves every other shortcut in its group and in order.
DropTakesPlace ==
    [][\A d \in Device : drag[d] # None /\ ReleaseDrag(d) /\ profile' # profile =>
        LET p == profile[d].shortcuts
            q == profile'[d].shortcuts
            id == drag[d].shortcut.id
            onto == drag[d].target
            mates(list, x) == {y \in Live(list) : y.group = x.group}
            place(list, x) == Rank(ById(list, x), mates(list, ById(list, x)))
            others == Ids(p) \ {id}
        IN /\ onto \in {s.id : s \in Live(p)} =>
                 /\ ById(q, id).group = ById(p, onto).group
                 /\ place(q, id) = place(p, onto)
           /\ \A x, y \in others :
                 /\ ById(q, x).group = ById(p, x).group
                 /\ ById(p, x) \in Live(p) /\ ById(p, y) \in mates(p, ById(p, x))
                    /\ Before(ById(p, x), ById(p, y)) => Before(ById(q, x), ById(q, y))]_vars

\* However the user answers the conflicts, the result holds every shortcut that
\* is live on both sides, or that one side added and the other never had.
NothingVanishes ==
    \A d \in Device :
        LET mine == Shared(d)
            theirs == Shared(Other(d))
            lives(s) == {x.id : x \in Live(s.shortcuts)}
            has(s) == Ids(s.shortcuts)
            due == (lives(mine) \cap lives(theirs))
                   \cup (lives(mine) \ (has(theirs) \cup has(base)))
                   \cup (lives(theirs) \ (has(mine) \cup has(base)))
        IN \A answer \in Answers(base, mine, theirs) :
              LET result == Resolved(base, mine, theirs, answer)
              IN result # None => due \subseteq lives(result)

\* Both devices would merge to the same profile where neither is asked, and
\* are asked about the same things where one is.
MergeCommutes ==
    \A d \in Device :
        LET mine == Shared(d)
            theirs == Shared(Other(d))
            result == Merged(base, mine, theirs)
            mirror == Merged(base, theirs, mine)
        IN /\ Conflicts(base, mine, theirs) = {} =>
                 /\ Entries(result.groups) = Entries(mirror.groups)
                 /\ Entries(result.shortcuts) = Entries(mirror.shortcuts)
                 /\ \A f \in Scalars \cup {"ids"} : result[f] = mirror[f]
           /\ {c \in Conflicts(base, mine, theirs) : c[1] # "groupId"}
                 = {c \in Conflicts(base, theirs, mine) : c[1] # "groupId"}

\* Some answer resolves the conflicts exactly when every shortcut that the merge
\* leaves without a group has, on one of the two sides, a group that can be kept,
\* or may be left deleted: a group can be kept if the merge has it live, or asks
\* about it and the other side has it live.
Resolvable ==
    \A d \in Device :
        LET mine == Shared(d)
            theirs == Shared(Other(d))
            asked == Conflicts(base, mine, theirs)
            merged == Merged(base, mine, theirs)
            live(s) == {g.id : g \in Live(s.groups)}
            kept == live(merged) \cup {g \in live(theirs) : <<"groups", g>> \in asked}
            homes(x) == {y.group : y \in Found(mine.shortcuts, x.id) \cup Found(theirs.shortcuts, x.id)}
            gone(x) == <<"shortcuts", x.id>> \in asked /\ \E y \in Found(theirs.shortcuts, x.id) : y.del
        IN (\E answer \in Answers(base, mine, theirs) : Resolved(base, mine, theirs, answer) # None)
           <=> \A x \in Homeless(merged) : homes(x) \cap kept # {} \/ gone(x)

\* What a device would upload after it accepted a profile is that profile, so
\* that there is nothing to upload, exactly if no icon the device has on its own
\* hides another, some wallpaper is listed, and it shows one of its own or one
\* this version still has.
AcceptIsFaithful ==
    \A d \in Device :
        LET theirs == Shared(Other(d))
            mine == profile[d]
            own == {mine.selected} \cup Entries(mine.ids)
        IN ToShared(ToLocal(theirs, mine)) = theirs
           <=> /\ \A s \in Entries(theirs.shortcuts) : s.id \in LocalIcons(MigrateProfile(mine)) =>
                     s.icon = IF s.url \in KnownUrls THEN "favicon" ELSE "initial"
               /\ theirs.ids # <<>> \/ own \cap LocalWallpaper # {}
               /\ theirs.selected \notin Retired \/ mine.selected \in LocalWallpaper

\* Two devices do not rewrite a profile to and fro: what the one makes of it by
\* accepting it, the other accepts as it is.
AcceptSettles ==
    \A d \in Device :
        LET once == ToShared(ToLocal(Shared(Other(d)), profile[d]))
        IN ToShared(ToLocal(once, profile[Other(d)])) = once

\* An import leaves every earlier entry as it was and, where there is room,
\* files the bookmarks the file was written from under their folders;
\* importing the file again adds nothing.
ImportIsFiled ==
    [][\A d \in Device : ImportBrowserBookmarks(d) =>
        LET p == profile[d]
            q == profile'[d]
            again == BuildBookmarkImportPlan(q, ParseNetscapeBookmarkHtml(file.tags),
                                             nextId'[d], Step(d), Now(d))
        IN /\ Entries(p.groups) \subseteq Entries(q.groups)
           /\ Entries(p.shortcuts) \subseteq Entries(q.shortcuts)
           /\ again.imported = 0
           /\ \/ Plan(d).skipped > 0
              \/ \A b \in file.holds :
                    \E s \in Live(q.shortcuts), g \in Live(q.groups) :
                        s.url = b.url /\ s.group = g.id /\ g.title = b.title]_vars
===============================================================================
