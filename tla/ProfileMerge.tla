----------------------------- MODULE ProfileMerge -----------------------------
(***************************************************************************)
(* What a browser shares of its profile and takes from a shared one        *)
(* (profile/sharedProfile.ts, migrate.ts, backup.ts), and the three-way    *)
(* merge of shared profiles with the user's resolution of its conflicts    *)
(* (sync/merge.ts).                                                        *)
(*                                                                         *)
(* A shared profile has no local icons, wallpapers, history or device      *)
(* data.  Its scalar settings stand for all those merged one by one: style *)
(* for what else there is of the theme than columns.  An icon is           *)
(*   "favicon", of the shortcut's address, or "stale", of a former one;    *)
(*   "initial", the first letter of its title, or any other "text";        *)
(*   "local", an image on this device; or something nothing here touches.  *)
(* A conflict has the path that names it in the code, split into segments. *)
(***************************************************************************)
EXTENDS Wallpapers

CONSTANTS None,             \* undefined
          Defaults,         \* settings and entries of createDefaultProfile
          Engines,          \* search engines of this version
          OutdatedLooks,    \* <<columns, style>>: visual defaults of older versions
          OutdatedOverlays, \* overlay values of older versions
          Retired,          \* built-in wallpapers of older versions
          KnownUrls         \* addresses with an icon of their own

ASSUME DefaultsAssumption ==
    /\ Defaults.engine \in Engines
    /\ <<Defaults.columns, Defaults.style>> \notin OutdatedLooks
    /\ Defaults.overlay \notin OutdatedOverlays
    /\ Mist \notin Retired
    /\ Defaults.groups # <<>> /\ Defaults.shortcuts # <<>>
    /\ \A s \in Entries(Defaults.shortcuts) : s.icon = "favicon"

Scalars == {"pid", "engine", "columns", "style", "overlay", "mode", "source", "selected"}

Portable(ids) == Filter(ids, LAMBDA k : k \notin LocalWallpaper)

\* portableIcon: no other device has a local icon's image.
PortableIcon(s) == IF s.icon = "local" THEN [s EXCEPT !.icon = "initial"] ELSE s

\* (slip: portable is not used)
SharedBare(p) ==
    [pid |-> p.pid, engine |-> p.engine, columns |-> p.columns, style |-> p.style,
     overlay |-> p.overlay, mode |-> p.mode, source |-> p.source,
     groups |-> p.groups, shortcuts |-> ReviseAll(p.shortcuts, PortableIcon),
     selected |-> IF p.selected \in LocalWallpaper THEN Mist ELSE p.selected,
     ids |-> Portable(p.ids)]

ToShared(p) ==
    [pid |-> p.pid, engine |-> p.engine, columns |-> p.columns, style |-> p.style,
     overlay |-> p.overlay, mode |-> p.mode, source |-> p.source,
     groups |-> p.groups, shortcuts |-> ReviseAll(p.shortcuts, PortableIcon),
     selected |-> IF p.selected \in LocalWallpaper THEN p.portable ELSE p.selected,
     ids |-> Portable(p.ids)]

\* What sharedProfileV2Schema accepts.
WellFormed(s) ==
    /\ Cardinality(Ids(s.groups)) = Len(s.groups)
    /\ Cardinality(Ids(s.shortcuts)) = Len(s.shortcuts)
    /\ \A x \in Entries(s.shortcuts) : x.group \in Ids(s.groups)
    /\ \A i \in DOMAIN s.ids : s.ids[i] \notin LocalWallpaper

\* (slip: text icons are upgraded whatever the version)
RenewedAlways(s, upgrade) ==
    IF s.icon \in {"stale", "text", "initial"} \/ (s.icon = "local" /\ s.url \in KnownUrls)
    THEN [s EXCEPT !.icon = "favicon"] ELSE s

\* migrateShortcutIcon
Renewed(s, upgrade) ==
    IF \/ s.icon = "stale"
       \/ s.icon = "local" /\ s.url \in KnownUrls
       \/ upgrade /\ s.icon \in {"text", "initial"}
    THEN [s EXCEPT !.icon = "favicon"] ELSE s

\* migrateProfile of a profile that misses some of "rows" and "interval", as
\* those of older versions do.  Empty collections are taken for missing ones.
Migrated(p, missing) ==
    LET outdated == "rows" \notin missing /\ <<p.columns, p.style>> \in OutdatedLooks
    IN [p EXCEPT !.engine = IF @ \in Engines THEN @ ELSE Defaults.engine,
                 !.columns = IF outdated THEN Defaults.columns ELSE @,
                 !.style = IF outdated THEN Defaults.style ELSE @,
                 !.overlay = IF @ \in OutdatedOverlays THEN Defaults.overlay ELSE @,
                 !.groups = IF @ = <<>> THEN Defaults.groups ELSE @,
                 !.shortcuts = IF @ = <<>> THEN Defaults.shortcuts
                               ELSE ReviseAll(@, LAMBDA s : Renewed(s, missing # {})),
                 !.selected = IF @ \in Retired THEN Mist ELSE @,
                 !.portable = IF @ # None THEN @
                              ELSE IF p.selected \in LocalWallpaper \cup Retired THEN Mist
                              ELSE p.selected,
                 !.ids = IF @ = <<>> THEN <<p.selected>> ELSE @]

MigrateProfile(p) == Migrated(p, {})

\* The shortcuts with local icons for these ids.
Drawn(list, ids) ==
    ReviseAll(list, LAMBDA s : IF s.id \in ids THEN [s EXCEPT !.icon = "local"] ELSE s)

LocalIcons(p) == {s.id : s \in {t \in Entries(p.shortcuts) : t.icon = "local"}}

\* The local profile after the shared one was accepted: the device keeps its
\* own icons, its own wallpapers, listed first, and stays on one it shows.
ToLocal(s, mine) ==
    LET own == MigrateProfile(mine)
        local == Filter(own.ids, LAMBDA k : k \in LocalWallpaper)
    IN MigrateProfile(
        [own EXCEPT !.pid = s.pid, !.engine = s.engine, !.columns = s.columns, !.style = s.style,
                    !.overlay = s.overlay, !.mode = s.mode, !.source = s.source,
                    !.groups = s.groups, !.shortcuts = Drawn(s.shortcuts, LocalIcons(own)),
                    !.selected = IF @ \in LocalWallpaper THEN @ ELSE s.selected,
                    !.portable = s.selected,
                    !.ids = local \o s.ids])

\* An exported file read back: what it shares, in the current format or as an
\* old profile, is accepted.
Portion(file) ==
    IF file.format = "v2" THEN file.profile ELSE ToShared(Migrated(file.profile, file.missing))
ParseBackup(file, mine) == ToLocal(Portion(file), mine)

-----------------------------------------------------------------------------
MergeScalar(b, l, r) == IF l = b THEN r ELSE l
Disagree(b, l, r) == l # b /\ r # b /\ l # r

\* What a list has under an id: the one entry, or nothing.
Found(list, id) == {x \in Entries(list) : x.id = id}
IsDeleted(found) == \A x \in found : x.del
The(found) == CHOOSE x \in found : TRUE

\* (slip: what only the other side has is forgotten)
OwnIds(b, l, r) ==
    LET all == b \o Filter(l, LAMBDA x : x.id \notin Ids(b))
    IN [i \in DOMAIN all |-> all[i].id]

\* Entries of b, then those only l has, then those only r has.
AllIds(b, l, r) ==
    LET new(list, old) == Filter(list, LAMBDA x : x.id \notin old)
        all == b \o new(l, Ids(b)) \o new(r, Ids(b) \cup Ids(l))
    IN [i \in DOMAIN all |-> all[i].id]

MergeEntities(b, l, r) ==
    LET pick(id) == MergeScalar(Found(b, id), Found(l, id), Found(r, id))
        ids == Filter(AllIds(b, l, r), LAMBDA id : pick(id) # {})
    IN [i \in DOMAIN ids |-> The(pick(ids[i]))]

\* Wallpaper keys: each is in or out by itself; of the kept ones, a side that
\* reordered them decides the order; new ones follow in the order of keys.
KeyOrder(S) == SetToSeq(S)
MergeIds(b, l, r) ==
    LET old    == ToSet(b)
        all    == old \cup ToSet(l) \cup ToSet(r)
        kept   == {k \in all : MergeScalar(k \in old, k \in ToSet(l), k \in ToSet(r))}
        of(x)  == Filter(x, LAMBDA k : k \in old \cap kept)
    IN [value |-> IF Disagree(b, l, r) THEN MergeScalar(of(b), of(l), of(r)) \o KeyOrder(kept \ old)
                  ELSE MergeScalar(b, l, r),
        conflict |-> Disagree(b, l, r) /\ Disagree(of(b), of(l), of(r))]

\* (slip: arrays are merged as values)
MergedAsValues(b, l, r) == [f \in DOMAIN b |-> MergeScalar(b[f], l[f], r[f])]

Merged(b, l, r) ==
    [f \in DOMAIN b |->
        IF f \in {"groups", "shortcuts"} THEN MergeEntities(b[f], l[f], r[f])
        ELSE IF f = "ids" THEN MergeIds(b.ids, l.ids, r.ids).value
        ELSE MergeScalar(b[f], l[f], r[f])]

Homeless(s) == {x \in Live(s.shortcuts) : x.group \notin {g.id : g \in Live(s.groups)}}

\* What a side has at the path of a conflict, if anything: an entry, the
\* groupId of a shortcut, or a setting.
At(s, path) ==
    IF path[1] \in {"groups", "shortcuts"} THEN Found(s[path[1]], path[2])
    ELSE IF path[1] = "groupId" THEN {x.group : x \in Found(s.shortcuts, path[2])}
    ELSE {s[path[1]]}

\* (slip: shortcuts left without a group are not reported)
EntityConflicts(b, l, r) ==
    LET ids(name) == Ids(b[name]) \cup Ids(l[name]) \cup Ids(r[name])
        paths == ({"groups"} \X ids("groups")) \cup ({"shortcuts"} \X ids("shortcuts"))
                 \cup {<<f, f>> : f \in Scalars}
    IN {path \in paths : Disagree(At(b, path), At(l, path), At(r, path))}

\* The last part: live shortcuts whose group the other side deleted.
Conflicts(b, l, r) ==
    LET ids(name) == Ids(b[name]) \cup Ids(l[name]) \cup Ids(r[name])
        paths == ({"groups"} \X ids("groups")) \cup ({"shortcuts"} \X ids("shortcuts"))
                 \cup {<<f, f>> : f \in Scalars}
    IN {path \in paths : Disagree(At(b, path), At(l, path), At(r, path))}
       \cup (IF MergeIds(b.ids, l.ids, r.ids).conflict THEN {<<"ids", "ids">>} ELSE {})
       \cup {<<"groupId", x.id>> : x \in Homeless(Merged(b, l, r))}

-----------------------------------------------------------------------------
CanKeepBoth(l, r, path) ==
    /\ path[1] \in {"groups", "shortcuts"}
    /\ IsDeleted(At(l, path)) = IsDeleted(At(r, path))

\* What the user may answer.
Answers(b, l, r) ==
    {d \in [Conflicts(b, l, r) -> {"local", "remote", "both"}] :
        \A path \in DOMAIN d : d[path] = "both" => CanKeepBoth(l, r, path)}

Decided(l, r, d, path) == At(IF d[path] = "remote" THEN r ELSE l, path)

\* The list with the entry of this id replaced, added or removed.
PutEntity(list, id, found) ==
    IF found = {} THEN Filter(list, LAMBDA y : y.id # id)
    ELSE IF id \in Ids(list) THEN Revise(list, id, LAMBDA y : The(found))
    ELSE Append(list, The(found))

\* The list as the answers to conflicts over its entries leave it.
Settled(list, l, r, d, paths) ==
    FoldSet(LAMBDA path, result : PutEntity(result, path[2], Decided(l, r, d, path)), list, paths)

CopyId(id) == id + 100       \* createId: ids nothing else has
ChildCopyId(id) == id + 200

\* keepBothEntity: the remote version beside the local one, under a new id; a
\* group with the shortcuts the remote side has in it.
Copies(r, name, both) ==
    LET twins == UNION {Found(r[name], path[2]) : path \in {p \in both : p[1] = name}}
        children == UNION {LiveIn(r, path[2]) : path \in {p \in both : p[1] = "groups"}}
    IN SetToSeq({[x EXCEPT !.id = CopyId(@)] : x \in twins}
        \cup IF name = "groups" THEN {}
             ELSE {[x EXCEPT !.id = ChildCopyId(@), !.group = CopyId(@)] : x \in children})

\* resolveMergeConflicts; None where it throws.  Entities first, then the
\* groupIds, which fail when the shortcut is gone or the side never had it.
Resolved(b, l, r, d) ==
    LET paths == DOMAIN d
        both == {path \in paths : d[path] = "both"}
        merged == Merged(b, l, r)
        settle(name) == Settled(merged[name], l, r, d, {path \in paths : path[1] = name})
                        \o Copies(r, name, both)
        shortcuts == settle("shortcuts")
        home(x) == IF <<"groupId", x.id>> \in paths
                   THEN [x EXCEPT !.group = The(Decided(l, r, d, <<"groupId", x.id>>))] ELSE x
        fails == \/ \E path \in both : At(r, path) = {}
                 \/ \E path \in paths : /\ path[1] = "groupId"
                                        /\ \/ path[2] \notin Ids(shortcuts)
                                           \/ Decided(l, r, d, path) = {}
        result == [f \in DOMAIN b |->
            IF f = "groups" THEN settle(f)
            ELSE IF f = "shortcuts" THEN ReviseAll(shortcuts, home)
            ELSE IF <<f, f>> \in paths THEN The(Decided(l, r, d, <<f, f>>))
            ELSE merged[f]]
    IN IF fails THEN None
       ELSE IF ~WellFormed(result) \/ Homeless(result) # {} THEN None
       ELSE result
===============================================================================
