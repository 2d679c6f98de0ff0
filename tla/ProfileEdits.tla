----------------------------- MODULE ProfileEdits -----------------------------
(***************************************************************************)
(* The edits a new tab page makes to its profile                           *)
(* (extension/src/shared/profile/mutations.ts): functions from a profile   *)
(* to the next one.                                                        *)
(*                                                                         *)
(* groups and shortcuts are arrays, as in the code: their order matters to *)
(* deleteShortcutGroup and to the merge.  An entry's at is its updatedAt;  *)
(* its del says whether it has a deletedAt.  The title and url of a        *)
(* shortcut are one value, its url.  A selected wallpaper is named by its  *)
(* key: parseWallpaperKey undoes getWallpaperKey on every key in use.  Ids *)
(* are numbers, ordered as localeCompare orders the code's.                *)
(***************************************************************************)
EXTENDS Integers, SequencesExt

CONSTANTS LocalWallpaper, \* keys "local:...", which no other device can show
          Mist            \* the built-in wallpaper that stands in for one

Entries(list) == {list[i] : i \in DOMAIN list}
Ids(list) == {x.id : x \in Entries(list)}
Live(list) == {x \in Entries(list) : ~x.del}
LiveIn(p, g) == {s \in Live(p.shortcuts) : s.group = g}
ById(list, id) == CHOOSE x \in Entries(list) : x.id = id

\* The entries of a list at these places, in order; and list.filter(Test),
\* which is SelectSeq written without recursion, for the proofs.
Sub(list, places) ==
    [n \in 1 .. Cardinality(places) |->
        list[CHOOSE i \in places : Cardinality({j \in places : j <= i}) = n]]
Filter(list, Test(_)) == Sub(list, {i \in DOMAIN list : Test(list[i])})

\* The list with one entry, or with every entry, revised.
Revise(list, id, With(_)) ==
    [i \in DOMAIN list |-> IF list[i].id = id THEN With(list[i]) ELSE list[i]]
ReviseAll(list, With(_)) == [i \in DOMAIN list |-> With(list[i])]

\* reduce((max, item) => Math.max(max, item.sortIndex), -1) + 1
NextSort(S) == Max({x.sort : x \in S} \cup {-1}) + 1

\* Order on the page: by sortIndex, then by id.
Before(x, y) == x.sort < y.sort \/ (x.sort = y.sort /\ x.id < y.id)
Rank(x, S) == Cardinality({y \in S : Before(y, x)})

Placed(s, group, sort, now) ==
    IF s.group = group /\ s.sort = sort THEN s
    ELSE [s EXCEPT !.group = group, !.sort = sort, !.at = now]

\* Add the shortcut of the form, or replace the one it edits; close the gaps
\* in the group it joins and in the one it leaves.  A replaced shortcut has no
\* deletedAt: it is live again.  Whether the group exists is not asked.
UpsertShortcut(p, input, now) ==
    LET existing == {s \in Entries(p.shortcuts) : s.id = input.id}
        stayed   == {s \in existing : s.group = input.group}
        next     == [id |-> input.id, group |-> input.group, url |-> input.url, icon |-> input.icon,
                     sort |-> IF stayed = {} THEN NextSort(LiveIn(p, input.group))
                              ELSE ById(p.shortcuts, input.id).sort,
                     at |-> now, del |-> FALSE]
        list     == IF existing = {} THEN Append(p.shortcuts, next)
                    ELSE Revise(p.shortcuts, input.id, LAMBDA s : next)
        touched  == {input.group} \cup {s.group : s \in existing}
        mates(s) == {t \in Live(list) : t.group = s.group}
    IN [p EXCEPT !.shortcuts = ReviseAll(list, LAMBDA s :
            IF s.del \/ s.group \notin touched THEN s
            ELSE Placed(s, s.group, Rank(s, mates(s)), now))]

\* (slip: what was behind the slot does not make room)
MoveShortcutOnly(p, id, dest, target, now) ==
    LET onto == {s \in LiveIn(p, dest) : s.id = target}
        slot == IF onto = {} THEN NextSort(LiveIn(p, dest)) ELSE ById(p.shortcuts, target).sort
    IN [p EXCEPT !.shortcuts = Revise(@, id, LAMBDA s : Placed(s, dest, slot, now))]

\* Drag a shortcut onto another one, or (target = None) to the end of a group.
MoveShortcut(p, id, dest, target, now) ==
    LET source  == ById(p.shortcuts, id)
        left    == LiveIn(p, source.group) \ {source}
        others  == LiveIn(p, dest) \ {source}
        onto    == {s \in others : s.id = target}
        slot    == IF onto = {} THEN Cardinality(others)
                   ELSE LET t == ById(p.shortcuts, target)
                        IN Rank(t, others)
                           + (IF source.group = dest /\ Before(source, t) THEN 1 ELSE 0)
        place(s) ==
            IF s = source THEN Placed(s, dest, slot, now)
            ELSE IF s \in others
            THEN Placed(s, dest, Rank(s, others) + (IF Rank(s, others) < slot THEN 0 ELSE 1), now)
            ELSE IF s \in left THEN Placed(s, s.group, Rank(s, left), now)
            ELSE s
    IN IF id \notin {s.id : s \in Live(p.shortcuts)} \/ dest \notin {g.id : g \in Live(p.groups)}
       THEN p ELSE [p EXCEPT !.shortcuts = ReviseAll(@, place)]

DeleteShortcut(p, id, now) ==
    [p EXCEPT !.shortcuts = Revise(@, id, LAMBDA s : [s EXCEPT !.del = TRUE, !.at = now])]

\* Deleted groups count: the new one comes after every group there ever was.
AddShortcutGroup(p, id, title, now) ==
    [p EXCEPT !.groups = Append(@, [id |-> id, title |-> title, sort |-> NextSort(Entries(@)),
                                    at |-> now, del |-> FALSE])]

RenameShortcutGroup(p, id, title, now) ==
    [p EXCEPT !.groups = Revise(@, id, LAMBDA g : [g EXCEPT !.title = title, !.at = now])]

SwapShortcutGroupOrder(p, a, b, now) ==
    LET pair == {g \in Entries(p.groups) : g.id \in {a, b}}
        other(g) == CHOOSE h \in pair : h # g
    IN IF Cardinality(pair) < 2 THEN p
       ELSE [p EXCEPT !.groups = ReviseAll(@, LAMBDA g :
                IF g \in pair THEN [g EXCEPT !.sort = other(g).sort, !.at = now] ELSE g)]

\* (slip: the shortcuts stay behind)
DeleteGroupOnly(p, id, now) ==
    [p EXCEPT !.groups = Revise(@, id, LAMBDA g : [g EXCEPT !.del = TRUE, !.at = now])]

\* Delete a group but the last one; its shortcuts go to the end of the first
\* remaining group.  The remaining groups are numbered by their place in the
\* array, whatever order they had on the page; only the receiving group's
\* updatedAt changes.
DeleteShortcutGroup(p, id, now) ==
    LET rest     == Filter(p.groups, LAMBDA g : ~g.del /\ g.id # id)
        first    == CHOOSE i \in DOMAIN rest : \A j \in DOMAIN rest :
                        rest[i].sort < rest[j].sort \/ (rest[i].sort = rest[j].sort /\ i <= j)
        fallback == rest[first].id
        next     == NextSort(LiveIn(p, fallback))
        moved    == Filter(p.shortcuts, LAMBDA s : ~s.del /\ s.group = id)
        place(list, x) == (CHOOSE i \in DOMAIN list : list[i].id = x.id) - 1
    IN IF rest = <<>> \/ id \notin {g.id : g \in Live(p.groups)} THEN p
       ELSE [p EXCEPT
                !.groups = ReviseAll(@, LAMBDA g :
                    IF g.id = id THEN [g EXCEPT !.del = TRUE, !.at = now]
                    ELSE IF g.del THEN g
                    ELSE [g EXCEPT !.sort = place(rest, g),
                                   !.at = IF g.id = fallback THEN now ELSE @]),
                !.shortcuts = ReviseAll(@, LAMBDA s :
                    IF s.del \/ s.group # id THEN s
                    ELSE [s EXCEPT !.group = fallback, !.sort = next + place(moved, s), !.at = now])]

\* The wallpaper of the page.  portable is what other devices are told.
SetProfileWallpaper(p, key) ==
    [p EXCEPT !.selected = key,
              !.portable = IF key \in LocalWallpaper THEN @ ELSE key,
              !.ids = IF Contains(@, key) THEN @ ELSE Append(@, key)]

AddWallpaperToSelection(p, key) ==
    [p EXCEPT !.ids = IF Contains(@, key) THEN @ ELSE Append(@, key)]

\* portable keeps naming the wallpaper that was removed.
RemoveWallpaperFromSelection(p, key) ==
    LET ids == Filter(p.ids, LAMBDA k : k # key)
    IN [p EXCEPT !.ids = ids,
                 !.selected = IF @ # key THEN @ ELSE IF ids = <<>> THEN Mist ELSE ids[1],
                 !.history = Filter(@, LAMBDA k : k # key)]
===============================================================================
