------------------------------ MODULE Wallpapers ------------------------------
(***************************************************************************)
(* Rotation of the wallpaper (extension/src/shared/wallpaper/rotation.ts)  *)
(* and the images a page stores on its device: what a page fetches, keeps  *)
(* and then shows (App.tsx rotateWebWallpaper, saveWebWallpaperToLocal,    *)
(* uploadWallpapers; shared/wallpaper/repository.ts).                      *)
(*                                                                         *)
(* A page may close, and a fetch or the database fail, at any await; what  *)
(* was stored by then stays.  A wallpaper is its key.                      *)
(***************************************************************************)
EXTENDS ProfileEdits

CONSTANTS Builtin,  \* wallpapers of the extension
          Web,      \* wallpapers of the web list
          Packaged  \* those of them whose image comes with the extension

VARIABLES
    stored,    \* [device -> keys of the images in its database]
    fetching,  \* [device -> images its page is fetching, and what for]
    images     \* bound: images that may still be fetched

imageVars == <<stored, fetching, images>>

Fetch(for, key, history, asset) == [for |-> for, key |-> key, history |-> history, asset |-> asset]

\* wallpaperActionRef: one rotation or upload at a time.
ActionRuns(d) == \E f \in fetching[d] : f.for \in {"rotate", "upload"}
\* webSavingKeysRef: one download of a key at a time.
IsSaving(d, key) == \E f \in fetching[d] : f.for \in {"select", "add"} /\ f.key = key

\* Keys no device has drawn yet.
FreshKeys == LocalWallpaper \ UNION {stored[d] : d \in DOMAIN stored}

AllCandidates(d) == Builtin \cup stored[d] \cup Web

-----------------------------------------------------------------------------
(* rotation.ts *)

\* (slip: the one shown may be picked)
WholePool(primary, fallback, current) ==
    IF Cardinality(primary) > 1 THEN primary
    ELSE IF fallback # {} THEN fallback ELSE primary

\* The selected wallpapers if there are several, else all; not the one shown.
RotationCandidates(primary, fallback, current) ==
    LET pool == IF Cardinality(primary) > 1 THEN primary
                ELSE IF fallback # {} THEN fallback ELSE primary
    IN IF pool \ {current} # {} THEN pool \ {current} ELSE pool

\* What may be picked, with the history that follows.  The history forgets
\* what is no candidate: for selected wallpapers always the one shown, which
\* is the one picked last.
Picks(candidates, history) ==
    LET valid == Filter(history, LAMBDA k : k \in candidates)
        fresh == candidates \ Entries(valid)
    IN IF fresh # {} THEN {[id |-> k, history |-> Append(valid, k)] : k \in fresh}
       ELSE {[id |-> k, history |-> <<k>>] : k \in candidates}

\* Any rotation leaves the profile in random mode, one from the web with the
\* web as its source.
Rotated(p, key, history, source) ==
    [SetProfileWallpaper(p, key) EXCEPT !.mode = "random", !.source = source, !.history = history]

\* rotateSelectedWallpaper
RotationsOfSelected(d, p) ==
    {Rotated(p, pick.id, pick.history, p.source) :
        pick \in Picks(RotationCandidates(Entries(p.ids), AllCandidates(d), p.selected), p.history)}

\* rotateWebWallpaper, up to the fetch: pool is the active category of the
\* list as loaded.
WebPicks(pool, p) ==
    IF pool \subseteq {p.selected} THEN {}
    ELSE Picks(RotationCandidates({}, pool, p.selected), p.history)

-----------------------------------------------------------------------------
(* An image is fetched, stored, then shown. *)

StartFetch(d, for, key, history) ==
    /\ images > 0
    /\ images' = images - 1
    /\ fetching' = [fetching EXCEPT ![d] = @ \cup {Fetch(for, key, history, {})}]
    /\ UNCHANGED stored

\* saveWebWallpaperToLocal of a wallpaper that is not packaged.
SaveWeb(d, key, select) ==
    /\ ~IsSaving(d, key)
    /\ StartFetch(d, IF select THEN "select" ELSE "add", key, <<>>)

\* uploadWallpapers
Upload(d) == ~ActionRuns(d) /\ StartFetch(d, "upload", "file", <<>>)

\* (slip: the image is shown before it is stored)
StoreLate(d, f) ==
    /\ f.asset = {}
    /\ \E k \in FreshKeys :
          fetching' = [fetching EXCEPT ![d] = (@ \ {f}) \cup {[f EXCEPT !.asset = {k}]}]
    /\ UNCHANGED <<stored, images>>

\* saveLocalWallpaper, of one image of an upload or the one fetched.
Store(d, f) ==
    /\ f.asset = {} \/ f.for = "upload"
    /\ \E k \in FreshKeys :
          /\ stored' = [stored EXCEPT ![d] = @ \cup {k}]
          /\ fetching' = [fetching EXCEPT ![d] = (@ \ {f}) \cup {[f EXCEPT !.asset = @ \cup {k}]}]
    /\ UNCHANGED images

\* The profile with the image stored, of an upload the first one.  It is made
\* from the profile of now, but a rotation's history from the one at its start.
Shows(p, f) ==
    {CASE f.for = "add"    -> AddWallpaperToSelection(p, k)
       [] f.for = "rotate" -> Rotated(p, k, f.history, "web")
       [] OTHER            -> SetProfileWallpaper(p, k) : k \in f.asset}

EndFetch(d, f) ==
    /\ fetching' = [fetching EXCEPT ![d] = @ \ {f}]
    /\ UNCHANGED <<stored, images>>
===============================================================================
