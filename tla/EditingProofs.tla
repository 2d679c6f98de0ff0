----------------------------- MODULE EditingProofs -----------------------------
(***************************************************************************)
(* Theorems of Editing, for any devices, profiles, bookmark files and      *)
(* number of edits.                                                        *)
(***************************************************************************)
EXTENDS Editing, ProfileProofs

-----------------------------------------------------------------------------
(* The invariant *)

\* What values there are besides the ones a profile started with.
Always == Builtin \cup Web \cup LocalWallpaper \cup Urls \cup Icons \cup Titles
          \cup Columns \cup Styles \cup Overlays \cup Settings \cup {"random", "web", "file"}

Fetches(V) == [for : {"rotate", "upload", "select", "add"}, key : V, history : Seq(V),
               asset : SUBSET LocalWallpaper]

Readable(f) ==
    f = None \/ /\ f.tags \in Seq(Entries(f.tags))
                /\ \A i \in DOMAIN f.tags : f.tags[i].is \in TokenKinds

\* A shared profile a device may accept.
Offered(V, s) == s \in SharedProfile(V) /\ SharedKeys(s) /\ Housed(s, stray)

Sound(V) ==
    /\ Always \subseteq V
    /\ profile \in [Device -> Profile(V)]
    /\ base \in SharedProfile(V)
    /\ left \in [Device -> Int] /\ nextId \in [Device -> Int]
    /\ Readable(file)
    /\ backup # None => Offered(V, Portion(backup))
    /\ \A d \in Device : KeysIn(profile[d], stored[d]) /\ Housed(profile[d], stray)

Images(V) ==
    /\ stored \in [Device -> SUBSET LocalWallpaper]
    /\ fetching \in [Device -> SUBSET Fetches(V)]
    /\ \A d \in Device : \A f \in fetching[d] : f.asset \subseteq stored[d]

Safe == \E V : Sound(V) /\ Images(V)

LEMMA HousedGrows ==
    ASSUME NEW p, NEW S, NEW T, S \subseteq T, Housed(p, S)
    PROVE  Housed(p, T)
  BY DEF Housed, AtHome

LEMMA ImagesGrow ==
    ASSUME NEW V, NEW W, V \subseteq W, Images(V)
    PROVE  Images(W)
<1>1. Fetches(V) \subseteq Fetches(W)
  <2>1. Seq(V) \subseteq Seq(W)
    BY SeqMonotonic
  <2> QED
    BY <2>1 DEF Fetches
<1> QED
  BY <1>1 DEF Images

\* A device's edit leaves the rest sound, if the profile is.
LEMMA PersistKeeps ==
    ASSUME NEW V, NEW W, V \subseteq W, Sound(V), NEW d \in Device, NEW q \in Profile(W),
           Persist(d, q), KeysIn(q, stored[d]), Housed(q, stray'), stray \subseteq stray',
           UNCHANGED <<backup, stored>>, nextId' \in [Device -> Int]
    PROVE  Sound(W)'
<1>1. /\ profile' = [profile EXCEPT ![d] = q] /\ left' = [left EXCEPT ![d] = left[d] - 1]
      /\ base' = base /\ file' = file /\ backup' = backup /\ stored' = stored
  BY DEF Persist, Sound
<1>2. Profile(V) \subseteq Profile(W) /\ SharedProfile(V) \subseteq SharedProfile(W)
  BY ProfileGrows
<1>3. profile' \in [Device -> Profile(W)]
  BY <1>1, <1>2 DEF Sound
<1>4. left' \in [Device -> Int]
  <2>1. left[d] - 1 \in Int
    BY DEF Sound
  <2> QED
    BY <1>1, <2>1 DEF Sound
<1>5. Always \subseteq W /\ base' \in SharedProfile(W) /\ Readable(file')
  BY <1>1, <1>2 DEF Sound
<1>6. (backup # None => Offered(W, Portion(backup)))'
  <2> SUFFICES ASSUME backup # None
               PROVE  /\ Portion(backup) \in SharedProfile(W)
                      /\ SharedKeys(Portion(backup)) /\ Housed(Portion(backup), stray')
    BY <1>1 DEF Offered
  <2>1. /\ Portion(backup) \in SharedProfile(V)
        /\ SharedKeys(Portion(backup)) /\ Housed(Portion(backup), stray)
    BY DEF Sound, Offered
  <2>2. Housed(Portion(backup), stray')
    BY <2>1, HousedGrows
  <2> QED
    BY <1>2, <2>1, <2>2
<1>7. \A e \in Device : KeysIn(profile'[e], stored'[e]) /\ Housed(profile'[e], stray')
  <2> TAKE e \in Device
  <2>1. CASE e = d
    BY <1>1, <2>1 DEF Sound
  <2>2. CASE e # d
    <3>1. profile'[e] = profile[e] /\ KeysIn(profile[e], stored[e]) /\ Housed(profile[e], stray)
      BY <1>1, <2>2 DEF Sound
    <3> QED
      BY <1>1, <3>1, HousedGrows
  <2> QED
    BY <2>1, <2>2
<1> QED
  BY <1>3, <1>4, <1>5, <1>6, <1>7 DEF Sound

LEMMA ImagesStay ==
    ASSUME NEW V, NEW W, V \subseteq W, Images(V), UNCHANGED <<stored, fetching>>
    PROVE  Images(W)'
<1>1. Images(W)
  BY ImagesGrow
<1> QED
  BY <1>1 DEF Images

LEMMA EditIsSafe ==
    ASSUME NEW V, NEW W, V \subseteq W, Sound(V), Images(V), NEW d \in Device, NEW q \in Profile(W),
           Edit(d, q) \/ (EditWithIds(d, q) /\ nextId' \in [Device -> Int]),
           KeysIn(q, stored[d]), Housed(q, stray)
    PROVE  Safe'
<1>1. Persist(d, q) /\ UNCHANGED <<backup, stored>> /\ stray' = stray /\ UNCHANGED <<stored, fetching>>
  BY DEF Edit, EditWithIds, imageVars
<1>2. nextId' \in [Device -> Int]
  BY DEF Edit, Sound
<1>3. Sound(W)'
  BY <1>1, <1>2, PersistKeeps
<1>4. Images(W)'
  BY <1>1, ImagesStay
<1> QED
  BY <1>3, <1>4 DEF Safe

\* An edit of the entries.
LEMMA EntryEditIsSafe ==
    ASSUME NEW V, NEW W, V \subseteq W, Sound(V), Images(V), NEW d \in Device, NEW q \in Profile(W),
           Edit(d, q) \/ (EditWithIds(d, q) /\ nextId' \in [Device -> Int]),
           Housed(q, stray), SameKeys(profile[d], q)
    PROVE  Safe'
<1>1. KeysIn(q, stored[d])
  BY DEF Sound, KeysIn, SameKeys
<1> QED
  BY <1>1, EditIsSafe

\* The next id is one number further.
LEMMA DrawKeeps ==
    ASSUME NEW V, Sound(V), NEW d \in Device, Draw(d)
    PROVE  nextId' \in [Device -> Int] /\ nextId' = [nextId EXCEPT ![d] = nextId[d] + Step(d)]
<1>1. nextId[d] \in Int /\ Step(d) \in Int
  BY DEF Sound, Step
<1>2. nextId' = [nextId EXCEPT ![d] = nextId[d] + Step(d)]
  BY DEF Draw, Sound
<1>3. nextId[d] + Step(d) \in Int
  BY <1>1
<1> HIDE DEF Step
<1> QED
  BY <1>2, <1>3 DEF Sound

\* What an edit of a device starts from.
LEMMA MyProfile ==
    ASSUME NEW V, Sound(V), NEW d \in Device, NEW W, V \subseteq W
    PROVE  /\ profile[d] \in Profile(W) /\ Housed(profile[d], stray)
           /\ KeysIn(profile[d], stored[d]) /\ Always \subseteq W
           /\ Now(d) \in Int /\ nextId[d] \in Int
           /\ Entries(profile[d].groups) \subseteq Group(W)
           /\ Entries(profile[d].shortcuts) \subseteq Shortcut(W)
<1>1. profile[d] \in Profile(V) /\ Profile(V) \subseteq Profile(W)
  BY ProfileGrows DEF Sound
<1>2. Now(d) \in Int
  <2>1. left[d] \in Int
    BY DEF Sound
  <2> QED
    BY <2>1 DEF Now
<1>3. nextId[d] \in Int
  BY DEF Sound
<1>4. profile[d].groups \in Seq(Group(W)) /\ profile[d].shortcuts \in Seq(Shortcut(W))
  BY <1>1 DEF Profile
<1> QED
  BY <1>1, <1>2, <1>3, <1>4, EntriesFinite DEF Sound

LEMMA SubmitIsSafe ==
    ASSUME Safe, NEW d \in Device, SubmitShortcut(d)
    PROVE  Safe'
<1>1. PICK V : Sound(V) /\ Images(V)
  BY DEF Safe
<1>2. PICK now : now = Now(d)
  OBVIOUS
<1> DEFINE W == V \cup {now}
           p == profile[d]
<1>3. V \subseteq W /\ now \in W
  OBVIOUS
<1> HIDE DEF W
<1>4. /\ p \in Profile(W) /\ Housed(p, stray) /\ KeysIn(p, stored[d]) /\ Always \subseteq W
      /\ nextId[d] \in Int /\ Entries(p.groups) \subseteq Group(W)
      /\ Entries(p.shortcuts) \subseteq Shortcut(W)
  BY <1>1, <1>3, MyProfile
<1>5. PICK id \in Ids(p.shortcuts) \cup {nextId[d]}, g \in Ids(p.groups), u \in Urls, i \in Icons :
        /\ Persist(d, UpsertShortcut(p, [id |-> id, group |-> g, url |-> u, icon |-> i], Now(d)))
        /\ stray' = IF ById(p.groups, g).del THEN stray \cup {id} ELSE stray
        /\ Draw(d) \/ UNCHANGED nextId
        /\ UNCHANGED <<backup, imageVars, dragVars>>
  BY DEF SubmitShortcut
<1> DEFINE input == [id |-> id, group |-> g, url |-> u, icon |-> i]
<1>6. PICK q : q = UpsertShortcut(p, input, now)
  OBVIOUS
<1>7. input.id = id /\ input.group = g /\ input.url = u /\ input.icon = i
  OBVIOUS
<1>8. input.id \in Int /\ input.group \in Int /\ input.url \in W /\ input.icon \in W
  BY <1>4, <1>5, <1>7 DEF Ids, Group, Shortcut, Always
<1>9. stray \subseteq stray' /\ (input.id \in stray' \/ input.group \in LiveIds(p.groups))
  <2>1. ById(p.groups, g) \in Entries(p.groups) /\ ById(p.groups, g).id = g
    BY <1>5 DEF ById, Ids
  <2> QED
    BY <1>5, <1>7, <2>1 DEF LiveIds, Live
<1>10. Housed(p, stray')
  BY <1>4, <1>9, HousedGrows
<1>11. Persist(d, q) /\ UNCHANGED <<backup, stored>> /\ UNCHANGED <<stored, fetching>>
  BY <1>2, <1>5, <1>6 DEF imageVars
<1> HIDE DEF input
<1>12. LET r == UpsertShortcut(p, input, now)
       IN r \in Profile(W) /\ Housed(r, stray') /\ SameKeys(p, r)
  BY <1>3, <1>4, <1>8, <1>9, <1>10, UpsertHouses
<1>13. q \in Profile(W) /\ Housed(q, stray') /\ KeysIn(q, stored[d])
  BY <1>4, <1>6, <1>12 DEF KeysIn, SameKeys
<1>14. nextId' \in [Device -> Int]
  BY <1>1, <1>5, DrawKeeps DEF Sound
<1>15. Sound(W)'
  BY <1>1, <1>3, <1>9, <1>11, <1>13, <1>14, PersistKeeps
<1>16. Images(W)'
  BY <1>1, <1>3, <1>11, ImagesStay
<1> QED
  BY <1>15, <1>16 DEF Safe

\* The other edits of the entries.
LEMMA EntriesAreSafe ==
    ASSUME Safe, NEW d \in Device,
           \/ DropShortcut(d) \/ RemoveShortcut(d) \/ CreateGroup(d)
           \/ RenameGroup(d) \/ MoveGroup(d) \/ DeleteGroup(d)
    PROVE  Safe'
<1>1. PICK V : Sound(V) /\ Images(V)
  BY DEF Safe
<1>2. PICK now : now = Now(d)
  OBVIOUS
<1> DEFINE W == V \cup {now}
           p == profile[d]
<1>3. V \subseteq W /\ now \in W
  OBVIOUS
<1> HIDE DEF W
<1>4. /\ p \in Profile(W) /\ Housed(p, stray) /\ Always \subseteq W
      /\ nextId[d] \in Int /\ Entries(p.groups) \subseteq Group(W)
      /\ Entries(p.shortcuts) \subseteq Shortcut(W)
  BY <1>1, <1>3, MyProfile
<1>5. ASSUME NEW q \in Profile(W), Housed(q, stray), SameKeys(p, q), Edit(d, q)
      PROVE  Safe'
  BY <1>1, <1>3, <1>5, EntryEditIsSafe
<1>6. CASE DropShortcut(d)
  <2>1. PICK s \in Live(p.shortcuts), g \in Live(p.groups), t \in Ids(p.shortcuts) \cup {None} :
            Edit(d, MoveShortcut(p, s.id, g.id, t, now))
    BY <1>2, <1>6 DEF DropShortcut
  <2>2. g.id \in Int
    BY <1>4 DEF Live, Group
  <2>3. PICK q : q = MoveShortcut(p, s.id, g.id, t, now)
    OBVIOUS
  <2>4. LET r == MoveShortcut(p, s.id, g.id, t, now)
        IN r \in Profile(W) /\ Housed(r, stray) /\ SameKeys(p, r)
    BY <1>3, <1>4, <2>2, MoveHouses
  <2> QED
    BY <1>5, <2>1, <2>3, <2>4
<1>7. CASE RemoveShortcut(d)
  <2>1. PICK s \in Live(p.shortcuts) : Edit(d, DeleteShortcut(p, s.id, now))
    BY <1>2, <1>7 DEF RemoveShortcut
  <2>2. PICK q : q = DeleteShortcut(p, s.id, now)
    OBVIOUS
  <2>3. LET r == DeleteShortcut(p, s.id, now)
        IN r \in Profile(W) /\ Housed(r, stray) /\ SameKeys(p, r)
    BY <1>3, <1>4, DeleteHouses
  <2> QED
    BY <1>5, <2>1, <2>2, <2>3
<1>8. CASE CreateGroup(d)
  <2>1. PICK t \in Titles : EditWithIds(d, AddShortcutGroup(p, nextId[d], t, now)) /\ Draw(d)
    BY <1>2, <1>8 DEF CreateGroup
  <2>2. PICK id \in Int : id = nextId[d]
    BY <1>4
  <2>3. PICK q : q = AddShortcutGroup(p, id, t, now)
    OBVIOUS
  <2>4. t \in W
    BY <1>4 DEF Always
  <2>5. LET r == AddShortcutGroup(p, id, t, now)
        IN /\ r \in Profile(W) /\ Housed(r, stray) /\ SameKeys(p, r)
           /\ r.shortcuts = p.shortcuts
           /\ \E x \in Live(r.groups) : x.id = id /\ x.title = t
    <3>1. p \in Profile(W) /\ Housed(p, stray) /\ now \in W
      BY <1>3, <1>4
    <3> HIDE DEF p
    <3> QED
      BY <2>2, <2>4, <3>1, AddGroupHouses
  <2>6. nextId' \in [Device -> Int]
    BY <1>1, <2>1, DrawKeeps
  <2> QED
    BY <1>1, <1>3, <2>1, <2>2, <2>3, <2>5, <2>6, EntryEditIsSafe
<1>9. CASE RenameGroup(d)
  <2>1. PICK g \in Live(p.groups), t \in Titles : Edit(d, RenameShortcutGroup(p, g.id, t, now))
    BY <1>2, <1>9 DEF RenameGroup
  <2>2. PICK q : q = RenameShortcutGroup(p, g.id, t, now)
    OBVIOUS
  <2>3. t \in W
    BY <1>4 DEF Always
  <2>4. LET r == RenameShortcutGroup(p, g.id, t, now)
        IN r \in Profile(W) /\ Housed(r, stray) /\ SameKeys(p, r)
    BY <1>3, <1>4, <2>3, RenameHouses
  <2> QED
    BY <1>5, <2>1, <2>2, <2>4
<1>10. CASE MoveGroup(d)
  <2>1. PICK g, h \in Live(p.groups) : Edit(d, SwapShortcutGroupOrder(p, g.id, h.id, now))
    BY <1>2, <1>10 DEF MoveGroup
  <2>2. PICK q : q = SwapShortcutGroupOrder(p, g.id, h.id, now)
    OBVIOUS
  <2>3. LET r == SwapShortcutGroupOrder(p, g.id, h.id, now)
        IN r \in Profile(W) /\ Housed(r, stray) /\ SameKeys(p, r)
    BY <1>3, <1>4, SwapHouses
  <2> QED
    BY <1>5, <2>1, <2>2, <2>3
<1>11. CASE DeleteGroup(d)
  <2>1. PICK g \in Live(p.groups) : Edit(d, DeleteShortcutGroup(p, g.id, now))
    BY <1>2, <1>11 DEF DeleteGroup
  <2>2. PICK q : q = DeleteShortcutGroup(p, g.id, now)
    OBVIOUS
  <2>3. LET r == DeleteShortcutGroup(p, g.id, now)
        IN r \in Profile(W) /\ Housed(r, stray) /\ SameKeys(p, r)
    BY <1>3, <1>4, DeleteGroupHouses
  <2> QED
    BY <1>5, <2>1, <2>2, <2>3
<1> QED
  BY <1>6, <1>7, <1>8, <1>9, <1>10, <1>11

-----------------------------------------------------------------------------
(* The wallpapers *)

\* An edit of the wallpapers.
LEMMA WallpaperEditIsSafe ==
    ASSUME NEW V, Sound(V), Images(V), NEW d \in Device, NEW q \in Profile(V),
           Edit(d, q), KeysIn(q, stored[d]), SameEntries(profile[d], q)
    PROVE  Safe'
<1>1. Housed(q, stray)
  BY DEF Sound, Housed, SameEntries
<1> QED
  BY <1>1, EditIsSafe

\* What a device may show.
LEMMA CandidatesMayShow ==
    ASSUME NEW V, Sound(V), Images(V), NEW d \in Device, NEW k \in AllCandidates(d)
    PROVE  k \in V /\ MayShow(k, stored[d])
<1>1. stored[d] \subseteq LocalWallpaper
  BY DEF Images
<1> QED
  BY <1>1, WallpapersAssumption DEF Sound, Always, AllCandidates, MayShow

LEMMA ChooseIsSafe ==
    ASSUME Safe, NEW d \in Device, ChooseWallpaper(d)
    PROVE  Safe'
<1>1. PICK V : Sound(V) /\ Images(V)
  BY DEF Safe
<1> DEFINE p == profile[d]
           T == stored[d]
<1>2. /\ p \in Profile(V) /\ KeysIn(p, T)
      /\ Mist \in V /\ Mist \notin LocalWallpaper /\ Mist # None
  BY <1>1, MyProfile, WallpapersAssumption DEF Always
<1>3. PICK k \in AllCandidates(d) :
        \/ Edit(d, SetProfileWallpaper(p, k))
        \/ Edit(d, AddWallpaperToSelection(p, k))
        \/ Edit(d, RemoveWallpaperFromSelection(p, k))
  BY DEF ChooseWallpaper
<1>4. k \in V /\ MayShow(k, T)
  BY <1>1, CandidatesMayShow
<1>5. ASSUME NEW q \in Profile(V), KeysIn(q, T), SameEntries(p, q), Edit(d, q)
      PROVE  Safe'
  BY <1>1, <1>5, WallpaperEditIsSafe
<1>6. CASE Edit(d, SetProfileWallpaper(p, k))
  <2>1. PICK q : q = SetProfileWallpaper(p, k)
    OBVIOUS
  <2>2. LET r == SetProfileWallpaper(p, k)
        IN r \in Profile(V) /\ KeysIn(r, T) /\ SameEntries(p, r) /\ r.selected = k
    BY <1>2, <1>4, SetKeeps
  <2> QED
    BY <1>5, <1>6, <2>1, <2>2
<1>7. CASE Edit(d, AddWallpaperToSelection(p, k))
  <2>1. PICK q : q = AddWallpaperToSelection(p, k)
    OBVIOUS
  <2>2. LET r == AddWallpaperToSelection(p, k)
        IN r \in Profile(V) /\ KeysIn(r, T) /\ SameEntries(p, r)
    BY <1>2, <1>4, AddKeeps
  <2> QED
    BY <1>5, <1>7, <2>1, <2>2
<1>8. CASE Edit(d, RemoveWallpaperFromSelection(p, k))
  <2>1. PICK q : q = RemoveWallpaperFromSelection(p, k)
    OBVIOUS
  <2>2. LET r == RemoveWallpaperFromSelection(p, k)
        IN r \in Profile(V) /\ KeysIn(r, T) /\ SameEntries(p, r)
    BY <1>2, RemoveKeeps
  <2> QED
    BY <1>5, <1>8, <2>1, <2>2
<1> QED
  BY <1>3, <1>6, <1>7, <1>8

LEMMA UpdateIsSafe ==
    ASSUME Safe, NEW d \in Device, UpdateSource(d) \/ UpdateTheme(d)
    PROVE  Safe'
<1>1. PICK V : Sound(V) /\ Images(V)
  BY DEF Safe
<1> DEFINE p == profile[d]
           T == stored[d]
<1>2. p \in Profile(V) /\ KeysIn(p, T) /\ Always \subseteq V
  BY <1>1, MyProfile
<1>3. PICK q : /\ \/ \E v \in Columns : q = [p EXCEPT !.columns = v]
                  \/ \E v \in Styles : q = [p EXCEPT !.style = v]
                  \/ \E v \in Overlays : q = [p EXCEPT !.overlay = v]
                  \/ q = [p EXCEPT !.source = "web"]
               /\ Edit(d, q)
  BY DEF UpdateSource, UpdateTheme
<1>4. \A v \in Columns \cup Styles \cup Overlays : v \in V
  BY <1>2 DEF Always
<1>5. "web" \in V
  BY <1>2 DEF Always
<1> HIDE DEF p
<1>6. q \in Profile(V) /\ SameEntries(p, q) /\ SameKeys(p, q)
  BY <1>2, <1>3, <1>4, <1>5 DEF Profile, SameEntries, SameKeys
<1>7. KeysIn(q, T)
  BY <1>2, <1>6 DEF KeysIn, SameKeys
<1> QED
  BY <1>1, <1>3, <1>6, <1>7, WallpaperEditIsSafe DEF p

LEMMA RotationsKeep ==
    ASSUME NEW V, Sound(V), Images(V), NEW d \in Device,
           NEW q \in RotationsOfSelected(d, profile[d])
    PROVE  /\ q \in Profile(V) /\ KeysIn(q, stored[d]) /\ SameEntries(profile[d], q)
           /\ q.selected \in RotationCandidates(Entries(profile[d].ids), AllCandidates(d),
                                               profile[d].selected)
<1> DEFINE p == profile[d]
           T == stored[d]
           C == RotationCandidates(Entries(p.ids), AllCandidates(d), p.selected)
<1>1. p \in Profile(V) /\ KeysIn(p, T) /\ Always \subseteq V
  BY MyProfile
<1>2. p.ids \in Seq(V) /\ p.history \in Seq(V) /\ p.source \in V /\ "random" \in V
  BY <1>1 DEF Profile, Always
<1>3. \A k \in C : k \in V /\ MayShow(k, T)
  <2> TAKE k \in C
  <2>1. CASE k \in Entries(p.ids)
    BY <1>1, <1>2, <2>1, EntriesFinite DEF KeysIn, MayShow
  <2>2. CASE k \in AllCandidates(d)
    BY <2>2, CandidatesMayShow
  <2> QED
    BY <2>1, <2>2, CandidatesOf
<1>4. PICK pick \in Picks(C, p.history) : q = Rotated(p, pick.id, pick.history, p.source)
  BY DEF RotationsOfSelected
<1> HIDE DEF C
<1>5. C \in SUBSET V
  BY <1>3
<1>6. pick.id \in C /\ pick.history \in Seq(V)
  BY <1>2, <1>4, <1>5, PicksAreCandidates
<1>7. pick.id \in V /\ MayShow(pick.id, T)
  BY <1>3, <1>6
<1>8. LET r == Rotated(p, pick.id, pick.history, p.source)
      IN r \in Profile(V) /\ KeysIn(r, T) /\ SameEntries(p, r) /\ r.selected = pick.id
  BY <1>1, <1>2, <1>6, <1>7, RotatedKeeps
<1> QED
  BY <1>4, <1>6, <1>8 DEF C

LEMMA WebPicksKeep ==
    ASSUME NEW V, Sound(V), NEW d \in Device, NEW pool \in SUBSET Web,
           NEW pick \in WebPicks(pool, profile[d])
    PROVE  /\ pick.id \in Web /\ pick.history \in Seq(V)
           /\ LET q == Rotated(profile[d], pick.id, pick.history, "web")
              IN /\ q \in Profile(V) /\ KeysIn(q, stored[d]) /\ SameEntries(profile[d], q)
                 /\ q.selected \in RotationCandidates({}, pool, profile[d].selected)
<1> DEFINE p == profile[d]
           T == stored[d]
           C == RotationCandidates({}, pool, p.selected)
<1>1. p \in Profile(V) /\ KeysIn(p, T) /\ Always \subseteq V
  BY MyProfile
<1>2. p.history \in Seq(V) /\ "web" \in V /\ "random" \in V /\ Web \subseteq V
  BY <1>1 DEF Profile, Always
<1>3. C \in SUBSET V /\ C \subseteq Web
  BY <1>2, CandidatesOf
<1>4. pick \in Picks(C, p.history)
  BY DEF WebPicks
<1> HIDE DEF C
<1>5. pick.id \in C /\ pick.history \in Seq(V)
  BY <1>2, <1>3, <1>4, PicksAreCandidates
<1>6. pick.id \in V /\ MayShow(pick.id, T)
  BY <1>2, <1>3, <1>5, WallpapersAssumption DEF MayShow
<1>7. LET r == Rotated(p, pick.id, pick.history, "web")
      IN r \in Profile(V) /\ KeysIn(r, T) /\ SameEntries(p, r) /\ r.selected = pick.id
  BY <1>1, <1>2, <1>5, <1>6, RotatedKeeps
<1> QED
  BY <1>3, <1>5, <1>7 DEF C

\* A fetch leaves the profiles alone and adds what is to be fetched.
LEMMA StartIsSafe ==
    ASSUME NEW V, Sound(V), Images(V), NEW d \in Device,
           NEW for \in {"rotate", "upload", "select", "add"}, NEW key \in V, NEW history \in Seq(V),
           StartFetch(d, for, key, history),
           UNCHANGED <<profile, base, left, nextId, file, backup, stray>>
    PROVE  Safe'
<1> DEFINE f == Fetch(for, key, history, {})
<1>1. f \in Fetches(V) /\ f.asset = {}
  BY DEF Fetch, Fetches
<1>2. /\ fetching' = [fetching EXCEPT ![d] = fetching[d] \cup {f}] /\ stored' = stored
  BY DEF StartFetch, Images
<1> HIDE DEF f
<1>3. Images(V)'
  BY <1>1, <1>2 DEF Images
<1>4. Sound(V)'
  BY <1>2 DEF Sound, Offered
<1> QED
  BY <1>3, <1>4 DEF Safe

LEMMA RotateIsSafe ==
    ASSUME Safe, NEW d \in Device, RotateWallpaper(d)
    PROVE  Safe'
<1>1. PICK V : Sound(V) /\ Images(V)
  BY DEF Safe
<1>2. CASE \E q \in RotationsOfSelected(d, profile[d]) : Edit(d, q)
  <2>1. PICK q \in RotationsOfSelected(d, profile[d]) : Edit(d, q)
    BY <1>2
  <2>2. q \in Profile(V) /\ KeysIn(q, stored[d]) /\ SameEntries(profile[d], q)
    BY <1>1, RotationsKeep
  <2> QED
    BY <1>1, <2>1, <2>2, WallpaperEditIsSafe
<1>3. CASE \E pool \in SUBSET Web : \E pick \in WebPicks(pool, profile[d]) :
              IF pick.id \in Packaged
              THEN Edit(d, Rotated(profile[d], pick.id, pick.history, "web"))
              ELSE StartFetch(d, "rotate", pick.id, pick.history)
                   /\ UNCHANGED <<profile, base, left, nextId, file, backup, focus, stray, dragVars>>
  <2>0. PICK pool \in SUBSET Web : \E pick \in WebPicks(pool, profile[d]) :
              IF pick.id \in Packaged
              THEN Edit(d, Rotated(profile[d], pick.id, pick.history, "web"))
              ELSE StartFetch(d, "rotate", pick.id, pick.history)
                   /\ UNCHANGED <<profile, base, left, nextId, file, backup, focus, stray, dragVars>>
    BY <1>3
  <2>1. PICK pick \in WebPicks(pool, profile[d]) :
              IF pick.id \in Packaged
              THEN Edit(d, Rotated(profile[d], pick.id, pick.history, "web"))
              ELSE StartFetch(d, "rotate", pick.id, pick.history)
                   /\ UNCHANGED <<profile, base, left, nextId, file, backup, focus, stray, dragVars>>
    BY <2>0
  <2>2. /\ pick.id \in Web /\ pick.history \in Seq(V)
        /\ LET q == Rotated(profile[d], pick.id, pick.history, "web")
           IN /\ q \in Profile(V) /\ KeysIn(q, stored[d]) /\ SameEntries(profile[d], q)
              /\ q.selected \in RotationCandidates({}, pool, profile[d].selected)
    BY <1>1, WebPicksKeep
  <2>3. CASE pick.id \in Packaged
    <3>1. PICK q : q = Rotated(profile[d], pick.id, pick.history, "web")
      OBVIOUS
    <3> QED
      BY <1>1, <2>1, <2>2, <2>3, <3>1, WallpaperEditIsSafe
  <2>4. CASE pick.id \notin Packaged
    <3>1. pick.id \in V
      BY <1>1, <2>2 DEF Sound, Always
    <3>2. StartFetch(d, "rotate", pick.id, pick.history)
          /\ UNCHANGED <<profile, base, left, nextId, file, backup, stray>>
      BY <2>1, <2>4
    <3> QED
      BY <1>1, <2>2, <3>1, <3>2, StartIsSafe
  <2> QED
    BY <2>3, <2>4
<1> QED
  BY <1>2, <1>3 DEF RotateWallpaper

\* What a device stores, it may list.
LEMMA StoreIsSafe ==
    ASSUME NEW V, Sound(V), Images(V), NEW d \in Device, NEW f \in fetching[d], Store(d, f),
           UNCHANGED <<profile, base, left, nextId, file, backup, stray>>
    PROVE  Safe'
<1>1. PICK k \in FreshKeys :
        /\ stored' = [stored EXCEPT ![d] = @ \cup {k}]
        /\ fetching' = [fetching EXCEPT ![d] = (@ \ {f}) \cup {[f EXCEPT !.asset = @ \cup {k}]}]
  BY DEF Store
<1> DEFINE assets == f.asset \cup {k}
           h == [f EXCEPT !.asset = assets]
<1>2. f \in Fetches(V) /\ f.asset \subseteq stored[d] /\ k \in LocalWallpaper
  BY DEF Images, FreshKeys
<1>3. assets \in SUBSET LocalWallpaper /\ assets \subseteq stored[d] \cup {k}
  BY <1>2 DEF Fetches
<1>4. /\ stored' = [stored EXCEPT ![d] = stored[d] \cup {k}]
      /\ fetching' = [fetching EXCEPT ![d] = (fetching[d] \ {f}) \cup {h}]
  BY <1>1, <1>2 DEF Images, Fetches
<1> HIDE DEF assets
<1>5. h \in Fetches(V) /\ h.asset = assets
  BY <1>2, <1>3 DEF Fetches
<1> HIDE DEF h
<1>6. stored' \in [Device -> SUBSET LocalWallpaper] /\ fetching' \in [Device -> SUBSET Fetches(V)]
  BY <1>2, <1>4, <1>5 DEF Images
<1>7. \A e \in Device : stored[e] \subseteq stored'[e]
  BY <1>4 DEF Images
<1>8. ASSUME NEW e \in Device, NEW x \in fetching'[e] PROVE x.asset \subseteq stored'[e]
  <2>1. CASE x \in fetching[e]
    BY <1>7, <2>1 DEF Images
  <2>2. CASE x \notin fetching[e]
    <3>1. e = d /\ x = h
      BY <1>4, <2>2 DEF Images
    <3>2. stored'[d] = stored[d] \cup {k}
      BY <1>4 DEF Images
    <3> QED
      BY <1>3, <1>5, <3>1, <3>2
  <2> QED
    BY <2>1, <2>2
<1>9. Images(V)'
  BY <1>6, <1>8 DEF Images
<1>10. Sound(V)'
  <2>1. \A e \in Device : KeysIn(profile[e], stored'[e])
    BY <1>7 DEF Sound, KeysIn
  <2> QED
    BY <2>1 DEF Sound, Offered
<1> QED
  BY <1>9, <1>10 DEF Safe

LEMMA FetchIsSafe ==
    ASSUME Safe, NEW d \in Device, FetchImage(d)
    PROVE  Safe'
<1>1. PICK V : Sound(V) /\ Images(V)
  BY DEF Safe
<1>2. UNCHANGED <<profile, base, left, nextId, file, backup, stray>>
  BY DEF FetchImage
<1>3. <<>> \in Seq(V) /\ Web \subseteq V /\ "file" \in V
  BY <1>1 DEF Sound, Always
<1>4. CASE \E k \in Web \ Packaged, select \in BOOLEAN : SaveWeb(d, k, select)
  <2>1. PICK k \in Web \ Packaged, select \in BOOLEAN : SaveWeb(d, k, select)
    BY <1>4
  <2>2. PICK for \in {"select", "add"} : StartFetch(d, for, k, <<>>)
    BY <2>1 DEF SaveWeb
  <2> QED
    BY <1>1, <1>2, <1>3, <2>2, StartIsSafe
<1>5. CASE Upload(d)
  <2>1. StartFetch(d, "upload", "file", <<>>)
    BY <1>5 DEF Upload
  <2> QED
    BY <1>1, <1>2, <1>3, <2>1, StartIsSafe
<1>6. CASE \E f \in fetching[d] : Store(d, f)
  BY <1>1, <1>2, <1>6, StoreIsSafe
<1> QED
  BY <1>4, <1>5, <1>6 DEF FetchImage

LEMMA EndKeeps ==
    ASSUME NEW V, Images(V), NEW d \in Device, NEW f, EndFetch(d, f)
    PROVE  Images(V)'
<1>1. fetching' = [fetching EXCEPT ![d] = fetching[d] \ {f}] /\ stored' = stored
  BY DEF EndFetch, Images
<1> QED
  BY <1>1 DEF Images

LEMMA ShowIsSafe ==
    ASSUME Safe, NEW d \in Device, ShowImage(d)
    PROVE  Safe'
<1>1. PICK V : Sound(V) /\ Images(V)
  BY DEF Safe
<1> DEFINE p == profile[d]
           T == stored[d]
<1>2. PICK f \in fetching[d] : \E q \in Shows(p, f) :
        Persist(d, q) /\ EndFetch(d, f) /\ UNCHANGED <<nextId, backup, stray, dragVars>>
  BY DEF ShowImage
<1>3. PICK q \in Shows(p, f) :
        Persist(d, q) /\ EndFetch(d, f) /\ UNCHANGED <<nextId, backup, stray, dragVars>>
  BY <1>2
<1>4. p \in Profile(V) /\ KeysIn(p, T) /\ Housed(p, stray) /\ Always \subseteq V
  BY <1>1, MyProfile
<1>5. f \in Fetches(V) /\ f.asset \subseteq T /\ f.history \in Seq(V) /\ f.asset \subseteq LocalWallpaper
  BY <1>1 DEF Images, Fetches
<1>6. PICK k \in f.asset : q = CASE f.for = "add"    -> AddWallpaperToSelection(p, k)
                                 [] f.for = "rotate" -> Rotated(p, k, f.history, "web")
                                 [] OTHER            -> SetProfileWallpaper(p, k)
  BY DEF Shows
<1>7. k \in V /\ MayShow(k, T) /\ "web" \in V /\ "random" \in V
  BY <1>4, <1>5, WallpapersAssumption DEF Always, MayShow
<1>8. q \in Profile(V) /\ KeysIn(q, T) /\ SameEntries(p, q)
  <2>1. CASE f.for = "add"
    <3>1. LET r == AddWallpaperToSelection(p, k)
          IN r \in Profile(V) /\ KeysIn(r, T) /\ SameEntries(p, r)
      BY <1>4, <1>7, AddKeeps
    <3> QED
      BY <1>6, <2>1, <3>1
  <2>2. CASE f.for = "rotate"
    <3>1. LET r == Rotated(p, k, f.history, "web")
          IN r \in Profile(V) /\ KeysIn(r, T) /\ SameEntries(p, r) /\ r.selected = k
      BY <1>4, <1>5, <1>7, RotatedKeeps
    <3>2. q = Rotated(p, k, f.history, "web")
      BY <1>6, <2>2
    <3> QED
      BY <3>1, <3>2
  <2>3. CASE f.for \notin {"add", "rotate"}
    <3>1. LET r == SetProfileWallpaper(p, k)
          IN r \in Profile(V) /\ KeysIn(r, T) /\ SameEntries(p, r) /\ r.selected = k
      BY <1>4, <1>7, SetKeeps
    <3>2. q = SetProfileWallpaper(p, k)
      BY <1>6, <2>3
    <3> QED
      BY <3>1, <3>2
  <2> QED
    BY <2>1, <2>2, <2>3
<1>9. Housed(q, stray)
  BY <1>4, <1>8 DEF Housed, SameEntries
<1>10. stray' = stray /\ UNCHANGED <<backup, stored>> /\ nextId' \in [Device -> Int]
  BY <1>1, <1>3 DEF EndFetch, Sound
<1>11. Sound(V)'
  BY <1>1, <1>3, <1>8, <1>9, <1>10, PersistKeeps
<1>12. Images(V)'
  BY <1>1, <1>3, EndKeeps
<1> QED
  BY <1>11, <1>12 DEF Safe

LEMMA FailIsSafe ==
    ASSUME Safe, NEW d \in Device, FetchFails(d)
    PROVE  Safe'
<1>1. PICK V : Sound(V) /\ Images(V)
  BY DEF Safe
<1>2. PICK f \in fetching[d] :
        EndFetch(d, f) /\ UNCHANGED <<profile, base, left, nextId, file, backup, stray>>
  BY DEF FetchFails
<1>3. Images(V)'
  BY <1>1, <1>2, EndKeeps
<1>4. Sound(V)'
  BY <1>1, <1>2 DEF Sound, EndFetch, Offered
<1> QED
  BY <1>3, <1>4 DEF Safe

-----------------------------------------------------------------------------
(* Drags, and what replaces a profile *)

\* Steps of the pointer, and an export.
LEMMA RestIsSafe ==
    ASSUME NEW V, Sound(V), Images(V), UNCHANGED <<profile, base, left, nextId, file, stray, imageVars>>,
           backup' # None => Offered(V, Portion(backup'))
    PROVE  Safe'
<1>1. UNCHANGED <<stored, fetching>>
  BY DEF imageVars
<1>2. Images(V)'
  BY <1>1, ImagesStay
<1>3. (backup # None => Offered(V, Portion(backup)))'
  BY DEF Offered
<1>4. Sound(V)'
  BY <1>1, <1>3 DEF Sound
<1> QED
  BY <1>2, <1>4 DEF Safe

LEMMA ReleaseIsSafe ==
    ASSUME Safe, NEW d \in Device, ReleaseDrag(d)
    PROVE  Safe'
<1>1. PICK V : Sound(V) /\ Images(V)
  BY DEF Safe
<1>2. PICK now : now = Now(d)
  OBVIOUS
<1> DEFINE W == V \cup {now}
           p == profile[d]
<1>3. V \subseteq W /\ now \in W
  OBVIOUS
<1> HIDE DEF W
<1>4. /\ p \in Profile(W) /\ Housed(p, stray) /\ KeysIn(p, stored[d])
      /\ Entries(p.groups) \subseteq Group(W)
  BY <1>1, <1>3, MyProfile
<1>5. PICK drop \in Drops(d, p) :
        LET next == IF drop = None THEN p
                    ELSE MoveShortcut(p, drop.id, drop.dest, drop.onto, now)
        IN IF next = p THEN UNCHANGED <<profile, base, left, file, focus>> ELSE Persist(d, next)
  BY <1>2 DEF ReleaseDrag
<1>6. UNCHANGED <<nextId, backup, stray, imageVars>>
  BY DEF ReleaseDrag
<1>7. PICK q : q = IF drop = None THEN p ELSE MoveShortcut(p, drop.id, drop.dest, drop.onto, now)
  OBVIOUS
<1>8. CASE q = p
  <2>1. UNCHANGED <<profile, base, left, file>>
    BY <1>5, <1>7, <1>8
  <2> QED
    BY <1>1, <1>6, <2>1, RestIsSafe DEF Sound
<1>9. CASE q # p
  <2>1. Persist(d, q) /\ q = MoveShortcut(p, drop.id, drop.dest, drop.onto, now)
    BY <1>5, <1>7, <1>9
  <2>2. drop.dest \in Int
    <3>1. drop.dest \in {g.id : g \in Live(p.groups)}
      BY <1>9, <2>1 DEF MoveShortcut
    <3> QED
      BY <1>4, <3>1 DEF Live, Group
  <2>3. LET r == MoveShortcut(p, drop.id, drop.dest, drop.onto, now)
        IN r \in Profile(W) /\ Housed(r, stray) /\ SameKeys(p, r)
    BY <1>3, <1>4, <2>2, MoveHouses
  <2>4. q \in Profile(W) /\ Housed(q, stray) /\ KeysIn(q, stored[d])
    BY <1>4, <2>1, <2>3 DEF KeysIn, SameKeys
  <2>5. /\ stray' = stray /\ UNCHANGED <<backup, stored>> /\ UNCHANGED <<stored, fetching>>
        /\ nextId' \in [Device -> Int]
    BY <1>1, <1>6 DEF imageVars, Sound
  <2>6. Sound(W)'
    BY <1>1, <1>3, <2>1, <2>4, <2>5, PersistKeeps
  <2>7. Images(W)'
    BY <1>1, <1>3, <2>5, ImagesStay
  <2> QED
    BY <2>6, <2>7 DEF Safe
<1> QED
  BY <1>8, <1>9

LEMMA PointerIsSafe ==
    ASSUME Safe, NEW d \in Device, MovePointer(d)
    PROVE  Safe'
<1>1. PICK V : Sound(V) /\ Images(V)
  BY DEF Safe
<1>2. UNCHANGED <<profile, base, left, nextId, file, backup, stray, imageVars>>
  BY DEF MovePointer
<1> QED
  BY <1>1, <1>2, RestIsSafe DEF Sound

LEMMA ImportIsSafe ==
    ASSUME Safe, NEW d \in Device, ImportBrowserBookmarks(d)
    PROVE  Safe'
<1>1. PICK V : Sound(V) /\ Images(V)
  BY DEF Safe
<1>2. PICK now : now = Now(d)
  OBVIOUS
<1>3. PICK tags : tags = file.tags
  OBVIOUS
<1>4. /\ tags \in Seq(Entries(tags)) /\ \A i \in DOMAIN tags : tags[i].is \in TokenKinds
      /\ ParseNetscapeBookmarkHtml(tags) # None
  BY <1>1, <1>3 DEF ImportBrowserBookmarks, Sound, Readable
<1>5. PICK X : ParseNetscapeBookmarkHtml(tags) \in Seq([title : X, url : X])
  BY <1>4, ReadsAList
<1>6. PICK found : found = ParseNetscapeBookmarkHtml(tags)
  OBVIOUS
<1> DEFINE W == V \cup X \cup {now}
           p == profile[d]
<1>7. V \subseteq W /\ X \subseteq W /\ now \in W
  OBVIOUS
<1> HIDE DEF W
<1>8. found \in Seq([title : W, url : W])
  <2>1. [title : X, url : X] \subseteq [title : W, url : W]
    BY <1>7
  <2>2. Seq([title : X, url : X]) \subseteq Seq([title : W, url : W])
    BY <2>1, SeqMonotonic
  <2> QED
    BY <1>5, <1>6, <2>2
<1>9. p \in Profile(W) /\ Housed(p, stray) /\ nextId[d] \in Int /\ Step(d) \in Int
  BY <1>1, <1>7, MyProfile DEF Step
<1>10. PICK plan : plan = BuildBookmarkImportPlan(p, found, nextId[d], Step(d), now)
  OBVIOUS
<1>11. EditWithIds(d, plan.profile) /\ nextId' = [nextId EXCEPT ![d] = plan.next]
  BY <1>2, <1>3, <1>6, <1>10 DEF ImportBrowserBookmarks, Plan
<1>12. LET r == BuildBookmarkImportPlan(p, found, nextId[d], Step(d), now)
       IN r \in Plans(W) /\ Housed(r.profile, stray) /\ SameKeys(p, r.profile)
  BY <1>7, <1>8, <1>9, ImportHouses
<1>13. plan.profile \in Profile(W) /\ plan.next \in Int
  BY <1>10, <1>12 DEF Plans
<1>14. nextId' \in [Device -> Int]
  BY <1>1, <1>11, <1>13 DEF Sound
<1> QED
  BY <1>1, <1>7, <1>10, <1>11, <1>12, <1>13, <1>14, EntryEditIsSafe

LEMMA MistIsKept ==
    /\ Mist \notin LocalWallpaper /\ Mist # None /\ Mist \notin Retired
    /\ Retired \cap LocalWallpaper = {}
  BY WallpapersAssumption

LEMMA MyFullProfile ==
    ASSUME NEW V, Sound(V), NEW d \in Device
    PROVE  /\ profile[d] \in Profile(V) /\ KeysIn(profile[d], stored[d])
           /\ Housed(profile[d], stray) /\ Settings \subseteq V
           /\ profile[d].groups # <<>> /\ profile[d].shortcuts # <<>>
<1>1. profile[d] \in Profile(V) /\ KeysIn(profile[d], stored[d]) /\ Housed(profile[d], stray)
      /\ Always \subseteq V
  BY MyProfile
<1>2. Settings \subseteq V
  BY <1>1 DEF Always
<1> QED
  BY <1>1, <1>2 DEF Housed, Live, Entries

LEMMA AcceptTakes ==
    ASSUME NEW V, Sound(V), NEW d \in Device, NEW s, Offered(V, s)
    PROVE  LET q == ToLocal(s, profile[d])
           IN q \in Profile(V) /\ KeysIn(q, stored[d]) /\ SamePlaces(s, q)
<1>1. /\ profile[d] \in Profile(V) /\ KeysIn(profile[d], stored[d]) /\ Settings \subseteq V
      /\ profile[d].groups # <<>> /\ profile[d].shortcuts # <<>>
  BY MyFullProfile
<1>2. s \in SharedProfile(V) /\ SharedKeys(s) /\ s.groups # <<>> /\ s.shortcuts # <<>>
  BY DEF Offered, Housed, Live, Entries
<1> QED
  BY <1>1, <1>2, MistIsKept, AcceptKeeps

\* Accepting a shared profile whose shortcuts are at home.
LEMMA AcceptIsSafe ==
    ASSUME NEW V, Sound(V), Images(V), NEW d \in Device,
           NEW s, Offered(V, s), Edit(d, ToLocal(s, profile[d]))
    PROVE  Safe'
<1> DEFINE p == profile[d]
<1>1. PICK q : q = ToLocal(s, p)
  OBVIOUS
<1>2. q \in Profile(V) /\ KeysIn(q, stored[d]) /\ SamePlaces(s, q)
  BY <1>1, AcceptTakes
<1>3. s.shortcuts \in Seq(Shortcut(V)) /\ q.shortcuts \in Seq(Shortcut(V)) /\ Housed(s, stray)
  BY <1>2 DEF Profile, SharedProfile, Offered
<1>4. Housed(q, stray)
  BY <1>2, <1>3, PlacesHouse
<1> QED
  BY <1>1, <1>2, <1>4, EditIsSafe

\* What a device would export or upload.
LEMMA SharedIsSound ==
    ASSUME NEW V, Sound(V), NEW d \in Device, NEW s \in {ToShared(profile[d]), Shared(d)}
    PROVE  Offered(V, s) /\ SamePlaces(profile[d], s)
<1> DEFINE p == profile[d]
           own == MigrateProfile(p)
<1>1. /\ p \in Profile(V) /\ KeysIn(p, stored[d]) /\ Housed(p, stray) /\ Settings \subseteq V
      /\ p.groups # <<>> /\ p.shortcuts # <<>>
  BY MyFullProfile
<1>2. s \in SharedProfile(V) /\ SharedKeys(s) /\ SamePlaces(p, s)
  <2>1. CASE s = ToShared(p)
    <3>1. LET t == ToShared(p)
          IN t \in SharedProfile(V) /\ SharedKeys(t) /\ SamePlaces(p, t)
      BY <1>1, SharedIsShared
    <3> QED
      BY <2>1, <3>1
  <2>2. CASE s = Shared(d)
    <3>1. LET w == MigrateProfile(p)
          IN /\ ToShared(w) \in SharedProfile(V) /\ SharedKeys(ToShared(w))
             /\ SamePlaces(p, ToShared(w))
      BY <1>1, MistIsKept, MigratedIsFresh
    <3> QED
      BY <2>2, <3>1 DEF Shared
  <2> QED
    BY <2>1, <2>2
<1>3. p.shortcuts \in Seq(Shortcut(V)) /\ s.shortcuts \in Seq(Shortcut(V))
  BY <1>1, <1>2 DEF Profile, SharedProfile
<1>4. Housed(s, stray)
  BY <1>1, <1>2, <1>3, PlacesHouse
<1> QED
  BY <1>2, <1>4 DEF Offered

LEMMA OtherIsThere ==
    ASSUME NEW d \in Device
    PROVE  Other(d) \in Device /\ Other(d) # d /\ Device = {d, Other(d)} /\ Other(Other(d)) = d
  BY DevicesAssumption DEF Other

LEMMA ReplaceIsSafe ==
    ASSUME Safe, NEW d \in Device, ExportConfig(d) \/ ImportConfig(d) \/ Accept(d)
    PROVE  Safe'
<1>1. PICK V : Sound(V) /\ Images(V)
  BY DEF Safe
<1>2. CASE ExportConfig(d)
  <2>1. PICK s : s = ToShared(profile[d])
    OBVIOUS
  <2>2. Offered(V, s)
    BY <1>1, <2>1, SharedIsSound
  <2> DEFINE b == [format |-> "v2", profile |-> s]
  <2>3. Portion(b) = s
    BY DEF Portion
  <2>4. backup' = b /\ UNCHANGED <<profile, base, left, nextId, file, stray, imageVars>>
    BY <1>2, <2>1 DEF ExportConfig
  <2> HIDE DEF b
  <2> QED
    BY <1>1, <2>2, <2>3, <2>4, RestIsSafe
<1>3. CASE ImportConfig(d)
  <2>1. PICK s : s = Portion(backup)
    OBVIOUS
  <2>2. Offered(V, s) /\ Edit(d, ToLocal(s, profile[d]))
    BY <1>1, <1>3, <2>1 DEF ImportConfig, ParseBackup, Sound
  <2> QED
    BY <1>1, <2>2, AcceptIsSafe
<1>4. CASE Accept(d)
  <2>1. PICK e \in Device : e = Other(d)
    BY OtherIsThere
  <2>2. PICK s : s = Shared(e)
    OBVIOUS
  <2>3. Offered(V, s)
    BY <1>1, <2>2, SharedIsSound
  <2>4. Edit(d, ToLocal(s, profile[d]))
    BY <1>4, <2>1, <2>2 DEF Accept
  <2> QED
    BY <1>1, <2>3, <2>4, AcceptIsSafe
<1> QED
  BY <1>2, <1>3, <1>4

-----------------------------------------------------------------------------
\* What a shared profile holds.
Values(s) == {s.pid, s.engine, s.columns, s.style, s.overlay, s.mode, s.source, s.selected}
             \cup Entries(s.ids)
             \cup {g.title : g \in Entries(s.groups)} \cup {g.at : g \in Entries(s.groups)}
             \cup {x.url : x \in Entries(s.shortcuts)} \cup {x.icon : x \in Entries(s.shortcuts)}
             \cup {x.at : x \in Entries(s.shortcuts)}

LEMMA ShareableIs ==
    ASSUME NEW V, NEW s, Shareable(s), Values(s) \subseteq V
    PROVE  /\ s \in SharedProfile(V) /\ SharedKeys(s) /\ Housed(s, {})
           /\ Entries(s.groups) \subseteq Group(V) /\ Entries(s.shortcuts) \subseteq Shortcut(V)
           /\ s.groups \in Seq(Group(V)) /\ s.shortcuts \in Seq(Shortcut(V))
<1> DEFINE G == Entries(s.groups)
           L == Entries(s.shortcuts)
<1>1. /\ s \in [pid : {s.pid}, engine : {s.engine}, columns : {s.columns}, style : {s.style},
                overlay : {s.overlay}, mode : {s.mode}, source : {s.source},
                groups : Seq(G), shortcuts : Seq(L), selected : {s.selected}, ids : Seq(Entries(s.ids))]
      /\ \A g \in G : g \in [id : Int, title : {g.title}, sort : Int, at : {g.at}, del : BOOLEAN]
      /\ \A x \in L : x \in [id : Int, group : Int, url : {x.url}, icon : {x.icon}, sort : Int,
                             at : {x.at}, del : BOOLEAN]
      /\ WellFormed(s) /\ s.selected \notin LocalWallpaper
      /\ Live(s.groups) # {} /\ s.shortcuts # <<>> /\ Homeless(s) = {}
      /\ None \notin Entries(s.ids) \cup {s.selected}
  BY DEF Shareable
<1>2. /\ s.pid \in V /\ s.engine \in V /\ s.columns \in V /\ s.style \in V /\ s.overlay \in V
      /\ s.mode \in V /\ s.source \in V /\ s.selected \in V /\ Entries(s.ids) \subseteq V
      /\ \A g \in G : g.title \in V /\ g.at \in V
      /\ \A x \in L : x.url \in V /\ x.icon \in V /\ x.at \in V
  BY DEF Values
<1>3. G \subseteq Group(V)
  BY <1>1, <1>2 DEF Group
<1>4. L \subseteq Shortcut(V)
  BY <1>1, <1>2 DEF Shortcut
<1>5. s.groups \in Seq(G) /\ s.shortcuts \in Seq(L) /\ s.ids \in Seq(Entries(s.ids))
  BY <1>1
<1>6. s.groups \in Seq(Group(V))
  BY <1>3, <1>5, SeqMonotonic
<1>7. s.shortcuts \in Seq(Shortcut(V))
  BY <1>4, <1>5, SeqMonotonic
<1>8. s.ids \in Seq(V)
  BY <1>2, <1>5, SeqMonotonic
<1> HIDE DEF G, L
<1>9. s = [pid |-> s.pid, engine |-> s.engine, columns |-> s.columns, style |-> s.style,
           overlay |-> s.overlay, mode |-> s.mode, source |-> s.source, groups |-> s.groups,
           shortcuts |-> s.shortcuts, selected |-> s.selected, ids |-> s.ids]
  BY <1>1
<1>10. s \in SharedProfile(V)
  BY <1>2, <1>6, <1>7, <1>8, <1>9 DEF SharedProfile
<1>11. SharedKeys(s)
  BY <1>1 DEF SharedKeys, WellFormed, Entries
<1>12. Housed(s, {})
  BY <1>1 DEF Housed, AtHome, Homeless, LiveIds, Live
<1> QED
  BY <1>3, <1>4, <1>6, <1>7, <1>10, <1>11, <1>12 DEF G, L

\* What a profile that both devices may start from holds besides.
Own(p) == {p.selected, p.portable} \cup Entries(p.ids) \cup Entries(p.history)

LEMMA StartIs ==
    ASSUME NEW p \in Start, NEW V, Values(ToShared(p)) \cup Own(p) \subseteq V
    PROVE  /\ p \in Profile(V) /\ Housed(p, {}) /\ \A d \in Device : KeysIn(p, Stored[d])
           /\ ToShared(p) \in SharedProfile(V)
           /\ ToShared(p).groups = p.groups /\ ToShared(p).shortcuts = p.shortcuts
<1> DEFINE s == ToShared(p)
<1>1. /\ p \in [pid : {p.pid}, engine : {p.engine}, columns : {p.columns}, style : {p.style},
                overlay : {p.overlay}, mode : {p.mode}, source : {p.source},
                groups : Seq(Entries(p.groups)), shortcuts : Seq(Entries(p.shortcuts)),
                selected : {p.selected}, portable : {p.portable}, ids : Seq(Entries(p.ids)),
                history : Seq(Entries(p.history))]
      /\ Shareable(s)
      /\ \A x \in Entries(p.shortcuts) : x.icon # "local"
      /\ None \notin Entries(p.ids) \cup {p.selected, p.portable}
      /\ p.portable \notin LocalWallpaper
      /\ \A d \in Device : (Entries(p.ids) \cup {p.selected}) \cap LocalWallpaper \subseteq Stored[d]
  BY StartAssumption
<1>2. p.groups \in Seq(Entries(p.groups)) /\ p.shortcuts \in Seq(Entries(p.shortcuts))
      /\ p.ids \in Seq(Entries(p.ids)) /\ p.history \in Seq(Entries(p.history))
  BY <1>1
<1>3. /\ s.pid = p.pid /\ s.engine = p.engine /\ s.columns = p.columns /\ s.style = p.style
      /\ s.overlay = p.overlay /\ s.mode = p.mode /\ s.source = p.source
      /\ s.groups = p.groups /\ s.shortcuts = ReviseAll(p.shortcuts, PortableIcon)
  BY DEF ToShared
<1>4. ReviseAll(p.shortcuts, PortableIcon) = p.shortcuts
  <2>1. \A i \in DOMAIN p.shortcuts : PortableIcon(p.shortcuts[i]) = p.shortcuts[i]
    BY <1>1 DEF PortableIcon, Entries
  <2>2. p.shortcuts = [i \in DOMAIN p.shortcuts |-> p.shortcuts[i]]
    BY <1>2, LenProperties
  <2> QED
    BY <2>1, <2>2 DEF ReviseAll
<1>5. s.shortcuts = p.shortcuts
  BY <1>3, <1>4
<1> HIDE DEF s
<1>6. /\ s \in SharedProfile(V) /\ Housed(s, {})
      /\ p.groups \in Seq(Group(V)) /\ p.shortcuts \in Seq(Shortcut(V))
  BY <1>1, <1>3, <1>5, ShareableIs DEF s
<1>7. /\ p.pid \in V /\ p.engine \in V /\ p.columns \in V /\ p.style \in V /\ p.overlay \in V
      /\ p.mode \in V /\ p.source \in V /\ p.selected \in V /\ p.portable \in V
  BY <1>3, <1>6 DEF SharedProfile, Own
<1>8. p.ids \in Seq(V) /\ p.history \in Seq(V)
  <2>1. Entries(p.ids) \subseteq V /\ Entries(p.history) \subseteq V
    BY DEF Own
  <2> QED
    BY <1>2, <2>1, SeqMonotonic
<1>9. p = [pid |-> p.pid, engine |-> p.engine, columns |-> p.columns, style |-> p.style,
           overlay |-> p.overlay, mode |-> p.mode, source |-> p.source, groups |-> p.groups,
           shortcuts |-> p.shortcuts, selected |-> p.selected, portable |-> p.portable,
           ids |-> p.ids, history |-> p.history]
  BY <1>1
<1>10. p \in Profile(V)
  BY <1>6, <1>7, <1>8, <1>9 DEF Profile
<1>11. Housed(p, {})
  BY <1>3, <1>5, <1>6 DEF Housed
<1>12. \A d \in Device : KeysIn(p, Stored[d])
  BY <1>1 DEF KeysIn
<1> QED
  BY <1>3, <1>5, <1>6, <1>10, <1>11, <1>12 DEF s

LEMMA DrawnIs ==
    ASSUME NEW V, NEW p \in Profile(V), Housed(p, {}), NEW T, KeysIn(p, T), NEW ids
    PROVE  LET q == [p EXCEPT !.shortcuts = Drawn(@, ids)]
           IN q \in Profile(V) /\ Housed(q, {}) /\ KeysIn(q, T) /\ SamePlaces(p, q)
<1> DEFINE list == Drawn(p.shortcuts, ids)
           q == [p EXCEPT !.shortcuts = list]
<1>1. p.shortcuts \in Seq(Shortcut(V)) /\ p.shortcuts # <<>>
  BY DEF Profile, Housed
<1>2. list \in Seq(Shortcut(V)) /\ Repainted(p.shortcuts, list)
  BY <1>1, DrawnIcon
<1>3. [p EXCEPT !.shortcuts = Drawn(@, ids)] = q
  <2>1. p.shortcuts = p["shortcuts"]
    OBVIOUS
  <2> QED
    BY <2>1 DEF Profile
<1> HIDE DEF list
<1>4. q \in Profile(V) /\ q.groups = p.groups /\ q.shortcuts = list /\ SameKeys(p, q)
  BY <1>2, WithShortcuts
<1> HIDE DEF q
<1>5. SamePlaces(p, q)
  BY <1>2, <1>4 DEF SamePlaces
<1>6. Housed(q, {})
  BY <1>1, <1>2, <1>4, <1>5, PlacesHouse
<1>7. KeysIn(q, T)
  BY <1>4 DEF KeysIn, SameKeys
<1> QED
  BY <1>3, <1>4, <1>5, <1>6, <1>7

\* The two lists of ids, at the start.
LEMMA FirstIds ==
    ASSUME NEW V, NEW p \in Profile(V), Live(p.groups) # {}
    PROVE  LET ids == Ids(p.groups) \cup Ids(p.shortcuts)
           IN IsFiniteSet(ids) /\ ids \in SUBSET Int /\ ids # {}
<1>1. /\ p.groups \in Seq(Group(V)) /\ \A x \in Group(V) : x.id \in Int
      /\ p.shortcuts \in Seq(Shortcut(V)) /\ \A x \in Shortcut(V) : x.id \in Int
  BY DEF Profile, Group, Shortcut
<1>2. IsFiniteSet(Ids(p.groups)) /\ Ids(p.groups) \in SUBSET Int
  BY <1>1, IdsFinite
<1>3. IsFiniteSet(Ids(p.shortcuts)) /\ Ids(p.shortcuts) \in SUBSET Int
  BY <1>1, IdsFinite
<1>4. PICK g \in Live(p.groups) : TRUE
  OBVIOUS
<1>5. g.id \in Ids(p.groups)
  BY DEF Ids, Live
<1>6. IsFiniteSet(Ids(p.groups) \cup Ids(p.shortcuts))
  BY <1>2, <1>3, FS_Union
<1> QED
  BY <1>2, <1>3, <1>5, <1>6

\* How the two devices start.
Starts(p, scenario) ==
    /\ profile = [d \in Device |-> [p EXCEPT !.shortcuts = Drawn(@, Pictured[d])]]
    /\ base = ToShared(p)
    /\ left = scenario.edits /\ file = scenario.file /\ backup = scenario.backup /\ stray = {}
    /\ stored = Stored /\ fetching = [d \in Device |-> {}]
    /\ LET ids == Ids(p.groups) \cup Ids(p.shortcuts)
       IN nextId = [d \in Device |-> IF d = First THEN Max(ids) + 1 ELSE Min(ids) - 1]

LEMMA InitStarts ==
    ASSUME Init
    PROVE  \E p \in Start, scenario \in Scenarios : Starts(p, scenario)
  BY DEF Init, Starts

LEMMA InitIsSafe == Init => Safe
<1> SUFFICES ASSUME Init PROVE Safe
  OBVIOUS
<1>1. PICK p \in Start, scenario \in Scenarios : Starts(p, scenario)
  BY InitStarts
<1>2. PICK s : s = Portion(scenario.backup)
  OBVIOUS
<1> DEFINE V == Always \cup Values(ToShared(p)) \cup Own(p) \cup Values(s)
<1>3. Always \subseteq V /\ Values(ToShared(p)) \cup Own(p) \subseteq V /\ Values(s) \subseteq V
  OBVIOUS
<1> HIDE DEF V
<1>4. /\ p \in Profile(V) /\ Housed(p, {}) /\ (\A d \in Device : KeysIn(p, Stored[d]))
      /\ ToShared(p) \in SharedProfile(V)
  BY <1>3, StartIs
<1>5. ASSUME NEW d \in Device
      PROVE  profile[d] \in Profile(V) /\ KeysIn(profile[d], stored[d]) /\ Housed(profile[d], stray)
  <2>1. LET q == [p EXCEPT !.shortcuts = Drawn(@, Pictured[d])]
        IN q \in Profile(V) /\ Housed(q, {}) /\ KeysIn(q, Stored[d])
    BY <1>4, DrawnIs
  <2>2. profile[d] = [p EXCEPT !.shortcuts = Drawn(@, Pictured[d])] /\ stored = Stored /\ stray = {}
    BY <1>1 DEF Starts
  <2> QED
    BY <2>1, <2>2
<1>6. profile \in [Device -> Profile(V)] /\ base \in SharedProfile(V)
  <2>1. profile = [d \in Device |-> profile[d]]
    BY <1>1 DEF Starts
  <2> QED
    BY <1>1, <1>4, <1>5, <2>1 DEF Starts
<1>7. left \in [Device -> Int]
  BY <1>1, ScenariosAssumption DEF Starts
<1> DEFINE ids == Ids(p.groups) \cup Ids(p.shortcuts)
           above == Max(ids) + 1
           below == Min(ids) - 1
<1>8. nextId \in [Device -> Int]
  <2>1. IsFiniteSet(ids) /\ ids \in SUBSET Int /\ ids # {}
    BY <1>4, FirstIds DEF Housed
  <2> HIDE DEF ids
  <2>2. Max(ids) \in Int /\ Min(ids) \in Int
    BY <2>1, MaxIsThere, MinIsThere DEF Min
  <2>3. above \in Int /\ below \in Int
    BY <2>2
  <2>4. nextId = [d \in Device |-> IF d = First THEN above ELSE below]
    BY <1>1 DEF Starts, ids
  <2> HIDE DEF above, below
  <2> QED
    BY <2>3, <2>4
<1> HIDE DEF ids, above, below
<1>9. Readable(file)
  <2>1. \/ scenario.file = None
        \/ /\ scenario.file.tags \in Seq(Entries(scenario.file.tags))
           /\ \A tag \in Entries(scenario.file.tags) : tag.is \in TokenKinds
    BY ScenariosAssumption DEF TokenKinds
  <2> QED
    BY <1>1, <2>1 DEF Starts, Readable, Entries
<1>10. backup # None => Offered(V, Portion(backup))
  <2> SUFFICES ASSUME backup # None PROVE Offered(V, Portion(backup))
    OBVIOUS
  <2>1. Portion(backup) = s /\ Shareable(s) /\ stray = {}
    BY <1>1, <1>2, ScenariosAssumption DEF Starts
  <2>2. s \in SharedProfile(V) /\ SharedKeys(s) /\ Housed(s, {})
    BY <1>3, <2>1, ShareableIs
  <2> QED
    BY <2>1, <2>2 DEF Offered
<1>11. Sound(V)
  BY <1>3, <1>5, <1>6, <1>7, <1>8, <1>9, <1>10 DEF Sound
<1>12. Images(V)
  BY <1>1, WallpapersAssumption DEF Images, Starts
<1> QED
  BY <1>11, <1>12 DEF Safe

LEMMA NextIsSafe == Safe /\ [Next]_vars => Safe'
<1> SUFFICES ASSUME Safe, [Next]_vars PROVE Safe'
  OBVIOUS
<1>1. CASE UNCHANGED vars
  <2>1. PICK V : Sound(V) /\ Images(V)
    BY DEF Safe
  <2>2. UNCHANGED <<profile, base, left, nextId, file, stray, imageVars>> /\ backup' = backup
    BY <1>1 DEF vars
  <2> QED
    BY <2>1, <2>2, RestIsSafe DEF Sound
<1>2. CASE Next
  <2>1. PICK d \in Device : \/ EditEntries(d) \/ EditWallpapers(d) \/ UpdateTheme(d)
                            \/ DragShortcuts(d) \/ ReplaceProfile(d)
    BY <1>2 DEF Next
  <2>2. CASE EditEntries(d)
    BY <2>2, SubmitIsSafe, EntriesAreSafe DEF EditEntries
  <2>3. CASE EditWallpapers(d)
    BY <2>3, ChooseIsSafe, UpdateIsSafe, RotateIsSafe, FetchIsSafe, ShowIsSafe, FailIsSafe
       DEF EditWallpapers
  <2>4. CASE DragShortcuts(d)
    BY <2>4, PointerIsSafe, ReleaseIsSafe, EntriesAreSafe, ReplaceIsSafe DEF DragShortcuts
  <2>5. CASE ReplaceProfile(d)
    BY <2>5, ImportIsSafe, ReplaceIsSafe DEF ReplaceProfile
  <2>6. CASE UpdateTheme(d)
    BY <2>6, UpdateIsSafe
  <2> QED
    BY <2>1, <2>2, <2>3, <2>4, <2>5, <2>6
<1> QED
  BY <1>1, <1>2

\* The inductive invariant: through every function of mutations.ts, every import
\* and every accepted profile, what a page holds is a profile of the schema, its
\* shortcuts are at home, and it lists images of its own database only.
THEOREM SafeAlways == Spec => []Safe
<1>1. Init => Safe
  BY InitIsSafe
<1>2. Safe /\ [Next]_vars => Safe'
  BY NextIsSafe
<1> QED
  BY <1>1, <1>2, PTL DEF Spec

\* Visible, for any profiles and edits: no function of mutations.ts, no bookmark
\* import and no accepted profile leaves a live shortcut off the page, but for one
\* that upsertShortcut saved into a group that was gone, or a page without a group.
THEOREM VisibleAlways == Spec => []Visible
<1>1. Safe => Visible
  <2> SUFFICES ASSUME Safe, NEW d \in Device
               PROVE  /\ \A s \in Homeless(profile[d]) : s.id \in stray
                      /\ Live(profile[d].groups) # {}
    BY DEF Visible
  <2>1. Housed(profile[d], stray)
    BY DEF Safe, Sound
  <2>2. ASSUME NEW s \in Homeless(profile[d]) PROVE s.id \in stray
    <3>1. s \in Entries(profile[d].shortcuts) /\ ~s.del /\ s.group \notin LiveIds(profile[d].groups)
      BY DEF Homeless, Live, LiveIds
    <3> QED
      BY <2>1, <3>1 DEF Housed, AtHome
  <2> QED
    BY <2>1, <2>2 DEF Housed
<1> QED
  BY <1>1, SafeAlways, PTL

\* LocalIsStored, for any wallpapers and edits: whatever fetches fail or end late,
\* a page lists and shows only local images that saveLocalWallpaper has stored.
THEOREM LocalIsStoredAlways == Spec => []LocalIsStored
<1>1. Safe => LocalIsStored
  BY DEF Safe, Sound, KeysIn, LocalIsStored
<1> QED
  BY <1>1, SafeAlways, PTL

-----------------------------------------------------------------------------
(* Accepting and sharing again *)

\* What another device uploads is fit to be accepted.
LEMMA OtherIsFresh ==
    ASSUME NEW V, Sound(V), NEW e \in Device
    PROVE  /\ Shared(e) \in SharedProfile(V) /\ SharedKeys(Shared(e)) /\ Fresh(Shared(e))
           /\ Shared(e) = ToShared(MigrateProfile(profile[e]))
<1>1. /\ profile[e] \in Profile(V) /\ KeysIn(profile[e], stored[e]) /\ Settings \subseteq V
      /\ profile[e].groups # <<>> /\ profile[e].shortcuts # <<>>
  BY MyFullProfile
<1>2. LET own == MigrateProfile(profile[e])
      IN ToShared(own) \in SharedProfile(V) /\ SharedKeys(ToShared(own)) /\ Fresh(ToShared(own))
  BY <1>1, MistIsKept, MigratedIsFresh
<1> QED
  BY <1>2 DEF Shared

\* A device's profile after it accepted s, shared again.
LEMMA DeviceReturns ==
    ASSUME NEW V, Sound(V), NEW d \in Device,
           NEW s \in SharedProfile(V), SharedKeys(s), Fresh(s)
    PROVE  LET u == ToShared(ToLocal(s, profile[d]))
           IN u \in SharedProfile(V) /\ SharedKeys(u) /\ Returned(s, profile[d], u)
<1>1. /\ profile[d] \in Profile(V) /\ KeysIn(profile[d], stored[d]) /\ Settings \subseteq V
      /\ profile[d].groups # <<>> /\ profile[d].shortcuts # <<>>
  BY MyFullProfile
<1> QED
  BY <1>1, MistIsKept, AcceptReturns

LEMMA SharedReturns ==
    ASSUME NEW V, Sound(V), NEW d \in Device
    PROVE  LET s == Shared(Other(d))
               u == ToShared(ToLocal(s, profile[d]))
           IN /\ s \in SharedProfile(V) /\ u \in SharedProfile(V) /\ SharedKeys(u)
              /\ Returned(s, profile[d], u)
<1>1. PICK e \in Device : e = Other(d)
  BY OtherIsThere
<1>2. PICK s : s = Shared(e)
  OBVIOUS
<1>3. s \in SharedProfile(V) /\ SharedKeys(s) /\ Fresh(s)
  BY <1>2, OtherIsFresh
<1>4. LET u == ToShared(ToLocal(s, profile[d]))
      IN u \in SharedProfile(V) /\ SharedKeys(u) /\ Returned(s, profile[d], u)
  BY <1>3, DeviceReturns
<1> QED
  BY <1>1, <1>2, <1>3, <1>4

\* AcceptIsFaithful, for any two profiles a device and the one it accepts from may
\* have come to by edits: after both migrations, the device's own icons and
\* wallpapers and the way back through portableIcon, toSharedProfileV2 gives what
\* sharedProfileToLocalProfile took, so that there is nothing to upload, exactly
\* if none of three things is in the way.
THEOREM AcceptIsFaithfulAlways == Spec => []AcceptIsFaithful
<1>1. Safe => AcceptIsFaithful
  <2> SUFFICES ASSUME Safe, NEW d \in Device
               PROVE  LET theirs == Shared(Other(d))
                          mine == profile[d]
                          own == {mine.selected} \cup Entries(mine.ids)
                      IN ToShared(ToLocal(theirs, mine)) = theirs
                         <=> /\ \A s \in Entries(theirs.shortcuts) :
                                   s.id \in LocalIcons(MigrateProfile(mine)) =>
                                   s.icon = IF s.url \in KnownUrls THEN "favicon" ELSE "initial"
                             /\ theirs.ids # <<>> \/ own \cap LocalWallpaper # {}
                             /\ theirs.selected \notin Retired \/ mine.selected \in LocalWallpaper
    BY DEF AcceptIsFaithful
  <2>1. PICK V : Sound(V) /\ Images(V)
    BY DEF Safe
  <2>2. PICK s, u, mine : s = Shared(Other(d)) /\ u = ToShared(ToLocal(s, mine)) /\ mine = profile[d]
    OBVIOUS
  <2>3. s \in SharedProfile(V) /\ u \in SharedProfile(V) /\ Returned(s, mine, u)
    BY <2>1, <2>2, SharedReturns
  <2>4. u = s <=>
          /\ \A x \in Entries(s.shortcuts) :
                x.id \in LocalIcons(MigrateProfile(mine)) => x.icon = Stands(x)
          /\ s.ids # <<>> \/ LocalKeys(mine) # {}
          /\ s.selected \notin Retired \/ mine.selected \in LocalWallpaper
    BY <2>3, MistIsKept, ReturnedSame
  <2> QED
    BY <2>2, <2>4 DEF LocalKeys, Stands
<1> QED
  BY <1>1, SafeAlways, PTL

-----------------------------------------------------------------------------
(* Rotations *)

LEMMA RotateMoves ==
    ASSUME Safe, NEW d \in Device, RotateWallpaper(d), profile' # profile
    PROVE  profile'[d].selected # profile[d].selected
<1>1. PICK V : Sound(V) /\ Images(V)
  BY DEF Safe
<1> DEFINE p == profile[d]
<1>2. p \in Profile(V) /\ KeysIn(p, stored[d]) /\ profile \in [Device -> Profile(V)]
      /\ Always \subseteq V
  BY <1>1, MyProfile DEF Sound
<1>3. p.ids \in Seq(V)
  BY <1>2 DEF Profile
<1>4. CASE \E q \in RotationsOfSelected(d, p) : Edit(d, q)
  <2>1. PICK q \in RotationsOfSelected(d, p) : Edit(d, q)
    BY <1>4
  <2>2. q.selected \in RotationCandidates(Entries(p.ids), AllCandidates(d), p.selected)
    BY <1>1, RotationsKeep
  <2>3. IsFiniteSet(Entries(p.ids)) /\ Entries(p.ids) \in SUBSET V
    BY <1>3, EntriesFinite
  <2>4. ~(AllCandidates(d) \subseteq {p.selected})
    <3>1. Builtin \cup Web \subseteq AllCandidates(d) /\ Mist \in Builtin /\ Builtin \cup Web # {Mist}
      BY WallpapersAssumption DEF AllCandidates
    <3> QED
      BY <3>1
  <2>5. p.selected \notin RotationCandidates(Entries(p.ids), AllCandidates(d), p.selected)
    BY <2>3, <2>4, CandidatesDiffer
  <2>6. profile'[d] = q
    BY <1>2, <2>1 DEF Edit, EditWithIds, Persist
  <2> QED
    BY <2>2, <2>5, <2>6
<1>5. CASE \E pool \in SUBSET Web : \E pick \in WebPicks(pool, p) :
              pick.id \in Packaged /\ Edit(d, Rotated(p, pick.id, pick.history, "web"))
  <2>1. PICK pool \in SUBSET Web : \E pick \in WebPicks(pool, p) :
              pick.id \in Packaged /\ Edit(d, Rotated(p, pick.id, pick.history, "web"))
    BY <1>5
  <2>2. PICK pick \in WebPicks(pool, p) :
              pick.id \in Packaged /\ Edit(d, Rotated(p, pick.id, pick.history, "web"))
    BY <2>1
  <2>3. /\ pick.id \in Web /\ pick.history \in Seq(V)
        /\ LET q == Rotated(profile[d], pick.id, pick.history, "web")
           IN /\ q \in Profile(V) /\ KeysIn(q, stored[d]) /\ SameEntries(profile[d], q)
              /\ q.selected \in RotationCandidates({}, pool, profile[d].selected)
    BY <1>1, WebPicksKeep
  <2>4. ~(pool \subseteq {p.selected}) /\ IsFiniteSet({}) /\ {} \in SUBSET V
    BY <2>2, FS_EmptySet DEF WebPicks
  <2>5. p.selected \notin RotationCandidates({}, pool, p.selected)
    BY <2>4, CandidatesDiffer
  <2>6. PICK q : q = Rotated(p, pick.id, pick.history, "web")
    OBVIOUS
  <2>7. profile'[d] = q
    BY <1>2, <2>2, <2>6 DEF Edit, EditWithIds, Persist
  <2> QED
    BY <2>3, <2>5, <2>6, <2>7
<1>6. CASE UNCHANGED profile
  BY <1>6
<1> QED
  BY <1>4, <1>5, <1>6 DEF RotateWallpaper

\* RotationMoves, for any wallpapers, histories and categories: a rotation that
\* changes the profile puts up another wallpaper than the one shown.
THEOREM RotationAlwaysMoves == Spec => RotationMoves
<1>1. Safe /\ [Next]_vars =>
        [\A d \in Device : RotateWallpaper(d) /\ profile' # profile =>
            profile'[d].selected # profile[d].selected]_vars
  BY RotateMoves
<1> QED
  BY <1>1, SafeAlways, PTL DEF Spec, RotationMoves

-----------------------------------------------------------------------------
(* The three-way merge, seen from either side *)

\* MergeCommutes, for any three profiles: two devices that merge each other's
\* profile with mergeSharedProfiles come to the same one, or are asked the same
\* questions.
THEOREM MergeAlwaysCommutes == Spec => []MergeCommutes
<1>1. Safe => MergeCommutes
  <2> SUFFICES ASSUME Safe, NEW d \in Device
               PROVE  LET mine == Shared(d)
                          theirs == Shared(Other(d))
                          result == Merged(base, mine, theirs)
                          mirror == Merged(base, theirs, mine)
                      IN /\ Conflicts(base, mine, theirs) = {} =>
                               /\ Entries(result.groups) = Entries(mirror.groups)
                               /\ Entries(result.shortcuts) = Entries(mirror.shortcuts)
                               /\ \A f \in Scalars \cup {"ids"} : result[f] = mirror[f]
                         /\ {c \in Conflicts(base, mine, theirs) : c[1] # "groupId"}
                               = {c \in Conflicts(base, theirs, mine) : c[1] # "groupId"}
    BY DEF MergeCommutes
  <2>1. PICK V : Sound(V) /\ Images(V)
    BY DEF Safe
  <2>2. Shared(d) \in SharedProfile(V) /\ Shared(Other(d)) \in SharedProfile(V)
        /\ base \in SharedProfile(V)
    BY <2>1, OtherIsThere, OtherIsFresh DEF Sound
  <2>3. PICK b, l, r : b = base /\ l = Shared(d) /\ r = Shared(Other(d))
    OBVIOUS
  <2>4. b \in SharedProfile(V) /\ l \in SharedProfile(V) /\ r \in SharedProfile(V)
    BY <2>2, <2>3
  <2>5. Conflicts(b, l, r) = {} =>
          LET result == Merged(b, l, r)
              mirror == Merged(b, r, l)
          IN /\ Entries(result.groups) = Entries(mirror.groups)
             /\ Entries(result.shortcuts) = Entries(mirror.shortcuts)
             /\ \A f \in Scalars \cup {"ids"} : result[f] = mirror[f]
    BY <2>4, ConflictsAsked, MergeCommutesOf
  <2>6. {c \in Conflicts(b, l, r) : c[1] # "groupId"} = {c \in Conflicts(b, r, l) : c[1] # "groupId"}
    BY ConflictsAsked, AskedCommutes
  <2> QED
    BY <2>3, <2>5, <2>6
<1> QED
  BY <1>1, SafeAlways, PTL

-----------------------------------------------------------------------------
(* The order on the page *)

\* The ids there were at the start and those the devices have given since.
Given == Span(1, nextId[Other(First)], nextId[First])

\* A profile holds what the two devices started from, and given ids only.
Descends(p) ==
    /\ Named(p) /\ Within(p, Given)
    /\ Ids(base.groups) \subseteq Ids(p.groups) /\ Ids(base.shortcuts) \subseteq Ids(p.shortcuts)

OwnNames ==
    /\ Ahead(1, nextId[Other(First)], nextId[First])
    /\ Descends(base)
    /\ \A d \in Device : Descends(profile[d])
    /\ backup # None => Descends(Portion(backup))

AllOrdered ==
    /\ \A d \in Device : Ordered(profile[d])
    /\ backup # None => Ordered(Portion(backup))

LEMMA FirstDevice ==
    ASSUME NEW d \in Device
    PROVE  First \in Device /\ (d # First => Other(First) = d /\ Other(d) = First)
<1>1. First \in Device
  BY DEF First
<1>2. ASSUME NEW f \in Device, d # f PROVE Other(f) = d /\ Other(d) = f
  <2>1. Device = {f, Other(f)}
    BY OtherIsThere
  <2>2. Device = {d, Other(d)}
    BY OtherIsThere
  <2> QED
    BY <1>2, <2>1, <2>2
<1> QED
  BY <1>1, <1>2

\* The span, as either device sees it.
LEMMA SpanOf ==
    ASSUME NEW d \in Device
    PROVE  /\ Given = Span(Step(d), nextId[Other(d)], nextId[d])
           /\ Ahead(1, nextId[Other(First)], nextId[First])
                 <=> Ahead(Step(d), nextId[Other(d)], nextId[d])
           /\ Step(d) \in {1, -1}
<1>1. Step(d) \in {1, -1}
  BY DEF Step
<1>2. CASE d = First
  BY <1>2 DEF Given, Step
<1>3. CASE d # First
  <2>1. Other(First) = d /\ Other(d) = First
    BY <1>3, FirstDevice
  <2>2. Step(d) = -1
    BY <1>3 DEF Step
  <2>3. Span(1, nextId[d], nextId[First]) = Span(-1, nextId[First], nextId[d])
    BY DEF Span
  <2>4. Ahead(1, nextId[d], nextId[First]) <=> Ahead(-1, nextId[First], nextId[d])
    BY DEF Ahead
  <2> QED
    BY <1>1, <2>1, <2>2, <2>3, <2>4 DEF Given
<1> QED
  BY <1>1, <1>2, <1>3

LEMMA SpanOfNext ==
    ASSUME NEW d \in Device
    PROVE  /\ Given' = Span(Step(d), nextId'[Other(d)], nextId'[d])
           /\ Ahead(1, nextId[Other(First)], nextId[First])'
                 <=> Ahead(Step(d), nextId'[Other(d)], nextId'[d])
<1>1. CASE d = First
  BY <1>1 DEF Given, Step
<1>2. CASE d # First
  <2>1. Other(First) = d /\ Other(d) = First
    BY <1>2, FirstDevice
  <2>2. Step(d) = -1
    BY <1>2 DEF Step
  <2>3. Span(1, nextId'[d], nextId'[First]) = Span(-1, nextId'[First], nextId'[d])
    BY DEF Span
  <2>4. Ahead(1, nextId'[d], nextId'[First]) <=> Ahead(-1, nextId'[First], nextId'[d])
    BY DEF Ahead
  <2> QED
    BY <2>1, <2>2, <2>3, <2>4 DEF Given
<1> QED
  BY <1>1, <1>2

\* The ids after d has given some: up to n.
LEMMA DrawsTo ==
    ASSUME NEW V, Sound(V), NEW d \in Device, NEW n \in Int, nextId' = [nextId EXCEPT ![d] = n]
    PROVE  /\ Given' = Span(Step(d), nextId[Other(d)], n)
           /\ Ahead(1, nextId[Other(First)], nextId[First])' <=> Ahead(Step(d), nextId[Other(d)], n)
<1>1. nextId'[d] = n
  BY DEF Sound
<1>2. nextId'[Other(d)] = nextId[Other(d)]
  BY OtherIsThere DEF Sound
<1> QED
  BY <1>1, <1>2, SpanOfNext

LEMMA DescendsOn ==
    ASSUME NEW p, Descends(p), base' = base, Given \subseteq Given'
    PROVE  /\ Named(p) /\ Within(p, Given')
           /\ Ids(base'.groups) \subseteq Ids(p.groups)
           /\ Ids(base'.shortcuts) \subseteq Ids(p.shortcuts)
  BY DEF Descends, Within

\* A device takes on a profile that descends from the start.
LEMMA EditNames ==
    ASSUME NEW V, Sound(V), OwnNames, NEW d \in Device, NEW q, Persist(d, q), backup' = backup,
           Given \subseteq Given', Ahead(1, nextId[Other(First)], nextId[First])',
           Named(q), Within(q, Given'),
           Ids(base.groups) \subseteq Ids(q.groups), Ids(base.shortcuts) \subseteq Ids(q.shortcuts),
           AllOrdered => Ordered(q)
    PROVE  OwnNames' /\ (AllOrdered => AllOrdered')
<1>1. base' = base /\ profile' = [profile EXCEPT ![d] = q]
  BY DEF Persist
<1>2. profile'[d] = q /\ \A e \in Device : e # d => profile'[e] = profile[e]
  BY <1>1 DEF Sound
<1>3. Descends(base)'
  BY <1>1, DescendsOn DEF OwnNames, Descends
<1>4. ASSUME NEW e \in Device PROVE Descends(profile[e])'
  <2>1. CASE e = d
    BY <1>1, <1>2, <2>1 DEF Descends
  <2>2. CASE e # d
    <3>1. Descends(profile[e]) /\ profile'[e] = profile[e]
      BY <1>2, <2>2 DEF OwnNames
    <3> QED
      BY <1>1, <3>1, DescendsOn DEF Descends
  <2> QED
    BY <2>1, <2>2
<1>5. ASSUME backup' # None PROVE Descends(Portion(backup))'
  <2>1. Descends(Portion(backup))
    BY <1>5 DEF OwnNames
  <2> QED
    BY <1>1, <2>1, DescendsOn DEF Descends
<1>6. OwnNames'
  BY <1>3, <1>4, <1>5 DEF OwnNames
<1>7. ASSUME AllOrdered, NEW e \in Device PROVE Ordered(profile'[e])
  BY <1>2, <1>7 DEF AllOrdered
<1>8. AllOrdered => AllOrdered'
  BY <1>7 DEF AllOrdered
<1> QED
  BY <1>6, <1>8

\* Where no id is given.
LEMMA NothingDrawn ==
    ASSUME NEW V, Sound(V), OwnNames, nextId' = nextId
    PROVE  Given' = Given /\ Ahead(1, nextId[Other(First)], nextId[First])'
  BY DEF OwnNames, Given

\* An edit that gives no id.
LEMMA PlainEditNames ==
    ASSUME NEW V, Sound(V), OwnNames, NEW d \in Device, NEW q, Persist(d, q), backup' = backup,
           nextId' = nextId, Extends(profile[d], q, {}), Ordered(profile[d]) => Ordered(q)
    PROVE  OwnNames' /\ (AllOrdered => AllOrdered')
<1>1. Given' = Given /\ Ahead(1, nextId[Other(First)], nextId[First])'
  BY NothingDrawn
<1>2. Descends(profile[d])
  BY DEF OwnNames
<1>3. /\ Named(q) /\ Within(q, Given')
      /\ Ids(base.groups) \subseteq Ids(q.groups) /\ Ids(base.shortcuts) \subseteq Ids(q.shortcuts)
  BY <1>1, <1>2 DEF Descends, Extends, Within
<1>4. AllOrdered => Ordered(q)
  BY DEF AllOrdered
<1> QED
  BY <1>1, <1>3, <1>4, EditNames

\* An edit of the wallpapers.
LEMMA WallpaperEditNames ==
    ASSUME NEW V, Sound(V), OwnNames, NEW d \in Device, NEW q, Persist(d, q), backup' = backup,
           nextId' = nextId, SameEntries(profile[d], q)
    PROVE  OwnNames' /\ (AllOrdered => AllOrdered')
<1>1. Named(profile[d])
  BY DEF OwnNames, Descends
<1>2. Extends(profile[d], q, {}) /\ (Ordered(profile[d]) => Ordered(q))
  BY <1>1 DEF SameEntries, Extends, Named, Ordered
<1> QED
  BY <1>2, PlainEditNames
\* An edit under one new id.
LEMMA NewEntryNames ==
    ASSUME NEW V, Sound(V), OwnNames, NEW d \in Device, NEW q, Persist(d, q), backup' = backup,
           Draw(d), Extends(profile[d], q, {nextId[d]}), Ordered(profile[d]) => Ordered(q)
    PROVE  OwnNames' /\ (AllOrdered => AllOrdered')
<1> DEFINE n == nextId[d] + Step(d)
<1>1. nextId' = [nextId EXCEPT ![d] = n]
  BY DrawKeeps
<1>2. nextId[d] \in Int /\ nextId[Other(d)] \in Int /\ Step(d) \in {1, -1}
  BY OtherIsThere, SpanOf DEF Sound
<1>3. n \in Int
  BY <1>2
<1>4. Given = Span(Step(d), nextId[Other(d)], nextId[d])
      /\ Ahead(Step(d), nextId[Other(d)], nextId[d])
  BY SpanOf DEF OwnNames
<1>5. /\ Span(Step(d), nextId[Other(d)], n) = Given \cup {nextId[d]}
      /\ Ahead(Step(d), nextId[Other(d)], n)
  BY <1>2, <1>4, SpanGrows
<1> HIDE DEF n
<1>6. Given' = Given \cup {nextId[d]} /\ Ahead(1, nextId[Other(First)], nextId[First])'
  BY <1>1, <1>3, <1>5, DrawsTo
<1>7. Descends(profile[d])
  BY DEF OwnNames
<1>8. /\ Named(q) /\ Within(q, Given')
      /\ Ids(base.groups) \subseteq Ids(q.groups) /\ Ids(base.shortcuts) \subseteq Ids(q.shortcuts)
  BY <1>6, <1>7 DEF Descends, Extends, Within
<1>9. AllOrdered => Ordered(q)
  BY DEF AllOrdered
<1> QED
  BY <1>6, <1>8, <1>9, EditNames

\* The next id is no id of an entry.
LEMMA NextIsNew ==
    ASSUME NEW V, Sound(V), OwnNames, NEW d \in Device
    PROVE  nextId[d] \notin Ids(profile[d].groups) /\ nextId[d] \notin Ids(profile[d].shortcuts)
<1>1. nextId[d] \in Int /\ nextId[Other(d)] \in Int /\ Step(d) \in {1, -1}
  BY OtherIsThere, SpanOf DEF Sound
<1>2. Given = Span(Step(d), nextId[Other(d)], nextId[d])
      /\ Ahead(Step(d), nextId[Other(d)], nextId[d])
  BY SpanOf DEF OwnNames
<1>3. nextId[d] \notin Given
  BY <1>1, <1>2, SpanGrows
<1> QED
  BY <1>3 DEF OwnNames, Descends, Within

LEMMA SubmitNames ==
    ASSUME Safe, OwnNames, NEW d \in Device, SubmitShortcut(d)
    PROVE  OwnNames' /\ (AllOrdered => AllOrdered')
<1>1. PICK V : Sound(V) /\ Images(V)
  BY DEF Safe
<1>2. PICK now : now = Now(d)
  OBVIOUS
<1> DEFINE W == V \cup {now}
           p == profile[d]
<1>3. V \subseteq W /\ now \in W
  OBVIOUS
<1> HIDE DEF W
<1>4. /\ p \in Profile(W) /\ Always \subseteq W /\ nextId[d] \in Int
      /\ Entries(p.shortcuts) \subseteq Shortcut(W)
  BY <1>1, <1>3, MyProfile
<1>5. PICK id \in Ids(p.shortcuts) \cup {nextId[d]}, g \in Ids(p.groups), u \in Urls, i \in Icons :
        /\ Persist(d, UpsertShortcut(p, [id |-> id, group |-> g, url |-> u, icon |-> i], Now(d)))
        /\ IF id = nextId[d] THEN Draw(d) ELSE UNCHANGED nextId
        /\ UNCHANGED <<backup, imageVars, dragVars>>
  BY DEF SubmitShortcut
<1> DEFINE input == [id |-> id, group |-> g, url |-> u, icon |-> i]
<1>6. PICK q : q = UpsertShortcut(p, input, now)
  OBVIOUS
<1>7. input.id = id /\ input.group = g /\ input.url = u /\ input.icon = i
  OBVIOUS
<1>8. input.id \in Int /\ input.group \in Ids(p.groups) /\ input.url \in W /\ input.icon \in W
  BY <1>4, <1>5, <1>7 DEF Ids, Shortcut, Always
<1>9. Persist(d, q) /\ backup' = backup /\ Named(p)
  BY <1>2, <1>5, <1>6 DEF OwnNames, Descends
<1> HIDE DEF input
<1>10. LET r == UpsertShortcut(p, input, now)
       IN Extends(p, r, {input.id}) /\ (Ordered(p) => Ordered(r))
  BY <1>3, <1>4, <1>8, <1>9, UpsertOrders
<1>11. Extends(p, q, {id}) /\ (Ordered(p) => Ordered(q))
  BY <1>6, <1>7, <1>10
<1>12. CASE id = nextId[d]
  BY <1>1, <1>5, <1>9, <1>11, <1>12, NewEntryNames
<1>13. CASE id # nextId[d]
  <2>1. id \in Ids(p.shortcuts) /\ nextId' = nextId
    BY <1>5, <1>13
  <2>2. Extends(p, q, {})
    <3>1. Ids(q.groups) = Ids(p.groups)
      <4>1. q.groups = p.groups
        BY <1>4, <1>6 DEF UpsertShortcut, Profile
      <4> QED
        BY <4>1
    <3> QED
      BY <1>11, <2>1, <3>1 DEF Extends
  <2> QED
    BY <1>1, <1>9, <1>11, <2>1, <2>2, PlainEditNames
<1> QED
  BY <1>12, <1>13

\* The other edits of the entries.
LEMMA EntriesKeepNames ==
    ASSUME Safe, OwnNames, NEW d \in Device,
           \/ DropShortcut(d) \/ RemoveShortcut(d) \/ CreateGroup(d)
           \/ RenameGroup(d) \/ MoveGroup(d) \/ DeleteGroup(d)
    PROVE  OwnNames' /\ (AllOrdered => AllOrdered')
<1>1. PICK V : Sound(V) /\ Images(V)
  BY DEF Safe
<1>2. PICK now : now = Now(d)
  OBVIOUS
<1> DEFINE W == V \cup {now}
           p == profile[d]
<1>3. V \subseteq W /\ now \in W
  OBVIOUS
<1> HIDE DEF W
<1>4. /\ p \in Profile(W) /\ Always \subseteq W /\ nextId[d] \in Int /\ Named(p)
      /\ Entries(p.groups) \subseteq Group(W)
  BY <1>1, <1>3, MyProfile DEF OwnNames, Descends
<1>5. ASSUME NEW q, Extends(p, q, {}), Ordered(p) => Ordered(q), Edit(d, q)
      PROVE  OwnNames' /\ (AllOrdered => AllOrdered')
  <2>1. Persist(d, q) /\ backup' = backup /\ nextId' = nextId
    BY <1>5 DEF Edit, EditWithIds
  <2> QED
    BY <1>1, <1>5, <2>1, PlainEditNames
<1>6. CASE DropShortcut(d)
  <2>1. PICK s \in Live(p.shortcuts), g \in Live(p.groups), t \in Ids(p.shortcuts) \cup {None} :
            Edit(d, MoveShortcut(p, s.id, g.id, t, now))
    BY <1>2, <1>6 DEF DropShortcut
  <2>2. g.id \in Int
    BY <1>4 DEF Live, Group
  <2>3. PICK q : q = MoveShortcut(p, s.id, g.id, t, now)
    OBVIOUS
  <2>4. LET r == MoveShortcut(p, s.id, g.id, t, now)
        IN Extends(p, r, {}) /\ (Ordered(p) => Ordered(r))
    BY <1>3, <1>4, <2>2, MoveOrders
  <2> QED
    BY <1>5, <2>1, <2>3, <2>4
<1>7. CASE RemoveShortcut(d)
  <2>1. PICK s \in Live(p.shortcuts) : Edit(d, DeleteShortcut(p, s.id, now))
    BY <1>2, <1>7 DEF RemoveShortcut
  <2>2. PICK q : q = DeleteShortcut(p, s.id, now)
    OBVIOUS
  <2>3. LET r == DeleteShortcut(p, s.id, now)
        IN Extends(p, r, {}) /\ (Ordered(p) => Ordered(r))
    BY <1>3, <1>4, DeleteOrders
  <2> QED
    BY <1>5, <2>1, <2>2, <2>3
<1>8. CASE CreateGroup(d)
  <2>1. PICK t \in Titles : EditWithIds(d, AddShortcutGroup(p, nextId[d], t, now)) /\ Draw(d)
    BY <1>2, <1>8 DEF CreateGroup
  <2>2. PICK id \in Int : id = nextId[d]
    BY <1>4
  <2>3. PICK q : q = AddShortcutGroup(p, id, t, now)
    OBVIOUS
  <2>4. t \in W /\ id \notin Ids(p.groups)
    BY <1>1, <1>4, <2>2, NextIsNew DEF Always
  <2>5. LET r == AddShortcutGroup(p, id, t, now)
        IN Extends(p, r, {id}) /\ (Ordered(p) => Ordered(r)) /\ r.shortcuts = p.shortcuts
    <3>1. p \in Profile(W) /\ Named(p) /\ now \in W
      BY <1>3, <1>4
    <3> HIDE DEF p
    <3> QED
      BY <2>2, <2>4, <3>1, AddGroupOrders
  <2>6. Extends(p, q, {nextId[d]}) /\ (Ordered(p) => Ordered(q))
    BY <2>2, <2>3, <2>5
  <2>7. Persist(d, q) /\ backup' = backup /\ Draw(d)
    BY <2>1, <2>2, <2>3 DEF EditWithIds
  <2> QED
    BY <1>1, <2>6, <2>7, NewEntryNames
<1>9. CASE RenameGroup(d)
  <2>1. PICK g \in Live(p.groups), t \in Titles : Edit(d, RenameShortcutGroup(p, g.id, t, now))
    BY <1>2, <1>9 DEF RenameGroup
  <2>2. PICK q : q = RenameShortcutGroup(p, g.id, t, now)
    OBVIOUS
  <2>3. t \in W
    BY <1>4 DEF Always
  <2>4. LET r == RenameShortcutGroup(p, g.id, t, now)
        IN Extends(p, r, {}) /\ (Ordered(p) => Ordered(r))
    BY <1>3, <1>4, <2>3, RenameOrders
  <2> QED
    BY <1>5, <2>1, <2>2, <2>4
<1>10. CASE MoveGroup(d)
  <2>1. PICK g, h \in Live(p.groups) : Edit(d, SwapShortcutGroupOrder(p, g.id, h.id, now))
    BY <1>2, <1>10 DEF MoveGroup
  <2>2. PICK q : q = SwapShortcutGroupOrder(p, g.id, h.id, now)
    OBVIOUS
  <2>3. LET r == SwapShortcutGroupOrder(p, g.id, h.id, now)
        IN Extends(p, r, {}) /\ (Ordered(p) => Ordered(r))
    BY <1>3, <1>4, SwapOrders
  <2> QED
    BY <1>5, <2>1, <2>2, <2>3
<1>11. CASE DeleteGroup(d)
  <2>1. PICK g \in Live(p.groups) : Edit(d, DeleteShortcutGroup(p, g.id, now))
    BY <1>2, <1>11 DEF DeleteGroup
  <2>2. PICK q : q = DeleteShortcutGroup(p, g.id, now)
    OBVIOUS
  <2>3. LET r == DeleteShortcutGroup(p, g.id, now)
        IN Extends(p, r, {}) /\ (Ordered(p) => Ordered(r))
    BY <1>3, <1>4, DeleteGroupOrders
  <2> QED
    BY <1>5, <2>1, <2>2, <2>3
<1> QED
  BY <1>6, <1>7, <1>8, <1>9, <1>10, <1>11

LEMMA WallpapersKeepEntries ==
    ASSUME NEW V, NEW p \in Profile(V), NEW k, NEW h, NEW s
    PROVE  /\ SameEntries(p, SetProfileWallpaper(p, k))
           /\ SameEntries(p, AddWallpaperToSelection(p, k))
           /\ SameEntries(p, RemoveWallpaperFromSelection(p, k))
           /\ SameEntries(p, Rotated(p, k, h, s))
           /\ SameEntries(p, [p EXCEPT !.source = k]) /\ SameEntries(p, [p EXCEPT !.columns = k])
           /\ SameEntries(p, [p EXCEPT !.style = k]) /\ SameEntries(p, [p EXCEPT !.overlay = k])
<1>1. SameEntries(p, SetProfileWallpaper(p, k)) /\ SameEntries(p, AddWallpaperToSelection(p, k))
  BY DEF SameEntries, SetProfileWallpaper, AddWallpaperToSelection, Profile
<1>2. SameEntries(p, RemoveWallpaperFromSelection(p, k))
  <2> DEFINE ids == Filter(p.ids, LAMBDA x : x # k)
             past == Filter(p.history, LAMBDA x : x # k)
             now == IF p.selected # k THEN p.selected ELSE IF ids = <<>> THEN Mist ELSE ids[1]
  <2>1. RemoveWallpaperFromSelection(p, k)
        = [p EXCEPT !.ids = ids, !.selected = now, !.history = past]
    BY DEF RemoveWallpaperFromSelection, Profile
  <2> HIDE DEF ids, past, now
  <2> QED
    BY <2>1 DEF SameEntries, Profile
<1>3. SameEntries(p, Rotated(p, k, h, s))
  <2> DEFINE q == SetProfileWallpaper(p, k)
  <2>1. SameEntries(p, [q EXCEPT !.mode = "random", !.source = s, !.history = h])
    BY DEF SetProfileWallpaper, SameEntries, Profile
  <2> QED
    BY <2>1 DEF Rotated
<1>4. /\ SameEntries(p, [p EXCEPT !.source = k]) /\ SameEntries(p, [p EXCEPT !.columns = k])
      /\ SameEntries(p, [p EXCEPT !.style = k]) /\ SameEntries(p, [p EXCEPT !.overlay = k])
  BY DEF SameEntries, Profile
<1> QED
  BY <1>1, <1>2, <1>3, <1>4

\* Steps that leave the profiles and the backup alone.
LEMMA RestNames ==
    ASSUME OwnNames, UNCHANGED <<profile, base, nextId, backup>>
    PROVE  OwnNames' /\ (AllOrdered => AllOrdered')
  BY DEF OwnNames, AllOrdered, Descends, Given

LEMMA WallpapersKeepNames ==
    ASSUME Safe, OwnNames, NEW d \in Device, EditWallpapers(d) \/ UpdateTheme(d)
    PROVE  OwnNames' /\ (AllOrdered => AllOrdered')
<1>1. PICK V : Sound(V) /\ Images(V)
  BY DEF Safe
<1> DEFINE p == profile[d]
<1>2. p \in Profile(V)
  BY <1>1, MyProfile
<1>3. ASSUME NEW q, SameEntries(p, q), Edit(d, q) PROVE OwnNames' /\ (AllOrdered => AllOrdered')
  <2>1. Persist(d, q) /\ backup' = backup /\ nextId' = nextId
    BY <1>3 DEF Edit, EditWithIds
  <2> QED
    BY <1>1, <1>3, <2>1, WallpaperEditNames
<1>4. CASE ChooseWallpaper(d)
  BY <1>2, <1>3, <1>4, WallpapersKeepEntries DEF ChooseWallpaper
<1>5. CASE UpdateSource(d) \/ UpdateTheme(d)
  BY <1>2, <1>3, <1>5, WallpapersKeepEntries DEF UpdateSource, UpdateTheme
<1>6. CASE RotateWallpaper(d)
  <2>1. CASE \E q \in RotationsOfSelected(d, p) : Edit(d, q)
    <3>1. PICK q \in RotationsOfSelected(d, p) : Edit(d, q)
      BY <2>1
    <3>2. PICK k, h : q = Rotated(p, k, h, p.source)
      BY <3>1 DEF RotationsOfSelected
    <3> QED
      BY <1>2, <1>3, <3>1, <3>2, WallpapersKeepEntries
  <2>2. CASE \E pool \in SUBSET Web : \E pick \in WebPicks(pool, p) :
                Edit(d, Rotated(p, pick.id, pick.history, "web"))
    BY <1>2, <1>3, <2>2, WallpapersKeepEntries
  <2>3. CASE UNCHANGED <<profile, base, left, nextId, file, backup, focus, stray, dragVars>>
    BY <2>3, RestNames
  <2> QED
    BY <1>6, <2>1, <2>2, <2>3 DEF RotateWallpaper
<1>7. CASE FetchImage(d) \/ FetchFails(d)
  BY <1>7, RestNames DEF FetchImage, FetchFails
<1>8. CASE ShowImage(d)
  <2>1. PICK f \in fetching[d] : \E q \in Shows(p, f) :
          Persist(d, q) /\ EndFetch(d, f) /\ UNCHANGED <<nextId, backup, stray, dragVars>>
    BY <1>8 DEF ShowImage
  <2>2. PICK q \in Shows(p, f) :
          Persist(d, q) /\ EndFetch(d, f) /\ UNCHANGED <<nextId, backup, stray, dragVars>>
    BY <2>1
  <2>3. PICK k : \/ q = AddWallpaperToSelection(p, k) \/ q = SetProfileWallpaper(p, k)
                  \/ q = Rotated(p, k, f.history, "web")
    BY DEF Shows
  <2>4. SameEntries(p, q)
    <3>1. PICK h : h = f.history
      OBVIOUS
    <3>2. /\ SameEntries(p, AddWallpaperToSelection(p, k)) /\ SameEntries(p, SetProfileWallpaper(p, k))
          /\ SameEntries(p, Rotated(p, k, h, "web"))
      BY <1>2, WallpapersKeepEntries
    <3> QED
      BY <2>3, <3>1, <3>2
  <2> QED
    BY <1>1, <2>2, <2>4, WallpaperEditNames
<1> QED
  BY <1>4, <1>5, <1>6, <1>7, <1>8 DEF EditWallpapers

LEMMA ReleaseNames ==
    ASSUME Safe, OwnNames, NEW d \in Device, ReleaseDrag(d)
    PROVE  OwnNames' /\ (AllOrdered => AllOrdered')
<1>1. PICK V : Sound(V) /\ Images(V)
  BY DEF Safe
<1>2. PICK now : now = Now(d)
  OBVIOUS
<1> DEFINE W == V \cup {now}
           p == profile[d]
<1>3. V \subseteq W /\ now \in W
  OBVIOUS
<1> HIDE DEF W
<1>4. p \in Profile(W) /\ Entries(p.groups) \subseteq Group(W) /\ Named(p)
  BY <1>1, <1>3, MyProfile DEF OwnNames, Descends
<1>5. PICK drop \in Drops(d, p) :
        LET next == IF drop = None THEN p
                    ELSE MoveShortcut(p, drop.id, drop.dest, drop.onto, now)
        IN IF next = p THEN UNCHANGED <<profile, base, left, file, focus>> ELSE Persist(d, next)
  BY <1>2 DEF ReleaseDrag
<1>6. UNCHANGED <<nextId, backup, stray, imageVars>>
  BY DEF ReleaseDrag
<1>7. PICK q : q = IF drop = None THEN p ELSE MoveShortcut(p, drop.id, drop.dest, drop.onto, now)
  OBVIOUS
<1>8. CASE q = p
  BY <1>5, <1>6, <1>7, <1>8, RestNames
<1>9. CASE q # p
  <2>1. Persist(d, q) /\ q = MoveShortcut(p, drop.id, drop.dest, drop.onto, now)
    BY <1>5, <1>7, <1>9
  <2>2. drop.dest \in Int
    <3>1. drop.dest \in {g.id : g \in Live(p.groups)}
      BY <1>9, <2>1 DEF MoveShortcut
    <3> QED
      BY <1>4, <3>1 DEF Live, Group
  <2>3. LET r == MoveShortcut(p, drop.id, drop.dest, drop.onto, now)
        IN Extends(p, r, {}) /\ (Ordered(p) => Ordered(r))
    BY <1>3, <1>4, <2>2, MoveOrders
  <2> QED
    BY <1>1, <1>6, <2>1, <2>3, PlainEditNames
<1> QED
  BY <1>8, <1>9

LEMMA ImportNames ==
    ASSUME Safe, OwnNames, NEW d \in Device, ImportBrowserBookmarks(d)
    PROVE  OwnNames' /\ (AllOrdered => AllOrdered')
<1>1. PICK V : Sound(V) /\ Images(V)
  BY DEF Safe
<1>2. PICK now : now = Now(d)
  OBVIOUS
<1>3. PICK tags : tags = file.tags
  OBVIOUS
<1>4. /\ tags \in Seq(Entries(tags)) /\ \A i \in DOMAIN tags : tags[i].is \in TokenKinds
      /\ ParseNetscapeBookmarkHtml(tags) # None
  BY <1>1, <1>3 DEF ImportBrowserBookmarks, Sound, Readable
<1>5. PICK X : ParseNetscapeBookmarkHtml(tags) \in Seq([title : X, url : X])
  BY <1>4, ReadsAList
<1>6. PICK found : found = ParseNetscapeBookmarkHtml(tags)
  OBVIOUS
<1> DEFINE W == V \cup X \cup {now}
           p == profile[d]
<1>7. V \subseteq W /\ X \subseteq W /\ now \in W
  OBVIOUS
<1> HIDE DEF W
<1>8. found \in Seq([title : W, url : W])
  <2>1. [title : X, url : X] \subseteq [title : W, url : W]
    BY <1>7
  <2>2. Seq([title : X, url : X]) \subseteq Seq([title : W, url : W])
    BY <2>1, SeqMonotonic
  <2> QED
    BY <1>5, <1>6, <2>2
<1>9. p \in Profile(W) /\ Housed(p, stray) /\ nextId[d] \in Int /\ nextId[Other(d)] \in Int
      /\ Step(d) \in {1, -1} /\ Descends(p)
  BY <1>1, <1>7, MyProfile, OtherIsThere, SpanOf DEF OwnNames
<1>10. PICK start \in Int, edge \in Int, step \in {1, -1} :
          start = nextId[d] /\ edge = nextId[Other(d)] /\ step = Step(d)
  BY <1>9
<1>11. PICK plan : plan = BuildBookmarkImportPlan(p, found, start, step, now)
  OBVIOUS
<1>12. EditWithIds(d, plan.profile) /\ nextId' = [nextId EXCEPT ![d] = plan.next]
  BY <1>2, <1>3, <1>6, <1>10, <1>11 DEF ImportBrowserBookmarks, Plan
<1>13. Given = Span(step, edge, start) /\ Ahead(step, edge, start)
  BY <1>10, SpanOf DEF OwnNames
<1>14. Named(p) /\ Within(p, Span(step, edge, start))
  BY <1>9, <1>13 DEF Descends
<1> HIDE DEF p
<1>15. Imports(p, plan, step, edge, start)
  BY <1>7, <1>8, <1>9, <1>11, <1>13, <1>14, ImportOrders
<1>16. plan.next \in Int
  <2>1. step \in Int
    OBVIOUS
  <2>2. LET r == BuildBookmarkImportPlan(p, found, start, step, now)
        IN r \in Plans(W) /\ Housed(r.profile, stray) /\ SameKeys(p, r.profile)
    BY <1>7, <1>8, <1>9, <2>1, ImportHouses
  <2> QED
    BY <1>11, <2>2 DEF Plans
<1>17. Given' = Span(step, edge, plan.next)
       /\ (Ahead(1, nextId[Other(First)], nextId[First])' <=> Ahead(step, edge, plan.next))
  BY <1>1, <1>10, <1>12, <1>16, DrawsTo
<1>18. PICK q : q = plan.profile
  OBVIOUS
<1>19. /\ Named(q) /\ Within(q, Given') /\ (Ordered(p) => Ordered(q))
       /\ Ids(p.groups) \subseteq Ids(q.groups) /\ Ids(p.shortcuts) \subseteq Ids(q.shortcuts)
       /\ Given \subseteq Given' /\ Ahead(1, nextId[Other(First)], nextId[First])'
  BY <1>13, <1>15, <1>17, <1>18 DEF Imports
<1>20. Ids(base.groups) \subseteq Ids(q.groups) /\ Ids(base.shortcuts) \subseteq Ids(q.shortcuts)
  BY <1>9, <1>19 DEF Descends
<1>21. AllOrdered => Ordered(q)
  BY <1>19 DEF AllOrdered, p
<1>22. Persist(d, q) /\ backup' = backup
  BY <1>12, <1>18 DEF EditWithIds
<1> QED
  BY <1>1, <1>19, <1>20, <1>21, <1>22, EditNames

\* What another device or a backup has, taken on.
LEMMA AcceptNames ==
    ASSUME NEW V, Sound(V), OwnNames, NEW d \in Device,
           NEW s, Offered(V, s), Edit(d, ToLocal(s, profile[d])),
           Descends(s), AllOrdered => Ordered(s)
    PROVE  OwnNames' /\ (AllOrdered => AllOrdered')
<1>1. PICK q : q = ToLocal(s, profile[d])
  OBVIOUS
<1>2. SamePlaces(s, q)
  BY <1>1, AcceptTakes
<1>3. Named(q) /\ Ids(q.groups) = Ids(s.groups) /\ Ids(q.shortcuts) = Ids(s.shortcuts)
      /\ (Ordered(s) => Ordered(q))
  BY <1>2, PlacesNamed DEF Descends
<1>4. Persist(d, q) /\ backup' = backup /\ nextId' = nextId
  BY <1>1 DEF Edit, EditWithIds
<1>5. Given' = Given /\ Ahead(1, nextId[Other(First)], nextId[First])'
  BY <1>4, NothingDrawn
<1>6. /\ Named(q) /\ Within(q, Given')
      /\ Ids(base.groups) \subseteq Ids(q.groups) /\ Ids(base.shortcuts) \subseteq Ids(q.shortcuts)
  BY <1>3, <1>5 DEF Descends, Within
<1>7. AllOrdered => Ordered(q)
  BY <1>3
<1> QED
  BY <1>4, <1>5, <1>6, <1>7, EditNames

\* What a device shares names what its profile names.
LEMMA SharedNames ==
    ASSUME NEW V, Sound(V), OwnNames, NEW e \in Device, NEW s \in {ToShared(profile[e]), Shared(e)}
    PROVE  Offered(V, s) /\ Descends(s) /\ (AllOrdered => Ordered(s))
<1>1. Offered(V, s) /\ SamePlaces(profile[e], s)
  BY SharedIsSound
<1>2. Descends(profile[e]) /\ Named(profile[e])
  BY DEF OwnNames, Descends
<1>3. /\ Named(s) /\ Ids(s.groups) = Ids(profile[e].groups)
      /\ Ids(s.shortcuts) = Ids(profile[e].shortcuts) /\ (Ordered(profile[e]) => Ordered(s))
  BY <1>1, <1>2, PlacesNamed
<1>4. Descends(s)
  BY <1>2, <1>3 DEF Descends, Within
<1>5. AllOrdered => Ordered(s)
  BY <1>3 DEF AllOrdered
<1> QED
  BY <1>1, <1>4, <1>5

LEMMA ReplaceNames ==
    ASSUME Safe, OwnNames, NEW d \in Device, ExportConfig(d) \/ ImportConfig(d) \/ Accept(d)
    PROVE  OwnNames' /\ (AllOrdered => AllOrdered')
<1>1. PICK V : Sound(V) /\ Images(V)
  BY DEF Safe
<1>2. CASE ExportConfig(d)
  <2>1. PICK s : s = ToShared(profile[d])
    OBVIOUS
  <2>2. Descends(s) /\ (AllOrdered => Ordered(s))
    BY <1>1, <2>1, SharedNames
  <2> DEFINE b == [format |-> "v2", profile |-> s]
  <2>3. UNCHANGED <<profile, base, nextId>> /\ backup' = b
    BY <1>2, <2>1 DEF ExportConfig
  <2>4. Portion(b) = s
    BY DEF Portion
  <2> HIDE DEF b
  <2>5. Given' = Given
    BY <2>3 DEF Given
  <2>6. OwnNames'
    BY <2>2, <2>3, <2>4, <2>5 DEF OwnNames, Descends
  <2>7. AllOrdered => AllOrdered'
    BY <2>2, <2>3, <2>4 DEF AllOrdered
  <2> QED
    BY <2>6, <2>7
<1>3. CASE ImportConfig(d)
  <2>1. PICK s : s = Portion(backup)
    OBVIOUS
  <2>2. Offered(V, s) /\ Edit(d, ToLocal(s, profile[d])) /\ backup # None
    BY <1>1, <1>3, <2>1 DEF ImportConfig, ParseBackup, Sound
  <2>3. Descends(s) /\ (AllOrdered => Ordered(s))
    BY <2>1, <2>2 DEF OwnNames, AllOrdered
  <2> QED
    BY <1>1, <2>2, <2>3, AcceptNames
<1>4. CASE Accept(d)
  <2>1. PICK e \in Device : e = Other(d)
    BY OtherIsThere
  <2>2. PICK s : s = Shared(e)
    OBVIOUS
  <2>3. Edit(d, ToLocal(s, profile[d]))
    BY <1>4, <2>1, <2>2 DEF Accept
  <2>4. Offered(V, s) /\ Descends(s) /\ (AllOrdered => Ordered(s))
    BY <1>1, <2>2, SharedNames
  <2> QED
    BY <1>1, <2>3, <2>4, AcceptNames
<1> QED
  BY <1>2, <1>3, <1>4

\* A list that passed the schema names each of its entries once.
LEMMA ShareableNamed ==
    ASSUME NEW s, Shareable(s)
    PROVE  Named(s)
<1>1. s.groups \in Seq(Group(Values(s))) /\ s.shortcuts \in Seq(Shortcut(Values(s)))
  BY ShareableIs
<1>2. WellFormed(s)
  BY DEF Shareable
<1> QED
  BY <1>1, <1>2, UniqueCounts DEF WellFormed, Named

LEMMA InitNames ==
    ASSUME Init
    PROVE  /\ OwnNames
           /\ (\A p \in Start : Ordered(p))
              /\ (\A s \in Scenarios : s.backup # None => Ordered(Portion(s.backup))) => AllOrdered
<1>1. PICK p \in Start, scenario \in Scenarios : Starts(p, scenario)
  BY InitStarts
<1>2. PICK V : V = Values(ToShared(p)) \cup Own(p)
  OBVIOUS
<1>3. /\ p \in Profile(V) /\ Housed(p, {}) /\ (\A d \in Device : KeysIn(p, Stored[d]))
      /\ ToShared(p).groups = p.groups /\ ToShared(p).shortcuts = p.shortcuts
  BY <1>2, StartIs
<1>4. Named(p)
  <2>1. Named(ToShared(p))
    BY StartAssumption, ShareableNamed
  <2> QED
    BY <1>3, <2>1 DEF Named
<1>5. PICK f \in Device : f = First
  BY DevicesAssumption, FirstDevice
<1> DEFINE ids == Ids(p.groups) \cup Ids(p.shortcuts)
<1>6. IsFiniteSet(ids) /\ ids \in SUBSET Int /\ ids # {}
  BY <1>3, FirstIds DEF Housed
<1>7. nextId[f] = Max(ids) + 1 /\ nextId[Other(f)] = Min(ids) - 1
  BY <1>1, <1>5, OtherIsThere DEF Starts
<1> HIDE DEF ids
<1>8. PICK high \in ids : high = Max(ids) /\ \A n \in ids : high >= n
  BY <1>6, MaxIsThere
<1>9. PICK low \in ids : low = Min(ids) /\ \A n \in ids : low <= n
  <2>1. \E m \in ids : \A n \in ids : m <= n
    BY <1>6, MinIsThere
  <2> QED
    BY <2>1 DEF Min
<1>10. low \in Int /\ high \in Int /\ \A n \in ids : n \in Int /\ low - 1 < n /\ n < high + 1
  BY <1>6, <1>8, <1>9
<1>11. low - 1 < high + 1
  BY <1>8, <1>10
<1>12. Given = Span(1, low - 1, high + 1) /\ Ahead(1, low - 1, high + 1)
       /\ Ahead(1, nextId[Other(First)], nextId[First])
  BY <1>5, <1>7, <1>8, <1>9, <1>11 DEF Given, Ahead
<1>13. ids \subseteq Given
  BY <1>10, <1>12 DEF Span
<1>14. base.groups = p.groups /\ base.shortcuts = p.shortcuts
  BY <1>1, <1>3 DEF Starts
<1>15. ASSUME NEW q, Named(q), Ids(q.groups) = Ids(p.groups), Ids(q.shortcuts) = Ids(p.shortcuts)
       PROVE  Descends(q)
  BY <1>13, <1>14, <1>15 DEF Descends, Within, ids
<1>16. Descends(base)
  BY <1>4, <1>14, <1>15 DEF Named
<1>17. ASSUME NEW d \in Device PROVE Descends(profile[d]) /\ (Ordered(p) => Ordered(profile[d]))
  <2>1. LET q == [p EXCEPT !.shortcuts = Drawn(@, Pictured[d])] IN SamePlaces(p, q)
    BY <1>3, DrawnIs
  <2>2. SamePlaces(p, profile[d])
    BY <1>1, <2>1 DEF Starts
  <2> QED
    BY <1>4, <1>15, <2>2, PlacesNamed
<1>18. ASSUME backup # None PROVE Descends(Portion(backup))
  <2>1. /\ Shareable(Portion(backup))
        /\ Ids(Portion(backup).groups) = Ids(p.groups)
        /\ Ids(Portion(backup).shortcuts) = Ids(p.shortcuts)
    BY <1>1, <1>18, ScenariosAssumption DEF Starts
  <2> QED
    BY <1>15, <2>1, ShareableNamed
<1>19. OwnNames
  BY <1>12, <1>16, <1>17, <1>18 DEF OwnNames
<1>20. ASSUME \A r \in Start : Ordered(r),
              \A s \in Scenarios : s.backup # None => Ordered(Portion(s.backup))
       PROVE  AllOrdered
  <2>1. Ordered(p) /\ (backup # None => Ordered(Portion(backup)))
    BY <1>1, <1>20 DEF Starts
  <2> QED
    BY <1>17, <2>1 DEF AllOrdered
<1> QED
  BY <1>19, <1>20

LEMMA NextNames ==
    ASSUME Safe, OwnNames, [Next]_vars
    PROVE  OwnNames' /\ (AllOrdered => AllOrdered')
<1>1. CASE UNCHANGED vars
  BY <1>1, RestNames DEF vars
<1>2. CASE Next
  <2>1. PICK d \in Device : \/ EditEntries(d) \/ EditWallpapers(d) \/ UpdateTheme(d)
                            \/ DragShortcuts(d) \/ ReplaceProfile(d)
    BY <1>2 DEF Next
  <2>2. CASE EditEntries(d)
    BY <2>2, SubmitNames, EntriesKeepNames DEF EditEntries
  <2>3. CASE EditWallpapers(d) \/ UpdateTheme(d)
    BY <2>3, WallpapersKeepNames
  <2>4. CASE DragShortcuts(d)
    <3>1. CASE MovePointer(d)
      BY <3>1, RestNames DEF MovePointer
    <3> QED
      BY <2>4, <3>1, ReleaseNames, EntriesKeepNames, ReplaceNames DEF DragShortcuts
  <2>5. CASE ReplaceProfile(d)
    BY <2>5, ImportNames, ReplaceNames DEF ReplaceProfile
  <2> QED
    BY <2>1, <2>2, <2>3, <2>4, <2>5
<1> QED
  BY <1>1, <1>2

\* Through every edit, import and accepted profile, no list has an id twice, no
\* shortcut names an unknown group, no entry that both devices started from is
\* lost but for its tombstone, and a device's next id is no one's: what
\* sharedProfileV2Schema asks of the lists always holds.
THEOREM NamesAlways == Spec => []OwnNames
<1>1. Init => OwnNames
  BY InitNames
<1>2. Safe /\ OwnNames /\ [Next]_vars => OwnNames'
  BY NextNames
<1> QED
  BY <1>1, <1>2, SafeAlways, PTL DEF Spec

\* AcceptSettles, for any two profiles the devices may have come to by edits: what
\* a device would upload after sharedProfileToLocalProfile and toSharedProfileV2
\* have changed what it accepted is not changed again by the one it came from.
THEOREM AcceptSettlesAlways == Spec => []AcceptSettles
<1>1. Safe /\ OwnNames => AcceptSettles
  <2> SUFFICES ASSUME Safe, OwnNames, NEW d \in Device
               PROVE  LET once == ToShared(ToLocal(Shared(Other(d)), profile[d]))
                      IN ToShared(ToLocal(once, profile[Other(d)])) = once
    BY DEF AcceptSettles
  <2>1. PICK V : Sound(V) /\ Images(V)
    BY DEF Safe
  <2>2. PICK e \in Device : e = Other(d)
    BY OtherIsThere
  <2>3. PICK s, u, theirs : s = Shared(e) /\ u = ToShared(ToLocal(s, profile[d])) /\ theirs = profile[e]
    OBVIOUS
  <2>4. u \in SharedProfile(V) /\ SharedKeys(u) /\ Returned(s, profile[d], u)
    BY <2>1, <2>2, <2>3, SharedReturns
  <2>5. /\ theirs \in Profile(V) /\ KeysIn(theirs, stored[e]) /\ Settings \subseteq V
        /\ theirs.groups # <<>> /\ theirs.shortcuts # <<>>
    BY <2>1, <2>3, MyFullProfile
  <2>6. UniqueIds(theirs.shortcuts) /\ s = ToShared(MigrateProfile(theirs))
    BY <2>3 DEF OwnNames, Descends, Named, Shared
  <2>7. /\ Fresh(u)
        /\ \A x \in Entries(u.shortcuts) :
              x.id \in LocalIcons(MigrateProfile(theirs)) => x.icon = Stands(x)
        /\ u.ids # <<>> \/ LocalKeys(theirs) # {}
        /\ u.selected \notin Retired \/ theirs.selected \in LocalWallpaper
    BY <2>4, <2>5, <2>6, MistIsKept, ReturnsOnce
  <2>8. PICK w : w = ToShared(ToLocal(u, theirs))
    OBVIOUS
  <2>9. w \in SharedProfile(V) /\ Returned(u, theirs, w)
    BY <2>1, <2>3, <2>4, <2>7, <2>8, DeviceReturns
  <2>10. w = u
    BY <2>4, <2>7, <2>9, MistIsKept, ReturnedSame
  <2> QED
    BY <2>2, <2>3, <2>8, <2>10
<1> QED
  BY <1>1, SafeAlways, NamesAlways, PTL

LEMMA OrderedIsTotal ==
    ASSUME AllOrdered
    PROVE  OrderIsTotal
<1> SUFFICES ASSUME NEW d \in Device
             PROVE  LET distinct(S) == \A x, y \in S : x.sort = y.sort => x.id = y.id
                    IN /\ distinct(Live(profile[d].groups))
                       /\ \A g \in Ids(profile[d].groups) : distinct(LiveIn(profile[d], g))
  BY DEF OrderIsTotal
<1> QED
  BY DEF AllOrdered, Ordered, LiveIn

\* OrderIsTotal, for any profiles and files that start in order and any edits: no upsert,
\* move, deletion, import or accepted profile gives two live groups, or two live
\* shortcuts of a group, one sortIndex; what a user sees is the order he gave.
THEOREM OrderIsAlwaysTotal ==
    ASSUME \A p \in Start : Ordered(p),
           \A s \in Scenarios : s.backup # None => Ordered(Portion(s.backup))
    PROVE  Spec => []OrderIsTotal
<1>1. Init => AllOrdered
  BY InitNames
<1>2. Safe /\ OwnNames /\ AllOrdered /\ [Next]_vars => AllOrdered'
  BY NextNames
<1>3. AllOrdered => OrderIsTotal
  BY OrderedIsTotal
<1> QED
  BY <1>1, <1>2, <1>3, SafeAlways, NamesAlways, PTL DEF Spec

-----------------------------------------------------------------------------
(* The answers to conflicts *)

\* The base and the two profiles that are merged, each id naming one entry.
LEMMA ThreeProfiles ==
    ASSUME NEW V, Sound(V), OwnNames, NEW d \in Device
    PROVE  Three(V, base, Shared(d), Shared(Other(d)))
<1>1. ASSUME NEW e \in Device
      PROVE  /\ Shared(e) \in SharedProfile(V)
             /\ UniqueIds(Shared(e).groups) /\ UniqueIds(Shared(e).shortcuts)
  <2>1. Offered(V, Shared(e)) /\ Descends(Shared(e))
    BY SharedNames
  <2> QED
    BY <2>1 DEF Offered, Descends, Named
<1>2. base \in SharedProfile(V) /\ UniqueIds(base.groups) /\ UniqueIds(base.shortcuts)
  BY DEF Sound, OwnNames, Descends, Named
<1>3. d \in Device /\ Other(d) \in Device
  BY OtherIsThere
<1> QED
  BY <1>1, <1>2, <1>3 DEF Three

\* NothingVanishes, for any edits of both devices and any answers to any number of
\* conflicts: the fold over the answers of resolveMergeConflicts leaves under each
\* id what was decided or merged for it, and the copies it adds and the groupIds it
\* sets delete nothing.
THEOREM NothingVanishesAlways == Spec => []NothingVanishes
<1>1. Safe /\ OwnNames => NothingVanishes
  <2> SUFFICES ASSUME Safe, OwnNames, NEW d \in Device,
                      NEW answer \in Answers(base, Shared(d), Shared(Other(d))),
                      Resolved(base, Shared(d), Shared(Other(d)), answer) # None
               PROVE  LET mine == Shared(d)
                          theirs == Shared(Other(d))
                          lives(s) == {x.id : x \in Live(s.shortcuts)}
                          has(s) == Ids(s.shortcuts)
                          due == (lives(mine) \cap lives(theirs))
                                 \cup (lives(mine) \ (has(theirs) \cup has(base)))
                                 \cup (lives(theirs) \ (has(mine) \cup has(base)))
                      IN due \subseteq lives(Resolved(base, mine, theirs, answer))
    BY DEF NothingVanishes
  <2>1. PICK V : Sound(V)
    BY DEF Safe
  <2>2. PICK b, l, r : b = base /\ l = Shared(d) /\ r = Shared(Other(d))
    OBVIOUS
  <2>3. Three(V, b, l, r) /\ answer \in Answers(b, l, r) /\ Resolved(b, l, r, answer) # None
    BY <2>1, <2>2, ThreeProfiles
  <2>4. \A k : Due(b, l, r, k) => \E y \in Live(Resolved(b, l, r, answer).shortcuts) : y.id = k
    BY <2>3, DueLives
  <2> DEFINE lives(s) == {x.id : x \in Live(s.shortcuts)}
             has(s) == Ids(s.shortcuts)
             due == (lives(l) \cap lives(r)) \cup (lives(l) \ (has(r) \cup has(b)))
                    \cup (lives(r) \ (has(l) \cup has(b)))
  <2>5. ASSUME NEW k \in due PROVE Due(b, l, r, k)
    BY DEF Due
  <2>6. due \subseteq lives(Resolved(b, l, r, answer))
    BY <2>4, <2>5
  <2> QED
    BY <2>2, <2>6
<1> QED
  BY <1>1, SafeAlways, NamesAlways, PTL

LEMMA TwoToMerge ==
    ASSUME NEW V, Sound(V), OwnNames, NEW d \in Device
    PROVE  Merging(V, base, Shared(d), Shared(Other(d)))
<1>1. Three(V, base, Shared(d), Shared(Other(d)))
  BY ThreeProfiles
<1>2. ASSUME NEW e \in Device
      PROVE  /\ Named(Shared(e)) /\ Entries(Shared(e).ids) \cap LocalWallpaper = {}
             /\ Ids(base.groups) \subseteq Ids(Shared(e).groups)
             /\ Ids(base.shortcuts) \subseteq Ids(Shared(e).shortcuts)
  <2>1. Offered(V, Shared(e)) /\ Descends(Shared(e))
    BY SharedNames
  <2> QED
    BY <2>1 DEF Offered, SharedKeys, Descends
<1>3. d \in Device /\ Other(d) \in Device
  BY OtherIsThere
<1> QED
  BY <1>1, <1>2, <1>3 DEF Merging

\* None, which stands for undefined, is no profile.
NoneIsNoProfile == \A S, f : None # [x \in S |-> f[x]]

\* Resolvable, for any edits of both devices: the user can resolve every set of
\* conflicts but those with a shortcut that has no kept group on either side and no
\* deletion to choose.  Answers that keep what can be kept resolve the others, and
\* no answer resolves these.
THEOREM ResolvableAlways ==
    ASSUME NoneIsNoProfile
    PROVE  Spec => []Resolvable
<1>1. Safe /\ OwnNames => Resolvable
  <2> SUFFICES ASSUME Safe, OwnNames, NEW d \in Device
               PROVE  LET mine == Shared(d)
                          theirs == Shared(Other(d))
                          asked == Conflicts(base, mine, theirs)
                          merged == Merged(base, mine, theirs)
                          live(s) == {g.id : g \in Live(s.groups)}
                          kept == live(merged) \cup {g \in live(theirs) : <<"groups", g>> \in asked}
                          homes(x) == {y.group : y \in Found(mine.shortcuts, x.id)
                                                       \cup Found(theirs.shortcuts, x.id)}
                          gone(x) == /\ <<"shortcuts", x.id>> \in asked
                                     /\ \E y \in Found(theirs.shortcuts, x.id) : y.del
                      IN (\E answer \in Answers(base, mine, theirs) :
                             Resolved(base, mine, theirs, answer) # None)
                         <=> \A x \in Homeless(merged) : homes(x) \cap kept # {} \/ gone(x)
    BY DEF Resolvable
  <2>1. PICK V : Sound(V)
    BY DEF Safe
  <2>2. PICK b, l, r : b = base /\ l = Shared(d) /\ r = Shared(Other(d))
    OBVIOUS
  <2>3. Merging(V, b, l, r)
    BY <2>1, <2>2, TwoToMerge
  <2>4. ASSUME NEW answer \in Answers(b, l, r), Resolved(b, l, r, answer) # None
        PROVE  Housable(b, l, r)
    BY <2>3, <2>4, ResolvedIsHousable
  <2>5. ASSUME Housable(b, l, r)
        PROVE  \E answer \in Answers(b, l, r) : Resolved(b, l, r, answer) # None
    <3>1. PICK answer \in Answers(b, l, r) : answer = Keeping(b, l, r)
      BY KeepingAnswers
    <3>2. PICK result : result = ResultOf(b, l, r, answer)
      OBVIOUS
    <3>3. ~Fails(b, l, r, answer) /\ WellFormed(result) /\ Homeless(result) = {}
      BY <2>3, <2>5, <3>1, <3>2, KeepingResolves
    <3>4. Resolved(b, l, r, answer) = result
      BY <3>2, <3>3, ResolvedInParts
    <3>5. result # None
      <4>1. \E S, f : result = [x \in S |-> f[x]]
        <5>1. result = [x \in DOMAIN b |-> result[x]]
          BY <3>2 DEF ResultOf
        <5> QED
          BY <5>1
      <4> QED
        BY <4>1 DEF NoneIsNoProfile
    <3> QED
      BY <3>4, <3>5
  <2> DEFINE asked == Conflicts(b, l, r)
             merged == Merged(b, l, r)
             live(s) == {g.id : g \in Live(s.groups)}
             kept == live(merged) \cup {g \in live(r) : <<"groups", g>> \in asked}
             homes(x) == {y.group : y \in Found(l.shortcuts, x.id) \cup Found(r.shortcuts, x.id)}
             gone(x) == <<"shortcuts", x.id>> \in asked /\ \E y \in Found(r.shortcuts, x.id) : y.del
             housed == \A x \in Homeless(merged) : homes(x) \cap kept # {} \/ gone(x)
  <2>6. Housable(b, l, r) <=> housed
    <3>1. kept = Kept(b, l, r)
      BY DEF Kept, LiveIds
    <3>2. ASSUME NEW x PROVE homes(x) = Homes(l, r, x.id) /\ (gone(x) <=> Gone(b, l, r, x.id))
      BY DEF Homes, HomesIn, Gone
    <3> HIDE DEF kept, homes, gone
    <3> QED
      BY <3>1, <3>2 DEF Housable
  <2>7. (\E answer \in Answers(b, l, r) : Resolved(b, l, r, answer) # None) <=> housed
    <3> HIDE DEF housed
    <3> QED
      BY <2>4, <2>5, <2>6
  <2> QED
    BY <2>2, <2>7
<1> QED
  BY <1>1, SafeAlways, NamesAlways, PTL

-----------------------------------------------------------------------------
(* The drag *)

\* A shortcut that was picked up has an id, and is not over itself.
PickedUp ==
    /\ DOMAIN pressed = Device /\ DOMAIN drag = Device
    /\ \A d \in Device :
          /\ pressed[d] # None => pressed[d].id \in Int
          /\ drag[d] # None => /\ {"shortcut", "target"} \subseteq DOMAIN drag[d]
                               /\ drag[d].shortcut.id \in Int
                               /\ drag[d].target # drag[d].shortcut.id

LEMMA PickedStays ==
    ASSUME PickedUp, UNCHANGED <<pressed, drag>>
    PROVE  PickedUp'
  BY DEF PickedUp

\* A drag that begins is over nothing.
LEMMA DragBegins ==
    ASSUME NEW s, s.id \in Int, NEW mode
    PROVE  LET g == DragOf(s, mode)
           IN /\ {"shortcut", "target"} \subseteq DOMAIN g
              /\ g.shortcut.id \in Int /\ g.target # g.shortcut.id
  BY NoneAssumption DEF DragOf

LEMMA PressPicks ==
    ASSUME Safe, PickedUp, NEW d \in Device, Press(d, profile[d])
    PROVE  PickedUp'
<1>1. PICK s \in Tiles(d, profile[d]) :
         IF editMode[d] THEN drag' = [drag EXCEPT ![d] = DragOf(s, TRUE)] /\ UNCHANGED pressed
         ELSE pressed' = [pressed EXCEPT ![d] = s] /\ UNCHANGED drag
  BY DEF Press
<1>2. s.id \in Int
  <2>1. PICK V : Sound(V)
    BY DEF Safe
  <2>2. profile[d].shortcuts \in Seq(Shortcut(V))
    BY <2>1, MyProfile DEF Profile
  <2>3. s \in Entries(profile[d].shortcuts)
    BY DEF Tiles, LiveIn, Live
  <2>4. s \in Shortcut(V)
    BY <2>2, <2>3, EntriesFinite
  <2> QED
    BY <2>4 DEF Shortcut
<1>3. PICK g : g = DragOf(s, TRUE)
  OBVIOUS
<1>4. {"shortcut", "target"} \subseteq DOMAIN g /\ g.shortcut.id \in Int /\ g.target # g.shortcut.id
  BY <1>2, <1>3, DragBegins
<1>5. CASE editMode[d]
  BY <1>1, <1>3, <1>4, <1>5 DEF PickedUp
<1>6. CASE ~editMode[d]
  BY <1>1, <1>2, <1>6 DEF PickedUp
<1> QED
  BY <1>5, <1>6

LEMMA HoverPicks ==
    ASSUME PickedUp, NEW d \in Device, Hover(d, profile[d]) \/ SwitchGroup(d, profile[d])
    PROVE  PickedUp'
<1>1. CASE Hover(d, profile[d])
  <2>1. PICK t, moves :
           drag' = [drag EXCEPT ![d] =
                      [@ EXCEPT !.moved = @ \/ moves,
                                !.target = IF t = None \/ t.id = drag[d].shortcut.id THEN None ELSE t.id,
                                !.group = IF t = None THEN @ ELSE t.group]]
    BY <1>1 DEF Hover
  <2>2. drag[d] # None /\ UNCHANGED pressed
    BY <1>1 DEF Hover
  <2>3. /\ DOMAIN drag = Device
        /\ {"shortcut", "target"} \subseteq DOMAIN drag[d]
        /\ drag[d].shortcut.id \in Int
    BY <2>2 DEF PickedUp
  <2>4. DOMAIN drag' = Device /\ \A e \in Device \ {d} : drag'[e] = drag[e]
    BY <2>1, <2>3
  <2>5. /\ DOMAIN drag'[d] = DOMAIN drag[d] /\ drag'[d].shortcut = drag[d].shortcut
        /\ drag'[d].target = IF t = None \/ t.id = drag[d].shortcut.id THEN None ELSE t.id
    BY <2>1, <2>3
  <2>6. drag'[d].target # drag'[d].shortcut.id
    BY <2>3, <2>5, NoneAssumption
  <2> QED
    BY <2>2, <2>3, <2>4, <2>5, <2>6 DEF PickedUp
<1>2. CASE SwitchGroup(d, profile[d])
  <2>1. PICK k : drag' = IF drag[d] = None THEN drag
                         ELSE [drag EXCEPT ![d] = [@ EXCEPT !.target = None, !.group = k]]
    BY <1>2 DEF SwitchGroup
  <2>2. UNCHANGED pressed
    BY <1>2 DEF SwitchGroup
  <2>3. CASE drag[d] = None
    BY <2>1, <2>2, <2>3, PickedStays
  <2>4. CASE drag[d] # None
    <3>1. PICK g : g = [drag[d] EXCEPT !.target = None, !.group = k]
      OBVIOUS
    <3>2. drag' = [drag EXCEPT ![d] = g]
      BY <2>1, <2>4, <3>1
    <3>3. {"shortcut", "target"} \subseteq DOMAIN drag[d] /\ drag[d].shortcut.id \in Int
      BY <2>4 DEF PickedUp
    <3>4. DOMAIN g = DOMAIN drag[d] /\ g.shortcut = drag[d].shortcut /\ g.target = None
      BY <3>1, <3>3
    <3> QED
      BY <2>2, <3>2, <3>3, <3>4, NoneAssumption DEF PickedUp
  <2> QED
    BY <2>3, <2>4
<1> QED
  BY <1>1, <1>2

LEMMA LetGo ==
    ASSUME PickedUp, NEW d \in Device,
           \/ LongPress(d) \/ ClearPendingPress(d) \/ Released(d)
           \/ BeginShortcutEditMode(d) \/ FinishShortcutEditMode(d)
    PROVE  PickedUp'
<1>1. CASE LongPress(d)
  <2>1. PICK g : g = DragOf(pressed[d], FALSE)
    OBVIOUS
  <2>2. /\ pressed' = [pressed EXCEPT ![d] = None] /\ drag' = [drag EXCEPT ![d] = g]
        /\ pressed[d].id \in Int
    BY <1>1, <2>1 DEF LongPress, PickedUp
  <2>3. {"shortcut", "target"} \subseteq DOMAIN g /\ g.shortcut.id \in Int /\ g.target # g.shortcut.id
    BY <2>1, <2>2, DragBegins
  <2> QED
    BY <2>2, <2>3 DEF PickedUp
<1>2. CASE ClearPendingPress(d)
  BY <1>2 DEF ClearPendingPress, PickedUp
<1>3. CASE Released(d)
  BY <1>3 DEF Released, PickedUp
<1>4. CASE BeginShortcutEditMode(d)
  BY <1>4, PickedStays DEF BeginShortcutEditMode
<1>5. CASE FinishShortcutEditMode(d)
  BY <1>5 DEF FinishShortcutEditMode, PickedUp
<1> QED
  BY <1>1, <1>2, <1>3, <1>4, <1>5

LEMMA NextPicks ==
    ASSUME Safe, PickedUp, [Next]_vars
    PROVE  PickedUp'
<1>1. CASE UNCHANGED vars
  BY <1>1, PickedStays DEF vars, dragVars
<1>2. ASSUME NEW d \in Device, MovePointer(d) PROVE PickedUp'
  BY <1>2, PressPicks, HoverPicks, LetGo DEF MovePointer
<1>3. ASSUME NEW d \in Device, ReleaseDrag(d) PROVE PickedUp'
  BY <1>3, LetGo DEF ReleaseDrag
<1>4. ASSUME NEW d \in Device, EditEntries(d) PROVE UNCHANGED <<pressed, drag>>
  BY <1>4 DEF EditEntries, SubmitShortcut, DropShortcut, RemoveShortcut, CreateGroup, RenameGroup,
     MoveGroup, DeleteGroup, Edit, EditWithIds, Adopt, dragVars
<1>5. ASSUME NEW d \in Device, EditWallpapers(d) PROVE UNCHANGED <<pressed, drag>>
  <2>1. CASE ChooseWallpaper(d) \/ UpdateSource(d)
    BY <2>1 DEF ChooseWallpaper, UpdateSource, Edit, EditWithIds, Adopt
  <2>2. CASE RotateWallpaper(d)
    BY <2>2 DEF RotateWallpaper, Edit, EditWithIds, Adopt, dragVars
  <2>3. CASE FetchImage(d) \/ ShowImage(d) \/ FetchFails(d)
    BY <2>3 DEF FetchImage, ShowImage, FetchFails, dragVars
  <2> QED
    BY <1>5, <2>1, <2>2, <2>3 DEF EditWallpapers
<1>6. ASSUME NEW d \in Device, DropShortcut(d) \/ RemoveShortcut(d) \/ DeleteGroup(d)
      PROVE  UNCHANGED <<pressed, drag>>
  BY <1>4, <1>6 DEF EditEntries
<1>7. ASSUME NEW d \in Device, ReplaceProfile(d) PROVE UNCHANGED <<pressed, drag>>
  BY <1>7 DEF ReplaceProfile, ImportBrowserBookmarks, ExportConfig, ImportConfig, Accept,
     Edit, EditWithIds, Adopt, dragVars
<1>8. ASSUME NEW d \in Device, Accept(d) PROVE UNCHANGED <<pressed, drag>>
  BY <1>7, <1>8 DEF ReplaceProfile
<1>9. ASSUME NEW d \in Device, UpdateTheme(d) PROVE UNCHANGED <<pressed, drag>>
  BY <1>9 DEF UpdateTheme, Edit, EditWithIds, Adopt
<1> QED
  BY <1>1, <1>2, <1>3, <1>4, <1>5, <1>6, <1>7, <1>8, <1>9, PickedStays DEF Next, DragShortcuts

LEMMA InitPicks == Init => PickedUp
  BY DEF Init, DragInit, PickedUp

\* What a release does to the list, whatever other tabs did to it during the drag.
LEMMA ReleaseMoves ==
    ASSUME Safe, OwnNames, PickedUp, NEW d \in Device, drag[d] # None, ReleaseDrag(d),
           profile' # profile
    PROVE  \E dest, onto, f :
              /\ Moved(profile[d], profile'[d], drag[d].shortcut.id, dest, onto, f)
              /\ drag[d].target \in {s.id : s \in Live(profile[d].shortcuts)} =>
                    /\ onto = drag[d].target /\ onto # drag[d].shortcut.id
                    /\ dest = ById(profile[d].shortcuts, onto).group
<1>1. PICK V : Sound(V)
  BY DEF Safe
<1>2. PICK now : now = Now(d)
  OBVIOUS
<1> DEFINE W == V \cup {now}
           p == profile[d]
           id == drag[d].shortcut.id
<1>3. V \subseteq W /\ now \in W
  OBVIOUS
<1> HIDE DEF W
<1>4. /\ p \in Profile(W) /\ Entries(p.groups) \subseteq Group(W) /\ Named(p)
      /\ profile \in [Device -> Profile(V)] /\ p.shortcuts \in Seq(Shortcut(W))
  BY <1>1, <1>3, MyProfile DEF OwnNames, Descends, Sound, Profile
<1>5. PICK drop \in Drops(d, p) :
        LET next == IF drop = None THEN p
                    ELSE MoveShortcut(p, drop.id, drop.dest, drop.onto, now)
        IN IF next = p THEN UNCHANGED <<profile, base, left, file, focus>> ELSE Persist(d, next)
  BY <1>2 DEF ReleaseDrag
<1>6. PICK q : q = IF drop = None THEN p ELSE MoveShortcut(p, drop.id, drop.dest, drop.onto, now)
  OBVIOUS
<1>7. q # p /\ Persist(d, q)
  BY <1>5, <1>6
<1>8. profile'[d] = q
  BY <1>4, <1>7 DEF Persist
<1>9. drop # None /\ q = MoveShortcut(p, drop.id, drop.dest, drop.onto, now)
  BY <1>6, <1>7
<1>10. PICK t : /\ drop = [id |-> id, dest |-> Destination(d, p, t), onto |-> IF t = id THEN None ELSE t]
                /\ t \in IF drag[d].target # None THEN {drag[d].target}
                         ELSE {x.id : x \in Tiles(d, p)} \cup {None}
  BY <1>9 DEF Drops
<1>11. drop.id = id /\ drop.dest = Destination(d, p, t) /\ drop.onto = IF t = id THEN None ELSE t
  BY <1>10
<1>12. drop.dest \in Int
  <2>1. drop.dest \in {g.id : g \in Live(p.groups)}
    BY <1>7, <1>9 DEF MoveShortcut
  <2> QED
    BY <1>4, <2>1 DEF Live, Group
<1>13. PICK f : Moved(p, q, id, drop.dest, drop.onto, f)
  <2>1. LET r == MoveShortcut(p, drop.id, drop.dest, drop.onto, now)
        IN r = p \/ \E f : Moved(p, r, drop.id, drop.dest, drop.onto, f)
    BY <1>3, <1>4, <1>12, MoveMoves
  <2> QED
    BY <1>7, <1>9, <1>11, <2>1
<1>14. ASSUME drag[d].target \in {s.id : s \in Live(p.shortcuts)}
       PROVE  /\ drop.onto = drag[d].target /\ drop.onto # id
              /\ drop.dest = ById(p.shortcuts, drop.onto).group
  <2>1. drag[d].target \in Int
    <3>1. Live(p.shortcuts) \subseteq Shortcut(W)
      BY <1>4, EntriesFinite DEF Live
    <3> QED
      BY <1>14, <3>1 DEF Shortcut
  <2>2. t = drag[d].target
    BY <1>10, <2>1, NoneAssumption
  <2>3. t # id
    BY <2>2 DEF PickedUp
  <2>4. Destination(d, p, t) = ById(p.shortcuts, t).group
    BY <1>14, <2>2 DEF Destination
  <2> QED
    BY <1>11, <2>2, <2>3, <2>4
<1> QED
  BY <1>8, <1>13, <1>14

\* DropTakesPlace, for any profile and whatever other tabs did between the press and
\* the release: moveShortcut, given the id under the pointer and the group that one
\* is in by now, gives the shortcut that one's place and keeps all others in order.
THEOREM DropAlwaysTakesPlace == Spec => DropTakesPlace
<1> DEFINE Takes(d) ==
       LET p == profile[d].shortcuts
           q == profile'[d].shortcuts
           id == drag[d].shortcut.id
           onto == drag[d].target
           mates(list, x) == {y \in Live(list) : y.group = x.group}
           place(list, x) == Rank(ById(list, x), mates(list, ById(list, x)))
           others == Ids(p) \ {id}
       IN /\ onto \in {s.id : s \in Live(p)} =>
                /\ ById(q, id).group = ById(p, onto).group
                /\ place(q, id) = place(p, onto)
          /\ \A x, y \in others :
                /\ ById(q, x).group = ById(p, x).group
                /\ ById(p, x) \in Live(p) /\ ById(p, y) \in mates(p, ById(p, x))
                   /\ Before(ById(p, x), ById(p, y)) => Before(ById(q, x), ById(q, y))
<1>1. ASSUME Safe, OwnNames, PickedUp, NEW d \in Device, drag[d] # None, ReleaseDrag(d),
             profile' # profile
      PROVE  Takes(d)
  <2> DEFINE id == drag[d].shortcut.id
             target == drag[d].target
  <2>1. PICK V : Sound(V)
    BY <1>1 DEF Safe
  <2>2. PICK p, q : p = profile[d] /\ q = profile'[d]
    OBVIOUS
  <2>3. p \in Profile(V) /\ Named(p)
    BY <1>1, <2>1, <2>2, MyProfile DEF OwnNames, Descends
  <2>4. PICK dest, onto, f :
           /\ Moved(p, q, id, dest, onto, f)
           /\ target \in {s.id : s \in Live(p.shortcuts)} =>
                 onto = target /\ onto # id /\ dest = ById(p.shortcuts, onto).group
    BY <1>1, <2>2, ReleaseMoves
  <2>5. \A s \in Entries(p.shortcuts) : ById(q.shortcuts, s.id) = f[s] /\ ById(p.shortcuts, s.id) = s
    BY <2>3, <2>4, MovedList
  <2>6. ASSUME target \in {s.id : s \in Live(p.shortcuts)}
        PROVE  /\ ById(q.shortcuts, id).group = ById(p.shortcuts, target).group
               /\ PlaceOf(q.shortcuts, id) = PlaceOf(p.shortcuts, target)
    <3>1. PICK t \in Live(p.shortcuts) : t.id = target
      BY <2>6
    <3>2. ById(p.shortcuts, target) = t
      BY <2>5, <3>1 DEF Live
    <3>3. Moved(p, q, id, dest, target, f) /\ t.group = dest /\ target # id
      BY <2>4, <2>6, <3>2
    <3> QED
      BY <2>3, <3>1, <3>2, <3>3, DropTakes
  <2>7. ASSUME NEW x \in Ids(p.shortcuts) \ {id}, NEW y \in Ids(p.shortcuts) \ {id}
        PROVE  /\ ById(q.shortcuts, x).group = ById(p.shortcuts, x).group
               /\ ById(p.shortcuts, x) \in Live(p.shortcuts)
                  /\ ById(p.shortcuts, y) \in Mates(p.shortcuts, ById(p.shortcuts, x))
                  /\ Before(ById(p.shortcuts, x), ById(p.shortcuts, y))
                  => Before(ById(q.shortcuts, x), ById(q.shortcuts, y))
    <3>1. PICK s \in Entries(p.shortcuts) : s.id = x
      BY DEF Ids
    <3>2. PICK t \in Entries(p.shortcuts) : t.id = y
      BY DEF Ids
    <3>3. /\ ById(p.shortcuts, x) = s /\ ById(q.shortcuts, x) = f[s]
          /\ ById(p.shortcuts, y) = t /\ ById(q.shortcuts, y) = f[t]
      BY <2>5, <3>1, <3>2
    <3>4. s.id # id /\ t.id # id
      BY <3>1, <3>2
    <3> HIDE DEF id
    <3>5. /\ f[s].group = s.group
          /\ \A u \in Mates(p.shortcuts, s) :
                s \in Live(p.shortcuts) /\ u.id # id /\ Before(s, u) => Before(f[s], f[u])
      BY <2>3, <2>4, <3>4, DropKeeps
    <3> QED
      BY <3>3, <3>4, <3>5
  <2> QED
    BY <2>2, <2>6, <2>7 DEF PlaceOf, Mates
<1>2. Safe /\ OwnNames /\ PickedUp /\ [Next]_vars =>
        [\A d \in Device : drag[d] # None /\ ReleaseDrag(d) /\ profile' # profile => Takes(d)]_vars
  <2> HIDE DEF Takes
  <2> QED
    BY <1>1
<1>3. Safe /\ PickedUp /\ [Next]_vars => PickedUp'
  BY NextPicks
<1>4. Spec => []PickedUp
  BY <1>3, InitPicks, SafeAlways, PTL DEF Spec
<1> QED
  BY <1>2, <1>4, SafeAlways, NamesAlways, PTL DEF Spec, DropTakesPlace
===============================================================================
