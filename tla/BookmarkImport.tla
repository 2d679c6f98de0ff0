---------------------------- MODULE BookmarkImport ----------------------------
(***************************************************************************)
(* Import of a browser's bookmark file                                     *)
(* (extension/src/shared/profile/bookmarkImport.ts): the reader of the     *)
(* exported HTML, which keeps a stack of open lists and tolerates missing  *)
(* and stray tags, and the plan that files the bookmarks into groups.      *)
(*                                                                         *)
(* A file is a sequence of tags and texts; a title is the sequence of the  *)
(* texts it was put together from; a group's title the sequence of its     *)
(* folders' titles, which the code joins with an escaped separator.  A url *)
(* that is no http(s) address is None.  Size limits other than the ones on *)
(* nesting and on entries are left out: they refuse the file as a whole.   *)
(***************************************************************************)
EXTENDS ProfileMerge

CONSTANTS MaxFolderDepth, MaxDlStackDepth, MaxShortcuts, MaxGroups

ASSUME LimitsAssumption ==
    {MaxFolderDepth, MaxDlStackDepth, MaxShortcuts, MaxGroups} \subseteq Nat

Unnamed      == <<"unnamed folder">>
Unclassified == <<<<"unclassified">>>>
ToolbarTitle == <<<<"toolbar">>>>

\* The bookmarks toolbar gives no name to what is filed below it.
ResolveGroupTitle(path) ==
    IF path = <<>> THEN Unclassified
    ELSE LET named == IF path[1].toolbar THEN Tail(path) ELSE path
         IN IF named # <<>> THEN [i \in DOMAIN named |-> named[i].title]
            ELSE ToolbarTitle

Reader == [path |-> <<>>, stack |-> <<>>, pending |-> None, capture |-> None,
           found |-> <<>>, failed |-> FALSE]

\* A heading waits for the list that follows it; a link is a bookmark.
FinalizeCapture(r) ==
    LET c == r.capture
        done == [r EXCEPT !.capture = None]
    IN IF c = None THEN r
       ELSE IF c.tag = "h3"
       THEN [done EXCEPT !.pending = [title |-> IF c.text = <<>> THEN Unnamed ELSE c.text,
                                      toolbar |-> c.toolbar]]
       ELSE [done EXCEPT !.found = Append(@, [title |-> ResolveGroupTitle(r.path), url |-> c.url])]

OpenDl(r) ==
    LET folder == r.pending
        listed == [r EXCEPT !.pending = None, !.stack = Append(@, folder)]
        entered == IF folder = None THEN listed ELSE [listed EXCEPT !.path = Append(@, folder)]
    IN [entered EXCEPT !.failed = \/ Len(r.stack) >= MaxDlStackDepth
                                  \/ folder # None /\ Len(entered.path) > MaxFolderDepth]

\* (slip: every list closes a folder)
CloseDlOfFolder(r) ==
    IF r.stack = <<>> \/ r.path = <<>> THEN [r EXCEPT !.pending = None]
    ELSE [r EXCEPT !.pending = None, !.stack = Front(@), !.path = Front(@)]

CloseDl(r) ==
    LET closed == [r EXCEPT !.pending = None]
    IN IF r.stack = <<>> THEN closed
       ELSE [closed EXCEPT !.stack = Front(@),
                           !.path = IF Last(r.stack) = None THEN @ ELSE Front(@)]

ReadToken(r, token) ==
    IF r.failed THEN r
    ELSE CASE token.is = "text" ->
              IF r.capture = None THEN r ELSE [r EXCEPT !.capture.text = Append(@, token.text)]
      [] token.is = "close" ->
              IF r.capture = None THEN r
              ELSE IF r.capture.tag = token.tag THEN FinalizeCapture(r) ELSE r
      [] token.is = "open" ->
              [FinalizeCapture(r) EXCEPT !.pending = None,
                  !.capture = [tag |-> token.tag, text |-> <<>>, url |-> token.url,
                               toolbar |-> token.toolbar]]
      [] token.is = "dl" -> OpenDl(FinalizeCapture(r))
      [] token.is = "/dl" -> CloseDl(FinalizeCapture(r))

\* The file's bookmarks in order, or None when the reader gives up.
ParseNetscapeBookmarkHtml(file) ==
    LET end == FinalizeCapture(FoldLeft(ReadToken, Reader, file))
    IN IF end.failed THEN None ELSE end.found

-----------------------------------------------------------------------------
\* The last live group of that title, as the code's Map has it.
GroupOfTitle(p, title) ==
    LET S == {i \in DOMAIN p.groups : ~p.groups[i].del /\ p.groups[i].title = title}
    IN IF S = {} THEN None ELSE p.groups[Max(S)].id

\* File one bookmark.  Entries that were deleted count against the limits.  A
\* group and a shortcut made together have one number: their ids are apart.
ImportBookmark(plan, b, step, now) ==
    LET p == plan.profile
        own == GroupOfTitle(p, b.title)
        known == own # None /\ \E s \in LiveIn(p, own) : s.url = b.url
        grouped == IF own # None THEN p ELSE AddShortcutGroup(p, plan.next, b.title, now)
        g == GroupOfTitle(grouped, b.title)
        filed == [id |-> plan.next, group |-> g, url |-> b.url, icon |-> "favicon",
                  sort |-> NextSort(LiveIn(grouped, g)), at |-> now, del |-> FALSE]
    IN IF b.url = None \/ b \in plan.seen THEN plan
       ELSE IF known THEN [plan EXCEPT !.seen = @ \cup {b}]
       ELSE IF Len(p.shortcuts) >= MaxShortcuts \/ (own = None /\ Len(p.groups) >= MaxGroups)
       THEN [plan EXCEPT !.seen = @ \cup {b}, !.skipped = @ + 1]
       ELSE [profile |-> [grouped EXCEPT !.shortcuts = Append(@, filed)],
             seen |-> plan.seen \cup {b}, skipped |-> plan.skipped, imported |-> plan.imported + 1,
             next |-> plan.next + step]

\* next is the first of the ids to give, which are step apart.
BuildBookmarkImportPlan(p, bookmarks, next, step, now) ==
    FoldLeft(LAMBDA plan, b : ImportBookmark(plan, b, step, now),
             [profile |-> p, seen |-> {}, skipped |-> 0, imported |-> 0, next |-> next], bookmarks)
===============================================================================
