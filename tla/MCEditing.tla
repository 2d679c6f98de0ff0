------------------------------ MODULE MCEditing ------------------------------
(* A small instance of Editing. *)
EXTENDS Editing

CONSTANTS u1, u2, near, far, photo

title(t) == <<<<t>>>>
MCTitles == {title("t1")}
group(id, t, n) == [id |-> id, title |-> title(t), sort |-> n, at |-> 0, del |-> FALSE]
shortcut(id, g, u, i, n) ==
    [id |-> id, group |-> g, url |-> u, icon |-> i, sort |-> n, at |-> 0, del |-> FALSE]

\* The defaults and former defaults of defaults.ts and migrate.ts; overlays in
\* hundredths.
MCDefaults == [engine |-> "baidu", columns |-> 8, style |-> "mini", overlay |-> 6,
               groups |-> <<group(1, "t1", 0)>>, shortcuts |-> <<shortcut(11, 1, u1, "favicon", 0)>>]
MCOutdatedLooks == {<<6, "medium">>, <<8, "tiny">>}

\* Two groups, one with two shortcuts, of which one device has a local icon.
MCStart ==
    {[pid |-> 1, engine |-> "baidu", columns |-> 6, style |-> "mini", overlay |-> 6,
      mode |-> "manual", source |-> "selected",
      groups |-> <<group(1, "t1", 0), group(2, "t2", 1)>>,
      shortcuts |-> <<shortcut(11, 1, u1, "favicon", 0), shortcut(12, 1, u2, "initial", 1)>>,
      selected |-> Mist, portable |-> Mist, ids |-> <<Mist>>, history |-> <<>>]}

tag(is, t, toolbar, u) == [is |-> is, tag |-> t, toolbar |-> toolbar, url |-> u]
h3(t, toolbar) == <<tag("open", "h3", toolbar, None), [is |-> "text", text |-> t],
                    [is |-> "close", tag |-> "h3"], [is |-> "dl"]>>
a(u) == <<tag("open", "a", FALSE, u), [is |-> "text", text |-> "x"], [is |-> "close", tag |-> "a"]>>
end == <<[is |-> "/dl"]>>

bookmark(u, folders) == [url |-> u, title |-> folders]

\* Folders inside the toolbar and beside it, a list without
\* heading, a url twice, a url that is none;
\* the same with lists, headings and links left open and one closed too often.
MCFiles ==
    {[tags |-> <<[is |-> "dl"]>> \o h3("bar", TRUE) \o a(u2) \o h3("t1", FALSE) \o a(u1) \o a(u2)
                \o end \o end \o h3("t2", FALSE) \o <<[is |-> "dl"]>> \o a(u1) \o a(None)
                \o end \o a(u2) \o a(u2) \o end \o a(u1) \o end,
      holds |-> {bookmark(u2, ToolbarTitle), bookmark(u1, title("t1")), bookmark(u2, title("t1")),
                 bookmark(u1, title("t2")), bookmark(u2, title("t2")), bookmark(u1, Unclassified)}],
     [tags |-> end \o h3("t2", FALSE) \o a(u2) \o <<tag("open", "h3", FALSE, None), [is |-> "dl"],
                tag("open", "a", FALSE, u1)>> \o end \o end \o a(u2),
      holds |-> {bookmark(u2, title("t2")), bookmark(u1, <<<<"t2">>, Unnamed>>),
                 bookmark(u2, Unclassified)}]}

\* Profiles of older versions: one with much that has been given up since, and
\* one that shows a local wallpaper on its device.
old(p) == [format |-> "v1", missing |-> {"interval"}, profile |-> p]
oldProfile ==
    [pid |-> 1, engine |-> "gone", columns |-> 6, style |-> "medium", overlay |-> 58,
     mode |-> "manual", source |-> "selected", groups |-> <<group(1, "t1", 0), group(2, "t2", 1)>>,
     shortcuts |-> <<shortcut(11, 1, u1, "stale", 0), shortcut(12, 1, u2, "text", 1)>>,
     selected |-> "dawn", portable |-> None, ids |-> <<>>, history |-> <<>>]
MCBackups == {old(oldProfile), old([oldProfile EXCEPT !.selected = photo, !.portable = "dawn"])}

edits(n, m) == [d \in Device |-> IF d = near THEN n ELSE m]
scenario(f, b, e, of, n) == [file |-> f, backup |-> b, edits |-> e, focus |-> of, images |-> n]

MCScenarios ==
    {scenario(None, None, edits(2, 1), "entries", 0),
     scenario(None, None, edits(2, 1), "wallpapers", 1),
     scenario(None, None, edits(2, 1), "theme", 0),
     scenario(None, None, edits(3, 0), "drag", 0)}
    \cup {scenario(f, None, edits(2, 0), "entries", 0) : f \in MCFiles}
    \cup {scenario(None, b, edits(2, 0), "wallpapers", 0) : b \in MCBackups}

MCStored == [d \in Device |-> IF d = near THEN {photo} ELSE {}]
MCPictured == [d \in Device |-> IF d = near THEN {12} ELSE {}]
===============================================================================
