------------------------------- MODULE MCNewtab -------------------------------
(* Newtab for TLC: the operations that are run together.                   *)
EXTENDS Newtab

CONSTANTS p1, p2

do(t, kind) == [by |-> t, kind |-> kind, n |-> 1]
again(t, kind) == [by |-> t, kind |-> kind, n |-> 2]
worker(kind) == do("worker", kind)

BothScopes == {"full", "migration_read"}
FullScope == {"full"}

\* Saves of one page and of two, with what holds a profile across an await.
Saving2 ==
    { {do(p1, "edit"), again(p1, "edit"), do(p2, "edit"), do(p2, "group"), do(p1, "twice")},
      {do(p1, "import"), do(p1, "rotate"), do(p2, "edit"), do(p2, "bookmarks")},
      {do(p1, "edit"), again(p1, "rotate"), do(p1, "reset"), do(p2, "edit"), do(p1, "twice")} }

\* Saves of pages that are closed and opened again.
Reopenings ==
    { {do(p1, "edit"), do(p1, "reopen"), do(p2, "edit"), do(p2, "twice")},
      {do(p1, "edit"), do(p1, "reset"), do(p1, "reopen"), do(p2, "edit")} }

\* What the worker writes beside the saves of the pages.
Remote ==
    { {do(p1, "connect"), do(p1, "edit"), do(p2, "edit")},
      {do(p1, "connect"), do(p1, "bookmarks"), do(p1, "rotate")},
      {do(p1, "connect"), do(p2, "edit"), worker("evict")},
      {do(p1, "connect"), do(p1, "load"), do(p2, "edit")},
      {do(p1, "connect"), do(p1, "sync"), do(p1, "resolve"), do(p2, "edit")} }

\* Logins, logouts, and what goes wrong meanwhile.
Connections ==
    { {do(p1, "connect"), again(p2, "connect")},
      {do(p1, "connect"), do(p2, "reopen")},
      {do(p1, "connect"), do(p1, "sync"), do(p1, "resolve"), worker("evict")},
      {do(p1, "connect"), do(p1, "reopen"), do(p1, "leave")} }

\* Tokens, and answers that come late.
Calls ==
    { {do(p1, "connect"), do(p1, "sync"), worker("expire"), worker("evict"), worker("late")},
      {do(p1, "connect"), do(p2, "reopen"), again(p1, "sync"), worker("expire")},
      {do(p1, "connect"), do(p1, "sync"), again(p1, "sync"), worker("expire"), worker("late")},
      {do(p1, "connect"), do(p1, "leave"), again(p1, "connect")},
      {do(p1, "connect"), do(p1, "refresh"), do(p1, "more"), do(p1, "leave")} }

Gists ==
    { {do(p1, "backup"), again(p1, "backup"), do(p2, "backup"), do(p1, "edit")},
      {do(p1, "backup"), again(p1, "backup"), do(p2, "reopen"), do(p2, "backup"), worker("elsewhere")},
      {do(p1, "backup"), again(p1, "backup"), do(p1, "clear"), worker("elsewhere")},
      {do(p1, "backup"), do(p2, "reopen"), do(p2, "restore"), do(p2, "edit"), worker("elsewhere")} }

\* Edits alone, in two pages.
Edits == { {do(p1, "edit"), again(p1, "edit"), do(p2, "edit"), again(p2, "edit")} }

Each == Saving2 \cup Reopenings \cup Remote \cup Connections \cup Calls \cup Gists
===============================================================================
