----------------------------- MODULE GistBackup -----------------------------
(***************************************************************************)
(* Backups to a GitHub gist (shared/sync/client.ts, gistBackup.ts,         *)
(* shared/storage/githubSyncAuth.ts; newtab/App.tsx 1637-1772).  GitHub    *)
(* offers no compare-and-set: a page reads the gist, compares its hash     *)
(* with the one it remembers, writes, and reads again.                     *)
(*                                                                         *)
(* A hash is the shared profile it is of.  Gist n is the n-th created.     *)
(***************************************************************************)
EXTENDS Pages, Sequences

VARIABLES
    gists,  \* [id -> the profile in the gist, and how often it was written]
    kept,   \* fullProGitHubSyncAuth in chrome.storage
    github  \* [Tab -> the page's githubAuth and its operation]

gistVars == <<gists, kept, github>>

NewGithub == [auth |-> None, job |-> None, known |-> {}]

GistInit ==
    /\ gists = <<>> /\ kept = None
    /\ github = [t \in Tab |-> NewGithub]

Set(t, g) == github' = [github EXCEPT ![t] = g]
Stage(t, stage) == Set(t, [github[t] EXCEPT !.job.stage = stage])
Idle(g) == [g EXCEPT !.job = None]
Doing(t, kind, stage) == github[t].job # None /\ github[t].job.kind = kind /\ github[t].job.stage = stage

\* The effect that runs when the page is opened.
GithubLoad(t) ==
    /\ Set(t, IF kept = None THEN NewGithub ELSE [NewGithub EXCEPT !.auth = kept, !.known = {kept.hash}])
    /\ UNCHANGED <<gists, kept>>

\* Another device writes the gist.
Elsewhere(id, profile) ==
    /\ id \in DOMAIN gists
    /\ gists' = [gists EXCEPT ![id] = [profile |-> profile, n |-> @.n + 1]]
    /\ UNCHANGED <<kept, github>>

\* saveProfileToGitHubGist takes the profile when it is called.
SaveStart(t, profile, id, allow) ==
    LET auth == github[t].auth
    IN Set(t, [github[t] EXCEPT !.job =
           [kind |-> "backup", allow |-> allow, profile |-> profile, n |-> 0, id |-> id,
            hash |-> IF auth = None THEN {} ELSE {auth.hash},
            stage |-> IF id = None THEN "writing" ELSE "checking"]])

\* A gist's id may be typed in by hand.
BackupStart(t, profile) ==
    /\ github[t].job = None
    /\ IF github[t].auth = None
       THEN \E id \in {None} \cup DOMAIN gists : SaveStart(t, profile, id, FALSE)
       ELSE SaveStart(t, profile, github[t].auth.id, FALSE)
    /\ UNCHANGED <<gists, kept>>

\* (slip: a page that has no hash, or an old one, takes the gist's for its own)
BackupCheckedLate(t) ==
    /\ Doing(t, "backup", "checking")
    /\ Set(t, [github[t] EXCEPT !.job.n = gists[github[t].job.id].n, !.job.stage = "writing"])
    /\ UNCHANGED <<gists, kept>>

BackupChecked(t) ==
    LET job == github[t].job
        gist == gists[job.id]
    IN /\ Doing(t, "backup", "checking")
       /\ Set(t, [github[t] EXCEPT
              !.job.n = gist.n,
              !.job.stage = IF job.allow \/ gist.profile \in job.hash THEN "writing" ELSE "asked"])
       /\ UNCHANGED <<gists, kept>>

\* "Overwrite anyway": with what the page holds by then.
BackupOverwrite(t, profile) ==
    /\ Doing(t, "backup", "asked")
    /\ SaveStart(t, profile, github[t].job.id, TRUE)
    /\ UNCHANGED <<gists, kept>>

\* PATCH, or POST for the first backup.  When the answer is lost, the page
\* has not learned the hash (nor the id) of what it wrote.
BackupWritten(t, lost) ==
    LET job == github[t].job
        id == IF job.id = None THEN Len(gists) + 1 ELSE job.id
    IN /\ Doing(t, "backup", "writing")
       /\ gists' = IF job.id = None THEN Append(gists, [profile |-> job.profile, n |-> 1])
                   ELSE [gists EXCEPT ![id] = [profile |-> job.profile, n |-> @.n + 1]]
       /\ Set(t, IF lost THEN Idle(github[t])
                 ELSE [github[t] EXCEPT !.job.stage = "verifying", !.job.id = id])
       /\ UNCHANGED kept

BackupVerified(t) ==
    LET job == github[t].job
        auth == [id |-> job.id, hash |-> job.profile]
    IN /\ Doing(t, "backup", "verifying")
       /\ IF gists[job.id].profile = job.profile
          THEN /\ kept' = auth
               /\ Set(t, [Idle(github[t]) EXCEPT !.auth = auth, !.known = @ \cup {auth.hash}])
          ELSE Set(t, Idle(github[t])) /\ UNCHANGED kept
       /\ UNCHANGED gists

\* Any request may fail, and any question be answered with no.
GistGivesUp(t) ==
    /\ github[t].job # None
    /\ Set(t, Idle(github[t]))
    /\ UNCHANGED <<gists, kept>>

RestoreAsk(t) ==
    /\ github[t].job = None
    /\ \E id \in IF github[t].auth = None THEN DOMAIN gists ELSE {github[t].auth.id} :
           Set(t, [github[t] EXCEPT !.job = [kind |-> "restore", stage |-> "asked", id |-> id]])
    /\ UNCHANGED <<gists, kept>>

RestoreConfirmed(t) == Doing(t, "restore", "asked") /\ Stage(t, "loading") /\ UNCHANGED <<gists, kept>>

\* The hash is remembered before the profile is saved, by the composition.
RestoreLoaded(t) ==
    LET id == github[t].job.id
        auth == [id |-> id, hash |-> gists[id].profile]
    IN /\ Doing(t, "restore", "loading")
       /\ kept' = auth
       /\ Set(t, [Idle(github[t]) EXCEPT !.auth = auth, !.known = @ \cup {auth.hash}])
       /\ UNCHANGED gists

\* disconnectGitHub
GithubClear(t) ==
    /\ github[t].job = None
    /\ kept' = None
    /\ Set(t, [github[t] EXCEPT !.auth = None])
    /\ UNCHANGED gists

GistStep(t) ==
    \/ BackupChecked(t) \/ BackupVerified(t) \/ GistGivesUp(t) \/ RestoreConfirmed(t)
    \/ \E lost \in BOOLEAN : BackupWritten(t, lost)

\* Two pages, another device, a lost answer: whatever a backup replaces without
\* the user having been asked, this page had put there or loaded, unless it
\* came between the page's look at the gist and its write (GitHub can not be
\* asked to check).
GistGuard ==
    [][\A t \in Tab :
          LET job == github[t].job
          IN Doing(t, "backup", "writing") /\ job.id # None /\ ~job.allow /\ gists' # gists
               /\ github'[t] # github[t]
             => gists[job.id].profile \in github[t].known \/ gists[job.id].n > job.n]_gistVars
===============================================================================
