---------------------------- MODULE PageResources ----------------------------
(***************************************************************************)
(* What a new tab page fetches for its session: styles, wallpaper lists    *)
(* and preview images (newtab/App.tsx refreshBackendResources and below),  *)
(* and the gates that drop an answer that comes too late                   *)
(* (shared/sync/requestGate.ts).  The worker answers with the account in   *)
(* its vault; the page knows the session it believes in, backendAuthRef.   *)
(*                                                                         *)
(* A resource on the screen is the session generation it was asked for.    *)
(***************************************************************************)
EXTENDS Pages

VARIABLE page  \* [Tab -> the page's session and resources]

\* ScopedRequestGate.  Tokens are never issued twice.
NewGate == [scope |-> None, n |-> 0]
GateBegin(scope, gate) == [scope |-> scope, n |-> gate.n + 1]
GateInvalid(gate) == GateBegin(None, gate)
IsCurrent(token, gate) == token = gate

NewPage ==
    [auth |-> None,       \* backendAuthRef.current
     generation |-> 0,    \* resourceRefreshGenerationRef
     busy |-> FALSE,      \* resourceRefreshBusyRef
     asked |-> FALSE,     \* resourceRefreshManualRequestedRef
     feedback |-> "none", \* resourceFeedback
     gate |-> NewGate,    \* webPreviewRequestGateRef
     release |-> NewGate, \* releaseRequestGateRef
     startup |-> NewGate, \* startupSyncRequestGateRef
     conflict |-> None,   \* syncConflict
     styles |-> None, web |-> None, official |-> None,
     previews |-> {},     \* webPreviewUrls
     loading |-> FALSE,   \* webLoadingRef
     flows |-> {},        \* requests under way
     job |-> None]        \* what syncBusyRef is set for

PagesInit == page = [t \in Tab |-> NewPage]

SetPage(t, p) == page' = [page EXCEPT ![t] = p]

Writable(session) == session # None /\ session.scope = "full" /\ ~session.pending
\* isSameWritableSyncSession
Same(expected, current) ==
    /\ Writable(expected) /\ Writable(current)
    /\ expected.acct = current.acct /\ expected.gen = current.gen

WithoutPreviews(p) == [p EXCEPT !.gate = GateInvalid(@), !.previews = {}]

\* refreshBackendResources up to its first await.
Started(p, manual) ==
    LET q == [p EXCEPT !.generation = @ + 1, !.feedback = IF manual THEN "pending" ELSE @]
        flow == [kind |-> "refresh", generation |-> q.generation, auth |-> p.auth, stage |-> "fetching",
                 token |-> GateBegin(p.auth, p.gate)]
    IN IF p.busy THEN [p EXCEPT !.asked = @ \/ manual, !.feedback = IF manual THEN "pending" ELSE @]
       ELSE IF p.auth = None
       THEN [WithoutPreviews(q) EXCEPT !.styles = None, !.release = GateInvalid(@), !.asked = FALSE,
                                       !.feedback = IF manual THEN "warning" ELSE @]
       ELSE IF Writable(p.auth)
       THEN [q EXCEPT !.busy = TRUE, !.gate = flow.token, !.previews = {},
                      !.release = GateBegin("backend", @), !.flows = @ \cup {flow}]
       ELSE [WithoutPreviews(q) EXCEPT !.busy = TRUE, !.styles = None, !.web = None, !.official = None,
                                       !.release = GateBegin("backend", @),
                                       !.flows = @ \cup {[flow EXCEPT !.stage = "public"]}]

\* Its `finally`.
Finished(f, p, feedback) ==
    IF f.generation # p.generation THEN [p EXCEPT !.flows = @ \ {f}]
    ELSE [p EXCEPT !.flows = @ \ {f}, !.busy = FALSE, !.asked = FALSE,
                   !.feedback = IF p.asked \/ @ = "pending" THEN feedback ELSE @]

StillWanted(f, p) == f.generation = p.generation /\ Same(f.auth, p.auth)

RefreshFailed(f, p) ==
    IF ~StillWanted(f, p) THEN Finished(f, p, p.feedback)
    ELSE Finished(f, IF IsCurrent(f.token, p.gate) THEN WithoutPreviews(p) ELSE p, "error")

Hydration(auth, token) == [kind |-> "preview", auth |-> auth, token |-> token]

RefreshFetched(t, f, ok) ==
    LET p == page[t]
    IN /\ f.kind = "refresh" /\ f.stage = "fetching"
       /\ SetPage(t, IF ~ok THEN RefreshFailed(f, p)
                     ELSE IF ~StillWanted(f, p) THEN Finished(f, p, p.feedback)
                     ELSE [p EXCEPT !.flows = (@ \ {f}) \cup {[f EXCEPT !.stage = "verifying"]}])

\* The styles' signatures are verified; all is shown, the previews follow.
RefreshVerified(t, f) ==
    LET p == page[t]
        shown == [p EXCEPT !.styles = f.auth.gen, !.web = f.auth.gen, !.official = f.auth.gen,
                           !.flows = @ \cup {Hydration(f.auth, f.token)}]
    IN /\ f.kind = "refresh" /\ f.stage = "verifying"
       /\ SetPage(t, IF StillWanted(f, p) THEN Finished(f, shown, "success") ELSE Finished(f, p, p.feedback))

\* refreshPublicBootstrap, for a session that may not write.
PublicFetched(t, f) ==
    /\ f.kind = "refresh" /\ f.stage = "public"
    /\ SetPage(t, Finished(f, page[t], "warning"))

\* hydrateWebPreviews: one image.
PreviewFetched(t, f) ==
    LET p == page[t]
    IN /\ f.kind = "preview"
       /\ SetPage(t, [p EXCEPT !.flows = @ \ {f},
                               !.previews = IF IsCurrent(f.token, p.gate) /\ Same(f.auth, p.auth)
                                            THEN @ \cup {f.auth.gen} ELSE @])

\* loadMoreWebWallpapers
MoreStart(t) ==
    LET p == page[t]
    IN /\ Writable(p.auth) /\ ~p.loading
       /\ SetPage(t, [p EXCEPT !.loading = TRUE, !.flows = @ \cup {[kind |-> "more", auth |-> p.auth]}])

\* getCurrentWebPreviewRequestToken
PreviewToken(auth, p) == IF p.gate.scope = auth THEN p.gate ELSE GateBegin(auth, p.gate)

\* (slip: shown to whoever is signed in when it arrives)
MoreFetchedForAny(t, f, ok) ==
    LET p == [page[t] EXCEPT !.loading = FALSE, !.flows = @ \ {f}]
    IN /\ f.kind = "more"
       /\ SetPage(t, IF ok THEN [p EXCEPT !.web = f.auth.gen] ELSE p)

MoreFetched(t, f, ok) ==
    LET p == [page[t] EXCEPT !.loading = FALSE, !.flows = @ \ {f}]
        token == PreviewToken(f.auth, p)
    IN /\ f.kind = "more"
       /\ SetPage(t, IF ok /\ Same(f.auth, p.auth)
                     THEN [p EXCEPT !.web = f.auth.gen, !.gate = token,
                                    !.previews = IF token = p.gate THEN @ ELSE {},
                                    !.flows = @ \cup {Hydration(f.auth, token)}]
                     ELSE p)

\* A login, before its first connection is decided.
WithoutConflict(p) == [p EXCEPT !.startup = GateInvalid(@), !.conflict = None]

\* rememberBackendAuth
Remembered(p, auth) ==
    [WithoutConflict(WithoutPreviews(p)) EXCEPT !.auth = auth, !.release = GateInvalid(@)]

\* disconnectBackend before its first await.  The official wallpapers stay.
Forgotten(p) ==
    [WithoutConflict(WithoutPreviews(p)) EXCEPT
        !.auth = None, !.generation = @ + 1, !.busy = FALSE, !.asked = FALSE,
        !.release = GateInvalid(@), !.styles = None, !.web = None]

\* The page is open: it takes up the session it is told of and, where that may
\* write, has the worker sync (op).
Opened(p, auth, op) ==
    LET q == Started([p EXCEPT !.auth = auth], FALSE)
        token == GateBegin(auth.gen, p.startup)
    IN IF ~Writable(auth) THEN [q EXCEPT !.startup = GateInvalid(@)]
       ELSE [q EXCEPT !.startup = token,
                      !.flows = @ \cup {[kind |-> "startup", stage |-> "syncing", op |-> op,
                                         auth |-> auth, token |-> token]}]

\* WritableSessionRequestGate.isCurrent
StartupIsCurrent(f, p) == IsCurrent(f.token, p.startup) /\ Same(f.auth, p.auth)

\* That sync is over.  One that met a conflict is followed by a request for it.
StartupSynced(t, f, conflict) ==
    LET p == page[t]
    IN /\ f.kind = "startup" /\ f.stage = "syncing"
       /\ SetPage(t, [p EXCEPT !.flows = (@ \ {f})
              \cup IF conflict /\ StartupIsCurrent(f, p) THEN {[f EXCEPT !.stage = "asking"]} ELSE {}])

ConflictFetched(t, f, ok) ==
    LET p == page[t]
    IN /\ f.kind = "startup" /\ f.stage = "asking"
       /\ SetPage(t, [p EXCEPT !.flows = @ \ {f},
                               !.conflict = IF ok /\ StartupIsCurrent(f, p) THEN f.auth.gen ELSE @])

PageStep(t, f) ==
    \/ \E ok \in BOOLEAN : RefreshFetched(t, f, ok) \/ MoreFetched(t, f, ok) \/ ConflictFetched(t, f, ok)
    \/ RefreshVerified(t, f) \/ PublicFetched(t, f) \/ PreviewFetched(t, f)

\* Whatever answers arrive late, after a logout, another login or a newer
\* refresh: styles, web wallpapers, previews and the conflict on a page are
\* those of the session the page is in, and the page never believes a refresh
\* to be running that is not (it would refuse every later one).
ResourcesOfSession ==
    \A t \in Tab :
        LET p == page[t]
        IN /\ \A shown \in {p.styles, p.web, p.conflict} \cup p.previews :
                 shown # None => p.auth # None /\ shown = p.auth.gen
           /\ p.busy => \E f \in p.flows : f.kind = "refresh" /\ f.generation = p.generation
===============================================================================
