------------------------------- MODULE Session -------------------------------
(***************************************************************************)
(* The worker's session (shared/sync/workerRuntime.ts, credentialVault.ts) *)
(* and the backend's refresh token families                                *)
(* (internal/server/auth_v1.go), await by await.  The vault and the        *)
(* metadata row are on disk; the session epoch, the calls under way and    *)
(* the refresh flights are in the worker's memory.                         *)
(*                                                                         *)
(* The n-th login the backend accepts opens family n and session           *)
(* generation n.  Its k-th access and refresh tokens are both k.           *)
(***************************************************************************)
EXTENDS Pages, Sequences

CONSTANT Scopes  \* bound: scopes the backend grants, "full" or "migration_read"

\* None is not a metadata row.
ASSUME RowAssumption == None \notin [acct : Nat, gen : Nat, pid : Nat]

VARIABLES
    vault,    \* the stored credentials, or None
    meta,     \* the active metadata row, or None
    decided,  \* generations whose first connection reached the store
    epoch,    \* sessionEpoch
    calls,    \* messages the worker is answering, or has answered
    flights,  \* refreshFlights
    families, \* refresh_token_families
    drawn,    \* refresh request ids drawn
    evicted   \* the worker has been stopped at least once

memory == <<epoch, calls, flights>>
sessionVars == <<vault, meta, decided, memory, families, drawn, evicted>>

SessionInit ==
    /\ vault = None /\ meta = None /\ decided = {}
    /\ epoch = 0 /\ calls = {} /\ flights = {}
    /\ families = <<>> /\ drawn = 0
    /\ evicted = FALSE

Public(creds) == [acct |-> creds.acct, gen |-> creds.gen, scope |-> creds.scope, pending |-> creds.pending]
CanWrite(session) == session # None /\ session.scope = "full" /\ ~session.pending

Step(c, c2) == calls' = (calls \ {c}) \cup {c2}
Goto(c, stage) == Step(c, [c EXCEPT !.stage = stage])
\* An accepted profile is broadcast before the answer goes out.
Answer(c, ok) ==
    Step(c, [c EXCEPT !.creds = None, !.refused = None, !.ok = ok,
                      !.stage = IF c.tells /\ (ok \/ c.kind = "call") THEN "telling"
                                ELSE IF ok THEN "done" ELSE "failed"])
Over(c) == c.stage \in {"done", "failed"}

NewCall(op, kind, acct, session) ==
    [op |-> op, kind |-> kind, stage |-> "start", epoch |-> epoch, acct |-> acct,
     session |-> session, creds |-> None, refused |-> None, ok |-> FALSE,
     strategy |-> None, rev |-> None, pid |-> None, tells |-> FALSE]

VaultIs(session) == vault # None /\ vault.gen = session.gen
\* validateAuthenticatedCredentials
Valid(session) == VaultIs(session) /\ vault.acct = session.acct
Current(c) == c.epoch = epoch
MetaIs(session) == meta # None /\ meta.gen = session.gen /\ meta.acct = session.acct

-----------------------------------------------------------------------------
(* The backend *)

NewFamily == [last |-> 1, req |-> None, late |-> FALSE, expired |-> 0, revoked |-> "no"]

AccessOk(gen, k) == families[gen].revoked = "no" /\ k > families[gen].expired

\* RotateRefreshToken: a used token is answered again, with the tokens it was
\* answered before, to the same request within 60 s; else the family is revoked.
Recoverable(f, k, req) ==
    /\ f.last = k + 1 /\ f.req = req /\ ~f.late
    /\ f.revoked = "no" /\ f.expired < f.last

RotateRefreshToken(f, k, req) ==
    IF f.last # k
    THEN IF Recoverable(f, k, req) THEN f
         ELSE [f EXCEPT !.revoked = IF @ = "no" THEN "replay" ELSE @]
    ELSE IF f.revoked # "no" THEN f
    ELSE [f EXCEPT !.last = k + 1, !.req = req, !.late = FALSE]
Granted(f, k, req) == IF f.last = k THEN f.revoked = "no" ELSE Recoverable(f, k, req)

\* 60 s pass for one family, or 15 minutes: its access tokens expire.
TimePasses(gen, long) ==
    /\ gen \in DOMAIN families
    /\ families' = [families EXCEPT ![gen].late = TRUE,
                                    ![gen].expired = IF long THEN families[gen].last ELSE @]
    /\ UNCHANGED <<vault, meta, decided, memory, drawn, evicted>>

-----------------------------------------------------------------------------
(* login *)

LoginBegin(op, acct, pid) ==
    /\ epoch' = epoch + 1
    /\ calls' = calls \cup {[NewCall(op, "login", acct, None) EXCEPT
           !.stage = "asking", !.epoch = epoch + 1, !.pid = pid]}
    /\ UNCHANGED <<vault, meta, decided, flights, families, drawn, evicted>>

\* Assumed of the environment: the backend's answer to one login takes longer
\* than a local write that another login has begun.
LoginAnswered(c, scope) ==
    LET gen == Len(families) + 1
        creds == [acct |-> c.acct, gen |-> gen, scope |-> scope, pending |-> TRUE,
                  access |-> 1, refresh |-> 1, req |-> None]
    IN /\ c.kind = "login" /\ c.stage = "asking"
       /\ ~\E d \in calls : d.stage \in {"saving", "activating"}
       /\ families' = Append(families, NewFamily)
       /\ IF Current(c) THEN Step(c, [c EXCEPT !.stage = "saving", !.creds = creds, !.session = Public(creds)])
                        ELSE Answer(c, FALSE)
       /\ UNCHANGED <<vault, meta, decided, epoch, flights, drawn, evicted>>

LoginRefused(c) ==
    /\ c.kind = "login" /\ c.stage = "asking"
    /\ Answer(c, FALSE)
    /\ UNCHANGED <<vault, meta, decided, epoch, flights, families, drawn, evicted>>

LoginSave(c) ==
    /\ c.stage = "saving"
    /\ vault' = c.creds
    /\ Goto(c, "saved")
    /\ UNCHANGED <<meta, decided, epoch, flights, families, drawn, evicted>>

LoginSaved(c) ==
    /\ c.stage = "saved"
    /\ Goto(c, IF Current(c) THEN "pulling" ELSE "clearing")
    /\ UNCHANGED <<vault, meta, decided, epoch, flights, families, drawn, evicted>>

\* (slip: the epoch is not looked at again)
LoginPulledUnseen(c, ok) ==
    /\ c.kind = "login" /\ c.stage = "pulling"
    /\ Goto(c, IF ok THEN "activating" ELSE "clearing")
    /\ UNCHANGED <<vault, meta, decided, epoch, flights, families, drawn, evicted>>

LoginPulled(c, ok) ==
    /\ c.kind = "login" /\ c.stage = "pulling"
    /\ Goto(c, IF ok /\ Current(c) THEN "activating" ELSE "clearing")
    /\ UNCHANGED <<vault, meta, decided, epoch, flights, families, drawn, evicted>>

LoginActivate(c) ==
    /\ c.stage = "activating"
    /\ meta' = [acct |-> c.acct, gen |-> c.creds.gen, pid |-> c.pid]
    /\ Goto(c, "activated")
    /\ UNCHANGED <<vault, decided, epoch, flights, families, drawn, evicted>>

LoginActivated(c) ==
    /\ c.stage = "activated"
    /\ IF Current(c) THEN Answer(c, TRUE) ELSE Goto(c, "undoing")
    /\ UNCHANGED <<vault, meta, decided, epoch, flights, families, drawn, evicted>>

\* deactivateAccount looks for the row by account and profile, and for the
\* generation itself.
Deactivated(session, pid) == IF MetaIs(session) /\ meta.pid = pid THEN None ELSE meta

LoginUndo(c) ==
    /\ c.stage = "undoing"
    /\ meta' = Deactivated(c.creds, c.pid)
    /\ Goto(c, "clearing")
    /\ UNCHANGED <<vault, decided, epoch, flights, families, drawn, evicted>>

LoginClear(c) ==
    /\ c.kind = "login" /\ c.stage = "clearing"
    /\ vault' = IF VaultIs(c.creds) THEN None ELSE vault
    /\ Answer(c, FALSE)
    /\ UNCHANGED <<meta, decided, epoch, flights, families, drawn, evicted>>

-----------------------------------------------------------------------------
(* logout *)

LogoutBegin(op, session) ==
    /\ calls' = calls \cup {[NewCall(op, "logout", session.acct, session) EXCEPT
           !.stage = IF Valid(session) THEN "clearing" ELSE "failed"]}
    /\ UNCHANGED <<vault, meta, decided, epoch, flights, families, drawn, evicted>>

LogoutClear(c) ==
    /\ c.kind = "logout" /\ c.stage = "clearing"
    /\ IF VaultIs(c.session)
       THEN /\ vault' = None
            /\ epoch' = IF Current(c) THEN epoch + 1 ELSE epoch
            /\ Goto(c, "reading")
       ELSE Answer(c, FALSE) /\ UNCHANGED <<vault, epoch>>
    /\ UNCHANGED <<meta, decided, flights, families, drawn, evicted>>

LogoutRead(c) ==
    /\ c.stage = "reading"
    /\ IF meta # None /\ meta.acct = c.acct
       THEN Step(c, [c EXCEPT !.stage = "undo", !.pid = meta.pid]) ELSE Goto(c, "leaving")
    /\ UNCHANGED <<vault, meta, decided, epoch, flights, families, drawn, evicted>>

LogoutUndo(c) ==
    /\ c.stage = "undo"
    /\ meta' = Deactivated(c.session, c.pid)
    /\ Goto(c, "leaving")
    /\ UNCHANGED <<vault, decided, epoch, flights, families, drawn, evicted>>

\* A failure of the request is ignored.
LogoutTell(c, ok) ==
    /\ c.stage = "leaving"
    /\ families' = IF ok THEN [families EXCEPT ![c.session.gen].revoked = "logout"] ELSE families
    /\ Answer(c, TRUE)
    /\ UNCHANGED <<vault, meta, decided, epoch, flights, drawn, evicted>>

-----------------------------------------------------------------------------
(* authenticated: any request with the account's token *)

\* drain and getCatalog start from the session they find in the vault.
CallBegin(op, tells) ==
    /\ vault # None
    /\ calls' = calls \cup {[NewCall(op, "call", vault.acct, Public(vault)) EXCEPT
           !.tells = tells, !.stage = IF CanWrite(vault) THEN "load" ELSE "failed"]}
    /\ UNCHANGED <<vault, meta, decided, epoch, flights, families, drawn, evicted>>

\* requireFull, requireReady
Allowed(c) == Valid(c.session) /\ (c.kind = "call" => CanWrite(vault))

\* The credentials read from the vault are judged in the same turn.
Denied(c) ==
    /\ c.stage = "load"
    /\ ~Allowed(c)
    /\ Answer(c, FALSE)
    /\ UNCHANGED <<vault, meta, decided, epoch, flights, families, drawn, evicted>>

\* A token the backend's clock already refuses may still look fresh here.
Use(c) ==
    /\ c.stage = "load" /\ Allowed(c)
    /\ c.refused # vault.access
    /\ Step(c, [c EXCEPT !.creds = vault, !.stage = "sent"])
    /\ UNCHANGED <<vault, meta, decided, epoch, flights, families, drawn, evicted>>

Refresh(c) ==
    /\ c.stage = "load" /\ Allowed(c)
    /\ c.refused = vault.access \/ families[vault.gen].expired >= vault.access
    /\ IF vault.scope = "full"
       THEN /\ Goto(c, "waiting")
            /\ flights' = IF \E f \in flights : f.gen = vault.gen THEN flights
                          ELSE flights \cup {[gen |-> vault.gen, creds |-> vault, stage |-> "preparing"]}
       ELSE Answer(c, FALSE) /\ UNCHANGED flights
    /\ UNCHANGED <<vault, meta, decided, epoch, families, drawn, evicted>>

\* replaceIfCurrent
Replaceable(f) == VaultIs(f.creds) /\ vault.refresh = f.creds.refresh
Replace(creds) == vault' = [creds EXCEPT !.pending = vault.pending]

\* The flight is over: what the calls that wait for it do.
Landed(f, creds) ==
    /\ flights' = flights \ {f}
    /\ calls' = {IF c.stage = "waiting" /\ c.session.gen = f.gen
                 THEN [c EXCEPT !.stage = IF creds = None THEN "failed" ELSE "sent",
                                !.creds = IF creds = None THEN @ ELSE creds]
                 ELSE c : c \in calls}

\* (slip: every attempt draws an id of its own)
FreshRequestId(creds) == drawn + 1

\* The request's id is kept until its answer is.
RequestId(creds) == IF creds.req # None THEN creds.req ELSE drawn + 1

FlightPrepare(f) ==
    LET creds == [f.creds EXCEPT !.req = RequestId(f.creds)]
    IN /\ f.stage = "preparing"
       /\ IF Replaceable(f)
          THEN /\ Replace(creds)
               /\ flights' = (flights \ {f}) \cup {[f EXCEPT !.stage = "asking", !.creds = creds]}
               /\ drawn' = IF creds.req > drawn THEN creds.req ELSE drawn
               /\ UNCHANGED calls
          ELSE Landed(f, None) /\ UNCHANGED <<vault, drawn>>
       /\ UNCHANGED <<meta, decided, epoch, families, evicted>>

\* The answer may be lost.
FlightAsk(f, lost) ==
    LET family == families[f.gen]
        granted == Granted(family, f.creds.refresh, f.creds.req)
    IN /\ f.stage = "asking"
       /\ families' = [families EXCEPT ![f.gen] = RotateRefreshToken(family, f.creds.refresh, f.creds.req)]
       /\ IF granted /\ ~lost
          THEN /\ flights' = (flights \ {f}) \cup {[f EXCEPT !.stage = "storing"]}
               /\ UNCHANGED calls
          ELSE Landed(f, None)
       /\ UNCHANGED <<vault, meta, decided, epoch, drawn, evicted>>

\* The tokens of the answer; its request is acknowledged.
FlightStore(f) ==
    LET creds == [f.creds EXCEPT !.refresh = @ + 1, !.access = f.creds.refresh + 1, !.req = None]
    IN /\ f.stage = "storing"
       /\ IF Replaceable(f) THEN Replace(creds) /\ Landed(f, creds)
                            ELSE Landed(f, None) /\ UNCHANGED vault
       /\ UNCHANGED <<meta, decided, epoch, families, drawn, evicted>>

\* One 401 is answered by a refresh and a second try.
Served(c, ok) ==
    /\ c.stage = "sent"
    /\ IF ok /\ AccessOk(c.session.gen, c.creds.access)
       THEN IF Allowed(c) /\ (c.kind = "first" => Current(c))
            THEN IF c.kind = "first" THEN Goto(c, "writing") ELSE Answer(c, TRUE)
            ELSE Answer(c, FALSE)
       ELSE IF ok /\ c.refused = None /\ Allowed(c)
            THEN Step(c, [c EXCEPT !.stage = "load", !.refused = c.creds.access])
            ELSE Answer(c, FALSE)
    /\ UNCHANGED <<vault, meta, decided, epoch, flights, families, drawn, evicted>>

-----------------------------------------------------------------------------
(* completeFirstConnection; what it writes to the store is the composition's *)

FirstBegin(op, session, strategy, rev, pid) ==
    /\ calls' = calls \cup {[NewCall(op, "first", session.acct, session) EXCEPT
           !.strategy = strategy, !.rev = rev, !.pid = pid, !.tells = strategy = "use-remote",
           !.stage = IF Valid(session) /\ (strategy = "use-local" => vault.scope = "full")
                     THEN "load" ELSE "failed"]}
    /\ UNCHANGED <<vault, meta, decided, epoch, flights, families, drawn, evicted>>

\* acceptRemote looks at the epoch inside its transaction; forceEnqueueCurrent does not.
\* The row keeps the profile's id.
FirstWrite(c, rev, pid, newPid) ==
    /\ c.kind = "first" /\ c.stage = "writing"
    /\ MetaIs(c.session) /\ meta.pid = c.pid /\ c.pid = pid
    /\ c.strategy = "use-remote" => Current(c) /\ c.rev = rev
    /\ decided' = decided \cup {c.session.gen}
    /\ meta' = [meta EXCEPT !.pid = newPid]
    /\ Goto(c, "completing")
    /\ UNCHANGED <<vault, epoch, flights, families, drawn, evicted>>

FirstRefused(c) ==
    /\ c.kind = "first" /\ c.stage = "writing"
    /\ Answer(c, FALSE)
    /\ UNCHANGED <<vault, meta, decided, epoch, flights, families, drawn, evicted>>

FirstComplete(c) ==
    /\ c.stage = "completing"
    /\ IF VaultIs(c.session) /\ (c.strategy = "use-local" => Current(c))
       THEN /\ vault' = [vault EXCEPT !.pending = FALSE]
            /\ Answer(c, Current(c))
       ELSE Answer(c, FALSE) /\ UNCHANGED vault
    /\ UNCHANGED <<meta, decided, epoch, flights, families, drawn, evicted>>

\* The answer is with the page.
Heard(c) ==
    /\ calls' = calls \ {c}
    /\ UNCHANGED <<vault, meta, decided, epoch, flights, families, drawn, evicted>>

-----------------------------------------------------------------------------
\* The browser stops the worker: its memory is gone, messages are not answered.
Evict ==
    /\ epoch' = 0 /\ flights' = {}
    /\ calls' = {IF Over(c) THEN c ELSE [c EXCEPT !.stage = "failed"] : c \in calls}
    /\ evicted' = TRUE
    /\ UNCHANGED <<vault, meta, decided, families, drawn>>

SessionStep(c) ==
    \/ \E scope \in Scopes : LoginAnswered(c, scope)
    \/ LoginRefused(c) \/ LoginSave(c) \/ LoginSaved(c)
    \/ \E ok \in BOOLEAN : LoginPulled(c, ok) \/ Served(c, ok) \/ LogoutTell(c, ok)
    \/ LoginActivate(c) \/ LoginActivated(c) \/ LoginUndo(c) \/ LoginClear(c)
    \/ LogoutClear(c) \/ LogoutRead(c) \/ LogoutUndo(c)
    \/ Denied(c) \/ Use(c) \/ Refresh(c) \/ FirstRefused(c) \/ FirstComplete(c)

FlightStep(f) ==
    \/ FlightPrepare(f) \/ FlightStore(f)
    \/ \E lost \in BOOLEAN : FlightAsk(f, lost)

-----------------------------------------------------------------------------
(* Properties *)

\* The vault and the metadata row are written apart.  A session that may write
\* has a first connection that reached the store; and once nothing is under
\* way, whatever logins and logouts overtook each other, a session in the vault
\* has its own active row.  A worker stopped amid a login may leave one that has
\* none.
SessionIsWhole ==
    /\ CanWrite(vault) => vault.gen \in decided
    /\ (\A c \in calls : Over(c)) /\ ~evicted /\ vault # None => MetaIs(vault)

\* A lost answer, a stopped worker and calls that refresh at once never make
\* the extension look like a thief to the backend: it revokes a family for a
\* replayed token only when more than 60 s have passed since the answer that
\* was lost.
NeverLocksItselfOut ==
    \A gen \in DOMAIN families : families[gen].revoked = "replay" => families[gen].late
===============================================================================
