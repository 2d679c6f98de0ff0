---------------------------- MODULE ProfileServer ----------------------------
(***************************************************************************)
(* What the backend keeps for the profile of one account, and              *)
(* Store.ApplySyncMutation (backend/internal/server/sync_v1.go): one       *)
(* SQLite transaction, and the pool holds one connection (store.go:53), so *)
(* one atomic step.                                                        *)
(*                                                                         *)
(*   history  the profile of every version so far, sync_profiles' current  *)
(*            row being the last; each with the mutation that wrote it and *)
(*            the profile its author had in front of him (a history        *)
(*            variable: the request carries baseVersion only)              *)
(*   log      the sync_mutations rows: responses kept for replay           *)
(*   open     the sync_conflicts rows with status 'open'                   *)
(*   serial   conflict ids handed out                                      *)
(*                                                                         *)
(* Quota refusals change nothing and look like a failed call to the        *)
(* client; they are part of SyncProtocol's CallFails.                      *)
(***************************************************************************)
EXTENDS SyncStore, Sequences

Version == [content : Profile, base : Profile, mid : Nat]

\* A stored response, with the request it answered.
Response ==
    [mid : Nat, request : [baseV : Nat, content : Profile, resolves : Nat \cup {None}],
     status : {"ok", "conflict"}, version : Nat,
     content : Profile \cup {None}, cid : Nat]

Reply ==
    [status : {"ok", "conflict", "rejected", "mismatch"}, version : Nat,
     content : Profile \cup {None}, cid : Nat]

Server ==
    [history : Seq(Version), log : SUBSET Response, open : SUBSET Nat, serial : Nat]

EmptyServer == [history |-> <<>>, log |-> {}, open |-> {}, serial |-> 0]
SeededServer(p) ==
    [EmptyServer EXCEPT !.history = <<[content |-> p, base |-> p, mid |-> 0]>>]

Request(q) == [baseV |-> q.baseV, content |-> q.content, resolves |-> q.resolves]

CurrentVersion(sv) == Len(sv.history)
CurrentProfile(sv) ==
    IF sv.history = <<>> THEN None ELSE sv.history[Len(sv.history)].content

Stored(sv, q) == {r \in sv.log : r.mid = q.id}
\* (slip: only a version from the future is stale)
IsAhead(sv, q) == q.baseV > CurrentVersion(sv)

IsStale(sv, q) == q.baseV # CurrentVersion(sv)
ResolutionRefused(sv, q) == q.resolves # None /\ q.resolves \notin sv.open

\* (slip: the stored response leaves the profile out)
AcceptBare(sv, q) ==
    [sv EXCEPT
       !.history = Append(@, [content |-> q.content, base |-> q.base, mid |-> q.id]),
       !.log = @ \cup {[mid |-> q.id, request |-> Request(q), status |-> "ok",
                        version |-> Len(sv.history) + 1, content |-> None, cid |-> 0]}]

Accept(sv, q) ==
    [sv EXCEPT
       !.history = Append(@, [content |-> q.content, base |-> q.base, mid |-> q.id]),
       !.log = @ \cup {[mid |-> q.id, request |-> Request(q), status |-> "ok",
                        version |-> Len(sv.history) + 1,
                        content |-> q.content, cid |-> 0]},
       !.open = @ \ {q.resolves}]

Conflicted(sv, q) ==
    [sv EXCEPT
       !.log = @ \cup {[mid |-> q.id, request |-> Request(q), status |-> "conflict",
                        version |-> Len(sv.history),
                        content |-> CurrentProfile(sv), cid |-> sv.serial + 1]},
       !.open = @ \cup {sv.serial + 1},
       !.serial = @ + 1]

\* ApplySyncMutation: replay, else compare versions, else write.
ApplySyncMutation(sv, q) ==
    IF Stored(sv, q) # {} THEN sv
    ELSE IF IsStale(sv, q) THEN Conflicted(sv, q)
    ELSE IF ResolutionRefused(sv, q) THEN sv
    ELSE Accept(sv, q)

Refusal(status) == [status |-> status, version |-> 0, content |-> None, cid |-> 0]

\* The answer: the row of the mutation in the log the call leaves, unless the
\* row answered another request body or there is none.
AnswerOf(sv, q) ==
    LET rows == Stored(ApplySyncMutation(sv, q), q)
    IN  IF rows = {} THEN Refusal("rejected")
        ELSE LET r == CHOOSE x \in rows : TRUE
             IN  IF r.request # Request(q) THEN Refusal("mismatch")
                 ELSE [status |-> r.status, version |-> r.version,
                       content |-> r.content, cid |-> r.cid]

\* handleAdminUserVersionRestoreV1: an old version becomes the next one.
AdminRestore(sv, v) ==
    [sv EXCEPT !.history = Append(@, [content |-> sv.history[v].content,
                                      base |-> sv.history[Len(sv.history)].content,
                                      mid |-> 0])]

\* runRetention: responses older than 90 days go.  (Old versions go too; only
\* AdminRestore reads them.)
Forget(sv, mid) == [sv EXCEPT !.log = {r \in @ : r.mid # mid}]
=============================================================================
