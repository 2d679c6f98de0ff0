----------------------------- MODULE ProfileChain -----------------------------
(***************************************************************************)
(* What profile synchronisation promises, without browsers, sessions or    *)
(* messages: the profile of an account is a chain of versions.  A version  *)
(* is written once and never changes; it is either an older one brought    *)
(* back by an administrator or one edit of one user, applied at most once, *)
(* and that user had the version before it in front of him.                *)
(***************************************************************************)
EXTENDS Naturals, Sequences

CONSTANT Account

VARIABLE chain   \* [Account -> Seq([content, base, mid])], mid = 0: not an edit

Newest(s) == s[Len(s)]

\* The first version of an account has none before it.
OnTopOf(s, base) == s # <<>> => Newest(s).content = base

Applied(mid) == \E a \in Account : \E v \in DOMAIN chain[a] : chain[a][v].mid = mid

Grows(a) ==
    /\ Len(chain'[a]) = Len(chain[a]) + 1
    /\ chain' = [chain EXCEPT ![a] = Append(@, Newest(chain'[a]))]

Write(a) ==
    /\ Grows(a)
    /\ OnTopOf(chain[a], Newest(chain'[a]).base)
    /\ Newest(chain'[a]).mid # 0
    /\ ~Applied(Newest(chain'[a]).mid)

BringBack(a) ==
    /\ Grows(a)
    /\ Newest(chain'[a]).mid = 0
    /\ \E v \in DOMAIN chain[a] : chain[a][v].content = Newest(chain'[a]).content

Init == \A a \in Account : \A v \in DOMAIN chain[a] : chain[a][v].mid = 0
Next == \E a \in Account : Write(a) \/ BringBack(a)
Spec == Init /\ [][Next]_chain
=============================================================================
