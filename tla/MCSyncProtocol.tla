---------------------------- MODULE MCSyncProtocol ----------------------------
(* Small instances of SyncProtocol. *)
EXTENDS SyncProtocol, TLC

CONSTANTS p1, p2, b1, b2

\* Two browsers, each with the id it drew.
MCInitialPid == [d \in Device |-> IF d = CHOOSE x \in Device : TRUE THEN p1 ELSE p2]

NothingSeeded == [a \in Account |-> None]

\* Another device uploaded a profile with its own id before the run starts.
OneSeeded ==
    [a \in Account |-> IF a = CHOOSE x \in Account : TRUE
                       THEN [pid |-> p2, body |-> b2] ELSE None]

BodySymmetry == Permutations(Body)
=============================================================================
