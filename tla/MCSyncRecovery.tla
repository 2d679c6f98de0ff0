---------------------------- MODULE MCSyncRecovery ----------------------------
(* Small instances of SyncRecovery. *)
EXTENDS SyncRecovery, TLC

CONSTANTS p1, p2, b1, b2

MCInitialPid == [d \in Device |-> IF d = CHOOSE x \in Device : TRUE THEN p1 ELSE p2]

NothingSeeded == [a \in Account |-> None]

BodySymmetry == Permutations(Body)
=============================================================================
