--------------------------- MODULE MCProviderStore ---------------------------
(* Two processes of two goroutines each and two references, for TLC.       *)
EXTENDS ProviderStore, TLC

CONSTANTS p1, p2, r1, r2, main, other, none

TwoProcesses == {p1, p2}
TwoRefs == {r1, r2}
TwoGoroutines == {main, other}

Interchangeable == Permutations(TwoRefs)

RunBesideOthers == (p1 :> {"missing", "always"}) @@ (p2 :> {"help", "tag"})

TheSecond == {2}

=============================================================================
