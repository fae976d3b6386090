---------------------------- MODULE MCConcurrent ----------------------------
(* Instances of the concurrent step for TLC.                               *)
EXTENDS Concurrent

CONSTANTS v1, v2

OneInvocation == {v1}
TwoInvocations == {v1, v2}
NoneBroken == {}
LastBroken == {Refs}
=============================================================================
