----------------------------- MODULE MCRayClient -----------------------------
(* Small instances of RayClient for TLC. *)
EXTENDS RayClient

NoFaults == {{}}
\* Waits wake up for nothing, or never do.
WithAndWithoutWakeups == {FaultKinds, {"link"}}

AnyMachine == 0 .. 4
ThreeThreads == {3}
=============================================================================
