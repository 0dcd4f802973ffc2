--------------------------- MODULE MCNodeRuntime ---------------------------
(* A node's agent with three revisions, two certificates and two faults.    *)
EXTENDS NodeRuntime

MCControllers == {"service", "darwin", "windows", "pid", "none"}
MCDNSRevisions == {2}
ServiceOnly == {"service"}
=============================================================================
