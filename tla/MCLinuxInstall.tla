-------------------------- MODULE MCLinuxInstall --------------------------
(* Three releases: 2 raises the floor the channel demands above what the   *)
(* bundle of 1 offers, and 3 cannot exchange agent state with 1.           *)
EXTENDS LinuxInstall

CONSTANT Newest

MCReleases == 1 .. Newest
MCFloor == [r \in MCReleases |-> IF r = 1 THEN 1 ELSE 2]
MCMinFloor == [r \in MCReleases |-> IF r = 3 THEN 2 ELSE 1]
MCReads == (MCReleases \X MCReleases) \ {<<1, 3>>}
=============================================================================
