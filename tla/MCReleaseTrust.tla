--------------------------- MODULE MCReleaseTrust ---------------------------
(***************************************************************************)
(* ReleaseTrust for TLC: four plans, each followed on one host.            *)
(***************************************************************************)
EXTENDS ReleaseTrust

FirstRoot == [version |-> 1, epoch |-> 1, sequence |-> 1, floor |-> 1, expires |-> 1,
              rootKeys |-> {"r1", "r2"}, releaseKeys |-> {"a", "b"}]

(* A proposal for a root, and who signs it. *)
Root(epoch, sequence, floor, rootKeys, releaseKeys, signers) ==
    [epoch |-> epoch, sequence |-> sequence, floor |-> floor, expires |-> 9,
     rootKeys |-> rootKeys, releaseKeys |-> releaseKeys, signers |-> signers]

(* A planned release: drafted once the ceremony is past proposal "after". *)
Release(sequence, floor, build, signers, after) ==
    [sequence |-> sequence, floor |-> floor, build |-> build, expires |-> 9,
     channelExpires |-> 9, signers |-> signers, after |-> after,
     receipts |-> [linux |-> build, darwin |-> build, windows |-> build,
                   authenticode |-> build]]
Unsigned(plan) == [plan EXCEPT !.receipts.authenticode = 0]
ShortLived(plan) == [plan EXCEPT !.channelExpires = 1]

Withdraws == Root(1, 2, 1, {"r2", "r3"}, {"a", "b"}, {"r1", "r2", "r3"})
UnderSigned == [Withdraws EXCEPT !.signers = {"r2", "r3"}]
Renews == [Withdraws EXCEPT !.sequence = 1]
NewEpoch == Root(2, 1, 2, {"r2", "r3"}, {"c", "d"}, {"r1", "r2", "r3"})
Lowers == Root(1, 1, 1, {"r2", "r3"}, {"a", "b"}, {"r2", "r3"})

Scene == [first |-> FirstRoot, supported |-> 2, offline |-> FALSE, host |-> Blank,
          second |-> <<>>, roots |-> <<>>, releases |-> <<>>, days |-> 0, faults |-> 1]

LegacyManifest == [epoch |-> 1, sequence |-> 1, floor |-> 1, build |-> 9, expires |-> 9,
                   signers |-> {"a", "b"}]
LegacyRelease == [release |-> LegacyManifest, root |-> 0, verified |-> 0,
                  channel |-> [pins |-> Digest(LegacyManifest), expires |-> 9,
                               signers |-> {"a", "b"}]]
LegacyHost == [Blank EXCEPT !.found = TRUE, !.schema = "v2", !.high = LegacyRelease,
                            !.active = LegacyRelease]

MCScenes == {
    (* A root withdraws the first release; an artifact lacks its receipt. *)
    [Scene EXCEPT !.roots = <<UnderSigned, Withdraws, Lowers>>, !.days = 1, !.faults = 2,
                  !.releases = <<ShortLived(Release(1, 1, 1, {"a", "b"}, 0)),
                                 Unsigned(Release(2, 1, 3, {"a", "b"}, 0)),
                                 Release(2, 1, 2, {"a", "b"}, 2)>>],
    (* New release keys; one release is short of a signature. *)
    [Scene EXCEPT !.roots = <<NewEpoch>>, !.offline = TRUE, !.second = <<"offline">>,
                  !.releases = <<Release(3, 1, 1, {"a"}, 0),
                                 Release(1, 2, 2, {"c", "d"}, 1)>>],
    (* A version 2 state; the first release reuses an accepted position. *)
    [Scene EXCEPT !.roots = <<Withdraws>>, !.host = LegacyHost, !.second = <<"online">>,
                  !.days = 1,
                  !.releases = <<Release(1, 1, 1, {"a", "b"}, 0),
                                 Release(2, 1, 2, {"a", "b"}, 1)>>],
    (* The same release is assembled again after a root is rotated. *)
    [Scene EXCEPT !.roots = <<Renews>>, !.first.expires = 9, !.second = <<"online">>,
                  !.releases = <<Release(1, 1, 1, {"a", "b"}, 0),
                                 Release(1, 1, 1, {"a", "b"}, 1)>>]}

=============================================================================
