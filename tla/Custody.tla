------------------------------ MODULE Custody ------------------------------
(***************************************************************************)
(* The custody of the control plane's state: mesh-backup seals a stopped   *)
(* server's two stores into one encrypted archive, restores the archive    *)
(* into a new directory behind a marker that keeps servers out, and        *)
(* mesh-storage imports it into PostgreSQL; mesh-server migrates whatever  *)
(* it is started over before it serves.                                    *)
(*                                                                         *)
(* One operator issues one command at a time; a server process starts and  *)
(* stops beside it.  A command may be killed between any two of its steps, *)
(* a write may be torn, a directory sync may fail, the machine may lose    *)
(* power and the answer of a database commit may be lost.  `seen` is what  *)
(* the file system shows and `stable` what a power loss leaves of it.      *)
(***************************************************************************)
EXTENDS Naturals, FiniteSets, Sequences

CONSTANT MaxWrites  \* bound on the mutations a server serves

VARIABLES
    scene,    \* what the operator is after, fixed at the start
    old,      \* the data directory the deployment began with
    seen,     \* archive directory, restore parent and restore target
    stable,   \* the part of `seen` that has been synchronised
    pg,       \* the PostgreSQL database
    op,       \* the command the operator is running
    told,     \* the answer of the operator's last command
    daemon,   \* the mesh-server process
    secret,   \* the administrator token the service is configured with
    catalog,  \* the archive the operator recorded as a recovery point
    cuts,     \* history: pairs of documents that existed together
    budget    \* faults and off-plan commands still to come

vars == <<scene, old, seen, stable, pg, op, told, daemon, secret, catalog,
          cuts, budget>>

-----------------------------------------------------------------------------
(* Documents, archives and files.  A control document carries its schema   *)
(* version, the number of its mutations, the administrator token it is     *)
(* bound to (0 before version 2) and whether a node with routed subnets    *)
(* has enrolled.  An identity document counts its mutations.               *)
Absent == [torn |-> FALSE]

Torn == [torn |-> TRUE]

Unbound == 1
CredentialBinding == 2
FirewallScopes == 13

ControlDocument(version, admin) ==
    [version |-> version, writes |-> 1, admin |-> admin, routed |-> FALSE]

IdentityDocument == [writes |-> 1]

(* FixedFiles: what a restored directory holds, in the order written.      *)
Restored == <<"control", "identity", "master", "admin", "receipt">>

Files == {"control", "identity", "master", "admin", "receipt"}
InParent == {"marker", "target"}
InTarget == Files \cup {"locks"}
InOutput == {"temps", "final"}
Entries == InParent \cup InTarget \cup InOutput

Empty ==
    [e \in Entries |-> IF e \in {"target", "locks"} THEN FALSE
                       ELSE IF e = "temps" THEN {} ELSE Absent]

NoDatabase ==
    [migrated |-> FALSE, granted |-> FALSE, control |-> Absent,
     identity |-> Absent, revision |-> 0, provenance |-> Absent,
     telemetry |-> FALSE]

NoCommand ==
    [cmd |-> "none", pc |-> "idle", held |-> Absent, k |-> 1,
     failed |-> FALSE, fence |-> FALSE, locks |-> {}]

Down == [dir |-> "old", pc |-> "down", rotate |-> FALSE]

Control(d) ==
    CASE d = "old" -> old.control
      [] d = "new" -> seen.control
      [] d = "pg"  -> pg.control

Identity(d) ==
    CASE d = "old" -> old.identity
      [] d = "new" -> seen.identity
      [] d = "pg"  -> pg.identity

Sources(command) == IF command = "createNew" THEN "new" ELSE "old"

-----------------------------------------------------------------------------
(* The file system.  Put changes what is visible; Sync makes a directory's *)
(* entries survive a power loss.                                           *)
Put(e, value) == [seen EXCEPT ![e] = value]

Sync(directory) ==
    [e \in Entries |-> IF e \in directory THEN seen[e] ELSE stable[e]]

(* publishArchiveWithHooks links the temporary file to the final name, so  *)
(* a final archive has two links while its temporary name remains.         *)
Links == 1 + Cardinality({t \in seen.temps : t = seen.final})

-----------------------------------------------------------------------------
(* validateSnapshotBodies: a snapshot is recoverable when it is bound, its *)
(* version is known, its verifiers match the credentials and every host    *)
(* certificate is one the recovery rules accept.  A certificate with       *)
(* routed subnets is refused ("unsupported unsafe networks").              *)
SupportedHosts(control) == ~control.routed

ValidSnapshot(control, admin) ==
    /\ control.version \in CredentialBinding .. FirewallScopes
    /\ control.admin = admin
    /\ SupportedHosts(control)

Seal(id, control, identity, admin) ==
    [id |-> id, control |-> control, identity |-> identity, admin |-> admin]

(* readArchive followed by Open: one link, authenticated, recoverable, and *)
(* the identifier the operator selected in the catalogue.                  *)
ReadArchive ==
    /\ seen.final # Absent
    /\ Links = 1
    /\ ValidSnapshot(seen.final.control, seen.final.admin)

ExpectedArchive ==
    /\ ReadArchive
    /\ catalog # Absent
    /\ seen.final.id = catalog.id

-----------------------------------------------------------------------------
(* The parent-directory fence and the two store locks.                     *)
FenceFree == daemon.pc # "fenced" /\ ~op.fence

DaemonLocks(d) ==
    IF daemon.dir # d THEN {}
    ELSE IF daemon.pc = "opened" THEN {"control"}
    ELSE IF daemon.pc \in {"bound", "serving"} THEN {"control", "identity"}
    ELSE {}

CommandLocks(d) == IF Sources(op.cmd) = d THEN op.locks ELSE {}

(* Mutant: a backup expects the lock files of a restored directory.        *)
RestoredLockFiles(d) == seen.locks

LockFiles(d) == d = "old" \/ seen.locks

RefuseIncompleteRestore(d) == d = "new" /\ seen.marker # Absent

-----------------------------------------------------------------------------
(* How a command proceeds and ends.  A fault costs budget; the operator    *)
(* acts on `told`, one part for the files and one for the database.        *)
Proceed(pc) == op' = [op EXCEPT !.pc = pc]

Answer(part, result) ==
    /\ op' = NoCommand
    /\ told' = [told EXCEPT ![part] = result]

Fault == budget > 0 /\ budget' = budget - 1

NoFault == UNCHANGED budget

Disk == <<seen, stable>>

Elsewhere == <<scene, old, daemon, secret, cuts>>

-----------------------------------------------------------------------------
(* mesh-backup create.  The locks are taken in the server's order, without *)
(* waiting, and held to the end.                                           *)
AcquireControlLock ==
    /\ op.cmd \in {"create", "createNew"} /\ op.pc = "begin"
    /\ LET d == Sources(op.cmd) IN
       IF \/ RefuseIncompleteRestore(d)
          \/ ~LockFiles(d)
          \/ "control" \in DaemonLocks(d)
       THEN Answer("files", "refused")
       ELSE /\ op' = [op EXCEPT !.pc = "locked", !.locks = {"control"}]
            /\ UNCHANGED told
    /\ NoFault
    /\ UNCHANGED <<Disk, pg, catalog, Elsewhere>>

AcquireIdentityLock ==
    /\ op.cmd \in {"create", "createNew"} /\ op.pc = "locked"
    /\ LET d == Sources(op.cmd) IN
       IF "identity" \in DaemonLocks(d) \/ RefuseIncompleteRestore(d)
       THEN Answer("files", "refused")
       ELSE /\ op' = [op EXCEPT
                       !.pc = "reading", !.locks = {"control", "identity"},
                       !.held = Seal(0, Control(d), Absent, secret)]
            /\ UNCHANGED told
    /\ NoFault
    /\ UNCHANGED <<Disk, pg, catalog, Elsewhere>>

ProveUnchanged(archive) ==
    /\ Control(Sources(op.cmd)) = archive.control
    /\ Identity(Sources(op.cmd)) = archive.identity

FreshID ==
    LET used == {a.id : a \in (seen.temps \cup {seen.final, catalog})
                                 \ {Absent, Torn}}
    IN CHOOSE n \in 1 .. Cardinality(used) + 1 : n \notin used

CaptureSources ==
    /\ op.cmd \in {"create", "createNew"} /\ op.pc = "reading"
    /\ LET archive == Seal(FreshID, op.held.control,
                           Identity(Sources(op.cmd)), op.held.admin)
       IN IF ~ValidSnapshot(archive.control, archive.admin)
             \/ ~ProveUnchanged(archive)
          THEN Answer("files", "unrecoverable")
          ELSE /\ op' = [op EXCEPT !.pc = "publish", !.held = archive]
               /\ UNCHANGED told
    /\ NoFault
    /\ UNCHANGED <<Disk, pg, catalog, Elsewhere>>

(* The temporary archive is written, synchronised and authenticated.  A    *)
(* failed write removes it again; a kill leaves it behind (Killed).        *)
WriteTemporary ==
    /\ op.cmd \in {"create", "createNew"} /\ op.pc = "publish"
    /\ IF seen.final # Absent
       THEN Answer("files", "refused") /\ UNCHANGED seen
       ELSE /\ seen' = Put("temps", seen.temps \cup {op.held})
            /\ Proceed("link")
            /\ UNCHANGED told
    /\ NoFault
    /\ UNCHANGED <<stable, pg, catalog, Elsewhere>>

LinkArchive ==
    /\ op.cmd \in {"create", "createNew"} /\ op.pc = "link"
    /\ seen' = Put("final", op.held)
    /\ Proceed("syncLink")
    /\ NoFault
    /\ UNCHANGED <<stable, pg, told, catalog, Elsewhere>>

SyncLink ==
    /\ op.cmd \in {"create", "createNew"} /\ op.pc = "syncLink"
    /\ \/ NoFault /\ stable' = Sync(InOutput) /\ Proceed("unlink")
       \/ /\ Fault
          /\ op' = [op EXCEPT !.pc = "unlink", !.failed = TRUE]
          /\ UNCHANGED stable
    /\ UNCHANGED <<seen, pg, told, catalog, Elsewhere>>

UnlinkTemporary ==
    /\ op.cmd \in {"create", "createNew"} /\ op.pc = "unlink"
    /\ seen' = Put("temps", seen.temps \ {op.held})
    /\ Proceed("syncUnlink")
    /\ NoFault
    /\ UNCHANGED <<stable, pg, told, catalog, Elsewhere>>

SyncUnlink ==
    /\ op.cmd \in {"create", "createNew"} /\ op.pc = "syncUnlink"
    /\ \/ /\ NoFault
          /\ stable' = Sync(InOutput)
          /\ IF op.failed \/ ~ProveUnchanged(op.held)
             THEN Answer("files", "verifyRequired") /\ UNCHANGED catalog
             ELSE Answer("files", "created") /\ catalog' = op.held
       \/ /\ Fault
          /\ Answer("files", "verifyRequired")
          /\ UNCHANGED <<stable, catalog>>
    /\ UNCHANGED <<seen, pg, Elsewhere>>

-----------------------------------------------------------------------------
(* mesh-backup verify.  An archive left with two links is repaired when    *)
(* exactly one temporary name is there to remove.                          *)
RepairInterruptedPublication ==
    /\ op.cmd = "verify" /\ op.pc = "begin"
    /\ IF seen.final = Absent \/ (Links = 2 /\ Cardinality(seen.temps) # 1)
       THEN Answer("files", "refused") /\ UNCHANGED seen
       ELSE IF Links = 1
       THEN Proceed("check") /\ UNCHANGED <<seen, told>>
       ELSE /\ seen' = Put("temps", {})
            /\ Proceed("syncRepair")
            /\ UNCHANGED told
    /\ NoFault
    /\ UNCHANGED <<stable, pg, catalog, Elsewhere>>

SyncRepair ==
    /\ op.cmd = "verify" /\ op.pc = "syncRepair"
    /\ \/ NoFault /\ stable' = Sync(InOutput) /\ Proceed("check")
          /\ UNCHANGED told
       \/ Fault /\ Answer("files", "verifyRequired") /\ UNCHANGED stable
    /\ UNCHANGED <<seen, pg, catalog, Elsewhere>>

VerifyArchive ==
    /\ op.cmd = "verify" /\ op.pc = "check"
    /\ \/ /\ NoFault
          /\ IF ReadArchive
             THEN /\ stable' = Sync(InOutput)
                  /\ Answer("files", "verified")
                  /\ catalog' = seen.final
             ELSE Answer("files", "refused") /\ UNCHANGED <<stable, catalog>>
       \/ Fault /\ Answer("files", "verifyRequired")
          /\ UNCHANGED <<stable, catalog>>
    /\ UNCHANGED <<seen, pg, Elsewhere>>

-----------------------------------------------------------------------------
(* mesh-backup restore.  Everything is checked before the fence is taken;  *)
(* the marker is durable before the target exists and outlives every       *)
(* failure.                                                                *)
OpenArchive ==
    /\ op.cmd = "restore" /\ op.pc = "begin"
    /\ IF ~ExpectedArchive
       THEN Answer("files", "refused")
       ELSE /\ op' = [op EXCEPT !.pc = "fence", !.held = seen.final]
            /\ UNCHANGED told
    /\ NoFault
    /\ UNCHANGED <<Disk, pg, catalog, Elsewhere>>

FenceTarget ==
    /\ op.cmd = "restore" /\ op.pc = "fence"
    /\ IF ~FenceFree \/ seen.target \/ seen.marker # Absent
       THEN Answer("files", "refused")
       ELSE /\ op' = [op EXCEPT !.pc = "marker", !.fence = TRUE]
            /\ UNCHANGED told
    /\ NoFault
    /\ UNCHANGED <<Disk, pg, catalog, Elsewhere>>

Marker == [id |-> op.held.id]

(* Mutant: the parent is not synchronised between marker and target.       *)
WriteMarkerUnsynced ==
    /\ op.cmd = "restore" /\ op.pc = "marker"
    /\ seen' = Put("marker", Marker)
    /\ Proceed("mkdir")
    /\ NoFault
    /\ UNCHANGED <<stable, pg, told, catalog, Elsewhere>>

WriteMarker ==
    /\ op.cmd = "restore" /\ op.pc = "marker"
    /\ seen' = Put("marker", Marker)
    /\ Proceed("syncNewMarker")
    /\ NoFault
    /\ UNCHANGED <<stable, pg, told, catalog, Elsewhere>>

MakeTarget ==
    /\ op.cmd = "restore" /\ op.pc = "mkdir"
    /\ seen' = Put("target", TRUE)
    /\ Proceed("syncTarget")
    /\ NoFault
    /\ UNCHANGED <<stable, pg, told, catalog, Elsewhere>>

(* syncRoot of the parent, after the marker and after the new directory.   *)
SyncParent ==
    /\ op.cmd = "restore" /\ op.pc \in {"syncNewMarker", "syncTarget"}
    /\ \/ /\ NoFault
          /\ stable' = Sync(InParent)
          /\ Proceed(IF op.pc = "syncNewMarker" THEN "mkdir" ELSE "write")
          /\ UNCHANGED told
       \/ Fault /\ Answer("files", "failed") /\ UNCHANGED stable
    /\ UNCHANGED <<seen, pg, catalog, Elsewhere>>

Body(file) ==
    CASE file = "control"  -> op.held.control
      [] file = "identity" -> op.held.identity
      [] file = "master"   -> [master |-> TRUE]
      [] file = "admin"    -> [admin |-> op.held.admin]
      [] file = "receipt"  -> op.held

WriteFile ==
    /\ op.cmd = "restore" /\ op.pc = "write"
    /\ seen' = Put(Restored[op.k], Body(Restored[op.k]))
    /\ op' = IF op.k = Len(Restored) THEN [op EXCEPT !.pc = "validate"]
             ELSE [op EXCEPT !.k = op.k + 1]
    /\ NoFault
    /\ UNCHANGED <<stable, pg, told, catalog, Elsewhere>>

RequireExactRestoredEntries ==
    (\A f \in Files : seen[f] # Absent) /\ ~seen.locks

(* validateReceipt and validateRestoredTarget: the receipt is of the       *)
(* marker's operation and binds every recovered file.                      *)
ValidateRestoredTarget ==
    /\ \A f \in Files : seen[f] # Torn
    /\ seen.receipt.id = seen.marker.id
    /\ seen.control = seen.receipt.control
    /\ seen.identity = seen.receipt.identity
    /\ seen.admin.admin = seen.receipt.admin
    /\ ValidSnapshot(seen.control, seen.admin.admin)

(* Restore and FinalizeRestore validate, synchronise the target and only   *)
(* then give the marker up.                                                *)
ValidateTarget ==
    /\ op.cmd \in {"restore", "finalize"} /\ op.pc = "validate"
    /\ \/ /\ NoFault
          /\ IF RequireExactRestoredEntries /\ ValidateRestoredTarget
             THEN /\ stable' = Sync(InTarget)
                  /\ op' = [op EXCEPT !.pc = "dropMarker",
                                      !.held = seen.receipt]
                  /\ UNCHANGED told
             ELSE Answer("files", "cannotFinalize") /\ UNCHANGED stable
       \/ Fault /\ Answer("files", "failed") /\ UNCHANGED stable
    /\ UNCHANGED <<seen, pg, catalog, Elsewhere>>

DropMarker ==
    /\ op.cmd \in {"restore", "finalize"} /\ op.pc = "dropMarker"
    /\ seen' = Put("marker", Absent)
    /\ Proceed("syncMarker")
    /\ NoFault
    /\ UNCHANGED <<stable, pg, told, catalog, Elsewhere>>

(* removeMarker: when the removal cannot be synchronised the marker is     *)
(* written again.                                                          *)
SyncMarkerRemoval ==
    /\ op.cmd \in {"restore", "finalize"} /\ op.pc = "syncMarker"
    /\ \/ /\ NoFault
          /\ stable' = Sync(InParent)
          /\ Answer("files", "restored")
          /\ UNCHANGED seen
       \/ /\ Fault
          /\ seen' = Put("marker", Marker)
          /\ stable' = [stable EXCEPT !.marker = Marker]
          /\ Answer("files", "failed")
    /\ UNCHANGED <<pg, catalog, Elsewhere>>

(* mesh-backup finalize-restore, up to the validation it shares.           *)
FenceFinalization ==
    /\ op.cmd = "finalize" /\ op.pc = "begin"
    /\ IF ~FenceFree \/ seen.marker = Absent
       THEN Answer("files", "refused")
       ELSE IF \/ seen.marker = Torn
               \/ ~seen.target
               \/ ~RequireExactRestoredEntries
       THEN Answer("files", "cannotFinalize")
       ELSE /\ op' = [op EXCEPT !.pc = "validate", !.fence = TRUE]
            /\ UNCHANGED told
    /\ NoFault
    /\ UNCHANGED <<Disk, pg, catalog, Elsewhere>>

(* The operator discards a target that cannot be proved (external): first  *)
(* the target, then its marker; or an archive verify keeps refusing.       *)
Discard ==
    /\ op.cmd = "discard"
    /\ LET gone == IF op.pc = "begin" THEN InTarget \cup {"target"}
                   ELSE {"marker"}
       IN /\ seen' = [e \in Entries |-> IF e \in gone THEN Empty[e]
                                        ELSE seen[e]]
          /\ stable' = [e \in Entries |-> IF e \in gone THEN Empty[e]
                                          ELSE stable[e]]
    /\ IF op.pc = "begin" THEN Proceed("marker") /\ UNCHANGED told
       ELSE Answer("files", "discarded")
    /\ NoFault
    /\ UNCHANGED <<pg, catalog, Elsewhere>>

DiscardArchive ==
    /\ op.cmd = "discardArchive"
    /\ seen' = [seen EXCEPT !.temps = {}, !.final = Absent]
    /\ stable' = [stable EXCEPT !.temps = {}, !.final = Absent]
    /\ Answer("files", "discarded")
    /\ NoFault
    /\ UNCHANGED <<pg, catalog, Elsewhere>>

-----------------------------------------------------------------------------
(* mesh-storage.  Every transaction is one step; a fault at its commit     *)
(* leaves it done or undone and the command cannot tell (ErrUncertain-     *)
(* Commit whose resolution also failed).                                   *)
Database == <<scene, old, seen, stable, daemon, secret, catalog, cuts>>

Migrate ==
    /\ op.cmd = "migrate"
    /\ \/ /\ NoFault
          /\ pg' = [pg EXCEPT !.migrated = TRUE]
          /\ Answer("pg", "migrated")
       \/ /\ Fault
          /\ pg' \in {pg, [pg EXCEPT !.migrated = TRUE]}
          /\ Answer("pg", "migrateAgain")
    /\ UNCHANGED Database

(* The cluster administrator's transfer of the pgcrypto functions          *)
(* (external), which import requires.                                      *)
Grant ==
    /\ op.cmd = "grant"
    /\ pg' = [pg EXCEPT !.granted = pg.migrated]
    /\ Answer("pg", IF pg.migrated THEN "granted" ELSE told.pg)
    /\ NoFault
    /\ UNCHANGED Database

CheckSchemaReadiness == pg.migrated

CheckOperationalFunctionSecurity == pg.migrated /\ pg.granted

CheckReadiness ==
    /\ CheckSchemaReadiness
    /\ CheckOperationalFunctionSecurity
    /\ pg.control # Absent
    /\ pg.identity # Absent

CheckImportReadiness == CheckReadiness /\ pg.provenance # Absent

(* validateImportSource, and the constraint the database puts on the       *)
(* provenance row.                                                         *)
ImportControlVersionMax == 12

ValidateImportSource(archive) ==
    archive.control.version \in CredentialBinding .. ImportControlVersionMax

ProvenanceConstraint(archive) == archive.control.version \in {2, 3}

OpenValidatedImportArchive ==
    /\ op.cmd = "import" /\ op.pc = "begin"
    /\ IF ~ExpectedArchive \/ ~CheckSchemaReadiness
       THEN Answer("pg", "importRefused")
       ELSE /\ op' = [op EXCEPT !.pc = "import", !.held = seen.final]
            /\ UNCHANGED told
    /\ NoFault
    /\ UNCHANGED <<pg, Database>>

Imported(archive) ==
    [pg EXCEPT !.control = archive.control, !.identity = archive.identity,
               !.revision = 1, !.provenance = archive]

Import ==
    /\ op.cmd = "import" /\ op.pc = "import"
    /\ IF \/ ~ValidateImportSource(op.held)
          \/ ~CheckOperationalFunctionSecurity
       THEN Answer("pg", "importRefused") /\ NoFault /\ UNCHANGED pg
       ELSE IF pg.provenance # Absent
       THEN Answer("pg", "verifyImport") /\ NoFault /\ UNCHANGED pg
       ELSE IF pg.control # Absent \/ ~ProvenanceConstraint(op.held)
       THEN Answer("pg", "importRefused") /\ NoFault /\ UNCHANGED pg
       ELSE \/ /\ NoFault
               /\ pg' = Imported(op.held)
               /\ Proceed("reread")
               /\ UNCHANGED told
            \/ /\ Fault
               /\ pg' \in {pg, Imported(op.held)}
               /\ Answer("pg", "verifyImport")
    /\ UNCHANGED Database

ValidateExactDocuments(archive) ==
    pg.control = archive.control /\ pg.identity = archive.identity

(* importBackup after the commit: reread, telemetry document, reread.      *)
RereadImport ==
    /\ op.cmd = "import" /\ op.pc = "reread"
    /\ IF /\ ValidateExactDocuments(op.held) /\ pg.revision = 1
          /\ CheckImportReadiness
       THEN Proceed("telemetry") /\ UNCHANGED told
       ELSE Answer("pg", "verifyImport")
    /\ NoFault
    /\ UNCHANGED <<pg, Database>>

EnsureRuntimeTelemetryState ==
    /\ op.cmd = "import" /\ op.pc = "telemetry"
    /\ \/ /\ NoFault
          /\ pg' = [pg EXCEPT !.telemetry = TRUE]
          /\ Proceed("confirm")
          /\ UNCHANGED told
       \/ /\ Fault
          /\ pg' \in {pg, [pg EXCEPT !.telemetry = TRUE]}
          /\ Answer("pg", "verifyImport")
    /\ UNCHANGED Database

ConfirmImport ==
    /\ op.cmd = "import" /\ op.pc = "confirm"
    /\ IF /\ ValidateExactDocuments(op.held) /\ pg.revision = 1
          /\ pg.telemetry
       THEN Answer("pg", "imported")
       ELSE Answer("pg", "verifyImport")
    /\ NoFault
    /\ UNCHANGED <<pg, Database>>

(* mesh-storage verify: two equal reads around the second readiness check. *)
VerifyFirstRead ==
    /\ op.cmd = "check" /\ op.pc = "begin"
    /\ IF ~ExpectedArchive \/ ~CheckImportReadiness
       THEN Answer("pg", "absent")
       ELSE IF ~ValidateExactDocuments(seen.final)
       THEN Answer("pg", "changed")
       ELSE /\ op' = [op EXCEPT !.pc = "confirm", !.held = seen.final]
            /\ UNCHANGED told
    /\ NoFault
    /\ UNCHANGED <<pg, Database>>

VerifySecondRead ==
    /\ op.cmd = "check" /\ op.pc = "confirm"
    /\ IF ~ValidateExactDocuments(op.held) THEN Answer("pg", "changed")
       ELSE IF ~pg.telemetry THEN Answer("pg", "noTelemetry")
       ELSE Answer("pg", "verified")
    /\ NoFault
    /\ UNCHANGED <<pg, Database>>

InitializeRuntimeTelemetry ==
    /\ op.cmd = "telemetry"
    /\ IF ~CheckImportReadiness
       THEN Answer("pg", "absent") /\ UNCHANGED pg
       ELSE /\ pg' = [pg EXCEPT !.telemetry = TRUE]
            /\ Answer("pg", IF told.pg = "changed" THEN "changed"
                            ELSE "telemetry")
    /\ NoFault
    /\ UNCHANGED Database

-----------------------------------------------------------------------------
(* mesh-server's startup migrations: each is one durable update, a no-op   *)
(* on a later version, and they run in this order.                         *)
Advance(c, from) == IF c.version = from THEN [c EXCEPT !.version = from + 1]
                    ELSE c

EnsureRecoveryCredentialBinding(c) ==
    IF c.admin = secret THEN c
    ELSE [c EXCEPT !.admin = secret,
                   !.version = IF @ < CredentialBinding
                               THEN CredentialBinding ELSE @]

EnsureTopologySchema(c) == Advance(c, 2)
EnsureNetworkDNSSchema(c) == Advance(c, 3)
EnsureNetworkRelaySchema(c) == Advance(c, 4)
EnsureCARotationSchema(c) == Advance(c, 5)
EnsureFirewallRolloutSchema(c) == Advance(c, 6)
EnsureFirewallPauseSchema(c) == Advance(c, 7)
EnsureRouteTransferSchema(c) == Advance(c, 8)
EnsureRouteProfileEditSchema(c) == Advance(c, 9)
EnsureRoutePolicySchema(c) == Advance(c, 10)
EnsureNativeDNSSchema(c) == Advance(c, 11)
EnsureFirewallScopeSchema(c) == Advance(c, 12)

(* The first migration of the sequence that still changes the document.    *)
NextSchema(c) ==
    CASE c.admin # secret -> EnsureRecoveryCredentialBinding(c)
      [] c.version = 2    -> EnsureTopologySchema(c)
      [] c.version = 3    -> EnsureNetworkDNSSchema(c)
      [] c.version = 4    -> EnsureNetworkRelaySchema(c)
      [] c.version = 5    -> EnsureCARotationSchema(c)
      [] c.version = 6    -> EnsureFirewallRolloutSchema(c)
      [] c.version = 7    -> EnsureFirewallPauseSchema(c)
      [] c.version = 8    -> EnsureRouteTransferSchema(c)
      [] c.version = 9    -> EnsureRouteProfileEditSchema(c)
      [] c.version = 10   -> EnsureRoutePolicySchema(c)
      [] c.version = 11   -> EnsureNativeDNSSchema(c)
      [] c.version = 12   -> EnsureFirewallScopeSchema(c)
      [] OTHER            -> c

-----------------------------------------------------------------------------
(* mesh-server.  Every store write is one durable step here: FileStore and *)
(* PostgresStore model how a write becomes durable.                        *)
Command == <<scene, op, told, secret, catalog>>

WriteDocuments(d, control, identity) ==
    /\ \/ /\ d = "old"
          /\ old' = [control |-> control, identity |-> identity]
          /\ UNCHANGED <<Disk, pg>>
       \/ /\ d = "new"
          /\ seen' = [seen EXCEPT !.control = control, !.identity = identity,
                                  !.target = TRUE, !.locks = TRUE]
          /\ stable' = [stable EXCEPT !.control = control, !.target = TRUE,
                                      !.identity = identity, !.locks = TRUE]
          /\ UNCHANGED <<old, pg>>
       \/ /\ d = "pg"
          /\ pg' = [pg EXCEPT !.control = control, !.identity = identity,
                              !.revision = @ + 1]
          /\ UNCHANGED <<old, Disk>>
    /\ cuts' = cuts \cup {<<control, identity>>}

Exit == daemon' = Down /\ UNCHANGED <<old, Disk, pg, cuts>>

(* validateRecoveryCredentialTransition.                                   *)
CheckRecoveryCredentialBinding(c) ==
    c.admin = 0 \/ c.admin = secret \/ daemon.rotate

(* openFencedControlStore: the marker is checked on both sides of          *)
(* OpenStore, under the fence.  OpenStore creates a store that is absent.  *)
AcquireStartupFence(d, rotate) ==
    /\ d \in {"old", "new"}
    /\ FenceFree
    /\ ~RefuseIncompleteRestore(d)
    /\ daemon' = [dir |-> d, pc |-> "fenced", rotate |-> rotate]
    /\ UNCHANGED <<old, Disk, pg, cuts>>

OpenControlStore ==
    /\ daemon.pc = "fenced"
    /\ IF \/ "control" \in CommandLocks(daemon.dir)
          \/ Control(daemon.dir) = Torn
          \/ RefuseIncompleteRestore(daemon.dir)
       THEN Exit
       ELSE /\ daemon' = [daemon EXCEPT !.pc = "opened"]
            /\ WriteDocuments(daemon.dir,
                 IF Control(daemon.dir) = Absent
                 THEN [ControlDocument(Unbound, 0) EXCEPT !.writes = 0]
                 ELSE Control(daemon.dir),
                 Identity(daemon.dir))
    /\ NoFault
    /\ UNCHANGED Command

(* The credential check, then identity.OpenFileStore.                      *)
OpenIdentityStore ==
    /\ daemon.pc = "opened"
    /\ IF \/ ~CheckRecoveryCredentialBinding(Control(daemon.dir))
          \/ "identity" \in CommandLocks(daemon.dir)
          \/ Identity(daemon.dir) = Torn
       THEN Exit
       ELSE /\ daemon' = [daemon EXCEPT !.pc = "bound"]
            /\ WriteDocuments(daemon.dir, Control(daemon.dir),
                 IF Identity(daemon.dir) = Absent
                 THEN [IdentityDocument EXCEPT !.writes = 0]
                 ELSE Identity(daemon.dir))
    /\ NoFault
    /\ UNCHANGED Command

(* The PostgreSQL preflight: provenance, the cryptographic validation of   *)
(* both documents, the credential check.                                   *)
ValidatePostgresStartupRecovery(rotate) ==
    ValidSnapshot(pg.control, IF rotate THEN pg.control.admin ELSE secret)

PostgresPreflight(rotate) ==
    /\ CheckImportReadiness
    /\ ValidatePostgresStartupRecovery(rotate)
    /\ daemon' = [dir |-> "pg", pc |-> "bound", rotate |-> rotate]
    /\ UNCHANGED <<old, Disk, pg, cuts>>

(* One startup migration, or the start of service once none is left.  A    *)
(* PostgreSQL server first repeats its validation and needs the telemetry  *)
(* document.                                                               *)
EnsureSchemas ==
    /\ daemon.pc = "bound"
    /\ LET c == Control(daemon.dir) IN
       IF NextSchema(c) # c
       THEN /\ WriteDocuments(daemon.dir, NextSchema(c),
                              Identity(daemon.dir))
            /\ UNCHANGED daemon
       ELSE IF daemon.dir = "pg" /\ ~(/\ CheckImportReadiness
                                      /\ ValidatePostgresStartupRecovery(FALSE)
                                      /\ pg.telemetry)
       THEN Exit
       ELSE /\ daemon' = [daemon EXCEPT !.pc = "serving"]
            /\ UNCHANGED <<old, Disk, pg, cuts>>
    /\ NoFault
    /\ UNCHANGED Command

(* A request the server serves changes one of the two stores.              *)
ServeUpdate ==
    /\ daemon.pc = "serving"
    /\ LET c == Control(daemon.dir)
           i == Identity(daemon.dir)
       IN \/ /\ c.writes < MaxWrites
             /\ \E routed \in {c.routed, scene.routed} :
                  WriteDocuments(daemon.dir,
                    [c EXCEPT !.writes = @ + 1, !.routed = routed], i)
          \/ /\ i.writes < MaxWrites
             /\ WriteDocuments(daemon.dir, c, [i EXCEPT !.writes = @ + 1])
    /\ NoFault
    /\ UNCHANGED <<Command, daemon>>

-----------------------------------------------------------------------------
(* Faults.                                                                 *)
Interrupted ==
    CASE op.cmd \in {"import", "check", "telemetry"} ->
            [told EXCEPT !.pg = "verifyImport"]
      [] op.cmd = "migrate" -> [told EXCEPT !.pg = "migrateAgain"]
      [] op.cmd \in {"none", "grant"} -> told
      [] OTHER -> [told EXCEPT !.files = "failed"]

(* What a kill inside a create-only write may leave of the file.           *)
TornWrites ==
    CASE op.pc = "publish" -> {Put("temps", seen.temps \cup {Torn})}
      [] op.pc = "marker" /\ op.cmd = "restore" -> {Put("marker", Torn)}
      [] op.pc = "write"   -> {Put(Restored[op.k], Torn)}
      [] OTHER -> {}

KillCommand ==
    /\ op.cmd # "none"
    /\ Fault
    /\ seen' \in {seen} \cup TornWrites
    /\ op' = NoCommand
    /\ told' = Interrupted
    /\ UNCHANGED <<stable, pg, catalog, Elsewhere>>

KillDaemon ==
    /\ daemon.pc # "down"
    /\ Fault
    /\ Exit
    /\ UNCHANGED Command

LosePower ==
    /\ Fault
    /\ \E keep \in SUBSET {e \in Entries : seen[e] # stable[e]} :
         seen' = [e \in Entries |-> IF e \in keep THEN seen[e] ELSE stable[e]]
    /\ stable' = seen'
    /\ op' = NoCommand
    /\ told' = Interrupted
    /\ daemon' = Down
    /\ UNCHANGED <<scene, old, pg, secret, catalog, cuts>>

-----------------------------------------------------------------------------
(* The operator follows the documented procedures, and off them while the  *)
(* budget lasts.  Wanted is where the server should be running.            *)
Wanted ==
    IF catalog = Absent
    THEN IF old.control.admin # secret THEN "old" ELSE "none"
    ELSE IF scene.goal = "restore" THEN "new"
    ELSE IF told.pg = "importRefused" /\ pg.granted THEN "old" ELSE "pg"

Ready(d) ==
    CASE d = "old"  -> TRUE
      [] d = "new"  -> seen.target /\ seen.marker = Absent
      [] d = "pg"   -> \/ told.pg \in {"imported", "verified"}
                       \/ told.pg = "changed" /\ pg.telemetry
      [] d = "none" -> FALSE

Cutover == scene.goal = "cutover" /\ catalog # Absent

Planned(c) ==
    CASE c = "create" ->
            /\ catalog = Absent /\ seen.final = Absent
            /\ daemon.pc = "down" /\ Wanted = "none"
      [] c = "verify" ->
            /\ catalog = Absent /\ seen.final # Absent
            /\ told.files # "refused"
      [] c = "discardArchive" ->
            /\ catalog = Absent /\ seen.final # Absent
            /\ told.files = "refused"
      [] c = "restore" ->
            /\ scene.goal = "restore" /\ catalog # Absent
            /\ ~seen.target /\ seen.marker = Absent
            /\ daemon.pc = "down"
      [] c = "finalize" ->
            seen.marker # Absent /\ told.files # "cannotFinalize"
      [] c = "discard" ->
            /\ seen.marker # Absent /\ told.files = "cannotFinalize"
            /\ daemon.pc = "down"
      [] c = "migrate" ->
            Cutover /\ (~pg.migrated \/ told.pg = "migrateAgain")
      [] c = "grant" -> Cutover /\ pg.migrated /\ ~pg.granted
      [] c = "import" ->
            /\ Cutover /\ pg.granted
            /\ told.pg \in {"migrated", "granted", "absent"}
      [] c = "check" ->
            Cutover /\ pg.granted /\ told.pg \in {"verifyImport", "telemetry"}
      [] c = "telemetry" ->
            /\ Cutover
            /\ \/ told.pg = "noTelemetry"
               \/ told.pg = "changed" /\ ~pg.telemetry
      [] c = "createNew" -> FALSE

Commands ==
    {"create", "createNew", "verify", "discardArchive", "restore",
     "finalize", "discard", "migrate", "grant", "import", "check",
     "telemetry"}

Issue(c) ==
    /\ op.cmd = "none"
    /\ op' = [NoCommand EXCEPT !.cmd = c, !.pc = "begin"]
    /\ UNCHANGED <<old, Disk, pg, told, daemon, secret, catalog, cuts, scene>>

Start(d) ==
    /\ daemon.pc = "down"
    /\ LET rotate == /\ Control(d) \notin {Absent, Torn}
                     /\ Control(d).admin # secret
       IN
       IF d = "pg" THEN PostgresPreflight(rotate)
       ELSE AcquireStartupFence(d, rotate)
    /\ UNCHANGED Command

Stop ==
    /\ daemon.pc = "serving"
    /\ Exit
    /\ UNCHANGED Command

(* A step of the plan: a command, or the server started or stopped.        *)
Plan ==
    /\ op.cmd = "none"
    /\ \/ \E c \in Commands : Planned(c) /\ Issue(c)
       \/ \E d \in {"old", "new", "pg"} :
             d = Wanted /\ Ready(d) /\ daemon.pc = "down" /\ Start(d)
       \/ daemon.pc = "serving" /\ daemon.dir # Wanted /\ Stop
    /\ NoFault

(* The supervisor restarts a server that is where it should be.            *)
Restart == daemon.pc = "serving" /\ daemon.dir = Wanted /\ Stop /\ NoFault

(* Off the plan: any command, and a server started at any moment over a    *)
(* directory a restore has touched or the old one.                         *)
Slip ==
    /\ Fault
    /\ \/ \E c \in scene.slips \cap Commands : ~Planned(c) /\ Issue(c)
       \/ \E d \in scene.slips \cap {"old", "new", "pg"} :
            /\ d = "new" => seen.target \/ seen.marker # Absent
            /\ Start(d)

(* The administrator token is replaced in the service's configuration.     *)
RotateSecret ==
    /\ Fault
    /\ secret = 1 /\ daemon.pc = "down" /\ op.cmd = "none"
    /\ secret' = 2
    /\ UNCHANGED <<scene, old, Disk, pg, op, told, daemon, catalog, cuts>>

-----------------------------------------------------------------------------
(* A deployment whose server last ran at some version and is down or, at   *)
(* the current version, serving.                                           *)
InitScene(scenes) ==
    /\ scene \in scenes
    /\ \E v \in scene.versions :
         old = [control  |-> ControlDocument(v, IF v = Unbound THEN 0 ELSE 1),
                identity |-> IdentityDocument]
    /\ seen = Empty
    /\ stable = Empty
    /\ pg = NoDatabase
    /\ op = NoCommand
    /\ told = [files |-> "none", pg |-> "none"]
    /\ daemon \in {Down} \cup
          (IF old.control.version = FirewallScopes
           THEN {[Down EXCEPT !.pc = "serving"]} ELSE {})
    /\ secret = 1
    /\ catalog = Absent
    /\ cuts = {<<old.control, old.identity>>}
    /\ budget = scene.budget

CreateSteps ==
    \/ AcquireControlLock \/ AcquireIdentityLock \/ CaptureSources
    \/ WriteTemporary \/ LinkArchive \/ SyncLink \/ UnlinkTemporary
    \/ SyncUnlink

RestoreSteps ==
    \/ OpenArchive \/ FenceTarget \/ WriteMarker \/ SyncParent \/ MakeTarget
    \/ WriteFile \/ FenceFinalization \/ ValidateTarget \/ DropMarker
    \/ SyncMarkerRemoval

StorageSteps ==
    \/ Migrate \/ Grant \/ OpenValidatedImportArchive \/ Import
    \/ RereadImport \/ EnsureRuntimeTelemetryState \/ ConfirmImport
    \/ VerifyFirstRead \/ VerifySecondRead \/ InitializeRuntimeTelemetry

CommandStep ==
    \/ CreateSteps
    \/ RepairInterruptedPublication \/ SyncRepair \/ VerifyArchive
    \/ RestoreSteps
    \/ Discard \/ DiscardArchive
    \/ StorageSteps

DaemonStep == OpenControlStore \/ OpenIdentityStore \/ EnsureSchemas

Next ==
    \/ CommandStep
    \/ DaemonStep
    \/ ServeUpdate
    \/ Plan \/ Restart
    \/ Slip \/ RotateSecret
    \/ KillCommand \/ KillDaemon \/ LosePower

(* A command and a starting server run on, and the operator follows the    *)
(* plan.                                                                   *)
Fairness ==
    /\ WF_vars(CommandStep)
    /\ WF_vars(DaemonStep)
    /\ WF_vars(Plan)

-----------------------------------------------------------------------------
(* Commands hold what they need, directories hold what may be in them.     *)
TypeOK ==
    /\ old.control.version \in Unbound .. FirewallScopes
    /\ old.control.writes \in 0 .. MaxWrites
    /\ DOMAIN seen = Entries /\ DOMAIN stable = Entries
    /\ seen.target \in BOOLEAN /\ seen.locks \in BOOLEAN
    /\ op.cmd \in Commands \cup {"none"}
    /\ op.k \in 1 .. Len(Restored) /\ op.locks \subseteq {"control", "identity"}
    /\ daemon.dir \in {"old", "new", "pg"}
    /\ daemon.pc \in {"down", "fenced", "opened", "bound", "serving"}
    /\ secret \in 1 .. 2 /\ budget \in Nat

Whole(d) ==
    /\ d.target
    /\ \A f \in Files : d[f] \notin {Absent, Torn}

(* A restore target that is not whole is fenced by its marker, on disk and *)
(* after any power loss (Restore, FinalizeRestore).                        *)
FencedUntilWhole ==
    /\ seen.target /\ ~Whole(seen) => seen.marker # Absent
    /\ stable.target /\ ~Whole(stable) => stable.marker # Absent

(* A server over the restored directory holds everything the recorded      *)
(* archive held (openFencedControlStore).                                  *)
ServesWhatWasSaved ==
    daemon.dir = "new" /\ daemon.pc \in {"opened", "bound", "serving"} =>
       /\ Control("new").writes >= seen.receipt.control.writes
       /\ Control("new").version >= seen.receipt.control.version
       /\ Identity("new").writes >= seen.receipt.identity.writes
       /\ seen.receipt = catalog

(* A recorded archive is durable under its final name and holds two        *)
(* documents that existed together (Create, Verify).                       *)
RecordedIsDurable ==
    catalog # Absent =>
       /\ stable.final = catalog
       /\ <<catalog.control, catalog.identity>> \in cuts

(* Database documents at their imported revision are the archive's, and    *)
(* the answers "imported" and "verified" are only given of a complete      *)
(* import, "absent" only of none (mesh-storage).                           *)
DatabaseHoldsArchive ==
    /\ pg.control # Absent => pg.provenance = catalog
    /\ pg.revision = 1 => ValidateExactDocuments(pg.provenance)
    /\ told.pg \in {"imported", "verified"} =>
          CheckImportReadiness /\ pg.telemetry
    /\ told.pg = "absent" /\ op.cmd = "none" =>
          pg.provenance = Absent

(* A server only serves the current schema, bound to its own credential    *)
(* (the startup sequence of mesh-server).                                  *)
ServesCurrentSchema ==
    daemon.pc = "serving" =>
       /\ Control(daemon.dir).version = FirewallScopes
       /\ Control(daemon.dir).admin = secret

(* Nothing incomplete, stale or lost is ever served or recorded as a       *)
(* recovery point, whatever is killed, torn, unsynced or run out of turn:  *)
(* FencedUntilWhole, ServesWhatWasSaved, RecordedIsDurable,                *)
(* DatabaseHoldsArchive and ServesCurrentSchema together.                  *)
Safe ==
    /\ TypeOK
    /\ FencedUntilWhole /\ ServesWhatWasSaved /\ RecordedIsDurable
    /\ DatabaseHoldsArchive /\ ServesCurrentSchema

(* What keeps a recovery from ending: a state snapshot validation refuses, *)
(* and an archive whose version the database refuses.                      *)
Excepted ==
    \/ old.control.routed
    \/ /\ scene.goal = "cutover"
       /\ catalog # Absent
       /\ ~ProvenanceConstraint(catalog)

(* The server the operator wants runs, or the case is Excepted.            *)
Restarted ==
    \/ Excepted
    \/ /\ daemon.pc = "serving"
       /\ daemon.dir = IF scene.goal = "restore" THEN "new" ELSE "pg"

(* Whatever is interrupted, the operator who keeps to the documented       *)
(* procedure ends with a server over the restored directory, or over the   *)
(* imported database, unless the case is Excepted: no sequence of kills,   *)
(* torn files and repeated commands of mesh-backup and mesh-storage is a   *)
(* dead end.                                                               *)
Recovers == []<>Restarted
=============================================================================
