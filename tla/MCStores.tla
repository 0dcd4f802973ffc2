------------------------------ MODULE MCStores ------------------------------
(***************************************************************************)
(* Both implementations of StateStore under the same requests.  A          *)
(* deployment is configured for one of them: the subject, chosen at the    *)
(* start, is the one that runs.                                            *)
(***************************************************************************)
EXTENDS FileStore, Naturals

VARIABLES subject, row, receipts, rowLock, server, client, base, gate,
          replicaOf, replicaCall

Postgres == INSTANCE PostgresStore WITH
    Replicas <- Processes, at <- replicaOf, call <- replicaCall

database == <<row, receipts, rowLock, server, client, base, gate, replicaOf,
              replicaCall>>

allVars == <<vars, database, subject>>

InitStores ==
    /\ subject \in {"file", "postgres"}
    /\ Init
    /\ Postgres!Init

NextStores ==
    \/ /\ subject = "file"
       /\ Next
       /\ UNCHANGED <<database, subject>>
    \/ /\ subject = "postgres"
       /\ Postgres!Next
       /\ UNCHANGED <<vars, subject>>

StoresSpec ==
    /\ InitStores
    /\ [][NextStores]_allVars
    /\ Fairness
    /\ Postgres!Fairness

-----------------------------------------------------------------------------
(* What the stores keep true of themselves: a file store's memory and disk *)
(* agree whenever it may answer (FileStore!MemoryMatches), and a receipt   *)
(* of the database proves exactly one commit                               *)
(* (PostgresStore!ReceiptsBindRevisions).                                  *)
StoresConsistent ==
    /\ TypeOK /\ MemoryMatches
    /\ Postgres!TypeOK /\ Postgres!ReceiptsBindRevisions

(* Both stores keep the StateStore contract: neither processes over one    *)
(* directory nor replicas over one database lose, repeat or misreport an   *)
(* update (FileStore!ImplementsStateStore,                                 *)
(* PostgresStore!ImplementsStateStore).                                    *)
StoresImplement == ImplementsStateStore /\ Postgres!ImplementsStateStore

(* Every request either store accepts is answered: a closed store, a       *)
(* failed sync, an unreachable database or a lost answer ends in an error, *)
(* never in a wait without end.                                            *)
CallsAnswered == EveryCallAnswered /\ Postgres!EveryCallAnswered
=============================================================================
