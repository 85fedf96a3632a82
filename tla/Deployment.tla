----------------------------- MODULE Deployment -----------------------------
(***************************************************************************)
(* The life of the api container: the migrations, then main.lifespan, which *)
(* connects, seeds, starts the two background tasks, serves, and on a stop *)
(* cancels and awaits them and disconnects.  Docker starts the container    *)
(* again whenever its process has ended.                                   *)
(***************************************************************************)
EXTENDS Catalogue

VARIABLES
    connected,  \* lifespan has connected and not disconnected
    purge,      \* the task of purge_loop
    worker      \* the task of notification_worker

lifespan == <<connected, purge, worker>>
vars == <<pc, migration, catalogue, lifespan>>

Stages ==
    {"down", "upgrade", "downgrade", "connect", "count", "seed", "tasks", "serve",
     "await purge", "await worker", "disconnect"}

Tasks == {"none", "starting", "running", "cancelling", "failed", "ended"}

TypeOK ==
    /\ pc \in Stages
    /\ MigrationTypeOK
    /\ CatalogueTypeOK
    /\ connected \in BOOLEAN
    /\ purge \in Tasks /\ worker \in Tasks

Init ==
    /\ MigrationInit /\ CatalogueInit
    /\ connected = FALSE /\ purge = "none" /\ worker = "none"

Alive(task) == task \in {"starting", "running", "cancelling"}

Cancelled(task) == IF Alive(task) THEN "cancelling" ELSE task

\* Mutants: the forms a plausible slip would give the definitions below.

PurgeCancelRaises ==
    /\ pc = "await purge" /\ purge = "cancelling"
    /\ purge' = "ended"
    /\ End /\ EndCatalogue
    /\ UNCHANGED <<connected, worker>>

PurgeCatchesCancel ==
    /\ pc = "await purge" /\ purge = "cancelling"
    /\ UNCHANGED vars

-----------------------------------------------------------------------------
(* `await database.connect()`                                               *)
Connect ==
    /\ pc = "connect"
    /\ pc' = "count"
    /\ connected' = TRUE
    /\ UNCHANGED <<migration, catalogue, purge, worker>>

StartTasks ==
    /\ pc = "tasks"
    /\ pc' = "serve"
    /\ purge' = "running" /\ worker' = "starting"
    /\ UNCHANGED <<migration, catalogue, connected>>

(* The worker creates its consumer group, without which it ends by an       *)
(* exception that nobody looks at before the stop.                          *)
GroupIsReady ==
    /\ worker = "starting"
    /\ worker' = "running"
    /\ UNCHANGED <<pc, migration, catalogue, connected, purge>>

GroupFails ==
    /\ worker = "starting"
    /\ worker' = "failed"
    /\ UNCHANGED <<pc, migration, catalogue, connected, purge>>

(* SIGTERM: uvicorn ends the requests, then lifespan cancels both tasks ... *)
Stop ==
    /\ pc = "serve"
    /\ pc' = "await purge"
    /\ purge' = Cancelled(purge) /\ worker' = Cancelled(worker)
    /\ EndCatalogue
    /\ UNCHANGED <<migration, connected>>

(* ... awaits the one, which the event loop cancels at its sleep or query,  *)
AwaitPurge ==
    /\ pc = "await purge" /\ purge = "cancelling"
    /\ purge' = "ended"
    /\ pc' = "await worker"
    /\ UNCHANGED <<migration, catalogue, connected, worker>>

(* ... and the other: its exception, if it failed, leaves lifespan at once, *)
AwaitWorker ==
    /\ pc = "await worker" /\ worker = "ended"
    /\ pc' = "disconnect"
    /\ UNCHANGED <<migration, catalogue, lifespan>>

AwaitRaises ==
    /\ pc = "await worker" /\ worker = "failed"
    /\ End /\ EndCatalogue
    /\ UNCHANGED lifespan

WorkerEnds ==
    /\ worker = "cancelling"
    /\ worker' = "ended"
    /\ UNCHANGED <<pc, migration, catalogue, connected, purge>>

(* ... and disconnects.                                                     *)
Disconnect ==
    /\ pc = "disconnect"
    /\ connected' = FALSE
    /\ End /\ EndCatalogue
    /\ UNCHANGED <<purge, worker>>

(* A kill, a power cut, or an exception of a start: of connect or the seed. *)
Die ==
    /\ pc # "down"
    /\ connected' = FALSE /\ purge' = "none" /\ worker' = "none"
    /\ End /\ EndCatalogue

Lifespan ==
    \/ Connect \/ StartTasks \/ AwaitPurge \/ AwaitWorker \/ AwaitRaises \/ Disconnect

Start ==
    /\ StartUpgrade
    /\ connected' = FALSE /\ purge' = "none" /\ worker' = "none"
    /\ UNCHANGED catalogue

Advance ==
    \/ (StatementRaises \/ RunStatement \/ CommitRevision \/ Migrated)
        /\ UNCHANGED <<catalogue, lifespan>>
    \/ (SeedCount \/ SeedRow \/ Seeded) /\ UNCHANGED lifespan
    \/ Lifespan

Next ==
    \/ Start
    \/ StartDowngrade /\ UNCHANGED <<catalogue, lifespan>>
    \/ Advance
    \/ ReadMenu /\ UNCHANGED lifespan
    \/ GroupIsReady \/ GroupFails \/ WorkerEnds
    \/ Stop \/ Die

Spec == Init /\ [][Next]_vars

(* A process goes on, the event loop delivers a cancellation, and Docker    *)
(* starts what has ended; nothing says that it stops, dies or is downgraded. *)
FairSpec ==
    /\ Spec
    /\ WF_vars(Advance) /\ WF_vars(WorkerEnds) /\ WF_vars(Start)

-----------------------------------------------------------------------------
(* The server runs on the tables its models declare, and on no others: an   *)
(* upgrade that was cut off never lets it start, at whatever statement; only *)
(* a downgrade that was cut off can.                                        *)
ServesModels ==
    pc \in {"count", "seed", "tasks", "serve"} /\ cut # "down" =>
        db.version = HeadRevision /\ Schema(db.tables) = Models

(* A stop ends with the connections closed, unless the worker had failed:   *)
(* then its exception skips both disconnects.                               *)
StopDisconnects == pc = "down" /\ connected => worker = "failed"

(* A start is served or ends, and so does a stop: lifespan waits for        *)
(* nothing that the tasks do not do.                                        *)
Settles == pc # "down" ~> pc \in {"down", "serve"}
=============================================================================
