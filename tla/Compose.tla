------------------------------ MODULE Compose ------------------------------
(***************************************************************************)
(* The docker setup mode: the project directory, the stack it describes    *)
(* and the staged start of both.                                           *)
(*                                                                         *)
(*   internal/infra/install/compose/   WriteProject, StartDatabase,        *)
(*                                     BootstrapAdmin, StartRegistry,      *)
(*                                     WaitReachable, SaveProvenance, Down *)
(*   cmd/regixtry/main.go              runSetup, the docker mode           *)
(*                                                                         *)
(* Docker, the postgres image and its log are external.  Every call may    *)
(* fail and the command may die between two of them.                       *)
(***************************************************************************)
EXTENDS Naturals

CONSTANTS
    MaxSetups,        \* bound on setups
    MaxComposeFaults  \* bound on failing calls and dying commands

VARIABLES
    project,      \* the project directory
    stack,        \* containers and volumes
    external,     \* the admin of an external identity database
    deploy,       \* the setup in flight
    deployed,     \* how the last setup ended
    setups,       \* setups so far; each one makes a password of its own
    deployFaults, \* faults so far
    (* What happened, for the properties only. *)
    downFailed    \* a docker compose down failed, or the setup died

composeVars == <<project, stack, external, deploy, deployed, setups, deployFaults, downFailed>>

\* Every setup makes a password nobody had before; 0 is none.
generateBundledPassword == setups + 1
NoProject == [dir |-> FALSE, compose |-> FALSE, env |-> 0, provenance |-> FALSE]

\* phase of the postgres container: a fresh volume is initialised by a
\* temporary server before the final one starts; readyLines and initLine are
\* what its log shows; volume is the password it was initialised with.
NoStack == [phase |-> "absent", readyLines |-> 0, initLine |-> FALSE, volume |-> 0,
            admin |-> FALSE, registry |-> FALSE]
NoDeploy == [pc |-> "idle", bundled |-> FALSE, password |-> 0, bad |-> FALSE]

ComposeInit ==
    /\ project = NoProject /\ stack = NoStack
    /\ external \in {"none", "same", "other"}
    /\ deploy = NoDeploy /\ deployed = "nothing"
    /\ setups = 0 /\ deployFaults = 0
    /\ downFailed = FALSE

GoTo(pc) == deploy' = [deploy EXCEPT !.pc = pc] /\ deployed' = deployed
Finish(word) == deploy' = NoDeploy /\ deployed' = word
MayFail == deployFaults < MaxComposeFaults /\ deployFaults' = deployFaults + 1
NoFailure == deployFaults' = deployFaults

\* rollbackDockerSetupFailure
RollBack == GoTo("down")

-----------------------------------------------------------------------------
(***************************************************************************)
(* runSetup.  Preflight, which leaves everything alone when it fails, and  *)
(* the refusal of a directory that is there; then the files, whose errors  *)
(* end the setup with the directory in place.                              *)
(***************************************************************************)
BeginDeploy(bundled) ==
    /\ deploy = NoDeploy /\ setups < MaxSetups /\ ~project.dir
    /\ setups' = setups + 1
    /\ deploy' = [NoDeploy EXCEPT !.pc = "files", !.bundled = bundled, !.password = generateBundledPassword]
    /\ deployed' = "nothing"
    /\ UNCHANGED <<project, stack, external, deployFaults, downFailed>>

WriteProject ==
    /\ deploy.pc = "files"
    /\ \/ /\ project' = [dir |-> TRUE, compose |-> TRUE, env |-> deploy.password,
                         provenance |-> FALSE]
          /\ GoTo("database") /\ NoFailure
       \/ /\ project' \in {project, [NoProject EXCEPT !.dir = TRUE],
                           [NoProject EXCEPT !.dir = TRUE, !.compose = TRUE]}
          /\ Finish("failed") /\ MayFail
    /\ UNCHANGED <<stack, external, setups, downFailed>>

\* up -d postgres: another password in the environment file makes another
\* container, on the volume that is there.
StartDatabase ==
    /\ deploy.pc = "database"
    /\ \/ ~deploy.bundled /\ GoTo("admin") /\ NoFailure /\ stack' = stack
       \/ /\ deploy.bundled /\ GoTo("poll") /\ NoFailure
          /\ stack' = IF stack.volume # 0
                      THEN [stack EXCEPT !.phase = "starting", !.readyLines = 0,
                                         !.initLine = FALSE]
                      ELSE [stack EXCEPT !.phase = "initdb", !.volume = deploy.password]
       \/ deploy.bundled /\ RollBack /\ MayFail /\ stack' = stack
    /\ UNCHANGED <<project, external, setups, downFailed>>

\* The postgres image.
TemporaryServer ==
    /\ stack.phase = "initdb"
    /\ stack' = [stack EXCEPT !.phase = "temporary", !.readyLines = 1]
    /\ UNCHANGED <<project, external, deploy, deployed, setups, deployFaults, downFailed>>

InitComplete ==
    /\ stack.phase = "temporary"
    /\ stack' = [stack EXCEPT !.phase = "starting", !.initLine = TRUE]
    /\ UNCHANGED <<project, external, deploy, deployed, setups, deployFaults, downFailed>>

FinalServer ==
    /\ stack.phase = "starting"
    /\ stack' = [stack EXCEPT !.phase = "final", !.readyLines = @ + 1]
    /\ UNCHANGED <<project, external, deploy, deployed, setups, deployFaults, downFailed>>

\* One ready line will do until the log shows that the volume was fresh: the
\* temporary server is taken for the final one, and the admin's container fails.
postgresLogIndicatesReady(s) == s.readyLines >= IF s.initLine THEN 2 ELSE 1

\* waitPostgresReady, which gives up after some attempts.
WaitPostgresReady ==
    /\ deploy.pc = "poll"
    /\ \/ postgresLogIndicatesReady(stack) /\ GoTo("admin") /\ NoFailure
       \/ ~postgresLogIndicatesReady(stack) /\ RollBack /\ MayFail
    /\ UNCHANGED <<project, stack, external, setups, downFailed>>

\* The container connects with the password of the environment file; an admin
\* of another name is a conflict, one of this name is kept as it is.
CanBootstrap ==
    IF deploy.bundled THEN stack.phase = "final" /\ stack.volume = project.env
    ELSE external # "other"

BootstrapAdmin_Ignored ==  \* mutant: the error of the one-shot container is dropped
    /\ deploy.pc = "admin" /\ GoTo("registry") /\ NoFailure
    /\ stack' = [stack EXCEPT !.admin = @ \/ (deploy.bundled /\ CanBootstrap)]
    /\ external' = IF CanBootstrap /\ ~deploy.bundled THEN "same" ELSE external
    /\ UNCHANGED <<project, setups, downFailed>>

BootstrapAdmin ==
    /\ deploy.pc = "admin"
    /\ \/ /\ CanBootstrap /\ GoTo("registry") /\ NoFailure
          /\ IF deploy.bundled
             THEN stack' = [stack EXCEPT !.admin = TRUE] /\ external' = external
             ELSE external' = "same" /\ stack' = stack
       \/ ~CanBootstrap /\ RollBack /\ NoFailure /\ UNCHANGED <<stack, external>>
       \/ RollBack /\ MayFail /\ UNCHANGED <<stack, external>>
    /\ UNCHANGED <<project, setups, downFailed>>

StartRegistry ==
    /\ deploy.pc = "registry"
    /\ \/ stack' = [stack EXCEPT !.registry = TRUE] /\ GoTo("reach") /\ NoFailure
       \/ stack' = stack /\ RollBack /\ MayFail
    /\ UNCHANGED <<project, external, setups, downFailed>>

WaitRegistry ==
    /\ deploy.pc = "reach"
    /\ \/ GoTo("save") /\ NoFailure
       \/ RollBack /\ MayFail
    /\ UNCHANGED <<project, stack, external, setups, downFailed>>

SaveProvenance ==
    /\ deploy.pc = "save"
    /\ \/ project' = [project EXCEPT !.provenance = TRUE] /\ Finish("done") /\ NoFailure
       \/ project' = project /\ RollBack /\ MayFail
    /\ UNCHANGED <<stack, external, setups, downFailed>>

-----------------------------------------------------------------------------
(***************************************************************************)
(* Down: docker compose down --volumes, then the directory, whatever the   *)
(* first one gave.  Without its file docker compose does nothing.          *)
(***************************************************************************)
ComposeDown_NoFile ==  \* mutant: the directory is removed first
    /\ deploy.pc = "down"
    /\ project' = NoProject /\ stack' = stack
    /\ GoTo("files gone") /\ NoFailure
    /\ UNCHANGED <<external, setups, downFailed>>

ComposeDown ==
    /\ deploy.pc = "down"
    /\ \/ stack' = NoStack /\ GoTo("files gone") /\ NoFailure /\ downFailed' = downFailed
       \/ /\ stack' = stack /\ MayFail /\ downFailed' = TRUE
          /\ deploy' = [deploy EXCEPT !.pc = "files gone", !.bad = TRUE] /\ deployed' = deployed
    /\ UNCHANGED <<project, external, setups>>

RemoveProject_Skipped ==  \* mutant: a rollback leaves the directory
    /\ deploy.pc = "files gone"
    /\ project' = project /\ NoFailure
    /\ Finish(IF deploy.bad THEN "not rolled back" ELSE "rolled back")
    /\ UNCHANGED <<stack, external, setups, downFailed>>

RemoveProject ==
    /\ deploy.pc = "files gone"
    /\ \/ /\ project' = NoProject /\ NoFailure
          /\ Finish(IF deploy.bad THEN "not rolled back" ELSE "rolled back")
       \/ project' = project /\ MayFail /\ Finish("not rolled back")
    /\ UNCHANGED <<stack, external, setups, downFailed>>

DeployDies ==
    /\ deploy # NoDeploy /\ MayFail /\ Finish("cut")
    /\ downFailed' = TRUE
    /\ UNCHANGED <<project, stack, external, setups>>

\* An operator who follows the message removes the directory by hand.
RemoveByHand ==
    /\ deploy = NoDeploy /\ project.dir /\ deployed # "done"
    /\ project' = NoProject
    /\ UNCHANGED <<stack, external, deploy, deployed, setups, deployFaults, downFailed>>

ComposeNext ==
    \/ \E bundled \in BOOLEAN : BeginDeploy(bundled)
    \/ WriteProject \/ StartDatabase \/ TemporaryServer \/ InitComplete \/ FinalServer
    \/ WaitPostgresReady \/ BootstrapAdmin \/ StartRegistry \/ WaitRegistry \/ SaveProvenance
    \/ ComposeDown \/ RemoveProject \/ DeployDies \/ RemoveByHand

ComposeSpec == ComposeInit /\ [][ComposeNext]_composeVars

-----------------------------------------------------------------------------
(***************************************************************************)
(* Properties.                                                             *)
(***************************************************************************)
Ends(word) == deployed # deployed' /\ deployed' = word

(* runSetup: a docker setup that claims success left a registry that runs  *)
(* on an identity database with an admin, one that it can log in to: the   *)
(* password of the environment file is the one the volume was made with,   *)
(* whatever stacks earlier setups left behind.                             *)
DeployedWorks ==
    Ends("done") =>
        /\ stack'.registry /\ project'.dir /\ project'.provenance
        /\ IF deploy.bundled THEN stack'.admin /\ stack'.volume = project'.env
           ELSE external' = "same"

(* rollbackDockerSetupFailure: a setup that fails and reports no error of  *)
(* its rollback left no directory, container or volume.                    *)
RolledBackClean ==
    Ends("rolled back") => project' = NoProject /\ stack' = NoStack

(* Down: a stack without the directory that manages it is there only after *)
(* a docker compose down that failed or a setup that died.                 *)
OrphansExplained ==
    stack # NoStack /\ ~project.dir => downFailed

(* What a docker setup says at its end is so, and what it leaves without   *)
(* saying so has a cause.                                                  *)
DockerReportsAreTrue == [][DeployedWorks /\ RolledBackClean /\ OrphansExplained']_composeVars
=============================================================================
