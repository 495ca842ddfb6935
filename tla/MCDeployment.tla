---------------------------- MODULE MCDeployment ----------------------------
(***************************************************************************)
(* Installer, Compose and FeatureRuntime for TLC, in one run.  They share  *)
(* no state: a behaviour is one of one of them, side says which, and the   *)
(* others stay in one of their initial states.                             *)
(***************************************************************************)
EXTENDS Installer, Compose, FeatureRuntime, TLC

VARIABLE side

deploymentVars == <<installVars, composeVars, vars, side>>

DeploymentInit ==
    /\ side \in {"installer", "compose", "runtime"}
    /\ InstallInit /\ ComposeInit /\ Init
    /\ side # "installer" => disk = EmptyHost(CHOOSE r \in Release : TRUE)
    /\ side # "compose" => external = "none"

\* Every side but s stays.
Others(s) ==
    /\ UNCHANGED side
    /\ s # "installer" => UNCHANGED installVars
    /\ s # "compose" => UNCHANGED composeVars
    /\ s # "runtime" => UNCHANGED vars

\* Two faults hit a first command, a second one has to do with one, and a third
\* one runs where nothing failed: it meets what two commands and a hand left.
FewerFaultsLater == commands + faults <= MaxCommands

DeploymentNext ==
    \/ side = "installer" /\ InstallNext /\ FewerFaultsLater' /\ Others("installer")
    \/ side = "compose" /\ ComposeNext /\ Others("compose")
    \/ side = "runtime" /\ Next /\ Others("runtime")

DeploymentSpec == DeploymentInit /\ [][DeploymentNext]_deploymentVars

Symmetry == Permutations(Op) \cup Permutations(Version)
=============================================================================
