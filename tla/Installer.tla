----------------------------- MODULE Installer -----------------------------
(***************************************************************************)
(* The systemd installation: setup, upgrade, rollback and uninstall.       *)
(*                                                                         *)
(*   internal/infra/install/linux/   bootstrap.go, upgrade.go,             *)
(*                                   provenance.go, intent.go, templates.go*)
(*   internal/infra/install/releases/github.go                             *)
(*   cmd/regixtry/main.go            runSetup, runUpgrade, runUninstall    *)
(*                                                                         *)
(* A command is the list of steps it still has to take.  Every call on the *)
(* host may fail, os.WriteFile with the file half written; the process may *)
(* die and the host reboot between any two steps.  An installation has one *)
(* set of paths.  Data is two files: the database and the blob directory.  *)
(* The global admin that runSetup makes in PostgreSQL before it begins,    *)
(* which no failure undoes, is left out: Compose has that step.            *)
(***************************************************************************)
EXTENDS Naturals, Sequences

CONSTANTS
    Release,    \* releases of regixtry
    Absent,     \* nothing there
    Torn,       \* a file cut off while it was written
    MaxCommands, \* bound on commands
    MaxFaults   \* bound on failing calls, dying commands and reboots

VARIABLES
    disk,       \* what is at the paths of the installation
    service,    \* the unit of systemd: enabled, the release running, with TLS or not
    cmd,        \* the command in flight
    said,       \* how the last command ended
    commands,   \* commands so far
    faults      \* faults so far

installVars == <<disk, service, cmd, said, commands, faults>>

-----------------------------------------------------------------------------
(***************************************************************************)
(* Settings.  "" is a value that is not there.  The public URL counts by   *)
(* its scheme, which stands for the settings that are strings; certificate *)
(* and key by their presence; del is the switch of the delete routes.  The *)
(* bind address, on the loopback or public, matters to setup alone.        *)
(***************************************************************************)
Scheme == {"http", "https"}
TLSMode == {"local-http", "reverse-proxy", "direct-tls"}

\* The modes a URL and a certificate allow.
Fits(mode, scheme, cert) ==
    CASE mode = "local-http"    -> scheme = "http" /\ ~cert
      [] mode = "reverse-proxy" -> scheme = "https" /\ ~cert
      [] mode = "direct-tls"    -> scheme = "https" /\ cert

DefaultTLSMode(scheme, cert) ==
    CASE cert -> "direct-tls"
      [] ~cert /\ scheme = "https" -> "reverse-proxy"
      [] OTHER -> "local-http"

\* "" is the error of ResolveRuntimeTLSMode.
ResolveRuntimeTLSMode(mode, scheme, cert, key) ==
    LET resolved == IF mode = "" THEN DefaultTLSMode(scheme, cert) ELSE mode
    IN  IF cert = key /\ Fits(resolved, scheme, cert) THEN resolved ELSE ""

SetupInput ==
    [addr : {"local", "public"}, scheme : Scheme, cert : BOOLEAN, key : BOOLEAN,
     mode : TLSMode \cup {""}, del : BOOLEAN, noStart : BOOLEAN]

ValidateConfig(input) ==
    ResolveRuntimeTLSMode(input.mode, input.scheme, input.cert, input.key) # ""

\* BootstrapPlan
setupPlan(input) ==
    [scheme |-> input.scheme, cert |-> input.cert, del |-> input.del,
     mode |-> ResolveRuntimeTLSMode(input.mode, input.scheme, input.cert, input.key)]

\* regixtry.env has no line for a switch that is off.
RenderEnvFile(plan) ==
    [scheme |-> plan.scheme, cert |-> plan.cert,
     del |-> IF plan.del THEN "true" ELSE ""]

\* What ReadManagedEnvFile and serve find in a regixtry.env.
EnvFile == [scheme : Scheme \cup {""}, cert : BOOLEAN, del : {"", "true", "false"}]

\* A regixtry.env that is cut off is parsed like any other.  The strings come
\* first in it, then certificate and key, then the switches.
Cut(env) ==
    {[scheme |-> "", cert |-> FALSE, del |-> ""],
     [scheme |-> env.scheme, cert |-> FALSE, del |-> ""],
     [scheme |-> env.scheme, cert |-> env.cert, del |-> ""]}

\* Setup records no version: the release of the binary is not known to it.
lifecycleProvenanceFromPlan(plan, version) ==
    [version |-> version, scheme |-> plan.scheme, mode |-> plan.mode, cert |-> plan.cert,
     del |-> plan.del]

\* Provenance of version 1 has no intent.
LegacyProvenance(version) ==
    [version |-> version, scheme |-> "", mode |-> "", cert |-> FALSE, del |-> FALSE]

Provenance == [version : Release \cup {""}, scheme : Scheme \cup {""},
               mode : TLSMode \cup {""}, cert : BOOLEAN, del : BOOLEAN]

-----------------------------------------------------------------------------
(***************************************************************************)
(* What an upgrade takes for the settings of the installation.  Strings    *)
(* come from the provenance first, switches from the environment file.     *)
(***************************************************************************)
firstNonBlank(a, b) == IF a # "" THEN a ELSE b

firstNonBlankBool_Recorded(primary, raw) ==  \* mutant: the provenance decides
    primary

firstNonBlankBool(primary, raw) == IF raw = "" THEN primary ELSE raw = "true"

loadInstalledIntent_Plain(prov, env) ==  \* mutant: no mode on record means plain HTTP
    LET scheme == firstNonBlank(prov.scheme, env.scheme)
        cert == prov.cert \/ env.cert
    IN  [scheme |-> scheme, cert |-> cert,
         mode |-> firstNonBlank(prov.mode, "local-http"),
         del |-> firstNonBlankBool(prov.del, env.del)]

loadInstalledIntent(prov, env) ==
    LET scheme == firstNonBlank(prov.scheme, env.scheme)
        cert == prov.cert \/ env.cert
    IN  [scheme |-> scheme, cert |-> cert,
         mode |-> firstNonBlank(prov.mode, ResolveRuntimeTLSMode("", scheme, cert, cert)),
         del |-> firstNonBlankBool(prov.del, env.del)]

\* Two versions are compared when both are known; setup leaves it unknown, so
\* the first upgrade goes ahead whatever is installed.  The refs that are then
\* compared instead decide nothing: an upgrade alone records one, with a version.
sameUpgradeVersion(installed, target) == installed # "" /\ installed = target

-----------------------------------------------------------------------------
Written == "written"

\* Absent and Torn are the content of no file that is there and whole.
ASSUME InstallAssumption ==
    /\ Absent # Torn
    /\ \A nothing \in {Absent, Torn} :
          nothing \notin Release \cup EnvFile \cup Provenance \cup {Written, "empty", "data"}

\* backup and aside are the hidden copies of the binary of the command in
\* flight, stray the backups that dead commands left.
Managed == {"bin", "env", "unit", "receipt", "prov"}
NoBackup == [f \in Managed |-> Absent]
EmptyHost(r) ==
    [bin |-> r, env |-> Absent, unit |-> Absent, receipt |-> Absent, prov |-> Absent,
     db |-> Absent, content |-> Absent, backup |-> Absent, aside |-> Absent, stray |-> {}]

\* The unit starts serve with the settings of regixtry.env.
HasStrings(env) == env.scheme # ""
Startable(d) ==
    d.bin \in Release /\ d.unit = Written /\ d.env \in EnvFile /\ HasStrings(d.env)
Started(d) == IF Startable(d) THEN d.bin ELSE Absent
ServesTLS(d) == Startable(d) /\ d.env.cert

\* The scheme readinessProbeURL asks with.
ProbesTLS(plan) == plan.mode = "direct-tls"

NoCommand == [kind |-> "none", todo |-> <<>>, plan |-> Absent, target |-> Absent,
              local |-> FALSE, saved |-> NoBackup, undo |-> FALSE, bad |-> FALSE,
              fresh |-> FALSE]

InstallInit ==
    /\ \/ \E r \in Release :  \* install.sh left the binary
             disk = EmptyHost(r) /\ service = [enabled |-> FALSE, running |-> Absent, tls |-> FALSE]
       \/ \E r \in Release, mode \in TLSMode, on \in BOOLEAN :  \* an older installation runs
             LET plan == [del |-> on, mode |-> mode,
                          scheme |-> IF mode = "local-http" THEN "http" ELSE "https",
                          cert |-> mode = "direct-tls"]
             IN  /\ disk = [EmptyHost(r) EXCEPT !.env = RenderEnvFile(plan), !.unit = Written,
                              !.receipt = Written, !.prov = LegacyProvenance(r),
                              !.db = "data", !.content = "data"]
                 /\ service = [enabled |-> TRUE, running |-> r, tls |-> plan.cert]
    /\ cmd = NoCommand /\ said = "nothing" /\ commands = 0 /\ faults = 0

-----------------------------------------------------------------------------
(***************************************************************************)
(* Commands as lists of steps.                                             *)
(***************************************************************************)
SetupSteps(noStart) ==
    IF noStart THEN <<"env", "unit", "db", "receipt", "prov">>
    ELSE <<"env", "unit", "db", "receipt", "bind", "reload", "enable", "wait", "prov">>

UpgradeSteps_DropFirst ==  \* mutant: the backup goes before the new binary is in
    <<"capture", "stop", "out", "drop", "in", "env", "unit", "receipt", "reload", "enable",
      "wait", "prov">>

UpgradeSteps_NoStop ==  \* mutant: the service runs on while its binary is exchanged
    <<"capture", "out", "in", "env", "unit", "receipt", "reload", "enable", "wait", "prov",
      "drop">>

UpgradeSteps ==
    <<"capture", "stop", "out", "in", "env", "unit", "receipt", "reload", "enable", "wait",
      "prov", "drop">>

\* restoreManagedRuntimeBackup: the binary from its backup, or from memory
\* when the swap gave none.
RestoreSteps_KeepEnv(moved) ==  \* mutant: the environment file is not restored
    IF moved THEN <<"aside", "back", "clean", "oldUnit", "oldReceipt", "oldProv", "reload",
                    "enable", "wait">>
    ELSE <<"rewrite", "oldUnit", "oldReceipt", "oldProv", "reload", "enable", "wait">>

RestoreSteps(moved) ==
    IF moved THEN <<"aside", "back", "clean", "oldEnv", "oldUnit", "oldReceipt", "oldProv",
                    "reload", "enable", "wait">>
    ELSE <<"rewrite", "oldEnv", "oldUnit", "oldReceipt", "oldProv", "reload", "enable", "wait">>

\* rollbackWithReceipt: the paths of the receipt, the last one first.
DeleteStep == [receipt |-> "deleteReceipt", content |-> "deleteContent", db |-> "deleteDB",
               unit |-> "deleteUnit", env |-> "deleteEnv", prov |-> "deleteProvenance",
               bin |-> "deleteBinary"]
RollbackSteps ==
    <<"stop", "deleteReceipt", "deleteContent", "deleteDB", "deleteUnit", "deleteEnv">>

\* uninstallCleanupTargets: then the provenance, the binary last.
UninstallSteps_BinaryOnce ==  \* mutant: the provenance is not a target
    <<"stop", "deleteReceipt", "deleteContent", "deleteDB", "deleteUnit", "deleteEnv",
      "deleteBinary">>

UninstallSteps ==
    <<"stop", "deleteReceipt", "deleteContent", "deleteDB", "deleteUnit", "deleteEnv",
      "deleteProvenance", "deleteBinary">>

At(step) == cmd.todo # <<>> /\ Head(cmd.todo) = step

\* What a command says that has no more steps.
Verdict(bad) ==
    CASE ~cmd.undo /\ cmd.kind \in {"setup", "upgrade"} -> "done"
      [] cmd.undo /\ cmd.kind = "upgrade" -> IF bad THEN "unrestored" ELSE "restored"
      [] OTHER -> IF bad THEN "incomplete" ELSE "removed"

EndWith(word) == cmd' = NoCommand /\ said' = word

Skip(n, bad) ==
    IF Len(cmd.todo) = n THEN EndWith(Verdict(cmd.bad \/ bad))
    ELSE /\ cmd' = [cmd EXCEPT !.todo = SubSeq(@, n + 1, Len(@)), !.bad = @ \/ bad]
         /\ said' = said
Proceed == Skip(1, FALSE)

Fault == faults < MaxFaults /\ faults' = faults + 1
NoFault == faults' = faults

\* Steps whose error is added to the others and passed over.
BestEffort == cmd.undo \/ cmd.kind \in {"rollback", "uninstall"}

\* The error of a step ends the command, with or without undoing it.
Undo(steps) ==
    /\ cmd' = [cmd EXCEPT !.undo = TRUE, !.todo = steps]
    /\ said' = said
OnError ==
    LET step == Head(cmd.todo)
    IN  CASE cmd.kind = "setup" /\ step \in {"reload", "enable", "wait", "prov"}
                -> Undo(RollbackSteps)
          [] cmd.kind = "upgrade" /\ step \in {"out", "in"} -> Undo(RestoreSteps(FALSE))
          [] cmd.kind = "upgrade" /\ step \notin {"capture", "stop", "out", "in"}
                -> Undo(RestoreSteps(TRUE))
          [] OTHER -> EndWith("failed")
Failed == IF BestEffort THEN Skip(1, TRUE) ELSE OnError

-----------------------------------------------------------------------------
(***************************************************************************)
(* Commands begin.  A setup whose input is not valid, an upgrade without   *)
(* provenance, environment file or settings, one that is up to date or not *)
(* confirmed, and a release that does not resolve, download or verify      *)
(* leave everything alone: they are no steps of the model.                 *)
(***************************************************************************)
Start(kind, todo, plan, target, local) ==
    /\ cmd = NoCommand /\ commands < MaxCommands
    /\ cmd' = [NoCommand EXCEPT !.kind = kind, !.todo = todo, !.plan = plan, !.target = target,
                                !.local = local]
    /\ said' = "nothing" /\ commands' = commands + 1
    /\ UNCHANGED <<disk, service, faults>>

\* The mode setup records is the resolved one: one input for each plan.
Setup(input) ==
    /\ ValidateConfig(input) /\ input.mode # ""
    /\ Start("setup", SetupSteps(input.noStart), setupPlan(input), Absent, input.addr = "local")

Upgrade_(target) ==
    /\ disk.prov \in Provenance /\ disk.env \in EnvFile
    /\ ~sameUpgradeVersion(disk.prov.version, target)
    /\ LET plan == loadInstalledIntent(disk.prov, disk.env)
       IN  plan.mode # "" /\ Start("upgrade", UpgradeSteps, plan, target, FALSE)

RollbackSetup ==
    /\ disk.receipt = Written
    /\ Start("rollback", RollbackSteps, Absent, Absent, FALSE)

Uninstall ==
    /\ disk.prov \in Provenance
    /\ Start("uninstall", UninstallSteps, Absent, Absent, FALSE)

-----------------------------------------------------------------------------
(***************************************************************************)
(* Files.                                                                  *)
(***************************************************************************)
Halves(f, value) == IF f = "env" THEN Cut(value) ELSE {Torn}

Write(f, value) ==
    /\ \/ disk' = [disk EXCEPT ![f] = value] /\ Proceed /\ NoFault
       \/ disk' = disk /\ Fault /\ Failed
       \/ \E half \in Halves(f, value) :
             disk' = [disk EXCEPT ![f] = half] /\ Fault /\ Failed
    /\ UNCHANGED <<service, commands>>

\* writeManagedArtifacts makes the directories first.
WriteEnv ==
    /\ At("env")
    /\ LET made == [disk EXCEPT !.content = IF @ = Absent THEN "empty" ELSE @]
       IN  \/ disk' = [made EXCEPT !.env = RenderEnvFile(cmd.plan)] /\ Proceed /\ NoFault
           \/ disk' \in {disk, made} /\ Fault /\ Failed
           \/ \E half \in Cut(RenderEnvFile(cmd.plan)) :
                 disk' = [made EXCEPT !.env = half] /\ Fault /\ Failed
    /\ UNCHANGED <<service, commands>>
WriteUnit == At("unit") /\ Write("unit", Written)
WriteReceipt == At("receipt") /\ Write("receipt", Written)
SaveLifecycleProvenance ==
    /\ At("prov")
    /\ Write("prov", lifecycleProvenanceFromPlan(cmd.plan,
                        IF cmd.kind = "upgrade" THEN cmd.target ELSE ""))

\* Only setup creates the database; a file that is there is emptied.
CreateDatabase ==
    /\ At("db")
    /\ \/ disk' = [disk EXCEPT !.db = "empty"] /\ Proceed /\ NoFault
       \/ disk' \in {disk, [disk EXCEPT !.db = "empty"]} /\ Fault /\ Failed
    /\ UNCHANGED <<service, commands>>

\* removeAll of a path; of the database its -wal and -shm files too.
RemovePath(f) ==
    /\ At(DeleteStep[f])
    /\ \/ disk' = [disk EXCEPT ![f] = Absent] /\ Proceed /\ NoFault
       \/ disk' = disk /\ Fault /\ Failed
    /\ UNCHANGED <<service, commands>>

-----------------------------------------------------------------------------
(***************************************************************************)
(* The binary.  captureManagedRuntimeBackup reads the artifacts, one that  *)
(* is missing ends the upgrade; swapInstalledBinary is two renames.        *)
(***************************************************************************)
Capture ==
    /\ At("capture")
    /\ IF \A f \in Managed : disk[f] # Absent
       THEN /\ cmd' = [cmd EXCEPT !.saved = [f \in Managed |-> disk[f]], !.todo = Tail(@)]
            /\ said' = said
       ELSE EndWith("failed")
    /\ UNCHANGED <<disk, service, commands, faults>>

SwapOut ==
    /\ At("out")
    /\ \/ disk' = [disk EXCEPT !.backup = disk.bin, !.bin = Absent] /\ Proceed /\ NoFault
       \/ disk' = disk /\ Fault /\ Failed
    /\ UNCHANGED <<service, commands>>

\* When the staged binary cannot be moved in, the old one is moved back.
SwapIn ==
    /\ At("in")
    /\ \/ disk' = [disk EXCEPT !.bin = cmd.target] /\ Proceed /\ NoFault
       \/ disk' = [disk EXCEPT !.bin = disk.backup, !.backup = Absent] /\ Fault /\ Failed
       \/ /\ faults + 2 <= MaxFaults /\ faults' = faults + 2
          /\ disk' = [disk EXCEPT !.backup = Absent, !.stray = @ \cup {disk.backup}]
          /\ Failed
    /\ UNCHANGED <<service, commands>>

DropBackup ==
    /\ At("drop")
    /\ \/ disk' = [disk EXCEPT !.backup = Absent] /\ Proceed /\ NoFault
       \/ disk' = disk /\ Fault /\ Failed
    /\ UNCHANGED <<service, commands>>

\* Rollback with a backup: the new binary aside, the old one back, the new one
\* removed; an error passes over the steps that depend on it.
MoveAside ==
    /\ At("aside")
    /\ \/ disk' = [disk EXCEPT !.aside = disk.bin, !.bin = Absent] /\ Proceed /\ NoFault
       \/ disk' = [disk EXCEPT !.backup = Absent, !.stray = @ \cup {disk.backup}]
          /\ Fault /\ Skip(3, TRUE)
    /\ UNCHANGED <<service, commands>>

MoveBack ==
    /\ At("back")
    /\ \/ disk' = [disk EXCEPT !.bin = disk.backup, !.backup = Absent] /\ Proceed /\ NoFault
       \/ /\ disk' \in {[disk EXCEPT !.bin = disk.aside, !.aside = Absent, !.backup = Absent,
                                     !.stray = @ \cup {disk.backup}],
                        [disk EXCEPT !.aside = Absent, !.backup = Absent,
                                     !.stray = @ \cup {disk.backup, disk.aside}]}
          /\ Fault /\ Skip(2, TRUE)
    /\ UNCHANGED <<service, commands>>

CleanAside ==
    /\ At("clean")
    /\ \/ disk' = [disk EXCEPT !.aside = Absent] /\ Proceed /\ NoFault
       \/ disk' = [disk EXCEPT !.aside = Absent, !.stray = @ \cup {disk.aside}]
          /\ Fault /\ Failed
    /\ UNCHANGED <<service, commands>>

RestoreFile(step, f) == At(step) /\ Write(f, cmd.saved[f])

-----------------------------------------------------------------------------
(***************************************************************************)
(* systemd.  disable --now and enable --now are two things each, and a     *)
(* failing one may have done the first.  Starting a unit that runs does    *)
(* nothing, so the process that runs keeps its binary and its settings.    *)
(***************************************************************************)
Halted == [service EXCEPT !.enabled = FALSE, !.running = Absent, !.tls = FALSE]
Up == IF service.running # Absent THEN [service EXCEPT !.enabled = TRUE]
      ELSE [enabled |-> TRUE, running |-> Started(disk), tls |-> ServesTLS(disk)]

Stop ==
    /\ At("stop")
    /\ \/ disk.unit # Absent /\ service' = Halted /\ Proceed /\ NoFault
       \/ disk.unit = Absent /\ service' = service /\ Failed /\ NoFault
       \/ service' \in {service, [service EXCEPT !.enabled = FALSE]} /\ Fault /\ Failed
    /\ UNCHANGED <<disk, commands>>

\* preflightLocalBind; addresses that are not local are not tried.
PreflightBind ==
    /\ At("bind")
    /\ \/ (cmd.local => service.running = Absent) /\ Proceed /\ NoFault
       \/ cmd.local /\ service.running # Absent /\ Failed /\ NoFault
       \/ cmd.local /\ Fault /\ Failed
    /\ UNCHANGED <<disk, service, commands>>

DaemonReload ==
    /\ At("reload")
    /\ \/ Proceed /\ NoFault
       \/ Fault /\ Failed
    /\ UNCHANGED <<disk, service, commands>>

EnableNow ==
    /\ At("enable")
    /\ \/ /\ disk.unit = Written /\ service' = Up /\ NoFault
          /\ cmd' = [cmd EXCEPT !.todo = Tail(@), !.fresh = service.running = Absent]
          /\ said' = said
       \/ disk.unit # Written /\ service' = service /\ Failed /\ NoFault
       \/ service' \in {service, [service EXCEPT !.enabled = TRUE]} /\ Fault /\ Failed
    /\ UNCHANGED <<disk, commands>>

\* waitUntilReachable: any process at the address that answers will do.
Reachable == service.running # Absent /\ service.tls = ProbesTLS(cmd.plan)
WaitReachable ==
    /\ At("wait")
    /\ \/ Reachable /\ Proceed /\ NoFault
       \/ ~Reachable /\ Failed /\ NoFault
       \/ Reachable /\ Fault /\ Failed
    /\ UNCHANGED <<disk, service, commands>>

-----------------------------------------------------------------------------
(***************************************************************************)
(* The service at work; the operator at regixtry.env, which serve and tui  *)
(* read; and the host.                                                     *)
(***************************************************************************)
Serve ==
    /\ service.running # Absent /\ disk.db # Absent
    /\ disk' = [disk EXCEPT !.db = "data", !.content = "data"]
    /\ UNCHANGED <<service, cmd, said, commands, faults>>

\* Restart=on-failure
ServiceRestarts ==
    /\ service.running # Absent
    /\ service' = [service EXCEPT !.running = Started(disk), !.tls = ServesTLS(disk)]
    /\ UNCHANGED <<disk, cmd, said, commands, faults>>

EditEnv ==
    /\ cmd = NoCommand /\ disk.env \in EnvFile
    /\ \E raw \in {"", "true", "false"} : disk' = [disk EXCEPT !.env.del = raw]
    /\ UNCHANGED <<service, cmd, said, commands, faults>>

\* The files a step may leave half written, with what is then in them.
WrittenBy(step) ==
    CASE step = "env" -> {"env"} \X Cut(RenderEnvFile(cmd.plan))
      [] step = "oldEnv" -> {"env"} \X Cut(cmd.saved.env)
      [] step \in {"unit", "oldUnit"} -> {<<"unit", Torn>>}
      [] step \in {"receipt", "oldReceipt"} -> {<<"receipt", Torn>>}
      [] step \in {"prov", "oldProv"} -> {<<"prov", Torn>>}
      [] step = "rewrite" -> {<<"bin", Torn>>}
      [] OTHER -> {}

\* The copies of the binary that nothing will look at again.
Strays(d) == [d EXCEPT !.backup = Absent, !.aside = Absent,
                       !.stray = @ \cup ({d.backup, d.aside} \ {Absent})]

CommandDies ==
    /\ cmd # NoCommand /\ Fault
    /\ \/ disk' = Strays(disk)
       \/ \E h \in WrittenBy(Head(cmd.todo)) : disk' = Strays([disk EXCEPT ![h[1]] = h[2]])
    /\ EndWith("cut")
    /\ \/ service' = service
       \/ service' = IF service.enabled  \* the host reboots
                     THEN [service EXCEPT !.running = Started(disk'), !.tls = ServesTLS(disk')]
                     ELSE Halted
    /\ UNCHANGED commands

InstallNext ==
    \/ \E input \in SetupInput : Setup(input)
    \/ \E r \in Release : Upgrade_(r)
    \/ RollbackSetup \/ Uninstall
    \/ WriteEnv \/ WriteUnit \/ WriteReceipt \/ SaveLifecycleProvenance \/ CreateDatabase
    \/ \E f \in DOMAIN DeleteStep : RemovePath(f)
    \/ Capture \/ SwapOut \/ SwapIn \/ DropBackup \/ MoveAside \/ MoveBack \/ CleanAside
    \/ RestoreFile("rewrite", "bin") \/ RestoreFile("oldEnv", "env")
    \/ RestoreFile("oldUnit", "unit") \/ RestoreFile("oldReceipt", "receipt")
    \/ RestoreFile("oldProv", "prov")
    \/ Stop \/ PreflightBind \/ DaemonReload \/ EnableNow \/ WaitReachable
    \/ Serve \/ ServiceRestarts \/ EditEnv \/ CommandDies

InstallSpec == InstallInit /\ [][InstallNext]_installVars

-----------------------------------------------------------------------------
(***************************************************************************)
(* Properties.                                                             *)
(***************************************************************************)
Says(word) == said # said' /\ said' = word
Copies(d) == ({d.bin, d.backup, d.aside} \cup d.stray) \cap Release

\* regixtry.env says what the provenance has on record, or says it for want of
\* a record; only a switch may have been turned by hand.
OnRecord(env, prov) ==
    prov.mode # "" => /\ env.scheme = prov.scheme /\ env.cert = prov.cert
                      /\ prov.del => env.del # ""

(* restoreManagedRuntimeBackup: an upgrade that failed and reports no      *)
(* error of the rollback left binary, environment, unit, receipt and       *)
(* provenance as it found them, and the service enabled and answering.     *)
(* What answers is the old release, or else the new one: enable --now      *)
(* leaves a process alone that the upgrade had started before it failed    *)
(* (upgrade.go:531-537), and the probe takes any answer.  The design says  *)
(* "else restore snapshot and restart previous binary" and "rollback       *)
(* restarts prior binary" (regixtry-upgrade-lifecycle/design.md:28, 75):   *)
(* it does so only where the new release was not up any more.              *)
RestoredAsFound ==
    Says("restored") =>
        /\ \A f \in Managed : disk'[f] = cmd.saved[f]
        /\ service'.enabled
        /\ \/ service'.running = cmd.saved.bin
           \/ service'.running = cmd.target /\ ~cmd.fresh

(* runSetup, Upgrade: a command that claims success left a regixtry.env    *)
(* that says what the provenance records, a service that is enabled and    *)
(* answers, if it was the command that started it, and an upgrade one that *)
(* runs the new release, which the provenance names.  A setup that meets a *)
(* running service, or is asked not to start it, leaves that as it is.     *)
ClaimsHold ==
    Says("done") =>
        /\ disk'.prov \in Provenance /\ disk'.env \in EnvFile /\ OnRecord(disk'.env, disk'.prov)
        /\ disk'.unit = Written /\ disk'.receipt = Written
        /\ cmd.fresh \/ cmd.kind = "upgrade" => service'.enabled /\ service'.running # Absent
        /\ cmd.kind = "upgrade" =>
              /\ {disk'.bin, disk'.prov.version, service'.running} = {cmd.target}
              /\ disk'.backup = Absent

(* swapInstalledBinary, restoreManagedRuntimeBackup: wherever a command    *)
(* other than uninstall fails or dies, a whole binary is left somewhere on *)
(* the host; but the rollback of a failed swap writes the binary over the  *)
(* one that is there, and what it leaves when it is cut off is torn.       *)
LastCopyKept ==
    Copies(disk) # {} /\ cmd.kind # "uninstall" =>
        Copies(disk') # {} \/ disk'.bin = Torn

\* Two files serve takes for the same settings.
SameSettings(env, was) ==
    /\ env.scheme = was.scheme /\ env.cert = was.cert
    /\ (env.del = "true") = (was.del = "true")

(* writeManagedArtifacts, loadInstalledIntent: an upgrade, however it      *)
(* ends, keeps database and blobs, and the settings of the installation    *)
(* mean after it what they meant before, a switch turned by hand included. *)
(* Two cases apart, where regixtry.env is off the record: somebody took    *)
(* out the line of a switch, or a setup failed between regixtry.env and    *)
(* the provenance; the upgrade then goes by the record.  And a third, of   *)
(* an upgrade that dies, or whose rollback fails: os.WriteFile truncates   *)
(* regixtry.env in place (bootstrap.go:408, upgrade.go:519), and what it   *)
(* leaves when it is cut off there is the beginning of the old or of the   *)
(* new file, never anything else.                                          *)
UpgradeKeepsDataAndSettings ==
    cmd.kind = "upgrade" =>
        /\ disk.db = "data" => disk'.db = "data"
        /\ disk.content = "data" => disk'.content = "data"
        /\ LET was == cmd.saved.env
           IN  /\ cmd' = NoCommand /\ cmd.saved # NoBackup
               /\ OnRecord(was, cmd.saved.prov)
               => \/ SameSettings(disk'.env, was)
                  \/ /\ said' \in {"cut", "unrestored"}
                     /\ disk'.env \in Cut(was) \cup Cut(RenderEnvFile(cmd.plan))

(* rollbackWithReceipt, uninstallWithProvenance: a command that reports    *)
(* everything removed left none of the files of the installation and no    *)
(* service, whatever earlier commands that died had left there.            *)
RemovedIsRemoved ==
    Says("removed") =>
        /\ \A f \in {"env", "unit", "receipt", "db", "content"} : disk'[f] = Absent
        /\ service' = Halted
        /\ cmd.kind = "uninstall" => disk'.bin = Absent /\ disk'.prov = Absent

(* readinessProbeURL: a command that has just started the service asks it  *)
(* with the scheme it serves, so that a good upgrade is not taken for a    *)
(* failed one: the mode on record, or the one worked out for provenance    *)
(* without a mode, is the one that regixtry.env makes serve use, if that   *)
(* is on record and no step of a rollback failed, which may leave part of  *)
(* it.                                                                     *)
ProbeSpeaksAsServed ==
    /\ At("wait") /\ cmd.fresh /\ service.running # Absent /\ ~cmd.bad
    /\ cmd.kind = "upgrade" => OnRecord(cmd.saved.env, cmd.saved.prov)
    => ProbesTLS(cmd.plan) = service.tls

(* What a command says at its end is so: done, restored or removed, and a  *)
(* good start is not taken for a failed one.                               *)
ReportsAreTrue ==
    [][ClaimsHold /\ RestoredAsFound /\ RemovedIsRemoved /\ ProbeSpeaksAsServed']_installVars

(* No command that fails or dies, and no upgrade, costs the host its only  *)
(* binary, its data or its settings, but for the cases above.              *)
NothingLost == [][LastCopyKept /\ UpgradeKeepsDataAndSettings]_installVars
=============================================================================
