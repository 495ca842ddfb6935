--------------------------- MODULE FeatureRuntime ---------------------------
(***************************************************************************)
(* The managed runtime of a scanner (trivy; gitleaks has the same manager  *)
(* under other names): the version directories, the bin/active symlink,    *)
(* the feature_runtime_state row, and the operations on them.              *)
(*                                                                         *)
(*   internal/infra/scanning/trivy/runtime_manager.go      Install,        *)
(*   internal/infra/scanning/gitleaks/runtime_manager.go   Upgrade,        *)
(*                                                         Rollback, Status*)
(*   internal/infra/metadata/sqlite/store.go               the row         *)
(*                                                                         *)
(* The operations are called by admin requests and by the command line, a  *)
(* process of its own; nothing keeps two of them apart.  The version that  *)
(* a binary reports is the one it was released as.  Settings from before   *)
(* managed runtimes, which the store turns into a row, are left out.       *)
(***************************************************************************)
EXTENDS Naturals

CONSTANTS
    Version,   \* releases
    Op,        \* concurrent operations
    None       \* no version

ASSUME FeatureRuntimeAssumption == None \notin Version

VARIABLES
    bin,       \* bin/versions/<v>/trivy
    link,      \* the version bin/active points to
    next,      \* the version bin/active.next points to
    row,       \* feature_runtime_state
    op,        \* operations in flight
    (* What happened, for the properties only. *)
    disturbed  \* operations overlapped, or one was cut off after it moved the link

vars == <<bin, link, next, row, op, disturbed>>

MaybeVersion == Version \cup {None}
Row == [status : {"uninstalled", "installing", "ready", "degraded"},
        active : MaybeVersion, previous : MaybeVersion]
NoRow == [status |-> "uninstalled", active |-> None, previous |-> None]

\* pc "next" and "rename" are the two halves of activateVersionLink(target);
\* undo tells that it is called to restore the link after a failing probe.
Operation ==
    [pc : {"idle", "mark", "stage", "extract", "next", "rename", "probe", "save"},
     kind : {"none", "install", "upgrade", "rollback", "status"},
     target : MaybeVersion, cur : Row, found : MaybeVersion, undo : BOOLEAN]
Idle == [pc |-> "idle", kind |-> "none", target |-> None, cur |-> NoRow, found |-> None,
         undo |-> FALSE]

(* Directories, link, row and operations are of their kind.                *)
TypeOK ==
    /\ bin \in [Version -> {"absent", "torn", "whole"}]
    /\ link \in MaybeVersion /\ next \in MaybeVersion
    /\ row \in Row
    /\ op \in [Op -> Operation]
    /\ disturbed \in BOOLEAN

Init ==
    /\ bin = [v \in Version |-> "absent"]
    /\ link = None /\ next = None
    /\ row = NoRow
    /\ op = [o \in Op |-> Idle]
    /\ disturbed = FALSE

Busy == \E o \in Op : op[o].pc # "idle"
Goto(o, pc) == op' = [op EXCEPT ![o].pc = pc]
End(o) == op' = [op EXCEPT ![o] = Idle]

-----------------------------------------------------------------------------
(***************************************************************************)
(* An operation starts with the row: Upgrade needs one, Rollback needs a   *)
(* previous version, Status looks further only at a ready or degraded one. *)
(* Install takes a read that fails for a row that is not there.            *)
(***************************************************************************)
Begin(o, kind, pc, target, cur) ==
    /\ op[o].pc = "idle"
    /\ op' = [op EXCEPT ![o] = [Idle EXCEPT !.pc = pc, !.kind = kind, !.target = target,
                                           !.cur = cur]]
    /\ disturbed' = (disturbed \/ Busy)
    /\ UNCHANGED <<bin, link, next, row>>

Install(o, v) == \E cur \in {row, NoRow} : Begin(o, "install", "mark", v, cur)
Upgrade(o, v) == row.status # "uninstalled" /\ Begin(o, "upgrade", "mark", v, row)
Rollback(o) == row.previous # None /\ Begin(o, "rollback", "next", row.previous, row)
Status(o) == row.status \in {"ready", "degraded"} /\ Begin(o, "status", "probe", None, row)

\* activate writes the row as installing, with the versions it read.
MarkInstalling(o) ==
    /\ op[o].pc = "mark"
    /\ row' = [op[o].cur EXCEPT !.status = "installing"]
    /\ Goto(o, "stage")
    /\ UNCHANGED <<bin, link, next, disturbed>>

\* Download and verification succeeded; the binary is extracted in place.
ExtractBegin_Later(o) ==  \* mutant: the link is moved before the binary is extracted
    /\ op[o].pc = "stage"
    /\ Goto(o, "next")
    /\ UNCHANGED <<bin, link, next, row, disturbed>>

ExtractBegin(o) ==
    /\ op[o].pc = "stage"
    /\ bin' = [bin EXCEPT ![op[o].target] = "torn"]
    /\ Goto(o, "extract")
    /\ UNCHANGED <<link, next, row, disturbed>>

ExtractEnd(o) ==
    /\ op[o].pc = "extract"
    /\ bin' = [bin EXCEPT ![op[o].target] = "whole"]
    /\ Goto(o, "next")
    /\ UNCHANGED <<link, next, row, disturbed>>

-----------------------------------------------------------------------------
(***************************************************************************)
(* activateVersionLink: a new symlink beside the active one, renamed over  *)
(* it.  Both names are shared by all operations.                           *)
(***************************************************************************)
LinkNext(o) ==
    /\ op[o].pc = "next"
    /\ next' = op[o].target
    /\ Goto(o, "rename")
    /\ UNCHANGED <<bin, link, row, disturbed>>

LinkRename(o) ==
    /\ op[o].pc = "rename"
    /\ IF next = None  \* another operation renamed it
       THEN End(o) /\ UNCHANGED <<link, next>>
       ELSE /\ link' = next /\ next' = None
            /\ IF op[o].undo THEN End(o) ELSE Goto(o, "probe")
    /\ UNCHANGED <<bin, row, disturbed>>

\* What is probed: activate its own binary, Rollback and Status the active one.
Probed(o) == IF op[o].kind \in {"install", "upgrade"} THEN op[o].target ELSE link

ProbeOK(o) ==
    /\ op[o].pc = "probe" /\ Probed(o) # None /\ bin[Probed(o)] = "whole"
    /\ op' = [op EXCEPT ![o].pc = "save", ![o].found = Probed(o)]
    /\ UNCHANGED <<bin, link, next, row, disturbed>>

\* A probe may fail for reasons of its own, its timeout among them.
ProbeFails_NoRestore(o) ==  \* mutant: the former version is not linked again
    /\ op[o].pc = "probe"
    /\ IF op[o].kind = "status" THEN op' = [op EXCEPT ![o].pc = "save", ![o].found = None]
       ELSE End(o)
    /\ UNCHANGED <<bin, link, next, row, disturbed>>

ProbeFails(o) ==
    /\ op[o].pc = "probe"
    /\ \/ /\ op[o].kind = "status"
          /\ op' = [op EXCEPT ![o].pc = "save", ![o].found = None]
       \/ /\ op[o].kind # "status" /\ op[o].cur.active # None
          /\ op' = [op EXCEPT ![o].pc = "next", ![o].target = op[o].cur.active,
                              ![o].undo = TRUE]
       \/ /\ op[o].kind # "status" /\ op[o].cur.active = None
          /\ End(o)
    /\ UNCHANGED <<bin, link, next, row, disturbed>>

\* The row each operation writes in the end, whole.
Saved_OldTarget(r) ==  \* mutant: the rollback target of the row before is kept
    CASE r.kind = "status" /\ r.found = None -> [r.cur EXCEPT !.status = "degraded"]
      [] r.kind = "status" /\ r.found # None -> [r.cur EXCEPT !.status = "ready",
                                                              !.active = r.found]
      [] OTHER -> [status |-> "ready", active |-> r.found, previous |-> r.cur.previous]

Saved(r) ==
    CASE r.kind = "status" /\ r.found = None -> [r.cur EXCEPT !.status = "degraded"]
      [] r.kind = "status" /\ r.found # None -> [r.cur EXCEPT !.status = "ready",
                                                              !.active = r.found]
      [] OTHER -> [status |-> "ready", active |-> r.found, previous |-> r.cur.active]

SaveState(o) ==
    /\ op[o].pc = "save"
    /\ row' = Saved(op[o])
    /\ End(o)
    /\ UNCHANGED <<bin, link, next, disturbed>>

-----------------------------------------------------------------------------
(***************************************************************************)
(* An operation is cut off: a call fails, or its process dies.  Errors of  *)
(* activate leave the row as it is; those of the restoring link calls are  *)
(* ignored.  A rename that fails removes the link it did not move.         *)
(***************************************************************************)
Unsafe(r) == r.kind # "status" /\ (r.pc \in {"probe", "save"} \/ r.undo)

CutOff(o) ==
    /\ op[o].pc # "idle"
    /\ disturbed' = (disturbed \/ Unsafe(op[o]))
    /\ next' \in (IF op[o].pc = "rename" THEN {next, None} ELSE {next})
    /\ End(o)
    /\ UNCHANGED <<bin, link, row>>

Next ==
    \E o \in Op :
       \/ \E v \in Version : Install(o, v) \/ Upgrade(o, v)
       \/ Rollback(o) \/ Status(o)
       \/ MarkInstalling(o) \/ ExtractBegin(o) \/ ExtractEnd(o) \/ LinkNext(o)
       \/ LinkRename(o) \/ ProbeOK(o) \/ ProbeFails(o) \/ SaveState(o) \/ CutOff(o)

Spec == Init /\ [][Next]_vars

-----------------------------------------------------------------------------
(***************************************************************************)
(* Properties.                                                             *)
(***************************************************************************)
OnDisk == {v \in Version : bin[v] # "absent"}

(* activate, Rollback: whatever overlaps and wherever an operation is cut  *)
(* off, the active link and the versions the row names for scans and for   *)
(* a rollback are versions with a binary on disk.                          *)
TargetsOnDisk == {link, row.active, row.previous} \ {None} \subseteq OnDisk

(* activate, Rollback: operations one after the other, failing in any way  *)
(* before they move the link or at the probe behind it, leave the link at  *)
(* the version the row calls active.                                       *)
LinkFollowsRow ==
    ~Busy /\ ~disturbed /\ row.active # None => link = row.active

\* An install that took a failed read of the row for a row that is not there.
Misread(r) == r.kind = "install" /\ r.pc = "mark" /\ r.cur = NoRow

(* trivy-runtime/spec.md:27: versions are switched "while retaining one    *)
(* rollback target".  Operations one after the other that take the active  *)
(* version out of the row leave it there as the target of a rollback; a    *)
(* probe of Status never switches versions.  The one exception is an       *)
(* install whose read of the row failed (runtime_manager.go:138-141): it   *)
(* goes on as if nothing were installed, marks the row with no version at  *)
(* all, and the former version is no rollback target ever after.           *)
SwitchKeepsFormer ==
    [][~disturbed' /\ row.active # None /\ row'.active # row.active =>
          \/ row'.previous = row.active
          \/ \E o \in Op : Misread(op[o]) /\ op'[o].pc = "stage"]_vars
=============================================================================
