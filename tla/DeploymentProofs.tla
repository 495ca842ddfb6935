-------------------------- MODULE DeploymentProofs --------------------------
(***************************************************************************)
(* Proofs about what is put on a host: the scanner runtimes                *)
(* (FeatureRuntime, for any sets of versions and operations), the docker   *)
(* deployment (Compose) and regixtry itself (Installer, for any set of     *)
(* releases and any number of commands and faults).                        *)
(*                                                                         *)
(* FeatureRuntime.  TargetsOnDisk is not inductive: link and row are       *)
(* overwritten with what an operation carries, and with the .next link of  *)
(* any other operation.  The invariant says of all of these that they have *)
(* a binary.  LinkFollowsRow and SwitchKeepsFormer are about operations    *)
(* one after the other.  Their invariant says where the link is at each    *)
(* place of the one operation in flight: at the row's version until the    *)
(* rename, at the target until the row is saved, and on its way back after *)
(* a failed probe.                                                         *)
(*                                                                         *)
(* Compose.  What a setup has done is where its program counter is, and    *)
(* what is left over was left by a failure.                                *)
(*                                                                         *)
(* Installer.  What a command reports at its end is about files that it    *)
(* wrote many steps before, so nothing follows from the last step alone.   *)
(* InstallInv says of every place in the list of steps what the command    *)
(* has done up to there; it has a part for each list (setup, upgrade, the  *)
(* upgrade's restore, rollback and uninstall) and one for the host at rest *)
(* between two commands, where whatever an earlier one left is allowed.    *)
(***************************************************************************)
EXTENDS Installer, Compose, FeatureRuntime, TLAPS


(* A version is none, or has a binary under the directories b.             *)
Present(b, v) == v = None \/ (v \in Version /\ b[v] # "absent")

(* What an operation carries: the row it read, the version its probe found *)
(* and, from the extraction on, its target.                                *)
Carries(b, r) ==
    /\ Present(b, r.cur.active) /\ Present(b, r.cur.previous) /\ Present(b, r.found)
    /\ r.pc \notin {"idle", "mark", "stage"} => Present(b, r.target)

DiskInv ==
    /\ Present(bin, link) /\ Present(bin, next)
    /\ Present(bin, row.active) /\ Present(bin, row.previous)
    /\ \A o \in Op : Carries(bin, op[o])

IInv == TypeOK /\ DiskInv

-----------------------------------------------------------------------------
(* An operation that does nothing carries nothing.                         *)
LEMMA IdleCarries ==
    /\ NoRow \in Row /\ Idle \in Operation
    /\ \A b : Carries(b, Idle)
BY DEF NoRow, Row, Idle, Operation, MaybeVersion, Carries, Present

(* Extraction only adds binaries, so what was present remains so.          *)
LEMMA PresentGrows ==
    ASSUME NEW b, NEW c, \A v \in Version : b[v] # "absent" => c[v] # "absent"
    PROVE  /\ \A v : Present(b, v) => Present(c, v)
           /\ \A r : Carries(b, r) => Carries(c, r)
BY DEF Present, Carries

(* The row an operation saves names only what the operation carries.       *)
LEMMA SavedPresent ==
    ASSUME NEW r \in Operation, NEW b, Carries(b, r)
    PROVE  /\ Saved(r) \in Row
           /\ Present(b, Saved(r).active) /\ Present(b, Saved(r).previous)
<1>1. CASE r.kind = "status" /\ r.found = None
  BY <1>1 DEF Saved, Operation, Row, Carries
<1>2. CASE r.kind = "status" /\ r.found # None
  BY <1>2 DEF Saved, Operation, Row, Carries
<1>3. CASE r.kind # "status"
  BY <1>3 DEF Saved, Operation, Row, Carries
<1> QED
  BY <1>1, <1>2, <1>3

(* A step of one operation that replaces its record by one that carries    *)
(* only binaries keeps what is said of all operations.                     *)
LEMMA OneOperation ==
    ASSUME TypeOK, NEW o \in Op, NEW r \in Operation, NEW b,
           \A p \in Op : Carries(b, op[p]), Carries(b, r)
    PROVE  /\ [op EXCEPT ![o] = r] \in [Op -> Operation]
           /\ \A p \in Op : Carries(b, [op EXCEPT ![o] = r][p])
BY DEF TypeOK

-----------------------------------------------------------------------------
(* Every operation starts with a row of which all versions have a binary.  *)
LEMMA BeginStep ==
    ASSUME IInv, NEW o \in Op, NEW kind \in {"install", "upgrade", "rollback", "status"},
           NEW pc \in {"mark", "next", "probe"}, NEW target \in MaybeVersion,
           NEW cur \in {row, NoRow},
           pc # "mark" => Present(bin, target),
           Begin(o, kind, pc, target, cur)
    PROVE  IInv'
<1> DEFINE r == [Idle EXCEPT !.pc = pc, !.kind = kind, !.target = target, !.cur = cur]
<1>1. /\ op' = [op EXCEPT ![o] = r] /\ disturbed' \in BOOLEAN
      /\ UNCHANGED <<bin, link, next, row>>
  BY DEF Begin, IInv, TypeOK, Busy
<1>2. r \in Operation
  BY IdleCarries DEF IInv, TypeOK, Idle, Operation
<1>3. Carries(bin, r)
  <2>1. /\ r.cur = cur /\ r.found = None /\ r.target = target /\ r.pc = pc
    BY DEF Idle
  <2>2. Present(bin, cur.active) /\ Present(bin, cur.previous)
    BY DEF IInv, DiskInv, NoRow, Present
  <2> QED
    BY <2>1, <2>2 DEF Carries, Present
<1> HIDE DEF r
<1>4. /\ op' \in [Op -> Operation]
      /\ \A p \in Op : Carries(bin, op'[p])
  BY <1>1, <1>2, <1>3, OneOperation DEF IInv, DiskInv
<1> QED
  BY <1>1, <1>4 DEF IInv, DiskInv, TypeOK

(* A step that replaces one operation's record and, of the rest, only      *)
(* writes what is present.                                                 *)
LEMMA ReplaceStep ==
    ASSUME IInv, NEW o \in Op, NEW r \in Operation,
           op' = [op EXCEPT ![o] = r], Carries(bin', r),
           bin' \in [Version -> {"absent", "torn", "whole"}],
           \A v \in Version : bin[v] # "absent" => bin'[v] # "absent",
           link' \in {link, next}, next' \in {next, None, op[o].target},
           next' = op[o].target => Present(bin', op[o].target),
           row' \in Row, Present(bin', row'.active), Present(bin', row'.previous),
           disturbed' \in BOOLEAN
    PROVE  IInv'
<1>1. /\ \A v : Present(bin, v) => Present(bin', v)
      /\ \A s : Carries(bin, s) => Carries(bin', s)
  BY PresentGrows
<1>2. \A p \in Op : Carries(bin', op[p])
  BY <1>1 DEF IInv, DiskInv
<1>3. /\ op' \in [Op -> Operation]
      /\ \A p \in Op : Carries(bin', op'[p])
  BY <1>2, OneOperation DEF IInv
<1>4. Present(bin', link') /\ Present(bin', next')
  BY <1>1 DEF IInv, DiskInv, Present
<1>5. link' \in MaybeVersion /\ next' \in MaybeVersion
  BY <1>4 DEF Present, MaybeVersion
<1> QED
  BY <1>3, <1>4, <1>5 DEF IInv, DiskInv, TypeOK

-----------------------------------------------------------------------------
(* Nothing is installed at first.                                          *)
LEMMA InitDisk == Init => IInv
<1> SUFFICES ASSUME Init PROVE IInv
  OBVIOUS
<1>1. TypeOK
  BY IdleCarries DEF Init, TypeOK, MaybeVersion
<1>2. \A o \in Op : Carries(bin, op[o])
  BY IdleCarries DEF Init
<1>3. DiskInv
  BY <1>2 DEF Init, DiskInv, Present, NoRow
<1> QED
  BY <1>1, <1>3 DEF IInv

(* Every step of the managers and of the surrounding failures keeps the    *)
(* invariant.                                                              *)
LEMMA StepDisk == IInv /\ [Next]_vars => IInv'
<1> SUFFICES ASSUME IInv, [Next]_vars PROVE IInv'
  OBVIOUS
<1>a. TypeOK /\ DiskInv
  BY DEF IInv
<1>1. CASE UNCHANGED vars
  BY <1>1 DEF IInv, DiskInv, TypeOK, vars
<1>2. ASSUME NEW o \in Op, NEW v \in Version, Install(o, v) PROVE IInv'
  BY <1>2, BeginStep DEF Install, MaybeVersion
<1>3. ASSUME NEW o \in Op, NEW v \in Version, Upgrade(o, v) PROVE IInv'
  BY <1>3, BeginStep DEF Upgrade, MaybeVersion
<1>4. ASSUME NEW o \in Op, Rollback(o) PROVE IInv'
  <2>1. row.previous \in MaybeVersion /\ Present(bin, row.previous)
    BY <1>a DEF TypeOK, DiskInv, Row
  <2> QED
    BY <1>4, <2>1, BeginStep DEF Rollback
<1>5. ASSUME NEW o \in Op, Status(o) PROVE IInv'
  BY <1>5, BeginStep DEF Status, MaybeVersion, Present
<1> DEFINE R(o, pc) == [op[o] EXCEPT !.pc = pc]
<1>b. ASSUME NEW o \in Op PROVE op[o] \in Operation /\ Carries(bin, op[o])
  BY <1>a DEF TypeOK, DiskInv
<1>c. ASSUME NEW o \in Op, NEW pc \in {"stage", "extract", "next", "rename", "probe"}
      PROVE  R(o, pc) \in Operation /\ (Goto(o, pc) => op' = [op EXCEPT ![o] = R(o, pc)])
  BY <1>a DEF TypeOK, Operation, Goto
<1>6. ASSUME NEW o \in Op, MarkInstalling(o) PROVE IInv'
  <2>1. row' = [op[o].cur EXCEPT !.status = "installing"]
    BY <1>6 DEF MarkInstalling
  <2>2. row' \in Row /\ row'.active = op[o].cur.active /\ row'.previous = op[o].cur.previous
    BY <2>1, <1>b DEF Operation, Row
  <2>3. Carries(bin, R(o, "stage"))
    BY <1>b DEF Carries, Operation
  <2>4. op' = [op EXCEPT ![o] = R(o, "stage")] /\ UNCHANGED <<bin, link, next, disturbed>>
    BY <1>6, <1>c DEF MarkInstalling
  <2>5. Present(bin, row'.active) /\ Present(bin, row'.previous)
    BY <2>2, <1>b DEF Carries
  <2> HIDE DEF R
  <2> QED
    BY <2>2, <2>3, <2>4, <2>5, <1>a, <1>c, ReplaceStep DEF TypeOK, DiskInv
<1>7. ASSUME NEW o \in Op, ExtractBegin(o) \/ ExtractEnd(o) PROVE IInv'
  <2>0. PICK state \in {"torn", "whole"}, pc \in {"extract", "next"} :
        /\ bin' = [bin EXCEPT ![op[o].target] = state]
        /\ Goto(o, pc)
        /\ UNCHANGED <<link, next, row, disturbed>>
    BY <1>7 DEF ExtractBegin, ExtractEnd
  <2>1. /\ bin' \in [Version -> {"absent", "torn", "whole"}]
        /\ \A v \in Version : bin[v] # "absent" => bin'[v] # "absent"
        /\ op[o].target \in Version => bin'[op[o].target] # "absent"
    BY <2>0, <1>a DEF TypeOK
  <2>g. /\ \A v : Present(bin, v) => Present(bin', v)
        /\ \A r : Carries(bin, r) => Carries(bin', r)
    BY <2>1, PresentGrows
  <2>2. Present(bin', op[o].target)
    BY <2>1, <1>b DEF Present, Operation, MaybeVersion
  <2>3. Carries(bin', op[o])
    BY <2>g, <1>b
  <2>4. Carries(bin', R(o, pc))
    BY <2>2, <2>3, <1>b DEF Carries, Operation
  <2>5. Present(bin', row.active) /\ Present(bin', row.previous)
    BY <2>g, <1>a DEF DiskInv
  <2>6. op' = [op EXCEPT ![o] = R(o, pc)] /\ R(o, pc) \in Operation
    BY <2>0, <1>c
  <2> HIDE DEF R
  <2> QED
    BY <2>0, <2>1, <2>2, <2>4, <2>5, <2>6, <1>a, ReplaceStep DEF TypeOK
<1>8. ASSUME NEW o \in Op, LinkNext(o) PROVE IInv'
  <2>1. Present(bin, op[o].target) /\ Carries(bin, R(o, "rename"))
    BY <1>8, <1>b DEF LinkNext, Carries, Operation
  <2>2. op' = [op EXCEPT ![o] = R(o, "rename")] /\ R(o, "rename") \in Operation
    BY <1>8, <1>c DEF LinkNext
  <2>3. next' = op[o].target /\ UNCHANGED <<bin, link, row, disturbed>>
    BY <1>8 DEF LinkNext
  <2> HIDE DEF R
  <2> QED
    BY <2>1, <2>2, <2>3, <1>a, ReplaceStep DEF TypeOK, DiskInv
<1>d. ASSUME NEW o \in Op, End(o), UNCHANGED <<bin, row>>, disturbed' \in BOOLEAN,
             link' \in {link, next}, next' \in {next, None}
      PROVE  IInv'
  <2>1. op' = [op EXCEPT ![o] = Idle] /\ Idle \in Operation /\ Carries(bin, Idle)
    BY <1>d, IdleCarries DEF End
  <2>2. next' = op[o].target => Present(bin, op[o].target)
    BY <1>d, <1>a DEF DiskInv, Present
  <2> QED
    BY <1>d, <2>1, <2>2, <1>a, ReplaceStep DEF TypeOK, DiskInv
<1>9. ASSUME NEW o \in Op, LinkRename(o) PROVE IInv'
  <2>0. disturbed' \in BOOLEAN /\ UNCHANGED <<bin, row>>
    BY <1>9, <1>a DEF LinkRename, TypeOK
  <2>1. CASE End(o)
    BY <1>9, <1>d, <2>0, <2>1 DEF LinkRename
  <2>2. CASE Goto(o, "probe") /\ link' = next /\ next' = None
    <3>1. Carries(bin, R(o, "probe"))
      BY <1>9, <1>b DEF LinkRename, Carries, Operation
    <3>2. op' = [op EXCEPT ![o] = R(o, "probe")] /\ R(o, "probe") \in Operation
      BY <2>2, <1>c
    <3>3. next' = op[o].target => Present(bin, op[o].target)
      BY <2>2 DEF Present
    <3> HIDE DEF R
    <3> QED
      BY <2>0, <2>2, <3>1, <3>2, <3>3, <1>a, ReplaceStep DEF TypeOK, DiskInv
  <2> QED
    BY <1>9, <2>1, <2>2 DEF LinkRename
<1>e. ASSUME NEW o \in Op, NEW r \in Operation, op' = [op EXCEPT ![o] = r], Carries(bin, r),
             UNCHANGED <<bin, link, next, row, disturbed>>
      PROVE  IInv'
  <2>1. next' = op[o].target => Present(bin, op[o].target)
    BY <1>e, <1>a DEF DiskInv
  <2> QED
    BY <1>e, <2>1, <1>a, ReplaceStep DEF TypeOK, DiskInv
<1>10. ASSUME NEW o \in Op, ProbeOK(o) PROVE IInv'
  <2> DEFINE r == [op[o] EXCEPT !.pc = "save", !.found = Probed(o)]
  <2>1. Probed(o) \in MaybeVersion /\ Present(bin, Probed(o))
    BY <1>10, <1>a, <1>b DEF ProbeOK, Probed, DiskInv, Carries, Present, MaybeVersion
  <2>2. op' = [op EXCEPT ![o] = r]
    BY <1>10, <1>a DEF ProbeOK, TypeOK
  <2>3. r \in Operation /\ Carries(bin, r)
    BY <1>10, <1>b, <2>1 DEF ProbeOK, Carries, Operation
  <2> HIDE DEF r
  <2> QED
    BY <1>10, <1>e, <2>2, <2>3 DEF ProbeOK
<1>11. ASSUME NEW o \in Op, ProbeFails(o) PROVE IInv'
  <2>0. UNCHANGED <<bin, link, next, row, disturbed>> /\ op[o].pc = "probe"
    BY <1>11 DEF ProbeFails
  <2>1. CASE op' = [op EXCEPT ![o].pc = "save", ![o].found = None]
    <3> DEFINE r == [op[o] EXCEPT !.pc = "save", !.found = None]
    <3>1. op' = [op EXCEPT ![o] = r]
      BY <2>1, <1>a DEF TypeOK
    <3>2. r \in Operation /\ Carries(bin, r)
      BY <2>0, <1>b DEF Carries, Operation, MaybeVersion, Present
    <3> HIDE DEF r
    <3> QED
      BY <2>0, <3>1, <3>2, <1>e
  <2>2. CASE op' = [op EXCEPT ![o].pc = "next", ![o].target = op[o].cur.active,
                              ![o].undo = TRUE]
    <3> DEFINE r == [op[o] EXCEPT !.pc = "next", !.target = op[o].cur.active, !.undo = TRUE]
    <3>1. op' = [op EXCEPT ![o] = r]
      BY <2>2, <1>a DEF TypeOK
    <3>2. r \in Operation /\ Carries(bin, r)
      BY <1>b DEF Carries, Operation, Row
    <3> HIDE DEF r
    <3> QED
      BY <2>0, <3>1, <3>2, <1>e
  <2>3. CASE End(o)
    BY <2>0, <2>3, <1>a, <1>d DEF TypeOK
  <2> QED
    BY <1>11, <2>1, <2>2, <2>3 DEF ProbeFails
<1>12. ASSUME NEW o \in Op, SaveState(o) PROVE IInv'
  <2>1. /\ Saved(op[o]) \in Row
        /\ Present(bin, Saved(op[o]).active) /\ Present(bin, Saved(op[o]).previous)
    BY <1>b, SavedPresent
  <2>2. /\ row' = Saved(op[o]) /\ UNCHANGED <<bin, link, next, disturbed>>
        /\ op' = [op EXCEPT ![o] = Idle]
    BY <1>12 DEF SaveState, End
  <2>3. Idle \in Operation /\ Carries(bin, Idle)
    BY IdleCarries
  <2>4. next' = op[o].target => Present(bin, op[o].target)
    BY <2>2, <1>a DEF DiskInv
  <2> QED
    BY <2>1, <2>2, <2>3, <2>4, <1>a, ReplaceStep DEF TypeOK
<1>13. ASSUME NEW o \in Op, CutOff(o) PROVE IInv'
  <2>1. /\ End(o) /\ UNCHANGED <<bin, link, row>> /\ next' \in {next, None}
        /\ disturbed' \in BOOLEAN
    BY <1>13, <1>a DEF CutOff, TypeOK, Unsafe
  <2> QED
    BY <2>1, <1>d
<1> QED
  BY <1>1, <1>2, <1>3, <1>4, <1>5, <1>6, <1>7, <1>8, <1>9, <1>10, <1>11, <1>12, <1>13 DEF Next

(* activate and Rollback, for any number of versions and of overlapping    *)
(* operations that fail or are cut off anywhere: the active link and the   *)
(* versions in the row have a binary on disk.                              *)
THEOREM TargetsAlwaysOnDisk == Spec => []TargetsOnDisk
<1>1. IInv => TargetsOnDisk
  BY DEF IInv, DiskInv, Present, TargetsOnDisk, OnDisk
<1> QED
  BY <1>1, InitDisk, StepDisk, PTL DEF Spec

-----------------------------------------------------------------------------
(* The link l is where the row w says, if it says so.                      *)
Sync(l, w) == w.active = None \/ l = w.active

(* The one operation r in flight, where the links are l and n and the row  *)
(* is w.                                                                   *)
InFlight(r, l, n, w) ==
    /\ r.kind = "status" =>
          /\ r.pc \in {"probe", "save"} /\ r.cur.active = w.active /\ Sync(l, w)
          /\ r.pc = "save" => r.found \in {None, l}
    /\ r.kind # "status" =>
          /\ r.target # None
          /\ r.pc = "mark" => r.cur.active = w.active \/ Misread(r)
          /\ r.pc # "mark" => r.cur.active = w.active
          /\ r.pc \in {"mark", "stage", "extract"} => Sync(l, w) /\ ~r.undo
          /\ r.pc \in {"next", "rename"} => IF r.undo THEN r.target = w.active ELSE Sync(l, w)
          /\ r.pc = "rename" => n = r.target
          /\ r.pc \in {"probe", "save"} => l = r.target /\ ~r.undo
          /\ r.pc = "save" => r.found = l

LinkInv ==
    ~disturbed =>
        /\ \A o, p \in Op : op[o].pc # "idle" /\ op[p].pc # "idle" => o = p
        /\ ~Busy => Sync(link, row)
        /\ \A o \in Op : op[o].pc # "idle" => InFlight(op[o], link, next, row)

(* The only operation in flight takes a step.                              *)
LEMMA OnlyOperation ==
    ASSUME TypeOK, NEW o \in Op, NEW r \in Operation,
           \A p \in Op : op[p].pc # "idle" => p = o,
           op' = [op EXCEPT ![o] = r],
           r.pc = "idle" => Sync(link', row'),
           r.pc # "idle" => InFlight(r, link', next', row')
    PROVE  LinkInv'
<1>1. op'[o] = r /\ \A p \in Op : p # o => op'[p].pc = "idle"
  BY DEF TypeOK
<1>2. Busy' => r.pc # "idle"
  BY <1>1 DEF Busy
<1>3. ~Busy' => r.pc = "idle"
  BY <1>1 DEF Busy
<1> QED
  BY <1>1, <1>2, <1>3 DEF LinkInv

(* An operation that starts alone.                                         *)
LEMMA BeginAlone ==
    ASSUME IInv, LinkInv, NEW o \in Op, NEW kind \in {"install", "upgrade", "rollback", "status"},
           NEW pc \in {"mark", "next", "probe"}, NEW target \in MaybeVersion,
           NEW cur \in {row, NoRow},
           kind = "status" <=> pc = "probe",
           kind = "install" => pc = "mark",
           kind # "install" => cur = row,
           kind # "status" => target # None,
           Begin(o, kind, pc, target, cur)
    PROVE  LinkInv'
<1> SUFFICES ASSUME ~disturbed' PROVE LinkInv'
  BY DEF LinkInv
<1> DEFINE r == [Idle EXCEPT !.pc = pc, !.kind = kind, !.target = target, !.cur = cur]
<1>1. /\ op' = [op EXCEPT ![o] = r] /\ ~disturbed /\ ~Busy
      /\ UNCHANGED <<bin, link, next, row>>
  BY DEF Begin
<1>2. /\ r \in Operation /\ r.pc = pc /\ r.kind = kind /\ r.target = target /\ r.cur = cur
      /\ ~r.undo
  BY IdleCarries DEF IInv, TypeOK, Idle, Operation
<1>3. Sync(link, row) /\ \A p \in Op : op[p].pc = "idle"
  BY <1>1 DEF LinkInv, Busy
<1>4. InFlight(r, link, next, row)
  BY <1>2, <1>3 DEF InFlight, Misread
<1> HIDE DEF r
<1> QED
  BY <1>1, <1>2, <1>3, <1>4, OnlyOperation DEF IInv

(* Every step keeps the link and the row together.                         *)
LEMMA StepLink == IInv /\ LinkInv /\ [Next]_vars => LinkInv'
<1> SUFFICES ASSUME IInv, LinkInv, [Next]_vars, ~disturbed' PROVE LinkInv'
  BY DEF LinkInv
<1>a. TypeOK
  BY DEF IInv
<1>1. CASE UNCHANGED vars
  BY <1>1 DEF LinkInv, Busy, vars
<1>2. ASSUME NEW o \in Op, NEW v \in Version, Install(o, v) PROVE LinkInv'
  BY <1>2, BeginAlone, FeatureRuntimeAssumption DEF Install, MaybeVersion
<1>3. ASSUME NEW o \in Op, NEW v \in Version, Upgrade(o, v) PROVE LinkInv'
  BY <1>3, BeginAlone, FeatureRuntimeAssumption DEF Upgrade, MaybeVersion
<1>4. ASSUME NEW o \in Op, Rollback(o) PROVE LinkInv'
  <2>1. row.previous \in MaybeVersion
    BY <1>a DEF TypeOK, Row
  <2> QED
    BY <1>4, <2>1, BeginAlone DEF Rollback
<1>5. ASSUME NEW o \in Op, Status(o) PROVE LinkInv'
  BY <1>5, BeginAlone DEF Status, MaybeVersion
<1>b. ASSUME NEW o \in Op, op[o].pc # "idle", ~disturbed
      PROVE  /\ op[o] \in Operation /\ InFlight(op[o], link, next, row)
             /\ \A p \in Op : op[p].pc # "idle" => p = o
  BY <1>b, <1>a DEF TypeOK, LinkInv
<1> DEFINE R(o, pc) == [op[o] EXCEPT !.pc = pc]
<1>c. ASSUME NEW o \in Op, NEW pc \in {"stage", "extract", "next", "rename", "probe"}, Goto(o, pc)
      PROVE  /\ R(o, pc) \in Operation /\ op' = [op EXCEPT ![o] = R(o, pc)]
             /\ R(o, pc).pc = pc /\ R(o, pc).kind = op[o].kind /\ R(o, pc).undo = op[o].undo
             /\ R(o, pc).target = op[o].target /\ R(o, pc).cur = op[o].cur
  BY <1>c, <1>a DEF TypeOK, Operation, Goto
<1>d. ASSUME NEW o \in Op, op[o].pc # "idle", ~disturbed, End(o), Sync(link', row') PROVE LinkInv'
  <2>1. op' = [op EXCEPT ![o] = Idle] /\ Idle \in Operation /\ Idle.pc = "idle"
    BY <1>d, IdleCarries DEF End, Idle
  <2> QED
    BY <1>a, <1>b, <1>d, <2>1, OnlyOperation
<1> HIDE DEF R
<1>6. ASSUME NEW o \in Op, MarkInstalling(o) PROVE LinkInv'
  <2>1. /\ op[o].pc = "mark" /\ row' = [op[o].cur EXCEPT !.status = "installing"]
        /\ Goto(o, "stage") /\ UNCHANGED <<bin, link, next, disturbed>>
    BY <1>6 DEF MarkInstalling
  <2>2. InFlight(op[o], link, next, row) /\ op[o] \in Operation
    BY <1>b, <2>1
  <2>3. row'.active = op[o].cur.active
    BY <2>1, <2>2 DEF Operation, Row
  <2>4. InFlight(R(o, "stage"), link', next', row')
    BY <1>c, <2>1, <2>2, <2>3 DEF InFlight, Sync, Misread, NoRow
  <2> QED
    BY <1>a, <1>b, <1>c, <2>1, <2>4, OnlyOperation
<1>7. ASSUME NEW o \in Op, ExtractBegin(o) \/ ExtractEnd(o) PROVE LinkInv'
  <2>0. PICK pc \in {"extract", "next"} :
          /\ op[o].pc \in {"stage", "extract"} /\ Goto(o, pc)
          /\ UNCHANGED <<link, next, row, disturbed>>
    BY <1>7 DEF ExtractBegin, ExtractEnd
  <2>1. InFlight(R(o, pc), link', next', row')
    BY <1>b, <1>c, <2>0 DEF InFlight
  <2> QED
    BY <1>a, <1>b, <1>c, <2>0, <2>1, OnlyOperation
<1>8. ASSUME NEW o \in Op, LinkNext(o) PROVE LinkInv'
  <2>0. /\ op[o].pc = "next" /\ Goto(o, "rename") /\ next' = op[o].target
        /\ UNCHANGED <<bin, link, row, disturbed>>
    BY <1>8 DEF LinkNext
  <2>1. InFlight(R(o, "rename"), link', next', row')
    BY <1>b, <1>c, <2>0 DEF InFlight
  <2> QED
    BY <1>a, <1>b, <1>c, <2>0, <2>1, OnlyOperation
<1>9. ASSUME NEW o \in Op, LinkRename(o) PROVE LinkInv'
  <2>0. op[o].pc = "rename" /\ UNCHANGED <<bin, row, disturbed>>
    BY <1>9 DEF LinkRename
  <2>1. InFlight(op[o], link, next, row) /\ next = op[o].target /\ next # None
    BY <1>b, <2>0 DEF InFlight
  <2>2. /\ link' = next /\ next' = None
        /\ IF op[o].undo THEN End(o) ELSE Goto(o, "probe")
    BY <1>9, <2>1 DEF LinkRename
  <2>3. CASE op[o].undo
    BY <1>d, <2>0, <2>1, <2>2, <2>3 DEF InFlight, Sync
  <2>4. CASE ~op[o].undo
    <3>1. InFlight(R(o, "probe"), link', next', row')
      BY <1>c, <2>0, <2>1, <2>2, <2>4 DEF InFlight
    <3> QED
      BY <1>a, <1>b, <1>c, <2>0, <2>2, <2>4, <3>1, OnlyOperation
  <2> QED
    BY <2>3, <2>4
<1>10. ASSUME NEW o \in Op, ProbeOK(o) PROVE LinkInv'
  <2> DEFINE r == [op[o] EXCEPT !.pc = "save", !.found = Probed(o)]
  <2>0. op[o].pc = "probe" /\ UNCHANGED <<bin, link, next, row, disturbed>>
    BY <1>10 DEF ProbeOK
  <2>1. InFlight(op[o], link, next, row) /\ op[o] \in Operation
    BY <1>b, <2>0
  <2>2. Probed(o) = link
    BY <2>0, <2>1 DEF Probed, InFlight
  <2>3. op' = [op EXCEPT ![o] = r]
    BY <1>10, <1>a DEF ProbeOK, TypeOK
  <2>4. /\ r \in Operation /\ r.pc = "save" /\ r.kind = op[o].kind /\ r.target = op[o].target
        /\ r.cur = op[o].cur /\ r.undo = op[o].undo /\ r.found = link
    BY <1>a, <2>1, <2>2 DEF Operation, TypeOK
  <2> HIDE DEF r
  <2>5. InFlight(r, link', next', row')
    BY <2>0, <2>1, <2>4 DEF InFlight
  <2> QED
    BY <1>a, <1>b, <2>0, <2>3, <2>4, <2>5, OnlyOperation
<1>11. ASSUME NEW o \in Op, ProbeFails(o) PROVE LinkInv'
  <2>0. op[o].pc = "probe" /\ UNCHANGED <<bin, link, next, row, disturbed>>
    BY <1>11 DEF ProbeFails
  <2>1. InFlight(op[o], link, next, row) /\ op[o] \in Operation
    BY <1>b, <2>0
  <2>2. CASE op[o].kind = "status" /\ op' = [op EXCEPT ![o].pc = "save", ![o].found = None]
    <3> DEFINE r == [op[o] EXCEPT !.pc = "save", !.found = None]
    <3>1. op' = [op EXCEPT ![o] = r]
      BY <2>2, <1>a DEF TypeOK
    <3>2. /\ r \in Operation /\ r.pc = "save" /\ r.kind = "status" /\ r.cur = op[o].cur
          /\ r.found = None
      BY <2>1, <2>2 DEF Operation, MaybeVersion
    <3> HIDE DEF r
    <3>3. InFlight(r, link', next', row')
      BY <2>0, <2>1, <2>2, <3>2 DEF InFlight
    <3> QED
      BY <1>a, <1>b, <2>0, <3>1, <3>2, <3>3, OnlyOperation
  <2>3. CASE /\ op[o].kind # "status" /\ op[o].cur.active # None
             /\ op' = [op EXCEPT ![o].pc = "next", ![o].target = op[o].cur.active,
                                 ![o].undo = TRUE]
    <3> DEFINE r == [op[o] EXCEPT !.pc = "next", !.target = op[o].cur.active, !.undo = TRUE]
    <3>1. op' = [op EXCEPT ![o] = r]
      BY <2>3, <1>a DEF TypeOK
    <3>2. /\ r \in Operation /\ r.pc = "next" /\ r.kind = op[o].kind /\ r.cur = op[o].cur
          /\ r.target = op[o].cur.active /\ r.undo
      BY <2>1 DEF Operation, Row
    <3> HIDE DEF r
    <3>3. InFlight(r, link', next', row')
      BY <2>0, <2>1, <2>3, <3>2 DEF InFlight
    <3> QED
      BY <1>a, <1>b, <2>0, <3>1, <3>2, <3>3, OnlyOperation
  <2>4. CASE op[o].kind # "status" /\ op[o].cur.active = None /\ End(o)
    BY <1>d, <2>0, <2>1, <2>4 DEF InFlight, Sync
  <2> QED
    BY <1>11, <2>2, <2>3, <2>4 DEF ProbeFails
<1>12. ASSUME NEW o \in Op, SaveState(o) PROVE LinkInv'
  <2>0. /\ op[o].pc = "save" /\ row' = Saved(op[o]) /\ End(o)
        /\ UNCHANGED <<bin, link, next, disturbed>>
    BY <1>12 DEF SaveState
  <2>1. InFlight(op[o], link, next, row) /\ op[o] \in Operation
    BY <1>b, <2>0
  <2>2. Sync(link, row')
    <3>1. CASE op[o].kind = "status" /\ op[o].found = None
      BY <2>0, <2>1, <3>1 DEF Saved, InFlight, Sync, Operation, Row
    <3>2. CASE op[o].kind = "status" /\ op[o].found # None
      BY <2>0, <2>1, <3>2 DEF Saved, InFlight, Sync, Operation, Row
    <3>3. CASE op[o].kind # "status"
      BY <2>0, <2>1, <3>3 DEF Saved, InFlight, Sync
    <3> QED
      BY <3>1, <3>2, <3>3
  <2> QED
    BY <1>d, <2>0, <2>2
<1>13. ASSUME NEW o \in Op, CutOff(o) PROVE LinkInv'
  <2>0. /\ op[o].pc # "idle" /\ ~disturbed /\ ~Unsafe(op[o]) /\ End(o)
        /\ UNCHANGED <<bin, link, row>>
    BY <1>13 DEF CutOff
  <2>1. InFlight(op[o], link, next, row) /\ op[o] \in Operation
    BY <1>b, <2>0
  <2>2. Sync(link, row)
    BY <2>0, <2>1 DEF InFlight, Unsafe, Operation
  <2> QED
    BY <1>d, <2>0, <2>2
<1> QED
  BY <1>1, <1>2, <1>3, <1>4, <1>5, <1>6, <1>7, <1>8, <1>9, <1>10, <1>11, <1>12, <1>13 DEF Next

(* Both invariants together.                                               *)
LEMMA InvAlways == Spec => [](IInv /\ LinkInv)
<1>1. Init => LinkInv
  BY DEF Init, LinkInv, Busy, Sync, NoRow, Idle
<1> QED
  BY <1>1, InitDisk, StepDisk, StepLink, PTL DEF Spec

(* activate and Rollback, for any number of versions: operations one after *)
(* the other, failing before the link is moved or at the probe behind it,  *)
(* leave the link at the version the row calls active.                     *)
THEOREM LinkAlwaysFollowsRow == Spec => []LinkFollowsRow
<1>1. LinkInv => LinkFollowsRow
  BY DEF LinkInv, LinkFollowsRow, Sync
<1> QED
  BY <1>1, InvAlways, PTL

(* Of operations one after the other, one that takes the active version    *)
(* out of the row leaves it as the target of a rollback, but for the mark  *)
(* of an install whose read of the row failed.                             *)
THEOREM FormerAlwaysKept == Spec => SwitchKeepsFormer
<1> DEFINE Kept == \/ row'.previous = row.active
                   \/ \E o \in Op : Misread(op[o]) /\ op'[o].pc = "stage"
<1>1. ASSUME IInv, LinkInv, [Next]_vars, ~disturbed', row.active # None,
             row'.active # row.active
      PROVE  Kept
  <2>a. TypeOK /\ row' # row
    BY <1>1 DEF IInv
  <2>b. ASSUME NEW o \in Op, op[o].pc # "idle", ~disturbed
        PROVE  op[o] \in Operation /\ InFlight(op[o], link, next, row)
    BY <2>a, <2>b, <1>1 DEF TypeOK, LinkInv
  <2>1. ASSUME NEW o \in Op, MarkInstalling(o) PROVE Kept
    <3>1. /\ op[o].pc = "mark" /\ row' = [op[o].cur EXCEPT !.status = "installing"] /\ ~disturbed
          /\ op' = [op EXCEPT ![o].pc = "stage"]
      BY <1>1, <2>1 DEF MarkInstalling, Goto
    <3>2. op[o] \in Operation /\ InFlight(op[o], link, next, row)
      BY <3>1, <2>b
    <3>3. row'.active = op[o].cur.active /\ op'[o].pc = "stage"
      BY <3>1, <3>2, <2>a DEF Operation, Row, TypeOK
    <3>4. op[o].cur.active = row.active \/ Misread(op[o])
      BY <3>1, <3>2 DEF InFlight
    <3> QED
      BY <1>1, <3>3, <3>4
  <2>2. ASSUME NEW o \in Op, SaveState(o) PROVE Kept
    <3>1. op[o].pc = "save" /\ row' = Saved(op[o]) /\ ~disturbed
      BY <1>1, <2>2 DEF SaveState
    <3>2. InFlight(op[o], link, next, row) /\ op[o] \in Operation
      BY <2>b, <3>1
    <3>3. CASE op[o].kind = "status" /\ op[o].found = None
      BY <1>1, <3>1, <3>2, <3>3 DEF Saved, InFlight, Operation, Row
    <3>4. CASE op[o].kind = "status" /\ op[o].found # None
      BY <1>1, <3>1, <3>2, <3>4 DEF Saved, InFlight, Sync, Operation, Row
    <3>5. CASE op[o].kind # "status"
      BY <3>1, <3>2, <3>5 DEF Saved, InFlight
    <3> QED
      BY <3>3, <3>4, <3>5
  <2> HIDE DEF Kept
  <2> QED
    BY <1>1, <2>a, <2>1, <2>2 DEF Next, vars, Install, Upgrade, Rollback, Status, Begin,
         ExtractBegin, ExtractEnd, LinkNext, LinkRename, ProbeOK, ProbeFails, CutOff
<1>2. IInv /\ LinkInv /\ [Next]_vars =>
        [~disturbed' /\ row.active # None /\ row'.active # row.active => Kept]_vars
  BY <1>1
<1> QED
  BY <1>2, InvAlways, PTL DEF Spec, SwitchKeepsFormer

-----------------------------------------------------------------------------
(***************************************************************************)
(* Compose.  What a setup has done is where its program counter is, and a  *)
(* stack that nobody manages was left by a down that failed or a setup     *)
(* that died.                                                              *)
(***************************************************************************)
ComposeTypes ==
    /\ DOMAIN stack = {"phase", "readyLines", "initLine", "volume", "admin", "registry"}
    /\ DOMAIN project = {"dir", "compose", "env", "provenance"}
    /\ DOMAIN deploy = {"pc", "bundled", "password", "bad"}

\* Nothing is left over, or what is was left by a failure.
Clean == stack = NoStack \/ downFailed

\* Where the setup is, and what it has done so far.
DeployInv ==
    /\ deploy.pc = "idle" => deploy = NoDeploy
    /\ deploy.pc = "idle" /\ deployed = "done" => project.dir
    /\ deploy.pc = "idle" /\ deployed # "done" => Clean
    /\ deploy.pc = "files" => ~project.dir /\ Clean
    /\ deploy.pc \notin {"idle", "files"} => project.dir
    /\ deploy.pc \in {"registry", "reach", "save"} =>
          IF deploy.bundled THEN stack.admin /\ stack.volume = project.env ELSE external = "same"
    /\ deploy.pc \in {"reach", "save"} => stack.registry
    /\ deploy.pc = "files gone" => (deploy.bad => downFailed) /\ (~deploy.bad => stack = NoStack)
    /\ deploy.pc # "files gone" => ~deploy.bad

ComposeInv == ComposeTypes /\ DeployInv

\* Before the first setup nothing is there.
LEMMA ComposeStart == ComposeInit => ComposeInv
BY DEF ComposeInit, ComposeInv, ComposeTypes, DeployInv, Clean, NoProject, NoStack, NoDeploy

\* No step changes which fields the records have.
LEMMA ComposeTypesKept == ComposeTypes /\ [ComposeNext]_composeVars => ComposeTypes'
<1> SUFFICES ASSUME ComposeTypes, [ComposeNext]_composeVars PROVE ComposeTypes'
  OBVIOUS
<1> USE DEF ComposeTypes, GoTo, Finish, RollBack, NoDeploy
<1>1. ASSUME NEW bundled \in BOOLEAN, BeginDeploy(bundled) PROVE ComposeTypes'
  BY <1>1 DEF BeginDeploy, generateBundledPassword
<1>2. CASE WriteProject
  BY <1>2 DEF WriteProject, NoProject
<1>3. CASE StartDatabase
  BY <1>3 DEF StartDatabase
<1>4. CASE TemporaryServer
  BY <1>4 DEF TemporaryServer
<1>5. CASE InitComplete
  BY <1>5 DEF InitComplete
<1>6. CASE FinalServer
  BY <1>6 DEF FinalServer
<1>7. CASE WaitPostgresReady
  BY <1>7 DEF WaitPostgresReady
<1>8. CASE BootstrapAdmin
  BY <1>8 DEF BootstrapAdmin
<1>9. CASE StartRegistry
  BY <1>9 DEF StartRegistry
<1>10. CASE WaitRegistry
  BY <1>10 DEF WaitRegistry
<1>11. CASE SaveProvenance
  BY <1>11 DEF SaveProvenance
<1>12. CASE ComposeDown
  BY <1>12 DEF ComposeDown, NoStack
<1>13. CASE RemoveProject
  BY <1>13 DEF RemoveProject, NoProject
<1>14. CASE DeployDies
  BY <1>14 DEF DeployDies
<1>15. CASE RemoveByHand
  BY <1>15 DEF RemoveByHand, NoProject
<1>16. CASE UNCHANGED composeVars
  BY <1>16 DEF composeVars
<1> QED
  BY <1>1, <1>2, <1>3, <1>4, <1>5, <1>6, <1>7, <1>8, <1>9, <1>10, <1>11, <1>12, <1>13, <1>14, <1>15, <1>16 DEF ComposeNext

\* Every step of a setup leaves what the next place expects.
LEMMA DeployKept == ComposeInv /\ ComposeTypes' /\ [ComposeNext]_composeVars => DeployInv'
<1> SUFFICES ASSUME ComposeInv, ComposeTypes', [ComposeNext]_composeVars PROVE DeployInv'
  OBVIOUS
<1>0. /\ NoDeploy.pc = "idle" /\ ~NoDeploy.bad /\ NoStack.phase = "absent" /\ ~NoProject.dir
  BY DEF NoDeploy, NoStack, NoProject
<1> USE DEF ComposeInv, ComposeTypes, DeployInv, Clean, GoTo, Finish, RollBack
<1>1. ASSUME NEW bundled \in BOOLEAN, BeginDeploy(bundled) PROVE DeployInv'
  BY <1>1 DEF BeginDeploy, NoDeploy
<1>2. CASE WriteProject
  <2>1. CASE deploy' = NoDeploy
    BY <1>0, <1>2, <2>1 DEF WriteProject
  <2>2. CASE deploy' # NoDeploy
    <3>1. /\ project' = [dir |-> TRUE, compose |-> TRUE, env |-> deploy.password, provenance |-> FALSE]
          /\ deploy' = [deploy EXCEPT !.pc = "database"] /\ deploy.pc = "files" /\ deployed' = deployed
      BY <1>2, <2>2 DEF WriteProject
    <3>2. project'.dir /\ deploy'.pc = "database" /\ deploy'.bad = deploy.bad
      BY <3>1
    <3> QED
      BY <3>1, <3>2
  <2> QED
    BY <2>1, <2>2
<1>3. CASE StartDatabase
  BY <1>3 DEF StartDatabase
<1>4. CASE TemporaryServer
  <2>1. stack # NoStack /\ stack'.admin = stack.admin /\ stack'.volume = stack.volume
        /\ stack'.registry = stack.registry
    BY <1>0, <1>4 DEF TemporaryServer
  <2> QED
    BY <1>4, <2>1 DEF TemporaryServer
<1>5. CASE InitComplete
  <2>1. stack # NoStack /\ stack'.admin = stack.admin /\ stack'.volume = stack.volume
        /\ stack'.registry = stack.registry
    BY <1>0, <1>5 DEF InitComplete
  <2> QED
    BY <1>5, <2>1 DEF InitComplete
<1>6. CASE FinalServer
  <2>1. stack # NoStack /\ stack'.admin = stack.admin /\ stack'.volume = stack.volume
        /\ stack'.registry = stack.registry
    BY <1>0, <1>6 DEF FinalServer
  <2> QED
    BY <1>6, <2>1 DEF FinalServer
<1>7. CASE WaitPostgresReady
  BY <1>7 DEF WaitPostgresReady
<1>8. CASE BootstrapAdmin
  BY <1>8 DEF BootstrapAdmin, CanBootstrap
<1>9. CASE StartRegistry
  BY <1>9 DEF StartRegistry
<1>10. CASE WaitRegistry
  BY <1>10 DEF WaitRegistry
<1>11. CASE SaveProvenance
  <2>1. CASE deploy' = NoDeploy
    BY <1>0, <1>11, <2>1 DEF SaveProvenance
  <2>2. CASE deploy' # NoDeploy
    BY <1>0, <1>11, <2>2 DEF SaveProvenance
  <2> QED
    BY <2>1, <2>2
<1>12. CASE ComposeDown
  BY <1>12 DEF ComposeDown
<1>13. CASE RemoveProject
  BY <1>0, <1>13 DEF RemoveProject
<1>14. CASE DeployDies
  BY <1>0, <1>14 DEF DeployDies
<1>15. CASE RemoveByHand
  BY <1>0, <1>15 DEF RemoveByHand, NoProject
<1>16. CASE UNCHANGED composeVars
  BY <1>16 DEF composeVars
<1> QED
  BY <1>1, <1>2, <1>3, <1>4, <1>5, <1>6, <1>7, <1>8, <1>9, <1>10, <1>11, <1>12, <1>13, <1>14, <1>15, <1>16 DEF ComposeNext

\* Types and places together are an invariant.
LEMMA ComposeAlways == ComposeSpec => []ComposeInv
<1>1. ComposeInv /\ [ComposeNext]_composeVars => ComposeInv'
  BY ComposeTypesKept, DeployKept DEF ComposeInv
<1> QED
  BY <1>1, ComposeStart, PTL DEF ComposeSpec

(* For any number of setups, failing calls and setups that die: a docker   *)
(* setup that claims success left a registry on a database with an admin   *)
(* it can log in to, one that says it was rolled back left nothing, and a  *)
(* stack without its directory was left by a down that failed or a setup   *)
(* that died (cmd/regixtry/main.go runSetup, rollbackDockerSetupFailure).  *)
THEOREM DockerReportsAlwaysTrue == ComposeSpec => DockerReportsAreTrue
<1>1. ComposeInv => OrphansExplained
  BY DEF ComposeInv, ComposeTypes, DeployInv, OrphansExplained, Clean
<1>2. ComposeInv /\ [ComposeNext]_composeVars => [DeployedWorks]_composeVars
  <2> SUFFICES ASSUME ComposeInv, ComposeNext, Ends("done")
               PROVE  /\ stack'.registry /\ project'.dir /\ project'.provenance
                      /\ IF deploy.bundled THEN stack'.admin /\ stack'.volume = project'.env
                         ELSE external' = "same"
    BY DEF DeployedWorks
  <2>1. SaveProvenance /\ project' = [project EXCEPT !.provenance = TRUE]
    BY DEF ComposeNext, Ends, GoTo, Finish, RollBack, BeginDeploy, WriteProject, StartDatabase,
           TemporaryServer, InitComplete, FinalServer, WaitPostgresReady, BootstrapAdmin,
           StartRegistry, WaitRegistry, SaveProvenance, ComposeDown, RemoveProject, DeployDies,
           RemoveByHand
  <2> QED
    BY <2>1 DEF SaveProvenance, ComposeInv, ComposeTypes, DeployInv
<1>3. ComposeInv /\ [ComposeNext]_composeVars => [RolledBackClean]_composeVars
  <2> SUFFICES ASSUME ComposeInv, ComposeNext, Ends("rolled back")
               PROVE  project' = NoProject /\ stack' = NoStack
    BY DEF RolledBackClean
  <2>1. RemoveProject /\ project' = NoProject /\ ~deploy.bad
    BY DEF ComposeNext, Ends, GoTo, Finish, RollBack, BeginDeploy, WriteProject, StartDatabase,
           TemporaryServer, InitComplete, FinalServer, WaitPostgresReady, BootstrapAdmin,
           StartRegistry, WaitRegistry, SaveProvenance, ComposeDown, RemoveProject, DeployDies,
           RemoveByHand
  <2> QED
    BY <2>1 DEF RemoveProject, ComposeInv, DeployInv
<1>4. ComposeInv /\ ComposeInv' /\ [ComposeNext]_composeVars
        => [DeployedWorks /\ RolledBackClean /\ OrphansExplained']_composeVars
  <2>1. ComposeInv' => OrphansExplained'
    BY <1>1, PTL
  <2> QED
    BY <1>2, <1>3, <2>1
<1> QED
  BY <1>4, ComposeAlways, PTL DEF ComposeSpec, DockerReportsAreTrue

-----------------------------------------------------------------------------
(***************************************************************************)
(* The installer.  Where a command is in its list of steps says what it    *)
(* has done so far: the inductive invariant has one part for each of the   *)
(* five lists, and a list's part says which files each step has left       *)
(* behind.                                                                 *)
(***************************************************************************)
DiskFields == {"bin", "env", "unit", "receipt", "prov", "db", "content", "backup", "aside", "stray"}
CmdFields == {"kind", "todo", "plan", "target", "local", "saved", "undo", "bad", "fresh"}
SettingsPlan == [scheme : Scheme, cert : BOOLEAN, del : BOOLEAN, mode : TLSMode]

\* Provenance without a mode has no settings; with one, they fit it.
RecordSound(p) ==
    /\ p \in Provenance
    /\ IF p.mode = "" THEN p.scheme = "" /\ ~p.cert /\ ~p.del ELSE Fits(p.mode, p.scheme, p.cert)

DiskTypes ==
    /\ DOMAIN disk = DiskFields
    /\ disk.bin \in Release \cup {Absent, Torn}
    /\ disk.env \in EnvFile \cup {Absent}
    /\ disk.unit \in {Written, Absent, Torn}
    /\ disk.receipt \in {Written, Absent, Torn}
    /\ disk.prov \notin {Absent, Torn} => RecordSound(disk.prov)

ServiceTypes ==
    /\ DOMAIN service = {"enabled", "running", "tls"}
    /\ service.enabled \in BOOLEAN /\ service.tls \in BOOLEAN
    /\ service.running \in Release \cup {Absent}

CmdTypes ==
    /\ DOMAIN cmd = CmdFields /\ DOMAIN cmd.saved = Managed
    /\ cmd.undo \in BOOLEAN /\ cmd.bad \in BOOLEAN /\ cmd.fresh \in BOOLEAN

\* The steps that are left of a list.
StepsOf(list) == {list[i] : i \in 1 .. Len(list)}
Suffix(s, list) ==
    /\ s \in Seq(StepsOf(list)) /\ Len(s) \in 1 .. Len(list)
    /\ \A i \in 1 .. Len(s) : s[i] = list[Len(list) - Len(s) + i]
Left == Len(cmd.todo)

NoCopies == disk.backup = Absent /\ disk.aside = Absent

\* What has been done where so many steps are left.  Those of a setup that does
\* not start the service count as of one that does.
SetupLeft(noStart) == IF noStart THEN Left + 4 ELSE Left
SetupAt(left) ==
    /\ left >= 3 => ~cmd.fresh
    /\ left <= 8 => disk.env = RenderEnvFile(cmd.plan)
    /\ left <= 7 => disk.unit = Written
    /\ left <= 5 => disk.receipt = Written
InSetup(noStart) ==
    /\ cmd.kind = "setup" /\ ~cmd.undo /\ ~cmd.bad
    /\ cmd.plan \in SettingsPlan /\ Fits(cmd.plan.mode, cmd.plan.scheme, cmd.plan.cert)
    /\ NoCopies
    /\ Suffix(cmd.todo, SetupSteps(noStart))
    /\ cmd.fresh => /\ service.enabled
                    /\ service.running # Absent =>
                          Startable(disk) /\ service.tls = cmd.plan.cert
                    /\ SetupLeft(noStart) = 1 => service.running # Absent
    /\ SetupAt(SetupLeft(noStart))

HasMode(plan) == plan.mode # ""

\* What an upgrade has read before it touches anything.
SavedSound ==
    /\ cmd.saved.bin \in Release \cup {Torn}
    /\ cmd.saved.env \in EnvFile /\ RecordSound(cmd.saved.prov)
    /\ cmd.saved.unit \in {Written, Torn} /\ cmd.saved.receipt \in {Written, Torn}
    /\ cmd.plan = loadInstalledIntent(cmd.saved.prov, cmd.saved.env)

UpgradeAt(left) ==
    /\ left = 12 => /\ RecordSound(disk.prov) /\ disk.env \in EnvFile
                    /\ cmd.plan = loadInstalledIntent(disk.prov, disk.env)
                    /\ cmd.saved = NoBackup
    /\ left <= 11 => SavedSound
    /\ left >= 10 => disk.backup = Absent
    /\ left <= 9 => disk.backup = cmd.saved.bin
    /\ left \in 10 .. 11 => disk.bin = cmd.saved.bin
    /\ left = 9 => disk.bin = Absent
    /\ left <= 8 => disk.bin = cmd.target
    /\ left \in 8 .. 11 => disk.env = cmd.saved.env
    /\ left <= 7 => disk.env = RenderEnvFile(cmd.plan)
    /\ left <= 6 => disk.unit = Written
    /\ left <= 5 => disk.receipt = Written
    /\ left \in 4 .. 10 => service.running = Absent
    /\ left <= 3 => /\ service.enabled /\ service.running = cmd.target
                    /\ service.tls = cmd.plan.cert
    /\ left <= 2 => cmd.plan.cert = ProbesTLS(cmd.plan)
    /\ left <= 1 => disk.prov = lifecycleProvenanceFromPlan(cmd.plan, cmd.target)
InUpgrade ==
    /\ cmd.kind = "upgrade" /\ ~cmd.undo /\ ~cmd.bad
    /\ cmd.target \in Release /\ HasMode(cmd.plan)
    /\ disk.aside = Absent
    /\ Suffix(cmd.todo, UpgradeSteps)
    /\ UpgradeAt(Left)

\* Where the copies of the binary are while an upgrade is undone.
CopiesAt(left, moved) ==
    /\ left = 10 => disk.backup = cmd.saved.bin /\ disk.aside = Absent /\ disk.bin = cmd.target
    /\ left = 9 => disk.backup = cmd.saved.bin /\ disk.aside = cmd.target /\ disk.bin = Absent
    /\ left = 8 => /\ disk.backup = Absent
                   /\ IF moved THEN disk.aside = cmd.target /\ disk.bin = cmd.saved.bin
                               ELSE disk.aside = Absent /\ service.running = Absent
    /\ left <= 7 => NoCopies
RestoredAt(left) ==
    /\ left <= 7 => disk.bin = cmd.saved.bin
    /\ left <= 6 => disk.env = cmd.saved.env
    /\ left <= 5 => disk.unit = cmd.saved.unit
    /\ left <= 4 => disk.receipt = cmd.saved.receipt
    /\ left <= 3 => disk.prov = cmd.saved.prov
    /\ left <= 1 => /\ service.enabled
                    /\ cmd.fresh => service.running \in {Absent, cmd.saved.bin}

\* regixtry.env is the old or the new one, or the beginning of one of them; but
\* where no step failed no service is started with a beginning.
Halfway == Cut(cmd.saved.env) \cup Cut(RenderEnvFile(cmd.plan))
RestoreEnv == disk.env \in {cmd.saved.env, RenderEnvFile(cmd.plan)} \cup Halfway
RestoreServed ==
    /\ disk.env \in {cmd.saved.env, RenderEnvFile(cmd.plan)} \/ service.running = Absent
    /\ service.running \in {Absent, cmd.target, cmd.saved.bin}
    /\ service.running # Absent /\ OnRecord(cmd.saved.env, cmd.saved.prov) =>
          service.tls = cmd.plan.cert
InRestore(moved) ==
    /\ cmd.kind = "upgrade" /\ cmd.undo
    /\ cmd.target \in Release /\ HasMode(cmd.plan)
    /\ Suffix(cmd.todo, RestoreSteps(moved))
    /\ SavedSound
    /\ RestoreEnv
    /\ ~cmd.bad => RestoreServed
    /\ CopiesAt(Left, moved)
    /\ ~cmd.bad => RestoredAt(Left)

\* The steps of a rollback count as those of an uninstall.
Stopped == [enabled |-> FALSE, running |-> Absent, tls |-> FALSE]
RemovalSteps(kind) == IF kind = "uninstall" THEN UninstallSteps ELSE RollbackSteps
RemovalLeft == IF cmd.kind = "uninstall" THEN Left ELSE Left + 2
RemovedAt(left) ==
    /\ left <= 7 => service = Stopped
    /\ left <= 6 => disk.receipt = Absent
    /\ left <= 5 => disk.content = Absent
    /\ left <= 4 => disk.db = Absent
    /\ left <= 3 => disk.unit = Absent
    /\ left <= 2 => disk.env = Absent
    /\ left <= 1 => disk.prov = Absent
InRemoval ==
    /\ cmd.kind \in {"rollback", "uninstall"} \/ (cmd.kind = "setup" /\ cmd.undo)
    /\ NoCopies
    /\ Suffix(cmd.todo, RemovalSteps(cmd.kind))
    /\ ~cmd.bad => RemovedAt(RemovalLeft)

AtRest == cmd = NoCommand /\ NoCopies

InstallInv ==
    /\ DiskTypes /\ ServiceTypes /\ CmdTypes
    /\ \/ AtRest
       \/ \E b \in BOOLEAN : InSetup(b) \/ InRestore(b)
       \/ InUpgrade
       \/ InRemoval

-----------------------------------------------------------------------------
\* The next step is the one so many places before the end of the list.
LEMMA SuffixHead ==
    ASSUME NEW list, Len(list) \in Nat, NEW s, Suffix(s, list)
    PROVE  Len(s) \in 1 .. Len(list) /\ s # <<>> /\ Head(s) = list[Len(list) - Len(s) + 1]
BY DEF Suffix

\* What is left of a suffix after n steps is a suffix.
LEMMA SuffixLater ==
    ASSUME NEW list, Len(list) \in Nat, NEW s, Suffix(s, list), NEW n \in 1 .. (Len(s) - 1)
    PROVE  /\ Suffix(SubSeq(s, n + 1, Len(s)), list)
           /\ Len(SubSeq(s, n + 1, Len(s))) = Len(s) - n
<1> DEFINE t == SubSeq(s, n + 1, Len(s))
<1>1. s \in Seq(StepsOf(list)) /\ Len(s) \in 1 .. Len(list) /\ Len(s) \in Nat
  BY DEF Suffix
<1>2. t \in Seq(StepsOf(list)) /\ Len(t) = Len(s) - n /\ \A i \in 1 .. Len(t) : t[i] = s[n + i]
  BY <1>1, SMTT(30)
<1>3. ASSUME NEW i \in 1 .. Len(t) PROVE t[i] = list[Len(list) - Len(t) + i]
  <2>1. n + i \in 1 .. Len(s) /\ Len(list) - Len(s) + (n + i) = Len(list) - Len(t) + i
    BY <1>1, <1>2
  <2> QED  BY <2>1, <1>2 DEF Suffix
<1> HIDE DEF t
<1>4. Suffix(t, list)
  BY <1>1, <1>2, <1>3 DEF Suffix
<1> QED  BY <1>2, <1>4 DEF t

\* The places of the steps.
LEMMA UpgradePlaces ==
    ASSUME NEW s, Suffix(s, UpgradeSteps)
    PROVE  /\ Len(UpgradeSteps) = 12 /\ s # <<>> /\ Len(s) \in 1 .. 12
           /\ (Head(s) = "capture" <=> Len(s) = 12)
           /\ (Head(s) = "stop" <=> Len(s) = 11)
           /\ (Head(s) = "out" <=> Len(s) = 10)
           /\ (Head(s) = "in" <=> Len(s) = 9)
           /\ (Head(s) = "env" <=> Len(s) = 8)
           /\ (Head(s) = "unit" <=> Len(s) = 7)
           /\ (Head(s) = "receipt" <=> Len(s) = 6)
           /\ (Head(s) = "reload" <=> Len(s) = 5)
           /\ (Head(s) = "enable" <=> Len(s) = 4)
           /\ (Head(s) = "wait" <=> Len(s) = 3)
           /\ (Head(s) = "prov" <=> Len(s) = 2)
           /\ (Head(s) = "drop" <=> Len(s) = 1)
<1>1. Len(UpgradeSteps) = 12 /\ Len(UpgradeSteps) \in Nat
  BY DEF UpgradeSteps
<1>2. s # <<>> /\ Len(s) \in 1 .. 12 /\ Head(s) = UpgradeSteps[13 - Len(s)]
  <2>1. Len(UpgradeSteps) = 12 /\ Len(UpgradeSteps) \in Nat
    BY <1>1
  <2>2. s # <<>> /\ Len(s) \in 1 .. Len(UpgradeSteps) /\ Head(s) = UpgradeSteps[Len(UpgradeSteps) - Len(s) + 1]
    BY <2>1, SuffixHead
  <2>3. 12 - Len(s) + 1 = 13 - Len(s)
    BY <2>1, <2>2
  <2> QED  BY <2>1, <2>2, <2>3
<1> DEFINE h == Head(s)
           n == Len(s)
<1>3. s # <<>> /\ n \in 1 .. 12 /\ h = UpgradeSteps[13 - n]
  BY <1>2
<1> HIDE DEF h, n
<1>4. /\ (h = "capture" <=> n = 12) /\ (h = "stop" <=> n = 11) /\ (h = "out" <=> n = 10)
      /\ (h = "in" <=> n = 9) /\ (h = "env" <=> n = 8) /\ (h = "unit" <=> n = 7)
      /\ (h = "receipt" <=> n = 6) /\ (h = "reload" <=> n = 5) /\ (h = "enable" <=> n = 4)
      /\ (h = "wait" <=> n = 3) /\ (h = "prov" <=> n = 2) /\ (h = "drop" <=> n = 1)
  BY <1>3 DEF UpgradeSteps
<1> QED  BY <1>1, <1>2, <1>4 DEF h, n

\* The same for the restore of an upgrade, with or without a backup to move.
LEMMA RestorePlaces ==
    ASSUME NEW moved \in BOOLEAN, NEW s, Suffix(s, RestoreSteps(moved))
    PROVE  /\ Len(RestoreSteps(moved)) = IF moved THEN 10 ELSE 8
           /\ s # <<>> /\ Len(s) \in 1 .. 10 /\ (Len(s) >= 9 => moved)
           /\ (Head(s) = "aside" <=> Len(s) = 10)
           /\ (Head(s) = "back" <=> Len(s) = 9)
           /\ (Head(s) = "clean" <=> Len(s) = 8 /\ moved)
           /\ (Head(s) = "rewrite" <=> Len(s) = 8 /\ ~moved)
           /\ (Head(s) = "oldEnv" <=> Len(s) = 7)
           /\ (Head(s) = "oldUnit" <=> Len(s) = 6)
           /\ (Head(s) = "oldReceipt" <=> Len(s) = 5)
           /\ (Head(s) = "oldProv" <=> Len(s) = 4)
           /\ (Head(s) = "reload" <=> Len(s) = 3)
           /\ (Head(s) = "enable" <=> Len(s) = 2)
           /\ (Head(s) = "wait" <=> Len(s) = 1)
<1>3. CASE moved
  <2>1. RestoreSteps(moved) = <<"aside", "back", "clean", "oldEnv", "oldUnit", "oldReceipt",
                             "oldProv", "reload", "enable", "wait">>
    BY <1>3 DEF RestoreSteps
  <2>2. s # <<>> /\ Len(s) \in 1 .. 10 /\ Head(s) = RestoreSteps(moved)[11 - Len(s)]
    <3>1. Len(RestoreSteps(moved)) = 10 /\ Len(RestoreSteps(moved)) \in Nat
      BY <2>1
    <3>2. s # <<>> /\ Len(s) \in 1 .. Len(RestoreSteps(moved)) /\ Head(s) = RestoreSteps(moved)[Len(RestoreSteps(moved)) - Len(s) + 1]
      BY <3>1, SuffixHead
    <3>3. 10 - Len(s) + 1 = 11 - Len(s)
      BY <3>1, <3>2
    <3> QED  BY <3>1, <3>2, <3>3
  <2> DEFINE h == Head(s)
             n == Len(s)
             m == Len(RestoreSteps(moved))
  <2>3. s # <<>> /\ n \in 1 .. 10 /\ h = RestoreSteps(moved)[11 - n]
    BY <2>2
  <2> HIDE DEF h, n, m
  <2>4. /\ (h = "aside" <=> n = 10) /\ (h = "back" <=> n = 9)
        /\ (h = "clean" <=> n = 8) /\ (h = "oldEnv" <=> n = 7)
        /\ (h = "oldUnit" <=> n = 6) /\ (h = "oldReceipt" <=> n = 5)
        /\ (h = "oldProv" <=> n = 4) /\ (h = "reload" <=> n = 3)
        /\ (h = "enable" <=> n = 2) /\ (h = "wait" <=> n = 1) /\ h # "rewrite"
    BY <2>1, <2>3
  <2>5. m = 10 /\ s # <<>> /\ n \in 1 .. 10
    BY <2>1, <2>3 DEF m
  <2>6. /\ m = IF moved THEN 10 ELSE 8
        /\ s # <<>> /\ n \in 1 .. 10 /\ (n >= 9 => moved)
        /\ (h = "aside" <=> n = 10)
        /\ (h = "back" <=> n = 9)
        /\ (h = "clean" <=> n = 8 /\ moved)
        /\ (h = "rewrite" <=> n = 8 /\ ~moved)
        /\ (h = "oldEnv" <=> n = 7)
        /\ (h = "oldUnit" <=> n = 6)
        /\ (h = "oldReceipt" <=> n = 5)
        /\ (h = "oldProv" <=> n = 4)
        /\ (h = "reload" <=> n = 3)
        /\ (h = "enable" <=> n = 2)
        /\ (h = "wait" <=> n = 1)
    BY <2>4, <2>5, <1>3
  <2> QED  BY <2>6 DEF h, n, m
<1>4. CASE ~moved
  <2>1. RestoreSteps(moved) = <<"rewrite", "oldEnv", "oldUnit", "oldReceipt",
                              "oldProv", "reload", "enable", "wait">>
    BY <1>4 DEF RestoreSteps
  <2>2. s # <<>> /\ Len(s) \in 1 .. 8 /\ Head(s) = RestoreSteps(moved)[9 - Len(s)]
    <3>1. Len(RestoreSteps(moved)) = 8 /\ Len(RestoreSteps(moved)) \in Nat
      BY <2>1
    <3>2. s # <<>> /\ Len(s) \in 1 .. Len(RestoreSteps(moved)) /\ Head(s) = RestoreSteps(moved)[Len(RestoreSteps(moved)) - Len(s) + 1]
      BY <3>1, SuffixHead
    <3>3. 8 - Len(s) + 1 = 9 - Len(s)
      BY <3>1, <3>2
    <3> QED  BY <3>1, <3>2, <3>3
  <2> DEFINE h == Head(s)
             n == Len(s)
             m == Len(RestoreSteps(moved))
  <2>3. s # <<>> /\ n \in 1 .. 8 /\ h = RestoreSteps(moved)[9 - n]
    BY <2>2
  <2> HIDE DEF h, n, m
  <2>4. /\ (h = "rewrite" <=> n = 8) /\ (h = "oldEnv" <=> n = 7)
        /\ (h = "oldUnit" <=> n = 6) /\ (h = "oldReceipt" <=> n = 5)
        /\ (h = "oldProv" <=> n = 4) /\ (h = "reload" <=> n = 3)
        /\ (h = "enable" <=> n = 2) /\ (h = "wait" <=> n = 1) /\ h # "aside"
        /\ h # "back" /\ h # "clean"
    BY <2>1, <2>3
  <2>5. m = 8 /\ s # <<>> /\ n \in 1 .. 8
    BY <2>1, <2>3 DEF m
  <2>6. /\ m = IF moved THEN 10 ELSE 8
        /\ s # <<>> /\ n \in 1 .. 10 /\ (n >= 9 => moved)
        /\ (h = "aside" <=> n = 10)
        /\ (h = "back" <=> n = 9)
        /\ (h = "clean" <=> n = 8 /\ moved)
        /\ (h = "rewrite" <=> n = 8 /\ ~moved)
        /\ (h = "oldEnv" <=> n = 7)
        /\ (h = "oldUnit" <=> n = 6)
        /\ (h = "oldReceipt" <=> n = 5)
        /\ (h = "oldProv" <=> n = 4)
        /\ (h = "reload" <=> n = 3)
        /\ (h = "enable" <=> n = 2)
        /\ (h = "wait" <=> n = 1)
    BY <2>4, <2>5, <1>4
  <2> QED  BY <2>6 DEF h, n, m
<1> QED  BY <1>3, <1>4

\* The same for rollback and uninstall, counted as those of an uninstall.
LEMMA RemovalPlaces ==
    ASSUME NEW kind, NEW s, Suffix(s, RemovalSteps(kind))
    PROVE  /\ Len(RemovalSteps(kind)) = IF kind = "uninstall" THEN 8 ELSE 6
           /\ s # <<>> /\ Len(s) \in 1 .. Len(RemovalSteps(kind))
           /\ (Head(s) = "stop" <=> (IF kind = "uninstall" THEN Len(s) ELSE Len(s) + 2) = 8)
           /\ (Head(s) = "deleteReceipt" <=> (IF kind = "uninstall" THEN Len(s) ELSE Len(s) + 2) = 7)
           /\ (Head(s) = "deleteContent" <=> (IF kind = "uninstall" THEN Len(s) ELSE Len(s) + 2) = 6)
           /\ (Head(s) = "deleteDB" <=> (IF kind = "uninstall" THEN Len(s) ELSE Len(s) + 2) = 5)
           /\ (Head(s) = "deleteUnit" <=> (IF kind = "uninstall" THEN Len(s) ELSE Len(s) + 2) = 4)
           /\ (Head(s) = "deleteEnv" <=> (IF kind = "uninstall" THEN Len(s) ELSE Len(s) + 2) = 3)
           /\ (Head(s) = "deleteProvenance" <=> (IF kind = "uninstall" THEN Len(s) ELSE Len(s) + 2) = 2)
           /\ (Head(s) = "deleteBinary" <=> (IF kind = "uninstall" THEN Len(s) ELSE Len(s) + 2) = 1)
<1>1. CASE kind = "uninstall"
  <2>1. RemovalSteps(kind) = <<"stop", "deleteReceipt", "deleteContent", "deleteDB",
                               "deleteUnit", "deleteEnv", "deleteProvenance", "deleteBinary">>
    BY <1>1 DEF RemovalSteps, UninstallSteps, RollbackSteps
  <2>2. s # <<>> /\ Len(s) \in 1 .. 8 /\ Head(s) = RemovalSteps(kind)[9 - Len(s)]
    <3>1. Len(RemovalSteps(kind)) = 8 /\ Len(RemovalSteps(kind)) \in Nat
      BY <2>1
    <3>2. s # <<>> /\ Len(s) \in 1 .. Len(RemovalSteps(kind)) /\ Head(s) = RemovalSteps(kind)[Len(RemovalSteps(kind)) - Len(s) + 1]
      BY <3>1, SuffixHead
    <3>3. 8 - Len(s) + 1 = 9 - Len(s)
      BY <3>1, <3>2
    <3> QED  BY <3>1, <3>2, <3>3
  <2> DEFINE h == Head(s)
             n == Len(s)
             m == Len(RemovalSteps(kind))
  <2>3. s # <<>> /\ n \in 1 .. 8 /\ h = RemovalSteps(kind)[9 - n]
    BY <2>2
  <2> HIDE DEF h, n, m
  <2>4. /\ (h = "stop" <=> n = 8) /\ (h = "deleteReceipt" <=> n = 7)
        /\ (h = "deleteContent" <=> n = 6) /\ (h = "deleteDB" <=> n = 5)
        /\ (h = "deleteUnit" <=> n = 4) /\ (h = "deleteEnv" <=> n = 3)
        /\ (h = "deleteProvenance" <=> n = 2) /\ (h = "deleteBinary" <=> n = 1)
    BY <2>1, <2>3
  <2>5. m = 8 /\ s # <<>> /\ n \in 1 .. 8
    BY <2>1, <2>3 DEF m
  <2>6. /\ m = IF kind = "uninstall" THEN 8 ELSE 6
        /\ s # <<>> /\ n \in 1 .. m
        /\ (h = "stop" <=> (IF kind = "uninstall" THEN n ELSE n + 2) = 8)
        /\ (h = "deleteReceipt" <=> (IF kind = "uninstall" THEN n ELSE n + 2) = 7)
        /\ (h = "deleteContent" <=> (IF kind = "uninstall" THEN n ELSE n + 2) = 6)
        /\ (h = "deleteDB" <=> (IF kind = "uninstall" THEN n ELSE n + 2) = 5)
        /\ (h = "deleteUnit" <=> (IF kind = "uninstall" THEN n ELSE n + 2) = 4)
        /\ (h = "deleteEnv" <=> (IF kind = "uninstall" THEN n ELSE n + 2) = 3)
        /\ (h = "deleteProvenance" <=> (IF kind = "uninstall" THEN n ELSE n + 2) = 2)
        /\ (h = "deleteBinary" <=> (IF kind = "uninstall" THEN n ELSE n + 2) = 1)
    BY <2>4, <2>5, <1>1
  <2> QED  BY <2>6 DEF h, n, m
<1>2. CASE kind # "uninstall"
  <2>1. RemovalSteps(kind) = <<"stop", "deleteReceipt", "deleteContent", "deleteDB",
                               "deleteUnit", "deleteEnv">>
    BY <1>2 DEF RemovalSteps, RollbackSteps
  <2>2. s # <<>> /\ Len(s) \in 1 .. 6 /\ Head(s) = RemovalSteps(kind)[7 - Len(s)]
    <3>1. Len(RemovalSteps(kind)) = 6 /\ Len(RemovalSteps(kind)) \in Nat
      BY <2>1
    <3>2. s # <<>> /\ Len(s) \in 1 .. Len(RemovalSteps(kind)) /\ Head(s) = RemovalSteps(kind)[Len(RemovalSteps(kind)) - Len(s) + 1]
      BY <3>1, SuffixHead
    <3>3. 6 - Len(s) + 1 = 7 - Len(s)
      BY <3>1, <3>2
    <3> QED  BY <3>1, <3>2, <3>3
  <2> DEFINE h == Head(s)
             n == Len(s)
             m == Len(RemovalSteps(kind))
  <2>3. s # <<>> /\ n \in 1 .. 6 /\ h = RemovalSteps(kind)[7 - n]
    BY <2>2
  <2> HIDE DEF h, n, m
  <2>4. /\ (h = "stop" <=> n = 6) /\ (h = "deleteReceipt" <=> n = 5)
        /\ (h = "deleteContent" <=> n = 4) /\ (h = "deleteDB" <=> n = 3)
        /\ (h = "deleteUnit" <=> n = 2) /\ (h = "deleteEnv" <=> n = 1)
        /\ h # "deleteProvenance" /\ h # "deleteBinary"
    BY <2>1, <2>3
  <2>5. m = 6 /\ s # <<>> /\ n \in 1 .. 6
    BY <2>1, <2>3 DEF m
  <2>6. /\ m = IF kind = "uninstall" THEN 8 ELSE 6
        /\ s # <<>> /\ n \in 1 .. m
        /\ (h = "stop" <=> (IF kind = "uninstall" THEN n ELSE n + 2) = 8)
        /\ (h = "deleteReceipt" <=> (IF kind = "uninstall" THEN n ELSE n + 2) = 7)
        /\ (h = "deleteContent" <=> (IF kind = "uninstall" THEN n ELSE n + 2) = 6)
        /\ (h = "deleteDB" <=> (IF kind = "uninstall" THEN n ELSE n + 2) = 5)
        /\ (h = "deleteUnit" <=> (IF kind = "uninstall" THEN n ELSE n + 2) = 4)
        /\ (h = "deleteEnv" <=> (IF kind = "uninstall" THEN n ELSE n + 2) = 3)
        /\ (h = "deleteProvenance" <=> (IF kind = "uninstall" THEN n ELSE n + 2) = 2)
        /\ (h = "deleteBinary" <=> (IF kind = "uninstall" THEN n ELSE n + 2) = 1)
    BY <2>4, <2>5, <1>2
  <2> QED  BY <2>6 DEF h, n, m
<1> QED  BY <1>1, <1>2

\* The same for a setup, counted as those of one that starts the service.
LEMMA SetupPlaces ==
    ASSUME NEW b \in BOOLEAN, NEW s, Suffix(s, SetupSteps(b))
    PROVE  /\ Len(SetupSteps(b)) = IF b THEN 5 ELSE 9
           /\ s # <<>> /\ Len(s) \in 1 .. Len(SetupSteps(b))
           /\ (Head(s) = "env" <=> (IF b THEN Len(s) + 4 ELSE Len(s)) = 9)
           /\ (Head(s) = "unit" <=> (IF b THEN Len(s) + 4 ELSE Len(s)) = 8)
           /\ (Head(s) = "db" <=> (IF b THEN Len(s) + 4 ELSE Len(s)) = 7)
           /\ (Head(s) = "receipt" <=> (IF b THEN Len(s) + 4 ELSE Len(s)) = 6)
           /\ (Head(s) = "bind" <=> Len(s) = 5 /\ ~b)
           /\ (Head(s) = "reload" <=> Len(s) = 4 /\ ~b)
           /\ (Head(s) = "enable" <=> Len(s) = 3 /\ ~b)
           /\ (Head(s) = "wait" <=> Len(s) = 2 /\ ~b)
           /\ (Head(s) = "prov" <=> Len(s) = 1)
<1>1. CASE b
  <2>1. SetupSteps(b) = <<"env", "unit", "db", "receipt", "prov">>
    BY <1>1 DEF SetupSteps
  <2>2. s # <<>> /\ Len(s) \in 1 .. 5 /\ Head(s) = SetupSteps(b)[6 - Len(s)]
    <3>1. Len(SetupSteps(b)) = 5 /\ Len(SetupSteps(b)) \in Nat
      BY <2>1
    <3>2. s # <<>> /\ Len(s) \in 1 .. Len(SetupSteps(b)) /\ Head(s) = SetupSteps(b)[Len(SetupSteps(b)) - Len(s) + 1]
      BY <3>1, SuffixHead
    <3>3. 5 - Len(s) + 1 = 6 - Len(s)
      BY <3>1, <3>2
    <3> QED  BY <3>1, <3>2, <3>3
  <2> DEFINE h == Head(s)
             n == Len(s)
             m == Len(SetupSteps(b))
  <2>3. s # <<>> /\ n \in 1 .. 5 /\ h = SetupSteps(b)[6 - n]
    BY <2>2
  <2> HIDE DEF h, n, m
  <2>4. /\ (h = "env" <=> n = 5) /\ (h = "unit" <=> n = 4)
        /\ (h = "db" <=> n = 3) /\ (h = "receipt" <=> n = 2)
        /\ (h = "prov" <=> n = 1) /\ h # "bind" /\ h # "reload" /\ h # "enable"
        /\ h # "wait"
    BY <2>1, <2>3
  <2>5. m = 5 /\ s # <<>> /\ n \in 1 .. 5
    BY <2>1, <2>3 DEF m
  <2>6. /\ m = IF b THEN 5 ELSE 9
        /\ s # <<>> /\ n \in 1 .. m
        /\ (h = "env" <=> (IF b THEN n + 4 ELSE n) = 9)
        /\ (h = "unit" <=> (IF b THEN n + 4 ELSE n) = 8)
        /\ (h = "db" <=> (IF b THEN n + 4 ELSE n) = 7)
        /\ (h = "receipt" <=> (IF b THEN n + 4 ELSE n) = 6)
        /\ (h = "bind" <=> n = 5 /\ ~b)
        /\ (h = "reload" <=> n = 4 /\ ~b)
        /\ (h = "enable" <=> n = 3 /\ ~b)
        /\ (h = "wait" <=> n = 2 /\ ~b)
        /\ (h = "prov" <=> n = 1)
    BY <2>4, <2>5, <1>1
  <2> QED  BY <2>6 DEF h, n, m
<1>2. CASE ~b
  <2>1. SetupSteps(b) = <<"env", "unit", "db", "receipt", "bind", "reload", "enable", "wait",
                          "prov">>
    BY <1>2 DEF SetupSteps
  <2>2. s # <<>> /\ Len(s) \in 1 .. 9 /\ Head(s) = SetupSteps(b)[10 - Len(s)]
    <3>1. Len(SetupSteps(b)) = 9 /\ Len(SetupSteps(b)) \in Nat
      BY <2>1
    <3>2. s # <<>> /\ Len(s) \in 1 .. Len(SetupSteps(b)) /\ Head(s) = SetupSteps(b)[Len(SetupSteps(b)) - Len(s) + 1]
      BY <3>1, SuffixHead
    <3>3. 9 - Len(s) + 1 = 10 - Len(s)
      BY <3>1, <3>2
    <3> QED  BY <3>1, <3>2, <3>3
  <2> DEFINE h == Head(s)
             n == Len(s)
             m == Len(SetupSteps(b))
  <2>3. s # <<>> /\ n \in 1 .. 9 /\ h = SetupSteps(b)[10 - n]
    BY <2>2
  <2> HIDE DEF h, n, m
  <2>4. /\ (h = "env" <=> n = 9) /\ (h = "unit" <=> n = 8)
        /\ (h = "db" <=> n = 7) /\ (h = "receipt" <=> n = 6)
        /\ (h = "bind" <=> n = 5) /\ (h = "reload" <=> n = 4)
        /\ (h = "enable" <=> n = 3) /\ (h = "wait" <=> n = 2)
        /\ (h = "prov" <=> n = 1)
    BY <2>1, <2>3
  <2>5. m = 9 /\ s # <<>> /\ n \in 1 .. 9
    BY <2>1, <2>3 DEF m
  <2>6. /\ m = IF b THEN 5 ELSE 9
        /\ s # <<>> /\ n \in 1 .. m
        /\ (h = "env" <=> (IF b THEN n + 4 ELSE n) = 9)
        /\ (h = "unit" <=> (IF b THEN n + 4 ELSE n) = 8)
        /\ (h = "db" <=> (IF b THEN n + 4 ELSE n) = 7)
        /\ (h = "receipt" <=> (IF b THEN n + 4 ELSE n) = 6)
        /\ (h = "bind" <=> n = 5 /\ ~b)
        /\ (h = "reload" <=> n = 4 /\ ~b)
        /\ (h = "enable" <=> n = 3 /\ ~b)
        /\ (h = "wait" <=> n = 2 /\ ~b)
        /\ (h = "prov" <=> n = 1)
    BY <2>4, <2>5, <1>2
  <2> QED  BY <2>6 DEF h, n, m
<1> QED  BY <1>1, <1>2

-----------------------------------------------------------------------------
\* Plain HTTP is the mode of the http scheme, direct TLS that of a certificate.
LEMMA FitsMeans ==
    ASSUME NEW mode \in TLSMode, NEW scheme \in Scheme, NEW cert \in BOOLEAN
    PROVE  (Fits(mode, scheme, cert) <=>
               /\ (mode = "local-http" <=> scheme = "http")
               /\ (mode = "direct-tls" <=> cert = TRUE))
<1>1. CASE mode = "local-http"
  BY <1>1 DEF Fits, Scheme
<1>2. CASE mode = "reverse-proxy"
  BY <1>2 DEF Fits, Scheme
<1>3. CASE mode = "direct-tls"
  BY <1>3 DEF Fits, Scheme
<1> QED  BY <1>1, <1>2, <1>3 DEF TLSMode

\* ResolveRuntimeTLSMode: a mode that is worked out fits the settings.
LEMMA ResolvedFits ==
    ASSUME NEW mode \in TLSMode \cup {""}, NEW scheme \in Scheme \cup {""},
           NEW cert \in BOOLEAN, NEW key \in BOOLEAN,
           ResolveRuntimeTLSMode(mode, scheme, cert, key) # ""
    PROVE  /\ ResolveRuntimeTLSMode(mode, scheme, cert, key) \in TLSMode
           /\ Fits(ResolveRuntimeTLSMode(mode, scheme, cert, key), scheme, cert)
           /\ scheme \in Scheme
<1> DEFINE resolved == IF mode = "" THEN DefaultTLSMode(scheme, cert) ELSE mode
<1>1. DefaultTLSMode(scheme, cert) \in TLSMode
  <2>1. CASE cert
    BY <2>1 DEF DefaultTLSMode, TLSMode
  <2>2. CASE ~cert /\ scheme = "https"
    BY <2>2 DEF DefaultTLSMode, TLSMode
  <2>3. CASE ~cert /\ scheme # "https"
    BY <2>3 DEF DefaultTLSMode, TLSMode
  <2> QED  BY <2>1, <2>2, <2>3
<1>2. resolved \in TLSMode
  BY <1>1
<1>3. ResolveRuntimeTLSMode(mode, scheme, cert, key) = resolved /\ Fits(resolved, scheme, cert)
  BY DEF ResolveRuntimeTLSMode
<1> HIDE DEF resolved
<1>4. scheme \in Scheme
  BY <1>2, <1>3 DEF Fits, TLSMode, Scheme
<1> QED  BY <1>2, <1>3, <1>4

\* What an upgrade takes for the settings, when it takes any.
IntentSound(p, e, plan) ==
    /\ plan \in SettingsPlan
    /\ (plan.mode = "local-http" <=> plan.scheme = "http")
    /\ OnRecord(e, p) => /\ Fits(plan.mode, plan.scheme, plan.cert)
                         /\ plan.scheme = e.scheme /\ plan.cert = e.cert
                         /\ (plan.del = TRUE <=> e.del = "true")

\* loadInstalledIntent: a plan with a mode has settings that fit it.
LEMMA IntentIsSound ==
    ASSUME NEW p, RecordSound(p), NEW e \in EnvFile, HasMode(loadInstalledIntent(p, e))
    PROVE  IntentSound(p, e, loadInstalledIntent(p, e))
<1> DEFINE plan == loadInstalledIntent(p, e)
           found == ResolveRuntimeTLSMode("", plan.scheme, plan.cert, plan.cert)
<1>1. /\ plan.scheme = firstNonBlank(p.scheme, e.scheme) /\ plan.cert = (p.cert \/ e.cert)
      /\ plan.del = firstNonBlankBool(p.del, e.del) /\ plan.mode = firstNonBlank(p.mode, found)
      /\ plan = [scheme |-> plan.scheme, cert |-> plan.cert, mode |-> plan.mode, del |-> plan.del]
  BY DEF loadInstalledIntent
<1> HIDE DEF plan, found
<1>2. /\ p.scheme \in Scheme \cup {""} /\ p.mode \in TLSMode \cup {""} /\ p.cert \in BOOLEAN
      /\ p.del \in BOOLEAN /\ e.scheme \in Scheme \cup {""} /\ e.cert \in BOOLEAN /\ e.del \in {"", "true", "false"}
  BY DEF RecordSound, Provenance, EnvFile
<1>3. plan.cert \in BOOLEAN /\ plan.del \in BOOLEAN
  BY <1>1, <1>2 DEF firstNonBlankBool
<1>4. CASE p.mode = ""
  <2>1. p.scheme = "" /\ ~p.cert /\ ~p.del
    BY <1>4 DEF RecordSound
  <2>2. plan.mode = found /\ plan.scheme = e.scheme /\ plan.cert = e.cert
    BY <1>1, <1>2, <1>4, <2>1 DEF firstNonBlank
  <2>3. found # ""
    BY <2>2 DEF plan, HasMode
  <2>4. plan.mode \in TLSMode /\ Fits(plan.mode, plan.scheme, plan.cert) /\ plan.scheme \in Scheme
    <3>1. plan.scheme \in Scheme \cup {""} /\ "" \in TLSMode \cup {""}
      BY <2>2, <1>2
    <3>2. found \in TLSMode /\ Fits(found, plan.scheme, plan.cert) /\ plan.scheme \in Scheme
      BY <3>1, <2>3, <1>3, ResolvedFits, Zenon DEF found
    <3> QED  BY <3>2, <2>2
  <2>5. (plan.mode = "local-http" <=> plan.scheme = "http")
    BY <2>4, <1>3, FitsMeans
  <2>6. (plan.del = TRUE <=> e.del = "true")
    BY <1>1, <1>2, <2>1 DEF firstNonBlankBool
  <2>7. plan \in SettingsPlan
    BY <1>1, <1>3, <2>4 DEF SettingsPlan
  <2> QED  BY <2>2, <2>4, <2>5, <2>6, <2>7 DEF IntentSound, plan
<1>5. CASE p.mode # ""
  <2>1. Fits(p.mode, p.scheme, p.cert) /\ p.mode \in TLSMode
    BY <1>5, <1>2 DEF RecordSound
  <2>2. p.scheme \in Scheme
    BY <2>1, <1>2 DEF Fits, TLSMode, Scheme
  <2>3. (p.mode = "local-http" <=> p.scheme = "http")
    BY <2>1, <2>2, <1>2, FitsMeans
  <2>4. plan.mode = p.mode /\ plan.scheme = p.scheme
    BY <1>1, <1>5, <2>2 DEF firstNonBlank, Scheme
  <2>5. plan \in SettingsPlan
    BY <1>1, <1>3, <2>1, <2>2, <2>4 DEF SettingsPlan
  <2>6. ASSUME OnRecord(e, p)
        PROVE  /\ Fits(plan.mode, plan.scheme, plan.cert)
               /\ plan.scheme = e.scheme /\ plan.cert = e.cert
               /\ (plan.del = TRUE <=> e.del = "true")
    <3>1. e.scheme = p.scheme /\ e.cert = p.cert /\ (p.del => e.del # "")
      BY <2>6, <1>5 DEF OnRecord
    <3>2. plan.cert = p.cert
      BY <3>1, <1>1, <1>2
    <3>3. (plan.del = TRUE <=> e.del = "true")
      BY <3>1, <1>1, <1>2 DEF firstNonBlankBool
    <3> QED  BY <3>1, <3>2, <3>3, <2>1, <2>4
  <2> QED  BY <2>3, <2>4, <2>5, <2>6 DEF IntentSound, plan
<1> QED  BY <1>4, <1>5

\* RenderEnvFile: the file says what the plan says.
LEMMA RenderedEnv ==
    ASSUME NEW plan \in SettingsPlan
    PROVE  /\ RenderEnvFile(plan) \in EnvFile
           /\ RenderEnvFile(plan).scheme = plan.scheme /\ RenderEnvFile(plan).cert = plan.cert
           /\ (RenderEnvFile(plan).del = "true" <=> plan.del = TRUE)
BY DEF SettingsPlan, RenderEnvFile, EnvFile

\* RenderEnvFile: the strings of a plan are there.
LEMMA RenderedStrings ==
    ASSUME NEW plan \in SettingsPlan PROVE HasStrings(RenderEnvFile(plan))
BY DEF SettingsPlan, RenderEnvFile, HasStrings, Scheme

\* The beginning of a regixtry.env is a regixtry.env.
LEMMA CutIsEnv ==
    ASSUME NEW env \in EnvFile, NEW half \in Cut(env) PROVE half \in EnvFile
<1>1. env.scheme \in Scheme \cup {""} /\ env.cert \in BOOLEAN
  BY DEF EnvFile
<1>2. ASSUME NEW scheme \in Scheme \cup {""}, NEW cert \in BOOLEAN
      PROVE  [scheme |-> scheme, cert |-> cert, del |-> ""] \in EnvFile
  BY DEF EnvFile
<1>3. "" \in Scheme \cup {""} /\ FALSE \in BOOLEAN
  OBVIOUS
<1> QED  BY <1>1, <1>2, <1>3, Zenon DEF Cut

\* RenderEnvFile: a switch that is off has no value.
LEMMA RenderedSwitch ==
    ASSUME NEW plan \in SettingsPlan PROVE (RenderEnvFile(plan).del = "" <=> plan.del = FALSE)
BY DEF SettingsPlan, RenderEnvFile

\* The provenance of a plan is sound, and the rendered file is on record.
LEMMA RecordedPlan ==
    ASSUME NEW plan \in SettingsPlan, NEW version \in Release \cup {""},
           Fits(plan.mode, plan.scheme, plan.cert)
    PROVE  /\ RecordSound(lifecycleProvenanceFromPlan(plan, version))
           /\ lifecycleProvenanceFromPlan(plan, version).version = version
           /\ OnRecord(RenderEnvFile(plan), lifecycleProvenanceFromPlan(plan, version))
<1> DEFINE p == lifecycleProvenanceFromPlan(plan, version)
<1>1. /\ p.version = version /\ p.scheme = plan.scheme /\ p.mode = plan.mode
      /\ p.cert = plan.cert /\ p.del = plan.del
      /\ p \in Provenance /\ p.mode # ""
  BY DEF lifecycleProvenanceFromPlan, SettingsPlan, Provenance, TLSMode
<1>2. RecordSound(p)
  BY <1>1 DEF RecordSound
<1>3. OnRecord(RenderEnvFile(plan), p)
  BY <1>1, RenderedEnv, RenderedSwitch DEF OnRecord, SettingsPlan
<1> QED  BY <1>1, <1>2, <1>3

\* No file that is there and whole is Absent or Torn.
LEMMA NothingThere ==
    /\ Absent # Torn /\ Written # Absent /\ Written # Torn
    /\ Absent \notin Release /\ Torn \notin Release
    /\ Absent \notin EnvFile /\ Torn \notin EnvFile
    /\ Absent \notin Provenance /\ Torn \notin Provenance
BY InstallAssumption

-----------------------------------------------------------------------------
(***************************************************************************)
(* Steps.                                                                  *)
(***************************************************************************)
SameCmd ==
    /\ cmd'.kind = cmd.kind /\ cmd'.plan = cmd.plan /\ cmd'.target = cmd.target
    /\ cmd'.saved = cmd.saved /\ cmd'.undo = cmd.undo /\ cmd'.fresh = cmd.fresh

\* The command goes on after n steps of its list.
GoesOn(list, n, bad) ==
    /\ SameCmd /\ CmdTypes' /\ said' = said /\ cmd'.bad = (cmd.bad \/ bad)
    /\ n < Left /\ Suffix(cmd.todo, list)' /\ Left' = Left - n

\* Or it was the last one.
Over(n, bad) == Left = n /\ cmd' = NoCommand /\ said' = Verdict(cmd.bad \/ bad)

\* A command that skips n steps ends or has the rest of its list to do.
LEMMA SkipGoesOn ==
    ASSUME NEW list, Len(list) \in Nat, Suffix(cmd.todo, list), CmdTypes,
           NEW n \in 1 .. Left, NEW bad \in BOOLEAN, Skip(n, bad)
    PROVE  Over(n, bad) \/ GoesOn(list, n, bad)
<1>1. CASE Left = n
  BY <1>1 DEF Skip, EndWith, Over, Left
<1>2. CASE Left # n
  <2> DEFINE rest == SubSeq(cmd.todo, n + 1, Len(cmd.todo))
  <2>1. n \in 1 .. (Len(cmd.todo) - 1)
    BY <1>2 DEF Suffix, Left
  <2>2. Suffix(rest, list) /\ Len(rest) = Len(cmd.todo) - n
    BY <2>1, SuffixLater
  <2>3. cmd' = [cmd EXCEPT !.todo = rest, !.bad = cmd.bad \/ bad] /\ said' = said
    BY <1>2 DEF Skip, Left
  <2> HIDE DEF rest
  <2>4. SameCmd /\ cmd'.todo = rest /\ cmd'.bad = (cmd.bad \/ bad) /\ CmdTypes'
    BY <2>3 DEF CmdTypes, CmdFields, SameCmd
  <2>5. n < Left /\ Left' = Left - n
    BY <2>1, <2>2, <2>4 DEF Left
  <2> QED  BY <2>2, <2>3, <2>4, <2>5 DEF GoesOn
<1> QED  BY <1>1, <1>2

\* So does one that takes its step.
LEMMA ProceedGoesOn ==
    ASSUME NEW list, Len(list) \in Nat, Suffix(cmd.todo, list), CmdTypes, Left \in Nat \ {0}, Proceed
    PROVE  Over(1, FALSE) \/ GoesOn(list, 1, FALSE)
<1>1. Skip(1, FALSE)
  BY Zenon DEF Proceed
<1>2. 1 \in 1 .. Left
  OBVIOUS
<1> QED  BY <1>1, <1>2, SkipGoesOn

\* An error that is passed over.
LEMMA FailedGoesOn ==
    ASSUME NEW list, Len(list) \in Nat, Suffix(cmd.todo, list), CmdTypes, Left \in Nat \ {0},
           BestEffort, Failed
    PROVE  Over(1, TRUE) \/ GoesOn(list, 1, TRUE)
<1>1. Skip(1, TRUE)
  BY Zenon DEF Failed
<1>2. 1 \in 1 .. Left
  OBVIOUS
<1> QED  BY <1>1, <1>2, SkipGoesOn

\* The next step of an upgrade by the number of steps left.
LEMMA UpgradePlace ==
    ASSUME Suffix(cmd.todo, UpgradeSteps)
    PROVE  /\ Left \in 1 .. 12 /\ Len(UpgradeSteps) \in Nat /\ cmd.todo # <<>>
           /\ (At("capture") <=> Left = 12) /\ (At("stop") <=> Left = 11) /\ (At("out") <=> Left = 10)
           /\ (At("in") <=> Left = 9) /\ (At("env") <=> Left = 8) /\ (At("unit") <=> Left = 7)
           /\ (At("receipt") <=> Left = 6) /\ (At("reload") <=> Left = 5) /\ (At("enable") <=> Left = 4)
           /\ (At("wait") <=> Left = 3) /\ (At("prov") <=> Left = 2) /\ (At("drop") <=> Left = 1)
<1>1. Len(UpgradeSteps) \in Nat
  BY UpgradePlaces
<1> QED  BY <1>1, UpgradePlaces, Zenon DEF Left, At

\* The same for the restore of an upgrade.
LEMMA RestorePlace ==
    ASSUME NEW moved \in BOOLEAN, Suffix(cmd.todo, RestoreSteps(moved))
    PROVE  /\ Left \in 1 .. 10 /\ (Left >= 9 => moved) /\ Len(RestoreSteps(moved)) \in Nat
           /\ cmd.todo # <<>> /\ (At("aside") <=> Left = 10) /\ (At("back") <=> Left = 9)
           /\ (At("clean") <=> Left = 8 /\ moved) /\ (At("rewrite") <=> Left = 8 /\ ~moved)
           /\ (At("oldEnv") <=> Left = 7) /\ (At("oldUnit") <=> Left = 6)
           /\ (At("oldReceipt") <=> Left = 5) /\ (At("oldProv") <=> Left = 4)
           /\ (At("reload") <=> Left = 3) /\ (At("enable") <=> Left = 2) /\ (At("wait") <=> Left = 1)
<1>1. Len(RestoreSteps(moved)) \in Nat
  BY RestorePlaces
<1> QED  BY <1>1, RestorePlaces, Zenon DEF Left, At

\* The same for rollback and uninstall.
LEMMA RemovalPlace ==
    ASSUME Suffix(cmd.todo, RemovalSteps(cmd.kind))
    PROVE  /\ Left \in 1 .. 8 /\ Len(RemovalSteps(cmd.kind)) \in Nat /\ cmd.todo # <<>>
           /\ RemovalLeft \in 1 .. 8 /\ (cmd.kind # "uninstall" => RemovalLeft >= 3)
           /\ (At("stop") <=> RemovalLeft = 8) /\ (At("deleteReceipt") <=> RemovalLeft = 7)
           /\ (At("deleteContent") <=> RemovalLeft = 6) /\ (At("deleteDB") <=> RemovalLeft = 5)
           /\ (At("deleteUnit") <=> RemovalLeft = 4) /\ (At("deleteEnv") <=> RemovalLeft = 3)
           /\ (At("deleteProvenance") <=> RemovalLeft = 2) /\ (At("deleteBinary") <=> RemovalLeft = 1)
<1>1. Len(RemovalSteps(cmd.kind)) = IF cmd.kind = "uninstall" THEN 8 ELSE 6
  BY RemovalPlaces
<1>2. Left \in 1 .. Len(RemovalSteps(cmd.kind)) /\ cmd.todo # <<>>
  BY RemovalPlaces DEF Left
<1>3. /\ (At("stop") <=> RemovalLeft = 8) /\ (At("deleteReceipt") <=> RemovalLeft = 7)
      /\ (At("deleteContent") <=> RemovalLeft = 6) /\ (At("deleteDB") <=> RemovalLeft = 5)
      /\ (At("deleteUnit") <=> RemovalLeft = 4) /\ (At("deleteEnv") <=> RemovalLeft = 3)
      /\ (At("deleteProvenance") <=> RemovalLeft = 2) /\ (At("deleteBinary") <=> RemovalLeft = 1)
  BY RemovalPlaces, Zenon DEF Left, At, RemovalLeft
<1>4. RemovalLeft \in 1 .. 8 /\ (cmd.kind # "uninstall" => RemovalLeft >= 3)
  BY <1>1, <1>2 DEF RemovalLeft
<1>5. Left \in 1 .. 8 /\ Len(RemovalSteps(cmd.kind)) \in Nat
  BY <1>1, <1>2
<1> QED  BY <1>2, <1>3, <1>4, <1>5

\* The same for a setup.
LEMMA SetupPlace ==
    ASSUME NEW b \in BOOLEAN, Suffix(cmd.todo, SetupSteps(b))
    PROVE  /\ Left \in 1 .. 9 /\ Len(SetupSteps(b)) \in Nat /\ cmd.todo # <<>>
           /\ SetupLeft(b) \in 1 .. 9 /\ (b => SetupLeft(b) >= 5)
           /\ (At("env") <=> SetupLeft(b) = 9) /\ (At("unit") <=> SetupLeft(b) = 8)
           /\ (At("db") <=> SetupLeft(b) = 7) /\ (At("receipt") <=> SetupLeft(b) = 6)
           /\ (At("bind") => SetupLeft(b) = 5) /\ (At("reload") => SetupLeft(b) = 4)
           /\ (At("enable") => SetupLeft(b) = 3) /\ (At("wait") => SetupLeft(b) = 2)
           /\ (At("prov") <=> Left = 1) /\ (At("prov") => SetupLeft(b) <= 5)
<1>1. Len(SetupSteps(b)) = IF b THEN 5 ELSE 9
  BY SetupPlaces
<1>2. Left \in 1 .. Len(SetupSteps(b)) /\ cmd.todo # <<>>
  BY SetupPlaces DEF Left
<1>3. /\ (At("env") <=> SetupLeft(b) = 9) /\ (At("unit") <=> SetupLeft(b) = 8)
      /\ (At("db") <=> SetupLeft(b) = 7) /\ (At("receipt") <=> SetupLeft(b) = 6)
      /\ (At("prov") <=> Left = 1)
      /\ (At("bind") <=> Left = 5 /\ ~b) /\ (At("reload") <=> Left = 4 /\ ~b)
      /\ (At("enable") <=> Left = 3 /\ ~b) /\ (At("wait") <=> Left = 2 /\ ~b)
  BY SetupPlaces, Zenon DEF Left, At, SetupLeft
<1>4. SetupLeft(b) \in 1 .. 9 /\ (b => SetupLeft(b) >= 5)
  BY <1>1, <1>2 DEF SetupLeft
<1>5. Left \in 1 .. 9 /\ Len(SetupSteps(b)) \in Nat
  BY <1>1, <1>2
<1>6. (~b => SetupLeft(b) = Left) /\ (Left = 1 => SetupLeft(b) <= 5)
  BY DEF SetupLeft
<1> QED  BY <1>2, <1>3, <1>4, <1>5, <1>6

\* What was saved stays sound while the command stays the same.
LEMMA SavedKept == SavedSound /\ SameCmd => SavedSound'
BY DEF SavedSound, SameCmd

\* No command has the fields of a command.
LEMMA IdleTypes == cmd' = NoCommand => CmdTypes'
BY DEF CmdTypes, CmdFields, NoCommand, NoBackup

\* The error of a step turns an upgrade round.
Turned(moved) ==
    /\ cmd'.kind = cmd.kind /\ cmd'.plan = cmd.plan /\ cmd'.target = cmd.target
    /\ cmd'.saved = cmd.saved /\ cmd'.undo /\ cmd'.bad = cmd.bad /\ CmdTypes'
    /\ Suffix(cmd.todo, RestoreSteps(moved))' /\ Left' = IF moved THEN 10 ELSE 8
    /\ said' = said

Whole(s) == Len(s) \in Nat /\ Len(s) # 0 /\ s = [i \in 1 .. Len(s) |-> s[i]]

\* Every list is a suffix of itself.
LEMMA WholeSuffix ==
    /\ Suffix(UpgradeSteps, UpgradeSteps) /\ Len(UpgradeSteps) = 12
    /\ Suffix(RollbackSteps, RollbackSteps) /\ Len(RollbackSteps) = 6
    /\ Suffix(UninstallSteps, UninstallSteps) /\ Len(UninstallSteps) = 8
    /\ \A b \in BOOLEAN :
          /\ Suffix(RestoreSteps(b), RestoreSteps(b)) /\ Len(RestoreSteps(b)) = IF b THEN 10 ELSE 8
          /\ Suffix(SetupSteps(b), SetupSteps(b)) /\ Len(SetupSteps(b)) = IF b THEN 5 ELSE 9
<1>1. ASSUME NEW s, Whole(s) PROVE Suffix(s, s)
  <2>1. s \in [1 .. Len(s) -> StepsOf(s)] /\ Len(s) \in Nat
    BY <1>1 DEF StepsOf, Whole
  <2>2. s \in Seq(StepsOf(s))
    BY <2>1
  <2> QED  BY <2>2, <1>1 DEF Suffix, Whole
<1>2. Len(UpgradeSteps) = 12 /\ Whole(UpgradeSteps)
  BY DEF UpgradeSteps, Whole
<1>3. Len(RollbackSteps) = 6 /\ Whole(RollbackSteps)
  BY DEF RollbackSteps, Whole
<1>4. Len(UninstallSteps) = 8 /\ Whole(UninstallSteps)
  BY DEF UninstallSteps, Whole
<1>5. ASSUME NEW b \in BOOLEAN
      PROVE  /\ Suffix(RestoreSteps(b), RestoreSteps(b)) /\ Len(RestoreSteps(b)) = IF b THEN 10 ELSE 8
             /\ Suffix(SetupSteps(b), SetupSteps(b)) /\ Len(SetupSteps(b)) = IF b THEN 5 ELSE 9
  <2>1. CASE b
    <3>1. Len(RestoreSteps(b)) = 10 /\ Whole(RestoreSteps(b))
      BY <2>1 DEF RestoreSteps, Whole
    <3>2. Len(SetupSteps(b)) = 5 /\ Whole(SetupSteps(b))
      BY <2>1 DEF SetupSteps, Whole
    <3>3. Suffix(RestoreSteps(b), RestoreSteps(b))
      BY <3>1, <1>1
    <3>4. Suffix(SetupSteps(b), SetupSteps(b))
      BY <3>2, <1>1
    <3> QED  BY <3>1, <3>2, <3>3, <3>4, <2>1
  <2>2. CASE ~b
    <3>1. Len(RestoreSteps(b)) = 8 /\ Whole(RestoreSteps(b))
      BY <2>2 DEF RestoreSteps, Whole
    <3>2. Len(SetupSteps(b)) = 9 /\ Whole(SetupSteps(b))
      BY <2>2 DEF SetupSteps, Whole
    <3>3. Suffix(RestoreSteps(b), RestoreSteps(b))
      BY <3>1, <1>1
    <3>4. Suffix(SetupSteps(b), SetupSteps(b))
      BY <3>2, <1>1
    <3> QED  BY <3>1, <3>2, <3>3, <3>4, <2>2
  <2> QED  BY <2>1, <2>2
<1>6. Suffix(UpgradeSteps, UpgradeSteps)
  BY <1>1, <1>2
<1>7. Suffix(RollbackSteps, RollbackSteps)
  BY <1>1, <1>3
<1>8. Suffix(UninstallSteps, UninstallSteps)
  BY <1>1, <1>4
<1> QED  BY <1>2, <1>3, <1>4, <1>5, <1>6, <1>7, <1>8

\* Upgrade: where a failing step takes it depends on how far the swap has come.
LEMMA UpgradeFails ==
    ASSUME InUpgrade, CmdTypes, Failed
    PROVE  /\ Left >= 11 => EndWith("failed")
           /\ Left \in 9 .. 10 => Turned(FALSE)
           /\ Left <= 8 => Turned(TRUE)
<1> DEFINE step == Head(cmd.todo)
<1>1. OnError /\ cmd.kind = "upgrade"
  BY DEF InUpgrade, Failed, BestEffort
<1>2. \A s : (At(s) <=> step = s)
  BY UpgradePlace DEF InUpgrade, At
<1>3. Left \in 1 .. 12 /\ (At("capture") <=> Left = 12) /\ (At("stop") <=> Left = 11)
      /\ (At("out") <=> Left = 10) /\ (At("in") <=> Left = 9)
  BY UpgradePlace DEF InUpgrade
<1> HIDE DEF step
<1>4. ASSUME NEW moved \in BOOLEAN, Undo(RestoreSteps(moved)) PROVE Turned(moved)
  <2>1. cmd' = [cmd EXCEPT !.undo = TRUE, !.todo = RestoreSteps(moved)] /\ said' = said
    BY <1>4 DEF Undo
  <2>2. cmd'.todo = RestoreSteps(moved) /\ cmd'.undo
    BY <2>1 DEF CmdTypes, CmdFields
  <2>3. /\ cmd'.kind = cmd.kind /\ cmd'.plan = cmd.plan /\ cmd'.target = cmd.target
        /\ cmd'.saved = cmd.saved /\ cmd'.bad = cmd.bad /\ CmdTypes'
    BY <2>1 DEF CmdTypes, CmdFields
  <2> QED  BY <2>1, <2>2, <2>3, WholeSuffix DEF Turned, Left
<1>5. ASSUME Left >= 11 PROVE EndWith("failed")
  <2>1. step \in {"capture", "stop"}
    BY <1>2, <1>3, <1>5
  <2> QED  BY <1>1, <2>1 DEF OnError, step
<1>6. ASSUME Left \in 9 .. 10 PROVE Turned(FALSE)
  <2>1. step \in {"out", "in"}
    BY <1>2, <1>3, <1>6
  <2>2. Undo(RestoreSteps(FALSE))
    BY <1>1, <2>1 DEF OnError, step
  <2> QED  BY <2>2, <1>4
<1>7. ASSUME Left <= 8 PROVE Turned(TRUE)
  <2>1. step \notin {"capture", "stop", "out", "in"}
    BY <1>2, <1>3, <1>7
  <2>2. Undo(RestoreSteps(TRUE))
    BY <1>1, <2>1 DEF OnError, step
  <2> QED  BY <2>2, <1>4
<1> QED  BY <1>5, <1>6, <1>7

-----------------------------------------------------------------------------
(***************************************************************************)
(* An upgrade, forward.                                                    *)
(***************************************************************************)
Types == DiskTypes /\ ServiceTypes /\ CmdTypes

\* A step of an upgrade that succeeds ends it or leaves the rest.
LEMMA UpgradeProceeds ==
    ASSUME InUpgrade, CmdTypes, Proceed PROVE Over(1, FALSE) \/ GoesOn(UpgradeSteps, 1, FALSE)
<1>1. Suffix(cmd.todo, UpgradeSteps)
  BY DEF InUpgrade
<1>2. Len(UpgradeSteps) \in Nat /\ Left \in 1 .. 12
  BY <1>1, UpgradePlace
<1>3. Left \in Nat \ {0}
  BY <1>2
<1> QED  BY <1>1, <1>2, <1>3, ProceedGoesOn

\* It ends it only where one step is left.
LEMMA UpgradeNext ==
    ASSUME InUpgrade, CmdTypes, Proceed, Left # 1 PROVE GoesOn(UpgradeSteps, 1, FALSE)
<1>1. Over(1, FALSE) \/ GoesOn(UpgradeSteps, 1, FALSE)
  BY UpgradeProceeds
<1>2. ~Over(1, FALSE)
  BY DEF Over
<1> QED  BY <1>1, <1>2

\* One more step of the list: what is left to show.
LEMMA UpgradeGoesOn ==
    ASSUME InUpgrade, GoesOn(UpgradeSteps, 1, FALSE), disk'.aside = Absent, UpgradeAt(Left)'
    PROVE  InUpgrade'
BY DEF InUpgrade, GoesOn, SameCmd

\* The plan of an upgrade can be rendered.
LEMMA UpgradePlan ==
    ASSUME InUpgrade
    PROVE  /\ cmd.plan \in SettingsPlan /\ RenderEnvFile(cmd.plan) \in EnvFile
           /\ HasStrings(RenderEnvFile(cmd.plan))
<1>1. UpgradeAt(Left) /\ HasMode(cmd.plan) /\ Left \in 1 .. 12
  BY UpgradePlace DEF InUpgrade
<1>2. CASE Left = 12
  <2>1. RecordSound(disk.prov) /\ disk.env \in EnvFile
        /\ cmd.plan = loadInstalledIntent(disk.prov, disk.env)
    BY <1>1, <1>2 DEF UpgradeAt
  <2>2. IntentSound(disk.prov, disk.env, cmd.plan)
    BY <1>1, <2>1, IntentIsSound
  <2> QED  BY <2>2, RenderedEnv, RenderedStrings DEF IntentSound
<1>3. CASE SavedSound
  <2>1. RecordSound(cmd.saved.prov) /\ cmd.saved.env \in EnvFile
        /\ cmd.plan = loadInstalledIntent(cmd.saved.prov, cmd.saved.env)
    BY <1>3 DEF SavedSound
  <2>2. IntentSound(cmd.saved.prov, cmd.saved.env, cmd.plan)
    BY <1>1, <2>1, IntentIsSound
  <2> QED  BY <2>2, RenderedEnv, RenderedStrings DEF IntentSound
<1>4. Left = 12 \/ SavedSound
  <2>1. Left = 12 \/ Left <= 11
    BY <1>1
  <2> QED  BY <1>1, <2>1, Zenon DEF UpgradeAt
<1> QED  BY <1>2, <1>3, <1>4

\* An upgrade that turns round has left the copies where the rollback looks
\* for them.
LEMMA UpgradeTurns ==
    ASSUME InUpgrade, CmdTypes, Left <= 10, Failed,
           service'.running = service.running /\ service'.tls = service.tls,
           \/ disk'.env \in {cmd.saved.env, RenderEnvFile(cmd.plan)}
           \/ disk'.env \in Halfway /\ service.running = Absent,
           disk'.aside = Absent,
           IF Left >= 9 THEN disk'.backup = Absent
           ELSE disk'.backup = disk.backup /\ disk'.bin = disk.bin
    PROVE  (\E moved \in BOOLEAN : InRestore(moved)') /\ CmdTypes'
<1>1. Left \in 1 .. 10
  BY UpgradePlace DEF InUpgrade
<1>2. SavedSound /\ cmd.kind = "upgrade" /\ ~cmd.bad /\ cmd.target \in Release /\ HasMode(cmd.plan)
  <2>1. Left <= 11
    BY <1>1
  <2> QED  BY <2>1, Zenon DEF InUpgrade, UpgradeAt
<1>3. service.running # Absent => service.tls = cmd.plan.cert /\ service.running = cmd.target
  BY <1>1, NothingThere DEF InUpgrade, UpgradeAt
<1>4. ASSUME NEW moved \in BOOLEAN, Turned(moved), CopiesAt(Left, moved)', Left' \in 8 .. 10
      PROVE  InRestore(moved)'
  <2>1. SavedSound'
    BY <1>2, <1>4 DEF Turned, SavedSound
  <2>2. RestoredAt(Left)'
    BY <1>4 DEF RestoredAt
  <2>3. cmd'.saved = cmd.saved /\ cmd'.plan = cmd.plan /\ cmd'.target = cmd.target
    BY <1>4 DEF Turned
  <2>6. Halfway' = Halfway
    BY <2>3 DEF Halfway
  <2>4. RestoreEnv' /\ RestoreServed'
    BY <1>3, <2>3, <2>6 DEF RestoreEnv, RestoreServed
  <2>5. /\ cmd'.kind = "upgrade" /\ cmd'.undo /\ cmd'.target \in Release
        /\ HasMode(cmd'.plan) /\ Suffix(cmd.todo, RestoreSteps(moved))'
    BY <1>2, <1>4 DEF Turned
  <2> QED  BY <2>1, <2>2, <2>3, <2>4, <2>5, <1>4 DEF InRestore
<1>5. CASE Left \in 9 .. 10
  <2>1. Turned(FALSE)
    BY <1>5, UpgradeFails
  <2>2. Left' = 8 /\ CmdTypes'
    BY <2>1 DEF Turned
  <2>3. disk'.backup = Absent /\ disk'.aside = Absent /\ service'.running = Absent
    BY <1>5 DEF InUpgrade, UpgradeAt
  <2>4. CopiesAt(Left, FALSE)'
    BY <2>2, <2>3 DEF CopiesAt
  <2>5. Left' \in 8 .. 10
    BY <2>2
  <2> QED  BY <2>1, <2>2, <2>4, <2>5, <1>4
<1>6. CASE Left <= 8
  <2>1. Turned(TRUE)
    BY <1>6, UpgradeFails
  <2>2. Left' = 10 /\ cmd'.saved = cmd.saved /\ cmd'.target = cmd.target /\ CmdTypes'
    BY <2>1 DEF Turned
  <2>3. disk.backup = cmd.saved.bin /\ disk.bin = cmd.target
    BY <1>1, <1>6 DEF InUpgrade, UpgradeAt
  <2>4. disk'.backup = disk.backup /\ disk'.bin = disk.bin
    BY <1>1, <1>6
  <2>5. CopiesAt(Left, TRUE)'
    BY <2>2, <2>3, <2>4 DEF CopiesAt
  <2>6. Left' \in 8 .. 10
    BY <2>2
  <2> QED  BY <2>1, <2>2, <2>5, <2>6, <1>4
<1> QED  BY <1>1, <1>5, <1>6

-----------------------------------------------------------------------------
(***************************************************************************)
(* The service and the host.                                               *)
(***************************************************************************)
LEMMA SuffixTail ==
    ASSUME NEW list, Len(list) \in Nat, Suffix(cmd.todo, list), Left # 1
    PROVE  Suffix(Tail(cmd.todo), list) /\ Len(Tail(cmd.todo)) = Left - 1 /\ Left \in Nat
<1> DEFINE s == cmd.todo
           t == Tail(cmd.todo)
<1>1. s \in Seq(StepsOf(list)) /\ Len(s) \in 1 .. Len(list) /\ Len(s) \in Nat /\ Len(s) # 1
  BY DEF Suffix, Left
<1>2. \A i \in 1 .. Len(s) : s[i] = list[Len(list) - Len(s) + i]
  BY DEF Suffix
<1> HIDE DEF s
<1>3. Tail(s) \in Seq(StepsOf(list)) /\ Len(Tail(s)) = Len(s) - 1
      /\ \A i \in 1 .. Len(Tail(s)) : Tail(s)[i] = s[i + 1]
  <2>1. s # <<>>
    BY <1>1
  <2> QED  BY <1>1, <2>1
<1>4. ASSUME NEW i \in 1 .. Len(Tail(s)) PROVE Tail(s)[i] = list[Len(list) - Len(Tail(s)) + i]
  <2>1. i + 1 \in 1 .. Len(s) /\ Len(list) - Len(s) + (i + 1) = Len(list) - Len(Tail(s)) + i
    BY <1>1, <1>3
  <2> QED  BY <2>1, <1>2, <1>3
<1>5. Suffix(Tail(s), list)
  BY <1>1, <1>3, <1>4 DEF Suffix
<1> QED  BY <1>1, <1>3, <1>5 DEF s, Left

\* What systemd starts is the binary, with the settings of regixtry.env.
LEMMA StartedTypes ==
    ASSUME DiskTypes
    PROVE  /\ Started(disk) \in Release \cup {Absent} /\ ServesTLS(disk) \in BOOLEAN
           /\ Startable(disk) => Started(disk) = disk.bin /\ ServesTLS(disk) = disk.env.cert
           /\ Started(disk) # Absent => Startable(disk)
<1>1. Startable(disk) => disk.env.cert \in BOOLEAN /\ disk.bin \in Release
  BY DEF Startable, EnvFile
<1> QED  BY <1>1, NothingThere DEF Started, ServesTLS

\* The same of the next state.
LEMMA StartedTypesNext ==
    ASSUME DiskTypes' PROVE Started(disk') \in Release \cup {Absent} /\ ServesTLS(disk') \in BOOLEAN
<1>1. Startable(disk') => disk'.env.cert \in BOOLEAN /\ disk'.bin \in Release
  BY DEF Startable, EnvFile
<1> QED  BY <1>1 DEF Started, ServesTLS

\* A file that is cut off.
HalfTyped(f, half) ==
    IF f = "env" THEN half \in EnvFile
    ELSE f \in {"bin", "unit", "receipt", "prov"} /\ half = Torn
LEMMA HalfWritten ==
    ASSUME At("env") => RenderEnvFile(cmd.plan) \in EnvFile,
           At("oldEnv") => cmd.saved.env \in EnvFile,
           cmd.todo # <<>>, NEW h \in WrittenBy(Head(cmd.todo))
    PROVE  HalfTyped(h[1], h[2])
<1> DEFINE step == Head(cmd.todo)
<1>1. CASE step = "env"
  <2>1. h[1] = "env" /\ h[2] \in Cut(RenderEnvFile(cmd.plan))
    BY <1>1 DEF WrittenBy
  <2>2. RenderEnvFile(cmd.plan) \in EnvFile
    BY <1>1 DEF At
  <2> QED  BY <2>1, <2>2, CutIsEnv DEF HalfTyped
<1>2. CASE step = "oldEnv"
  <2>1. h[1] = "env" /\ h[2] \in Cut(cmd.saved.env)
    BY <1>2 DEF WrittenBy
  <2>2. cmd.saved.env \in EnvFile
    BY <1>2 DEF At
  <2> QED  BY <2>1, <2>2, CutIsEnv DEF HalfTyped
<1>3. CASE step \notin {"env", "oldEnv"}
  BY <1>3 DEF WrittenBy, HalfTyped
<1> QED  BY <1>1, <1>2, <1>3

\* Wherever a command dies, the host is at rest, its copies astray.
LEMMA DiesKept ==
    ASSUME Types, CommandDies, cmd.todo # <<>>,
           At("env") => RenderEnvFile(cmd.plan) \in EnvFile,
           At("oldEnv") => cmd.saved.env \in EnvFile
    PROVE  InstallInv' /\ AtRest'
<1>1. cmd' = NoCommand
  BY DEF CommandDies, EndWith
<1>2. DiskTypes' /\ NoCopies'
  <2>1. CASE disk' = Strays(disk)
    BY <2>1 DEF Types, DiskTypes, DiskFields, NoCopies, Strays
  <2>2. ASSUME NEW h \in WrittenBy(Head(cmd.todo)),
               disk' = Strays([disk EXCEPT ![h[1]] = h[2]])
        PROVE  DiskTypes' /\ NoCopies'
    <3>1. PICK f, half : f = h[1] /\ half = h[2]
      OBVIOUS
    <3>2. HalfTyped(f, half) /\ disk' = Strays([disk EXCEPT ![f] = half])
      BY <2>2, <3>1, HalfWritten
    <3>3. CASE f = "env" /\ half \in EnvFile
      BY <3>2, <3>3 DEF Types, DiskTypes, DiskFields, NoCopies, Strays
    <3>4. CASE f \in {"bin", "unit", "receipt", "prov"} /\ half = Torn
      BY <3>2, <3>4 DEF Types, DiskTypes, DiskFields, NoCopies, Strays
    <3> QED  BY <3>2, <3>3, <3>4 DEF HalfTyped
  <2> QED  BY <2>1, <2>2 DEF CommandDies
<1>3. ServiceTypes'
  <2>1. Started(disk') \in Release \cup {Absent} /\ ServesTLS(disk') \in BOOLEAN
    BY <1>2, StartedTypesNext
  <2>2. CASE service' = service
    BY <2>2 DEF Types, ServiceTypes
  <2>3. CASE service' = [service EXCEPT !.running = Started(disk'), !.tls = ServesTLS(disk')]
    BY <2>1, <2>3 DEF Types, ServiceTypes
  <2>4. CASE service' = Halted
    BY <2>4 DEF Types, ServiceTypes, Halted
  <2> QED  BY <2>2, <2>3, <2>4 DEF CommandDies
<1>4. CmdTypes'
  BY <1>1, IdleTypes
<1> QED  BY <1>1, <1>2, <1>3, <1>4 DEF InstallInv, AtRest

\* A request changes the data only.
LEMMA ServeTypes ==
    ASSUME Types, Serve
    PROVE  /\ Types'
           /\ disk'.bin = disk.bin /\ disk'.env = disk.env /\ disk'.unit = disk.unit
           /\ disk'.receipt = disk.receipt /\ disk'.prov = disk.prov
           /\ disk'.backup = disk.backup /\ disk'.aside = disk.aside /\ disk'.stray = disk.stray
           /\ cmd' = cmd /\ service' = service /\ service.running # Absent /\ said' = said
BY DEF Types, Serve, DiskTypes, DiskFields, ServiceTypes, CmdTypes

\* A restart changes the service only.
LEMMA RestartTypes ==
    ASSUME Types, ServiceRestarts
    PROVE  /\ Types' /\ disk' = disk /\ cmd' = cmd /\ said' = said
           /\ service.running # Absent /\ service'.enabled = service.enabled
           /\ service'.running = Started(disk) /\ service'.tls = ServesTLS(disk)
<1>1. Started(disk) \in Release \cup {Absent} /\ ServesTLS(disk) \in BOOLEAN
  BY StartedTypes DEF Types
<1> QED  BY <1>1 DEF Types, ServiceRestarts, DiskTypes, ServiceTypes, CmdTypes

-----------------------------------------------------------------------------
(***************************************************************************)
(* The steps of an upgrade.                                                *)
(***************************************************************************)
Goes == InUpgrade' \/ (\E moved \in BOOLEAN : InRestore(moved)') \/ AtRest'

\* captureManagedRuntimeBackup: from here on what was found is saved.
LEMMA UpgradeCaptures == ASSUME InUpgrade, Types, Capture PROVE Types' /\ Goes
<1>1. Left = 12 /\ UpgradeAt(Left) /\ Suffix(cmd.todo, UpgradeSteps) /\ disk.aside = Absent
      /\ Len(UpgradeSteps) \in Nat
  BY UpgradePlace DEF InUpgrade, Capture
<1>2. /\ RecordSound(disk.prov) /\ disk.env \in EnvFile /\ disk.backup = Absent
      /\ cmd.plan = loadInstalledIntent(disk.prov, disk.env)
  BY <1>1 DEF UpgradeAt
<1>3. disk' = disk /\ service' = service
  BY DEF Capture
<1>4. DiskTypes' /\ ServiceTypes'
  BY <1>3 DEF Types, DiskTypes, ServiceTypes
<1>5. CASE EndWith("failed")
  <2>1. cmd' = NoCommand /\ NoCopies'
    BY <1>1, <1>2, <1>3, <1>5 DEF EndWith, NoCopies
  <2> QED  BY <2>1, <1>4, IdleTypes DEF Types, Goes, AtRest
<1>6. CASE /\ \A f \in Managed : disk[f] # Absent
           /\ cmd' = [cmd EXCEPT !.saved = [f \in Managed |-> disk[f]], !.todo = Tail(@)]
  <2>1. Suffix(Tail(cmd.todo), UpgradeSteps) /\ Len(Tail(cmd.todo)) = 11
    BY <1>1, SuffixTail
  <2>2. /\ cmd'.todo = Tail(cmd.todo) /\ cmd'.saved = [f \in Managed |-> disk[f]]
        /\ cmd'.kind = cmd.kind /\ cmd'.plan = cmd.plan /\ cmd'.target = cmd.target
        /\ cmd'.undo = cmd.undo /\ cmd'.bad = cmd.bad /\ CmdTypes'
    BY <1>6 DEF Types, CmdTypes, CmdFields
  <2>3. /\ cmd'.saved.bin = disk.bin /\ cmd'.saved.env = disk.env /\ cmd'.saved.unit = disk.unit
        /\ cmd'.saved.receipt = disk.receipt /\ cmd'.saved.prov = disk.prov
        /\ disk.bin # Absent /\ disk.unit # Absent /\ disk.receipt # Absent
    BY <2>2, <1>6 DEF Managed
  <2>4. SavedSound'
    BY <1>2, <2>2, <2>3 DEF SavedSound, Types, DiskTypes
  <2>5. Left' = 11
    BY <2>1, <2>2 DEF Left
  <2>6. UpgradeAt(Left)'
    BY <2>3, <2>4, <2>5, <1>2, <1>3 DEF UpgradeAt
  <2>7. InUpgrade'
    BY <2>1, <2>2, <2>6, <1>1, <1>3 DEF InUpgrade
  <2> QED  BY <2>2, <2>7, <1>4 DEF Types, Goes
<1> QED  BY <1>5, <1>6 DEF Capture

\* The service is stopped before its binary moves.
LEMMA UpgradeStops == ASSUME InUpgrade, Types, Stop PROVE Types' /\ Goes
<1>1. Left = 11 /\ UpgradeAt(Left) /\ disk.aside = Absent
  BY UpgradePlace DEF InUpgrade, Stop
<1>2. disk' = disk /\ disk.backup = Absent /\ SavedSound
      /\ disk.bin = cmd.saved.bin /\ disk.env = cmd.saved.env
  BY <1>1 DEF Stop, UpgradeAt
<1>3. DiskTypes'
  BY <1>2 DEF Types, DiskTypes
<1>4. CASE service' = Halted /\ Proceed
  <2>1. Left # 1
    BY <1>1
  <2>2. GoesOn(UpgradeSteps, 1, FALSE)
    BY <2>1, <1>4, UpgradeNext DEF Types
  <2>3. ServiceTypes' /\ service'.running = Absent
    BY <1>4 DEF Types, ServiceTypes, Halted
  <2>4. Left' = 10 /\ SameCmd /\ CmdTypes'
    BY <2>2, <1>1 DEF GoesOn
  <2>5. SavedSound'
    BY <2>4, <1>2, SavedKept
  <2>6. UpgradeAt(Left)'
    BY <2>3, <2>4, <2>5, <1>2 DEF UpgradeAt, SameCmd
  <2>7. InUpgrade'
    BY <2>2, <2>6, <1>1, <1>2, UpgradeGoesOn
  <2> QED  BY <2>3, <2>4, <2>7, <1>3 DEF Types, Goes
<1>5. CASE service' \in {service, [service EXCEPT !.enabled = FALSE]} /\ Failed
  <2>1. EndWith("failed")
    BY <1>1, <1>5, UpgradeFails DEF Types
  <2>2. ServiceTypes'
    BY <1>5 DEF Types, ServiceTypes
  <2>3. cmd' = NoCommand /\ NoCopies'
    BY <2>1, <1>1, <1>2 DEF EndWith, NoCopies
  <2> QED  BY <2>2, <2>3, <1>3, IdleTypes DEF Types, Goes, AtRest
<1> QED  BY <1>4, <1>5 DEF Stop

\* swapInstalledBinary: the binary becomes the backup.
LEMMA UpgradeSwapsOut == ASSUME InUpgrade, Types, SwapOut PROVE Types' /\ Goes
<1>1. Left = 10 /\ UpgradeAt(Left) /\ disk.aside = Absent
  BY UpgradePlace DEF InUpgrade, SwapOut
<1>2. service' = service /\ disk.backup = Absent /\ SavedSound /\ service.running = Absent
      /\ disk.bin = cmd.saved.bin /\ disk.env = cmd.saved.env
  BY <1>1 DEF SwapOut, UpgradeAt
<1>3. ServiceTypes'
  BY <1>2 DEF Types, ServiceTypes
<1>4. CASE disk' = [disk EXCEPT !.backup = disk.bin, !.bin = Absent] /\ Proceed
  <2>1. Left # 1
    BY <1>1
  <2>2. GoesOn(UpgradeSteps, 1, FALSE)
    BY <2>1, <1>4, UpgradeNext DEF Types
  <2>3. /\ DiskTypes' /\ disk'.backup = disk.bin /\ disk'.bin = Absent /\ disk'.env = disk.env
        /\ disk'.aside = Absent
    BY <1>1, <1>4 DEF Types, DiskTypes, DiskFields
  <2>4. Left' = 9 /\ SameCmd /\ CmdTypes'
    BY <2>2, <1>1 DEF GoesOn
  <2>5. SavedSound'
    BY <2>4, <1>2, SavedKept
  <2>6. UpgradeAt(Left)'
    BY <2>3, <2>4, <2>5, <1>2 DEF UpgradeAt, SameCmd
  <2>7. InUpgrade'
    BY <2>2, <2>3, <2>6, UpgradeGoesOn
  <2> QED  BY <2>3, <2>4, <2>7, <1>3 DEF Types, Goes
<1>5. CASE disk' = disk /\ Failed
  <2>1. DiskTypes'
    BY <1>5 DEF Types, DiskTypes
  <2>2. (\E moved \in BOOLEAN : InRestore(moved)') /\ CmdTypes'
    BY <1>1, <1>2, <1>5, UpgradeTurns DEF Types
  <2> QED  BY <2>1, <2>2, <1>3 DEF Types, Goes
<1> QED  BY <1>4, <1>5 DEF SwapOut

\* swapInstalledBinary: the new release takes its place.
LEMMA UpgradeSwapsIn == ASSUME InUpgrade, Types, SwapIn PROVE Types' /\ Goes
<1>1. Left = 9 /\ UpgradeAt(Left) /\ disk.aside = Absent /\ cmd.target \in Release
  BY UpgradePlace DEF InUpgrade, SwapIn
<1>2. service' = service /\ disk.backup = cmd.saved.bin /\ SavedSound /\ service.running = Absent
      /\ disk.env = cmd.saved.env
  BY <1>1 DEF SwapIn, UpgradeAt
<1>3. ServiceTypes' /\ cmd.saved.bin \in Release \cup {Torn}
  BY <1>2 DEF Types, ServiceTypes, SavedSound
<1>4. CASE disk' = [disk EXCEPT !.bin = cmd.target] /\ Proceed
  <2>1. Left # 1
    BY <1>1
  <2>2. GoesOn(UpgradeSteps, 1, FALSE)
    BY <2>1, <1>4, UpgradeNext DEF Types
  <2>3. /\ DiskTypes' /\ disk'.backup = disk.backup /\ disk'.bin = cmd.target
        /\ disk'.env = disk.env /\ disk'.aside = Absent
    BY <1>1, <1>4 DEF Types, DiskTypes, DiskFields
  <2>4. Left' = 8 /\ SameCmd /\ CmdTypes'
    BY <2>2, <1>1 DEF GoesOn
  <2>5. SavedSound'
    BY <2>4, <1>2, SavedKept
  <2>6. UpgradeAt(Left)'
    BY <2>3, <2>4, <2>5, <1>2 DEF UpgradeAt, SameCmd
  <2>7. InUpgrade'
    BY <2>2, <2>3, <2>6, UpgradeGoesOn
  <2> QED  BY <2>3, <2>4, <2>7, <1>3 DEF Types, Goes
<1>5. CASE /\ disk' \in {[disk EXCEPT !.bin = disk.backup, !.backup = Absent],
                        [disk EXCEPT !.backup = Absent, !.stray = @ \cup {disk.backup}]}
           /\ Failed
  <2>1. DiskTypes' /\ disk'.backup = Absent /\ disk'.aside = Absent /\ disk'.env = disk.env
    BY <1>1, <1>2, <1>3, <1>5 DEF Types, DiskTypes, DiskFields
  <2>2. (\E moved \in BOOLEAN : InRestore(moved)') /\ CmdTypes'
    BY <1>1, <1>2, <1>5, <2>1, UpgradeTurns DEF Types
  <2> QED  BY <2>1, <2>2, <1>3 DEF Types, Goes
<1> QED  BY <1>4, <1>5 DEF SwapIn

\* writeManagedArtifacts: regixtry.env is rendered from the plan.
LEMMA UpgradeWritesEnv == ASSUME InUpgrade, Types, WriteEnv PROVE Types' /\ Goes
<1>1. Left = 8 /\ UpgradeAt(Left) /\ disk.aside = Absent
  BY UpgradePlace DEF InUpgrade, WriteEnv
<1>2. service' = service /\ disk.backup = cmd.saved.bin /\ SavedSound /\ service.running = Absent
      /\ disk.env = cmd.saved.env /\ disk.bin = cmd.target
  <2>1. service' = service
    BY Zenon DEF WriteEnv
  <2> QED  BY <1>1, <2>1 DEF UpgradeAt
<1>3. ServiceTypes' /\ RenderEnvFile(cmd.plan) \in EnvFile
  BY <1>2, UpgradePlan DEF Types, ServiceTypes
<1> DEFINE made == [disk EXCEPT !.content = IF @ = Absent THEN "empty" ELSE @]
<1>4. CASE disk' = [made EXCEPT !.env = RenderEnvFile(cmd.plan)] /\ Proceed
  <2>1. Left # 1
    BY <1>1
  <2>2. GoesOn(UpgradeSteps, 1, FALSE)
    BY <2>1, <1>4, UpgradeNext DEF Types
  <2>3. /\ DiskTypes' /\ disk'.backup = disk.backup /\ disk'.bin = disk.bin
        /\ disk'.env = RenderEnvFile(cmd.plan) /\ disk'.aside = Absent
    BY <1>1, <1>3, <1>4 DEF Types, DiskTypes, DiskFields
  <2>4. Left' = 7 /\ SameCmd /\ CmdTypes'
    BY <2>2, <1>1 DEF GoesOn
  <2>5. SavedSound'
    BY <2>4, <1>2, SavedKept
  <2>6. UpgradeAt(Left)'
    BY <2>3, <2>4, <2>5, <1>2 DEF UpgradeAt, SameCmd
  <2>7. InUpgrade'
    BY <2>2, <2>3, <2>6, UpgradeGoesOn
  <2> QED  BY <2>3, <2>4, <2>7, <1>3 DEF Types, Goes
<1>5. CASE disk' \in {disk, made} /\ Failed
  <2>1. /\ DiskTypes' /\ disk'.backup = disk.backup /\ disk'.aside = Absent
        /\ disk'.env = disk.env /\ disk'.bin = disk.bin
    BY <1>1, <1>5 DEF Types, DiskTypes, DiskFields
  <2>2. (\E moved \in BOOLEAN : InRestore(moved)') /\ CmdTypes'
    BY <1>1, <1>2, <1>5, <2>1, UpgradeTurns DEF Types
  <2> QED  BY <2>1, <2>2, <1>3 DEF Types, Goes
<1>6. ASSUME NEW half \in Cut(RenderEnvFile(cmd.plan)), disk' = [made EXCEPT !.env = half], Failed
      PROVE  Types' /\ Goes
  <2>0. half \in EnvFile /\ half \in Halfway
    BY <1>3, <1>6, CutIsEnv DEF Halfway
  <2>1. /\ DiskTypes' /\ disk'.backup = disk.backup /\ disk'.aside = Absent
        /\ disk'.env = half /\ disk'.bin = disk.bin
    BY <1>1, <1>6, <2>0 DEF Types, DiskTypes, DiskFields
  <2>2. (\E moved \in BOOLEAN : InRestore(moved)') /\ CmdTypes'
    BY <1>1, <1>2, <1>6, <2>0, <2>1, UpgradeTurns DEF Types
  <2> QED  BY <2>1, <2>2, <1>3 DEF Types, Goes
<1> QED  BY <1>4, <1>5, <1>6 DEF WriteEnv

\* Files that are written once the binary is in.
LEMMA UpgradeWrites ==
    ASSUME InUpgrade, Types, NEW f \in {"unit", "receipt", "prov"}, NEW value,
           value = Torn \/ (IF f = "prov" THEN RecordSound(value) ELSE value = Written),
           Left \in 2 .. 7, Write(f, value),
           Left = 7 => f = "unit", Left = 6 => f = "receipt",
           f = "unit" => Left = 7, f = "receipt" => Left = 6, f = "prov" => Left = 2,
           f # "prov" => value = Written,
           f = "prov" => value = lifecycleProvenanceFromPlan(cmd.plan, cmd.target)
    PROVE  Types' /\ Goes
<1>1. UpgradeAt(Left) /\ disk.aside = Absent
  BY DEF InUpgrade
<1>2. /\ service' = service /\ disk.backup = cmd.saved.bin /\ SavedSound
      /\ disk.env = RenderEnvFile(cmd.plan) /\ disk.bin = cmd.target
  BY <1>1 DEF Write, UpgradeAt
<1>3. ServiceTypes'
  BY <1>2 DEF Types, ServiceTypes
<1>4. CASE disk' = [disk EXCEPT ![f] = value] /\ Proceed
  <2>1. Left # 1
    OBVIOUS
  <2>2. GoesOn(UpgradeSteps, 1, FALSE)
    BY <2>1, <1>4, UpgradeNext DEF Types
  <2>3. /\ DiskTypes' /\ disk'.backup = disk.backup /\ disk'.bin = disk.bin
        /\ disk'.env = disk.env /\ disk'.aside = Absent /\ disk'[f] = value
    BY <1>1, <1>4, NothingThere DEF Types, DiskTypes, DiskFields
  <2>8. /\ f # "unit" => disk'.unit = disk.unit
        /\ f # "receipt" => disk'.receipt = disk.receipt
        /\ f # "prov" => disk'.prov = disk.prov
    BY <1>4 DEF Types, DiskTypes, DiskFields
  <2>4. Left' = Left - 1 /\ SameCmd /\ CmdTypes'
    BY <2>2 DEF GoesOn
  <2>5. SavedSound'
    BY <2>4, <1>2, SavedKept
  <2>6. UpgradeAt(Left)'
    BY <2>3, <2>4, <2>5, <2>8, <1>1, <1>2 DEF UpgradeAt, SameCmd
  <2>7. InUpgrade'
    BY <2>2, <2>3, <2>6, UpgradeGoesOn
  <2> QED  BY <2>3, <2>4, <2>7, <1>3 DEF Types, Goes
<1>5. CASE disk' \in {disk, [disk EXCEPT ![f] = Torn]} /\ Failed
  <2>1. /\ DiskTypes' /\ disk'.backup = disk.backup /\ disk'.aside = Absent
        /\ disk'.env = disk.env /\ disk'.bin = disk.bin
    BY <1>1, <1>5 DEF Types, DiskTypes, DiskFields
  <2>2. Left <= 10 /\ ~(Left >= 9)
    OBVIOUS
  <2>3. service'.running = service.running /\ service'.tls = service.tls
    BY <1>2
  <2>4. (\E moved \in BOOLEAN : InRestore(moved)') /\ CmdTypes'
    BY <1>2, <1>5, <2>1, <2>2, <2>3, UpgradeTurns DEF Types
  <2> QED  BY <2>1, <2>4, <1>3 DEF Types, Goes
<1> QED  BY <1>4, <1>5 DEF Write, Halves

\* The reload changes nothing on disk.
LEMMA UpgradeReloads == ASSUME InUpgrade, Types, DaemonReload PROVE Types' /\ Goes
<1>1. Left = 5 /\ UpgradeAt(Left) /\ disk.aside = Absent
  BY UpgradePlace DEF InUpgrade, DaemonReload
<1>2. service' = service /\ disk' = disk /\ SavedSound /\ disk.env = RenderEnvFile(cmd.plan)
  BY <1>1 DEF DaemonReload, UpgradeAt
<1>3. ServiceTypes' /\ DiskTypes'
  BY <1>2 DEF Types, ServiceTypes, DiskTypes
<1>4. CASE Proceed
  <2>1. Left # 1
    BY <1>1
  <2>2. GoesOn(UpgradeSteps, 1, FALSE)
    BY <2>1, <1>4, UpgradeNext DEF Types
  <2>4. Left' = 4 /\ SameCmd /\ CmdTypes'
    BY <2>2, <1>1 DEF GoesOn
  <2>5. SavedSound'
    BY <2>4, <1>2, SavedKept
  <2>6. UpgradeAt(Left)'
    BY <2>4, <2>5, <1>1, <1>2 DEF UpgradeAt, SameCmd
  <2>7. InUpgrade'
    BY <2>2, <2>6, <1>1, <1>2, UpgradeGoesOn
  <2> QED  BY <2>4, <2>7, <1>3 DEF Types, Goes
<1>5. CASE Failed
  <2>1. (\E moved \in BOOLEAN : InRestore(moved)') /\ CmdTypes'
    BY <1>1, <1>2, <1>5, UpgradeTurns DEF Types
  <2> QED  BY <2>1, <1>3 DEF Types, Goes
<1> QED  BY <1>4, <1>5 DEF DaemonReload

\* What is started is the new release with the rendered settings.
LEMMA UpgradeEnables == ASSUME InUpgrade, Types, EnableNow PROVE Types' /\ Goes
<1>1. Left = 4 /\ UpgradeAt(Left) /\ disk.aside = Absent /\ cmd.target \in Release
      /\ Suffix(cmd.todo, UpgradeSteps) /\ Len(UpgradeSteps) \in Nat
  BY UpgradePlace DEF InUpgrade, EnableNow
<1>2. /\ disk' = disk /\ SavedSound /\ disk.env = RenderEnvFile(cmd.plan) /\ disk.unit = Written
      /\ disk.bin = cmd.target /\ service.running = Absent
  BY <1>1 DEF EnableNow, UpgradeAt
<1>3. DiskTypes'
  BY <1>2 DEF Types, DiskTypes
<1>4. CASE service' = Up /\ cmd' = [cmd EXCEPT !.todo = Tail(@), !.fresh = service.running = Absent]
  <2>1. Suffix(Tail(cmd.todo), UpgradeSteps) /\ Len(Tail(cmd.todo)) = 3
    BY <1>1, SuffixTail
  <2>2. /\ cmd'.todo = Tail(cmd.todo) /\ cmd'.saved = cmd.saved
        /\ cmd'.kind = cmd.kind /\ cmd'.plan = cmd.plan /\ cmd'.target = cmd.target
        /\ cmd'.undo = cmd.undo /\ cmd'.bad = cmd.bad /\ CmdTypes'
    BY <1>4 DEF Types, CmdTypes, CmdFields
  <2>3. Startable(disk)
    BY <1>1, <1>2, UpgradePlan DEF Startable
  <2>4. /\ service' = [enabled |-> TRUE, running |-> Started(disk), tls |-> ServesTLS(disk)]
        /\ Started(disk) = cmd.target /\ ServesTLS(disk) = disk.env.cert
        /\ ServesTLS(disk) \in BOOLEAN /\ Started(disk) \in Release \cup {Absent}
    BY <2>3, <1>2, <1>4, StartedTypes DEF Up, Types
  <2>5. disk.env.cert = cmd.plan.cert
    BY <1>2, UpgradePlan, RenderedEnv
  <2>6. ServiceTypes' /\ service'.enabled /\ service'.running = cmd.target /\ service'.tls = cmd.plan.cert
    BY <2>4, <2>5 DEF ServiceTypes
  <2>7. SavedSound'
    BY <2>2, <1>2 DEF SavedSound
  <2>8. Left' = 3
    BY <2>1, <2>2 DEF Left
  <2>9. UpgradeAt(Left)'
    BY <2>2, <2>6, <2>7, <2>8, <1>1, <1>2 DEF UpgradeAt
  <2>10. InUpgrade'
    BY <2>1, <2>2, <2>9, <1>1, <1>2 DEF InUpgrade
  <2> QED  BY <2>2, <2>6, <2>10, <1>3 DEF Types, Goes
<1>5. CASE service' \in {service, [service EXCEPT !.enabled = TRUE]} /\ Failed
  <2>1. ServiceTypes' /\ service'.running = service.running /\ service'.tls = service.tls
    BY <1>5 DEF Types, ServiceTypes
  <2>2. (\E moved \in BOOLEAN : InRestore(moved)') /\ CmdTypes'
    BY <1>1, <1>2, <1>5, <2>1, UpgradeTurns DEF Types
  <2> QED  BY <2>1, <2>2, <1>3 DEF Types, Goes
<1> QED  BY <1>4, <1>5 DEF EnableNow

\* The upgrade goes on only if the service answers.
LEMMA UpgradeWaits == ASSUME InUpgrade, Types, WaitReachable PROVE Types' /\ Goes
<1>1. Left = 3 /\ UpgradeAt(Left) /\ disk.aside = Absent
  BY UpgradePlace DEF InUpgrade, WaitReachable
<1>2. service' = service /\ disk' = disk /\ SavedSound /\ disk.env = RenderEnvFile(cmd.plan)
      /\ service.tls = cmd.plan.cert
  BY <1>1 DEF WaitReachable, UpgradeAt
<1>3. ServiceTypes' /\ DiskTypes'
  BY <1>2 DEF Types, ServiceTypes, DiskTypes
<1>4. CASE Reachable /\ Proceed
  <2>1. Left # 1
    BY <1>1
  <2>2. GoesOn(UpgradeSteps, 1, FALSE)
    BY <2>1, <1>4, UpgradeNext DEF Types
  <2>3. cmd.plan.cert = ProbesTLS(cmd.plan)
    BY <1>2, <1>4 DEF Reachable
  <2>4. Left' = 2 /\ SameCmd /\ CmdTypes'
    BY <2>2, <1>1 DEF GoesOn
  <2>5. SavedSound'
    BY <2>4, <1>2, SavedKept
  <2>6. UpgradeAt(Left)'
    BY <2>3, <2>4, <2>5, <1>1, <1>2 DEF UpgradeAt, SameCmd
  <2>7. InUpgrade'
    BY <2>2, <2>6, <1>1, <1>2, UpgradeGoesOn
  <2> QED  BY <2>4, <2>7, <1>3 DEF Types, Goes
<1>5. CASE Failed
  <2>1. (\E moved \in BOOLEAN : InRestore(moved)') /\ CmdTypes'
    BY <1>1, <1>2, <1>5, UpgradeTurns DEF Types
  <2> QED  BY <2>1, <1>3 DEF Types, Goes
<1> QED  BY <1>4, <1>5 DEF WaitReachable

\* The backup goes last.
LEMMA UpgradeDrops == ASSUME InUpgrade, Types, DropBackup PROVE Types' /\ Goes
<1>1. Left = 1 /\ UpgradeAt(Left) /\ disk.aside = Absent
  BY UpgradePlace DEF InUpgrade, DropBackup
<1>2. service' = service /\ SavedSound /\ disk.env = RenderEnvFile(cmd.plan)
  BY <1>1 DEF DropBackup, UpgradeAt
<1>3. ServiceTypes'
  BY <1>2 DEF Types, ServiceTypes
<1>4. CASE disk' = [disk EXCEPT !.backup = Absent] /\ Proceed
  <2>1. Over(1, FALSE) \/ GoesOn(UpgradeSteps, 1, FALSE)
    BY <1>4, UpgradeProceeds DEF Types
  <2>2. ~GoesOn(UpgradeSteps, 1, FALSE)
    BY <1>1 DEF GoesOn
  <2>3. cmd' = NoCommand
    BY <2>1, <2>2 DEF Over
  <2>4. DiskTypes' /\ NoCopies'
    BY <1>1, <1>4 DEF Types, DiskTypes, DiskFields, NoCopies
  <2> QED  BY <2>3, <2>4, <1>3, IdleTypes DEF Types, Goes, AtRest
<1>5. CASE disk' = disk /\ Failed
  <2>1. DiskTypes'
    BY <1>5 DEF Types, DiskTypes
  <2>2. (\E moved \in BOOLEAN : InRestore(moved)') /\ CmdTypes'
    BY <1>1, <1>2, <1>5, UpgradeTurns DEF Types
  <2> QED  BY <2>1, <2>2, <1>3 DEF Types, Goes
<1> QED  BY <1>4, <1>5 DEF DropBackup

\* A request leaves an upgrade where it is.
LEMMA UpgradeServes == ASSUME InUpgrade, Types, Serve PROVE Types' /\ Goes
<1>1. Types' /\ cmd' = cmd /\ service' = service
      /\ disk'.bin = disk.bin /\ disk'.env = disk.env /\ disk'.unit = disk.unit
      /\ disk'.receipt = disk.receipt /\ disk'.prov = disk.prov
      /\ disk'.backup = disk.backup /\ disk'.aside = disk.aside
  BY ServeTypes
<1>2. Left' = Left /\ (SavedSound => SavedSound')
  BY <1>1 DEF Left, SavedSound
<1>3. Left \in 1 .. 12 /\ UpgradeAt(Left)
  BY UpgradePlace DEF InUpgrade
<1>4. UpgradeAt(Left)'
  BY <1>1, <1>2, <1>3 DEF UpgradeAt
<1>5. InUpgrade'
  BY <1>1, <1>4 DEF InUpgrade
<1> QED  BY <1>1, <1>5 DEF Goes

\* So does a restart of the service.
LEMMA UpgradeRestarts == ASSUME InUpgrade, Types, ServiceRestarts PROVE Types' /\ Goes
<1>1. /\ Types' /\ cmd' = cmd /\ disk' = disk
      /\ service.running # Absent /\ service'.enabled = service.enabled
      /\ service'.running = Started(disk) /\ service'.tls = ServesTLS(disk)
  BY RestartTypes
<1>2. Left' = Left /\ (SavedSound => SavedSound')
  BY <1>1 DEF Left, SavedSound
<1>3. Left \in 1 .. 12 /\ UpgradeAt(Left) /\ cmd.target \in Release
  BY UpgradePlace DEF InUpgrade
<1>4. UpgradeAt(Left)'
  <2>1. CASE Left >= 4
    BY <2>1, <1>1, <1>2, <1>3 DEF UpgradeAt
  <2>2. CASE Left <= 3
    <3>1. /\ disk.bin = cmd.target /\ disk.unit = Written /\ disk.env = RenderEnvFile(cmd.plan)
      BY <2>2, <1>3 DEF UpgradeAt
    <3>2. Startable(disk) /\ disk.env.cert = cmd.plan.cert
      BY <3>1, <1>3, UpgradePlan, RenderedEnv DEF Startable
    <3>3. service'.running = cmd.target /\ service'.tls = cmd.plan.cert
      BY <3>1, <3>2, <1>1, StartedTypes DEF Types
    <3> QED  BY <3>3, <2>2, <1>1, <1>2, <1>3 DEF UpgradeAt
  <2> QED  BY <2>1, <2>2, <1>3
<1>5. InUpgrade'
  BY <1>1, <1>4 DEF InUpgrade
<1> QED  BY <1>1, <1>5 DEF Goes

\* No other step is in the list of an upgrade.
LEMMA UpgradeOnly ==
    ASSUME InUpgrade, InstallNext
    PROVE  \/ Capture \/ Stop \/ SwapOut \/ SwapIn \/ WriteEnv \/ WriteUnit \/ WriteReceipt
           \/ DaemonReload \/ EnableNow \/ WaitReachable \/ SaveLifecycleProvenance \/ DropBackup
           \/ Serve \/ ServiceRestarts \/ CommandDies
<1>1. cmd.kind = "upgrade" /\ cmd.todo # <<>> /\ cmd # NoCommand
  BY UpgradePlace DEF InUpgrade, NoCommand
<1>2. Head(cmd.todo) \in {"capture", "stop", "out", "in", "env", "unit", "receipt", "reload",
                          "enable", "wait", "prov", "drop"}
  <2>1. Left \in 1 .. 12
    BY UpgradePlace DEF InUpgrade
  <2>2. \/ At("capture") \/ At("stop") \/ At("out") \/ At("in") \/ At("env") \/ At("unit")
        \/ At("receipt") \/ At("reload") \/ At("enable") \/ At("wait") \/ At("prov") \/ At("drop")
    BY <2>1, UpgradePlace DEF InUpgrade
  <2> QED  BY <2>2 DEF At
<1>3. /\ ~\E input \in SetupInput : Setup(input)
      /\ ~\E r \in Release : Upgrade_(r)
      /\ ~RollbackSetup /\ ~Uninstall /\ ~EditEnv
  BY <1>1 DEF Setup, Upgrade_, RollbackSetup, Uninstall, EditEnv, Start
<1>4. ASSUME NEW step, step \in {"db", "bind", "aside", "back", "clean", "rewrite", "oldEnv", "oldUnit",
                                "oldReceipt", "oldProv", "deleteReceipt", "deleteContent", "deleteDB",
                                "deleteUnit", "deleteEnv", "deleteProvenance", "deleteBinary"}
      PROVE  ~At(step)
  BY <1>2, <1>4 DEF At
<1>5. \A f \in DOMAIN DeleteStep : ~RemovePath(f)
  <2> SUFFICES ASSUME NEW f \in DOMAIN DeleteStep PROVE ~At(DeleteStep[f])
    BY DEF RemovePath
  <2>1. DeleteStep[f] \in {"deleteReceipt", "deleteContent", "deleteDB",
                           "deleteUnit", "deleteEnv", "deleteProvenance", "deleteBinary"}
    BY DEF DeleteStep
  <2> QED  BY <2>1, <1>4
<1>6. ~CreateDatabase /\ ~PreflightBind /\ ~MoveAside /\ ~MoveBack /\ ~CleanAside
  BY <1>4 DEF CreateDatabase, PreflightBind, MoveAside, MoveBack, CleanAside
<1>7. /\ ~RestoreFile("rewrite", "bin") /\ ~RestoreFile("oldEnv", "env")
      /\ ~RestoreFile("oldUnit", "unit") /\ ~RestoreFile("oldReceipt", "receipt")
      /\ ~RestoreFile("oldProv", "prov")
  BY <1>4 DEF RestoreFile
<1> QED  BY <1>3, <1>5, <1>6, <1>7 DEF InstallNext

\* Every step from within an upgrade keeps the invariant.
LEMMA UpgradeKept == ASSUME InUpgrade, Types, InstallNext PROVE InstallInv'
<1>1. ASSUME Types' /\ Goes PROVE InstallInv'
  BY <1>1 DEF InstallInv, Types, Goes
<1>2. UpgradeAt(Left) /\ cmd.kind = "upgrade" /\ cmd.target \in Release
  BY DEF InUpgrade
<1>3. CASE Capture
  BY <1>1, <1>3, UpgradeCaptures
<1>4. CASE Stop
  BY <1>1, <1>4, UpgradeStops
<1>5. CASE SwapOut
  BY <1>1, <1>5, UpgradeSwapsOut
<1>6. CASE SwapIn
  BY <1>1, <1>6, UpgradeSwapsIn
<1>7. CASE WriteEnv
  BY <1>1, <1>7, UpgradeWritesEnv
<1>8. CASE WriteUnit
  <2>1. Left = 7 /\ Write("unit", Written)
    BY <1>8, UpgradePlace DEF InUpgrade, WriteUnit
  <2> QED  BY <2>1, <1>1, UpgradeWrites
<1>9. CASE WriteReceipt
  <2>1. Left = 6 /\ Write("receipt", Written)
    BY <1>9, UpgradePlace DEF InUpgrade, WriteReceipt
  <2> QED  BY <2>1, <1>1, UpgradeWrites
<1>10. CASE SaveLifecycleProvenance
  <2> DEFINE p == lifecycleProvenanceFromPlan(cmd.plan, cmd.target)
  <2>1. Left = 2 /\ Write("prov", p)
    BY <1>2, <1>10, UpgradePlace DEF InUpgrade, SaveLifecycleProvenance
  <2>2. SavedSound /\ HasMode(cmd.plan) /\ cmd.plan.cert = ProbesTLS(cmd.plan)
    BY <2>1 DEF InUpgrade, UpgradeAt
  <2>3. /\ cmd.plan = loadInstalledIntent(cmd.saved.prov, cmd.saved.env)
        /\ RecordSound(cmd.saved.prov) /\ cmd.saved.env \in EnvFile
    BY <2>2 DEF SavedSound
  <2>4. IntentSound(cmd.saved.prov, cmd.saved.env, cmd.plan)
    BY <2>2, <2>3, IntentIsSound
  <2>5. cmd.plan \in SettingsPlan /\ (cmd.plan.mode = "local-http" <=> cmd.plan.scheme = "http")
    BY <2>4 DEF IntentSound
  <2>6. Fits(cmd.plan.mode, cmd.plan.scheme, cmd.plan.cert)
    <3>1. cmd.plan.mode \in TLSMode /\ cmd.plan.scheme \in Scheme /\ cmd.plan.cert \in BOOLEAN
      BY <2>5 DEF SettingsPlan
    <3>2. (cmd.plan.mode = "direct-tls" <=> cmd.plan.cert = TRUE)
      BY <2>2, <3>1 DEF ProbesTLS
    <3> QED  BY <2>5, <3>1, <3>2, FitsMeans
  <2>7. RecordSound(p)
    BY <2>5, <2>6, <1>2, RecordedPlan
  <2> HIDE DEF p
  <2> QED  BY <2>1, <2>7, <1>1, UpgradeWrites DEF p
<1>11. CASE DaemonReload
  BY <1>1, <1>11, UpgradeReloads
<1>12. CASE EnableNow
  BY <1>1, <1>12, UpgradeEnables
<1>13. CASE WaitReachable
  BY <1>1, <1>13, UpgradeWaits
<1>14. CASE DropBackup
  BY <1>1, <1>14, UpgradeDrops
<1>15. CASE Serve
  BY <1>1, <1>15, UpgradeServes
<1>16. CASE ServiceRestarts
  BY <1>1, <1>16, UpgradeRestarts
<1>17. CASE CommandDies
  <2>1. cmd.todo # <<>> /\ ~At("oldEnv")
    <3>1. \/ At("capture") \/ At("stop") \/ At("out") \/ At("in") \/ At("env") \/ At("unit")
          \/ At("receipt") \/ At("reload") \/ At("enable") \/ At("wait") \/ At("prov") \/ At("drop")
      BY UpgradePlace DEF InUpgrade
    <3> QED  BY <3>1 DEF At
  <2>2. RenderEnvFile(cmd.plan) \in EnvFile
    BY UpgradePlan
  <2> QED  BY <1>17, <2>1, <2>2, DiesKept
<1> QED  BY UpgradeOnly, <1>3, <1>4, <1>5, <1>6, <1>7, <1>8, <1>9, <1>10, <1>11, <1>12, <1>13,
            <1>14, <1>15, <1>16, <1>17

-----------------------------------------------------------------------------
(***************************************************************************)
(* An upgrade, undone.                                                     *)
(***************************************************************************)
LEMMA RestoreMoves ==
    ASSUME NEW moved \in BOOLEAN, InRestore(moved), CmdTypes
    PROVE  /\ Proceed => Over(1, FALSE) \/ GoesOn(RestoreSteps(moved), 1, FALSE)
           /\ Failed => Over(1, TRUE) \/ GoesOn(RestoreSteps(moved), 1, TRUE)
<1>1. Suffix(cmd.todo, RestoreSteps(moved)) /\ BestEffort
  BY DEF InRestore, BestEffort
<1>2. Len(RestoreSteps(moved)) \in Nat /\ Left \in 1 .. 10
  BY <1>1, RestorePlace
<1>3. Left \in Nat \ {0}
  BY <1>2
<1> QED  BY <1>1, <1>2, <1>3, ProceedGoesOn, FailedGoesOn

\* The restore ends only where one step is left.
LEMMA RestoreNext ==
    ASSUME NEW moved \in BOOLEAN, InRestore(moved), CmdTypes, Left # 1
    PROVE  /\ Proceed => GoesOn(RestoreSteps(moved), 1, FALSE)
           /\ Failed => GoesOn(RestoreSteps(moved), 1, TRUE)
<1>1. ~Over(1, FALSE) /\ ~Over(1, TRUE)
  BY DEF Over
<1> QED  BY <1>1, RestoreMoves

\* A failing move skips the moves behind it.
LEMMA RestoreSkips ==
    ASSUME NEW moved \in BOOLEAN, InRestore(moved), CmdTypes, NEW n \in 1 .. 3, n < Left, Skip(n, TRUE)
    PROVE  GoesOn(RestoreSteps(moved), n, TRUE)
<1>1. Suffix(cmd.todo, RestoreSteps(moved))
  BY DEF InRestore
<1>2. Len(RestoreSteps(moved)) \in Nat /\ Left \in 1 .. 10
  BY <1>1, RestorePlace
<1>3. n \in 1 .. Left /\ Left # n
  BY <1>2
<1>4. ~Over(n, TRUE)
  BY <1>3 DEF Over
<1> QED  BY <1>1, <1>2, <1>3, <1>4, SkipGoesOn

\* What has to be shown of a step of the restore that is not the last.
LEMMA RestoreGoesOn ==
    ASSUME NEW moved \in BOOLEAN, InRestore(moved), NEW n, NEW bad,
           GoesOn(RestoreSteps(moved), n, bad),
           RestoreEnv', ~cmd'.bad => RestoreServed',
           CopiesAt(Left, moved)', ~cmd'.bad => RestoredAt(Left)'
    PROVE  InRestore(moved)'
<1>1. SameCmd /\ SavedSound'
  BY SavedKept DEF GoesOn, InRestore
<1> QED  BY <1>1 DEF InRestore, GoesOn, SameCmd

\* A step that leaves regixtry.env and the service alone.
LEMMA RestoreSame ==
    ASSUME NEW moved \in BOOLEAN, InRestore(moved), NEW n, NEW bad,
           GoesOn(RestoreSteps(moved), n, bad), disk'.env = disk.env,
           service'.running = service.running, service'.tls = service.tls
    PROVE  RestoreEnv' /\ (~cmd'.bad => RestoreServed')
<1>1. cmd'.saved = cmd.saved /\ cmd'.plan = cmd.plan /\ cmd'.target = cmd.target
  BY DEF GoesOn, SameCmd
<1>2. ~cmd'.bad => ~cmd.bad
  BY Zenon DEF GoesOn
<1>3. Halfway' = Halfway
  BY <1>1 DEF Halfway
<1>4. RestoreEnv /\ (~cmd.bad => RestoreServed)
  BY DEF InRestore
<1>5. RestoreEnv'
  BY <1>1, <1>3, <1>4 DEF RestoreEnv
<1>6. RestoreServed => RestoreServed'
  BY <1>1 DEF RestoreServed
<1> QED  BY <1>2, <1>4, <1>5, <1>6

\* A service started in a restore where no step failed serves as the plan says:
\* a regixtry.env that is there in part is put back before.
LEMMA RestoreTLS ==
    ASSUME NEW moved \in BOOLEAN, InRestore(moved), DiskTypes, OnRecord(cmd.saved.env, cmd.saved.prov),
           disk.env \in {cmd.saved.env, RenderEnvFile(cmd.plan)}, Started(disk) # Absent
    PROVE  ServesTLS(disk) = cmd.plan.cert
<1>1. /\ cmd.plan = loadInstalledIntent(cmd.saved.prov, cmd.saved.env) /\ HasMode(cmd.plan)
      /\ RecordSound(cmd.saved.prov) /\ cmd.saved.env \in EnvFile
  BY DEF InRestore, SavedSound
<1>2. IntentSound(cmd.saved.prov, cmd.saved.env, cmd.plan)
  BY <1>1, IntentIsSound
<1>3. cmd.plan \in SettingsPlan /\ cmd.plan.cert = cmd.saved.env.cert
  BY <1>2 DEF IntentSound
<1>4. RenderEnvFile(cmd.plan).cert = cmd.plan.cert
  BY <1>3, RenderedEnv
<1>5. ServesTLS(disk) = disk.env.cert
  BY StartedTypes
<1> QED  BY <1>3, <1>4, <1>5

Undoes == (\E moved \in BOOLEAN : InRestore(moved)') \/ AtRest'

\* The new binary is moved aside first.
LEMMA RestoreMovesAside ==
    ASSUME NEW moved \in BOOLEAN, InRestore(moved), Types, MoveAside PROVE Types' /\ Undoes
<1>1. Left = 10 /\ CopiesAt(Left, moved) /\ SavedSound /\ cmd.target \in Release
  BY RestorePlace DEF InRestore, MoveAside
<1>2. /\ service' = service /\ disk.backup = cmd.saved.bin /\ disk.aside = Absent
      /\ disk.bin = cmd.target
  BY <1>1 DEF MoveAside, CopiesAt
<1>3. ServiceTypes'
  BY <1>2 DEF Types, ServiceTypes
<1>5. CASE disk' = [disk EXCEPT !.aside = disk.bin, !.bin = Absent] /\ Proceed
  <2>1. Left # 1
    BY <1>1
  <2>2. GoesOn(RestoreSteps(moved), 1, FALSE)
    BY <2>1, <1>5, RestoreNext DEF Types
  <2>3. /\ DiskTypes' /\ disk'.env = disk.env /\ disk'.aside = cmd.target /\ disk'.bin = Absent
        /\ disk'.backup = disk.backup
    BY <1>2, <1>5 DEF Types, DiskTypes, DiskFields
  <2>4. Left' = 9 /\ SameCmd /\ CmdTypes'
    BY <2>2, <1>1 DEF GoesOn
  <2>5. CopiesAt(Left, moved)' /\ RestoredAt(Left)'
    BY <2>3, <2>4, <1>2 DEF CopiesAt, RestoredAt, SameCmd
  <2>9. RestoreEnv' /\ (~cmd'.bad => RestoreServed')
    BY <2>2, <2>3, <1>2, RestoreSame
  <2>6. InRestore(moved)'
    BY <2>2, <2>5, <2>9, RestoreGoesOn
  <2> QED  BY <2>3, <2>4, <2>6, <1>3 DEF Types, Undoes
<1>6. CASE disk' = [disk EXCEPT !.backup = Absent, !.stray = @ \cup {disk.backup}] /\ Skip(3, TRUE)
  <2>1. 3 \in 1 .. 3 /\ 3 < Left
    BY <1>1
  <2>2. GoesOn(RestoreSteps(moved), 3, TRUE)
    BY <2>1, <1>6, RestoreSkips DEF Types
  <2>3. DiskTypes' /\ disk'.env = disk.env /\ disk'.aside = Absent /\ disk'.backup = Absent
    BY <1>2, <1>6 DEF Types, DiskTypes, DiskFields
  <2>7. Left' = 7 /\ SameCmd /\ CmdTypes'
    BY <2>2, <1>1 DEF GoesOn
  <2>8. cmd'.bad
    BY <2>2, Zenon DEF GoesOn
  <2>4. Left' = 7 /\ SameCmd /\ CmdTypes' /\ cmd'.bad
    BY <2>7, <2>8
  <2>5. CopiesAt(Left, moved)'
    BY <2>3, <2>4 DEF CopiesAt, NoCopies
  <2>9. RestoreEnv' /\ (~cmd'.bad => RestoreServed')
    BY <2>2, <2>3, <1>2, RestoreSame
  <2>6. InRestore(moved)'
    BY <2>2, <2>4, <2>5, <2>9, RestoreGoesOn
  <2> QED  BY <2>3, <2>4, <2>6, <1>3 DEF Types, Undoes
<1> QED  BY <1>5, <1>6 DEF MoveAside

\* Then the backup is moved back.
LEMMA RestoreMovesBack ==
    ASSUME NEW moved \in BOOLEAN, InRestore(moved), Types, MoveBack PROVE Types' /\ Undoes
<1>1. Left = 9 /\ moved /\ CopiesAt(Left, moved) /\ SavedSound /\ cmd.target \in Release
  BY RestorePlace DEF InRestore, MoveBack
<1>2. /\ service' = service /\ disk.backup = cmd.saved.bin /\ disk.aside = cmd.target
      /\ disk.bin = Absent
  BY <1>1 DEF MoveBack, CopiesAt
<1>3. ServiceTypes' /\ cmd.saved.bin \in Release \cup {Torn}
  BY <1>1, <1>2 DEF Types, ServiceTypes, SavedSound
<1>5. CASE disk' = [disk EXCEPT !.bin = disk.backup, !.backup = Absent] /\ Proceed
  <2>1. Left # 1
    BY <1>1
  <2>2. GoesOn(RestoreSteps(moved), 1, FALSE)
    BY <2>1, <1>5, RestoreNext DEF Types
  <2>3. /\ DiskTypes' /\ disk'.env = disk.env /\ disk'.aside = cmd.target
        /\ disk'.bin = cmd.saved.bin /\ disk'.backup = Absent
    BY <1>2, <1>3, <1>5 DEF Types, DiskTypes, DiskFields
  <2>4. Left' = 8 /\ SameCmd /\ CmdTypes'
    BY <2>2, <1>1 DEF GoesOn
  <2>5. CopiesAt(Left, moved)' /\ RestoredAt(Left)'
    BY <2>3, <2>4, <1>1, <1>2 DEF CopiesAt, RestoredAt, SameCmd
  <2>9. RestoreEnv' /\ (~cmd'.bad => RestoreServed')
    BY <2>2, <2>3, <1>2, RestoreSame
  <2>6. InRestore(moved)'
    BY <2>2, <2>5, <2>9, RestoreGoesOn
  <2> QED  BY <2>3, <2>4, <2>6, <1>3 DEF Types, Undoes
<1>6. CASE /\ disk' \in {[disk EXCEPT !.bin = disk.aside, !.aside = Absent, !.backup = Absent,
                                     !.stray = @ \cup {disk.backup}],
                        [disk EXCEPT !.aside = Absent, !.backup = Absent,
                                     !.stray = @ \cup {disk.backup, disk.aside}]}
           /\ Skip(2, TRUE)
  <2>1. 2 \in 1 .. 3 /\ 2 < Left
    BY <1>1
  <2>2. GoesOn(RestoreSteps(moved), 2, TRUE)
    BY <2>1, <1>6, RestoreSkips DEF Types
  <2>3. DiskTypes' /\ disk'.env = disk.env /\ disk'.aside = Absent /\ disk'.backup = Absent
    BY <1>1, <1>2, <1>6 DEF Types, DiskTypes, DiskFields
  <2>7. Left' = 7 /\ SameCmd /\ CmdTypes'
    BY <2>2, <1>1 DEF GoesOn
  <2>8. cmd'.bad
    BY <2>2, Zenon DEF GoesOn
  <2>4. Left' = 7 /\ SameCmd /\ CmdTypes' /\ cmd'.bad
    BY <2>7, <2>8
  <2>5. CopiesAt(Left, moved)'
    BY <2>3, <2>4 DEF CopiesAt, NoCopies
  <2>9. RestoreEnv' /\ (~cmd'.bad => RestoreServed')
    BY <2>2, <2>3, <1>2, RestoreSame
  <2>6. InRestore(moved)'
    BY <2>2, <2>4, <2>5, <2>9, RestoreGoesOn
  <2> QED  BY <2>3, <2>4, <2>6, <1>3 DEF Types, Undoes
<1> QED  BY <1>5, <1>6 DEF MoveBack

\* Then the new binary goes.
LEMMA RestoreCleans ==
    ASSUME NEW moved \in BOOLEAN, InRestore(moved), Types, CleanAside PROVE Types' /\ Undoes
<1>1. Left = 8 /\ moved /\ CopiesAt(Left, moved)
  BY RestorePlace DEF InRestore, CleanAside
<1>2. service' = service /\ disk.backup = Absent /\ disk.bin = cmd.saved.bin
  BY <1>1 DEF CleanAside, CopiesAt
<1>3. ServiceTypes'
  BY <1>2 DEF Types, ServiceTypes
<1>5. /\ DiskTypes' /\ disk'.env = disk.env /\ disk'.aside = Absent
      /\ disk'.bin = cmd.saved.bin /\ disk'.backup = Absent
  BY <1>2 DEF CleanAside, Types, DiskTypes, DiskFields
<1>6. PICK bad \in BOOLEAN : GoesOn(RestoreSteps(moved), 1, bad)
  <2>1. Left # 1
    BY <1>1
  <2> QED  BY <2>1, RestoreNext DEF Types, CleanAside
<1>7. Left' = 7 /\ SameCmd /\ CmdTypes'
  BY <1>6, <1>1 DEF GoesOn
<1>8. CopiesAt(Left, moved)' /\ RestoredAt(Left)'
  BY <1>5, <1>7 DEF CopiesAt, RestoredAt, SameCmd, NoCopies
<1>4. RestoreEnv' /\ (~cmd'.bad => RestoreServed')
  BY <1>2, <1>5, <1>6, RestoreSame
<1>9. InRestore(moved)'
  BY <1>4, <1>6, <1>8, RestoreGoesOn
<1> QED  BY <1>3, <1>5, <1>7, <1>9 DEF Types, Undoes

\* The files are written back.
LEMMA RestoreWrites ==
    ASSUME NEW moved \in BOOLEAN, InRestore(moved), Types, NEW f \in Managed,
           Write(f, cmd.saved[f]),
           \/ f = "bin" /\ Left = 8 /\ ~moved
           \/ f = "env" /\ Left = 7
           \/ f = "unit" /\ Left = 6
           \/ f = "receipt" /\ Left = 5
           \/ f = "prov" /\ Left = 4
    PROVE  Types' /\ Undoes
<1>1. /\ CopiesAt(Left, moved) /\ SavedSound /\ cmd.target \in Release /\ (~cmd.bad => RestoredAt(Left))
      /\ RestoreEnv /\ (~cmd.bad => RestoreServed)
  BY DEF InRestore
<1>2. service' = service /\ disk.backup = Absent /\ disk.aside = Absent /\ Left \in 4 .. 8
  BY <1>1 DEF Write, CopiesAt, NoCopies
<1>3. ServiceTypes' /\ Left # 1
  BY <1>2 DEF Types, ServiceTypes
<1>5. CASE disk' = [disk EXCEPT ![f] = cmd.saved[f]] /\ Proceed
  <2>1. GoesOn(RestoreSteps(moved), 1, FALSE)
    BY <1>3, <1>5, RestoreNext DEF Types
  <2>2. /\ DOMAIN disk' = DiskFields /\ disk'[f] = cmd.saved[f]
        /\ \A g \in DiskFields : g # f => disk'[g] = disk[g]
    BY <1>5 DEF Types, DiskTypes, DiskFields, Managed
  <2>3. /\ f # "bin" => disk'.bin = disk.bin
        /\ f # "env" => disk'.env = disk.env
        /\ f # "unit" => disk'.unit = disk.unit
        /\ f # "receipt" => disk'.receipt = disk.receipt
        /\ f # "prov" => disk'.prov = disk.prov
        /\ disk'.backup = Absent /\ disk'.aside = Absent
    BY <2>2, <1>2 DEF DiskFields, Managed
  <2>4. /\ f = "bin" => disk'.bin = cmd.saved.bin
        /\ f = "env" => disk'.env = cmd.saved.env
        /\ f = "unit" => disk'.unit = cmd.saved.unit
        /\ f = "receipt" => disk'.receipt = cmd.saved.receipt
        /\ f = "prov" => disk'.prov = cmd.saved.prov
    BY <2>2
  <2>5. DiskTypes'
    BY <2>2, <2>3, <2>4, <1>1 DEF Types, DiskTypes, SavedSound
  <2>6. Left' = Left - 1 /\ SameCmd /\ CmdTypes'
    BY <2>1 DEF GoesOn
  <2>7. cmd'.bad = cmd.bad
    BY <2>1 DEF GoesOn, Types, CmdTypes
  <2>8. CopiesAt(Left, moved)'
    BY <2>3, <2>6, <1>2 DEF CopiesAt, NoCopies
  <2>9. ~cmd.bad => RestoredAt(Left)'
    <3>1. CASE f = "bin"
      BY <3>1, <2>3, <2>4, <2>6, <1>1 DEF RestoredAt, SameCmd
    <3>2. CASE f = "env"
      BY <3>2, <2>3, <2>4, <2>6, <1>1 DEF RestoredAt, SameCmd
    <3>3. CASE f = "unit"
      BY <3>3, <2>3, <2>4, <2>6, <1>1 DEF RestoredAt, SameCmd
    <3>4. CASE f = "receipt"
      BY <3>4, <2>3, <2>4, <2>6, <1>1 DEF RestoredAt, SameCmd
    <3>5. CASE f = "prov"
      BY <3>5, <2>3, <2>4, <2>6, <1>1 DEF RestoredAt, SameCmd
    <3> QED  BY <3>1, <3>2, <3>3, <3>4, <3>5 DEF Managed
  <2>10. RestoreEnv' /\ (~cmd'.bad => RestoreServed')
    <3>1. CASE f = "env"
      <4>1. /\ cmd'.saved = cmd.saved /\ cmd'.plan = cmd.plan /\ cmd'.target = cmd.target
            /\ disk'.env = cmd.saved.env
        BY <2>4, <2>6, <3>1 DEF SameCmd
      <4>2. RestoreEnv'
        BY <4>1 DEF RestoreEnv
      <4>3. RestoreServed => RestoreServed'
        BY <4>1, <1>2 DEF RestoreServed
      <4> QED  BY <4>2, <4>3, <2>7, <1>1
    <3>2. CASE f # "env"
      <4>1. disk'.env = disk.env
        BY <2>3, <3>2
      <4> QED  BY <4>1, <2>1, <1>2, RestoreSame
    <3> QED  BY <3>1, <3>2
  <2>11. InRestore(moved)'
    BY <2>1, <2>7, <2>8, <2>9, <2>10, RestoreGoesOn
  <2> QED  BY <2>5, <2>6, <2>11, <1>3 DEF Types, Undoes
<1>6. ASSUME Failed, DiskTypes', disk'.backup = disk.backup, disk'.aside = disk.aside, RestoreEnv'
      PROVE  Types' /\ Undoes
  <2>1. GoesOn(RestoreSteps(moved), 1, TRUE)
    BY <1>3, <1>6, RestoreNext DEF Types
  <2>3. Left' = Left - 1 /\ SameCmd /\ CmdTypes'
    BY <2>1 DEF GoesOn
  <2>4. cmd'.bad
    BY <2>1, Zenon DEF GoesOn
  <2>5. CopiesAt(Left, moved)'
    BY <1>6, <2>3, <1>2 DEF CopiesAt, NoCopies
  <2>7. InRestore(moved)'
    BY <2>1, <2>4, <2>5, <1>6, RestoreGoesOn
  <2> QED  BY <1>6, <2>3, <2>7, <1>3 DEF Types, Undoes
<1>7. ASSUME Failed PROVE cmd'.saved = cmd.saved /\ cmd'.plan = cmd.plan /\ Halfway' = Halfway
  <2>1. SameCmd
    BY <1>3, <1>7, RestoreNext DEF Types, GoesOn
  <2> QED  BY <2>1 DEF SameCmd, Halfway
<1>8. CASE disk' = disk /\ Failed
  <2>1. DiskTypes' /\ RestoreEnv'
    BY <1>1, <1>7, <1>8 DEF Types, DiskTypes, RestoreEnv
  <2> QED  BY <2>1, <1>6, <1>8
<1>9. ASSUME NEW half \in Halves(f, cmd.saved[f]), disk' = [disk EXCEPT ![f] = half], Failed
      PROVE  Types' /\ Undoes
  <2>1. CASE f = "env"
    <3>1. half \in Cut(cmd.saved.env)
      BY <1>9, <2>1 DEF Halves
    <3>2. half \in EnvFile /\ half \in Halfway
      BY <3>1, <1>1, CutIsEnv DEF Halfway, SavedSound
    <3>3. DiskTypes' /\ disk'.env = half /\ disk'.backup = disk.backup /\ disk'.aside = disk.aside
      BY <3>2, <1>9, <2>1 DEF Types, DiskTypes, DiskFields
    <3>4. RestoreEnv'
      BY <3>2, <3>3, <1>7, <1>9 DEF RestoreEnv
    <3> QED  BY <3>3, <3>4, <1>6, <1>9
  <2>2. CASE f # "env"
    <3>1. half = Torn
      BY <1>9, <2>2 DEF Halves
    <3>2. /\ DiskTypes' /\ disk'.env = disk.env /\ disk'.backup = disk.backup
          /\ disk'.aside = disk.aside
      BY <3>1, <1>9, <2>2 DEF Types, DiskTypes, DiskFields, Managed
    <3>3. RestoreEnv'
      BY <3>2, <1>1, <1>7, <1>9 DEF RestoreEnv
    <3> QED  BY <3>2, <3>3, <1>6, <1>9
  <2> QED  BY <2>1, <2>2
<1> QED  BY <1>5, <1>8, <1>9 DEF Write

\* The reload changes nothing on disk.
LEMMA RestoreReloads ==
    ASSUME NEW moved \in BOOLEAN, InRestore(moved), Types, DaemonReload PROVE Types' /\ Undoes
<1>1. Left = 3 /\ CopiesAt(Left, moved) /\ (~cmd.bad => RestoredAt(Left))
  BY RestorePlace DEF InRestore, DaemonReload
<1>2. service' = service /\ disk' = disk /\ NoCopies
  BY <1>1 DEF DaemonReload, CopiesAt
<1>3. ServiceTypes' /\ DiskTypes' /\ Left # 1
  BY <1>1, <1>2 DEF Types, ServiceTypes, DiskTypes
<1>5. PICK bad \in BOOLEAN : GoesOn(RestoreSteps(moved), 1, bad)
  BY <1>3, RestoreNext DEF Types, DaemonReload
<1>6. Left' = 2 /\ SameCmd /\ CmdTypes'
  BY <1>5, <1>1 DEF GoesOn
<1>7. ~cmd'.bad => ~cmd.bad
  BY <1>5, Zenon DEF GoesOn
<1>8. CopiesAt(Left, moved)'
  BY <1>2, <1>6 DEF CopiesAt, NoCopies
<1>9. ~cmd.bad => RestoredAt(Left)'
  BY <1>1, <1>2, <1>6 DEF RestoredAt, SameCmd
<1>4. RestoreEnv' /\ (~cmd'.bad => RestoreServed')
  BY <1>2, <1>5, RestoreSame
<1>10. InRestore(moved)'
  BY <1>4, <1>5, <1>7, <1>8, <1>9, RestoreGoesOn
<1> QED  BY <1>3, <1>6, <1>10 DEF Types, Undoes

\* What is started is the binary that was put back.
LEMMA RestoreEnables ==
    ASSUME NEW moved \in BOOLEAN, InRestore(moved), Types, EnableNow PROVE Types' /\ Undoes
<1>1. /\ Left = 2 /\ CopiesAt(Left, moved) /\ (~cmd.bad => RestoredAt(Left)) /\ SavedSound
      /\ Suffix(cmd.todo, RestoreSteps(moved)) /\ Len(RestoreSteps(moved)) \in Nat
  BY RestorePlace DEF InRestore, EnableNow
<1>2. disk' = disk /\ NoCopies /\ Left # 1
  BY <1>1 DEF EnableNow, CopiesAt
<1>3. DiskTypes' /\ RestoreEnv /\ (~cmd.bad => RestoreServed)
  BY <1>2 DEF Types, DiskTypes, InRestore
<1>4. CASE service' = Up /\ cmd' = [cmd EXCEPT !.todo = Tail(@), !.fresh = service.running = Absent]
  <2>1. Suffix(Tail(cmd.todo), RestoreSteps(moved)) /\ Len(Tail(cmd.todo)) = 1
    BY <1>1, <1>2, SuffixTail
  <2>2. /\ cmd'.todo = Tail(cmd.todo) /\ cmd'.saved = cmd.saved
        /\ cmd'.kind = cmd.kind /\ cmd'.plan = cmd.plan /\ cmd'.target = cmd.target
        /\ cmd'.undo = cmd.undo /\ cmd'.bad = cmd.bad /\ CmdTypes'
    BY <1>4 DEF Types, CmdTypes, CmdFields
  <2>3. ServiceTypes' /\ service'.enabled
        /\ (~cmd.bad => RestoreServed' /\ (cmd'.fresh => service'.running \in {Absent, cmd.saved.bin}))
    <3>1. CASE service.running # Absent
      <4>1. ServiceTypes' /\ service'.enabled /\ service'.running = service.running /\ service'.tls = service.tls
        BY <3>1, <1>4 DEF Up, Types, ServiceTypes
      <4>2. ~cmd'.fresh
        BY <3>1, <1>4 DEF Types, CmdTypes, CmdFields
      <4>3. RestoreServed => RestoreServed'
        BY <4>1, <2>2, <1>2 DEF RestoreServed
      <4> QED  BY <4>1, <4>2, <4>3, <1>3
    <3>2. CASE service.running = Absent
      <4>1. service' = [enabled |-> TRUE, running |-> Started(disk), tls |-> ServesTLS(disk)]
        BY <3>2, <1>4 DEF Up
      <4>2. Started(disk) \in Release \cup {Absent} /\ ServesTLS(disk) \in BOOLEAN
            /\ (Started(disk) # Absent => Started(disk) = disk.bin)
        BY StartedTypes DEF Types
      <4>3. /\ ServiceTypes' /\ service'.enabled /\ service'.running = Started(disk)
            /\ service'.tls = ServesTLS(disk)
        BY <4>1, <4>2 DEF ServiceTypes
      <4>4. ASSUME ~cmd.bad
            PROVE  RestoreServed' /\ service'.running \in {Absent, cmd.saved.bin}
        <5>1. disk.bin = cmd.saved.bin /\ disk.env = cmd.saved.env
          BY <4>4, <1>1 DEF RestoredAt
        <5>2. OnRecord(cmd.saved.env, cmd.saved.prov) /\ service'.running # Absent =>
                 service'.tls = cmd.plan.cert
          BY <5>1, <4>3, RestoreTLS DEF Types
        <5> QED  BY <5>1, <5>2, <4>2, <4>3, <2>2, <1>2 DEF RestoreServed
      <4> QED  BY <4>3, <4>4
    <3> QED  BY <3>1, <3>2
  <2>4. SavedSound'
    BY <2>2, <1>1 DEF SavedSound
  <2>5. Left' = 1
    BY <2>1, <2>2 DEF Left
  <2>6. CopiesAt(Left, moved)' /\ (~cmd'.bad => RestoredAt(Left)')
    BY <2>2, <2>3, <2>5, <1>1, <1>2 DEF CopiesAt, RestoredAt, NoCopies
  <2>8. Halfway' = Halfway /\ RestoreEnv'
    BY <2>2, <1>2, <1>3 DEF Halfway, RestoreEnv
  <2>7. InRestore(moved)'
    BY <2>1, <2>2, <2>3, <2>4, <2>6, <2>8 DEF InRestore
  <2> QED  BY <2>2, <2>3, <2>7, <1>3 DEF Types, Undoes
<1>5. CASE service' \in {service, [service EXCEPT !.enabled = TRUE]} /\ Failed
  <2>1. ServiceTypes' /\ service'.running = service.running /\ service'.tls = service.tls
    BY <1>5 DEF Types, ServiceTypes
  <2>2. GoesOn(RestoreSteps(moved), 1, TRUE)
    BY <1>2, <1>5, RestoreNext DEF Types
  <2>3. Left' = 1 /\ SameCmd /\ CmdTypes'
    BY <2>2, <1>1 DEF GoesOn
  <2>4. cmd'.bad
    BY <2>2, Zenon DEF GoesOn
  <2>5. CopiesAt(Left, moved)'
    BY <2>3, <1>2 DEF CopiesAt, NoCopies
  <2>6. RestoreEnv' /\ (~cmd'.bad => RestoreServed')
    BY <2>1, <2>2, <1>2, RestoreSame
  <2>7. InRestore(moved)'
    BY <2>2, <2>4, <2>5, <2>6, RestoreGoesOn
  <2> QED  BY <2>1, <2>3, <2>7, <1>3 DEF Types, Undoes
<1> QED  BY <1>4, <1>5 DEF EnableNow

\* The last step of a restore ends the upgrade.
LEMMA RestoreWaits ==
    ASSUME NEW moved \in BOOLEAN, InRestore(moved), Types, WaitReachable PROVE Types' /\ AtRest'
<1>1. Left = 1 /\ CopiesAt(Left, moved)
  BY RestorePlace DEF InRestore, WaitReachable
<1>2. service' = service /\ disk' = disk /\ NoCopies
  BY <1>1 DEF WaitReachable, CopiesAt
<1>3. ServiceTypes' /\ DiskTypes' /\ NoCopies'
  BY <1>2 DEF Types, ServiceTypes, DiskTypes, NoCopies
<1>4. ~GoesOn(RestoreSteps(moved), 1, FALSE) /\ ~GoesOn(RestoreSteps(moved), 1, TRUE)
  BY <1>1 DEF GoesOn
<1>5. Over(1, FALSE) \/ Over(1, TRUE)
  BY <1>4, RestoreMoves DEF Types, WaitReachable
<1>6. cmd' = NoCommand
  BY <1>5 DEF Over
<1> QED  BY <1>3, <1>6, IdleTypes DEF Types, AtRest

\* A request leaves a restore where it is.
LEMMA RestoreServes ==
    ASSUME NEW moved \in BOOLEAN, InRestore(moved), Types, Serve PROVE Types' /\ Undoes
<1>1. Types' /\ cmd' = cmd /\ service' = service
      /\ disk'.bin = disk.bin /\ disk'.env = disk.env /\ disk'.unit = disk.unit
      /\ disk'.receipt = disk.receipt /\ disk'.prov = disk.prov
      /\ disk'.backup = disk.backup /\ disk'.aside = disk.aside
  BY ServeTypes
<1>2. Left' = Left /\ (SavedSound => SavedSound')
  BY <1>1 DEF Left, SavedSound
<1>3. CopiesAt(Left, moved) => CopiesAt(Left, moved)'
  BY <1>1, <1>2 DEF CopiesAt, NoCopies
<1>4. RestoredAt(Left) => RestoredAt(Left)'
  BY <1>1, <1>2 DEF RestoredAt
<1>6. (RestoreEnv => RestoreEnv') /\ (RestoreServed => RestoreServed')
  BY <1>1 DEF RestoreEnv, RestoreServed, Halfway
<1>5. InRestore(moved)'
  BY <1>1, <1>2, <1>3, <1>4, <1>6 DEF InRestore
<1> QED  BY <1>1, <1>5 DEF Undoes

\* The binary that a service would be restarted with, where no step failed.
LEMMA RestoreBinary ==
    ASSUME NEW moved \in BOOLEAN, InRestore(moved), ~cmd.bad, service.running # Absent
    PROVE  disk.bin \in {Absent, cmd.target, cmd.saved.bin}
<1>1. Left \in 1 .. 10 /\ CopiesAt(Left, moved) /\ RestoredAt(Left)
  BY RestorePlace DEF InRestore
<1>2. CASE Left <= 7
  BY <1>1, <1>2 DEF RestoredAt
<1>3. CASE Left \in 8 .. 10
  BY <1>1, <1>3 DEF CopiesAt
<1> QED  BY <1>1, <1>2, <1>3

\* So does a restart of the service.
LEMMA RestoreRestarts ==
    ASSUME NEW moved \in BOOLEAN, InRestore(moved), Types, ServiceRestarts PROVE Types' /\ Undoes
<1>1. /\ Types' /\ cmd' = cmd /\ disk' = disk
      /\ service.running # Absent /\ service'.enabled = service.enabled
      /\ service'.running = Started(disk) /\ service'.tls = ServesTLS(disk)
  BY RestartTypes
<1>2. Left' = Left /\ (SavedSound => SavedSound')
  BY <1>1 DEF Left, SavedSound
<1>3. CopiesAt(Left, moved) => CopiesAt(Left, moved)'
  BY <1>1, <1>2 DEF CopiesAt, NoCopies
<1>7. Started(disk) \in {Absent, disk.bin}
  BY StartedTypes DEF Types
<1>8. Left \in 1 .. 10 /\ CopiesAt(Left, moved) /\ RestoreEnv /\ (~cmd.bad => RestoreServed)
  BY RestorePlace DEF InRestore
<1>4. ASSUME RestoredAt(Left) PROVE RestoredAt(Left)'
  <2>1. CASE Left <= 1
    BY <2>1, <1>1, <1>2, <1>4, <1>7, <1>8 DEF RestoredAt
  <2>2. CASE ~(Left <= 1)
    BY <2>2, <1>1, <1>2, <1>4 DEF RestoredAt
  <2> QED  BY <2>1, <2>2
<1>9. RestoreEnv'
  BY <1>1, <1>8 DEF RestoreEnv, Halfway
<1>5. ASSUME ~cmd.bad PROVE RestoreServed'
  <2>1. disk.env \in {cmd.saved.env, RenderEnvFile(cmd.plan)}
    BY <1>1, <1>5, <1>8 DEF RestoreServed
  <2>2. service'.running # Absent /\ OnRecord(cmd.saved.env, cmd.saved.prov) =>
            service'.tls = cmd.plan.cert
    BY <2>1, <1>1, RestoreTLS DEF Types
  <2>3. service'.running \in {Absent, cmd.target, cmd.saved.bin}
    <3>1. disk.bin \in {Absent, cmd.target, cmd.saved.bin}
      BY <1>1, <1>5, RestoreBinary
    <3> QED  BY <3>1, <1>1, <1>7
  <2> QED  BY <2>1, <2>2, <2>3, <1>1 DEF RestoreServed
<1>6. InRestore(moved)'
  BY <1>1, <1>2, <1>3, <1>4, <1>5, <1>8, <1>9 DEF InRestore
<1> QED  BY <1>1, <1>6 DEF Undoes

\* No other step is in the list.
LEMMA RestoreOnly ==
    ASSUME NEW moved \in BOOLEAN, InRestore(moved), InstallNext
    PROVE  \/ MoveAside \/ MoveBack \/ CleanAside
           \/ RestoreFile("rewrite", "bin") \/ RestoreFile("oldEnv", "env")
           \/ RestoreFile("oldUnit", "unit") \/ RestoreFile("oldReceipt", "receipt")
           \/ RestoreFile("oldProv", "prov")
           \/ DaemonReload \/ EnableNow \/ WaitReachable \/ Serve \/ ServiceRestarts \/ CommandDies
<1>1. cmd.kind = "upgrade" /\ cmd.todo # <<>> /\ cmd # NoCommand
  BY RestorePlace DEF InRestore, NoCommand
<1>2. Head(cmd.todo) \in {"aside", "back", "clean", "rewrite", "oldEnv", "oldUnit", "oldReceipt",
                          "oldProv", "reload", "enable", "wait"}
  <2>1. Left \in 1 .. 10
    BY RestorePlace DEF InRestore
  <2>2. \/ At("aside") \/ At("back") \/ At("clean") \/ At("rewrite") \/ At("oldEnv") \/ At("oldUnit")
        \/ At("oldReceipt") \/ At("oldProv") \/ At("reload") \/ At("enable") \/ At("wait")
    BY <2>1, RestorePlace DEF InRestore
  <2> QED  BY <2>2 DEF At
<1>3. /\ ~\E input \in SetupInput : Setup(input)
      /\ ~\E r \in Release : Upgrade_(r)
      /\ ~RollbackSetup /\ ~Uninstall /\ ~EditEnv
  BY <1>1 DEF Setup, Upgrade_, RollbackSetup, Uninstall, EditEnv, Start
<1>4. ASSUME NEW step, step \in {"env", "unit", "db", "receipt", "bind", "prov", "capture", "stop", "out",
                                "in", "drop", "deleteReceipt", "deleteContent", "deleteDB",
                                "deleteUnit", "deleteEnv", "deleteProvenance", "deleteBinary"}
      PROVE  ~At(step)
  BY <1>2, <1>4 DEF At
<1>5. \A f \in DOMAIN DeleteStep : ~RemovePath(f)
  <2> SUFFICES ASSUME NEW f \in DOMAIN DeleteStep PROVE ~At(DeleteStep[f])
    BY DEF RemovePath
  <2>1. DeleteStep[f] \in {"deleteReceipt", "deleteContent", "deleteDB",
                           "deleteUnit", "deleteEnv", "deleteProvenance", "deleteBinary"}
    BY DEF DeleteStep
  <2> QED  BY <2>1, <1>4
<1>6. ~WriteEnv /\ ~WriteUnit /\ ~WriteReceipt /\ ~SaveLifecycleProvenance /\ ~CreateDatabase
      /\ ~PreflightBind /\ ~Capture /\ ~Stop /\ ~SwapOut /\ ~SwapIn /\ ~DropBackup
  BY <1>4 DEF WriteEnv, WriteUnit, WriteReceipt, SaveLifecycleProvenance, CreateDatabase,
              PreflightBind, Capture, Stop, SwapOut, SwapIn, DropBackup
<1> QED  BY <1>3, <1>5, <1>6 DEF InstallNext

\* Every step from within a restore keeps the invariant.
LEMMA RestoreKept ==
    ASSUME NEW moved \in BOOLEAN, InRestore(moved), Types, InstallNext PROVE InstallInv'
<1>1. ASSUME Types' /\ Undoes PROVE InstallInv'
  BY <1>1 DEF InstallInv, Types, Undoes
<1>2. CASE MoveAside
  BY <1>1, <1>2, RestoreMovesAside
<1>3. CASE MoveBack
  BY <1>1, <1>3, RestoreMovesBack
<1>4. CASE CleanAside
  BY <1>1, <1>4, RestoreCleans
<1>5. CASE RestoreFile("rewrite", "bin")
  <2>1. Left = 8 /\ ~moved /\ "bin" \in Managed /\ Write("bin", cmd.saved["bin"])
    BY <1>5, RestorePlace DEF InRestore, RestoreFile, Managed
  <2> QED  BY <2>1, <1>1, RestoreWrites
<1>6. CASE RestoreFile("oldEnv", "env")
  <2>1. Left = 7 /\ "env" \in Managed /\ Write("env", cmd.saved["env"])
    BY <1>6, RestorePlace DEF InRestore, RestoreFile, Managed
  <2> QED  BY <2>1, <1>1, RestoreWrites
<1>7. CASE RestoreFile("oldUnit", "unit")
  <2>1. Left = 6 /\ "unit" \in Managed /\ Write("unit", cmd.saved["unit"])
    BY <1>7, RestorePlace DEF InRestore, RestoreFile, Managed
  <2> QED  BY <2>1, <1>1, RestoreWrites
<1>8. CASE RestoreFile("oldReceipt", "receipt")
  <2>1. Left = 5 /\ "receipt" \in Managed /\ Write("receipt", cmd.saved["receipt"])
    BY <1>8, RestorePlace DEF InRestore, RestoreFile, Managed
  <2> QED  BY <2>1, <1>1, RestoreWrites
<1>9. CASE RestoreFile("oldProv", "prov")
  <2>1. Left = 4 /\ "prov" \in Managed /\ Write("prov", cmd.saved["prov"])
    BY <1>9, RestorePlace DEF InRestore, RestoreFile, Managed
  <2> QED  BY <2>1, <1>1, RestoreWrites
<1>10. CASE DaemonReload
  BY <1>1, <1>10, RestoreReloads
<1>11. CASE EnableNow
  BY <1>1, <1>11, RestoreEnables
<1>12. CASE WaitReachable
  BY <1>1, <1>12, RestoreWaits DEF Undoes
<1>13. CASE Serve
  BY <1>1, <1>13, RestoreServes
<1>14. CASE ServiceRestarts
  BY <1>1, <1>14, RestoreRestarts
<1>15. CASE CommandDies
  <2>1. cmd.todo # <<>> /\ ~At("env")
    <3>1. \/ At("aside") \/ At("back") \/ At("clean") \/ At("rewrite") \/ At("oldEnv")
          \/ At("oldUnit") \/ At("oldReceipt") \/ At("oldProv") \/ At("reload") \/ At("enable")
          \/ At("wait")
      BY RestorePlace DEF InRestore
    <3> QED  BY <3>1 DEF At
  <2>2. cmd.saved.env \in EnvFile
    BY DEF InRestore, SavedSound
  <2> QED  BY <1>15, <2>1, <2>2, DiesKept
<1> QED  BY RestoreOnly, <1>2, <1>3, <1>4, <1>5, <1>6, <1>7, <1>8, <1>9, <1>10, <1>11, <1>12, <1>13,
            <1>14, <1>15

-----------------------------------------------------------------------------
(***************************************************************************)
(* Rollback of a setup, and uninstall.                                     *)
(***************************************************************************)
\* One more step of the list.
RemovesOn(bad) ==
    /\ SameCmd /\ CmdTypes' /\ said' = said /\ cmd'.bad = (cmd.bad \/ bad)
    /\ Suffix(cmd'.todo, RemovalSteps(cmd'.kind))
    /\ RemovalLeft' = RemovalLeft - 1

\* A removal ends or has the rest of its list to do, whether its step fails or not.
LEMMA RemovalMoves ==
    ASSUME InRemoval, CmdTypes
    PROVE  /\ Proceed => Over(1, FALSE) \/ RemovesOn(FALSE)
           /\ Failed => Over(1, TRUE) \/ RemovesOn(TRUE)
<1>1. Suffix(cmd.todo, RemovalSteps(cmd.kind)) /\ BestEffort
  BY DEF InRemoval, BestEffort
<1>2. Len(RemovalSteps(cmd.kind)) \in Nat /\ Left \in 1 .. 8
  BY <1>1, RemovalPlace
<1>3. Left \in Nat \ {0}
  BY <1>2
<1>4. ASSUME NEW list, list = RemovalSteps(cmd.kind)
      PROVE  /\ Proceed => Over(1, FALSE) \/ GoesOn(list, 1, FALSE)
             /\ Failed => Over(1, TRUE) \/ GoesOn(list, 1, TRUE)
  BY <1>1, <1>2, <1>3, <1>4, ProceedGoesOn, FailedGoesOn
<1>5. ASSUME NEW list, list = RemovalSteps(cmd.kind), NEW bad \in BOOLEAN, GoesOn(list, 1, bad)
      PROVE  RemovesOn(bad)
  <2>1. /\ SameCmd /\ CmdTypes' /\ said' = said /\ cmd'.bad = (cmd.bad \/ bad)
        /\ Suffix(cmd'.todo, list)
    BY <1>5, Zenon DEF GoesOn
  <2>2. cmd'.kind = cmd.kind
    BY <2>1 DEF SameCmd
  <2>3. Left' = Left - 1
    BY <1>5 DEF GoesOn
  <2>4. RemovalLeft' = RemovalLeft - 1
    BY <2>2, <2>3, <1>2 DEF RemovalLeft
  <2>5. RemovalSteps(cmd'.kind) = list
    BY <2>2, <1>5 DEF RemovalSteps
  <2> QED  BY <2>1, <2>4, <2>5 DEF RemovesOn
<1> QED  BY <1>4, <1>5

Removes == InRemoval' \/ AtRest'

\* What has to be shown of a step of a removal.
LEMMA RemovalGoesOn ==
    ASSUME InRemoval, Types, DiskTypes', ServiceTypes', NoCopies',
           \/ Failed
           \/ Proceed /\ \A left : left = RemovalLeft - 1 /\ ~cmd.bad => RemovedAt(left)'
    PROVE  Types' /\ Removes
<1>1. CASE Over(1, FALSE) \/ Over(1, TRUE)
  <2>1. cmd' = NoCommand
    BY <1>1 DEF Over
  <2> QED  BY <2>1, IdleTypes DEF Types, Removes, AtRest
<1>2. ASSUME RemovesOn(FALSE) \/ RemovesOn(TRUE), ~cmd'.bad => RemovedAt(RemovalLeft)'
      PROVE  Types' /\ Removes
  <2>1. SameCmd /\ CmdTypes' /\ Suffix(cmd'.todo, RemovalSteps(cmd'.kind))
    BY <1>2 DEF RemovesOn
  <2>2. InRemoval'
    BY <2>1, <1>2 DEF InRemoval, SameCmd
  <2> QED  BY <2>1, <2>2 DEF Types, Removes
<1>3. CASE /\ RemovesOn(FALSE)
           /\ \A left : left = RemovalLeft - 1 /\ ~cmd.bad => RemovedAt(left)'
  <2>1. cmd'.bad = cmd.bad /\ RemovalLeft' = RemovalLeft - 1
    BY <1>3 DEF RemovesOn, Types, CmdTypes
  <2>2. ASSUME ~cmd'.bad PROVE RemovedAt(RemovalLeft)'
    <3>1. ~cmd.bad
      BY <2>1, <2>2
    <3>2. PICK left : left = RemovalLeft - 1
      OBVIOUS
    <3>3. RemovedAt(left)' /\ RemovalLeft' = left
      BY <3>1, <3>2, <2>1, <1>3
    <3> QED  BY <3>3 DEF RemovedAt
  <2> QED  BY <2>2, <1>2, <1>3
<1>4. CASE RemovesOn(TRUE)
  <2>1. cmd'.bad
    BY <1>4, Zenon DEF RemovesOn
  <2> QED  BY <2>1, <1>2, <1>4
<1> QED  BY <1>1, <1>3, <1>4, RemovalMoves DEF Types

\* The service is stopped first.
LEMMA RemovalStops == ASSUME InRemoval, Types, Stop PROVE Types' /\ Removes
<1>1. RemovalLeft = 8 /\ NoCopies
  BY RemovalPlace DEF InRemoval, Stop
<1>2. disk' = disk
  BY DEF Stop
<1>3. DiskTypes' /\ NoCopies'
  BY <1>1, <1>2 DEF Types, DiskTypes, NoCopies
<1>4. CASE service' = Halted /\ Proceed
  <2>1. service' = Stopped
    BY <1>4 DEF Types, ServiceTypes, Halted, Stopped
  <2>2. ServiceTypes'
    BY <2>1 DEF ServiceTypes, Stopped
  <2>3. \A left : left = RemovalLeft - 1 => RemovedAt(left)'
    BY <2>1, <1>1 DEF RemovedAt
  <2> QED  BY <2>2, <2>3, <1>3, <1>4, RemovalGoesOn
<1>5. CASE service' \in {service, [service EXCEPT !.enabled = FALSE]} /\ Failed
  <2>1. ServiceTypes'
    BY <1>5 DEF Types, ServiceTypes
  <2> QED  BY <2>1, <1>3, <1>5, RemovalGoesOn
<1> QED  BY <1>4, <1>5 DEF Stop

\* Each file that is deleted is gone or the removal is marked bad.
LEMMA RemovalDeletes ==
    ASSUME InRemoval, Types, NEW f \in DOMAIN DeleteStep, RemovePath(f) PROVE Types' /\ Removes
<1>1. At(DeleteStep[f]) /\ service' = service /\ NoCopies
  BY DEF RemovePath, InRemoval
<1>2. /\ f = "receipt" => RemovalLeft = 7
      /\ f = "content" => RemovalLeft = 6
      /\ f = "db" => RemovalLeft = 5
      /\ f = "unit" => RemovalLeft = 4
      /\ f = "env" => RemovalLeft = 3
      /\ f = "prov" => RemovalLeft = 2
      /\ f = "bin" => RemovalLeft = 1
  <2>1. Suffix(cmd.todo, RemovalSteps(cmd.kind))
    BY DEF InRemoval
  <2>2. /\ f = "receipt" => At("deleteReceipt")
        /\ f = "content" => At("deleteContent")
        /\ f = "db" => At("deleteDB")
        /\ f = "unit" => At("deleteUnit")
        /\ f = "env" => At("deleteEnv")
        /\ f = "prov" => At("deleteProvenance")
        /\ f = "bin" => At("deleteBinary")
    BY <1>1 DEF DeleteStep
  <2> QED  BY <2>1, <2>2, RemovalPlace
<1>3. f \in {"receipt", "content", "db", "unit", "env", "prov", "bin"}
  BY DEF DeleteStep
<1>4. ServiceTypes'
  BY <1>1 DEF Types, ServiceTypes
<1>5. CASE disk' = [disk EXCEPT ![f] = Absent] /\ Proceed
  <2>1. DiskTypes' /\ NoCopies'
    BY <1>1, <1>3, <1>5 DEF Types, DiskTypes, DiskFields, NoCopies
  <2>2. disk'[f] = Absent /\ \A g \in DiskFields : disk[g] = Absent => disk'[g] = Absent
    BY <1>3, <1>5 DEF Types, DiskTypes, DiskFields
  <2>3. ASSUME NEW left, left = RemovalLeft - 1, ~cmd.bad PROVE RemovedAt(left)'
    <3>1. RemovedAt(RemovalLeft)
      BY <2>3 DEF InRemoval
    <3>2. CASE f = "receipt"
      BY <3>1, <3>2, <2>2, <2>3, <1>1, <1>2 DEF RemovedAt, DiskFields
    <3>3. CASE f = "content"
      BY <3>1, <3>3, <2>2, <2>3, <1>1, <1>2 DEF RemovedAt, DiskFields
    <3>4. CASE f = "db"
      BY <3>1, <3>4, <2>2, <2>3, <1>1, <1>2 DEF RemovedAt, DiskFields
    <3>5. CASE f = "unit"
      BY <3>1, <3>5, <2>2, <2>3, <1>1, <1>2 DEF RemovedAt, DiskFields
    <3>6. CASE f = "env"
      BY <3>1, <3>6, <2>2, <2>3, <1>1, <1>2 DEF RemovedAt, DiskFields
    <3>7. CASE f = "prov"
      BY <3>1, <3>7, <2>2, <2>3, <1>1, <1>2 DEF RemovedAt, DiskFields
    <3>8. CASE f = "bin"
      BY <3>1, <3>8, <2>2, <2>3, <1>1, <1>2 DEF RemovedAt, DiskFields
    <3> QED  BY <3>2, <3>3, <3>4, <3>5, <3>6, <3>7, <3>8, <1>3
  <2> QED  BY <2>1, <2>3, <1>4, <1>5, RemovalGoesOn
<1>6. CASE disk' = disk /\ Failed
  <2>1. DiskTypes' /\ NoCopies'
    BY <1>1, <1>6 DEF Types, DiskTypes, NoCopies
  <2> QED  BY <2>1, <1>4, <1>6, RemovalGoesOn
<1> QED  BY <1>5, <1>6 DEF RemovePath

\* A service that has been stopped does nothing more.
LEMMA RemovalRuns ==
    ASSUME InRemoval, Types, Types', service.running # Absent, cmd' = cmd,
           disk'.backup = disk.backup /\ disk'.aside = disk.aside
    PROVE  Removes
<1>1. RemovalLeft \in 1 .. 8 /\ Suffix(cmd.todo, RemovalSteps(cmd.kind))
  BY RemovalPlace DEF InRemoval
<1>2. RemovalLeft' = RemovalLeft
  BY DEF RemovalLeft, Left
<1>3. ~cmd.bad => RemovedAt(RemovalLeft)'
  <2>1. ~cmd.bad => RemovalLeft = 8
    BY <1>1 DEF InRemoval, RemovedAt, Stopped
  <2> QED  BY <2>1, <1>2 DEF RemovedAt
<1>4. InRemoval'
  BY <1>3 DEF InRemoval, NoCopies
<1> QED  BY <1>4 DEF Removes

\* The steps that can happen within a removal.
LEMMA RemovalOnly ==
    ASSUME InRemoval, InstallNext
    PROVE  \/ Stop \/ \E f \in DOMAIN DeleteStep : RemovePath(f)
           \/ Serve \/ ServiceRestarts \/ CommandDies
<1>1. cmd.kind # "none" /\ cmd.todo # <<>> /\ cmd # NoCommand
  BY RemovalPlace DEF InRemoval, NoCommand
<1>2. Head(cmd.todo) \in {"stop", "deleteReceipt", "deleteContent", "deleteDB", "deleteUnit",
                          "deleteEnv", "deleteProvenance", "deleteBinary"}
  <2>1. RemovalLeft \in 1 .. 8
    BY RemovalPlace DEF InRemoval
  <2>2. \/ At("stop") \/ At("deleteReceipt") \/ At("deleteContent") \/ At("deleteDB")
        \/ At("deleteUnit") \/ At("deleteEnv") \/ At("deleteProvenance") \/ At("deleteBinary")
    BY <2>1, RemovalPlace DEF InRemoval
  <2> QED  BY <2>2 DEF At
<1>3. /\ ~\E input \in SetupInput : Setup(input)
      /\ ~\E r \in Release : Upgrade_(r)
      /\ ~RollbackSetup /\ ~Uninstall /\ ~EditEnv
  BY <1>1 DEF Setup, Upgrade_, RollbackSetup, Uninstall, EditEnv, Start
<1>4. ASSUME NEW step, step \in {"env", "unit", "db", "receipt", "bind", "prov", "capture", "out",
                                "in", "drop", "reload", "enable", "wait", "aside", "back", "clean",
                                "rewrite", "oldEnv", "oldUnit", "oldReceipt", "oldProv"}
      PROVE  ~At(step)
  BY <1>2, <1>4 DEF At
<1>5. ~WriteEnv /\ ~WriteUnit /\ ~WriteReceipt /\ ~SaveLifecycleProvenance /\ ~CreateDatabase
      /\ ~PreflightBind /\ ~Capture /\ ~SwapOut /\ ~SwapIn /\ ~DropBackup
  BY <1>4 DEF WriteEnv, WriteUnit, WriteReceipt, SaveLifecycleProvenance, CreateDatabase,
              PreflightBind, Capture, SwapOut, SwapIn, DropBackup
<1>6. /\ ~DaemonReload /\ ~EnableNow /\ ~WaitReachable /\ ~MoveAside /\ ~MoveBack /\ ~CleanAside
      /\ ~RestoreFile("rewrite", "bin") /\ ~RestoreFile("oldEnv", "env")
      /\ ~RestoreFile("oldUnit", "unit") /\ ~RestoreFile("oldReceipt", "receipt")
      /\ ~RestoreFile("oldProv", "prov")
  BY <1>4 DEF DaemonReload, EnableNow, WaitReachable, MoveAside, MoveBack, CleanAside, RestoreFile
<1> QED  BY <1>3, <1>5, <1>6 DEF InstallNext

\* Every step from within a removal keeps the invariant.
LEMMA RemovalKept == ASSUME InRemoval, Types, InstallNext PROVE InstallInv'
<1>1. ASSUME Types' /\ Removes PROVE InstallInv'
  BY <1>1 DEF InstallInv, Types, Removes
<1>2. CASE Stop
  BY <1>1, <1>2, RemovalStops
<1>3. ASSUME NEW f \in DOMAIN DeleteStep, RemovePath(f) PROVE InstallInv'
  BY <1>1, <1>3, RemovalDeletes
<1>4. CASE Serve
  BY <1>1, <1>4, ServeTypes, RemovalRuns
<1>5. CASE ServiceRestarts
  BY <1>1, <1>5, RestartTypes, RemovalRuns
<1>6. CASE CommandDies
  <2>1. cmd.todo # <<>> /\ ~At("env") /\ ~At("oldEnv")
    <3>1. \/ At("stop") \/ At("deleteReceipt") \/ At("deleteContent") \/ At("deleteDB")
          \/ At("deleteUnit") \/ At("deleteEnv") \/ At("deleteProvenance") \/ At("deleteBinary")
      BY RemovalPlace DEF InRemoval
    <3> QED  BY <3>1 DEF At
  <2> QED  BY <1>6, <2>1, DiesKept
<1> QED  BY RemovalOnly, <1>2, <1>3, <1>4, <1>5, <1>6

-----------------------------------------------------------------------------
(***************************************************************************)
(* A setup.                                                                *)
(***************************************************************************)
Sets == (\E noStart \in BOOLEAN : InSetup(noStart)') \/ InRemoval' \/ AtRest'

\* The error of a step ends a setup or turns it round.
LEMMA SetupFails ==
    ASSUME NEW b \in BOOLEAN, InSetup(b), Types, Failed, NoCopies', DiskTypes', ServiceTypes'
    PROVE  Types' /\ (InRemoval' \/ AtRest')
<1>1. OnError /\ cmd.kind = "setup" /\ ~cmd.bad
  BY DEF InSetup, Failed, BestEffort
<1>2. CASE Undo(RollbackSteps)
  <2>1. cmd' = [cmd EXCEPT !.undo = TRUE, !.todo = RollbackSteps]
    BY <1>2 DEF Undo
  <2>2. cmd'.todo = RollbackSteps /\ cmd'.undo /\ cmd'.kind = "setup" /\ cmd'.bad = cmd.bad /\ CmdTypes'
    BY <2>1, <1>1 DEF Types, CmdTypes, CmdFields
  <2>3. RemovalSteps(cmd'.kind) = RollbackSteps
    BY <2>2 DEF RemovalSteps
  <2>4. Suffix(cmd'.todo, RemovalSteps(cmd'.kind)) /\ Left' = 6
    BY <2>2, <2>3, WholeSuffix DEF Left
  <2>5. RemovalLeft' = 8
    BY <2>2, <2>4 DEF RemovalLeft
  <2>6. RemovedAt(RemovalLeft)'
    BY <2>5 DEF RemovedAt
  <2>7. InRemoval'
    BY <2>2, <2>4, <2>6 DEF InRemoval
  <2> QED  BY <2>2, <2>7 DEF Types
<1>3. CASE EndWith("failed")
  <2>1. cmd' = NoCommand
    BY <1>3 DEF EndWith
  <2> QED  BY <2>1, IdleTypes DEF Types, AtRest
<1> QED  BY <1>1, <1>2, <1>3 DEF OnError

\* One more step of the list: what is left to show.
LEMMA SetupProceeds ==
    ASSUME NEW b \in BOOLEAN, InSetup(b), Types, Proceed, NoCopies', DiskTypes', ServiceTypes',
           Left = 1 \/ service' = service,
           Left # 1 => /\ disk'.env = RenderEnvFile(cmd.plan)
                       /\ SetupLeft(b) <= 8 => disk'.unit = Written
                       /\ SetupLeft(b) <= 6 => disk'.receipt = Written
                       /\ cmd.fresh => disk' = disk /\ service.running # Absent
    PROVE  Types' /\ Sets
<1>1. Suffix(cmd.todo, SetupSteps(b)) /\ SetupLeft(b) \in 1 .. 9
  BY SetupPlace DEF InSetup
<1>2. Len(SetupSteps(b)) \in Nat /\ Left \in 1 .. 9
  BY <1>1, SetupPlace
<1>3. Left \in Nat \ {0}
  BY <1>2
<1>4. Over(1, FALSE) \/ GoesOn(SetupSteps(b), 1, FALSE)
  BY <1>1, <1>2, <1>3, ProceedGoesOn DEF Types
<1>5. CASE Over(1, FALSE)
  <2>1. cmd' = NoCommand
    BY <1>5 DEF Over
  <2> QED  BY <2>1, IdleTypes DEF Types, Sets, AtRest
<1>6. CASE GoesOn(SetupSteps(b), 1, FALSE)
  <2>1. Left' = Left - 1 /\ Left # 1 /\ SameCmd /\ CmdTypes'
    BY <1>2, <1>6 DEF GoesOn
  <2>2. SetupLeft(b)' = SetupLeft(b) - 1
    BY <2>1, <1>2 DEF SetupLeft
  <2>3. cmd'.plan = cmd.plan /\ cmd'.fresh = cmd.fresh /\ service' = service
    BY <2>1 DEF SameCmd
  <2>4. SetupAt(SetupLeft(b))'
    <3>1. SetupLeft(b) >= 3 => ~cmd.fresh
      BY DEF InSetup, SetupAt
    <3> QED  BY <3>1, <2>1, <2>2, <2>3, <1>1 DEF SetupAt
  <2>5. cmd'.bad = cmd.bad /\ Suffix(cmd.todo, SetupSteps(b))'
    BY <1>6 DEF GoesOn, Types, CmdTypes
  <2>7. cmd.fresh => /\ service.enabled /\ service.running # Absent /\ Startable(disk')
                     /\ service.tls = cmd.plan.cert
    BY <2>1 DEF InSetup
  <2>6. InSetup(b)'
    BY <2>1, <2>3, <2>4, <2>5, <2>7 DEF InSetup, SameCmd
  <2> QED  BY <2>1, <2>6 DEF Types, Sets
<1> QED  BY <1>4, <1>5, <1>6

\* regixtry.env is rendered from the plan.
LEMMA SetupWritesEnv == ASSUME NEW b \in BOOLEAN, InSetup(b), Types, WriteEnv PROVE Types' /\ Sets
<1>1. SetupLeft(b) = 9 /\ cmd.plan \in SettingsPlan /\ NoCopies
  BY SetupPlace DEF InSetup, WriteEnv
<1>2. service' = service /\ RenderEnvFile(cmd.plan) \in EnvFile
  BY <1>1, RenderedEnv DEF WriteEnv
<1>3. ServiceTypes'
  BY <1>2 DEF Types, ServiceTypes
<1> DEFINE made == [disk EXCEPT !.content = IF @ = Absent THEN "empty" ELSE @]
<1>4. CASE disk' = [made EXCEPT !.env = RenderEnvFile(cmd.plan)] /\ Proceed
  <2>1. DiskTypes' /\ NoCopies' /\ disk'.env = RenderEnvFile(cmd.plan)
    BY <1>1, <1>2, <1>4 DEF Types, DiskTypes, DiskFields, NoCopies
  <2>2. ~(SetupLeft(b) <= 8) /\ ~(SetupLeft(b) <= 6)
    BY <1>1
  <2>3. ~cmd.fresh
    BY <1>1 DEF InSetup, SetupAt
  <2> QED  BY <2>1, <2>2, <2>3, <1>2, <1>3, <1>4, SetupProceeds
<1>5. CASE disk' \in {disk, made} /\ Failed
  <2>1. DiskTypes' /\ NoCopies'
    BY <1>1, <1>5 DEF Types, DiskTypes, DiskFields, NoCopies
  <2> QED  BY <2>1, <1>3, <1>5, SetupFails DEF Sets
<1>6. ASSUME NEW half \in Cut(RenderEnvFile(cmd.plan)), disk' = [made EXCEPT !.env = half], Failed
      PROVE  Types' /\ Sets
  <2>1. half \in EnvFile
    BY <1>2, <1>6, CutIsEnv
  <2>2. DiskTypes' /\ NoCopies'
    BY <1>1, <1>6, <2>1 DEF Types, DiskTypes, DiskFields, NoCopies
  <2> QED  BY <2>2, <1>3, <1>6, SetupFails DEF Sets
<1> QED  BY <1>4, <1>5, <1>6 DEF WriteEnv

\* Unit, receipt and provenance are written.
LEMMA SetupWrites ==
    ASSUME NEW b \in BOOLEAN, InSetup(b), Types, NEW f \in {"unit", "receipt", "prov"}, NEW value,
           Write(f, value),
           \/ f = "unit" /\ SetupLeft(b) = 8 /\ value = Written
           \/ f = "receipt" /\ SetupLeft(b) = 6 /\ value = Written
           \/ f = "prov" /\ Left = 1 /\ RecordSound(value)
    PROVE  Types' /\ Sets
<1>1. SetupAt(SetupLeft(b)) /\ NoCopies /\ SetupLeft(b) \in 1 .. 9 /\ (f = "prov" => SetupLeft(b) <= 5)
  BY SetupPlace DEF InSetup
<1>2. service' = service /\ SetupLeft(b) <= 8 /\ disk.env = RenderEnvFile(cmd.plan)
  BY <1>1 DEF Write, SetupAt
<1>3. ServiceTypes'
  BY <1>2 DEF Types, ServiceTypes
<1>4. CASE disk' = [disk EXCEPT ![f] = value] /\ Proceed
  <2>1. /\ DOMAIN disk' = DiskFields /\ disk'[f] = value
        /\ \A g \in DiskFields : g # f => disk'[g] = disk[g]
    BY <1>4 DEF Types, DiskTypes, DiskFields
  <2>2. /\ disk'.backup = disk.backup /\ disk'.aside = disk.aside
        /\ disk'.env = disk.env /\ disk'.bin = disk.bin
        /\ f # "unit" => disk'.unit = disk.unit
        /\ f # "receipt" => disk'.receipt = disk.receipt
        /\ f # "prov" => disk'.prov = disk.prov
    BY <2>1 DEF DiskFields
  <2>3. DiskTypes' /\ NoCopies'
    BY <2>1, <2>2, <1>1 DEF Types, DiskTypes, NoCopies
  <2>4. Left # 1 => /\ SetupLeft(b) <= 8 => disk'.unit = Written
                    /\ SetupLeft(b) <= 6 => disk'.receipt = Written
    BY <2>1, <2>2, <1>1 DEF SetupAt
  <2>5. Left # 1 => ~cmd.fresh
    BY <1>1 DEF SetupAt
  <2> QED  BY <2>2, <2>3, <2>4, <2>5, <1>2, <1>3, <1>4, SetupProceeds
<1>5. CASE disk' \in {disk, [disk EXCEPT ![f] = Torn]} /\ Failed
  <2>1. DiskTypes' /\ NoCopies'
    BY <1>1, <1>5 DEF Types, DiskTypes, DiskFields, NoCopies
  <2> QED  BY <2>1, <1>3, <1>5, SetupFails DEF Sets
<1> QED  BY <1>4, <1>5 DEF Write, Halves

\* The database is made or was there.
LEMMA SetupCreatesDatabase ==
    ASSUME NEW b \in BOOLEAN, InSetup(b), Types, CreateDatabase PROVE Types' /\ Sets
<1>1. SetupLeft(b) = 7 /\ SetupAt(SetupLeft(b)) /\ NoCopies
  BY SetupPlace DEF InSetup, CreateDatabase
<1>2. service' = service /\ disk.env = RenderEnvFile(cmd.plan) /\ disk.unit = Written
  BY <1>1 DEF CreateDatabase, SetupAt
<1>3. ServiceTypes'
  BY <1>2 DEF Types, ServiceTypes
<1>4. DiskTypes' /\ NoCopies' /\ (disk' = disk \/ (disk'.env = disk.env /\ disk'.unit = disk.unit))
  BY <1>1 DEF CreateDatabase, Types, DiskTypes, DiskFields, NoCopies
<1>5. CASE Proceed
  <2>1. ~(SetupLeft(b) <= 6) /\ disk'.env = RenderEnvFile(cmd.plan) /\ disk'.unit = Written
    BY <1>1, <1>2, <1>4
  <2>2. ~cmd.fresh
    BY <1>1 DEF SetupAt
  <2> QED  BY <2>1, <2>2, <1>2, <1>3, <1>4, <1>5, SetupProceeds
<1>6. CASE Failed
  BY <1>3, <1>4, <1>6, SetupFails DEF Sets
<1> QED  BY <1>5, <1>6 DEF CreateDatabase

\* The steps that look at the service and change nothing.
LEMMA SetupLooks ==
    ASSUME NEW b \in BOOLEAN, InSetup(b), Types, PreflightBind \/ DaemonReload \/ WaitReachable
    PROVE  Types' /\ Sets
<1>1. SetupLeft(b) <= 5 /\ SetupAt(SetupLeft(b)) /\ NoCopies /\ SetupLeft(b) \in 1 .. 9
  BY SetupPlace DEF InSetup, PreflightBind, DaemonReload, WaitReachable
<1>2. /\ service' = service /\ disk' = disk /\ disk.env = RenderEnvFile(cmd.plan)
      /\ disk.unit = Written /\ disk.receipt = Written
  BY <1>1 DEF PreflightBind, DaemonReload, WaitReachable, SetupAt
<1>3. ServiceTypes' /\ DiskTypes' /\ NoCopies'
  BY <1>1, <1>2 DEF Types, ServiceTypes, DiskTypes, NoCopies
<1>6. CASE Proceed /\ (cmd.fresh => service.running # Absent)
  BY <1>2, <1>3, <1>6, SetupProceeds
<1>7. ASSUME PreflightBind \/ DaemonReload PROVE ~cmd.fresh
  <2>1. SetupLeft(b) >= 3
    BY <1>7, SetupPlace DEF InSetup, PreflightBind, DaemonReload
  <2> QED  BY <1>1, <2>1 DEF SetupAt
<1>8. ASSUME WaitReachable, Proceed, ~Failed PROVE service.running # Absent
  BY <1>8 DEF WaitReachable, Reachable
<1>5. CASE Failed
  BY <1>3, <1>5, SetupFails DEF Sets
<1> QED  BY <1>5, <1>6, <1>7, <1>8 DEF PreflightBind, DaemonReload, WaitReachable

\* What is started during a setup serves as its plan says.
LEMMA SetupTLS ==
    ASSUME NEW b \in BOOLEAN, InSetup(b), DiskTypes, SetupLeft(b) <= 8, Started(disk) # Absent
    PROVE  ServesTLS(disk) = cmd.plan.cert
<1>1. disk.env = RenderEnvFile(cmd.plan) /\ cmd.plan \in SettingsPlan
  BY DEF InSetup, SetupAt
<1>2. ServesTLS(disk) = disk.env.cert
  BY StartedTypes
<1> QED  BY <1>1, <1>2, RenderedEnv

\* What is started serves as the plan says.
LEMMA SetupEnables == ASSUME NEW b \in BOOLEAN, InSetup(b), Types, EnableNow PROVE Types' /\ Sets
<1>1. /\ SetupLeft(b) = 3 /\ SetupAt(SetupLeft(b)) /\ NoCopies
      /\ Suffix(cmd.todo, SetupSteps(b)) /\ Len(SetupSteps(b)) \in Nat /\ (b => SetupLeft(b) >= 5)
  BY SetupPlace DEF InSetup, EnableNow
<1>2. /\ disk' = disk /\ disk.env = RenderEnvFile(cmd.plan) /\ disk.unit = Written
      /\ disk.receipt = Written /\ ~b /\ Left = 3
  BY <1>1 DEF EnableNow, SetupAt, SetupLeft
<1>3. DiskTypes' /\ NoCopies'
  BY <1>1, <1>2 DEF Types, DiskTypes, NoCopies
<1>4. CASE service' = Up /\ cmd' = [cmd EXCEPT !.todo = Tail(@), !.fresh = service.running = Absent]
  <2>1. Suffix(Tail(cmd.todo), SetupSteps(b)) /\ Len(Tail(cmd.todo)) = 2
    BY <1>1, <1>2, SuffixTail
  <2>2. /\ cmd'.todo = Tail(cmd.todo) /\ cmd'.kind = cmd.kind /\ cmd'.plan = cmd.plan
        /\ cmd'.undo = cmd.undo /\ cmd'.bad = cmd.bad /\ CmdTypes'
        /\ (cmd'.fresh <=> service.running = Absent)
    BY <1>4 DEF Types, CmdTypes, CmdFields
  <2>3. /\ ServiceTypes' /\ service'.enabled
        /\ cmd'.fresh /\ service'.running # Absent =>
              Startable(disk) /\ service'.tls = cmd.plan.cert
    <3>1. CASE service.running # Absent
      BY <3>1, <2>2, <1>4 DEF Up, Types, ServiceTypes
    <3>2. CASE service.running = Absent
      <4>1. service' = [enabled |-> TRUE, running |-> Started(disk), tls |-> ServesTLS(disk)]
        BY <3>2, <1>4 DEF Up
      <4>2. Started(disk) \in Release \cup {Absent} /\ ServesTLS(disk) \in BOOLEAN
        BY StartedTypes DEF Types
      <4>3. /\ ServiceTypes' /\ service'.enabled /\ service'.running = Started(disk)
            /\ service'.tls = ServesTLS(disk)
        BY <4>1, <4>2 DEF ServiceTypes
      <4>4. SetupLeft(b) <= 8
        BY <1>1
      <4>5. Started(disk) # Absent => Startable(disk)
        BY StartedTypes DEF Types
      <4> QED  BY <4>3, <4>4, <4>5, SetupTLS DEF Types
    <3> QED  BY <3>1, <3>2
  <2>4. Left' = 2
    BY <2>1, <2>2 DEF Left
  <2>5. SetupLeft(b)' = 2
    BY <2>4, <1>2 DEF SetupLeft
  <2>6. SetupAt(SetupLeft(b))'
    BY <2>2, <2>5, <1>2 DEF SetupAt
  <2>7. InSetup(b)'
    BY <2>1, <2>2, <2>3, <2>5, <2>6, <1>2, <1>3 DEF InSetup
  <2> QED  BY <2>2, <2>3, <2>7, <1>3 DEF Types, Sets
<1>5. CASE service' \in {service, [service EXCEPT !.enabled = TRUE]} /\ Failed
  <2>1. ServiceTypes'
    BY <1>5 DEF Types, ServiceTypes
  <2> QED  BY <2>1, <1>3, <1>5, SetupFails DEF Sets
<1> QED  BY <1>4, <1>5 DEF EnableNow

\* A request leaves a setup where it is.
LEMMA SetupServes == ASSUME NEW b \in BOOLEAN, InSetup(b), Types, Serve PROVE Types' /\ Sets
<1>1. Types' /\ cmd' = cmd /\ service' = service
      /\ disk'.env = disk.env /\ disk'.unit = disk.unit /\ disk'.receipt = disk.receipt
      /\ disk'.backup = disk.backup /\ disk'.aside = disk.aside /\ disk'.bin = disk.bin
  BY ServeTypes
<1>2. SetupLeft(b)' = SetupLeft(b)
  BY <1>1 DEF SetupLeft, Left
<1>3. SetupAt(SetupLeft(b)) => SetupAt(SetupLeft(b))'
  BY <1>1, <1>2 DEF SetupAt
<1>5. Startable(disk) => Startable(disk')
  BY <1>1 DEF Startable
<1>4. InSetup(b)'
  BY <1>1, <1>2, <1>3, <1>5 DEF InSetup, NoCopies
<1> QED  BY <1>1, <1>4 DEF Sets

\* So does a restart of the service.
LEMMA SetupRestarts == ASSUME NEW b \in BOOLEAN, InSetup(b), Types, ServiceRestarts PROVE Types' /\ Sets
<1>1. /\ Types' /\ cmd' = cmd /\ disk' = disk /\ service'.enabled = service.enabled
      /\ service'.running = Started(disk) /\ service'.tls = ServesTLS(disk)
  BY RestartTypes
<1>8. service.running # Absent
  BY RestartTypes
<1>2. SetupLeft(b)' = SetupLeft(b) /\ SetupLeft(b) \in 1 .. 9 /\ SetupAt(SetupLeft(b))
  BY <1>1, SetupPlace DEF InSetup, SetupLeft, Left
<1>3. SetupAt(SetupLeft(b))'
  BY <1>1, <1>2 DEF SetupAt
<1>4. cmd.fresh => SetupLeft(b) <= 8
  BY <1>2 DEF SetupAt
<1>5. cmd.fresh /\ service'.running # Absent => service'.tls = cmd.plan.cert
  BY <1>1, <1>4, SetupTLS DEF Types
<1>7. cmd.fresh => /\ service.enabled /\ Startable(disk)
                   /\ service'.running # Absent
  <2>1. ASSUME cmd.fresh PROVE service.enabled /\ Startable(disk)
    BY <1>8, <2>1 DEF InSetup
  <2>2. Startable(disk) => Started(disk) # Absent
    BY NothingThere DEF Startable, Started
  <2> QED  BY <1>1, <2>1, <2>2
<1>6. InSetup(b)'
  BY <1>1, <1>2, <1>3, <1>5, <1>7 DEF InSetup, NoCopies
<1> QED  BY <1>1, <1>6 DEF Sets

\* The steps a setup can be at.
LEMMA SetupHead ==
    ASSUME NEW b \in BOOLEAN, InSetup(b)
    PROVE  /\ cmd.todo # <<>>
           /\ Head(cmd.todo) \in {"env", "unit", "db", "receipt", "bind", "reload", "enable", "wait",
                                  "prov"}
<1>1. Suffix(cmd.todo, SetupSteps(b)) /\ cmd.todo # <<>>
  BY SetupPlace DEF InSetup
<1>2. PICK i \in 1 .. Len(SetupSteps(b)) : Head(cmd.todo) = SetupSteps(b)[i]
  <2>1. Len(SetupSteps(b)) \in Nat
    BY <1>1, SetupPlace
  <2>2. Len(cmd.todo) \in 1 .. Len(SetupSteps(b)) /\
        Head(cmd.todo) = SetupSteps(b)[Len(SetupSteps(b)) - Len(cmd.todo) + 1]
    BY <1>1, <2>1, SuffixHead
  <2>3. \A m \in Nat : \A n \in 1 .. m : m - n + 1 \in 1 .. m
    OBVIOUS
  <2> QED  BY <2>1, <2>2, <2>3, Zenon
<1> QED  BY <1>1, <1>2 DEF SetupSteps

\* The steps that can happen within a setup.
LEMMA SetupOnly ==
    ASSUME NEW b \in BOOLEAN, InSetup(b), InstallNext
    PROVE  \/ WriteEnv \/ WriteUnit \/ CreateDatabase \/ WriteReceipt \/ PreflightBind \/ DaemonReload
           \/ EnableNow \/ WaitReachable \/ SaveLifecycleProvenance
           \/ Serve \/ ServiceRestarts \/ CommandDies
<1>1. cmd.kind = "setup" /\ cmd.todo # <<>> /\ cmd # NoCommand
  BY SetupPlace DEF InSetup, NoCommand
<1>2. Head(cmd.todo) \in {"env", "unit", "db", "receipt", "bind", "reload", "enable", "wait", "prov"}
  BY SetupHead
<1>3. /\ ~\E input \in SetupInput : Setup(input)
      /\ ~\E r \in Release : Upgrade_(r)
      /\ ~RollbackSetup /\ ~Uninstall /\ ~EditEnv
  BY <1>1 DEF Setup, Upgrade_, RollbackSetup, Uninstall, EditEnv, Start
<1>4. ASSUME NEW step, step \in {"capture", "stop", "out", "in", "drop", "aside", "back", "clean",
                                "rewrite", "oldEnv", "oldUnit", "oldReceipt", "oldProv",
                                "deleteReceipt", "deleteContent", "deleteDB",
                                "deleteUnit", "deleteEnv", "deleteProvenance", "deleteBinary"}
      PROVE  ~At(step)
  BY <1>2, <1>4 DEF At
<1>5. \A f \in DOMAIN DeleteStep : ~RemovePath(f)
  <2> SUFFICES ASSUME NEW f \in DOMAIN DeleteStep PROVE ~At(DeleteStep[f])
    BY DEF RemovePath
  <2>1. DeleteStep[f] \in {"deleteReceipt", "deleteContent", "deleteDB",
                           "deleteUnit", "deleteEnv", "deleteProvenance", "deleteBinary"}
    BY DEF DeleteStep
  <2> QED  BY <2>1, <1>4
<1>6. ~Capture /\ ~Stop /\ ~SwapOut /\ ~SwapIn /\ ~DropBackup /\ ~MoveAside /\ ~MoveBack /\ ~CleanAside
  BY <1>4 DEF Capture, Stop, SwapOut, SwapIn, DropBackup, MoveAside, MoveBack, CleanAside
<1>7. /\ ~RestoreFile("rewrite", "bin") /\ ~RestoreFile("oldEnv", "env")
      /\ ~RestoreFile("oldUnit", "unit") /\ ~RestoreFile("oldReceipt", "receipt")
      /\ ~RestoreFile("oldProv", "prov")
  BY <1>4 DEF RestoreFile
<1> QED  BY <1>3, <1>5, <1>6, <1>7 DEF InstallNext

\* The provenance a setup writes has regixtry.env on record.
LEMMA SetupRecords ==
    ASSUME NEW b \in BOOLEAN, InSetup(b), SaveLifecycleProvenance
    PROVE  \E value : /\ Write("prov", value) /\ RecordSound(value)
                      /\ OnRecord(RenderEnvFile(cmd.plan), value)
<1>1. /\ cmd.kind = "setup" /\ cmd.plan \in SettingsPlan
      /\ Fits(cmd.plan.mode, cmd.plan.scheme, cmd.plan.cert)
  BY DEF InSetup
<1>2. Write("prov", lifecycleProvenanceFromPlan(cmd.plan, ""))
  BY <1>1, Zenon DEF SaveLifecycleProvenance
<1>3. "" \in Release \cup {""}
  BY Zenon
<1>4. /\ RecordSound(lifecycleProvenanceFromPlan(cmd.plan, ""))
      /\ OnRecord(RenderEnvFile(cmd.plan), lifecycleProvenanceFromPlan(cmd.plan, ""))
  BY <1>1, <1>3, RecordedPlan, Zenon
<1> QED  BY <1>2, <1>4, Zenon

\* Every step from within a setup keeps the invariant.
LEMMA SetupKept == ASSUME NEW b \in BOOLEAN, InSetup(b), Types, InstallNext PROVE InstallInv'
<1>1. ASSUME Types' /\ Sets PROVE InstallInv'
  BY <1>1 DEF InstallInv, Types, Sets
<1>2. CASE WriteEnv
  BY <1>1, <1>2, SetupWritesEnv
<1>3. CASE WriteUnit
  <2>1. SetupLeft(b) = 8 /\ Write("unit", Written)
    BY <1>3, SetupPlace DEF InSetup, WriteUnit
  <2> QED  BY <2>1, <1>1, SetupWrites
<1>4. CASE CreateDatabase
  BY <1>1, <1>4, SetupCreatesDatabase
<1>5. CASE WriteReceipt
  <2>1. SetupLeft(b) = 6 /\ Write("receipt", Written)
    BY <1>5, SetupPlace DEF InSetup, WriteReceipt
  <2> QED  BY <2>1, <1>1, SetupWrites
<1>6. CASE PreflightBind \/ DaemonReload \/ WaitReachable
  BY <1>1, <1>6, SetupLooks
<1>7. CASE EnableNow
  BY <1>1, <1>7, SetupEnables
<1>8. CASE SaveLifecycleProvenance
  <2>1. PICK value : Write("prov", value) /\ RecordSound(value)
    BY <1>8, SetupRecords
  <2>2. Left = 1
    BY <1>8, SetupPlace DEF InSetup, SaveLifecycleProvenance
  <2> QED  BY <2>1, <2>2, <1>1, SetupWrites
<1>9. CASE Serve
  BY <1>1, <1>9, SetupServes
<1>10. CASE ServiceRestarts
  BY <1>1, <1>10, SetupRestarts
<1>11. CASE CommandDies
  <2>1. cmd.todo # <<>> /\ ~At("oldEnv")
    BY SetupHead DEF At
  <2>2. RenderEnvFile(cmd.plan) \in EnvFile
    BY RenderedEnv DEF InSetup
  <2> QED  BY <1>11, <2>1, <2>2, DiesKept
<1> QED  BY SetupOnly, <1>2, <1>3, <1>4, <1>5, <1>6, <1>7, <1>8, <1>9, <1>10, <1>11

-----------------------------------------------------------------------------
(***************************************************************************)
(* Between two commands.                                                   *)
(***************************************************************************)
LEMMA Begins ==
    ASSUME AtRest, Types, NEW kind, NEW todo, NEW plan, NEW target, NEW local,
           Start(kind, todo, plan, target, local)
    PROVE  /\ Types' /\ NoCopies' /\ disk' = disk /\ service' = service /\ said' = "nothing"
           /\ cmd'.kind = kind /\ cmd'.todo = todo /\ cmd'.plan = plan /\ cmd'.target = target
           /\ cmd'.saved = NoBackup /\ ~cmd'.undo /\ ~cmd'.bad /\ ~cmd'.fresh
<1>1. disk' = disk /\ service' = service /\ said' = "nothing"
  BY DEF Start
<1>2. cmd' = [NoCommand EXCEPT !.kind = kind, !.todo = todo, !.plan = plan, !.target = target,
                               !.local = local]
  BY DEF Start
<1>3. /\ DOMAIN cmd' = CmdFields
      /\ cmd'.kind = kind /\ cmd'.todo = todo /\ cmd'.plan = plan /\ cmd'.target = target
      /\ cmd'.saved = NoBackup /\ ~cmd'.undo /\ ~cmd'.bad /\ ~cmd'.fresh
  BY <1>2 DEF NoCommand, CmdFields
<1>4. cmd'.undo = FALSE /\ cmd'.bad = FALSE /\ cmd'.fresh = FALSE
  BY <1>2 DEF NoCommand
<1>5. CmdTypes'
  BY <1>3, <1>4 DEF CmdTypes, NoBackup
<1> QED  BY <1>1, <1>3, <1>5 DEF Types, DiskTypes, ServiceTypes, AtRest, NoCopies

\* A setup begins with its whole list and a plan whose settings fit.
LEMMA SetupBegins ==
    ASSUME AtRest, Types, NEW input \in SetupInput, Setup(input)
    PROVE  Types' /\ \E b \in BOOLEAN : InSetup(b)'
<1> DEFINE b == input.noStart
           plan == setupPlan(input)
           mode == ResolveRuntimeTLSMode(input.mode, input.scheme, input.cert, input.key)
<1>1. Start("setup", SetupSteps(b), plan, Absent, input.addr = "local")
  BY Zenon DEF Setup
<1>2. /\ input.noStart \in BOOLEAN /\ input.scheme \in Scheme /\ input.cert \in BOOLEAN
      /\ input.key \in BOOLEAN /\ input.del \in BOOLEAN
  BY DEF SetupInput
<1>3. mode \in TLSMode /\ Fits(mode, input.scheme, input.cert)
  <2>1. input.mode \in TLSMode \cup {""}
    BY DEF SetupInput
  <2> QED  BY <1>2, <2>1, ResolvedFits, Zenon DEF Setup, ValidateConfig
<1>4. plan = [scheme |-> input.scheme, cert |-> input.cert, del |-> input.del, mode |-> mode]
  BY Zenon DEF setupPlan
<1> HIDE DEF mode
<1>5. plan \in SettingsPlan /\ Fits(plan.mode, plan.scheme, plan.cert)
  BY <1>2, <1>3, <1>4 DEF SettingsPlan
<1> HIDE DEF b, plan
<1>6. /\ Types' /\ NoCopies' /\ cmd'.kind = "setup" /\ cmd'.todo = SetupSteps(b) /\ cmd'.plan = plan
      /\ ~cmd'.undo /\ ~cmd'.bad /\ ~cmd'.fresh
  BY <1>1, Begins
<1>7. b \in BOOLEAN
  BY <1>2 DEF b
<1>8. Suffix(cmd'.todo, SetupSteps(b)) /\ Left' = IF b THEN 5 ELSE 9
  BY <1>6, <1>7, WholeSuffix DEF Left
<1>9. SetupLeft(b)' = 9
  BY <1>7, <1>8 DEF SetupLeft
<1>10. SetupAt(SetupLeft(b))'
  BY <1>6, <1>9 DEF SetupAt
<1>11. InSetup(b)'
  BY <1>5, <1>6, <1>8, <1>10 DEF InSetup
<1> QED  BY <1>6, <1>7, <1>11

\* An upgrade begins with its whole list and a plan that has a mode.
LEMMA UpgradeBegins ==
    ASSUME AtRest, Types, NEW r \in Release, Upgrade_(r) PROVE Types' /\ InUpgrade'
<1> DEFINE plan == loadInstalledIntent(disk.prov, disk.env)
<1>1. /\ disk.prov \in Provenance /\ disk.env \in EnvFile /\ HasMode(plan)
      /\ Start("upgrade", UpgradeSteps, plan, r, FALSE)
  BY Zenon DEF Upgrade_, HasMode
<1>2. RecordSound(disk.prov)
  BY <1>1, NothingThere DEF Types, DiskTypes
<1> HIDE DEF plan
<1>3. /\ Types' /\ NoCopies' /\ disk' = disk /\ cmd'.kind = "upgrade" /\ cmd'.todo = UpgradeSteps
      /\ cmd'.plan = plan /\ cmd'.target = r /\ ~cmd'.undo /\ ~cmd'.bad /\ cmd'.saved = NoBackup
  BY <1>1, Begins
<1>4. Suffix(cmd'.todo, UpgradeSteps) /\ Left' = 12
  BY <1>3, WholeSuffix DEF Left
<1>5. cmd'.plan = loadInstalledIntent(disk'.prov, disk'.env) /\ RecordSound(disk'.prov) /\ disk'.env \in EnvFile
  BY <1>1, <1>2, <1>3 DEF plan
<1>6. UpgradeAt(Left)'
  BY <1>3, <1>4, <1>5 DEF UpgradeAt, NoCopies
<1>7. InUpgrade'
  BY <1>1, <1>3, <1>4, <1>6 DEF InUpgrade, NoCopies
<1> QED  BY <1>3, <1>7

\* Rollback and uninstall begin with their whole list.
LEMMA RemovalBegins ==
    ASSUME AtRest, Types, RollbackSetup \/ Uninstall PROVE Types' /\ InRemoval'
<1>1. \/ Start("rollback", RollbackSteps, Absent, Absent, FALSE)
      \/ Start("uninstall", UninstallSteps, Absent, Absent, FALSE)
  BY DEF RollbackSetup, Uninstall
<1>2. /\ Types' /\ NoCopies' /\ ~cmd'.bad
      /\ \/ cmd'.kind = "rollback" /\ cmd'.todo = RollbackSteps
         \/ cmd'.kind = "uninstall" /\ cmd'.todo = UninstallSteps
  BY <1>1, Begins
<1>3. cmd'.kind \in {"rollback", "uninstall"} /\ cmd'.todo = RemovalSteps(cmd'.kind)
  BY <1>2 DEF RemovalSteps
<1>4. Suffix(cmd'.todo, RemovalSteps(cmd'.kind))
  BY <1>2, <1>3, WholeSuffix
<1>5. Left' = IF cmd'.kind = "uninstall" THEN 8 ELSE 6
  BY <1>2, WholeSuffix DEF Left
<1>6. RemovalLeft' = 8
  BY <1>5 DEF RemovalLeft
<1>7. RemovedAt(RemovalLeft)'
  BY <1>6 DEF RemovedAt
<1> QED  BY <1>2, <1>3, <1>4, <1>7 DEF InRemoval

\* The steps that can happen while no command runs.
LEMMA IdleOnly ==
    ASSUME AtRest, InstallNext
    PROVE  \/ \E input \in SetupInput : Setup(input)
           \/ \E r \in Release : Upgrade_(r)
           \/ RollbackSetup \/ Uninstall \/ Serve \/ ServiceRestarts \/ EditEnv
<1>1. cmd.todo = <<>> /\ cmd = NoCommand
  BY DEF AtRest, NoCommand
<1>2. \A step : ~At(step)
  BY <1>1 DEF At
<1>3. ~WriteEnv /\ ~WriteUnit /\ ~WriteReceipt /\ ~SaveLifecycleProvenance /\ ~CreateDatabase
      /\ ~PreflightBind /\ ~Capture /\ ~SwapOut /\ ~SwapIn /\ ~DropBackup
  BY <1>2 DEF WriteEnv, WriteUnit, WriteReceipt, SaveLifecycleProvenance, CreateDatabase,
              PreflightBind, Capture, SwapOut, SwapIn, DropBackup
<1>4. /\ ~Stop /\ ~DaemonReload /\ ~EnableNow /\ ~WaitReachable /\ ~MoveAside /\ ~MoveBack /\ ~CleanAside
      /\ ~RestoreFile("rewrite", "bin") /\ ~RestoreFile("oldEnv", "env")
      /\ ~RestoreFile("oldUnit", "unit") /\ ~RestoreFile("oldReceipt", "receipt")
      /\ ~RestoreFile("oldProv", "prov")
  BY <1>2 DEF Stop, DaemonReload, EnableNow, WaitReachable, MoveAside, MoveBack, CleanAside, RestoreFile
<1>5. ~CommandDies /\ \A f \in DOMAIN DeleteStep : ~RemovePath(f)
  BY <1>1, <1>2 DEF CommandDies, RemovePath
<1> QED  BY <1>3, <1>4, <1>5 DEF InstallNext

\* Every step from rest keeps the invariant.
LEMMA IdleKept == ASSUME AtRest, Types, InstallNext PROVE InstallInv'
<1>1. cmd = NoCommand /\ NoCopies
  BY DEF AtRest
<1>4. ASSUME NEW input \in SetupInput, Setup(input) PROVE InstallInv'
  BY <1>4, SetupBegins DEF InstallInv, Types
<1>5. ASSUME NEW r \in Release, Upgrade_(r) PROVE InstallInv'
  BY <1>5, UpgradeBegins DEF InstallInv, Types
<1>6. CASE RollbackSetup \/ Uninstall
  BY <1>6, RemovalBegins DEF InstallInv, Types
<1>7. ASSUME Types', cmd' = cmd, disk'.backup = disk.backup, disk'.aside = disk.aside PROVE InstallInv'
  BY <1>1, <1>7 DEF InstallInv, Types, AtRest, NoCopies, NoCommand, NoBackup
<1>8. CASE Serve
  BY <1>7, <1>8, ServeTypes
<1>9. CASE ServiceRestarts
  BY <1>7, <1>9, RestartTypes
<1>10. CASE EditEnv
  <2>1. PICK raw \in {"", "true", "false"} : disk' = [disk EXCEPT !.env.del = raw]
    BY <1>10, Zenon DEF EditEnv
  <2>2. disk.env \in EnvFile /\ cmd' = cmd /\ service' = service
    BY <1>10 DEF EditEnv
  <2>3. [disk.env EXCEPT !.del = raw] \in EnvFile
    BY <2>2 DEF EnvFile
  <2>4. disk' = [disk EXCEPT !.env = [disk.env EXCEPT !.del = raw]]
    BY <2>1
  <2>5. DiskTypes' /\ disk'.backup = disk.backup /\ disk'.aside = disk.aside
    BY <2>3, <2>4 DEF Types, DiskTypes, DiskFields
  <2>6. Types'
    BY <2>2, <2>5 DEF Types, ServiceTypes, CmdTypes
  <2> QED  BY <2>2, <2>5, <2>6, <1>7
<1> QED  BY IdleOnly, <1>4, <1>5, <1>6, <1>8, <1>9, <1>10

\* An empty host and an installation without a recorded mode satisfy it.
LEMMA InstallStart == InstallInit => InstallInv
<1> SUFFICES ASSUME InstallInit PROVE InstallInv
  OBVIOUS
<1>1. cmd = NoCommand
  BY DEF InstallInit
<1>2. CmdTypes
  BY <1>1 DEF CmdTypes, CmdFields, NoCommand, NoBackup
<1>3. ASSUME NEW r \in Release, disk = EmptyHost(r),
             service = [enabled |-> FALSE, running |-> Absent, tls |-> FALSE]
      PROVE  InstallInv
  <2>1. DiskTypes /\ NoCopies /\ ServiceTypes
    BY <1>3 DEF EmptyHost, DiskTypes, DiskFields, NoCopies, ServiceTypes
  <2> QED  BY <2>1, <1>1, <1>2 DEF InstallInv, AtRest
<1>4. ASSUME NEW r \in Release, NEW env \in EnvFile, NEW tls \in BOOLEAN,
             disk = [EmptyHost(r) EXCEPT !.env = env, !.unit = Written,
                       !.receipt = Written, !.prov = LegacyProvenance(r),
                       !.db = "data", !.content = "data"],
             service = [enabled |-> TRUE, running |-> r, tls |-> tls]
      PROVE  InstallInv
  <2>1. RecordSound(LegacyProvenance(r))
    BY Zenon DEF RecordSound, LegacyProvenance, Provenance
  <2>2. DiskTypes /\ NoCopies
    BY <2>1, <1>4 DEF EmptyHost, DiskTypes, DiskFields, NoCopies
  <2>3. ServiceTypes
    BY <1>4 DEF ServiceTypes
  <2> QED  BY <2>2, <2>3, <1>1, <1>2 DEF InstallInv, AtRest
<1>5. ASSUME NEW mode \in TLSMode, NEW on \in BOOLEAN
      PROVE  [del |-> on, mode |-> mode,
              scheme |-> IF mode = "local-http" THEN "http" ELSE "https",
              cert |-> mode = "direct-tls"] \in SettingsPlan
  BY DEF SettingsPlan, Scheme
<1>6. ASSUME NEW r \in Release, NEW mode \in TLSMode, NEW on \in BOOLEAN, NEW plan,
             plan = [del |-> on, mode |-> mode,
                     scheme |-> IF mode = "local-http" THEN "http" ELSE "https",
                     cert |-> mode = "direct-tls"],
             disk = [EmptyHost(r) EXCEPT !.env = RenderEnvFile(plan), !.unit = Written,
                       !.receipt = Written, !.prov = LegacyProvenance(r),
                       !.db = "data", !.content = "data"],
             service = [enabled |-> TRUE, running |-> r, tls |-> plan.cert]
      PROVE  InstallInv
  <2>1. plan \in SettingsPlan
    BY <1>5, <1>6, Zenon
  <2>2. RenderEnvFile(plan) \in EnvFile /\ plan.cert \in BOOLEAN
    BY <2>1, RenderedEnv DEF SettingsPlan
  <2> QED  BY <2>2, <1>4, <1>6, Zenon
<1> DEFINE Older(mode, on) ==
      [del |-> on, mode |-> mode,
       scheme |-> IF mode = "local-http" THEN "http" ELSE "https", cert |-> mode = "direct-tls"]
<1>7. ASSUME NEW r \in Release, NEW mode \in TLSMode, NEW on \in BOOLEAN,
             disk = [EmptyHost(r) EXCEPT !.env = RenderEnvFile(Older(mode, on)), !.unit = Written,
                       !.receipt = Written, !.prov = LegacyProvenance(r),
                       !.db = "data", !.content = "data"],
             service = [enabled |-> TRUE, running |-> r, tls |-> Older(mode, on).cert]
      PROVE  InstallInv
  <2>1. PICK plan : plan = Older(mode, on)
    OBVIOUS
  <2> QED  BY <2>1, <1>6, <1>7
<1>8. \/ \E r \in Release :
            disk = EmptyHost(r) /\ service = [enabled |-> FALSE, running |-> Absent, tls |-> FALSE]
      \/ \E r \in Release, mode \in TLSMode, on \in BOOLEAN :
            /\ disk = [EmptyHost(r) EXCEPT !.env = RenderEnvFile(Older(mode, on)), !.unit = Written,
                         !.receipt = Written, !.prov = LegacyProvenance(r),
                         !.db = "data", !.content = "data"]
            /\ service = [enabled |-> TRUE, running |-> r, tls |-> Older(mode, on).cert]
  BY Zenon DEF InstallInit
<1> HIDE DEF Older
<1> QED  BY <1>3, <1>7, <1>8

(* At every place of a command the host is as the steps before that place  *)
(* leave it, whatever failed or died before.  Between commands no copy of  *)
(* the binary is under the name the next upgrade moves its own one to.     *)
THEOREM InstallInvHolds == InstallSpec => []InstallInv
<1>1. InstallInv /\ [InstallNext]_installVars => InstallInv'
  <2> SUFFICES ASSUME InstallInv, [InstallNext]_installVars PROVE InstallInv'
    OBVIOUS
  <2>1. Types
    BY DEF InstallInv, Types
  <2>2. CASE InstallNext
    BY <2>1, <2>2, UpgradeKept, RestoreKept, RemovalKept, SetupKept, IdleKept DEF InstallInv
  <2>3. CASE UNCHANGED installVars
    BY <2>3 DEF InstallInv, installVars, DiskTypes, ServiceTypes, CmdTypes, AtRest, NoCopies, NoCommand,
       NoBackup, InSetup, InUpgrade, InRestore, InRemoval, SetupLeft, SetupAt, UpgradeAt, CopiesAt,
       RestoredAt, RestoreEnv, RestoreServed, Halfway, RemovalLeft, RemovedAt, Left, SavedSound
  <2> QED  BY <2>2, <2>3
<1> QED  BY <1>1, InstallStart, PTL DEF InstallSpec

-----------------------------------------------------------------------------
(***************************************************************************)
(* What a command says.                                                    *)
(***************************************************************************)
LEMMA IntentProbed ==
    ASSUME SavedSound, HasMode(cmd.plan), OnRecord(cmd.saved.env, cmd.saved.prov)
    PROVE  /\ ProbesTLS(cmd.plan) = cmd.plan.cert
           /\ cmd.plan \in SettingsPlan
           /\ cmd.plan.scheme = cmd.saved.env.scheme /\ cmd.plan.cert = cmd.saved.env.cert
           /\ (cmd.plan.del = TRUE <=> cmd.saved.env.del = "true")
<1>1. /\ cmd.plan = loadInstalledIntent(cmd.saved.prov, cmd.saved.env)
      /\ RecordSound(cmd.saved.prov) /\ cmd.saved.env \in EnvFile
  BY DEF SavedSound
<1>2. IntentSound(cmd.saved.prov, cmd.saved.env, cmd.plan)
  BY <1>1, IntentIsSound
<1>3. /\ cmd.plan \in SettingsPlan /\ Fits(cmd.plan.mode, cmd.plan.scheme, cmd.plan.cert)
      /\ cmd.plan.scheme = cmd.saved.env.scheme /\ cmd.plan.cert = cmd.saved.env.cert
      /\ (cmd.plan.del = TRUE <=> cmd.saved.env.del = "true")
  BY <1>2 DEF IntentSound
<1>4. cmd.plan.mode \in TLSMode /\ cmd.plan.scheme \in Scheme /\ cmd.plan.cert \in BOOLEAN
  BY <1>3 DEF SettingsPlan
<1>5. ProbesTLS(cmd.plan) = cmd.plan.cert
  <2>1. (cmd.plan.mode = "direct-tls" <=> cmd.plan.cert = TRUE)
    BY <1>3, <1>4, FitsMeans, Zenon
  <2> QED  BY <2>1, <1>4 DEF ProbesTLS
<1> QED  BY <1>3, <1>5

\* readinessProbeURL: the probe asks as the service it is for answers.
LEMMA ProbedAsServed == InstallInv => ProbeSpeaksAsServed
<1> SUFFICES ASSUME InstallInv, At("wait"), cmd.fresh, service.running # Absent, ~cmd.bad,
                    cmd.kind = "upgrade" => OnRecord(cmd.saved.env, cmd.saved.prov)
             PROVE  ProbesTLS(cmd.plan) = service.tls
  BY DEF ProbeSpeaksAsServed
<1>1. ASSUME NEW b \in BOOLEAN, InSetup(b) PROVE ProbesTLS(cmd.plan) = service.tls
  <2>1. /\ cmd.plan \in SettingsPlan /\ Fits(cmd.plan.mode, cmd.plan.scheme, cmd.plan.cert)
        /\ service.tls = cmd.plan.cert
    BY <1>1 DEF InSetup
  <2>2. cmd.plan.mode \in TLSMode /\ cmd.plan.scheme \in Scheme /\ cmd.plan.cert \in BOOLEAN
    BY <2>1 DEF SettingsPlan
  <2>3. /\ cmd.plan.mode = "local-http" <=> cmd.plan.scheme = "http"
        /\ cmd.plan.mode = "direct-tls" <=> cmd.plan.cert = TRUE
    BY <2>1, <2>2, FitsMeans
  <2> QED  BY <2>1, <2>2, <2>3 DEF ProbesTLS
<1>2. ASSUME NEW moved \in BOOLEAN, InRestore(moved) PROVE ProbesTLS(cmd.plan) = service.tls
  <2>1. SavedSound /\ HasMode(cmd.plan) /\ OnRecord(cmd.saved.env, cmd.saved.prov)
        /\ service.tls = cmd.plan.cert
    BY <1>2 DEF InRestore, RestoreServed
  <2> QED  BY <2>1, IntentProbed
<1>3. CASE InUpgrade
  <2>1. Left = 3 /\ UpgradeAt(Left) /\ HasMode(cmd.plan) /\ OnRecord(cmd.saved.env, cmd.saved.prov)
    BY <1>3, UpgradePlace DEF InUpgrade
  <2>2. SavedSound /\ service.tls = cmd.plan.cert
    BY <2>1 DEF UpgradeAt
  <2> QED  BY <2>1, <2>2, IntentProbed
<1>4. ~InRemoval
  <2> SUFFICES ASSUME InRemoval PROVE FALSE
    OBVIOUS
  <2>1. RemovalLeft \in 1 .. 8
    BY RemovalPlace DEF InRemoval
  <2>2. \/ At("stop") \/ At("deleteReceipt") \/ At("deleteContent") \/ At("deleteDB")
        \/ At("deleteUnit") \/ At("deleteEnv") \/ At("deleteProvenance") \/ At("deleteBinary")
    BY <2>1, RemovalPlace DEF InRemoval
  <2> QED  BY <2>2 DEF At
<1>5. ~AtRest
  BY DEF At, AtRest, NoCommand
<1> QED  BY <1>1, <1>2, <1>3, <1>4, <1>5 DEF InstallInv

\* Most steps say nothing, or nothing that claims anything.
Quiet == said' = said \/ said' \in {"nothing", "failed", "cut", "unrestored", "incomplete"}

\* A step that reports no success has nothing to answer for.
LEMMA QuietClaimsNothing == Quiet => ClaimsHold /\ RestoredAsFound /\ RemovedIsRemoved
BY DEF Quiet, ClaimsHold, RestoredAsFound, RemovedIsRemoved, Says

\* A setup reports success only with its last step.
LEMMA SetupSays ==
    ASSUME NEW b \in BOOLEAN, InSetup(b), Types, InstallNext
    PROVE  \/ Quiet
           \/ SaveLifecycleProvenance /\ Proceed /\ said' = "done"
<1>1. /\ cmd.kind = "setup" /\ ~cmd.undo /\ Suffix(cmd.todo, SetupSteps(b))
      /\ Len(SetupSteps(b)) \in Nat /\ Left \in 1 .. 9 /\ (At("prov") <=> Left = 1)
  BY SetupPlace DEF InSetup
<1>2. ASSUME Failed PROVE Quiet
  <2>1. OnError
    BY <1>1, <1>2 DEF Failed, BestEffort
  <2> QED  BY <2>1, <1>1 DEF OnError, Undo, EndWith, Quiet
<1>3. ASSUME Proceed, ~At("prov") PROVE Quiet
  <2>1. Left \in Nat \ {0} /\ Left # 1
    BY <1>1, <1>3
  <2>2. Over(1, FALSE) \/ GoesOn(SetupSteps(b), 1, FALSE)
    BY <1>1, <1>3, <2>1, ProceedGoesOn DEF Types
  <2>3. GoesOn(SetupSteps(b), 1, FALSE)
    BY <2>1, <2>2 DEF Over
  <2> QED  BY <2>3 DEF GoesOn, Quiet
<1>4. ASSUME Proceed, At("prov") PROVE said' = "done"
  <2>1. Left \in Nat \ {0} /\ Left = 1
    BY <1>1, <1>4
  <2>2. Over(1, FALSE) \/ GoesOn(SetupSteps(b), 1, FALSE)
    BY <1>1, <1>4, <2>1, ProceedGoesOn DEF Types
  <2>3. ~GoesOn(SetupSteps(b), 1, FALSE)
    BY <2>1 DEF GoesOn
  <2>4. said' = Verdict(cmd.bad \/ FALSE)
    BY <2>2, <2>3 DEF Over
  <2> QED  BY <2>4, <1>1 DEF Verdict
<1>5. ASSUME WriteEnv \/ WriteUnit \/ CreateDatabase \/ WriteReceipt \/ PreflightBind \/ DaemonReload
             \/ WaitReachable
      PROVE  (Proceed \/ Failed) /\ ~At("prov")
  BY <1>5 DEF WriteEnv, WriteUnit, CreateDatabase, WriteReceipt, PreflightBind, DaemonReload,
              WaitReachable, Write, At
<1>6. CASE EnableNow
  BY <1>2, <1>6 DEF EnableNow, Quiet
<1>7. CASE SaveLifecycleProvenance
  BY <1>2, <1>4, <1>7 DEF SaveLifecycleProvenance, Write
<1>8. CASE Serve \/ ServiceRestarts \/ CommandDies
  BY <1>8 DEF Serve, ServiceRestarts, CommandDies, EndWith, Quiet
<1> QED  BY SetupOnly, <1>2, <1>3, <1>5, <1>6, <1>7, <1>8

\* What a setup reports is so.
LEMMA SetupReports ==
    ASSUME NEW b \in BOOLEAN, InSetup(b), Types, InstallNext
    PROVE  ClaimsHold /\ RestoredAsFound /\ RemovedIsRemoved
<1>1. CASE Quiet
  BY <1>1, QuietClaimsNothing
<1>2. CASE SaveLifecycleProvenance /\ said' = "done" /\ ~Quiet
  <2>1. /\ cmd.kind = "setup" /\ ~cmd.undo /\ cmd.plan \in SettingsPlan /\ SetupAt(SetupLeft(b))
        /\ (cmd.fresh => service.enabled) /\ SetupLeft(b) \in {1, 5}
    <3>1. At("prov") /\ Suffix(cmd.todo, SetupSteps(b))
      BY <1>2, Zenon DEF SaveLifecycleProvenance, InSetup
    <3>2. Left = 1
      BY <3>1, SetupPlace
    <3>3. SetupLeft(b) \in {1, 5}
      BY <3>2 DEF SetupLeft
    <3> QED  BY <3>3 DEF InSetup
  <2>0. cmd.fresh => service.running # Absent
    <3>1. CASE SetupLeft(b) = 1
      BY <3>1 DEF InSetup
    <3>2. CASE SetupLeft(b) = 5
      BY <3>2, <2>1 DEF SetupAt
    <3> QED  BY <3>1, <3>2, <2>1
  <2>2. PICK value : /\ Write("prov", value) /\ RecordSound(value)
                     /\ OnRecord(RenderEnvFile(cmd.plan), value)
    BY <1>2, SetupRecords
  <2>3. ~Failed
    <3> SUFFICES ASSUME Failed PROVE Quiet
      BY <1>2
    <3>1. OnError
      BY <2>1 DEF Failed, BestEffort
    <3> QED  BY <3>1, <2>1 DEF OnError, Undo, EndWith, Quiet
  <2>4. disk' = [disk EXCEPT !.prov = value] /\ service' = service
    BY <2>2, <2>3 DEF Write
  <2>5. /\ disk'.prov = value /\ disk'.env = disk.env /\ disk'.unit = disk.unit
        /\ disk'.receipt = disk.receipt
    BY <2>4 DEF Types, DiskTypes, DiskFields
  <2>6. disk.env = RenderEnvFile(cmd.plan) /\ disk.unit = Written /\ disk.receipt = Written
    BY <2>1 DEF SetupAt
  <2>7. disk'.env \in EnvFile /\ disk'.unit = Written /\ disk'.receipt = Written
        /\ OnRecord(disk'.env, disk'.prov)
    <3>1. disk'.env = RenderEnvFile(cmd.plan) /\ disk'.prov = value
      BY <2>5, <2>6
    <3>2. disk'.env \in EnvFile
      BY <3>1, <2>1, RenderedEnv
    <3>3. OnRecord(disk'.env, disk'.prov)
      BY <3>1, <2>2
    <3> QED  BY <3>2, <3>3, <2>5, <2>6
  <2>8. disk'.prov \in Provenance
    BY <2>2, <2>5 DEF RecordSound
  <2>9. ClaimsHold
    BY <2>0, <2>1, <2>4, <2>7, <2>8 DEF ClaimsHold
  <2> QED  BY <2>9, <1>2 DEF RestoredAsFound, RemovedIsRemoved, Says
<1> QED  BY <1>1, <1>2, SetupSays

\* An upgrade reports success only with its last step.
LEMMA UpgradeSays ==
    ASSUME InUpgrade, Types, InstallNext
    PROVE  \/ said' = said /\ cmd'.kind = "upgrade"
           \/ said' \in {"failed", "cut"}
           \/ /\ Left = 1 /\ disk' = [disk EXCEPT !.backup = Absent] /\ service' = service
              /\ said' = "done"
<1> DEFINE Silent == (said' = said /\ cmd'.kind = "upgrade") \/ said' \in {"failed", "cut"}
<1>1. cmd.kind = "upgrade" /\ ~cmd.undo /\ Left \in 1 .. 12
      /\ (At("drop") <=> Left = 1) /\ UpgradeAt(Left)
  BY UpgradePlace DEF InUpgrade
<1>2. ASSUME Failed PROVE Silent
  <2>1. OnError
    BY <1>1, <1>2 DEF Failed, BestEffort
  <2>2. EndWith("failed") \/ \E steps : Undo(steps)
    BY <2>1, <1>1 DEF OnError
  <2>3. ASSUME NEW steps, Undo(steps) PROVE Silent
    BY <2>3, <1>1 DEF Undo, Types, CmdTypes, CmdFields
  <2> QED  BY <2>2, <2>3 DEF EndWith
<1>3. ASSUME Proceed, ~At("drop") PROVE Silent
  <2>1. Left # 1
    BY <1>1, <1>3
  <2>2. GoesOn(UpgradeSteps, 1, FALSE)
    BY <2>1, <1>3, UpgradeNext DEF Types
  <2> QED  BY <2>2, <1>1 DEF GoesOn, SameCmd
<1>4. ASSUME Proceed, At("drop") PROVE said' = "done" /\ Left = 1
  <2>1. Left = 1
    BY <1>1, <1>4
  <2>2. Over(1, FALSE) \/ GoesOn(UpgradeSteps, 1, FALSE)
    BY <1>4, UpgradeProceeds DEF Types
  <2>3. ~GoesOn(UpgradeSteps, 1, FALSE)
    BY <2>1 DEF GoesOn
  <2>4. said' = Verdict(cmd.bad \/ FALSE)
    BY <2>2, <2>3 DEF Over
  <2> QED  BY <2>1, <2>4, <1>1 DEF Verdict
<1> HIDE DEF Silent
<1> SUFFICES Silent \/ /\ Left = 1 /\ disk' = [disk EXCEPT !.backup = Absent] /\ service' = service
                       /\ said' = "done"
  BY DEF Silent
<1>5. ASSUME Stop \/ SwapOut \/ SwapIn \/ WriteEnv \/ WriteUnit \/ WriteReceipt
             \/ DaemonReload \/ WaitReachable \/ SaveLifecycleProvenance
      PROVE  (Proceed \/ Failed) /\ ~At("drop")
  <2>1. CASE Stop \/ SwapOut \/ SwapIn
    BY <2>1 DEF Stop, SwapOut, SwapIn, At
  <2>2. CASE WriteEnv \/ DaemonReload \/ WaitReachable
    BY <2>2 DEF WriteEnv, DaemonReload, WaitReachable, At
  <2>3. CASE WriteUnit \/ WriteReceipt \/ SaveLifecycleProvenance
    BY <2>3, Zenon DEF WriteUnit, WriteReceipt, SaveLifecycleProvenance, Write, At
  <2> QED  BY <2>1, <2>2, <2>3, <1>5
<1>6. CASE EnableNow
  <2>1. ASSUME cmd' = [cmd EXCEPT !.todo = Tail(@), !.fresh = service.running = Absent], said' = said
        PROVE  Silent
    BY <2>1, <1>1 DEF Silent, Types, CmdTypes, CmdFields
  <2> QED  BY <2>1, <1>2, <1>6 DEF EnableNow
<1>7. CASE Capture
  <2>1. ASSUME cmd' = [cmd EXCEPT !.saved = [f \in Managed |-> disk[f]], !.todo = Tail(@)], said' = said
        PROVE  Silent
    BY <2>1, <1>1 DEF Silent, Types, CmdTypes, CmdFields
  <2>2. ASSUME EndWith("failed") PROVE Silent
    BY <2>2 DEF EndWith, Silent
  <2> QED  BY <2>1, <2>2, <1>7 DEF Capture
<1>8. CASE DropBackup
  BY <1>2, <1>4, <1>8 DEF DropBackup, Silent
<1>9. CASE Serve \/ ServiceRestarts \/ CommandDies
  BY <1>1, <1>9 DEF Serve, ServiceRestarts, CommandDies, EndWith, Silent
<1> QED  BY UpgradeOnly, <1>2, <1>3, <1>5, <1>6, <1>7, <1>8, <1>9

\* What an upgrade reports is so.
LEMMA UpgradeReports ==
    ASSUME InUpgrade, Types, InstallNext PROVE ClaimsHold /\ RestoredAsFound /\ RemovedIsRemoved
<1>1. CASE (said' = said /\ cmd'.kind = "upgrade") \/ said' \in {"failed", "cut"}
  <2>1. Quiet
    BY <1>1 DEF Quiet
  <2> QED  BY <2>1, QuietClaimsNothing
<1>2. CASE /\ Left = 1 /\ disk' = [disk EXCEPT !.backup = Absent] /\ service' = service
           /\ said' = "done"
  <2>1. cmd.kind = "upgrade" /\ UpgradeAt(Left) /\ HasMode(cmd.plan) /\ cmd.target \in Release
    BY DEF InUpgrade
  <2>2. /\ disk.bin = cmd.target /\ disk.env = RenderEnvFile(cmd.plan) /\ disk.unit = Written
        /\ disk.receipt = Written /\ service.enabled /\ service.running = cmd.target
        /\ cmd.plan.cert = ProbesTLS(cmd.plan)
        /\ disk.prov = lifecycleProvenanceFromPlan(cmd.plan, cmd.target) /\ SavedSound
    BY <2>1, <1>2 DEF UpgradeAt
  <2>3. /\ disk'.bin = disk.bin /\ disk'.env = disk.env /\ disk'.unit = disk.unit
        /\ disk'.receipt = disk.receipt /\ disk'.prov = disk.prov /\ disk'.backup = Absent
    BY <1>2 DEF Types, DiskTypes, DiskFields
  <2>4. /\ cmd.plan \in SettingsPlan /\ disk.env \in EnvFile
        /\ (cmd.plan.mode = "local-http" <=> cmd.plan.scheme = "http")
    <3>1. /\ cmd.plan = loadInstalledIntent(cmd.saved.prov, cmd.saved.env)
          /\ RecordSound(cmd.saved.prov) /\ cmd.saved.env \in EnvFile
      BY <2>2 DEF SavedSound
    <3>2. IntentSound(cmd.saved.prov, cmd.saved.env, cmd.plan)
      BY <3>1, <2>1, IntentIsSound
    <3> QED  BY <3>2, <2>2, RenderedEnv DEF IntentSound
  <2>5. Fits(cmd.plan.mode, cmd.plan.scheme, cmd.plan.cert)
    <3>1. cmd.plan.mode \in TLSMode /\ cmd.plan.scheme \in Scheme /\ cmd.plan.cert \in BOOLEAN
      BY <2>4 DEF SettingsPlan
    <3>2. (cmd.plan.mode = "direct-tls" <=> cmd.plan.cert = TRUE)
      BY <2>2, <3>1 DEF ProbesTLS
    <3> QED  BY <2>4, <3>1, <3>2, FitsMeans
  <2>6. /\ RecordSound(disk.prov) /\ disk.prov.version = cmd.target /\ OnRecord(disk.env, disk.prov)
    BY <2>1, <2>2, <2>4, <2>5, RecordedPlan
  <2>7. disk.prov \in Provenance
    BY <2>6 DEF RecordSound
  <2>8. {disk'.bin, disk'.prov.version, service'.running} = {cmd.target}
    BY <2>2, <2>3, <2>6, <1>2
  <2>9. ClaimsHold
    <3>1. cmd.target # Absent
      BY <2>1, NothingThere
    <3> QED  BY <3>1, <2>2, <2>3, <2>4, <2>6, <2>7, <2>8, <1>2 DEF ClaimsHold
  <2>10. RestoredAsFound /\ RemovedIsRemoved
    BY <1>2 DEF RestoredAsFound, RemovedIsRemoved, Says
  <2> QED  BY <2>9, <2>10
<1> QED  BY <1>1, <1>2, UpgradeSays

\* A restore reports success only if no step of it failed and the service answers.
LEMMA RestoreSays ==
    ASSUME NEW moved \in BOOLEAN, InRestore(moved), Types, InstallNext
    PROVE  \/ said' = said /\ cmd'.kind = "upgrade"
           \/ said' \in {"cut", "unrestored"}
           \/ /\ Left = 1 /\ ~cmd.bad /\ disk' = disk /\ service' = service /\ Reachable
              /\ said' = "restored"
<1> DEFINE Silent == (said' = said /\ cmd'.kind = "upgrade") \/ said' \in {"cut", "unrestored"}
<1>1. cmd.kind = "upgrade" /\ cmd.undo /\ Left \in 1 .. 10 /\ (At("wait") <=> Left = 1)
  BY RestorePlace DEF InRestore
<1>2. ASSUME Failed PROVE Silent
  <2>1. CASE GoesOn(RestoreSteps(moved), 1, TRUE)
    BY <2>1, <1>1 DEF GoesOn, SameCmd
  <2>2. CASE Over(1, TRUE)
    BY <2>2, <1>1 DEF Over, Verdict
  <2> QED  BY <2>1, <2>2, <1>2, RestoreMoves DEF Types
<1>3. ASSUME Proceed, ~At("wait") PROVE Silent
  <2>1. Left # 1
    BY <1>1, <1>3
  <2>2. GoesOn(RestoreSteps(moved), 1, FALSE)
    BY <2>1, <1>3, RestoreNext DEF Types
  <2> QED  BY <2>2, <1>1 DEF GoesOn, SameCmd
<1>4. ASSUME NEW n \in 1 .. 3, n < Left, Skip(n, TRUE) PROVE Silent
  <2>1. GoesOn(RestoreSteps(moved), n, TRUE)
    BY <1>4, RestoreSkips DEF Types
  <2> QED  BY <2>1, <1>1 DEF GoesOn, SameCmd
<1>5. ASSUME Proceed, At("wait") PROVE Left = 1 /\ (Silent \/ (~cmd.bad /\ said' = "restored"))
  <2>1. Left = 1
    BY <1>1, <1>5
  <2>2. ~GoesOn(RestoreSteps(moved), 1, FALSE)
    BY <2>1 DEF GoesOn
  <2>3. Over(1, FALSE)
    BY <2>2, <1>5, RestoreMoves DEF Types
  <2>4. said' = Verdict(cmd.bad \/ FALSE) /\ cmd.bad \in BOOLEAN
    BY <2>3 DEF Over, Types, CmdTypes
  <2> QED  BY <2>1, <2>4, <1>1 DEF Verdict
<1> HIDE DEF Silent
<1> SUFFICES Silent \/ /\ Left = 1 /\ ~cmd.bad /\ disk' = disk /\ service' = service /\ Reachable
                       /\ said' = "restored"
  BY DEF Silent
<1>6. CASE MoveAside
  <2>1. Left = 10
    BY <1>6, RestorePlace DEF MoveAside, InRestore
  <2>2. 3 \in 1 .. 3 /\ 3 < Left
    BY <2>1
  <2>3. Proceed \/ Skip(3, TRUE)
    BY <1>6 DEF MoveAside
  <2>4. ~At("wait")
    BY <1>6 DEF MoveAside, At
  <2> QED  BY <2>2, <2>3, <2>4, <1>3, <1>4
<1>7. CASE MoveBack
  <2>1. Left = 9
    BY <1>7, RestorePlace DEF MoveBack, InRestore
  <2>2. 2 \in 1 .. 3 /\ 2 < Left
    BY <2>1
  <2>3. Proceed \/ Skip(2, TRUE)
    BY <1>7 DEF MoveBack
  <2>4. ~At("wait")
    BY <1>7 DEF MoveBack, At
  <2> QED  BY <2>2, <2>3, <2>4, <1>3, <1>4
<1>8. ASSUME CleanAside \/ DaemonReload
      PROVE  (Proceed \/ Failed) /\ ~At("wait")
  BY <1>8 DEF CleanAside, DaemonReload, At
<1>9. ASSUME NEW step \in {"rewrite", "oldEnv", "oldUnit", "oldReceipt", "oldProv"}, NEW f,
             RestoreFile(step, f)
      PROVE  (Proceed \/ Failed) /\ ~At("wait")
  BY <1>9, Zenon DEF RestoreFile, Write, At
<1>10. CASE EnableNow
  <2>1. ASSUME cmd' = [cmd EXCEPT !.todo = Tail(@), !.fresh = service.running = Absent], said' = said
        PROVE  Silent
    BY <2>1, <1>1 DEF Silent, Types, CmdTypes, CmdFields
  <2> QED  BY <2>1, <1>2, <1>10 DEF EnableNow
<1>11. CASE WaitReachable
  BY <1>2, <1>5, <1>11 DEF WaitReachable, Silent
<1>12. CASE Serve \/ ServiceRestarts \/ CommandDies
  BY <1>1, <1>12 DEF Serve, ServiceRestarts, CommandDies, EndWith, Silent
<1>13. CASE \/ RestoreFile("rewrite", "bin") \/ RestoreFile("oldEnv", "env")
            \/ RestoreFile("oldUnit", "unit") \/ RestoreFile("oldReceipt", "receipt")
            \/ RestoreFile("oldProv", "prov")
  <2>1. (Proceed \/ Failed) /\ ~At("wait")
    BY <1>9, <1>13
  <2> QED  BY <2>1, <1>2, <1>3
<1> QED  BY RestoreOnly, <1>2, <1>3, <1>6, <1>7, <1>8, <1>10, <1>11, <1>12, <1>13

\* What a restore reports is so.
LEMMA RestoreReports ==
    ASSUME NEW moved \in BOOLEAN, InRestore(moved), Types, InstallNext
    PROVE  /\ ClaimsHold /\ RestoredAsFound /\ RemovedIsRemoved
           /\ cmd' = NoCommand => \/ said' \in {"cut", "unrestored"}
                                  \/ disk'.env = cmd.saved.env
<1>1. CASE (said' = said /\ cmd'.kind = "upgrade") \/ said' \in {"cut", "unrestored"}
  <2>1. Quiet /\ (cmd' = NoCommand => said' \in {"cut", "unrestored"})
    BY <1>1 DEF Quiet, NoCommand
  <2> QED  BY <2>1, QuietClaimsNothing
<1>2. CASE /\ Left = 1 /\ ~cmd.bad /\ disk' = disk /\ service' = service /\ Reachable
           /\ said' = "restored"
  <2>1. RestoredAt(Left) /\ RestoreServed
    BY <1>2 DEF InRestore
  <2>2. /\ disk.bin = cmd.saved.bin /\ disk.env = cmd.saved.env /\ disk.unit = cmd.saved.unit
        /\ disk.receipt = cmd.saved.receipt /\ disk.prov = cmd.saved.prov /\ service.enabled
    BY <2>1, <1>2 DEF RestoredAt
  <2>3. /\ service'.enabled
        /\ service'.running = cmd.saved.bin \/ (service'.running = cmd.target /\ ~cmd.fresh)
    BY <2>1, <2>2, <1>2 DEF Reachable, RestoreServed, RestoredAt
  <2>4. \A f \in Managed : disk'[f] = cmd.saved[f]
    BY <2>2, <1>2 DEF Managed
  <2>5. RestoredAsFound
    BY <2>3, <2>4 DEF RestoredAsFound
  <2>6. ClaimsHold /\ RemovedIsRemoved
    BY <1>2 DEF ClaimsHold, RemovedIsRemoved, Says
  <2> QED  BY <2>2, <2>5, <2>6, <1>2
<1> QED  BY <1>1, <1>2, RestoreSays

\* A removal reports success only if no step of it failed.
LEMMA RemovalSays ==
    ASSUME InRemoval, Types, InstallNext
    PROVE  \/ Quiet
           \/ /\ said' = "removed" /\ Left = 1 /\ ~cmd.bad /\ service' = service
              /\ \E f \in DOMAIN DeleteStep :
                    At(DeleteStep[f]) /\ disk' = [disk EXCEPT ![f] = Absent]
<1>1. /\ cmd.kind \in {"rollback", "uninstall"} \/ (cmd.kind = "setup" /\ cmd.undo)
      /\ RemovalLeft \in 1 .. 8 /\ Left \in 1 .. 8 /\ (At("stop") <=> RemovalLeft = 8)
      /\ Len(RemovalSteps(cmd.kind)) \in Nat
  BY RemovalPlace DEF InRemoval
<1>2. ASSUME Failed PROVE Quiet
  <2>1. CASE RemovesOn(TRUE)
    BY <2>1 DEF RemovesOn, Quiet
  <2>2. CASE Over(1, TRUE)
    BY <2>2, <1>1 DEF Over, Verdict, Quiet
  <2> QED  BY <2>1, <2>2, <1>2, RemovalMoves DEF Types
<1>3. ASSUME Proceed PROVE Quiet \/ (said' = "removed" /\ Left = 1 /\ ~cmd.bad)
  <2>1. CASE RemovesOn(FALSE)
    BY <2>1 DEF RemovesOn, Quiet
  <2>2. CASE Over(1, FALSE)
    <3>1. said' = Verdict(cmd.bad \/ FALSE) /\ cmd.bad \in BOOLEAN /\ Left = 1
      BY <2>2 DEF Over, Types, CmdTypes
    <3> QED  BY <3>1, <1>1 DEF Verdict, Quiet
  <2> QED  BY <2>1, <2>2, <1>3, RemovalMoves DEF Types
<1>4. CASE Stop
  <2>1. RemovalLeft = 8
    BY <1>1, <1>4 DEF Stop
  <2>2. Left # 1
    BY <2>1, <1>1 DEF RemovalLeft
  <2> QED  BY <2>2, <1>2, <1>3, <1>4 DEF Stop
<1>5. ASSUME NEW f \in DOMAIN DeleteStep, RemovePath(f)
      PROVE  \/ Quiet
             \/ /\ said' = "removed" /\ Left = 1 /\ ~cmd.bad /\ service' = service
                /\ At(DeleteStep[f]) /\ disk' = [disk EXCEPT ![f] = Absent]
  BY <1>2, <1>3, <1>5 DEF RemovePath
<1>6. CASE Serve \/ ServiceRestarts \/ CommandDies
  BY <1>6 DEF Serve, ServiceRestarts, CommandDies, EndWith, Quiet
<1> QED  BY RemovalOnly, <1>4, <1>5, <1>6

\* What a removal reports is so.
LEMMA RemovalReports ==
    ASSUME InRemoval, Types, InstallNext
    PROVE  ClaimsHold /\ RestoredAsFound /\ RemovedIsRemoved
<1>1. CASE Quiet
  BY <1>1, QuietClaimsNothing
<1>2. ASSUME said' = "removed", Left = 1, ~cmd.bad, service' = service,
             NEW f \in DOMAIN DeleteStep, At(DeleteStep[f]), disk' = [disk EXCEPT ![f] = Absent]
      PROVE  ClaimsHold /\ RestoredAsFound /\ RemovedIsRemoved
  <2>1. RemovedAt(RemovalLeft) /\ Suffix(cmd.todo, RemovalSteps(cmd.kind))
    BY <1>2 DEF InRemoval
  <2>2. RemovalLeft = IF cmd.kind = "uninstall" THEN 1 ELSE 3
    BY <1>2 DEF RemovalLeft
  <2>3. f \in {"receipt", "content", "db", "unit", "env", "prov", "bin"}
    BY DEF DeleteStep
  <2>4. service = Stopped
    BY <2>1, <2>2 DEF RemovedAt
  <2>5. service' = Halted
    <3>1. PICK halted : halted = Halted
      OBVIOUS
    <3>2. halted = Stopped
      BY <3>1 DEF Types, ServiceTypes, Halted, Stopped
    <3> QED  BY <3>1, <3>2, <2>4, <1>2
  <2>6. disk'[f] = Absent /\ \A g \in DiskFields : disk[g] = Absent => disk'[g] = Absent
    BY <2>3, <1>2 DEF Types, DiskTypes, DiskFields
  <2>7. CASE cmd.kind = "uninstall"
    <3>1. RemovalLeft = 1
      BY <2>2, <2>7
    <3>2. At("deleteBinary")
      BY <2>1, <3>1, RemovalPlace
    <3>3. DeleteStep[f] = "deleteBinary"
      BY <3>2, <1>2 DEF At
    <3>4. f = "bin"
      BY <3>3, <2>3 DEF DeleteStep
    <3>5. /\ disk.receipt = Absent /\ disk.content = Absent /\ disk.db = Absent
          /\ disk.unit = Absent /\ disk.env = Absent /\ disk.prov = Absent
      BY <2>1, <3>1 DEF RemovedAt
    <3>6. /\ disk'.receipt = Absent /\ disk'.content = Absent /\ disk'.db = Absent
          /\ disk'.unit = Absent /\ disk'.env = Absent /\ disk'.prov = Absent /\ disk'.bin = Absent
      BY <2>6, <3>4, <3>5 DEF DiskFields
    <3> QED  BY <3>6, <2>5, <1>2 DEF ClaimsHold, RestoredAsFound, RemovedIsRemoved, Says
  <2>8. CASE cmd.kind # "uninstall"
    <3>1. RemovalLeft = 3
      BY <2>2, <2>8
    <3>2. At("deleteEnv")
      BY <2>1, <3>1, RemovalPlace
    <3>3. DeleteStep[f] = "deleteEnv"
      BY <3>2, <1>2 DEF At
    <3>4. f = "env"
      BY <3>3, <2>3 DEF DeleteStep
    <3>5. /\ disk.receipt = Absent /\ disk.content = Absent /\ disk.db = Absent /\ disk.unit = Absent
      BY <2>1, <3>1 DEF RemovedAt
    <3>6. /\ disk'.receipt = Absent /\ disk'.content = Absent /\ disk'.db = Absent
          /\ disk'.unit = Absent /\ disk'.env = Absent
      BY <2>6, <3>4, <3>5 DEF DiskFields
    <3> QED  BY <3>6, <2>5, <2>8, <1>2 DEF ClaimsHold, RestoredAsFound, RemovedIsRemoved, Says
  <2> QED  BY <2>7, <2>8
<1> QED  BY <1>1, <1>2, RemovalSays

\* While no command runs nothing is reported and no binary moves.
LEMMA IdleReports ==
    ASSUME AtRest, Types, InstallNext
    PROVE  /\ ClaimsHold /\ RestoredAsFound /\ RemovedIsRemoved /\ cmd.kind = "none"
           /\ disk'.bin = disk.bin /\ disk'.backup = disk.backup /\ disk'.aside = disk.aside
           /\ disk'.stray = disk.stray
<1>1. ASSUME NEW kind, NEW todo, NEW plan, NEW target, NEW local, Start(kind, todo, plan, target, local)
      PROVE  Quiet /\ disk' = disk
  BY <1>1 DEF Start, Quiet
<1>2. cmd.kind = "none"
  BY DEF AtRest, NoCommand
<1>3. CASE \/ \E input \in SetupInput : Setup(input)
           \/ \E r \in Release : Upgrade_(r)
           \/ RollbackSetup \/ Uninstall
  <2>1. Quiet /\ disk' = disk
    BY <1>1, <1>3, Zenon DEF Setup, Upgrade_, RollbackSetup, Uninstall
  <2> QED  BY <2>1, <1>2, QuietClaimsNothing
<1>4. CASE Serve \/ ServiceRestarts
  <2>1. Quiet
    BY <1>4 DEF Serve, ServiceRestarts, Quiet
  <2>2. /\ disk'.bin = disk.bin /\ disk'.backup = disk.backup /\ disk'.aside = disk.aside
        /\ disk'.stray = disk.stray
    BY <1>4, ServeTypes, RestartTypes
  <2> QED  BY <2>1, <2>2, <1>2, QuietClaimsNothing
<1>5. CASE EditEnv
  <2>1. PICK env : disk' = [disk EXCEPT !.env = env]
    BY <1>5, Zenon DEF EditEnv
  <2>2. Quiet
    BY <1>5, Zenon DEF EditEnv, Quiet
  <2>3. /\ disk'.bin = disk.bin /\ disk'.backup = disk.backup /\ disk'.aside = disk.aside
        /\ disk'.stray = disk.stray
    BY <2>1 DEF Types, DiskTypes, DiskFields
  <2> QED  BY <2>2, <2>3, <1>2, QuietClaimsNothing
<1> QED  BY IdleOnly, <1>3, <1>4, <1>5

(* runSetup, runUpgrade, runUninstall: what a command says at its end is   *)
(* so, however often calls on the host have failed and commands have died, *)
(* and a service that it has started is asked with the scheme it serves.   *)
(* "Restored" is about the files and an enabled service that answers: a    *)
(* new release that was up when the upgrade failed may be what answers.    *)
THEOREM ReportsAlwaysTrue == InstallSpec => ReportsAreTrue
<1>1. InstallInv /\ InstallInv' /\ [InstallNext]_installVars =>
          [ClaimsHold /\ RestoredAsFound /\ RemovedIsRemoved /\ ProbeSpeaksAsServed']_installVars
  <2> SUFFICES ASSUME InstallInv, InstallInv', InstallNext
               PROVE  ClaimsHold /\ RestoredAsFound /\ RemovedIsRemoved /\ ProbeSpeaksAsServed'
    OBVIOUS
  <2>1. Types
    BY DEF InstallInv, Types
  <2>2. ClaimsHold /\ RestoredAsFound /\ RemovedIsRemoved
    BY <2>1, SetupReports, UpgradeReports, RestoreReports, RemovalReports, IdleReports DEF InstallInv
  <2>3. ProbeSpeaksAsServed'
    <3>1. (InstallInv => ProbeSpeaksAsServed)'
      BY ProbedAsServed, PTL
    <3> QED  BY <3>1
  <2> QED  BY <2>2, <2>3
<1> QED  BY <1>1, InstallInvHolds, PTL DEF InstallSpec, ReportsAreTrue

-----------------------------------------------------------------------------
(***************************************************************************)
(* What is kept.                                                           *)
(***************************************************************************)
DataKept ==
    /\ disk.db = "data" => disk'.db = "data"
    /\ disk.content = "data" => disk'.content = "data"

\* A write, failing or not, touches the file it is of and no other.
LEMMA WriteKeeps ==
    ASSUME DiskTypes, NEW f \in Managed, NEW value, Write(f, value)
    PROVE  /\ DataKept /\ (f # "bin" => disk'.bin = disk.bin) /\ (f # "env" => disk'.env = disk.env)
           /\ disk'.backup = disk.backup /\ disk'.aside = disk.aside /\ disk'.stray = disk.stray
           /\ (f = "bin" => disk'.bin \in {disk.bin, value, Torn})
           /\ (f = "env" => disk'.env \in {disk.env, value} \cup Cut(value))
<1>1. \/ disk' = disk
      \/ \E new \in {value} \cup Halves(f, value) : disk' = [disk EXCEPT ![f] = new]
  BY DEF Write
<1>2. CASE disk' = disk
  BY <1>2 DEF DataKept
<1>3. ASSUME NEW new \in {value} \cup Halves(f, value), disk' = [disk EXCEPT ![f] = new]
      PROVE  /\ DataKept /\ (f # "bin" => disk'.bin = disk.bin) /\ (f # "env" => disk'.env = disk.env)
             /\ disk'.backup = disk.backup /\ disk'.aside = disk.aside /\ disk'.stray = disk.stray
             /\ (f = "bin" => disk'.bin \in {disk.bin, value, Torn})
             /\ (f = "env" => disk'.env \in {disk.env, value} \cup Cut(value))
  <2>1. f = "env" => new \in {value} \cup Cut(value)
    BY <1>3 DEF Halves
  <2>2. f = "bin" => new \in {value, Torn}
    BY <1>3 DEF Halves
  <2>3. /\ DataKept /\ (f # "bin" => disk'.bin = disk.bin) /\ (f # "env" => disk'.env = disk.env)
        /\ disk'.backup = disk.backup /\ disk'.aside = disk.aside /\ disk'.stray = disk.stray
        /\ (f = "bin" => disk'.bin = new) /\ (f = "env" => disk'.env = new)
    BY <1>3 DEF DiskTypes, DiskFields, Managed, DataKept
  <2> QED  BY <2>1, <2>2, <2>3
<1> QED  BY <1>1, <1>2, <1>3

\* So does that of regixtry.env.
LEMMA WriteEnvKeeps ==
    ASSUME DiskTypes, WriteEnv
    PROVE  DataKept /\ disk'.bin = disk.bin /\ disk'.backup = disk.backup
           /\ disk'.aside = disk.aside /\ disk'.stray = disk.stray
<1> DEFINE made == [disk EXCEPT !.content = IF @ = Absent THEN "empty" ELSE @]
<1>1. disk' \in {disk, made} \/ \E env : disk' = [made EXCEPT !.env = env]
  BY DEF WriteEnv
<1>2. Absent # "data"
  BY InstallAssumption
<1>3. DOMAIN made = DiskFields /\ made.db = disk.db /\ made.bin = disk.bin /\ made.backup = disk.backup
      /\ made.aside = disk.aside /\ made.stray = disk.stray
      /\ (disk.content = "data" => made.content = "data")
  BY <1>2 DEF DiskTypes, DiskFields
<1> HIDE DEF made
<1> QED  BY <1>1, <1>3 DEF DiskTypes, DiskFields, DataKept

\* A command that dies leaves the file it was writing cut off, at most.
DyingEnv ==
    \/ disk'.env = disk.env
    \/ Head(cmd.todo) = "env" /\ disk'.env \in Cut(RenderEnvFile(cmd.plan))
    \/ Head(cmd.todo) = "oldEnv" /\ disk'.env \in Cut(cmd.saved.env)
LEMMA DiesKeeps ==
    ASSUME DiskTypes, CommandDies
    PROVE  /\ DataKept
           /\ disk'.bin \in {disk.bin, Torn}
           /\ disk'.stray = disk.stray \cup ({disk.backup, disk.aside} \ {Absent})
           /\ DyingEnv
<1>1. CASE disk' = Strays(disk)
  BY <1>1 DEF DiskTypes, DiskFields, Strays, DataKept, DyingEnv
<1>2. ASSUME NEW h \in WrittenBy(Head(cmd.todo)), disk' = Strays([disk EXCEPT ![h[1]] = h[2]])
      PROVE  /\ DataKept
             /\ disk'.bin \in {disk.bin, Torn}
             /\ disk'.stray = disk.stray \cup ({disk.backup, disk.aside} \ {Absent})
             /\ DyingEnv
  <2>1. PICK f, half : f = h[1] /\ half = h[2]
    OBVIOUS
  <2>2. disk' = Strays([disk EXCEPT ![f] = half])
    BY <1>2, <2>1
  <2>3. \/ f \in {"bin", "unit", "receipt", "prov"} /\ half = Torn
        \/ f = "env" /\ Head(cmd.todo) = "env" /\ half \in Cut(RenderEnvFile(cmd.plan))
        \/ f = "env" /\ Head(cmd.todo) = "oldEnv" /\ half \in Cut(cmd.saved.env)
    BY <1>2, <2>1 DEF WrittenBy
  <2>4. f \in Managed
    BY <2>3 DEF Managed
  <2>5. /\ DataKept /\ (f # "bin" => disk'.bin = disk.bin) /\ (f # "env" => disk'.env = disk.env)
        /\ disk'.stray = disk.stray \cup ({disk.backup, disk.aside} \ {Absent})
        /\ (f = "bin" => disk'.bin = half) /\ (f = "env" => disk'.env = half)
    BY <2>2, <2>4 DEF DiskTypes, DiskFields, Strays, DataKept, Managed
  <2> QED  BY <2>3, <2>5 DEF DyingEnv
<1> QED  BY <1>1, <1>2 DEF CommandDies

\* restoreManagedRuntimeBackup, writeManagedArtifacts: no step of an upgrade
\* touches the data.
LEMMA UpgradeKeepsData == ASSUME InUpgrade, DiskTypes, InstallNext PROVE DataKept
<1>1. CASE Capture \/ Stop \/ DaemonReload \/ EnableNow \/ WaitReachable \/ ServiceRestarts
  BY <1>1 DEF Capture, Stop, DaemonReload, EnableNow, WaitReachable, ServiceRestarts, DataKept
<1>2. CASE SwapOut \/ SwapIn \/ DropBackup
  BY <1>2 DEF SwapOut, SwapIn, DropBackup, DataKept, DiskTypes, DiskFields
<1>3. CASE WriteUnit \/ WriteReceipt
  BY <1>3, WriteKeeps DEF WriteUnit, WriteReceipt, Managed
<1>4. CASE SaveLifecycleProvenance
  <2>1. PICK value : Write("prov", value)
    BY <1>4, Zenon DEF SaveLifecycleProvenance
  <2> QED  BY <2>1, WriteKeeps DEF Managed
<1>5. CASE WriteEnv
  BY <1>5, WriteEnvKeeps
<1>6. CASE Serve
  BY <1>6 DEF Serve, DataKept, DiskTypes, DiskFields
<1>7. CASE CommandDies
  BY <1>7, DiesKeeps
<1> QED  BY UpgradeOnly, <1>1, <1>2, <1>3, <1>4, <1>5, <1>6, <1>7

\* No step of a restore touches data.
LEMMA RestoreKeepsData ==
    ASSUME NEW moved \in BOOLEAN, InRestore(moved), DiskTypes, InstallNext PROVE DataKept
<1>1. CASE DaemonReload \/ EnableNow \/ WaitReachable \/ ServiceRestarts
  BY <1>1 DEF DaemonReload, EnableNow, WaitReachable, ServiceRestarts, DataKept
<1>2. CASE MoveAside \/ MoveBack \/ CleanAside
  BY <1>2 DEF MoveAside, MoveBack, CleanAside, DataKept, DiskTypes, DiskFields
<1>3. CASE \/ RestoreFile("rewrite", "bin") \/ RestoreFile("oldEnv", "env")
           \/ RestoreFile("oldUnit", "unit") \/ RestoreFile("oldReceipt", "receipt")
           \/ RestoreFile("oldProv", "prov")
  <2>1. PICK f \in Managed : Write(f, cmd.saved[f])
    BY <1>3 DEF RestoreFile, Managed
  <2> QED  BY <2>1, WriteKeeps
<1>4. CASE Serve
  BY <1>4 DEF Serve, DataKept, DiskTypes, DiskFields
<1>5. CASE CommandDies
  BY <1>5, DiesKeeps
<1> QED  BY RestoreOnly, <1>1, <1>2, <1>3, <1>4, <1>5

\* The old regixtry.env and the rendered one mean the same.
LEMMA MeantAlike ==
    ASSUME SavedSound, HasMode(cmd.plan), OnRecord(cmd.saved.env, cmd.saved.prov),
           NEW env \in {cmd.saved.env, RenderEnvFile(cmd.plan)}
    PROVE  SameSettings(env, cmd.saved.env)
<1>1. CASE env = cmd.saved.env
  BY <1>1 DEF SameSettings
<1>2. CASE env = RenderEnvFile(cmd.plan)
  <2>1. /\ cmd.plan.scheme = cmd.saved.env.scheme /\ cmd.plan.cert = cmd.saved.env.cert
        /\ (cmd.plan.del = TRUE <=> cmd.saved.env.del = "true") /\ cmd.plan \in SettingsPlan
    BY IntentProbed
  <2>2. /\ env.scheme = cmd.plan.scheme /\ env.cert = cmd.plan.cert
        /\ (env.del = "true" <=> cmd.plan.del = TRUE)
    BY <1>2, <2>1, RenderedEnv, Zenon
  <2> QED  BY <2>1, <2>2 DEF SameSettings
<1> QED  BY <1>1, <1>2

\* What is left of regixtry.env where an upgrade ends that has not turned round.
LEMMA UpgradeEnds ==
    ASSUME InUpgrade, Types, InstallNext, cmd' = NoCommand, Left # 12
    PROVE  \/ disk'.env = disk.env
           \/ said' = "cut" /\ disk'.env \in Cut(RenderEnvFile(cmd.plan))
<1>1. DiskTypes /\ Suffix(cmd.todo, UpgradeSteps) /\ cmd'.kind # "upgrade"
  BY DEF InUpgrade, Types, NoCommand
<1>2. CASE Capture
  BY <1>1, <1>2, UpgradePlace DEF Capture
<1>3. CASE Stop \/ DaemonReload \/ EnableNow \/ WaitReachable \/ ServiceRestarts
  BY <1>3 DEF Stop, DaemonReload, EnableNow, WaitReachable, ServiceRestarts
<1>4. CASE SwapOut \/ SwapIn \/ DropBackup
  BY <1>1, <1>4 DEF SwapOut, SwapIn, DropBackup, DiskTypes, DiskFields
<1>5. CASE WriteUnit \/ WriteReceipt
  BY <1>1, <1>5, WriteKeeps DEF WriteUnit, WriteReceipt, Managed
<1>6. CASE SaveLifecycleProvenance
  <2>1. PICK value : Write("prov", value)
    BY <1>6, Zenon DEF SaveLifecycleProvenance
  <2> QED  BY <2>1, <1>1, WriteKeeps DEF Managed
<1>7. CASE WriteEnv
  <2>1. Left = 8 /\ (Proceed \/ Failed)
    BY <1>1, <1>7, UpgradePlace DEF WriteEnv
  <2>2. CASE Proceed
    <3>1. Left # 1
      BY <2>1
    <3>2. GoesOn(UpgradeSteps, 1, FALSE)
      BY <3>1, <2>2, UpgradeNext DEF Types
    <3> QED  BY <3>2, <1>1 DEF GoesOn, SameCmd, InUpgrade
  <2>3. CASE Failed
    <3>0. Left <= 8
      BY <2>1
    <3>1. Turned(TRUE)
      BY <3>0, <2>3, UpgradeFails, Zenon DEF Types
    <3> QED  BY <3>1, <1>1 DEF Turned, InUpgrade
  <2> QED  BY <2>1, <2>2, <2>3
<1>8. CASE Serve
  BY <1>8, ServeTypes
<1>9. CASE CommandDies
  <2>1. DyingEnv /\ said' = "cut"
    BY <1>1, <1>9, DiesKeeps DEF CommandDies, EndWith
  <2>2. Head(cmd.todo) # "oldEnv"
    <3>1. \/ At("capture") \/ At("stop") \/ At("out") \/ At("in") \/ At("env") \/ At("unit")
          \/ At("receipt") \/ At("reload") \/ At("enable") \/ At("wait") \/ At("prov") \/ At("drop")
      BY <1>1, UpgradePlace
    <3> QED  BY <3>1 DEF At
  <2> QED  BY <2>1, <2>2 DEF DyingEnv
<1> QED  BY UpgradeOnly, <1>2, <1>3, <1>4, <1>5, <1>6, <1>7, <1>8, <1>9

\* What a step of a restore may leave of it.
LEMMA RestoreLeaves ==
    ASSUME NEW moved \in BOOLEAN, InRestore(moved), Types, InstallNext
    PROVE  disk'.env \in {cmd.saved.env, RenderEnvFile(cmd.plan)} \cup Halfway
<1>1. DiskTypes /\ RestoreEnv /\ Suffix(cmd.todo, RestoreSteps(moved))
  BY DEF InRestore, Types
<1>2. ASSUME disk'.env \in {disk.env, cmd.saved.env} \cup Cut(cmd.saved.env)
      PROVE  disk'.env \in {cmd.saved.env, RenderEnvFile(cmd.plan)} \cup Halfway
  BY <1>1, <1>2 DEF RestoreEnv, Halfway
<1>3. CASE DaemonReload \/ EnableNow \/ WaitReachable \/ ServiceRestarts
  BY <1>2, <1>3 DEF DaemonReload, EnableNow, WaitReachable, ServiceRestarts
<1>4. CASE MoveAside \/ MoveBack \/ CleanAside
  BY <1>1, <1>2, <1>4 DEF MoveAside, MoveBack, CleanAside, DiskTypes, DiskFields
<1>5. CASE \/ RestoreFile("rewrite", "bin") \/ RestoreFile("oldEnv", "env")
           \/ RestoreFile("oldUnit", "unit") \/ RestoreFile("oldReceipt", "receipt")
           \/ RestoreFile("oldProv", "prov")
  <2>1. PICK f \in Managed : Write(f, cmd.saved[f])
    BY <1>5 DEF RestoreFile, Managed
  <2> QED  BY <2>1, <1>1, <1>2, WriteKeeps
<1>6. CASE Serve
  BY <1>2, <1>6, ServeTypes
<1>7. CASE CommandDies
  <2>1. DyingEnv
    BY <1>1, <1>7, DiesKeeps
  <2>2. Head(cmd.todo) # "env"
    <3>1. \/ At("aside") \/ At("back") \/ At("clean") \/ At("rewrite") \/ At("oldEnv")
          \/ At("oldUnit") \/ At("oldReceipt") \/ At("oldProv") \/ At("reload") \/ At("enable")
          \/ At("wait")
      BY <1>1, RestorePlace
    <3> QED  BY <3>1 DEF At
  <2> QED  BY <2>1, <2>2, <1>2 DEF DyingEnv
<1> QED  BY RestoreOnly, <1>3, <1>4, <1>5, <1>6, <1>7

\* No step of an upgrade touches data, and those that end it keep the settings.
LEMMA SettingsKept ==
    ASSUME InstallInv, InstallNext PROVE UpgradeKeepsDataAndSettings
<1> DEFINE Kept == \/ SameSettings(disk'.env, cmd.saved.env)
                   \/ /\ said' \in {"cut", "unrestored"}
                      /\ disk'.env \in Cut(cmd.saved.env) \cup Cut(RenderEnvFile(cmd.plan))
           Ending == /\ cmd' = NoCommand /\ cmd.saved # NoBackup
                     /\ OnRecord(cmd.saved.env, cmd.saved.prov)
<1>1. Types /\ DiskTypes
  BY DEF InstallInv, Types
<1>0. DataKept /\ (Ending => Kept) => UpgradeKeepsDataAndSettings
  BY DEF DataKept, UpgradeKeepsDataAndSettings
<1> HIDE DEF Ending
<1>2. CASE InUpgrade
  <2>1. DataKept
    BY <1>1, <1>2, UpgradeKeepsData
  <2>2. ASSUME Ending PROVE Kept
    <3>1. Left \in 1 .. 11 /\ HasMode(cmd.plan) /\ UpgradeAt(Left)
      BY <1>2, <2>2, UpgradePlace DEF InUpgrade, UpgradeAt, Ending
    <3>2. SavedSound /\ disk.env \in {cmd.saved.env, RenderEnvFile(cmd.plan)}
      BY <3>1 DEF UpgradeAt
    <3>3. SameSettings(disk.env, cmd.saved.env)
      BY <3>1, <3>2, <2>2, MeantAlike DEF Ending
    <3>4. disk'.env = disk.env \/ (said' = "cut" /\ disk'.env \in Cut(RenderEnvFile(cmd.plan)))
      BY <3>1, <2>2, <1>1, <1>2, UpgradeEnds DEF Ending
    <3> QED  BY <3>3, <3>4
  <2> QED  BY <2>1, <2>2, <1>0
<1>3. ASSUME NEW moved \in BOOLEAN, InRestore(moved) PROVE UpgradeKeepsDataAndSettings
  <2>1. DataKept
    BY <1>1, <1>3, RestoreKeepsData
  <2>2. ASSUME Ending PROVE Kept
    <3>1. SavedSound /\ HasMode(cmd.plan)
      BY <1>3 DEF InRestore
    <3>2. disk'.env \in {cmd.saved.env, RenderEnvFile(cmd.plan)} => SameSettings(disk'.env, cmd.saved.env)
      BY <3>1, <2>2, MeantAlike DEF Ending
    <3>3. disk'.env \in {cmd.saved.env, RenderEnvFile(cmd.plan)} \cup Halfway
      BY <1>1, <1>3, RestoreLeaves
    <3>4. said' \in {"cut", "unrestored"} \/ disk'.env = cmd.saved.env
      BY <2>2, <1>1, <1>3, RestoreReports DEF Ending
    <3> QED  BY <3>2, <3>3, <3>4 DEF Halfway
  <2> QED  BY <2>1, <2>2, <1>0
<1>4. ASSUME cmd.kind # "upgrade" PROVE UpgradeKeepsDataAndSettings
  BY <1>4 DEF UpgradeKeepsDataAndSettings
<1>5. AtRest \/ InRemoval \/ (\E b \in BOOLEAN : InSetup(b)) => cmd.kind # "upgrade"
  BY DEF AtRest, NoCommand, InRemoval, InSetup
<1> QED  BY <1>2, <1>3, <1>4, <1>5 DEF InstallInv

-----------------------------------------------------------------------------
\* Steps that leave the copies of the binary alone.
LEMMA CopiesLeft ==
    ASSUME disk'.bin = disk.bin, disk'.backup = disk.backup, disk'.aside = disk.aside,
           disk'.stray = disk.stray
    PROVE  LastCopyKept
BY DEF LastCopyKept, Copies

\* A command that dies leaves a copy of the binary, or one that it tore.
LEMMA DiesLeaves == ASSUME DiskTypes, CommandDies PROVE LastCopyKept
<1>1. /\ disk'.bin \in {disk.bin, Torn}
      /\ disk'.stray = disk.stray \cup ({disk.backup, disk.aside} \ {Absent})
  BY DiesKeeps
<1>2. disk'.bin = disk.bin => Copies(disk) \subseteq Copies(disk')
  BY <1>1, NothingThere DEF Copies
<1> QED  BY <1>1, <1>2 DEF LastCopyKept

\* swapInstalledBinary: one of the renames' two ends is always whole.
LEMMA UpgradeKeepsCopy == ASSUME InUpgrade, Types, InstallNext PROVE LastCopyKept
<1>1. /\ UpgradeAt(Left) /\ cmd.target \in Release /\ disk.aside = Absent /\ DiskTypes
      /\ Suffix(cmd.todo, UpgradeSteps)
  BY DEF InUpgrade, Types
<1>2. CASE Capture \/ Stop \/ DaemonReload \/ EnableNow \/ WaitReachable \/ ServiceRestarts
  BY <1>2, CopiesLeft DEF Capture, Stop, DaemonReload, EnableNow, WaitReachable, ServiceRestarts
<1>3. CASE SwapOut
  <2>1. Left = 10
    BY <1>1, <1>3, UpgradePlace DEF SwapOut
  <2>2. disk.backup = Absent
    BY <2>1, <1>1 DEF UpgradeAt
  <2>3. \/ disk' = disk
        \/ /\ disk'.backup = disk.bin /\ disk'.aside = disk.aside /\ disk'.stray = disk.stray
    BY <1>1, <1>3 DEF SwapOut, DiskTypes, DiskFields
  <2>4. Copies(disk) \subseteq Copies(disk')
    BY <2>2, <2>3, NothingThere DEF Copies
  <2> QED  BY <2>4 DEF LastCopyKept
<1>4. CASE SwapIn
  <2>1. Left = 9
    BY <1>1, <1>4, UpgradePlace DEF SwapIn
  <2>2. disk.bin = Absent
    BY <2>1, <1>1 DEF UpgradeAt
  <2>3. /\ disk'.aside = disk.aside
        /\ \/ disk'.bin = cmd.target
           \/ disk'.bin = disk.backup /\ disk'.stray = disk.stray
           \/ disk'.stray = disk.stray \cup {disk.backup}
    BY <1>1, <1>4 DEF SwapIn, DiskTypes, DiskFields
  <2>4. Copies(disk) \subseteq Copies(disk') \/ cmd.target \in Copies(disk')
    BY <2>2, <2>3, <1>1, NothingThere DEF Copies
  <2> QED  BY <2>4 DEF LastCopyKept
<1>5. CASE DropBackup
  <2>1. Left = 1
    BY <1>1, <1>5, UpgradePlace DEF DropBackup
  <2>2. disk.bin = cmd.target
    BY <2>1, <1>1 DEF UpgradeAt
  <2>3. disk'.bin = disk.bin
    BY <1>1, <1>5 DEF DropBackup, DiskTypes, DiskFields
  <2>4. cmd.target \in Copies(disk')
    BY <2>2, <2>3, <1>1 DEF Copies
  <2> QED  BY <2>4 DEF LastCopyKept
<1>6. CASE WriteUnit \/ WriteReceipt
  BY <1>1, <1>6, WriteKeeps, CopiesLeft DEF WriteUnit, WriteReceipt, Managed
<1>7. CASE SaveLifecycleProvenance
  <2>1. PICK value : Write("prov", value)
    BY <1>7, Zenon DEF SaveLifecycleProvenance
  <2> QED  BY <2>1, <1>1, WriteKeeps, CopiesLeft DEF Managed
<1>8. CASE WriteEnv
  BY <1>1, <1>8, WriteEnvKeeps, CopiesLeft
<1>9. CASE Serve
  BY <1>9, ServeTypes, CopiesLeft
<1>10. CASE CommandDies
  BY <1>1, <1>10, DiesLeaves
<1> QED  BY UpgradeOnly, <1>2, <1>3, <1>4, <1>5, <1>6, <1>7, <1>8, <1>9, <1>10

\* While a restore moves the binaries, one of them is whole, or the one rewritten is torn.
LEMMA RestoreKeepsCopy ==
    ASSUME NEW moved \in BOOLEAN, InRestore(moved), Types, InstallNext PROVE LastCopyKept
<1>1. /\ CopiesAt(Left, moved) /\ cmd.target \in Release /\ DiskTypes /\ SavedSound
      /\ Suffix(cmd.todo, RestoreSteps(moved))
  BY DEF InRestore, Types
<1>2. CASE DaemonReload \/ EnableNow \/ WaitReachable \/ ServiceRestarts
  BY <1>2, CopiesLeft DEF DaemonReload, EnableNow, WaitReachable, ServiceRestarts
<1>3. CASE MoveAside
  <2>1. Left = 10
    BY <1>1, <1>3, RestorePlace DEF MoveAside
  <2>2. disk.aside = Absent
    BY <2>1, <1>1 DEF CopiesAt
  <2>3. \/ disk'.aside = disk.bin /\ disk'.backup = disk.backup /\ disk'.stray = disk.stray
        \/ disk'.bin = disk.bin /\ disk'.stray = disk.stray \cup {disk.backup}
    BY <1>1, <1>3 DEF MoveAside, DiskTypes, DiskFields
  <2>4. Copies(disk) \subseteq Copies(disk')
    BY <2>2, <2>3, NothingThere DEF Copies
  <2> QED  BY <2>4 DEF LastCopyKept
<1>4. CASE MoveBack
  <2>1. Left = 9
    BY <1>1, <1>4, RestorePlace DEF MoveBack
  <2>2. disk.bin = Absent
    BY <2>1, <1>1 DEF CopiesAt
  <2>3. \/ disk'.bin = disk.backup /\ disk'.aside = disk.aside /\ disk'.stray = disk.stray
        \/ disk'.bin = disk.aside /\ disk'.stray = disk.stray \cup {disk.backup}
        \/ disk'.stray = disk.stray \cup {disk.backup, disk.aside}
    BY <1>1, <1>4 DEF MoveBack, DiskTypes, DiskFields
  <2>4. Copies(disk) \subseteq Copies(disk')
    BY <2>2, <2>3, NothingThere DEF Copies
  <2> QED  BY <2>4 DEF LastCopyKept
<1>5. CASE CleanAside
  <2>1. Left = 8 /\ moved
    BY <1>1, <1>5, RestorePlace DEF CleanAside
  <2>2. disk.bin = cmd.saved.bin
    BY <2>1, <1>1 DEF CopiesAt
  <2>3. disk'.bin = disk.bin /\ disk.bin \in Release \cup {Torn}
    BY <2>2, <1>1, <1>5 DEF CleanAside, DiskTypes, DiskFields, SavedSound
  <2>4. disk'.bin = Torn \/ disk'.bin \in Copies(disk')
    BY <2>3 DEF Copies
  <2> QED  BY <2>4 DEF LastCopyKept
<1>6. CASE RestoreFile("rewrite", "bin")
  <2>1. Write("bin", cmd.saved.bin)
    BY <1>6 DEF RestoreFile
  <2>2. /\ disk'.bin \in {disk.bin, cmd.saved.bin, Torn} /\ disk'.backup = disk.backup
        /\ disk'.aside = disk.aside /\ disk'.stray = disk.stray
        /\ cmd.saved.bin \in Release \cup {Torn}
    BY <2>1, <1>1, WriteKeeps DEF Managed, SavedSound
  <2>3. CASE disk'.bin = disk.bin
    BY <2>2, <2>3, CopiesLeft
  <2>4. CASE disk'.bin \in Release
    <3>1. disk'.bin \in Copies(disk')
      BY <2>4 DEF Copies
    <3> QED  BY <3>1 DEF LastCopyKept
  <2>5. CASE disk'.bin = Torn
    BY <2>5 DEF LastCopyKept
  <2> QED  BY <2>2, <2>3, <2>4, <2>5
<1>7. CASE \/ RestoreFile("oldEnv", "env") \/ RestoreFile("oldUnit", "unit")
           \/ RestoreFile("oldReceipt", "receipt") \/ RestoreFile("oldProv", "prov")
  <2>1. PICK f \in Managed : f # "bin" /\ Write(f, cmd.saved[f])
    BY <1>7 DEF RestoreFile, Managed
  <2> QED  BY <2>1, <1>1, WriteKeeps, CopiesLeft
<1>8. CASE Serve
  BY <1>8, ServeTypes, CopiesLeft
<1>9. CASE CommandDies
  BY <1>1, <1>9, DiesLeaves
<1> QED  BY RestoreOnly, <1>2, <1>3, <1>4, <1>5, <1>6, <1>7, <1>8, <1>9

\* A setup touches no copy of the binary.
LEMMA SetupKeepsCopy ==
    ASSUME NEW b \in BOOLEAN, InSetup(b), Types, InstallNext PROVE LastCopyKept
<1>1. DiskTypes
  BY DEF Types
<1>2. CASE PreflightBind \/ DaemonReload \/ EnableNow \/ WaitReachable \/ ServiceRestarts
  BY <1>2, CopiesLeft DEF PreflightBind, DaemonReload, EnableNow, WaitReachable, ServiceRestarts
<1>3. CASE CreateDatabase
  <2>1. /\ disk'.bin = disk.bin /\ disk'.backup = disk.backup /\ disk'.aside = disk.aside
        /\ disk'.stray = disk.stray
    BY <1>1, <1>3 DEF CreateDatabase, DiskTypes, DiskFields
  <2> QED  BY <2>1, CopiesLeft
<1>4. CASE WriteUnit \/ WriteReceipt
  BY <1>1, <1>4, WriteKeeps, CopiesLeft DEF WriteUnit, WriteReceipt, Managed
<1>5. CASE SaveLifecycleProvenance
  <2>1. PICK value : Write("prov", value)
    BY <1>5, Zenon DEF SaveLifecycleProvenance
  <2> QED  BY <2>1, <1>1, WriteKeeps, CopiesLeft DEF Managed
<1>6. CASE WriteEnv
  BY <1>1, <1>6, WriteEnvKeeps, CopiesLeft
<1>7. CASE Serve
  BY <1>7, ServeTypes, CopiesLeft
<1>8. CASE CommandDies
  BY <1>1, <1>8, DiesLeaves
<1> QED  BY SetupOnly, <1>2, <1>3, <1>4, <1>5, <1>6, <1>7, <1>8

\* Only uninstall has the binary among its targets.
LEMMA RemovalKeepsCopy == ASSUME InRemoval, Types, InstallNext PROVE LastCopyKept
<1>1. DiskTypes /\ Suffix(cmd.todo, RemovalSteps(cmd.kind))
  BY DEF Types, InRemoval
<1>2. CASE Stop \/ ServiceRestarts
  BY <1>2, CopiesLeft DEF Stop, ServiceRestarts
<1>3. ASSUME NEW f \in DOMAIN DeleteStep, RemovePath(f) PROVE LastCopyKept
  <2>1. f \in {"receipt", "content", "db", "unit", "env", "prov", "bin"}
    BY DEF DeleteStep
  <2>2. CASE f = "bin"
    <3>1. At("deleteBinary")
      BY <2>2, <1>3 DEF RemovePath, DeleteStep
    <3>2. RemovalLeft = 1 /\ (cmd.kind # "uninstall" => RemovalLeft >= 3)
      BY <3>1, <1>1, RemovalPlace
    <3>3. cmd.kind = "uninstall"
      BY <3>2
    <3> QED  BY <3>3 DEF LastCopyKept
  <2>3. CASE f # "bin"
    <3>1. /\ disk'.bin = disk.bin /\ disk'.backup = disk.backup /\ disk'.aside = disk.aside
          /\ disk'.stray = disk.stray
      BY <2>1, <2>3, <1>1, <1>3 DEF RemovePath, DiskTypes, DiskFields
    <3> QED  BY <3>1, CopiesLeft
  <2> QED  BY <2>2, <2>3
<1>4. CASE Serve
  BY <1>4, ServeTypes, CopiesLeft
<1>5. CASE CommandDies
  BY <1>1, <1>5, DiesLeaves
<1> QED  BY RemovalOnly, <1>2, <1>3, <1>4, <1>5

(* swapInstalledBinary, restoreManagedRuntimeBackup, loadInstalledIntent:  *)
(* no command that fails or dies takes the last whole binary off the host, *)
(* and no upgrade the data.  The settings mean after it what they meant    *)
(* before where regixtry.env was on record, unless the upgrade died or its *)
(* rollback failed while that file was written: then its beginning is left.*)
THEOREM NothingEverLost == InstallSpec => NothingLost
<1>1. InstallInv /\ [InstallNext]_installVars =>
          [LastCopyKept /\ UpgradeKeepsDataAndSettings]_installVars
  <2> SUFFICES ASSUME InstallInv, InstallNext PROVE LastCopyKept /\ UpgradeKeepsDataAndSettings
    OBVIOUS
  <2>1. Types
    BY DEF InstallInv, Types
  <2>2. ASSUME AtRest PROVE LastCopyKept
    BY <2>1, <2>2, IdleReports, CopiesLeft
  <2>3. LastCopyKept
    BY <2>1, <2>2, UpgradeKeepsCopy, RestoreKeepsCopy, SetupKeepsCopy, RemovalKeepsCopy DEF InstallInv
  <2> QED  BY <2>3, SettingsKept
<1> QED  BY <1>1, InstallInvHolds, PTL DEF InstallSpec, NothingLost
=============================================================================
