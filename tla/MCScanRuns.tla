----------------------------- MODULE MCScanRuns -----------------------------
(***************************************************************************)
(* Instances of ScanRuns alone for TLC.                                    *)
(***************************************************************************)
EXTENDS ScanRuns
=============================================================================
