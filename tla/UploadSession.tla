--------------------------- MODULE UploadSession ---------------------------
(***************************************************************************)
(* Blob uploads: the files of an upload (uploads/<id>/data, state.json),   *)
(* the blobs they become, the uploads row, and the requests on them.       *)
(*                                                                         *)
(*   internal/app/regixtry/service.go, queries.go   the requests           *)
(*   internal/infra/storage/fsblob/store.go         the files              *)
(*   internal/infra/metadata/sqlite/store.go        the uploads table      *)
(*                                                                         *)
(* Nothing serialises the requests on one upload.  A data file is an inode *)
(* that the rename moves and that an open descriptor keeps reaching, so it *)
(* is named after the upload that created it wherever it is.  SHA-256 is   *)
(* taken to be injective: the digest of a file is its content.             *)
(***************************************************************************)
EXTENDS Naturals, Sequences

CONSTANTS
    Upload,   \* upload ids
    Req,      \* concurrent requests
    Piece,    \* what one write(2) of io.Copy appends
    NoUpload,
    MaxLen,   \* bound: pieces in a data file
    MaxBody   \* bound: pieces in a request body

ASSUME UploadSessionAssumption ==
    /\ NoUpload \notin Upload
    /\ MaxLen \in Nat /\ MaxBody \in Nat

Content == UNION {[1..n -> Piece] : n \in 0..MaxLen}
Body == UNION {[1..n -> Piece] : n \in 0..MaxBody}
Digest == Content
NoRow == MaxLen + 1   \* there is no uploads row

VARIABLES
    content,   \* the bytes of each data file, wherever it is
    data,      \* uploads whose data file is at uploads/<id>/data
    state,     \* state.json of each upload
    blob,      \* the inode at blobs/sha256/<digest>
    row,       \* the size in the uploads row, or NoRow
    used,      \* ids handed out by newUploadID
    req,       \* requests in flight
    (* What happened, for the properties only. *)
    overlapped, \* uploads that two requests worked on at once
    clean,      \* uploads whose last request succeeded
    acked,      \* digests of which a client was told 201
    cut         \* uploads that a request left half way through two file operations

vars == <<content, data, state, blob, row, used, req, overlapped, clean, acked, cut>>

Pc == {"idle", "open", "copy", "stat", "truncate", "write", "save", "hash", "rename",
       "remove", "deleteRow"}
Kind == {"begin", "append", "complete", "status"}
Request == [pc : Pc, kind : Kind \cup {"none"}, up : Upload \cup {NoUpload},
            body : Body, digest : Digest, size : 0..MaxLen]
Idle == [pc |-> "idle", kind |-> "none", up |-> NoUpload, body |-> <<>>, digest |-> <<>>,
         size |-> 0]

(* Files, rows and requests are of their kind, and no step is taken on an  *)
(* upload that was not handed out.                                         *)
TypeOK ==
    /\ content \in [Upload -> Content]
    /\ data \subseteq used
    /\ state \in [Upload -> {"none", "torn", "ok"}]
    /\ blob \in [Digest -> used \cup {NoUpload}]
    /\ row \in [Upload -> 0..NoRow]
    /\ used \subseteq Upload
    /\ req \in [Req -> Request]
    /\ overlapped \subseteq used /\ clean \subseteq used /\ cut \subseteq used
    /\ acked \subseteq Digest

Init ==
    /\ content = [u \in Upload |-> <<>>]
    /\ data = {}
    /\ state = [u \in Upload |-> "none"]
    /\ blob = [d \in Digest |-> NoUpload]
    /\ row = [u \in Upload |-> NoRow]
    /\ used = {}
    /\ req = [q \in Req |-> Idle]
    /\ overlapped = {} /\ clean = {} /\ acked = {} /\ cut = {}

files == <<content, data, state, blob>>
history == <<overlapped, clean, acked, cut>>

Goto(q, pc) == req' = [req EXCEPT ![q].pc = pc]
Busy(u) == \E q \in Req : req[q].up = u

\* state.json is truncated and not written, or the data file is a blob and the
\* rest of the upload still there.
Halfway(q) == req[q].pc \in {"write", "remove", "deleteRow"}

\* A request ends: with an error, or with what its client asked for.
Failed(q) ==
    /\ req' = [req EXCEPT ![q] = Idle]
    /\ clean' = clean \ {req[q].up}
    /\ cut' = IF Halfway(q) THEN cut \cup {req[q].up} ELSE cut
    /\ UNCHANGED <<overlapped, acked>>

Done(q) ==
    /\ req' = [req EXCEPT ![q] = Idle]
    /\ clean' = clean \cup {req[q].up}
    /\ UNCHANGED <<overlapped, cut>>

-----------------------------------------------------------------------------
(***************************************************************************)
(* A request starts.  BeginUpload creates the directory, the empty data    *)
(* file and state.json under an id nobody knows yet.  Every other request  *)
(* first finds the uploads row (ensureUpload), or answers 404.             *)
(***************************************************************************)
BeginUpload(q, u) ==
    /\ req[q].pc = "idle" /\ u \notin used
    /\ used' = used \cup {u}
    /\ data' = data \cup {u}
    /\ state' = [state EXCEPT ![u] = "ok"]
    /\ req' = [req EXCEPT ![q] = [Idle EXCEPT !.pc = "save", !.kind = "begin", !.up = u]]
    /\ UNCHANGED <<content, blob, row, history>>

EnsureUpload_NoLookup(q, u, kind, body, digest) ==  \* mutant: the row is not looked up
    /\ req[q].pc = "idle"
    /\ req' = [req EXCEPT ![q] =
                 [pc |-> IF kind = "status" THEN "stat" ELSE "open", kind |-> kind,
                  up |-> u, body |-> body, digest |-> digest, size |-> 0]]
    /\ overlapped' = IF Busy(u) THEN overlapped \cup {u} ELSE overlapped
    /\ UNCHANGED <<files, row, used, clean, acked, cut>>

EnsureUpload(q, u, kind, body, digest) ==
    /\ req[q].pc = "idle" /\ row[u] # NoRow
    /\ req' = [req EXCEPT ![q] =
                 [pc |-> IF kind = "status" THEN "stat" ELSE "open", kind |-> kind,
                  up |-> u, body |-> body, digest |-> digest, size |-> 0]]
    /\ overlapped' = IF Busy(u) THEN overlapped \cup {u} ELSE overlapped
    /\ UNCHANGED <<files, row, used, clean, acked, cut>>

-----------------------------------------------------------------------------
(***************************************************************************)
(* PutUploadChunk: open for append, copy the body piece by piece, stat the *)
(* file, rewrite state.json (truncate, then write).  The descriptor stays  *)
(* good when the file is renamed to its blob.                              *)
(***************************************************************************)
OpenData(q) ==
    /\ req[q].pc = "open"
    /\ IF req[q].up \in data THEN Goto(q, "copy") /\ UNCHANGED history ELSE Failed(q)
    /\ UNCHANGED <<files, row, used>>

CopyPiece(q) ==
    LET r == req[q] IN
    /\ r.pc = "copy" /\ r.body # <<>> /\ Len(content[r.up]) < MaxLen
    /\ content' = [content EXCEPT ![r.up] = Append(@, Head(r.body))]
    /\ req' = [req EXCEPT ![q].body = Tail(@)]
    /\ UNCHANGED <<data, state, blob, row, used, history>>

CopyEnd(q) ==
    /\ req[q].pc = "copy" /\ req[q].body = <<>>
    /\ Goto(q, "stat")
    /\ UNCHANGED <<files, row, used, history>>

\* GetUpload: read state.json, stat the data file.
StatUpload(q) ==
    LET r == req[q] IN
    /\ r.pc = "stat"
    /\ IF state[r.up] = "ok" /\ r.up \in data
       THEN /\ req' = [req EXCEPT ![q].pc = IF r.kind = "status" THEN "save" ELSE "truncate",
                                  ![q].size = Len(content[r.up])]
            /\ UNCHANGED history
       ELSE Failed(q)
    /\ UNCHANGED <<files, row, used>>

TruncateState(q) ==
    LET u == req[q].up IN
    /\ req[q].pc = "truncate"
    /\ IF state[u] = "none"  \* the directory is gone
       THEN Failed(q) /\ UNCHANGED state
       ELSE Goto(q, "write") /\ state' = [state EXCEPT ![u] = "torn"] /\ UNCHANGED history
    /\ UNCHANGED <<content, data, blob, row, used>>

WriteState(q) ==
    LET u == req[q].up IN
    /\ req[q].pc = "write"
    /\ state' = [state EXCEPT ![u] = IF @ = "none" THEN "none" ELSE "ok"]
    /\ Goto(q, "save")
    /\ UNCHANGED <<content, data, blob, row, used, history>>

\* SaveUpload upserts the row; it does not ask whether the upload is still there.
SaveUpload_KeepsSize(q) ==  \* mutant: the size is missing from DO UPDATE SET
    LET r == req[q] IN
    /\ r.pc = "save"
    /\ row' = [row EXCEPT ![r.up] = IF @ = NoRow THEN r.size ELSE @]
    /\ IF r.kind = "complete" THEN Goto(q, "hash") /\ UNCHANGED history
       ELSE Done(q) /\ UNCHANGED acked
    /\ UNCHANGED <<files, used>>

SaveUpload(q) ==
    LET r == req[q] IN
    /\ r.pc = "save"
    /\ row' = [row EXCEPT ![r.up] = r.size]
    /\ IF r.kind = "complete" THEN Goto(q, "hash") /\ UNCHANGED history
       ELSE Done(q) /\ UNCHANGED acked
    /\ UNCHANGED <<files, used>>

-----------------------------------------------------------------------------
(***************************************************************************)
(* CommitUpload, then DeleteUpload.  The PUT of the router always has a    *)
(* body, perhaps empty, so a completion has been through PutUploadChunk.   *)
(***************************************************************************)
HashData_Trusting(q) ==  \* mutant: the client's digest is taken as it is
    /\ req[q].pc = "hash"
    /\ IF req[q].up \in data THEN Goto(q, "rename") /\ UNCHANGED history ELSE Failed(q)
    /\ UNCHANGED <<files, row, used>>

HashData_Discards(q) ==  \* mutant: what does not have the digest is removed
    LET r == req[q] IN
    /\ r.pc = "hash"
    /\ IF r.up \in data /\ content[r.up] = r.digest
       THEN Goto(q, "rename") /\ UNCHANGED <<history, data, state>>
       ELSE Failed(q) /\ data' = data \ {r.up} /\ state' = [state EXCEPT ![r.up] = "none"]
    /\ UNCHANGED <<content, blob, row, used>>

HashData(q) ==
    LET r == req[q] IN
    /\ r.pc = "hash"
    /\ IF r.up \in data /\ content[r.up] = r.digest
       THEN Goto(q, "rename") /\ UNCHANGED history
       ELSE Failed(q)
    /\ UNCHANGED <<files, row, used>>

\* A rename that fails is forgiven if the blob is there.
Rename_Forgiving(q) ==  \* mutant: a rename that fails is always forgiven
    LET r == req[q] IN
    /\ r.pc = "rename" /\ Goto(q, "remove")
    /\ IF r.up \in data
       THEN blob' = [blob EXCEPT ![r.digest] = r.up] /\ data' = data \ {r.up}
       ELSE UNCHANGED <<blob, data>>
    /\ UNCHANGED <<content, state, row, used, history>>

Rename(q) ==
    LET r == req[q] IN
    /\ r.pc = "rename"
    /\ \/ /\ r.up \in data
          /\ blob' = [blob EXCEPT ![r.digest] = r.up]
          /\ data' = data \ {r.up}
          /\ Goto(q, "remove") /\ UNCHANGED history
       \/ /\ r.up \notin data /\ blob[r.digest] # NoUpload
          /\ Goto(q, "remove") /\ UNCHANGED <<blob, data, history>>
       \/ /\ r.up \notin data /\ blob[r.digest] = NoUpload
          /\ Failed(q) /\ UNCHANGED <<blob, data>>
    /\ UNCHANGED <<content, state, row, used>>

RemoveAll(q) ==
    LET u == req[q].up IN
    /\ req[q].pc = "remove"
    /\ state' = [state EXCEPT ![u] = "none"]
    /\ data' = data \ {u}
    /\ Goto(q, "deleteRow")
    /\ UNCHANGED <<content, blob, row, used, history>>

DeleteUpload(q) ==
    LET r == req[q] IN
    /\ r.pc = "deleteRow"
    /\ IF row[r.up] = NoRow
       THEN Failed(q)  \* no row was affected: 404, although the blob is there
       ELSE Done(q) /\ acked' = acked \cup {r.digest}
    /\ row' = [row EXCEPT ![r.up] = NoRow]
    /\ UNCHANGED <<files, used>>

\* A call fails or the client goes away; what was done so far stays.
RequestFails(q) ==
    /\ req[q].pc # "idle"
    /\ Failed(q)
    /\ UNCHANGED <<files, row, used>>

\* The process dies with the requests in flight; files and rows stay.
Crash ==
    /\ \E q \in Req : req[q].pc # "idle"
    /\ req' = [q \in Req |-> Idle]
    /\ clean' = {u \in clean : ~Busy(u)}
    /\ cut' = cut \cup {req[q].up : q \in {p \in Req : Halfway(p)}}
    /\ UNCHANGED <<files, row, used, overlapped, acked>>

Step(q) ==
    \/ OpenData(q) \/ CopyPiece(q) \/ CopyEnd(q) \/ StatUpload(q) \/ TruncateState(q)
    \/ WriteState(q) \/ SaveUpload(q) \/ HashData(q) \/ Rename(q) \/ RemoveAll(q)
    \/ DeleteUpload(q) \/ RequestFails(q)

Start(q) ==
    \E u \in Upload :
       \/ BeginUpload(q, u)
       \/ EnsureUpload(q, u, "status", <<>>, <<>>)
       \/ \E b \in Body : \/ EnsureUpload(q, u, "append", b, <<>>)
                          \/ \E d \in Digest : EnsureUpload(q, u, "complete", b, d)

Next == Crash \/ \E q \in Req : Start(q) \/ Step(q)

Spec == Init /\ [][Next]_vars

-----------------------------------------------------------------------------
(***************************************************************************)
(* Properties.                                                             *)
(***************************************************************************)
Intact(d) == blob[d] # NoUpload => content[blob[d]] = d

(* CommitUpload: as long as the requests on an upload come one after the   *)
(* other, whatever fails or crashes between and whatever other uploads do, *)
(* the blob it becomes holds the bytes its digest names.                   *)
IntactUnlessOverlapped ==
    \A d \in Digest : Intact(d) \/ blob[d] \in overlapped

(* CompleteUpload: a client that was told 201 has its blob in the store,   *)
(* also where two completions of one upload race for the rename.           *)
AckedPresent == \A d \in acked : blob[d] # NoUpload

(* SaveUpload and DeleteUpload: when an upload is quiet, its requests came *)
(* one after the other and the last one succeeded, its row has the size of *)
(* its file and there is no row without a file, although files and rows    *)
(* are written separately and earlier requests may have failed half way.   *)
RowFollowsFile ==
    \A u \in clean \ overlapped :
       ~Busy(u) => row[u] = IF u \in data THEN Len(content[u]) ELSE NoRow

(* writeUploadState, CommitUpload: an upload that is quiet and still has   *)
(* its row can be continued, however often its requests failed, with a     *)
(* wrong digest too.  The exception is one that failed or died inside      *)
(* os.WriteFile or between the rename and DeleteUpload: every later        *)
(* request on it fails for good.                                           *)
UsableUnlessCut ==
    \A u \in Upload \ (overlapped \cup cut) :
       row[u] # NoRow /\ ~Busy(u) => u \in data /\ state[u] = "ok"

(* Both together: what an upload nobody is working on looks like.          *)
QuietIsSound == RowFollowsFile /\ UsableUnlessCut
=============================================================================
