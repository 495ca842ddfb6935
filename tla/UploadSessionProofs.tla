------------------------ MODULE UploadSessionProofs ------------------------
(***************************************************************************)
(* Theorems about UploadSession, for any number of uploads and concurrent  *)
(* requests, and files and bodies of any bounded length.                   *)
(*                                                                         *)
(* The argument.  A request works on the files and the row of its own      *)
(* upload only, so what one request finds is disturbed by another one only *)
(* if both are on the same upload, and then the upload is overlapped.  As  *)
(* long as it is not, each request knows at every line what the lines      *)
(* before it have left behind (Found), and the properties follow from what *)
(* the last line of a request leaves.                                      *)
(***************************************************************************)
EXTENDS UploadSession, SequenceTheorems, TLAPS

-----------------------------------------------------------------------------
(***************************************************************************)
(* The inductive invariant.                                                *)
(***************************************************************************)

\* Requests are on uploads that were handed out; the others are untouched.
HandedOut ==
    /\ \A q \in Req : req[q] = Idle \/ (req[q].pc # "idle" /\ req[q].up \in used)
    /\ \A u \in Upload \ used : content[u] = <<>> /\ row[u] = NoRow

\* A data file is at one place, and a request past the rename has its blob.
OneInode == \A u \in data, d \in Digest : blob[d] # u

Committed ==
    \A q \in Req : req[q].pc \in {"remove", "deleteRow"} => blob[req[q].digest] # NoUpload

\* Two requests are on one upload only if it is overlapped.
Alone ==
    \A p, q \in Req :
        req[p].up = req[q].up /\ req[p].up \in Upload \ overlapped => p = q

\* What a request knows of its upload, if it is alone on it.
Found(r) ==
    LET u == r.up IN
    u \in Upload \ overlapped =>
        /\ r.pc \in {"copy", "truncate", "write", "save", "rename"} => u \in data
        /\ r.pc \in {"truncate", "write", "save"} => r.size = Len(content[u])
        /\ r.pc = "write" => state[u] = "torn"
        /\ r.pc = "save" => state[u] = "ok"
        /\ r.pc = "rename" => content[u] = r.digest
        /\ r.pc = "deleteRow" => u \notin data

\* An upload that is not half way through two file operations can be continued.
UsableBetween ==
    \A u \in Upload \ (overlapped \cup cut) :
        row[u] # NoRow /\ (\A q \in Req : req[q].up = u => ~Halfway(q))
            => u \in data /\ state[u] = "ok"

IInv == /\ TypeOK
        /\ HandedOut /\ OneInode /\ Committed /\ Alone
        /\ \A q \in Req : Found(req[q])
        /\ UsableBetween /\ RowFollowsFile
        /\ IntactUnlessOverlapped /\ AckedPresent

-----------------------------------------------------------------------------
(***************************************************************************)
(* Operators.                                                              *)
(***************************************************************************)

(* Sequences of bounded length, as they are written in Content and Body.   *)
LEMMA BoundedSequences ==
    ASSUME NEW S, NEW m \in Nat
    PROVE  \A c : c \in UNION {[1..n -> S] : n \in 0..m} <=> c \in Seq(S) /\ Len(c) <= m
<1>1. ASSUME NEW n \in 0..m, NEW c \in [1..n -> S]
      PROVE  c \in Seq(S) /\ Len(c) <= m
  <2>1. n \in Nat /\ n <= m /\ \A i \in 1..n : c[i] \in S
    OBVIOUS
  <2>2. c \in Seq(S) /\ Len(c) = n
    BY <2>1
  <2> QED
    BY <2>1, <2>2
<1>2. ASSUME NEW c \in Seq(S), Len(c) <= m
      PROVE  \E n \in 0..m : c \in [1..n -> S]
  <2>1. Len(c) \in 0..m /\ c \in [1..Len(c) -> S]
    BY <1>2, LenProperties
  <2> QED
    BY <2>1
<1> QED
  BY <1>1, <1>2

(* A piece is written to a data file and taken from a body.                *)
LEMMA PieceCopied ==
    /\ <<>> \in Content /\ <<>> \in Body
    /\ \A c \in Content : Len(c) \in 0..MaxLen
    /\ \A c \in Content, b \in Body : b # <<>> =>
         /\ Tail(b) \in Body
         /\ Len(c) < MaxLen => Append(c, Head(b)) \in Content
<1>1. \A c : c \in Content <=> c \in Seq(Piece) /\ Len(c) <= MaxLen
  BY BoundedSequences, UploadSessionAssumption DEF Content
<1>2. \A c : c \in Body <=> c \in Seq(Piece) /\ Len(c) <= MaxBody
  BY BoundedSequences, UploadSessionAssumption DEF Body
<1>3. <<>> \in Content /\ <<>> \in Body
  <2>1. <<>> \in Seq(Piece) /\ Len(<<>>) <= MaxLen /\ Len(<<>>) <= MaxBody
    BY UploadSessionAssumption
  <2> QED
    BY <1>1, <1>2, <2>1, Zenon
<1>4. ASSUME NEW c \in Content
      PROVE  c \in Seq(Piece) /\ Len(c) \in 0..MaxLen
  BY <1>1, LenProperties, UploadSessionAssumption
<1>5. ASSUME NEW b \in Body, b # <<>>
      PROVE  Head(b) \in Piece /\ Tail(b) \in Body
  <2>1. b \in Seq(Piece) /\ Len(b) <= MaxBody /\ Len(b) \in Nat
    BY <1>2, LenProperties
  <2>2. Head(b) \in Piece /\ Tail(b) \in Seq(Piece) /\ Len(Tail(b)) = Len(b) - 1
    BY <1>5, <2>1, HeadTailProperties
  <2>3. Len(Tail(b)) <= MaxBody
    BY <2>1, <2>2, UploadSessionAssumption
  <2> QED
    BY <1>2, <2>2, <2>3, Zenon
<1>6. ASSUME NEW c \in Content, Len(c) < MaxLen, NEW x \in Piece
      PROVE  Append(c, x) \in Content
  <2>1. Append(c, x) \in Seq(Piece) /\ Len(Append(c, x)) = Len(c) + 1
    BY <1>4, AppendProperties
  <2>2. Len(Append(c, x)) <= MaxLen
    BY <1>4, <1>6, <2>1, UploadSessionAssumption
  <2> QED
    BY <1>1, <2>1, <2>2, Zenon
<1> QED
  BY <1>3, <1>4, <1>5, <1>6

(* The upload of a request at work, and the idle request.                  *)
LEMMA RequestTypes ==
    /\ Idle \in Request /\ Idle.pc = "idle" /\ Idle.up = NoUpload /\ NoUpload \notin Upload
    /\ NoRow \in 0..NoRow /\ 0..MaxLen \subseteq 0..NoRow /\ NoRow \notin 0..MaxLen
BY PieceCopied, UploadSessionAssumption DEF Idle, Request, Pc, Digest, NoRow

-----------------------------------------------------------------------------
(***************************************************************************)
(* One step of a request touches what belongs to its own upload.           *)
(***************************************************************************)
Works(q) ==
    LET u == req[q].up IN
    /\ \A p \in Req \ {q} : req'[p] = req[p]
    /\ \A v \in Upload \ {u} :
         /\ content'[v] = content[v] /\ state'[v] = state[v] /\ row'[v] = row[v]
         /\ v \in data' <=> v \in data
         /\ v \in clean' <=> v \in clean
         /\ v \in cut' <=> v \in cut
    /\ \A d \in Digest : blob'[d] = blob[d] \/ blob'[d] = u
    /\ UNCHANGED <<used, overlapped>>

\* What the step of request q has to establish for its upload u.
Leaves(q, u) ==
    /\ req'[q] = Idle \/ (req'[q].pc # "idle" /\ req'[q].up = u)
    /\ Found(req[q])'
    /\ req'[q].pc \in {"remove", "deleteRow"} => blob'[req'[q].digest] # NoUpload
    /\ u \notin overlapped /\ u \notin cut' /\ row'[u] # NoRow
         /\ req'[q].pc \notin {"write", "remove", "deleteRow"} => u \in data' /\ state'[u] = "ok"
    /\ u \in clean' /\ u \notin overlapped /\ req'[q] = Idle =>
         row'[u] = IF u \in data' THEN Len(content'[u]) ELSE NoRow
    /\ \A d \in Digest : blob'[d] = u =>
         u \notin data' /\ (content'[u] = d \/ u \in overlapped)
    /\ \A d \in acked' : blob'[d] # NoUpload

(* Then the invariant holds of all uploads.                                *)
LEMMA WorkKeeps ==
    ASSUME IInv, NEW q \in Req, req[q].pc # "idle", TypeOK', Works(q), Leaves(q, req[q].up)
    PROVE  IInv'
<1> DEFINE u == req[q].up
<1>0. /\ u \in used /\ u \in Upload /\ used \subseteq Upload /\ u # NoUpload
      /\ blob \in [Digest -> used \cup {NoUpload}] /\ data \subseteq used
  BY RequestTypes DEF IInv, HandedOut, TypeOK
<1>1. req'[q] = Idle \/ (req'[q].pc # "idle" /\ req'[q].up = u)
  BY DEF Leaves
<1>2. HandedOut'
  BY <1>0, <1>1 DEF IInv, HandedOut, Works
<1>3. OneInode'
  <2> SUFFICES ASSUME NEW v \in data', NEW d \in Digest, blob'[d] = v
               PROVE  FALSE
    BY DEF OneInode
  <2>1. v # u
    BY DEF Leaves
  <2>2. v \in Upload
    BY DEF TypeOK
  <2>3. v \in data /\ blob[d] = v
    BY <2>1, <2>2 DEF Works
  <2> QED
    BY <2>3 DEF IInv, OneInode
<1>4. Committed'
  <2> SUFFICES ASSUME NEW p \in Req, req'[p].pc \in {"remove", "deleteRow"}
               PROVE  blob'[req'[p].digest] # NoUpload
    BY DEF Committed
  <2>1. CASE p = q
    BY <2>1 DEF Leaves
  <2>2. CASE p # q
    <3>1. req'[p] = req[p] /\ blob[req[p].digest] # NoUpload /\ req[p].digest \in Digest
      BY <2>2 DEF Works, IInv, Committed, TypeOK, Request
    <3> QED
      BY <1>0, <3>1 DEF Works
  <2> QED
    BY <2>1, <2>2
<1>5. Alone'
  BY <1>0, <1>1, RequestTypes DEF IInv, Alone, Works
<1>6. \A p \in Req : Found(req[p])'
  <2> SUFFICES ASSUME NEW p \in Req, p # q, req'[p].up \in Upload \ overlapped
               PROVE  Found(req[p])'
    BY DEF Leaves, Found, Works
  <2>1. req'[p] = req[p] /\ req[p].up \in Upload \ overlapped /\ Found(req[p])
    BY DEF Works, IInv
  <2>2. req[p].up # u
    BY <1>0, <2>1 DEF IInv, Alone
  <2> QED
    BY <2>1, <2>2 DEF Found, Works
<1>7. UsableBetween'
  <2> SUFFICES ASSUME NEW v \in Upload, v \notin overlapped, v \notin cut', row'[v] # NoRow,
                      \A p \in Req : req'[p].up = v => ~Halfway(p)'
               PROVE  v \in data' /\ state'[v] = "ok"
    BY DEF UsableBetween, Works
  <2>1. CASE v = u
    <3>1. req'[q].pc \notin {"write", "remove", "deleteRow"}
      BY <1>1, <2>1, RequestTypes DEF Halfway
    <3> QED
      BY <2>1, <3>1 DEF Leaves
  <2>2. CASE v # u
    <3>1. \A p \in Req : req[p].up = v => ~Halfway(p)
      BY <2>2 DEF Works, Halfway
    <3> QED
      BY <2>2, <3>1 DEF IInv, UsableBetween, Works
  <2> QED
    BY <2>1, <2>2
<1>8. RowFollowsFile'
  <2> SUFFICES ASSUME NEW v \in clean', v \notin overlapped, ~Busy(v)'
               PROVE  row'[v] = IF v \in data' THEN Len(content'[v]) ELSE NoRow
    BY DEF RowFollowsFile, Works
  <2>1. v \in Upload
    BY DEF TypeOK
  <2>2. CASE v = u
    BY <1>1, <2>2 DEF Leaves, Busy
  <2>3. CASE v # u
    <3>1. v \in clean /\ ~Busy(v)
      BY <2>1, <2>3 DEF Works, Busy
    <3> QED
      BY <2>1, <2>3, <3>1 DEF IInv, RowFollowsFile, Works
  <2> QED
    BY <2>2, <2>3
<1>9. IntactUnlessOverlapped'
  <2> SUFFICES ASSUME NEW d \in Digest, blob'[d] # NoUpload, blob'[d] \notin overlapped
               PROVE  content'[blob'[d]] = d
    BY DEF IntactUnlessOverlapped, Intact, Works
  <2>1. CASE blob'[d] = u
    BY <2>1 DEF Leaves
  <2>2. CASE blob'[d] # u
    <3>1. blob'[d] = blob[d] /\ blob[d] \in Upload
      BY <1>0, <2>2 DEF Works
    <3> QED
      BY <2>2, <3>1 DEF IInv, IntactUnlessOverlapped, Intact, Works
  <2> QED
    BY <2>1, <2>2
<1>10. AckedPresent'
  BY DEF Leaves, AckedPresent
<1> QED
  BY <1>2, <1>3, <1>4, <1>5, <1>6, <1>7, <1>8, <1>9, <1>10 DEF IInv

(* What a request at work may rely on.                                     *)
LEMMA AtWork ==
    ASSUME IInv, NEW q \in Req, req[q].pc # "idle"
    PROVE  LET u == req[q].up IN
           /\ u \in used /\ u \in Upload /\ req[q] \in Request /\ Found(req[q])
           /\ u \notin overlapped /\ u \notin cut /\ row[u] # NoRow /\ ~Halfway(q) =>
                u \in data /\ state[u] = "ok"
           /\ \A d \in Digest : blob[d] = u =>
                u \notin data /\ (content[u] = d \/ u \in overlapped)
           /\ \A d \in acked : blob[d] # NoUpload
<1> DEFINE u == req[q].up
<1>1. u \in used /\ u \in Upload /\ u # NoUpload /\ req[q] \in Request /\ Found(req[q])
  BY RequestTypes DEF IInv, HandedOut, TypeOK
<1>2. ASSUME u \notin overlapped, u \notin cut, row[u] # NoRow, ~Halfway(q)
      PROVE  u \in data /\ state[u] = "ok"
  <2>1. \A p \in Req : req[p].up = u => p = q
    BY <1>1, <1>2 DEF IInv, Alone
  <2> QED
    BY <1>1, <1>2, <2>1 DEF IInv, UsableBetween
<1>3. \A d \in Digest : blob[d] = u => u \notin data /\ (content[u] = d \/ u \in overlapped)
  BY <1>1 DEF IInv, OneInode, IntactUnlessOverlapped, Intact
<1> QED
  BY <1>1, <1>2, <1>3 DEF IInv, AckedPresent

(* A request ends with an error.                                           *)
LEMMA FailKeeps ==
    ASSUME IInv, NEW q \in Req, req[q].pc # "idle",
           Failed(q), UNCHANGED <<content, data, state, blob, row, used>>
    PROVE  IInv'
<1> DEFINE u == req[q].up
<1>1. /\ req' = [req EXCEPT ![q] = Idle] /\ clean' = clean \ {u}
      /\ cut' = (IF Halfway(q) THEN cut \cup {u} ELSE cut)
      /\ UNCHANGED <<overlapped, acked>>
  BY DEF Failed
<1>2. req'[q] = Idle /\ req' \in [Req -> Request]
  BY <1>1, RequestTypes DEF IInv, TypeOK
<1>3. TypeOK'
  BY <1>1, <1>2, AtWork DEF IInv, TypeOK
<1>4. Works(q)
  BY <1>1 DEF Works, IInv, TypeOK
<1>5. Leaves(q, u)
  BY <1>1, <1>2, AtWork, RequestTypes DEF Leaves, Found
<1> QED
  BY <1>3, <1>4, <1>5, WorkKeeps

(* The pc of a request moves on, and nothing else.                         *)
LEMMA GotoFields ==
    ASSUME req \in [Req -> Request], NEW q \in Req, NEW x \in Pc, Goto(q, x)
    PROVE  /\ req' \in [Req -> Request] /\ \A p \in Req \ {q} : req'[p] = req[p]
           /\ req'[q].pc = x /\ req'[q].up = req[q].up /\ req'[q].size = req[q].size
           /\ req'[q].digest = req[q].digest /\ req'[q].kind = req[q].kind
<1>1. req[q] \in Request /\ [req[q] EXCEPT !.pc = x] \in Request
  BY DEF Request
<1> QED
  BY <1>1 DEF Goto, Request

(* PutUploadChunk: open, copy, stat.                                       *)
LEMMA OpenDataInv == ASSUME IInv, NEW q \in Req, OpenData(q) PROVE IInv'
<1> DEFINE u == req[q].up
<1>0. req[q].pc = "open" /\ req \in [Req -> Request] /\ "copy" \in Pc
  BY DEF OpenData, IInv, TypeOK, Pc
<1>1. CASE u \in data
  <2>1. Goto(q, "copy") /\ UNCHANGED <<content, data, state, blob, row, used, overlapped,
                                       clean, acked, cut>>
    BY <1>1 DEF OpenData, files, history
  <2>2. /\ req' \in [Req -> Request] /\ \A p \in Req \ {q} : req'[p] = req[p]
        /\ req'[q].pc = "copy" /\ req'[q].up = u
    BY <1>0, <2>1, GotoFields
  <2>3. TypeOK'
    BY <2>1, <2>2 DEF IInv, TypeOK
  <2>4. Works(q)
    BY <2>1, <2>2 DEF Works
  <2>5. Leaves(q, u)
    BY <1>0, <1>1, <2>1, <2>2, AtWork, RequestTypes DEF Leaves, Found, Halfway
  <2> QED
    BY <1>0, <2>3, <2>4, <2>5, WorkKeeps
<1>2. CASE u \notin data
  BY <1>0, <1>2, FailKeeps DEF OpenData, files
<1> QED
  BY <1>1, <1>2

(* One more piece of the body is written.                                  *)
LEMMA CopyPieceInv == ASSUME IInv, NEW q \in Req, CopyPiece(q) PROVE IInv'
<1> DEFINE u == req[q].up
           c == Append(content[u], Head(req[q].body))
           b == Tail(req[q].body)
<1>0. /\ req[q].pc = "copy" /\ req[q].body # <<>> /\ Len(content[u]) < MaxLen
      /\ content' = [content EXCEPT ![u] = c] /\ req' = [req EXCEPT ![q].body = b]
      /\ UNCHANGED <<data, state, blob, row, used, overlapped, clean, acked, cut>>
  BY DEF CopyPiece, history
<1>1. /\ u \in Upload /\ content[u] \in Content /\ req[q].body \in Body
      /\ req \in [Req -> Request] /\ req[q] \in Request
  BY <1>0, AtWork DEF IInv, TypeOK, Request
<1>2. c \in Content /\ b \in Body
  BY <1>0, <1>1, PieceCopied
<1> HIDE DEF c, b
<1>3. [req[q] EXCEPT !.body = b] \in Request
  BY <1>1, <1>2 DEF Request
<1>4. /\ req' \in [Req -> Request] /\ \A p \in Req \ {q} : req'[p] = req[p]
      /\ req'[q].pc = "copy" /\ req'[q].up = u
  BY <1>0, <1>1, <1>3 DEF Request
<1>5. TypeOK'
  BY <1>0, <1>1, <1>2, <1>4 DEF IInv, TypeOK
<1>6. Works(q)
  BY <1>0, <1>4 DEF Works, IInv, TypeOK
<1>7. /\ u \notin overlapped => u \in data
      /\ \A d \in Digest : blob[d] = u => u \notin data
      /\ u \notin overlapped /\ u \notin cut /\ row[u] # NoRow => u \in data /\ state[u] = "ok"
      /\ \A d \in acked : blob[d] # NoUpload
  BY <1>0, AtWork DEF Found, Halfway
<1>7a. Found(req[q])'
  BY <1>0, <1>4, <1>7 DEF Found
<1>7b. \A d \in Digest : blob'[d] = u => u \notin data' /\ u \in overlapped
  BY <1>0, <1>7
<1>7c. req'[q] # Idle /\ req'[q].pc # "idle"
  BY <1>4, RequestTypes
<1>8. Leaves(q, u)
  BY <1>0, <1>4, <1>7, <1>7a, <1>7b, <1>7c DEF Leaves
<1> QED
  BY <1>0, <1>5, <1>6, <1>8, WorkKeeps

(* The body is at its end.                                                 *)
LEMMA CopyEndInv == ASSUME IInv, NEW q \in Req, CopyEnd(q) PROVE IInv'
<1> DEFINE u == req[q].up
<1>0. /\ req[q].pc = "copy" /\ req \in [Req -> Request] /\ "stat" \in Pc /\ Goto(q, "stat")
      /\ UNCHANGED <<content, data, state, blob, row, used, overlapped, clean, acked, cut>>
  BY DEF CopyEnd, IInv, TypeOK, Pc, files, history
<1>1. /\ req' \in [Req -> Request] /\ \A p \in Req \ {q} : req'[p] = req[p]
      /\ req'[q].pc = "stat" /\ req'[q].up = u
  BY <1>0, GotoFields
<1>2. TypeOK'
  BY <1>0, <1>1 DEF IInv, TypeOK
<1>3. Works(q)
  BY <1>0, <1>1 DEF Works
<1>4. Leaves(q, u)
  BY <1>0, <1>1, AtWork, RequestTypes DEF Leaves, Found, Halfway
<1> QED
  BY <1>0, <1>2, <1>3, <1>4, WorkKeeps

(* The size is read back from the file.                                    *)
LEMMA StatUploadInv == ASSUME IInv, NEW q \in Req, StatUpload(q) PROVE IInv'
<1> DEFINE u == req[q].up
           x == IF req[q].kind = "status" THEN "save" ELSE "truncate"
           n == Len(content[u])
<1>0. req[q].pc = "stat"
  BY DEF StatUpload
<1>1. /\ u \in Upload /\ n \in 0..MaxLen /\ x \in {"save", "truncate"} /\ x \in Pc
      /\ req \in [Req -> Request] /\ req[q] \in Request
  BY <1>0, AtWork, PieceCopied DEF IInv, TypeOK, Pc
<1>2. CASE state[u] = "ok" /\ u \in data
  <2>1. /\ req' = [req EXCEPT ![q].pc = x, ![q].size = n]
        /\ UNCHANGED <<content, data, state, blob, row, used, overlapped, clean, acked, cut>>
    BY <1>2 DEF StatUpload, files, history
  <2> HIDE DEF x
  <2>2. [req[q] EXCEPT !.pc = x, !.size = n] \in Request
    BY <1>1 DEF Request
  <2>3. /\ req' \in [Req -> Request] /\ \A p \in Req \ {q} : req'[p] = req[p]
        /\ req'[q].pc = x /\ req'[q].up = u /\ req'[q].size = n
    BY <1>1, <2>1, <2>2 DEF Request
  <2>4. TypeOK'
    BY <2>1, <2>3 DEF IInv, TypeOK
  <2>5. Works(q)
    BY <2>1, <2>3 DEF Works
  <2>6. /\ \A d \in Digest : blob[d] = u => u \notin data /\ (content[u] = d \/ u \in overlapped)
        /\ \A d \in acked : blob[d] # NoUpload
    BY <1>0, AtWork
  <2>7. req'[q].pc \in {"save", "truncate"} /\ Found(req[q])'
    BY <1>1, <1>2, <2>1, <2>3 DEF Found
  <2>8. Leaves(q, u)
    BY <1>2, <2>1, <2>3, <2>6, <2>7, RequestTypes DEF Leaves
  <2> QED
    BY <1>0, <2>4, <2>5, <2>8, WorkKeeps
<1>3. CASE ~(state[u] = "ok" /\ u \in data)
  BY <1>0, <1>3, FailKeeps DEF StatUpload, files
<1> QED
  BY <1>2, <1>3

(* writeUploadState: truncate, then write.                                 *)
LEMMA TruncateStateInv == ASSUME IInv, NEW q \in Req, TruncateState(q) PROVE IInv'
<1> DEFINE u == req[q].up
<1>0. req[q].pc = "truncate" /\ req \in [Req -> Request] /\ "write" \in Pc
  BY DEF TruncateState, IInv, TypeOK, Pc
<1>1. CASE state[u] # "none"
  <2>1. /\ Goto(q, "write") /\ state' = [state EXCEPT ![u] = "torn"]
        /\ UNCHANGED <<content, data, blob, row, used, overlapped, clean, acked, cut>>
    BY <1>1 DEF TruncateState, history
  <2>2. /\ req' \in [Req -> Request] /\ \A p \in Req \ {q} : req'[p] = req[p]
        /\ req'[q].pc = "write" /\ req'[q].up = u /\ req'[q].size = req[q].size
    BY <1>0, <2>1, GotoFields
  <2>3. u \in Upload /\ state \in [Upload -> {"none", "torn", "ok"}] /\ state'[u] = "torn"
    BY <1>0, <2>1, AtWork DEF IInv, TypeOK
  <2>4. TypeOK'
    BY <2>1, <2>2, <2>3 DEF IInv, TypeOK
  <2>5. Works(q)
    BY <2>1, <2>2, <2>3 DEF Works
  <2>6. Found(req[q])'
    BY <1>0, <2>1, <2>2, <2>3, AtWork DEF Found
  <2>7. Leaves(q, u)
    BY <1>0, <2>1, <2>2, <2>6, AtWork, RequestTypes DEF Leaves
  <2> QED
    BY <1>0, <2>4, <2>5, <2>7, WorkKeeps
<1>2. CASE state[u] = "none"
  BY <1>0, <1>2, FailKeeps DEF TruncateState
<1> QED
  BY <1>1, <1>2

(* state.json is written anew.                                             *)
LEMMA WriteStateInv == ASSUME IInv, NEW q \in Req, WriteState(q) PROVE IInv'
<1> DEFINE u == req[q].up
<1>0. /\ req[q].pc = "write" /\ req \in [Req -> Request] /\ "save" \in Pc /\ Goto(q, "save")
      /\ state' = [state EXCEPT ![u] = IF @ = "none" THEN "none" ELSE "ok"]
      /\ UNCHANGED <<content, data, blob, row, used, overlapped, clean, acked, cut>>
  BY DEF WriteState, IInv, TypeOK, Pc, history
<1>1. /\ req' \in [Req -> Request] /\ \A p \in Req \ {q} : req'[p] = req[p]
      /\ req'[q].pc = "save" /\ req'[q].up = u /\ req'[q].size = req[q].size
  BY <1>0, GotoFields
<1>2. u \in Upload /\ state \in [Upload -> {"none", "torn", "ok"}]
  BY <1>0, AtWork DEF IInv, TypeOK
<1>3. TypeOK'
  BY <1>0, <1>1, <1>2 DEF IInv, TypeOK
<1>4. Works(q)
  BY <1>0, <1>1, <1>2 DEF Works
<1>5. /\ Found(req[q])'
      /\ u \notin overlapped => u \in data /\ state'[u] = "ok"
  BY <1>0, <1>1, <1>2, AtWork DEF Found
<1>6. Leaves(q, u)
  BY <1>0, <1>1, <1>5, AtWork, RequestTypes DEF Leaves
<1> QED
  BY <1>0, <1>3, <1>4, <1>6, WorkKeeps

(* SaveUpload, the last line of every request but a completion.            *)
LEMMA SaveUploadInv == ASSUME IInv, NEW q \in Req, SaveUpload(q) PROVE IInv'
<1> DEFINE u == req[q].up
<1>0. /\ req[q].pc = "save" /\ row' = [row EXCEPT ![u] = req[q].size]
      /\ UNCHANGED <<content, data, state, blob, used>>
      /\ req \in [Req -> Request] /\ "hash" \in Pc
  BY DEF SaveUpload, files, IInv, TypeOK, Pc
<1>1. /\ u \in Upload /\ u \in used /\ req[q].size \in 0..MaxLen /\ row \in [Upload -> 0..NoRow]
      /\ u \notin overlapped => /\ u \in data /\ state[u] = "ok"
                                /\ req[q].size = Len(content[u])
  BY <1>0, AtWork DEF IInv, TypeOK, Request, Found
<1>2. row' \in [Upload -> 0..NoRow] /\ row'[u] = req[q].size
  BY <1>0, <1>1, RequestTypes
<1>3. CASE req[q].kind = "complete"
  <2>1. Goto(q, "hash") /\ UNCHANGED <<overlapped, clean, acked, cut>>
    BY <1>3 DEF SaveUpload, history
  <2>2. /\ req' \in [Req -> Request] /\ \A p \in Req \ {q} : req'[p] = req[p]
        /\ req'[q].pc = "hash" /\ req'[q].up = u
    BY <1>0, <2>1, GotoFields
  <2>3. TypeOK'
    BY <1>0, <1>2, <2>1, <2>2 DEF IInv, TypeOK
  <2>4. Works(q)
    BY <1>0, <1>1, <2>1, <2>2 DEF Works
  <2>5. Leaves(q, u)
    BY <1>0, <1>1, <2>1, <2>2, AtWork, RequestTypes DEF Leaves, Found
  <2> QED
    BY <1>0, <2>3, <2>4, <2>5, WorkKeeps
<1>4. CASE req[q].kind # "complete"
  <2>1. /\ req' = [req EXCEPT ![q] = Idle] /\ clean' = clean \cup {u}
        /\ UNCHANGED <<overlapped, acked, cut>>
    BY <1>4 DEF SaveUpload, Done
  <2>2. req'[q] = Idle /\ req' \in [Req -> Request] /\ \A p \in Req \ {q} : req'[p] = req[p]
    BY <1>0, <2>1, RequestTypes
  <2>3. TypeOK'
    BY <1>0, <1>1, <1>2, <2>1, <2>2 DEF IInv, TypeOK
  <2>4. Works(q)
    BY <1>0, <1>1, <2>1, <2>2 DEF Works
  <2>5. Found(req[q])'
    BY <2>2, RequestTypes DEF Found
  <2>6. Leaves(q, u)
    BY <1>0, <1>1, <1>2, <2>1, <2>2, <2>5, AtWork, RequestTypes DEF Leaves
  <2> QED
    BY <1>0, <2>3, <2>4, <2>6, WorkKeeps
<1> QED
  BY <1>3, <1>4

-----------------------------------------------------------------------------
(***************************************************************************)
(* CommitUpload and DeleteUpload.                                          *)
(***************************************************************************)

(* The digest is compared with that of the file.                           *)
LEMMA HashDataInv == ASSUME IInv, NEW q \in Req, HashData(q) PROVE IInv'
<1> DEFINE u == req[q].up
<1>0. req[q].pc = "hash" /\ req \in [Req -> Request] /\ "rename" \in Pc
  BY DEF HashData, IInv, TypeOK, Pc
<1>1. CASE u \in data /\ content[u] = req[q].digest
  <2>1. Goto(q, "rename") /\ UNCHANGED <<content, data, state, blob, row, used, overlapped,
                                         clean, acked, cut>>
    BY <1>1 DEF HashData, files, history
  <2>2. /\ req' \in [Req -> Request] /\ \A p \in Req \ {q} : req'[p] = req[p]
        /\ req'[q].pc = "rename" /\ req'[q].up = u /\ req'[q].digest = req[q].digest
    BY <1>0, <2>1, GotoFields
  <2>3. TypeOK'
    BY <2>1, <2>2 DEF IInv, TypeOK
  <2>4. Works(q)
    BY <2>1, <2>2 DEF Works
  <2>5. Found(req[q])'
    BY <1>1, <2>1, <2>2 DEF Found
  <2>6. Leaves(q, u)
    BY <1>0, <2>1, <2>2, <2>5, AtWork, RequestTypes DEF Leaves, Halfway
  <2> QED
    BY <1>0, <2>3, <2>4, <2>6, WorkKeeps
<1>2. CASE ~(u \in data /\ content[u] = req[q].digest)
  BY <1>0, <1>2, FailKeeps DEF HashData, files
<1> QED
  BY <1>1, <1>2

(* The rename, or its failure where the blob is there already.             *)
LEMMA RenameInv == ASSUME IInv, NEW q \in Req, Rename(q) PROVE IInv'
<1> DEFINE u == req[q].up
           d == req[q].digest
<1>0. /\ req[q].pc = "rename" /\ req \in [Req -> Request] /\ "remove" \in Pc
      /\ UNCHANGED <<content, state, row, used>>
  BY DEF Rename, IInv, TypeOK, Pc
<1>1. /\ u \in Upload /\ u \in used /\ d \in Digest /\ u # NoUpload
      /\ blob \in [Digest -> used \cup {NoUpload}]
      /\ u \notin overlapped => u \in data /\ content[u] = d
  BY <1>0, AtWork, RequestTypes DEF IInv, TypeOK, Request, Found
<1>2. ASSUME Goto(q, "remove"), UNCHANGED <<overlapped, clean, acked, cut>>
      PROVE  /\ req' \in [Req -> Request] /\ \A p \in Req \ {q} : req'[p] = req[p]
             /\ req'[q].pc = "remove" /\ req'[q].up = u /\ req'[q].digest = d
             /\ Found(req[q])' /\ req'[q] # Idle
  <2>1. /\ req' \in [Req -> Request] /\ \A p \in Req \ {q} : req'[p] = req[p]
        /\ req'[q].pc = "remove" /\ req'[q].up = u /\ req'[q].digest = d
    BY <1>0, <1>2, GotoFields
  <2> QED
    BY <2>1, RequestTypes DEF Found
<1>3. CASE /\ u \in data
           /\ blob' = [blob EXCEPT ![d] = u] /\ data' = data \ {u}
           /\ Goto(q, "remove") /\ UNCHANGED <<overlapped, clean, acked, cut>>
  <2>1. blob' \in [Digest -> used \cup {NoUpload}] /\ blob'[d] = u
        /\ \A e \in Digest : e # d => blob'[e] = blob[e]
    BY <1>1, <1>3
  <2>2. TypeOK'
    BY <1>0, <1>2, <1>3, <2>1 DEF IInv, TypeOK
  <2>3. Works(q)
    BY <1>0, <1>2, <1>3, <2>1 DEF Works
  <2>4. \A e \in Digest : blob'[e] = u =>
           u \notin data' /\ (content'[u] = e \/ u \in overlapped)
    BY <1>0, <1>1, <1>3, <2>1, AtWork
  <2>5. \A e \in acked' : blob'[e] # NoUpload
    BY <1>0, <1>1, <1>3, <2>1, AtWork DEF IInv, TypeOK
  <2>6. Leaves(q, u)
    BY <1>1, <1>2, <1>3, <2>1, <2>4, <2>5 DEF Leaves
  <2> QED
    BY <1>0, <2>2, <2>3, <2>6, WorkKeeps
<1>4. CASE /\ u \notin data /\ blob[d] # NoUpload
           /\ Goto(q, "remove") /\ UNCHANGED <<blob, data, overlapped, clean, acked, cut>>
  <2>1. TypeOK'
    BY <1>0, <1>2, <1>4 DEF IInv, TypeOK
  <2>2. Works(q)
    BY <1>0, <1>2, <1>4 DEF Works
  <2>3. Leaves(q, u)
    BY <1>0, <1>2, <1>4, AtWork DEF Leaves
  <2> QED
    BY <1>0, <2>1, <2>2, <2>3, WorkKeeps
<1>5. CASE Failed(q) /\ UNCHANGED <<blob, data>>
  BY <1>0, <1>5, FailKeeps
<1> QED
  BY <1>3, <1>4, <1>5 DEF Rename, history

(* os.RemoveAll of the upload's directory.                                 *)
LEMMA RemoveAllInv == ASSUME IInv, NEW q \in Req, RemoveAll(q) PROVE IInv'
<1> DEFINE u == req[q].up
<1>0. /\ req[q].pc = "remove" /\ req \in [Req -> Request] /\ "deleteRow" \in Pc
      /\ state' = [state EXCEPT ![u] = "none"] /\ data' = data \ {u} /\ Goto(q, "deleteRow")
      /\ UNCHANGED <<content, blob, row, used, overlapped, clean, acked, cut>>
  BY DEF RemoveAll, IInv, TypeOK, Pc, history
<1>1. /\ req' \in [Req -> Request] /\ \A p \in Req \ {q} : req'[p] = req[p]
      /\ req'[q].pc = "deleteRow" /\ req'[q].up = u /\ req'[q].digest = req[q].digest
  BY <1>0, GotoFields
<1>2. u \in Upload /\ blob[req[q].digest] # NoUpload
  BY <1>0, AtWork DEF IInv, Committed
<1>3. TypeOK'
  BY <1>0, <1>1 DEF IInv, TypeOK
<1>4. Works(q)
  BY <1>0, <1>1 DEF Works, IInv, TypeOK
<1>5. Found(req[q])' /\ req'[q] # Idle
  BY <1>0, <1>1, RequestTypes DEF Found
<1>6. Leaves(q, u)
  BY <1>0, <1>1, <1>2, <1>5, AtWork DEF Leaves
<1> QED
  BY <1>0, <1>3, <1>4, <1>6, WorkKeeps

(* DeleteUpload, and the answer.                                           *)
LEMMA DeleteUploadInv == ASSUME IInv, NEW q \in Req, DeleteUpload(q) PROVE IInv'
<1> DEFINE u == req[q].up
           d == req[q].digest
<1>0. /\ req[q].pc = "deleteRow" /\ row' = [row EXCEPT ![u] = NoRow]
      /\ UNCHANGED <<content, data, state, blob, used>>
      /\ req \in [Req -> Request] /\ row \in [Upload -> 0..NoRow]
  BY DEF DeleteUpload, files, IInv, TypeOK
<1>1. /\ u \in Upload /\ u \in used /\ d \in Digest /\ blob[d] # NoUpload
      /\ u \notin overlapped => u \notin data
  BY <1>0, AtWork DEF IInv, Committed, Request, Found
<1>2. CASE row[u] = NoRow
  <2>1. row' = row
    BY <1>0, <1>2
  <2> QED
    BY <1>0, <1>2, <2>1, FailKeeps DEF DeleteUpload
<1>3. CASE row[u] # NoRow
  <2>1. /\ req' = [req EXCEPT ![q] = Idle] /\ clean' = clean \cup {u}
        /\ acked' = acked \cup {d} /\ UNCHANGED <<overlapped, cut>>
    BY <1>3 DEF DeleteUpload, Done
  <2>2. req'[q] = Idle /\ req' \in [Req -> Request] /\ \A p \in Req \ {q} : req'[p] = req[p]
    BY <1>0, <2>1, RequestTypes
  <2>3. row' \in [Upload -> 0..NoRow] /\ row'[u] = NoRow
    BY <1>0, <1>1, RequestTypes
  <2>4. TypeOK'
    BY <1>0, <1>1, <2>1, <2>2, <2>3 DEF IInv, TypeOK
  <2>5. Works(q)
    BY <1>0, <1>1, <2>1, <2>2 DEF Works
  <2>6. Found(req[q])' /\ req'[q].pc = "idle"
    BY <2>2, RequestTypes DEF Found
  <2>7. Leaves(q, u)
    BY <1>0, <1>1, <2>1, <2>2, <2>3, <2>6, AtWork DEF Leaves
  <2> QED
    BY <1>0, <2>4, <2>5, <2>7, WorkKeeps
<1> QED
  BY <1>2, <1>3

-----------------------------------------------------------------------------
(***************************************************************************)
(* Requests that start, and the crash.                                     *)
(***************************************************************************)

(* Nothing is known yet of a new upload: no blob, no other request.        *)
LEMMA BeginUploadInv ==
    ASSUME IInv, NEW q \in Req, NEW u \in Upload, BeginUpload(q, u) PROVE IInv'
<1> DEFINE r == [Idle EXCEPT !.pc = "save", !.kind = "begin", !.up = u]
<1>0. /\ req[q].pc = "idle" /\ u \notin used /\ used' = used \cup {u} /\ data' = data \cup {u}
      /\ state' = [state EXCEPT ![u] = "ok"] /\ req' = [req EXCEPT ![q] = r]
      /\ UNCHANGED <<content, blob, row, overlapped, clean, acked, cut>>
  BY DEF BeginUpload, history
<1>1. /\ r \in Request /\ r.pc = "save" /\ r.up = u /\ r.size = 0
  BY RequestTypes, UploadSessionAssumption DEF Idle, Request, Pc, Kind
<1> HIDE DEF r
<1>2. /\ req \in [Req -> Request] /\ state \in [Upload -> {"none", "torn", "ok"}]
      /\ blob \in [Digest -> used \cup {NoUpload}] /\ data \subseteq used /\ u # NoUpload
      /\ overlapped \subseteq used /\ clean \subseteq used /\ cut \subseteq used
      /\ used \subseteq Upload
  BY RequestTypes DEF IInv, TypeOK
<1>3. /\ req' \in [Req -> Request] /\ req'[q] = r
      /\ \A p \in Req \ {q} : req'[p] = req[p] /\ req[p].up # u
  BY <1>0, <1>1, <1>2, RequestTypes DEF IInv, HandedOut
<1>4. content[u] = <<>> /\ Len(content[u]) = 0
  BY <1>0 DEF IInv, HandedOut
<1>5. TypeOK'
  BY <1>0, <1>2, <1>3 DEF IInv, TypeOK
<1>6. HandedOut'
  BY <1>0, <1>1, <1>3 DEF IInv, HandedOut
<1>7. OneInode'
  BY <1>0, <1>2 DEF IInv, OneInode
<1>8. Committed'
  BY <1>0, <1>1, <1>3 DEF IInv, Committed
<1>9. Alone'
  BY <1>0, <1>1, <1>3 DEF IInv, Alone
<1>10. \A p \in Req : Found(req[p])'
  <2>1. Found(req[q])'
    BY <1>0, <1>1, <1>2, <1>3, <1>4 DEF Found
  <2>2. \A p \in Req \ {q} : Found(req[p])'
    <3> SUFFICES ASSUME NEW p \in Req, p # q PROVE Found(req[p])'
      OBVIOUS
    <3>1. req'[p] = req[p] /\ req[p].up # u /\ Found(req[p])
      BY <1>3 DEF IInv
    <3> QED
      BY <1>0, <1>2, <3>1 DEF Found
  <2> QED
    BY <2>1, <2>2
<1>11. UsableBetween'
  <2> SUFFICES ASSUME NEW v \in Upload, v \notin overlapped, v \notin cut, row[v] # NoRow,
                      \A p \in Req : req'[p].up = v => ~Halfway(p)'
               PROVE  v \in data' /\ state'[v] = "ok"
    BY <1>0 DEF UsableBetween
  <2>1. CASE v = u
    BY <1>0, <1>2, <2>1
  <2>2. CASE v # u
    <3>1. \A p \in Req : req[p].up = v => ~Halfway(p)
      BY <1>0, <1>3, <2>2 DEF Halfway
    <3> QED
      BY <1>0, <1>2, <2>2, <3>1 DEF IInv, UsableBetween
  <2> QED
    BY <2>1, <2>2
<1>12. RowFollowsFile'
  <2> SUFFICES ASSUME NEW v \in clean, v \notin overlapped, ~Busy(v)'
               PROVE  row[v] = IF v \in data' THEN Len(content[v]) ELSE NoRow
    BY <1>0 DEF RowFollowsFile
  <2>1. v # u /\ v \in used /\ ~Busy(v)
    BY <1>0, <1>2, <1>3, RequestTypes DEF Busy, IInv, HandedOut
  <2> QED
    BY <1>0, <2>1 DEF IInv, RowFollowsFile
<1>13. IntactUnlessOverlapped' /\ AckedPresent'
  BY <1>0 DEF IInv, IntactUnlessOverlapped, Intact, AckedPresent
<1> QED
  BY <1>5, <1>6, <1>7, <1>8, <1>9, <1>10, <1>11, <1>12, <1>13 DEF IInv

(* A request on an upload that has its row: it is alone on it, or the      *)
(* upload is overlapped from now on.                                       *)
LEMMA EnsureUploadInv ==
    ASSUME IInv, NEW q \in Req, NEW u \in Upload, NEW kind \in Kind, NEW body \in Body,
           NEW digest \in Digest, EnsureUpload(q, u, kind, body, digest)
    PROVE  IInv'
<1> DEFINE r == [pc |-> IF kind = "status" THEN "stat" ELSE "open", kind |-> kind,
                 up |-> u, body |-> body, digest |-> digest, size |-> 0]
<1>0. /\ req[q].pc = "idle" /\ row[u] # NoRow /\ req' = [req EXCEPT ![q] = r]
      /\ overlapped' = (IF Busy(u) THEN overlapped \cup {u} ELSE overlapped)
      /\ UNCHANGED <<content, data, state, blob, row, used, clean, acked, cut>>
  BY DEF EnsureUpload, files
<1>1. r \in Request /\ r.pc \in {"stat", "open"} /\ r.up = u
  BY UploadSessionAssumption DEF Request, Pc
<1> HIDE DEF r
<1>2. req \in [Req -> Request] /\ u \in used /\ req[q].up = NoUpload
  BY <1>0, RequestTypes DEF IInv, TypeOK, HandedOut
<1>3. req' \in [Req -> Request] /\ req'[q] = r /\ \A p \in Req \ {q} : req'[p] = req[p]
  BY <1>0, <1>1, <1>2
<1>4. TypeOK'
  BY <1>0, <1>2, <1>3 DEF IInv, TypeOK
<1>5. HandedOut'
  BY <1>0, <1>1, <1>2, <1>3 DEF IInv, HandedOut
<1>6. OneInode' /\ AckedPresent'
  BY <1>0 DEF IInv, OneInode, AckedPresent
<1>7. Committed'
  BY <1>0, <1>1, <1>3 DEF IInv, Committed
<1>8. Alone'
  <2> SUFFICES ASSUME NEW p \in Req, NEW s \in Req, req'[p].up = req'[s].up,
                      req'[p].up \in Upload, req'[p].up \notin overlapped', p # s
               PROVE  FALSE
    BY DEF Alone
  <2>1. CASE p # q /\ s # q
    BY <1>0, <1>3, <2>1 DEF IInv, Alone
  <2>2. CASE p = q \/ s = q
    <3>1. Busy(u) /\ req'[p].up = u
      BY <1>1, <1>3, <2>2 DEF Busy
    <3> QED
      BY <1>0, <3>1
  <2> QED
    BY <2>1, <2>2
<1>9. \A p \in Req : Found(req[p])'
  <2>1. Found(req[q])'
    BY <1>1, <1>3 DEF Found
  <2>2. \A p \in Req \ {q} : Found(req[p])'
    <3> SUFFICES ASSUME NEW p \in Req, p # q PROVE Found(req[p])'
      OBVIOUS
    <3>1. req'[p] = req[p] /\ Found(req[p]) /\ overlapped \subseteq overlapped'
      BY <1>0, <1>3 DEF IInv
    <3> QED
      BY <1>0, <3>1 DEF Found
  <2> QED
    BY <2>1, <2>2
<1>10. UsableBetween'
  <2> SUFFICES ASSUME NEW v \in Upload, v \notin overlapped, v \notin cut, row[v] # NoRow,
                      \A p \in Req : req'[p].up = v => ~Halfway(p)'
               PROVE  v \in data /\ state[v] = "ok"
    BY <1>0 DEF UsableBetween
  <2>1. \A p \in Req : req[p].up = v => ~Halfway(p)
    BY <1>0, <1>3 DEF Halfway
  <2> QED
    BY <2>1 DEF IInv, UsableBetween
<1>11. RowFollowsFile'
  <2> SUFFICES ASSUME NEW v \in clean, v \notin overlapped, ~Busy(v)'
               PROVE  row[v] = IF v \in data THEN Len(content[v]) ELSE NoRow
    BY <1>0 DEF RowFollowsFile
  <2>1. v \in Upload
    BY DEF IInv, TypeOK
  <2>2. ~Busy(v)
    BY <1>2, <1>3, <2>1, RequestTypes DEF Busy
  <2> QED
    BY <2>2 DEF IInv, RowFollowsFile
<1>12. IntactUnlessOverlapped'
  BY <1>0 DEF IInv, IntactUnlessOverlapped, Intact
<1> QED
  BY <1>4, <1>5, <1>6, <1>7, <1>8, <1>9, <1>10, <1>11, <1>12 DEF IInv

(* The process dies: only what was between two file operations is cut.     *)
LEMMA CrashInv == ASSUME IInv, Crash PROVE IInv'
<1>0. /\ req' = [q \in Req |-> Idle] /\ clean' = {u \in clean : ~Busy(u)}
      /\ cut' = cut \cup {req[q].up : q \in {p \in Req : Halfway(p)}}
      /\ UNCHANGED <<content, data, state, blob, row, used, overlapped, acked>>
  BY DEF Crash, files
<1>1. \A q \in Req : Halfway(q) => req[q].up \in used
  BY RequestTypes DEF IInv, HandedOut, Halfway
<1>2. req' \in [Req -> Request] /\ \A q \in Req : req'[q].pc = "idle" /\ req'[q].up = NoUpload
  BY <1>0, RequestTypes
<1>3. TypeOK'
  BY <1>0, <1>1, <1>2 DEF IInv, TypeOK
<1>4. HandedOut' /\ OneInode' /\ Committed' /\ Alone' /\ AckedPresent'
  BY <1>0, <1>2, RequestTypes DEF IInv, HandedOut, OneInode, Committed, Alone, AckedPresent
<1>5. \A q \in Req : Found(req[q])'
  BY <1>2, RequestTypes DEF Found
<1>6. UsableBetween'
  <2> SUFFICES ASSUME NEW v \in Upload, v \notin overlapped, v \notin cut', row[v] # NoRow
               PROVE  v \in data /\ state[v] = "ok"
    BY <1>0 DEF UsableBetween
  <2>1. v \notin cut /\ \A q \in Req : req[q].up = v => ~Halfway(q)
    BY <1>0
  <2> QED
    BY <2>1 DEF IInv, UsableBetween
<1>7. RowFollowsFile'
  BY <1>0 DEF IInv, RowFollowsFile
<1>8. IntactUnlessOverlapped'
  BY <1>0 DEF IInv, IntactUnlessOverlapped, Intact
<1> QED
  BY <1>3, <1>4, <1>5, <1>6, <1>7, <1>8 DEF IInv

-----------------------------------------------------------------------------
(***************************************************************************)
(* The theorems.                                                           *)
(***************************************************************************)

(* Before the first request there are no files, rows or blobs.             *)
LEMMA InitInv == Init => IInv
<1> SUFFICES ASSUME Init PROVE IInv
  OBVIOUS
<1>1. TypeOK
  BY PieceCopied, RequestTypes DEF Init, TypeOK, Digest
<1>2. \A q \in Req : req[q] = Idle
  BY DEF Init
<1>3. HandedOut /\ OneInode /\ Committed /\ Alone
  BY <1>2, RequestTypes DEF Init, HandedOut, OneInode, Committed, Alone
<1>4. \A q \in Req : Found(req[q])
  BY <1>2, RequestTypes DEF Found
<1>5. UsableBetween /\ RowFollowsFile /\ IntactUnlessOverlapped /\ AckedPresent
  BY DEF Init, UsableBetween, RowFollowsFile, IntactUnlessOverlapped, Intact, AckedPresent
<1> QED
  BY <1>1, <1>3, <1>4, <1>5 DEF IInv

(* Every step of every request keeps the invariant.                        *)
LEMMA StepInv == IInv /\ [Next]_vars => IInv'
<1> SUFFICES ASSUME IInv, [Next]_vars PROVE IInv'
  OBVIOUS
<1>1. CASE UNCHANGED vars
  BY <1>1 DEF vars, IInv, TypeOK, HandedOut, OneInode, Committed, Alone, Found, UsableBetween,
              Halfway, RowFollowsFile, Busy, IntactUnlessOverlapped, Intact, AckedPresent
<1>2. ASSUME NEW q \in Req, Start(q) PROVE IInv'
  <2>1. PICK u \in Upload :
           \/ BeginUpload(q, u)
           \/ EnsureUpload(q, u, "status", <<>>, <<>>)
           \/ \E b \in Body : \/ EnsureUpload(q, u, "append", b, <<>>)
                              \/ \E d \in Digest : EnsureUpload(q, u, "complete", b, d)
    BY <1>2 DEF Start
  <2>2. <<>> \in Body /\ <<>> \in Digest /\ "status" \in Kind /\ "append" \in Kind
        /\ "complete" \in Kind
    BY PieceCopied DEF Digest, Kind
  <2> QED
    BY <2>1, <2>2, BeginUploadInv, EnsureUploadInv
<1>3. ASSUME NEW q \in Req, RequestFails(q) PROVE IInv'
  BY <1>3, FailKeeps DEF RequestFails, files
<1> QED
  BY <1>1, <1>2, <1>3, CrashInv, OpenDataInv, CopyPieceInv, CopyEndInv, StatUploadInv,
     TruncateStateInv, WriteStateInv, SaveUploadInv, HashDataInv, RenameInv, RemoveAllInv,
     DeleteUploadInv DEF Next, Step

(* The inductive invariant holds throughout.                               *)
LEMMA InvAlways == Spec => []IInv
BY InitInv, StepInv, PTL DEF Spec

(* Files, rows and requests stay what they are, and nothing is ever done   *)
(* on an upload id that newUploadID has not handed out.                    *)
THEOREM TypeCorrect == Spec => []TypeOK
<1>1. IInv => TypeOK
  BY DEF IInv
<1> QED
  BY <1>1, InvAlways, PTL

(* CommitUpload: a blob has the content of its digest, unless two requests *)
(* were on its upload at once; for any number of uploads, requests,        *)
(* failures and crashes.                                                   *)
THEOREM BlobsIntact == Spec => []IntactUnlessOverlapped
<1>1. IInv => IntactUnlessOverlapped
  BY DEF IInv
<1> QED
  BY <1>1, InvAlways, PTL

(* CompleteUpload never answers 201 for a blob that is not in the store,   *)
(* overlapped or not.                                                      *)
THEOREM AckedIsThere == Spec => []AckedPresent
<1>1. IInv => AckedPresent
  BY DEF IInv
<1> QED
  BY <1>1, InvAlways, PTL

(* An upload nobody is on has a row that tells its size, if its last       *)
(* request succeeded, and can be continued, unless a request was cut off   *)
(* inside writeUploadState or between the rename and DeleteUpload.         *)
THEOREM QuietUploadsSound == Spec => []QuietIsSound
<1>1. IInv => QuietIsSound
  <2> SUFFICES ASSUME IInv, NEW u \in Upload \ (overlapped \cup cut), row[u] # NoRow, ~Busy(u)
               PROVE  u \in data /\ state[u] = "ok"
    BY DEF IInv, QuietIsSound, UsableUnlessCut
  <2>1. \A q \in Req : req[q].up # u
    BY DEF Busy
  <2> QED
    BY <2>1 DEF IInv, UsableBetween
<1> QED
  BY <1>1, InvAlways, PTL
=============================================================================
