------------------------------ MODULE Registry ------------------------------
(***************************************************************************)
(* Manifests, tags and repositories: publishing, deleting, resolving and   *)
(* listing them.  The state is the four tables of the SQLite store, with   *)
(* their row numbers and cascades; every SQL transaction is one step and   *)
(* every call the service makes between two transactions is another, so    *)
(* that the requests of several clients interleave.                        *)
(*                                                                         *)
(* Authorization is module Access, blob collection is module BlobGC.       *)
(***************************************************************************)
EXTENDS Naturals, FiniteSets, Sequences, SequencesExt

CONSTANTS
  Repo, Tag,      \* names, as numbers: the store orders by name
  Digest, Blob, User,
  Pusher, Reader, \* connections, by what they ask for
  BlobsOf,        \* the config and layers a payload names, in order
  SubjectOf,      \* the subject a payload names, or None
  ArtifactTypeOf, \* the artifactType a payload names, or None
  ConfigTypeOf,   \* the media type of its config, or None
  Accessory,      \* the tag names that have cosign's accessory form
  Visible,        \* the repositories the readers may read
  Limit,          \* their page size, n
  None,
  MaxRow,         \* bound: row numbers handed out
  Time            \* bound: the times at which a manifest may be created

ASSUME Registry_Constants ==
  /\ Repo \subseteq Nat \ {0} /\ Tag \subseteq Nat \ {0}
  /\ BlobsOf \in [Digest -> Seq(Blob)] /\ SubjectOf \in [Digest -> Digest \cup {None}]
  /\ Accessory \subseteq Tag /\ Visible \subseteq Repo
  /\ Limit \in Nat \ {0} /\ MaxRow \in Nat /\ Time \subseteq Nat
  /\ None \notin Digest \cup Tag \cup Repo /\ Tag \cap Digest = {}
  /\ None \notin [manifests : SUBSET [digest : Digest, by : User, at : Time],
                  tags      : SUBSET [name : Tag, digest : Digest]]

VARIABLES
  repositories,   \* rows [id, name]
  manifests,      \* rows [id, repo, digest, by, at, subject, behind]; behind is history:
                  \* written by the older binary after the backfill
  tags,           \* rows [repo, name, man]
  blobRows,       \* manifest_blobs: rows [man, pos, blob]
  rowId,          \* the last row number handed out
  disk,           \* blobs the blob store has
  binary,         \* the running server: "old" predates subject_digest
  marker,         \* schema_backfills holds the subject_digest row
  call            \* each client's request

tables == <<repositories, manifests, tags, blobRows, rowId>>
vars   == <<tables, disk, binary, marker, call>>

Idle == [op |-> "idle"]
Client == Pusher \cup Reader
Ref  == Tag \cup Digest
-----------------------------------------------------------------------------
(* The tables, and the queries the service makes of them. *)

RepoRow(r)     == {x \in repositories : x.name = r}
RowsOf(r)      == {m \in manifests : \E x \in RepoRow(r) : m.repo = x.id}
TagsOf(r)      == {t \in tags : \E x \in RepoRow(r) : t.repo = x.id}
ByDigest(r, d) == {m \in RowsOf(r) : m.digest = d}

\* A reference that parses as a digest selects by digest, any other by tag.
ResolveManifest(r, ref) ==
  IF ref \in Digest
  THEN ByDigest(r, ref)
  ELSE {m \in RowsOf(r) : \E t \in TagsOf(r) : t.name = ref /\ t.man = m.id}

\* The one row it selects, if there is one.
Selected(r, ref) == CHOOSE m \in ResolveManifest(r, ref) : TRUE

\* The members of a finite set of numbers from the smallest on: ORDER BY.
InOrder(S) ==
  CHOOSE s \in [1..Cardinality(S) -> S] : \A i, j \in 1..Cardinality(S) : i < j => s[i] < s[j]

\* The members of the list s that are in S: a loop that skips the others.
Kept(s, S) ==
  LET places == InOrder({i \in 1..Len(s) : s[i] \in S})
  IN [i \in 1..Len(places) |-> s[places[i]]]

\* Mutant: positions counted from 1 where the rows count from 0, so only one survives.
ListManifestBlobs_FirstOnly(r, d) ==
  LET rows == {b \in blobRows : b.pos = 1 /\ \E m \in ByDigest(r, d) : b.man = m.id}
  IN [i \in 1..Cardinality(rows) |-> (CHOOSE b \in rows : TRUE).blob]

ListManifestBlobs(r, d) ==
  LET rows      == {b \in blobRows : \E m \in ByDigest(r, d) : b.man = m.id}
      positions == InOrder({b.pos : b \in rows})
  IN [i \in 1..Len(positions) |-> (CHOOSE b \in rows : b.pos = positions[i]).blob]

ListReferrers(r, s) == {m.digest : m \in {x \in RowsOf(r) : x.subject = s}}

resolveArtifactType(d) == IF ArtifactTypeOf[d] # None THEN ArtifactTypeOf[d] ELSE ConfigTypeOf[d]

\* The referrers of s, of one artifact type if one is asked for.
Referrers(r, s, type) == {d \in ListReferrers(r, s) : type = None \/ resolveArtifactType(d) = type}

\* Mutant: name >= last, the page begins with the name the client already has.
Page_Inclusive(names, last, n) ==
  LET ordered == InOrder({x \in names : x >= last})
  IN SubSeq(ordered, 1, IF n = 0 \/ Len(ordered) < n THEN Len(ordered) ELSE n)

\* ORDER BY name, name > last, LIMIT n; 0 stands for no last and for no limit.
Page(names, last, n) ==
  LET ordered == InOrder({x \in names : x > last})
  IN SubSeq(ordered, 1, IF n = 0 \/ Len(ordered) < n THEN Len(ordered) ELSE n)

Catalog(last, n) == Page({x.name : x \in repositories}, last, n)

ListTags(r, last, n) == Page({t.name : t \in TagsOf(r)}, last, n)

\* ListTags joined with each tag's manifest: a retag reports the manifest's own time.
ListTagsWithCreatedAt(r, last, n) ==
  LET names == ListTags(r, last, n)
  IN [i \in DOMAIN names |-> [name   |-> names[i],
                              at     |-> Selected(r, names[i]).at,
                              digest |-> Selected(r, names[i]).digest]]

(***************************************************************************)
(* created_at is text, RFC3339Nano, which drops the trailing zeros of the  *)
(* fraction and the dot of an empty one; MAX compares text.  A time here   *)
(* is a number of quarter seconds written with two binary digits: what     *)
(* matters is that '.' sorts below every digit and 'Z' above.              *)
(***************************************************************************)
PerSecond == 4
Dot  == 46
Zero == 48
Zulu == 90

\* Mutant: the time is written without its seconds.
Format_FractionOnly(t) ==
  LET f == t % PerSecond
  IN (IF f = 0 THEN <<>> ELSE <<Dot, Zero + (f \div 2), Zero + (f % 2)>>) \o <<Zulu>>

Format(t) ==
  LET seconds == t \div PerSecond
      f  == t % PerSecond
      hi == Zero + (f \div 2)
      lo == Zero + (f % 2)
  IN IF f = 0 THEN <<seconds, Zulu>>
     ELSE IF lo = Zero THEN <<seconds, Dot, hi, Zulu>> ELSE <<seconds, Dot, hi, lo, Zulu>>

TextBelow(s, t) ==
  \E i \in 1..Len(t) :
    /\ \A j \in 1..(i - 1) : j <= Len(s) /\ s[j] = t[j]
    /\ i > Len(s) \/ s[i] < t[i]

\* COUNT of the tags and MAX of their manifests' created_at, per repository.
RepositorySummary(r) ==
  LET times == {m.at : m \in {x \in RowsOf(r) : \E t \in TagsOf(r) : t.man = x.id}}
  IN [name  |-> r,
      count |-> Cardinality(TagsOf(r)),
      last  |-> IF times = {} THEN None
                ELSE CHOOSE x \in times : \A y \in times : ~TextBelow(Format(x), Format(y))]

\* The summaries of the repositories the reader may see, as in the catalog.
RepositorySummaries == {RepositorySummary(r) : r \in {x.name : x \in repositories} \cap Visible}
-----------------------------------------------------------------------------
(* Publishing a manifest. *)

\* A reference that is a digest must be the payload's own; then no tag is written.
TagOf(ref) == IF ref \in Digest THEN None ELSE ref

isCosignSignatureArtifactTag(t) == t \in Accessory

isReferrerArtifactPush(d, t) == SubjectOf[d] # None \/ isCosignSignatureArtifactTag(t)

BlobReferences(d) == Range(BlobsOf[d])

\* Parsing, then BlobExists for every descriptor: a missing blob refuses the push.
PublishManifest(c, r, ref, d) ==
  /\ call[c] = Idle
  /\ ref \in Digest => ref = d
  /\ BlobReferences(d) \subseteq disk
  /\ call' = [call EXCEPT ![c] = [op |-> "publish", repo |-> r, tag |-> TagOf(ref), digest |-> d,
                                  checked |-> SubjectOf[d] = None, lost |-> FALSE]]
  /\ UNCHANGED <<tables, disk, binary, marker>>

\* Mutant: a subject that is not found is let through.
CheckSubject_Lenient(c) ==
  /\ call[c].op = "publish" /\ ~call[c].checked
  /\ call' = [call EXCEPT ![c].checked = TRUE]
  /\ UNCHANGED <<tables, disk, binary, marker>>

\* The subject must be a manifest of the same repository.
CheckSubject(c) ==
  /\ call[c].op = "publish" /\ ~call[c].checked
  /\ call' = [call EXCEPT ![c] = IF ResolveManifest(@.repo, SubjectOf[@.digest]) # {}
                                 THEN [@ EXCEPT !.checked = TRUE] ELSE Idle]
  /\ UNCHANGED <<tables, disk, binary, marker>>

ensureRepository(r, id) ==
  IF RepoRow(r) # {} THEN repositories ELSE repositories \cup {[id |-> id, name |-> r]}

\* Mutant: pushed_by is in the DO UPDATE list.
UpsertManifest_TakesPusher(repo, d, u, at, id) ==
  LET same == {m \in manifests : m.repo = repo /\ m.digest = d}
  IN IF same = {}
     THEN manifests \cup {[id |-> id, repo |-> repo, digest |-> d, by |-> u, at |-> at,
                           subject |-> IF binary = "new" THEN SubjectOf[d] ELSE None,
                           behind |-> binary = "old" /\ marker]}
     ELSE (manifests \ same) \cup {[m EXCEPT !.by = u] : m \in same}

\* The INSERT ... ON CONFLICT DO UPDATE: the pusher and the time of a row that
\* exists stay; its subject follows the payload.  The older binary has no
\* subject_digest to write.
UpsertManifest(repo, d, u, at, id) ==
  LET same    == {m \in manifests : m.repo = repo /\ m.digest = d}
      subject == SubjectOf[d]
  IN IF same = {}
     THEN manifests \cup {[id |-> id, repo |-> repo, digest |-> d, by |-> u, at |-> at,
                           subject |-> IF binary = "new" THEN subject ELSE None,
                           behind |-> binary = "old" /\ marker]}
     ELSE (manifests \ same)
            \cup {[m EXCEPT !.subject = IF binary = "new" THEN subject ELSE @] : m \in same}

\* History for the properties: a write to r, which deleted the digests in gone, came
\* between the queries of request k.
Torn(k, r, gone) ==
  CASE k.op \in {"details", "resolve"} /\ k.repo = r -> [k EXCEPT !.torn = TRUE]
    [] k.op = "publish" /\ k.repo = r /\ k.checked /\ SubjectOf[k.digest] \in gone ->
         [k EXCEPT !.lost = TRUE]
    [] OTHER -> k

\* queuePushScan in a goroutine of its own, after the answer; module ScanRuns has the rest.
HandOverScan(c) ==
  /\ call[c].op = "scan"
  /\ call' = [call EXCEPT ![c] = Idle]
  /\ UNCHANGED <<tables, disk, binary, marker>>

\* The whole transaction, by principal u at time at; the push of an image is
\* followed by a scan.
CommitPublish(c, u, at) ==
  LET k     == call[c]
      repos == ensureRepository(k.repo, rowId + 1)
      repo  == (CHOOSE x \in repos : x.name = k.repo).id
      rows  == UpsertManifest(repo, k.digest, u, at, rowId + 2)
      man   == (CHOOSE m \in rows : m.repo = repo /\ m.digest = k.digest).id
  IN /\ k.op = "publish" /\ k.checked
     /\ rowId + 2 <= MaxRow
     /\ repositories' = repos
     /\ manifests' = rows
     /\ blobRows' = {b \in blobRows : b.man # man}
                      \cup {[man |-> man, pos |-> i, blob |-> BlobsOf[k.digest][i]] :
                              i \in DOMAIN BlobsOf[k.digest]}
     /\ tags' = IF k.tag = None THEN tags
                ELSE {t \in tags : ~(t.repo = repo /\ t.name = k.tag)}
                       \cup {[repo |-> repo, name |-> k.tag, man |-> man]}
     /\ rowId' = IF ByDigest(k.repo, k.digest) = {} THEN rowId + 2 ELSE rowId
     /\ call' = [x \in Client |->
                   IF x = c
                   THEN IF isReferrerArtifactPush(k.digest, k.tag) THEN Idle
                        ELSE [op |-> "scan", repo |-> k.repo, digest |-> k.digest]
                   ELSE Torn(call[x], k.repo, {})]
     /\ UNCHANGED <<disk, binary, marker>>
-----------------------------------------------------------------------------
(* Deleting.  Each is one transaction; the foreign keys cascade. *)

\* Mutant: foreign keys off, the tags stay behind.
DeleteManifestByDigest_NoCascade(r, d) ==
  LET gone == {m.id : m \in ByDigest(r, d)}
  IN /\ gone # {}
     /\ manifests' = {m \in manifests : m.id \notin gone}
     /\ call' = [c \in Client |-> Torn(call[c], r, {d})]
     /\ UNCHANGED <<repositories, tags, blobRows, rowId, disk, binary, marker>>

DeleteManifestByDigest(r, d) ==
  LET gone == {m.id : m \in ByDigest(r, d)}
  IN /\ gone # {}
     /\ manifests' = {m \in manifests : m.id \notin gone}
     /\ tags' = {t \in tags : t.man \notin gone}
     /\ blobRows' = {b \in blobRows : b.man \notin gone}
     /\ call' = [c \in Client |-> Torn(call[c], r, {d})]
     /\ UNCHANGED <<repositories, rowId, disk, binary, marker>>

\* Mutant: the DELETE does not look at the repository.
DeleteTag_AnyRepository(r, name) ==
  /\ {t \in TagsOf(r) : t.name = name} # {}
  /\ tags' = {t \in tags : t.name # name}
  /\ call' = [c \in Client |-> Torn(call[c], r, {})]
  /\ UNCHANGED <<repositories, manifests, blobRows, rowId, disk, binary, marker>>

DeleteTag(r, name) ==
  LET gone == {t \in TagsOf(r) : t.name = name}
  IN /\ gone # {}
     /\ tags' = tags \ gone
     /\ call' = [c \in Client |-> Torn(call[c], r, {})]
     /\ UNCHANGED <<repositories, manifests, blobRows, rowId, disk, binary, marker>>

DeleteRepository(r) ==
  LET repo == {x.id : x \in RepoRow(r)}
      gone == {m.id : m \in RowsOf(r)}
  IN /\ repo # {}
     /\ repositories' = {x \in repositories : x.name # r}
     /\ manifests' = {m \in manifests : m.repo \notin repo}
     /\ tags' = {t \in tags : t.repo \notin repo /\ t.man \notin gone}
     /\ blobRows' = {b \in blobRows : b.man \notin gone}
     /\ call' = [c \in Client |->
                   IF call[c].op = "page" THEN [call[c] EXCEPT !.alive = @ \ {r}]
                   ELSE Torn(call[c], r, {m.digest : m \in RowsOf(r)})]
     /\ UNCHANGED <<rowId, disk, binary, marker>>
-----------------------------------------------------------------------------
(* Reading in several queries. *)

\* TagDetails: one query lists the tags with their times, then the status of
\* every tag is read by its name, which resolves the tag a second time.
TagDetails(c, r) ==
  /\ call[c] = Idle
  /\ call' = [call EXCEPT ![c] =
                [op |-> "details", repo |-> r, torn |-> FALSE, answer |-> <<>>,
                 todo |-> LET all == ListTagsWithCreatedAt(r, 0, 0)
                          IN Kept(all, {t \in Range(all) : ~isCosignSignatureArtifactTag(t.name)})]]
  /\ UNCHANGED <<tables, disk, binary, marker>>

\* A tag that no longer resolves fails the whole answer.
TagStatus(c) ==
  /\ call[c].op = "details" /\ call[c].todo # <<>>
  /\ LET k == call[c]
         t == Head(k.todo)
     IN call' = [call EXCEPT ![c] =
                   IF ResolveManifest(k.repo, t.name) = {}
                   THEN [k EXCEPT !.todo = <<>>, !.answer = <<[name |-> t.name, failed |-> TRUE]>>]
                   ELSE [k EXCEPT !.todo = Tail(@),
                                  !.answer = Append(@, [name |-> t.name, failed |-> FALSE, at |-> t.at,
                                                        listed |-> t.digest,
                                                        status |-> Selected(k.repo, t.name).digest])]]
  /\ UNCHANGED <<tables, disk, binary, marker>>

\* ResolveManifest: the row, then the row's blobs in a query of their own.
Resolve(c, r, ref) ==
  /\ call[c] = Idle
  /\ \E m \in ResolveManifest(r, ref) :
       call' = [call EXCEPT ![c] = [op |-> "resolve", repo |-> r, digest |-> m.digest,
                                    torn |-> FALSE, done |-> FALSE, blobs |-> <<>>]]
  /\ UNCHANGED <<tables, disk, binary, marker>>

ResolveBlobs(c) ==
  /\ call[c].op = "resolve" /\ ~call[c].done
  /\ call' = [call EXCEPT ![c].done = TRUE,
                          ![c].blobs = ListManifestBlobs(call[c].repo, call[c].digest)]
  /\ UNCHANGED <<tables, disk, binary, marker>>

\* A client that pages the catalog asks for the names after the last one it got.
StartPaging(c) ==
  /\ call[c] = Idle
  /\ call' = [call EXCEPT ![c] = [op |-> "page", last |-> 0, got |-> <<>>, done |-> FALSE,
                                  alive |-> {x.name : x \in repositories}, hidden |-> 0]]
  /\ UNCHANGED <<tables, disk, binary, marker>>

\* Catalog filters a page after the LIMIT; the client stops at an empty answer.
NextPage(c) ==
  /\ call[c].op = "page" /\ ~call[c].done
  /\ LET k     == call[c]
         rows  == Catalog(k.last, Limit)
         shown == Kept(rows, Visible)
     IN call' = [call EXCEPT ![c] =
                   [k EXCEPT !.got  = @ \o shown,
                             !.last = IF shown = <<>> THEN @ ELSE shown[Len(shown)],
                             !.done = shown = <<>>,
                             !.hidden = Len(rows) - Len(shown)]]
  /\ UNCHANGED <<tables, disk, binary, marker>>

\* The answer is read and the client goes on.
Finish(c) ==
  /\ \/ call[c].op = "details" /\ call[c].todo = <<>>
     \/ call[c].op \in {"resolve", "page"} /\ call[c].done
  /\ call' = [call EXCEPT ![c] = Idle]
  /\ UNCHANGED <<tables, disk, binary, marker>>
-----------------------------------------------------------------------------
(* The server itself. *)

PutBlob(b) ==
  /\ b \notin disk
  /\ disk' = disk \cup {b}
  /\ UNCHANGED <<tables, binary, marker, call>>

\* Mutant: the marker is looked for and the rows are left.
backfillSubjectDigests_MarkerOnly == manifests

\* The rows without a subject whose payload names one; at most once per database.
backfillSubjectDigests ==
  IF marker THEN manifests
  ELSE {IF m.subject = None THEN [m EXCEPT !.subject = SubjectOf[m.digest]] ELSE m : m \in manifests}

\* The current binary opens the store; the requests of the old process are gone.
Upgrade ==
  /\ binary = "old"
  /\ binary' = "new"
  /\ manifests' = backfillSubjectDigests
  /\ marker' = TRUE
  /\ call' = [c \in Client |-> Idle]
  /\ UNCHANGED <<repositories, tags, blobRows, rowId, disk>>

\* The installer's rollback starts the older binary on the same database.
Downgrade ==
  /\ binary = "new"
  /\ binary' = "old"
  /\ call' = [c \in Client |-> Idle]
  /\ UNCHANGED <<tables, disk, marker>>
-----------------------------------------------------------------------------
Init ==
  /\ repositories = {} /\ manifests = {} /\ tags = {} /\ blobRows = {} /\ rowId = 0
  /\ disk = {} /\ binary = "old" /\ marker = FALSE
  /\ call = [c \in Client |-> Idle]

Publishing(c) ==
  \/ \E r \in Repo, ref \in Ref, d \in Digest : PublishManifest(c, r, ref, d)
  \/ CheckSubject(c) \/ HandOverScan(c)
  \/ \E u \in User, at \in Time : CommitPublish(c, u, at)

Reading(c) ==
  \/ \E r \in Visible : TagDetails(c, r) \/ \E ref \in Ref : Resolve(c, r, ref)
  \/ TagStatus(c) \/ ResolveBlobs(c) \/ StartPaging(c) \/ NextPage(c) \/ Finish(c)

Deleting(r) ==
  \/ \E d \in Digest : DeleteManifestByDigest(r, d)
  \/ \E t \in Tag : DeleteTag(r, t)
  \/ DeleteRepository(r)

Next ==
  \/ \E c \in Pusher : Publishing(c)
  \/ \E c \in Reader : Reading(c)
  \/ \E r \in Repo : Deleting(r)
  \/ \E b \in Blob : PutBlob(b)
  \/ Upgrade \/ Downgrade

Spec == Init /\ [][Next]_vars
-----------------------------------------------------------------------------
(* Properties. *)

\* What each repository holds, read off the tables.
ContentsOf ==
  [r \in Repo |->
     IF RepoRow(r) = {} THEN None
     ELSE [manifests |-> {[digest |-> m.digest, by |-> m.by, at |-> m.at] : m \in RowsOf(r)},
           tags      |-> UNION {{[name |-> t.name, digest |-> m.digest] :
                                   m \in {x \in manifests : x.id = t.man}} : t \in TagsOf(r)}]]

Contents == INSTANCE RegistryContents WITH contents <- ContentsOf

\* The store with its row numbers, upserts and cascades, driven by interleaved
\* requests, does what RegistryContents promises: every transaction of
\* PublishManifest, DeleteManifestByDigest, DeleteTag and DeleteRepository is one
\* of the four writes, and nothing else changes what a repository holds.
ImplementsContents == Contents!Spec

\* No row outlives the row it refers to, a tag's manifest is of the tag's own
\* repository, and every listed manifest has exactly its payload's blob rows, so
\* that the joins of ListTags, ResolveManifest and ListManifestBlobs lose nothing
\* (the cascades of DeleteManifestByDigest and DeleteRepository).
NoOrphanRows ==
  /\ \A m \in manifests : \E x \in repositories : x.id = m.repo
  /\ \A t \in tags : \E m \in manifests : m.id = t.man /\ m.repo = t.repo
  /\ \A b \in blobRows : \E m \in manifests : m.id = b.man
  /\ \A m \in manifests :
       {b \in blobRows : b.man = m.id} =
         {[man |-> m.id, pos |-> i, blob |-> BlobsOf[m.digest][i]] : i \in DOMAIN BlobsOf[m.digest]}

Dangling(r) == {m \in RowsOf(r) : SubjectOf[m.digest] # None /\ ByDigest(r, SubjectOf[m.digest]) = {}}

\* A referrer loses its subject only to a delete: of the subject itself, or one that
\* came between PublishManifest's check of the subject and its commit.
DanglingNeedsDelete ==
  [][\A r \in Repo : \A m \in Dangling(r)' :
       \/ \E n \in Dangling(r) : n.id = m.id
       \/ ByDigest(r, SubjectOf[m.digest]) # {}
       \/ \E c \in Pusher : call[c].op = "publish" /\ call[c].lost /\ call[c].repo = r
                              /\ call[c].digest = m.digest]_vars

\* The referrers of a manifest are all listed, with and without a filter, those pushed before the
\* subject_digest column existed included; one is missing only when the older
\* binary came back and wrote it behind the marker of the one-time backfill.
ReferrersComplete ==
  binary = "new" =>
    \A r \in Repo : \A m \in RowsOf(r) :
      LET s == SubjectOf[m.digest]
      IN s # None /\ ~m.behind =>
           \A type \in {None, resolveArtifactType(m.digest)} : m.digest \in Referrers(r, s, type)

\* An answer put together from several queries is the state of one instant unless
\* a write to the same repository came between them: TagDetails pairs a time with
\* the status of the manifest that has it, and fails only for a tag that went
\* away; ResolveManifest names all the blobs of its manifest.
TornOnlyByWrites ==
  \A c \in Client :
    /\ call[c].op = "details" /\ ~call[c].torn =>
         \A i \in DOMAIN call[c].answer :
           LET a == call[c].answer[i]
           IN /\ ~a.failed /\ a.listed = a.status
              /\ \E m \in ByDigest(call[c].repo, a.status) : m.at = a.at
    /\ call[c].op = "resolve" =>
         (call[c].done /\ ~call[c].torn => call[c].blobs = BlobsOf[call[c].digest])

\* A client that pages the catalog gets names in order and none twice, and misses
\* a repository that it may read and that was there all the time only when a whole
\* page of repositories it may not read stood before it (Catalog filters after the
\* LIMIT, and there is no link to a next page).
PagingMissesOnlyBehindHidden ==
  \A c \in Client : call[c].op = "page" =>
    /\ \A i, j \in DOMAIN call[c].got : i < j => call[c].got[i] < call[c].got[j]
    /\ call[c].done /\ call[c].hidden < Limit =>
         call[c].alive \cap Visible \subseteq Range(call[c].got)

\* The last push a summary reports is that of the latest tagged manifest, except
\* among pushes of one second, where MAX over RFC3339Nano text may prefer an
\* earlier one: text orders times of different seconds, whatever their fractions.
SecondsOrdered ==
  \A t, u \in 0..(3 * PerSecond - 1) :
    t \div PerSecond < u \div PerSecond => TextBelow(Format(t), Format(u)) /\ ~TextBelow(Format(u), Format(t))

LastPushedWithinSecond ==
  /\ SecondsOrdered
  /\ \A s \in RepositorySummaries : \A m \in RowsOf(s.name) :
       (\E t \in TagsOf(s.name) : t.man = m.id)
         => m.at \div PerSecond <= s.last \div PerSecond

\* What a listing leaves out and what it says last: a page of the catalog, the
\* referrers of a manifest, the summary of a repository and the joins of all of
\* them, each with its exception above.
ListingsComplete ==
  NoOrphanRows /\ ReferrersComplete /\ PagingMissesOnlyBehindHidden /\ LastPushedWithinSecond
=============================================================================
