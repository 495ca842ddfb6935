--------------------------- MODULE RegistryProofs ---------------------------
(***************************************************************************)
(* Theorems about Registry, for any number of repositories, tags, payloads *)
(* and concurrent requests: the four tables implement RegistryContents,    *)
(* and what the listings rely on.                                          *)
(*                                                                         *)
(* The argument.  Row numbers are handed out once, names and digests are   *)
(* unique where the schema says so, and no row outlives the row it refers  *)
(* to.  So a repository is one row, a digest in it is one manifest, and a  *)
(* tag leads to one manifest of its own repository; then every transaction *)
(* can be read off the tables as one write to one repository.              *)
(*                                                                         *)
(* A request that reads in several queries is followed by ReadInv: as long *)
(* as no write to its repository came between, the tables still hold every *)
(* row it was told of, and a client that pages has got every name up to    *)
(* its last one.  The listings themselves (ORDER BY, LIMIT, filters, MAX   *)
(* over text) rest on InOrder, whose lemmas are proved by the least        *)
(* counterexample.                                                         *)
(***************************************************************************)
EXTENDS Registry, FiniteSetTheorems, WellFoundedInduction, TLAPS

-----------------------------------------------------------------------------
(***************************************************************************)
(* The inductive invariant.                                                *)
(***************************************************************************)
RepositoryRow == [id : Nat, name : Repo]
ManifestRow == [id : Nat, repo : Nat, digest : Digest, by : User, at : Time,
                subject : Digest \cup {None}, behind : BOOLEAN]
TagRow == [repo : Nat, name : Tag, man : Nat]

\* The tables repos, ms and ts, when n is the last row number handed out.
Rows(repos, ms, ts, n) ==
    /\ n \in Nat
    /\ repos \subseteq RepositoryRow /\ ms \subseteq ManifestRow /\ ts \subseteq TagRow
    /\ \A x \in repos : x.id <= n
    /\ \A m \in ms : m.id <= n

UniqueRows(repos, ms) ==
    /\ \A x, y \in repos : x.id = y.id \/ x.name = y.name => x = y
    /\ \A m, o \in ms : m.id = o.id => m = o
    /\ \A m, o \in ms : m.repo = o.repo /\ m.digest = o.digest => m = o

References(repos, ms, ts) ==
    /\ \A m \in ms : \E x \in repos : x.id = m.repo
    /\ \A t \in ts : \E m \in ms : m.id = t.man /\ m.repo = t.repo

Tables(repos, ms, ts, n) ==
    Rows(repos, ms, ts, n) /\ UniqueRows(repos, ms) /\ References(repos, ms, ts)

TInv == Tables(repositories, manifests, tags, rowId)

\* The requests that will write.
PublishCall == [op : {"publish"}, repo : Repo, tag : Tag \cup {None}, digest : Digest,
                checked : BOOLEAN, lost : BOOLEAN]

CInv == /\ DOMAIN call = Client
        /\ \A c \in Client : /\ "op" \in DOMAIN call[c]
                             /\ call[c].op = "publish" => call[c] \in PublishCall

\* Repository r holds digest d.
Has(repos, ms, r, d) == \E x \in repos, m \in ms : x.name = r /\ m.repo = x.id /\ m.digest = d

\* The subject of a push that was checked is there, unless a delete came after the check.
SubjectHeld(k, repos, ms) ==
    k.op = "publish" /\ k.checked /\ ~k.lost /\ SubjectOf[k.digest] # None
      => Has(repos, ms, k.repo, SubjectOf[k.digest])

PInv == \A c \in Client : SubjectHeld(call[c], repositories, manifests)

\* The manifest_blobs rows of a manifest: its payload's blobs and no others.
BlobRows(i, d) == {[man |-> i, pos |-> k, blob |-> BlobsOf[d][k]] : k \in DOMAIN BlobsOf[d]}

Blobs(ms, bs) ==
    /\ \A b \in bs : \E m \in ms : m.id = b.man
    /\ \A m \in ms : {b \in bs : b.man = m.id} = BlobRows(m.id, m.digest)

BInv == Blobs(manifests, blobRows)

\* A subject column is empty or right, and right once the backfill has run, but
\* for the rows the older binary wrote after it.
Subjects(ms, filled) ==
    \A m \in ms : /\ m.subject \in {None, SubjectOf[m.digest]}
                  /\ filled /\ ~m.behind => m.subject = SubjectOf[m.digest]

SInv == /\ binary \in {"old", "new"} /\ marker \in BOOLEAN
        /\ binary = "new" => marker
        /\ Subjects(manifests, marker)

IInv == TInv /\ CInv /\ PInv /\ BInv /\ SInv

-----------------------------------------------------------------------------
(***************************************************************************)
(* What the tables say of one repository.                                  *)
(***************************************************************************)
Holding(repos, ms, ts, r) ==
    IF {x \in repos : x.name = r} = {} THEN None
    ELSE [manifests |-> {[digest |-> m.digest, by |-> m.by, at |-> m.at] :
                           m \in {y \in ms : \E x \in {z \in repos : z.name = r} : y.repo = x.id}},
          tags |-> UNION {{[name |-> t.name, digest |-> m.digest] :
                             m \in {y \in ms : y.id = t.man}} :
                            t \in {s \in ts : \E x \in {z \in repos : z.name = r} : s.repo = x.id}}]

ManifestsIn(i, ms) ==
    {[digest |-> m.digest, by |-> m.by, at |-> m.at] : m \in {y \in ms : y.repo = i}}

TagsIn(i, ms, ts) ==
    UNION {{[name |-> t.name, digest |-> m.digest] : m \in {y \in ms : y.id = t.man}} :
             t \in {s \in ts : s.repo = i}}

(* The mapping, repository by repository.                                  *)
LEMMA ContentsAreHoldings ==
    /\ ContentsOf = [r \in Repo |-> Holding(repositories, manifests, tags, r)]
    /\ ContentsOf' = [r \in Repo |-> Holding(repositories', manifests', tags', r)]
BY DEF ContentsOf, Holding, RepoRow, RowsOf, TagsOf

(* What is listed, element by element.                                     *)
LEMMA ManifestListed ==
    ASSUME NEW i, NEW ms
    PROVE  \A e : e \in ManifestsIn(i, ms) <=>
             \E m \in ms : m.repo = i /\ e = [digest |-> m.digest, by |-> m.by, at |-> m.at]
BY DEF ManifestsIn

(* The same for tags: a tag lists the manifest it leads to.                *)
LEMMA TagListed ==
    ASSUME NEW i, NEW ms, NEW ts
    PROVE  \A e : e \in TagsIn(i, ms, ts) <=>
             \E t \in ts, m \in ms :
                t.repo = i /\ m.id = t.man /\ e = [name |-> t.name, digest |-> m.digest]
BY DEF TagsIn

(* A repository is its one row.                                            *)
LEMMA HoldingOfRow ==
    ASSUME NEW repos, NEW ms, NEW ts, UniqueRows(repos, ms), NEW x \in repos
    PROVE  Holding(repos, ms, ts, x.name) =
             [manifests |-> ManifestsIn(x.id, ms), tags |-> TagsIn(x.id, ms, ts)]
<1>1. {z \in repos : z.name = x.name} = {x}
  BY DEF UniqueRows
<1>2. {y \in ms : \E z \in {z \in repos : z.name = x.name} : y.repo = z.id}
        = {y \in ms : y.repo = x.id}
  BY <1>1
<1>3. {s \in ts : \E z \in {z \in repos : z.name = x.name} : s.repo = z.id}
        = {s \in ts : s.repo = x.id}
  BY <1>1
<1> QED
  BY <1>1, <1>2, <1>3 DEF Holding, ManifestsIn, TagsIn

(* Without a row the repository is absent.                                 *)
LEMMA HoldingOfNoRow ==
    ASSUME NEW repos, NEW ms, NEW ts, NEW r, \A x \in repos : x.name # r
    PROVE  Holding(repos, ms, ts, r) = None
BY DEF Holding

(* The subject and the history of a manifest row are not listed.           *)
Like(m, o) == /\ m.id = o.id /\ m.repo = o.repo /\ m.digest = o.digest
              /\ m.by = o.by /\ m.at = o.at

Alike(ms, os) == /\ \A m \in ms : \E o \in os : Like(m, o)
                 /\ \A o \in os : \E m \in ms : Like(m, o)

(* Rows that differ in them only list the same.                            *)
LEMMA AlikeListed ==
    ASSUME NEW ms, NEW os, Alike(ms, os), NEW i, NEW ts
    PROVE  ManifestsIn(i, ms) = ManifestsIn(i, os) /\ TagsIn(i, ms, ts) = TagsIn(i, os, ts)
<1>1. \A e : e \in ManifestsIn(i, ms) <=> e \in ManifestsIn(i, os)
  BY ManifestListed DEF Alike, Like
<1>2. \A e : e \in TagsIn(i, ms, ts) <=> e \in TagsIn(i, os, ts)
  BY TagListed DEF Alike, Like
<1> QED
  BY <1>1, <1>2

-----------------------------------------------------------------------------
(***************************************************************************)
(* The transactions.                                                       *)
(***************************************************************************)

(* A listed repository is not the absent one.                              *)
LEMMA HoldingsAreNotNone ==
    ASSUME NEW repos, NEW ms, NEW ts, NEW n, Tables(repos, ms, ts, n), NEW i
    PROVE  [manifests |-> ManifestsIn(i, ms), tags |-> TagsIn(i, ms, ts)] # None
<1>1. \A e \in ManifestsIn(i, ms) : e \in [digest : Digest, by : User, at : Time]
  BY ManifestListed DEF Tables, Rows, ManifestRow
<1>2. \A e \in TagsIn(i, ms, ts) : e \in [name : Tag, digest : Digest]
  BY TagListed DEF Tables, Rows, ManifestRow, TagRow
<1>3. [manifests |-> ManifestsIn(i, ms), tags |-> TagsIn(i, ms, ts)]
        \in [manifests : SUBSET [digest : Digest, by : User, at : Time],
             tags : SUBSET [name : Tag, digest : Digest]]
  BY <1>1, <1>2
<1> QED
  BY <1>3, Registry_Constants

\* What PublishManifest's transaction leaves: the repository's row x, the
\* manifest's row m, new or written over, and the tag.
Published(r, t, d, u, at, x, m) ==
    /\ x \in repositories' /\ x.name = r
    /\ m \in manifests' /\ m.repo = x.id /\ m.digest = d
    /\ \/ repositories' = repositories
       \/ /\ \A y \in repositories : y.name # r
          /\ x = [id |-> rowId + 1, name |-> r] /\ repositories' = repositories \cup {x}
    /\ \/ /\ \A o \in manifests : ~(o.repo = x.id /\ o.digest = d)
          /\ m.id = rowId + 2 /\ m.by = u /\ m.at = at /\ m \in ManifestRow
          /\ m.subject = (IF binary = "new" THEN SubjectOf[d] ELSE None)
          /\ m.behind = (binary = "old" /\ marker)
          /\ manifests' = manifests \cup {m} /\ rowId' = rowId + 2
       \/ \E o \in manifests :
            /\ Like(m, o) /\ m \in ManifestRow /\ m.behind = o.behind
            /\ m.subject = (IF binary = "new" THEN SubjectOf[d] ELSE o.subject)
            /\ repositories' = repositories
            /\ manifests' = (manifests \ {o}) \cup {m} /\ rowId' = rowId
    /\ tags' = (IF t = None THEN tags
                ELSE {s \in tags : ~(s.repo = x.id /\ s.name = t)}
                       \cup {[repo |-> x.id, name |-> t, man |-> m.id]})
    /\ blobRows' = {b \in blobRows : b.man # m.id}
                     \cup {[man |-> m.id, pos |-> i, blob |-> BlobsOf[d][i]] :
                             i \in DOMAIN BlobsOf[d]}

(* CommitPublish is that transaction.                                      *)
LEMMA CommitPublishes ==
    ASSUME TInv, CInv, NEW c \in Client, NEW u \in User, NEW at \in Time,
           CommitPublish(c, u, at)
    PROVE  \E x, m : Published(call[c].repo, call[c].tag, call[c].digest, u, at, x, m)
<1> DEFINE r == call[c].repo
           d == call[c].digest
           repos == ensureRepository(r, rowId + 1)
           x == CHOOSE z \in repos : z.name = r
           rows == UpsertManifest(x.id, d, u, at, rowId + 2)
           m == CHOOSE z \in rows : z.repo = x.id /\ z.digest = d
           same == {o \in manifests : o.repo = x.id /\ o.digest = d}
           sub == IF binary = "new" THEN SubjectOf[d] ELSE None
<1>1. /\ repositories' = repos /\ manifests' = rows
      /\ blobRows' = {b \in blobRows : b.man # m.id}
                       \cup {[man |-> m.id, pos |-> i, blob |-> BlobsOf[d][i]] :
                               i \in DOMAIN BlobsOf[d]}
      /\ tags' = (IF call[c].tag = None THEN tags
                  ELSE {s \in tags : ~(s.repo = x.id /\ s.name = call[c].tag)}
                         \cup {[repo |-> x.id, name |-> call[c].tag, man |-> m.id]})
      /\ rowId' = (IF ByDigest(r, d) = {} THEN rowId + 2 ELSE rowId)
  BY DEF CommitPublish
<1>2. /\ call[c].op = "publish" /\ r \in Repo /\ d \in Digest
      /\ SubjectOf[d] \in Digest \cup {None} /\ sub \in Digest \cup {None}
  BY Registry_Constants DEF CommitPublish, CInv, PublishCall
<1>3. /\ rowId \in Nat /\ repositories \subseteq RepositoryRow /\ manifests \subseteq ManifestRow
      /\ \A y \in repositories : y.id <= rowId
      /\ \A y, z \in repositories : y.id = z.id \/ y.name = z.name => y = z
      /\ \A o, p \in manifests : o.repo = p.repo /\ o.digest = p.digest => o = p
      /\ \A o \in manifests : \E y \in repositories : y.id = o.repo
  BY DEF TInv, Tables, Rows, UniqueRows, References
<1>4. /\ x \in repos /\ x.name = r
      /\ \/ repos = repositories
         \/ /\ \A y \in repositories : y.name # r
            /\ x = [id |-> rowId + 1, name |-> r] /\ repos = repositories \cup {x}
  <2>1. CASE RepoRow(r) # {}
    <3>1. repos = repositories /\ \E z \in repos : z.name = r
      BY <2>1 DEF ensureRepository, RepoRow
    <3> HIDE DEF repos
    <3> QED
      BY <3>1
  <2>2. CASE RepoRow(r) = {}
    <3>1. repos = repositories \cup {[id |-> rowId + 1, name |-> r]}
      BY <2>2 DEF ensureRepository
    <3>2. \A y \in repositories : y.name # r
      BY <2>2 DEF RepoRow
    <3> HIDE DEF repos
    <3>3. [id |-> rowId + 1, name |-> r] \in repos /\ [id |-> rowId + 1, name |-> r].name = r
      BY <3>1
    <3>4. x \in repos /\ x.name = r
      BY <3>3
    <3> QED
      BY <3>1, <3>2, <3>4
  <2> QED
    BY <2>1, <2>2
<1> HIDE DEF repos, x
<1>5. x.id \in Nat
  BY <1>3, <1>4 DEF RepositoryRow
<1>6. ByDigest(r, d) = {} <=> same = {}
  <2>1. CASE repos = repositories
    <3>1. RepoRow(r) = {x}
      BY <1>3, <1>4, <2>1 DEF RepoRow
    <3> QED
      BY <3>1 DEF ByDigest, RowsOf
  <2>2. CASE x = [id |-> rowId + 1, name |-> r] /\ \A y \in repositories : y.name # r
    <3>1. RepoRow(r) = {} /\ x.id = rowId + 1
      BY <2>2 DEF RepoRow
    <3>2. \A o \in manifests : o.repo # x.id
      BY <1>3, <3>1 DEF RepositoryRow
    <3> QED
      BY <3>1, <3>2 DEF ByDigest, RowsOf
  <2> QED
    BY <1>4, <2>1, <2>2
<1>6a. repos # repositories => same = {}
  <2> SUFFICES ASSUME repos # repositories, NEW o \in same PROVE FALSE
    OBVIOUS
  <2>1. x.id = rowId + 1 /\ o \in manifests /\ o.repo = x.id
    BY <1>4
  <2> QED
    BY <1>3, <2>1 DEF RepositoryRow
<1>7. CASE same = {}
  <2> DEFINE new == [id |-> rowId + 2, repo |-> x.id, digest |-> d, by |-> u, at |-> at,
                     subject |-> sub, behind |-> binary = "old" /\ marker]
  <2>1. rows = manifests \cup {new}
    BY <1>7 DEF UpsertManifest
  <2>2. new.repo = x.id /\ new.digest = d /\ new \in ManifestRow
    BY <1>2, <1>3, <1>5 DEF ManifestRow
  <2>3. /\ new.id = rowId + 2 /\ new.by = u /\ new.at = at /\ new.subject = sub
        /\ new.behind = (binary = "old" /\ marker)
    OBVIOUS
  <2> HIDE DEF new, rows, sub
  <2>4. m \in rows /\ m.repo = x.id /\ m.digest = d
    BY <2>1, <2>2
  <2>5. m = new
    BY <1>7, <2>1, <2>4
  <2> HIDE DEF m
  <2>6. /\ \A o \in manifests : ~(o.repo = x.id /\ o.digest = d)
        /\ m.id = rowId + 2 /\ m.by = u /\ m.at = at /\ m \in ManifestRow
        /\ m.subject = sub /\ m.behind = (binary = "old" /\ marker)
        /\ manifests' = manifests \cup {m} /\ rowId' = rowId + 2
    BY <1>1, <1>6, <1>7, <2>1, <2>2, <2>3, <2>5
  <2>7. Published(r, call[c].tag, d, u, at, x, m)
    BY <1>1, <1>4, <2>4, <2>6 DEF Published, sub
  <2> QED
    BY <2>7
<1>8. CASE same # {}
  <2>1. PICK o \in same : TRUE
    BY <1>8
  <2> DEFINE n == [o EXCEPT !.subject = IF binary = "new" THEN SubjectOf[d] ELSE o.subject]
  <2>2. o \in manifests /\ o.repo = x.id /\ o.digest = d /\ o \in ManifestRow /\ same = {o}
    BY <1>3, <2>1
  <2>3. rows = (manifests \ {o}) \cup {n}
    <3>1. rows = (manifests \ same)
                   \cup {[z EXCEPT !.subject = IF binary = "new" THEN SubjectOf[d] ELSE @] :
                           z \in same}
      BY <1>8 DEF UpsertManifest
    <3> QED
      BY <2>2, <3>1
  <2>4. /\ n \in ManifestRow /\ Like(n, o) /\ n.behind = o.behind
        /\ n.subject = (IF binary = "new" THEN SubjectOf[d] ELSE o.subject)
        /\ n.repo = x.id /\ n.digest = d
    BY <1>2, <2>2 DEF ManifestRow, Like
  <2> HIDE DEF n, rows
  <2>5. m \in rows /\ m.repo = x.id /\ m.digest = d
    BY <2>3, <2>4
  <2>6. m = n
    BY <1>3, <2>2, <2>3, <2>5
  <2> HIDE DEF m
  <2>7. /\ Like(m, o) /\ m \in ManifestRow /\ m.behind = o.behind
        /\ m.subject = (IF binary = "new" THEN SubjectOf[d] ELSE o.subject)
        /\ repositories' = repositories
        /\ manifests' = (manifests \ {o}) \cup {m} /\ rowId' = rowId
    BY <1>1, <1>6, <1>6a, <1>8, <2>3, <2>4, <2>6
  <2>8. Published(r, call[c].tag, d, u, at, x, m)
    BY <1>1, <1>4, <2>2, <2>5, <2>7 DEF Published
  <2> QED
    BY <2>8
<1> QED
  BY <1>7, <1>8

(* The statements of the transactions, and the constraints of the schema.  *)
LEMMA InsertRepository ==
    ASSUME NEW repos, NEW ms, NEW ts, NEW n, Tables(repos, ms, ts, n), NEW r \in Repo,
           \A y \in repos : y.name # r, NEW x, x = [id |-> n + 1, name |-> r]
    PROVE  Tables(repos \cup {x}, ms, ts, n + 1)
<1>1. x.id = n + 1 /\ x.name = r /\ x \in RepositoryRow /\ n \in Nat
  BY DEF RepositoryRow, Tables, Rows
<1>2. \A y \in repos : y.id \in Nat /\ y.id <= n
  BY DEF Tables, Rows, RepositoryRow
<1>3. Rows(repos \cup {x}, ms, ts, n + 1)
  BY <1>1, <1>2 DEF Tables, Rows, ManifestRow
<1>4. UniqueRows(repos \cup {x}, ms)
  BY <1>1, <1>2 DEF Tables, UniqueRows
<1>5. References(repos \cup {x}, ms, ts)
  BY DEF Tables, References
<1> QED
  BY <1>3, <1>4, <1>5 DEF Tables

(* A new manifest row gets a new number.                                   *)
LEMMA InsertManifest ==
    ASSUME NEW repos, NEW ms, NEW ts, NEW n, Tables(repos, ms, ts, n), NEW m \in ManifestRow,
           m.id > n, NEW x \in repos, m.repo = x.id,
           \A o \in ms : ~(o.repo = m.repo /\ o.digest = m.digest)
    PROVE  Tables(repos, ms \cup {m}, ts, m.id)
<1>1. m.id \in Nat /\ n \in Nat /\ \A o \in ms : o.id \in Nat /\ o.id <= n
  BY DEF Tables, Rows, ManifestRow
<1>2. Rows(repos, ms \cup {m}, ts, m.id)
  BY <1>1 DEF Tables, Rows, RepositoryRow
<1>3. UniqueRows(repos, ms \cup {m})
  BY <1>1 DEF Tables, UniqueRows
<1>4. References(repos, ms \cup {m}, ts)
  BY DEF Tables, References
<1> QED
  BY <1>2, <1>3, <1>4 DEF Tables

(* Manifest rows written over with another subject.                        *)
LEMMA UpdateManifests ==
    ASSUME NEW repos, NEW ms, NEW os, NEW ts, NEW n, Tables(repos, ms, ts, n),
           os \subseteq ManifestRow, Alike(ms, os), \A o, p \in os : o.id = p.id => o = p
    PROVE  Tables(repos, os, ts, n)
<1>1. Rows(repos, os, ts, n)
  BY DEF Tables, Rows, Alike, Like
<1>2. UniqueRows(repos, os)
  BY DEF Tables, UniqueRows, Alike, Like
<1>3. References(repos, os, ts)
  BY DEF Tables, References, Alike, Like
<1> QED
  BY <1>1, <1>2, <1>3 DEF Tables

(* The upsert of one row.                                                  *)
LEMMA OneUpdated ==
    ASSUME NEW repos, NEW ms, NEW ts, NEW n, Tables(repos, ms, ts, n),
           NEW o \in ms, NEW m \in ManifestRow, Like(m, o)
    PROVE  Alike(ms, (ms \ {o}) \cup {m}) /\ Tables(repos, (ms \ {o}) \cup {m}, ts, n)
<1>1. Alike(ms, (ms \ {o}) \cup {m})
  BY DEF Alike, Like
<1>2. \A p, q \in (ms \ {o}) \cup {m} : p.id = q.id => p = q
  BY DEF Tables, UniqueRows, Like
<1>3. (ms \ {o}) \cup {m} \subseteq ManifestRow
  BY DEF Tables, Rows
<1> QED
  BY <1>1, <1>2, <1>3, UpdateManifests

(* A tag row leads to a manifest of its own repository.                    *)
LEMMA WriteTags ==
    ASSUME NEW repos, NEW ms, NEW ts, NEW us, NEW n, Tables(repos, ms, ts, n),
           \A s \in us : \/ s \in ts
                         \/ s \in TagRow /\ \E m \in ms : m.id = s.man /\ m.repo = s.repo
    PROVE  Tables(repos, ms, us, n)
BY DEF Tables, Rows, References

(* The constraints of the schema hold after a push.                        *)
LEMMA PublishedTables ==
    ASSUME TInv, NEW r \in Repo, NEW t \in Tag \cup {None}, NEW d \in Digest,
           NEW u \in User, NEW at \in Time, NEW x, NEW m, Published(r, t, d, u, at, x, m)
    PROVE  TInv'
<1>0. /\ m \in manifests' /\ x \in repositories' /\ m.repo = x.id /\ m.digest = d
      /\ rowId \in Nat /\ Tables(repositories, manifests, tags, rowId)
  BY DEF Published, TInv, Tables, Rows
<1>1. Tables(repositories', manifests', tags, rowId') /\ m \in ManifestRow
  <2>1. CASE /\ \A o \in manifests : ~(o.repo = x.id /\ o.digest = d)
             /\ m.id = rowId + 2 /\ m \in ManifestRow
             /\ manifests' = manifests \cup {m} /\ rowId' = rowId + 2
    <3>1. CASE repositories' = repositories
      <4>1. m.id > rowId
        BY <1>0, <2>1
      <4> QED
        BY <1>0, <2>1, <3>1, <4>1, InsertManifest
    <3>2. CASE /\ \A y \in repositories : y.name # r
               /\ x = [id |-> rowId + 1, name |-> r] /\ repositories' = repositories \cup {x}
      <4>1. Tables(repositories', manifests, tags, rowId + 1)
        BY <1>0, <3>2, InsertRepository
      <4>2. m.id > rowId + 1
        BY <1>0, <2>1
      <4> QED
        BY <1>0, <2>1, <4>1, <4>2, InsertManifest
    <3> QED
      BY <3>1, <3>2 DEF Published
  <2>2. CASE \E o \in manifests :
                /\ Like(m, o) /\ m \in ManifestRow /\ repositories' = repositories
                /\ manifests' = (manifests \ {o}) \cup {m} /\ rowId' = rowId
    BY <1>0, <2>2, OneUpdated
  <2> QED
    BY <2>1, <2>2 DEF Published
<1>2. x.id \in Nat /\ m.id \in Nat
  BY <1>0, <1>1 DEF ManifestRow
<1>3. \A s \in tags' : \/ s \in tags
                       \/ s \in TagRow /\ \E o \in manifests' : o.id = s.man /\ o.repo = s.repo
  BY <1>0, <1>2 DEF Published, TagRow
<1>4. Tables(repositories', manifests', tags', rowId')
  BY <1>1, <1>3, WriteTags
<1> QED
  BY <1>4 DEF TInv

(* A push is the abstract Put on its repository, and touches no other.     *)
LEMMA PublishedContents ==
    ASSUME TInv, NEW r \in Repo, NEW t \in Tag \cup {None}, NEW d \in Digest,
           NEW u \in User, NEW at \in Time, NEW x, NEW m, Published(r, t, d, u, at, x, m)
    PROVE  /\ Holding(repositories', manifests', tags', r) =
                Contents!Put(Holding(repositories, manifests, tags, r), t, d, u, at)
           /\ \A q \in Repo \ {r} : Holding(repositories', manifests', tags', q) =
                                    Holding(repositories, manifests, tags, q)
<1> DEFINE H(i) == [manifests |-> ManifestsIn(i, manifests), tags |-> TagsIn(i, manifests, tags)]
           H1(i) == [manifests |-> ManifestsIn(i, manifests'),
                     tags |-> TagsIn(i, manifests', tags')]
<1>0. /\ m \in manifests' /\ x \in repositories' /\ x.name = r /\ m.repo = x.id /\ m.digest = d
      /\ rowId \in Nat /\ Tables(repositories, manifests, tags, rowId)
      /\ UniqueRows(repositories, manifests) /\ UniqueRows(repositories', manifests')
      /\ References(repositories, manifests, tags)
  <2>1. TInv'
    BY PublishedTables
  <2> QED
    BY <2>1 DEF Published, TInv, Tables, Rows
<1>1. Contents!Held(Holding(repositories, manifests, tags, r)) = H(x.id)
  <2>1. CASE x \in repositories
    <3>1. Holding(repositories, manifests, tags, r) = H(x.id) /\ H(x.id) # None
      BY <1>0, <2>1, HoldingOfRow, HoldingsAreNotNone
    <3> QED
      BY <3>1 DEF Contents!Held, Contents!Absent
  <2>2. CASE /\ \A y \in repositories : y.name # r
             /\ x = [id |-> rowId + 1, name |-> r]
    <3>1. Holding(repositories, manifests, tags, r) = None
      BY <2>2, HoldingOfNoRow
    <3>2. \A o \in manifests : o.repo # x.id
      <4>1. x.id = rowId + 1 /\ \A y \in repositories : y.id \in Nat /\ y.id <= rowId
        BY <1>0, <2>2 DEF Tables, Rows, RepositoryRow
      <4> QED
        BY <1>0, <4>1 DEF References
    <3>3. \A s \in tags : s.repo # x.id
      BY <1>0, <3>2 DEF References
    <3>4. \A e : e \notin ManifestsIn(x.id, manifests)
      BY <3>2, ManifestListed
    <3>5. \A e : e \notin TagsIn(x.id, manifests, tags)
      BY <3>3, TagListed
    <3>6. ManifestsIn(x.id, manifests) = {} /\ TagsIn(x.id, manifests, tags) = {}
      BY <3>4, <3>5
    <3> QED
      BY <3>1, <3>6 DEF Contents!Held, Contents!Absent, Contents!Empty
  <2> QED
    BY <1>0, <2>1, <2>2 DEF Published
<1>2. \A i : /\ ManifestsIn(i, manifests') =
                  IF i = x.id /\ ~\E o \in manifests : o.repo = x.id /\ o.digest = d
                  THEN ManifestsIn(i, manifests) \cup {[digest |-> d, by |-> u, at |-> at]}
                  ELSE ManifestsIn(i, manifests)
             /\ TagsIn(i, manifests', tags) = TagsIn(i, manifests, tags)
  <2>1. CASE /\ \A o \in manifests : ~(o.repo = x.id /\ o.digest = d)
             /\ m.id = rowId + 2 /\ m.by = u /\ m.at = at
             /\ manifests' = manifests \cup {m}
    <3> SUFFICES ASSUME NEW i
                 PROVE  /\ ManifestsIn(i, manifests') =
                             IF i = x.id THEN ManifestsIn(i, manifests)
                                                \cup {[digest |-> d, by |-> u, at |-> at]}
                             ELSE ManifestsIn(i, manifests)
                        /\ TagsIn(i, manifests', tags) = TagsIn(i, manifests, tags)
      BY <2>1
    <3>1. \A e : e \in ManifestsIn(i, manifests') <=>
                   \/ e \in ManifestsIn(i, manifests)
                   \/ i = x.id /\ e = [digest |-> d, by |-> u, at |-> at]
      BY <1>0, <2>1, ManifestListed
    <3>2. \A s \in tags : s.man # m.id
      BY <1>0, <2>1 DEF References, Tables, Rows, ManifestRow
    <3>3. \A e : e \in TagsIn(i, manifests', tags) <=> e \in TagsIn(i, manifests, tags)
      BY <2>1, <3>2, TagListed
    <3> QED
      BY <3>1, <3>3
  <2>2. ASSUME NEW o \in manifests, Like(m, o), m \in ManifestRow,
               manifests' = (manifests \ {o}) \cup {m}
        PROVE  \A i : /\ ManifestsIn(i, manifests') = ManifestsIn(i, manifests)
                      /\ TagsIn(i, manifests', tags) = TagsIn(i, manifests, tags)
                      /\ o.repo = x.id /\ o.digest = d
    <3>1. Alike(manifests, manifests')
      BY <1>0, <2>2, OneUpdated
    <3>2. o.repo = x.id /\ o.digest = d
      BY <1>0, <2>2 DEF Like
    <3> QED
      BY <3>1, <3>2, AlikeListed
  <2> QED
    BY <2>1, <2>2 DEF Published
<1>3. \A i : TagsIn(i, manifests', tags') =
               IF i = x.id /\ t # None
               THEN {e \in TagsIn(i, manifests, tags) : e.name # t}
                      \cup {[name |-> t, digest |-> d]}
               ELSE TagsIn(i, manifests, tags)
  <2>1. CASE t = None
    BY <1>2, <2>1 DEF Published
  <2>2. CASE t # None
    <3> DEFINE s0 == [repo |-> x.id, name |-> t, man |-> m.id]
    <3>1. tags' = {s \in tags : ~(s.repo = x.id /\ s.name = t)} \cup {s0}
      BY <2>2 DEF Published
    <3>2. s0.repo = x.id /\ s0.name = t /\ s0.man = m.id
      OBVIOUS
    <3> HIDE DEF s0
    <3>3. \A o \in manifests' : o.id = m.id => o = m
      BY <1>0 DEF UniqueRows
    <3>4. ASSUME NEW i
          PROVE  TagsIn(i, manifests', tags') =
                   IF i = x.id THEN {e \in TagsIn(i, manifests', tags) : e.name # t}
                                      \cup {[name |-> t, digest |-> d]}
                   ELSE TagsIn(i, manifests', tags)
      <4>1. \A e : e \in TagsIn(i, manifests', tags') <=>
                     \/ \E s \in tags, o \in manifests' :
                           /\ ~(s.repo = x.id /\ s.name = t) /\ s.repo = i /\ o.id = s.man
                           /\ e = [name |-> s.name, digest |-> o.digest]
                     \/ i = x.id /\ e = [name |-> t, digest |-> d]
        BY <1>0, <3>1, <3>2, <3>3, TagListed
      <4>2. \A e : (e \in TagsIn(i, manifests', tags) /\ (i = x.id => e.name # t)) <=>
                     \E s \in tags, o \in manifests' :
                           /\ ~(s.repo = x.id /\ s.name = t) /\ s.repo = i /\ o.id = s.man
                           /\ e = [name |-> s.name, digest |-> o.digest]
        BY TagListed
      <4>3. CASE i = x.id
        <5>1. \A e : e \in TagsIn(i, manifests', tags') <=>
                       \/ e \in {f \in TagsIn(i, manifests', tags) : f.name # t}
                       \/ e = [name |-> t, digest |-> d]
          BY <4>1, <4>2, <4>3
        <5> QED
          BY <4>3, <5>1
      <4>4. CASE i # x.id
        <5>1. \A e : e \in TagsIn(i, manifests', tags') <=> e \in TagsIn(i, manifests', tags)
          BY <4>1, <4>2, <4>4
        <5> QED
          BY <4>4, <5>1
      <4> QED
        BY <4>3, <4>4
    <3> QED
      BY <1>2, <2>2, <3>4
  <2> QED
    BY <2>1, <2>2
<1>4. (\E e \in ManifestsIn(x.id, manifests) : e.digest = d)
        <=> (\E o \in manifests : o.repo = x.id /\ o.digest = d)
  <2>1. ASSUME NEW o \in manifests, o.repo = x.id, o.digest = d
        PROVE  \E e \in ManifestsIn(x.id, manifests) : e.digest = d
    <3>1. [digest |-> o.digest, by |-> o.by, at |-> o.at] \in ManifestsIn(x.id, manifests)
      BY <2>1, ManifestListed
    <3> QED
      BY <2>1, <3>1
  <2>2. ASSUME NEW e \in ManifestsIn(x.id, manifests), e.digest = d
        PROVE  \E o \in manifests : o.repo = x.id /\ o.digest = d
    <3>1. PICK o \in manifests : o.repo = x.id
                                 /\ e = [digest |-> o.digest, by |-> o.by, at |-> o.at]
      BY ManifestListed
    <3> QED
      BY <2>2, <3>1
  <2> QED
    BY <2>1, <2>2
<1>5. Holding(repositories', manifests', tags', r) =
        Contents!Put(Holding(repositories, manifests, tags, r), t, d, u, at)
  <2>1. Holding(repositories', manifests', tags', r) = H1(x.id)
    BY <1>0, HoldingOfRow
  <2>2. H(x.id).manifests = ManifestsIn(x.id, manifests)
        /\ H(x.id).tags = TagsIn(x.id, manifests, tags)
    OBVIOUS
  <2>3. Contents!Put(Holding(repositories, manifests, tags, r), t, d, u, at) =
          [manifests |-> IF \E e \in ManifestsIn(x.id, manifests) : e.digest = d
                         THEN ManifestsIn(x.id, manifests)
                         ELSE ManifestsIn(x.id, manifests)
                                \cup {[digest |-> d, by |-> u, at |-> at]},
           tags |-> IF t = None THEN TagsIn(x.id, manifests, tags)
                    ELSE {e \in TagsIn(x.id, manifests, tags) : e.name # t}
                           \cup {[name |-> t, digest |-> d]}]
    BY <1>1, <2>2 DEF Contents!Put
  <2> QED
    BY <1>2, <1>3, <1>4, <2>1, <2>3
<1>6. ASSUME NEW q \in Repo, q # r
      PROVE  Holding(repositories', manifests', tags', q) =
             Holding(repositories, manifests, tags, q)
  <2>1. CASE \E y \in repositories : y.name = q
    <3>1. PICK y \in repositories : y.name = q
      BY <2>1
    <3>2. y \in repositories' /\ y.id # x.id
      BY <1>0, <1>6, <3>1 DEF Published, UniqueRows
    <3>3. Holding(repositories, manifests, tags, q) = H(y.id)
      BY <1>0, <3>1, HoldingOfRow
    <3>4. Holding(repositories', manifests', tags', q) = H1(y.id)
      BY <1>0, <3>1, <3>2, HoldingOfRow
    <3> QED
      BY <1>2, <1>3, <3>2, <3>3, <3>4
  <2>2. CASE ~\E y \in repositories : y.name = q
    <3>1. \A y \in repositories' : y.name # q
      BY <1>0, <1>6, <2>2 DEF Published
    <3> QED
      BY <2>2, <3>1, HoldingOfNoRow
  <2> QED
    BY <2>1, <2>2
<1> QED
  BY <1>5, <1>6

(* One repository is written in one of the abstract ways.                  *)
LEMMA WrittenIsStep ==
    ASSUME NEW r \in Repo,
           Holding(repositories', manifests', tags', r)
             \in Contents!Written(Holding(repositories, manifests, tags, r)),
           \A q \in Repo \ {r} : Holding(repositories', manifests', tags', q) =
                                 Holding(repositories, manifests, tags, q)
    PROVE  [Contents!Next]_ContentsOf
<1>1. CASE Holding(repositories', manifests', tags', r) =
           Holding(repositories, manifests, tags, r)
  BY <1>1, ContentsAreHoldings
<1>2. CASE Holding(repositories', manifests', tags', r) #
           Holding(repositories, manifests, tags, r)
  <2>1. /\ \A q \in Repo : ContentsOf[q] = Holding(repositories, manifests, tags, q)
        /\ \A q \in Repo : ContentsOf'[q] = Holding(repositories', manifests', tags', q)
    BY ContentsAreHoldings
  <2>2. Contents!Change(r, ContentsOf, ContentsOf')
    BY <1>2, <2>1 DEF Contents!Change
  <2> QED
    BY <2>2 DEF Contents!Next
<1> QED
  BY <1>1, <1>2

(* PublishManifest's transaction.                                          *)
LEMMA CommitPublishStep ==
    ASSUME TInv, CInv, NEW c \in Client, NEW u \in User, NEW at \in Time,
           CommitPublish(c, u, at)
    PROVE  TInv' /\ [Contents!Next]_ContentsOf
<1>1. /\ call[c].repo \in Repo /\ call[c].tag \in Tag \cup {None} /\ call[c].digest \in Digest
  BY DEF CommitPublish, CInv, PublishCall
<1>2. PICK x, m : Published(call[c].repo, call[c].tag, call[c].digest, u, at, x, m)
  BY CommitPublishes
<1>3. Contents!Put(Holding(repositories, manifests, tags, call[c].repo),
                   call[c].tag, call[c].digest, u, at)
        \in Contents!Written(Holding(repositories, manifests, tags, call[c].repo))
  BY <1>1 DEF Contents!Written
<1> QED
  BY <1>1, <1>2, <1>3, PublishedTables, PublishedContents, WrittenIsStep

(* What deleting a tag leaves of a holding.                                *)
LEMMA UntagFields ==
    ASSUME NEW A, NEW B, NEW t
    PROVE  Contents!Untag([manifests |-> A, tags |-> B], t) =
             [manifests |-> A, tags |-> {e \in B : e.name # t}]
<1> DEFINE h == [manifests |-> A, tags |-> B]
<1>1. h.tags = B /\ h.manifests = A /\ DOMAIN h = {"manifests", "tags"}
  OBVIOUS
<1>2. Contents!Untag(h, t) = [h EXCEPT !.tags = {e \in h.tags : e.name # t}]
  BY DEF Contents!Untag
<1>3. Contents!Untag(h, t) = [h EXCEPT !.tags = {e \in B : e.name # t}]
  BY <1>1, <1>2
<1>4. ASSUME NEW C PROVE [h EXCEPT !.tags = C] = [manifests |-> A, tags |-> C]
  OBVIOUS
<1> QED
  BY <1>3, <1>4

(* DeleteTag.                                                              *)
LEMMA DeleteTagStep ==
    ASSUME TInv, NEW r \in Repo, NEW name \in Tag, DeleteTag(r, name)
    PROVE  TInv' /\ [Contents!Next]_ContentsOf
<1>0. /\ Tables(repositories, manifests, tags, rowId) /\ UniqueRows(repositories, manifests)
      /\ References(repositories, manifests, tags)
  BY DEF TInv, Tables
<1>1. PICK x \in repositories : x.name = r
  BY DEF DeleteTag, TagsOf, RepoRow
<1>2. /\ UNCHANGED <<repositories, manifests, rowId>>
      /\ tags' = {t \in tags : ~(t.repo = x.id /\ t.name = name)}
      /\ \E t \in tags : t.repo = x.id /\ t.name = name
  <2>1. RepoRow(r) = {x}
    BY <1>0, <1>1 DEF RepoRow, UniqueRows
  <2> QED
    BY <2>1 DEF DeleteTag, TagsOf
<1>3. TInv'
  BY <1>0, <1>2, WriteTags DEF TInv
<1> DEFINE H(i) == [manifests |-> ManifestsIn(i, manifests), tags |-> TagsIn(i, manifests, tags)]
           H1(i) == [manifests |-> ManifestsIn(i, manifests),
                     tags |-> TagsIn(i, manifests, tags')]
<1>4. \A y \in repositories : /\ Holding(repositories, manifests, tags, y.name) = H(y.id)
                              /\ Holding(repositories, manifests, tags', y.name) = H1(y.id)
                              /\ H(y.id) # None
  BY <1>0, HoldingOfRow, HoldingsAreNotNone
<1>5. TagsIn(x.id, manifests, tags') = {e \in TagsIn(x.id, manifests, tags) : e.name # name}
  <2>1. \A e : e \in TagsIn(x.id, manifests, tags') <=>
                 e \in TagsIn(x.id, manifests, tags) /\ e.name # name
    BY <1>2, TagListed
  <2> QED
    BY <2>1
<1>6. Holding(repositories', manifests', tags', r) = Contents!Untag(H(x.id), name)
  <2>1. Holding(repositories', manifests', tags', r) = H1(x.id)
    BY <1>1, <1>2, <1>4
  <2>2. ASSUME NEW A, NEW B
        PROVE  Contents!Untag([manifests |-> A, tags |-> B], name) =
                 [manifests |-> A, tags |-> {e \in B : e.name # name}]
    BY UntagFields
  <2>3. Contents!Untag(H(x.id), name) =
          [manifests |-> ManifestsIn(x.id, manifests),
           tags |-> {e \in TagsIn(x.id, manifests, tags) : e.name # name}]
    BY <2>2
  <2> QED
    BY <1>5, <2>1, <2>3
<1>7. \E e \in TagsIn(x.id, manifests, tags) : e.name = name
  <2>1. PICK t \in tags : t.repo = x.id /\ t.name = name
    BY <1>2
  <2>2. PICK m \in manifests : m.id = t.man
    BY <1>0 DEF References
  <2>3. [name |-> t.name, digest |-> m.digest] \in TagsIn(x.id, manifests, tags)
    BY <2>1, <2>2, TagListed
  <2> QED
    BY <2>1, <2>3
<1>8. Holding(repositories', manifests', tags', r)
        \in Contents!Written(Holding(repositories, manifests, tags, r))
  <2>1. Holding(repositories, manifests, tags, r) = H(x.id) /\ H(x.id) # None
    BY <1>1, <1>4
  <2>2. name \in {e.name : e \in H(x.id).tags}
    BY <1>7
  <2> HIDE DEF H
  <2> QED
    BY <1>6, <2>1, <2>2 DEF Contents!Written, Contents!Absent
<1>9. ASSUME NEW q \in Repo \ {r}
      PROVE  Holding(repositories', manifests', tags', q) =
             Holding(repositories, manifests, tags, q)
  <2>1. CASE \E y \in repositories : y.name = q
    <3>1. PICK y \in repositories : y.name = q
      BY <2>1
    <3>2. y.id # x.id
      BY <1>0, <1>1, <3>1 DEF UniqueRows
    <3>3. \A e : e \in TagsIn(y.id, manifests, tags') <=> e \in TagsIn(y.id, manifests, tags)
      BY <1>2, <3>2, TagListed
    <3>4. TagsIn(y.id, manifests, tags') = TagsIn(y.id, manifests, tags)
      BY <3>3
    <3> QED
      BY <1>2, <1>4, <3>1, <3>4
  <2>2. CASE ~\E y \in repositories : y.name = q
    BY <1>2, <2>2, HoldingOfNoRow
  <2> QED
    BY <2>1, <2>2
<1> QED
  BY <1>3, <1>8, <1>9, WrittenIsStep

(* Rows that go together: the manifests selected by D, with their tags.    *)
LEMMA CascadeTables ==
    ASSUME NEW repos, NEW ms, NEW ts, NEW n, Tables(repos, ms, ts, n),
           NEW rs \in SUBSET repos, NEW os \in SUBSET ms, NEW us \in SUBSET ts,
           \A o \in os : \A x \in repos : x.id = o.repo => x \in rs,
           \A t \in us : \A m \in ms : m.id = t.man => m \in os
    PROVE  Tables(rs, os, us, n)
<1>1. Rows(rs, os, us, n)
  BY DEF Tables, Rows
<1>2. UniqueRows(rs, os)
  BY DEF Tables, UniqueRows
<1>3. References(rs, os, us)
  BY DEF Tables, References
<1> QED
  BY <1>1, <1>2, <1>3 DEF Tables

(* The rows DeleteManifestByDigest deletes.                                *)
LEMMA DeletedManifest ==
    ASSUME TInv, NEW r \in Repo, NEW d \in Digest, DeleteManifestByDigest(r, d)
    PROVE  \E x \in repositories, g \in manifests :
             /\ x.name = r /\ g.repo = x.id /\ g.digest = d
             /\ UNCHANGED <<repositories, rowId>>
             /\ manifests' = manifests \ {g}
             /\ tags' = {t \in tags : t.man # g.id}
             /\ blobRows' = {b \in blobRows : b.man # g.id}
<1>0. UniqueRows(repositories, manifests)
  BY DEF TInv, Tables
<1>1. PICK x \in repositories : x.name = r
  BY DEF DeleteManifestByDigest, ByDigest, RowsOf, RepoRow
<1>2. RepoRow(r) = {x}
  BY <1>0, <1>1 DEF RepoRow, UniqueRows
<1>3. PICK g \in manifests : g.repo = x.id /\ g.digest = d
  BY <1>2 DEF DeleteManifestByDigest, ByDigest, RowsOf
<1>4. {m.id : m \in ByDigest(r, d)} = {g.id}
  BY <1>0, <1>2, <1>3 DEF ByDigest, RowsOf, UniqueRows
<1>5. /\ UNCHANGED <<repositories, rowId>>
      /\ manifests' = manifests \ {g}
      /\ tags' = {t \in tags : t.man # g.id}
      /\ blobRows' = {b \in blobRows : b.man # g.id}
  BY <1>0, <1>3, <1>4 DEF DeleteManifestByDigest, UniqueRows
<1> QED
  BY <1>1, <1>3, <1>5

(* DeleteManifestByDigest.                                                 *)
LEMMA DeleteManifestStep ==
    ASSUME TInv, NEW r \in Repo, NEW d \in Digest, DeleteManifestByDigest(r, d)
    PROVE  TInv' /\ [Contents!Next]_ContentsOf
<1>0. /\ Tables(repositories, manifests, tags, rowId) /\ UniqueRows(repositories, manifests)
      /\ References(repositories, manifests, tags)
  BY DEF TInv, Tables
<1>1. PICK x \in repositories, g \in manifests :
             /\ x.name = r /\ g.repo = x.id /\ g.digest = d
             /\ UNCHANGED <<repositories, rowId>>
             /\ manifests' = manifests \ {g}
             /\ tags' = {t \in tags : t.man # g.id}
  BY DeletedManifest
<1>3. g.repo = x.id /\ g.digest = d
  BY <1>1
<1>5. /\ UNCHANGED <<repositories, rowId>>
      /\ manifests' = manifests \ {g}
      /\ tags' = {t \in tags : t.man # g.id}
  BY <1>1
<1>6. TInv'
  <2>1. Tables(repositories, manifests', tags', rowId)
    BY <1>0, <1>5, CascadeTables
  <2> QED
    BY <1>5, <2>1 DEF TInv
<1> DEFINE H(i) == [manifests |-> ManifestsIn(i, manifests), tags |-> TagsIn(i, manifests, tags)]
           H1(i) == [manifests |-> ManifestsIn(i, manifests'),
                     tags |-> TagsIn(i, manifests', tags')]
<1>7. \A y \in repositories : /\ Holding(repositories, manifests, tags, y.name) = H(y.id)
                              /\ Holding(repositories, manifests', tags', y.name) = H1(y.id)
                              /\ H(y.id) # None
  <2>1. UniqueRows(repositories, manifests')
    BY <1>5, <1>6 DEF TInv, Tables
  <2> QED
    BY <1>0, <2>1, HoldingOfRow, HoldingsAreNotNone
<1>8. \A m \in manifests : m.repo = x.id => (m = g <=> m.digest = d)
  BY <1>0, <1>3 DEF UniqueRows
<1>9. ManifestsIn(x.id, manifests') = {e \in ManifestsIn(x.id, manifests) : e.digest # d}
  <2>1. \A e : e \in ManifestsIn(x.id, manifests') <=>
                 e \in ManifestsIn(x.id, manifests) /\ e.digest # d
    BY <1>5, <1>8, ManifestListed
  <2> QED
    BY <2>1
<1>10. \A t \in tags, m \in manifests : m.id = t.man => m.repo = t.repo
  BY <1>0 DEF References, UniqueRows
<1>11. TagsIn(x.id, manifests', tags') = {e \in TagsIn(x.id, manifests, tags) : e.digest # d}
  <2>1. \A e : e \in TagsIn(x.id, manifests', tags') <=>
                 e \in TagsIn(x.id, manifests, tags) /\ e.digest # d
    <3>1. \A t \in tags, m \in manifests : t.repo = x.id /\ m.id = t.man =>
             (m \in manifests' /\ t \in tags' <=> m.digest # d)
      BY <1>0, <1>5, <1>8, <1>10 DEF UniqueRows
    <3> QED
      BY <1>5, <3>1, TagListed
  <2> QED
    BY <2>1
<1>12. Holding(repositories', manifests', tags', r) = Contents!Remove(H(x.id), d)
  BY <1>1, <1>5, <1>7, <1>9, <1>11 DEF Contents!Remove
<1>13. Holding(repositories', manifests', tags', r)
        \in Contents!Written(Holding(repositories, manifests, tags, r))
  <2>1. Holding(repositories, manifests, tags, r) = H(x.id) /\ H(x.id) # None
    BY <1>1, <1>7
  <2>2. [digest |-> g.digest, by |-> g.by, at |-> g.at] \in H(x.id).manifests
    BY <1>3, ManifestListed
  <2>3. d \in {e.digest : e \in H(x.id).manifests}
    BY <1>3, <2>2
  <2> HIDE DEF H
  <2> QED
    BY <1>12, <2>1, <2>3 DEF Contents!Written, Contents!Absent
<1>14. ASSUME NEW q \in Repo \ {r}
      PROVE  Holding(repositories', manifests', tags', q) =
             Holding(repositories, manifests, tags, q)
  <2>1. CASE \E y \in repositories : y.name = q
    <3>1. PICK y \in repositories : y.name = q
      BY <2>1
    <3>2. y.id # x.id
      BY <1>0, <1>1, <3>1 DEF UniqueRows
    <3>3. \A e : e \in ManifestsIn(y.id, manifests') <=> e \in ManifestsIn(y.id, manifests)
      BY <1>3, <1>5, <3>2, ManifestListed
    <3>4. \A t \in tags, m \in manifests : t.repo = y.id /\ m.id = t.man =>
             m \in manifests' /\ t \in tags'
      BY <1>3, <1>5, <1>10, <3>2
    <3>5. \A e : e \in TagsIn(y.id, manifests', tags') <=> e \in TagsIn(y.id, manifests, tags)
      BY <1>5, <3>4, TagListed
    <3>6. /\ TagsIn(y.id, manifests', tags') = TagsIn(y.id, manifests, tags)
          /\ ManifestsIn(y.id, manifests') = ManifestsIn(y.id, manifests)
      BY <3>3, <3>5
    <3> QED
      BY <1>5, <1>7, <3>1, <3>6
  <2>2. CASE ~\E y \in repositories : y.name = q
    BY <1>5, <2>2, HoldingOfNoRow
  <2> QED
    BY <2>1, <2>2
<1> QED
  BY <1>6, <1>13, <1>14, WrittenIsStep

(* The rows DeleteRepository deletes.                                      *)
LEMMA DeletedRepository ==
    ASSUME TInv, NEW r \in Repo, DeleteRepository(r)
    PROVE  \E x \in repositories :
             /\ x.name = r /\ RowsOf(r) = {m \in manifests : m.repo = x.id}
             /\ rowId' = rowId /\ repositories' = repositories \ {x}
             /\ manifests' = {m \in manifests : m.repo # x.id}
             /\ tags' = {t \in tags : t.repo # x.id}
             /\ blobRows' = {b \in blobRows : \A m \in manifests : m.repo = x.id => b.man # m.id}
<1>0. UniqueRows(repositories, manifests) /\ References(repositories, manifests, tags)
  BY DEF TInv, Tables
<1>1. PICK x \in repositories : x.name = r
  BY DEF DeleteRepository, RepoRow
<1>2. RepoRow(r) = {x}
  BY <1>0, <1>1 DEF RepoRow, UniqueRows
<1>3. \A t \in tags, m \in manifests : m.id = t.man => m.repo = t.repo
  BY <1>0 DEF References, UniqueRows
<1>4. {y.id : y \in RepoRow(r)} = {x.id} /\ RowsOf(r) = {m \in manifests : m.repo = x.id}
  BY <1>2 DEF RowsOf
<1>5. \A t \in tags : t.repo # x.id => t.man \notin {m.id : m \in RowsOf(r)}
  BY <1>3, <1>4
<1>6. {y \in repositories : y.name # r} = repositories \ {x}
  BY <1>0, <1>1 DEF UniqueRows
<1>7. /\ rowId' = rowId /\ repositories' = repositories \ {x}
      /\ manifests' = {m \in manifests : m.repo # x.id}
      /\ tags' = {t \in tags : t.repo # x.id}
  BY <1>4, <1>5, <1>6 DEF DeleteRepository
<1>8. blobRows' = {b \in blobRows : \A m \in manifests : m.repo = x.id => b.man # m.id}
  <2>1. blobRows' = {b \in blobRows : b.man \notin {m.id : m \in RowsOf(r)}}
    BY DEF DeleteRepository
  <2> QED
    BY <1>4, <2>1
<1> QED
  BY <1>1, <1>4, <1>7, <1>8

(* DeleteRepository.                                                       *)
LEMMA DeleteRepositoryStep ==
    ASSUME TInv, NEW r \in Repo, DeleteRepository(r)
    PROVE  TInv' /\ [Contents!Next]_ContentsOf
<1>0. /\ Tables(repositories, manifests, tags, rowId) /\ UniqueRows(repositories, manifests)
      /\ References(repositories, manifests, tags)
  BY DEF TInv, Tables
<1>1. PICK x \in repositories :
             /\ x.name = r
             /\ rowId' = rowId /\ repositories' = repositories \ {x}
             /\ manifests' = {m \in manifests : m.repo # x.id}
             /\ tags' = {t \in tags : t.repo # x.id}
  BY DeletedRepository
<1>3. \A t \in tags, m \in manifests : m.id = t.man => m.repo = t.repo
  BY <1>0 DEF References, UniqueRows
<1>4. /\ rowId' = rowId /\ repositories' = repositories \ {x}
      /\ manifests' = {m \in manifests : m.repo # x.id}
      /\ tags' = {t \in tags : t.repo # x.id}
  BY <1>1
<1>5. TInv'
  <2>1. Tables(repositories', manifests', tags', rowId)
    <3>1. \A o \in manifests' : \A y \in repositories : y.id = o.repo => y \in repositories'
      BY <1>4
    <3>2. \A t \in tags' : \A m \in manifests : m.id = t.man => m \in manifests'
      BY <1>3, <1>4
    <3>3. /\ repositories' \in SUBSET repositories /\ manifests' \in SUBSET manifests
          /\ tags' \in SUBSET tags
      BY <1>4
    <3> QED
      BY <1>0, <3>1, <3>2, <3>3, CascadeTables
  <2> QED
    BY <1>4, <2>1 DEF TInv
<1>6. Holding(repositories', manifests', tags', r) = None
  <2>1. \A y \in repositories' : y.name # r
    BY <1>0, <1>1, <1>4 DEF UniqueRows
  <2> QED
    BY <2>1, HoldingOfNoRow
<1>7. Holding(repositories', manifests', tags', r)
        \in Contents!Written(Holding(repositories, manifests, tags, r))
  <2> DEFINE h == [manifests |-> ManifestsIn(x.id, manifests),
                   tags |-> TagsIn(x.id, manifests, tags)]
  <2>1. Holding(repositories, manifests, tags, r) = h /\ h # None
    BY <1>0, <1>1, HoldingOfRow, HoldingsAreNotNone
  <2> HIDE DEF h
  <2> QED
    BY <1>6, <2>1 DEF Contents!Written, Contents!Absent
<1>8. ASSUME NEW q \in Repo \ {r}
      PROVE  Holding(repositories', manifests', tags', q) =
             Holding(repositories, manifests, tags, q)
  <2>1. CASE \E y \in repositories : y.name = q
    <3>1. PICK y \in repositories : y.name = q
      BY <2>1
    <3>2. y.id # x.id /\ y \in repositories'
      BY <1>0, <1>1, <1>4, <3>1 DEF UniqueRows
    <3>3. \A e : e \in ManifestsIn(y.id, manifests') <=> e \in ManifestsIn(y.id, manifests)
      BY <1>4, <3>2, ManifestListed
    <3>4. \A t \in tags, m \in manifests : t.repo = y.id /\ m.id = t.man =>
             m \in manifests' /\ t \in tags'
      BY <1>3, <1>4, <3>2
    <3>5. \A e : e \in TagsIn(y.id, manifests', tags') <=> e \in TagsIn(y.id, manifests, tags)
      BY <1>4, <3>4, TagListed
    <3>6. /\ TagsIn(y.id, manifests', tags') = TagsIn(y.id, manifests, tags)
          /\ ManifestsIn(y.id, manifests') = ManifestsIn(y.id, manifests)
      BY <3>3, <3>5
    <3>7. UniqueRows(repositories', manifests')
      BY <1>5 DEF TInv, Tables
    <3>8. Holding(repositories, manifests, tags, y.name) =
            [manifests |-> ManifestsIn(y.id, manifests), tags |-> TagsIn(y.id, manifests, tags)]
      BY <1>0, HoldingOfRow
    <3>9. Holding(repositories', manifests', tags', y.name) =
            [manifests |-> ManifestsIn(y.id, manifests'),
             tags |-> TagsIn(y.id, manifests', tags')]
      BY <3>2, <3>7, HoldingOfRow
    <3> QED
      BY <3>1, <3>6, <3>8, <3>9
  <2>2. CASE ~\E y \in repositories : y.name = q
    BY <1>4, <2>2, HoldingOfNoRow
  <2> QED
    BY <2>1, <2>2
<1> QED
  BY <1>5, <1>7, <1>8, WrittenIsStep

-----------------------------------------------------------------------------
(***************************************************************************)
(* Blob rows and subjects.                                                 *)
(***************************************************************************)

(* The rows of a manifest carry its number.                                *)
LEMMA BlobRowsOfOne == ASSUME NEW i, NEW d PROVE \A b \in BlobRows(i, d) : b.man = i
BY DEF BlobRows

(* A push writes the blob rows of its manifest and keeps the others.       *)
LEMMA PublishedBlobs ==
    ASSUME TInv, BInv, NEW r \in Repo, NEW t, NEW d \in Digest,
           NEW u, NEW at, NEW x, NEW m, Published(r, t, d, u, at, x, m)
    PROVE  BInv'
<1>1. /\ m \in manifests' /\ m.digest = d /\ m.id \in Nat /\ rowId \in Nat
      /\ \A o \in manifests : o.id \in Nat /\ o.id <= rowId
      /\ \A o, p \in manifests : o.id = p.id => o = p
  BY DEF Published, TInv, Tables, Rows, UniqueRows, ManifestRow
<1>2. blobRows' = {b \in blobRows : b.man # m.id} \cup BlobRows(m.id, d)
  BY DEF Published, BlobRows
<1>3. \A o \in manifests' : o = m \/ (o \in manifests /\ o.id # m.id)
  <2>1. CASE m.id = rowId + 2 /\ manifests' = manifests \cup {m}
    BY <1>1, <2>1
  <2>2. CASE \E o \in manifests : Like(m, o) /\ manifests' = (manifests \ {o}) \cup {m}
    BY <1>1, <2>2 DEF Like
  <2> QED
    BY <2>1, <2>2 DEF Published
<1>4. \A o \in manifests : o.id = m.id \/ o \in manifests'
  BY DEF Published, Like
<1>5. \A b \in blobRows' : \E o \in manifests' : o.id = b.man
  BY <1>1, <1>2, <1>4, BlobRowsOfOne DEF BInv, Blobs
<1>6. ASSUME NEW o \in manifests'
      PROVE  {b \in blobRows' : b.man = o.id} = BlobRows(o.id, o.digest)
  <2>1. CASE o = m
    BY <1>1, <1>2, <2>1, BlobRowsOfOne
  <2>2. CASE o \in manifests /\ o.id # m.id
    <3>1. {b \in blobRows' : b.man = o.id} = {b \in blobRows : b.man = o.id}
      BY <1>2, <2>2, BlobRowsOfOne
    <3> QED
      BY <2>2, <3>1 DEF BInv, Blobs
  <2> QED
    BY <1>3, <2>1, <2>2
<1> QED
  BY <1>5, <1>6 DEF BInv, Blobs

(* A delete takes the blob rows of its manifests along.                    *)
LEMMA CascadeBlobs ==
    ASSUME NEW ms, NEW bs, Blobs(ms, bs), NEW os \in SUBSET ms, NEW cs,
           \A m, o \in ms : m.id = o.id => m = o,
           \A b : b \in cs <=> b \in bs /\ \A m \in ms \ os : b.man # m.id
    PROVE  Blobs(os, cs)
<1>1. \A b \in cs : \E o \in os : o.id = b.man
  BY DEF Blobs
<1>2. ASSUME NEW o \in os PROVE {b \in cs : b.man = o.id} = BlobRows(o.id, o.digest)
  <2>1. {b \in cs : b.man = o.id} = {b \in bs : b.man = o.id}
    OBVIOUS
  <2> QED
    BY <2>1 DEF Blobs
<1> QED
  BY <1>1, <1>2 DEF Blobs

(* Every row of a push has its subject, or is behind the marker.           *)
LEMMA PublishedSubjects ==
    ASSUME TInv, SInv, NEW r \in Repo, NEW t, NEW d \in Digest, NEW u, NEW at, NEW x, NEW m,
           Published(r, t, d, u, at, x, m), UNCHANGED <<binary, marker>>
    PROVE  SInv'
<1>1. \A o \in manifests' : o = m \/ o \in manifests
  BY DEF Published
<1>2. /\ m.subject \in {None, SubjectOf[m.digest]}
      /\ marker /\ ~m.behind => m.subject = SubjectOf[m.digest]
  <2>0. m.digest = d
    BY DEF Published
  <2>1. CASE /\ m.subject = (IF binary = "new" THEN SubjectOf[d] ELSE None)
             /\ m.behind = (binary = "old" /\ marker)
    BY <2>0, <2>1 DEF SInv
  <2>2. CASE \E o \in manifests :
               /\ Like(m, o) /\ m.behind = o.behind
               /\ m.subject = (IF binary = "new" THEN SubjectOf[d] ELSE o.subject)
    BY <2>0, <2>2 DEF SInv, Subjects, Like
  <2> QED
    BY <2>1, <2>2 DEF Published
<1> QED
  BY <1>1, <1>2 DEF SInv, Subjects

-----------------------------------------------------------------------------
(***************************************************************************)
(* The requests.                                                           *)
(***************************************************************************)

(* The history a write leaves in a request changes nothing else of it.     *)
LEMMA TornCall ==
    ASSUME NEW k, "op" \in DOMAIN k, k.op = "publish" => k \in PublishCall, NEW r, NEW gone
    PROVE  /\ "op" \in DOMAIN Torn(k, r, gone) /\ Torn(k, r, gone).op = k.op
           /\ k.op = "publish" =>
                /\ Torn(k, r, gone) \in PublishCall
                /\ Torn(k, r, gone).repo = k.repo /\ Torn(k, r, gone).digest = k.digest
                /\ Torn(k, r, gone).checked = k.checked
                /\ ~Torn(k, r, gone).lost =>
                     ~k.lost /\ ~(k.repo = r /\ k.checked /\ SubjectOf[k.digest] \in gone)
<1>1. CASE k.op \in {"details", "resolve"} /\ k.repo = r
  <2>1. Torn(k, r, gone) = [k EXCEPT !.torn = TRUE]
    BY <1>1 DEF Torn
  <2> QED
    BY <1>1, <2>1
<1>2. CASE k.op = "publish" /\ k.repo = r /\ k.checked /\ SubjectOf[k.digest] \in gone
  <2>1. Torn(k, r, gone) = [k EXCEPT !.lost = TRUE]
    BY <1>2 DEF Torn
  <2> QED
    BY <1>2, <2>1 DEF PublishCall
<1>3. CASE /\ ~(k.op \in {"details", "resolve"} /\ k.repo = r)
           /\ ~(k.op = "publish" /\ k.repo = r /\ k.checked /\ SubjectOf[k.digest] \in gone)
  <2>1. Torn(k, r, gone) = k
    BY <1>3 DEF Torn
  <2> QED
    BY <1>3, <2>1
<1> QED
  BY <1>1, <1>2, <1>3

(* A request that another one's write finds under way.                     *)
LEMMA TornHeld ==
    ASSUME CInv, PInv, NEW r, NEW gone, NEW c \in Client,
           \A q \in Repo, e \in Digest : Has(repositories, manifests, q, e) =>
              Has(repositories', manifests', q, e) \/ (q = r /\ e \in gone)
    PROVE  /\ "op" \in DOMAIN Torn(call[c], r, gone)
           /\ Torn(call[c], r, gone).op = "publish" => Torn(call[c], r, gone) \in PublishCall
           /\ SubjectHeld(Torn(call[c], r, gone), repositories', manifests')
<1> DEFINE k == call[c]
           l == Torn(k, r, gone)
<1>1. /\ "op" \in DOMAIN l /\ l.op = k.op
      /\ k.op = "publish" => /\ l \in PublishCall /\ k \in PublishCall
                             /\ l.repo = k.repo /\ l.digest = k.digest /\ l.checked = k.checked
                             /\ ~l.lost => ~k.lost /\ ~(k.repo = r /\ k.checked
                                                        /\ SubjectOf[k.digest] \in gone)
  BY TornCall DEF CInv
<1>2. SubjectHeld(k, repositories, manifests)
  BY DEF PInv
<1> HIDE DEF k, l
<1>3. SubjectHeld(l, repositories', manifests')
  <2> SUFFICES ASSUME l.op = "publish", l.checked, ~l.lost, SubjectOf[l.digest] # None
               PROVE  Has(repositories', manifests', l.repo, SubjectOf[l.digest])
    BY DEF SubjectHeld
  <2>1. k.repo \in Repo /\ SubjectOf[k.digest] \in Digest
    BY <1>1, Registry_Constants DEF PublishCall
  <2>2. Has(repositories, manifests, k.repo, SubjectOf[k.digest])
    BY <1>1, <1>2 DEF SubjectHeld
  <2> QED
    BY <1>1, <2>1, <2>2
<1> QED
  BY <1>1, <1>3 DEF k, l

(* A step of one client that writes no row.                                *)
LEMMA OneCall ==
    ASSUME CInv, PInv, UNCHANGED <<repositories, manifests>>, NEW c \in Client,
           DOMAIN call' = Client, \A y \in Client \ {c} : call'[y] = call[y],
           "op" \in DOMAIN call'[c], call'[c].op = "publish" => call'[c] \in PublishCall,
           SubjectHeld(call'[c], repositories, manifests)
    PROVE  CInv' /\ PInv'
BY DEF CInv, PInv

(* A held digest survives a push.                                          *)
LEMMA PublishedHas ==
    ASSUME NEW r, NEW t, NEW d, NEW u, NEW at, NEW x, NEW m, Published(r, t, d, u, at, x, m),
           NEW q, NEW e, Has(repositories, manifests, q, e)
    PROVE  Has(repositories', manifests', q, e)
<1>1. PICK y \in repositories, o \in manifests : y.name = q /\ o.repo = y.id /\ o.digest = e
  BY DEF Has
<1>2. y \in repositories'
  BY DEF Published
<1>3. \E p \in manifests' : p.repo = o.repo /\ p.digest = o.digest
  BY DEF Published, Like
<1> QED
  BY <1>1, <1>2, <1>3 DEF Has

(* The table queries, as what a repository holds.                          *)
LEMMA ByDigestHas ==
    ASSUME NEW r, NEW d
    PROVE  /\ ByDigest(r, d) # {} <=> Has(repositories, manifests, r, d)
           /\ ByDigest(r, d)' # {} <=> Has(repositories', manifests', r, d)
BY DEF ByDigest, RowsOf, RepoRow, Has

(* The requests after each kind of step.                                   *)
LEMMA PublishingCalls ==
    ASSUME CInv, PInv, NEW c \in Client
    PROVE  /\ \A r \in Repo, ref \in Ref, d \in Digest : PublishManifest(c, r, ref, d) => CInv' /\ PInv'
           /\ CheckSubject(c) => CInv' /\ PInv'
           /\ HandOverScan(c) => CInv' /\ PInv'
<1>0. DOMAIN call = Client /\ "op" \in DOMAIN call[c]
      /\ (call[c].op = "publish" => call[c] \in PublishCall)
  BY DEF CInv
<1>1. ASSUME NEW r \in Repo, NEW ref \in Ref, NEW d \in Digest, PublishManifest(c, r, ref, d)
      PROVE  CInv' /\ PInv'
  <2> DEFINE k == [op |-> "publish", repo |-> r, tag |-> TagOf(ref), digest |-> d,
                   checked |-> SubjectOf[d] = None, lost |-> FALSE]
  <2>1. TagOf(ref) \in Tag \cup {None}
    BY DEF TagOf, Ref
  <2>2. k \in PublishCall /\ "op" \in DOMAIN k /\ (k.checked => SubjectOf[k.digest] = None)
    BY <2>1 DEF PublishCall
  <2>3. call' = [call EXCEPT ![c] = k] /\ UNCHANGED <<repositories, manifests>>
    BY <1>1 DEF PublishManifest, tables
  <2> HIDE DEF k
  <2>4. DOMAIN call' = Client /\ call'[c] = k /\ \A y \in Client \ {c} : call'[y] = call[y]
    BY <1>0, <2>3
  <2>5. SubjectHeld(k, repositories, manifests)
    BY <2>2 DEF SubjectHeld
  <2> QED
    BY <2>2, <2>3, <2>4, <2>5, OneCall
<1>2. ASSUME CheckSubject(c) PROVE CInv' /\ PInv'
  <2> DEFINE s == SubjectOf[call[c].digest]
             k == call'[c]
  <2>1. /\ UNCHANGED <<repositories, manifests>> /\ DOMAIN call' = Client
        /\ \A y \in Client \ {c} : call'[y] = call[y]
        /\ k = IF ResolveManifest(call[c].repo, s) # {}
               THEN [call[c] EXCEPT !.checked = TRUE] ELSE Idle
    BY <1>0, <1>2 DEF CheckSubject, tables
  <2>2. /\ call[c] \in PublishCall /\ s \in Digest \cup {None} /\ None \notin Digest
    BY <1>0, <1>2, Registry_Constants DEF CheckSubject, PublishCall
  <2>3. CASE ResolveManifest(call[c].repo, s) # {}
    <3>1. k = [call[c] EXCEPT !.checked = TRUE]
      BY <2>1, <2>3
    <3>2. k \in PublishCall /\ "op" \in DOMAIN k /\ k.repo = call[c].repo /\ k.digest = call[c].digest
      BY <2>2, <3>1 DEF PublishCall
    <3>3. s # None => Has(repositories, manifests, call[c].repo, s)
      BY <2>2, <2>3, ByDigestHas DEF ResolveManifest
    <3>4. SubjectHeld(k, repositories, manifests)
      BY <3>2, <3>3 DEF SubjectHeld
    <3> QED
      BY <2>1, <3>2, <3>4, OneCall
  <2>4. CASE ResolveManifest(call[c].repo, s) = {}
    <3>1. "op" \in DOMAIN k /\ k.op = "idle"
      BY <2>1, <2>4 DEF Idle
    <3> QED
      BY <2>1, <3>1, OneCall DEF SubjectHeld
  <2> QED
    BY <2>3, <2>4
<1>3. ASSUME HandOverScan(c) PROVE CInv' /\ PInv'
  <2>1. /\ UNCHANGED <<repositories, manifests>> /\ DOMAIN call' = Client
        /\ \A y \in Client \ {c} : call'[y] = call[y]
        /\ "op" \in DOMAIN call'[c] /\ call'[c].op = "idle"
    BY <1>0, <1>3 DEF HandOverScan, tables, Idle
  <2> QED
    BY <2>1, OneCall DEF SubjectHeld
<1> QED
  BY <1>1, <1>2, <1>3

(* A reader's request stays a reader's and no row is written.              *)
LEMMA ReadingCalls ==
    ASSUME CInv, PInv, NEW c \in Client, Reading(c)
    PROVE  CInv' /\ PInv' /\ UNCHANGED <<tables, disk, binary, marker>>
<1>0. DOMAIN call = Client /\ "op" \in DOMAIN call[c]
  BY DEF CInv
<1>1. UNCHANGED <<tables, disk, binary, marker>>
  BY DEF Reading, TagDetails, Resolve, TagStatus, ResolveBlobs, StartPaging, NextPage, Finish
<1>2. DOMAIN call' = Client /\ \A y \in Client \ {c} : call'[y] = call[y]
  BY <1>0 DEF Reading, TagDetails, Resolve, TagStatus, ResolveBlobs, StartPaging, NextPage, Finish
<1>3. "op" \in DOMAIN call'[c] /\ call'[c].op # "publish"
  <2>1. ASSUME NEW r \in Visible, TagDetails(c, r) PROVE "op" \in DOMAIN call'[c] /\ call'[c].op # "publish"
    BY <1>0, <2>1 DEF TagDetails
  <2>2. ASSUME NEW r \in Visible, NEW ref \in Ref, Resolve(c, r, ref)
        PROVE  "op" \in DOMAIN call'[c] /\ call'[c].op # "publish"
    BY <1>0, <2>2 DEF Resolve
  <2>3. CASE TagStatus(c)
    BY <1>0, <2>3 DEF TagStatus
  <2>4. CASE ResolveBlobs(c)
    BY <1>0, <2>4 DEF ResolveBlobs
  <2>5. CASE StartPaging(c)
    BY <1>0, <2>5 DEF StartPaging
  <2>6. CASE NextPage(c)
    BY <1>0, <2>6 DEF NextPage
  <2>7. CASE Finish(c)
    BY <1>0, <2>7 DEF Finish, Idle
  <2> QED
    BY <2>1, <2>2, <2>3, <2>4, <2>5, <2>6, <2>7 DEF Reading
<1>4. SubjectHeld(call'[c], repositories, manifests)
  BY <1>3 DEF SubjectHeld
<1>5. UNCHANGED <<repositories, manifests>>
  BY <1>1 DEF tables
<1> QED
  BY <1>1, <1>2, <1>3, <1>4, <1>5, OneCall

(* The requests after a write.                                             *)
LEMMA CommitPublishCalls ==
    ASSUME TInv, CInv, PInv, NEW c \in Client, NEW u \in User, NEW at \in Time,
           CommitPublish(c, u, at)
    PROVE  CInv' /\ PInv'
<1>1. PICK x, m : Published(call[c].repo, call[c].tag, call[c].digest, u, at, x, m)
  BY CommitPublishes
<1>2. \A q \in Repo, e \in Digest : Has(repositories, manifests, q, e) =>
         Has(repositories', manifests', q, e)
  BY <1>1, PublishedHas
<1>3. call' = [y \in Client |->
                 IF y = c
                 THEN IF isReferrerArtifactPush(call[c].digest, call[c].tag) THEN Idle
                      ELSE [op |-> "scan", repo |-> call[c].repo, digest |-> call[c].digest]
                 ELSE Torn(call[y], call[c].repo, {})]
  BY DEF CommitPublish
<1>4. "op" \in DOMAIN call'[c] /\ call'[c].op # "publish"
  BY <1>3 DEF Idle
<1>5. \A y \in Client \ {c} : call'[y] = Torn(call[y], call[c].repo, {})
  BY <1>3
<1>6. ASSUME NEW y \in Client
      PROVE  /\ "op" \in DOMAIN call'[y]
             /\ call'[y].op = "publish" => call'[y] \in PublishCall
             /\ SubjectHeld(call'[y], repositories', manifests')
  <2>1. CASE y = c
    BY <1>4, <2>1 DEF SubjectHeld
  <2>2. CASE y # c
    BY <1>2, <1>5, <2>2, TornHeld
  <2> QED
    BY <2>1, <2>2
<1>7. DOMAIN call' = Client
  BY <1>3
<1> QED
  BY <1>6, <1>7 DEF CInv, PInv

(* The same after a delete, which tells the checked pushes it hurts.       *)
LEMMA DeletingCalls ==
    ASSUME TInv, CInv, PInv, NEW r \in Repo, Deleting(r)
    PROVE  CInv' /\ PInv'
<1>1. ASSUME NEW gone, call' = [c \in Client |-> Torn(call[c], r, gone)],
             \A q \in Repo, e \in Digest : Has(repositories, manifests, q, e) =>
                Has(repositories', manifests', q, e) \/ (q = r /\ e \in gone)
      PROVE  CInv' /\ PInv'
  <2>1. ASSUME NEW c \in Client
        PROVE  /\ "op" \in DOMAIN call'[c]
               /\ call'[c].op = "publish" => call'[c] \in PublishCall
               /\ SubjectHeld(call'[c], repositories', manifests')
    <3>1. call'[c] = Torn(call[c], r, gone)
      BY <1>1
    <3> QED
      BY <1>1, <3>1, TornHeld
  <2>2. DOMAIN call' = Client
    BY <1>1
  <2> QED
    BY <2>1, <2>2 DEF CInv, PInv
<1>2. ASSUME NEW d \in Digest, DeleteManifestByDigest(r, d) PROVE CInv' /\ PInv'
  <2>1. PICK x \in repositories, g \in manifests :
             /\ x.name = r /\ g.repo = x.id /\ g.digest = d
             /\ UNCHANGED repositories /\ manifests' = manifests \ {g}
    BY <1>2, DeletedManifest
  <2>2. UniqueRows(repositories, manifests)
    BY DEF TInv, Tables
  <2>3. \A q \in Repo, e \in Digest : Has(repositories, manifests, q, e) =>
           Has(repositories', manifests', q, e) \/ (q = r /\ e \in {d})
    BY <2>1, <2>2 DEF Has, UniqueRows
  <2>4. call' = [c \in Client |-> Torn(call[c], r, {d})]
    BY <1>2 DEF DeleteManifestByDigest
  <2> QED
    BY <1>1, <2>3, <2>4
<1>3. ASSUME NEW t \in Tag, DeleteTag(r, t) PROVE CInv' /\ PInv'
  <2>1. UNCHANGED <<repositories, manifests>> /\ call' = [c \in Client |-> Torn(call[c], r, {})]
    BY <1>3 DEF DeleteTag
  <2> QED
    BY <1>1, <2>1
<1>4. ASSUME DeleteRepository(r) PROVE CInv' /\ PInv'
  <2>1. PICK x \in repositories :
             /\ x.name = r /\ RowsOf(r) = {m \in manifests : m.repo = x.id}
             /\ repositories' = repositories \ {x}
             /\ manifests' = {m \in manifests : m.repo # x.id}
    BY <1>4, DeletedRepository
  <2> DEFINE gone == {m.digest : m \in RowsOf(r)}
  <2>2. UniqueRows(repositories, manifests)
    BY DEF TInv, Tables
  <2>3. \A q \in Repo, e \in Digest : Has(repositories, manifests, q, e) =>
           Has(repositories', manifests', q, e) \/ (q = r /\ e \in gone)
    BY <2>1, <2>2 DEF Has, UniqueRows
  <2>4. call' = [c \in Client |->
                   IF call[c].op = "page" THEN [call[c] EXCEPT !.alive = @ \ {r}]
                   ELSE Torn(call[c], r, gone)]
    BY <1>4 DEF DeleteRepository
  <2> HIDE DEF gone
  <2>5. ASSUME NEW c \in Client
        PROVE  /\ "op" \in DOMAIN call'[c]
               /\ call'[c].op = "publish" => call'[c] \in PublishCall
               /\ SubjectHeld(call'[c], repositories', manifests')
    <3>1. CASE call[c].op = "page"
      <4>1. call'[c] = [call[c] EXCEPT !.alive = call[c].alive \ {r}] /\ "op" \in DOMAIN call[c]
        BY <2>4, <3>1 DEF CInv
      <4>2. "op" \in DOMAIN call'[c] /\ call'[c].op = "page"
        BY <3>1, <4>1
      <4> QED
        BY <4>2 DEF SubjectHeld
    <3>2. CASE call[c].op # "page"
      <4>1. call'[c] = Torn(call[c], r, gone)
        BY <2>4, <3>2
      <4> QED
        BY <2>3, <4>1, TornHeld
    <3> QED
      BY <3>1, <3>2
  <2>6. DOMAIN call' = Client
    BY <2>4
  <2> QED
    BY <2>5, <2>6 DEF CInv, PInv
<1> QED
  BY <1>2, <1>3, <1>4 DEF Deleting

(* A restart ends every request.                                           *)
LEMMA IdleCalls ==
    ASSUME call' = [c \in Client |-> Idle]
    PROVE  CInv' /\ PInv'
BY DEF CInv, PInv, SubjectHeld, Idle

-----------------------------------------------------------------------------
(***************************************************************************)
(* The steps.                                                              *)
(***************************************************************************)

(* Steps that write no row.                                                *)
LEMMA NoRowWritten ==
    ASSUME IInv, CInv', PInv', UNCHANGED <<tables, binary, marker>>
    PROVE  IInv' /\ UNCHANGED ContentsOf
<1>1. UNCHANGED <<repositories, manifests, tags, blobRows, rowId, binary, marker>>
  BY DEF tables
<1>2. TInv' /\ BInv' /\ SInv'
  BY <1>1 DEF IInv, TInv, BInv, SInv
<1>3. UNCHANGED ContentsOf
  BY <1>1, ContentsAreHoldings
<1> QED
  BY <1>2, <1>3 DEF IInv

(* The backfill writes subjects and nothing that is listed.                *)
LEMMA UpgradeStep ==
    ASSUME IInv, Upgrade
    PROVE  IInv' /\ UNCHANGED ContentsOf
<1> DEFINE F(m) == IF m.subject = None THEN [m EXCEPT !.subject = SubjectOf[m.digest]] ELSE m
<1>0. /\ Tables(repositories, manifests, tags, rowId) /\ UniqueRows(repositories, manifests)
      /\ manifests \subseteq ManifestRow
      /\ UNCHANGED <<repositories, tags, blobRows, rowId>> /\ binary' = "new" /\ marker' = TRUE
  BY DEF IInv, TInv, Tables, Rows, Upgrade
<1>1. \A m \in manifests : /\ F(m) \in ManifestRow /\ Like(F(m), m) /\ F(m).behind = m.behind
                           /\ F(m).subject = SubjectOf[F(m).digest]
  <2> SUFFICES ASSUME NEW m \in manifests
               PROVE  /\ F(m) \in ManifestRow /\ Like(F(m), m) /\ F(m).behind = m.behind
                      /\ F(m).subject = SubjectOf[F(m).digest]
    OBVIOUS
  <2>1. m \in ManifestRow /\ SubjectOf[m.digest] \in Digest \cup {None}
        /\ m.subject \in {None, SubjectOf[m.digest]}
    BY <1>0, Registry_Constants DEF ManifestRow, IInv, SInv, Subjects
  <2> QED
    BY <2>1 DEF ManifestRow, Like
<1>2. /\ manifests' \subseteq ManifestRow /\ Alike(manifests, manifests')
      /\ \A o, p \in manifests' : o.id = p.id => o = p
      /\ Subjects(manifests', TRUE)
  <2>1. CASE marker
    BY <1>0, <2>1 DEF Upgrade, backfillSubjectDigests, Alike, Like, UniqueRows, IInv, SInv, Subjects
  <2>2. CASE ~marker
    <3>1. manifests' = {F(m) : m \in manifests}
      BY <2>2 DEF Upgrade, backfillSubjectDigests
    <3> HIDE DEF F
    <3>2. manifests' \subseteq ManifestRow /\ Subjects(manifests', TRUE)
      BY <1>1, <3>1 DEF Subjects
    <3>3. Alike(manifests, manifests')
      BY <1>1, <3>1 DEF Alike, Like
    <3>4. \A o, p \in manifests' : o.id = p.id => o = p
      BY <1>0, <1>1, <3>1 DEF Like, UniqueRows
    <3> QED
      BY <3>2, <3>3, <3>4
  <2> QED
    BY <2>1, <2>2 DEF IInv, SInv
<1>3. TInv'
  <2>1. Tables(repositories, manifests', tags, rowId)
    BY <1>0, <1>2, UpdateManifests
  <2> QED
    BY <1>0, <2>1 DEF TInv
<1>4. BInv'
  <2>1. \A o \in manifests' : \E m \in manifests : m.id = o.id /\ m.digest = o.digest
    BY <1>2 DEF Alike, Like
  <2>2. \A m \in manifests : \E o \in manifests' : m.id = o.id
    BY <1>2 DEF Alike, Like
  <2> QED
    BY <1>0, <2>1, <2>2 DEF IInv, BInv, Blobs
<1>5. CInv' /\ PInv'
  BY IdleCalls DEF Upgrade
<1>6. SInv'
  BY <1>0, <1>2 DEF SInv
<1>7. UNCHANGED ContentsOf
  <2>1. ASSUME NEW r \in Repo
        PROVE  Holding(repositories, manifests', tags, r) = Holding(repositories, manifests, tags, r)
    <3>1. CASE \E x \in repositories : x.name = r
      <4>1. PICK x \in repositories : x.name = r
        BY <3>1
      <4>2. UniqueRows(repositories, manifests')
        BY <1>0, <1>3 DEF TInv, Tables
      <4>3. Holding(repositories, manifests, tags, x.name) =
              [manifests |-> ManifestsIn(x.id, manifests), tags |-> TagsIn(x.id, manifests, tags)]
        BY <1>0, HoldingOfRow
      <4>4. Holding(repositories, manifests', tags, x.name) =
              [manifests |-> ManifestsIn(x.id, manifests'),
               tags |-> TagsIn(x.id, manifests', tags)]
        BY <4>2, HoldingOfRow
      <4>5. /\ ManifestsIn(x.id, manifests) = ManifestsIn(x.id, manifests')
            /\ TagsIn(x.id, manifests, tags) = TagsIn(x.id, manifests', tags)
        BY <1>2, AlikeListed
      <4> QED
        BY <4>1, <4>3, <4>4, <4>5
    <3>2. CASE ~\E x \in repositories : x.name = r
      BY <3>2, HoldingOfNoRow
    <3> QED
      BY <3>1, <3>2
  <2> QED
    BY <1>0, <2>1, ContentsAreHoldings
<1> QED
  BY <1>3, <1>4, <1>5, <1>6, <1>7 DEF IInv

(* What a delete leaves of the blob rows and the subjects.                 *)
LEMMA DeletingStep ==
    ASSUME IInv, NEW r \in Repo, Deleting(r)
    PROVE  IInv' /\ [Contents!Next]_ContentsOf
<1>0. CInv' /\ PInv'
  BY DeletingCalls DEF IInv
<1>1. TInv' /\ [Contents!Next]_ContentsOf
  BY DeleteManifestStep, DeleteTagStep, DeleteRepositoryStep DEF Deleting, IInv
<1>2. UNCHANGED <<binary, marker>> /\ manifests' \subseteq manifests
  BY DEF Deleting, DeleteManifestByDigest, DeleteTag, DeleteRepository
<1>3. SInv'
  BY <1>2 DEF IInv, SInv, Subjects
<1>4. BInv'
  <2>0. /\ Blobs(manifests, blobRows) /\ manifests' \in SUBSET manifests
        /\ \A m, o \in manifests : m.id = o.id => m = o
    BY <1>2 DEF IInv, BInv, TInv, Tables, UniqueRows
  <2>1. ASSUME NEW d \in Digest, DeleteManifestByDigest(r, d) PROVE BInv'
    <3>1. PICK g \in manifests : /\ manifests' = manifests \ {g}
                                 /\ blobRows' = {b \in blobRows : b.man # g.id}
      BY <2>1, DeletedManifest DEF IInv
    <3>2. \A b : b \in blobRows' <=> b \in blobRows /\ \A m \in manifests \ manifests' : b.man # m.id
      BY <3>1
    <3> QED
      BY <2>0, <3>2, CascadeBlobs DEF BInv
  <2>2. ASSUME NEW t \in Tag, DeleteTag(r, t) PROVE BInv'
    BY <2>2 DEF DeleteTag, IInv, BInv
  <2>3. ASSUME DeleteRepository(r) PROVE BInv'
    <3>1. PICK x \in repositories :
             /\ manifests' = {m \in manifests : m.repo # x.id}
             /\ blobRows' = {b \in blobRows : \A m \in manifests : m.repo = x.id => b.man # m.id}
      BY <2>3, DeletedRepository DEF IInv
    <3>2. \A b : b \in blobRows' <=> b \in blobRows /\ \A m \in manifests \ manifests' : b.man # m.id
      BY <3>1
    <3> QED
      BY <2>0, <3>2, CascadeBlobs DEF BInv
  <2> QED
    BY <2>1, <2>2, <2>3 DEF Deleting
<1> QED
  BY <1>0, <1>1, <1>3, <1>4 DEF IInv

(* A step of a push.                                                       *)
LEMMA PublishingStep ==
    ASSUME IInv, NEW c \in Client, Publishing(c)
    PROVE  IInv' /\ [Contents!Next]_ContentsOf
<1>1. ASSUME NEW u \in User, NEW at \in Time, CommitPublish(c, u, at)
      PROVE  IInv' /\ [Contents!Next]_ContentsOf
  <2>1. PICK x, m : Published(call[c].repo, call[c].tag, call[c].digest, u, at, x, m)
    BY <1>1, CommitPublishes DEF IInv
  <2>2. call[c].repo \in Repo /\ call[c].digest \in Digest /\ UNCHANGED <<binary, marker>>
    BY <1>1 DEF CommitPublish, IInv, CInv, PublishCall
  <2>3. TInv' /\ [Contents!Next]_ContentsOf
    BY <1>1, CommitPublishStep DEF IInv
  <2>4. CInv' /\ PInv'
    BY <1>1, CommitPublishCalls DEF IInv
  <2>5. BInv' /\ SInv'
    BY <2>1, <2>2, PublishedBlobs, PublishedSubjects DEF IInv
  <2> QED
    BY <2>3, <2>4, <2>5 DEF IInv
<1>2. CASE \/ \E r \in Repo, ref \in Ref, d \in Digest : PublishManifest(c, r, ref, d)
           \/ CheckSubject(c) \/ HandOverScan(c)
  <2>1. CInv' /\ PInv'
    BY <1>2, PublishingCalls DEF IInv
  <2>2. UNCHANGED <<tables, binary, marker>>
    BY <1>2 DEF PublishManifest, CheckSubject, HandOverScan
  <2> QED
    BY <2>1, <2>2, NoRowWritten
<1> QED
  BY <1>1, <1>2 DEF Publishing

(* Every step keeps the invariant and is a write of RegistryContents or    *)
(* leaves what the repositories hold.                                      *)
LEMMA InvStep == IInv /\ [Next]_vars => IInv' /\ [Contents!Next]_ContentsOf
<1> SUFFICES ASSUME IInv, [Next]_vars PROVE IInv' /\ [Contents!Next]_ContentsOf
  OBVIOUS
<1>1. ASSUME NEW c \in Pusher, Publishing(c) PROVE IInv' /\ [Contents!Next]_ContentsOf
  BY <1>1, PublishingStep DEF Client
<1>2. ASSUME NEW c \in Reader, Reading(c) PROVE IInv' /\ [Contents!Next]_ContentsOf
  <2>1. CInv' /\ PInv' /\ UNCHANGED <<tables, binary, marker>>
    BY <1>2, ReadingCalls DEF Client, IInv
  <2> QED
    BY <2>1, NoRowWritten
<1>3. ASSUME NEW r \in Repo, Deleting(r) PROVE IInv' /\ [Contents!Next]_ContentsOf
  BY <1>3, DeletingStep
<1>4. ASSUME NEW b \in Blob, PutBlob(b) PROVE IInv' /\ [Contents!Next]_ContentsOf
  <2>1. UNCHANGED <<tables, binary, marker>> /\ UNCHANGED call
    BY <1>4 DEF PutBlob
  <2>2. CInv' /\ PInv'
    BY <2>1 DEF IInv, CInv, PInv, tables
  <2> QED
    BY <2>1, <2>2, NoRowWritten
<1>5. CASE Upgrade
  BY <1>5, UpgradeStep
<1>6. CASE Downgrade
  <2>1. CInv' /\ PInv'
    BY <1>6, IdleCalls DEF Downgrade
  <2>2. UNCHANGED <<repositories, manifests, tags, blobRows, rowId, marker>> /\ binary' = "old"
    BY <1>6 DEF Downgrade, tables
  <2>3. TInv' /\ BInv' /\ SInv'
    BY <2>2 DEF IInv, TInv, BInv, SInv
  <2>4. UNCHANGED ContentsOf
    BY <2>2, ContentsAreHoldings
  <2> QED
    BY <2>1, <2>3, <2>4 DEF IInv
<1>7. CASE UNCHANGED vars
  <2>1. UNCHANGED <<tables, binary, marker>> /\ UNCHANGED call
    BY <1>7 DEF vars
  <2>2. CInv' /\ PInv'
    BY <2>1 DEF IInv, CInv, PInv, tables
  <2> QED
    BY <2>1, <2>2, NoRowWritten
<1> QED
  BY <1>1, <1>2, <1>3, <1>4, <1>5, <1>6, <1>7 DEF Next

(* The empty store.                                                        *)
LEMMA InvInit == Init => IInv /\ Contents!Init
<1> SUFFICES ASSUME Init PROVE IInv /\ Contents!Init
  OBVIOUS
<1>1. TInv
  BY DEF Init, TInv, Tables, Rows, UniqueRows, References
<1>2. CInv /\ PInv
  BY DEF Init, CInv, PInv, SubjectHeld, Idle
<1>3. BInv /\ SInv
  BY DEF Init, BInv, Blobs, SInv, Subjects
<1>4. Contents!Init
  BY DEF Init, Contents!Init, Contents!Absent, ContentsOf, RepoRow
<1> QED
  BY <1>1, <1>2, <1>3, <1>4 DEF IInv

(* The invariant holds in every reachable state.                           *)
LEMMA InvAlways == Spec => []IInv
BY InvInit, InvStep, PTL DEF Spec

-----------------------------------------------------------------------------
(***************************************************************************)
(* The theorems.                                                           *)
(***************************************************************************)

(* The tables of the store, their row numbers, upserts, cascades and the   *)
(* one-time backfill, under any interleaving of requests, deletes and      *)
(* restarts, do exactly the four writes of RegistryContents, each at one   *)
(* instant and on one repository.                                          *)
THEOREM StoreImplementsContents == Spec => ImplementsContents
BY InvInit, InvStep, PTL DEF Spec, ImplementsContents, Contents!Spec

(* No row outlives the row it refers to, a tag's manifest is of the tag's  *)
(* own repository and a manifest has exactly its payload's blob rows: the  *)
(* cascades of the two deletes and the upsert of PublishManifest.          *)
THEOREM RowsNeverOrphaned == Spec => []NoOrphanRows
<1>1. IInv => NoOrphanRows
  BY DEF IInv, TInv, Tables, References, BInv, Blobs, BlobRows, NoOrphanRows
<1> QED
  BY <1>1, InvAlways, PTL

(* The current binary lists every referrer of a manifest, with and without *)
(* an artifact type filter, however old the row and however often the      *)
(* server was upgraded and rolled back, but for the rows the older binary  *)
(* wrote behind the marker of the one-time backfill.                       *)
THEOREM ReferrersAlwaysComplete == Spec => []ReferrersComplete
<1>1. ASSUME IInv PROVE ReferrersComplete
  <2>1. ASSUME binary = "new", NEW r \in Repo, NEW m \in RowsOf(r), SubjectOf[m.digest] # None,
               ~m.behind, NEW type \in {None, resolveArtifactType(m.digest)}
        PROVE  m.digest \in Referrers(r, SubjectOf[m.digest], type)
    <3>1. m.subject = SubjectOf[m.digest]
      BY <1>1, <2>1 DEF IInv, SInv, Subjects, RowsOf
    <3>2. m.digest \in ListReferrers(r, SubjectOf[m.digest])
      BY <3>1 DEF ListReferrers
    <3> QED
      BY <3>2 DEF Referrers
  <2> QED
    BY <2>1 DEF ReferrersComplete
<1> QED
  BY <1>1, InvAlways, PTL

\* Row m of repository r names a subject that the repository does not hold.
Dangles(repos, ms, r, m) ==
    /\ m \in ms /\ \E x \in repos : x.name = r /\ m.repo = x.id
    /\ SubjectOf[m.digest] # None /\ ~Has(repos, ms, r, SubjectOf[m.digest])

(* The rows Dangling selects, before and after a step.                     *)
LEMMA DanglingRows ==
    ASSUME NEW r
    PROVE  /\ \A m : m \in Dangling(r) <=> Dangles(repositories, manifests, r, m)
           /\ \A m : m \in Dangling(r)' <=> Dangles(repositories', manifests', r, m)
BY ByDigestHas DEF Dangling, Dangles, RowsOf, RepoRow

(* A step that writes over manifest rows or deletes some.                  *)
LEMMA StillDangling ==
    ASSUME NEW r, NEW m, Dangles(repositories', manifests', r, m),
           repositories' \subseteq repositories,
           \E n \in manifests : n.id = m.id /\ n.repo = m.repo /\ n.digest = m.digest
    PROVE  \/ \E n \in Dangling(r) : n.id = m.id
           \/ ByDigest(r, SubjectOf[m.digest]) # {}
<1>1. PICK n \in manifests : n.id = m.id /\ n.repo = m.repo /\ n.digest = m.digest
  OBVIOUS
<1>2. CASE Has(repositories, manifests, r, SubjectOf[m.digest])
  BY <1>2, ByDigestHas
<1>3. CASE ~Has(repositories, manifests, r, SubjectOf[m.digest])
  <2>1. Dangles(repositories, manifests, r, n)
    BY <1>1, <1>3 DEF Dangles
  <2> QED
    BY <1>1, <2>1, DanglingRows
<1> QED
  BY <1>2, <1>3

(* A referrer loses its subject only to a delete: of the subject itself,   *)
(* or one that came between PublishManifest's check and its transaction.   *)
THEOREM DanglingOnlyByDelete == Spec => DanglingNeedsDelete
<1> DEFINE Explained(r, m) ==
             \/ \E n \in Dangling(r) : n.id = m.id
             \/ ByDigest(r, SubjectOf[m.digest]) # {}
             \/ \E c \in Pusher : call[c].op = "publish" /\ call[c].lost /\ call[c].repo = r
                                    /\ call[c].digest = m.digest
<1>1. ASSUME IInv, Next, NEW r \in Repo, NEW m \in Dangling(r)' PROVE Explained(r, m)
  <2>0. Dangles(repositories', manifests', r, m)
    BY <1>1, DanglingRows
  <2>1. CASE \E c \in Pusher, u \in User, at \in Time : CommitPublish(c, u, at)
    <3>1. PICK c \in Pusher, u \in User, at \in Time : CommitPublish(c, u, at)
      BY <2>1
    <3>2. PICK x, o : Published(call[c].repo, call[c].tag, call[c].digest, u, at, x, o)
      BY <1>1, <3>1, CommitPublishes DEF IInv, Client
    <3>4. CASE m = o
      <4>1. r = call[c].repo /\ m.digest = call[c].digest
        <5>1. PICK y \in repositories' : y.name = r /\ m.repo = y.id
          BY <2>0 DEF Dangles
        <5>2. x \in repositories' /\ x.name = call[c].repo /\ m.repo = x.id
              /\ m.digest = call[c].digest
          BY <3>2, <3>4 DEF Published
        <5>3. TInv'
          BY <1>1, InvStep DEF IInv
        <5>4. y = x
          BY <5>1, <5>2, <5>3 DEF TInv, Tables, UniqueRows
        <5> QED
          BY <5>1, <5>2, <5>4
      <4>2. call[c].op = "publish" /\ call[c].checked /\ SubjectOf[call[c].digest] # None
        BY <2>0, <3>1, <4>1 DEF CommitPublish, Dangles
      <4>3. CASE call[c].lost
        BY <4>1, <4>2, <4>3
      <4>4. CASE ~call[c].lost
        <5>1. Has(repositories, manifests, call[c].repo, SubjectOf[call[c].digest])
          BY <1>1, <4>2, <4>4 DEF IInv, PInv, SubjectHeld, Client
        <5> QED
          BY <4>1, <5>1, ByDigestHas
      <4> QED
        BY <4>3, <4>4
    <3>5. CASE m \in manifests /\ m # o
      <4>1. PICK y \in repositories' : y.name = r /\ m.repo = y.id
        BY <2>0 DEF Dangles
      <4>2. PICK z \in repositories : z.id = m.repo
        BY <1>1, <3>5 DEF IInv, TInv, Tables, References
      <4>3. z \in repositories' /\ TInv'
        BY <1>1, <3>2, InvStep DEF Published, IInv
      <4>4. z = y
        BY <4>1, <4>2, <4>3 DEF TInv, Tables, UniqueRows
      <4>5. CASE Has(repositories, manifests, r, SubjectOf[m.digest])
        BY <4>5, ByDigestHas
      <4>6. CASE ~Has(repositories, manifests, r, SubjectOf[m.digest])
        <5>1. Dangles(repositories, manifests, r, m)
          BY <2>0, <3>5, <4>1, <4>2, <4>4, <4>6 DEF Dangles
        <5> QED
          BY <5>1, DanglingRows
      <4> QED
        BY <4>5, <4>6
    <3> QED
      BY <2>0, <3>2, <3>4, <3>5 DEF Published, Dangles
  <2>2. CASE Upgrade
    <3>1. repositories' = repositories
          /\ \E n \in manifests : n.id = m.id /\ n.repo = m.repo /\ n.digest = m.digest
      <4>1. PICK n \in manifests : m = n \/ m = [n EXCEPT !.subject = SubjectOf[n.digest]]
        BY <2>0, <2>2 DEF Upgrade, backfillSubjectDigests, Dangles
      <4>2. n \in ManifestRow
        BY <1>1 DEF IInv, TInv, Tables, Rows
      <4> QED
        BY <2>2, <4>1, <4>2 DEF Upgrade, ManifestRow
    <3> QED
      BY <2>0, <3>1, StillDangling
  <2>3. CASE \E q \in Repo : Deleting(q)
    <3>1. repositories' \subseteq repositories /\ manifests' \subseteq manifests
      BY <2>3 DEF Deleting, DeleteManifestByDigest, DeleteTag, DeleteRepository
    <3> QED
      BY <2>0, <3>1, StillDangling DEF Dangles
  <2>4. CASE UNCHANGED tables
    <3>1. UNCHANGED <<repositories, manifests>>
      BY <2>4 DEF tables
    <3> QED
      BY <2>0, <3>1, StillDangling DEF Dangles
  <2>5. \/ \E c \in Pusher, u \in User, at \in Time : CommitPublish(c, u, at)
        \/ \E q \in Repo : Deleting(q)
        \/ Upgrade
        \/ UNCHANGED tables
    BY <1>1 DEF Next, Publishing, PublishManifest, CheckSubject, HandOverScan, Reading, TagDetails,
                Resolve, TagStatus, ResolveBlobs, StartPaging, NextPage, Finish, PutBlob, Downgrade
  <2> QED
    BY <2>1, <2>2, <2>3, <2>4, <2>5
<1>2. IInv /\ [Next]_vars => [\A r \in Repo : \A m \in Dangling(r)' : Explained(r, m)]_vars
  BY <1>1
<1> QED
  BY <1>2, InvAlways, PTL DEF Spec, DanglingNeedsDelete

-----------------------------------------------------------------------------
(***************************************************************************)
(* Orders.  Induction is by the least counterexample.                      *)
(***************************************************************************)

(* A set of numbers has a least member.                                    *)
LEMMA Least ==
    ASSUME NEW T \in SUBSET Nat, T # {}
    PROVE  \E x \in T : \A y \in T : x <= y
<1>1. IsWellFoundedOn(OpToRel(<, Nat), Nat)
  BY NatLessThanWellFounded
<1>2. PICK x \in T : \A y \in T : ~(<<y, x>> \in OpToRel(<, Nat))
  BY <1>1, WFMin
<1>3. \A y \in T : ~(y < x)
  BY <1>2 DEF OpToRel
<1> QED
  BY <1>3

Increasing(s, n) == \A i, j \in 1..n : i < j => s[i] < s[j]
Sorts(s, S) == s \in [1..Cardinality(S) -> S] /\ Increasing(s, Cardinality(S))

(* The least member first, then the others in order.                       *)
LEMMA SortsOneMore ==
    ASSUME NEW S \in SUBSET Nat, NEW x \in S, \A y \in S : x <= y,
           NEW n \in Nat, NEW s \in [1..n -> S \ {x}], Increasing(s, n)
    PROVE  \E q \in [1..(n + 1) -> S] : Increasing(q, n + 1)
<1> DEFINE q == [i \in 1..(n + 1) |-> IF i = 1 THEN x ELSE s[i - 1]]
<1>1. ASSUME NEW i \in 1..(n + 1) PROVE q[i] \in S /\ (i > 1 => q[i] = s[i - 1] /\ x < q[i])
  <2>1. CASE i = 1
    BY <2>1
  <2>2. CASE i # 1
    <3>1. i - 1 \in 1..n /\ q[i] = s[i - 1]
      BY <2>2
    <3>2. s[i - 1] \in S \ {x}
      BY <3>1
    <3>3. \A v \in S \ {x} : v \in S /\ x < v
      OBVIOUS
    <3>4. s[i - 1] \in S /\ x < s[i - 1]
      BY <3>2, <3>3
    <3> QED
      BY <3>1, <3>4
  <2> QED
    BY <2>1, <2>2
<1>2. q \in [1..(n + 1) -> S] /\ q[1] = x
  BY <1>1
<1>3. ASSUME NEW i \in 1..(n + 1), NEW j \in 1..(n + 1), i < j PROVE q[i] < q[j]
  <2>1. j > 1 /\ q[j] = s[j - 1] /\ x < q[j]
    BY <1>1, <1>3
  <2>2. CASE i = 1
    BY <2>1, <2>2, <1>2
  <2>3. CASE i > 1
    <3>1. i - 1 \in 1..n /\ j - 1 \in 1..n /\ i - 1 < j - 1
      BY <2>3, <1>3
    <3> QED
      BY <3>1, <2>1, <2>3, <1>1 DEF Increasing
  <2> QED
    BY <2>2, <2>3
<1> HIDE DEF q
<1> QED
  BY <1>2, <1>3 DEF Increasing

(* Every finite set of numbers can be put in order.                        *)
LEMMA SortExists ==
    ASSUME NEW R \in SUBSET Nat, IsFiniteSet(R)
    PROVE  \E s : Sorts(s, R)
<1> DEFINE Bad == {n \in Nat : \E S \in SUBSET R : Cardinality(S) = n /\ ~\E s : Sorts(s, S)}
<1>1. SUFFICES ASSUME Bad # {} PROVE FALSE
  <2>1. Cardinality(R) \in Nat
    BY FS_CardinalityType
  <2> QED
    BY <1>1, <2>1
<1>2. PICK n \in Bad : \A y \in Bad : n <= y
  BY <1>1, Least
<1>3. PICK S \in SUBSET R : Cardinality(S) = n /\ ~\E s : Sorts(s, S)
  BY <1>2
<1>4. IsFiniteSet(S) /\ S \in SUBSET Nat
  BY FS_Subset
<1>5. CASE S = {}
  <2>1. n = 0
    BY <1>3, <1>5, FS_EmptySet
  <2>2. 1..n = {}
    BY <2>1
  <2>3. Sorts([i \in 1..n |-> i], S)
    BY <2>2, <1>3 DEF Sorts, Increasing
  <2> QED
    BY <2>3, <1>3
<1>6. CASE S # {}
  <2>1. PICK x \in S : \A y \in S : x <= y
    BY <1>4, <1>6, Least
  <2>2. Cardinality(S \ {x}) = n - 1
    BY <1>3, <1>4, FS_RemoveElement
  <2>3. n \in Nat /\ n - 1 \in Nat
    BY <1>4, <2>2, FS_RemoveElement, FS_CardinalityType
  <2>4. ~(n - 1 \in Bad)
    BY <1>2, <2>3
  <2>5. \E s : Sorts(s, S \ {x})
    BY <2>2, <2>3, <2>4
  <2>6. PICK s : Sorts(s, S \ {x})
    BY <2>5
  <2>7. s \in [1..(n - 1) -> S \ {x}] /\ Increasing(s, n - 1)
    BY <2>6, <2>2 DEF Sorts
  <2>8. \E q \in [1..(n - 1 + 1) -> S] : Increasing(q, n - 1 + 1)
    BY <1>4, <2>1, <2>3, <2>7, SortsOneMore
  <2>9. n - 1 + 1 = n
    BY <2>3
  <2> QED
    BY <2>8, <2>9, <1>3 DEF Sorts
<1> QED
  BY <1>5, <1>6

(* What InOrder returns: all the members, from the smallest on.            *)
LEMMA InOrderSorts ==
    ASSUME NEW S \in SUBSET Nat, IsFiniteSet(S)
    PROVE  /\ Cardinality(S) \in Nat
           /\ InOrder(S) \in [1..Cardinality(S) -> S]
           /\ Increasing(InOrder(S), Cardinality(S))
           /\ \A x \in S : \E i \in 1..Cardinality(S) : InOrder(S)[i] = x
<1> DEFINE n == Cardinality(S)
<1>1. n \in Nat
  BY FS_CardinalityType
<1>2. PICK q : Sorts(q, S)
  BY SortExists
<1>3. InOrder(S) \in [1..n -> S] /\ Increasing(InOrder(S), n)
  BY <1>2 DEF InOrder, Sorts, Increasing
<1>4. PICK s : s = InOrder(S)
  OBVIOUS
<1>5. \A i, j \in 1..n : i # j => s[i] # s[j]
  <2> SUFFICES ASSUME NEW i \in 1..n, NEW j \in 1..n, i # j PROVE s[i] # s[j]
    OBVIOUS
  <2>1. i < j \/ j < i
    BY <1>1
  <2>2. s[i] \in Nat /\ s[j] \in Nat
    BY <1>3, <1>4
  <2> QED
    BY <2>1, <2>2, <1>3, <1>4 DEF Increasing
<1>6. s \in Injection(1..n, S)
  BY <1>3, <1>4, <1>5 DEF Injection, IsInjective
<1>7. IsFiniteSet(1..n) /\ Cardinality(1..n) = n
  BY <1>1, FS_Interval
<1>8. s \in Surjection(1..n, S)
  BY <1>6, <1>7, FS_Injection
<1>9. \A x \in S : \E i \in 1..n : s[i] = x
  BY <1>8 DEF Surjection
<1> QED
  BY <1>1, <1>3, <1>4, <1>9

(* The numbers up to n are in order already.                               *)
LEMMA InOrderInterval ==
    ASSUME NEW n \in Nat
    PROVE  InOrder(1..n) = [i \in 1..n |-> i]
<1>1. IsFiniteSet(1..n) /\ Cardinality(1..n) = n /\ 1..n \in SUBSET Nat
  BY FS_Interval
<1>2. PICK s : s = InOrder(1..n)
  OBVIOUS
<1>3. /\ s \in [1..n -> 1..n] /\ Increasing(s, n)
      /\ \A x \in 1..n : \E i \in 1..n : s[i] = x
  BY <1>1, <1>2, InOrderSorts
<1> DEFINE Bad == {i \in 1..n : s[i] # i}
<1>4. ASSUME Bad # {} PROVE FALSE
  <2>1. Bad \in SUBSET Nat
    OBVIOUS
  <2>2. PICK i \in Bad : \A y \in Bad : i <= y
    BY <1>4, <2>1, Least
  <2>3. i \in 1..n /\ s[i] # i /\ s[i] \in 1..n
    BY <1>3
  <2>4. \A k \in 1..n : k < i => s[k] = k
    BY <2>2
  <2>5. PICK j \in 1..n : s[j] = i
    BY <2>3, <1>3
  <2>6. i < j
    BY <2>3, <2>4, <2>5
  <2>7. s[i] < i
    BY <2>3, <2>5, <2>6, <1>3 DEF Increasing
  <2>8. s[i] \in 1..n /\ s[s[i]] = s[i]
    BY <2>3, <2>4, <2>7
  <2>9. s[s[i]] < s[i]
    BY <2>3, <2>7, <1>3 DEF Increasing
  <2> QED
    BY <2>3, <2>8, <2>9
<1>5. \A i \in 1..n : s[i] = i
  BY <1>4
<1> QED
  BY <1>2, <1>3, <1>5

(* A list of members of S is one of members of every larger set.           *)
LEMMA SeqOfMore ==
    ASSUME NEW S, NEW T, S \subseteq T, NEW q \in Seq(S)
    PROVE  q \in Seq(T)
OBVIOUS

(* A page is the first names after last, without a gap.                    *)
IsPage(p, names, last, n) ==
    /\ p \in Seq(names) /\ Increasing(p, Len(p))
    /\ \A i \in 1..Len(p) : p[i] > last
    /\ n # 0 => Len(p) <= n
    /\ \A x \in names : x > last =>
         \/ \E i \in 1..Len(p) : p[i] = x
         \/ n # 0 /\ Len(p) = n /\ \A i \in 1..Len(p) : p[i] < x

LEMMA PageSound ==
    ASSUME NEW names \in SUBSET Nat, IsFiniteSet(names), NEW last \in Nat, NEW n \in Nat,
           NEW p, p = Page(names, last, n)
    PROVE  IsPage(p, names, last, n)
<1> DEFINE S == {x \in names : x > last}
<1>1. S \in SUBSET Nat /\ IsFiniteSet(S)
  BY FS_Subset
<1>2. PICK o : o = InOrder(S)
  OBVIOUS
<1>3. PICK c : c = Cardinality(S)
  OBVIOUS
<1>4. /\ c \in Nat /\ o \in [1..c -> S] /\ Increasing(o, c)
      /\ \A x \in S : \E i \in 1..c : o[i] = x
  BY <1>1, <1>2, <1>3, InOrderSorts
<1>5. o \in Seq(S) /\ Len(o) = c
  BY <1>4
<1>6. PICK l : l = IF n = 0 \/ c < n THEN c ELSE n
  OBVIOUS
<1>7. l \in Nat /\ l <= c
  BY <1>4, <1>6
<1>8. p = SubSeq(o, 1, l)
  BY <1>2, <1>5, <1>6 DEF Page
<1>9. /\ p \in Seq(S) /\ Len(p) = l
      /\ \A i \in 1..l : p[i] = o[i] /\ i \in 1..c
  BY <1>5, <1>7, <1>8
<1> HIDE DEF S
<1>10. \A x \in S : x \in names /\ x > last /\ x \in Nat
  BY DEF S
<1>11. p \in Seq(names)
  BY <1>9, <1>10
<1>12. Increasing(p, Len(p))
  BY <1>4, <1>9 DEF Increasing
<1>13. \A i \in 1..Len(p) : p[i] > last
  BY <1>4, <1>9, <1>10
<1>14. ASSUME NEW x \in names, x > last,
              ~\E i \in 1..Len(p) : p[i] = x
       PROVE  n # 0 /\ Len(p) = n /\ \A i \in 1..Len(p) : p[i] < x
  <2>1. PICK j \in 1..c : o[j] = x
    BY <1>4, <1>14 DEF S
  <2>2. ~(j <= l)
    BY <2>1, <1>7, <1>9, <1>14
  <2>3. n # 0 /\ l = n
    BY <2>2, <1>6, <1>4
  <2>4. \A i \in 1..l : o[i] < o[j]
    BY <2>2, <1>4, <1>7 DEF Increasing
  <2> QED
    BY <2>1, <2>3, <2>4, <1>9
<1>15. n # 0 => Len(p) <= n
  BY <1>4, <1>6, <1>9
<1> QED
  BY <1>11, <1>12, <1>13, <1>14, <1>15 DEF IsPage

(* A filter keeps what is in S, and the order.                             *)
IsKept(q, s, S, X) ==
    /\ q \in Seq(X) /\ Len(q) <= Len(s)
    /\ \A i \in 1..Len(q) : q[i] \in S /\ \E a \in 1..Len(s) : q[i] = s[a]
    /\ \A j \in 1..Len(s) : s[j] \in S => \E i \in 1..Len(q) : q[i] = s[j]
    /\ \A i, j \in 1..Len(q) : i < j =>
         \E a, b \in 1..Len(s) : a < b /\ q[i] = s[a] /\ q[j] = s[b]

LEMMA KeptSound ==
    ASSUME NEW X, NEW s \in Seq(X), NEW S, NEW q, q = Kept(s, S)
    PROVE  IsKept(q, s, S, X)
<1> DEFINE P == {i \in 1..Len(s) : s[i] \in S}
<1>1. Len(s) \in Nat /\ IsFiniteSet(1..Len(s)) /\ Cardinality(1..Len(s)) = Len(s)
  <2>1. PICK n : n = Len(s)
    OBVIOUS
  <2>2. n \in Nat
    BY <2>1
  <2>3. IsFiniteSet(1..n) /\ Cardinality(1..n) = n
    BY <2>2, FS_Interval
  <2> QED
    BY <2>1, <2>2, <2>3
<1>2. P \in SUBSET Nat /\ P \in SUBSET (1..Len(s))
  BY <1>1
<1>3. IsFiniteSet(P) /\ Cardinality(P) <= Len(s)
  BY <1>1, <1>2, FS_Subset
<1>4. PICK o : o = InOrder(P)
  OBVIOUS
<1>5. PICK c : c = Cardinality(P)
  OBVIOUS
<1>6. /\ c \in Nat /\ o \in [1..c -> P] /\ Increasing(o, c)
      /\ \A x \in P : \E i \in 1..c : o[i] = x
  BY <1>2, <1>3, <1>4, <1>5, InOrderSorts
<1>7. o \in Seq(P) /\ Len(o) = c
  BY <1>6
<1>8. q = [i \in 1..c |-> s[o[i]]]
  BY <1>4, <1>7 DEF Kept
<1> HIDE DEF P
<1>9. \A x \in P : x \in 1..Len(s) /\ s[x] \in S /\ s[x] \in X
  BY DEF P
<1>10. \A i \in 1..c : q[i] = s[o[i]] /\ o[i] \in P
  BY <1>6, <1>8
<1>11. q \in Seq(X) /\ Len(q) = c
  BY <1>6, <1>8, <1>9, <1>10
<1>12. \A j \in 1..Len(s) : s[j] \in S => j \in P
  BY DEF P
<1>13. \A i \in 1..Len(q) : q[i] \in S /\ \E a \in 1..Len(s) : q[i] = s[a]
  <2> SUFFICES ASSUME NEW i \in 1..Len(q) PROVE q[i] \in S /\ \E a \in 1..Len(s) : q[i] = s[a]
    OBVIOUS
  <2>1. q[i] = s[o[i]] /\ o[i] \in P
    BY <1>10, <1>11
  <2> QED
    BY <2>1, <1>9
<1>14. \A j \in 1..Len(s) : s[j] \in S => \E i \in 1..Len(q) : q[i] = s[j]
  <2> SUFFICES ASSUME NEW j \in 1..Len(s), s[j] \in S PROVE \E i \in 1..Len(q) : q[i] = s[j]
    OBVIOUS
  <2>1. PICK i \in 1..c : o[i] = j
    BY <1>6, <1>12
  <2> QED
    BY <2>1, <1>10, <1>11
<1>15. ASSUME NEW i \in 1..Len(q), NEW j \in 1..Len(q), i < j
       PROVE  \E a, b \in 1..Len(s) : a < b /\ q[i] = s[a] /\ q[j] = s[b]
  <2>1. o[i] < o[j] /\ o[i] \in 1..Len(s) /\ o[j] \in 1..Len(s)
    BY <1>6, <1>9, <1>10, <1>11, <1>15 DEF Increasing
  <2> QED
    BY <2>1, <1>10, <1>11
<1>16. Len(q) <= Len(s)
  BY <1>3, <1>5, <1>11
<1> QED
  BY <1>11, <1>13, <1>14, <1>15, <1>16 DEF IsKept

-----------------------------------------------------------------------------
(***************************************************************************)
(* What the tags of a repository are, and what a request that reads knows  *)
(* as long as no write to its repository came between its queries.         *)
(***************************************************************************)
Tagged(ts) ==
    /\ IsFiniteSet(ts)
    /\ \A s, t \in ts : s.repo = t.repo /\ s.name = t.name => s = t

\* Tag e of r leads to the manifest that was listed with it.
Listed(repos, ms, ts, r, e) ==
    \E x \in repos, m \in ms, t \in ts :
       /\ x.name = r /\ t.repo = x.id /\ t.name = e.name
       /\ m.id = t.man /\ m.repo = x.id /\ m.at = e.at /\ m.digest = e.digest

\* An answer of one tag tells of one manifest.
AnswerSound(repos, ms, r, a) ==
    /\ ~a.failed /\ a.listed = a.status
    /\ \E x \in repos, m \in ms : x.name = r /\ m.repo = x.id /\ m.digest = a.status /\ m.at = a.at

Entry == [name : Tag, at : Time, digest : Digest]
DetailsSound(k, repos, ms, ts) ==
    /\ DOMAIN k = {"op", "repo", "torn", "answer", "todo"} /\ k.repo \in Repo
    /\ k.todo \in Seq(Entry) /\ \E S : k.answer \in Seq(S)
    /\ ~k.torn => /\ \A i \in 1..Len(k.todo) : Listed(repos, ms, ts, k.repo, k.todo[i])
                  /\ \A i \in 1..Len(k.answer) : AnswerSound(repos, ms, k.repo, k.answer[i])

ResolveSound(k, repos, ms) ==
    /\ DOMAIN k = {"op", "repo", "digest", "torn", "done", "blobs"}
    /\ k.repo \in Repo /\ k.digest \in Digest
    /\ ~k.torn /\ ~k.done => Has(repos, ms, k.repo, k.digest)
    /\ ~k.torn /\ k.done => k.blobs = BlobsOf[k.digest]

\* The client has got every name up to the last one that was there all the time.
PagingSound(k, repos) ==
    /\ DOMAIN k = {"op", "last", "got", "done", "alive", "hidden"}
    /\ k.last \in Nat /\ k.got \in Seq(Nat) /\ Increasing(k.got, Len(k.got))
    /\ \A i \in 1..Len(k.got) : k.got[i] <= k.last
    /\ \A r \in k.alive : \E x \in repos : x.name = r
    /\ \A r \in k.alive \cap Visible :
          r <= k.last \/ (k.done /\ k.hidden < Limit) => \E i \in 1..Len(k.got) : k.got[i] = r

CallSound(k, repos, ms, ts) ==
    /\ k.op = "details" => DetailsSound(k, repos, ms, ts)
    /\ k.op = "resolve" => ResolveSound(k, repos, ms)
    /\ k.op = "page" => PagingSound(k, repos)

ReadInv ==
    /\ Tagged(tags)
    /\ \A c \in Client : CallSound(call[c], repositories, manifests, tags)

\* Nothing of repository q is lost from one state of the tables to another.
Stays(q, repos, ms, ts, rs, os, us) ==
    \A x \in repos : x.name = q =>
       /\ x \in rs
       /\ \A m \in ms : m.repo = x.id => m \in os
       /\ \A t \in ts : t.repo = x.id => t \in us

(* A write to repository r leaves the request either torn or as it was.    *)
LEMMA TornSound ==
    ASSUME NEW repos, NEW ms, NEW ts, NEW rs, NEW os, NEW us, NEW r,
           \A q \in Repo : q # r => Stays(q, repos, ms, ts, rs, os, us),
           NEW k, "op" \in DOMAIN k, CallSound(k, repos, ms, ts), NEW gone,
           k.op = "page" => \A x \in repos : x \in rs
    PROVE  CallSound(Torn(k, r, gone), rs, os, us)
<1>1. CASE k.op = "details" /\ k.repo = r
  <2>1. Torn(k, r, gone) = [k EXCEPT !.torn = TRUE]
    BY <1>1 DEF Torn
  <2>2. DetailsSound(k, repos, ms, ts)
    BY <1>1 DEF CallSound
  <2>3. PICK l : l = [k EXCEPT !.torn = TRUE]
    OBVIOUS
  <2>4. /\ DOMAIN l = {"op", "repo", "torn", "answer", "todo"} /\ l.op = "details"
        /\ l.repo = k.repo /\ l.torn /\ l.answer = k.answer /\ l.todo = k.todo
    BY <1>1, <2>2, <2>3 DEF DetailsSound
  <2>5. DetailsSound(l, rs, os, us)
    BY <2>2, <2>4 DEF DetailsSound
  <2> QED
    BY <2>1, <2>3, <2>4, <2>5 DEF CallSound
<1>2. CASE k.op = "resolve" /\ k.repo = r
  <2>1. Torn(k, r, gone) = [k EXCEPT !.torn = TRUE]
    BY <1>2 DEF Torn
  <2>2. ResolveSound(k, repos, ms)
    BY <1>2 DEF CallSound
  <2>3. PICK l : l = [k EXCEPT !.torn = TRUE]
    OBVIOUS
  <2>4. /\ DOMAIN l = {"op", "repo", "digest", "torn", "done", "blobs"} /\ l.op = "resolve"
        /\ l.repo = k.repo /\ l.torn /\ l.digest = k.digest
    BY <1>2, <2>2, <2>3 DEF ResolveSound
  <2>5. ResolveSound(l, rs, os)
    BY <2>2, <2>4 DEF ResolveSound
  <2> QED
    BY <2>1, <2>3, <2>4, <2>5 DEF CallSound
<1>3. CASE k.op = "publish"
  <2>1. PICK l : l = Torn(k, r, gone)
    OBVIOUS
  <2>2. l = [k EXCEPT !.lost = TRUE] \/ l = k
    BY <1>3, <2>1 DEF Torn
  <2>3. l.op \notin {"details", "resolve", "page"}
    BY <1>3, <2>2
  <2> QED
    BY <2>1, <2>3 DEF CallSound
<1>4. CASE k.op # "publish" /\ ~(k.op \in {"details", "resolve"} /\ k.repo = r)
  <2>1. Torn(k, r, gone) = k
    BY <1>4 DEF Torn
  <2>2. CASE k.op = "details"
    <3>1. DetailsSound(k, repos, ms, ts) /\ k.repo \in Repo /\ k.repo # r
      BY <1>4, <2>2 DEF CallSound, DetailsSound
    <3>2. Stays(k.repo, repos, ms, ts, rs, os, us)
      BY <3>1
    <3>3. \A e : Listed(repos, ms, ts, k.repo, e) => Listed(rs, os, us, k.repo, e)
      BY <3>2 DEF Stays, Listed
    <3>4. \A a : AnswerSound(repos, ms, k.repo, a) => AnswerSound(rs, os, k.repo, a)
      BY <3>2 DEF Stays, AnswerSound
    <3> QED
      BY <2>1, <2>2, <3>1, <3>3, <3>4 DEF CallSound, DetailsSound
  <2>3. CASE k.op = "resolve"
    <3>1. ResolveSound(k, repos, ms) /\ k.repo \in Repo /\ k.repo # r
      BY <1>4, <2>3 DEF CallSound, ResolveSound
    <3>2. Stays(k.repo, repos, ms, ts, rs, os, us)
      BY <3>1
    <3>3. Has(repos, ms, k.repo, k.digest) => Has(rs, os, k.repo, k.digest)
      BY <3>2 DEF Stays, Has
    <3> QED
      BY <2>1, <2>3, <3>1, <3>3 DEF CallSound, ResolveSound
  <2>4. CASE k.op = "page"
    <3>1. PagingSound(k, repos)
      BY <2>4 DEF CallSound
    <3>2. PagingSound(k, rs)
      BY <2>4, <3>1 DEF PagingSound
    <3> QED
      BY <2>1, <2>4, <3>2 DEF CallSound
  <2>5. CASE k.op \notin {"details", "resolve", "page"}
    BY <2>1, <2>5 DEF CallSound
  <2> QED
    BY <2>2, <2>3, <2>4, <2>5
<1> QED
  BY <1>1, <1>2, <1>3, <1>4

(* A page that loses a repository no longer counts on it.                  *)
LEMMA PagingLoses ==
    ASSUME NEW repos, NEW k, k.op = "page", PagingSound(k, repos), NEW r, NEW rs,
           \A x \in repos : x.name = r \/ x \in rs,
           NEW l, l = [k EXCEPT !.alive = k.alive \ {r}]
    PROVE  l.op = "page" /\ PagingSound(l, rs)
<1>1. /\ DOMAIN l = {"op", "last", "got", "done", "alive", "hidden"} /\ l.op = "page"
      /\ l.last = k.last /\ l.got = k.got /\ l.done = k.done /\ l.hidden = k.hidden
      /\ l.alive = k.alive \ {r}
  BY DEF PagingSound
<1>2. \A q \in l.alive : \E x \in rs : x.name = q
  BY <1>1 DEF PagingSound
<1>3. /\ l.last \in Nat /\ l.got \in Seq(Nat) /\ Increasing(l.got, Len(l.got))
      /\ \A i \in 1..Len(l.got) : l.got[i] <= l.last
  BY <1>1 DEF PagingSound
<1>4. \A q \in l.alive \cap Visible :
         q <= l.last \/ (l.done /\ l.hidden < Limit) => \E i \in 1..Len(l.got) : l.got[i] = q
  BY <1>1 DEF PagingSound
<1> QED
  BY <1>1, <1>2, <1>3, <1>4 DEF PagingSound

(***************************************************************************)
(* The writes.                                                             *)
(***************************************************************************)

(* A push leaves the other repositories as they are.                       *)
LEMMA PublishedStays ==
    ASSUME TInv, NEW r, NEW t, NEW d, NEW u, NEW at, NEW x, NEW m, TInv',
           Published(r, t, d, u, at, x, m), NEW q, q # r
    PROVE  Stays(q, repositories, manifests, tags, repositories', manifests', tags')
<1> SUFFICES ASSUME NEW y \in repositories, y.name = q
             PROVE  /\ y \in repositories'
                    /\ \A o \in manifests : o.repo = y.id => o \in manifests'
                    /\ \A s \in tags : s.repo = y.id => s \in tags'
  BY DEF Stays
<1>1. y \in repositories'
  BY DEF Published
<1>2. x \in repositories' /\ x.name = r /\ UniqueRows(repositories', manifests')
  BY DEF Published, TInv, Tables
<1>3. y.id # x.id
  BY <1>1, <1>2 DEF UniqueRows
<1>4. ASSUME NEW o \in manifests, o.repo = y.id PROVE o \in manifests'
  <2>1. m.repo = x.id
    BY DEF Published
  <2>2. CASE manifests' = manifests \cup {m}
    BY <2>2
  <2>3. CASE \E p \in manifests : Like(m, p) /\ manifests' = (manifests \ {p}) \cup {m}
    BY <2>1, <2>3, <1>3, <1>4 DEF Like
  <2> QED
    BY <2>2, <2>3 DEF Published
<1>5. ASSUME NEW s \in tags, s.repo = y.id PROVE s \in tags'
  BY <1>3, <1>5 DEF Published
<1> QED
  BY <1>1, <1>4, <1>5

(* A tag that is written replaces the one of its name.                     *)
LEMMA PublishedTagged ==
    ASSUME Tagged(tags), NEW r, NEW t, NEW d, NEW u, NEW at, NEW x, NEW m,
           Published(r, t, d, u, at, x, m)
    PROVE  Tagged(tags')
<1>1. CASE tags' = tags
  BY <1>1
<1>2. CASE tags' = {s \in tags : ~(s.repo = x.id /\ s.name = t)}
                     \cup {[repo |-> x.id, name |-> t, man |-> m.id]}
  <2> DEFINE rest == {s \in tags : ~(s.repo = x.id /\ s.name = t)}
             new  == [repo |-> x.id, name |-> t, man |-> m.id]
  <2>1. rest \in SUBSET tags /\ IsFiniteSet(tags)
    BY DEF Tagged
  <2>2. IsFiniteSet(rest)
    BY <2>1, FS_Subset
  <2>3. IsFiniteSet(rest \cup {new})
    BY <2>2, FS_AddElement
  <2>4. new.repo = x.id /\ new.name = t
    OBVIOUS
  <2>5. \A s, e \in rest : s.repo = e.repo /\ s.name = e.name => s = e
    BY DEF Tagged
  <2>6. \A s \in rest : ~(s.repo = x.id /\ s.name = t)
    OBVIOUS
  <2> HIDE DEF rest, new
  <2>7. \A s, e \in rest \cup {new} : s.repo = e.repo /\ s.name = e.name => s = e
    BY <2>4, <2>5, <2>6
  <2> QED
    BY <1>2, <2>3, <2>7 DEF Tagged, rest, new
<1> QED
  BY <1>1, <1>2 DEF Published

(* Fewer tags.                                                             *)
LEMMA FewerTagged ==
    ASSUME NEW ts, Tagged(ts), NEW us \in SUBSET ts
    PROVE  Tagged(us)
<1>1. IsFiniteSet(us)
  BY FS_Subset DEF Tagged
<1> QED
  BY <1>1 DEF Tagged

(* CommitPublish.                                                          *)
LEMMA CommitPublishRead ==
    ASSUME IInv, IInv', ReadInv, NEW c \in Client, NEW u \in User, NEW at \in Time,
           CommitPublish(c, u, at)
    PROVE  ReadInv'
<1>1. PICK x, m : Published(call[c].repo, call[c].tag, call[c].digest, u, at, x, m)
  BY CommitPublishes DEF IInv
<1>2. Tagged(tags')
  BY <1>1, PublishedTagged DEF ReadInv
<1>3. \A q \in Repo : q # call[c].repo =>
         Stays(q, repositories, manifests, tags, repositories', manifests', tags')
  BY <1>1, PublishedStays DEF IInv
<1>4. \A y \in repositories : y \in repositories'
  BY <1>1 DEF Published
<1>5. call' = [y \in Client |->
                 IF y = c
                 THEN IF isReferrerArtifactPush(call[c].digest, call[c].tag) THEN Idle
                      ELSE [op |-> "scan", repo |-> call[c].repo, digest |-> call[c].digest]
                 ELSE Torn(call[y], call[c].repo, {})]
  BY DEF CommitPublish
<1>6. call'[c].op \notin {"details", "resolve", "page"}
  BY <1>5 DEF Idle
<1>7. \A y \in Client \ {c} : call'[y] = Torn(call[y], call[c].repo, {})
  BY <1>5
<1>8. ASSUME NEW y \in Client PROVE CallSound(call'[y], repositories', manifests', tags')
  <2>1. CASE y = c
    BY <1>6, <2>1 DEF CallSound
  <2>2. CASE y # c
    <3>1. "op" \in DOMAIN call[y] /\ CallSound(call[y], repositories, manifests, tags)
      BY DEF IInv, CInv, ReadInv
    <3>2. CallSound(Torn(call[y], call[c].repo, {}), repositories', manifests', tags')
      BY <1>3, <1>4, <3>1, TornSound
    <3> QED
      BY <1>7, <2>2, <3>2
  <2> QED
    BY <2>1, <2>2
<1> QED
  BY <1>2, <1>8 DEF ReadInv

(* The deletes.                                                            *)
LEMMA DeletingRead ==
    ASSUME IInv, ReadInv, NEW r \in Repo, Deleting(r)
    PROVE  ReadInv'
<1>0. /\ UniqueRows(repositories, manifests) /\ References(repositories, manifests, tags)
      /\ TInv /\ Tagged(tags)
  BY DEF IInv, TInv, Tables, ReadInv
<1>1. \A t \in tags, m \in manifests : m.id = t.man => m.repo = t.repo
  BY <1>0 DEF References, UniqueRows
<1>2. \A c \in Client : "op" \in DOMAIN call[c] /\ CallSound(call[c], repositories, manifests, tags)
  BY DEF IInv, CInv, ReadInv
<1>3. ASSUME NEW gone, call' = [c \in Client |-> Torn(call[c], r, gone)],
             \A q \in Repo : q # r =>
                Stays(q, repositories, manifests, tags, repositories', manifests', tags'),
             repositories' = repositories, tags' \in SUBSET tags
      PROVE  ReadInv'
  <2>1. Tagged(tags')
    BY <1>0, <1>3, FewerTagged
  <2>2. ASSUME NEW c \in Client PROVE CallSound(call'[c], repositories', manifests', tags')
    <3>1. call'[c] = Torn(call[c], r, gone)
      BY <1>3
    <3>2. CallSound(Torn(call[c], r, gone), repositories', manifests', tags')
      BY <1>2, <1>3, TornSound
    <3> QED
      BY <3>1, <3>2
  <2> QED
    BY <2>1, <2>2 DEF ReadInv
<1>4. ASSUME NEW d \in Digest, DeleteManifestByDigest(r, d) PROVE ReadInv'
  <2>1. PICK x \in repositories, g \in manifests :
             /\ x.name = r /\ g.repo = x.id /\ g.digest = d
             /\ UNCHANGED <<repositories, rowId>> /\ manifests' = manifests \ {g}
             /\ tags' = {t \in tags : t.man # g.id}
    BY <1>0, <1>4, DeletedManifest
  <2>2. call' = [c \in Client |-> Torn(call[c], r, {d})]
    BY <1>4 DEF DeleteManifestByDigest
  <2>3. ASSUME NEW q \in Repo, q # r
        PROVE  Stays(q, repositories, manifests, tags, repositories', manifests', tags')
    <3>1. \A y \in repositories : y.name = q => y.id # x.id
      BY <1>0, <2>1, <2>3 DEF UniqueRows
    <3>2. \A y \in repositories : y.name = q => \A m \in manifests : m.repo = y.id => m \in manifests'
      BY <2>1, <3>1
    <3>3. \A y \in repositories : y.name = q => \A t \in tags : t.repo = y.id => t \in tags'
      BY <1>1, <2>1, <3>1
    <3> QED
      BY <2>1, <3>2, <3>3 DEF Stays
  <2>4. repositories' = repositories /\ tags' \in SUBSET tags
    BY <2>1
  <2> QED
    BY <1>3, <2>2, <2>3, <2>4
<1>5. ASSUME NEW name \in Tag, DeleteTag(r, name) PROVE ReadInv'
  <2>1. /\ UNCHANGED <<repositories, manifests>> /\ call' = [c \in Client |-> Torn(call[c], r, {})]
        /\ tags' = tags \ {t \in TagsOf(r) : t.name = name}
    BY <1>5 DEF DeleteTag
  <2>2. ASSUME NEW q \in Repo, q # r
        PROVE  Stays(q, repositories, manifests, tags, repositories', manifests', tags')
    <3>1. \A y \in repositories : y.name = q => \A t \in tags : t.repo = y.id => t \notin TagsOf(r)
      BY <1>0, <2>2 DEF UniqueRows, TagsOf, RepoRow
    <3> QED
      BY <2>1, <3>1 DEF Stays
  <2>3. repositories' = repositories /\ tags' \in SUBSET tags
    BY <2>1
  <2> QED
    BY <1>3, <2>1, <2>2, <2>3
<1>6. ASSUME DeleteRepository(r) PROVE ReadInv'
  <2>1. PICK x \in repositories :
             /\ x.name = r /\ repositories' = repositories \ {x}
             /\ manifests' = {m \in manifests : m.repo # x.id}
             /\ tags' = {t \in tags : t.repo # x.id}
    BY <1>0, <1>6, DeletedRepository
  <2> DEFINE gone == {m.digest : m \in RowsOf(r)}
  <2>2. call' = [c \in Client |->
                   IF call[c].op = "page" THEN [call[c] EXCEPT !.alive = call[c].alive \ {r}]
                   ELSE Torn(call[c], r, gone)]
    BY <1>6 DEF DeleteRepository
  <2> HIDE DEF gone
  <2>3. ASSUME NEW q \in Repo, q # r
        PROVE  Stays(q, repositories, manifests, tags, repositories', manifests', tags')
    <3>1. \A y \in repositories : y.name = q => y.id # x.id /\ y # x
      BY <1>0, <2>1, <2>3 DEF UniqueRows
    <3> QED
      BY <2>1, <3>1 DEF Stays
  <2>4. ASSUME NEW c \in Client PROVE CallSound(call'[c], repositories', manifests', tags')
    <3>1. CASE call[c].op = "page"
      <4>1. call'[c] = [call[c] EXCEPT !.alive = call[c].alive \ {r}]
        BY <2>2, <3>1
      <4>2. PagingSound(call[c], repositories)
        BY <1>2, <3>1 DEF CallSound
      <4>3. \A y \in repositories : y.name = r \/ y \in repositories'
        BY <2>1
      <4>4. call'[c].op = "page" /\ PagingSound(call'[c], repositories')
        BY <3>1, <4>1, <4>2, <4>3, PagingLoses
      <4> QED
        BY <4>4 DEF CallSound
    <3>2. CASE call[c].op # "page"
      <4>1. call'[c] = Torn(call[c], r, gone)
        BY <2>2, <3>2
      <4>2. CallSound(Torn(call[c], r, gone), repositories', manifests', tags')
        BY <1>2, <2>3, <3>2, TornSound
      <4> QED
        BY <4>1, <4>2
    <3> QED
      BY <3>1, <3>2
  <2>5. Tagged(tags')
    <3>1. tags' \in SUBSET tags
      BY <2>1
    <3> QED
      BY <1>0, <3>1, FewerTagged
  <2> QED
    BY <2>4, <2>5 DEF ReadInv
<1> QED
  BY <1>4, <1>5, <1>6 DEF Deleting

(***************************************************************************)
(* The queries of a request.                                               *)
(***************************************************************************)

(* A tag name selects the manifest that its one tag leads to.              *)
LEMMA TagResolves ==
    ASSUME TInv, Tagged(tags), NEW r, NEW name \in Tag
    PROVE  /\ \A m \in ResolveManifest(r, name) :
                \E x \in repositories, t \in tags :
                   x.name = r /\ t.repo = x.id /\ t.name = name /\ m.id = t.man /\ m.repo = x.id
                     /\ m \in manifests
           /\ \A m, o \in ResolveManifest(r, name) : m = o
           /\ \A x \in repositories, t \in tags, m \in manifests :
                x.name = r /\ t.repo = x.id /\ t.name = name /\ m.id = t.man /\ m.repo = x.id
                  => m \in ResolveManifest(r, name)
           /\ (\E t \in TagsOf(r) : t.name = name) => ResolveManifest(r, name) # {}
<1>0. UniqueRows(repositories, manifests) /\ References(repositories, manifests, tags)
  BY DEF TInv, Tables
<1>1. ResolveManifest(r, name) = {m \in RowsOf(r) : \E t \in TagsOf(r) : t.name = name /\ t.man = m.id}
  BY Registry_Constants DEF ResolveManifest
<1>2. \A m : m \in RowsOf(r) <=> m \in manifests /\ \E x \in repositories : x.name = r /\ m.repo = x.id
  BY DEF RowsOf, RepoRow
<1>3. \A t : t \in TagsOf(r) <=> t \in tags /\ \E x \in repositories : x.name = r /\ t.repo = x.id
  BY DEF TagsOf, RepoRow
<1>4. \A x, y \in repositories : x.name = r /\ y.name = r => x = y
  BY <1>0 DEF UniqueRows
<1>5. ASSUME NEW m \in ResolveManifest(r, name)
      PROVE  \E x \in repositories, t \in tags :
               x.name = r /\ t.repo = x.id /\ t.name = name /\ m.id = t.man /\ m.repo = x.id
                 /\ m \in manifests
  BY <1>1, <1>2, <1>3, <1>4
<1>6. ASSUME NEW m \in ResolveManifest(r, name), NEW o \in ResolveManifest(r, name) PROVE m = o
  <2>1. PICK x \in repositories, s \in tags :
          x.name = r /\ s.repo = x.id /\ s.name = name /\ m.id = s.man /\ m \in manifests
    BY <1>5
  <2>2. PICK y \in repositories, t \in tags :
          y.name = r /\ t.repo = y.id /\ t.name = name /\ o.id = t.man /\ o \in manifests
    BY <1>5
  <2>3. s = t
    BY <2>1, <2>2, <1>4 DEF Tagged
  <2> QED
    BY <2>1, <2>2, <2>3, <1>0 DEF UniqueRows
<1>7. \A x \in repositories, t \in tags, m \in manifests :
         x.name = r /\ t.repo = x.id /\ t.name = name /\ m.id = t.man /\ m.repo = x.id
           => m \in ResolveManifest(r, name)
  BY <1>1, <1>2, <1>3
<1>8. ASSUME NEW t \in TagsOf(r), t.name = name PROVE ResolveManifest(r, name) # {}
  <2>1. PICK x \in repositories : x.name = r /\ t.repo = x.id /\ t \in tags
    BY <1>3
  <2>2. PICK m \in manifests : m.id = t.man /\ m.repo = t.repo
    BY <1>0, <2>1 DEF References
  <2> QED
    BY <1>7, <1>8, <2>1, <2>2
<1> QED
  BY <1>5, <1>6, <1>7, <1>8

(* The names of the repositories and of the tags are finitely many.        *)
LEMMA NamesFinite ==
    ASSUME TInv, Tagged(tags), NEW r
    PROVE  /\ {x.name : x \in repositories} \in SUBSET Nat /\ IsFiniteSet({x.name : x \in repositories})
           /\ {t.name : t \in TagsOf(r)} \in SUBSET Nat /\ IsFiniteSet({t.name : t \in TagsOf(r)})
<1>0. /\ repositories \subseteq RepositoryRow /\ tags \subseteq TagRow
      /\ \A x, y \in repositories : x.id = y.id => x = y
      /\ rowId \in Nat /\ \A x \in repositories : x.id \in 0..rowId
  BY DEF TInv, Tables, Rows, UniqueRows, RepositoryRow
<1>1. IsFiniteSet(repositories)
  <2> DEFINE f == [x \in repositories |-> x.id]
  <2>1. f \in Injection(repositories, 0..rowId)
    BY <1>0 DEF Injection, IsInjective
  <2>2. IsFiniteSet(0..rowId)
    BY <1>0, FS_Interval
  <2> QED
    BY <2>1, <2>2, FS_Injection
<1>2. IsFiniteSet({x.name : x \in repositories})
  <2> DEFINE f == [x \in repositories |-> x.name]
  <2>1. f \in Surjection(repositories, {x.name : x \in repositories})
    BY DEF Surjection
  <2> QED
    BY <1>1, <2>1, FS_Surjection
<1>3. TagsOf(r) \in SUBSET tags /\ IsFiniteSet(tags)
  BY DEF TagsOf, Tagged
<1>4. IsFiniteSet(TagsOf(r))
  BY <1>3, FS_Subset
<1>5. IsFiniteSet({t.name : t \in TagsOf(r)})
  <2> DEFINE f == [t \in TagsOf(r) |-> t.name]
  <2>1. f \in Surjection(TagsOf(r), {t.name : t \in TagsOf(r)})
    BY DEF Surjection
  <2> QED
    BY <1>4, <2>1, FS_Surjection
<1>6. {x.name : x \in repositories} \in SUBSET Nat
  <2>1. \A x \in RepositoryRow : x.name \in Nat
    BY Registry_Constants DEF RepositoryRow
  <2>2. \A x \in repositories : x.name \in Nat
    BY <1>0, <2>1
  <2> QED
    BY <2>2
<1>7. {t.name : t \in TagsOf(r)} \in SUBSET Nat
  <2>1. \A t \in TagRow : t.name \in Nat
    BY Registry_Constants DEF TagRow
  <2>2. \A t \in TagsOf(r) : t.name \in Nat
    BY <1>0, <1>3, <2>1
  <2> QED
    BY <2>2
<1> QED
  BY <1>2, <1>5, <1>6, <1>7

(* A step of one client that writes no row.                                *)
LEMMA OneRead ==
    ASSUME ReadInv, UNCHANGED tables, NEW c \in Client,
           \A y \in Client \ {c} : call'[y] = call[y],
           CallSound(call'[c], repositories, manifests, tags)
    PROVE  ReadInv'
<1>1. UNCHANGED <<repositories, manifests, tags>>
  BY DEF tables
<1>2. \A y \in Client : CallSound(call'[y], repositories, manifests, tags)
  BY DEF ReadInv
<1> QED
  BY <1>1, <1>2 DEF ReadInv

(* What a listing of tags pairs: each name with the manifest of its tag.   *)
LEMMA ListingSound ==
    ASSUME TInv, Tagged(tags), NEW r \in Repo, NEW l, l = ListTagsWithCreatedAt(r, 0, 0)
    PROVE  l \in Seq(Entry) /\ \A i \in 1..Len(l) : Listed(repositories, manifests, tags, r, l[i])
<1> DEFINE names == {t.name : t \in TagsOf(r)}
<1>1. names \in SUBSET Nat /\ IsFiniteSet(names)
  BY NamesFinite
<1>2. PICK p : p = Page(names, 0, 0)
  OBVIOUS
<1>3. p \in Seq(names)
  <2> HIDE DEF names
  <2>1. 0 \in Nat
    OBVIOUS
  <2>2. IsPage(p, names, 0, 0)
    BY <1>1, <1>2, <2>1, PageSound
  <2> QED
    BY <2>2 DEF IsPage
<1>4. p = ListTags(r, 0, 0)
  BY <1>2 DEF ListTags
<1>5. names \in SUBSET Tag
  BY DEF TInv, Tables, Rows, TagRow, TagsOf
<1> DEFINE E(n) == [name |-> n, at |-> Selected(r, n).at, digest |-> Selected(r, n).digest]
<1>6. l = [i \in DOMAIN p |-> E(p[i])]
  BY <1>4 DEF ListTagsWithCreatedAt
<1>7. ASSUME NEW n \in names PROVE E(n) \in Entry /\ Listed(repositories, manifests, tags, r, E(n))
  <2>1. n \in Tag /\ \E t \in TagsOf(r) : t.name = n
    BY <1>5
  <2>2. ResolveManifest(r, n) # {}
    BY <2>1, TagResolves
  <2>3. PICK m : m = Selected(r, n)
    OBVIOUS
  <2>4. m \in ResolveManifest(r, n)
    BY <2>2, <2>3 DEF Selected
  <2>5. PICK x \in repositories, t \in tags :
          x.name = r /\ t.repo = x.id /\ t.name = n /\ m.id = t.man /\ m.repo = x.id /\ m \in manifests
    BY <2>1, <2>4, TagResolves
  <2>6. m.at \in Time /\ m.digest \in Digest
    BY <2>5 DEF TInv, Tables, Rows, ManifestRow
  <2>7. PICK e : e = E(n)
    OBVIOUS
  <2>8. e = [name |-> n, at |-> m.at, digest |-> m.digest]
    BY <2>3, <2>7
  <2>9. e \in Entry /\ e.name = n /\ e.at = m.at /\ e.digest = m.digest
    BY <2>1, <2>6, <2>8 DEF Entry
  <2>10. Listed(repositories, manifests, tags, r, e)
    BY <2>5, <2>9 DEF Listed
  <2> QED
    BY <2>7, <2>9, <2>10
<1> HIDE DEF names, E
<1>8. DOMAIN p = 1..Len(p) /\ Len(p) \in Nat /\ \A i \in 1..Len(p) : p[i] \in names
  BY <1>3
<1>9. \A i \in 1..Len(p) : l[i] = E(p[i]) /\ l[i] \in Entry
  BY <1>6, <1>7, <1>8
<1>10. l \in Seq(Entry) /\ Len(l) = Len(p)
  BY <1>6, <1>8, <1>9
<1>11. ASSUME NEW i \in 1..Len(l) PROVE Listed(repositories, manifests, tags, r, l[i])
  <2>1. l[i] = E(p[i]) /\ p[i] \in names
    BY <1>8, <1>9, <1>10
  <2> QED
    BY <2>1, <1>7
<1> QED
  BY <1>10, <1>11

(* TagDetails.                                                             *)
LEMMA TagDetailsRead ==
    ASSUME IInv, ReadInv, NEW c \in Client, NEW r \in Repo, TagDetails(c, r)
    PROVE  CallSound(call'[c], repositories, manifests, tags)
<1>1. TInv /\ Tagged(tags) /\ c \in DOMAIN call
  BY DEF IInv, ReadInv, CInv
<1>2. PICK l : l = ListTagsWithCreatedAt(r, 0, 0)
  OBVIOUS
<1>3. l \in Seq(Entry) /\ \A i \in 1..Len(l) : Listed(repositories, manifests, tags, r, l[i])
  BY <1>1, <1>2, ListingSound
<1>4. PICK S : S = {t \in Range(l) : ~isCosignSignatureArtifactTag(t.name)}
  OBVIOUS
<1>5. PICK q : q = Kept(l, S)
  OBVIOUS
<1>6. call'[c] = [op |-> "details", repo |-> r, torn |-> FALSE, answer |-> <<>>, todo |-> q]
  BY <1>1, <1>2, <1>4, <1>5 DEF TagDetails
<1>7. q \in Seq(Entry) /\ \A i \in 1..Len(q) : q[i] \in S
  <2>1. IsKept(q, l, S, Entry)
    BY <1>3, <1>5, KeptSound
  <2> QED
    BY <2>1 DEF IsKept
<1>8. \A i \in 1..Len(q) : Listed(repositories, manifests, tags, r, q[i])
  <2> SUFFICES ASSUME NEW i \in 1..Len(q) PROVE Listed(repositories, manifests, tags, r, q[i])
    OBVIOUS
  <2>1. q[i] \in Range(l)
    BY <1>4, <1>7
  <2>2. PICK j \in 1..Len(l) : q[i] = l[j]
    BY <1>3, <2>1 DEF Range
  <2> QED
    BY <1>3, <2>2
<1>9. PICK k : k = call'[c]
  OBVIOUS
<1>10. /\ DOMAIN k = {"op", "repo", "torn", "answer", "todo"} /\ k.op = "details" /\ k.repo = r
       /\ k.todo = q /\ k.answer = <<>>
  BY <1>6, <1>9
<1>11. k.answer \in Seq({}) /\ Len(k.answer) = 0
  BY <1>10
<1>12. DetailsSound(k, repositories, manifests, tags)
  BY <1>7, <1>8, <1>10, <1>11 DEF DetailsSound
<1> QED
  BY <1>9, <1>10, <1>12 DEF CallSound

(* TagStatus, while no write to the repository came between the queries:   *)
(* the tag leads to the manifest that was listed with it.                  *)
LEMMA StatusIsListed ==
    ASSUME TInv, Tagged(tags), NEW r, NEW t \in Entry, Listed(repositories, manifests, tags, r, t)
    PROVE  /\ ResolveManifest(r, t.name) # {} /\ Selected(r, t.name).digest = t.digest
           /\ \E x \in repositories, m \in manifests :
                x.name = r /\ m.repo = x.id /\ m.digest = t.digest /\ m.at = t.at
<1>1. PICK x \in repositories, m \in manifests, g \in tags :
         /\ x.name = r /\ g.repo = x.id /\ g.name = t.name
         /\ m.id = g.man /\ m.repo = x.id /\ m.at = t.at /\ m.digest = t.digest
  BY DEF Listed
<1>2. t.name \in Tag
  BY DEF Entry
<1>3. m \in ResolveManifest(r, t.name) /\ \A o \in ResolveManifest(r, t.name) : o = m
  BY <1>1, <1>2, TagResolves
<1>4. Selected(r, t.name) = m
  BY <1>3 DEF Selected
<1> QED
  BY <1>1, <1>3, <1>4

LEMMA TagStatusRead ==
    ASSUME IInv, ReadInv, NEW c \in Client, TagStatus(c)
    PROVE  CallSound(call'[c], repositories, manifests, tags)
<1>1. TInv /\ Tagged(tags) /\ c \in DOMAIN call
  BY DEF IInv, ReadInv, CInv
<1>2. PICK k : k = call[c]
  OBVIOUS
<1>3. k.op = "details" /\ k.todo # <<>> /\ DetailsSound(k, repositories, manifests, tags)
  BY <1>2 DEF TagStatus, ReadInv, CallSound
<1>4. PICK t : t = Head(k.todo)
  OBVIOUS
<1>6. /\ DOMAIN k = {"op", "repo", "torn", "answer", "todo"} /\ k.repo \in Repo
      /\ k.todo \in Seq(Entry) /\ \E S : k.answer \in Seq(S)
  BY <1>3 DEF DetailsSound
<1>7. /\ t \in Entry /\ t = k.todo[1] /\ 1 \in 1..Len(k.todo)
      /\ Tail(k.todo) \in Seq(Entry) /\ Len(Tail(k.todo)) = Len(k.todo) - 1
      /\ \A i \in 1..Len(Tail(k.todo)) : Tail(k.todo)[i] = k.todo[i + 1] /\ i + 1 \in 1..Len(k.todo)
  BY <1>3, <1>4, <1>6
<1>8. PICK l : l = call'[c]
  OBVIOUS
<1> DEFINE bad  == [name |-> t.name, failed |-> TRUE]
           good == [name |-> t.name, failed |-> FALSE, at |-> t.at, listed |-> t.digest,
                    status |-> Selected(k.repo, t.name).digest]
           found == ResolveManifest(k.repo, t.name)
<1> DEFINE v == IF found = {} THEN [k EXCEPT !.todo = <<>>, !.answer = <<bad>>]
                ELSE [k EXCEPT !.todo = Tail(k.todo), !.answer = Append(k.answer, good)]
<1>a. call' = [call EXCEPT ![c] = v]
  BY <1>2, <1>4, Zenon DEF TagStatus
<1>b. PICK w : w = v
  OBVIOUS
<1>e. call' = [call EXCEPT ![c] = w]
  BY <1>a, <1>b, Zenon
<1>f. l = w
  <2> HIDE DEF v
  <2> QED
    BY <1>1, <1>8, <1>e
<1>c. l = v
  BY <1>f, <1>b, Zenon
<1>d. t \in Entry
  BY <1>7
<1> HIDE DEF bad, good, found
<1>9. CASE found = {}
  <2>1. PICK a : a = bad
    OBVIOUS
  <2>2. l = [k EXCEPT !.todo = <<>>, !.answer = <<a>>]
    BY <1>9, <1>c, <2>1
  <2>3. /\ DOMAIN l = {"op", "repo", "torn", "answer", "todo"} /\ l.op = "details" /\ l.repo = k.repo
        /\ l.torn = k.torn /\ l.todo = <<>> /\ l.answer = <<a>>
    BY <1>3, <1>6, <2>2
  <2>4. k.torn
    <3>1. SUFFICES ASSUME ~k.torn PROVE FALSE
      BY Zenon
    <3>2. Listed(repositories, manifests, tags, k.repo, t)
      BY <1>3, <1>7, <3>1 DEF DetailsSound
    <3>3. found # {}
      BY <1>1, <1>d, <3>2, StatusIsListed DEF found
    <3> QED
      BY <1>9, <3>3
  <2>5. l.torn
    BY <2>3, <2>4
  <2>6. l.todo \in Seq(Entry) /\ l.answer \in Seq({a})
    BY <2>3
  <2>7. DetailsSound(l, repositories, manifests, tags)
    BY <1>6, <2>3, <2>5, <2>6 DEF DetailsSound
  <2> QED
    BY <1>8, <2>3, <2>7 DEF CallSound
<1>10. CASE found # {}
  <2>1. PICK a : a = good
    OBVIOUS
  <2>2. l = [k EXCEPT !.todo = Tail(k.todo), !.answer = Append(k.answer, a)]
    BY <1>10, <1>c, <2>1
  <2>3. /\ DOMAIN l = {"op", "repo", "torn", "answer", "todo"} /\ l.op = "details" /\ l.repo = k.repo
        /\ l.torn = k.torn /\ l.todo = Tail(k.todo) /\ l.answer = Append(k.answer, a)
    BY <1>3, <1>6, <2>2
  <2>4. PICK S : k.answer \in Seq(S)
    BY <1>6
  <2>5. /\ l.answer \in Seq(S \cup {a}) /\ Len(l.answer) = Len(k.answer) + 1
        /\ \A i \in 1..Len(l.answer) : l.answer[i] = a \/ (i \in 1..Len(k.answer) /\ l.answer[i] = k.answer[i])
    BY <2>3, <2>4
  <2>6. ASSUME ~l.torn
        PROVE  /\ \A i \in 1..Len(l.todo) : Listed(repositories, manifests, tags, l.repo, l.todo[i])
               /\ \A i \in 1..Len(l.answer) : AnswerSound(repositories, manifests, l.repo, l.answer[i])
    <3>1. ~k.torn
      BY <2>3, <2>6
    <3>2. \A i \in 1..Len(k.todo) : Listed(repositories, manifests, tags, k.repo, k.todo[i])
      BY <1>3, <3>1 DEF DetailsSound
    <3>3. \A i \in 1..Len(k.answer) : AnswerSound(repositories, manifests, k.repo, k.answer[i])
      BY <1>3, <3>1 DEF DetailsSound
    <3>a. Listed(repositories, manifests, tags, k.repo, t)
      BY <1>7, <3>2
    <3>4. /\ Selected(k.repo, t.name).digest = t.digest
          /\ \E x \in repositories, m \in manifests :
               x.name = k.repo /\ m.repo = x.id /\ m.digest = t.digest /\ m.at = t.at
      BY <1>1, <1>d, <3>a, StatusIsListed
    <3>5. ~good.failed
      BY DEF good
    <3>6. good.listed = t.digest /\ good.at = t.at /\ good.status = t.digest
      BY <3>4 DEF good
    <3>7. AnswerSound(repositories, manifests, k.repo, a)
      BY <2>1, <3>4, <3>5, <3>6 DEF AnswerSound
    <3>8. \A i \in 1..Len(l.todo) : Listed(repositories, manifests, tags, l.repo, l.todo[i])
      BY <1>7, <2>3, <3>2
    <3>9. \A i \in 1..Len(l.answer) : AnswerSound(repositories, manifests, l.repo, l.answer[i])
      BY <2>3, <2>5, <3>3, <3>7
    <3> QED
      BY <3>8, <3>9
  <2>7. l.todo \in Seq(Entry) /\ \E Z : l.answer \in Seq(Z)
    BY <1>7, <2>3, <2>5
  <2>8. DetailsSound(l, repositories, manifests, tags)
    BY <1>6, <2>3, <2>6, <2>7 DEF DetailsSound
  <2> QED
    BY <1>8, <2>3, <2>8 DEF CallSound
<1> QED
  BY <1>9, <1>10

(* Resolve.                                                                *)
LEMMA ResolveRead ==
    ASSUME IInv, NEW c \in Client, NEW r \in Repo, NEW ref, Resolve(c, r, ref)
    PROVE  CallSound(call'[c], repositories, manifests, tags)
<1>1. PICK m \in ResolveManifest(r, ref) :
         call' = [call EXCEPT ![c] = [op |-> "resolve", repo |-> r, digest |-> m.digest,
                                      torn |-> FALSE, done |-> FALSE, blobs |-> <<>>]]
  BY DEF Resolve
<1>2. m \in RowsOf(r)
  BY DEF ResolveManifest, ByDigest
<1>3. PICK x \in repositories : x.name = r /\ m.repo = x.id /\ m \in manifests
  BY <1>2 DEF RowsOf, RepoRow
<1>4. m.digest \in Digest
  BY <1>3 DEF IInv, TInv, Tables, Rows, ManifestRow
<1>5. PICK k : k = call'[c]
  OBVIOUS
<1>6. k = [op |-> "resolve", repo |-> r, digest |-> m.digest, torn |-> FALSE, done |-> FALSE,
           blobs |-> <<>>]
  BY <1>1, <1>5 DEF IInv, CInv
<1>7. /\ DOMAIN k = {"op", "repo", "digest", "torn", "done", "blobs"}
      /\ k.op = "resolve" /\ k.repo = r /\ k.digest = m.digest /\ ~k.done
  BY <1>6
<1>8. Has(repositories, manifests, r, m.digest)
  BY <1>3 DEF Has
<1>9. ResolveSound(k, repositories, manifests)
  BY <1>4, <1>7, <1>8 DEF ResolveSound
<1> QED
  BY <1>5, <1>7, <1>9 DEF CallSound

(* The blobs of a manifest are listed in its payload's order.              *)
LEMMA BlobsListed ==
    ASSUME TInv, BInv, NEW r, NEW d \in Digest, Has(repositories, manifests, r, d)
    PROVE  ListManifestBlobs(r, d) = BlobsOf[d]
<1>0. /\ UniqueRows(repositories, manifests) /\ BlobsOf[d] \in Seq(Blob)
      /\ \A m \in manifests : {b \in blobRows : b.man = m.id} = BlobRows(m.id, m.digest)
  BY Registry_Constants DEF TInv, Tables, BInv, Blobs
<1>1. PICK x \in repositories, m \in manifests : x.name = r /\ m.repo = x.id /\ m.digest = d
  BY DEF Has
<1>2. ByDigest(r, d) = {m}
  BY <1>0, <1>1 DEF ByDigest, RowsOf, RepoRow, UniqueRows
<1> DEFINE rows == {b \in blobRows : \E z \in ByDigest(r, d) : b.man = z.id}
           p    == InOrder({b.pos : b \in rows})
<1>3. ListManifestBlobs(r, d) = [i \in 1..Len(p) |-> (CHOOSE b \in rows : b.pos = p[i]).blob]
  BY DEF ListManifestBlobs
<1>4. rows = BlobRows(m.id, d)
  BY <1>0, <1>1, <1>2
<1>5. PICK n : n = Len(BlobsOf[d])
  OBVIOUS
<1>6. n \in Nat /\ DOMAIN BlobsOf[d] = 1..n
  BY <1>0, <1>5
<1> HIDE DEF rows
<1>7. /\ \A b \in rows : b.pos \in 1..n /\ b.blob = BlobsOf[d][b.pos]
      /\ \A i \in 1..n : \E b \in rows : b.pos = i
  <2>1. \A b \in rows : \E i \in 1..n : b = [man |-> m.id, pos |-> i, blob |-> BlobsOf[d][i]]
    BY <1>4, <1>6 DEF BlobRows
  <2>2. \A i \in 1..n : [man |-> m.id, pos |-> i, blob |-> BlobsOf[d][i]] \in rows
    BY <1>4, <1>6 DEF BlobRows
  <2>3. \A i \in 1..n : \E b \in rows : b.pos = i
    BY <2>2
  <2>4. ASSUME NEW b \in rows PROVE b.pos \in 1..n /\ b.blob = BlobsOf[d][b.pos]
    <3>1. PICK i \in 1..n : b = [man |-> m.id, pos |-> i, blob |-> BlobsOf[d][i]]
      BY <2>1
    <3>2. b.pos = i /\ b.blob = BlobsOf[d][i]
      BY <3>1
    <3> QED
      BY <3>2
  <2> QED
    BY <2>3, <2>4
<1>8. {b.pos : b \in rows} = 1..n
  BY <1>7
<1>9. p = [i \in 1..n |-> i]
  BY <1>6, <1>8, InOrderInterval
<1> HIDE DEF p
<1>10. Len(p) = n /\ \A i \in 1..n : p[i] = i
  BY <1>6, <1>9
<1>13. ASSUME NEW i \in 1..n PROVE (CHOOSE b \in rows : b.pos = p[i]).blob = BlobsOf[d][i]
  <2>1. PICK w : w = CHOOSE b \in rows : b.pos = p[i]
    OBVIOUS
  <2>2. \E b \in rows : b.pos = p[i]
    BY <1>7, <1>10
  <2>3. w \in rows /\ w.pos = p[i]
    BY <2>1, <2>2
  <2>4. w.blob = BlobsOf[d][i]
    BY <1>7, <1>10, <2>3
  <2> QED
    BY <2>1, <2>4
<1>14. BlobsOf[d] = [i \in 1..n |-> BlobsOf[d][i]]
  BY <1>0, <1>6
<1> QED
  BY <1>3, <1>10, <1>13, <1>14

LEMMA ResolveBlobsRead ==
    ASSUME IInv, ReadInv, NEW c \in Client, ResolveBlobs(c)
    PROVE  CallSound(call'[c], repositories, manifests, tags)
<1>1. PICK k : k = call[c]
  OBVIOUS
<1>2. k.op = "resolve" /\ ~k.done /\ ResolveSound(k, repositories, manifests)
  BY <1>1 DEF ResolveBlobs, ReadInv, CallSound
<1>3. PICK bs : bs = ListManifestBlobs(k.repo, k.digest)
  OBVIOUS
<1>4. PICK l : l = call'[c]
  OBVIOUS
<1>5. l = [k EXCEPT !.done = TRUE, !.blobs = bs]
  BY <1>1, <1>3, <1>4 DEF ResolveBlobs, IInv, CInv
<1>6. /\ DOMAIN l = {"op", "repo", "digest", "torn", "done", "blobs"} /\ l.op = "resolve"
      /\ l.repo = k.repo /\ l.digest = k.digest /\ l.torn = k.torn /\ l.done /\ l.blobs = bs
  BY <1>2, <1>5 DEF ResolveSound
<1>7. ASSUME ~l.torn PROVE l.blobs = BlobsOf[l.digest]
  <2>1. ~k.torn
    BY <1>6, <1>7
  <2>2. Has(repositories, manifests, k.repo, k.digest) /\ k.digest \in Digest
    BY <1>2, <2>1 DEF ResolveSound
  <2> QED
    BY <1>3, <1>6, <2>2, BlobsListed DEF IInv
<1>8. ResolveSound(l, repositories, manifests)
  BY <1>2, <1>6, <1>7 DEF ResolveSound
<1> QED
  BY <1>4, <1>6, <1>8 DEF CallSound

(* StartPaging: nothing was got, and no name is below the first.           *)
LEMMA StartPagingRead ==
    ASSUME IInv, NEW c \in Client, StartPaging(c)
    PROVE  CallSound(call'[c], repositories, manifests, tags)
<1>1. PICK k : k = call'[c]
  OBVIOUS
<1>2. PICK names : names = {x.name : x \in repositories}
  OBVIOUS
<1>3. k = [op |-> "page", last |-> 0, got |-> <<>>, done |-> FALSE, alive |-> names, hidden |-> 0]
  BY <1>1, <1>2 DEF StartPaging, IInv, CInv
<1>4. /\ DOMAIN k = {"op", "last", "got", "done", "alive", "hidden"} /\ k.op = "page"
      /\ k.last = 0 /\ k.got = <<>> /\ ~k.done /\ k.alive = names
  BY <1>3
<1>5. \A r \in Visible : r \in Nat /\ r > 0
  BY Registry_Constants
<1>6. k.got \in Seq(Nat) /\ Len(k.got) = 0
  BY <1>4
<1>7. \A r \in k.alive : \E x \in repositories : x.name = r
  BY <1>2, <1>4
<1>8. PagingSound(k, repositories)
  BY <1>4, <1>5, <1>6, <1>7 DEF PagingSound, Increasing
<1> QED
  BY <1>1, <1>4, <1>8 DEF CallSound

(* What a page adds lies behind everything got so far, and skips a name    *)
(* the reader may see only when it is full.                                *)
ShowsOn(rows, shown, names, last) ==
    /\ rows \in Seq(Nat) /\ shown \in Seq(Nat) /\ Increasing(shown, Len(shown))
    /\ \A i \in 1..Len(shown) : shown[i] > last
    /\ \A r \in names \cap Visible : r > last =>
         \/ \E i \in 1..Len(shown) : shown[i] = r
         \/ Len(rows) = Limit /\ \A i \in 1..Len(shown) : shown[i] < r

LEMMA PageShown ==
    ASSUME NEW names \in SUBSET Nat, IsFiniteSet(names), NEW last \in Nat,
           NEW rows, rows = Page(names, last, Limit), NEW shown, shown = Kept(rows, Visible)
    PROVE  ShowsOn(rows, shown, names, last)
<1>a. Limit \in Nat
  BY Registry_Constants
<1>b. IsPage(rows, names, last, Limit)
  BY <1>a, PageSound
<1>1. /\ rows \in Seq(names) /\ Increasing(rows, Len(rows))
      /\ \A i \in 1..Len(rows) : rows[i] > last
      /\ \A x \in names : x > last =>
           \/ \E i \in 1..Len(rows) : rows[i] = x
           \/ Limit # 0 /\ Len(rows) = Limit /\ \A i \in 1..Len(rows) : rows[i] < x
  BY <1>b, Zenon DEF IsPage
<1>c. rows \in Seq(names)
  BY <1>1
<1>d. IsKept(shown, rows, Visible, names)
  BY <1>c, KeptSound
<1>2. /\ shown \in Seq(names)
      /\ \A i \in 1..Len(shown) : shown[i] \in Visible /\ \E a \in 1..Len(rows) : shown[i] = rows[a]
      /\ \A j \in 1..Len(rows) : rows[j] \in Visible => \E i \in 1..Len(shown) : shown[i] = rows[j]
      /\ \A i, j \in 1..Len(shown) : i < j =>
           \E a, b \in 1..Len(rows) : a < b /\ shown[i] = rows[a] /\ shown[j] = rows[b]
  BY <1>d, Zenon DEF IsKept
<1>3. \A i \in 1..Len(shown) : \E a \in 1..Len(rows) : shown[i] = rows[a]
  BY <1>2, Zenon
<1>e. shown \in Seq(names)
  BY <1>2
<1>4. rows \in Seq(Nat) /\ shown \in Seq(Nat)
  BY <1>c, <1>e, SeqOfMore
<1>5. Increasing(shown, Len(shown))
  BY <1>1, <1>2 DEF Increasing
<1>6. \A i \in 1..Len(shown) : shown[i] > last
  BY <1>1, <1>3
<1>7. ASSUME NEW r \in names \cap Visible, r > last
      PROVE  \/ \E i \in 1..Len(shown) : shown[i] = r
             \/ Len(rows) = Limit /\ \A i \in 1..Len(shown) : shown[i] < r
  <2>1. CASE \E j \in 1..Len(rows) : rows[j] = r
    BY <2>1, <1>2
  <2>2. CASE Len(rows) = Limit /\ \A j \in 1..Len(rows) : rows[j] < r
    BY <2>2, <1>3
  <2> QED
    BY <1>1, <1>7, <2>1, <2>2
<1> QED
  BY <1>4, <1>5, <1>6, <1>7, Zenon DEF ShowsOn

(* NextPage.                                                               *)
Paged(k, rows, shown) ==
    [k EXCEPT !.got = k.got \o shown, !.last = IF shown = <<>> THEN k.last ELSE shown[Len(shown)],
              !.done = shown = <<>>, !.hidden = Len(rows) - Len(shown)]

LEMMA PagedFurther ==
    ASSUME NEW repos, NEW names \in SUBSET Nat, names = {x.name : x \in repos}, IsFiniteSet(names),
           NEW k, k.op = "page", PagingSound(k, repos), ~k.done,
           NEW rows, rows = Page(names, k.last, Limit), NEW shown, shown = Kept(rows, Visible),
           NEW l, l = Paged(k, rows, shown)
    PROVE  l.op = "page" /\ PagingSound(l, repos)
<1>1. /\ DOMAIN k = {"op", "last", "got", "done", "alive", "hidden"}
      /\ k.last \in Nat /\ k.got \in Seq(Nat) /\ Increasing(k.got, Len(k.got))
      /\ \A i \in 1..Len(k.got) : k.got[i] <= k.last
      /\ \A r \in k.alive : \E x \in repos : x.name = r
      /\ \A r \in k.alive \cap Visible : r <= k.last => \E i \in 1..Len(k.got) : k.got[i] = r
  BY DEF PagingSound
<1>2. /\ rows \in Seq(Nat) /\ shown \in Seq(Nat) /\ Increasing(shown, Len(shown))
      /\ \A i \in 1..Len(shown) : shown[i] > k.last
      /\ \A r \in names \cap Visible : r > k.last =>
           \/ \E i \in 1..Len(shown) : shown[i] = r
           \/ Len(rows) = Limit /\ \A i \in 1..Len(shown) : shown[i] < r
  <2>1. k.last \in Nat
    BY <1>1
  <2>2. ShowsOn(rows, shown, names, k.last)
    BY <2>1, PageShown
  <2> QED
    BY <2>2, Zenon DEF ShowsOn
<1>3. PICK n : n = Len(k.got)
  OBVIOUS
<1>4. PICK s : s = Len(shown)
  OBVIOUS
<1>5. PICK z : z = IF shown = <<>> THEN k.last ELSE shown[Len(shown)]
  OBVIOUS
<1>6. n \in Nat /\ s \in Nat /\ (s = 0 <=> shown = <<>>)
  BY <1>1, <1>2, <1>3, <1>4
<1>a. \A i \in 1..s : shown[i] \in Nat /\ shown[i] > k.last
  BY <1>2, <1>4
<1>b. k.last \in Nat
  BY <1>1
<1>c. \A i, j \in 1..s : i < j => shown[i] < shown[j]
  BY <1>2, <1>4, Zenon DEF Increasing
<1>d. Len(rows) \in Nat
  BY <1>2
<1>7. PICK g : g = k.got \o shown
  OBVIOUS
<1>8. /\ g \in Seq(Nat) /\ Len(g) = n + s
      /\ \A i \in 1..n : g[i] = k.got[i]
      /\ \A i \in 1..s : g[n + i] = shown[i]
  BY <1>1, <1>2, <1>3, <1>4, <1>7
<1>e. \A i \in 1..n : g[i] = k.got[i]
  BY <1>8
<1>f. \A i \in 1..s : g[n + i] = shown[i]
  BY <1>8
<1>g. \A i \in 1..n : k.got[i] \in Nat /\ k.got[i] <= k.last
  BY <1>1, <1>3
<1>h. \A i, j \in 1..n : i < j => k.got[i] < k.got[j]
  BY <1>1, <1>3, Zenon DEF Increasing
<1>9. \A i \in 1..(n + s) : i \in 1..n \/ \E j \in 1..s : i = n + j
  <2> SUFFICES ASSUME NEW i \in 1..(n + s), ~(i \in 1..n) PROVE \E j \in 1..s : i = n + j
    OBVIOUS
  <2>1. i - n \in 1..s /\ i = n + (i - n)
    BY <1>6
  <2> QED
    BY <2>1
<1>10. /\ DOMAIN l = {"op", "last", "got", "done", "alive", "hidden"} /\ l.op = "page"
       /\ l.last = z /\ l.got = g /\ l.alive = k.alive /\ l.hidden = Len(rows) - s
  BY <1>1, <1>4, <1>5, <1>7 DEF Paged
<1>11. s # 0 => ~l.done
  BY <1>1, <1>6 DEF Paged
<1>12. /\ z \in Nat /\ k.last <= z /\ \A i \in 1..s : shown[i] <= z
       /\ (s = 0 => z = k.last) /\ (s # 0 => \E i \in 1..s : z = shown[i])
  <2>1. CASE s = 0
    BY <2>1, <1>1, <1>5, <1>6
  <2>2. CASE s # 0
    <3>1. z = shown[s] /\ s \in 1..s
      BY <2>2, <1>4, <1>5, <1>6
    <3>2. z \in Nat /\ k.last < z
      BY <3>1, <1>a, <1>b
    <3>3. \A i \in 1..s : shown[i] <= z
      <4> SUFFICES ASSUME NEW i \in 1..s PROVE shown[i] <= z
        OBVIOUS
      <4>1. i = s \/ i < s
        BY <1>6
      <4>2. shown[i] \in Nat
        BY <1>a
      <4> QED
        BY <3>1, <3>2, <4>1, <4>2, <1>c
    <3> QED
      BY <2>2, <3>1, <3>2, <3>3, <1>1
  <2> QED
    BY <2>1, <2>2
<1>13. \A i \in 1..Len(g) : g[i] <= z
  <2> SUFFICES ASSUME NEW i \in 1..(n + s) PROVE g[i] <= z
    BY <1>8
  <2>1. CASE i \in 1..n
    <3>1. g[i] \in Nat /\ g[i] <= k.last
      BY <2>1, <1>e, <1>g
    <3> QED
      BY <3>1, <1>b, <1>12
  <2>2. CASE \E j \in 1..s : i = n + j
    BY <2>2, <1>f, <1>12
  <2> QED
    BY <2>1, <2>2, <1>9
<1>14. Increasing(g, Len(g))
  <2> SUFFICES ASSUME NEW i \in 1..(n + s), NEW j \in 1..(n + s), i < j PROVE g[i] < g[j]
    BY <1>8 DEF Increasing
  <2>1. CASE j \in 1..n
    <3>1. i \in 1..n
      BY <2>1, <1>6
    <3>2. k.got[i] < k.got[j]
      BY <2>1, <3>1, <1>h
    <3> QED
      BY <2>1, <3>1, <3>2, <1>e
  <2>2. CASE \E b \in 1..s : j = n + b
    <3>1. PICK b \in 1..s : j = n + b
      BY <2>2
    <3>2. g[j] = shown[b] /\ shown[b] > k.last /\ shown[b] \in Nat
      BY <3>1, <1>a, <1>f
    <3>3. CASE i \in 1..n
      <4>1. g[i] \in Nat /\ g[i] <= k.last
        BY <3>3, <1>e, <1>g
      <4> QED
        BY <4>1, <3>2, <1>b
    <3>4. CASE \E a \in 1..s : i = n + a
      <4>1. PICK a \in 1..s : i = n + a
        BY <3>4
      <4>2. a < b
        BY <3>1, <4>1, <1>6
      <4> QED
        BY <3>2, <4>1, <4>2, <1>c, <1>f
    <3> QED
      BY <3>3, <3>4, <1>9
  <2> QED
    BY <2>1, <2>2, <1>9
<1>15. ASSUME NEW r \in k.alive \cap Visible, r <= z \/ (l.done /\ l.hidden < Limit)
       PROVE  \E i \in 1..Len(g) : g[i] = r
  <2>1. r \in Nat /\ r \in names \cap Visible
    BY <1>1
  <2>2. CASE r <= k.last
    <3>1. PICK i \in 1..n : k.got[i] = r
      BY <2>2, <1>1, <1>3, <1>15
    <3>2. i \in 1..(n + s) /\ g[i] = r
      BY <3>1, <1>6, <1>8
    <3> QED
      BY <3>2, <1>8
  <2>3. CASE \E i \in 1..s : shown[i] = r
    <3>1. PICK i \in 1..s : shown[i] = r
      BY <2>3
    <3>2. n + i \in 1..(n + s) /\ g[n + i] = r
      BY <3>1, <1>6, <1>8
    <3> QED
      BY <3>2, <1>8
  <2>4. CASE r > k.last /\ Len(rows) = Limit /\ \A i \in 1..s : shown[i] < r
    <3>1. s = 0 => z = k.last /\ l.hidden = Limit
      BY <2>4, <1>d, <1>10, <1>12
    <3>2. s # 0 => ~(r <= z)
      BY <2>1, <2>4, <1>12
    <3>3. Limit \in Nat
      BY Registry_Constants
    <3>4. CASE s = 0
      BY <3>1, <3>3, <3>4, <2>1, <2>4, <1>1, <1>15
    <3>5. CASE s # 0
      BY <3>2, <3>5, <1>11, <1>15
    <3> QED
      BY <3>4, <3>5
  <2>5. r <= k.last \/ r > k.last
    BY <2>1, <1>1
  <2> QED
    BY <2>1, <2>2, <2>3, <2>4, <2>5, <1>2, <1>4
<1>16. PagingSound(l, repos)
  <2>1. l.last \in Nat /\ l.got \in Seq(Nat) /\ Increasing(l.got, Len(l.got))
    BY <1>8, <1>10, <1>12, <1>14
  <2>2. \A i \in 1..Len(l.got) : l.got[i] <= l.last
    BY <1>10, <1>13
  <2>3. \A r \in l.alive : \E x \in repos : x.name = r
    BY <1>1, <1>10
  <2>4. ASSUME NEW r \in l.alive \cap Visible, r <= l.last \/ (l.done /\ l.hidden < Limit)
        PROVE  \E i \in 1..Len(l.got) : l.got[i] = r
    <3>1. r \in k.alive \cap Visible
      BY <1>10
    <3>2. r <= z \/ (l.done /\ l.hidden < Limit)
      BY <1>10, <2>4, Zenon
    <3>3. \E i \in 1..Len(g) : g[i] = r
      BY <1>15, <3>1, <3>2, Zenon
    <3> QED
      BY <1>10, <3>3, Zenon
  <2>5. DOMAIN l = {"op", "last", "got", "done", "alive", "hidden"}
    BY <1>10
  <2> QED
    BY <2>1, <2>2, <2>3, <2>4, <2>5 DEF PagingSound
<1> QED
  BY <1>10, <1>16

LEMMA NextPageRead ==
    ASSUME IInv, ReadInv, NEW c \in Client, NextPage(c)
    PROVE  CallSound(call'[c], repositories, manifests, tags)
<1>1. PICK k : k = call[c]
  OBVIOUS
<1>2. k.op = "page" /\ PagingSound(k, repositories)
  BY <1>1 DEF NextPage, ReadInv, CallSound
<1>a. ~k.done
  BY <1>1 DEF NextPage
<1>3. PICK names : names = {x.name : x \in repositories}
  OBVIOUS
<1>4. names \in SUBSET Nat /\ IsFiniteSet(names)
  BY <1>3, NamesFinite DEF IInv, ReadInv
<1>5. PICK rows : rows = Page(names, k.last, Limit)
  OBVIOUS
<1>6. PICK shown : shown = Kept(rows, Visible)
  OBVIOUS
<1>7. PICK l : l = call'[c]
  OBVIOUS
<1>8. call' = [call EXCEPT ![c] = Paged(k, rows, shown)]
  BY <1>1, <1>3, <1>5, <1>6, Zenon DEF NextPage, Catalog, Paged
<1>9. l = Paged(k, rows, shown)
  BY <1>7, <1>8 DEF IInv, CInv
<1>10. l.op = "page" /\ PagingSound(l, repositories)
  BY <1>2, <1>a, <1>3, <1>4, <1>5, <1>6, <1>9, PagedFurther
<1> QED
  BY <1>7, <1>10 DEF CallSound

-----------------------------------------------------------------------------
(***************************************************************************)
(* The steps.                                                              *)
(***************************************************************************)

(* A request that does not read knows nothing.                             *)
LEMMA NotReading ==
    ASSUME NEW k, k.op \in {"idle", "publish"}, NEW repos, NEW ms, NEW ts
    PROVE  CallSound(k, repos, ms, ts)
BY DEF CallSound

LEMMA ReadingRead ==
    ASSUME IInv, ReadInv, NEW c \in Client, Reading(c)
    PROVE  ReadInv'
<1>1. CInv' /\ PInv' /\ UNCHANGED <<tables, disk, binary, marker>>
  BY ReadingCalls DEF IInv
<1>2. UNCHANGED tables
  BY <1>1
<1>3. \A y \in Client \ {c} : call'[y] = call[y]
  BY DEF IInv, CInv, Reading, TagDetails, Resolve, TagStatus, ResolveBlobs, StartPaging, NextPage, Finish
<1>4. Visible \subseteq Repo
  BY Registry_Constants
<1>5. CASE Finish(c)
  <2>1. call'[c] = Idle
    BY <1>5 DEF Finish, IInv, CInv
  <2>2. call'[c].op = "idle"
    BY <2>1 DEF Idle
  <2> QED
    BY <2>2, NotReading, <1>2, <1>3, OneRead
<1>6. CASE ~Finish(c)
  <2>1. CallSound(call'[c], repositories, manifests, tags)
    BY <1>4, <1>6, TagDetailsRead, ResolveRead, TagStatusRead, ResolveBlobsRead, StartPagingRead, NextPageRead
       DEF Reading
  <2> QED
    BY <2>1, <1>2, <1>3, OneRead
<1> QED
  BY <1>5, <1>6

LEMMA PublishingRead ==
    ASSUME IInv, IInv', ReadInv, NEW c \in Client, Publishing(c)
    PROVE  ReadInv'
<1>1. ASSUME NEW u \in User, NEW at \in Time, CommitPublish(c, u, at) PROVE ReadInv'
  BY <1>1, CommitPublishRead
<1>2. CASE \/ \E r \in Repo, ref \in Ref, d \in Digest : PublishManifest(c, r, ref, d)
           \/ CheckSubject(c) \/ HandOverScan(c)
  <2>1. UNCHANGED tables /\ \A y \in Client \ {c} : call'[y] = call[y]
    BY <1>2 DEF PublishManifest, CheckSubject, HandOverScan, IInv, CInv
  <2>2. call'[c].op \in {"idle", "publish"}
    <3>1. ASSUME NEW r \in Repo, NEW ref \in Ref, NEW d \in Digest, PublishManifest(c, r, ref, d)
          PROVE  call'[c].op \in {"idle", "publish"}
      BY <3>1 DEF PublishManifest, IInv, CInv
    <3>2. CASE CheckSubject(c)
      <4>1. DOMAIN call = Client /\ call[c] \in PublishCall
        BY <3>2 DEF CheckSubject, IInv, CInv
      <4>2. call'[c] = [call[c] EXCEPT !.checked = TRUE] \/ call'[c] = Idle
        BY <3>2, <4>1 DEF CheckSubject
      <4> QED
        BY <4>1, <4>2 DEF PublishCall, Idle
    <3>3. CASE HandOverScan(c)
      BY <3>3 DEF HandOverScan, IInv, CInv, Idle
    <3> QED
      BY <3>1, <3>2, <3>3, <1>2
  <2>3. CallSound(call'[c], repositories, manifests, tags)
    BY <2>2, NotReading
  <2> QED
    BY <2>1, <2>3, OneRead
<1> QED
  BY <1>1, <1>2 DEF Publishing

LEMMA ReadStep == IInv /\ IInv' /\ ReadInv /\ [Next]_vars => ReadInv'
<1> SUFFICES ASSUME IInv, IInv', ReadInv, [Next]_vars PROVE ReadInv'
  OBVIOUS
<1>1. ASSUME NEW c \in Pusher, Publishing(c) PROVE ReadInv'
  BY <1>1, PublishingRead DEF Client
<1>2. ASSUME NEW c \in Reader, Reading(c) PROVE ReadInv'
  BY <1>2, ReadingRead DEF Client
<1>3. ASSUME NEW r \in Repo, Deleting(r) PROVE ReadInv'
  BY <1>3, DeletingRead
<1>4. CASE UNCHANGED <<repositories, manifests, tags, call>>
  BY <1>4 DEF ReadInv
<1>5. ASSUME NEW b \in Blob, PutBlob(b) PROVE ReadInv'
  BY <1>4, <1>5 DEF PutBlob, tables
<1>6. CASE Upgrade \/ Downgrade
  <2>1. tags' = tags /\ call' = [c \in Client |-> Idle]
    BY <1>6 DEF Upgrade, Downgrade, tables
  <2>2. ASSUME NEW c \in Client PROVE CallSound(call'[c], repositories', manifests', tags')
    <3>1. call'[c].op = "idle"
      BY <2>1 DEF Idle
    <3> QED
      BY <3>1, NotReading
  <2> QED
    BY <2>1, <2>2 DEF ReadInv
<1>7. CASE UNCHANGED vars
  BY <1>4, <1>7 DEF vars, tables
<1> QED
  BY <1>1, <1>2, <1>3, <1>5, <1>6, <1>7 DEF Next

LEMMA ReadInit == Init => ReadInv
<1> SUFFICES ASSUME Init PROVE ReadInv
  OBVIOUS
<1>1. Tagged(tags)
  BY FS_EmptySet DEF Init, Tagged
<1>2. ASSUME NEW c \in Client PROVE CallSound(call[c], repositories, manifests, tags)
  <2>1. call[c].op = "idle"
    BY DEF Init, Idle
  <2> QED
    BY <2>1, NotReading
<1> QED
  BY <1>1, <1>2 DEF ReadInv

LEMMA ReadAlways == Spec => []ReadInv
BY InvAlways, ReadInit, ReadStep, PTL DEF Spec

(* An answer put together from several queries is the state of one instant *)
(* unless a write to its repository came between them: a torn TagDetails,  *)
(* or a manifest without its blobs, is never the server's own doing.       *)
THEOREM TornOnlyByAWrite == Spec => []TornOnlyByWrites
<1>1. ReadInv => TornOnlyByWrites
  <2> SUFFICES ASSUME ReadInv, NEW c \in Client
               PROVE  /\ call[c].op = "details" /\ ~call[c].torn =>
                           \A i \in DOMAIN call[c].answer :
                             LET a == call[c].answer[i]
                             IN /\ ~a.failed /\ a.listed = a.status
                                /\ \E m \in ByDigest(call[c].repo, a.status) : m.at = a.at
                      /\ call[c].op = "resolve" =>
                           (call[c].done /\ ~call[c].torn => call[c].blobs = BlobsOf[call[c].digest])
    BY Zenon DEF TornOnlyByWrites
  <2>1. PICK k : k = call[c]
    OBVIOUS
  <2>2. CallSound(k, repositories, manifests, tags)
    BY <2>1 DEF ReadInv
  <2>3. ASSUME k.op = "details", ~k.torn, NEW i \in DOMAIN k.answer
        PROVE  /\ ~k.answer[i].failed /\ k.answer[i].listed = k.answer[i].status
               /\ \E m \in ByDigest(k.repo, k.answer[i].status) : m.at = k.answer[i].at
    <3>1. DetailsSound(k, repositories, manifests, tags)
      BY <2>2, <2>3 DEF CallSound
    <3>2. \E S : k.answer \in Seq(S)
      BY <3>1 DEF DetailsSound
    <3>3. i \in 1..Len(k.answer)
      BY <3>2
    <3>4. AnswerSound(repositories, manifests, k.repo, k.answer[i])
      BY <2>3, <3>1, <3>3 DEF DetailsSound
    <3> QED
      BY <3>4 DEF AnswerSound, ByDigest, RowsOf, RepoRow
  <2>4. ASSUME k.op = "resolve", k.done, ~k.torn PROVE k.blobs = BlobsOf[k.digest]
    BY <2>2, <2>4 DEF CallSound, ResolveSound
  <2> QED
    BY <2>1, <2>3, <2>4, Zenon
<1> QED
  BY <1>1, ReadAlways, PTL

(* The client has got its names in order, none twice, and every one that   *)
(* it may see and that was there all the time, but for a full hidden page. *)
LEMMA PagingKept == ReadInv => PagingMissesOnlyBehindHidden
<1> SUFFICES ASSUME ReadInv, NEW c \in Client, call[c].op = "page"
             PROVE  /\ \A i, j \in DOMAIN call[c].got : i < j => call[c].got[i] < call[c].got[j]
                    /\ call[c].done /\ call[c].hidden < Limit =>
                         call[c].alive \cap Visible \subseteq Range(call[c].got)
  BY Zenon DEF PagingMissesOnlyBehindHidden
<1>1. PICK k : k = call[c]
  OBVIOUS
<1>2. PagingSound(k, repositories)
  BY <1>1 DEF ReadInv, CallSound
<1>3. DOMAIN k.got = 1..Len(k.got)
  <2>1. k.got \in Seq(Nat)
    BY <1>2 DEF PagingSound
  <2> QED
    BY <2>1
<1>4. \A i, j \in DOMAIN k.got : i < j => k.got[i] < k.got[j]
  BY <1>2, <1>3 DEF PagingSound, Increasing
<1>5. ASSUME k.done, k.hidden < Limit, NEW r \in k.alive \cap Visible PROVE r \in Range(k.got)
  <2>1. \E i \in 1..Len(k.got) : k.got[i] = r
    BY <1>2, <1>5, Zenon DEF PagingSound
  <2> QED
    BY <2>1, <1>3 DEF Range
<1> QED
  BY <1>1, <1>4, <1>5, Zenon

-----------------------------------------------------------------------------
(***************************************************************************)
(* Text.                                                                   *)
(***************************************************************************)

(* Text is above another when the first character that differs is.         *)
LEMMA AboveAt ==
    ASSUME NEW s \in Seq(Nat), NEW t \in Seq(Nat), NEW p \in Nat, p \in 1..Len(s), p \in 1..Len(t),
           \A j \in 1..Len(t) : j < p => s[j] = t[j], t[p] < s[p]
    PROVE  TextBelow(t, s) /\ ~TextBelow(s, t)
<1>1. TextBelow(t, s)
  <2>1. \A j \in 1..(p - 1) : j <= Len(t) /\ t[j] = s[j]
    OBVIOUS
  <2> QED
    BY <2>1 DEF TextBelow
<1>2. ASSUME NEW i \in 1..Len(t), \A j \in 1..(i - 1) : j <= Len(s) /\ s[j] = t[j],
             i > Len(s) \/ s[i] < t[i]
      PROVE  FALSE
  <2>0. s[p] \in Nat /\ t[p] \in Nat /\ t[i] \in Nat
    OBVIOUS
  <2>1. CASE i < p
    <3>1. s[i] = t[i]
      BY <2>1
    <3>2. i <= Len(s)
      BY <2>1
    <3> QED
      BY <2>0, <3>1, <3>2, <1>2
  <2>2. CASE i = p
    BY <2>0, <2>2, <1>2
  <2>3. CASE i > p
    <3>1. p \in 1..(i - 1)
      BY <2>3
    <3> QED
      BY <2>0, <3>1, <1>2
  <2> QED
    BY <2>1, <2>2, <2>3
<1> QED
  BY <1>1, <1>2 DEF TextBelow

(* No text is below itself.                                                *)
LEMMA NotBelowItself ==
    ASSUME NEW s \in Seq(Nat)
    PROVE  ~TextBelow(s, s)
<1>1. ASSUME NEW i \in 1..Len(s), i > Len(s) \/ s[i] < s[i] PROVE FALSE
  <2>1. s[i] \in Nat
    OBVIOUS
  <2> QED
    BY <1>1, <2>1
<1> QED
  BY <1>1 DEF TextBelow

(* What a time is written as: its seconds, and its fraction without the    *)
(* zeros at its end.                                                       *)
Written(t, f) ==
    \/ t % 4 = 0 /\ f = <<t \div 4, Zulu>>
    \/ t % 4 = 1 /\ f = <<t \div 4, Dot, Zero, Zero + 1, Zulu>>
    \/ t % 4 = 2 /\ f = <<t \div 4, Dot, Zero + 1, Zulu>>
    \/ t % 4 = 3 /\ f = <<t \div 4, Dot, Zero + 1, Zero + 1, Zulu>>

LEMMA FormatIs ==
    ASSUME NEW t \in Nat
    PROVE  Written(t, Format(t))
<1>1. PICK q : q = t \div 4
  OBVIOUS
<1>2. PICK f : f = t % 4
  OBVIOUS
<1>3. q \in Nat /\ f \in 0..3
  BY <1>1, <1>2
<1>5. CASE f = 0
  BY <1>1, <1>2, <1>5 DEF Format, PerSecond, Written
<1>6. CASE f = 1
  <2>1. f \div 2 = 0 /\ f % 2 = 1
    BY <1>6
  <2>2. Zero + (f \div 2) = Zero /\ Zero + (f % 2) = Zero + 1 /\ Zero + 1 # Zero
    BY <2>1 DEF Zero
  <2> QED
    BY <1>1, <1>2, <1>6, <2>2 DEF Format, PerSecond, Written
<1>7. CASE f = 2
  <2>1. f \div 2 = 1 /\ f % 2 = 0
    BY <1>7
  <2>2. Zero + (f \div 2) = Zero + 1 /\ Zero + (f % 2) = Zero
    BY <2>1 DEF Zero
  <2> QED
    BY <1>1, <1>2, <1>7, <2>2 DEF Format, PerSecond, Written
<1>8. CASE f = 3
  <2>1. f \div 2 = 1 /\ f % 2 = 1
    BY <1>8
  <2>2. Zero + (f \div 2) = Zero + 1 /\ Zero + (f % 2) = Zero + 1 /\ Zero + 1 # Zero
    BY <2>1 DEF Zero
  <2> QED
    BY <1>1, <1>2, <1>8, <2>2 DEF Format, PerSecond, Written
<1> QED
  BY <1>3, <1>5, <1>6, <1>7, <1>8

LEMMA WrittenText ==
    ASSUME NEW t \in Nat, NEW f, Written(t, f)
    PROVE  f \in Seq(Nat) /\ 1 \in 1..Len(f) /\ f[1] = t \div 4
<1>1. PICK q : q = t \div 4
  OBVIOUS
<1>2. q \in Nat /\ Zulu \in Nat /\ Dot \in Nat /\ Zero \in Nat /\ Zero + 1 \in Nat
  BY <1>1 DEF Zulu, Dot, Zero
<1>3. CASE f = <<q, Zulu>>
  BY <1>1, <1>2, <1>3
<1>4. CASE f = <<q, Dot, Zero, Zero + 1, Zulu>>
  BY <1>1, <1>2, <1>4
<1>5. CASE f = <<q, Dot, Zero + 1, Zulu>>
  BY <1>1, <1>2, <1>5
<1>6. CASE f = <<q, Dot, Zero + 1, Zero + 1, Zulu>>
  BY <1>1, <1>2, <1>6
<1> QED
  BY <1>1, <1>3, <1>4, <1>5, <1>6 DEF Written

\* Among the times of one second the whole one sorts last, before it .50, .75 and .25.
FractionRank(f) == IF f = 0 THEN 3 ELSE IF f = 2 THEN 2 ELSE IF f = 3 THEN 1 ELSE 0
Rank(t) == 4 * (t \div 4) + FractionRank(t % 4)

(* The order of the text is that of the rank.                              *)
LEMMA TextFollowsRank ==
    ASSUME NEW t \in Nat, NEW u \in Nat
    PROVE  /\ t \div 4 < u \div 4 => TextBelow(Format(t), Format(u)) /\ ~TextBelow(Format(u), Format(t))
           /\ Rank(t) <= Rank(u) => ~TextBelow(Format(u), Format(t))
<1>1. PICK f : f = Format(t)
  OBVIOUS
<1>2. PICK g : g = Format(u)
  OBVIOUS
<1>3. Written(t, f) /\ Written(u, g)
  BY <1>1, <1>2, FormatIs
<1>4. t \div 4 \in Nat /\ u \div 4 \in Nat /\ t % 4 \in 0..3 /\ u % 4 \in 0..3
  OBVIOUS
<1>5. f \in Seq(Nat) /\ 1 \in 1..Len(f) /\ f[1] = t \div 4
  BY <1>3, WrittenText
<1>6. g \in Seq(Nat) /\ 1 \in 1..Len(g) /\ g[1] = u \div 4
  BY <1>3, WrittenText
<1>7. ASSUME t \div 4 < u \div 4 PROVE TextBelow(f, g) /\ ~TextBelow(g, f)
  <2>1. \A j \in 1..Len(f) : j < 1 => g[j] = f[j]
    BY <1>5
  <2>2. 1 \in Nat /\ f[1] < g[1]
    BY <1>5, <1>6, <1>7
  <2> QED
    BY <1>5, <1>6, <2>1, <2>2, AboveAt
<1>8. ASSUME Rank(t) <= Rank(u) PROVE ~TextBelow(g, f)
  <2>1. /\ t \div 4 < u \div 4 \/ t \div 4 = u \div 4
        /\ t \div 4 = u \div 4 => FractionRank(t % 4) <= FractionRank(u % 4)
    BY <1>4, <1>8 DEF Rank, FractionRank
  <2>2. CASE t \div 4 < u \div 4
    BY <1>7, <2>2
  <2>3. CASE t \div 4 = u \div 4 /\ t % 4 = u % 4
    <3>1. f = g
      BY <1>3, <1>4, <2>3 DEF Written
    <3> QED
      BY <3>1, <1>5, NotBelowItself
  <2>4. CASE t \div 4 = u \div 4 /\ u % 4 = 0 /\ t % 4 # 0
    <3>1. g = <<u \div 4, Zulu>> /\ 2 \in 1..Len(f) /\ f[2] = Dot
      BY <1>3, <1>4, <2>4 DEF Written
    <3>2. 2 \in Nat /\ 2 \in 1..Len(g) /\ f[2] < g[2] /\ g[1] = f[1]
      BY <3>1, <1>5, <1>6, <2>4 DEF Zulu, Dot
    <3>3. \A j \in 1..Len(f) : j < 2 => g[j] = f[j]
      BY <3>2, <1>5
    <3> QED
      BY <1>5, <1>6, <3>1, <3>2, <3>3, AboveAt
  <2>5. CASE t \div 4 = u \div 4 /\ t % 4 = 1 /\ u % 4 \in {2, 3}
    <3>1. f = <<t \div 4, Dot, Zero, Zero + 1, Zulu>>
      BY <1>3, <1>4, <2>5 DEF Written
    <3>2. 3 \in 1..Len(g) /\ g[2] = Dot /\ g[3] = Zero + 1
      BY <1>3, <1>4, <2>5 DEF Written
    <3>3. 3 \in Nat /\ 3 \in 1..Len(f) /\ f[3] < g[3] /\ g[1] = f[1] /\ g[2] = f[2]
      BY <3>1, <3>2, <1>5, <1>6, <2>5 DEF Zero
    <3>4. \A j \in 1..Len(f) : j < 3 => g[j] = f[j]
      BY <3>3, <1>5
    <3> QED
      BY <1>5, <1>6, <3>2, <3>3, <3>4, AboveAt
  <2>6. CASE t \div 4 = u \div 4 /\ t % 4 = 3 /\ u % 4 = 2
    <3>1. f = <<t \div 4, Dot, Zero + 1, Zero + 1, Zulu>> /\ g = <<u \div 4, Dot, Zero + 1, Zulu>>
      BY <1>3, <1>4, <2>6 DEF Written
    <3>3. /\ 4 \in Nat /\ 4 \in 1..Len(f) /\ 4 \in 1..Len(g) /\ f[4] < g[4]
          /\ g[1] = f[1] /\ g[2] = f[2] /\ g[3] = f[3]
      BY <3>1, <2>6 DEF Zero, Zulu
    <3>4. \A j \in 1..Len(f) : j < 4 => g[j] = f[j]
      <4> SUFFICES ASSUME NEW j \in 1..Len(f), j < 4 PROVE g[j] = f[j]
        OBVIOUS
      <4>1. Len(f) \in Nat
        BY <1>5
      <4>2. j = 1 \/ j = 2 \/ j = 3
        BY <4>1
      <4> QED
        BY <3>3, <4>2, Zenon
    <3> QED
      BY <1>5, <1>6, <3>3, <3>4, AboveAt
  <2>7. FractionRank(t % 4) <= FractionRank(u % 4) =>
          \/ t % 4 = u % 4 \/ (u % 4 = 0 /\ t % 4 # 0)
          \/ (t % 4 = 1 /\ u % 4 \in {2, 3}) \/ (t % 4 = 3 /\ u % 4 = 2)
    BY <1>4 DEF FractionRank
  <2> QED
    BY <2>1, <2>2, <2>3, <2>4, <2>5, <2>6, <2>7
<1> QED
  BY <1>1, <1>2, <1>7, <1>8

(* So a finite set of times has one that sorts last.                       *)
LEMMA LastText ==
    ASSUME NEW times \in SUBSET Nat, IsFiniteSet(times), times # {}
    PROVE  \E x \in times : \A y \in times : ~TextBelow(Format(x), Format(y))
<1> DEFINE S == {Rank(t) : t \in times}
<1>1. \A t \in Nat : Rank(t) \in Nat
  <2> SUFFICES ASSUME NEW t \in Nat PROVE Rank(t) \in Nat
    OBVIOUS
  <2>1. t \div 4 \in Nat
    OBVIOUS
  <2> QED
    BY <2>1 DEF Rank, FractionRank
<1>2. S \in SUBSET Nat
  BY <1>1
<1>3. IsFiniteSet(S)
  <2> DEFINE f == [t \in times |-> Rank(t)]
  <2>1. f \in Surjection(times, S)
    BY DEF Surjection
  <2> QED
    BY <2>1, FS_Surjection
<1>4. PICK n : n = Cardinality(S)
  OBVIOUS
<1>5. PICK s : s = InOrder(S)
  OBVIOUS
<1>6. S # {}
  OBVIOUS
<1> HIDE DEF S
<1>7. /\ n \in Nat /\ s \in [1..n -> S] /\ Increasing(s, n)
      /\ \A z \in S : \E i \in 1..n : s[i] = z
  BY <1>2, <1>3, <1>4, <1>5, InOrderSorts
<1>8. n \in 1..n
  BY <1>6, <1>7
<1>9. s[n] \in S /\ \A z \in S : z <= s[n]
  <2>1. s[n] \in S
    BY <1>7, <1>8
  <2>2. ASSUME NEW z \in S PROVE z <= s[n]
    <3>1. PICK i \in 1..n : s[i] = z
      BY <1>7
    <3>2. i = n \/ i < n
      BY <1>7
    <3>3. z \in Nat /\ s[n] \in Nat
      BY <1>2, <2>1
    <3> QED
      BY <3>1, <3>2, <3>3, <1>7, <1>8 DEF Increasing
  <2> QED
    BY <2>1, <2>2
<1>10. PICK x \in times : Rank(x) = s[n]
  BY <1>9 DEF S
<1>11. \A y \in times : Rank(y) <= Rank(x)
  BY <1>9, <1>10 DEF S
<1>12. \A y \in times : ~TextBelow(Format(x), Format(y))
  BY <1>11, TextFollowsRank
<1> QED
  BY <1>12

(* The summaries.                                                          *)
LEMMA SummariesLast == TInv => LastPushedWithinSecond
<1> SUFFICES ASSUME TInv PROVE LastPushedWithinSecond
  OBVIOUS
<1>1. SecondsOrdered
  <2> SUFFICES ASSUME NEW t \in 0..11, NEW u \in 0..11, t \div 4 < u \div 4
               PROVE  TextBelow(Format(t), Format(u)) /\ ~TextBelow(Format(u), Format(t))
    BY DEF SecondsOrdered, PerSecond
  <2>1. t \in Nat /\ u \in Nat
    OBVIOUS
  <2> QED
    BY <2>1, TextFollowsRank
<1>2. ASSUME NEW r, NEW m \in RowsOf(r), \E t \in TagsOf(r) : t.man = m.id
      PROVE  m.at \div 4 <= RepositorySummary(r).last \div 4
  <2> DEFINE tagged == {x \in RowsOf(r) : \E t \in TagsOf(r) : t.man = x.id}
             times  == {x.at : x \in tagged}
  <2>1. /\ manifests \subseteq ManifestRow /\ \A x, y \in manifests : x.id = y.id => x = y
        /\ rowId \in Nat /\ \A x \in manifests : x.id \in 0..rowId
    BY DEF TInv, Tables, Rows, UniqueRows, ManifestRow
  <2>2. tagged \in SUBSET manifests
    BY DEF RowsOf
  <2>3. IsFiniteSet(tagged)
    <3> HIDE DEF tagged
    <3> DEFINE f == [x \in tagged |-> x.id]
    <3>1. f \in Injection(tagged, 0..rowId)
      BY <2>1, <2>2 DEF Injection, IsInjective
    <3>2. IsFiniteSet(0..rowId)
      BY <2>1, FS_Interval
    <3> QED
      BY <3>1, <3>2, FS_Injection
  <2>4. IsFiniteSet(times)
    <3> HIDE DEF tagged
    <3> DEFINE f == [x \in tagged |-> x.at]
    <3>1. f \in Surjection(tagged, times)
      BY DEF Surjection
    <3> QED
      BY <2>3, <3>1, FS_Surjection
  <2>5. times \in SUBSET Nat
    <3>1. \A x \in ManifestRow : x.at \in Nat
      BY Registry_Constants DEF ManifestRow
    <3> QED
      BY <2>1, <2>2, <3>1
  <2>6. m \in tagged /\ m.at \in times
    BY <1>2
  <2>7. PICK l : l = RepositorySummary(r).last
    OBVIOUS
  <2> DEFINE SortsLast(x) == \A y \in times : ~TextBelow(Format(x), Format(y))
  <2>8. l = CHOOSE x \in times : SortsLast(x)
    <3>1. l = IF times = {} THEN None ELSE CHOOSE x \in times : SortsLast(x)
      BY <2>7 DEF RepositorySummary
    <3> QED
      BY <2>6, <3>1
  <2> HIDE DEF tagged, times
  <2>9. \E x \in times : SortsLast(x)
    BY <2>4, <2>5, <2>6, LastText
  <2>10. l \in times /\ SortsLast(l)
    <3> HIDE DEF SortsLast
    <3> QED
      BY <2>8, <2>9
  <2>11. ~TextBelow(Format(l), Format(m.at)) /\ l \in Nat /\ m.at \in Nat
    BY <2>5, <2>6, <2>10
  <2>12. ~(l \div 4 < m.at \div 4)
    BY <2>11, TextFollowsRank
  <2>13. l \div 4 \in Nat /\ m.at \div 4 \in Nat
    BY <2>11
  <2> QED
    BY <2>7, <2>12, <2>13
<1>3. ASSUME NEW s \in RepositorySummaries, NEW m \in RowsOf(s.name),
             \E t \in TagsOf(s.name) : t.man = m.id
      PROVE  m.at \div PerSecond <= s.last \div PerSecond
  <2>1. PICK r : s = RepositorySummary(r)
    BY <1>3 DEF RepositorySummaries
  <2>2. s.name = r
    BY <2>1 DEF RepositorySummary
  <2>3. m.at \div 4 <= RepositorySummary(r).last \div 4
    BY <1>2, <1>3, <2>2
  <2> QED
    BY <2>1, <2>3 DEF PerSecond
<1> QED
  BY <1>1, <1>3 DEF LastPushedWithinSecond

(* What a listing leaves out and what it says last, for every history of   *)
(* pushes, deletes, restarts and concurrent requests: the joins lose no    *)
(* row, the referrers are complete but for those the older binary wrote    *)
(* behind the backfill, a client that pages the catalog misses a name only *)
(* behind a whole hidden page, and a summary's last push is off by less    *)
(* than a second.                                                          *)
THEOREM ListingsAlwaysComplete == Spec => []ListingsComplete
<1>1. IInv => LastPushedWithinSecond
  BY SummariesLast DEF IInv
<1>2. NoOrphanRows /\ ReferrersComplete /\ PagingMissesOnlyBehindHidden /\ LastPushedWithinSecond
        => ListingsComplete
  BY DEF ListingsComplete
<1> QED
  BY <1>1, <1>2, InvAlways, ReadAlways, PagingKept, RowsNeverOrphaned, ReferrersAlwaysComplete, PTL
=============================================================================
