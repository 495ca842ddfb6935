--------------------------- MODULE ConsoleProofs ---------------------------
(***************************************************************************)
(* Theorems about the console, for any repositories, accounts and number   *)
(* of calls in flight: what waits has a call under way, what is shown is   *)
(* of what is selected, and what is shown in the end is what the registry  *)
(* has.                                                                    *)
(*                                                                         *)
(* The argument, part by part.  A part's invariant says what every call in *)
(* flight will do when it is answered: the console is behind the registry  *)
(* only where an answer that brings it up to date is on its way.           *)
(***************************************************************************)
EXTENDS Console, FiniteSetTheorems, TLAPS

-----------------------------------------------------------------------------
(***************************************************************************)
(* Inspection.                                                             *)
(***************************************************************************)
LoadFields == {"kind", "repos", "ran", "found", "ok"}
OneRepo(kind, repos) == kind = "repository" => \E r \in repos : repos = {r}

LoadSound(l) ==
    /\ DOMAIN l = LoadFields /\ l.ran \in BOOLEAN /\ l.ok \in BOOLEAN
    /\ OneRepo(l.kind, l.repos)

\* A prompt keeps a question of its own kind, and one that was asked.
PromptSound(k) ==
    confirm[k] # Nobody =>
        /\ confirm[k].kind = k /\ OneRepo(k, confirm[k].repos)
        /\ confirm[k] \in asked

PromptInv ==
    /\ DOMAIN confirm = Prompt
    /\ \A k \in Prompt : PromptSound(k)
    /\ \A l \in loads : LoadSound(l)

\* A delete whose answer loads the catalog again.
Deleted(d) == d.ran /\ (d.kind = "project" \/ (d.kind = "repository" /\ d.ok))
Covered(r) == \E d \in loads : Deleted(d) /\ r \in d.repos

\* What was deleted and is still listed will be told of: by the catalog that
\* the delete loads, or by one that does not list it any more.
ListedInv ==
    /\ \A a, b \in Fetching : a = b
    /\ \A r \in gone \intersect listed :
          \/ Covered(r)
          \/ \E c \in loads : c.kind = "catalog" /\ (~c.ran \/ ~c.ok \/ r \notin c.found)
    /\ \A r \in gone, c \in loads : c.kind = "catalog" /\ c.ran /\ c.ok /\ r \in c.found => Covered(r)

InspectionInv ==
    /\ PromptInv /\ LoadingEnds
    /\ excused \in BOOLEAN /\ gone \intersect stored = {}
    /\ ~excused => ListedInv

(* What Enter on a prompt deletes, and what is sent otherwise.             *)
LEMMA QuestionOfPage ==
    ASSUME NEW p \in ListPage
    PROVE  Question(p) \in Prompt
BY DEF ListPage, Question, Prompt

(* A command is sent.                                                      *)
LEMMA SendSound ==
    ASSUME InspectionInv, NEW kind, NEW repos, Send(kind, repos), OneRepo(kind, repos),
           UNCHANGED <<stored, gone, listed>>
    PROVE  /\ \A l \in loads' : LoadSound(l)
           /\ excused' \in BOOLEAN /\ (gone \intersect stored = {})'
           /\ Fetching # {} => Fetching' # {}
           /\ kind \in Loads => Fetching' # {}
           /\ ~excused' => ListedInv'
<1> DEFINE n == Load(kind, repos)
<1>1. loads' = loads \union {n} /\ excused' = (excused \/ (kind \in Loads /\ Fetching # {}))
  BY DEF Send
<1>2. /\ DOMAIN n = LoadFields /\ n.ran = FALSE /\ n.ok = TRUE /\ n.kind = kind /\ n.repos = repos
  BY DEF Load, LoadFields
<1> HIDE DEF n
<1>3. LoadSound(n)
  BY <1>2 DEF LoadSound
<1>5. Fetching' = IF kind \in Loads THEN Fetching \union {n} ELSE Fetching
  BY <1>1, <1>2 DEF Fetching
<1>6. ASSUME ~excused' PROVE ListedInv'
  <2>1. ListedInv /\ ~(kind \in Loads /\ Fetching # {})
    BY <1>1, <1>6 DEF InspectionInv
  <2>2. \A a, b \in Fetching' : a = b
    BY <1>5, <2>1 DEF ListedInv
  <2>3. \A r : Covered(r) => Covered(r)'
    BY <1>1 DEF Covered
  <2> QED
    BY <1>1, <1>2, <2>1, <2>2, <2>3 DEF ListedInv
<1> QED
  BY <1>1, <1>3, <1>5, <1>6 DEF InspectionInv, PromptInv

(* Nothing is sent, and nothing happens to the registry or the list.       *)
LEMMA NothingSent ==
    ASSUME InspectionInv, UNCHANGED <<loads, excused, stored, gone, listed>>
    PROVE  /\ \A l \in loads' : LoadSound(l)
           /\ excused' \in BOOLEAN /\ (gone \intersect stored = {})'
           /\ Fetching' = Fetching
           /\ ~excused' => ListedInv'
BY DEF InspectionInv, PromptInv, ListedInv, Fetching, Covered
(* What the keys do: a prompt is opened or closed by itself, and the others *)
(* stay as they were asked.                                                *)
LEMMA PromptChanges ==
    ASSUME InspectionInv, NEW k \in Prompt, NEW q, NEW also,
           q # Nobody => q.kind = k /\ OneRepo(k, q.repos) /\ q \in asked',
           also # Nobody /\ also # q => also.kind = k,
           confirm' = [confirm EXCEPT ![k] = q],
           asked \ {confirm[k], also} \subseteq asked',
           \A l \in loads' : LoadSound(l)
    PROVE  PromptInv'
<1>1. DOMAIN confirm = Prompt /\ \A j \in Prompt : PromptSound(j)
  BY DEF InspectionInv, PromptInv
<1>2. DOMAIN confirm' = Prompt /\ confirm'[k] = q /\ \A j \in Prompt \ {k} : confirm'[j] = confirm[j]
  BY <1>1
<1>3. ASSUME NEW j \in Prompt, confirm'[j] # Nobody
      PROVE  confirm'[j].kind = j /\ OneRepo(j, confirm'[j].repos) /\ confirm'[j] \in asked'
  <2>1. CASE j = k
    BY <1>2, <1>3, <2>1
  <2>2. CASE j # k
    <3>1. confirm'[j] = confirm[j]
      BY <1>2, <2>2
    <3>2. confirm[j].kind = j /\ OneRepo(j, confirm[j].repos) /\ confirm[j] \in asked
      BY <1>1, <1>3, <3>1 DEF PromptSound
    <3>3. confirm[j] # confirm[k]
      BY <1>1, <1>3, <3>1, <3>2, <2>2 DEF PromptSound
    <3>4. confirm[j] # also \/ (also = q /\ q # Nobody)
      BY <1>3, <3>1, <3>2, <2>2
    <3>5. confirm[j] # also
      BY <3>2, <3>4, <2>2
    <3> QED
      BY <3>1, <3>2, <3>3, <3>5
  <2> QED
    BY <2>1, <2>2
<1> QED
  BY <1>2, <1>3 DEF PromptInv, PromptSound

LEMMA PromptsStay ==
    ASSUME InspectionInv, UNCHANGED <<confirm, asked>>, \A l \in loads' : LoadSound(l)
    PROVE  PromptInv'
BY DEF InspectionInv, PromptInv, PromptSound

LEMMA ConfirmEnterStep ==
    ASSUME InspectionInv, ConfirmEnter
    PROVE  InspectionInv'
<1> DEFINE k == Question(screen)
           q == confirm[k]
<1>1. screen \in ListPage /\ q # Nobody /\ Send(q.kind, q.repos)
  BY DEF ConfirmEnter, Pending
<1>2. k \in Prompt
  BY <1>1, QuestionOfPage
<1>3. q.kind = k /\ OneRepo(q.kind, q.repos)
  BY <1>1, <1>2 DEF InspectionInv, PromptInv, PromptSound
<1>4. UNCHANGED <<stored, gone, listed>> /\ UNCHANGED <<screen, stranded, confirm, asked>>
  BY DEF ConfirmEnter, registryVars, listVars
<1> HIDE DEF k, q
<1>5. /\ \A l \in loads' : LoadSound(l)
      /\ excused' \in BOOLEAN /\ (gone \intersect stored = {})'
      /\ Fetching # {} => Fetching' # {}
      /\ ~excused' => ListedInv'
  BY <1>1, <1>3, <1>4, SendSound
<1> QED
  BY <1>4, <1>5, PromptsStay DEF InspectionInv, LoadingEnds

LEMMA ConfirmEscStep ==
    ASSUME InspectionInv, ConfirmEsc
    PROVE  InspectionInv'
<1> DEFINE k == Question(screen)
<1>1. /\ k \in Prompt /\ confirm' = [confirm EXCEPT ![k] = Nobody]
      /\ asked' = asked \ {confirm[k]}
      /\ UNCHANGED <<stored, gone, listed, loads, excused, screen, stranded>>
  BY QuestionOfPage DEF ConfirmEsc, Pending, SendNothing, listVars
<1> HIDE DEF k
<1>2. /\ \A l \in loads' : LoadSound(l)
      /\ excused' \in BOOLEAN /\ (gone \intersect stored = {})'
      /\ Fetching' = Fetching
      /\ ~excused' => ListedInv'
  BY <1>1, NothingSent
<1>3. PromptInv'
  BY <1>1, <1>2, PromptChanges
<1> QED
  BY <1>1, <1>2, <1>3 DEF InspectionInv, LoadingEnds

LEMMA OpenRowStep ==
    ASSUME InspectionInv, OpenRow
    PROVE  InspectionInv'
<1>1. UNCHANGED <<stored, gone, listed, confirm, asked, stranded>>
  BY DEF OpenRow, registryVars
<1>2. CASE \E kind \in {"tags", "manifest"} : \E repos : Send(kind, repos)
  <2>0. PICK kind \in {"tags", "manifest"} : \E repos : Send(kind, repos)
    BY <1>2
  <2>1. PICK repos : Send(kind, repos)
    BY <2>0
  <2>2. OneRepo(kind, repos) /\ kind \in Loads
    BY DEF OneRepo, Loads
  <2>3. /\ \A l \in loads' : LoadSound(l)
        /\ excused' \in BOOLEAN /\ (gone \intersect stored = {})'
        /\ Fetching' # {}
        /\ ~excused' => ListedInv'
    BY <1>1, <2>1, <2>2, SendSound
  <2> QED
    BY <1>1, <2>3, PromptsStay DEF InspectionInv, LoadingEnds
<1>3. CASE screen' = "repositories" /\ SendNothing
  <2>1. /\ \A l \in loads' : LoadSound(l)
        /\ excused' \in BOOLEAN /\ (gone \intersect stored = {})'
        /\ ~excused' => ListedInv'
    BY <1>1, <1>3, NothingSent DEF SendNothing
  <2> QED
    BY <1>1, <1>3, <2>1, PromptsStay DEF InspectionInv, LoadingEnds
<1> QED
  BY <1>2, <1>3 DEF OpenRow

LEMMA AskDeleteStep ==
    ASSUME InspectionInv, AskDelete
    PROVE  InspectionInv'
<1> DEFINE k == Question(screen)
<1>1. /\ k \in Prompt /\ confirm' = [confirm EXCEPT ![k] = status']
      /\ asked' = (asked \ {confirm[k]}) \union {status'}
      /\ UNCHANGED <<stored, gone, listed, loads, excused, screen, stranded>>
  BY QuestionOfPage DEF AskDelete, SendNothing, listVars, registryVars
<1>2. status'.kind = k /\ OneRepo(k, status'.repos)
  BY DEF AskDelete, OneRepo, Question, Target
<1> HIDE DEF k
<1>3. /\ \A l \in loads' : LoadSound(l)
      /\ excused' \in BOOLEAN /\ (gone \intersect stored = {})'
      /\ Fetching' = Fetching
      /\ ~excused' => ListedInv'
  BY <1>1, NothingSent
<1>4. PromptInv'
  BY <1>1, <1>2, <1>3, PromptChanges
<1> QED
  BY <1>1, <1>3, <1>4 DEF InspectionInv, LoadingEnds

LEMMA ShowProjectsStep ==
    ASSUME InspectionInv, ShowProjects
    PROVE  InspectionInv'
<1>1. /\ "project" \in Prompt /\ confirm' = [confirm EXCEPT !["project"] = Nobody]
      /\ asked' = asked \ {confirm["project"]}
      /\ UNCHANGED <<stored, gone, listed, loads, excused, stranded>> /\ screen' = "projects"
  BY DEF ShowProjects, SendNothing, registryVars, Prompt
<1>2. /\ \A l \in loads' : LoadSound(l)
      /\ excused' \in BOOLEAN /\ (gone \intersect stored = {})'
      /\ ~excused' => ListedInv'
  BY <1>1, NothingSent
<1>3. PromptInv'
  BY <1>1, <1>2, PromptChanges
<1> QED
  BY <1>1, <1>2, <1>3 DEF InspectionInv, LoadingEnds

(* Keys that only move to another page.                                    *)
LEMMA PageStep ==
    ASSUME InspectionInv, UNCHANGED <<stored, gone, listed, loads, excused, confirm, asked>>,
           LoadingEnds'
    PROVE  InspectionInv'
BY NothingSent, PromptsStay DEF InspectionInv

LEMMA MoveStep ==
    ASSUME InspectionInv,
           Back \/ ShowDetails \/ OpenAdmin \/ LogoutToLogin \/ ReturnToInspection \/ Browse
    PROVE  InspectionInv'
<1>1. /\ UNCHANGED <<stored, gone, listed, loads, excused, confirm, asked>>
  BY DEF Back, ShowDetails, OpenAdmin, LogoutToLogin, ReturnToInspection, Browse, SendNothing,
         registryVars, listVars
<1>2. Fetching' = Fetching
  BY <1>1 DEF Fetching
<1>3. CASE Back
  <2>1. screen' = "loading" => screen = "loading"
    BY <1>3 DEF Back
  <2> QED
    BY <1>1, <1>2, <1>3, <2>1, PageStep DEF Back, InspectionInv, LoadingEnds
<1>4. CASE ReturnToInspection
  <2>1. LoadingEnds'
    BY <1>2, <1>4 DEF ReturnToInspection, LoadingEnds
  <2> QED
    BY <1>1, <2>1, PageStep
<1>5. CASE ShowDetails \/ OpenAdmin \/ LogoutToLogin \/ Browse
  <2>1. LoadingEnds'
    BY <1>5 DEF ShowDetails, OpenAdmin, LogoutToLogin, Browse, LoadingEnds
  <2> QED
    BY <1>1, <2>1, PageStep
<1> QED
  BY <1>3, <1>4, <1>5

LEMMA SignInStep ==
    ASSUME InspectionInv, SignIn
    PROVE  InspectionInv'
<1>1. /\ UNCHANGED <<stored, gone, listed, confirm, asked>> /\ screen' = "authenticating"
      /\ Send("login", {})
  BY DEF SignIn, registryVars, listVars
<1>2. OneRepo("login", {})
  BY DEF OneRepo
<1>3. /\ \A l \in loads' : LoadSound(l)
      /\ excused' \in BOOLEAN /\ (gone \intersect stored = {})'
      /\ ~excused' => ListedInv'
  BY <1>1, <1>2, SendSound
<1> QED
  BY <1>1, <1>3, PromptsStay DEF InspectionInv, LoadingEnds
(***************************************************************************)
(* A command runs, and others push.                                        *)
(***************************************************************************)
LEMMA RanSound ==
    ASSUME InspectionInv, NEW l \in loads, NEW found, NEW ok \in BOOLEAN, Ran(l, found, ok)
    PROVE  \E n : /\ loads' = (loads \ {l}) \union {n}
                  /\ LoadSound(n) /\ n.kind = l.kind /\ n.repos = l.repos /\ n.ran
                  /\ n.found = found /\ n.ok = ok
                  /\ \A k \in loads' : LoadSound(k)
                  /\ Fetching # {} => Fetching' # {}
<1> DEFINE n == [l EXCEPT !.ran = TRUE, !.found = found, !.ok = ok]
<1>1. loads' = (loads \ {l}) \union {n}
  BY DEF Ran
<1>2. LoadSound(l)
  BY DEF InspectionInv, PromptInv
<1>3. /\ DOMAIN n = LoadFields /\ n.kind = l.kind /\ n.repos = l.repos /\ n.ran = TRUE
      /\ n.found = found /\ n.ok = ok
  BY <1>2 DEF LoadSound, LoadFields
<1> HIDE DEF n
<1>4. LoadSound(n)
  BY <1>2, <1>3 DEF LoadSound
<1>5. \A k \in loads' : LoadSound(k)
  BY <1>1, <1>4 DEF InspectionInv, PromptInv
<1>6. Fetching # {} => Fetching' # {}
  BY <1>1, <1>3 DEF Fetching
<1> QED
  BY <1>1, <1>3, <1>4, <1>5, <1>6

LEMMA LoadRunsStep ==
    ASSUME InspectionInv, NEW l \in loads, LoadRuns(l),
           UNCHANGED <<screen, confirm, asked, stranded, excused, listed>>
    PROVE  InspectionInv'
<1>1. /\ l.kind \in Loads \union {"login"} /\ ~l.ran /\ UNCHANGED <<stored, gone>>
  BY DEF LoadRuns
<1>a. PICK found : \E ok \in BOOLEAN :
         Ran(l, found, ok) /\ (l.kind = "catalog" /\ ok => found = stored)
  BY DEF LoadRuns
<1>2. PICK ok \in BOOLEAN : Ran(l, found, ok) /\ (l.kind = "catalog" /\ ok => found = stored)
  BY <1>a
<1>3. PICK n : /\ loads' = (loads \ {l}) \union {n}
               /\ LoadSound(n) /\ n.kind = l.kind /\ n.repos = l.repos /\ n.ran
               /\ n.found = found /\ n.ok = ok
               /\ \A k \in loads' : LoadSound(k)
               /\ Fetching # {} => Fetching' # {}
  BY <1>2, RanSound
<1>4. l.kind # "project" /\ l.kind # "repository"
  BY <1>1 DEF Loads
<1>5. ASSUME ~excused' PROVE ListedInv'
  <2>1. ListedInv /\ gone \intersect stored = {}
    BY <1>5 DEF InspectionInv
  <2>2. \A r : Covered(r) => Covered(r)'
    BY <1>3, <1>4 DEF Covered, Deleted
  <2>3. \A a, b \in Fetching' : a = b
    BY <1>3, <2>1 DEF ListedInv, Fetching
  <2>4. n.kind = "catalog" => \A r \in gone : ~n.ok \/ r \notin n.found
    BY <1>2, <1>3, <2>1
  <2> QED
    BY <1>1, <1>3, <2>1, <2>2, <2>3, <2>4 DEF ListedInv
<1> QED
  BY <1>1, <1>3, <1>5, PromptsStay DEF InspectionInv, LoadingEnds

LEMMA DeleteRunsStep ==
    ASSUME InspectionInv, NEW l \in loads, DeleteRuns(l),
           UNCHANGED <<screen, confirm, asked, stranded, excused, listed>>
    PROVE  InspectionInv'
<1>1. l.kind \in Prompt /\ ~l.ran
  BY DEF DeleteRuns
<1>2. PICK done \in SUBSET l.repos :
         /\ Ran(l, {}, l.repos \subseteq done)
         /\ \/ l.kind = "tag" /\ UNCHANGED <<stored, gone>>
            \/ l.kind # "tag" /\ stored' = stored \ done /\ gone' = gone \union done
  BY DEF DeleteRuns
<1> DEFINE ok == l.repos \subseteq done
<1>a. ok \in BOOLEAN
  OBVIOUS
<1>b. Ran(l, {}, ok)
  BY <1>2
<1> HIDE DEF ok
<1>3. PICK n : /\ loads' = (loads \ {l}) \union {n}
               /\ LoadSound(n) /\ n.kind = l.kind /\ n.repos = l.repos /\ n.ran
               /\ n.found = {} /\ n.ok = ok
               /\ \A k \in loads' : LoadSound(k)
               /\ Fetching # {} => Fetching' # {}
  BY <1>a, <1>b, RanSound
<1>4. (gone \intersect stored = {})'
  BY <1>2 DEF InspectionInv
<1>5. l.kind = "repository" /\ ~n.ok => done = {}
  <2>1. l.kind = "repository" => \E r \in l.repos : l.repos = {r}
    BY DEF InspectionInv, PromptInv, LoadSound, OneRepo
  <2> QED
    BY <1>2, <1>3, <2>1 DEF ok
<1>6. ASSUME ~excused' PROVE ListedInv'
  <2>1. ListedInv
    BY <1>6 DEF InspectionInv
  <2>2. \A r : Covered(r) => Covered(r)'
    BY <1>1, <1>3 DEF Covered, Deleted
  <2>3. l.kind \notin Loads
    BY <1>1 DEF Prompt, Loads
  <2>4. Fetching' = Fetching
    BY <1>3, <2>3 DEF Fetching
  <2>5. ASSUME NEW r \in gone' PROVE r \in gone \/ Covered(r)'
    <3>1. CASE r \in gone
      BY <3>1
    <3>2. CASE r \notin gone
      <4>1. r \in done /\ l.kind # "tag"
        BY <1>2, <2>5, <3>2
      <4>2. Deleted(n) /\ r \in n.repos
        BY <1>1, <1>2, <1>3, <1>5, <4>1 DEF Deleted, Prompt
      <4> QED
        BY <1>3, <4>2 DEF Covered
    <3> QED
      BY <3>1, <3>2
  <2>6. \A c : c.kind = "catalog" => (c \in loads <=> c \in loads')
    BY <1>1, <1>3 DEF Prompt
  <2> QED
    BY <2>1, <2>2, <2>4, <2>5, <2>6 DEF ListedInv
<1> QED
  BY <1>3, <1>4, <1>6, PromptsStay DEF InspectionInv, LoadingEnds

LEMMA PushStep ==
    ASSUME InspectionInv, NEW r \in Repo, Push(r)
    PROVE  InspectionInv'
<1>1. /\ stored' = stored \union {r} /\ gone' = gone \ {r}
      /\ UNCHANGED <<screen, confirm, loads, asked, stranded, excused, listed>>
  BY DEF Push, listVars
<1>2. PromptInv' /\ LoadingEnds' /\ excused' \in BOOLEAN /\ (gone \intersect stored = {})'
  BY <1>1, PromptsStay DEF InspectionInv, PromptInv, LoadingEnds, Fetching
<1>3. ListedInv => ListedInv'
  BY <1>1 DEF ListedInv, Fetching, Covered
<1> QED
  BY <1>1, <1>2, <1>3 DEF InspectionInv

(***************************************************************************)
(* The answers.                                                            *)
(***************************************************************************)
LEMMA DroppedSound ==
    ASSUME InspectionInv, NEW l \in loads, loads' = loads \ {l}, UNCHANGED <<stored, gone, excused, listed>>,
           ~Deleted(l)
    PROVE  /\ \A k \in loads' : LoadSound(k)
           /\ l.kind \notin Loads => Fetching' = Fetching
           /\ excused' \in BOOLEAN /\ (gone \intersect stored = {})'
           /\ ~excused' /\ l.kind # "catalog" => ListedInv'
<1>1. ASSUME ~excused', l.kind # "catalog" PROVE ListedInv'
  <2>1. ListedInv
    BY <1>1 DEF InspectionInv
  <2>2. \A r : Covered(r) => Covered(r)'
    BY DEF Covered
  <2> QED
    BY <1>1, <2>1, <2>2 DEF ListedInv, Fetching
<1> QED
  BY <1>1 DEF InspectionInv, PromptInv, Fetching

LEMMA ReloadSound ==
    ASSUME InspectionInv, NEW l \in loads, NEW kind \in {"catalog", "tags"}, NEW repos,
           Reload(l, kind, repos), kind # "catalog" => ~Deleted(l), l.kind \notin Loads,
           UNCHANGED <<stored, gone, listed>>
    PROVE  /\ \A k \in loads' : LoadSound(k)
           /\ Fetching' # {}
           /\ excused' \in BOOLEAN /\ (gone \intersect stored = {})'
           /\ ~excused' => ListedInv'
<1> DEFINE n == Load(kind, repos)
<1>1. loads' = (loads \ {l}) \union {n} /\ excused' = (excused \/ Fetching # {})
  BY DEF Reload
<1>2. /\ DOMAIN n = LoadFields /\ n.ran = FALSE /\ n.ok = TRUE /\ n.kind = kind /\ n.repos = repos
  BY DEF Load, LoadFields
<1> HIDE DEF n
<1>3. LoadSound(n)
  BY <1>2 DEF LoadSound, OneRepo
<1>4. Fetching' = Fetching \union {n}
  BY <1>1, <1>2 DEF Fetching, Loads
<1>5. ASSUME ~excused' PROVE ListedInv'
  <2>1. ListedInv /\ Fetching = {}
    BY <1>1, <1>5 DEF InspectionInv
  <2>2. \A a, b \in Fetching' : a = b
    BY <1>4, <2>1
  <2>3. \A c \in loads' : c.kind = "catalog" => c = n
    BY <1>1, <2>1 DEF Fetching, Loads
  <2>4. CASE kind = "catalog"
    BY <1>1, <1>2, <2>1, <2>2, <2>3, <2>4 DEF ListedInv
  <2>5. CASE kind # "catalog"
    <3>1. \A r : Covered(r) => Covered(r)'
      BY <1>1, <2>5 DEF Covered
    <3>2. \A c \in loads' : c.kind # "catalog"
      BY <1>2, <2>3, <2>5
    <3>3. \A c \in loads : c.kind # "catalog"
      BY <2>1 DEF Fetching, Loads
    <3> QED
      BY <2>1, <2>2, <3>1, <3>2, <3>3 DEF ListedInv
  <2> QED
    BY <2>4, <2>5
<1> QED
  BY <1>1, <1>3, <1>4, <1>5 DEF InspectionInv, PromptInv

LEMMA CatalogLoadedStep ==
    ASSUME InspectionInv, NEW l \in loads, catalogLoaded(l), UNCHANGED registryVars
    PROVE  InspectionInv'
<1>1. /\ l.kind = "catalog" /\ l.ran /\ loads' = loads \ {l} /\ UNCHANGED <<stored, gone, stranded>>
      /\ screen' # "loading"
  BY DEF catalogLoaded, Taken, registryVars
<1>2. (\A k \in loads' : LoadSound(k)) /\ (gone \intersect stored = {})'
  BY <1>1 DEF InspectionInv, PromptInv
<1>3. CASE l.ok
  <2>1. /\ confirm' = [confirm EXCEPT !["repository"] = Nobody]
        /\ asked' = asked \ {confirm["repository"]} /\ excused' = excused /\ listed' = l.found
    BY <1>3 DEF catalogLoaded
  <2>2. PromptInv'
    BY <1>2, <2>1, PromptChanges DEF Prompt
  <2>3. ASSUME ~excused' PROVE ListedInv'
    <3>1. ListedInv
      BY <2>1, <2>3 DEF InspectionInv
    <3>2. \A r : Covered(r) => Covered(r)'
      BY <1>1 DEF Covered, Deleted
    <3>3. \A r \in gone \intersect l.found : Covered(r)
      BY <1>1, <1>3, <3>1 DEF ListedInv
    <3> QED
      BY <1>1, <2>1, <3>1, <3>2, <3>3 DEF ListedInv, Fetching
  <2> QED
    BY <1>1, <1>2, <2>1, <2>2, <2>3 DEF InspectionInv, LoadingEnds
<1>4. CASE ~l.ok
  <2>1. excused' = TRUE /\ UNCHANGED <<listed, confirm, asked>>
    BY <1>4 DEF catalogLoaded
  <2> QED
    BY <1>1, <1>2, <2>1, PromptsStay DEF InspectionInv, LoadingEnds
<1> QED
  BY <1>3, <1>4

LEMMA TagsLoadedStep ==
    ASSUME InspectionInv, NEW l \in loads, tagsLoaded(l), UNCHANGED registryVars
    PROVE  InspectionInv'
<1>1. /\ l.kind = "tags" /\ loads' = loads \ {l} /\ UNCHANGED <<stored, gone, listed>>
      /\ screen' # "loading" /\ ~Deleted(l)
  BY DEF tagsLoaded, registryVars, Deleted
<1>2. (\A k \in loads' : LoadSound(k)) /\ (gone \intersect stored = {})'
  BY <1>1 DEF InspectionInv, PromptInv
<1>3. CASE l.ok
  <2>1. /\ confirm' = [confirm EXCEPT !["tag"] = Nobody]
        /\ asked' = asked \ {confirm["tag"]} /\ excused' = excused
    BY <1>3 DEF tagsLoaded
  <2>2. PromptInv'
    BY <1>2, <2>1, PromptChanges DEF Prompt
  <2>3. excused' \in BOOLEAN /\ (~excused' => ListedInv')
    BY <1>1, <2>1, DroppedSound
  <2> QED
    BY <1>1, <1>2, <2>2, <2>3 DEF InspectionInv, LoadingEnds
<1>4. CASE ~l.ok
  <2>1. excused' = TRUE /\ UNCHANGED <<confirm, asked>>
    BY <1>4 DEF tagsLoaded
  <2> QED
    BY <1>1, <1>2, <2>1, PromptsStay DEF InspectionInv, LoadingEnds
<1> QED
  BY <1>3, <1>4

LEMMA ManifestLoadedStep ==
    ASSUME InspectionInv, NEW l \in loads, manifestLoaded(l), UNCHANGED registryVars
    PROVE  InspectionInv'
<1>1. /\ l.kind = "manifest" /\ loads' = loads \ {l} /\ screen' # "loading" /\ ~Deleted(l)
      /\ UNCHANGED <<stored, gone, listed, excused, confirm, asked>>
  BY DEF manifestLoaded, registryVars, Deleted
<1> QED
  BY <1>1, DroppedSound, PromptsStay DEF InspectionInv, LoadingEnds

(* The answer to a delete: its prompt is closed.                           *)
LEMMA SettledSound ==
    ASSUME InspectionInv, NEW l \in loads, l.kind \in Prompt, Settled(l, l.kind),
           \A k \in loads' : LoadSound(k)
    PROVE  PromptInv'
<1>1. Target(l.kind, l.repos).kind = l.kind
  BY DEF Target
<1> QED
  BY <1>1, PromptChanges DEF Settled

LEMMA DeletedStep ==
    ASSUME InspectionInv, NEW l \in loads, tagDeleted(l) \/ repositoryDeleted(l) \/ projectDeleted(l),
           UNCHANGED registryVars
    PROVE  InspectionInv'
<1>1. /\ l.kind \in Prompt /\ Settled(l, l.kind) /\ UNCHANGED <<stored, gone, listed, screen, stranded>>
  BY DEF tagDeleted, repositoryDeleted, projectDeleted, Prompt, registryVars, listVars
<1>2. l.kind \notin Loads
  BY <1>1 DEF Prompt, Loads
<1>3. ASSUME /\ \A k \in loads' : LoadSound(k)
             /\ Fetching' # {} \/ Fetching' = Fetching
             /\ excused' \in BOOLEAN /\ (gone \intersect stored = {})'
             /\ ~excused' => ListedInv'
      PROVE  InspectionInv'
  BY <1>1, <1>3, SettledSound DEF InspectionInv, LoadingEnds
<1>4. CASE l.kind = "tag" /\ l.ok
  <2>1. Reload(l, "tags", l.repos) /\ ~Deleted(l)
    BY <1>4 DEF tagDeleted, repositoryDeleted, projectDeleted, Deleted
  <2> QED
    BY <1>1, <1>2, <1>3, <2>1, ReloadSound
<1>5. CASE l.kind = "project" \/ (l.kind = "repository" /\ l.ok)
  <2>1. Reload(l, "catalog", {})
    BY <1>5 DEF tagDeleted, repositoryDeleted, projectDeleted
  <2> QED
    BY <1>1, <1>2, <1>3, <2>1, ReloadSound
<1>6. CASE l.kind # "project" /\ ~l.ok
  <2>1. loads' = loads \ {l} /\ excused' = excused /\ ~Deleted(l) /\ l.kind # "catalog"
    BY <1>1, <1>6 DEF tagDeleted, repositoryDeleted, projectDeleted, Deleted, Prompt
  <2> QED
    BY <1>1, <1>2, <1>3, <2>1, DroppedSound
<1> QED
  BY <1>1, <1>4, <1>5, <1>6 DEF Prompt

LEMMA LoginCompletedStep ==
    ASSUME InspectionInv, NEW l \in loads, loginCompleted(l), UNCHANGED registryVars
    PROVE  InspectionInv'
<1>1. /\ l.kind = "login" /\ UNCHANGED <<stored, gone, listed, confirm, asked>>
      /\ l.kind \notin Loads /\ l.kind # "catalog" /\ ~Deleted(l)
  BY DEF loginCompleted, registryVars, listVars, Loads, Deleted
<1>2. CASE l.ok /\ startup /\ listed = {}
  <2>1. Reload(l, "catalog", {})
    BY <1>2 DEF loginCompleted
  <2> QED
    BY <1>1, <2>1, ReloadSound, PromptsStay DEF InspectionInv, LoadingEnds
<1>3. CASE ~(l.ok /\ startup /\ listed = {})
  <2>1. loads' = loads \ {l} /\ excused' = excused /\ screen' # "loading"
    BY <1>3 DEF loginCompleted
  <2> QED
    BY <1>1, <2>1, DroppedSound, PromptsStay DEF InspectionInv, LoadingEnds
<1> QED
  BY <1>2, <1>3

LEMMA InspectionInvInit ==
    InspectionInit => InspectionInv
<1> SUFFICES ASSUME InspectionInit PROVE InspectionInv
  OBVIOUS
<1> DEFINE n == Load("catalog", {})
<1>1. /\ DOMAIN n = LoadFields /\ n.ran = FALSE /\ n.ok = TRUE /\ n.kind = "catalog"
  BY DEF Load, LoadFields
<1>2. LoadSound(n)
  BY <1>1 DEF LoadSound, OneRepo
<1>3. loads \subseteq {n} /\ (screen = "loading" => loads = {n})
  BY DEF InspectionInit
<1> HIDE DEF n
<1>4. DOMAIN confirm = Prompt /\ \A k \in Prompt : confirm[k] = Nobody
  BY DEF InspectionInit, NoPrompt
<1>5. gone = {} /\ excused = FALSE
  BY DEF InspectionInit
<1>6. PromptInv
  BY <1>2, <1>3, <1>4 DEF PromptInv, PromptSound
<1>7. LoadingEnds
  BY <1>1, <1>3 DEF LoadingEnds, Fetching, Loads
<1>8. ListedInv
  BY <1>3, <1>5 DEF ListedInv, Fetching
<1> QED
  BY <1>5, <1>6, <1>7, <1>8 DEF InspectionInv

LEMMA InspectionInvStep ==
    InspectionInv /\ [InspectionNext]_inspectionVars => InspectionInv'
<1> SUFFICES ASSUME InspectionInv, [InspectionNext]_inspectionVars PROVE InspectionInv'
  OBVIOUS
<1>1. CASE CommandRuns
  <2>1. UNCHANGED <<screen, confirm, asked, stranded, excused, listed>>
    BY <1>1 DEF CommandRuns, listVars
  <2> QED
    BY <1>1, <2>1, LoadRunsStep, DeleteRunsStep DEF CommandRuns
<1>2. CASE AnswerArrives
  BY <1>2, CatalogLoadedStep, TagsLoadedStep, ManifestLoadedStep, DeletedStep, LoginCompletedStep
     DEF AnswerArrives
<1>3. CASE \E r \in Repo : Push(r)
  BY <1>3, PushStep
<1>4. CASE UNCHANGED inspectionVars
  BY <1>4, PageStep DEF inspectionVars, InspectionInv, LoadingEnds, Fetching
<1> QED
  BY <1>1, <1>2, <1>3, <1>4, ConfirmEnterStep, ConfirmEscStep, OpenRowStep, AskDeleteStep,
     ShowProjectsStep, MoveStep, SignInStep DEF InspectionNext

(* Every prompt that is open was asked about; the loading page has a load  *)
(* under way, or the operator was sent back to it; and what this console   *)
(* deleted is not listed once everything is answered.                      *)
LEMMA InspectionAlways ==
    InspectionSpec => []InspectionInv
BY InspectionInvInit, InspectionInvStep, PTL DEF InspectionSpec

LEMMA DeletedIsUnlisted ==
    InspectionInv => DeletedNotListed
<1> SUFFICES ASSUME InspectionInv, loads = {}, ~excused PROVE listed \intersect gone = {}
  BY DEF DeletedNotListed
<1>1. ListedInv
  BY DEF InspectionInv
<1> QED
  BY <1>1 DEF ListedInv, Covered

(* An open prompt of the console was asked about since it was last         *)
(* cancelled, answered or dropped with its list (updateKey and the answers *)
(* to deletes in model.go).                                                *)
THEOREM PromptsAreAsked ==
    InspectionSpec => []PromptWasAsked
<1>1. InspectionInv => PromptWasAsked
  BY DEF InspectionInv, PromptInv, PromptSound, PromptWasAsked
<1> QED
  BY <1>1, InspectionAlways, PTL

-----------------------------------------------------------------------------
(***************************************************************************)
(* AdminPanel.  A call that is not late was sent from the page that is up, *)
(* so its kind and, where tokens are shown, its account are known.         *)
(***************************************************************************)
ViewFields == {"users", "found", "robots", "chosen", "cursor", "grantsOf", "tokensOf", "secret",
               "prompt", "repo", "grantsIn", "authorized", "astray"}
Outside == {"inspection", "login", "authenticating"}
TokenPage == {"tokens", "createToken"}

\* The pages a call is sent from, and those a prompt is opened on.
SentOn(kind, p) ==
    \/ kind = "login" /\ p = "authenticating"
    \/ kind = "users" /\ p \in {"menu", "users", "editUser"}
    \/ kind = "createUser" /\ p = "createUser"
    \/ kind = "resetPassword" /\ p = "changePassword"
    \/ kind = "putGrant" /\ p = "addGrant"
    \/ kind = "grants" /\ p = "grants"
    \/ kind = "tokens" /\ p = "tokens"
    \/ kind = "createToken" /\ p = "createToken"
    \/ kind = "robots" /\ p \in {"robots", "createRobot"}
    \/ kind = "createRobot" /\ p = "createRobot"
    \/ kind = "repoGrants" /\ p = "repoGrants"
    \/ kind = "repoGrant" /\ p = "repoAddGrant"
AskedOn(act, p) ==
    \/ act = "enableUser" /\ p = "editUser"
    \/ act = "deleteGrant" /\ p = "grants"
    \/ act = "revokeToken" /\ p = "tokens"
    \/ act \in {"enableRobot", "deleteRobot"} /\ p = "robots"
    \/ act = "repoGrant" /\ p = "repoGrants"

CallSound(c) ==
    /\ DOMAIN c = {"kind", "on", "late"} /\ c.late \in BOOLEAN
    /\ c.kind = "login" => signIns # 0

Waiting(v, cs) == \E c \in cs : c.kind = "tokens" /\ c.on = v.chosen

PageOK(p, v, cs) ==
    /\ \A c \in cs : ~c.late => /\ SentOn(c.kind, p) \/ AskedOn(c.kind, p)
                                /\ p \in TokenPage => c.on = v.chosen
    /\ v.prompt # Unset => AskedOn(v.prompt.act, p) /\ (p \in TokenPage => v.prompt.on = v.chosen)
    /\ v.secret # Unset => p = "createRobot" \/ (p \in TokenPage /\ v.secret = v.chosen)

TokensTold(p, v, cs) ==
    p \in TokenPage /\ v.tokensOf \notin {Unset, v.chosen} => v.astray \/ Waiting(v, cs)

PanelBase ==
    /\ DOMAIN view = ViewFields /\ overtaken \in BOOLEAN /\ signIns \in Nat
    /\ \A c \in calls : CallSound(c)
    /\ view.prompt # Unset => view.prompt.act # "login"
    /\ AuthorizedListMatches /\ AuthenticatingHasLogin /\ TokensTold(page, view, calls)

Undisturbed ==
    /\ PageOK(page, view, calls)
    /\ session = 0 => view = newAdminViewState /\ page \in Outside
    /\ intent # Unset => page \in {"login", "authenticating"} /\ intent = wanted

PanelInv == PanelBase /\ (~overtaken => Undisturbed)

(* Calls.                                                                  *)
NewCall(c) == DOMAIN c = {"kind", "on", "late"} /\ c.late = FALSE /\ c.kind # "login"

LEMMA CallFields ==
    ASSUME NEW kind, NEW on
    PROVE  /\ DOMAIN Call(kind, on) = {"kind", "on", "late"} /\ Call(kind, on).late = FALSE
           /\ Call(kind, on).kind = kind /\ Call(kind, on).on = on
           /\ kind # "login" => NewCall(Call(kind, on))
BY DEF Call, NewCall

Fresh(c) == DOMAIN c = {"kind", "on", "late"} /\ c.late = FALSE

LEMMA FreshFields ==
    ASSUME NEW kind, NEW on
    PROVE  Fresh(Call(kind, on)) /\ Call(kind, on).kind = kind
BY DEF Fresh, Call

LEMMA FreshCall ==
    ASSUME NEW kind, NEW on, kind # "login"
    PROVE  NewCall(Call(kind, on)) /\ Call(kind, on).kind = kind /\ Call(kind, on).on = on
BY CallFields

LEMMA LateCalls ==
    ASSUME NEW cs, \A c \in cs : CallSound(c)
    PROVE  /\ \A b \in Belated(cs) : CallSound(b) /\ b.late
           /\ \A c \in cs : \E b \in Belated(cs) : b.kind = c.kind /\ b.on = c.on
<1>1. ASSUME NEW c \in cs
      PROVE  LET b == [c EXCEPT !.late = TRUE]
             IN  CallSound(b) /\ b.late = TRUE /\ b.kind = c.kind /\ b.on = c.on
  BY DEF CallSound
<1> QED
  BY <1>1 DEF Belated

(* The page changes, and every call under way is late.                     *)
LEMMA ArrivesOK ==
    ASSUME NEW p, NEW v, NEW cs, NEW new, \A c \in cs : CallSound(c),
           \A c \in new : /\ SentOn(c.kind, p) \/ AskedOn(c.kind, p)
                          /\ p \in TokenPage => c.on = v.chosen,
           v.prompt = Unset,
           v.secret # Unset => p = "createRobot" \/ (p \in TokenPage /\ v.secret = v.chosen)
    PROVE  PageOK(p, v, Belated(cs) \union new)
<1>1. \A b \in Belated(cs) : b.late
  BY LateCalls
<1> QED
  BY <1>1 DEF PageOK

LEMMA TokensArrive ==
    ASSUME NEW p, NEW v, NEW cs, NEW new, \A c \in cs : CallSound(c),
           p \in TokenPage /\ v.tokensOf \notin {Unset, v.chosen}
             => v.astray \/ Waiting(v, cs) \/ Waiting(v, new)
    PROVE  TokensTold(p, v, Belated(cs) \union new)
<1>1. \A c \in cs : \E b \in Belated(cs) : b.kind = c.kind /\ b.on = c.on
  BY LateCalls
<1> QED
  BY <1>1 DEF TokensTold, Waiting

(* A key on a page of the panel.                                           *)
LEMMA KeyStep ==
    ASSUME PanelInv, NEW p, NEW v, NEW cs, Key(p, v, cs), page \notin Outside, p \notin Outside,
           DOMAIN v = ViewFields, v.authorized => v.grantsIn = v.repo, \A c \in cs : NewCall(c),
           v.prompt # Unset => v.prompt.act # "login", TokensTold(p, v, calls'),
           ~overtaken => PageOK(p, v, calls')
    PROVE  PanelInv'
<1>1. /\ page' = p /\ view' = v /\ UNCHANGED <<session, signIns, overtaken, intent, wanted>>
      /\ calls' = (IF p = page THEN calls ELSE Belated(calls)) \union cs
  BY DEF Key, Go
<1>2. \A c \in calls : CallSound(c)
  BY DEF PanelInv, PanelBase
<1>3. \A c \in Belated(calls) : CallSound(c)
  BY <1>2, LateCalls
<1>4. \A c \in cs : CallSound(c)
  BY DEF NewCall, CallSound
<1>5. \A c \in calls' : CallSound(c)
  BY <1>1, <1>2, <1>3, <1>4
<1>6. \A c \in calls' : CallSound(c)'
  BY <1>1, <1>5 DEF CallSound
<1>7. PanelBase'
  BY <1>1, <1>6 DEF PanelInv, PanelBase, AuthorizedListMatches, AuthenticatingHasLogin, Outside
<1>8. ASSUME ~overtaken' PROVE Undisturbed'
  BY <1>1, <1>8 DEF PanelInv, Undisturbed, Outside
<1> QED
  BY <1>7, <1>8 DEF PanelInv

(* ... that leaves the page: the view shown has no prompt.                 *)
LEMMA LeaveStep ==
    ASSUME PanelInv, NEW p, NEW v, NEW cs, Key(p, v, cs), page \notin Outside, p \notin Outside,
           p # page,
           DOMAIN v = ViewFields, v.authorized => v.grantsIn = v.repo, v.prompt = Unset,
           \A c \in cs : /\ NewCall(c) /\ (SentOn(c.kind, p) \/ AskedOn(c.kind, p))
                         /\ p \in TokenPage => c.on = v.chosen,
           ~overtaken /\ v.secret # Unset
             => p = "createRobot" \/ (p \in TokenPage /\ v.secret = v.chosen),
           p \in TokenPage /\ v.tokensOf \notin {Unset, v.chosen}
             => v.astray \/ Waiting(v, calls) \/ Waiting(v, cs)
    PROVE  PanelInv'
<1>1. calls' = Belated(calls) \union cs
  BY DEF Key, Go
<1>2. \A c \in calls : CallSound(c)
  BY DEF PanelInv, PanelBase
<1>3. ~overtaken => PageOK(p, v, calls')
  BY <1>1, <1>2, ArrivesOK
<1>4. TokensTold(p, v, calls')
  BY <1>1, <1>2, TokensArrive
<1> QED
  BY <1>3, <1>4, KeyStep

(* ... and one that stays.                                                 *)
LEMMA StayStep ==
    ASSUME PanelInv, NEW v, NEW cs, Key(page, v, cs), page \notin Outside,
           DOMAIN v = ViewFields, v.authorized => v.grantsIn = v.repo,
           \A c \in cs : /\ NewCall(c)
                         /\ ~overtaken => /\ SentOn(c.kind, page) \/ AskedOn(c.kind, page)
                                          /\ page \in TokenPage => c.on = v.chosen,
           page \in TokenPage => v.chosen = view.chosen,
           v.prompt \in {Unset, view.prompt}
             \/ (AskedOn(v.prompt.act, page) /\ (page \in TokenPage => v.prompt.on = v.chosen)),
           v.secret \in {Unset, view.secret},
           page \in TokenPage => v.tokensOf = view.tokensOf /\ v.astray = view.astray
    PROVE  PanelInv'
<1>1. calls' = calls \union cs
  BY DEF Key, Go
<1>2. ASSUME ~overtaken PROVE PageOK(page, v, calls')
  <2>1. PageOK(page, view, calls)
    BY <1>2 DEF PanelInv, Undisturbed
  <2>2. /\ \A c \in calls' : ~c.late => /\ SentOn(c.kind, page) \/ AskedOn(c.kind, page)
                                        /\ page \in TokenPage => c.on = v.chosen
    BY <1>1, <1>2, <2>1 DEF PageOK
  <2>3. v.prompt # Unset => /\ AskedOn(v.prompt.act, page)
                            /\ page \in TokenPage => v.prompt.on = v.chosen
    BY <2>1 DEF PageOK
  <2>4. v.secret # Unset => page = "createRobot" \/ (page \in TokenPage /\ v.secret = v.chosen)
    BY <2>1 DEF PageOK
  <2> QED
    BY <2>2, <2>3, <2>4 DEF PageOK
<1>3. v.prompt # Unset => v.prompt.act # "login"
  BY DEF AskedOn, PanelInv, PanelBase
<1>4. TokensTold(page, v, calls')
  BY <1>1 DEF PanelInv, PanelBase, TokensTold, Waiting
<1> QED
  BY <1>2, <1>3, <1>4, KeyStep

(* The view's fields, after what the keys do to it.                        *)
LEMMA ViewChanges ==
    ASSUME NEW v, DOMAIN v = ViewFields, NEW w,
           \/ w = clearRevealedAdminToken(v) \/ w = clearSelectedAdminDetails(v)
           \/ w \in syncAdminUserSelection(v) \/ w \in applyAdminUserFilter(v)
           \/ w \in applyLoadedUsers(v)
    PROVE  /\ DOMAIN w = ViewFields /\ w.prompt = v.prompt /\ w.secret \in {Unset, v.secret}
           /\ w.authorized = v.authorized /\ w.grantsIn = v.grantsIn /\ w.repo = v.repo
<1>1. ASSUME NEW x, DOMAIN x = ViewFields
      PROVE  LET y == clearSelectedAdminDetails(x)
             IN  /\ DOMAIN y = ViewFields /\ y.prompt = x.prompt /\ y.secret \in {Unset, x.secret}
                 /\ y.authorized = x.authorized /\ y.grantsIn = x.grantsIn /\ y.repo = x.repo
  BY <1>1 DEF clearSelectedAdminDetails, ViewFields
<1>2. LET y == clearRevealedAdminToken(v)
      IN  /\ DOMAIN y = ViewFields /\ y.prompt = v.prompt /\ y.secret \in {Unset, v.secret}
          /\ y.authorized = v.authorized /\ y.grantsIn = v.grantsIn /\ y.repo = v.repo
  BY DEF clearRevealedAdminToken, ViewFields
<1>3. ASSUME NEW x, DOMAIN x = ViewFields, NEW y \in syncAdminUserSelection(x)
      PROVE  /\ DOMAIN y = ViewFields /\ y.prompt = x.prompt /\ y.secret \in {Unset, x.secret}
             /\ y.authorized = x.authorized /\ y.grantsIn = x.grantsIn /\ y.repo = x.repo
  <2>1. PICK u : y = [x EXCEPT !.chosen = u, !.cursor = u]
    BY <1>3 DEF syncAdminUserSelection
  <2> QED
    BY <1>3, <2>1 DEF ViewFields
<1>4. CASE w \in applyAdminUserFilter(v)
  <2>1. PICK x \in syncAdminUserSelection(v) : w = x \/ w = clearSelectedAdminDetails(x)
    BY <1>4 DEF applyAdminUserFilter
  <2>2. /\ DOMAIN x = ViewFields /\ x.prompt = v.prompt /\ x.secret \in {Unset, v.secret}
        /\ x.authorized = v.authorized /\ x.grantsIn = v.grantsIn /\ x.repo = v.repo
    BY <1>3
  <2> QED
    BY <1>1, <2>1, <2>2
<1>5. CASE w \in applyLoadedUsers(v)
  <2> DEFINE z == [v EXCEPT !.users = TRUE]
  <2>1. /\ DOMAIN z = ViewFields /\ z.prompt = v.prompt /\ z.secret = v.secret
        /\ z.authorized = v.authorized /\ z.grantsIn = v.grantsIn /\ z.repo = v.repo
    BY DEF ViewFields
  <2>2. PICK x \in syncAdminUserSelection(z) : w = x \/ w = clearSelectedAdminDetails(x)
    BY <1>5 DEF applyLoadedUsers
  <2> HIDE DEF z
  <2>3. /\ DOMAIN x = ViewFields /\ x.prompt = z.prompt /\ x.secret \in {Unset, z.secret}
        /\ x.authorized = z.authorized /\ x.grantsIn = z.grantsIn /\ x.repo = z.repo
    BY <1>3, <2>1
  <2> QED
    BY <1>1, <2>1, <2>2, <2>3
<1> QED
  BY <1>1, <1>2, <1>3, <1>4, <1>5

LEMMA Revealed ==
    ASSUME NEW v, DOMAIN v = ViewFields
    PROVE  LET w == clearRevealedAdminToken(v)
           IN  /\ DOMAIN w = ViewFields /\ w.secret = Unset
               /\ \A f \in ViewFields \ {"secret"} : w[f] = v[f]
BY DEF clearRevealedAdminToken, ViewFields

LEMMA PutFields ==
    ASSUME NEW v, DOMAIN v = ViewFields, NEW field \in ViewFields, NEW value
    PROVE  LET w == Put(v, field, value)
           IN  /\ DOMAIN w = ViewFields /\ w[field] = value
               /\ \A f \in ViewFields \ {field} : w[f] = v[f]
BY DEF Put

LEMMA PanelFacts ==
    ASSUME PanelInv
    PROVE  /\ DOMAIN view = ViewFields /\ (view.authorized => view.grantsIn = view.repo)
           /\ \A c \in calls : CallSound(c)
           /\ view.prompt # Unset => view.prompt.act # "login"
           /\ ~overtaken /\ view.secret # Unset
                => page = "createRobot" \/ (page \in TokenPage /\ view.secret = view.chosen)
           /\ ~overtaken /\ view.prompt # Unset
                => AskedOn(view.prompt.act, page)
                   /\ (page \in TokenPage => view.prompt.on = view.chosen)
           /\ page \in TokenPage /\ view.tokensOf \notin {Unset, view.chosen}
                => view.astray \/ Waiting(view, calls)
BY DEF PanelInv, PanelBase, Undisturbed, PageOK, TokensTold, AuthorizedListMatches

(* Keys that leave for another page with nothing asked for.                *)
LEMMA PlainLeave ==
    ASSUME PanelInv, NEW p, page \notin Outside, p \notin Outside, p # page, view.prompt = Unset,
           NEW v \in {view, clearRevealedAdminToken(view)}, Key(p, v, {}),
           p \in TokenPage => page \in TokenPage,
           \/ v = clearRevealedAdminToken(view) \/ p \in TokenPage
           \/ page \notin TokenPage \union {"createRobot"}
    PROVE  PanelInv'
<1>1. /\ DOMAIN view = ViewFields /\ (view.authorized => view.grantsIn = view.repo)
      /\ ~overtaken /\ view.secret # Unset
           => page = "createRobot" \/ (page \in TokenPage /\ view.secret = view.chosen)
      /\ page \in TokenPage /\ view.tokensOf \notin {Unset, view.chosen}
                => view.astray \/ Waiting(view, calls)
  BY PanelFacts
<1>2. /\ DOMAIN v = ViewFields /\ v.secret \in {Unset, view.secret} /\ v.prompt = view.prompt
      /\ v.chosen = view.chosen /\ v.tokensOf = view.tokensOf /\ v.astray = view.astray
      /\ v.authorized = view.authorized /\ v.grantsIn = view.grantsIn /\ v.repo = view.repo
      /\ v = clearRevealedAdminToken(view) => v.secret = Unset
  BY <1>1, Revealed DEF ViewFields
<1>3. Waiting(v, calls) = Waiting(view, calls)
  BY <1>2 DEF Waiting
<1>4. ~overtaken /\ v.secret # Unset
             => p = "createRobot" \/ (p \in TokenPage /\ v.secret = v.chosen)
  BY <1>1, <1>2 DEF TokenPage
<1> QED
  BY <1>1, <1>2, <1>3, <1>4, LeaveStep

(* Keys that stay and ask for something.                                   *)
LEMMA PlainStay ==
    ASSUME PanelInv, page \notin Outside, NEW v \in {view, clearRevealedAdminToken(view)},
           NEW kind, NEW on, Key(page, v, {Call(kind, on)}), kind # "login",
           ~overtaken => /\ SentOn(kind, page) \/ AskedOn(kind, page)
                         /\ page \in TokenPage => on = view.chosen
    PROVE  PanelInv'
<1>1. /\ DOMAIN view = ViewFields /\ (view.authorized => view.grantsIn = view.repo)
  BY PanelFacts
<1>2. /\ DOMAIN v = ViewFields /\ v.secret \in {Unset, view.secret} /\ v.prompt = view.prompt
      /\ v.chosen = view.chosen /\ v.tokensOf = view.tokensOf /\ v.astray = view.astray
      /\ v.authorized = view.authorized /\ v.grantsIn = view.grantsIn /\ v.repo = view.repo
  BY <1>1, Revealed DEF ViewFields
<1>3. /\ NewCall(Call(kind, on)) /\ Call(kind, on).kind = kind /\ Call(kind, on).on = on
  BY FreshCall
<1> QED
  BY <1>1, <1>2, <1>3, StayStep

(* A prompt is opened.                                                     *)
LEMMA AskStep ==
    ASSUME PanelInv, page \notin Outside, NEW act, NEW on, Key(page, Ask(act, on), {}),
           AskedOn(act, page), page \in TokenPage => on = view.chosen
    PROVE  PanelInv'
<1> DEFINE q == [act |-> act, on |-> on]
           v == Put(view, "prompt", q)
<1>1. /\ DOMAIN view = ViewFields /\ (view.authorized => view.grantsIn = view.repo)
  BY PanelFacts
<1>2. Key(page, v, {}) /\ q.act = act /\ q.on = on
  BY DEF Ask
<1> HIDE DEF q
<1>3. /\ DOMAIN v = ViewFields /\ v.prompt = q /\ \A f \in ViewFields \ {"prompt"} : v[f] = view[f]
  BY <1>1, PutFields DEF ViewFields
<1> HIDE DEF v
<1>4. /\ v.secret = view.secret /\ v.chosen = view.chosen /\ v.tokensOf = view.tokensOf
      /\ v.astray = view.astray /\ v.authorized = view.authorized
      /\ v.grantsIn = view.grantsIn /\ v.repo = view.repo
  BY <1>3 DEF ViewFields
<1> QED
  BY <1>1, <1>2, <1>3, <1>4, StayStep

LEMMA ConfirmKeyStep ==
    ASSUME PanelInv, ConfirmKey
    PROVE  PanelInv'
<1>1. page \notin Outside
  BY DEF ConfirmKey, Outside
<1>2. CASE Key(page, Put(view, "prompt", Unset), {})
  <2> DEFINE v == Put(view, "prompt", Unset)
  <2>1. /\ DOMAIN view = ViewFields /\ (view.authorized => view.grantsIn = view.repo)
    BY PanelFacts
  <2>2. DOMAIN v = ViewFields /\ v.prompt = Unset /\ \A f \in ViewFields \ {"prompt"} : v[f] = view[f]
    BY <2>1, PutFields DEF ViewFields
  <2>3. Key(page, v, {})
    BY <1>2
  <2> HIDE DEF v
  <2>4. /\ v.secret = view.secret /\ v.chosen = view.chosen /\ v.tokensOf = view.tokensOf
        /\ v.astray = view.astray /\ v.authorized = view.authorized
        /\ v.grantsIn = view.grantsIn /\ v.repo = view.repo
    BY <2>2 DEF ViewFields
  <2> QED
    BY <1>1, <2>1, <2>2, <2>3, <2>4, StayStep
<1>3. CASE Key(page, view, {Call(view.prompt.act, view.prompt.on)})
  <2>1. ~overtaken => /\ AskedOn(view.prompt.act, page)
                      /\ page \in TokenPage => view.prompt.on = view.chosen
    BY PanelFacts DEF ConfirmKey
  <2>2. view.prompt.act # "login"
    BY PanelFacts DEF ConfirmKey
  <2> QED
    BY <1>1, <1>3, <2>1, <2>2, PlainStay
<1> QED
  BY <1>2, <1>3 DEF ConfirmKey

LEMMA MenuAndUsersStep ==
    ASSUME PanelInv, MenuKeys \/ updateAdminUsersKey \/ openAdminRobots \/ openAdminEditUser
    PROVE  PanelInv'
<1>1. /\ DOMAIN view = ViewFields /\ (view.authorized => view.grantsIn = view.repo)
      /\ page \in {"menu", "users"} /\ view.prompt = Unset
      /\ page \notin Outside \union TokenPage \union {"createRobot"}
  BY PanelFacts DEF MenuKeys, updateAdminUsersKey, openAdminRobots, openAdminEditUser, Free,
                    Outside, TokenPage
<1>2. CASE \E p \in {"menu", "users", "createUser"} : p # page /\ Key(p, view, {})
  BY <1>1, <1>2, PlainLeave DEF Outside, TokenPage
<1>3. CASE page = "users" /\ \E found : \E w \in applyAdminUserFilter(Put(view, "found", found)) : Key("users", w, {})
  <2>1. PICK found : \E w \in applyAdminUserFilter(Put(view, "found", found)) : Key("users", w, {})
    BY <1>3
  <2> DEFINE v == Put(view, "found", found)
  <2>2. PICK w \in applyAdminUserFilter(v) : Key("users", w, {})
    BY <2>1
  <2>3. /\ DOMAIN v = ViewFields /\ v.prompt = view.prompt /\ v.secret = view.secret
        /\ v.authorized = view.authorized /\ v.grantsIn = view.grantsIn /\ v.repo = view.repo
    BY <1>1, PutFields DEF ViewFields
  <2> HIDE DEF v
  <2>4. /\ DOMAIN w = ViewFields /\ w.prompt = v.prompt /\ w.secret \in {Unset, v.secret}
        /\ w.authorized = v.authorized /\ w.grantsIn = v.grantsIn /\ w.repo = v.repo
    BY <2>3, ViewChanges
  <2> QED
    BY <1>1, <1>3, <2>2, <2>3, <2>4, StayStep
<1>4. CASE page = "users" /\ \E u : Key("users",
            [(IF u = view.chosen THEN view ELSE clearSelectedAdminDetails(view))
               EXCEPT !.chosen = u, !.cursor = u], {})
  <2>1. PICK u : Key("users",
            [(IF u = view.chosen THEN view ELSE clearSelectedAdminDetails(view))
               EXCEPT !.chosen = u, !.cursor = u], {})
    BY <1>4
  <2> DEFINE x == IF u = view.chosen THEN view ELSE clearSelectedAdminDetails(view)
             w == [x EXCEPT !.chosen = u, !.cursor = u]
  <2>2. /\ DOMAIN x = ViewFields /\ x.prompt = view.prompt /\ x.secret \in {Unset, view.secret}
        /\ x.authorized = view.authorized /\ x.grantsIn = view.grantsIn /\ x.repo = view.repo
    BY <1>1, ViewChanges
  <2>3. Key("users", w, {})
    BY <2>1
  <2> HIDE DEF x
  <2>4. /\ DOMAIN w = ViewFields /\ w.prompt = x.prompt /\ w.secret = x.secret
        /\ w.authorized = x.authorized /\ w.grantsIn = x.grantsIn /\ w.repo = x.repo
    BY <2>2 DEF ViewFields
  <2> HIDE DEF w
  <2> QED
    BY <1>1, <1>4, <2>2, <2>3, <2>4, StayStep
<1>5. CASE page = "users" /\ Key("users", view, {Call("users", Unset)})
  BY <1>1, <1>5, PlainStay DEF SentOn
<1>6. CASE openAdminRobots
  <2> DEFINE w == clearRevealedAdminToken(view)
             c == Call("robots", Unset)
  <2>1. /\ DOMAIN w = ViewFields /\ w.secret = Unset /\ w.prompt = view.prompt
        /\ w.authorized = view.authorized /\ w.grantsIn = view.grantsIn /\ w.repo = view.repo
    BY <1>1, Revealed DEF ViewFields
  <2>2. NewCall(c) /\ SentOn(c.kind, "robots")
    BY CallFields DEF SentOn
  <2>3. Key("robots", w, {c}) /\ page = "users"
    BY <1>6 DEF openAdminRobots, Free
  <2>4. "robots" \notin Outside \union TokenPage
    BY DEF Outside, TokenPage
  <2> HIDE DEF w, c
  <2> QED
    BY <1>1, <2>1, <2>2, <2>3, <2>4, LeaveStep
<1>7. CASE openAdminEditUser
  BY <1>1, <1>7, PlainLeave DEF openAdminEditUser, Free, Outside, TokenPage
<1>8. updateAdminUsersKey => page = "users"
  BY DEF updateAdminUsersKey, Free
<1>9. MenuKeys => page = "menu" /\ Key("users", view, {})
  BY DEF MenuKeys, Free
<1> QED
  BY <1>2, <1>3, <1>4, <1>5, <1>6, <1>7, <1>8, <1>9 DEF updateAdminUsersKey

LEMMA EditUserStep ==
    ASSUME PanelInv, updateAdminEditUserKey
    PROVE  PanelInv'
<1>1. page = "editUser" /\ view.prompt = Unset
  BY DEF updateAdminEditUserKey, Free
<1> QED
  BY <1>1, PlainLeave, PlainStay, AskStep
     DEF updateAdminEditUserKey, Outside, TokenPage, SentOn, AskedOn

(* The tokens or the grants of an account are opened.                      *)
LEMMA OpenListStep ==
    ASSUME PanelInv, page \notin Outside, view.prompt = Unset, NEW p, p = "tokens" \/ p = "grants", p # page,
           NEW v, Key(p, v, {Call(p, v.chosen)}),
           DOMAIN v = ViewFields, v.authorized => v.grantsIn = v.repo, v.prompt = Unset,
           ~overtaken => v.secret = Unset
    PROVE  PanelInv'
<1> DEFINE c == Call(p, v.chosen)
<1>0. p # "login"
  OBVIOUS
<1>1. NewCall(c) /\ c.kind = p /\ c.on = v.chosen
  <2>1. c.kind = p /\ c.on = v.chosen
    BY DEF Call
  <2>2. p # "login" => NewCall(c)
    BY CallFields
  <2> QED
    BY <1>0, <2>1, <2>2
<1>2. SentOn(c.kind, p) /\ p \notin Outside
  BY <1>1 DEF SentOn, Outside
<1>3. p = "tokens" => Waiting(v, {c})
  BY <1>1 DEF Waiting
<1>4. p \in TokenPage => p = "tokens"
  BY DEF TokenPage
<1> HIDE DEF c
<1>5. Key(p, v, {c})
  BY DEF c
<1> QED
  BY <1>1, <1>2, <1>3, <1>4, <1>5, LeaveStep

LEMMA OpenListsStep ==
    ASSUME PanelInv, openAdminEditTokens \/ openAdminEditGrants \/ openAdminRobotTokens
    PROVE  PanelInv'
<1>1. /\ DOMAIN view = ViewFields /\ (view.authorized => view.grantsIn = view.repo)
      /\ ~overtaken /\ view.secret # Unset
                => page = "createRobot" \/ (page \in TokenPage /\ view.secret = view.chosen)
  BY PanelFacts
<1>2. view.prompt = Unset /\ page \notin Outside
  BY DEF openAdminEditTokens, openAdminEditGrants, openAdminRobotTokens, Free, Outside
<1> DEFINE w == clearRevealedAdminToken(view)
<1>3. /\ DOMAIN w = ViewFields /\ w.secret = Unset /\ w.prompt = view.prompt /\ w.chosen = view.chosen
      /\ w.authorized = view.authorized /\ w.grantsIn = view.grantsIn /\ w.repo = view.repo
  BY <1>1, Revealed DEF ViewFields
<1>4. CASE openAdminEditTokens
  <2>1. page \notin TokenPage \union {"createRobot"} /\ page # "tokens"
        /\ Key("tokens", view, {Call("tokens", view.chosen)})
    BY <1>4 DEF openAdminEditTokens, Free, TokenPage
  <2> QED
    BY <1>1, <1>2, <2>1, OpenListStep
<1>5. CASE openAdminEditGrants
  <2>1. page # "grants" /\ Key("grants", w, {Call("grants", view.chosen)})
    BY <1>5 DEF openAdminEditGrants, Free
  <2> HIDE DEF w
  <2> QED
    BY <1>1, <1>2, <1>3, <2>1, OpenListStep
<1>6. CASE openAdminRobotTokens
  <2>1. PICK b \in Robot : Key("tokens", Put(w, "chosen", b), {Call("tokens", b)})
    BY <1>6 DEF openAdminRobotTokens
  <2>2. page # "tokens"
    BY <1>6 DEF openAdminRobotTokens, Free
  <2> HIDE DEF w
  <2> DEFINE v == Put(w, "chosen", b)
  <2>3. /\ DOMAIN v = ViewFields /\ v.secret = w.secret /\ v.prompt = w.prompt /\ v.chosen = b
        /\ v.authorized = w.authorized /\ v.grantsIn = w.grantsIn /\ v.repo = w.repo
    BY <1>3, PutFields DEF ViewFields
  <2>4. Key("tokens", v, {Call("tokens", b)})
    BY <2>1
  <2> HIDE DEF v
  <2> QED
    BY <1>1, <1>2, <1>3, <2>2, <2>3, <2>4, OpenListStep
<1> QED
  BY <1>4, <1>5, <1>6

LEMMA GrantsKeysStep ==
    ASSUME PanelInv, updateAdminGrantsKey
    PROVE  PanelInv'
<1>1. page = "grants" /\ view.prompt = Unset
  BY DEF updateAdminGrantsKey, Free
<1> QED
  BY <1>1, PlainLeave, PlainStay, AskStep
     DEF updateAdminGrantsKey, Outside, TokenPage, SentOn, AskedOn

LEMMA TokensKeysStep ==
    ASSUME PanelInv, updateAdminTokensKey
    PROVE  PanelInv'
<1>1. page = "tokens" /\ view.prompt = Unset
  BY DEF updateAdminTokensKey, Free
<1> QED
  BY <1>1, PlainLeave, PlainStay, AskStep
     DEF updateAdminTokensKey, Outside, TokenPage, SentOn, AskedOn

LEMMA FormsStep ==
    ASSUME PanelInv,
           \/ updateResetPasswordFormKey \/ updateGrantFormKey \/ updateTokenFormKey
           \/ updateCreateUserFormKey
    PROVE  PanelInv'
<1>1. CASE updateResetPasswordFormKey
  <2>1. page = "changePassword" /\ view.prompt = Unset
    BY <1>1 DEF updateResetPasswordFormKey, Form, Free
  <2> QED
    BY <1>1, <2>1, PlainLeave, PlainStay DEF updateResetPasswordFormKey, Form, Outside, TokenPage, SentOn
<1>2. CASE updateGrantFormKey
  <2>1. page = "addGrant" /\ view.prompt = Unset
    BY <1>2 DEF updateGrantFormKey, Form, Free
  <2> QED
    BY <1>2, <2>1, PlainLeave, PlainStay DEF updateGrantFormKey, Form, Outside, TokenPage, SentOn
<1>3. CASE updateTokenFormKey
  <2>1. page = "createToken" /\ view.prompt = Unset
    BY <1>3 DEF updateTokenFormKey, Form, Free
  <2> QED
    BY <1>3, <2>1, PlainLeave, PlainStay DEF updateTokenFormKey, Form, Outside, TokenPage, SentOn
<1>4. CASE updateCreateUserFormKey
  <2>1. page = "createUser" /\ view.prompt = Unset
    BY <1>4 DEF updateCreateUserFormKey, Free
  <2> QED
    BY <1>4, <2>1, PlainLeave, PlainStay DEF updateCreateUserFormKey, Outside, TokenPage, SentOn
<1> QED
  BY <1>1, <1>2, <1>3, <1>4

LEMMA RobotsKeysStep ==
    ASSUME PanelInv, updateAdminRobotsKey \/ updateCreateRobotFormKey
    PROVE  PanelInv'
<1>1. CASE updateAdminRobotsKey
  <2>1. page = "robots" /\ view.prompt = Unset
    BY <1>1 DEF updateAdminRobotsKey, Free
  <2> QED
    BY <1>1, <2>1, PlainLeave, PlainStay, AskStep
       DEF updateAdminRobotsKey, Outside, TokenPage, SentOn, AskedOn
<1>2. CASE updateCreateRobotFormKey
  <2>1. page = "createRobot" /\ view.prompt = Unset
    BY <1>2 DEF updateCreateRobotFormKey, Free
  <2> QED
    BY <1>2, <2>1, PlainLeave, PlainStay DEF updateCreateRobotFormKey, Outside, TokenPage, SentOn
<1> QED
  BY <1>1, <1>2

LEMMA RepoGrantsKeysStep ==
    ASSUME PanelInv, updateRepoAdminGrantsKey \/ updateRepoAdminAddGrantKey
    PROVE  PanelInv'
<1>1. CASE updateRepoAdminGrantsKey
  <2>1. page = "repoGrants" /\ view.prompt = Unset
    BY <1>1 DEF updateRepoAdminGrantsKey, Free
  <2> QED
    BY <1>1, <2>1, PlainLeave, AskStep DEF updateRepoAdminGrantsKey, Outside, TokenPage, AskedOn
<1>2. CASE updateRepoAdminAddGrantKey
  <2>1. page = "repoAddGrant" /\ view.prompt = Unset
    BY <1>2 DEF updateRepoAdminAddGrantKey, Free
  <2> QED
    BY <1>2, <2>1, PlainLeave, PlainStay DEF updateRepoAdminAddGrantKey, Outside, TokenPage, SentOn
<1> QED
  BY <1>1, <1>2

(***************************************************************************)
(* The way in and out: every call under way is late, and no page of tokens *)
(* is reached.                                                             *)
(***************************************************************************)
LEMMA NewView ==
    /\ DOMAIN newAdminViewState = ViewFields /\ newAdminViewState.prompt = Unset
    /\ newAdminViewState.secret = Unset /\ newAdminViewState.authorized = FALSE
BY DEF newAdminViewState, ViewFields

LEMMA WayStep ==
    ASSUME PanelInv,
           \A c \in calls' : \/ c \in Belated(calls)
                             \/ /\ DOMAIN c = {"kind", "on", "late"} /\ c.late = FALSE
                                /\ SentOn(c.kind, page') /\ (c.kind = "login" => signIns' # 0),
           DOMAIN view' = ViewFields, view'.authorized => view'.grantsIn = view'.repo,
           view'.prompt # Unset => view'.prompt.act # "login",
           overtaken' \in BOOLEAN, overtaken => overtaken', signIns' \in Nat, signIns # 0 => signIns' # 0,
           page' = "authenticating" => \E c \in calls' : c.kind = "login", page' \notin TokenPage,
           ~overtaken' => /\ view'.prompt = Unset /\ view'.secret = Unset
                          /\ session' = 0 => view' = newAdminViewState /\ page' \in Outside
                          /\ intent' # Unset => page' \in {"login", "authenticating"} /\ intent' = wanted'
    PROVE  PanelInv'
<1>1. \A c \in calls : CallSound(c)
  BY DEF PanelInv, PanelBase
<1>2. \A c \in Belated(calls) : CallSound(c) /\ c.late
  BY <1>1, LateCalls
<1>3. \A c \in calls' : CallSound(c)'
  BY <1>2 DEF CallSound
<1>4. PanelBase'
  BY <1>3 DEF PanelBase, AuthorizedListMatches, AuthenticatingHasLogin, TokensTold
<1>5. ASSUME ~overtaken' PROVE Undisturbed'
  <2>1. \A c \in calls' : ~c.late => SentOn(c.kind, page')
    BY <1>2
  <2> QED
    BY <1>5, <2>1 DEF Undisturbed, PageOK
<1> QED
  BY <1>4, <1>5 DEF PanelInv

(* Outside the panel no prompt is open and no secret is shown.             *)
LEMMA OutsideFacts ==
    ASSUME PanelInv, ~overtaken, page \in Outside
    PROVE  /\ view.prompt = Unset /\ view.secret = Unset
           /\ page = "inspection" => intent = Unset
           /\ session = 0 => view = newAdminViewState
           /\ intent # Unset => intent = wanted
           /\ \A c \in calls : ~c.late => c.kind = "login"
<1>1. page \notin TokenPage \union {"createRobot"} /\ \A act : ~AskedOn(act, page)
  BY DEF Outside, TokenPage, AskedOn
<1>2. \A kind : SentOn(kind, page) => kind = "login"
  BY DEF Outside, SentOn
<1> QED
  BY <1>1, <1>2 DEF PanelInv, Undisturbed, PageOK

LEMMA OpenAdminStep ==
    ASSUME PanelInv, openAdmin
    PROVE  PanelInv'
<1>1. /\ DOMAIN view = ViewFields /\ (view.authorized => view.grantsIn = view.repo)
      /\ view.prompt # Unset => view.prompt.act # "login"
      /\ overtaken \in BOOLEAN /\ signIns \in Nat
  BY PanelFacts DEF PanelInv, PanelBase
<1>2. /\ page = "inspection" /\ page \in Outside /\ intent' = intent
      /\ UNCHANGED <<signIns, overtaken>>
  BY DEF openAdmin, Outside
<1>3. ~overtaken => /\ view.prompt = Unset /\ view.secret = Unset /\ intent = Unset
                    /\ session = 0 => view = newAdminViewState
  BY <1>2, OutsideFacts
<1>4. ASSUME page' \in {"menu", "login"},
             DOMAIN view' = ViewFields, view'.authorized => view'.grantsIn = view'.repo,
             view'.prompt # Unset => view'.prompt.act # "login",
             \A c \in calls' : \/ c \in Belated(calls)
                               \/ /\ DOMAIN c = {"kind", "on", "late"} /\ c.late = FALSE
                                  /\ SentOn(c.kind, page') /\ c.kind # "login",
             ~overtaken => /\ view'.prompt = Unset /\ view'.secret = Unset
                           /\ session' = 0 => view' = newAdminViewState /\ page' \in Outside
      PROVE  PanelInv'
  <2>1. page' \notin TokenPage /\ page' # "authenticating"
    BY <1>4 DEF TokenPage
  <2> QED
    BY <1>1, <1>2, <1>3, <1>4, <2>1, WayStep
<1>5. CASE session # 0 /\ page' = "menu" /\ session' = session /\ view.users
           /\ view' \in applyAdminUserFilter(view) /\ calls' = Belated(calls)
  <2>1. /\ DOMAIN view' = ViewFields /\ view'.prompt = view.prompt /\ view'.secret \in {Unset, view.secret}
        /\ view'.authorized = view.authorized /\ view'.grantsIn = view.grantsIn /\ view'.repo = view.repo
    BY <1>1, <1>5, ViewChanges
  <2> QED
    BY <1>1, <1>3, <1>4, <1>5, <2>1
<1>6. CASE session # 0 /\ page' = "menu" /\ session' = session /\ view' = view
           /\ calls' = Belated(calls) \union {Call("users", Unset)}
  <2> DEFINE c == Call("users", Unset)
  <2>1. DOMAIN c = {"kind", "on", "late"} /\ c.late = FALSE /\ c.kind = "users"
    <3>1. Fresh(c) /\ c.kind = "users"
      BY FreshFields
    <3> QED
      BY <3>1 DEF Fresh
  <2>2. SentOn("users", page')
    BY <1>6 DEF SentOn
  <2>5. calls' = Belated(calls) \union {c}
    BY <1>6
  <2> HIDE DEF c
  <2> QED
    BY <1>1, <1>3, <1>4, <1>6, <2>1, <2>2, <2>5
<1>7. CASE ExpireAdminState /\ calls' = Belated(calls)
  <2>1. page' = "login" /\ view' = newAdminViewState
    BY <1>7 DEF ExpireAdminState, LogoutAdminState
  <2> QED
    BY <1>4, <1>7, <2>1, NewView DEF Outside
<1>8. CASE session = 0 /\ page' = "login" /\ calls' = Belated(calls) /\ UNCHANGED <<session, view>>
  <2> QED
    BY <1>1, <1>3, <1>4, <1>8 DEF Outside
<1> QED
  BY <1>5, <1>6, <1>7, <1>8 DEF openAdmin

LEMMA OpenRepoAdminGrantsStep ==
    ASSUME PanelInv, NEW r \in Place, openRepoAdminGrants(r)
    PROVE  PanelInv'
<1>1. /\ DOMAIN view = ViewFields /\ (view.authorized => view.grantsIn = view.repo)
      /\ view.prompt # Unset => view.prompt.act # "login"
      /\ overtaken \in BOOLEAN /\ signIns \in Nat
  BY PanelFacts DEF PanelInv, PanelBase
<1>2. /\ page = "inspection" /\ page \in Outside /\ wanted' = r
      /\ UNCHANGED <<signIns, overtaken>>
  BY DEF openRepoAdminGrants, Outside
<1>3. ~overtaken => /\ view.prompt = Unset /\ view.secret = Unset
                    /\ session = 0 => view = newAdminViewState
  BY <1>2, OutsideFacts
<1>4. CASE session # 0 /\ page' = "repoGrants" /\ session' = session /\ intent' = Unset
           /\ view' = [view EXCEPT !.repo = r, !.authorized = FALSE]
           /\ calls' = Belated(calls) \union {Call("repoGrants", r)}
  <2> DEFINE c == Call("repoGrants", r)
  <2>5. calls' = Belated(calls) \union {c}
    BY <1>4
  <2>1. DOMAIN c = {"kind", "on", "late"} /\ c.late = FALSE /\ c.kind = "repoGrants"
    <3>1. Fresh(c) /\ c.kind = "repoGrants"
      BY FreshFields
    <3> QED
      BY <3>1 DEF Fresh
  <2>4. SentOn("repoGrants", page')
    BY <1>4 DEF SentOn
  <2> HIDE DEF c
  <2>2. /\ DOMAIN view' = ViewFields /\ view'.prompt = view.prompt /\ view'.secret = view.secret
        /\ view'.authorized = FALSE
    BY <1>1, <1>4 DEF ViewFields
  <2>3. page' \notin TokenPage /\ page' # "authenticating"
    BY <1>4 DEF TokenPage
  <2> QED
    BY <1>1, <1>2, <1>3, <1>4, <2>1, <2>2, <2>3, <2>4, <2>5, WayStep
<1>5. CASE page' = "login" /\ intent' = r /\ calls' = Belated(calls)
           /\ (view' = newAdminViewState \/ (session = 0 /\ view' = view))
  <2>1. page' \notin TokenPage /\ page' # "authenticating"
    BY <1>5 DEF TokenPage
  <2>2. /\ DOMAIN view' = ViewFields /\ (view'.authorized => view'.grantsIn = view'.repo)
        /\ view'.prompt # Unset => view'.prompt.act # "login"
        /\ ~overtaken => view'.prompt = Unset /\ view'.secret = Unset /\ view' = newAdminViewState
    BY <1>1, <1>3, <1>5, NewView
  <2> QED
    BY <1>1, <1>2, <1>5, <2>1, <2>2, WayStep DEF Outside
<1> QED
  BY <1>4, <1>5 DEF openRepoAdminGrants, ExpireAdminState, LogoutAdminState

LEMMA LoginKeyStep ==
    ASSUME PanelInv, updateAdminLoginKey
    PROVE  PanelInv'
<1> DEFINE c == Call("login", Unset)
<1>1. /\ DOMAIN view = ViewFields /\ (view.authorized => view.grantsIn = view.repo)
      /\ view.prompt # Unset => view.prompt.act # "login"
      /\ overtaken \in BOOLEAN /\ signIns \in Nat
  BY PanelFacts DEF PanelInv, PanelBase
<1>2. /\ page \in Outside /\ page' = "authenticating" /\ signIns' = signIns + 1
      /\ calls' = Belated(calls) \union {c} /\ UNCHANGED <<session, intent, view, wanted, overtaken>>
  BY DEF updateAdminLoginKey, Outside
<1>3. ~overtaken => /\ view.prompt = Unset /\ view.secret = Unset
                    /\ session = 0 => view = newAdminViewState
                    /\ intent # Unset => intent = wanted
  BY <1>2, OutsideFacts
<1>4. /\ DOMAIN c = {"kind", "on", "late"} /\ c.late = FALSE /\ c.kind = "login"
      /\ SentOn(c.kind, page')
  <2>1. Fresh(c) /\ c.kind = "login"
    BY FreshFields
  <2>2. DOMAIN c = {"kind", "on", "late"} /\ c.late = FALSE
    BY <2>1 DEF Fresh
  <2>3. SentOn(c.kind, page')
    BY <1>2, <2>1 DEF SentOn
  <2> QED
    BY <2>1, <2>2, <2>3
<1>5. signIns' \in Nat /\ signIns' # 0 /\ page' \notin TokenPage /\ page' \in Outside
  BY <1>1, <1>2 DEF TokenPage, Outside
<1> HIDE DEF c
<1> QED
  BY <1>1, <1>2, <1>3, <1>4, <1>5, WayStep

LEMMA LogoutStep ==
    ASSUME PanelInv, logoutAdmin
    PROVE  PanelInv'
<1>1. /\ page' = "login" /\ view' = newAdminViewState /\ calls' = Belated(calls)
      /\ intent' = Unset /\ UNCHANGED <<signIns, overtaken>>
      /\ overtaken \in BOOLEAN /\ signIns \in Nat
  BY DEF logoutAdmin, LogoutAdminState, PanelInv, PanelBase
<1>2. page' \notin TokenPage /\ page' \in Outside /\ page' # "authenticating"
  BY <1>1 DEF TokenPage, Outside
<1> QED
  BY <1>1, <1>2, NewView, WayStep

LEMMA ReturnStep ==
    ASSUME PanelInv, returnToInspection
    PROVE  PanelInv'
<1> DEFINE w == clearRevealedAdminToken(view)
<1>1. /\ DOMAIN view = ViewFields /\ (view.authorized => view.grantsIn = view.repo)
      /\ overtaken \in BOOLEAN /\ signIns \in Nat
  BY PanelFacts DEF PanelInv, PanelBase
<1>2. /\ page' = "inspection" /\ page # "inspection" /\ view' = [w EXCEPT !.prompt = Unset]
      /\ calls' = Belated(calls) /\ intent' = Unset /\ view.prompt = Unset
      /\ UNCHANGED <<session, signIns, overtaken>>
  BY DEF returnToInspection, Go
<1>3. /\ DOMAIN w = ViewFields /\ w.secret = Unset /\ \A f \in ViewFields \ {"secret"} : w[f] = view[f]
  BY <1>1, Revealed
<1> HIDE DEF w
<1>4. /\ DOMAIN view' = ViewFields /\ view'.prompt = Unset /\ view'.secret = Unset
      /\ view'.authorized = view.authorized /\ view'.grantsIn = view.grantsIn
      /\ view'.repo = view.repo
  BY <1>2, <1>3 DEF ViewFields
<1>5. ASSUME ~overtaken, session = 0 PROVE view' = newAdminViewState
  <2>1. view = newAdminViewState
    BY <1>5 DEF PanelInv, Undisturbed
  <2>2. w = view
    BY <1>1, <2>1, NewView DEF w, clearRevealedAdminToken, newAdminViewState
  <2> QED
    BY <1>2, <2>1, <2>2, NewView DEF newAdminViewState
<1>6. page' \notin TokenPage /\ page' \in Outside /\ page' # "authenticating"
  BY <1>2 DEF TokenPage, Outside
<1> QED
  BY <1>1, <1>2, <1>4, <1>5, <1>6, WayStep

LEMMA ConsoleAnswerStep ==
    ASSUME PanelInv, ConsoleAnswer
    PROVE  PanelInv'
<1>1. /\ DOMAIN view = ViewFields /\ (view.authorized => view.grantsIn = view.repo)
      /\ view.prompt # Unset => view.prompt.act # "login"
      /\ overtaken \in BOOLEAN /\ signIns \in Nat
  BY PanelFacts DEF PanelInv, PanelBase
<1>2. /\ page' = "inspection" /\ calls' = Belated(calls)
      /\ overtaken' = (overtaken \/ page # "inspection")
      /\ UNCHANGED <<session, intent, view, signIns, wanted>>
  BY DEF ConsoleAnswer
<1>3. page' \notin TokenPage /\ page' \in Outside /\ page' # "authenticating"
  BY <1>2 DEF TokenPage, Outside
<1>4. ~overtaken' => /\ view.prompt = Unset /\ view.secret = Unset /\ intent = Unset
                     /\ session = 0 => view = newAdminViewState
  BY <1>2, <1>3, OutsideFacts
<1> QED
  BY <1>1, <1>2, <1>3, <1>4, WayStep

(***************************************************************************)
(* The answers.  One that is not late finds the page it was asked on.      *)
(***************************************************************************)
LEMMA LateSubset ==
    ASSUME NEW cs, NEW ds \in SUBSET cs
    PROVE  Belated(ds) \subseteq Belated(cs)
BY DEF Belated

LEMMA SentFrom ==
    ASSUME PanelInv, ~overtaken, NEW c \in calls, ~c.late
    PROVE  /\ SentOn(c.kind, page) \/ AskedOn(c.kind, page)
           /\ page \in TokenPage => c.on = view.chosen
           /\ c.kind # "login" => page \notin Outside /\ session # 0 /\ intent = Unset
<1>1. PageOK(page, view, calls)
  BY DEF PanelInv, Undisturbed
<1>2. SentOn(c.kind, page) \/ AskedOn(c.kind, page)
  BY <1>1 DEF PageOK
<1>3. c.kind # "login" => page \notin Outside
  BY <1>2 DEF SentOn, AskedOn, Outside
<1> QED
  BY <1>1, <1>2, <1>3 DEF PageOK, PanelInv, Undisturbed, Outside

LEMMA AnswerFacts ==
    ASSUME PanelInv, NEW c \in calls, Answered(c)
    PROVE  /\ overtaken' = (overtaken \/ c.late) /\ overtaken' \in BOOLEAN
           /\ UNCHANGED <<signIns, wanted>> /\ signIns \in Nat
BY DEF Answered, PanelInv, PanelBase, CallSound

LEMMA ExpiredStep ==
    ASSUME PanelInv, NEW c \in calls, Expired(c) \/ LoginFailed(c)
    PROVE  PanelInv'
<1>1. /\ page' = "login" /\ view' = newAdminViewState /\ intent' = intent
      /\ calls' = Belated(calls \ {c}) /\ Answered(c)
  BY DEF Expired, LoginFailed, expireAdminSession, LogoutAdminState
<1>2. /\ overtaken' = (overtaken \/ c.late) /\ overtaken' \in BOOLEAN
      /\ UNCHANGED <<signIns, wanted>> /\ signIns \in Nat
  BY <1>1, AnswerFacts
<1>3. calls' \subseteq Belated(calls)
  BY <1>1, LateSubset
<1>4. page' \notin TokenPage /\ page' \in Outside /\ page' # "authenticating"
  BY <1>1 DEF TokenPage, Outside
<1>5. ~overtaken' /\ intent # Unset => intent = wanted
  BY <1>2 DEF PanelInv, Undisturbed
<1> QED
  BY <1>1, <1>2, <1>3, <1>4, <1>5, NewView, WayStep

LEMMA LoginCompletedPanelStep ==
    ASSUME PanelInv, NEW c \in calls, adminLoginCompleted(c)
    PROVE  PanelInv'
<1>1. /\ c.kind = "login" /\ session' = signIns /\ intent' = Unset /\ Answered(c)
  BY DEF adminLoginCompleted
<1>2. /\ overtaken' = (overtaken \/ c.late) /\ overtaken' \in BOOLEAN
      /\ UNCHANGED <<signIns, wanted>> /\ signIns \in Nat /\ signIns # 0
  BY <1>1, AnswerFacts DEF PanelInv, PanelBase, CallSound
<1>3. /\ DOMAIN view = ViewFields /\ (view.authorized => view.grantsIn = view.repo)
      /\ view.prompt # Unset => view.prompt.act # "login"
  BY PanelFacts
<1>4. ~overtaken' => view.prompt = Unset /\ view.secret = Unset
  <2>1. ~overtaken' => page = "authenticating"
    BY <1>1, <1>2, SentFrom DEF SentOn, AskedOn
  <2> QED
    BY <1>2, <2>1, OutsideFacts DEF Outside
<1>5. CASE intent # Unset
  <2> DEFINE n == Call("repoGrants", intent)
  <2>1. /\ page' = "repoGrants" /\ view' = [view EXCEPT !.repo = intent, !.authorized = FALSE]
        /\ calls' = Belated(calls \ {c}) \union {n}
    BY <1>5 DEF adminLoginCompleted
  <2>2. DOMAIN n = {"kind", "on", "late"} /\ n.late = FALSE /\ n.kind = "repoGrants"
    <3>1. Fresh(n) /\ n.kind = "repoGrants"
      BY FreshFields
    <3> QED
      BY <3>1 DEF Fresh
  <2>3. SentOn("repoGrants", page') /\ page' \notin TokenPage
    BY <2>1 DEF SentOn, TokenPage
  <2>4. /\ DOMAIN view' = ViewFields /\ view'.prompt = view.prompt /\ view'.secret = view.secret
        /\ view'.authorized = FALSE
    BY <1>3, <2>1 DEF ViewFields
  <2>5. Belated(calls \ {c}) \subseteq Belated(calls)
    BY LateSubset
  <2> HIDE DEF n
  <2> QED
    BY <1>1, <1>2, <1>3, <1>4, <2>1, <2>2, <2>3, <2>4, <2>5, WayStep
<1>6. CASE intent = Unset
  <2> DEFINE n == Call("users", Unset)
  <2>1. page' = "menu" /\ view' = view /\ calls' = Belated(calls \ {c}) \union {n}
    BY <1>6 DEF adminLoginCompleted
  <2>2. DOMAIN n = {"kind", "on", "late"} /\ n.late = FALSE /\ n.kind = "users"
    <3>1. Fresh(n) /\ n.kind = "users"
      BY FreshFields
    <3> QED
      BY <3>1 DEF Fresh
  <2>3. SentOn("users", page') /\ page' \notin TokenPage
    BY <2>1 DEF SentOn, TokenPage
  <2>5. Belated(calls \ {c}) \subseteq Belated(calls)
    BY LateSubset
  <2> HIDE DEF n
  <2> QED
    BY <1>1, <1>2, <1>3, <1>4, <2>1, <2>2, <2>3, <2>5, WayStep
<1> QED
  BY <1>5, <1>6

(* An answer that leaves the page where it is.                             *)
LEMMA ShowsStep ==
    ASSUME PanelInv, NEW c \in calls, c.kind # "login", NEW v, view' = v, calls' = calls \ {c},
           Answered(c), UNCHANGED <<page, session, intent>>,
           DOMAIN v = ViewFields, v.authorized => v.grantsIn = v.repo, v.prompt = view.prompt,
           ~overtaken /\ ~c.late => /\ v.secret \in {Unset, view.secret}
                                    /\ page \in TokenPage => v.chosen = view.chosen,
           \/ v.astray \/ v.tokensOf \in {Unset, v.chosen}
           \/ /\ v.chosen = view.chosen /\ v.tokensOf = view.tokensOf /\ (view.astray => v.astray)
              /\ c.kind # "tokens" \/ c.on # view.chosen
    PROVE  PanelInv'
<1>1. /\ overtaken' = (overtaken \/ c.late) /\ overtaken' \in BOOLEAN
      /\ UNCHANGED <<signIns, wanted>> /\ signIns \in Nat
  BY AnswerFacts
<1>2. \A k \in calls' : CallSound(k)'
  BY <1>1 DEF PanelInv, PanelBase, CallSound
<1>5. TokensTold(page, v, calls')
  BY DEF PanelInv, PanelBase, TokensTold, Waiting
<1>3. PanelBase'
  BY <1>1, <1>2, <1>5 DEF PanelInv, PanelBase, AuthorizedListMatches, AuthenticatingHasLogin
<1>4. ASSUME ~overtaken' PROVE Undisturbed'
  <2>1. PageOK(page, view, calls) /\ ~overtaken /\ ~c.late
    BY <1>1, <1>4 DEF PanelInv, Undisturbed
  <2>2. session # 0 /\ intent = Unset
    BY <2>1, SentFrom
  <2>3. PageOK(page, v, calls')
    BY <2>1 DEF PageOK
  <2> QED
    BY <2>2, <2>3 DEF Undisturbed
<1> QED
  BY <1>3, <1>4 DEF PanelInv

(* The accounts are loaded: the chosen one stays, or its details go.       *)
LEMMA UsersApplied ==
    ASSUME NEW v, DOMAIN v = ViewFields, NEW w \in applyLoadedUsers(v)
    PROVE  \/ w.tokensOf = Unset
           \/ w.chosen = v.chosen /\ w.tokensOf = v.tokensOf /\ w.astray = v.astray
<1> DEFINE z == [v EXCEPT !.users = TRUE]
<1>1. DOMAIN z = ViewFields /\ z.tokensOf = v.tokensOf /\ z.astray = v.astray
  BY DEF ViewFields
<1>2. PICK x \in syncAdminUserSelection(z) :
        w = IF x.chosen # v.chosen THEN clearSelectedAdminDetails(x) ELSE x
  BY DEF applyLoadedUsers
<1> HIDE DEF z
<1>3. PICK u : x = [z EXCEPT !.chosen = u, !.cursor = u]
  BY DEF syncAdminUserSelection
<1>4. DOMAIN x = ViewFields /\ x.tokensOf = z.tokensOf /\ x.astray = z.astray
  BY <1>1, <1>3 DEF ViewFields
<1>5. clearSelectedAdminDetails(x).tokensOf = Unset
  BY <1>4 DEF clearSelectedAdminDetails, ViewFields
<1> QED
  BY <1>1, <1>2, <1>4, <1>5

LEMMA ShowsAnswers ==
    ASSUME PanelInv, NEW c \in calls,
           \/ CallFailed(c) \/ adminUsersLoaded(c) \/ adminUserGrantsLoaded(c)
           \/ adminUserTokensLoaded(c) \/ adminRepoGrantsLoaded(c) \/ adminRobotsLoaded(c)
    PROVE  PanelInv'
<1>1. /\ c.kind # "login" /\ calls' = calls \ {c} /\ Answered(c) /\ UNCHANGED <<page, session, intent>>
  BY DEF CallFailed, adminUsersLoaded, adminUserGrantsLoaded, adminUserTokensLoaded,
         adminRepoGrantsLoaded, adminRobotsLoaded, Shows
<1>2. /\ DOMAIN view = ViewFields /\ (view.authorized => view.grantsIn = view.repo)
  BY PanelFacts
<1>3. ~overtaken /\ ~c.late => SentOn(c.kind, page) \/ AskedOn(c.kind, page)
  BY SentFrom
<1>4. CASE CallFailed(c) /\ c.kind = "tokens" /\ c.on = view.chosen
  <2>1. view' = Put(view, "astray", TRUE)
    BY <1>4 DEF CallFailed
  <2>2. /\ DOMAIN view' = ViewFields /\ view'.astray = TRUE
        /\ \A f \in ViewFields \ {"astray"} : view'[f] = view[f]
    BY <1>2, <2>1 DEF Put, ViewFields
  <2> DEFINE v == view'
  <2>3. /\ v.authorized = view.authorized /\ v.grantsIn = view.grantsIn /\ v.repo = view.repo
        /\ v.prompt = view.prompt /\ v.secret = view.secret /\ v.chosen = view.chosen
    BY <2>2 DEF ViewFields
  <2> QED
    BY <1>1, <1>2, <2>2, <2>3, ShowsStep
<1>5. CASE CallFailed(c) /\ c.kind = "repoGrants"
  <2>1. view' = Put(view, "authorized", FALSE)
    BY <1>5 DEF CallFailed
  <2>2. /\ DOMAIN view' = ViewFields /\ view'.authorized = FALSE
        /\ \A f \in ViewFields \ {"authorized"} : view'[f] = view[f]
    BY <1>2, <2>1 DEF Put, ViewFields
  <2>3. /\ view'.prompt = view.prompt /\ view'.secret = view.secret /\ view'.chosen = view.chosen
        /\ view'.tokensOf = view.tokensOf /\ view'.astray = view.astray
    BY <2>2 DEF ViewFields
  <2> QED
    BY <1>1, <1>2, <1>5, <2>2, <2>3, ShowsStep
<1>6. CASE CallFailed(c) /\ c.kind # "repoGrants" /\ ~(c.kind = "tokens" /\ c.on = view.chosen)
  <2>1. view' = view
    BY <1>6 DEF CallFailed
  <2> QED
    BY <1>1, <1>2, <1>6, <2>1, ShowsStep
<1>7. CASE adminUsersLoaded(c)
  <2>1. view' \in applyLoadedUsers(view) /\ c.kind = "users"
    BY <1>7 DEF adminUsersLoaded, Shows
  <2>2. /\ DOMAIN view' = ViewFields /\ view'.prompt = view.prompt /\ view'.secret \in {Unset, view.secret}
        /\ view'.authorized = view.authorized /\ view'.grantsIn = view.grantsIn /\ view'.repo = view.repo
    BY <1>2, <2>1, ViewChanges
  <2>3. ~overtaken /\ ~c.late => page \notin TokenPage
    BY <1>3, <2>1 DEF SentOn, AskedOn, TokenPage
  <2>4. \/ view'.tokensOf = Unset
        \/ /\ view'.chosen = view.chosen /\ view'.tokensOf = view.tokensOf
           /\ view'.astray = view.astray
    BY <1>2, <2>1, UsersApplied
  <2> QED
    BY <1>1, <1>2, <2>1, <2>2, <2>3, <2>4, ShowsStep
<1>8. CASE adminUserGrantsLoaded(c)
  <2>1. /\ view' = [view EXCEPT !.chosen = c.on, !.grantsOf = c.on, !.astray = Strayed(c)]
        /\ c.kind = "grants"
    BY <1>8 DEF adminUserGrantsLoaded, Shows
  <2>2. /\ DOMAIN view' = ViewFields /\ view'.prompt = view.prompt /\ view'.secret = view.secret
        /\ view'.authorized = view.authorized /\ view'.grantsIn = view.grantsIn /\ view'.repo = view.repo
        /\ view'.chosen = c.on /\ view'.tokensOf = view.tokensOf /\ view'.astray = Strayed(c)
    BY <1>2, <2>1 DEF ViewFields
  <2>3. ~overtaken /\ ~c.late => page \notin TokenPage
    BY <1>3, <2>1 DEF SentOn, AskedOn, TokenPage
  <2>4. view'.astray \/ (c.on = view.chosen /\ ~view.astray)
    BY <2>2 DEF Strayed
  <2> QED
    BY <1>1, <1>2, <2>1, <2>2, <2>3, <2>4, ShowsStep
<1>9. CASE adminUserTokensLoaded(c)
  <2>1. view' = [view EXCEPT !.chosen = c.on, !.tokensOf = c.on, !.astray = FALSE]
    BY <1>9 DEF adminUserTokensLoaded, Shows
  <2>2. /\ DOMAIN view' = ViewFields /\ view'.prompt = view.prompt /\ view'.secret = view.secret
        /\ view'.authorized = view.authorized /\ view'.grantsIn = view.grantsIn /\ view'.repo = view.repo
        /\ view'.chosen = c.on /\ view'.tokensOf = c.on
    BY <1>2, <2>1 DEF ViewFields
  <2>3. ~overtaken /\ ~c.late /\ page \in TokenPage => c.on = view.chosen
    BY SentFrom
  <2> QED
    BY <1>1, <1>2, <2>2, <2>3, ShowsStep
<1>10. CASE adminRepoGrantsLoaded(c)
  <2>1. view' = [view EXCEPT !.repo = c.on, !.grantsIn = c.on, !.authorized = TRUE]
        /\ c.kind = "repoGrants"
    BY <1>10 DEF adminRepoGrantsLoaded, Shows
  <2>2. /\ DOMAIN view' = ViewFields /\ view'.prompt = view.prompt /\ view'.secret = view.secret
        /\ view'.grantsIn = c.on /\ view'.repo = c.on /\ view'.chosen = view.chosen
        /\ view'.tokensOf = view.tokensOf /\ view'.astray = view.astray
    BY <1>2, <2>1 DEF ViewFields
  <2>3. ~overtaken /\ ~c.late => page \notin TokenPage
    BY <1>3, <2>1 DEF SentOn, AskedOn, TokenPage
  <2> QED
    BY <1>1, <1>2, <2>1, <2>2, <2>3, ShowsStep
<1>11. CASE adminRobotsLoaded(c)
  <2>1. view' = Put(view, "robots", TRUE) /\ c.kind = "robots"
    BY <1>11 DEF adminRobotsLoaded, Shows
  <2>2. /\ DOMAIN view' = ViewFields /\ \A f \in ViewFields \ {"robots"} : view'[f] = view[f]
    BY <1>2, <2>1 DEF Put, ViewFields
  <2>3. /\ view'.prompt = view.prompt /\ view'.secret = view.secret
        /\ view'.authorized = view.authorized /\ view'.grantsIn = view.grantsIn /\ view'.repo = view.repo
        /\ view'.chosen = view.chosen /\ view'.tokensOf = view.tokensOf /\ view'.astray = view.astray
    BY <2>2 DEF ViewFields
  <2>4. ~overtaken /\ ~c.late => page \notin TokenPage
    BY <1>3, <2>1 DEF SentOn, AskedOn, TokenPage
  <2> QED
    BY <1>1, <1>2, <2>1, <2>2, <2>3, <2>4, ShowsStep
<1> QED
  BY <1>4, <1>5, <1>6, <1>7, <1>8, <1>9, <1>10, <1>11

(* An answer that moves to the page of its kind.                           *)
LEMMA MovesStep ==
    ASSUME PanelInv, NEW c \in calls, c.kind # "login", NEW p, NEW v, NEW cs, Moves(c, p, v, cs),
           p \notin Outside,
           DOMAIN v = ViewFields, v.authorized => v.grantsIn = v.repo,
           v.prompt \in {Unset, view.prompt}, \A n \in cs : NewCall(n),
           ~overtaken /\ ~c.late =>
             /\ v.prompt = Unset
             /\ \A n \in cs : SentOn(n.kind, p) /\ (p \in TokenPage => n.on = v.chosen)
             /\ v.secret # Unset => p = "createRobot" \/ (p \in TokenPage /\ v.secret = v.chosen)
             /\ p = page /\ p \in TokenPage => v.chosen = view.chosen,
           p \in TokenPage => v.astray \/ Waiting(v, cs)
    PROVE  PanelInv'
<1>0. /\ page' = p /\ view' = v /\ calls' = Rest(c, p) \union cs /\ Answered(c)
      /\ UNCHANGED <<session, intent>>
  BY DEF Moves
<1>1. /\ overtaken' = (overtaken \/ c.late) /\ overtaken' \in BOOLEAN
      /\ UNCHANGED <<signIns, wanted>> /\ signIns \in Nat
  BY <1>0, AnswerFacts
<1>2. \A k \in calls : CallSound(k)
  BY DEF PanelInv, PanelBase
<1>3. \A k \in Rest(c, p) : CallSound(k) /\ (p # page => k.late) /\ (p = page => k \in calls)
  <2>1. \A k \in calls \ {c} : CallSound(k)
    BY <1>2
  <2>2. \A k \in Belated(calls \ {c}) : CallSound(k) /\ k.late
    BY <2>1, LateCalls
  <2> QED
    BY <2>1, <2>2 DEF Rest
<1>4. \A k \in cs : CallSound(k)
  BY DEF NewCall, CallSound
<1>5. \A k \in calls' : CallSound(k)'
  BY <1>0, <1>1, <1>3, <1>4 DEF CallSound
<1>6. v.prompt # Unset => v.prompt.act # "login"
  BY PanelFacts
<1>9. TokensTold(p, v, calls')
  BY <1>0 DEF TokensTold, Waiting
<1>7. PanelBase'
  BY <1>0, <1>1, <1>5, <1>6, <1>9
     DEF PanelInv, PanelBase, AuthorizedListMatches, AuthenticatingHasLogin, Outside
<1>8. ASSUME ~overtaken' PROVE Undisturbed'
  <2>1. PageOK(page, view, calls) /\ ~overtaken /\ ~c.late
    BY <1>1, <1>8 DEF PanelInv, Undisturbed
  <2>2. session # 0 /\ intent = Unset
    BY <2>1, SentFrom
  <2>3. \A k \in calls' : ~k.late => /\ SentOn(k.kind, p) \/ AskedOn(k.kind, p)
                                     /\ p \in TokenPage => k.on = v.chosen
    BY <1>0, <1>3, <2>1 DEF PageOK
  <2>5. PageOK(p, v, calls')
    BY <2>1, <2>3 DEF PageOK
  <2> QED
    BY <1>0, <2>2, <2>5 DEF Undisturbed
<1> QED
  BY <1>7, <1>8 DEF PanelInv

LEMMA ChosenFields ==
    ASSUME PanelInv, NEW c
    PROVE  LET v == Chosen(c)
               w == Closed(v)
           IN  /\ DOMAIN v = ViewFields /\ v.chosen = c.on
               /\ \A f \in ViewFields \ {"chosen"} : v[f] = view[f]
               /\ DOMAIN w = ViewFields /\ w.chosen = c.on /\ w.prompt = Unset
               /\ \A f \in ViewFields \ {"chosen", "prompt"} : w[f] = view[f]
<1>1. DOMAIN view = ViewFields
  BY PanelFacts
<1> QED
  BY <1>1 DEF Chosen, Closed, Put, ViewFields

LEMMA ClosedFields ==
    ASSUME NEW v, DOMAIN v = ViewFields
    PROVE  LET w == Closed(v)
           IN  /\ DOMAIN w = ViewFields /\ w.prompt = Unset
               /\ \A f \in ViewFields \ {"prompt"} : w[f] = v[f]
BY DEF Closed, Put, ViewFields

(* ... to a page that shows no tokens and no secret.                       *)
LEMMA PlainMove ==
    ASSUME PanelInv, NEW c \in calls, c.kind # "login", NEW p, NEW v, NEW cs, Moves(c, p, v, cs),
           p \notin Outside \union TokenPage,
           DOMAIN v = ViewFields, v.prompt \in {Unset, view.prompt}, v.secret = view.secret,
           v.authorized = view.authorized, v.grantsIn = view.grantsIn, v.repo = view.repo,
           \A n \in cs : NewCall(n) /\ SentOn(n.kind, p),
           SentOn(c.kind, page) \/ AskedOn(c.kind, page)
             => /\ page \notin TokenPage \union {"createRobot"}
                /\ v.prompt = Unset \/ \A act : ~AskedOn(act, page)
    PROVE  PanelInv'
<1>1. v.authorized => v.grantsIn = v.repo
  BY PanelFacts
<1>2. ASSUME ~overtaken, ~c.late PROVE v.prompt = Unset /\ v.secret = Unset
  <2>1. SentOn(c.kind, page) \/ AskedOn(c.kind, page)
    BY <1>2, SentFrom
  <2>2. v.secret = Unset
    BY <1>2, <2>1, PanelFacts
  <2>3. v.prompt = Unset
    BY <1>2, <2>1, PanelFacts
  <2> QED
    BY <2>2, <2>3
<1> QED
  BY <1>1, <1>2, MovesStep

LEMMA MovingAnswers ==
    ASSUME PanelInv, NEW c \in calls,
           \/ adminUserCreated(c) \/ adminPasswordReset(c) \/ adminUserEnabled(c)
           \/ adminGrantMutated(c) \/ adminRepoGrantMutated(c)
           \/ adminRobotEnabled(c) \/ adminRobotDeleted(c)
    PROVE  PanelInv'
<1> DEFINE v == Chosen(c)
           w == Closed(v)
           x == Closed(view)
           users == Call("users", Unset)
           robots == Call("robots", Unset)
<1>1. /\ DOMAIN v = ViewFields /\ v.prompt = view.prompt /\ v.secret = view.secret
      /\ v.authorized = view.authorized /\ v.grantsIn = view.grantsIn /\ v.repo = view.repo
  BY ChosenFields DEF ViewFields
<1>2. /\ DOMAIN w = ViewFields /\ w.prompt = Unset /\ w.secret = view.secret
      /\ w.authorized = view.authorized /\ w.grantsIn = view.grantsIn /\ w.repo = view.repo
  BY ChosenFields DEF ViewFields
<1>3. /\ DOMAIN x = ViewFields /\ x.prompt = Unset /\ x.secret = view.secret
      /\ x.authorized = view.authorized /\ x.grantsIn = view.grantsIn /\ x.repo = view.repo
  BY PanelFacts, ClosedFields DEF ViewFields
<1>4. NewCall(users) /\ users.kind = "users" /\ NewCall(robots) /\ robots.kind = "robots"
  BY CallFields
<1>5. CASE adminUserCreated(c)
  <2>1. c.kind = "createUser" /\ Moves(c, "users", v, {users})
    BY <1>5 DEF adminUserCreated
  <2> HIDE DEF v, users
  <2>2. SentOn(c.kind, page) \/ AskedOn(c.kind, page)
             => page \notin TokenPage \union {"createRobot"} /\ \A act : ~AskedOn(act, page)
    BY <2>1 DEF SentOn, AskedOn, TokenPage
  <2>3. SentOn("users", "users") /\ "users" \notin Outside \union TokenPage
    BY DEF SentOn, Outside, TokenPage
  <2> QED
    BY <1>1, <1>4, <2>1, <2>2, <2>3, PlainMove
<1>6. CASE adminPasswordReset(c)
  <2>1. c.kind = "resetPassword" /\ Moves(c, "editUser", v, {})
    BY <1>6 DEF adminPasswordReset
  <2> HIDE DEF v
  <2>2. SentOn(c.kind, page) \/ AskedOn(c.kind, page)
             => page \notin TokenPage \union {"createRobot"} /\ \A act : ~AskedOn(act, page)
    BY <2>1 DEF SentOn, AskedOn, TokenPage
  <2>3. "editUser" \notin Outside \union TokenPage
    BY DEF Outside, TokenPage
  <2> QED
    BY <1>1, <2>1, <2>2, <2>3, PlainMove
<1>7. CASE adminUserEnabled(c)
  <2>1. c.kind = "enableUser" /\ Moves(c, "editUser", w, {users})
    BY <1>7 DEF adminUserEnabled
  <2> HIDE DEF w, users
  <2>2. SentOn(c.kind, page) \/ AskedOn(c.kind, page) => page \notin TokenPage \union {"createRobot"}
    BY <2>1 DEF SentOn, AskedOn, TokenPage
  <2>3. SentOn("users", "editUser") /\ "editUser" \notin Outside \union TokenPage
    BY DEF SentOn, Outside, TokenPage
  <2> QED
    BY <1>2, <1>4, <2>1, <2>2, <2>3, PlainMove
<1>8. CASE adminGrantMutated(c)
  <2> DEFINE n == Call("grants", c.on)
  <2>1. c.kind \in {"putGrant", "deleteGrant"} /\ Moves(c, "grants", w, {n})
    BY <1>8 DEF adminGrantMutated
  <2>4. NewCall(n) /\ n.kind = "grants"
    BY CallFields
  <2> HIDE DEF w, n
  <2>2. SentOn(c.kind, page) \/ AskedOn(c.kind, page) => page \notin TokenPage \union {"createRobot"}
    BY <2>1 DEF SentOn, AskedOn, TokenPage
  <2>3. SentOn("grants", "grants") /\ "grants" \notin Outside \union TokenPage
    BY DEF SentOn, Outside, TokenPage
  <2>5. c.kind # "login"
    BY <2>1
  <2> QED
    BY <1>2, <2>1, <2>2, <2>3, <2>4, <2>5, PlainMove
<1>9. CASE adminRepoGrantMutated(c)
  <2> DEFINE n == Call("repoGrants", c.on)
  <2>1. c.kind = "repoGrant" /\ Moves(c, "repoGrants", x, {n})
    BY <1>9 DEF adminRepoGrantMutated
  <2>4. NewCall(n) /\ n.kind = "repoGrants"
    BY CallFields
  <2> HIDE DEF x, n
  <2>2. SentOn(c.kind, page) \/ AskedOn(c.kind, page) => page \notin TokenPage \union {"createRobot"}
    BY <2>1 DEF SentOn, AskedOn, TokenPage
  <2>3. SentOn("repoGrants", "repoGrants") /\ "repoGrants" \notin Outside \union TokenPage
    BY DEF SentOn, Outside, TokenPage
  <2> QED
    BY <1>3, <2>1, <2>2, <2>3, <2>4, PlainMove
<1>10. CASE adminRobotEnabled(c) \/ adminRobotDeleted(c)
  <2>1. c.kind \in {"enableRobot", "deleteRobot"} /\ Moves(c, "robots", x, {robots})
    BY <1>10 DEF adminRobotEnabled, adminRobotDeleted
  <2> HIDE DEF x, robots
  <2>2. SentOn(c.kind, page) \/ AskedOn(c.kind, page) => page \notin TokenPage \union {"createRobot"}
    BY <2>1 DEF SentOn, AskedOn, TokenPage
  <2>3. SentOn("robots", "robots") /\ "robots" \notin Outside \union TokenPage
    BY DEF SentOn, Outside, TokenPage
  <2>5. c.kind # "login"
    BY <2>1
  <2> QED
    BY <1>3, <1>4, <2>1, <2>2, <2>3, <2>5, PlainMove
<1> QED
  BY <1>5, <1>6, <1>7, <1>8, <1>9, <1>10

(* The answers that show or forget a secret.                               *)
LEMMA TokenCreatedStep ==
    ASSUME PanelInv, NEW c \in calls, adminTokenCreated(c)
    PROVE  PanelInv'
<1> DEFINE v == Put(Chosen(c), "secret", c.on)
           n == Call("tokens", c.on)
<1>1. c.kind = "createToken" /\ Moves(c, "tokens", v, {n})
  BY DEF adminTokenCreated
<1>2. /\ DOMAIN v = ViewFields /\ v.prompt = view.prompt /\ v.secret = c.on /\ v.chosen = c.on
      /\ v.authorized = view.authorized /\ v.grantsIn = view.grantsIn /\ v.repo = view.repo
  BY PanelFacts DEF Chosen, Put, ViewFields
<1>3. NewCall(n) /\ n.kind = "tokens" /\ n.on = c.on
  BY FreshCall
<1> HIDE DEF v, n
<1>4. Waiting(v, {n})
  BY <1>2, <1>3 DEF Waiting
<1>5. ASSUME ~overtaken, ~c.late PROVE view.prompt = Unset /\ page # "tokens"
  <2>1. page = "createToken"
    BY <1>1, <1>5, SentFrom DEF SentOn, AskedOn
  <2> QED
    BY <1>5, <2>1, PanelFacts DEF AskedOn
<1>6. SentOn("tokens", "tokens") /\ "tokens" \notin Outside /\ "tokens" \in TokenPage
  BY DEF SentOn, Outside, TokenPage
<1>7. v.authorized => v.grantsIn = v.repo
  BY <1>2, PanelFacts
<1> QED
  BY <1>1, <1>2, <1>3, <1>4, <1>5, <1>6, <1>7, MovesStep

LEMMA TokenRevokedStep ==
    ASSUME PanelInv, NEW c \in calls, adminTokenRevoked(c)
    PROVE  PanelInv'
<1> DEFINE v == Closed([view EXCEPT !.secret = Unset, !.astray = Strayed(c)])
           n == Call("tokens", c.on)
<1>1. c.kind = "revokeToken" /\ Moves(c, "tokens", v, {n})
  BY DEF adminTokenRevoked
<1>2. /\ DOMAIN v = ViewFields /\ v.prompt = Unset /\ v.secret = Unset /\ v.chosen = view.chosen
      /\ v.astray = Strayed(c) /\ v.authorized = view.authorized /\ v.grantsIn = view.grantsIn /\ v.repo = view.repo
  BY PanelFacts DEF Closed, Put, ViewFields
<1>3. NewCall(n) /\ n.kind = "tokens" /\ n.on = c.on
  BY FreshCall
<1> HIDE DEF v, n
<1>4. ASSUME ~overtaken, ~c.late PROVE c.on = view.chosen
  <2>1. page = "tokens"
    BY <1>1, <1>4, SentFrom DEF SentOn, AskedOn
  <2> QED
    BY <1>4, <2>1, SentFrom DEF TokenPage
<1>5. v.astray \/ Waiting(v, {n})
  BY <1>2, <1>3 DEF Waiting, Strayed
<1>6. SentOn("tokens", "tokens") /\ "tokens" \notin Outside /\ "tokens" \in TokenPage
  BY DEF SentOn, Outside, TokenPage
<1>7. v.authorized => v.grantsIn = v.repo
  BY <1>2, PanelFacts
<1> QED
  BY <1>1, <1>2, <1>3, <1>4, <1>5, <1>6, <1>7, MovesStep

LEMMA RobotCreatedStep ==
    ASSUME PanelInv, NEW c \in calls, adminRobotCreated(c)
    PROVE  PanelInv'
<1> DEFINE v == Put(view, "secret", c.on)
           n == Call("robots", Unset)
<1>1. c.kind = "createRobot" /\ Moves(c, "createRobot", v, {n})
  BY DEF adminRobotCreated
<1>2. /\ DOMAIN v = ViewFields /\ v.prompt = view.prompt
      /\ v.authorized = view.authorized /\ v.grantsIn = view.grantsIn /\ v.repo = view.repo
  BY PanelFacts DEF Put, ViewFields
<1>3. NewCall(n) /\ n.kind = "robots"
  BY DEF Call, NewCall
<1> HIDE DEF v, n
<1>4. ASSUME ~overtaken, ~c.late PROVE view.prompt = Unset
  <2>1. page = "createRobot"
    BY <1>1, <1>4, SentFrom DEF SentOn, AskedOn
  <2> QED
    BY <1>4, <2>1, PanelFacts DEF AskedOn
<1>5. SentOn("robots", "createRobot") /\ "createRobot" \notin Outside \union TokenPage
  BY DEF SentOn, Outside, TokenPage
<1>6. v.authorized => v.grantsIn = v.repo
  BY <1>2, PanelFacts
<1> QED
  BY <1>1, <1>2, <1>3, <1>4, <1>5, <1>6, MovesStep

LEMMA PanelInvInit ==
    PanelInit => PanelInv
<1> SUFFICES ASSUME PanelInit PROVE PanelInv
  OBVIOUS
<1>1. /\ page = "inspection" /\ view = newAdminViewState /\ calls = {} /\ signIns = 0
      /\ overtaken = FALSE /\ intent = Unset
  BY DEF PanelInit
<1>2. PanelBase
  BY <1>1, NewView DEF PanelBase, AuthorizedListMatches, AuthenticatingHasLogin, TokensTold, TokenPage
<1>3. PageOK(page, view, calls) /\ page \in Outside
  BY <1>1, NewView DEF PageOK, Outside
<1> QED
  BY <1>1, <1>2, <1>3 DEF PanelInv, Undisturbed

LEMMA PanelInvStep ==
    PanelInv /\ [PanelNext]_panelVars => PanelInv'
<1> SUFFICES ASSUME PanelInv, [PanelNext]_panelVars PROVE PanelInv'
  OBVIOUS
<1>1. CASE PanelKeys
  BY <1>1, OpenAdminStep, OpenRepoAdminGrantsStep, LoginKeyStep, LogoutStep, ReturnStep,
     ConfirmKeyStep, MenuAndUsersStep, EditUserStep, OpenListsStep, GrantsKeysStep, TokensKeysStep,
     FormsStep, RobotsKeysStep, RepoGrantsKeysStep DEF PanelKeys
<1>2. CASE Answer
  BY <1>2, ExpiredStep, LoginCompletedPanelStep, ShowsAnswers, MovingAnswers, TokenCreatedStep,
     TokenRevokedStep, RobotCreatedStep DEF Answer
<1>3. CASE UNCHANGED panelVars
  BY <1>3 DEF panelVars, PanelInv, PanelBase, Undisturbed, PageOK, Waiting, CallSound, TokensTold,
              AuthorizedListMatches, AuthenticatingHasLogin
<1> QED
  BY <1>1, <1>2, <1>3, ConsoleAnswerStep DEF PanelNext

LEMMA PanelAlways ==
    PanelSpec => []PanelInv
BY PanelInvInit, PanelInvStep, PTL DEF PanelSpec

LEMMA PanelShown ==
    ASSUME PanelInv
    PROVE  NothingCarriedOver /\ AuthenticatingHasLogin /\ TokensOfSelected /\ AuthorizedListMatches
<1>1. AuthenticatingHasLogin /\ AuthorizedListMatches
  BY DEF PanelInv, PanelBase
<1>2. NothingCarriedOver
  BY DEF PanelInv, Undisturbed, PageOK, NothingCarriedOver, SecretUnderItsOwner, LogoutForgets,
         IntentTakenOnce, Outside, TokenPage
<1>3. TokensOfSelected
  BY DEF PanelInv, PanelBase, TokensTold, TokensOfSelected, TokenPage, Waiting
<1> QED
  BY <1>1, <1>2, <1>3

(* No secret is shown under another account, no session leaves anything in *)
(* m.adminView and no errand outlives its sign-in, unless an answer came   *)
(* after the operator had moved on (clearRevealedAdminToken,               *)
(* LogoutAdminState, adminIntent in session.go and model.go).  The pages   *)
(* in m.adminScreens are not in that view, and outlive the session.        *)
THEOREM PanelCarriesNothingOver ==
    PanelSpec => []NothingCarriedOver
<1>1. PanelInv => NothingCarriedOver
  BY PanelShown
<1> QED
  BY <1>1, PanelAlways, PTL

-----------------------------------------------------------------------------
(***************************************************************************)
(* ScanHistory.  Every run the overlay or a call speaks of is one the      *)
(* server has, and two of them with one id are one run.                    *)
(***************************************************************************)
FetchFields == {"n", "kind", "about", "runs"}
ModalFields == {"repo", "runs", "cursor", "detail", "secrets", "loading"}

IsSeq(s) == \E S : s \in Seq(S)
RunsSound ==
    /\ DOMAIN scans = Watched
    /\ \A r \in Watched :
          /\ IsSeq(scans[r])
          /\ \A i \in 1..Len(scans[r]) : scans[r][i].id = <<r, Len(scans[r]) - i + 1>>
Recorded(run) == \E r \in Watched : \E i \in 1..Len(scans[r]) : run = scans[r][i]
AllRecorded(runs) == IsSeq(runs) /\ \A i \in 1..Len(runs) : Recorded(runs[i])

FetchSound(c) ==
    /\ DOMAIN c = FetchFields
    /\ c.kind \in {"open", "history"} => c.about \in Watched
    /\ c.kind \in {"detail", "secrets"} => Recorded(c.about)
    /\ c.kind = "history" /\ c.runs # Blank => AllRecorded(c.runs)

ModalSound ==
    modal # Blank =>
        /\ DOMAIN modal = ModalFields /\ AllRecorded(modal.runs)
        /\ modal.runs # <<>> => modal.cursor \in 1..Len(modal.runs)

HistoryInv ==
    /\ RunsSound /\ ModalSound /\ \A c \in fetches : FetchSound(c)
    /\ ShownIsOfCursor /\ LoadingIsUnderWay

LEMMA OneRunPerId ==
    ASSUME RunsSound, NEW a, NEW b, Recorded(a), Recorded(b), a.id = b.id
    PROVE  a = b
<1>1. PICK r \in Watched : \E i \in 1..Len(scans[r]) : a = scans[r][i]
  BY DEF Recorded
<1>2. PICK i \in 1..Len(scans[r]) : a = scans[r][i]
  BY <1>1
<1>3. PICK s \in Watched : \E j \in 1..Len(scans[s]) : b = scans[s][j]
  BY DEF Recorded
<1>4. PICK j \in 1..Len(scans[s]) : b = scans[s][j]
  BY <1>3
<1>5. a.id = <<r, Len(scans[r]) - i + 1>> /\ b.id = <<s, Len(scans[s]) - j + 1>>
  BY <1>2, <1>4 DEF RunsSound
<1>6. r = s /\ Len(scans[r]) - i + 1 = Len(scans[s]) - j + 1
  <2>1. ASSUME NEW x, NEW y, <<r, x>> = <<s, y>> PROVE r = s /\ x = y
    BY <2>1
  <2> QED
    BY <1>5, <2>1
<1>7. Len(scans[r]) \in Nat
  BY DEF RunsSound, IsSeq
<1>8. i = j
  BY <1>6, <1>7
<1> QED
  BY <1>2, <1>4, <1>6, <1>8

LEMMA HistoryFacts ==
    ASSUME HistoryInv
    PROVE  /\ RunsSound /\ ModalSound /\ (\A c \in fetches : FetchSound(c))
           /\ modal # Blank => /\ DOMAIN modal = ModalFields /\ AllRecorded(modal.runs)
                               /\ modal.runs # <<>> => /\ modal.cursor \in 1..Len(modal.runs)
                                                       /\ Recorded(Current)
BY DEF HistoryInv, ModalSound, AllRecorded, Current

(* A new call.                                                             *)
LEMMA FetchFacts ==
    ASSUME NEW kind, NEW about
    PROVE  LET c == Fetch(kind, about)
           IN  DOMAIN c = FetchFields /\ c.kind = kind /\ c.about = about /\ c.runs = Blank
BY DEF Fetch, FetchFields

(* A run is recorded.                                                      *)
LEMMA RunRecordedStep ==
    ASSUME HistoryInv, NEW r \in Watched, NEW d \in Content, RunRecorded(r, d)
    PROVE  HistoryInv'
<1> DEFINE run == [id |-> <<r, Len(scans[r]) + 1>>, repo |-> r, digest |-> d]
           old == scans[r]
           new == <<run>> \o old
<1>0. PICK T : old \in Seq(T)
  BY DEF HistoryInv, RunsSound, IsSeq
<1>1. DOMAIN scans = Watched
      /\ \A i \in 1..Len(old) : old[i].id = <<r, Len(old) - i + 1>>
  BY DEF HistoryInv, RunsSound
<1>2. scans' = [scans EXCEPT ![r] = new] /\ UNCHANGED <<modal, fetches, rewound, lost>>
  BY DEF RunRecorded
<1>3. run.id = <<r, Len(old) + 1>>
  OBVIOUS
<1> HIDE DEF run
<1>4. /\ Len(new) = Len(old) + 1 /\ Len(old) \in Nat /\ new[1] = run
      /\ \A i \in 1..Len(old) : new[i + 1] = old[i]
  <2>1. old \in Seq(T \union {run}) /\ <<run>> \in Seq(T \union {run})
    BY <1>0
  <2> QED
    BY <2>1
<1>5. IsSeq(new)
  <2>1. new \in Seq(T \union {run})
    BY <1>0
  <2> QED
    BY <2>1 DEF IsSeq
<1>6. \A i \in 1..Len(new) : new[i].id = <<r, Len(new) - i + 1>>
  <2> SUFFICES ASSUME NEW i \in 1..Len(new) PROVE new[i].id = <<r, Len(new) - i + 1>>
    OBVIOUS
  <2>1. CASE i = 1
    BY <1>3, <1>4, <2>1
  <2>2. CASE i # 1
    <3>1. i - 1 \in 1..Len(old) /\ new[i] = old[i - 1]
      BY <1>4, <2>2
    <3>2. old[i - 1].id = <<r, Len(old) - (i - 1) + 1>>
      BY <1>1, <3>1
    <3>3. Len(old) - (i - 1) + 1 = Len(new) - i + 1
      BY <1>4
    <3> QED
      BY <3>1, <3>2, <3>3
  <2> QED
    BY <2>1, <2>2
<1>7. \A i \in 1..Len(old) : \E j \in 1..Len(new) : new[j] = old[i]
  BY <1>4
<1> HIDE DEF old, new
<1>8. scans'[r] = new /\ DOMAIN scans' = Watched /\ \A s \in Watched \ {r} : scans'[s] = scans[s]
  BY <1>1, <1>2
<1>9. RunsSound'
  BY <1>5, <1>6, <1>8 DEF HistoryInv, RunsSound
<1>10. ASSUME NEW x, Recorded(x) PROVE Recorded(x)'
  <2>1. PICK s \in Watched : \E i \in 1..Len(scans[s]) : x = scans[s][i]
    BY <1>10 DEF Recorded
  <2>2. CASE s = r
    BY <1>7, <1>8, <2>1, <2>2 DEF Recorded, old
  <2>3. CASE s # r
    BY <1>8, <2>1, <2>3 DEF Recorded
  <2> QED
    BY <2>2, <2>3
<1>11. ModalSound' /\ \A c \in fetches' : FetchSound(c)'
  BY <1>2, <1>10 DEF HistoryInv, ModalSound, FetchSound, AllRecorded
<1>12. ShownIsOfCursor' /\ LoadingIsUnderWay'
  BY <1>2 DEF HistoryInv, ShownIsOfCursor, LoadingIsUnderWay, Awaited, Current,
              adminScanHistoryDetailMatchesCursor, adminScanHistorySecretsMatchCursor
<1> QED
  BY <1>9, <1>11, <1>12 DEF HistoryInv

LEMMA SameRuns ==
    ASSUME HistoryInv, UNCHANGED scans
    PROVE  /\ RunsSound'
           /\ \A x : Recorded(x) => Recorded(x)'
           /\ \A x : AllRecorded(x) => AllRecorded(x)'
           /\ \A c : FetchSound(c) => FetchSound(c)'
<1>1. RunsSound' /\ \A x : Recorded(x) => Recorded(x)'
  BY DEF HistoryInv, RunsSound, Recorded
<1>2. \A x : AllRecorded(x) => AllRecorded(x)'
  BY <1>1 DEF AllRecorded
<1> QED
  BY <1>1, <1>2 DEF FetchSound

(* What an answer that the overlay does not take leaves as it was.         *)
LEMMA UntakenStep ==
    ASSUME HistoryInv, UNCHANGED <<scans, modal, rewound>>, lost => lost',
           \A c \in fetches' : FetchSound(c),
           ~lost' => \A c \in fetches : Awaited(c) => c \in fetches'
    PROVE  HistoryInv'
<1>1. RunsSound' /\ ModalSound' /\ \A c \in fetches' : FetchSound(c)'
  BY SameRuns DEF HistoryInv, ModalSound
<1>2. ShownIsOfCursor'
  BY DEF HistoryInv, ShownIsOfCursor, Current
<1>3. \A c : Awaited(c)' = Awaited(c)
  BY DEF Awaited, Current, adminScanHistoryDetailMatchesCursor, adminScanHistorySecretsMatchCursor
<1>4. LoadingIsUnderWay'
  BY <1>3 DEF HistoryInv, LoadingIsUnderWay
<1> QED
  BY <1>1, <1>2, <1>4 DEF HistoryInv

LEMMA EnterOnRowStep ==
    ASSUME HistoryInv, NEW r \in Watched, EnterOnRow(r)
    PROVE  HistoryInv'
<1> DEFINE n == Fetch("open", r)
<1>1. fetches' = fetches \union {n} /\ UNCHANGED <<scans, modal, rewound, lost>>
  BY DEF EnterOnRow, Asks
<1>2. DOMAIN n = FetchFields /\ n.kind = "open" /\ n.about = r
  BY FetchFacts
<1> HIDE DEF n
<1>3. FetchSound(n)
  BY <1>2 DEF FetchSound
<1> QED
  BY <1>1, <1>3, HistoryFacts, UntakenStep

LEMMA OpenScanHistoryStep ==
    ASSUME HistoryInv, NEW c \in fetches, openScanHistory(c)
    PROVE  HistoryInv'
<1> DEFINE n == Fetch("history", c.about)
           m == [repo |-> c.about, runs |-> <<>>, cursor |-> 1, detail |-> Blank,
                 secrets |-> Blank, loading |-> TRUE]
<1>1. /\ fetches' = (fetches \ {c}) \union {n} /\ modal' = m /\ scans' = scans /\ c.kind = "open"
  BY DEF openScanHistory
<1>2. DOMAIN n = FetchFields /\ n.kind = "history" /\ n.about = c.about /\ n.runs = Blank
  BY FetchFacts
<1>3. /\ DOMAIN m = ModalFields /\ m.repo = c.about /\ m.runs = <<>> /\ m.detail = Blank
      /\ m.secrets = Blank
  BY DEF ModalFields
<1> HIDE DEF n, m
<1>4. FetchSound(n)
  BY <1>1, <1>2, HistoryFacts DEF FetchSound
<1>5. AllRecorded(<<>>)
  BY DEF AllRecorded, IsSeq
<1>6. ModalSound'
  BY <1>1, <1>3, <1>5, SameRuns DEF ModalSound
<1>7. ShownIsOfCursor'
  BY <1>1, <1>3 DEF ShownIsOfCursor
<1>8. LoadingIsUnderWay'
  BY <1>1, <1>2, <1>3 DEF LoadingIsUnderWay, Awaited
<1> QED
  BY <1>1, <1>4, <1>6, <1>7, <1>8, SameRuns, HistoryFacts DEF HistoryInv

LEMMA UnmountStep ==
    ASSUME HistoryInv, Unmount
    PROVE  HistoryInv'
<1>1. modal' = Blank /\ UNCHANGED <<scans, fetches>>
  BY DEF Unmount
<1> QED
  BY <1>1, SameRuns, HistoryFacts DEF HistoryInv, ModalSound, ShownIsOfCursor, LoadingIsUnderWay

LEMMA ListScanRunsStep ==
    ASSUME HistoryInv, NEW c \in fetches, ListScanRuns(c)
    PROVE  HistoryInv'
<1> DEFINE n == [c EXCEPT !.runs = scans[c.about]]
<1>1. /\ fetches' = (fetches \ {c}) \union {n} /\ UNCHANGED <<scans, modal, rewound, lost>>
      /\ c.kind = "history"
  BY DEF ListScanRuns
<1>2. DOMAIN c = FetchFields /\ c.about \in Watched
  BY <1>1, HistoryFacts DEF FetchSound
<1>3. DOMAIN n = FetchFields /\ n.kind = c.kind /\ n.about = c.about /\ n.runs = scans[c.about]
  BY <1>2 DEF FetchFields
<1> HIDE DEF n
<1>4. AllRecorded(n.runs)
  BY <1>2, <1>3, HistoryFacts DEF AllRecorded, RunsSound, Recorded
<1>5. FetchSound(n)
  BY <1>1, <1>2, <1>3, <1>4 DEF FetchSound
<1>6. RunsSound' /\ ModalSound' /\ \A k \in fetches' : FetchSound(k)'
  BY <1>1, <1>5, SameRuns, HistoryFacts DEF ModalSound
<1>7. ShownIsOfCursor'
  BY <1>1 DEF HistoryInv, ShownIsOfCursor, Current
<1>8. \A k : Awaited(k)' = Awaited(k)
  BY <1>1 DEF Awaited, Current, adminScanHistoryDetailMatchesCursor, adminScanHistorySecretsMatchCursor
<1>9. Awaited(c) => Awaited(n)
  BY <1>1, <1>3 DEF Awaited
<1>10. LoadingIsUnderWay'
  BY <1>1, <1>8, <1>9 DEF HistoryInv, LoadingIsUnderWay
<1> QED
  BY <1>6, <1>7, <1>10 DEF HistoryInv

LEMMA DroppedFetch ==
    ASSUME HistoryInv, NEW c \in fetches, Dropped(c), ~Awaited(c)
    PROVE  HistoryInv'
<1>1. fetches' = fetches \ {c} /\ UNCHANGED <<scans, modal, rewound, lost>>
  BY DEF Dropped, Served
<1> QED
  BY <1>1, HistoryFacts, UntakenStep

LEMMA HistoryLoadedStep ==
    ASSUME HistoryInv, NEW c \in fetches, ScanHistoryLoaded(c)
    PROVE  HistoryInv'
<1>1. c.kind = "history" /\ c.runs # Blank
  BY DEF ScanHistoryLoaded
<1>2. CASE modal # Blank => modal.repo # c.about
  <2>1. Dropped(c) /\ ~Awaited(c)
    BY <1>1, <1>2 DEF ScanHistoryLoaded, Awaited
  <2> QED
    BY <2>1, DroppedFetch
<1>3. CASE modal # Blank /\ modal.repo = c.about
  <2>1. /\ DOMAIN modal = ModalFields /\ AllRecorded(c.runs)
    BY <1>1, <1>3, HistoryFacts DEF FetchSound
  <2>2. rewound' = (\E shown \in {modal.detail, modal.secrets} \ {Blank} :
                                c.runs # <<>> => shown # c.runs[1])
    BY <1>3 DEF ScanHistoryLoaded
  <2>3. CASE c.runs = <<>>
    <3> DEFINE m == [modal EXCEPT !.runs = <<>>, !.cursor = 1, !.loading = FALSE]
    <3>1. modal' = m /\ fetches' = fetches \ {c} /\ UNCHANGED <<scans, lost>>
      BY <1>3, <2>3 DEF ScanHistoryLoaded, Served
    <3>2. /\ DOMAIN m = ModalFields /\ m.runs = <<>> /\ m.loading = FALSE
          /\ m.detail = modal.detail /\ m.secrets = modal.secrets
      BY <2>1 DEF ModalFields
    <3> HIDE DEF m
    <3>3. ModalSound'
      BY <2>1, <2>3, <3>1, <3>2, SameRuns DEF ModalSound
    <3>4. ShownIsOfCursor'
      BY <2>2, <2>3, <3>1, <3>2 DEF ShownIsOfCursor
    <3>5. LoadingIsUnderWay'
      BY <3>1, <3>2 DEF LoadingIsUnderWay
    <3> QED
      BY <3>1, <3>3, <3>4, <3>5, SameRuns, HistoryFacts DEF HistoryInv
  <2>4. CASE c.runs # <<>>
    <3> DEFINE m == [modal EXCEPT !.runs = c.runs, !.cursor = 1]
    <3>0. PICK n : n = Fetch("detail", c.runs[1])
      OBVIOUS
    <3>1. modal' = m /\ fetches' = (fetches \ {c}) \union {n} /\ UNCHANGED <<scans, lost>>
      BY <1>3, <2>4, <3>0 DEF ScanHistoryLoaded, ServedThen
    <3>2. /\ DOMAIN m = ModalFields /\ m.runs = c.runs /\ m.cursor = 1
          /\ m.detail = modal.detail /\ m.secrets = modal.secrets
      BY <2>1 DEF ModalFields
    <3>3. DOMAIN n = FetchFields /\ n.kind = "detail" /\ n.about = c.runs[1]
      BY <3>0, FetchFacts
    <3> HIDE DEF m
    <3>4. 1 \in 1..Len(c.runs)
      BY <2>1, <2>4 DEF AllRecorded, IsSeq
    <3>5. FetchSound(n)
      BY <2>1, <3>3, <3>4 DEF FetchSound, AllRecorded
    <3>6. ModalSound'
      BY <2>1, <3>1, <3>2, <3>4, SameRuns DEF ModalSound
    <3>7. Current' = c.runs[1]
      BY <3>1, <3>2 DEF Current
    <3>8. ShownIsOfCursor'
      BY <2>2, <2>4, <3>1, <3>2, <3>7 DEF ShownIsOfCursor
    <3>9. LoadingIsUnderWay'
      <4>1. modal' # Blank => Awaited(n)'
        BY <2>4, <3>1, <3>2, <3>3, <3>7 DEF Awaited, adminScanHistoryDetailMatchesCursor
      <4> QED
        BY <3>1, <4>1 DEF LoadingIsUnderWay
    <3> QED
      BY <3>1, <3>5, <3>6, <3>8, <3>9, SameRuns, HistoryFacts DEF HistoryInv
  <2> QED
    BY <2>3, <2>4
<1> QED
  BY <1>2, <1>3

LEMMA DetailLoadedStep ==
    ASSUME HistoryInv, NEW c \in fetches, ScanRunDetailLoaded(c)
    PROVE  HistoryInv'
<1>1. c.kind = "detail" /\ Recorded(c.about)
  BY HistoryFacts DEF ScanRunDetailLoaded, FetchSound
<1>2. CASE modal # Blank => ~adminScanHistoryDetailMatchesCursor(c.about)
  <2>1. Dropped(c) /\ ~Awaited(c)
    BY <1>1, <1>2 DEF ScanRunDetailLoaded, Awaited
  <2> QED
    BY <2>1, DroppedFetch
<1>3. CASE modal # Blank /\ adminScanHistoryDetailMatchesCursor(c.about)
  <2> DEFINE m == [modal EXCEPT !.detail = c.about, !.secrets = Blank]
  <2>0. PICK n : n = Fetch("secrets", c.about)
    OBVIOUS
  <2>1. modal' = m /\ fetches' = (fetches \ {c}) \union {n} /\ UNCHANGED <<scans, lost>>
    BY <1>3, <2>0 DEF ScanRunDetailLoaded, ServedThen
  <2>2. /\ DOMAIN modal = ModalFields /\ modal.runs # <<>> /\ c.about.id = Current.id
        /\ Recorded(Current)
    BY <1>3, HistoryFacts DEF adminScanHistoryDetailMatchesCursor
  <2>3. c.about = Current
    BY <1>1, <2>2, HistoryFacts, OneRunPerId
  <2>4. /\ DOMAIN m = ModalFields /\ m.runs = modal.runs /\ m.cursor = modal.cursor
        /\ m.detail = c.about /\ m.secrets = Blank
    BY <2>2 DEF ModalFields
  <2>5. DOMAIN n = FetchFields /\ n.kind = "secrets" /\ n.about = c.about
    BY <2>0, FetchFacts
  <2> HIDE DEF m
  <2>6. FetchSound(n)
    BY <1>1, <2>5 DEF FetchSound
  <2>7. ModalSound'
    BY <1>3, <2>1, <2>4, SameRuns, HistoryFacts DEF ModalSound
  <2>8. Current' = Current
    BY <2>1, <2>4 DEF Current
  <2>9. ShownIsOfCursor'
    BY <2>1, <2>2, <2>3, <2>4, <2>8 DEF ShownIsOfCursor
  <2>10. modal' # Blank => Awaited(n)'
    BY <2>1, <2>2, <2>3, <2>4, <2>5, <2>8 DEF Awaited, adminScanHistorySecretsMatchCursor
  <2>11. LoadingIsUnderWay'
    BY <2>1, <2>10 DEF LoadingIsUnderWay
  <2> QED
    BY <2>1, <2>6, <2>7, <2>9, <2>11, SameRuns, HistoryFacts DEF HistoryInv
<1> QED
  BY <1>2, <1>3

LEMMA SecretsLoadedStep ==
    ASSUME HistoryInv, NEW c \in fetches, SecretScanFindingsLoaded(c)
    PROVE  HistoryInv'
<1>1. c.kind = "secrets"
  BY DEF SecretScanFindingsLoaded
<1>2. CASE modal # Blank => ~adminScanHistorySecretsMatchCursor(c.about)
  <2>1. Dropped(c) /\ ~Awaited(c)
    BY <1>1, <1>2 DEF SecretScanFindingsLoaded, Awaited
  <2> QED
    BY <2>1, DroppedFetch
<1>3. CASE modal # Blank /\ adminScanHistorySecretsMatchCursor(c.about)
  <2> DEFINE m == [modal EXCEPT !.secrets = c.about, !.loading = FALSE]
  <2>1. modal' = m /\ fetches' = fetches \ {c} /\ UNCHANGED <<scans, lost, rewound>>
    BY <1>3 DEF SecretScanFindingsLoaded, Served
  <2>2. DOMAIN modal = ModalFields /\ modal.runs # <<>> /\ Current.digest = c.about.digest
    BY <1>3, HistoryFacts DEF adminScanHistorySecretsMatchCursor
  <2>3. /\ DOMAIN m = ModalFields /\ m.runs = modal.runs /\ m.cursor = modal.cursor
        /\ m.detail = modal.detail /\ m.secrets = c.about /\ m.loading = FALSE
    BY <2>2 DEF ModalFields
  <2> HIDE DEF m
  <2>4. ModalSound'
    BY <1>3, <2>1, <2>3, SameRuns, HistoryFacts DEF ModalSound
  <2>5. Current' = Current
    BY <2>1, <2>3 DEF Current
  <2>6. ShownIsOfCursor'
    BY <1>3, <2>1, <2>2, <2>3, <2>5 DEF HistoryInv, ShownIsOfCursor
  <2>7. LoadingIsUnderWay'
    BY <2>1, <2>3 DEF LoadingIsUnderWay
  <2> QED
    BY <2>1, <2>4, <2>6, <2>7, SameRuns, HistoryFacts DEF HistoryInv
<1> QED
  BY <1>2, <1>3

LEMMA FetchFailedStep ==
    ASSUME HistoryInv, NEW c \in fetches, FetchFailed(c)
    PROVE  HistoryInv'
<1>1. fetches' = fetches \ {c} /\ UNCHANGED <<scans, rewound>>
  BY DEF FetchFailed
<1>2. CASE c.kind = "secrets" /\ Awaited(c)
  <2> DEFINE m == [modal EXCEPT !.secrets = Blank, !.loading = FALSE]
  <2>1. modal' = m /\ lost' = lost /\ modal # Blank
    BY <1>2 DEF FetchFailed, Awaited
  <2>2. DOMAIN modal = ModalFields
    BY <2>1, HistoryFacts
  <2>3. /\ DOMAIN m = ModalFields /\ m.runs = modal.runs /\ m.cursor = modal.cursor
        /\ m.detail = modal.detail /\ m.secrets = Blank /\ m.loading = FALSE
    BY <2>2 DEF ModalFields
  <2> HIDE DEF m
  <2>4. ModalSound'
    BY <1>1, <2>1, <2>3, SameRuns, HistoryFacts DEF ModalSound
  <2>5. Current' = Current
    BY <2>1, <2>3 DEF Current
  <2>6. ShownIsOfCursor'
    BY <1>1, <2>1, <2>3, <2>5 DEF HistoryInv, ShownIsOfCursor
  <2>7. LoadingIsUnderWay'
    BY <2>1, <2>3 DEF LoadingIsUnderWay
  <2> QED
    BY <1>1, <2>4, <2>6, <2>7, SameRuns, HistoryFacts DEF HistoryInv
<1>3. CASE ~(c.kind = "secrets" /\ Awaited(c))
  <2>1. modal' = modal /\ lost' = (lost \/ Awaited(c))
    BY <1>3 DEF FetchFailed
  <2> QED
    BY <1>1, <2>1, HistoryFacts, UntakenStep
<1> QED
  BY <1>2, <1>3

LEMMA PageToStep ==
    ASSUME HistoryInv, NEW i \in 1..MaxScans, pageTo(i)
    PROVE  HistoryInv'
<1> DEFINE m == [modal EXCEPT !.cursor = i, !.detail = Blank, !.secrets = Blank, !.loading = TRUE]
<1>0. PICK n : n = Fetch("detail", modal.runs[i])
  OBVIOUS
<1>1. /\ modal # Blank /\ i \in DOMAIN modal.runs /\ modal' = m
      /\ fetches' = fetches \union {n} /\ UNCHANGED <<scans, lost>>
  BY <1>0 DEF pageTo, Asks
<1>2. DOMAIN modal = ModalFields /\ AllRecorded(modal.runs)
  BY <1>1, HistoryFacts
<1>3. i \in 1..Len(modal.runs) /\ modal.runs # <<>>
  BY <1>1, <1>2 DEF AllRecorded, IsSeq
<1>4. /\ DOMAIN m = ModalFields /\ m.runs = modal.runs /\ m.cursor = i
      /\ m.detail = Blank /\ m.secrets = Blank
  BY <1>2 DEF ModalFields
<1>5. DOMAIN n = FetchFields /\ n.kind = "detail" /\ n.about = modal.runs[i]
  BY <1>0, FetchFacts
<1> HIDE DEF m
<1>6. FetchSound(n)
  BY <1>2, <1>3, <1>5 DEF FetchSound, AllRecorded
<1>7. ModalSound'
  BY <1>1, <1>2, <1>3, <1>4, SameRuns DEF ModalSound
<1>8. Current' = modal.runs[i]
  BY <1>1, <1>4 DEF Current
<1>9. ShownIsOfCursor'
  BY <1>1, <1>4 DEF ShownIsOfCursor
<1>10. modal' # Blank => Awaited(n)'
  BY <1>1, <1>3, <1>4, <1>5, <1>8 DEF Awaited, adminScanHistoryDetailMatchesCursor
<1>11. LoadingIsUnderWay'
  BY <1>1, <1>10 DEF LoadingIsUnderWay
<1> QED
  BY <1>1, <1>6, <1>7, <1>9, <1>11, SameRuns, HistoryFacts DEF HistoryInv

LEMMA HistoryInvInit ==
    HistoryInit => HistoryInv
<1> SUFFICES ASSUME HistoryInit PROVE HistoryInv
  OBVIOUS
<1>1. DOMAIN scans = Watched /\ \A r \in Watched : scans[r] = <<>>
  BY DEF HistoryInit
<1>2. RunsSound
  <2>1. <<>> \in Seq({}) /\ Len(<<>>) = 0
    OBVIOUS
  <2>2. IsSeq(<<>>)
    BY <2>1 DEF IsSeq
  <2>3. 1..Len(<<>>) = {}
    BY <2>1
  <2> QED
    BY <1>1, <2>2, <2>3 DEF RunsSound
<1> QED
  BY <1>2 DEF HistoryInit, HistoryInv, ModalSound, ShownIsOfCursor, LoadingIsUnderWay

LEMMA HistoryInvStep ==
    HistoryInv /\ [HistoryNext]_scanHistoryVars => HistoryInv'
<1> SUFFICES ASSUME HistoryInv, [HistoryNext]_scanHistoryVars PROVE HistoryInv'
  OBVIOUS
<1>1. CASE UNCHANGED scanHistoryVars
  BY <1>1, UntakenStep, HistoryFacts DEF scanHistoryVars
<1> QED
  BY <1>1, RunRecordedStep, EnterOnRowStep, OpenScanHistoryStep, UnmountStep, ListScanRunsStep,
     HistoryLoadedStep, DetailLoadedStep, SecretsLoadedStep, FetchFailedStep, PageToStep
     DEF HistoryNext

LEMMA HistoryAlways ==
    HistorySpec => []HistoryInv
BY HistoryInvInit, HistoryInvStep, PTL DEF HistorySpec

-----------------------------------------------------------------------------
(***************************************************************************)
(* FeatureScreens.  An answer on its way says what the server keeps, and   *)
(* where a screen is behind, an answer that will bring it up to date, or   *)
(* make it ask, is on its way.                                             *)
(***************************************************************************)
ScreenFields == {"page", "policy", "cfg", "policyModal", "confirm", "submitting"}
ChannelKinds == {"channel", "setChannel"}
OnParts(f, S) == f = [p \in S |-> f[p]]

MessageSound(c) ==
    /\ DOMAIN c = {"n", "kind", "sheet", "result"}
    /\ c.kind \in Reads \union Writes /\ (settings = "channel" <=> c.kind \in ChannelKinds)
    /\ c.kind = "setPolicy" => OnParts(c.sheet, PolicyParts)
    /\ c.kind = "policy" /\ c.result = "ok" => OnParts(c.sheet, PolicyParts)
    /\ c.kind = "setChannel" => "config" \in DOMAIN c.sheet

ScreenSound(m) ==
    m # Void =>
        /\ DOMAIN m = ScreenFields /\ OnParts(m.policy, PolicyParts)
        /\ m.policyModal # Void => OnParts(m.policyModal, PolicyParts)

SavedOnce ==
    /\ \A a, b \in messages : a.kind = "setChannel" /\ b.kind = "setChannel" => a = b
    /\ \A a \in messages : a.kind = "setChannel" => channel.saving
    /\ channel.saving /\ ~expiredOnce => \E a \in messages : a.kind = "setChannel"

ScreensBase ==
    /\ settings \in {"trivy", "gitleaks", "signing", "channel"}
    /\ expiredOnce \in BOOLEAN /\ crossed \in BOOLEAN
    /\ settings = "channel" => mounted = Void
    /\ settings # "channel" => channel.loaded = FALSE
    /\ DOMAIN channel = {"loaded", "current", "selected", "saving"}
    /\ ScreenSound(mounted)
    /\ \A c \in messages : MessageSound(c)
    /\ SubmittingIsUnderWay /\ SavedOnce

\* What is on its way and tells, or leads to, what the server keeps.
Done(c, kinds) == c.result = "ok" /\ c.kind \in kinds
PageComing(cs) == \E c \in cs : c.kind = "page" \/ Done(c, {"configure", "action"})
PolicyComing(cs) ==
    \E c \in cs : c.kind \in {"page", "policy"} \/ Done(c, {"configure", "action", "setPolicy"})
ChannelComing(cs) == \E c \in cs : c.kind = "channel" \/ Done(c, {"setChannel"})

Agrees(c) ==
    /\ c.kind = "page" => c.sheet = Copy(kept, PageParts)
    /\ c.kind \in {"policy", "setPolicy"} => c.sheet = Copy(kept, PolicyParts)
    /\ c.kind \in ChannelKinds => c.sheet["config"] = kept["config"]

AnswersAgree ==
    /\ \A c \in messages : c.kind \in Reads => c.result \in {"none", "ok"}
    /\ \A c \in Telling : Agrees(c)
PageAgrees ==
    mounted # Void /\ mounted.page # Void =>
        /\ settings # "signing" => mounted.page = Copy(kept, PageParts) \/ PageComing(messages)
        /\ settings # "gitleaks" => mounted.policy = Copy(kept, PolicyParts) \/ PolicyComing(messages)
ChannelAgrees ==
    channel.loaded => channel.current = kept["config"] \/ ChannelComing(messages)

ScreensInv ==
    /\ ScreensBase
    /\ ~crossed /\ ~expiredOnce => AnswersAgree /\ PageAgrees /\ ChannelAgrees

LEMMA MessageFields ==
    ASSUME NEW n, NEW kind, NEW sheet
    PROVE  LET c == Message(n, kind, sheet)
           IN  /\ DOMAIN c = {"n", "kind", "sheet", "result"} /\ c.kind = kind
               /\ c.sheet = sheet /\ c.result = "none"
BY DEF Message

LEMMA SoundLater ==
    ASSUME settings' = settings
    PROVE  /\ PolicyParts' = PolicyParts
           /\ \A c : MessageSound(c) => MessageSound(c)'
           /\ \A m : ScreenSound(m) => ScreenSound(m)'
<1>1. PolicyParts' = PolicyParts
  BY DEF PolicyParts
<1> QED
  BY <1>1 DEF MessageSound, ScreenSound

(* A key of a feature's screen: what it shows stays, and at most one call  *)
(* is made, which is not answered yet.                                     *)
LEMMA ScreenKeyStep ==
    ASSUME ScreensInv, NEW m, mounted' = m, mounted # Void, ScreenSound(m),
           m.page = mounted.page, m.policy = mounted.policy,
           UNCHANGED <<settings, kept, channel, expiredOnce, crossed>>,
           messages \subseteq messages',
           \A c \in messages' \ messages : /\ MessageSound(c) /\ c.kind # "setChannel"
                                           /\ c.result = "none",
           m.submitting => mounted.submitting \/ \E c \in messages' : c.kind = "action"
    PROVE  ScreensInv'
<1>1. PolicyParts' = PolicyParts /\ ScreenSound(m)'
      /\ \A c : MessageSound(c) => MessageSound(c)'
  BY SoundLater
<1>2. SubmittingIsUnderWay' /\ SavedOnce'
  BY DEF ScreensInv, ScreensBase, SubmittingIsUnderWay, SavedOnce
<1>3. ScreensBase'
  BY <1>1, <1>2 DEF ScreensInv, ScreensBase
<1>4. ASSUME ~crossed, ~expiredOnce PROVE AnswersAgree' /\ PageAgrees' /\ ChannelAgrees'
  <2>1. AnswersAgree /\ PageAgrees /\ ChannelAgrees
    BY <1>4 DEF ScreensInv
  <2>2. Telling' = Telling
    BY DEF Telling
  <2>3. AnswersAgree'
    BY <1>1, <2>1, <2>2 DEF AnswersAgree, Agrees
  <2>4. PageAgrees'
    BY <1>1, <2>1 DEF PageAgrees, PageComing, PolicyComing
  <2>5. ChannelAgrees'
    BY <2>1 DEF ChannelAgrees, ChannelComing
  <2> QED
    BY <2>3, <2>4, <2>5
<1> QED
  BY <1>3, <1>4 DEF ScreensInv

(* A call that a key makes, of the feature's kinds.                        *)
LEMMA AskedSound ==
    ASSUME ScreensInv, settings # "channel", NEW kind, NEW sheet, Asked(kind, sheet),
           kind \in {"page", "configure", "action", "setPolicy"},
           kind = "setPolicy" => OnParts(sheet, PolicyParts)
    PROVE  /\ messages \subseteq messages' /\ (\E c \in messages' : c.kind = kind)
           /\ \A c \in messages' \ messages : /\ MessageSound(c) /\ c.kind # "setChannel"
                                              /\ c.result = "none"
<1> DEFINE c == Message(Unused(messages), kind, sheet)
<1>1. messages' = messages \union {c}
  BY DEF Asked
<1>2. /\ DOMAIN c = {"n", "kind", "sheet", "result"} /\ c.kind = kind
      /\ c.sheet = sheet /\ c.result = "none"
  BY MessageFields
<1> HIDE DEF c
<1>3. MessageSound(c) /\ c.kind # "setChannel"
  BY <1>2 DEF MessageSound, Reads, Writes, ChannelKinds
<1> QED
  BY <1>1, <1>2, <1>3

LEMMA ScreenFacts ==
    ASSUME ScreensInv, mounted # Void
    PROVE  /\ settings # "channel" /\ DOMAIN mounted = ScreenFields /\ ScreenSound(mounted)
           /\ OnParts(mounted.policy, PolicyParts)
           /\ mounted.policyModal # Void => OnParts(mounted.policyModal, PolicyParts)
BY DEF ScreensInv, ScreensBase, ScreenSound

(* Keys that only change the screen: a modal or a prompt.                  *)
LEMMA BecomesStep ==
    ASSUME ScreensInv, FeatureKey, NEW m, Becomes(m), ScreenSound(m),
           m.page = mounted.page, m.policy = mounted.policy,
           m.submitting => mounted.submitting
    PROVE  ScreensInv'
BY ScreenKeyStep DEF FeatureKey, Becomes

LEMMA ModalKeysStep ==
    ASSUME ScreensInv,
           \/ ConfigModalFromPage \/ PolicyModal \/ CloseModal
           \/ \E p \in Part, v \in Value : EditConfig(p, v) \/ EditPolicy(p, v)
    PROVE  ScreensInv'
<1>1. FeatureKey /\ mounted # Void
  BY DEF ConfigModalFromPage, PolicyModal, CloseModal, EditConfig, EditPolicy, FeatureKey
<1>2. /\ DOMAIN mounted = ScreenFields /\ OnParts(mounted.policy, PolicyParts)
      /\ mounted.policyModal # Void => OnParts(mounted.policyModal, PolicyParts)
  BY <1>1, ScreenFacts
<1>3. ASSUME NEW x, Becomes([mounted EXCEPT !.cfg = x]) PROVE ScreensInv'
  <2> DEFINE m == [mounted EXCEPT !.cfg = x]
  <2>1. /\ DOMAIN m = ScreenFields /\ m.page = mounted.page /\ m.policy = mounted.policy
        /\ m.policyModal = mounted.policyModal /\ m.submitting = mounted.submitting
    BY <1>2 DEF ScreenFields
  <2>2. Becomes(m)
    BY <1>3
  <2> HIDE DEF m
  <2> QED
    BY <1>1, <1>2, <2>1, <2>2, BecomesStep DEF ScreenSound
<1>4. ASSUME NEW x, Becomes([mounted EXCEPT !.policyModal = x]), x # Void => OnParts(x, PolicyParts)
      PROVE  ScreensInv'
  <2> DEFINE m == [mounted EXCEPT !.policyModal = x]
  <2>1. /\ DOMAIN m = ScreenFields /\ m.page = mounted.page /\ m.policy = mounted.policy
        /\ m.policyModal = x /\ m.submitting = mounted.submitting
    BY <1>2 DEF ScreenFields
  <2>2. Becomes(m)
    BY <1>4
  <2> HIDE DEF m
  <2> QED
    BY <1>1, <1>2, <1>4, <2>1, <2>2, BecomesStep DEF ScreenSound
<1>5. ConfigModalFromPage \/ PolicyModal \/ CloseModal => ScreensInv'
  BY <1>2, <1>3, <1>4 DEF ConfigModalFromPage, PolicyModal, CloseModal
<1>6. ASSUME NEW p \in Part, NEW v \in Value, EditConfig(p, v) PROVE ScreensInv'
  BY <1>3, <1>6 DEF EditConfig
<1>7. ASSUME NEW p \in Part, NEW v \in Value, EditPolicy(p, v) PROVE ScreensInv'
  <2> DEFINE x == [mounted.policyModal EXCEPT ![p] = v]
  <2>1. mounted.policyModal # Void /\ p \in PolicyParts /\ Becomes([mounted EXCEPT !.policyModal = x])
    BY <1>7 DEF EditPolicy
  <2>2. OnParts(x, PolicyParts)
    BY <1>2, <2>1 DEF OnParts
  <2> HIDE DEF x
  <2> QED
    BY <1>4, <2>1, <2>2
<1> QED
  BY <1>5, <1>6, <1>7

LEMMA AskKeysStep ==
    ASSUME ScreensInv, RefreshPage \/ SaveConfig \/ SavePolicy
    PROVE  ScreensInv'
<1>1. FeatureKey /\ mounted # Void /\ UNCHANGED mounted
  BY DEF RefreshPage, SaveConfig, SavePolicy, FeatureKey
<1>2. /\ settings # "channel" /\ ScreenSound(mounted)
      /\ mounted.policyModal # Void => OnParts(mounted.policyModal, PolicyParts)
  BY <1>1, ScreenFacts
<1>3. ASSUME NEW kind, NEW sheet, Asked(kind, sheet), kind \in {"page", "configure", "setPolicy"},
             kind = "setPolicy" => OnParts(sheet, PolicyParts)
      PROVE  ScreensInv'
  BY <1>1, <1>2, <1>3, AskedSound, ScreenKeyStep DEF FeatureKey
<1>4. RefreshPage \/ SaveConfig => ScreensInv'
  BY <1>3 DEF RefreshPage, SaveConfig
<1>5. ASSUME SavePolicy PROVE ScreensInv'
  <2> DEFINE x == [mounted.policyModal EXCEPT !["policy"] = 0]
  <2>1. mounted.policyModal # Void
    BY <1>5 DEF SavePolicy
  <2>2. OnParts(x, PolicyParts)
    BY <1>2, <2>1 DEF OnParts
  <2>3. Asked("setPolicy", mounted.policyModal) \/ Asked("setPolicy", x)
    BY <1>5 DEF SavePolicy
  <2> HIDE DEF x
  <2> QED
    BY <1>2, <1>3, <2>1, <2>2, <2>3
<1> QED
  BY <1>4, <1>5

LEMMA ActionKeysStep ==
    ASSUME ScreensInv, dispatchAction \/ ConfirmAction
    PROVE  ScreensInv'
<1>1. FeatureKey /\ mounted # Void
  BY DEF dispatchAction, ConfirmAction, FeatureKey
<1>2. /\ settings # "channel" /\ ScreenSound(mounted) /\ DOMAIN mounted = ScreenFields
      /\ OnParts(mounted.policy, PolicyParts)
      /\ mounted.policyModal # Void => OnParts(mounted.policyModal, PolicyParts)
  BY <1>1, ScreenFacts
<1>3. ASSUME NEW x, NEW b, mounted' = [mounted EXCEPT !.confirm = x, !.submitting = b],
             NEW sheet, Asked("action", sheet)
      PROVE  ScreensInv'
  <2> DEFINE m == [mounted EXCEPT !.confirm = x, !.submitting = b]
  <2>1. /\ DOMAIN m = ScreenFields /\ m.page = mounted.page /\ m.policy = mounted.policy
        /\ m.policyModal = mounted.policyModal
    BY <1>2 DEF ScreenFields
  <2>2. mounted' = m
    BY <1>3
  <2> HIDE DEF m
  <2>3. ScreenSound(m)
    BY <1>2, <2>1 DEF ScreenSound
  <2>4. /\ messages \subseteq messages' /\ (\E c \in messages' : c.kind = "action")
        /\ \A c \in messages' \ messages : /\ MessageSound(c) /\ c.kind # "setChannel"
                                           /\ c.result = "none"
    BY <1>2, <1>3, AskedSound
  <2> QED
    BY <1>1, <2>1, <2>2, <2>3, <2>4, ScreenKeyStep DEF FeatureKey
<1>4. ASSUME NEW x, \/ Becomes([mounted EXCEPT !.confirm = x])
                    \/ Becomes([mounted EXCEPT !.confirm = x, !.submitting = FALSE])
      PROVE  ScreensInv'
  <2>1. PICK m : /\ Becomes(m) /\ DOMAIN m = ScreenFields /\ m.page = mounted.page
                 /\ m.policy = mounted.policy /\ m.policyModal = mounted.policyModal
                 /\ m.submitting => mounted.submitting
    <3> DEFINE a == [mounted EXCEPT !.confirm = x]
               b == [mounted EXCEPT !.confirm = x, !.submitting = FALSE]
    <3>1. /\ DOMAIN a = ScreenFields /\ a.page = mounted.page /\ a.policy = mounted.policy
          /\ a.policyModal = mounted.policyModal /\ a.submitting = mounted.submitting
      BY <1>2 DEF ScreenFields
    <3>2. /\ DOMAIN b = ScreenFields /\ b.page = mounted.page /\ b.policy = mounted.policy
          /\ b.policyModal = mounted.policyModal /\ b.submitting = FALSE
      BY <1>2 DEF ScreenFields
    <3>3. Becomes(a) \/ Becomes(b)
      BY <1>4
    <3> HIDE DEF a, b
    <3> QED
      BY <3>1, <3>2, <3>3
  <2>2. ScreenSound(m)
    BY <1>2, <2>1 DEF ScreenSound
  <2> QED
    BY <1>1, <2>1, <2>2, BecomesStep
<1>5. CASE \E sheet : Asked("action", sheet) /\ UNCHANGED mounted
  BY <1>1, <1>2, <1>5, AskedSound, ScreenKeyStep DEF FeatureKey
<1>6. dispatchAction => ScreensInv'
  BY <1>4, <1>5 DEF dispatchAction
<1>7. ASSUME ConfirmAction PROVE ScreensInv'
  <2>1. CASE Becomes([mounted EXCEPT !.confirm = Void, !.submitting = FALSE])
    BY <1>4, <2>1
  <2>2. CASE Asked("action", mounted.confirm) /\ mounted' = [mounted EXCEPT !.submitting = TRUE]
    <3>1. [mounted EXCEPT !.submitting = TRUE]
            = [mounted EXCEPT !.confirm = mounted.confirm, !.submitting = TRUE]
      BY <1>2 DEF ScreenFields
    <3> QED
      BY <1>3, <2>2, <3>1
  <2> QED
    BY <1>7, <2>1, <2>2 DEF ConfirmAction
<1> QED
  BY <1>6, <1>7

(***************************************************************************)
(* The server.                                                             *)
(***************************************************************************)
LEMMA SettingsServedStep ==
    ASSUME ScreensInv, NEW c \in messages, NEW result \in {"ok", "failed", "lost", "expired"},
           SettingsServed(c, result)
    PROVE  ScreensInv'
<1> DEFINE written == IF c.kind \in Writes THEN Merge(kept, c.sheet) ELSE kept
           applied == c.kind \in Writes /\ result \in {"ok", "lost"}
           told == IF c.kind = "page" THEN Copy(kept, PageParts)
                   ELSE IF c.kind = "policy" THEN Copy(kept, PolicyParts)
                   ELSE IF c.kind = "channel" THEN Copy(kept, {"config"})
                   ELSE c.sheet
<1>1. /\ c.result = "none" /\ UNCHANGED <<settings, mounted, channel, expiredOnce>>
      /\ result = "lost" => c.kind \in Writes
      /\ kept' = IF applied THEN written ELSE kept
      /\ crossed' = (crossed \/ (applied /\ Telling # {})
                                  \/ result = "lost" \/ (c.kind \in Reads /\ result # "ok"))
  BY DEF SettingsServed
<1>2. PICK n : n = [c EXCEPT !.sheet = told, !.result = result]
  OBVIOUS
<1>3. messages' = (messages \ {c}) \union {n}
  BY <1>2 DEF SettingsServed
<1>4. MessageSound(c) /\ \A k \in messages : MessageSound(k)
  BY DEF ScreensInv, ScreensBase
<1>5. /\ DOMAIN n = {"n", "kind", "sheet", "result"} /\ n.kind = c.kind /\ n.sheet = told
      /\ n.result = result
  BY <1>2, <1>4 DEF MessageSound
<1> HIDE DEF told, written, applied
<1>6. c.kind \in Reads <=> c.kind \notin Writes
  BY <1>4 DEF MessageSound, Reads, Writes
<1>7. c.kind \in Writes => told = c.sheet
  BY DEF told, Writes
<1>8. OnParts(Copy(kept, PolicyParts), PolicyParts)
  BY DEF OnParts, Copy
<1>9. MessageSound(n)
  <2>1. c.kind = "setPolicy" => OnParts(told, PolicyParts)
    BY <1>4, <1>7 DEF MessageSound, Writes
  <2>2. c.kind = "policy" => OnParts(told, PolicyParts)
    BY <1>8 DEF told
  <2>3. c.kind = "setChannel" => "config" \in DOMAIN told
    BY <1>4, <1>7 DEF MessageSound, Writes
  <2> QED
    BY <1>4, <1>5, <2>1, <2>2, <2>3 DEF MessageSound
<1>10. /\ PolicyParts' = PolicyParts /\ (\A k \in messages' : MessageSound(k)') /\ ScreenSound(mounted)'
  BY <1>1, <1>3, <1>4, <1>9, SoundLater DEF ScreensInv, ScreensBase
<1>11. SubmittingIsUnderWay' /\ SavedOnce'
  BY <1>1, <1>3, <1>5 DEF ScreensInv, ScreensBase, SubmittingIsUnderWay, SavedOnce
<1>12. crossed' \in BOOLEAN
  BY <1>1 DEF ScreensInv, ScreensBase
<1>13. ScreensBase'
  BY <1>1, <1>10, <1>11, <1>12 DEF ScreensInv, ScreensBase
<1>14. ASSUME ~crossed', ~expiredOnce' PROVE AnswersAgree' /\ PageAgrees' /\ ChannelAgrees'
  <2>1. /\ AnswersAgree /\ PageAgrees /\ ChannelAgrees
        /\ applied => Telling = {}
        /\ result # "lost" /\ (c.kind \in Reads => result = "ok")
    BY <1>1, <1>14 DEF ScreensInv
  <2>2. CASE ~applied
    <3>1. kept' = kept
      BY <1>1, <2>2
    <3>2. result = "ok" => Agrees(n)'
      <4>1. result = "ok" => c.kind \in Reads
        BY <1>6, <2>2 DEF applied
      <4>2. c.kind = "channel" => told["config"] = kept["config"]
        BY DEF told, Copy
      <4> QED
        BY <1>4, <1>5, <1>10, <3>1, <4>1, <4>2 DEF Agrees, told, Reads, ChannelKinds
    <3>3. AnswersAgree'
      BY <1>3, <1>5, <1>10, <2>1, <3>1, <3>2 DEF AnswersAgree, Telling, Agrees
    <3>4. \A kinds : Done(c, kinds) => FALSE
      BY <1>1 DEF Done
    <3>5. PageAgrees'
      BY <1>1, <1>3, <1>5, <1>10, <2>1, <3>1, <3>4 DEF PageAgrees, PageComing, PolicyComing
    <3>6. ChannelAgrees'
      BY <1>1, <1>3, <1>5, <2>1, <3>1, <3>4 DEF ChannelAgrees, ChannelComing
    <3> QED
      BY <3>3, <3>5, <3>6
  <2>3. CASE applied
    <3>1. /\ c.kind \in Writes /\ result = "ok" /\ kept' = Merge(kept, c.sheet) /\ Telling = {}
          /\ n.sheet = c.sheet
      BY <1>1, <1>5, <1>7, <2>1, <2>3 DEF applied, written
    <3>2. PolicyParts \subseteq Part
      BY DEF PolicyParts, Part
    <3>3. c.kind = "setPolicy" => /\ c.sheet = Copy(kept', PolicyParts)
                                  /\ settings # "signing" => Copy(kept', PageParts) = Copy(kept, PageParts)
      <4> SUFFICES ASSUME c.kind = "setPolicy"
                   PROVE  /\ c.sheet = Copy(kept', PolicyParts)
                          /\ settings # "signing" => Copy(kept', PageParts) = Copy(kept, PageParts)
        OBVIOUS
      <4>1. c.sheet = [p \in PolicyParts |-> c.sheet[p]]
        BY <1>4 DEF MessageSound, OnParts
      <4>2. DOMAIN c.sheet = PolicyParts
        BY <4>1
      <4>3. \A p \in PolicyParts : kept'[p] = c.sheet[p]
        BY <3>1, <3>2, <4>2 DEF Merge
      <4>4. c.sheet = Copy(kept', PolicyParts)
        BY <4>1, <4>3 DEF Copy
      <4>5. ASSUME settings # "signing" PROVE Copy(kept', PageParts) = Copy(kept, PageParts)
        <5>1. PolicyParts = {"policy"}
          BY <4>5 DEF PolicyParts
        <5>2. \A p \in PageParts : kept'[p] = kept[p]
          BY <3>1, <4>2, <5>1 DEF Merge, PageParts, Part
        <5> QED
          BY <5>2 DEF Copy
      <4> QED
        BY <4>4, <4>5
    <3>4. c.kind = "setChannel" => c.sheet["config"] = kept'["config"]
      BY <1>4, <3>1 DEF MessageSound, Merge, Part
    <3>5. Agrees(n)'
      BY <1>5, <1>10, <3>1, <3>3, <3>4 DEF Agrees, Writes, ChannelKinds
    <3>6. AnswersAgree'
      BY <1>3, <1>5, <2>1, <3>1, <3>5 DEF AnswersAgree, Telling
    <3>7. c.kind \in {"configure", "action"} => PageComing(messages')
      BY <1>3, <1>5, <3>1 DEF PageComing, Done
    <3>8. c.kind \in {"configure", "action", "setPolicy"} => PolicyComing(messages')
      BY <1>3, <1>5, <3>1 DEF PolicyComing, Done
    <3>9. c.kind = "setChannel" => ChannelComing(messages')
      BY <1>3, <1>5, <3>1 DEF ChannelComing, Done
    <3>10. /\ PageComing(messages) => PageComing(messages')
           /\ PolicyComing(messages) => PolicyComing(messages')
           /\ ChannelComing(messages) => ChannelComing(messages')
      BY <1>1, <1>3, <1>5 DEF PageComing, PolicyComing, ChannelComing, Done
    <3>11. c.kind = "setChannel" <=> settings = "channel"
      BY <1>4, <3>1 DEF MessageSound, Writes, ChannelKinds
    <3>12. PageAgrees'
      <4>1. CASE c.kind \in {"configure", "action"}
        BY <3>7, <3>8, <4>1 DEF PageAgrees
      <4>2. CASE c.kind = "setPolicy"
        BY <1>1, <2>1, <3>3, <3>8, <3>10, <4>2 DEF PageAgrees
      <4>3. CASE c.kind = "setChannel"
        BY <1>1, <3>11, <4>3 DEF PageAgrees, ScreensInv, ScreensBase
      <4> QED
        BY <3>1, <4>1, <4>2, <4>3 DEF Writes
    <3>13. ChannelAgrees'
      BY <1>1, <3>9, <3>11 DEF ChannelAgrees, ScreensInv, ScreensBase
    <3> QED
      BY <3>6, <3>12, <3>13
  <2> QED
    BY <2>2, <2>3
<1> QED
  BY <1>13, <1>14 DEF ScreensInv

(***************************************************************************)
(* Answers.                                                                *)
(***************************************************************************)
(* An answer taken by a feature's screen, which may ask again for a page   *)
(* or a policy.                                                            *)
LEMMA AnswerStep ==
    ASSUME ScreensInv, NEW c \in messages, settings # "channel",
           UNCHANGED <<settings, kept, channel, expiredOnce, crossed>>, ScreenSound(mounted'),
           \A k \in messages : k # c => k \in messages',
           \A k \in messages' : \/ k \in messages /\ k # c
                                \/ MessageSound(k) /\ k.result = "none" /\ k.kind \in {"page", "policy"},
           mounted' # Void /\ mounted'.submitting =>
               mounted # Void /\ mounted.submitting /\ c.kind # "action",
           AnswersAgree /\ PageAgrees => PageAgrees'
    PROVE  ScreensInv'
<1>1. /\ PolicyParts' = PolicyParts /\ ScreenSound(mounted)'
      /\ \A k : MessageSound(k) => MessageSound(k)'
  BY SoundLater DEF ScreenSound, PolicyParts
<1>2. \A k \in messages' : MessageSound(k)'
  BY <1>1 DEF ScreensInv, ScreensBase
<1>3. \A k \in messages' : k.kind # "setChannel"
  BY <1>2 DEF MessageSound, ChannelKinds
<1>4. \A k \in messages : k.kind # "setChannel"
  BY DEF ScreensInv, ScreensBase, MessageSound, ChannelKinds
<1>5. SavedOnce'
  BY <1>3, <1>4 DEF ScreensInv, ScreensBase, SavedOnce
<1>6. SubmittingIsUnderWay'
  BY DEF ScreensInv, ScreensBase, SubmittingIsUnderWay
<1>7. ScreensBase'
  BY <1>1, <1>2, <1>5, <1>6 DEF ScreensInv, ScreensBase
<1>8. ASSUME ~crossed, ~expiredOnce PROVE AnswersAgree' /\ PageAgrees' /\ ChannelAgrees'
  <2>1. AnswersAgree /\ PageAgrees
    BY <1>8 DEF ScreensInv
  <2>2. \A k \in Telling' : k \in Telling
    BY DEF Telling
  <2>3. AnswersAgree'
    BY <1>1, <2>1, <2>2 DEF AnswersAgree, Agrees
  <2>4. ChannelAgrees'
    BY DEF ChannelAgrees, ScreensInv, ScreensBase
  <2> QED
    BY <2>1, <2>3, <2>4
<1> QED
  BY <1>7, <1>8 DEF ScreensInv

(* What Drop and Follow do to the calls in flight.                         *)
LEMMA DropKeeps ==
    ASSUME NEW c, Drop(c)
    PROVE  /\ \A k \in messages : k # c => k \in messages'
           /\ \A k \in messages' : k \in messages /\ k # c
BY DEF Drop

LEMMA FollowKeeps ==
    ASSUME NEW c, settings # "channel", NEW kind \in {"page", "policy"}, Follow(c, kind)
    PROVE  /\ \A k \in messages : k # c => k \in messages'
           /\ \A k \in messages' : \/ k \in messages /\ k # c
                                   \/ MessageSound(k) /\ k.result = "none" /\ k.kind \in {"page", "policy"}
           /\ \E k \in messages' : k.kind = kind
<1> DEFINE m == Message(Unused(messages \ {c}), kind, Void)
<1>1. messages' = (messages \ {c}) \union {m}
  BY DEF Follow
<1>2. DOMAIN m = {"n", "kind", "sheet", "result"} /\ m.kind = kind /\ m.result = "none"
  BY MessageFields
<1> HIDE DEF m
<1>3. MessageSound(m)
  BY <1>2 DEF MessageSound, Reads, Writes, ChannelKinds
<1> QED
  BY <1>1, <1>2, <1>3

LEMMA ToldFacts ==
    ASSUME ScreensInv, NEW c, NEW s, Told(c, s)
    PROVE  /\ c \in messages /\ c.result # "none" /\ mounted # Void /\ mounted' = s
           /\ UNCHANGED <<settings, kept, channel, expiredOnce, crossed>>
           /\ settings # "channel" /\ DOMAIN mounted = ScreenFields
           /\ OnParts(mounted.policy, PolicyParts) /\ MessageSound(c)
           /\ mounted.policyModal # Void => OnParts(mounted.policyModal, PolicyParts)
           /\ PolicyParts' = PolicyParts
BY ScreenFacts, SoundLater DEF Told, Take, ScreensInv, ScreensBase

LEMMA FeaturePageLoadedStep ==
    ASSUME ScreensInv, NEW c \in messages, FeaturePageLoaded(c)
    PROVE  ScreensInv'
<1> DEFINE m == [mounted EXCEPT !.page = c.sheet]
<1>1. c.kind = "page" /\ c.result = "ok" /\ Told(c, m)
  BY DEF FeaturePageLoaded
<1>2. /\ mounted # Void /\ mounted' = m
      /\ UNCHANGED <<settings, kept, channel, expiredOnce, crossed>>
      /\ settings # "channel" /\ DOMAIN mounted = ScreenFields /\ OnParts(mounted.policy, PolicyParts)
      /\ mounted.policyModal # Void => OnParts(mounted.policyModal, PolicyParts)
      /\ PolicyParts' = PolicyParts
  BY <1>1, ToldFacts
<1>3. /\ DOMAIN m = ScreenFields /\ m.page = c.sheet /\ m.policy = mounted.policy
      /\ m.policyModal = mounted.policyModal /\ m.submitting = mounted.submitting
  BY <1>2 DEF ScreenFields
<1> HIDE DEF m
<1>4. ScreenSound(mounted')
  BY <1>2, <1>3 DEF ScreenSound
<1>5. /\ \A k \in messages : k # c => k \in messages'
      /\ \A k \in messages' : \/ k \in messages /\ k # c
                              \/ MessageSound(k) /\ k.result = "none" /\ k.kind \in {"page", "policy"}
      /\ settings # "gitleaks" => \E k \in messages' : k.kind = "policy"
  BY <1>2, DropKeeps, FollowKeeps DEF FeaturePageLoaded
<1>6. AnswersAgree => c.sheet = Copy(kept, PageParts)
  BY <1>1 DEF AnswersAgree, Agrees, Telling, Reads
<1>7. AnswersAgree => PageAgrees'
  BY <1>2, <1>3, <1>5, <1>6 DEF PageAgrees, PolicyComing
<1> QED
  BY <1>1, <1>2, <1>3, <1>4, <1>5, <1>7, AnswerStep

(* The policy is loaded, or was saved.                                     *)
LEMMA PolicyToldStep ==
    ASSUME ScreensInv, NEW c \in messages, c.kind \in {"policy", "setPolicy"}, c.result = "ok",
           NEW m, Told(c, m), Drop(c), DOMAIN m = ScreenFields, m.page = mounted.page,
           m.policy = c.sheet, m.submitting = mounted.submitting,
           m.policyModal \in {Void, c.sheet, mounted.policyModal}
    PROVE  ScreensInv'
<1>1. /\ mounted # Void /\ mounted' = m
      /\ UNCHANGED <<settings, kept, channel, expiredOnce, crossed>>
      /\ settings # "channel" /\ MessageSound(c)
      /\ mounted.policyModal # Void => OnParts(mounted.policyModal, PolicyParts)
      /\ PolicyParts' = PolicyParts
  BY ToldFacts
<1>2. OnParts(c.sheet, PolicyParts)
  BY <1>1 DEF MessageSound
<1>3. ScreenSound(mounted')
  BY <1>1, <1>2 DEF ScreenSound
<1>4. AnswersAgree => c.sheet = Copy(kept, PolicyParts)
  BY DEF AnswersAgree, Agrees, Telling, Reads
<1>5. PageComing(messages) => PageComing(messages')
  BY DropKeeps DEF PageComing, Done
<1>6. AnswersAgree /\ PageAgrees => PageAgrees'
  BY <1>1, <1>4, <1>5 DEF PageAgrees
<1> QED
  BY <1>1, <1>3, <1>6, DropKeeps, AnswerStep

LEMMA PolicyLoadedStep ==
    ASSUME ScreensInv, NEW c \in messages, PolicyLoaded(c) \/ PolicyUpdated(c)
    PROVE  ScreensInv'
<1>1. ASSUME NEW x, x \in {Void, c.sheet, mounted.policyModal},
             Told(c, [mounted EXCEPT !.policy = c.sheet, !.policyModal = x]),
             c.kind \in {"policy", "setPolicy"}, c.result = "ok", Drop(c)
      PROVE  ScreensInv'
  <2> DEFINE m == [mounted EXCEPT !.policy = c.sheet, !.policyModal = x]
  <2>1. DOMAIN mounted = ScreenFields
    BY <1>1, ToldFacts
  <2>2. /\ DOMAIN m = ScreenFields /\ m.page = mounted.page /\ m.policy = c.sheet
        /\ m.policyModal = x /\ m.submitting = mounted.submitting
    BY <2>1 DEF ScreenFields
  <2>3. Told(c, m)
    BY <1>1
  <2> HIDE DEF m
  <2> QED
    BY <1>1, <2>2, <2>3, PolicyToldStep
<1>2. ASSUME PolicyLoaded(c) PROVE ScreensInv'
  <2> DEFINE m == [mounted EXCEPT !.policy = c.sheet]
  <2>1. Told(c, m) /\ c.kind = "policy" /\ c.result = "ok" /\ Drop(c)
    BY <1>2 DEF PolicyLoaded
  <2>2. DOMAIN mounted = ScreenFields
    BY <2>1, ToldFacts
  <2>3. /\ DOMAIN m = ScreenFields /\ m.page = mounted.page /\ m.policy = c.sheet
        /\ m.policyModal = mounted.policyModal /\ m.submitting = mounted.submitting
    BY <2>2 DEF ScreenFields
  <2> HIDE DEF m
  <2> QED
    BY <2>1, <2>3, PolicyToldStep
<1>3. ASSUME PolicyUpdated(c) PROVE ScreensInv'
  <2> DEFINE x == IF settings = "signing" /\ mounted.policyModal # Void THEN c.sheet ELSE Void
  <2>1. Told(c, [mounted EXCEPT !.policy = c.sheet, !.policyModal = x])
    BY <1>3 DEF PolicyUpdated
  <2>2. x \in {Void, c.sheet, mounted.policyModal}
    OBVIOUS
  <2> HIDE DEF x
  <2> QED
    BY <1>1, <1>3, <2>1, <2>2 DEF PolicyUpdated
<1> QED
  BY <1>2, <1>3

LEMMA FeatureConfiguredStep ==
    ASSUME ScreensInv, NEW c \in messages, FeatureConfigured(c)
    PROVE  ScreensInv'
<1> DEFINE m == [mounted EXCEPT !.cfg = Void]
<1>1. c.kind = "configure" /\ c.result = "ok" /\ Told(c, m) /\ Follow(c, "page")
  BY DEF FeatureConfigured
<1>2. /\ mounted # Void /\ mounted' = m
      /\ UNCHANGED <<settings, kept, channel, expiredOnce, crossed>>
      /\ settings # "channel" /\ DOMAIN mounted = ScreenFields /\ OnParts(mounted.policy, PolicyParts)
      /\ mounted.policyModal # Void => OnParts(mounted.policyModal, PolicyParts)
  BY <1>1, ToldFacts
<1>3. /\ DOMAIN m = ScreenFields /\ m.policy = mounted.policy
      /\ m.policyModal = mounted.policyModal /\ m.submitting = mounted.submitting
  BY <1>2 DEF ScreenFields
<1> HIDE DEF m
<1>4. ScreenSound(mounted')
  BY <1>2, <1>3 DEF ScreenSound
<1>5. /\ \A k \in messages : k # c => k \in messages'
      /\ \A k \in messages' : \/ k \in messages /\ k # c
                              \/ MessageSound(k) /\ k.result = "none" /\ k.kind \in {"page", "policy"}
      /\ \E k \in messages' : k.kind = "page"
  BY <1>1, <1>2, FollowKeeps
<1>6. PageAgrees'
  BY <1>5 DEF PageAgrees, PageComing, PolicyComing
<1> QED
  BY <1>1, <1>2, <1>3, <1>4, <1>5, <1>6, AnswerStep

LEMMA FeatureActionCompletedStep ==
    ASSUME ScreensInv, NEW c \in messages, FeatureActionCompleted(c)
    PROVE  ScreensInv'
<1> DEFINE m == [mounted EXCEPT !.confirm = Void, !.submitting = FALSE]
<1>1. /\ c.kind = "action" /\ c.result \in {"ok", "failed", "lost"} /\ Told(c, m)
      /\ IF c.result = "ok" THEN Follow(c, "page") ELSE Drop(c)
  BY DEF FeatureActionCompleted
<1>2. /\ mounted # Void /\ mounted' = m
      /\ UNCHANGED <<settings, kept, channel, expiredOnce, crossed>>
      /\ settings # "channel" /\ DOMAIN mounted = ScreenFields /\ OnParts(mounted.policy, PolicyParts)
      /\ mounted.policyModal # Void => OnParts(mounted.policyModal, PolicyParts)
      /\ PolicyParts' = PolicyParts
  BY <1>1, ToldFacts
<1>3. /\ DOMAIN m = ScreenFields /\ m.policy = mounted.policy /\ m.page = mounted.page
      /\ m.policyModal = mounted.policyModal /\ m.submitting = FALSE
  BY <1>2 DEF ScreenFields
<1> HIDE DEF m
<1>4. ScreenSound(mounted')
  BY <1>2, <1>3 DEF ScreenSound
<1>5. /\ \A k \in messages : k # c => k \in messages'
      /\ \A k \in messages' : \/ k \in messages /\ k # c
                              \/ MessageSound(k) /\ k.result = "none" /\ k.kind \in {"page", "policy"}
      /\ c.result = "ok" => \E k \in messages' : k.kind = "page"
  BY <1>1, <1>2, FollowKeeps, DropKeeps
<1>6. /\ PageComing(messages) => PageComing(messages')
      /\ PolicyComing(messages) => PolicyComing(messages')
  BY <1>1, <1>5 DEF PageComing, PolicyComing, Done
<1>7. PageAgrees => PageAgrees'
  BY <1>2, <1>3, <1>6 DEF PageAgrees
<1> QED
  BY <1>2, <1>3, <1>4, <1>5, <1>7, AnswerStep

LEMMA UnheardStep ==
    ASSUME ScreensInv, NEW c \in messages, Unheard(c)
    PROVE  ScreensInv'
<1>1. /\ Drop(c) /\ UNCHANGED <<settings, kept, mounted, channel, expiredOnce, crossed>>
      /\ c.kind \notin ChannelKinds
      /\ mounted = Void \/ (c.kind # "action" /\ c.result \in {"failed", "lost"})
  BY DEF Unheard, Take, ChannelKinds
<1>2. settings # "channel" /\ ScreenSound(mounted') /\ PolicyParts' = PolicyParts
  BY <1>1, SoundLater DEF ScreensInv, ScreensBase, MessageSound
<1>3. ASSUME AnswersAgree, mounted # Void
      PROVE  /\ PageComing(messages) => PageComing(messages')
             /\ PolicyComing(messages) => PolicyComing(messages')
  <2>1. c.kind \notin Reads
    BY <1>1, <1>3 DEF AnswersAgree
  <2> QED
    BY <1>1, <1>3, <2>1, DropKeeps DEF PageComing, PolicyComing, Done, Reads
<1>4. AnswersAgree /\ PageAgrees => PageAgrees'
  BY <1>1, <1>2, <1>3 DEF PageAgrees
<1> QED
  BY <1>1, <1>2, <1>4, DropKeeps, AnswerStep

LEMMA SessionExpiredStep ==
    ASSUME ScreensInv, NEW c \in messages, SessionExpired(c)
    PROVE  ScreensInv'
<1>1. /\ Drop(c) /\ UNCHANGED <<settings, kept, mounted, channel, crossed>> /\ expiredOnce' = TRUE
  BY DEF SessionExpired
<1>2. ScreenSound(mounted)' /\ \A k \in messages' : MessageSound(k)'
  BY <1>1, DropKeeps, SoundLater DEF ScreensInv, ScreensBase
<1>3. SubmittingIsUnderWay' /\ SavedOnce'
  BY <1>1, DropKeeps DEF ScreensInv, ScreensBase, SubmittingIsUnderWay, SavedOnce
<1>4. ScreensBase'
  BY <1>1, <1>2, <1>3 DEF ScreensInv, ScreensBase
<1> QED
  BY <1>1, <1>4 DEF ScreensInv

(***************************************************************************)
(* Mounting and unmounting.                                                *)
(***************************************************************************)
(* What is kept, shown of the channel and asked for stays; a screen that   *)
(* is mounted shows no page yet, and its load is not answered yet.         *)
LEMMA MountedStep ==
    ASSUME ScreensInv, UNCHANGED <<settings, kept, channel, expiredOnce>>, ScreenSound(mounted'),
           crossed' \in BOOLEAN, crossed => crossed',
           settings = "channel" => mounted' = Void,
           mounted' = mounted \/ (mounted' # Void => mounted'.page = Void /\ mounted'.submitting = FALSE),
           messages \subseteq messages',
           \A k \in messages' \ messages : MessageSound(k) /\ k.kind = "page" /\ k.result = "none"
    PROVE  ScreensInv'
<1>1. /\ PolicyParts' = PolicyParts /\ ScreenSound(mounted)'
      /\ \A k : MessageSound(k) => MessageSound(k)'
  BY SoundLater DEF ScreenSound, PolicyParts
<1>2. SubmittingIsUnderWay'
  BY DEF ScreensInv, ScreensBase, SubmittingIsUnderWay
<1>3. SavedOnce'
  BY DEF ScreensInv, ScreensBase, SavedOnce
<1>4. ScreensBase'
  BY <1>1, <1>2, <1>3 DEF ScreensInv, ScreensBase
<1>5. ASSUME ~crossed', ~expiredOnce' PROVE AnswersAgree' /\ PageAgrees' /\ ChannelAgrees'
  <2>1. AnswersAgree /\ PageAgrees /\ ChannelAgrees
    BY <1>5 DEF ScreensInv
  <2>2. Telling' = Telling
    BY DEF Telling
  <2>3. AnswersAgree'
    BY <1>1, <2>1, <2>2 DEF AnswersAgree, Agrees
  <2>4. PageAgrees'
    BY <1>1, <2>1 DEF PageAgrees, PageComing, PolicyComing
  <2>5. ChannelAgrees'
    BY <2>1 DEF ChannelAgrees, ChannelComing
  <2> QED
    BY <2>3, <2>4, <2>5
<1> QED
  BY <1>4, <1>5 DEF ScreensInv

LEMMA NewScreenSound ==
    /\ DOMAIN NewScreen = ScreenFields /\ NewScreen.page = Void /\ NewScreen.submitting = FALSE
    /\ ScreenSound(NewScreen)
<1>1. /\ DOMAIN NewScreen = ScreenFields /\ NewScreen.page = Void /\ NewScreen.submitting = FALSE
      /\ NewScreen.policy = [p \in PolicyParts |-> 0] /\ NewScreen.policyModal = Void
  BY DEF NewScreen, ScreenFields
<1>2. OnParts([p \in PolicyParts |-> 0], PolicyParts)
  BY DEF OnParts
<1> QED
  BY <1>1, <1>2 DEF ScreenSound

LEMMA MountStep ==
    ASSUME ScreensInv, MountScreen \/ UnmountScreens \/ SignInAgain \/ UNCHANGED screenVars
    PROVE  ScreensInv'
<1>1. ASSUME MountScreen PROVE ScreensInv'
  <2>1. /\ settings # "channel" /\ mounted' = NewScreen /\ Asked("page", Void)
        /\ UNCHANGED <<settings, kept, channel, expiredOnce>>
        /\ crossed' = (crossed \/ \E c \in messages : c.kind \notin Reads)
    BY <1>1 DEF MountScreen
  <2>2. PICK n : n = Message(Unused(messages), "page", Void)
    OBVIOUS
  <2>3. messages' = messages \union {n}
    BY <2>1, <2>2 DEF Asked
  <2>4. DOMAIN n = {"n", "kind", "sheet", "result"} /\ n.kind = "page" /\ n.result = "none"
    BY <2>2, MessageFields
  <2>5. MessageSound(n)
    BY <2>1, <2>4 DEF MessageSound, Reads, Writes, ChannelKinds
  <2>6. crossed' \in BOOLEAN /\ (crossed => crossed')
    BY <2>1 DEF ScreensInv, ScreensBase
  <2>7. ScreenSound(mounted') /\ mounted'.page = Void /\ mounted'.submitting = FALSE
    BY <2>1, NewScreenSound
  <2>8. /\ messages \subseteq messages'
        /\ \A k \in messages' \ messages : MessageSound(k) /\ k.kind = "page" /\ k.result = "none"
    BY <2>3, <2>4, <2>5
  <2> QED
    BY <2>1, <2>6, <2>7, <2>8, MountedStep
<1>2. ASSUME UnmountScreens PROVE ScreensInv'
  <2>1. mounted' = Void /\ UNCHANGED <<settings, kept, channel, messages, expiredOnce, crossed>>
    BY <1>2 DEF UnmountScreens
  <2>2. ScreenSound(mounted')
    BY <2>1 DEF ScreenSound
  <2> QED
    BY <2>1, <2>2, MountedStep DEF ScreensInv, ScreensBase
<1>3. ASSUME SignInAgain \/ UNCHANGED screenVars PROVE ScreensInv'
  <2>1. UNCHANGED <<settings, kept, mounted, channel, messages, expiredOnce, crossed>>
    BY <1>3 DEF SignInAgain, screenVars
  <2>2. ScreenSound(mounted')
    BY <2>1 DEF ScreensInv, ScreensBase
  <2> QED
    BY <2>1, <2>2, MountedStep DEF ScreensInv, ScreensBase
<1> QED
  BY <1>1, <1>2, <1>3

(***************************************************************************)
(* The update channel.                                                     *)
(***************************************************************************)
ChannelFields == {"loaded", "current", "selected", "saving"}

LEMMA ChannelStep ==
    ASSUME ScreensInv, settings = "channel", DOMAIN channel' = ChannelFields,
           UNCHANGED <<settings, kept, mounted, expiredOnce, crossed>>,
           \A k \in messages' : k \in messages \/ (MessageSound(k) /\ k.result = "none"),
           SavedOnce', AnswersAgree /\ ChannelAgrees => ChannelAgrees'
    PROVE  ScreensInv'
<1>1. /\ PolicyParts' = PolicyParts /\ mounted' = Void
      /\ \A k : MessageSound(k) => MessageSound(k)'
  BY SoundLater DEF ScreensInv, ScreensBase
<1>2. ScreenSound(mounted)' /\ SubmittingIsUnderWay' /\ PageAgrees'
  BY <1>1 DEF ScreenSound, SubmittingIsUnderWay, PageAgrees
<1>3. ScreensBase'
  BY <1>1, <1>2 DEF ScreensInv, ScreensBase, ChannelFields
<1>4. ASSUME ~crossed, ~expiredOnce PROVE AnswersAgree' /\ ChannelAgrees'
  <2>1. AnswersAgree /\ ChannelAgrees
    BY <1>4 DEF ScreensInv
  <2>2. \A k \in Telling' : k \in Telling
    BY DEF Telling
  <2> QED
    BY <1>1, <2>1, <2>2 DEF AnswersAgree, Agrees
<1> QED
  BY <1>2, <1>3, <1>4 DEF ScreensInv

LEMMA ChannelFacts ==
    ASSUME ScreensInv
    PROVE  DOMAIN channel = ChannelFields /\ SavedOnce /\ \A c \in messages : MessageSound(c)
BY DEF ScreensInv, ScreensBase, ChannelFields

(* A call the screen makes for the channel.                                *)
LEMMA AskedForChannel ==
    ASSUME settings = "channel", NEW kind \in ChannelKinds, NEW sheet, Asked(kind, sheet),
           kind = "setChannel" => "config" \in DOMAIN sheet
    PROVE  \E n : /\ messages' = messages \union {n} /\ MessageSound(n)
                  /\ n.result = "none" /\ n.kind = kind
<1>1. PICK n : n = Message(Unused(messages), kind, sheet)
  OBVIOUS
<1>2. messages' = messages \union {n}
  BY <1>1 DEF Asked
<1>3. /\ DOMAIN n = {"n", "kind", "sheet", "result"} /\ n.kind = kind /\ n.result = "none"
      /\ n.sheet = sheet
  BY <1>1, MessageFields
<1>4. MessageSound(n)
  BY <1>3 DEF MessageSound, Reads, Writes, ChannelKinds
<1> QED
  BY <1>2, <1>3, <1>4

LEMMA ChannelKeysStep ==
    ASSUME ScreensInv, otherUpdateChannel \/ SaveChannel \/ RefreshChannel
    PROVE  ScreensInv'
<1>1. settings = "channel" /\ UNCHANGED <<settings, kept, mounted, expiredOnce, crossed>>
  BY DEF otherUpdateChannel, SaveChannel, RefreshChannel, ChannelKey
<1>2. ASSUME otherUpdateChannel PROVE ScreensInv'
  <2> DEFINE h == [channel EXCEPT !.selected = 1 - @]
  <2>1. channel' = h /\ UNCHANGED messages
    BY <1>2 DEF otherUpdateChannel
  <2>2. /\ DOMAIN h = ChannelFields /\ h.loaded = channel.loaded /\ h.current = channel.current
        /\ h.saving = channel.saving
    BY ChannelFacts DEF ChannelFields
  <2> HIDE DEF h
  <2>3. SavedOnce' /\ (ChannelAgrees => ChannelAgrees')
    BY <1>1, <2>1, <2>2, ChannelFacts DEF SavedOnce, ChannelAgrees
  <2> QED
    BY <1>1, <2>1, <2>2, <2>3, ChannelStep
<1>3. ASSUME SaveChannel PROVE ScreensInv'
  <2> DEFINE h == [channel EXCEPT !.saving = TRUE]
             s == [config |-> channel.selected]
  <2>1. channel' = h /\ ~channel.saving /\ Asked("setChannel", s)
    BY <1>3 DEF SaveChannel
  <2>2. /\ DOMAIN h = ChannelFields /\ h.loaded = channel.loaded /\ h.current = channel.current
        /\ h.saving = TRUE
    BY ChannelFacts DEF ChannelFields
  <2>3. "config" \in DOMAIN s
    OBVIOUS
  <2> HIDE DEF h, s
  <2>4. PICK n : /\ messages' = messages \union {n} /\ MessageSound(n)
                 /\ n.result = "none" /\ n.kind = "setChannel"
    BY <1>1, <2>1, <2>3, AskedForChannel DEF ChannelKinds
  <2>5. \A k \in messages : k.kind # "setChannel"
    BY <2>1, ChannelFacts DEF SavedOnce
  <2>6. SavedOnce'
    BY <2>1, <2>2, <2>4, <2>5 DEF SavedOnce
  <2>7. ChannelAgrees => ChannelAgrees'
    BY <1>1, <2>1, <2>2, <2>4 DEF ChannelAgrees, ChannelComing
  <2> QED
    BY <1>1, <2>1, <2>2, <2>4, <2>6, <2>7, ChannelStep
<1>4. ASSUME RefreshChannel PROVE ScreensInv'
  <2>1. Asked("channel", Void) /\ UNCHANGED channel
    BY <1>4 DEF RefreshChannel
  <2>2. PICK n : /\ messages' = messages \union {n} /\ MessageSound(n)
                 /\ n.result = "none" /\ n.kind = "channel"
    BY <1>1, <2>1, AskedForChannel DEF ChannelKinds
  <2>3. SavedOnce'
    BY <1>1, <2>1, <2>2, ChannelFacts DEF SavedOnce
  <2>4. ChannelAgrees'
    BY <2>2 DEF ChannelAgrees, ChannelComing
  <2> QED
    BY <1>1, <2>1, <2>2, <2>3, <2>4, ChannelFacts, ChannelStep
<1> QED
  BY <1>2, <1>3, <1>4

LEMMA UpdateChannelLoadedStep ==
    ASSUME ScreensInv, NEW c \in messages, UpdateChannelLoaded(c)
    PROVE  ScreensInv'
<1>1. /\ Drop(c) /\ UNCHANGED <<settings, kept, mounted, expiredOnce, crossed>>
      /\ c.kind = "channel" /\ c.result \in {"ok", "failed"}
      /\ c.result = "failed" => channel' = channel
      /\ c.result = "ok" => channel' = [channel EXCEPT !.loaded = TRUE, !.current = c.sheet["config"],
                                                       !.selected = c.sheet["config"]]
  BY DEF UpdateChannelLoaded, Take
<1>2. settings = "channel"
  BY <1>1, ChannelFacts DEF MessageSound, ChannelKinds
<1>3. /\ DOMAIN channel' = ChannelFields /\ channel'.saving = channel.saving
      /\ c.result = "ok" => channel'.current = c.sheet["config"]
  BY <1>1, ChannelFacts DEF ChannelFields
<1>4. SavedOnce'
  BY <1>1, <1>3, DropKeeps, ChannelFacts DEF SavedOnce
<1>5. AnswersAgree => c.result = "ok" /\ c.sheet["config"] = kept["config"]
  BY <1>1 DEF AnswersAgree, Agrees, Telling, Reads, ChannelKinds
<1>6. AnswersAgree => ChannelAgrees'
  BY <1>1, <1>3, <1>5 DEF ChannelAgrees
<1> QED
  BY <1>1, <1>2, <1>3, <1>4, <1>6, DropKeeps, ChannelStep

LEMMA UpdateChannelUpdatedStep ==
    ASSUME ScreensInv, NEW c \in messages, UpdateChannelUpdated(c)
    PROVE  ScreensInv'
<1>1. /\ Drop(c) /\ UNCHANGED <<settings, kept, mounted, expiredOnce, crossed>>
      /\ c.kind = "setChannel" /\ c.result \in {"ok", "failed", "lost"}
      /\ c.result # "ok" => channel' = [channel EXCEPT !.saving = FALSE]
      /\ c.result = "ok" => channel' = [channel EXCEPT !.saving = FALSE, !.current = c.sheet["config"],
                                                       !.selected = c.sheet["config"]]
  BY DEF UpdateChannelUpdated, Take
<1>2. settings = "channel"
  BY <1>1, ChannelFacts DEF MessageSound, ChannelKinds
<1>3. /\ DOMAIN channel' = ChannelFields /\ channel'.saving = FALSE
      /\ channel'.loaded = channel.loaded
      /\ c.result = "ok" => channel'.current = c.sheet["config"]
      /\ c.result # "ok" => channel'.current = channel.current
  BY <1>1, ChannelFacts DEF ChannelFields
<1>4. \A k \in messages' : k.kind # "setChannel"
  BY <1>1, DropKeeps, ChannelFacts DEF SavedOnce
<1>5. SavedOnce'
  BY <1>3, <1>4 DEF SavedOnce
<1>6. AnswersAgree => (c.result = "ok" => c.sheet["config"] = kept["config"])
  BY <1>1 DEF AnswersAgree, Agrees, Telling, Reads, ChannelKinds
<1>7. c.result # "ok" => (ChannelComing(messages) => ChannelComing(messages'))
  BY <1>1, DropKeeps DEF ChannelComing, Done
<1>8. AnswersAgree /\ ChannelAgrees => ChannelAgrees'
  BY <1>1, <1>3, <1>6, <1>7 DEF ChannelAgrees
<1> QED
  BY <1>1, <1>2, <1>3, <1>5, <1>8, DropKeeps, ChannelStep

(***************************************************************************)
(* The settings screens together.                                          *)
(***************************************************************************)
LEMMA ScreensInvInit ==
    ScreensInit => ScreensInv
<1> SUFFICES ASSUME ScreensInit PROVE ScreensInv
  OBVIOUS
<1> DEFINE kind == IF settings = "channel" THEN "channel" ELSE "page"
<1>1. PICK n : n = Message(1, kind, Void)
  OBVIOUS
<1>2. messages = {n}
  BY <1>1 DEF ScreensInit
<1>3. DOMAIN n = {"n", "kind", "sheet", "result"} /\ n.kind = kind /\ n.result = "none"
  BY <1>1, MessageFields
<1>4. MessageSound(n) /\ n.kind # "setChannel"
  BY <1>3 DEF ScreensInit, MessageSound, Reads, Writes, ChannelKinds
<1>5. mounted # Void => mounted.page = Void /\ mounted.submitting = FALSE
  BY NewScreenSound DEF ScreensInit
<1>6. ScreenSound(mounted)
  BY NewScreenSound DEF ScreensInit, ScreenSound
<1>7. DOMAIN channel = ChannelFields /\ channel.loaded = FALSE /\ channel.saving = FALSE
  BY DEF ScreensInit, newUpdateChannelScreen, ChannelFields
<1>8. SubmittingIsUnderWay /\ SavedOnce
  BY <1>2, <1>4, <1>5, <1>7 DEF SubmittingIsUnderWay, SavedOnce
<1>9. ScreensBase
  BY <1>2, <1>4, <1>6, <1>7, <1>8 DEF ScreensBase, ScreensInit, ChannelFields
<1>10. AnswersAgree /\ PageAgrees /\ ChannelAgrees
  BY <1>2, <1>3, <1>5, <1>7 DEF AnswersAgree, PageAgrees, ChannelAgrees, Telling
<1> QED
  BY <1>9, <1>10 DEF ScreensInv

LEMMA ScreensInvStep ==
    ScreensInv /\ [ScreensNext]_screenVars => ScreensInv'
<1> SUFFICES ASSUME ScreensInv, [ScreensNext]_screenVars PROVE ScreensInv'
  OBVIOUS
<1> QED
  BY SettingsServedStep, ModalKeysStep, AskKeysStep, ActionKeysStep, FeaturePageLoadedStep,
     PolicyLoadedStep, FeatureConfiguredStep, FeatureActionCompletedStep, UnheardStep,
     SessionExpiredStep, MountStep, ChannelKeysStep, UpdateChannelLoadedStep,
     UpdateChannelUpdatedStep DEF ScreensNext

LEMMA ScreensAlways ==
    ScreensSpec => []ScreensInv
BY ScreensInvInit, ScreensInvStep, PTL DEF ScreensSpec

LEMMA ScreensShown ==
    ScreensInv => ShownIsKept /\ SubmittingIsUnderWay /\ ChannelSavedOnce
<1> SUFFICES ASSUME ScreensInv PROVE ShownIsKept /\ SubmittingIsUnderWay /\ ChannelSavedOnce
  OBVIOUS
<1>1. ShownIsKept
  <2>1. ~PageComing({}) /\ ~PolicyComing({}) /\ ~ChannelComing({})
    BY DEF PageComing, PolicyComing, ChannelComing
  <2> QED
    BY <2>1 DEF ScreensInv, ShownIsKept, PageAgrees, ChannelAgrees
<1>2. ChannelSavedOnce
  <2> DEFINE saves == {c \in messages : c.kind = "setChannel"}
  <2>1. SavedOnce
    BY ChannelFacts
  <2>2. saves = {} \/ \E a : saves = {a}
    BY <2>1 DEF SavedOnce
  <2>3. Cardinality({}) = 0 /\ \A a : Cardinality({a}) = 1
    BY FS_EmptySet, FS_Singleton
  <2>4. Cardinality(saves) <= 1
    <3> HIDE DEF saves
    <3>1. Cardinality(saves) \in {0, 1}
      BY <2>2, <2>3, Zenon
    <3> QED
      BY <3>1
  <2> QED
    BY <2>1, <2>4 DEF SavedOnce, ChannelSavedOnce
<1> QED
  BY <1>1, <1>2 DEF ScreensInv, ScreensBase

-----------------------------------------------------------------------------
(***************************************************************************)
(* OverrideEditor.  While calls about the editor's repository do not       *)
(* overlap there is at most one, and its answer says what is stored; a     *)
(* row that is behind has the answer of a write on its way; a count under  *)
(* way is the only one, and of the key the list will ask about.            *)
(***************************************************************************)
ListFields == {"keys", "selected", "pending", "usageLoading", "confirm", "adding"}
EditorFields == {"repo", "exists", "list", "loading", "pendingGlobalKeys", "prefillApplied",
                 "base", "seeded"}
AskFields == {"n", "kind", "repo", "keys", "all", "done"}
KeyList == Seq(TrustKey)

ListSound(l) == DOMAIN l = ListFields /\ l.keys \in KeyList /\ l.selected \in Int

\* The keys are shown as prefilled only where no override was told of.
EditorSound(e) ==
    /\ DOMAIN e = EditorFields /\ e.repo \in Fleet /\ ListSound(e.list)
    /\ e.exists = (e.base # Missing)
    /\ e.seeded => e.base = Missing /\ ~e.loading
    /\ e.pendingGlobalKeys # Missing => e.pendingGlobalKeys \in KeyList

AskSound(c, issued) ==
    /\ DOMAIN c = AskFields /\ c.n \in Nat /\ c.n <= issued /\ c.done \in BOOLEAN
    /\ c.kind \in Kinds => c.repo \in Fleet
    /\ c.kind \in Kinds \union {"policy"} /\ c.keys # Missing => c.keys \in KeyList

AsksSound(cs, issued) ==
    /\ issued \in Nat /\ \A c \in cs : AskSound(c, issued)
    /\ \A a, b \in cs : a.n = b.n => a = b

StoredSound(ov) == DOMAIN ov = Fleet /\ \A r \in Fleet : ov[r] # Missing => ov[r] \in KeyList

EditorBase ==
    /\ AsksSound(asks, asksSent) /\ StoredSound(overrides)
    /\ unsure \in BOOLEAN /\ missed \in BOOLEAN /\ reseeded \in BOOLEAN
    /\ editor # Missing => EditorSound(editor)

On(c, r) == c.kind \in Kinds /\ c.repo = r
Truthful(e, cs, ov) ==
    /\ \A a, b \in cs : On(a, e.repo) /\ On(b, e.repo) => a = b
    /\ \A a \in cs : On(a, e.repo) /\ a.done => a.keys = ov[e.repo]
    /\ ~e.loading => e.base = ov[e.repo] \/ \E a \in cs : On(a, e.repo) /\ a.done
EditorTold == editor # Missing /\ ~unsure => Truthful(editor, asks, overrides)

RowTold(rw, cs, ov, r) ==
    rw[r] = (ov[r] # Missing) \/ \E a \in cs : a.kind \in {"save", "clear"} /\ a.repo = r /\ a.done
RowsTold ==
    rows # Missing \/ editor # Missing =>
        /\ DOMAIN rows = Fleet
        /\ ~missed => \A r \in Fleet : RowTold(rows, asks, overrides, r)

PointsAt(l, k) == l.pending \in DOMAIN l.keys /\ l.keys[l.pending] = k
Counting(l, cs) ==
    /\ \A a, b \in cs : a.kind = "usage" /\ b.kind = "usage" => a = b
    /\ \A a \in cs : a.kind = "usage" => /\ l.usageLoading /\ l.confirm = Missing
                                         /\ PointsAt(l, a.keys[1])
    /\ l.confirm # Missing => PointsAt(l, l.confirm)
CountTold == editor # Missing /\ ~reseeded => Counting(editor.list, asks)

EditorInv == EditorBase /\ EditorTold /\ RowsTold /\ CountTold

(***************************************************************************)
(* Calls in flight.                                                        *)
(***************************************************************************)
LEMMA FewerAsks ==
    ASSUME NEW cs, NEW ds, ds \subseteq cs, NEW issued, AsksSound(cs, issued)
    PROVE  AsksSound(ds, issued)
BY DEF AsksSound

LEMMA RequestAdded ==
    ASSUME NEW cs, NEW issued, AsksSound(cs, issued), NEW kind, NEW r, NEW keys,
           kind \in Kinds => r \in Fleet,
           kind \in Kinds \union {"policy"} /\ keys # Missing => keys \in KeyList,
           NEW c, c = Request(issued + 1, kind, r, keys)
    PROVE  /\ AsksSound(cs \union {c}, issued + 1)
           /\ c.kind = kind /\ c.repo = r /\ c.keys = keys /\ ~c.done
<1>1. /\ DOMAIN c = AskFields /\ c.n = issued + 1 /\ c.kind = kind /\ c.repo = r
      /\ c.keys = keys /\ c.done = FALSE
  BY DEF Request, AskFields
<1>2. issued \in Nat /\ issued + 1 \in Nat /\ issued + 1 > issued
  BY DEF AsksSound
<1>3. AskSound(c, issued + 1)
  <2>1. c.n \in Nat /\ c.n <= issued + 1
    BY <1>1, <1>2
  <2>2. c.done \in BOOLEAN
    BY <1>1, Zenon
  <2>3. /\ c.kind \in Kinds => c.repo \in Fleet
        /\ c.kind \in Kinds \union {"policy"} /\ c.keys # Missing => c.keys \in KeyList
    BY <1>1
  <2> QED
    BY <1>1, <2>1, <2>2, <2>3 DEF AskSound
<1>4. \A a \in cs : a.n \in Nat /\ a.n <= issued /\ AskSound(a, issued + 1)
  BY <1>2 DEF AsksSound, AskSound
<1>5. \A a \in cs : a.n # c.n
  BY <1>1, <1>2, <1>4
<1>6. \A a, b \in cs \union {c} : a.n = b.n => a = b
  BY <1>5 DEF AsksSound
<1>7. AsksSound(cs \union {c}, issued + 1)
  BY <1>2, <1>3, <1>4, <1>6 DEF AsksSound
<1> QED
  BY <1>1, <1>7

(* A call that is answered keeps its number, kind and repository.          *)
LEMMA AskAnswered ==
    ASSUME NEW cs, NEW issued, AsksSound(cs, issued), NEW c \in cs, NEW d, DOMAIN d = AskFields,
           d.n = c.n, d.kind = c.kind, d.repo = c.repo, d.done = TRUE,
           d.kind \in Kinds \union {"policy"} /\ d.keys # Missing => d.keys \in KeyList
    PROVE  /\ {b \in cs : b.n # c.n} = cs \ {c}
           /\ AsksSound((cs \ {c}) \union {d}, issued)
<1>1. {b \in cs : b.n # c.n} = cs \ {c}
  BY DEF AsksSound
<1>2. AskSound(d, issued)
  BY DEF AsksSound, AskSound
<1>3. \A a, b \in (cs \ {c}) \union {d} : a.n = b.n => a = b
  BY DEF AsksSound
<1> QED
  BY <1>1, <1>2, <1>3 DEF AsksSound

(***************************************************************************)
(* Keys.                                                                   *)
(***************************************************************************)
(* A key of the editor: the override it was told of stays, and at most one *)
(* call is made, which is not answered yet.                                *)
LEMMA EditorKeyStep ==
    ASSUME EditorInv, editor # Missing, NEW e, editor' = e, EditorSound(e),
           e.repo = editor.repo, e.base = editor.base, e.loading = editor.loading,
           UNCHANGED <<overrides, rows, missed>>, AsksSound(asks', asksSent'),
           NEW d, asks' = asks \/ asks' = asks \union {d}, ~d.done,
           On(d, editor.repo) /\ (\E b \in asks : On(b, editor.repo)) => unsure',
           unsure => unsure', unsure' \in BOOLEAN, reseeded' \in BOOLEAN, CountTold'
    PROVE  EditorInv'
<1>1. EditorBase'
  BY DEF EditorInv, EditorBase
<1>2. EditorTold'
  <2> SUFFICES ASSUME ~unsure' PROVE Truthful(e, asks', overrides)
    BY DEF EditorTold
  <2>1. Truthful(editor, asks, overrides)
    BY DEF EditorInv, EditorTold, EditorBase
  <2>2. \A a \in asks' : a \in asks \/ a = d
    OBVIOUS
  <2>3. \A a, b \in asks' : On(a, e.repo) /\ On(b, e.repo) => a = b
    BY <2>1, <2>2 DEF Truthful
  <2>4. \A a \in asks' : On(a, e.repo) /\ a.done => a.keys = overrides[e.repo]
    BY <2>1, <2>2 DEF Truthful
  <2>5. ~e.loading => e.base = overrides[e.repo] \/ \E a \in asks' : On(a, e.repo) /\ a.done
    BY <2>1 DEF Truthful
  <2> QED
    BY <2>3, <2>4, <2>5 DEF Truthful
<1>3. RowsTold'
  BY DEF EditorInv, RowsTold, RowTold
<1> QED
  BY <1>1, <1>2, <1>3 DEF EditorInv

(* Keys that the list of keys takes.                                       *)
LEMMA ListBecomesStep ==
    ASSUME EditorInv, editor # Missing, NEW l, ListBecomes(l), ListSound(l),
           ~reseeded => Counting(l, asks)
    PROVE  EditorInv'
<1> DEFINE e == [editor EXCEPT !.list = l]
<1>1. editor' = e /\ UNCHANGED <<overrides, rows, asks, asksSent, unsure, missed, reseeded>>
  BY DEF ListBecomes
<1>2. EditorSound(editor)
  BY DEF EditorInv, EditorBase
<1>3. /\ DOMAIN e = EditorFields /\ e.list = l /\ e.repo = editor.repo /\ e.base = editor.base
      /\ e.loading = editor.loading /\ e.exists = editor.exists /\ e.seeded = editor.seeded
      /\ e.pendingGlobalKeys = editor.pendingGlobalKeys
  BY <1>2 DEF EditorSound, EditorFields
<1> HIDE DEF e
<1>4. EditorSound(e)
  BY <1>2, <1>3 DEF EditorSound
<1>5. CountTold'
  BY <1>1, <1>3 DEF CountTold
<1>6. AsksSound(asks', asksSent') /\ unsure \in BOOLEAN /\ reseeded \in BOOLEAN
  BY <1>1 DEF EditorInv, EditorBase
<1>7. PICK d : d = [done |-> FALSE, kind |-> "list"]
  OBVIOUS
<1>8. ~d.done /\ ~On(d, editor.repo)
  BY <1>7 DEF On, Kinds
<1> QED
  BY <1>1, <1>3, <1>4, <1>5, <1>6, <1>8, EditorKeyStep

LEMMA EditorFacts ==
    ASSUME EditorInv, editor # Missing
    PROVE  /\ EditorSound(editor) /\ DOMAIN editor = EditorFields /\ editor.repo \in Fleet
           /\ ListSound(editor.list) /\ DOMAIN editor.list = ListFields
           /\ editor.list.keys \in KeyList /\ editor.list.selected \in Int
           /\ ~reseeded => Counting(editor.list, asks)
           /\ AsksSound(asks, asksSent) /\ StoredSound(overrides)
           /\ unsure \in BOOLEAN /\ missed \in BOOLEAN /\ reseeded \in BOOLEAN
BY DEF EditorInv, EditorBase, EditorSound, ListSound, CountTold

LEMMA BoundedInt ==
    ASSUME NEW i \in Int, NEW n \in Nat
    PROVE  Bounded(i, n) \in Int /\ (n # 0 => Bounded(i, n) \in 1..n)
BY DEF Bounded

LEMMA SelectionKeysStep ==
    ASSUME EditorInv, (\E i \in 0..MaxKeys + 1 : MoveSelection(i)) \/ AddKey \/ CancelAdd
    PROVE  EditorInv'
<1>1. editor # Missing
  BY DEF MoveSelection, AddKey, CancelAdd
<1>2. ASSUME NEW s \in Int, ListBecomes([editor.list EXCEPT !.selected = s]) PROVE EditorInv'
  <2> DEFINE l == [editor.list EXCEPT !.selected = s]
  <2>1. /\ DOMAIN l = ListFields /\ l.keys = editor.list.keys /\ l.pending = editor.list.pending
        /\ l.usageLoading = editor.list.usageLoading /\ l.confirm = editor.list.confirm
        /\ l.selected = s
    BY <1>1, EditorFacts DEF ListFields
  <2>2. ListBecomes(l)
    BY <1>2
  <2> HIDE DEF l
  <2>3. ListSound(l) /\ (~reseeded => Counting(l, asks))
    BY <1>1, <2>1, EditorFacts DEF ListSound, Counting, PointsAt
  <2> QED
    BY <1>1, <2>2, <2>3, ListBecomesStep
<1>3. ASSUME NEW b, ListBecomes([editor.list EXCEPT !.adding = b]) PROVE EditorInv'
  <2> DEFINE l == [editor.list EXCEPT !.adding = b]
  <2>1. /\ DOMAIN l = ListFields /\ l.keys = editor.list.keys /\ l.pending = editor.list.pending
        /\ l.usageLoading = editor.list.usageLoading /\ l.confirm = editor.list.confirm
        /\ l.selected = editor.list.selected
    BY <1>1, EditorFacts DEF ListFields
  <2>2. ListBecomes(l)
    BY <1>3
  <2> HIDE DEF l
  <2>3. ListSound(l) /\ (~reseeded => Counting(l, asks))
    BY <1>1, <2>1, EditorFacts DEF ListSound, Counting, PointsAt
  <2> QED
    BY <1>1, <2>2, <2>3, ListBecomesStep
<1>4. AddKey \/ CancelAdd => EditorInv'
  BY <1>3 DEF AddKey, CancelAdd
<1>5. ASSUME NEW i \in 0..MaxKeys + 1, MoveSelection(i) PROVE EditorInv'
  <2> DEFINE s == Bounded(i, Len(editor.list.keys))
  <2>1. i \in Int /\ Len(editor.list.keys) \in Nat
    BY <1>1, <1>5, EditorFacts DEF MoveSelection, KeyList
  <2>2. s \in Int
    BY <2>1, BoundedInt
  <2>3. ListBecomes([editor.list EXCEPT !.selected = s])
    BY <1>5 DEF MoveSelection
  <2> HIDE DEF s
  <2> QED
    BY <1>2, <2>2, <2>3
<1> QED
  BY <1>4, <1>5

LEMMA commitAddStep ==
    ASSUME EditorInv, NEW k \in TrustKey, commitAdd(k)
    PROVE  EditorInv'
<1> DEFINE s == Len(editor.list.keys) + 1
           x == Append(editor.list.keys, k)
           l == [editor.list EXCEPT !.keys = x, !.adding = FALSE, !.selected = s]
<1>1. editor # Missing /\ ListBecomes(l)
  BY DEF commitAdd
<1>2. editor.list.keys \in Seq(TrustKey)
  BY <1>1, EditorFacts DEF KeyList
<1>3. /\ x \in Seq(TrustKey) /\ s \in Int
      /\ \A i \in DOMAIN editor.list.keys : i \in DOMAIN x /\ x[i] = editor.list.keys[i]
  BY <1>2
<1> HIDE DEF x, s
<1>4. /\ DOMAIN l = ListFields /\ l.keys = x /\ l.pending = editor.list.pending
      /\ l.usageLoading = editor.list.usageLoading /\ l.confirm = editor.list.confirm
      /\ l.selected = s
  BY <1>1, EditorFacts DEF ListFields
<1> HIDE DEF l
<1>5. ListSound(l)
  BY <1>3, <1>4 DEF ListSound, KeyList
<1>6. ~reseeded => Counting(l, asks)
  BY <1>1, <1>3, <1>4, EditorFacts DEF Counting, PointsAt
<1> QED
  BY <1>1, <1>5, <1>6, ListBecomesStep

LEMMA RemoveAtList ==
    ASSUME NEW keys \in Seq(TrustKey), NEW i \in DOMAIN keys
    PROVE  RemoveAt(keys, i) \in Seq(TrustKey)
<1>1. i \in 1..Len(keys) /\ Len(keys) \in Nat
  OBVIOUS
<1>2. SubSeq(keys, 1, i - 1) \in Seq(TrustKey)
  BY <1>1
<1>3. SubSeq(keys, i + 1, Len(keys)) \in Seq(TrustKey)
  BY <1>1
<1> QED
  BY <1>2, <1>3 DEF RemoveAt

LEMMA ConfirmDeleteStep ==
    ASSUME EditorInv, ConfirmDelete
    PROVE  EditorInv'
<1> DEFINE keys == IF editor.list.pending \in DOMAIN editor.list.keys
                   THEN RemoveAt(editor.list.keys, editor.list.pending) ELSE editor.list.keys
           s == Bounded(editor.list.selected, Len(keys))
           l == [editor.list EXCEPT !.keys = keys, !.confirm = Missing, !.selected = s]
           m == [editor.list EXCEPT !.confirm = Missing]
<1>1. editor # Missing /\ editor.list.confirm # Missing /\ (ListBecomes(l) \/ ListBecomes(m))
  BY DEF ConfirmDelete
<1>2. keys \in Seq(TrustKey)
  BY <1>1, EditorFacts, RemoveAtList DEF KeyList
<1> HIDE DEF keys
<1>3. s \in Int
  <2>1. Len(keys) \in Nat
    BY <1>2
  <2> QED
    BY <1>1, <2>1, EditorFacts, BoundedInt
<1> HIDE DEF s
<1>4. /\ DOMAIN l = ListFields /\ l.keys = keys /\ l.selected = s /\ l.confirm = Missing
      /\ l.usageLoading = editor.list.usageLoading
  BY <1>1, EditorFacts DEF ListFields
<1>5. /\ DOMAIN m = ListFields /\ m.keys = editor.list.keys /\ m.selected = editor.list.selected
      /\ m.confirm = Missing /\ m.usageLoading = editor.list.usageLoading
  BY <1>1, EditorFacts DEF ListFields
<1> HIDE DEF l, m
<1>6. ~reseeded => \A a \in asks : a.kind # "usage"
  BY <1>1, EditorFacts DEF Counting
<1>7. ListSound(l) /\ (~reseeded => Counting(l, asks))
  BY <1>2, <1>3, <1>4, <1>6 DEF ListSound, KeyList, Counting
<1>8. ListSound(m) /\ (~reseeded => Counting(m, asks))
  BY <1>1, <1>5, <1>6, EditorFacts DEF ListSound, Counting
<1> QED
  BY <1>1, <1>7, <1>8, ListBecomesStep

(* A call that a key makes.                                                *)
LEMMA SendsAdds ==
    ASSUME EditorInv, NEW kind, NEW r, NEW keys, Sends(kind, r, keys),
           kind \in Kinds => r \in Fleet,
           kind \in Kinds \union {"policy"} /\ keys # Missing => keys \in KeyList,
           NEW d, d = Request(asksSent + 1, kind, r, keys)
    PROVE  /\ AsksSound(asks', asksSent') /\ unsure' \in BOOLEAN /\ (unsure => unsure')
           /\ asks' = asks \union {d} /\ d.kind = kind /\ d.repo = r
           /\ d.keys = keys /\ ~d.done
           /\ On(d, r) /\ (\E b \in asks : On(b, r)) => unsure'
<1>1. /\ asks' = asks \union {d} /\ asksSent' = asksSent + 1
      /\ unsure' = (unsure \/ (kind \in Kinds /\ About(r) # {}))
  BY DEF Sends
<1>2. AsksSound(asks, asksSent) /\ unsure \in BOOLEAN
  BY DEF EditorInv, EditorBase
<1>3. /\ AsksSound(asks \union {d}, asksSent + 1)
      /\ d.kind = kind /\ d.repo = r /\ d.keys = keys /\ ~d.done
  BY <1>2, RequestAdded
<1>4. On(d, r) /\ (\E b \in asks : On(b, r)) => unsure'
  BY <1>1, <1>3 DEF On, About
<1> QED
  BY <1>1, <1>2, <1>3, <1>4

LEMMA DeleteKeyStep ==
    ASSUME EditorInv, DeleteKey
    PROVE  EditorInv'
<1>1. PICK i : i = Bounded(editor.list.selected, Len(editor.list.keys))
  OBVIOUS
<1> DEFINE l == [editor.list EXCEPT !.pending = i, !.usageLoading = TRUE]
           e == [editor EXCEPT !.list = l]
           k == <<editor.list.keys[i]>>
<1>2. /\ editor # Missing /\ ListIdle /\ editor.list.keys # <<>> /\ Sends("usage", editor.repo, k)
      /\ editor' = [editor EXCEPT !.list.pending = i, !.list.usageLoading = TRUE]
      /\ reseeded' = (reseeded /\ \E c \in asks : c.kind = "usage")
      /\ UNCHANGED <<overrides, rows, missed>>
  BY <1>1 DEF DeleteKey
<1>3. editor' = e
  BY <1>2, EditorFacts DEF EditorFields, ListFields
<1>4. i \in DOMAIN editor.list.keys
  <2>1. editor.list.keys \in Seq(TrustKey) /\ editor.list.selected \in Int
    BY <1>2, EditorFacts DEF KeyList
  <2>2. Len(editor.list.keys) \in Nat /\ Len(editor.list.keys) # 0
        /\ DOMAIN editor.list.keys = 1..Len(editor.list.keys)
    BY <1>2, <2>1
  <2> QED
    BY <1>1, <2>1, <2>2, BoundedInt
<1>5. k[1] = editor.list.keys[i]
  OBVIOUS
<1>6. /\ DOMAIN l = ListFields /\ l.keys = editor.list.keys /\ l.selected = editor.list.selected
      /\ l.confirm = editor.list.confirm /\ l.pending = i /\ l.usageLoading = TRUE
  BY <1>2, EditorFacts DEF ListFields
<1> HIDE DEF l, k
<1>7. /\ DOMAIN e = EditorFields /\ e.list = l /\ e.repo = editor.repo /\ e.base = editor.base
      /\ e.loading = editor.loading /\ e.exists = editor.exists /\ e.seeded = editor.seeded
      /\ e.pendingGlobalKeys = editor.pendingGlobalKeys
  BY <1>2, EditorFacts DEF EditorFields
<1> HIDE DEF e
<1>8. EditorSound(e)
  BY <1>2, <1>6, <1>7, EditorFacts DEF EditorSound, ListSound
<1>9. "usage" \notin Kinds \union {"policy"}
  BY DEF Kinds
<1>10. PICK d : d = Request(asksSent + 1, "usage", editor.repo, k)
  OBVIOUS
<1>11. /\ AsksSound(asks', asksSent') /\ unsure' \in BOOLEAN /\ (unsure => unsure')
       /\ asks' = asks \union {d} /\ d.kind = "usage" /\ d.keys = k /\ ~d.done
  BY <1>2, <1>9, <1>10, SendsAdds
<1>12. ~On(d, editor.repo)
  BY <1>9, <1>11 DEF On
<1>13. CountTold'
  <2> SUFFICES ASSUME ~reseeded' PROVE Counting(l, asks')
    BY <1>3, <1>7 DEF CountTold
  <2>1. \A a \in asks : a.kind # "usage"
    BY <1>2, EditorFacts DEF Counting, ListIdle
  <2>2. l.confirm = Missing /\ PointsAt(l, d.keys[1])
    BY <1>2, <1>4, <1>5, <1>6, <1>11 DEF ListIdle, PointsAt
  <2> QED
    BY <1>6, <1>11, <2>1, <2>2 DEF Counting
<1>14. reseeded' \in BOOLEAN
  BY <1>2, EditorFacts
<1> QED
  BY <1>2, <1>3, <1>7, <1>8, <1>11, <1>12, <1>13, <1>14, EditorKeyStep

LEMMA SaveKeysStep ==
    ASSUME EditorInv, SaveOverride \/ ClearOverride
    PROVE  EditorInv'
<1>1. PICK kind \in {"save", "clear"} : \E keys : 
         /\ Sends(kind, editor.repo, keys) /\ (keys # Missing => keys \in KeyList)
         /\ editor # Missing /\ UNCHANGED <<overrides, rows, editor, missed, reseeded>>
  <2>1. SaveOverride => Sends("save", editor.repo, editor.list.keys) /\ editor # Missing
                        /\ UNCHANGED <<overrides, rows, editor, missed, reseeded>>
    BY DEF SaveOverride
  <2>2. ClearOverride => Sends("clear", editor.repo, Missing) /\ editor # Missing
                         /\ UNCHANGED <<overrides, rows, editor, missed, reseeded>>
    BY DEF ClearOverride
  <2> QED
    BY <2>1, <2>2, EditorFacts
<1>2. PICK keys : Sends(kind, editor.repo, keys) /\ (keys # Missing => keys \in KeyList)
  BY <1>1
<1>3. kind \in Kinds /\ editor.repo \in Fleet
  BY <1>1, EditorFacts DEF Kinds
<1>4. PICK d : d = Request(asksSent + 1, kind, editor.repo, keys)
  OBVIOUS
<1>5. /\ AsksSound(asks', asksSent') /\ unsure' \in BOOLEAN /\ (unsure => unsure')
      /\ asks' = asks \union {d} /\ d.kind = kind /\ ~d.done
      /\ On(d, editor.repo) /\ (\E b \in asks : On(b, editor.repo)) => unsure'
  BY <1>2, <1>3, <1>4, SendsAdds
<1>6. CountTold'
  <2> SUFFICES ASSUME ~reseeded PROVE Counting(editor.list, asks')
    BY <1>1 DEF CountTold
  <2>1. Counting(editor.list, asks) /\ d.kind # "usage"
    BY <1>1, <1>5, EditorFacts
  <2> QED
    BY <1>5, <2>1 DEF Counting
<1>7. EditorSound(editor) /\ reseeded \in BOOLEAN
  BY <1>1, EditorFacts
<1> QED
  BY <1>1, <1>5, <1>6, <1>7, EditorKeyStep

LEMMA PageKeysStep ==
    ASSUME EditorInv, RefreshRows \/ CloseEditor \/ UNCHANGED editorVars
    PROVE  EditorInv'
<1>1. ASSUME RefreshRows PROVE EditorInv'
  <2>1. /\ Sends("list", Missing, Missing) /\ editor = Missing
        /\ UNCHANGED <<overrides, rows, editor, missed, reseeded>>
    BY <1>1 DEF RefreshRows
  <2>2. "list" \notin Kinds \union {"policy"}
    BY DEF Kinds
  <2>3. AsksSound(asks', asksSent') /\ unsure' \in BOOLEAN
    BY <2>1, <2>2, SendsAdds
  <2>4. asks \subseteq asks'
    BY <2>1 DEF Sends
  <2>5. RowsTold'
    BY <2>1, <2>4 DEF EditorInv, RowsTold, RowTold
  <2> QED
    BY <2>1, <2>3, <2>5 DEF EditorInv, EditorBase, EditorTold, CountTold
<1>2. ASSUME CloseEditor PROVE EditorInv'
  <2>1. /\ editor # Missing /\ editor' = Missing
        /\ UNCHANGED <<overrides, rows, asks, asksSent, unsure, missed, reseeded>>
    BY <1>2 DEF CloseEditor
  <2> QED
    BY <2>1 DEF EditorInv, EditorBase, EditorTold, RowsTold, CountTold
<1>3. ASSUME UNCHANGED editorVars PROVE EditorInv'
  BY <1>3 DEF editorVars, EditorInv, EditorBase, EditorTold, RowsTold, CountTold
<1> QED
  BY <1>1, <1>2, <1>3

LEMMA NewEditorSound ==
    ASSUME NEW r \in Fleet
    PROVE  LET e == newOverrideEditor(r)
           IN  /\ EditorSound(e) /\ e.repo = r /\ e.loading = TRUE
               /\ e.list.confirm = Missing
<1> DEFINE e == newOverrideEditor(r)
           l == newTrustedKeyList(<<>>)
<1>1. DOMAIN l = ListFields /\ l.keys = <<>> /\ l.selected = 1 /\ l.confirm = Missing
  BY DEF newTrustedKeyList, ListFields
<1>2. <<>> \in KeyList
  BY DEF KeyList
<1>3. /\ DOMAIN e = EditorFields /\ e.repo = r /\ e.list = l /\ e.exists = FALSE
      /\ e.base = Missing /\ e.seeded = FALSE /\ e.pendingGlobalKeys = Missing /\ e.loading = TRUE
  BY DEF newOverrideEditor, EditorFields
<1> HIDE DEF e, l
<1>4. ListSound(l)
  BY <1>1, <1>2 DEF ListSound
<1>5. EditorSound(e)
  BY <1>3, <1>4 DEF EditorSound
<1> QED
  BY <1>1, <1>3, <1>5 DEF e

LEMMA OpenEditorStep ==
    ASSUME EditorInv, NEW r \in Fleet, OpenEditor(r)
    PROVE  EditorInv'
<1>1. PICK d : d = Request(asksSent + 1, "load", r, Missing)
  OBVIOUS
<1>2. PICK e : e = newOverrideEditor(r)
  OBVIOUS
<1>3. /\ rows # Missing /\ editor' = e /\ asksSent' = asksSent + 1
      /\ asks' = asks \union {d} /\ unsure' = (About(r) # {})
      /\ reseeded' = (\E c \in asks : c.kind = "usage") /\ UNCHANGED <<overrides, rows, missed>>
  BY <1>1, <1>2 DEF OpenEditor
<1>4. EditorSound(e) /\ e.repo = r /\ e.loading = TRUE /\ e.list.confirm = Missing
  BY <1>2, NewEditorSound
<1>5. AsksSound(asks, asksSent)
  BY DEF EditorInv, EditorBase
<1>6. AsksSound(asks \union {d}, asksSent + 1) /\ d.kind = "load" /\ d.repo = r /\ ~d.done
  BY <1>1, <1>5, RequestAdded
<1>7. EditorBase'
  BY <1>3, <1>4, <1>6 DEF EditorInv, EditorBase
<1>8. EditorTold'
  <2> SUFFICES ASSUME ~unsure' PROVE Truthful(e, asks', overrides)
    BY <1>3 DEF EditorTold
  <2>1. \A a \in asks : ~On(a, r)
    BY <1>3 DEF About, On
  <2> QED
    BY <1>3, <1>4, <1>6, <2>1 DEF Truthful
<1>9. RowsTold'
  BY <1>3 DEF EditorInv, RowsTold, RowTold
<1>10. CountTold'
  <2> SUFFICES ASSUME ~reseeded' PROVE Counting(e.list, asks')
    BY <1>3 DEF CountTold
  <2>1. \A a \in asks' : a.kind # "usage"
    BY <1>3, <1>6
  <2> QED
    BY <1>4, <2>1 DEF Counting
<1> QED
  BY <1>7, <1>8, <1>9, <1>10 DEF EditorInv

(***************************************************************************)
(* Answers.                                                                *)
(***************************************************************************)
(* An answer that tells the editor and the rows nothing about an override: *)
(* it is none, or nobody's, or it is lost and that is remembered.          *)
LEMMA AskDropsStep ==
    ASSUME EditorInv, NEW c \in asks, asks' = asks \ {c}, UNCHANGED <<overrides, rows, asksSent>>,
           unsure' \in BOOLEAN, missed' \in BOOLEAN, reseeded' \in BOOLEAN,
           unsure => unsure', missed => missed',
           c.kind \in {"save", "clear"} /\ c.done => missed',
           NEW e, editor' = e, editor = Missing => e = Missing,
           e # Missing => EditorSound(e),
           e # Missing /\ ~unsure' => /\ e.repo = editor.repo /\ e.base = editor.base
                                      /\ e.loading = editor.loading
                                      /\ ~(On(c, editor.repo) /\ c.done),
           CountTold'
    PROVE  EditorInv'
<1>1. AsksSound(asks', asksSent')
  BY FewerAsks DEF EditorInv, EditorBase
<1>2. EditorBase'
  BY <1>1 DEF EditorInv, EditorBase
<1>3. EditorTold'
  <2> SUFFICES ASSUME e # Missing, ~unsure' PROVE Truthful(e, asks', overrides)
    BY DEF EditorTold
  <2>1. Truthful(editor, asks, overrides)
    BY DEF EditorInv, EditorBase, EditorTold
  <2>2. \A a \in asks' : a \in asks
    OBVIOUS
  <2>3. \A a \in asks : On(a, editor.repo) /\ a.done => a \in asks'
    OBVIOUS
  <2> QED
    BY <2>1, <2>2, <2>3 DEF Truthful
<1>4. RowsTold'
  <2> SUFFICES ASSUME rows # Missing \/ editor # Missing, ~missed', NEW r \in Fleet
               PROVE  RowTold(rows, asks', overrides, r)
    BY DEF EditorInv, RowsTold
  <2>1. RowTold(rows, asks, overrides, r)
    BY DEF EditorInv, EditorBase, RowsTold
  <2> QED
    BY <2>1 DEF RowTold
<1> QED
  BY <1>2, <1>3, <1>4 DEF EditorInv

LEMMA FewerCounts ==
    ASSUME NEW l, NEW cs, NEW ds, ds \subseteq cs, Counting(l, cs)
    PROVE  Counting(l, ds)
BY DEF Counting

LEMMA UnappliedStep ==
    ASSUME EditorInv, NEW c \in asks, Unapplied(c), c.kind \notin {"save", "clear"},
           editor # Missing => ~On(c, editor.repo)
    PROVE  EditorInv'
<1>1. /\ asks' = asks \ {c}
      /\ UNCHANGED <<overrides, rows, editor, asksSent, unsure, missed, reseeded>>
  BY DEF Unapplied
<1>2. CountTold'
  BY <1>1, FewerCounts DEF EditorInv, CountTold
<1>3. unsure \in BOOLEAN /\ missed \in BOOLEAN /\ reseeded \in BOOLEAN
      /\ (editor # Missing => EditorSound(editor))
  BY DEF EditorInv, EditorBase
<1> QED
  BY <1>1, <1>2, <1>3, AskDropsStep

(* The prefill changes the list and what is said of it, and only where no  *)
(* override was told of.                                                   *)
LEMMA PrefillSound ==
    ASSUME NEW e, EditorSound(e)
    PROVE  LET f == maybeApplyGlobalPrefill(e)
           IN  /\ EditorSound(f) /\ f.repo = e.repo /\ f.base = e.base /\ f.loading = e.loading
               /\ f.list.pending = e.list.pending /\ f.list.confirm = e.list.confirm
               /\ f.list.usageLoading = e.list.usageLoading
<1> DEFINE f == maybeApplyGlobalPrefill(e)
           l == SetKeys(e.list, e.pendingGlobalKeys)
           g == [e EXCEPT !.prefillApplied = TRUE]
           h == [e EXCEPT !.prefillApplied = TRUE, !.list = l, !.seeded = TRUE]
<1>1. DOMAIN e = EditorFields /\ ListSound(e.list) /\ DOMAIN e.list = ListFields
  BY DEF EditorSound, ListSound
<1>2. CASE f = e
  BY <1>2
<1>3. CASE f = g
  <2>1. /\ DOMAIN g = EditorFields /\ g.repo = e.repo /\ g.base = e.base /\ g.loading = e.loading
        /\ g.list = e.list /\ g.exists = e.exists /\ g.seeded = e.seeded
        /\ g.pendingGlobalKeys = e.pendingGlobalKeys
    BY <1>1 DEF EditorFields
  <2> HIDE DEF f, g
  <2>2. EditorSound(g)
    BY <2>1 DEF EditorSound
  <2> QED
    BY <1>3, <2>1, <2>2 DEF f
<1>4. CASE f = h /\ ~e.exists /\ ~e.loading /\ e.pendingGlobalKeys # Missing
  <2>1. e.pendingGlobalKeys \in Seq(TrustKey)
    BY <1>4 DEF EditorSound, KeyList
  <2>2. Bounded(e.list.selected, Len(e.pendingGlobalKeys)) \in Int
    <3>1. Len(e.pendingGlobalKeys) \in Nat /\ e.list.selected \in Int
      BY <1>1, <2>1 DEF ListSound
    <3> QED
      BY <3>1, BoundedInt
  <2>3. /\ DOMAIN l = ListFields /\ l.keys = e.pendingGlobalKeys /\ l.pending = e.list.pending
        /\ l.confirm = e.list.confirm /\ l.usageLoading = e.list.usageLoading
        /\ l.selected = Bounded(e.list.selected, Len(e.pendingGlobalKeys))
    BY <1>1 DEF SetKeys, ListFields
  <2> HIDE DEF l
  <2>4. ListSound(l)
    BY <2>1, <2>2, <2>3 DEF ListSound, KeyList
  <2>5. /\ DOMAIN h = EditorFields /\ h.repo = e.repo /\ h.base = e.base /\ h.loading = e.loading
        /\ h.list = l /\ h.exists = e.exists
        /\ h.pendingGlobalKeys = e.pendingGlobalKeys
    BY <1>1 DEF EditorFields
  <2> HIDE DEF f, h
  <2>6. e.base = Missing
    BY <1>4 DEF EditorSound
  <2>7. EditorSound(h)
    BY <1>4, <2>4, <2>5, <2>6 DEF EditorSound
  <2> QED
    BY <1>4, <2>3, <2>5, <2>7 DEF f
<1> QED
  BY <1>2, <1>3, <1>4 DEF maybeApplyGlobalPrefill

LEMMA OverrideApplied ==
    ASSUME NEW e, EditorSound(e), NEW keys, keys # Missing => keys \in KeyList
    PROVE  LET f == applyOverride(e, keys)
           IN  EditorSound(f) /\ f.repo = e.repo /\ f.base = keys /\ f.loading = e.loading
<1> DEFINE x == IF keys = Missing THEN <<>> ELSE keys
           l == newTrustedKeyList(x)
           f == applyOverride(e, keys)
           b == keys # Missing
<1>1. x \in KeyList
  <2>1. <<>> \in KeyList
    BY DEF KeyList
  <2> QED
    BY <2>1
<1>2. DOMAIN l = ListFields /\ l.keys = x /\ l.selected = 1
  BY DEF newTrustedKeyList, ListFields
<1>3. ListSound(l)
  <2> HIDE DEF x, l
  <2> QED
    BY <1>1, <1>2 DEF ListSound
<1>4. DOMAIN e = EditorFields
  BY DEF EditorSound
<1>5. f = [e EXCEPT !.exists = b, !.base = keys, !.seeded = FALSE, !.list = l]
  BY DEF applyOverride
<1> HIDE DEF f, l, x
<1>6. /\ DOMAIN f = EditorFields /\ f.list = l /\ f.repo = e.repo /\ f.base = keys
      /\ f.loading = e.loading /\ f.pendingGlobalKeys = e.pendingGlobalKeys
      /\ f.exists = b /\ ~f.seeded
  BY <1>4, <1>5 DEF EditorFields
<1>7. EditorSound(f)
  BY <1>3, <1>6 DEF EditorSound
<1> QED
  BY <1>6, <1>7 DEF f

LEMMA AskFacts ==
    ASSUME EditorInv, NEW c \in asks
    PROVE  /\ AskSound(c, asksSent) /\ (c.kind \in Kinds => c.repo \in Fleet)
           /\ c.kind \in Kinds \union {"policy"} /\ c.keys # Missing => c.keys \in KeyList
           /\ unsure \in BOOLEAN /\ missed \in BOOLEAN /\ reseeded \in BOOLEAN
BY DEF EditorInv, EditorBase, AsksSound, AskSound

LEMMA applyUsageLoadedStep ==
    ASSUME EditorInv, NEW c \in asks, applyUsageLoaded(c)
    PROVE  EditorInv'
<1>1. c.kind = "usage" /\ c.kind \notin Kinds
  BY DEF applyUsageLoaded, Kinds
<1>2. CASE Unapplied(c)
  BY <1>1, <1>2, UnappliedStep DEF On
<1>3. ASSUME editor # Missing, editor.list.usageLoading,
             editor' = [editor EXCEPT !.list.usageLoading = FALSE, !.list.confirm = c.keys[1]],
             asks' = asks \ {c},
             UNCHANGED <<overrides, rows, asksSent, unsure, missed, reseeded>>
      PROVE  EditorInv'
  <2> DEFINE l == [editor.list EXCEPT !.usageLoading = FALSE, !.confirm = c.keys[1]]
             e == [editor EXCEPT !.list = l]
  <2>1. editor' = e
    BY <1>3, EditorFacts DEF EditorFields, ListFields
  <2>2. /\ DOMAIN l = ListFields /\ l.keys = editor.list.keys /\ l.selected = editor.list.selected
        /\ l.pending = editor.list.pending /\ l.confirm = c.keys[1]
    BY <1>3, EditorFacts DEF ListFields
  <2> HIDE DEF l
  <2>3. /\ DOMAIN e = EditorFields /\ e.list = l /\ e.repo = editor.repo /\ e.base = editor.base
        /\ e.loading = editor.loading /\ e.exists = editor.exists /\ e.seeded = editor.seeded
        /\ e.pendingGlobalKeys = editor.pendingGlobalKeys
    BY <1>3, EditorFacts DEF EditorFields
  <2> HIDE DEF e
  <2>4. EditorSound(e)
    BY <1>3, <2>2, <2>3, EditorFacts DEF EditorSound, ListSound
  <2>5. CountTold'
    <3> SUFFICES ASSUME ~reseeded PROVE Counting(l, asks')
      BY <1>3, <2>1, <2>3 DEF CountTold
    <3>1. Counting(editor.list, asks)
      BY <1>3, EditorFacts
    <3>2. \A a \in asks' : a.kind # "usage"
      BY <1>1, <1>3, <3>1 DEF Counting
    <3>3. PointsAt(l, c.keys[1])
      BY <1>1, <2>2, <3>1 DEF Counting, PointsAt
    <3> QED
      BY <2>2, <3>2, <3>3 DEF Counting
  <2> QED
    BY <1>1, <1>3, <2>1, <2>3, <2>4, <2>5, AskDropsStep, AskFacts DEF On
<1> QED
  BY <1>2, <1>3 DEF applyUsageLoaded

LEMMA applyGlobalPolicyLoadedStep ==
    ASSUME EditorInv, NEW c \in asks, applyGlobalPolicyLoaded(c)
    PROVE  EditorInv'
<1>1. c.kind = "policy" /\ c.kind \notin Kinds
  BY DEF applyGlobalPolicyLoaded, Kinds
<1>2. CASE editor = Missing
  BY <1>1, <1>2, UnappliedStep DEF On, applyGlobalPolicyLoaded
<1>3. CASE editor # Missing
  <2> DEFINE g == [editor EXCEPT !.pendingGlobalKeys = c.keys]
  <2>1. PICK e : e = maybeApplyGlobalPrefill(g)
    OBVIOUS
  <2>2. /\ editor' = e /\ asks' = asks \ {c}
        /\ reseeded' = (reseeded \/ editor'.list.keys # editor.list.keys)
        /\ UNCHANGED <<overrides, rows, asksSent, unsure, missed>>
    BY <1>3, <2>1 DEF applyGlobalPolicyLoaded
  <2>3. /\ DOMAIN g = EditorFields /\ g.list = editor.list /\ g.repo = editor.repo
        /\ g.base = editor.base /\ g.loading = editor.loading /\ g.exists = editor.exists
        /\ g.seeded = editor.seeded /\ g.pendingGlobalKeys = c.keys
    BY <1>3, EditorFacts DEF EditorFields
  <2> HIDE DEF g
  <2>4. c.keys # Missing => c.keys \in KeyList
    BY <1>1, AskFacts
  <2>5. EditorSound(g)
    BY <1>3, <2>3, <2>4, EditorFacts DEF EditorSound
  <2>6. /\ EditorSound(e) /\ e.repo = g.repo /\ e.base = g.base /\ e.loading = g.loading
        /\ e.list.pending = g.list.pending /\ e.list.confirm = g.list.confirm
        /\ e.list.usageLoading = g.list.usageLoading
    BY <2>1, <2>5, PrefillSound
  <2>7. reseeded' \in BOOLEAN
    BY <1>3, <2>2, EditorFacts
  <2>8. CountTold'
    <3> SUFFICES ASSUME ~reseeded' PROVE Counting(e.list, asks')
      BY <2>2 DEF CountTold
    <3>1. ~reseeded /\ e.list.keys = editor.list.keys
      BY <2>2
    <3>2. Counting(editor.list, asks')
      BY <1>3, <2>2, <3>1, EditorFacts, FewerCounts
    <3> QED
      BY <2>3, <2>6, <3>1, <3>2 DEF Counting, PointsAt
  <2> QED
    BY <1>1, <1>3, <2>2, <2>3, <2>6, <2>7, <2>8, AskDropsStep, AskFacts DEF On
<1> QED
  BY <1>2, <1>3

LEMMA FeatureOverridesLoadedStep ==
    ASSUME EditorInv, NEW c \in asks, FeatureOverridesLoaded(c)
    PROVE  EditorInv'
<1>1. c.kind = "list" /\ c.kind \notin Kinds
  BY DEF FeatureOverridesLoaded, Kinds
<1>2. CASE editor # Missing
  BY <1>1, <1>2, UnappliedStep DEF On, FeatureOverridesLoaded
<1>3. CASE editor = Missing
  <2>1. /\ rows' = [r \in Fleet |-> c.all[r] # Missing] /\ asks' = asks \ {c}
        /\ missed' = (c.all # overrides)
        /\ UNCHANGED <<overrides, editor, asksSent, unsure, reseeded>>
    BY <1>3 DEF FeatureOverridesLoaded
  <2>2. AsksSound(asks', asksSent')
    BY <2>1, FewerAsks DEF EditorInv, EditorBase
  <2>3. EditorBase'
    BY <1>3, <2>1, <2>2 DEF EditorInv, EditorBase
  <2>4. EditorTold' /\ CountTold'
    BY <1>3, <2>1 DEF EditorTold, CountTold
  <2>5. RowsTold'
    BY <2>1 DEF RowsTold, RowTold
  <2> QED
    BY <2>3, <2>4, <2>5 DEF EditorInv
<1> QED
  BY <1>2, <1>3

LEMMA AskFailedStep ==
    ASSUME EditorInv, NEW c \in asks, AskFailed(c)
    PROVE  EditorInv'
<1>1. /\ asks' = asks \ {c} /\ UNCHANGED <<overrides, rows, asksSent, reseeded>>
      /\ unsure' = (unsure \/ (c.kind = "load" /\ Concerns(c)) \/ (c.kind \in {"save", "clear"} /\ c.done))
      /\ missed' = (missed \/ (c.kind \in {"save", "clear"} /\ c.done))
      /\ \/ editor' = IF c.kind = "load" /\ Concerns(c) THEN [editor EXCEPT !.loading = FALSE]
                      ELSE IF c.kind = "usage" /\ editor # Missing
                      THEN [editor EXCEPT !.list.usageLoading = FALSE] ELSE editor
         \/ c.kind = "load" /\ UNCHANGED editor
  BY DEF AskFailed
<1>2. /\ unsure' \in BOOLEAN /\ missed' \in BOOLEAN /\ reseeded' \in BOOLEAN
      /\ (unsure => unsure') /\ (missed => missed')
  BY <1>1, AskFacts
<1>3. ASSUME editor # Missing, ~unsure' PROVE ~(On(c, editor.repo) /\ c.done)
  BY <1>1, <1>3 DEF On, Kinds, Concerns
<1>4. CASE c.kind = "load" /\ Concerns(c) /\ editor' # editor
  <2> DEFINE e == [editor EXCEPT !.loading = FALSE]
  <2>1. editor # Missing /\ editor' = e /\ unsure'
    BY <1>1, <1>4 DEF Concerns
  <2>2. /\ DOMAIN e = EditorFields /\ e.list = editor.list /\ e.repo = editor.repo
        /\ e.base = editor.base /\ e.exists = editor.exists /\ e.seeded = editor.seeded
        /\ e.pendingGlobalKeys = editor.pendingGlobalKeys /\ e.loading = FALSE
    BY <2>1, EditorFacts DEF EditorFields
  <2> HIDE DEF e
  <2>3. EditorSound(e)
    BY <2>1, <2>2, EditorFacts DEF EditorSound
  <2>4. CountTold'
    <3>1. ~reseeded => Counting(editor.list, asks')
      BY <1>1, <2>1, EditorFacts, FewerCounts
    <3> QED
      BY <1>1, <2>1, <2>2, <3>1 DEF CountTold
  <2> QED
    BY <1>1, <1>2, <2>1, <2>3, <2>4, AskDropsStep
<1>5. CASE c.kind = "usage" /\ editor # Missing
  <2> DEFINE l == [editor.list EXCEPT !.usageLoading = FALSE]
             e == [editor EXCEPT !.list = l]
  <2>1. editor' = e
    BY <1>1, <1>5, EditorFacts DEF EditorFields, ListFields
  <2>2. /\ DOMAIN l = ListFields /\ l.keys = editor.list.keys /\ l.selected = editor.list.selected
        /\ l.pending = editor.list.pending /\ l.confirm = editor.list.confirm
    BY <1>5, EditorFacts DEF ListFields
  <2> HIDE DEF l
  <2>3. /\ DOMAIN e = EditorFields /\ e.list = l /\ e.repo = editor.repo /\ e.base = editor.base
        /\ e.loading = editor.loading /\ e.exists = editor.exists /\ e.seeded = editor.seeded
        /\ e.pendingGlobalKeys = editor.pendingGlobalKeys
    BY <1>5, EditorFacts DEF EditorFields
  <2> HIDE DEF e
  <2>4. EditorSound(e)
    BY <1>5, <2>2, <2>3, EditorFacts DEF EditorSound, ListSound
  <2>5. CountTold'
    <3> SUFFICES ASSUME ~reseeded PROVE Counting(l, asks')
      BY <1>1, <2>1, <2>3 DEF CountTold
    <3>1. Counting(editor.list, asks)
      BY <1>5, EditorFacts
    <3>2. \A a \in asks' : a.kind # "usage"
      BY <1>1, <1>5, <3>1 DEF Counting
    <3> QED
      BY <2>2, <3>1, <3>2 DEF Counting, PointsAt
  <2> QED
    BY <1>1, <1>2, <1>3, <1>5, <2>1, <2>3, <2>4, <2>5, AskDropsStep
<1>6. CASE editor' = editor
  <2>1. CountTold'
    BY <1>1, <1>6, FewerCounts DEF EditorInv, CountTold
  <2>2. editor # Missing => EditorSound(editor)
    BY EditorFacts
  <2> QED
    BY <1>1, <1>2, <1>3, <1>6, <2>1, <2>2, AskDropsStep
<1> QED
  BY <1>1, <1>4, <1>5, <1>6

(* The editor is told of its override by the only call about it, so what   *)
(* it is told is what is stored.                                           *)
LEMMA ToldOnce ==
    ASSUME EditorInv, NEW c \in asks, editor # Missing, On(c, editor.repo), c.done,
           NEW cs, NEW new, \A a \in cs : (a \in asks /\ a # c) \/ (a = new /\ new.kind \notin Kinds),
           NEW e, e.repo = editor.repo, e.base = c.keys, ~unsure
    PROVE  Truthful(e, cs, overrides)
<1>1. Truthful(editor, asks, overrides)
  BY DEF EditorInv, EditorBase, EditorTold
<1>2. \A a \in cs : ~On(a, editor.repo)
  BY <1>1 DEF Truthful, On
<1>3. c.keys = overrides[editor.repo]
  BY <1>1 DEF Truthful
<1> QED
  BY <1>2, <1>3 DEF Truthful

LEMMA applyLoadedStep ==
    ASSUME EditorInv, NEW c \in asks, applyLoaded(c)
    PROVE  EditorInv'
<1>1. c.kind = "load" /\ c.done /\ c.kind \in Kinds
  BY DEF applyLoaded, Kinds
<1>2. CASE ~Concerns(c)
  <2>1. Unapplied(c)
    BY <1>2 DEF applyLoaded
  <2> QED
    BY <1>1, <1>2, <2>1, UnappliedStep DEF On, Concerns
<1>3. CASE Concerns(c)
  <2> DEFINE g == [editor EXCEPT !.loading = FALSE]
  <2>1. PICK e : e = maybeApplyGlobalPrefill(applyOverride(g, c.keys))
    OBVIOUS
  <2>2. PICK new : new = Request(asksSent + 1, "policy", Missing, Missing)
    OBVIOUS
  <2>3. /\ editor # Missing /\ On(c, editor.repo) /\ editor' = e /\ reseeded' = TRUE
        /\ \/ asks' = (asks \ {c}) \union {new} /\ asksSent' = asksSent + 1
           \/ asks' = asks \ {c} /\ asksSent' = asksSent
        /\ UNCHANGED <<overrides, rows, unsure, missed>>
    BY <1>1, <1>3, <2>1, <2>2 DEF applyLoaded, Concerns, On
  <2>4. /\ DOMAIN g = EditorFields /\ g.list = editor.list /\ g.repo = editor.repo
        /\ g.base = editor.base /\ g.exists = editor.exists /\ g.seeded = editor.seeded
        /\ g.pendingGlobalKeys = editor.pendingGlobalKeys /\ ~g.loading
    BY <2>3, EditorFacts DEF EditorFields
  <2> HIDE DEF g
  <2>5. EditorSound(g)
    BY <2>3, <2>4, EditorFacts DEF EditorSound
  <2>6. PICK f : f = applyOverride(g, c.keys)
    OBVIOUS
  <2>7. c.keys # Missing => c.keys \in KeyList
    BY <1>1, AskFacts
  <2>8. EditorSound(f) /\ f.repo = g.repo /\ f.base = c.keys
    BY <2>5, <2>6, <2>7, OverrideApplied
  <2>9. EditorSound(e) /\ e.repo = f.repo /\ e.base = f.base
    BY <2>1, <2>6, <2>8, PrefillSound
  <2>10. AsksSound(asks, asksSent) /\ AsksSound(asks \ {c}, asksSent)
    BY <2>3, EditorFacts, FewerAsks
  <2>11. "policy" \notin Kinds
    BY DEF Kinds
  <2>12. AsksSound((asks \ {c}) \union {new}, asksSent + 1) /\ new.kind = "policy"
    BY <2>2, <2>10, <2>11, RequestAdded
  <2>13. AsksSound(asks', asksSent')
    BY <2>3, <2>10, <2>12
  <2>14. EditorBase'
    BY <2>3, <2>9, <2>13 DEF EditorInv, EditorBase
  <2>15. EditorTold'
    <3>1. \A a \in asks' : (a \in asks /\ a # c) \/ (a = new /\ new.kind \notin Kinds)
      BY <2>3, <2>11, <2>12
    <3>2. ~unsure => Truthful(e, asks', overrides)
      BY <1>1, <2>3, <2>4, <2>8, <2>9, <3>1, ToldOnce
    <3> QED
      BY <2>3, <3>2 DEF EditorTold
  <2>16. RowsTold'
    <3>1. \A a \in asks : a.kind \in {"save", "clear"} => a \in asks'
      BY <1>1, <2>3
    <3> QED
      BY <2>3, <3>1 DEF EditorInv, RowsTold, RowTold
  <2>17. CountTold'
    BY <2>3 DEF CountTold
  <2> QED
    BY <2>14, <2>15, <2>16, <2>17 DEF EditorInv
<1> QED
  BY <1>2, <1>3

LEMMA applySavedStep ==
    ASSUME EditorInv, NEW c \in asks, applySaved(c)
    PROVE  EditorInv'
<1>1. /\ c.kind \in {"save", "clear"} /\ c.done /\ c.kind \in Kinds /\ asks' = asks \ {c}
      /\ UNCHANGED <<overrides, asksSent, unsure>>
  BY DEF applySaved, Kinds
<1>2. AsksSound(asks', asksSent')
  BY <1>1, FewerAsks DEF EditorInv, EditorBase
<1>3. CASE editor = Missing
  <2>1. missed' = TRUE /\ UNCHANGED <<rows, editor, reseeded>>
    BY <1>3 DEF applySaved
  <2>2. EditorBase'
    BY <1>1, <1>2, <1>3, <2>1 DEF EditorInv, EditorBase
  <2> QED
    BY <1>3, <2>1, <2>2 DEF EditorInv, EditorTold, RowsTold, CountTold
<1>4. CASE editor # Missing
  <2>1. /\ rows' = [rows EXCEPT ![c.repo] = c.keys # Missing]
        /\ missed' = (missed \/ c.keys # overrides[c.repo])
    BY <1>4 DEF applySaved, applySavedToRow
  <2>2. c.repo \in Fleet /\ DOMAIN rows = Fleet
    BY <1>1, <1>4, AskFacts DEF EditorInv, RowsTold
  <2>3. RowsTold'
    <3>1. DOMAIN rows' = Fleet
      BY <2>1, <2>2
    <3>2. ASSUME ~missed', NEW r \in Fleet PROVE RowTold(rows', asks', overrides, r)
      <4>1. RowTold(rows, asks, overrides, r) /\ c.keys = overrides[c.repo]
        BY <1>4, <2>1, <3>2 DEF EditorInv, EditorBase, RowsTold
      <4>2. CASE r = c.repo
        BY <2>1, <2>2, <4>1, <4>2 DEF RowTold
      <4>3. CASE r # c.repo
        <5>1. rows'[r] = rows[r]
          BY <2>1, <2>2, <4>3
        <5> QED
          BY <1>1, <4>1, <4>3, <5>1 DEF RowTold
      <4> QED
        BY <4>2, <4>3
    <3> QED
      BY <1>1, <3>1, <3>2 DEF RowsTold
  <2>4. missed' \in BOOLEAN
    BY <2>1, AskFacts
  <2>5. CASE Concerns(c)
    <3>1. PICK e : e = applyOverride(editor, c.keys)
      OBVIOUS
    <3>2. editor' = e /\ reseeded' = TRUE /\ On(c, editor.repo)
      BY <1>1, <1>4, <2>5, <3>1 DEF applySaved, Concerns, On
    <3>3. c.keys # Missing => c.keys \in KeyList
      BY <1>1, AskFacts
    <3>4. EditorSound(e) /\ e.repo = editor.repo /\ e.base = c.keys
      BY <1>4, <3>1, <3>3, EditorFacts, OverrideApplied
    <3>5. EditorBase'
      BY <1>1, <1>2, <2>4, <3>2, <3>4 DEF EditorInv, EditorBase
    <3>6. ~unsure => Truthful(e, asks', overrides)
      <4>1. \A a \in asks' : (a \in asks /\ a # c) \/ (a = c /\ c.kind \notin Kinds)
        BY <1>1
      <4> QED
        BY <1>1, <1>4, <3>2, <3>4, <4>1, ToldOnce
    <3>7. EditorTold' /\ CountTold'
      BY <1>1, <3>2, <3>6 DEF EditorTold, CountTold
    <3> QED
      BY <2>3, <3>5, <3>7 DEF EditorInv
  <2>6. CASE ~Concerns(c)
    <3>1. UNCHANGED <<editor, reseeded>> /\ ~On(c, editor.repo)
      BY <1>4, <2>6 DEF applySaved, Concerns, On
    <3>2. EditorBase'
      BY <1>1, <1>2, <2>4, <3>1 DEF EditorInv, EditorBase
    <3>3. ~unsure => Truthful(editor, asks', overrides)
      <4> SUFFICES ASSUME ~unsure PROVE Truthful(editor, asks', overrides)
        OBVIOUS
      <4>1. Truthful(editor, asks, overrides)
        BY <1>4 DEF EditorInv, EditorTold
      <4>2. \A a \in asks : On(a, editor.repo) => a \in asks'
        BY <1>1, <3>1
      <4>3. \A a \in asks' : a \in asks
        BY <1>1
      <4> QED
        BY <4>1, <4>2, <4>3 DEF Truthful
    <3>4. EditorTold'
      BY <1>1, <3>1, <3>3 DEF EditorTold
    <3>5. CountTold'
      BY <1>1, <3>1, FewerCounts DEF EditorInv, CountTold
    <3> QED
      BY <2>3, <3>2, <3>4, <3>5 DEF EditorInv
  <2> QED
    BY <2>5, <2>6
<1> QED
  BY <1>3, <1>4

(* Another feature's answer can only turn a row that it marks wrong.       *)
LEMMA ForeignSavedStep ==
    ASSUME EditorInv, NEW r \in Fleet, NEW keys, ForeignSaved(r, keys)
    PROVE  EditorInv'
<1>1. /\ editor # Missing /\ rows' = [rows EXCEPT ![r] = keys # Missing]
      /\ missed' = (missed \/ rows' # rows)
      /\ UNCHANGED <<overrides, editor, asks, asksSent, unsure, reseeded>>
  BY DEF ForeignSaved, applySavedToRow
<1>2. missed \in BOOLEAN /\ missed' \in BOOLEAN
  BY <1>1 DEF EditorInv, EditorBase
<1>3. DOMAIN rows = Fleet /\ DOMAIN rows' = Fleet
  BY <1>1 DEF EditorInv, RowsTold
<1>4. RowsTold'
  BY <1>1, <1>2, <1>3 DEF EditorInv, RowsTold
<1> QED
  BY <1>1, <1>2, <1>4 DEF EditorInv, EditorBase, EditorTold, CountTold

(***************************************************************************)
(* The server.                                                             *)
(***************************************************************************)
LEMMA HandledAsk ==
    ASSUME EditorInv, NEW c \in asks, NEW keys, NEW h,
           h = c \/ h = [c EXCEPT !.all = overrides], Handled(h, keys),
           c.kind \in Kinds \union {"policy"} /\ keys # Missing => keys \in KeyList
    PROVE  \E d : /\ asks' = (asks \ {c}) \union {d} /\ AsksSound(asks', asksSent)
                  /\ d.kind = c.kind /\ d.repo = c.repo /\ d.keys = keys /\ d.done
<1>1. AsksSound(asks, asksSent) /\ AskSound(c, asksSent)
  BY DEF EditorInv, EditorBase, AsksSound
<1>2. DOMAIN c = AskFields
  BY <1>1 DEF AskSound
<1>3. DOMAIN h = AskFields /\ h.n = c.n /\ h.kind = c.kind /\ h.repo = c.repo
  BY <1>2 DEF AskFields
<1>4. PICK d : d = [h EXCEPT !.keys = keys, !.done = TRUE]
  OBVIOUS
<1>5. /\ DOMAIN d = AskFields /\ d.n = h.n /\ d.kind = h.kind /\ d.repo = h.repo
      /\ d.keys = keys /\ d.done = TRUE
  BY <1>3, <1>4 DEF AskFields
<1>6. /\ {b \in asks : b.n # c.n} = asks \ {c}
      /\ AsksSound((asks \ {c}) \union {d}, asksSent)
  BY <1>1, <1>3, <1>5, AskAnswered
<1>7. asks' = {b \in asks : b.n # h.n} \union {d}
  BY <1>4 DEF Handled
<1>8. asks' = (asks \ {c}) \union {d}
  BY <1>3, <1>6, <1>7
<1> QED
  BY <1>3, <1>5, <1>6, <1>8

LEMMA ServedStep ==
    ASSUME EditorInv, NEW c \in asks, ~c.done, NEW d, asks' = (asks \ {c}) \union {d},
           AsksSound(asks', asksSent), d.kind = c.kind, d.repo = c.repo, d.done,
           UNCHANGED <<rows, editor, asksSent, unsure, missed, reseeded>>, StoredSound(overrides'),
           \A r \in Fleet : \/ overrides'[r] = overrides[r]
                            \/ c.kind \in {"save", "clear"} /\ r = c.repo,
           c.kind \in Kinds => d.keys = overrides'[c.repo], c.kind = "usage" => d.keys = c.keys
    PROVE  EditorInv'
<1>1. EditorBase'
  BY DEF EditorInv, EditorBase
<1>2. EditorTold'
  <2> SUFFICES ASSUME editor # Missing, ~unsure PROVE Truthful(editor, asks', overrides')
    BY DEF EditorTold
  <2>1. Truthful(editor, asks, overrides) /\ editor.repo \in Fleet
    BY EditorFacts DEF EditorInv, EditorTold
  <2>2. CASE On(c, editor.repo)
    <3>1. On(d, editor.repo) /\ d.keys = overrides'[editor.repo]
      BY <2>2 DEF On
    <3>2. \A a \in asks' : On(a, editor.repo) => a = d
      BY <2>1, <2>2 DEF Truthful
    <3> QED
      BY <3>1, <3>2 DEF Truthful
  <2>3. CASE ~On(c, editor.repo)
    <3>1. ~On(d, editor.repo) /\ overrides'[editor.repo] = overrides[editor.repo]
      BY <2>1, <2>3 DEF On, Kinds
    <3>2. \A a \in asks' : On(a, editor.repo) => a \in asks
      BY <3>1
    <3>3. \A a \in asks : On(a, editor.repo) => a \in asks'
      BY <2>3
    <3> QED
      BY <2>1, <3>1, <3>2, <3>3 DEF Truthful
  <2> QED
    BY <2>2, <2>3
<1>3. RowsTold'
  <2> SUFFICES ASSUME rows # Missing \/ editor # Missing, ~missed, NEW r \in Fleet
               PROVE  RowTold(rows, asks', overrides', r)
    BY DEF EditorInv, RowsTold
  <2>1. RowTold(rows, asks, overrides, r)
    BY DEF EditorInv, RowsTold
  <2> QED
    BY <2>1 DEF RowTold
<1>4. CountTold'
  <2> SUFFICES ASSUME editor # Missing, ~reseeded PROVE Counting(editor.list, asks')
    BY DEF CountTold
  <2>1. Counting(editor.list, asks)
    BY EditorFacts
  <2>2. d.kind = "usage" => /\ editor.list.usageLoading /\ editor.list.confirm = Missing
                            /\ PointsAt(editor.list, d.keys[1])
    BY <2>1 DEF Counting
  <2> QED
    BY <2>1, <2>2 DEF Counting
<1> QED
  BY <1>1, <1>2, <1>3, <1>4 DEF EditorInv

LEMMA ServerHandlesStep ==
    ASSUME EditorInv, NEW c \in asks, ServerHandles(c)
    PROVE  EditorInv'
<1>1. ~c.done /\ UNCHANGED <<rows, editor, asksSent, unsure, missed, reseeded>>
  BY DEF ServerHandles
<1>2. /\ StoredSound(overrides) /\ (c.kind \in Kinds => c.repo \in Fleet)
      /\ c.kind \in Kinds \union {"policy"} /\ c.keys # Missing => c.keys \in KeyList
  BY AskFacts DEF EditorInv, EditorBase
<1>3. ASSUME NEW keys, NEW h, h = c \/ h = [c EXCEPT !.all = overrides], Handled(h, keys),
             c.kind \in Kinds \union {"policy"} /\ keys # Missing => keys \in KeyList,
             StoredSound(overrides'),
             \A r \in Fleet : \/ overrides'[r] = overrides[r]
                              \/ c.kind \in {"save", "clear"} /\ r = c.repo,
             c.kind \in Kinds => keys = overrides'[c.repo], c.kind = "usage" => keys = c.keys
      PROVE  EditorInv'
  <2>1. PICK d : /\ asks' = (asks \ {c}) \union {d} /\ AsksSound(asks', asksSent)
                 /\ d.kind = c.kind /\ d.repo = c.repo /\ d.keys = keys /\ d.done
    BY <1>3, HandledAsk
  <2> QED
    BY <1>1, <1>3, <2>1, ServedStep
<1>4. CASE c.kind = "load" /\ Handled(c, overrides[c.repo]) /\ UNCHANGED overrides
  <2>1. c.kind \in Kinds /\ c.kind # "usage"
    BY <1>4 DEF Kinds
  <2>2. overrides[c.repo] # Missing => overrides[c.repo] \in KeyList
    BY <1>2, <2>1 DEF StoredSound
  <2>3. StoredSound(overrides')
    BY <1>2, <1>4
  <2> QED
    BY <1>3, <1>4, <2>1, <2>2, <2>3
<1>5. CASE \/ c.kind = "list" /\ Handled([c EXCEPT !.all = overrides], Missing) /\ UNCHANGED overrides
           \/ c.kind = "policy" /\ Handled(c, GlobalKeys) /\ UNCHANGED overrides
           \/ c.kind = "usage" /\ Handled(c, c.keys) /\ UNCHANGED overrides
  <2>1. c.kind \notin Kinds /\ (c.kind = "list" => c.kind \notin Kinds \union {"policy"})
        /\ (c.kind = "usage" => c.kind \notin Kinds \union {"policy"})
    BY <1>5 DEF Kinds
  <2>2. GlobalKeys \in KeyList /\ StoredSound(overrides')
    BY <1>2, <1>5, GlobalKeysAssumption DEF KeyList
  <2> QED
    BY <1>3, <1>5, <2>1, <2>2
<1>6. ASSUME NEW keys, c.kind \in {"save", "clear"}, Handled(c, keys),
             keys # Missing => keys \in KeyList, overrides' = [overrides EXCEPT ![c.repo] = keys]
      PROVE  EditorInv'
  <2>1. c.kind \in Kinds /\ c.kind # "usage" /\ c.repo \in Fleet
    BY <1>2, <1>6 DEF Kinds
  <2>2. /\ DOMAIN overrides' = Fleet /\ overrides'[c.repo] = keys
        /\ \A r \in Fleet : r # c.repo => overrides'[r] = overrides[r]
    BY <1>2, <1>6, <2>1 DEF StoredSound
  <2>3. StoredSound(overrides')
    BY <1>2, <1>6, <2>2 DEF StoredSound
  <2> QED
    BY <1>3, <1>6, <2>1, <2>2, <2>3
<1>7. "save" \in Kinds
  BY DEF Kinds
<1> QED
  BY <1>2, <1>4, <1>5, <1>6, <1>7 DEF ServerHandles

(***************************************************************************)
(* The editor together.                                                    *)
(***************************************************************************)
LEMMA EditorInvInit ==
    EditorInit => EditorInv
<1> SUFFICES ASSUME EditorInit PROVE EditorInv
  OBVIOUS
<1>1. PICK c : c = Request(0, "policy", Missing, Missing)
  OBVIOUS
<1>2. PICK d : d = Request(1, "list", Missing, Missing)
  OBVIOUS
<1>3. DOMAIN c = AskFields /\ c.n = 0 /\ c.kind = "policy" /\ c.keys = Missing /\ c.done = FALSE
  BY <1>1 DEF Request, AskFields
<1>4. DOMAIN d = AskFields /\ d.n = 1 /\ d.kind = "list" /\ d.done = FALSE
  BY <1>2 DEF Request, AskFields
<1>5. \A a \in asks : a = c \/ a = d
  BY <1>1, <1>2 DEF EditorInit
<1>6. AskSound(c, 1)
  <2>1. c.done \in BOOLEAN /\ c.kind \notin Kinds
    BY <1>3 DEF Kinds
  <2>2. c.n \in Nat /\ c.n <= 1
    BY <1>3
  <2> QED
    BY <1>3, <2>1, <2>2 DEF AskSound
<1>7. AskSound(d, 1)
  <2>1. d.done \in BOOLEAN /\ d.kind \notin Kinds \union {"policy"}
    BY <1>4 DEF Kinds
  <2>2. d.n \in Nat /\ d.n <= 1
    BY <1>4
  <2> QED
    BY <1>4, <2>1, <2>2 DEF AskSound
<1>8. \A a, b \in asks : a.n = b.n => a = b
  BY <1>3, <1>4, <1>5
<1>9. AsksSound(asks, asksSent)
  BY <1>5, <1>6, <1>7, <1>8 DEF AsksSound, EditorInit
<1>10. StoredSound(overrides)
  <2>1. \A k \in TrustKey : <<k>> \in Seq(TrustKey)
    OBVIOUS
  <2>2. /\ DOMAIN overrides = Fleet
        /\ \A r \in Fleet : overrides[r] = Missing \/ \E k \in TrustKey : overrides[r] = <<k>>
    BY DEF EditorInit
  <2>3. \A r \in Fleet : overrides[r] # Missing => overrides[r] \in KeyList
    BY <2>1, <2>2, Zenon DEF KeyList
  <2> QED
    BY <2>2, <2>3 DEF StoredSound
<1> QED
  BY <1>9, <1>10 DEF EditorInit, EditorInv, EditorBase, EditorTold, RowsTold, CountTold

LEMMA EditorInvStep ==
    EditorInv /\ [EditorNext]_editorVars => EditorInv'
<1> SUFFICES ASSUME EditorInv, [EditorNext]_editorVars PROVE EditorInv'
  OBVIOUS
<1> QED
  BY OpenEditorStep, PageKeysStep, SelectionKeysStep, commitAddStep, DeleteKeyStep,
     ConfirmDeleteStep, SaveKeysStep, ServerHandlesStep, applyLoadedStep, applySavedStep,
     applyGlobalPolicyLoadedStep, applyUsageLoadedStep, FeatureOverridesLoadedStep, AskFailedStep,
     ForeignSavedStep
     DEF EditorNext

LEMMA EditorAlways ==
    EditorSpec => []EditorInv
BY EditorInvInit, EditorInvStep, PTL DEF EditorSpec

LEMMA EditorShown ==
    EditorInv => ShownIsStored /\ RowsAgree /\ PrefillSparesStored /\ CountIsOfKey
<1> SUFFICES ASSUME EditorInv PROVE ShownIsStored /\ RowsAgree /\ PrefillSparesStored /\ CountIsOfKey
  OBVIOUS
<1>1. ShownIsStored
  BY DEF EditorInv, EditorTold, Truthful, ShownIsStored, About, On
<1>2. PrefillSparesStored
  BY <1>1, EditorFacts DEF ShownIsStored, PrefillSparesStored, EditorSound
<1>3. RowsAgree
  BY DEF EditorInv, RowsTold, RowTold, RowsAgree
<1>4. CountIsOfKey
  BY DEF EditorInv, CountTold, Counting, PointsAt, CountIsOfKey
<1> QED
  BY <1>1, <1>2, <1>3, <1>4

-----------------------------------------------------------------------------
(***************************************************************************)
(* The console as a whole.                                                 *)
(***************************************************************************)

(* In every behaviour of the console, whatever says that it is loading,    *)
(* signing in, submitting or saving waits for a call that is under way:    *)
(* no answer, expired session or screen that comes and goes leaves the     *)
(* busy line behind but in the cases the parts name (Model.Update,         *)
(* expireAdminSession, updateChannelScreen.Update).  The override editor   *)
(* is not among the parts.                                                 *)
THEOREM WaitingAlwaysHasACall ==
    ConsoleSpec => []WaitingHasACall
<1>1. InspectionInv => LoadingEnds
  BY DEF InspectionInv
<1>2. PanelInv => AuthenticatingHasLogin
  BY PanelShown
<1>3. HistoryInv => LoadingIsUnderWay
  BY DEF HistoryInv
<1>4. ScreensInv => SubmittingIsUnderWay /\ ChannelSavedOnce
  BY ScreensShown
<1>5. InspectionInv /\ PanelInv /\ HistoryInv /\ ScreensInv => WaitingHasACall
  BY <1>1, <1>2, <1>3, <1>4 DEF WaitingHasACall
<1> QED
  BY <1>5, InspectionAlways, PanelAlways, HistoryAlways, ScreensAlways, PTL DEF ConsoleSpec

(* What is shown beside a selection is of what is selected when it is      *)
(* shown: tokens of the account, the rows the right to grant goes by,      *)
(* findings of the run, the count over a key.  The exceptions are a load   *)
(* that failed, and what moves the selection under what is shown: an       *)
(* answer about another account, a history answered twice, a list of keys  *)
(* that is replaced                                                        *)
(* (adminUserTokensLoadedMsg, scanHistoryScreen.Update, applyUsageLoaded). *)
THEOREM ShownIsAlwaysOfSelection ==
    ConsoleSpec => []ShownIsOfSelection
<1>1. PanelInv => TokensOfSelected /\ AuthorizedListMatches
  BY PanelShown
<1>2. HistoryInv => ShownIsOfCursor
  BY DEF HistoryInv
<1>3. EditorInv => CountIsOfKey
  BY EditorShown
<1>4. PanelInv /\ HistoryInv /\ EditorInv => ShownIsOfSelection
  BY <1>1, <1>2, <1>3 DEF ShownIsOfSelection
<1> QED
  BY <1>4, PanelAlways, HistoryAlways, EditorAlways, PTL DEF ConsoleSpec

(* Once its answers are in, the console shows what the registry has: no    *)
(* deleted repository, the stored override and its row, the global keys    *)
(* only where nothing is stored, the settings the server keeps; but after  *)
(* calls that overlapped or were lost, and for a row that an answer about  *)
(* another feature marked                                                  *)
(* (applyLoaded, applySaved, maybeApplyGlobalPrefill, the settings         *)
(* screens' Update).                                                       *)
THEOREM ShownIsAlwaysInRegistry ==
    ConsoleSpec => []ShownIsInRegistry
<1>1. EditorInv => ShownIsStored /\ RowsAgree /\ PrefillSparesStored
  BY EditorShown
<1>2. ScreensInv => ShownIsKept
  BY ScreensShown
<1>3. InspectionInv /\ EditorInv /\ ScreensInv => ShownIsInRegistry
  BY <1>1, <1>2, DeletedIsUnlisted DEF ShownIsInRegistry
<1> QED
  BY <1>3, InspectionAlways, EditorAlways, ScreensAlways, PTL DEF ConsoleSpec
=============================================================================
