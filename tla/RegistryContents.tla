-------------------------- MODULE RegistryContents --------------------------
(***************************************************************************)
(* What a client of the registry may rely on, with no tables, row numbers  *)
(* or requests: every repository is absent or holds a set of manifests and *)
(* a set of tags, and each of the four writes happens at one instant.      *)
(* Module Registry implements it with the four tables of the SQLite store. *)
(***************************************************************************)
EXTENDS Naturals

CONSTANTS Repo,      \* repository names
          Digest,    \* manifest digests
          Tag,       \* tag names
          User,      \* pushing principals
          Time,      \* creation times
          None       \* an absent repository, and the tag of a push by digest

VARIABLE contents    \* what each repository holds

Absent == None
Empty  == [manifests |-> {}, tags |-> {}]

Held(h) == IF h = Absent THEN Empty ELSE h

(* The four writes, as what they make of the holding h of one repository. *)

\* A push: the manifest and its tag appear together.  A digest that is already
\* there keeps its first pusher and its first time; a tag that is already there
\* moves.
Put(h, t, d, u, at) ==
  LET old   == Held(h)
      known == \E m \in old.manifests : m.digest = d
  IN [manifests |-> IF known THEN old.manifests
                    ELSE old.manifests \cup {[digest |-> d, by |-> u, at |-> at]},
      tags      |-> IF t = None THEN old.tags
                    ELSE {x \in old.tags : x.name # t} \cup {[name |-> t, digest |-> d]}]

\* Deleting a digest takes every tag that points at it along.
Remove(h, d) == [manifests |-> {m \in h.manifests : m.digest # d},
                 tags      |-> {x \in h.tags : x.digest # d}]

\* Deleting a tag leaves the manifest and its other tags.
Untag(h, t) == [h EXCEPT !.tags = {x \in @ : x.name # t}]

Written(h) ==
  {Put(h, t, d, u, at) : t \in Tag \cup {None}, d \in Digest, u \in User, at \in Time}
    \cup (IF h = Absent THEN {}
          ELSE {Remove(h, d) : d \in {m.digest : m \in h.manifests}}
                 \cup {Untag(h, t) : t \in {x.name : x \in h.tags}}
                 \cup {Absent})

Init == contents = [r \in Repo |-> Absent]

\* One repository changes, in one of the four ways.
Change(r, before, after) ==
  /\ after[r] # before[r]
  /\ after[r] \in Written(before[r])
  /\ \A q \in Repo \ {r} : after[q] = before[q]

Next == \E r \in Repo : Change(r, contents, contents')

Spec == Init /\ [][Next]_contents
=============================================================================
