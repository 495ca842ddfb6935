------------------------------- MODULE Routes -------------------------------
(***************************************************************************)
(* From the path of a request to a handler and a repository.  Repository   *)
(* names have slashes of their own, so the routers look for markers inside *)
(* the path, in a fixed order, and a name may contain a marker.            *)
(*                                                                         *)
(*   internal/protocol/http/router.go           handleV2                   *)
(*   internal/protocol/http/admin_handlers.go   handleAdmin                *)
(*                                                                         *)
(* A path is the sequence of its segments, "" after a trailing slash; an   *)
(* action glued to the last segment with a colon counts as a segment.      *)
(* The admin markers have a slash at both ends, so they are whole segments *)
(* or nothing.  Those of /v2 are looked for in the text: two of them stop  *)
(* in the middle of a path, so a segment that only begins with their last  *)
(* word will do, and at the very end of a path their leading slash is not  *)
(* needed.  Longer and Compound are the segments to which that happens.    *)
(***************************************************************************)
EXTENDS Integers, Sequences, FiniteSetsExt, SequencesExt

CONSTANTS
    RepoName,   \* repository names: non-empty sequences of segments
    Longer,     \* <<segment, word>>: the segment is the word and something more
    Compound    \* <<segment, word, stem>>: the segment is the stem, then the word

\* An action glued to a user's name, with its colon, which no repository name has.
UserAction == {":enable", ":disable", ":reset-password"}

\* The words that clients put behind a name; an id, a digest and a tag are one
\* of them, because the routers do not look into them.
Word == {"blobs", "uploads", "", "id", "sha", "manifests", "tag", "scan-status", "signature-status",
         "secret-scan-status", "tags", "list", "referrers", "grants", "user"}

ASSUME RoutesAssumption ==
    /\ \A name \in RepoName : name \in Seq(Range(name)) /\ Range(name) \cap UserAction = {}
    /\ \A pair \in Longer : pair[1] \notin Word
    /\ \A triple \in Compound : triple[1] \notin Word

VARIABLE requested   \* the repository a client has in mind, or <<>>

NotFound == [handler |-> "notFound", guard |-> "", repo |-> <<>>]
To(handler, guard, repo) == [handler |-> handler, guard |-> guard, repo |-> repo]

Ends(path, segment) == Len(path) > 1 /\ Last(path) = segment
Upto(path, i) == SubSeq(path, 1, i)
After(path, i) == SubSeq(path, i + 1, Len(path))

-----------------------------------------------------------------------------
(* /v2                                                                     *)

\* In the order in which they are looked for.
markers == <<[segments |-> <<"blobs", "uploads">>, more |-> TRUE],
             [segments |-> <<"blobs", "uploads">>, more |-> FALSE],
             [segments |-> <<"blobs">>, more |-> TRUE],
             [segments |-> <<"manifests">>, more |-> TRUE],
             [segments |-> <<"tags", "list">>, more |-> FALSE],
             [segments |-> <<"referrers">>, more |-> TRUE]>>

\* The text of a segment begins with that of a word.
Starts(segment, word) == segment = word \/ <<segment, word>> \in Longer

\* The text of a marker is in a path at segment i: its last word is followed by
\* a slash, or by anything.
MarkerAt(path, mk, i) ==
    LET n == Len(mk.segments)
    IN  /\ i + n - 1 + (IF mk.more THEN 1 ELSE 0) <= Len(path)
        /\ \A j \in 1 .. (n - 1) : path[i + j - 1] = mk.segments[j]
        /\ IF mk.more THEN path[i + n - 1] = mk.segments[n]
           ELSE Starts(path[i + n - 1], mk.segments[n])

\* Mutant: a marker is accepted at the very start of the path.
Found_AtStart(path, mk) == {i \in DOMAIN path : MarkerAt(path, mk, i)}

\* strings.Index: where a marker is found behind a name that is not empty.
Found(path, mk) == {i \in DOMAIN path : i > 1 /\ MarkerAt(path, mk, i)}

\* A marker as segments; a slash at its end leaves nothing behind it.
Nothing == ""
Words(mk) == IF mk.more THEN Append(mk.segments, Nothing) ELSE mk.segments

\* strings.HasSuffix: the path ends in the marker without its first slash, glued
\* to what stands before it.  Without anything before it there is no name, and
\* behind a whole segment the marker was found already.
GluedStems(path, mk) ==
    LET words == Words(mk)
        at == Len(path) - Len(words)
    IN  {triple \in Compound :
            /\ at >= 0 /\ triple[1] = path[at + 1] /\ triple[2] = words[1]
            /\ \A j \in 2 .. Len(words) : path[at + j] = words[j]}

\* The first marker of the list that occurs, where it occurs first.
splitRepositoryPath(path) ==
    LET hits == {k \in DOMAIN markers : Found(path, markers[k]) # {} \/ GluedStems(path, markers[k]) # {}}
        mk == markers[Min(hits)]
        at == Min(Found(path, mk))
        words == Words(mk)
        glued == CHOOSE triple \in GluedStems(path, mk) : TRUE
    IN  CASE hits = {} -> [ok |-> FALSE]
          [] hits # {} /\ Found(path, mk) # {} ->
                [ok |-> TRUE, repository |-> Upto(path, at - 1), suffix |-> After(path, at - 1)]
          [] OTHER ->
                [ok |-> TRUE, suffix |-> words,
                 repository |-> Append(Upto(path, Len(path) - Len(words)), glued[3])]

\* The switch of handleV2, on what stands behind the repository's name.
handleSuffix(suffix, repository) ==
    LET go(handler) == To(handler, "verb", repository)
    IN  CASE suffix \in {<<"blobs", "uploads">>, <<"blobs", "uploads", "">>} -> go("handleUploadStart")
          [] suffix \notin {<<"blobs", "uploads">>, <<"blobs", "uploads", "">>}
             /\ IsPrefix(<<"blobs", "uploads">>, suffix) -> go("handleUploadState")
          [] Head(suffix) = "blobs" /\ ~IsPrefix(<<"blobs", "uploads">>, suffix) -> go("handleBlobRead")
          [] Head(suffix) = "manifests" ->
                go(CASE Ends(Tail(suffix), "scan-status") -> "handleManifestScanStatus"
                     [] Ends(Tail(suffix), "signature-status") -> "handleManifestSignatureStatus"
                     [] Ends(Tail(suffix), "secret-scan-status") -> "handleManifestSecretScanStatus"
                     [] OTHER -> "handleManifest")
          [] suffix = <<"tags", "list">> -> go("handleTags")
          [] Head(suffix) = "referrers" -> go("handleReferrers")
          [] OTHER -> NotFound

handleV2(path) ==
    LET split == splitRepositoryPath(path)
    IN  IF path = <<"_catalog">> THEN To("handleCatalog", "verb", <<>>)
        ELSE IF ~split.ok THEN NotFound
        ELSE handleSuffix(split.suffix, split.repository)

-----------------------------------------------------------------------------
(* /admin/v1                                                               *)

\* adminNestedResource: one segment, the first marker, and the rest.
adminNestedResource(path, marker) ==
    IF Len(path) > 2 /\ path[2] = marker THEN After(path, 2) ELSE <<>>

handleAdminFeatureResource(path) ==
    LET overridden == adminNestedResource(path, "repository-overrides")
    IN  CASE Ends(path, "repository-overrides") ->
                IF Len(path) = 2 THEN To("overrides", "admin", <<>>) ELSE NotFound
          [] ~Ends(path, "repository-overrides") /\ Contains(Tail(path), "repository-overrides") ->
                IF overridden = <<>> THEN NotFound ELSE To("override", "admin", overridden)
          [] OTHER -> To("feature", "admin", <<>>)

\* Mutant: the marker of a grant is looked for from the left.
handleAdminRepositoryResource_First(path) ==
    LET marks == {i \in DOMAIN path : i > 1 /\ path[i] = "grants" /\ i < Len(path)}
    IN  IF Ends(path, "grants") THEN To("repositoryGrants", "authenticated", Front(path))
        ELSE IF marks # {}
        THEN IF Min(marks) = Len(path) - 1
             THEN To("repositoryGrant", "authenticated", Upto(path, Min(marks) - 1)) ELSE NotFound
        ELSE To("deleteRepository", "authenticated", path)

handleAdminRepositoryResource(path) ==
    LET marks == {i \in DOMAIN path : i > 1 /\ path[i] = "grants" /\ i < Len(path)}
    IN  IF Ends(path, "grants") THEN To("repositoryGrants", "authenticated", Front(path))
        ELSE IF marks # {}
        THEN IF Max(marks) = Len(path) - 1
             THEN To("repositoryGrant", "authenticated", Upto(path, Max(marks) - 1)) ELSE NotFound
        ELSE To("deleteRepository", "authenticated", path)

handleAdminUserResource(path) ==
    LET granted == adminNestedResource(path, "grants")
    IN  IF Last(path) \in UserAction
        THEN IF Len(path) = 2 THEN To("account", "admin", <<>>) ELSE NotFound
        ELSE IF Ends(path, "grants")
        THEN IF Len(path) = 2 THEN To("userGrants", "admin", <<>>) ELSE NotFound
        ELSE IF Contains(Tail(path), "grants")
        THEN IF granted = <<>> THEN NotFound ELSE To("userGrant", "admin", granted)
        ELSE To("tokens", "admin", <<>>)

\* Everything but repositories/ is for global administrators.
handleAdmin(path) ==
    CASE Head(path) = "repositories" /\ Len(path) > 1 -> handleAdminRepositoryResource(Tail(path))
      [] Head(path) = "features" /\ Len(path) > 1 -> handleAdminFeatureResource(Tail(path))
      [] Head(path) = "users" /\ Len(path) > 1 -> handleAdminUserResource(Tail(path))
      [] OTHER -> To("collection", "admin", <<>>)

-----------------------------------------------------------------------------
(* The paths clients use, and where they ought to lead.                    *)

V2Suffix ==
    [handleUploadStart |-> <<"blobs", "uploads", "">>, handleUploadState |-> <<"blobs", "uploads", "id">>,
     handleBlobRead |-> <<"blobs", "sha">>, handleManifest |-> <<"manifests", "tag">>,
     handleManifestScanStatus |-> <<"manifests", "tag", "scan-status">>,
     handleManifestSignatureStatus |-> <<"manifests", "tag", "signature-status">>,
     handleManifestSecretScanStatus |-> <<"manifests", "tag", "secret-scan-status">>,
     handleTags |-> <<"tags", "list">>, handleReferrers |-> <<"referrers", "sha">>]

\* A name with a marker behind its first segment is ambiguous; of "/tags/list"
\* the text is enough, as in team/tags/listing.
Ambiguous(name) ==
    \E i \in 2 .. Len(name) :
        \/ name[i] \in {"blobs", "manifests", "referrers"}
        \/ name[i] = "tags" /\ i < Len(name) /\ Starts(name[i + 1], "list")

\* Every request for a repository reaches the handler it is meant for, and
\* that very repository, unless the name itself holds the text of a marker
\* behind its first segment.  (router.go splitRepositoryPath)
PathsReachTheirRepository ==
    requested # <<>> /\ ~Ambiguous(requested) =>
        \A handler \in DOMAIN V2Suffix :
            handleV2(requested \o V2Suffix[handler]) = To(handler, "verb", requested)

\* Administrative paths reach their repository, those of a delegate for every
\* name; a name that ends in the word its collection ends in is not found,
\* and a repository is deleted by its name unless "grants" is in it.
\* (admin_handlers.go handleAdminRepositoryResource, adminNestedResource)
AdminPathsReachTheirRepository ==
    LET name == requested IN name # <<>> =>
        /\ handleAdmin(<<"repositories">> \o name \o <<"grants">>) = To("repositoryGrants", "authenticated", name)
        /\ handleAdmin(<<"repositories">> \o name \o <<"grants", "user">>) = To("repositoryGrant", "authenticated", name)
        /\ handleAdmin(<<"users", "user", "grants">> \o name) =
              IF Last(name) = "grants" THEN NotFound ELSE To("userGrant", "admin", name)
        /\ handleAdmin(<<"features", "trivy", "repository-overrides">> \o name) =
              IF Last(name) = "repository-overrides" THEN NotFound ELSE To("override", "admin", name)
        /\ (\A i \in 2 .. Len(name) : name[i] # "grants") =>
              handleAdmin(<<"repositories">> \o name) = To("deleteRepository", "authenticated", name)

\* Both routers together.
EveryPathFound == PathsReachTheirRepository /\ AdminPathsReachTheirRepository
=============================================================================
