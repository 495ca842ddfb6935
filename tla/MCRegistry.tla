----------------------------- MODULE MCRegistry -----------------------------
(* A small registry: an image, its signature, and two tags.                *)
EXTENDS Registry, TLC

CONSTANTS img, sig, layer, ann, bob, c1, c2

MCBlobsOf   == img :> <<layer, layer>> @@ sig :> <<>>
MCSubjectOf == img :> None @@ sig :> img
MCArtifactTypeOf == img :> None @@ sig :> None
MCConfigTypeOf   == img :> None @@ sig :> "cosign"
Symmetry == Permutations(User)
=============================================================================
