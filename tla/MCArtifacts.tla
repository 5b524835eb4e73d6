----------------------------- MODULE MCArtifacts -----------------------------
(***************************************************************************)
(* The artifact set over four repositories: one that grows, one whose last *)
(* manifest is malformed and that has an unversioned one too, one whose    *)
(* second manifest gives an explicit version another file, and one that    *)
(* lists an explicit version twice and is pinned against its unversioned   *)
(* manifest.                                                               *)
(***************************************************************************)
EXTENDS Artifacts

ManifestRow(id, version, path) == [id |-> id, version |-> version, path |-> path]
MCMalformed == <<ManifestRow("malformed", 0, "none")>>
MCMissing == <<ManifestRow("missing", 0, "none")>>

Latest1 == <<ManifestRow("a", 0, "p"), ManifestRow("a", 1, "q")>>
Grown == <<ManifestRow("a", 1, "q"), ManifestRow("a", 2, "r")>>
Moved == <<ManifestRow("a", 1, "s")>>
Twice == <<ManifestRow("a", 2, "r"), ManifestRow("a", 2, "r")>>
Repository(manifests, unversioned) == [manifests |-> manifests, unversioned |-> unversioned]
MCRepositories == {
    Repository(<<Latest1, Grown>>, MCMissing),
    Repository(<<Grown, Latest1, MCMalformed>>, Latest1),
    Repository(<<Latest1, Moved>>, MCMissing),
    Repository(<<Grown, Twice>>, Moved) }

\* The cache has room for p and q; r needs all of it, and s is too large.
MCSizes == [p |-> 1, q |-> 2, r |-> 3, s |-> 4]

=============================================================================
