--------------------------------- MODULE Oci ---------------------------------
(***************************************************************************)
(* An OCI image as the source of a root file system (sl-node/oci.rs): the  *)
(* flattening of its layers and the cache of baked images.                 *)
(*                                                                         *)
(* A layer is the sequence of its tar entries: a file, a whiteout of one   *)
(* name, or the opaque marker of a directory.  A flattened tree maps each  *)
(* path it holds to the layer the file came from.                          *)
(***************************************************************************)
EXTENDS Naturals, Sequences, Maps

CONSTANTS Folders, Files     \* the paths of an image are Folders \X Files

Paths == Folders \X Files

\* The paths an entry stands for: an opaque marker stands for its folder.
Covered(e) == IF e.kind = "opaque" THEN {p \in Paths : p[1] = e.path[1]} ELSE {e.path}

\* Mutant of Unpack: opaque markers are taken for whiteouts of one name.
UnpackOpaqueOne(tree, e, i) ==
    IF e.kind = "file" THEN Bind(tree, e.path, i) ELSE Drop(tree, {e.path})

\* flatten_one on one entry: a file overwrites, the markers remove what the
\* staging directory holds (clear_dir_contents, remove_path).
Unpack(tree, e, i) ==
    IF e.kind = "file" THEN Bind(tree, e.path, i) ELSE Drop(tree, Covered(e))

\* flatten_layers: entry by entry, layer by layer
FlattenOne(tree, layer, i) ==
    LET upTo[k \in 0 .. Len(layer)] == IF k = 0 THEN tree ELSE Unpack(upTo[k - 1], layer[k], i)
    IN  upTo[Len(layer)]

Flatten(image) ==
    LET upTo[i \in 0 .. Len(image)] == IF i = 0 THEN EmptyMap ELSE FlattenOne(upTo[i - 1], image[i], i)
    IN  upTo[Len(image)]

\* The reference: a path shows the file of the topmost layer that has it,
\* unless a layer above that one hides it.
Has(layer, p) == \E k \in DOMAIN layer : layer[k].kind = "file" /\ layer[k].path = p

Hides(layer, p) == \E k \in DOMAIN layer : layer[k].kind # "file" /\ p \in Covered(layer[k])

Top(image, p) == {i \in DOMAIN image :
    Has(image[i], p) /\ \A j \in DOMAIN image : j > i => ~Has(image[j], p) /\ ~Hides(image[j], p)}

Overlay(image) ==
    [p \in {q \in Paths : Top(image, q) # {}} |-> CHOOSE i \in Top(image, p) : TRUE]

\* Image writers put the markers of a layer before the files they would hide.
MarkersFirst(layer) ==
    \A j, k \in DOMAIN layer :
        j < k /\ layer[j].kind = "file" /\ layer[k].kind # "file"
            => layer[j].path \notin Covered(layer[k])
-----------------------------------------------------------------------------
\* The cache entry of one image: rootfs.ext4, config.json, and what the image
\* was baked from.
NoCache == [rootfs |-> "none", config |-> FALSE, blobs |-> "none"]

\* try_cache only asks whether both files exist.
CacheHit(c) == c.rootfs # "none" /\ c.config

\* verify_digest: a blob is kept if it is the one its digest names.
Kept(sent) == sent = "named"

\* bake_rootfs removes the file and mke2fs fills a new one.
BakeBegin(c, blobs) == [c EXCEPT !.rootfs = "part", !.blobs = blobs]

BakeEnd(c) == [c EXCEPT !.rootfs = "whole"]

BakeConfig(c) == [c EXCEPT !.config = TRUE]
=============================================================================
