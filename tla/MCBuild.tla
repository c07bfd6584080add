------------------------------ MODULE MCBuild ------------------------------
(***************************************************************************)
(* Build for TLC.                                                          *)
(***************************************************************************)
EXTENDS Build, TLC

\* One folder with two files and one with a single file is enough to tell
\* an opaque marker from a whiteout.
MCEntries == [kind : {"file", "whiteout"}, path : {<<"d", "x">>, <<"d", "y">>}]
    \cup {[kind |-> "opaque", path |-> <<"d", "x">>], [kind |-> "file", path |-> <<"e", "x">>]}

MCLayers == {l \in UNION {[1 .. k -> MCEntries] : k \in 0 .. 2} : MarkersFirst(l)}

\* Every image of two such layers
TwoLayers == MCLayers \X MCLayers

Symmetry == Permutations(Versions)
=============================================================================
