------------------------------ MODULE SnapFiles ------------------------------
(***************************************************************************)
(* The snapshot files of the instance directories.  Hard links are what    *)
(* make them worth modelling: a write through one name is seen through all *)
(* of them.  A file system value is a set of inodes, each with the names   *)
(* linked to it and the content it holds; a name is a <<directory, file>>. *)
(* Content is guest memory in the clear, the same sealed, a half-written   *)
(* file, or zeros.                                                         *)
(***************************************************************************)
EXTENDS Naturals, FiniteSets, Sequences

CONSTANTS
    Ids,        \* sandbox ids, which name the instance directories
    Tmpl        \* the template directory

Names == {"vmstate", "mem"}
Sealed(n) == IF n = "vmstate" THEN "vmstate.enc" ELSE "mem.enc"
Files == Names \cup {Sealed(n) : n \in Names}
Dirs == Ids \cup {Tmpl}

\* Guest memory, told apart by the VM that produced it and how often that
\* VM has been given a new identity.
Guest(d, g) == [kind |-> "plain", of |-> d, gen |-> g]
Zeros == [kind |-> "zeros", of |-> Tmpl, gen |-> 0]
Half == [kind |-> "half", of |-> Tmpl, gen |-> 0]
\* The container: a header, and blocks authenticated together with it.
Seal(c) == [c EXCEPT !.kind = "sealed"]
Unseal(c) == [c EXCEPT !.kind = "plain"]

Exists(fs, d, n) == \E i \in fs : <<d, n>> \in i.names

Inode(fs, d, n) == CHOOSE i \in fs : <<d, n>> \in i.names

Content(fs, d, n) == Inode(fs, d, n).data

\* remove_file, of every name in S: an inode goes with its last name
UnlinkAll(fs, S) ==
    {[i EXCEPT !.names = @ \ S] : i \in {j \in fs : ~(j.names \subseteq S)}}

Unlink(fs, d, n) == UnlinkAll(fs, {<<d, n>>})

UnlinkBoth(fs, d) == UnlinkAll(fs, {d} \X Names)

UnlinkSealed(fs, d) == UnlinkAll(fs, {d} \X (Files \ Names))

\* remove_dir_all, of every directory in S
RemoveDirs(fs, S) == UnlinkAll(fs, S \X Files)

RemoveDir(fs, d) == RemoveDirs(fs, {d})

\* hardlink_or_copy: the new name replaces an old one
HardLink(fs, sd, sn, d, n) ==
    {IF <<sd, sn>> \in i.names THEN [i EXCEPT !.names = @ \cup {<<d, n>>}] ELSE i :
        i \in Unlink(fs, d, n)}

\* create_private and every write after it: O_CREAT | O_TRUNC, so an
\* existing inode is written in place
Store(fs, d, n, c) ==
    IF Exists(fs, d, n)
    THEN {IF <<d, n>> \in i.names THEN [i EXCEPT !.data = c] ELSE i : i \in fs}
    ELSE fs \cup {[names |-> {<<d, n>>}, data |-> c]}

\* shred: overwrite with zeros, then unlink
Shred(fs, d, n) ==
    IF Exists(fs, d, n) THEN Unlink(Store(fs, d, n, Zeros), d, n) ELSE fs

ShredBoth(fs, d) == Shred(Shred(fs, d, "vmstate"), d, "mem")

\* encrypt_file while it is still writing the container
EncryptOpen(fs, d, n) == Store(fs, d, Sealed(n), Half)

\* encrypt_file after its fsync
EncryptDone(fs, d, n) == Store(fs, d, Sealed(n), Seal(Content(fs, d, n)))

\* decrypt_file: every chunk of a complete container verifies, no other does
CanDecrypt(fs, d, n) ==
    Exists(fs, d, Sealed(n)) /\ Content(fs, d, Sealed(n)).kind = "sealed"

Decrypt(fs, d, n) == Store(fs, d, n, Unseal(Content(fs, d, Sealed(n))))

\* prepare_instance_dir, and prepare_instance_dir_sealed for the sealed names
LinkBoth(fs, src, d) ==
    HardLink(HardLink(fs, src, "vmstate", d, "vmstate"), src, "mem", d, "mem")

LinkSealed(fs, src, d) ==
    HardLink(HardLink(fs, src, "vmstate.enc", d, "vmstate.enc"),
             src, "mem.enc", d, "mem.enc")

\* Firecracker loads the snapshot of d: both files are there and match.
Loadable(fs, d) ==
    /\ \A n \in Names : Exists(fs, d, n) /\ Content(fs, d, n).kind = "plain"
    /\ Content(fs, d, "vmstate") = Content(fs, d, "mem")

TemplateOnly == {[names |-> {<<Tmpl, n>>}, data |-> Guest(Tmpl, 0)] : n \in Names}
=============================================================================
