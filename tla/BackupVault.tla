---------------------------- MODULE BackupVault ----------------------------
(***************************************************************************)
(* What the backup manager promises of the files of a node: whatever       *)
(* happens to the files, an entry of the vault appears whole, at once and  *)
(* as a copy of the files as they are, may be dropped, and is otherwise    *)
(* never changed.                                                          *)
(***************************************************************************)
CONSTANTS Paths,  \* names of backups
          Nothing \* no backup has this name

VARIABLES files,  \* the content of the node's files
          vault   \* the backups

Init == vault = [p \in Paths |-> Nothing]

\* The files change, as renewals and restores please.
Change == UNCHANGED vault

\* A backup is complete.
Put(p) ==
    /\ vault[p] = Nothing
    /\ vault' = [vault EXCEPT ![p] = files]
    /\ UNCHANGED files

\* A backup is given up: removed when it is old, or about to be replaced.
Drop(p) ==
    /\ vault' = [vault EXCEPT ![p] = Nothing]
    /\ UNCHANGED files

Next == Change \/ \E p \in Paths : Put(p) \/ Drop(p)

Spec == Init /\ [][Next]_<<files, vault>>
=============================================================================
