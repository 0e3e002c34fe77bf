--------------------------- MODULE RestorePoint ---------------------------
(***************************************************************************)
(* What the renewal promises about a node's certificate files, in terms of *)
(* the files and of the restore point its status names.                    *)
(*                                                                         *)
(* Files change one pair at a time, and only while a renewal is armed; a   *)
(* renewal is armed only by publishing the files as they are as the        *)
(* restore point; and the restore point never changes while one is armed.  *)
(* Hence a renewal that stops anywhere leaves a restore point holding      *)
(* exactly the files it started from.                                      *)
(***************************************************************************)
CONSTANTS Names,   \* the certificate/key pairs
          Nothing  \* no restore point

VARIABLES files,   \* the content of each pair
          store,   \* the restore point in the node's status
          armed    \* a renewal may write files

Init == store = Nothing /\ armed = FALSE

\* Publish the current files, and go on to write or not.
Publish ==
    /\ ~armed
    /\ store' = files
    /\ UNCHANGED files
    /\ armed' \in BOOLEAN

\* Change one pair, and go on or stop.
Write ==
    /\ armed
    /\ \E n \in Names : \A m \in Names \ {n} : files'[m] = files[m]
    /\ UNCHANGED store
    /\ armed' \in BOOLEAN

Stop ==
    /\ armed /\ ~armed'
    /\ UNCHANGED <<files, store>>

\* The node's status is deleted.
Forget ==
    /\ ~armed
    /\ store' = Nothing
    /\ UNCHANGED <<files, armed>>

Next == Publish \/ Write \/ Stop \/ Forget

Spec == Init /\ [][Next]_<<files, store, armed>>
=============================================================================
