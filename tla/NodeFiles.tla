----------------------------- MODULE NodeFiles -----------------------------
(***************************************************************************)
(* The files of one node, one at a time: backup.Create, Restore and        *)
(* Cleanup, writer.WriteAllCerts and kubeconfig.RenewAll.  Each of them    *)
(* opens, truncates and fills file after file, in place; an error or a     *)
(* crash leaves what was done so far.  A process makes one call at a time. *)
(*                                                                         *)
(* The backup manager goes through its lists, WriteAllCerts and RenewAll   *)
(* through maps, in any order.  Nothing in the program removes a file of   *)
(* the node.  Dry runs touch no file and are left out.                     *)
(***************************************************************************)
EXTENDS Naturals, Sequences, FiniteSets

CONSTANTS
    Certs,      \* writer.CertPaths
    Kubeconfigs,\* kubeconfigCerts
    CAs,        \* certificate and key of the authorities
    FileList,   \* pkiFiles and kubeconfigFiles
    Lacking,    \* what a cluster may do without: sets of pairs and kubeconfigs
    MaxSecond,  \* bound on the clock, in seconds
    MaxGen,     \* bound on the generations of certificates
    Nothing     \* no backup

ASSUME BoundAssumption == MaxSecond \in Nat /\ MaxGen \in Nat

Pairs == Certs \X {"crt", "key"}
Confs == Kubeconfigs \X {"conf"}
Files == Pairs \cup Confs \cup (CAs \X {"ca"})

ASSUME ListAssumption ==
    /\ FileList \in Seq(Files)
    /\ \A f \in Files : \E i \in DOMAIN FileList : FileList[i] = f

ASSUME LackingAssumption ==
    /\ Lacking \subseteq SUBSET (Certs \cup Kubeconfigs)
    /\ CAs \cap (Certs \cup Kubeconfigs) = {}

Seconds == 0..MaxSecond

\* A kubeconfig is "native" as kubeadm writes it, "struct" as Renew does.
Content == [form : {"missing", "torn", "pem", "native", "struct"},
            gen : 0..MaxGen]
Missing == [form |-> "missing", gen |-> 0]
Torn    == [form |-> "torn", gen |-> 0]

VARIABLES
    files,  \* the files of the node
    store,  \* the backup directories, named by the second they were made in
    now,    \* the clock
    newest, \* the last generation of certificates
    op,     \* the call under way
    path,   \* the backup directory it works on
    left,   \* the files it has yet to look at
    open,   \* the file that it has truncated and not yet filled
    handed, \* the paths that Create returned; the status keeps them
    intact  \* history: the backups complete and not touched since

call == <<op, path, left, open>>
vars == <<files, store, now, newest, call, handed, intact>>

TypeOK ==
    /\ files \in [Files -> Content]
    /\ store \in [Seconds -> [Files -> Content]]
    /\ now \in Seconds /\ path \in Seconds
    /\ newest \in 0..MaxGen
    /\ op \in {"idle", "create", "restore", "clean", "write", "renew"}
    /\ left \subseteq Files
    /\ open \subseteq left /\ \A f, g \in open : f = g
    /\ handed \subseteq Seconds /\ intact \subseteq handed

\* A cluster may have no super-admin.conf, or run its etcd elsewhere and have
\* none of its pairs.
Init ==
    /\ \E L \in Lacking :
         files = [f \in Files |->
                    IF f[1] \in L THEN Missing
                    ELSE [form |-> IF f \in Confs THEN "native" ELSE "pem",
                          gen |-> 0]]
    /\ store = [t \in Seconds |-> [f \in Files |-> Missing]]
    /\ now = 0 /\ newest = 0
    /\ op = "idle" /\ path = 0 /\ left = {} /\ open = {}
    /\ handed = {} /\ intact = {}

---------------------------------------------------------------------------
(* The calls.                                                              *)

Call(o, p, fs) ==
    /\ op = "idle"
    /\ op' = o /\ path' = p /\ left' = fs /\ open' = {}
    /\ UNCHANGED <<files, store, now, handed>>

\* The directory is named after the second: MkdirAll is content with one that
\* an earlier call made in this second.
Create ==
    /\ Call("create", now, Files)
    /\ intact' = intact \ {now}
    /\ UNCHANGED newest

Restore ==
    \E t \in handed : Call("restore", t, Files) /\ UNCHANGED <<newest, intact>>

\* An older directory is removed.
Cleanup ==
    \E t \in Seconds :
        /\ t < now
        /\ Call("clean", t, Files)
        /\ intact' = intact \ {t}
        /\ UNCHANGED newest

\* (Variant with a bug: generations are not bounded by the counter.)
GenerateAgain ==
    /\ newest' = newest + 1
    /\ newest <= MaxGen
    /\ UNCHANGED intact

Generate ==
    /\ newest < MaxGen
    /\ newest' = newest + 1
    /\ UNCHANGED intact

WriteAllCerts == Generate /\ Call("write", 0, Pairs)
RenewAll      == Generate /\ Call("renew", 0, Confs)

---------------------------------------------------------------------------
(* One file.                                                               *)

\* The next file: of the list, of any kubeconfig, or the certificate of any
\* pair unless one is written and its key is not.
Begun == {c \in Certs : <<c, "crt">> \notin left /\ <<c, "key">> \in left}
IsNext(f) ==
    CASE op \in {"create", "restore", "clean"} ->
           \E i \in DOMAIN FileList :
             FileList[i] = f /\ \A j \in 1..(i - 1) : FileList[j] \notin left
      [] op = "write" -> IF Begun = {} THEN f[2] = "crt" ELSE f[1] \in Begun
      [] op = "renew" -> TRUE

\* (Variant with a bug: files that are already there are not written.)
SkippedIfThere(f) ==
    \/ op \in {"create", "renew"} /\ files[f] = Missing
    \/ op = "restore" /\ (store[path][f] = Missing \/ files[f] # Missing)
    \/ op = "write" /\ files[f] # Missing

\* (Variant with a bug: kubeconfigs that do not parse are skipped, too.)
SkippedUnreadable(f) ==
    \/ op = "create" /\ files[f] = Missing
    \/ op = "renew" /\ files[f].form \in {"missing", "torn"}
    \/ op = "restore" /\ store[path][f] = Missing

\* Missing sources are skipped by copyFile's callers, missing kubeconfigs by
\* Renew; a restore from a directory that is gone skips everything.
Skipped(f) ==
    \/ op \in {"create", "renew"} /\ files[f] = Missing
    \/ op = "restore" /\ store[path][f] = Missing

Skip ==
    \E f \in left :
        /\ open = {} /\ IsNext(f) /\ Skipped(f)
        /\ left' = left \ {f}
        /\ UNCHANGED <<files, store, now, newest, op, path, open, handed, intact>>

\* Renew parses the kubeconfig and loads the authority first.  (A torn kubeconfig
\* may still parse; when it does not, the call breaks off.  A torn PEM file never
\* does.)
AuthorityReadable == \A g \in Files \ (Pairs \cup Confs) : files[g].form = "pem"

Destination(f, content) ==
    IF op = "create"
    THEN store' = [store EXCEPT ![path][f] = content] /\ UNCHANGED files
    ELSE files' = [files EXCEPT ![f] = content] /\ UNCHANGED store

\* The destination is opened with O_TRUNC.
Truncate ==
    \E f \in left :
        /\ op \in {"create", "restore", "write", "renew"}
        /\ open = {} /\ IsNext(f) /\ ~Skipped(f)
        /\ op = "renew" => AuthorityReadable
        /\ Destination(f, Torn)
        /\ open' = {f}
        /\ UNCHANGED <<now, newest, op, path, left, handed, intact>>

\* What is written: a copy, or something new.  Renew marshals a structure
\* without JSON tags, so the names of the fields become other ones, and what
\* has a hyphen in its name (the CA, the current context) is lost.
Source(f) ==
    CASE op = "create"  -> files[f]
      [] op = "restore" -> store[path][f]
      [] op = "write"   -> [form |-> "pem", gen |-> newest]
      [] op = "renew"   -> [form |-> "struct", gen |-> newest]

Fill ==
    \E f \in open :
        /\ Destination(f, Source(f))
        /\ left' = left \ {f} /\ open' = {}
        /\ UNCHANGED <<now, newest, op, path, handed, intact>>

Remove ==
    \E f \in left :
        /\ op = "clean" /\ IsNext(f)
        /\ store' = [store EXCEPT ![path][f] = Missing]
        /\ left' = left \ {f}
        /\ UNCHANGED <<files, now, newest, op, path, open, handed, intact>>

\* The call returns nil.
Return ==
    /\ op # "idle" /\ left = {}
    /\ op' = "idle" /\ path' = 0
    /\ handed' = IF op = "create" THEN handed \cup {path} ELSE handed
    /\ intact' = IF op = "create" THEN intact \cup {path} ELSE intact
    /\ UNCHANGED <<files, store, now, newest, left, open>>

\* (Variant with a bug: Create goes on when a copy fails.)
BreakOffIgnored ==
    /\ left # {}
    /\ op' = "idle" /\ path' = 0 /\ left' = {} /\ open' = {}
    /\ handed' = IF op = "create" THEN handed \cup {path} ELSE handed
    /\ intact' = IF op = "create" THEN intact \cup {path} ELSE intact
    /\ UNCHANGED <<files, store, now, newest>>

\* The call returns the error of a file (no space, an unreadable kubeconfig),
\* or the process dies.
BreakOff ==
    /\ left # {}
    /\ op' = "idle" /\ path' = 0 /\ left' = {} /\ open' = {}
    /\ UNCHANGED <<files, store, now, newest, handed, intact>>

Tick ==
    /\ now < MaxSecond
    /\ now' = now + 1
    /\ UNCHANGED <<files, store, newest, call, handed, intact>>

Next ==
    \/ Create \/ Restore \/ Cleanup \/ WriteAllCerts \/ RenewAll
    \/ Skip \/ Truncate \/ Fill \/ Remove \/ Return \/ BreakOff \/ Tick

Spec == Init /\ [][Next]_vars

---------------------------------------------------------------------------
(* Properties.                                                             *)

Vault == INSTANCE BackupVault
    WITH Paths <- Seconds,
         vault <- [t \in Seconds |-> IF t \in intact THEN store[t] ELSE Nothing]

\* A path that Create returned names an exact copy of all files as they were,
\* until Cleanup takes the directory or a Create of the same second reuses it;
\* calls that fail or die half way put nothing into the vault and spoil
\* nothing that is in it (backup.go:54-134).
ImplementsVault == Vault!Spec

ReturnsNil(o) == op = o /\ left = {} /\ op' = "idle"

\* A Restore that returns nil has put back every file that the backup has,
\* whatever renewals, failures and crashes had left of it (backup.go:136-193).
RestoreExact ==
    [][ReturnsNil("restore") /\ path \in intact =>
         \A f \in Files : store[path][f] # Missing => files'[f] = store[path][f]]_vars

\* A WriteAllCerts that returns nil leaves every pair whole, also those that
\* earlier calls left torn, mixed or missing (writer.go:103-120).
WriteAllMends ==
    [][ReturnsNil("write") =>
         \A f \in Pairs : files'[f] = [form |-> "pem", gen |-> newest]]_vars

\* A RenewAll that returns nil has renewed every kubeconfig that the node has,
\* also one that an earlier call left torn: none is passed over because it could
\* not be read (kubeconfig.go:88-135).
RenewAllComplete ==
    [][ReturnsNil("renew") =>
         \A f \in Confs : files'[f] \in {Missing, [form |-> "struct", gen |-> newest]}]_vars
=============================================================================
