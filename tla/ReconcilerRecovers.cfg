SPECIFICATION Spec
CONSTANTS
    etcd = etcd
    apiserver = apiserver
    NoBackup = NoBackup
    Certs = {"etcd-server", "apiserver"}
    Kubeconfigs = {"admin.conf"}
    Issued <- MCIssued
    ConfSeasons = {1, 2}
    Pods = {etcd, apiserver}
    RestartOrder <- MCOrder
    Owner <- MCOwner
    DrySeasons = {}
    Faults = {"patch", "backup", "sign", "manifest", "health"}
    Restless = {}
    MaxSeason = 2
INVARIANTS
    BackupWhole
    IdleMeansWhole
PROPERTIES
    PhaseSettles
    DueEventuallyServed
