SPECIFICATION Spec
CONSTANTS
    etcd = etcd
    apiserver = apiserver
    NoBackup = NoBackup
    Certs = {"etcd-server", "apiserver"}
    Kubeconfigs = {"admin.conf"}
    Issued <- MCIssued
    ConfSeasons = {0, 2}
    Pods = {etcd, apiserver}
    RestartOrder <- MCOrder
    Owner <- MCOwner
    DrySeasons = {1}
    Faults = {"patch", "backup", "sign", "write", "manifest", "health", "crash"}
    Restless = {etcd, apiserver}
    MaxSeason = 2
INVARIANTS
    TypeOK
    RestorePointPersisted
    CriticalMeansUntouched
    RestartedOnWholePairs
    PodsCatchUp
PROPERTIES
    StampMeansRenewed
    DryRunTouchesNothing
    ImplementsRestorePoint
    ImplementsNodePhase
