SPECIFICATION Spec
CONSTANTS
    etcd = etcd
    apiserver = apiserver
    NoBackup = NoBackup
    Certs = {"etcd-server", "apiserver"}
    Kubeconfigs = {}
    Issued <- MCIssued
    ConfSeasons = {0, 1, 2}
    Pods = {etcd, apiserver}
    RestartOrder <- MCOrder
    Owner <- MCOwner
    DrySeasons = {}
    Faults = {"sign"}
    Restless = {apiserver}
    MaxSeason = 2
PROPERTIES
    RollbackRestores
