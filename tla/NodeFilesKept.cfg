SPECIFICATION Spec
CONSTANTS
    c1 = c1  k1 = k1
    Nothing = Nothing
    Certs = {c1}
    FileList <- InOrder
    Kubeconfigs = {k1}
    Lacking = {{}, {c1}, {k1}, {c1, k1}}
    CAs = {}
    MaxSecond = 1
    MaxGen = 2
INVARIANT TypeOK
PROPERTIES
    ImplementsVault
    RestoreExact
    WriteAllMends
    RenewAllComplete
