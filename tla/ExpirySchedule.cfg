SPECIFICATION Spec
CONSTANTS
    ThresholdDays = 1
    CheckIntervalHours = 10
    Validity = 345600
    Jitter = 119
    Late = 600
    MaxFailures = 3
    Installed = {345600, 172800}
    Elapses = {719, 36000}
INVARIANTS TypeOK NeverExpired
PROPERTY RenewedInWindow
