SPECIFICATION Spec
CONSTANTS
    Builders = {"New", "buildNotifier"}
    Outages = TRUE
INVARIANT TypeOK
PROPERTIES CriticalTriesAll NotifyIsHonest
