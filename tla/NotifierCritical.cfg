SPECIFICATION Spec
CONSTANTS
    Builders = {"buildNotifier"}
    Outages = FALSE
PROPERTY CriticalDelivered
