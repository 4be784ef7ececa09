SPECIFICATION LiveSpec
PROPERTIES
    AcquireServed
    CloseReturns
    MaintenanceStops
