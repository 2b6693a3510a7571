SPECIFICATION FairSpec
CONSTANTS
    Workload = 3
    Types = {"SUBMIT", "CANCEL"}
    Capacity = 2
INVARIANTS TypeOK OneProducer ReportAlone ReadyFirst WorkloadDone RowsPaired
PROPERTY Terminates
CHECK_DEADLOCK FALSE
