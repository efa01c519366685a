CONSTANTS
    Controllers <- MCControllers
    Tags <- MCControllers
    Jobs <- MCJobs
    Keys = {"k"}
    KeyOf <- MCKeyOf
    Files = {"f"}
    FilesOf <- MCFilesOf
    CertFilesOf <- MCCertFilesOf
    Renewers = {"r"}
    OwnerOf <- MCOwnerOf
    HttpJobs <- MCJobs
    InfosOf <- MCInfosOf
    Servers = {1, 2}
    RejectionBase = 1
    RejectionMax = 12
    LocalBase = 1
    LocalMax = 2
    RateDefault = 12
    RateMax = 100
    RetryAfters = {0}
    Hour = 12
    MaxFailures = 5
    MaxShared = 2
    MaxFailed = 5
    MaxIssues = 2
    MaxCrashes = 1
    MaxReloads = 2
SPECIFICATION MCSpec
CHECK_DEADLOCK FALSE
INVARIANTS
    
    ListenerOwned
    

    
