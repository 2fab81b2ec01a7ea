\* A service is added, stopped, removed, and the Guardian restarted.
SPECIFICATION Spec
CONSTANTS
    s1 = s1
    s2 = s2
    s3 = s3
    Cleared = {"smtp", "master"}
    Kept = {"slave"}
    SecretOrder <- Encryption
    Sections <- Handling
    MaxValue = 2
    Requests = {"r1", "r2"}
    Worlds <- AllWorlds
    Ids = {s1, s2, s3}
    Unknown = Unknown
    Schedules = {"daily", "weekly", "wrong"}
    Cron = {"daily", "weekly"}
    Kilo = 16
    Sent <- Requested
    Installations <- AllInstallations
    Circumstances <- AllCircumstances
    Cases <- ServicesOnly
PROPERTY
    RemovedStaysRemoved
CHECK_DEADLOCK FALSE
