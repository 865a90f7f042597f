SPECIFICATION FairSpec
CONSTANTS
    Id = {i, j}
    Device = {d}
    Scan = {whois, cidr}
    ModbusScan = {cidr}
    Credential = {secret}
    None = None
    Absent = Absent
    Unknown = Unknown
    MaxDiskErrors = 1
    MaxConnections = 2
    MaxChecks = 2
    MaxKills = 1
INVARIANTS UniqueDevices CredentialDurable DismissedStaysIgnored CheckedOnce RecordTellsConnection
PROPERTY CheckReachesRecord
CHECK_DEADLOCK FALSE
