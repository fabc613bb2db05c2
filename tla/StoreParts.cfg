\* Each account with an instance of its own: a clock that crosses a month of
\* one day, contacts over three days, and a target that is replaced, removed
\* and added again.
CONSTANTS
    eth0 = eth0
    eth1 = eth1
    Interfaces = {eth0, eth1}
    Months <- MCMonths
    DayLength = 2
    KeepDays = 3
    ResetDays = {1, 2}
    Offsets <- MCOffsets
    FirstTime = 13
    LastTime = 15
    MaxBytes = 2
    MaxFlight = 2
    MaxIncidents = 1
    Thresholds = {1, 3}
    OnlineDay = 3
    KeptDays = 1
    MaxMoment = 10
    host1 = host1
    host2 = host2
    tcp = tcp
    icmp = icmp
    Hosts = {host1, host2}
    Methods = {tcp, icmp}
    Absent = Absent
    Unmeasured = Unmeasured
    Pending = 1
    PreviewCap = 2
    Interval = 1
    FreshFor = 1
    MaxMinute = 3
    MaxEdits = 2
    MaxPingCrashes = 1
SPECIFICATION PartsSpec
SYMMETRY Symmetry
INVARIANTS
    NoByteTwice
    DaysMatchCycle
    CyclesTile
    OnlineExact
    ReloadExact
CHECK_DEADLOCK FALSE
