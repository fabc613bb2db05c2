\* One address and the limits of the code: ten registrations in five minutes.
CONSTANTS
    a1 = a1
    Addresses = {a1}
    Attempts = 10
    Window = 5
    MaxAddresses = 1
    MaxClock = 6
SPECIFICATION LoginSpec
INVARIANT AttemptsPerWindow
CHECK_DEADLOCK FALSE
