SPECIFICATION FairSpec
CONSTANTS
    Devices = {8}
    Addresses = {8, 24}
    NULL = NULL
    AfterClose = {"UNLISTEN", "secondary"}
    ConsoleCommands = {"sleep", "wake"}
INVARIANTS
    TypeOK
    RoleMatchesDevice
    NoNullDevice
    AtnHoldsData
    IdleBusReleased
PROPERTIES
    AsleepStaysQuiet
    AtnAnswered
