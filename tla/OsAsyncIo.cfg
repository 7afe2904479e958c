SPECIFICATION AsyncSpec
CONSTANTS
    TopFd = 2
    FirstTableSize = 2
    Settings <- MCSettings
INVARIANT RegistrationInv
PROPERTIES NeverBlocks Dispatched
