SPECIFICATION Spec
CONSTANTS
    BlockSize = 3
    NonceSize = 1
    Files <- MCFiles
    Nonces <- MCNonces
    FactoryKey <- MCFactoryKey
    NewKey <- MCNewKey
    Messages <- MCMessages
    FifoLines = 6
    MaxAttempts = 2
    MaxOps = 2
    MaxFaults = 1
INVARIANTS ConfigurationKept CrashToldOnce
PROPERTIES Recovers
