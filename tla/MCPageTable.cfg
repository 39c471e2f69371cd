CONSTANTS
    Page = {q1, q2, q3, q4}
    Root = Root
    Index = {0, 1}
    LA <- Addresses
    Perm = {kernel, user}
    Kernel = kernel
    User = user
    Table = Table
    NULL = NULL
SPECIFICATION CheckSpec
SYMMETRY Symmetry
INVARIANTS TablesAreTree RefsCountMappings FreePageUnreachable NoStaleTranslation PgdirChecksPass
PROPERTIES OwnAddressOnly
