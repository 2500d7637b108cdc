CONSTANTS
    a1 = a1
    a2 = a2
    re = re
    Absent = Absent
    Names <- MCNames
    Malformed <- MCMalformed
    LocalNames <- MCLocalNames
    Bundled <- MCBundled
    Addresses <- MCAddresses
    Language <- MCLanguage
    ListInputs <- MCLists
    RuleInputs <- MCRules
    ClientInputs <- MCClients
    GroupInputs <- MCGroups
    EntryInputs <- MCEntries
    Downloads <- MCDownloads
    Files <- MCFiles
    InitialTables <- MCTables
    MaxRows = 2
    MaxEdits = 3
SPECIFICATION Spec
INVARIANTS
    MappingsRefer
    DecisionsFollowTables
    PreviewAgrees
PROPERTY NothingResurrected
CHECK_DEADLOCK FALSE
