SPECIFICATION Spec
CONSTANTS
    Columns <- MCColumns
    TypesOf <- MCTypesOf
    LaterTypesOf <- MCLaterTypesOf
    DomainsOf <- MCDomainsOf
    Classes <- MCClasses
    Servers <- MCServers
    MaxRevisions = 2
INVARIANT TypeOK RecordedIsTrue NoPhantomChange QuietMeansSame ReferableAsAsked OneAutoIncrement
PROPERTY DowngradeRestores
\* A model that the database already has needs no migration.
CHECK_DEADLOCK FALSE
