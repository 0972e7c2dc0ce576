SPECIFICATION FairController
CONSTANTS
    Settings <- MCSettings
    Parameters <- MCParameters
    ReadSettings <- MCReadSettings
    Rereads <- MCRereads
    StatusTopics <- MCStatusTopics
    MaxChanges = 1
    MaxLosses = 1
    Unknown = Unknown
    NoItem = NoItem
PROPERTY
    StaysInSync
