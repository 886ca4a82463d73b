SPECIFICATION Spec
CONSTANTS
    playlist = playlist
    portal = portal
    Sources <- MCSources
    Playlists <- MCPlaylists
    Accounts = {a1, a2}
    None = None
    MaxRevision = 1
INVARIANTS
    ShownIsOwnUnlessMet
    RefreshIsOfSelected
    NoReaderMeetsSave
PROPERTIES
    ListIsKept
    QueuedIsServed
    CloseReturns
