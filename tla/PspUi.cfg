SPECIFICATION ScreenSpec
CONSTANTS
    n1 = n1
    n2 = n2
    n3 = n3
    Notifications = {n1, n2, n3}
    Empty = Empty
    HistorySize = 3
    PopupFrames = 2
    AppLen <- MCAppLen
    SummaryLen <- MCSummaryLen
    BodyLen <- MCBodyLen
    BranchLens = {14, 18, 31}
    MemoryLens = {7, 15}
    StatusLens = {19, 52}
INVARIANTS
    TypeOK
    PopupIsNewest
    NoAdjacentDuplicates
    TextsApart
    NotificationsFit
PROPERTIES
    DismissKeepsHistory
    PopupExpires
