SPECIFICATION ServiceSpec
CONSTANTS
    MaxAttempts = 2
    Absent = Absent
    Free = Free
    Main = p
    Req = {p, q}
    Task = {p, q}
    Conn = {c, d}
    MaxSegs = 2
    MaxTries = 2
    SDKs = {"v1", "v2"}
    Statuses <- MCStatuses
    Writers <- MCWriters
    Works = {"write", "http", "sql", "aws"}
SYMMETRY MCSymmetry
CHECK_DEADLOCK FALSE
INVARIANTS
    StatusTrue PanicShown CancelCleansUp ResponseClosed NothingOverwritten
    OwnRequest HeldOrClosed UnderTransaction OneAttribute AwsClosed ChildrenFirst
