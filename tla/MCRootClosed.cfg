SPECIFICATION AwsSpec
CONSTANTS
    SDKs = {"v1", "v2"}
    MaxTries = 2
CHECK_DEADLOCK FALSE
INVARIANT RootClosed
