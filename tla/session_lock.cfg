SPECIFICATION SessionFairSpec
CONSTANTS
    Buildlet = {"x", "y"}
    KeepAliver = {"k"}
    IdleTimeout = 2
PROPERTY CloseEnds
