SPECIFICATION MeterSpec
CONSTANTS
    ToolCall = {a, b, c}
    Quota = 2
    EventBuffer = 1
    MaxMonth = 0
    MaxRestarts = 0
CHECK_DEADLOCK FALSE
INVARIANT OnlyServedBilled
