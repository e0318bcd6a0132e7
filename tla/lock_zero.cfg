CONSTANTS
    Tasks = {app, lvgl}
    Limits = {0}
    TickRate = 100
    MaxDepth = 2

SPECIFICATION MutexSpec

INVARIANT ZeroBlocks
