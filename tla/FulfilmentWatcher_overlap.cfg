\* Overlapping scans, a backfill, errors, crashes and reorganisations, with a
\* start block and without one.
SPECIFICATION MCSpec
CONSTANTS
    Id = {q1}
    Scan = {s1, s2}
    Backfill = {b1}
    StartBlocks = {0, 1}
    Batch = 1
    Confirmations = 1
    MaxHead = 4
    MaxFaults = 2
INVARIANTS NothingMissed NothingInvented
PROPERTIES EveryFulfilmentIsReceipted
