SPECIFICATION MCSpec
INVARIANTS
    KeysSound
    
    
    
\* The counts of requests, blocks, syncs and faults are bounded.
CHECK_DEADLOCK FALSE
