SPECIFICATION MCSpec

INVARIANTS
    ParsesLanguage  HeapRight

    
