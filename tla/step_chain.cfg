SPECIFICATION Spec
CONSTANT Programs <- AllPrograms
INVARIANTS
    
    
    MapsOwned
    NamespacedUnique
    StreamsOwn
