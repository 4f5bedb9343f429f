SPECIFICATION Spec
CONSTANT Graphs <- SmallFunctions
INVARIANTS TypeOK DefsDominateUses PlacedAsDeepAsUsesAllow StaysBehindItsGate PreNeverReadsPost
