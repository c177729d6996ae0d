SPECIFICATION FairSpec
CONSTANT NumMaster = 4
INVARIANTS TypeOK GrantInv BoundedOvertaking
PROPERTIES NoPreemption StarvationFree
