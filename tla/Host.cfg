SPECIFICATION Spec
CHECK_DEADLOCK FALSE
CONSTANT Collapses = {"single"}
CONSTANT Lookups = {1}
 
 
INVARIANT ListRestored
PROPERTY ClientUnblocked
