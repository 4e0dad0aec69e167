\* One lease, taken, released and taken again, is enough.
CONSTANT Leases = {l1}
SPECIFICATION LeaseSpec
CHECK_DEADLOCK FALSE
PROPERTY LeaseBecomesReady
