\* Three clients of phase 4.
CONSTANTS
    ann = ann
    bob = bob
    cat = cat
    Users <- MCUsers
    MaxRequests <- MCMaxRequests

SPECIFICATION Spec

INVARIANTS
    OpensInTime

\* A client that quit or crashed does nothing more.
CHECK_DEADLOCK FALSE
