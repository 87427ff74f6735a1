\* Two clients of phases 1 to 3 and their server; c1 is written to, c2 writes.
CONSTANTS
    c1 = c1
    c2 = c2
    n1 = n1
    n2 = n2
    nobody = nobody
    Clients <- MCClients
    Names <- MCNames
    NoName = nobody
    Commands <- MCCommands
    MaxRequests <- MCMaxRequests
    MaxQueued = 1

SPECIFICATION FairSpec

INVARIANTS
    TextsInOrder
    NameIsMine
PROPERTIES
    LoginAnswered

\* A client that has quit waits for ever, and a crashed server is silent.
CHECK_DEADLOCK FALSE
