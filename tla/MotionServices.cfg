\* Three clients under every order of requests.
SPECIFICATION Spec
CONSTANTS
    Clients = {a, b, c}
    Nobody = Nobody
INVARIANTS TypeOK SyncNotDisplaced
PROPERTIES KeepsPromise StopServed AnsweredUnlessHeldUp StopReleases
\* mwait on a paused robot while resume waits behind it: everyone may wait.
CHECK_DEADLOCK FALSE
