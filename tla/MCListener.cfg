SPECIFICATION Spec
CONSTANTS
    Clients = {c1, c2, c3}
    NoClient = NoClient
    MaxUnread = 1
CHECK_DEADLOCK FALSE
INVARIANTS
    TypeOK
    SessionHasSpoken
PROPERTIES
    SessionEndsByItsClient
    ClientIsServed
