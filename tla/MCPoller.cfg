CONSTANTS
    Channels = {c1, c2, c3}
    Fds = {fd1, fd2, fd3}
    NoFd = noFd
    NoChannel = noChannel
    initEventListSize = 1
SPECIFICATION Spec
SYMMETRY Symmetry
INVARIANTS
    RegistrationExact
    MapExact
    NoCtlError
    EventListBounded
