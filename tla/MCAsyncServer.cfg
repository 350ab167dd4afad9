SPECIFICATION FairSpec
CONSTANTS
    patient = patient
    hasty = hasty
    None = None
    Clients = {patient, hasty}
    Scripts <- MCScripts
    Patient = {patient}
    Fds = {4, 5}
    Chats = {"h1", "h2", "h3", "h4"}
    Most = 3
    Window = 1
INVARIANTS
    TypeOK
    ClientsKeptApart
PROPERTIES
    PatientServed
\* All clients may be gone.
CHECK_DEADLOCK FALSE
