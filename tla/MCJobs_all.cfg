SPECIFICATION Spec
CONSTANTS
    Clients = {c1, c2}
    MaxJobs = 2
INVARIANT LateIsConsistent
PROPERTY
    JobsEndBesidesExports
