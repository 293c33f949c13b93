SPECIFICATION Spec
CONSTANTS
    Resumes = {h1, h2}
    PageSize = 1
    MaxEvents = 3
    MaxResumes = 2
    MaxPolls = 2
    MaxRestarts = 1
INVARIANTS
    TypeOK
    LogKeepsOrder
    
    ShownFaithfully
    PolledInOrder
SYMMETRY ResumeSymmetry
CHECK_DEADLOCK FALSE
