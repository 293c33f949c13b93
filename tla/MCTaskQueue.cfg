SPECIFICATION Spec
CONSTANTS
    h1 = h1
    n1 = n1
    n2 = n2
    l1 = l1
    s1 = s1
    s2 = s2
    Tasks = {h1, n1, n2, l1}
    PriorityOf <- MCPriorityOf
    SessionOf <- MCSessionOf
    NoSession = NoSession
    NoTask = NoTask
    MaxLen = 5
INVARIANTS
    QueueSorted
PROPERTIES
    ImplementsLanes
