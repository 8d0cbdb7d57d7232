SPECIFICATION Spec
CONSTANTS
    c1 = c1
    c2 = c2
    c3 = c3
    Clients <- MCClients
    MemoryMaps <- AlignedMaps
    Workloads <- LongRuns
    KernelPages = 8
    PageBytes = 1
    LastPage = 30
    Word = 128
PROPERTIES
    RunsAreFree
