SPECIFICATION Spec
CONSTANTS
    Requests = {1, 2, 3}
    Clients = {"c"}
    Agents = {1, 2}
    h1 = h1
    none = none
    Hosts = {h1}
    NoHost = none
    World <- MCWorld
    ClientQuotas <- MCClientQuotas
    HostQuotas <- MCHostQuotas
    MaxTracked = 0
    Skew = 1
    Deadline = 2
    LastArrival = 4
CHECK_DEADLOCK FALSE
INVARIANTS WindowKept 
PROPERTY RetryIsHonest
