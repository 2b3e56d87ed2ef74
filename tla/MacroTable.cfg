SPECIFICATION Spec
CONSTANTS
    Capacity = 6
    cpu = cpu
    number = number
    Names = {cpu, a}
    ArgLists = {1, 3}
    Payloads = {number, p}
    Predefined <- MCPredefined
    Far = 9
    NoName = NoName
    NoArgs = NoArgs
    NoPayload = NoPayload
    Clobbered = Clobbered
    Undefined = Undefined
INVARIANTS NamesUnique SlotsSpent
PROPERTY DSpec
CHECK_DEADLOCK FALSE
