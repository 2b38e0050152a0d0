SPECIFICATION Spec
CONSTANTS
    first = first
    second = second
    third = third
    fourth = fourth
    d1 = d1
    d2 = d2
    d3 = d3
    None = None
    Empty = Empty
    Processes = {p1, p2}
    Sources = {first, second, third, fourth}
    Keys = {d1, d2, d3}
    Key <- MCKey
    Compiling = {first, third}
    Refused = {fourth}
    MaxBuilds = 3
INVARIANTS TypeOK LoadsWhatItAskedFor AloneSucceeds
PROPERTIES BuildsEnd
CHECK_DEADLOCK FALSE
