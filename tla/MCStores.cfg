CONSTANTS
    p1 = p1
    p2 = p2
    u1 = u1
    u2 = u2
    v1 = v1
    Processes = {p1, p2}
    Updates = {u1, u2}
    Views = {v1}
    None = None
    PowerLoss = TRUE
    OpenUnsynced = FALSE
SPECIFICATION StoresSpec
 
PROPERTIES  CallsAnswered
