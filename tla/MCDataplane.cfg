SPECIFICATION FairSpec
CONSTANTS
    n1 = n1
    Gw = gw
    Procs = {n1, gw}
    TicketIds = {t1}
    Owner <- AtN1
    Ttls = {2}
    Slots = {1}
    MaxStreams = 1
    MaxConns = 2
    MaxReqs = 2
    NoSecret = NoSecret
    NoTicket = NoTicket
    MaxTime = 2
    MaxStarts <- GwRestarts
    MaxDrops = 1
CHECK_DEADLOCK FALSE
INVARIANTS
    TicketOnce
    
    SecretsAgree

    
