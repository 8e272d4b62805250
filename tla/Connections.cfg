SPECIFICATION LiveSpec
CONSTANTS
    s1 = s1
    s2 = s2
    s3 = s3
    p = p
    kioskA = kioskA
    kioskB = kioskB
    Sockets = {s1, s2, s3}
    Seats <- MCSeats
    SeatOf <- MCSeatOf
    Commands = {c1}
    MaxConnections = 2
    NoSocket = NoSocket
INVARIANTS
    TypeOK
    SingleConnection
    TablesAgree
    SubscriberIsConnected
    DeliveredOnce
PROPERTIES
    ConnectEnds
    DeadSocketsEvicted
CHECK_DEADLOCK FALSE
