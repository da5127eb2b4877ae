\* Three peers, one sometimes with another user id, for two places; one may die before it
\* is accepted, and any of them afterwards.
SPECIFICATION Spec
CONSTANTS
    p1 = p1
    p2 = p2
    p3 = p3
    Nobody = Nobody
    Peers <- ThreePeers
    Strangers <- OneStranger
    AuthEnabled = TRUE
    MaxClients = 2
    Spare = 1
    MaxEvents = 3
    MaxEarly = 1
INVARIANT TypeOK
INVARIANT SlotsAgree
INVARIANT AddressIsPeers
INVARIANT EventsFresh
INVARIANT RoomForAll
PROPERTY PeerSpec
PROPERTY Answered
CHECK_DEADLOCK FALSE
