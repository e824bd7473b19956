CONSTANTS
    InfoHashes = {h1}
    PeerIds = {c1, c2}
    ConnIds = {k1, k2}
    PeersWanted <- MC_PeersWanted
    ClientEvents <- MC_ClientEvents
    MaxResponsePeers = 1
    MaxPeerAge = 2
    MaxTime = 2
    MaxConnAge = 1
    ReqCap = 1
    RespCap = 1
    MaxDatagrams = 4
SPECIFICATION Spec
SYMMETRY MC_Symmetry
INVARIANTS
    RouterTypeOK
    CountersMatchPeers
    AnnounceResponseSound
    PeersStoredOnlyByTheirOwner
