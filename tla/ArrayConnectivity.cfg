\* Two pods with the same affinity; a call fails; nodes are removed and registered again.
CONSTANTS
    PodKeys = {p1, p2}
    Nodes = {n1}
    NoNode = NoNode
    AffinityOf <- Alike
    NoLabels = NoLabels
    Labels = Labels
    Threshold = 2
    MaxLoss = 2
    MaxNodeUID = 2
    MaxQueue = 1
    MaxFaults = 1
SPECIFICATION FairSpec
INVARIANTS TypeOK LossNeedsThreshold
PROPERTIES DisconnectedCleaned NodeUIDHeals
