CONSTANTS
    Callers = {c1, c2}
    None = None
    MaxHead = 3
    MaxDrops = 1
    MaxRefusals = 1
SPECIFICATION Spec
INVARIANTS
    TypeOK PendingChannelsLive WaitersReleased CorrectReply
    FeedInOrder GapOnlyAtReconnect OneSubscription SubscriptionKept QuietAfterStop
PROPERTIES
    ImplementsFeed NothingDiscarded
CHECK_DEADLOCK FALSE
SYMMETRY Symmetry
