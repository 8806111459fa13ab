SPECIFICATION Spec
CONSTANTS
    reader = reader
    sluggard = sluggard
    Client = {reader, sluggard}
    Slow = {sluggard}
    FirstMessages <- MCFirstMessages
    Capacity = 2
    Ring = 2
    MaxBroadcasts = 4
INVARIANTS
    TypeOK
    FormAsAsked
PROPERTIES
    ImplementsStream
    NewestDelivered
    SubscriptionDecided
