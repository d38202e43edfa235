SPECIFICATION Spec
CONSTANTS
    Callers = {c1, c2}
    Emails = {alice, bob}
    Addrs = {a1, a2, a3}
    Subscriptions <- MCSubscriptions
    Limits <- MCLimits
    SubscriberLimit = 2
    SubscriptionLimit = 1
SYMMETRY MCSymmetry
INVARIANTS TypeOK UniqueEmails UniqueSubscriptions OvershootInv
PROPERTIES ImplementsDirectory OperationsAsRequested
