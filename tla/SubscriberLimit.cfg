SPECIFICATION Spec
CONSTANTS
    Callers = {c1, c2}
    Emails = {alice, bob}
    Addrs = {a1, a2, a3}
    Subscriptions <- MCDistinct
    Limits <- MCDefaultLimit
    SubscriberLimit = 1
    SubscriptionLimit = 1
SYMMETRY MCSymmetry
INVARIANT SubscriberLimitHolds
