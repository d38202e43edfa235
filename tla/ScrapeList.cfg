SPECIFICATION LiveSpec
CONSTANTS
    e1 = e1
    e2 = e2
    Nil = Nil
    Subscriptions <- MCSubscriptions
    Emails = {e1, e2}
    Lists <- MCLists
    MaxChanges = 3
SYMMETRY MCSymmetry
INVARIANTS ScrapeListInv ScrapedOnce AllScraped KeptAreScraped ListedWereStored
PROPERTIES ImplementsScrapeList ImplementsMemoryStorage
CHECK_DEADLOCK FALSE
