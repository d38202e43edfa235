SPECIFICATION Spec
CONSTANTS
    u1 = u1
    u2 = u2
    Backends = {"memory", "postgres"}
    Updaters = {u1, u2}
    Contents <- MCContents
    MaxScrapes = 3
    NoSite = NoSite
SYMMETRY MCSymmetry
INVARIANTS TypeOK SiteCoherent LatestScrapeKeptSerially TimesOfScrapesSerially
PROPERTY CheckedForwardSerially
