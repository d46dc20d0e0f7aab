SPECIFICATION TwoSpec
CONSTANTS
    Requests = {r1, r2, r3}
    Kinds <- CatalogueKinds
    Home = home
    Slugs = {"nord", "sued"}
    HomeSlug = "nord"
    ServiceSlugs = {cut, dye}
    StaffSlugs = {ada}
    Emails = {boss, clerk, temp}
    Boss = boss
    Clerk = clerk
    TTL = 1
    Skews = {0}
    MaxClock = 0
INVARIANTS TenantsAreSound 
SYMMETRY AnyCall
CHECK_DEADLOCK FALSE
