SPECIFICATION FairSpec
CONSTANTS
  a = a
  b = b
  Replicas = {a, b}
  Tenants = {"acme", "globex"}
  Seeded = "acme"
  Generated = {"notes", "wiki"}
  Drafts <- SomeDrafts
  MaxReleases = 2
  MaxBoots = 2
  MaxFailures = 1
INVARIANTS TypeOK RunningReleasesAreSound ServedIsCatalogued OnlyDeclaredIsReached
PROPERTIES NothingIsTakenBack BootSettles
CHECK_DEADLOCK FALSE
