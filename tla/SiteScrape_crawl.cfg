CONSTANTS
  Spelling <- MCSpelling
  Norm <- MCNorm
  Seeds <- MCSeeds
  Sites <- MCSites
  OffDomain = {"offsite"}
  Unsafe = {"internal"}
  Asset = {"pdf"}
  MaxPages = 4
  Concurrency = 2
  SameDomainOnly = TRUE
  Modes = {"crawl", "pages"}
  Faults = {"fetchFails", "databaseFails", "jobFails", "others"}

SPECIFICATION FairSpec
CHECK_DEADLOCK FALSE
INVARIANTS TypeOK NoPageFetchedTwice CrawlIsComplete BreadthFirst
PROPERTIES SuccessIsIngested
