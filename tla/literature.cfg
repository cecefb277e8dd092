SPECIFICATION Spec
CONSTANTS
  Calls = {"c1", "c2"}
  Adders = {"c1", "c2"}
  Handles = {"h1"}
  Threads = {"c1", "c2", "h1"}
  Domains = {"semanticscholar.org", "publisher", "openalex.org"}
  Queries = {"q"}
  Papers = {"p1", "p2"}
  Tools = {"get_semantic_scholar_recommendations",
           "get_semantic_scholar_citations_and_references", "DownloadPdf", "get_openalex_references"}
  Retries = 2
  Threshold = 2
  Cooldown = 2
  Backoffs = {1}
  MaxInterval = 2
  MaxCalls = 2
  MaxSearches = 1
  MaxKills = 1
INVARIANTS
  CorpusAsTold
  DenseAligned
PROPERTIES
  SourceSpared
  CallsReturn
CHECK_DEADLOCK FALSE
