SPECIFICATION PagesSpec
CONSTANTS
  null = null
  Null = null
  m1 = m1
  m2 = m2
  Unassigned = "unassigned"
  Within <- MCWithin
  RegexHits <- MCRegexHits
  Bare <- MCBare
  Collation <- MCCollation
  DonorReasons = {"donor"}
  Fleets <- MCFleets
  Options <- MCOptions
  Queries <- MCQueries
  PageSize = 2
  StartUrls <- MCStartUrls
  ClusterQueries = {null, "hosted"}
  NarrowAbove = 2
  MaxClicks = 2
  Sites <- MCSites
  SiteFleets <- MCSiteFleets
INVARIANTS
  PagesTypeOK
  CountsSayWhatTickingDoes
  ChipsExplainTheView
  PagesMakeTheExport
  CurrentLinksListTheirCount
  SiteCardsAddUp
PROPERTIES
  ClearShowsTheFleet
  NoClickIsLost
  ViewSettles
CHECK_DEADLOCK FALSE
