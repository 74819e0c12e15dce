SPECIFICATION PagesSpec
CONSTANTS
  Admin = TRUE
  Reasons = {"parts"}
  NoReason = NoReason
  Idle = Idle
  Sent = Sent
  NoCopy = NoCopy
  Processes = {p1}
  MaxVersion = 3
  MaxWrites = 2
  MaxLosses = 1
  CronJobs = {"prune", "oneview"}
  Deployed = {"prune", "oneview"}
  Pods <- MCPods
  none = none
  sent = sent
  MaxRuns <- MCMaxRuns
  MaxPosts = 1
  Kinds <- MCKinds
  Legacy <- MCRenamed
  Names = {"srv"}
  StartNaming <- MCNaming
  Dates = {bad}
  BadDate = bad
  bad = bad
  Renamed <- MCRenamed
  Span <- MCSpan
  Absent = gone
  gone = gone
  PAGE_SIZE = 1
  StartTrails <- MCStartTrails
  StartFilters <- MCStartFilters
  Retention = 1
  Places = {1, 2, 3}
  MaxMinute = 2
  MaxIndex = 1
  MaxEdits = 1
  Users = {"bob"}
  Role <- MCRole
  LoginRequired = TRUE
  nobody = nobody
  nil = nil
  MaxSessions = 3
  MaxTokens = 1
  Buttons = {b1}
  b1 = b1
  VISIBLE_MS = 5
  RESET_AFTER_MS = 4
  nothing = nothing
  Logins = {l1, l2}
  login_max_failures = 2
  MaxRedisFailures = 1
INVARIANTS
  PagesTypeOK
  SettledRowIsCurrent
  ErrorIsOfTheDialog
  NoEventSkipped
  SettledMeIsCurrent
  GuessesAreBounded
PROPERTIES
  LateAnswerLeavesTheCard
  PagerNamesItsPage
  ConfirmationStaysItsTime
  RowCatchesUp
  JobsPageCatchesUp
CHECK_DEADLOCK FALSE
