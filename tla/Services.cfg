\* The parts of MCServices, each alone. Prepare and deletion: two calls of one key, one failure, two
\* requests. Linking: two chats, two codes, two deliveries, two documents, one still to come.
\* Deliveries: a Discord interaction and two Telegram messages, of three people; three copies of the
\* first, or one of each. Registry: two postings, one page a posting, a window and a limit of one.
\* Profiles: three imports of two contents, three presses.
SPECIFICATION MCSpec
CONSTANTS
  c1 = c1
  c2 = c2
  Call = {c1, c2}
  Key = {"key"}
  KeyOf <- MCKeyOf
  NoCall = NoCall
  MaxTrouble = 1
  MaxPasses = 1
  MaxRequests = 2
  s1 = s1
  s2 = s2
  x1 = x1
  x2 = x2
  item1 = item1
  item2 = item2
  k1 = k1
  k2 = k2
  Chat = {s1, s2}
  Web = web
  Code = {k1, k2}
  Attempt = {x1, x2}
  Item = {item1, item2}
  HomeOf <- MCHomeOf
  Late = {item2}
  Nobody = Nobody
  NoItem = NoItem
  MaxFailed = 1
  MaxMishaps = 1
  d1 = d1
  d2 = d2
  d3 = d3
  telegram = telegram
  discord = discord
  other = other
  server = server
  Update = {telegram, discord, other}
  OnDiscord = {discord}
  PersonOf <- MCPersonOf
  Delivery = {d1, d2, d3}
  Process = {server}
  NoProcess = NoProcess
  NoUpdate = NoUpdate
  MaxPlaces = 2
  MaxDesks = 2
  MaxHourly = 1
  MaxMisfortunes = 1
  p1 = p1
  p2 = p2
  Posting = {p1, p2}
  Suiting = {p1}
  NoPosting = NoPosting
  MaxPages = 2
  MaxCandidates = 1
  MaxWindow = 1
  MaxMatches = 1
  m1 = m1
  m2 = m2
  m3 = m3
  Import = {m1, m2, m3}
  Content = {"h1", "h2"}
  ContentOf <- MCContentOf
  b1 = b1
  b2 = b2
  b3 = b3
  Press = {b1, b2, b3}
  NoImport = NoImport
  MaxBreaks = 1
INVARIANTS
  TypesOK
  FileBehindRow
  DeletionLeavesOnlyFailures
  PreparedIsAnnounced
  NoDocumentLost
  RefusedKeepsAccount
  HandledOnce
  PlacesAreReturned
  ToldTheTruth
  UnchangedBoardIsSettled
  NothingPassedOver
  ReturnedIsWhole
PROPERTIES
  ImplementsInbox
  RetryRunsNoEngine
  ResentLinkFinishes
  ClosedOnlyWhenGone
  LostOnlyToARace
\* Each part's work comes to an end.
CHECK_DEADLOCK FALSE
