SPECIFICATION Spec
CONSTANTS
  e1 = e1
  e2 = e2
  j1 = j1
  j2 = j2
  l1 = l1
  l2 = l2
  l3 = l3
  p1 = p1
  p2 = p2
  p3 = p3
  q1 = q1
  q2 = q2
  Parts = {"assignments", "scheduler", "callforward", "diary", "reporting", "reports", "branding", "weather", "notifications", "registration", "records", "extras"}
  Supervisors = {p1, p2, p3}
  Edits = {q1, q2}
  EditKinds = {"add", "remove", "primary", "patch", "archive", "purge", "account"}
  None = None
  Workers = {w1, w2}
  Days = {1, 2}
  Absences = {a1, a2}
  Allocations = {x1}
  Bookers = {q1, q2}
  NoRow = NoRow
  ProgrammeJobs = {j1, j2}
  Items = {1, 2, 3, 4}
  Planners = {q1, q2}
  PlannerKinds = {"create", "update", "delete", "close", "reorder", "capture", "forget", "apply"}
  Kinds = {"HEADER", "TASK"}
  Orders <- MCOrders
  NewOrders <- MCNewOrders
  Filed = 1
  NoItem = NoItem
  NoParent = NoParent
  NoOrder = NoOrder
  MaxTemplateItems = 2
  Instances = {i1}
  Clients = {c1}
  Jobs = {j1}
  Entries = {e1, e2}
  JobOf <- EntryJobs
  Buffer = 1
  NoInstance = NoInstance
  Notes = {0, 1, 2}
  Earlier = {0}
  Authors = {q1, q2}
  DiaryOps = {"add", "update", "archive", "delete", "entry", "remove"}
  NoNote = NoNote
  Lines = {l1, l2, l3}
  Edited = {l1}
  Projects = {j1, j2}
  Crew = {p1, p2}
  ProjectOf <- MCProjectOf
  Books <- MCBooks
  Office = Office
  Blank = Blank
  RecentDays = 2
  FirstSaturday = 2
  Filings = 2
  LastReportDay = 4
  PlanDates = {1, 3}
  LastDay = 30
  Months <- MCMonths
  Horizon = 1
  NoDate = NoDate
  Images = {p1, p2, p3}
  Savers = {q1, q2}
  NoImage = NoImage
  Callers = {p1, p2, p3}
  RateLimit = 2
  RateWindow = 3
  RateMapMax = 3
  NoWindow = NoWindow
  Recipients = {p1, p2, p3}
  CompanyOf <- UserCompanies
  Endpoints = {b1}
  NoUser = NoUser
  CompanyNames = {n1, n2}
  Emails = {p1, p2}
  Registrants = {q1, q2}
  RecordJobs = {j1, j2}
  Records = {1, 2}
  RecordEditors = {q1, q2}
  Original = Original
  NoRecord = NoRecord
  EtoJobs = {j1, j2}
  Raisers = {p1, p2, p3}
  MaxEtos = 3
CHECK_DEADLOCK FALSE
SYMMETRY Interchangeable
INVARIANTS SiteTypeOK SupervisorDisputedByRacersOnly StatusUndoneByRacersOnly AbsencesNeverOverlap BookedWhileAwayByRacersOnly LinksVouchedFor CapturesAreFaithful ItemsUndoneByRacersOnly NotesInTheOrderWritten ScreensSettle OverdueReadsAgree BarsAreFound SiteReportsAgree SiteDiaryReportsAgree ImagesFollowTheLogo QuotaIsBounded EndpointIsLastSubscribers RegistrationsAreSerial ProgressWithinReach EtoNumbersGapFree
PROPERTIES DelaysOnlyGrow SiteScoresFollowTheDays
