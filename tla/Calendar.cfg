SPECIFICATION ReportsSpec
CONSTANTS
  j1 = j1
  j2 = j2
  p1 = p1
  p2 = p2
  l1 = l1
  l2 = l2
  l3 = l3
  Lines = {l1, l2, l3}
  Edited = {}
  PlanDates = {1, 3}
  LastDay = 30
  Months <- MCMonths
  Horizon = 1
  NoDate = NoDate
  Projects = {j1, j2}
  Crew = {p1, p2}
  ProjectOf <- MCProjectOf
  Books <- MCBooks
  Office = Office
  Blank = Blank
  RecentDays = 2
  FirstSaturday = 2
  Filings = 2
  LastReportDay = 4
CHECK_DEADLOCK FALSE
INVARIANT DatelessJobIsDrawn
