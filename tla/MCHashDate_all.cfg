\* Three keys in a table of one bucket and one of seven.
\* 48700 days: to the year 2103, beyond the century that has no leap day.
CONSTANTS
  Keys = {0, 7, 256}
  Data = {d1, d2, d3}
  Cells = {c1, c2, c3}
  Sizes = {0, 3, 4}
  MaxVisits = 2
  d1 = d1
  d2 = d2
  d3 = d3
  c1 = c1
  c2 = c2
  c3 = c3
  Days = 48700
  DayTimes <- MCDayTimes
  UtcOffsets <- MCUtcOffsets
  Dates <- MCDates
  Hours <- MCHours
  Separators = {"T", " ", "other"}
SPECIFICATION AllSpec
SYMMETRY Symmetry
INVARIANTS TableWellFormed OwnershipBalanced
           FormattedIsParsed AcceptedIsKept
PROPERTIES WalkVisitsAll ImplementsKeyMap
