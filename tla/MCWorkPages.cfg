SPECIFICATION PagingSpec
CONSTANTS
  Lists = {"work"}
  RowIds = {1, 2, 3}
  PageSizes = {1, 2}
  MaxTime = 3
  TimesPerDay = 2
  MaxChanges = 1
INVARIANTS NextPageGoesOn
CHECK_DEADLOCK FALSE
