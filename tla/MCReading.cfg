SPECIFICATION ReadingSpec
CONSTANTS
  Words <- Words_
  Split <- Split_
  EventFuncs <- EventFuncs_
  EVENT_TABLE_SIZE = 3
  Programs <- MCPrograms
  Damaged <- MCDamaged
  Forbidden <- MCForbidden
INVARIANTS ReadingTypeOK ReadsWhatIsWritten ForbiddenIsRefused HandlersInOrderOfBits NothingIsIgnored UnfinishedIsRefused OnlyUnfinishedBlocksHang
CHECK_DEADLOCK FALSE
