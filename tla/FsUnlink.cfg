CONSTANTS
  Names = {"one", "two", "ten"}
  NewNames = {}
  Folders = {}
  NameLen <- MCNameLen
  Procs = {p1}
  NR_FILES = 1
  NR_FILE_DESC = 1
  NR_INODE = 4
  MAX_FILE_AMOUNT = 4
  NR_DEFAULT_FILE_SECTS = 2
  n_1st_sect = 3
  NInodes = 5
  DirRoom = 6
  MaxChanges = 6
SPECIFICATION Spec
INVARIANT NoAssertFails
CHECK_DEADLOCK FALSE
