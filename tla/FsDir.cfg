CONSTANTS
  Names = {"fil", "two"}
  NewNames = {"n"}
  Folders = {"fil"}
  NameLen <- MCNameLen
  Procs = {p1, p2}
  NR_FILES = 2
  NR_FILE_DESC = 2
  NR_INODE = 3
  MAX_FILE_AMOUNT = 2
  NR_DEFAULT_FILE_SECTS = 2
  n_1st_sect = 3
  NInodes = 4
  DirRoom = 4
  MaxChanges = 4
SPECIFICATION Spec
SYMMETRY Symmetric
INVARIANTS TypeOK OpenIsPinned MapsAgree OneParent AnswersTell
PROPERTIES MoveKeeps
CHECK_DEADLOCK FALSE
