SPECIFICATION Spec
CONSTANTS
  Version <- Versions
  UserDirs <- Dirs
  Reselect = FALSE
  NoPath = NoPath
  NoPackage = NoPackage
INVARIANTS
  FilesInPlace
  UserFilesKept
  NothingLeftBehind
PROPERTY
  LifeCycle
