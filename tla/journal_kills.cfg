SPECIFICATION Spec
CONSTANTS
  Names = 2
  MaxAdds = 3
  MaxData = 2
  Kills = TRUE
  WindowKills = FALSE
  MediaFull = FALSE
  ControlC = "never"
INVARIANT TypeOK
INVARIANT ReaderSeesVersions
INVARIANT ReadsClean
INVARIANT MountSeesVersions
CHECK_DEADLOCK FALSE
PROPERTY RefinesVersionLog
