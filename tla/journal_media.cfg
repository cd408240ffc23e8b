SPECIFICATION Spec
CONSTANTS
  Names = 1
  MaxAdds = 3
  MaxData = 1
  Kills = TRUE
  WindowKills = FALSE
  MediaFull = TRUE
  ControlC = "never"
INVARIANT FormerVersionsStay
CHECK_DEADLOCK FALSE
