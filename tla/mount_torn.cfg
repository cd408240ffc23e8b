SPECIFICATION Spec
CONSTANTS
  Names = 2
  MaxAdds = 3
  MaxData = 2
  Kills = FALSE
  WindowKills = FALSE
  MediaFull = TRUE
  ControlC = "never"
INVARIANT MountKeepsComplete
CHECK_DEADLOCK FALSE
