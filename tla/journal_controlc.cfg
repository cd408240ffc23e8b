SPECIFICATION Spec
CONSTANTS
  Names = 2
  MaxAdds = 3
  MaxData = 2
  Kills = FALSE
  WindowKills = FALSE
  MediaFull = FALSE
  ControlC = "main"
INVARIANT BannerIsTrue
INVARIANT ClosedOnce
INVARIANT RollbackExact
CHECK_DEADLOCK FALSE
