\* From the environment to a gateway that serves.
SPECIFICATION Spec
CONSTANTS
  Unset = Unset
  NotANumber = NotANumber
  Blank = Blank
  Environments <- Varied
  RequestPaths <- MorePaths
  RelockOutcomes = {"blocks", "throws", "goes on"}
\* A process that ended, or blocks, stays so.
CHECK_DEADLOCK FALSE
INVARIANTS TypeOK ServesAsConfigured LimitDetermined GuardKeyApart PredefinedInForce
