\* The start of the gateway blocks.
SPECIFICATION Spec
CONSTANTS
  Unset = Unset
  NotANumber = NotANumber
  Blank = Blank
  Environments <- JustCompose
  RequestPaths <- MorePaths
  RelockOutcomes = {"blocks", "throws", "goes on"}
\* A process that ended, or blocks, stays so.
CHECK_DEADLOCK FALSE
PROPERTY InitReturns
