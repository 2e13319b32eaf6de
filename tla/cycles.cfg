SPECIFICATION FairSpec
CONSTANTS
  a = a
  b = b
  l = l
  None = None
  Snippets = {a, b}
  Libraries = {l}
  Choices <- SmallChoices
  Verdicts = 2
  MaxConcurrentReconciles = 1
  MaxEdits = 3
INVARIANT CyclesRefused
INVARIANT RefusedForCause
PROPERTY RenderLoopsEnd
CHECK_DEADLOCK FALSE
