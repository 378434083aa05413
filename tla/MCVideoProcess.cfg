SPECIFICATION FairSpec
CONSTANTS
  MAX_BUFFERS = 1
  MaxStarts = 2
  MaxUiStarts = 1
INVARIANTS
  TypeOK
  OneHolder
  WholeFrames
  NoUseAfterRelease
  AllReleased
  KillKeepsPreview
PROPERTIES
  PreviewFlows
  CleanupEnds
  EncoderFed
CHECK_DEADLOCK FALSE
