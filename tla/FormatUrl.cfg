SPECIFICATION AddressSpec
CONSTANTS
  Cases <- MCCases
  YTDL_MAX_SIG = 3
  Names = {"a", "b", "c"}
  Chars <- MCChars
INVARIANTS
  DecipheredAsPlayer
  ChosenIsBest
  SoundInputSurvives
CHECK_DEADLOCK FALSE
