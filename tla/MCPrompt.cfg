CONSTANTS
  Known <- MCKnown
  Lit <- MCLit
  Bytes <- MCBytes
  Merges <- MCMerges
  Systems <- MCSystems
  UserTexts <- MCUserTexts
  ToolRounds <- MCToolRounds
  Answers <- MCAnswers
  Sayings <- MCSayings
  Letters = {97, 98}
  MaxLetters = 5
  MaxTalkMerges = 2
  MaxTurns = 2
  MaxSayings = 4
SPECIFICATION TalkSpec
INVARIANTS
  MergesAsTrained
  LogIsTheText
  TurnIsTheTemplate
  FramesReadBack
CHECK_DEADLOCK FALSE
