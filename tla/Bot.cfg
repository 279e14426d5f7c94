SPECIFICATION BotFairSpec
CONSTANTS
  user = "user"
  guest = "guest"
  group = "group"
  elsewhere = "elsewhere"
  AllowedUsers = {"user"}
  AllowedChats = {"group"}
  Incoming <- MCIncoming
  AnswerMax = 2
  CommandsPerMinute = 1
  MaxBackoff = 2
  MaxUpdates = 3
  MaxRuns = 2
INVARIANTS HandledOnce OwnCommands
PROPERTY Answered
