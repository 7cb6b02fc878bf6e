\* Two messages in one chat, and one restart.
CONSTANTS
  r1 = r1  r2 = r2
  chat = chat
  chatFile = chatFile  globalFile = globalFile
  Requests = {r1, r2}
  Chats = {chat}
  Global = global
  ChatOf <- MCChatOf
  MaxMemory = 2
  MaxRounds = 1
  MaxCalls = 1
  Files = {chatFile, globalFile}
  FileName <- MCFileName
  MaxLen = 8
  NoFile = NoFile
  Torn = Torn
  MaxCrashes = 1
  MaxFailures = 1
  MaxAgain = 1
SPECIFICATION ChatSpec
SYMMETRY MCSymmetry
CHECK_DEADLOCK FALSE
INVARIANTS
  AnswersFollowOnDisk
  ContinuesFromDisk
  RepliedIsSaved
