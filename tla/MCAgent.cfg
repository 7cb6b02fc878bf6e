\* Three requests, two of them in one chat, and short tool loops.
CONSTANTS
  r1 = r1  r2 = r2  r3 = r3
  telegram = telegram  whatsapp = whatsapp
  Requests = {r1, r2, r3}
  Chats = {telegram, whatsapp}
  Global = global
  ChatOf <- MCChatOf
  MaxMemory = 3
  MaxRounds = 2
  MaxCalls = 1
SPECIFICATION Spec
SYMMETRY MCSymmetry
CHECK_DEADLOCK FALSE
INVARIANTS ConversationIsChatLog GlobalMirrorsChats AnswersKept StatusAddsUp
