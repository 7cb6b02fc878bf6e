\* A question on one channel, then one on the other.
CONSTANTS
  r1 = r1  r2 = r2  r3 = r3
  telegram = telegram  whatsapp = whatsapp
  Requests = {r1, r2, r3}
  Chats = {telegram, whatsapp}
  Global = global
  ChatOf <- MCChatOf
  MaxMemory = 3
  MaxRounds = 1
  MaxCalls = 1
SPECIFICATION Spec
CHECK_DEADLOCK FALSE
PROPERTY SharedMemory
