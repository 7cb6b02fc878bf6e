\* Two concurrent callers, three sessions of up to MaxLen messages.
CONSTANTS
  c1 = c1  c2 = c2
  m1 = m1  m2 = m2
  chat = chat  global = global  odd = odd
  chatFile = chatFile  globalFile = globalFile  oddFile = oddFile
  Callers = {c1, c2}
  Keys = {chat, global, odd}
  Messages = {m1, m2}
  Files = {chatFile, globalFile, oddFile}
  FileName <- MCFileName
  NotSaved = {odd}
  MaxLen = 2
  NoFile = NoFile
  Torn = Torn
SPECIFICATION Spec
SYMMETRY MCSymmetry
INVARIANTS FilesWhole DiskIsEarlierState
PROPERTIES SaveKeepsEarlierSaves ImplementsDurableLog
