\* The run of the wizard and the start of the service come to an end.
SPECIFICATION MCSpec
CHECK_DEADLOCK FALSE
CONSTANTS
  Texts <- MCTexts
  Numbers <- MCNumbers
  Lists <- MCLists
  Given = "given"
  Default <- MCDefault
  ProfileLines <- MCProfileLines
  MaxEdits = 3
INVARIANTS
  Usable
  WarnedOrStarts
  DeclinedListsAreEmpty
PROPERTIES
  EditsTakeEffect
  WizardEnds
