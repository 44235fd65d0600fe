CONSTANTS
  Limit = 2
  MaxBody = 4
  MaxLen = 3
  Base = 4
  Word = 32
  MaxDigits = 5
  MaxText = 6
SPECIFICATION Spec
INVARIANTS
  ShownCanBeSent
  ParsersAgree
  HtmlSaysTheText
CHECK_DEADLOCK FALSE
