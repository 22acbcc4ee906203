SPECIFICATION Spec
CONSTANTS
  i1 = i1
  i2 = i2
  i3 = i3
  w1 = w1
  w2 = w2
  w3 = w3
  maxTitleLength = 3
  Ellipsis = Ellipsis
  Input <- MCInputs
  Image = {i1, i2, i3}
  Word = {w1, w2, w3}
  Character = {":", "|", "rss", "atom", "0", "1", "u", "v", "a", "A", "b", "B"}
  Letters <- MCLetters
  Query <- MCQuery
  Missing = Missing
  Malformed = Malformed
  IntWidth = 7
  Minute = 12
  SecondsPerMinute = 2
  Blank = Blank
  FixedWords <- MCFixed
  Unknown = Unknown
  Pending = Pending
  None = None
INVARIANTS
  TypeOK
  ItemsExpected
  ImagesShown
  TitleCutAtWord
  OwnText
  KeyDetermines
  KeptAsAsked
CHECK_DEADLOCK FALSE
