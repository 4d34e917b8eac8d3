SPECIFICATION FairSpec
CONSTANTS
  BUFFER_WINDOW = 3
  Texts <- MCTexts
INVARIANTS
  TypeOK
  NothingLeftUnread
  ChunkingInvisibleButInComments
  StringsReadBack
PROPERTIES
  ReadingEnds
  TakenInOrder
