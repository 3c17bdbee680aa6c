\* The schedule over two days with one edit of the file and the audio worker,
\* without the storage; the popup queue never fills.
SPECIFICATION Spec
CONSTANTS
  Ids <- MCIds
  QueueMax = 4
  Limit = 2
  DayLen = 4
  Delay = 2
  DefaultTimes <- MCDefault
  FileTimes <- MCFile
  NoEvent = NoEvent
  AudioStarted = TRUE
  StorageReady = FALSE
  Jumps = {1, 4}
  MaxStep = 1
  MaxTime = 7
  MaxGen = 1
\* The clock, the generations and the manager may all have reached their bounds.
CHECK_DEADLOCK FALSE
INVARIANTS
  ReminderIsAnswerable
  SpokenIsOnScreen
PROPERTIES
  DueOnTime
  AnswerEndsWhatItShows
