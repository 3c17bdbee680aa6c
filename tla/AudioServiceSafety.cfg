\* Two reminders and a queue of one: refusals and lost retries happen.
SPECIFICATION Spec
CONSTANTS
  NoReminder = NoReminder
  Reminders = {r1, r2}
  Sensors = {"TEMPERATURE"}
  ReminderMax = 1
  MaxOps = 3
INVARIANTS
  CancelTargetsActive
  RequestNamesActive
  NoDuplicateReminder
  UiShowsService
PROPERTIES
  RevokedStaysSilent
  OnlyHeardRemindersLeave
