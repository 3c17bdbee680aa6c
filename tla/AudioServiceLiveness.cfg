\* One reminder with its retry, direct requests, warnings and shutdown.
SPECIFICATION FairSpec
CONSTANTS
  NoReminder = NoReminder
  Reminders = {r1}
  Sensors = {"TEMPERATURE"}
  ReminderMax = 1
  MaxOps = 2
PROPERTIES
  WorkIsServed
  ShutdownReturns
