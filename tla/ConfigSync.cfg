\* All five writers, any two of them between their read and their write; the
\* settings that are not about the voice mode have one value here.
SPECIFICATION FairSpec
CONSTANTS
  Writers = {"voice", "ui", "panel", "agent", "mimo"}
  Limits = {"factory"}
  Times = {"template"}
  DefaultLimits = "factory"
  VoiceDefaultLimits = "factory"
  DefaultTimes = "template"
  NoFile = NoFile
  Idle = Idle
  MaxGen = 2
  MaxCopies = 2
INVARIANTS
  CloudOnlyIfConfigured
  AdoptedIsApplied
PROPERTIES
  FileIsAdopted
