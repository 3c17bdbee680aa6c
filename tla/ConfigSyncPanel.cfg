\* The panel and the voice configuration.
SPECIFICATION Spec
CONSTANTS
  Writers = {"voice", "panel"}
  Limits = {"factory", "panel"}
  Times = {"template", "edited"}
  DefaultLimits = "factory"
  VoiceDefaultLimits = "panel"
  DefaultTimes = "template"
  NoFile = NoFile
  Idle = Idle
  MaxGen = 2
  MaxCopies = 2
PROPERTY PanelKeepsVoice
