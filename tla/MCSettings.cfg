SPECIFICATION MCSpec
CONSTANTS
  Handler = {h1, h2}
  Rotation = {90, 180, 45, 270}
  Quality = {50, 200}
  Truncated = Truncated
  MaxEvents = 4
SYMMETRY Perms
CHECK_DEADLOCK FALSE
INVARIANTS SettingsKept SettingsAgree NativeSound ConversionsHold
