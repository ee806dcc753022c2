SPECIFICATION Spec
CONSTANTS
  c1 = c1
  c2 = c2
  c3 = c3
  Client <- TwoClients
  Unreported <- Nobody
  MaxHints = 2
  HintTtl = 4
  MaxLag = 1
  CachePreset <- CachePresets
  NetnsPreset <- NetnsPresets
  CacheOverride = 3
  NetnsOverride = 4
  CacheDefault = 2
  CacheFloor = 1
  NetnsDefault = 5
  NetnsFloor = 1
  AgeCap = 3
INVARIANT
  OverridesHold
