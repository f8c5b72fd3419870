SPECIFICATION Spec
CONSTANTS
  Batteries <- EdgeBatteries
  Temperatures <- EdgeTemperatures
  Epochs = 4
  Batch = 64
  HysteresisRounds = 3
INVARIANT TypeOK
PROPERTIES DebounceSpec LessWorkWhenWorse
