\* Two days of four hours; a u32 of two bits and a usize of four.
SPECIFICATION Spec
CONSTANTS
  Strategies <- AllStrategies
  Timeframes <- TwoTimeframes
  MaxU32 = 3
  MaxUsize = 15
  BarSeries <- SomeSeries
  DayLength = 4
  LastTime = 7
INVARIANTS
  OneIntentPerSignal
  EntryInsideSession
  FlattensAfterSession
  CompiledNeverFails
