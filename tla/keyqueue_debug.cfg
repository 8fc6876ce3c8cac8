CONSTANTS
  SIZE = 4
  Keys = {a, f1}
  Printable = {a}
  NoKey = NoKey
  Debug = TRUE
  MaxBacklog = 5
  MaxPresses = 6
SPECIFICATION FairSpec
INVARIANTS NoUnderflow SlotNotRewritten NothingLost
PROPERTIES FifoSpec EveryKeyTaken
CHECK_DEADLOCK FALSE
