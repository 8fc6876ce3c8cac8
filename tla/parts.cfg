CONSTANT Nobody = Nobody
SPECIFICATION Spec
INVARIANTS DivisionRight LibraryRight SequencesRight OwnersCounted ContainersRight EveryoneTold FilesReadBack EveryServiceEnds BootInfoAsGiven ScreenShowsWindows CharsAsTyped SignaturesIntact
PROPERTIES ValuesSpec IsSequence FifoSpec
CHECK_DEADLOCK FALSE
