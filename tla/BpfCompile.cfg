SPECIFICATION Spec
CONSTANTS
    Filters <- MCFilters
    Described <- DescribedPackets
    Others <- OtherPackets
INVARIANTS FilterMeansWhatItSays OptimizerKeepsMeaning ProgramSound LoopsEnd
