SPECIFICATION ScoresSpec
PROPERTY SavingEnds
