SPECIFICATION Spec
CONSTANT MaxMinted = 3
INVARIANT TypeOK
INVARIANT StartedIsOwned
INVARIANT ConsumersHoldTheToken
INVARIANT EarlierRunsAreRevoked
