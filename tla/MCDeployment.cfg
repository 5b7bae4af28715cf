SPECIFICATION Spec
CONSTANTS
  Nothing = Nothing
  AnonymousSecrets = {"true", "false"}
INVARIANT TypeOK
INVARIANT AnonymousOnlyByHand
INVARIANT LimitsAreNeverDropped
INVARIANT HandedTokenIsEnforced
INVARIANT NewServicesRun
INVARIANT ConsumersDialTheGateway
