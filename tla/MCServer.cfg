CONSTANTS
  P = 7
  ByteValues = 3
  ScalarBytes = 2
  Processes = {"server", "light"}
  Light = {"light"}
  Files <- MCFiles
  Reference <- MCReference
  LightReference <- MCLightReference
  AgentOf <- MCAgentOf
  AgentPort <- MCAgentPort
  Coefficients <- MCCoefficients
  Clients = {"client"}
  NoShard = NoShard
SPECIFICATION FairSpec
INVARIANTS
  TypeOK
  ServersLiveTogether
  AnswersWithItsShare
PROPERTIES
  HealthTellsTruth
  StopCutsNothing
  StopHeldOnlyByClients
