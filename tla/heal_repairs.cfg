SPECIFICATION FairSpec
CONSTANTS
  ollama = ollama
  network = network
  Aidad = Aidad
  Docker = Docker
  Watched <- WatchedServices
  MaxFaults = 3
INVARIANTS
  TypeOK
  OnePassRepairsAll
PROPERTIES
  ServicesRepaired
  NatsRepaired
