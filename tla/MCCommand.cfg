CONSTANTS
  Hosts <- MCHosts
  Ports <- MCPorts
  Literals <- MCLiterals
  V4 <- MCV4
  DefaultPort = "443"
  Less <- MCLess
  Sessions <- MCSessions
  Zones <- MCZones
  Worlds <- MCWorlds
  Files <- MCFiles
  MaxKills = 2
SPECIFICATION Spec
INVARIANTS
  CommandInv
  FleetIsWhatWasNamed
  NewsIsComplete
  ExitIsEarned
  EgressIsLocal
  
PROPERTIES
  NothingVanishes
  KeepsFilePromise
