CONSTANTS
  Hosts <- MCHosts
  Ports <- MCPorts
  Literals <- MCLiterals
  V4 <- MCV4
  DefaultPort = "443"
  Less <- MCLess
  Sessions <- MCSplit
  Zones <- MCZones
  Worlds <- MCWorlds
  Files <- MCFiles
  MaxKills = 2
SPECIFICATION Spec
INVARIANT
  WrittenPortsStand
