SPECIFICATION Spec
CONSTANTS
  Ports = {1}
  GemPorts = {11, 12}
  Packets <- MCPackets
  Procs = {1}
  Kinds = {}
  MaxEvents = 0
INVARIANT SameGemPort
