SPECIFICATION Spec
CONSTANTS
  Ports = {p1, p2, p3}
  None = None
INVARIANTS TypeOK ListensOnSetting
PROPERTY TeamPortsHeal
