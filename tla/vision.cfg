SPECIFICATION Spec
CONSTANTS
  Places = {p1, p2}
  Far = far
  Points = 2
  Period = 3
  Numbers = 6
  None = None
INVARIANTS TypeOK HiddenBallStaysPut GeometryWithinPeriod NumbersTellLosses
PROPERTY PacketShowsBall
