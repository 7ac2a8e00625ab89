SPECIFICATION Spec
CONSTANTS
  User = {u1}
  Session = {s1, s2}
  None = None
  EmptyScansToStop = 2
PROPERTIES
  OneBlipNeverStops
