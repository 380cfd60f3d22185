SPECIFICATION Spec
CONSTANTS
  t1 = t1
  t2 = t2
  p1 = p1
  Tabs = {t1, t2}
  Places = {p1}
  Empty = Empty
  Typed = Typed
  None = None
SYMMETRY Alike
PROPERTY AddressNeverErased
