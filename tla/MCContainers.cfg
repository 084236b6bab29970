\* Four tasks that move between two lists; five entries in a block that grows by two.
CONSTANTS
  t1 = t1
  t2 = t2
  t3 = t3
  t4 = t4
  a = a
  b = b
  nil = nil
  Task = {t1, t2, t3, t4}
  List = {a, b}
  p1 = p1
  p2 = p2
  p3 = p3
  p4 = p4
  p5 = p5
  junk = junk
  Ptr = {p1, p2, p3, p4, p5}
  Grow = 2
SPECIFICATION CSpec
INVARIANT Faithful
INVARIANT AInv
SYMMETRY Symmetry
