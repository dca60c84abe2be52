SPECIFICATION Spec
CONSTANTS
  protocol = protocol
  tcp = tcp
  phone1 = phone1
  phone2 = phone2
  Nobody = Nobody
  Writer = {protocol}
  Tcp = tcp
  Client = {phone1, phone2}
  Capacity = 2
  QueueCap = 2
  MaxMessages = 3
  MaxConnects = 3
SYMMETRY ClientSymmetry
CHECK_DEADLOCK FALSE
INVARIANTS TypeOK PageComplete PageConsistent PageInOrder
