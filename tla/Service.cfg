SPECIFICATION Spec
CONSTANTS
  Proc = {p1, p2}
  MayFail = {"mknod", "socket", "fork"}
INVARIANTS TypeOK NodeStays
PROPERTIES StopFreesDevice StartEnds
