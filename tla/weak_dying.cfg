SPECIFICATION Spec
CONSTANTS
  Objects = {o1, o2}
  Pools = {p1}
  Slots = {s1}
  Threads = {t1}
  MaxRefs = 2
  MaxFrames = 3
  LoadDying = TRUE
  Nil = Nil
INVARIANT LoadedRefsLive
