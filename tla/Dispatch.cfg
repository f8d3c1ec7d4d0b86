SPECIFICATION Spec
CONSTANTS
  t1 = t1
  t2 = t2
  first = first
  again = again
  third = third
  small = small
  f1 = f1
  f2 = f2
  Never = Never
  Threads = {t1, t2}
  Events = {first, again, third, small}
  Loud = {first, again, third}
  Fingerprint <- Prints
  Throttled <- Registry
  Interval = 2
  MaxTime = 2
  MaxArms = 1
INVARIANTS
  OncePerInterval
  HeldBackForALine
CHECK_DEADLOCK FALSE
