\* None, one or two sub-reactors.
SPECIFICATION Spec
CONSTANTS
  Conns = {c1, c2, c3}
  Callers = {t1, t2}
  Main = main
  s1 = s1
  s2 = s2
  SubLoops <- TwoSubLoops
SYMMETRY Symmetry
INVARIANTS NotificationsPaired MapMatchesNotifications StopNotifiesMainLoop
CHECK_DEADLOCK FALSE
