\* Two objects with two contents; the goroutine, the upstream watch and the
\* client interleave in any way.
SPECIFICATION Spec
CONSTANTS
  n1 = n1
  n2 = n2
  c1 = c1
  Names = {n1, n2}
  Contents = {c1}
  MaxBacklog = 2
INVARIANTS TypeOK FollowsVisible
PROPERTIES EndIsTold StopReleasesUpstream
CHECK_DEADLOCK FALSE
