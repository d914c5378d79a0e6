CONSTANTS
  Names = {p1, unknown}
  Unknown = unknown
  Managers = {m1, m2}
  Sources = {s1, s2}
  Channels = {1}
  Streamers = {x1, x2}
  Viewers = {v1}
  None = None

SPECIFICATION Spec

INVARIANTS
  EvictedFeedsOnce
  OwnerIsOpen
  SourceIsServed

PROPERTIES
  EvictionIsFinal
  OnlyOwnerReleases

SYMMETRY Symmetry

CHECK_DEADLOCK FALSE
