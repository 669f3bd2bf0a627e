CONSTANTS
  Workers <- FourThreads

SPECIFICATION Spec
INVARIANT
  FailedInitReleasesAll
