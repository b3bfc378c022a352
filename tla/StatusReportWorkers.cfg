\* What the README says of the workers that status shows; the code does not.
SPECIFICATION StatusSpec
CONSTANTS
  Digests = {d1}
  Workers = 1
  NoDigest = nodigest
  NoRecord = norecord
PROPERTIES
  WorkersAreLive
