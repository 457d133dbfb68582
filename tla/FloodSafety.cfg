SPECIFICATION Spec
CONSTANTS
  ip1 = ip1
  ip2 = ip2
  Ips = {ip1, ip2}
  Lengths <- MCLengths
  FloodMessageScoreShort = 1
  FloodMessageScoreLong = 2
  FloodTimeoutScore = 4
  FloodTimeoutSeconds = 4
  FloodTimeoutResetSeconds = 3
  MaxTimeout = 8
  MaxWindow = 4
INVARIANT RateBound
PROPERTIES TimeoutsEscalate ChatAgainAfterTimeout
