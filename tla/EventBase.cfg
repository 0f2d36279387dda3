SPECIFICATION FairSpec
CONSTANTS
  t = t
  r = r
  w = w
  s = s
  l = l
  d = d
  x = x
  Timers = {t, l}
  Loops = {l}
  Bevs <- MCBevs
  Sigs = {s}
  Deferreds = {d}
  Exits = {x}
  Pipe = sigpipe
  SigNo <- MCSigNo
  Tv <- MCTv
  Uses <- MCUses
  MaxDeferreds = 0
  MaxCaught = 2
INVARIANTS BaseOk SignalsCounted FreedBevQuiet
PROPERTIES CauseTrue Watched Served Stops
CHECK_DEADLOCK FALSE
