\* Two requests and a run from a shell; switch.sh is timed out, the service killed.
SPECIFICATION FairSpec
CONSTANTS
  q = q
  r = r
  sh = sh
  a = a
  b = b
  Nobody = Nobody
  Requests = {q, r}
  Shells = {sh}
  Slugs = {a, b}
  Want <- Wanted
  Port <- Ports
  PsFails = FALSE
  Unseen = TRUE
  TimesOut = TRUE
  Crashes = TRUE
INVARIANT TwoEnginesMet
INVARIANT RequestsMeetAfterTimeOut
CHECK_DEADLOCK FALSE
