\* Two exits race with the start-up, the ready monitor and two requests; hooks may
\* raise. The process ends, so it may stop.
CONSTANTS
  Exit = {sigterm, kill}
  Request = {external, internal}
  Internal = {internal}
  Service = {sqs}
  Fragile = {"start", "ready", "handlers", "services"}
SPECIFICATION FairSpec
INVARIANTS TypeOK HooksOnce HooksInOrder CleanupAfterHooks 
PROPERTIES ExitEndsServing BecomesReady
CHECK_DEADLOCK FALSE
