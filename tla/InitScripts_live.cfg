\* Two READY scripts and one script in each other stage; a script writes one of two
\* variables.
CONSTANTS
  Scripts <- MCScripts
  Var = {AWS_PROFILE, AWS_REGION}
  Writes = 1
SPECIFICATION FairSpec
INVARIANTS  EnvRestoredInTurn
PROPERTY StagesComplete
