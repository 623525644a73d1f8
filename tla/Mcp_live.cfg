CONSTANTS
  Servers = {docs}
  Calls = {c1, c2}
  MaxExtra = 1
  OwnIds = {3}
  Nobody = Nobody
SPECIFICATION FairSpec
PROPERTIES
  MainComesBack
  CallsEnd
CHECK_DEADLOCK FALSE
