\* Two tabs and what a user can do in four clicks, in development, where the API
\* asks for no token.
CONSTANTS
  Tabs = {"replenishment", "routing"}
  FirstTab = "replenishment"
  Environment = "development"
  ApiAuthToken = NoToken
  NoToken = NoToken
  Idle = Idle
  MaxClicks = 4
SPECIFICATION FairSpec
INVARIANTS IInv SettledTabIsConsistent
PROPERTY Settles
CHECK_DEADLOCK FALSE
