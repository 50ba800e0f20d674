\* The Docker and Kubernetes deployments: production, with a token.
CONSTANTS
  Tabs = {"replenishment", "routing"}
  FirstTab = "replenishment"
  Environment = "production"
  ApiAuthToken = SecretToken
  NoToken = NoToken
  Idle = Idle
  MaxClicks = 4
SPECIFICATION Spec
INVARIANT UiIsAuthorized
CHECK_DEADLOCK FALSE
