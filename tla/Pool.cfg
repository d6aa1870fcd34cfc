SPECIFICATION Spec
CONSTANTS
  reactor = reactor
  link = link
  Producer <- MCProducer
  Reactor = reactor
  Handler = handler
  Slots = 2
  MaxClaims = 5
INVARIANTS TypeOK IntactUnlessLapped OneWakePerMessage
PROPERTY EveryMessageHandled
