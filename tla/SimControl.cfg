SPECIFICATION FairSpec
CONSTANTS
  MaxPolls = 4
  MaxRequests = 4
INVARIANTS StepsArePaidFor
PROPERTIES ImplementsGate PollsAreReleased
