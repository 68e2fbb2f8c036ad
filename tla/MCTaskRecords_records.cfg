CONSTANTS
    Plain = {"a", "b", "odd", "tagged"}
    BuiltIn = {"tagged"}
    MaxValueBytes = 3
    MaxKids = 2
    Workers <- MCWorkers
    Deployed <- MCDeployed
    Offers <- MCOffers
    Failures = {"a", "b", "odd", "tagged", "foreign"}
    Results <- MCResults
    DefaultMaxRetries = 2
    DefaultErrorEntries = 2
    MaxAttempts = 5
SPECIFICATION Spec
CHECK_DEADLOCK FALSE
INVARIANTS OffersRoundTrip HandlerSeesHistory RetryAsIfComplete
