--------------------------- MODULE MCTaskRecords ---------------------------
EXTENDS TaskRecords

Retry == [delays |-> <<"later", "later", "later">>, stops |-> {"b"}, dies |-> {"odd"}, times |-> 9]
Base == [schemaId |-> "s1", retry |-> Retry, maxRetries |-> Unset, limits |-> [f \in {} |-> Unset]]
Plainly == [delay |-> Whole(0), maxRetries |-> Unset, maxStalledCount |-> Unset]
Numbers == {NaN, Unsafe, Half, Whole(-1), Whole(0), Whole(1)}

MCDeployed ==
    [w1 |-> Base,
     w2 |-> [Base EXCEPT !.retry = [Retry EXCEPT !.delays = <<"later", "unbounded">>, !.stops = {}],
                         !.maxRetries = [is |-> "null", at |-> 0]],
     w3 |-> [Base EXCEPT !.schemaId = "s2", !.retry = NoRetry]]
MCWorkers == DOMAIN MCDeployed

\* Every payload with nothing else out of the ordinary, every number in
\* every place with a plain payload.
Tried(c, o, v) == [by |-> c, options |-> o, value |-> v]
MCOffers ==
    {Tried(Base, Plainly, v) : v \in Values}
      \cup {Tried(Base, [Plainly EXCEPT ![f] = x], Leaf("a")) : f \in DOMAIN Plainly, x \in Numbers}
      \cup {Tried([Base EXCEPT !.limits = [g \in {f} |-> x]], Plainly, Leaf("a")) :
               f \in Limits, x \in Numbers}
      \cup {Tried([Base EXCEPT !.maxRetries = x], Plainly, Leaf("a")) : x \in Numbers}
MCResults == {Leaf(k) : k \in {"a", "undefined", "foreign", "bytes"}}
=============================================================================
