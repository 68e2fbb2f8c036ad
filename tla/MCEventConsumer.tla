---------------------------- MODULE MCEventConsumer ----------------------------
(* EventConsumer on small instances. *)
EXTENDS EventConsumer

NeverOr1 == {Out, 1}

\* Consumers that share an event of any lifetime; or more events than a sweep
\* can take while nobody consumes them, all but one of which expire together.
OneEvent == CHOOSE e \in Events : TRUE
SharedOrIdle ==
    {[crew |-> Consumers, offers |-> {OneEvent} \X Lifetimes],
     [crew |-> {}, offers |-> {<<e, IF e = OneEvent THEN Out ELSE 1>> : e \in Events}]}
===============================================================================
