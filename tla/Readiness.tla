----------------------------- MODULE Readiness -----------------------------
(***************************************************************************)
(* The checks behind /readyz/ and /metrics: a query of the database, and a *)
(* value written to the cache, read back and deleted.                      *)
(*                                                                         *)
(* All requests, of all processes, use one key of the cache for it.  The   *)
(* metrics keep the result for some seconds, in the memory of the process; *)
(* their requests run in threads and look at it under a lock, which is not *)
(* held while the checks run.  Readiness probes always run the checks.     *)
(***************************************************************************)
EXTENDS Naturals

CONSTANTS Requests,
          TTL,     \* METRICS_READINESS_CACHE_TTL_SECONDS, in ticks
          MaxTime, \* bound: ticks in a behaviour
          None

\* What is asked of the constants.
ReadinessAssumption ==
    /\ TTL \in Nat \ {0} /\ MaxTime \in Nat
    /\ None \notin Requests \cup Nat \cup BOOLEAN

VARIABLES clock,
          database, cache, \* whether they answer
          probe,           \* the value under the key: that of the request that wrote it
          kept,            \* the result kept for the metrics
          request,
          turned,          \* when the database last went down or came back (history)
          alone            \* requests whose check of the cache nothing has disturbed (history)

health == <<database, cache, turned>>
vars == <<clock, health, probe, kept, request, alone>>

Steps == {"idle", "look", "database", "set", "get", "delete", "store", "answer"}
Request == [step : Steps, kind : {"readyz", "metrics"}, start : 0..MaxTime,
            database : BOOLEAN, cache : BOOLEAN, value : Requests \cup {None}]
Idle == [step |-> "idle", kind |-> "readyz", start |-> 0,
         database |-> FALSE, cache |-> FALSE, value |-> None]
Kept == [database : BOOLEAN, cache : BOOLEAN, expires : 0..MaxTime + TTL]

Go(r, step) == request' = [request EXCEPT ![r].step = step]

\* Between its cache.set and its cache.delete.
Checking(r) == request[r].step \in {"get", "delete"}

Init ==
    /\ clock = 0 /\ database = TRUE /\ cache = TRUE
    /\ probe = None /\ kept = None
    /\ request = [r \in Requests |-> Idle]
    /\ turned = None
    /\ alone = {}

-----------------------------------------------------------------------------
Begin(r) ==
    \E kind \in {"readyz", "metrics"} :
        /\ request[r].step = "idle"
        /\ request' = [request EXCEPT ![r] = [Idle EXCEPT
               !.step = IF kind = "metrics" THEN "look" ELSE "database",
               !.kind = kind, !.start = clock]]
        /\ UNCHANGED <<clock, health, probe, kept, alone>>

\* Under the lock: a result that had not expired when the request began is its answer.
Look(r) ==
    /\ request[r].step = "look"
    /\ IF kept # None /\ request[r].start < kept.expires
       THEN request' = [request EXCEPT ![r].step = "answer",
                                       ![r].database = kept.database, ![r].cache = kept.cache]
       ELSE Go(r, "database")
    /\ UNCHANGED <<clock, health, probe, kept, alone>>

CheckDatabase(r) ==
    /\ request[r].step = "database"
    /\ request' = [request EXCEPT ![r].step = "set", ![r].database = database]
    /\ UNCHANGED <<clock, health, probe, kept, alone>>

\* With the result of the check of the cache, on to what the request is for.
Checked(r, ok) ==
    request' = [request EXCEPT ![r].step = IF request[r].kind = "metrics" THEN "store" ELSE "answer",
                               ![r].cache = ok, ![r].value = None]

\* Every call of the cache may fail, and a failure is the result.
Fails(r) ==
    /\ ~cache /\ Checked(r, FALSE) /\ UNCHANGED <<probe, alone>>

\* Mutant: the value is deleted as soon as it is written.
SetAndDelete(r) ==
    /\ request[r].step = "set"
    /\ \/ Fails(r)
       \/ cache /\ probe' = None /\ Go(r, "get") /\ alone' = alone \cup {r}
    /\ UNCHANGED <<clock, health, kept>>

\* The check of r is disturbed, and disturbs, where another is under way.
CheckSet(r) ==
    /\ request[r].step = "set"
    /\ \/ Fails(r)
       \/ /\ cache
          /\ probe' = r /\ Go(r, "get")
          /\ LET others == {q \in Requests \ {r} : Checking(q)}
             IN alone' = (alone \ others) \cup (IF others = {} THEN {r} ELSE {})
    /\ UNCHANGED <<clock, health, kept>>

CheckGet(r) ==
    /\ request[r].step = "get"
    /\ \/ Fails(r)
       \/ /\ cache
          /\ request' = [request EXCEPT ![r].step = "delete", ![r].value = probe]
          /\ UNCHANGED <<probe, alone>>
    /\ UNCHANGED <<clock, health, kept>>

CheckDelete(r) ==
    /\ request[r].step = "delete"
    /\ \/ Fails(r)
       \/ cache /\ probe' = None /\ Checked(r, request[r].value = r) /\ UNCHANGED alone
    /\ UNCHANGED <<clock, health, kept>>

\* The last request to finish its checks decides, not the last to begin them.
Store(r) ==
    /\ request[r].step = "store"
    /\ kept' = [database |-> request[r].database, cache |-> request[r].cache,
                expires |-> request[r].start + TTL]
    /\ Go(r, "answer")
    /\ UNCHANGED <<clock, health, probe, alone>>

Answer(r) ==
    /\ request[r].step = "answer"
    /\ request' = [request EXCEPT ![r] = Idle]
    /\ alone' = alone \ {r}
    /\ UNCHANGED <<clock, health, probe, kept>>

-----------------------------------------------------------------------------
(* The database and the cache go down and come back; time passes. *)

DatabaseTurns ==
    /\ database' = ~database /\ turned' = clock
    /\ UNCHANGED <<clock, cache, probe, kept, request, alone>>

\* What the cache held when it went down is there when it comes back: nothing is claimed
\* of a check that has seen it go down.
CacheTurns ==
    /\ cache' = ~cache /\ alone' = {}
    /\ UNCHANGED <<clock, database, turned, probe, kept, request>>

Tick ==
    /\ clock < MaxTime /\ clock' = clock + 1
    /\ UNCHANGED <<health, probe, kept, request, alone>>

Next ==
    \/ \E r \in Requests :
           \/ Begin(r) \/ Look(r) \/ CheckDatabase(r) \/ CheckSet(r) \/ CheckGet(r)
           \/ CheckDelete(r) \/ Store(r) \/ Answer(r)
    \/ DatabaseTurns \/ CacheTurns \/ Tick

Spec == Init /\ [][Next]_vars

-----------------------------------------------------------------------------
(* Properties. *)

TypeOK ==
    /\ clock \in 0..MaxTime /\ database \in BOOLEAN /\ cache \in BOOLEAN
    /\ probe \in Requests \cup {None} /\ kept \in Kept \cup {None}
    /\ request \in [Requests -> Request]
    /\ turned \in 0..MaxTime \cup {None}
    /\ alone \subseteq Requests

\* A check finds a cache that answers in order unless another check was under way: the
\* key is shared, and two at once may each find the value of the other, or none
\* (check_cache).
FalseAlarmNeedsCompany ==
    \A r \in alone : request[r].step \in {"store", "answer"} => request[r].cache

\* What a request says of the database was so after it began, or at least less than the
\* time to live before, however long its checks or those of others took
\* (get_cached_readiness_checks takes the time before it runs the checks).
ReportsAreRecent ==
    \A r \in Requests :
        request[r].step = "answer" =>
            \/ request[r].database = database
            \/ turned # None /\ turned + TTL > request[r].start

=============================================================================
