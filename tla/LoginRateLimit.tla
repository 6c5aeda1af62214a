--------------------------- MODULE LoginRateLimit ---------------------------
(***************************************************************************)
(* The counter of failed logins of one address and one email: a cache      *)
(* entry with the number of attempts and the end of the window, read,      *)
(* computed and set again by every failed login, deleted by a successful   *)
(* one.  Time is in ticks, several to the second, because the window ends  *)
(* at a fraction of a second and cache timeouts are whole seconds.  Every  *)
(* instant is kept as the ticks left until it.                             *)
(***************************************************************************)
EXTENDS Naturals, FiniteSetsExt

CONSTANTS Requests,        \* login requests in flight
          Limit,           \* LOGIN_RATE_LIMIT_ATTEMPTS
          WindowSeconds,   \* LOGIN_RATE_LIMIT_WINDOW_SECONDS
          TicksPerSecond,
          None             \* the entry is not in the cache

\* What is asked of the constants.
LimitAssumption ==
    /\ {Limit, WindowSeconds, TicksPerSecond} \subseteq Nat \ {0}
    /\ None \notin [attempts : Nat, expires : Nat, ttl : Nat]

ASSUME ConstantsAssumption == LimitAssumption

VARIABLES entry,   \* the cache entry, with the ticks until expires_at and eviction
          req,     \* req[r]: where request r is and the state it is about to set
          calm,    \* no two logins have overlapped (history)
          recent   \* recent[i]: the ticks since the i-th wrong password counted back from
                   \* the last, since the last success; Window when there is none or it is
                   \* that long ago (history, as many as claims are made of)

vars == <<entry, req, calm, recent>>

Window == WindowSeconds * TicksPerSecond
Kept == 1 .. 2 * Limit + 1

Idle == [step |-> "idle", attempts |-> 0, expires |-> 0]

\* Mutation: one attempt too many.
LimitedLate == entry # None /\ entry.attempts > Limit

\* is_login_rate_limited: the attempts alone decide, not expires_at.
Limited == entry # None /\ entry.attempts >= Limit

\* Mutation: every failure keeps the entry for a whole window.
WholeTimeout(expires) == Window

\* _remaining_timeout_seconds, in ticks: whole seconds, rounded up, at least one.
RemainingTimeout(expires) ==
    TicksPerSecond * Max({1, (expires + TicksPerSecond - 1) \div TicksPerSecond})

Init ==
    /\ entry = None
    /\ req = [r \in Requests |-> Idle]
    /\ calm = TRUE
    /\ recent = [i \in Kept |-> Window]

\* login_view: a limited login is answered without looking at the password.
Check(r) ==
    /\ req[r].step = "idle"
    /\ ~Limited
    /\ req' = [req EXCEPT ![r].step = "verify"]
    /\ UNCHANGED <<entry, recent>>

\* authenticate_user fails; record_failed_login reads the entry and decides
\* whether its window is over.
Fail(r) ==
    LET over == entry = None \/ entry.expires = 0 IN
    /\ req[r].step = "verify"
    /\ req' = [req EXCEPT ![r] = [step |-> "record",
                                  attempts |-> IF over THEN 1 ELSE entry.attempts + 1,
                                  expires  |-> IF over THEN Window ELSE entry.expires]]
    /\ recent' = [i \in Kept |-> IF i = 1 THEN 0 ELSE recent[i - 1]]
    /\ UNCHANGED entry

\* ... and sets it.
Record(r) ==
    /\ req[r].step = "record"
    /\ entry' = [attempts |-> req[r].attempts, expires |-> req[r].expires,
                 ttl |-> RemainingTimeout(req[r].expires)]
    /\ req' = [req EXCEPT ![r] = Idle]
    /\ UNCHANGED recent

\* authenticate_user succeeds: reset_login_rate_limit, then login_user.
Succeed(r) ==
    /\ req[r].step = "verify"
    /\ entry' = None
    /\ req' = [req EXCEPT ![r] = Idle]
    /\ recent' = [i \in Kept |-> Window]

Before(ticks) == IF ticks = 0 THEN 0 ELSE ticks - 1
After(ticks) == IF ticks = Window THEN Window ELSE ticks + 1

\* Mutation: the entry is set without a timeout.
TickForever ==
    /\ entry' = IF entry = None THEN None ELSE [entry EXCEPT !.expires = Before(@)]
    /\ req' = [r \in Requests |-> [req[r] EXCEPT !.expires = Before(@)]]
    /\ recent' = [i \in Kept |-> After(recent[i])]

\* A tick passes; the cache drops the entry when its timeout is over.
Tick ==
    /\ entry' = IF entry = None \/ entry.ttl = 1 THEN None
                ELSE [entry EXCEPT !.expires = Before(@), !.ttl = @ - 1]
    /\ req' = [r \in Requests |-> [req[r] EXCEPT !.expires = Before(@)]]
    /\ recent' = [i \in Kept |-> After(recent[i])]

Overlap == \E r, s \in Requests : r # s /\ req[r].step # "idle" /\ req[s].step # "idle"

Step == (\E r \in Requests : Check(r) \/ Fail(r) \/ Record(r) \/ Succeed(r)) \/ Tick

Next == Step /\ calm' = (calm /\ ~Overlap')

\* Time passes; no request is obliged to arrive or to finish.
Spec == Init /\ [][Next]_vars /\ WF_vars(Tick /\ calm' = calm)

-----------------------------------------------------------------------------

\* The entry is a count of at least one and a timeout not yet over, and no wait
\* of more than a window is ever announced.
TypeOK ==
    /\ entry \in [attempts : Nat \ {0}, expires : 0 .. Window, ttl : Nat \ {0}] \cup {None}
    /\ req \in [Requests -> [step : {"idle", "verify", "record"},
                            attempts : Nat, expires : 0 .. Window]]
    /\ calm \in BOOLEAN
    /\ recent \in [Kept -> 0 .. Window]

\* The cache keeps the entry to the end of its window and at most one second
\* longer: a lockout, decided by the attempts alone, ends with the window it was
\* announced for, give or take the rounding.
EntryEndsWithWindow ==
    entry # None => entry.expires <= entry.ttl /\ entry.ttl <= entry.expires + TicksPerSecond

\* A lockout ends, however many logins are attempted during it.
LockoutEnds == Limited ~> ~Limited

\* A window's length sees no more than the limit twice over: at worst the end of one
\* window and the start of the next.
TriesAreLimited == recent[2 * Limit + 1] = Window

\* Whoever is locked out in a running window has typed that many wrong passwords in it.
LockedForCause == Limited /\ entry.expires > 0 => recent[Limit] < Window

\* While logins follow one another the limit does what it says: no more tries than two
\* windows that meet allow, and nobody locked out without having used them up since the
\* last success (record_failed_login, reset_login_rate_limit).
LimitIsKept == calm => TriesAreLimited /\ LockedForCause

=============================================================================
