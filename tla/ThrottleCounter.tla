-------------------------- MODULE ThrottleCounter --------------------------
(***************************************************************************)
(* The limits per caller address: ThrottleCounterService (api/services.py),*)
(* the failed-login lockout (api/lockout.py, api/authentication.py) and    *)
(* ClientIPThrottle (api/throttles.py), for the requests of one caller.    *)
(* Each limit has one row, shared by every app instance; each statement on *)
(* it is atomic, and any number of requests run between two statements.    *)
(* Which row a request is counted in is the subject of module ClientIp.    *)
(***************************************************************************)
EXTENDS Integers, FiniteSets

CONSTANTS
    Requests,          \* requests of the caller
    num_requests,      \* rate of the client_ip scope
    max_failures,      \* rate of the failed_auth scope
    Window,            \* length of a window of either scope
    EXPIRED_ROW_GRACE,
    MAX_HIT_ATTEMPTS,
    MaxTime            \* how far the clock goes (a bound)

ASSUME ThrottleAssumption ==
    /\ IsFiniteSet(Requests)
    /\ num_requests \in Nat /\ max_failures \in Nat /\ Window \in Nat \ {0}
    /\ EXPIRED_ROW_GRACE \in Nat /\ MAX_HIT_ATTEMPTS \in Nat \ {0}
    /\ MaxTime \in Nat

Scopes == {"client_ip", "failed_auth"}

VARIABLES
    clock,
    row,     \* the ThrottleCounter row of each scope, count 0 when there is none
    window,  \* history: windows begun in each scope
    req,     \* state of each request
    peak     \* history: most wrong tokens ever between check and record

vars == <<clock, row, window, req, peak>>

Answers == {"none", "ok", "unauthorized", "throttled", "error"}
Request == [pc: {"arrive", "start", "live", "expired", "create", "remove",
                 "read", "done"},
            scope: Scopes, now: Int, round: Nat, answer: Answers,
            \* history: the window hit, the count just after the hit, the
            \* end of that window, windows others began during the hit, and
            \* what was read back, and whether the window had ended by then
            hitIn: Nat, rank: Nat, until: Int, paid: Nat, reading: Nat,
            late: BOOLEAN]

\* Type invariant.
TypeOK ==
    /\ clock \in Nat
    /\ row \in [Scopes -> [count: Nat, ends: Int]]
    /\ window \in [Scopes -> Nat]
    /\ req \in [Requests -> Request]
    /\ peak \in Nat

HasRow(s) == row[s].count > 0
IsLive(s) == HasRow(s) /\ row[s].ends > clock

\* read(): the count of the window that is live now, else 0.
Reading(s) == IF IsLive(s) THEN row[s].count ELSE 0

-----------------------------------------------------------------------------
Goto(r, label) == req' = [req EXCEPT ![r].pc = label]
Answer(r, answer) == req' = [req EXCEPT ![r].pc = "done", ![r].answer = answer]
Hit(r, s) == req' = [req EXCEPT ![r].pc = "start", ![r].scope = s]

\* Requests whose wrong token was looked up and is not recorded yet.
Guessing == {r \in Requests : /\ req[r].scope = "failed_auth"
                              /\ req[r].pc \in {"start", "live", "expired",
                                                "create"}}

\* Mutant: the caller is locked out one failure late.
IsLockedOutLate == Reading("failed_auth") > max_failures

\* FailedAuthLockout.check.
IsLockedOut == Reading("failed_auth") >= max_failures

\* authenticate: the lockout is checked, then knox looks the token up.  A
\* wrong one is recorded; with a good one, or none, the request goes on to the
\* throttle, which does not count an unlimited account.
Authenticate(r) ==
    /\ req[r].pc = "arrive"
    /\ \/ IsLockedOut /\ Answer(r, "throttled")
       \/ /\ ~IsLockedOut
          /\ \/ Hit(r, "failed_auth")
             \/ Hit(r, "client_ip")
             \/ Answer(r, "ok")
    /\ peak' = IF Cardinality(Guessing') > peak THEN Cardinality(Guessing')
               ELSE peak
    /\ UNCHANGED <<clock, row, window>>

\* PingView has no login.
Ping(r) ==
    /\ req[r].pc = "arrive"
    /\ Hit(r, "client_ip")
    /\ UNCHANGED <<clock, row, window, peak>>

\* hit(): now is taken once, before the first statement.
StartHit(r) ==
    /\ req[r].pc = "start"
    /\ req' = [req EXCEPT ![r].pc = "live", ![r].now = clock, ![r].round = 1]
    /\ UNCHANGED <<clock, row, window, peak>>

\* A statement of r left the row with count and ends, in window w, and r's loop
\* is over; a window begun is noted for the others in a loop on the same row.
Counted(r, w, count, ends, next) ==
    LET s == req[r].scope IN
    /\ row' = [row EXCEPT ![s] = [count |-> count, ends |-> ends]]
    /\ window' = [window EXCEPT ![s] = w]
    /\ req' = [q \in Requests |->
          IF q = r THEN [req[r] EXCEPT !.pc = next, !.hitIn = w, !.rank = count,
                                       !.until = ends]
          ELSE IF w # window[s] /\ req[q].scope = s
                  /\ req[q].pc \in {"live", "expired", "create"}
               THEN [req[q] EXCEPT !.paid = @ + 1]
          ELSE req[q]]

\* live.update(count=F("count") + 1)
UpdateLive(r) ==
    LET s == req[r].scope IN
    /\ req[r].pc = "live"
    /\ \/ /\ HasRow(s) /\ row[s].ends > req[r].now
          /\ Counted(r, window[s], row[s].count + 1, row[s].ends, "read")
       \/ /\ ~(HasRow(s) /\ row[s].ends > req[r].now)
          /\ Goto(r, "expired")
          /\ UNCHANGED <<row, window>>
    /\ UNCHANGED <<clock, peak>>

\* Mutant: a window that ends exactly now is neither live nor expired.
IsExpiredStrict(r) == HasRow(req[r].scope) /\ row[req[r].scope].ends < req[r].now

\* Mutant: the filter on the window's end is forgotten.
IsExpiredAlways(r) == HasRow(req[r].scope)

\* The expired filter: the window had ended when the hit began.
IsExpired(r) == HasRow(req[r].scope) /\ row[req[r].scope].ends <= req[r].now

\* expired.update(count=1, window_ends_at=ends_at)
UpdateExpired(r) ==
    LET s == req[r].scope IN
    /\ req[r].pc = "expired"
    /\ \/ IsExpired(r)
          /\ Counted(r, window[s] + 1, 1, req[r].now + Window, "read")
       \/ ~IsExpired(r) /\ Goto(r, "create") /\ UNCHANGED <<row, window>>
    /\ UNCHANGED <<clock, peak>>

\* ThrottleCounter.objects.create, or the IntegrityError of the unique key:
\* one more round, and after the last one a RuntimeError.
Create(r) ==
    LET s == req[r].scope IN
    /\ req[r].pc = "create"
    /\ \/ ~HasRow(s) /\ Counted(r, window[s] + 1, 1, req[r].now + Window, "remove")
       \/ /\ HasRow(s)
          /\ IF req[r].round < MAX_HIT_ATTEMPTS
             THEN req' = [req EXCEPT ![r].pc = "live", ![r].round = @ + 1]
             ELSE Answer(r, "error")
          /\ UNCHANGED <<row, window>>
    /\ UNCHANGED <<clock, peak>>

\* _remove_old_rows, with the now of the hit.
RemoveOldRows(r) ==
    /\ req[r].pc = "remove"
    /\ row' = [s \in Scopes |->
                  IF row[s].ends < req[r].now - EXPIRED_ROW_GRACE
                  THEN [count |-> 0, ends |-> 0] ELSE row[s]]
    /\ Goto(r, "read")
    /\ UNCHANGED <<clock, window, peak>>

\* Mutant: the last request the rate allows makes room for one more.
AllowsOneMore(count) == count <= num_requests + 1

\* allow_request: the count read back is within the rate.
Allows(count) == count <= num_requests

\* Mutant: the reading leaves the caller's own hit out.
ReadBackOthers(r) ==
    LET s == req[r].scope IN
    /\ req[r].pc = "read"
    /\ req' = [req EXCEPT ![r].pc = "done", ![r].reading = Reading(s) - 1,
                          ![r].late = clock >= req[r].until]
    /\ UNCHANGED <<clock, row, window, peak>>

\* read() at the end of hit(), with a now of its own, and the answer.
ReadBack(r) ==
    LET s == req[r].scope IN
    /\ req[r].pc = "read"
    /\ req' = [req EXCEPT ![r].pc = "done", ![r].reading = Reading(s),
                          ![r].late = clock >= req[r].until,
                          ![r].answer =
                              IF s = "failed_auth" THEN "unauthorized"
                              ELSE IF Allows(Reading(s)) THEN "ok"
                              ELSE "throttled"]
    /\ UNCHANGED <<clock, row, window, peak>>

Tick ==
    /\ clock < MaxTime
    /\ clock' = clock + 1
    /\ UNCHANGED <<row, window, req, peak>>

-----------------------------------------------------------------------------
Init ==
    /\ clock = 0
    /\ row = [s \in Scopes |-> [count |-> 0, ends |-> 0]]
    /\ window = [s \in Scopes |-> 0]
    /\ req = [r \in Requests |->
          [pc |-> "arrive", scope |-> "client_ip", now |-> 0, round |-> 0,
           answer |-> "none", hitIn |-> 0, rank |-> 0, until |-> 0, paid |-> 0,
           reading |-> 0, late |-> FALSE]]
    /\ peak = 0

Next ==
    \/ Tick
    \/ \E r \in Requests :
          \/ Authenticate(r)
          \/ Ping(r)
          \/ StartHit(r)
          \/ UpdateLive(r)
          \/ UpdateExpired(r)
          \/ Create(r)
          \/ RemoveOldRows(r)
          \/ ReadBack(r)

Spec == Init /\ [][Next]_vars

-----------------------------------------------------------------------------
\* Of the requests counted in one window of the throttle, and whose count was
\* read back before the window ended, at most num_requests get through, however
\* their statements interleave (hit(): "requests arriving at the same moment
\* can't overwrite each other's counts").
AllowedPerWindow ==
    \A w \in 1..window["client_ip"] :
        Cardinality({r \in Requests :
            /\ req[r].scope = "client_ip" /\ req[r].hitIn = w
            /\ req[r].answer = "ok" /\ ~req[r].late}) <= num_requests

\* The reading of a hit counts the hit itself and all those before it ("never
\* fewer"), unless the window ended between the update and the reading: then a
\* restarted window, or none, is read.
NeverFewer ==
    \A r \in Requests :
        (req[r].pc = "done" /\ req[r].hitIn > 0)
            => req[r].late \/ req[r].reading >= req[r].rank

\* A round of hit() is lost only to a request that began a window of the same
\* row meanwhile, so that MAX_HIT_ATTEMPTS is out of reach without that many
\* rivals (services.py: "A round is only lost when another request made
\* progress on the same key").
RoundsArePaidFor ==
    \A r \in Requests :
        req[r].round - 1 <= req[r].paid
            /\ (req[r].answer = "error" => req[r].paid >= MAX_HIT_ATTEMPTS)

\* Wrong tokens sent at the same moment are all looked up before any of them is
\* recorded; a window never counts more failures than the rate and those that
\* were under way together when it was reached.
LockoutOvershoot == row["failed_auth"].count <= max_failures + peak - 1
                        \/ peak = 0

KeepsLiveWindows ==
    \A s \in Scopes : IsLive(s) => /\ row'[s].ends = row[s].ends
                                  /\ row'[s].count >= row[s].count

\* A window that has not ended keeps its end and never loses a hit: restarts
\* and clean-ups, which work with a time taken earlier, only touch windows that
\* are over.
LiveWindowKept == [][KeepsLiveWindows]_vars
=============================================================================
