--------------------------- MODULE ThrottleProofs ---------------------------
(***************************************************************************)
(* Theorems about ThrottleCounter, for every finite set of requests, every *)
(* rate, window length, grace period and number of rounds.                 *)
(***************************************************************************)
EXTENDS ThrottleCounter, FiniteSetTheorems, TLAPS

InLoop == {"live", "expired", "create"}
Counting == {"remove", "read"}

\* The time of a hit was taken earlier.
NowIsPast == \A r \in Requests : req[r].now <= clock

\* A round is lost only to a window begun meanwhile: past each statement of the
\* loop, either what the statement looked for is still not there, or another
\* request has begun a window in this round.
RoundInv ==
    \A r \in Requests :
        LET q == req[r]
            x == row[q.scope] IN
        /\ q.round - 1 <= q.paid
        /\ q.pc = "expired" => ~(x.count > 0 /\ x.ends > q.now) \/ q.round <= q.paid
        /\ q.pc = "create" => x.count = 0 \/ q.round <= q.paid
        /\ q.answer = "error" => q.paid >= MAX_HIT_ATTEMPTS

\* A hit that is counted stays counted as long as its window lasts.
HitInv ==
    \A r \in Requests :
        LET q == req[r]
            x == row[q.scope] IN
        /\ q.pc \in {"arrive", "start"} \cup InLoop => q.hitIn = 0
        /\ q.pc \in Counting =>
              /\ q.hitIn > 0 /\ q.rank > 0 /\ q.answer = "none"
              /\ q.until <= clock \/ (x.ends = q.until /\ x.count >= q.rank)
        /\ q.pc # "done" => q.answer = "none"
        /\ q.pc = "done" /\ q.hitIn > 0 =>
              /\ q.late \/ q.reading >= q.rank
              /\ q.scope = "client_ip" /\ q.answer = "ok" => q.reading <= num_requests

\* The hits of one window have different ranks, up to the count.
RankInv ==
    /\ \A s \in Scopes : HasRow(s) => window[s] > 0
    /\ \A r \in Requests : req[r].hitIn > 0 =>
          /\ req[r].rank > 0 /\ req[r].hitIn <= window[req[r].scope]
          /\ req[r].hitIn = window[req[r].scope] /\ HasRow(req[r].scope)
                => req[r].rank <= row[req[r].scope].count
    /\ \A r, q \in Requests :
          /\ r # q /\ req[r].scope = req[q].scope /\ req[r].hitIn = req[q].hitIn
          /\ req[r].hitIn > 0
          => req[r].rank # req[q].rank

IInv == TypeOK /\ NowIsPast /\ RoundInv /\ HitInv /\ RankInv

-----------------------------------------------------------------------------
\* Typing.

LEMMA InitInv == Init => IInv
<1> SUFFICES ASSUME Init PROVE IInv
  OBVIOUS
<1>1. TypeOK
  BY DEF Init, TypeOK, Request, Answers, Scopes
<1>2. NowIsPast /\ RoundInv
  BY ThrottleAssumption DEF Init, NowIsPast, RoundInv, Scopes
<1>3. HitInv /\ RankInv
  BY DEF Init, HitInv, RankInv, HasRow, InLoop, Counting, Scopes
<1> QED BY <1>1, <1>2, <1>3 DEF IInv

\* What Counted does to the state, in terms of its arguments.
LEMMA CountedType ==
    ASSUME TypeOK, NEW r \in Requests, NEW w \in Nat, NEW count \in Nat, NEW ends \in Int,
           NEW next \in Counting, Counted(r, w, count, ends, next)
    PROVE  /\ row' \in [Scopes -> [count: Nat, ends: Int]]
           /\ window' \in [Scopes -> Nat]
           /\ req' \in [Requests -> Request]
<1>1. req[r].scope \in Scopes
  BY DEF TypeOK, Request
<1>2. row' \in [Scopes -> [count: Nat, ends: Int]] /\ window' \in [Scopes -> Nat]
  BY <1>1 DEF Counted, TypeOK
<1>3. ASSUME NEW q \in Requests PROVE req'[q] \in Request
  <2>1. req[q] \in Request /\ req[r] \in Request
    BY DEF TypeOK
  <2>2. CASE q = r
    <3>1. req'[q] = [req[r] EXCEPT !.pc = next, !.hitIn = w, !.rank = count,
                                   !.until = ends]
      BY <2>2 DEF Counted
    <3> QED BY <2>1, <3>1 DEF Request, Counting
  <2>3. CASE q # r /\ req'[q] = [req[q] EXCEPT !.paid = @ + 1]
    BY <2>1, <2>3 DEF Request
  <2>4. CASE req'[q] = req[q]
    BY <2>1, <2>4
  <2> QED BY <2>2, <2>3, <2>4 DEF Counted
<1>4. req' = [q \in Requests |-> req'[q]]
  BY DEF Counted
<1> QED BY <1>2, <1>3, <1>4

\* The statements that set several fields of a request keep its type.
LEMMA StartType ==
    ASSUME NEW x \in Request, NEW t \in Nat
    PROVE  [x EXCEPT !.pc = "live", !.now = t, !.round = 1] \in Request
<1>1. t \in Int /\ 1 \in Nat
  OBVIOUS
<1> QED BY <1>1 DEF Request

LEMMA RoundType ==
    ASSUME NEW x \in Request
    PROVE  [x EXCEPT !.pc = "live", !.round = @ + 1] \in Request
<1>1. x.round + 1 \in Nat
  BY DEF Request
<1> QED BY <1>1 DEF Request

LEMMA ReadType ==
    ASSUME NEW x \in Request, NEW n \in Nat, NEW b \in BOOLEAN, NEW a \in Answers
    PROVE  [x EXCEPT !.pc = "done", !.reading = n, !.late = b, !.answer = a] \in Request
BY DEF Request

LEMMA TypeStep == TypeOK /\ [Next]_vars => TypeOK'
<1> SUFFICES ASSUME TypeOK, [Next]_vars PROVE TypeOK'
  OBVIOUS
<1>a. "client_ip" \in Scopes /\ "failed_auth" \in Scopes
  BY DEF Scopes
<1>b. ASSUME NEW r \in Requests
      PROVE /\ req[r] \in Request /\ req[r].scope \in Scopes /\ req[r].now \in Int
            /\ row[req[r].scope].count \in Nat /\ row[req[r].scope].ends \in Int
            /\ window[req[r].scope] \in Nat
            /\ req[r].now + Window \in Int
  BY ThrottleAssumption DEF TypeOK, Request
<1>1. CASE Tick
  BY <1>1 DEF Tick, TypeOK
<1>2. ASSUME NEW r \in Requests, Authenticate(r) PROVE TypeOK'
  <2>1. req' \in [Requests -> Request]
    BY <1>2, <1>a DEF Authenticate, Answer, Hit, TypeOK, Request, Answers
  <2>2. peak' \in Nat
    <3>1. Guessing' \subseteq Requests
      BY DEF Guessing
    <3>2. Cardinality(Guessing') \in Nat
      BY <3>1, FS_Subset, FS_CardinalityType, ThrottleAssumption
    <3> QED BY <1>2, <3>2 DEF Authenticate, TypeOK
  <2> QED BY <1>2, <2>1, <2>2 DEF Authenticate, TypeOK
<1>3. ASSUME NEW r \in Requests, Ping(r) PROVE TypeOK'
  <2> DEFINE x == [req[r] EXCEPT !.pc = "start", !.scope = "client_ip"]
  <2>1. req' = [req EXCEPT ![r] = x]
    BY <1>3 DEF Ping, Hit
  <2>2. x \in Request
    BY <1>a, <1>b DEF Request
  <2> QED BY <1>3, <2>1, <2>2 DEF Ping, TypeOK
<1>4. ASSUME NEW r \in Requests, StartHit(r) PROVE TypeOK'
  <2> DEFINE x == [req[r] EXCEPT !.pc = "live", !.now = clock, !.round = 1]
  <2>1. req' = [req EXCEPT ![r] = x]
    BY <1>4 DEF StartHit
  <2>2. x \in Request
    BY <1>b, StartType DEF TypeOK
  <2> QED BY <1>4, <2>1, <2>2 DEF StartHit, TypeOK
<1>5. ASSUME NEW r \in Requests, UpdateLive(r) PROVE TypeOK'
  <2>1. CASE Counted(r, window[req[r].scope], row[req[r].scope].count + 1,
                     row[req[r].scope].ends, "read")
    BY <1>5, <2>1, <1>b, CountedType DEF UpdateLive, TypeOK, Counting
  <2>2. CASE Goto(r, "expired") /\ UNCHANGED <<row, window>>
    BY <1>5, <2>2 DEF UpdateLive, Goto, TypeOK, Request
  <2> QED BY <1>5, <2>1, <2>2 DEF UpdateLive
<1>6. ASSUME NEW r \in Requests, UpdateExpired(r) PROVE TypeOK'
  <2>1. CASE Counted(r, window[req[r].scope] + 1, 1, req[r].now + Window, "read")
    BY <1>6, <2>1, <1>b, CountedType DEF UpdateExpired, TypeOK, Counting
  <2>2. CASE Goto(r, "create") /\ UNCHANGED <<row, window>>
    BY <1>6, <2>2 DEF UpdateExpired, Goto, TypeOK, Request
  <2> QED BY <1>6, <2>1, <2>2 DEF UpdateExpired
<1>7. ASSUME NEW r \in Requests, Create(r) PROVE TypeOK'
  <2>1. CASE Counted(r, window[req[r].scope] + 1, 1, req[r].now + Window, "remove")
    <3>1. window[req[r].scope] + 1 \in Nat /\ req[r].now + Window \in Int
          /\ 1 \in Nat /\ "remove" \in Counting
      BY <1>b DEF Counting
    <3>2. clock' = clock /\ peak' = peak
      BY <1>7 DEF Create
    <3> QED BY <2>1, <3>1, <3>2, CountedType DEF TypeOK
  <2>2. CASE req' = [req EXCEPT ![r].pc = "live", ![r].round = @ + 1]
             /\ UNCHANGED <<row, window>>
    <3> DEFINE x == [req[r] EXCEPT !.pc = "live", !.round = @ + 1]
    <3>1. req' = [req EXCEPT ![r] = x]
      BY <2>2
    <3>2. x \in Request
      BY <1>b, RoundType
    <3> QED BY <1>7, <2>2, <3>1, <3>2 DEF Create, TypeOK
  <2>3. CASE Answer(r, "error") /\ UNCHANGED <<row, window>>
    BY <1>7, <2>3 DEF Create, Answer, TypeOK, Request, Answers
  <2> QED BY <1>7, <2>1, <2>2, <2>3 DEF Create
<1>8. ASSUME NEW r \in Requests, RemoveOldRows(r) PROVE TypeOK'
  <2>1. req' \in [Requests -> Request]
    BY <1>8 DEF RemoveOldRows, Goto, TypeOK, Request
  <2>2. row' \in [Scopes -> [count: Nat, ends: Int]]
    BY <1>8 DEF RemoveOldRows, TypeOK
  <2> QED BY <1>8, <2>1, <2>2 DEF RemoveOldRows, TypeOK
<1>9. ASSUME NEW r \in Requests, ReadBack(r) PROVE TypeOK'
  <2>1. Reading(req[r].scope) \in Nat
    BY <1>b DEF Reading
  <2>2. PICK a \in Answers :
          req' = [req EXCEPT ![r].pc = "done", ![r].reading = Reading(req[r].scope),
                             ![r].late = clock >= req[r].until, ![r].answer = a]
    BY <1>9 DEF ReadBack, Answers
  <2> DEFINE x == [req[r] EXCEPT !.pc = "done", !.reading = Reading(req[r].scope),
                                 !.late = clock >= req[r].until, !.answer = a]
  <2>3. req' = [req EXCEPT ![r] = x]
    BY <2>2
  <2>4. (clock >= req[r].until) \in BOOLEAN
    OBVIOUS
  <2>5. x \in Request
    BY <1>b, <2>1, <2>4, ReadType
  <2>6. UNCHANGED <<clock, row, window, peak>>
    BY <1>9 DEF ReadBack
  <2> HIDE DEF x
  <2> QED BY <2>3, <2>5, <2>6 DEF TypeOK
<1>10. CASE UNCHANGED vars
  BY <1>10 DEF vars, TypeOK
<1> QED BY <1>1, <1>2, <1>3, <1>4, <1>5, <1>6, <1>7, <1>8, <1>9, <1>10 DEF Next

-----------------------------------------------------------------------------
\* The invariant, statement by statement.

\* The fields that Counted changes, and those it keeps.
LEMMA CountedFields ==
    ASSUME TypeOK, NEW r \in Requests, NEW w, NEW count, NEW ends, NEW next,
           Counted(r, w, count, ends, next)
    PROVE  /\ \A q \in Requests :
                 /\ req'[q].scope = req[q].scope /\ req'[q].now = req[q].now
                 /\ req'[q].round = req[q].round /\ req'[q].answer = req[q].answer
                 /\ req'[q].reading = req[q].reading /\ req'[q].late = req[q].late
           /\ req'[r].pc = next /\ req'[r].hitIn = w /\ req'[r].rank = count
           /\ req'[r].until = ends /\ req'[r].paid = req[r].paid
           /\ \A q \in Requests \ {r} :
                 /\ req'[q].pc = req[q].pc /\ req'[q].hitIn = req[q].hitIn
                 /\ req'[q].rank = req[q].rank /\ req'[q].until = req[q].until
                 /\ req'[q].paid = IF /\ w # window[req[r].scope]
                                      /\ req[q].scope = req[r].scope
                                      /\ req[q].pc \in InLoop
                                   THEN req[q].paid + 1 ELSE req[q].paid
           /\ row'[req[r].scope].count = count /\ row'[req[r].scope].ends = ends
           /\ window'[req[r].scope] = w
           /\ \A s \in Scopes \ {req[r].scope} : row'[s] = row[s] /\ window'[s] = window[s]
<1> DEFINE s == req[r].scope
<1>1. s \in Scopes
  BY DEF TypeOK, Request
<1>2. /\ row'[s].count = count /\ row'[s].ends = ends /\ window'[s] = w
      /\ \A t \in Scopes \ {s} : row'[t] = row[t] /\ window'[t] = window[t]
  BY <1>1 DEF Counted, TypeOK
<1>3. req'[r] = [req[r] EXCEPT !.pc = next, !.hitIn = w, !.rank = count, !.until = ends]
  BY DEF Counted
<1>4. ASSUME NEW q \in Requests \ {r}
      PROVE req'[q] = IF w # window[s] /\ req[q].scope = s /\ req[q].pc \in InLoop
                      THEN [req[q] EXCEPT !.paid = @ + 1] ELSE req[q]
  BY DEF Counted, InLoop
<1>5. \A q \in Requests : req[q] \in Request
  BY DEF TypeOK
<1>6. ASSUME NEW q \in Requests \ {r}
      PROVE  /\ req'[q].scope = req[q].scope /\ req'[q].now = req[q].now
             /\ req'[q].round = req[q].round /\ req'[q].answer = req[q].answer
             /\ req'[q].reading = req[q].reading /\ req'[q].late = req[q].late
             /\ req'[q].pc = req[q].pc /\ req'[q].hitIn = req[q].hitIn
             /\ req'[q].rank = req[q].rank /\ req'[q].until = req[q].until
             /\ req'[q].paid = IF w # window[s] /\ req[q].scope = s /\ req[q].pc \in InLoop
                               THEN req[q].paid + 1 ELSE req[q].paid
  <2>1. CASE w # window[s] /\ req[q].scope = s /\ req[q].pc \in InLoop
    BY <1>4, <1>5, <2>1 DEF Request
  <2>2. CASE ~(w # window[s] /\ req[q].scope = s /\ req[q].pc \in InLoop)
    BY <1>4, <2>2
  <2> QED BY <2>1, <2>2
<1>7. /\ req'[r].scope = req[r].scope /\ req'[r].now = req[r].now
      /\ req'[r].round = req[r].round /\ req'[r].answer = req[r].answer
      /\ req'[r].reading = req[r].reading /\ req'[r].late = req[r].late
      /\ req'[r].pc = next /\ req'[r].hitIn = w /\ req'[r].rank = count
      /\ req'[r].until = ends /\ req'[r].paid = req[r].paid
  BY <1>3, <1>5 DEF Request
<1> QED BY <1>2, <1>6, <1>7

\* What the typing says of one request.
LEMMA FieldTypes ==
    ASSUME TypeOK
    PROVE  \A q \in Requests :
           /\ req[q].scope \in Scopes /\ req[q].now \in Int /\ req[q].round \in Nat
           /\ req[q].hitIn \in Nat /\ req[q].rank \in Nat /\ req[q].until \in Int
           /\ req[q].paid \in Nat /\ req[q].reading \in Nat
           /\ row[req[q].scope].count \in Nat /\ row[req[q].scope].ends \in Int
           /\ window[req[q].scope] \in Nat
BY DEF TypeOK, Request

\* One more hit in the window of the row.
LEMMA CountedLive ==
    ASSUME IInv, NEW r \in Requests, clock' = clock, req[r].pc \in InLoop,
           HasRow(req[r].scope),
           Counted(r, window[req[r].scope], row[req[r].scope].count + 1,
                   row[req[r].scope].ends, "read")
    PROVE  NowIsPast' /\ RoundInv' /\ HitInv' /\ RankInv'
<1> DEFINE s == req[r].scope
<1>1. TypeOK
  BY DEF IInv
<1>2. NowIsPast'
  BY <1>1, CountedFields DEF IInv, NowIsPast
<1>3. RoundInv'
  BY <1>1, CountedFields, FieldTypes DEF IInv, RoundInv, HasRow
<1>4. HitInv'
  BY <1>1, CountedFields, FieldTypes DEF IInv, HitInv, RankInv, HasRow, InLoop, Counting
<1>5. RankInv'
  BY <1>1, CountedFields, FieldTypes DEF IInv, HitInv, RankInv, HasRow, InLoop
<1> QED BY <1>2, <1>3, <1>4, <1>5

\* A window begun over a row that is gone, or whose window is over.
LEMMA CountedNew ==
    ASSUME IInv, NEW r \in Requests, NEW next \in Counting,
           clock' = clock, req[r].pc \in InLoop,
           ~HasRow(req[r].scope) \/ row[req[r].scope].ends <= req[r].now,
           Counted(r, window[req[r].scope] + 1, 1, req[r].now + Window, next)
    PROVE  NowIsPast' /\ RoundInv' /\ HitInv' /\ RankInv'
<1>1. TypeOK
  BY DEF IInv
<1>2. NowIsPast'
  BY <1>1, CountedFields DEF IInv, NowIsPast
<1>a. MAX_HIT_ATTEMPTS \in Nat /\ window[req[r].scope] + 1 # window[req[r].scope]
  BY <1>1, FieldTypes, ThrottleAssumption
<1>3. RoundInv'
  BY <1>1, <1>a, CountedFields, FieldTypes DEF IInv, RoundInv, InLoop, Counting
<1>4. HitInv'
  <2>1. /\ req[r].answer = "none" /\ window[req[r].scope] + 1 > 0
        /\ req[r].now <= clock /\ next \notin {"arrive", "start", "done"} \cup InLoop
    BY <1>1, FieldTypes DEF IInv, HitInv, NowIsPast, InLoop, Counting
  <2>2. \A q \in Requests \ {r} :
           /\ req[q].pc \in Counting /\ req[q].scope = req[r].scope
           => req[q].until <= clock
    BY <1>1, <2>1, FieldTypes DEF IInv, HitInv, HasRow, TypeOK
  <2>3. \A q \in Requests \ {r} : req[q].scope # req[r].scope
           => row'[req[q].scope] = row[req[q].scope]
    BY <1>1, CountedFields, FieldTypes
  <2> QED BY <1>1, <2>1, <2>2, <2>3, CountedFields, FieldTypes DEF IInv, HitInv
<1>5. RankInv'
  BY <1>1, CountedFields, FieldTypes DEF IInv, HitInv, RankInv, HasRow, InLoop
<1> QED BY <1>2, <1>3, <1>4, <1>5

\* Every step keeps the invariant.
LEMMA Step == IInv /\ [Next]_vars => IInv'
<1> SUFFICES ASSUME IInv, [Next]_vars PROVE IInv'
  OBVIOUS
<1> DEFINE Rest == NowIsPast /\ RoundInv /\ HitInv /\ RankInv
<1>a. TypeOK /\ TypeOK'
  BY TypeStep DEF IInv
<1>b. num_requests \in Nat /\ MAX_HIT_ATTEMPTS \in Nat /\ EXPIRED_ROW_GRACE \in Nat
      /\ clock \in Nat
  BY <1>a, ThrottleAssumption DEF TypeOK
<1>1. CASE Tick
  BY <1>1, <1>a, <1>b, FieldTypes
     DEF Tick, IInv, NowIsPast, RoundInv, HitInv, RankInv, HasRow
<1>2. ASSUME NEW r \in Requests, Authenticate(r) PROVE Rest'
  <2>1. /\ UNCHANGED <<clock, row, window>> /\ req[r].pc = "arrive"
        /\ \A q \in Requests \ {r} : req'[q] = req[q]
        /\ req'[r].pc \in {"start", "done"} /\ req'[r].answer # "error"
        /\ req'[r].pc = "start" => req'[r].answer = req[r].answer
        /\ req'[r].now = req[r].now /\ req'[r].round = req[r].round
        /\ req'[r].paid = req[r].paid /\ req'[r].hitIn = req[r].hitIn
    <3>1. req[r].answer = "none" /\ req[r] \in Request
      BY <1>2, <1>a DEF IInv, HitInv, Authenticate, TypeOK
    <3> QED BY <1>2, <1>a, <3>1 DEF Authenticate, Answer, Hit, TypeOK, Request
  <2> QED BY <2>1, <1>a, <1>b, FieldTypes
          DEF IInv, NowIsPast, RoundInv, HitInv, RankInv, HasRow, InLoop, Counting
<1>3. ASSUME NEW r \in Requests, Ping(r) PROVE Rest'
  <2>1. /\ UNCHANGED <<clock, row, window>> /\ req[r].pc = "arrive"
        /\ \A q \in Requests \ {r} : req'[q] = req[q]
        /\ req'[r].pc = "start" /\ req'[r].answer = req[r].answer
        /\ req'[r].now = req[r].now /\ req'[r].round = req[r].round
        /\ req'[r].paid = req[r].paid /\ req'[r].hitIn = req[r].hitIn
    BY <1>3, <1>a DEF Ping, Hit, TypeOK, Request
  <2> QED BY <2>1, <1>a, <1>b, FieldTypes
          DEF IInv, NowIsPast, RoundInv, HitInv, RankInv, HasRow, InLoop, Counting
<1>4. ASSUME NEW r \in Requests, StartHit(r) PROVE Rest'
  <2>1. /\ UNCHANGED <<clock, row, window>> /\ req[r].pc = "start"
        /\ \A q \in Requests \ {r} : req'[q] = req[q]
        /\ req'[r].pc = "live" /\ req'[r].answer = req[r].answer
        /\ req'[r].now = clock /\ req'[r].round = 1 /\ req'[r].scope = req[r].scope
        /\ req'[r].paid = req[r].paid /\ req'[r].hitIn = req[r].hitIn
    BY <1>4, <1>a DEF StartHit, TypeOK, Request
  <2> QED BY <2>1, <1>a, <1>b, FieldTypes
          DEF IInv, NowIsPast, RoundInv, HitInv, RankInv, HasRow, InLoop, Counting
<1>5. ASSUME NEW r \in Requests, UpdateLive(r) PROVE Rest'
  <2>1. CASE Counted(r, window[req[r].scope], row[req[r].scope].count + 1,
                     row[req[r].scope].ends, "read") /\ HasRow(req[r].scope)
    BY <1>5, <2>1, CountedLive DEF UpdateLive, InLoop
  <2>2. CASE ~(HasRow(req[r].scope) /\ row[req[r].scope].ends > req[r].now)
             /\ Goto(r, "expired") /\ UNCHANGED <<row, window>>
    <3>1. /\ clock' = clock /\ req[r].pc = "live"
          /\ \A q \in Requests \ {r} : req'[q] = req[q]
          /\ req'[r].pc = "expired" /\ req'[r].answer = req[r].answer
          /\ req'[r].now = req[r].now /\ req'[r].round = req[r].round
          /\ req'[r].scope = req[r].scope
          /\ req'[r].paid = req[r].paid /\ req'[r].hitIn = req[r].hitIn
      BY <1>5, <2>2, <1>a DEF UpdateLive, Goto, TypeOK, Request
    <3> QED BY <2>2, <3>1, <1>a, <1>b, FieldTypes
            DEF IInv, NowIsPast, RoundInv, HitInv, RankInv, HasRow, InLoop, Counting
  <2> QED BY <1>5, <2>1, <2>2 DEF UpdateLive
<1>6. ASSUME NEW r \in Requests, UpdateExpired(r) PROVE Rest'
  <2>1. CASE Counted(r, window[req[r].scope] + 1, 1, req[r].now + Window, "read")
             /\ IsExpired(r)
    BY <1>6, <2>1, CountedNew DEF UpdateExpired, IsExpired, InLoop, Counting
  <2>2. CASE ~IsExpired(r) /\ Goto(r, "create") /\ UNCHANGED <<row, window>>
    <3>1. /\ clock' = clock /\ req[r].pc = "expired"
          /\ \A q \in Requests \ {r} : req'[q] = req[q]
          /\ req'[r].pc = "create" /\ req'[r].answer = req[r].answer
          /\ req'[r].now = req[r].now /\ req'[r].round = req[r].round
          /\ req'[r].scope = req[r].scope
          /\ req'[r].paid = req[r].paid /\ req'[r].hitIn = req[r].hitIn
      BY <1>6, <2>2, <1>a DEF UpdateExpired, Goto, TypeOK, Request
    <3>2. row[req[r].scope].count = 0 \/ req[r].round <= req[r].paid
      BY <2>2, <3>1, <1>a, FieldTypes DEF IInv, RoundInv, IsExpired, HasRow
    <3> QED BY <2>2, <3>1, <3>2, <1>a, <1>b, FieldTypes
            DEF IInv, NowIsPast, RoundInv, HitInv, RankInv, HasRow, InLoop, Counting
  <2> QED BY <1>6, <2>1, <2>2 DEF UpdateExpired
<1>7. ASSUME NEW r \in Requests, Create(r) PROVE Rest'
  <2>0. req[r].pc = "create" /\ clock' = clock
    BY <1>7 DEF Create
  <2>1. CASE Counted(r, window[req[r].scope] + 1, 1, req[r].now + Window, "remove")
             /\ ~HasRow(req[r].scope)
    BY <2>0, <2>1, CountedNew DEF InLoop, Counting
  <2>2. CASE HasRow(req[r].scope) /\ UNCHANGED <<row, window>>
    <3>1. /\ \A q \in Requests \ {r} : req'[q] = req[q]
          /\ req'[r].now = req[r].now /\ req'[r].scope = req[r].scope
          /\ req'[r].paid = req[r].paid /\ req'[r].hitIn = req[r].hitIn
          /\ \/ /\ req'[r].pc = "live" /\ req'[r].round = req[r].round + 1
                /\ req'[r].answer = req[r].answer
             \/ /\ req[r].round >= MAX_HIT_ATTEMPTS
                /\ req'[r].pc = "done" /\ req'[r].round = req[r].round
                /\ req'[r].answer = "error"
      <4>1. req[r] \in Request
        BY <1>a DEF TypeOK
      <4>2. CASE req[r].round < MAX_HIT_ATTEMPTS
                 /\ req' = [req EXCEPT ![r].pc = "live", ![r].round = @ + 1]
        BY <4>1, <4>2, <1>a DEF TypeOK, Request
      <4>3. CASE ~(req[r].round < MAX_HIT_ATTEMPTS) /\ Answer(r, "error")
        BY <4>1, <4>3, <1>a, <1>b DEF Answer, TypeOK, Request
      <4> QED BY <1>7, <2>2, <4>2, <4>3 DEF Create
    <3>2. req[r].round <= req[r].paid
      BY <2>0, <2>2, <1>a, FieldTypes DEF IInv, RoundInv, HasRow
    <3> QED BY <2>0, <2>2, <3>1, <3>2, <1>a, <1>b, FieldTypes
            DEF IInv, NowIsPast, RoundInv, HitInv, RankInv, HasRow, InLoop, Counting
  <2> QED BY <1>7, <2>1, <2>2 DEF Create
<1>8. ASSUME NEW r \in Requests, RemoveOldRows(r) PROVE Rest'
  <2>1. /\ UNCHANGED <<clock, window>> /\ req[r].pc = "remove"
        /\ \A q \in Requests \ {r} : req'[q] = req[q]
        /\ req'[r].pc = "read" /\ req'[r].answer = req[r].answer
        /\ req'[r].now = req[r].now /\ req'[r].round = req[r].round
        /\ req'[r].scope = req[r].scope /\ req'[r].rank = req[r].rank
        /\ req'[r].until = req[r].until
        /\ req'[r].paid = req[r].paid /\ req'[r].hitIn = req[r].hitIn
    BY <1>8, <1>a DEF RemoveOldRows, Goto, TypeOK, Request
  <2>2. \A s \in Scopes :
           row'[s] = row[s] \/ (row'[s].count = 0 /\ row[s].ends <= clock)
    <3> TAKE s \in Scopes
    <3>1. row[s].ends \in Int /\ req[r].now \in Int /\ req[r].now <= clock
      BY <1>a, FieldTypes DEF IInv, NowIsPast, TypeOK
    <3>2. row'[s] = IF row[s].ends < req[r].now - EXPIRED_ROW_GRACE
                    THEN [count |-> 0, ends |-> 0] ELSE row[s]
      BY <1>8 DEF RemoveOldRows
    <3> QED BY <3>1, <3>2, <1>b
  <2> QED BY <2>1, <2>2, <1>a, <1>b, FieldTypes
          DEF IInv, NowIsPast, RoundInv, HitInv, RankInv, HasRow, InLoop, Counting
<1>9. ASSUME NEW r \in Requests, ReadBack(r) PROVE Rest'
  <2>0. UNCHANGED <<clock, row, window>> /\ req[r].pc = "read"
    BY <1>9 DEF ReadBack
  <2>1. /\ \A q \in Requests \ {r} : req'[q] = req[q]
        /\ req'[r].pc = "done" /\ req'[r].reading = Reading(req[r].scope)
        /\ req'[r].late = (clock >= req[r].until)
        /\ req'[r].now = req[r].now /\ req'[r].round = req[r].round
        /\ req'[r].scope = req[r].scope /\ req'[r].rank = req[r].rank
        /\ req'[r].paid = req[r].paid /\ req'[r].hitIn = req[r].hitIn
        /\ req'[r].answer # "error"
        /\ req'[r].answer = "ok" => Reading(req[r].scope) <= num_requests
    BY <1>9, <1>a DEF ReadBack, Allows, TypeOK, Request
  <2>2. clock >= req[r].until \/ Reading(req[r].scope) >= req[r].rank
    BY <2>0, <1>a, <1>b, FieldTypes DEF Reading, IsLive, HasRow, IInv, HitInv, Counting
  <2>3. NowIsPast' /\ RoundInv'
    BY <2>0, <2>1, <1>a, <1>b, FieldTypes DEF IInv, NowIsPast, RoundInv
  <2>4. HitInv'
    <3>1. req'[r].late \/ req'[r].reading >= req'[r].rank
      BY <2>1, <2>2
    <3>2. req'[r].scope = "client_ip" /\ req'[r].answer = "ok"
             => req'[r].reading <= num_requests
      BY <2>1
    <3>3. \A q \in Requests \ {r} : req'[q] = req[q]
      BY <2>1
    <3> QED BY <2>0, <3>1, <3>2, <3>3, <2>1 DEF IInv, HitInv, InLoop, Counting
  <2>5. RankInv'
    BY <2>0, <2>1, <1>a, <1>b, FieldTypes DEF IInv, RankInv, HasRow
  <2> QED BY <2>3, <2>4, <2>5
<1>10. CASE UNCHANGED vars
  BY <1>10 DEF vars, IInv, TypeOK, NowIsPast, RoundInv, HitInv, RankInv, HasRow
<1> QED BY <1>a, <1>1, <1>2, <1>3, <1>4, <1>5, <1>6, <1>7, <1>8, <1>9, <1>10
        DEF Next, IInv

-----------------------------------------------------------------------------
LEMMA Inductive == Spec => []IInv
<1>1. Init => IInv
  BY InitInv
<1>2. IInv /\ [Next]_vars => IInv'
  BY Step
<1> QED BY <1>1, <1>2, PTL DEF Spec

\* Every variable keeps its type.
THEOREM TypeInvariant == Spec => []TypeOK
<1>1. IInv => TypeOK
  BY DEF IInv
<1> QED BY <1>1, Inductive, PTL

\* However the statements of the requests interleave, a hit reads back at least
\* the hits up to its own, unless its window has ended meanwhile.
THEOREM ReadsItsOwnHit == Spec => []NeverFewer
<1>1. IInv => NeverFewer
  BY DEF IInv, HitInv, NeverFewer
<1> QED BY <1>1, Inductive, PTL

\* With any number of requests, a round of hit() is lost only to a window that
\* another request began, and the RuntimeError takes MAX_HIT_ATTEMPTS of them.
THEOREM RoundsPaid == Spec => []RoundsArePaidFor
<1>1. IInv => RoundsArePaidFor
  BY DEF IInv, RoundInv, RoundsArePaidFor
<1> QED BY <1>1, Inductive, PTL

\* With any number of requests at any rate, no more than num_requests of those
\* counted and read back in one window of the throttle get through: their ranks
\* are different and none is above the reading that let it through.
THEOREM RateHolds == Spec => []AllowedPerWindow
<1>1. IInv => AllowedPerWindow
  <2> SUFFICES ASSUME IInv, NEW w \in 1..window["client_ip"]
               PROVE  Cardinality({r \in Requests :
                          /\ req[r].scope = "client_ip" /\ req[r].hitIn = w
                          /\ req[r].answer = "ok" /\ ~req[r].late}) <= num_requests
    BY DEF AllowedPerWindow
  <2> DEFINE Through == {r \in Requests :
                          /\ req[r].scope = "client_ip" /\ req[r].hitIn = w
                          /\ req[r].answer = "ok" /\ ~req[r].late}
             rank == [r \in Through |-> req[r].rank]
  <2>1. TypeOK /\ num_requests \in Nat
    BY ThrottleAssumption DEF IInv
  <2>2. w > 0
    BY <2>1 DEF TypeOK, Scopes
  <2>3. \A r \in Through : req[r].rank \in 1..num_requests
    <3> TAKE r \in Through
    <3>1. req[r].pc = "done" /\ req[r].hitIn > 0
      BY <2>2 DEF IInv, HitInv
    <3>2. req[r].reading >= req[r].rank /\ req[r].reading <= num_requests
      BY <3>1 DEF IInv, HitInv
    <3>3. req[r].rank > 0 /\ req[r].rank \in Nat /\ req[r].reading \in Nat
      BY <3>1, <2>1, FieldTypes DEF IInv, RankInv
    <3> QED BY <3>2, <3>3, <2>1
  <2>4. rank \in Injection(Through, 1..num_requests)
    BY <2>2, <2>3 DEF IInv, RankInv, Injection, IsInjective
  <2>5. IsFiniteSet(1..num_requests) /\ Cardinality(1..num_requests) = num_requests
    BY <2>1, FS_Interval
  <2>6. Cardinality(Through) <= Cardinality(1..num_requests)
    BY <2>4, <2>5, FS_Injection
  <2> QED BY <2>5, <2>6
<1> QED BY <1>1, Inductive, PTL

\* Whatever time a request took before its statements, no statement shortens,
\* ends or rewinds a window that is still running.
THEOREM WindowsAreKept == Spec => LiveWindowKept
<1>1. IInv /\ [Next]_vars => [KeepsLiveWindows]_vars
  <2> SUFFICES ASSUME IInv, Next PROVE KeepsLiveWindows
    OBVIOUS
  <2> USE DEF KeepsLiveWindows
  <2>a. TypeOK /\ clock \in Nat /\ EXPIRED_ROW_GRACE \in Nat
        /\ (\A s \in Scopes : row[s].count \in Nat /\ row[s].ends \in Int)
    BY ThrottleAssumption DEF IInv, TypeOK
  <2>b. \A r \in Requests : req[r].now \in Int /\ req[r].now <= clock
    BY <2>a, FieldTypes DEF IInv, NowIsPast
  <2>1. CASE UNCHANGED row
    BY <2>1, <2>a
  <2>2. ASSUME NEW r \in Requests, UpdateLive(r), row' # row PROVE KeepsLiveWindows
    <3>1. Counted(r, window[req[r].scope], row[req[r].scope].count + 1,
                  row[req[r].scope].ends, "read")
      BY <2>2 DEF UpdateLive
    <3> QED BY <3>1, <2>a, CountedFields
  <2>3. ASSUME NEW r \in Requests, UpdateExpired(r), row' # row PROVE KeepsLiveWindows
    <3>1. Counted(r, window[req[r].scope] + 1, 1, req[r].now + Window, "read")
          /\ ~IsLive(req[r].scope)
      BY <2>3, <2>a, <2>b, FieldTypes DEF UpdateExpired, IsExpired, IsLive
    <3> QED BY <3>1, <2>a, CountedFields
  <2>4. ASSUME NEW r \in Requests, Create(r), row' # row PROVE KeepsLiveWindows
    <3>1. Counted(r, window[req[r].scope] + 1, 1, req[r].now + Window, "remove")
          /\ ~IsLive(req[r].scope)
      BY <2>4 DEF Create, IsLive
    <3> QED BY <3>1, <2>a, CountedFields
  <2>5. ASSUME NEW r \in Requests, RemoveOldRows(r) PROVE KeepsLiveWindows
    <3> TAKE s \in Scopes
    <3> HAVE IsLive(s)
    <3>1. row'[s] = IF row[s].ends < req[r].now - EXPIRED_ROW_GRACE
                    THEN [count |-> 0, ends |-> 0] ELSE row[s]
      BY <2>5 DEF RemoveOldRows
    <3>2. ~(row[s].ends < req[r].now - EXPIRED_ROW_GRACE)
      BY <2>a, <2>b DEF IsLive
    <3> QED BY <3>1, <3>2, <2>a
  <2> QED BY <2>1, <2>2, <2>3, <2>4, <2>5
          DEF Next, Tick, Authenticate, Ping, StartHit, ReadBack
<1> QED BY <1>1, Inductive, PTL DEF LiveWindowKept, Spec

-----------------------------------------------------------------------------
\* The lockout.

Failed == "failed_auth"

\* The time that a hit compares with the end of a window: its own, or the time it
\* is going to take.
HitTime(r) == IF req[r].pc = "start" THEN clock ELSE req[r].now

\* The wrong tokens that can still be counted in the window of the row.
Adding == {r \in Guessing : HitTime(r) < row[Failed].ends}

\* A guess goes on only below the limit, so those that are let through while the
\* window is live push the count over it by less than their number; those let
\* through after the window has ended do not find it live.
GuessInv ==
    /\ Cardinality(Guessing) <= peak
    /\ Guessing # {} => max_failures >= 1
    /\ HasRow(Failed) =>
          row[Failed].count + Cardinality(Adding) <= max_failures + peak - 1

\* What a step does to the failures recorded and under way.
LeavesRow ==
    /\ row'[Failed] = row[Failed] /\ Guessing' \subseteq Guessing /\ Adding' \subseteq Adding
    /\ peak <= peak'
LetsThrough ==
    /\ row'[Failed] = row[Failed] /\ max_failures >= 1
    /\ peak <= peak' /\ Cardinality(Guessing') <= peak'
    /\ IsLive(Failed) => row[Failed].count < max_failures
    /\ ~IsLive(Failed) /\ HasRow(Failed) => Adding' \subseteq Adding
CountsOne(r) ==
    /\ r \in Adding /\ row'[Failed].count = row[Failed].count + 1 /\ HasRow(Failed)
    /\ Guessing' \subseteq Guessing /\ Adding' \subseteq Adding \ {r} /\ peak' = peak
BeginsWindow(r) ==
    /\ r \in Guessing /\ row'[Failed].count = 1
    /\ Guessing' \subseteq Guessing \ {r} /\ peak' = peak
RemovesRow ==
    row'[Failed].count = 0 /\ Guessing' \subseteq Guessing /\ peak' = peak

LEMMA GuessSteps ==
    ASSUME IInv, [Next]_vars
    PROVE  \/ LeavesRow \/ LetsThrough \/ RemovesRow
           \/ \E r \in Requests : CountsOne(r) \/ BeginsWindow(r)
<1>a. /\ TypeOK /\ TypeOK' /\ clock \in Nat /\ peak \in Nat /\ peak' \in Nat /\ Failed \in Scopes
      /\ row[Failed].ends \in Int /\ row[Failed].count \in Nat /\ max_failures \in Nat
      /\ (\A q \in Requests : req[q] \in Request /\ req[q].now \in Int)
  BY Step, ThrottleAssumption DEF IInv, TypeOK, Failed, Scopes, Request
<1>b. peak <= peak
  BY <1>a
<1>1. CASE Tick
  <2>1. clock' = clock + 1 /\ UNCHANGED <<row, req, peak>>
    BY <1>1 DEF Tick
  <2>2. Guessing' = Guessing
    BY <2>1 DEF Guessing
  <2>3. Adding' \subseteq Adding
    <3>1. \A e \in Int : clock + 1 < e => clock < e
      BY <1>a
    <3> QED BY <1>a, <2>1, <2>2, <3>1 DEF Adding, HitTime
  <2> QED BY <1>b, <2>1, <2>2, <2>3 DEF LeavesRow
\* A request moves, the row and the clock stay.
<1>2. ASSUME NEW r \in Requests, \A q \in Requests \ {r} : req'[q] = req[q],
             UNCHANGED <<clock, row>>, peak <= peak',
             r \in Guessing' => r \in Guessing /\ HitTime(r)' = HitTime(r)
      PROVE  LeavesRow
  <2>1. Guessing' \subseteq Guessing
    BY <1>2 DEF Guessing
  <2>2. \A q \in Requests \ {r} : HitTime(q)' = HitTime(q)
    BY <1>2 DEF HitTime
  <2>3. \A q \in Guessing' : q \in Guessing /\ HitTime(q)' = HitTime(q)
    <3>1. Guessing' \subseteq Requests
      BY DEF Guessing
    <3> QED BY <1>2, <2>1, <2>2, <3>1
  <2>4. row' = row
    BY <1>2
  <2>5. Adding' \subseteq Adding
    BY <2>3, <2>4 DEF Adding
  <2> QED BY <1>2, <2>1, <2>4, <2>5 DEF LeavesRow
<1>3. ASSUME NEW r \in Requests, Authenticate(r) PROVE LeavesRow \/ LetsThrough
  <2>1. /\ UNCHANGED <<clock, row>> /\ req[r].pc = "arrive"
        /\ \A q \in Requests \ {r} : req'[q] = req[q]
    BY <1>3, <1>a DEF Authenticate, Answer, Hit, TypeOK
  <2>2. Cardinality(Guessing') \in Nat
    <3>1. Guessing' \subseteq Requests
      BY DEF Guessing
    <3> QED BY <3>1, FS_Subset, FS_CardinalityType, ThrottleAssumption
  <2>3. peak <= peak' /\ Cardinality(Guessing') <= peak'
    <3>1. peak' = IF Cardinality(Guessing') > peak THEN Cardinality(Guessing') ELSE peak
      BY <1>3 DEF Authenticate
    <3> QED BY <1>a, <2>2, <3>1
  <2>4. CASE r \notin Guessing'
    BY <1>2, <2>1, <2>3, <2>4
  <2>5. CASE r \in Guessing'
    <3>1. ~IsLockedOut /\ req'[r].pc = "start"
      <4>1. CASE Answer(r, "throttled") \/ Answer(r, "ok") \/ Hit(r, "client_ip")
        BY <1>a, <2>5, <4>1 DEF Answer, Hit, Guessing, TypeOK, Request
      <4>2. CASE ~IsLockedOut /\ Hit(r, "failed_auth")
        BY <1>a, <4>2 DEF Hit, TypeOK, Request
      <4> QED BY <1>3, <4>1, <4>2 DEF Authenticate
    <3>2. max_failures >= 1 /\ (IsLive(Failed) => row[Failed].count < max_failures)
      <4>1. ~(Reading(Failed) >= max_failures)
        BY <3>1 DEF IsLockedOut, Failed
      <4> QED BY <1>a, <4>1 DEF Reading
    <3>3. ~IsLive(Failed) /\ HasRow(Failed) => Adding' \subseteq Adding
      <4> SUFFICES ASSUME ~IsLive(Failed), HasRow(Failed), NEW q \in Adding' PROVE q \in Adding
        OBVIOUS
      <4>1. ~(row[Failed].ends > clock)
        BY DEF IsLive
      <4>2. q # r
        BY <1>a, <2>1, <3>1, <4>1 DEF Adding, HitTime
      <4>3. q \in Requests \ {r} /\ req'[q] = req[q]
        BY <2>1, <4>2 DEF Adding, Guessing
      <4> QED BY <2>1, <4>3 DEF Adding, Guessing, HitTime
    <3> QED BY <2>1, <2>3, <3>2, <3>3 DEF LetsThrough
  <2> QED BY <2>4, <2>5
<1>4. ASSUME NEW r \in Requests, Ping(r) PROVE LeavesRow
  <2>1. /\ UNCHANGED <<clock, row, peak>> /\ \A q \in Requests \ {r} : req'[q] = req[q]
        /\ r \notin Guessing'
    BY <1>4, <1>a DEF Ping, Hit, TypeOK, Request, Guessing
  <2> QED BY <1>2, <1>b, <2>1
<1>5. ASSUME NEW r \in Requests, StartHit(r) PROVE LeavesRow
  <2>1. /\ UNCHANGED <<clock, row, peak>> /\ \A q \in Requests \ {r} : req'[q] = req[q]
        /\ req[r].pc = "start" /\ req'[r].pc = "live" /\ req'[r].now = clock
        /\ req'[r].scope = req[r].scope
    BY <1>5, <1>a DEF StartHit, TypeOK, Request
  <2> QED BY <1>2, <1>b, <2>1 DEF Guessing, HitTime
\* A statement of the loop that finds nothing to do.
<1>6. ASSUME NEW r \in Requests, UNCHANGED <<clock, row, peak>>, req[r].pc \in InLoop,
             NEW label \in InLoop, Goto(r, label)
      PROVE  LeavesRow
  <2>1. /\ \A q \in Requests \ {r} : req'[q] = req[q]
        /\ req'[r].pc = label /\ req'[r].now = req[r].now /\ req'[r].scope = req[r].scope
    BY <1>6, <1>a DEF Goto, TypeOK, Request
  <2> QED BY <1>2, <1>6, <1>b, <2>1 DEF Guessing, HitTime, InLoop
\* A statement that counts.
<1>7. ASSUME NEW r \in Requests, NEW w, NEW count, NEW ends, NEW next \in Counting,
             Counted(r, w, count, ends, next), req[r].pc \in InLoop, UNCHANGED <<clock, peak>>
      PROVE  /\ req[r].scope # Failed => LeavesRow
             /\ req[r].scope = Failed =>
                   /\ r \in Guessing /\ Guessing' \subseteq Guessing \ {r}
                   /\ row'[Failed].count = count /\ row'[Failed].ends = ends
                   /\ \A q \in Guessing' : HitTime(q)' = HitTime(q)
  <2>1. /\ \A q \in Requests : req'[q].scope = req[q].scope /\ req'[q].now = req[q].now
        /\ req'[r].pc = next /\ \A q \in Requests \ {r} : req'[q].pc = req[q].pc
        /\ row'[req[r].scope].count = count /\ row'[req[r].scope].ends = ends
        /\ \A s \in Scopes \ {req[r].scope} : row'[s] = row[s]
    BY <1>a, <1>7, CountedFields
  <2>2. r \notin Guessing' /\ Guessing' \subseteq Guessing
    BY <1>7, <2>1 DEF Guessing, Counting
  <2>3. \A q \in Guessing' : HitTime(q)' = HitTime(q)
    BY <1>7, <2>1, <2>2 DEF HitTime, Guessing
  <2>4. CASE req[r].scope # Failed
    <3>1. row'[Failed] = row[Failed]
      BY <1>a, <2>1, <2>4
    <3> QED BY <1>7, <1>b, <2>2, <2>3, <2>4, <3>1 DEF LeavesRow, Adding
  <2>5. CASE req[r].scope = Failed
    BY <1>7, <2>1, <2>2, <2>3, <2>5 DEF Guessing, InLoop, Failed
  <2> QED BY <2>4, <2>5
<1>8. ASSUME NEW r \in Requests, UpdateLive(r) PROVE LeavesRow \/ CountsOne(r)
  <2> DEFINE s == req[r].scope
  <2>0. req[r].pc = "live" /\ UNCHANGED <<clock, peak>>
    BY <1>8 DEF UpdateLive
  <2>1. CASE Goto(r, "expired") /\ UNCHANGED row
    BY <1>6, <2>0, <2>1 DEF InLoop
  <2>2. CASE /\ HasRow(s) /\ row[s].ends > req[r].now
             /\ Counted(r, window[s], row[s].count + 1, row[s].ends, "read")
    <3>1. CASE s # Failed
      BY <1>7, <2>0, <2>2, <3>1 DEF InLoop, Counting
    <3>2. CASE s = Failed
      <4>1. /\ r \in Guessing /\ Guessing' \subseteq Guessing \ {r}
            /\ row'[Failed].count = row[Failed].count + 1 /\ row'[Failed].ends = row[Failed].ends
            /\ \A q \in Guessing' : HitTime(q)' = HitTime(q)
        BY <1>7, <2>0, <2>2, <3>2 DEF InLoop, Counting
      <4>2. HitTime(r) = req[r].now /\ req[r].now < row[Failed].ends
        BY <1>a, <2>0, <2>2, <3>2 DEF HitTime
      <4>3. r \in Adding /\ Adding' \subseteq Adding \ {r}
        BY <4>1, <4>2 DEF Adding
      <4> QED BY <2>0, <2>2, <3>2, <4>1, <4>3 DEF CountsOne
    <3> QED BY <3>1, <3>2
  <2> QED BY <1>8, <2>1, <2>2 DEF UpdateLive
<1>9. ASSUME NEW r \in Requests, UpdateExpired(r) \/ Create(r) PROVE LeavesRow \/ BeginsWindow(r)
  <2> DEFINE s == req[r].scope
  <2>0. req[r].pc \in {"expired", "create"} /\ UNCHANGED <<clock, peak>>
    BY <1>9 DEF UpdateExpired, Create
  <2>1. CASE Goto(r, "create") /\ UNCHANGED row
    BY <1>6, <2>0, <2>1 DEF InLoop
  <2>2. ASSUME NEW next \in Counting, Counted(r, window[s] + 1, 1, req[r].now + Window, next)
        PROVE  LeavesRow \/ BeginsWindow(r)
    BY <1>7, <2>0, <2>2 DEF InLoop, BeginsWindow
  <2>3. CASE /\ UNCHANGED row
             /\ \/ req' = [req EXCEPT ![r].pc = "live", ![r].round = @ + 1]
                \/ Answer(r, "error")
    <3>1. /\ \A q \in Requests \ {r} : req'[q] = req[q]
          /\ req'[r].pc \in {"live", "done"} /\ req'[r].now = req[r].now
          /\ req'[r].scope = req[r].scope
      BY <2>3, <1>a DEF Answer, TypeOK, Request
    <3> QED BY <1>2, <1>b, <2>0, <2>3, <3>1 DEF Guessing, HitTime
  <2> QED BY <1>9, <2>1, <2>2, <2>3 DEF UpdateExpired, Create, Counting
<1>10. ASSUME NEW r \in Requests, RemoveOldRows(r) PROVE LeavesRow \/ RemovesRow
  <2>1. /\ \A q \in Requests \ {r} : req'[q] = req[q]
        /\ req'[r].pc = "read" /\ UNCHANGED <<clock, peak>>
        /\ (row'[Failed] = row[Failed] \/ row'[Failed].count = 0)
    BY <1>10, <1>a DEF RemoveOldRows, Goto, TypeOK, Request
  <2>2. r \notin Guessing' /\ Guessing' \subseteq Guessing
    BY <2>1 DEF Guessing
  <2>3. \A q \in Guessing' : HitTime(q)' = HitTime(q)
    BY <2>1, <2>2 DEF HitTime, Guessing
  <2>4. row'[Failed] = row[Failed] => Adding' \subseteq Adding
    BY <2>2, <2>3 DEF Adding
  <2> QED BY <1>b, <2>1, <2>2, <2>4 DEF LeavesRow, RemovesRow
<1>11. ASSUME NEW r \in Requests, ReadBack(r) PROVE LeavesRow
  <2>1. /\ UNCHANGED <<clock, row, peak>> /\ \A q \in Requests \ {r} : req'[q] = req[q]
        /\ req'[r].pc = "done"
    BY <1>11, <1>a DEF ReadBack, TypeOK, Request
  <2> QED BY <1>2, <1>b, <2>1 DEF Guessing
<1>12. CASE UNCHANGED vars
  <2>1. Guessing' = Guessing /\ Adding' = Adding /\ UNCHANGED <<row, peak>>
    BY <1>12 DEF vars, Guessing, Adding, HitTime
  <2> QED BY <1>b, <2>1 DEF LeavesRow
<1> QED BY <1>1, <1>3, <1>4, <1>5, <1>8, <1>9, <1>10, <1>11, <1>12 DEF Next

LEMMA GuessStep ==
    ASSUME IInv, GuessInv, [Next]_vars
    PROVE  GuessInv'
<1>a. /\ peak \in Nat /\ peak' \in Nat /\ Failed \in Scopes
      /\ row[Failed].count \in Nat /\ row'[Failed].count \in Nat /\ max_failures \in Nat
  BY Step, ThrottleAssumption DEF IInv, TypeOK, Failed, Scopes
<1>b. /\ IsFiniteSet(Guessing) /\ Adding \subseteq Guessing /\ IsFiniteSet(Adding)
      /\ IsFiniteSet(Guessing') /\ Adding' \subseteq Guessing' /\ IsFiniteSet(Adding')
  <2>1. Guessing \subseteq Requests /\ Guessing' \subseteq Requests
    BY DEF Guessing
  <2>2. Adding \subseteq Guessing /\ Adding' \subseteq Guessing'
    BY DEF Adding
  <2> QED BY <2>1, <2>2, FS_Subset, ThrottleAssumption
<1>c. /\ Cardinality(Guessing) \in Nat /\ Cardinality(Adding) \in Nat
      /\ Cardinality(Guessing') \in Nat /\ Cardinality(Adding') \in Nat
      /\ Cardinality(Adding') <= Cardinality(Guessing')
  BY <1>b, FS_CardinalityType, FS_Subset
<1>d. Guessing' \subseteq Guessing => Cardinality(Guessing') <= Cardinality(Guessing)
  BY <1>b, FS_Subset
<1>e. Adding' \subseteq Adding => Cardinality(Adding') <= Cardinality(Adding)
  BY <1>b, FS_Subset
<1>f. /\ Cardinality(Guessing) <= peak /\ (Guessing # {} => max_failures >= 1)
      /\ (row[Failed].count > 0 =>
            row[Failed].count + Cardinality(Adding) <= max_failures + peak - 1)
  BY DEF GuessInv, HasRow
<1>1. CASE LeavesRow
  <2>1. /\ row'[Failed].count = row[Failed].count /\ peak <= peak'
        /\ Cardinality(Guessing') <= Cardinality(Guessing)
        /\ Cardinality(Adding') <= Cardinality(Adding)
        /\ (Guessing' # {} => Guessing # {})
    BY <1>1, <1>d, <1>e DEF LeavesRow
  <2> QED BY <1>a, <1>c, <1>f, <2>1 DEF GuessInv, HasRow
<1>2. CASE LetsThrough
  <2>1. /\ row'[Failed].count = row[Failed].count /\ peak <= peak' /\ max_failures >= 1
        /\ Cardinality(Guessing') <= peak'
    BY <1>2 DEF LetsThrough
  <2>2. CASE IsLive(Failed)
    <3>1. row[Failed].count < max_failures
      BY <1>2, <2>2 DEF LetsThrough
    <3> QED BY <1>a, <1>c, <2>1, <3>1 DEF GuessInv, HasRow
  <2>3. CASE ~IsLive(Failed)
    <3>1. row[Failed].count > 0 => Cardinality(Adding') <= Cardinality(Adding)
      BY <1>2, <1>e, <2>3 DEF LetsThrough, HasRow
    <3> QED BY <1>a, <1>c, <1>f, <2>1, <3>1 DEF GuessInv, HasRow
  <2> QED BY <2>2, <2>3
<1>3. ASSUME NEW r \in Requests, CountsOne(r) PROVE GuessInv'
  <2>1. /\ Cardinality(Adding \ {r}) = Cardinality(Adding) - 1
        /\ Cardinality(Adding') <= Cardinality(Adding \ {r})
    BY <1>3, <1>b, FS_RemoveElement, FS_Subset DEF CountsOne
  <2>2. /\ row'[Failed].count = row[Failed].count + 1 /\ row[Failed].count > 0 /\ peak' = peak
        /\ Cardinality(Guessing') <= Cardinality(Guessing) /\ Guessing # {}
    BY <1>3, <1>d, <1>b DEF CountsOne, HasRow
  <2> QED BY <1>a, <1>c, <1>f, <2>1, <2>2 DEF GuessInv, HasRow
<1>4. ASSUME NEW r \in Requests, BeginsWindow(r) PROVE GuessInv'
  <2>1. /\ Cardinality(Guessing \ {r}) = Cardinality(Guessing) - 1
        /\ Cardinality(Guessing') <= Cardinality(Guessing \ {r})
    BY <1>4, <1>b, FS_RemoveElement, FS_Subset DEF BeginsWindow
  <2>2. row'[Failed].count = 1 /\ peak' = peak /\ Guessing # {}
    BY <1>4 DEF BeginsWindow
  <2> QED BY <1>a, <1>c, <1>f, <2>1, <2>2 DEF GuessInv, HasRow
<1>5. CASE RemovesRow
  <2>1. /\ row'[Failed].count = 0 /\ peak' = peak /\ (Guessing' # {} => Guessing # {})
        /\ Cardinality(Guessing') <= Cardinality(Guessing)
    BY <1>5, <1>d DEF RemovesRow
  <2> QED BY <1>a, <1>c, <1>f, <2>1 DEF GuessInv, HasRow
<1> QED BY <1>1, <1>2, <1>3, <1>4, <1>5, GuessSteps

\* However many wrong tokens are looked up at once, at whatever rate and however
\* windows end and begin meanwhile, a window counts at most the failures the rate
\* allows and the others under way with the one that reached it
\* (FailedAuthLockout.check and record, around knox's lookup).
THEOREM OvershootBounded == Spec => []LockoutOvershoot
<1>1. Init => GuessInv
  <2> SUFFICES ASSUME Init PROVE GuessInv
    OBVIOUS
  <2>1. Guessing = {} /\ ~HasRow(Failed) /\ peak = 0
    BY DEF Init, Guessing, HasRow, Failed, Scopes
  <2> QED BY <2>1, FS_EmptySet DEF GuessInv
<1>2. ASSUME IInv, GuessInv PROVE LockoutOvershoot
  <2>1. /\ peak \in Nat /\ row[Failed].count \in Nat /\ max_failures \in Nat
    BY <1>2, ThrottleAssumption DEF IInv, TypeOK, Failed, Scopes
  <2>2. Cardinality(Adding) \in Nat
    <3>1. Adding \subseteq Requests
      BY DEF Adding, Guessing
    <3> QED BY <3>1, FS_Subset, FS_CardinalityType, ThrottleAssumption
  <2>3. row[Failed].count > 0 => row[Failed].count + Cardinality(Adding) <= max_failures + peak - 1
    BY <1>2 DEF GuessInv, HasRow
  <2>4. row[Failed].count <= max_failures + peak - 1 \/ peak = 0
    BY <2>1, <2>2, <2>3
  <2> QED BY <2>4 DEF LockoutOvershoot, Failed
<1> QED BY <1>1, <1>2, GuessStep, Inductive, PTL DEF Spec
=============================================================================
