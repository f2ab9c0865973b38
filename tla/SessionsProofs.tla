--------------------------- MODULE SessionsProofs ---------------------------
(***************************************************************************)
(* Sessions, for any users, requests and sessions, any policy that         *)
(* SessionPolicy.Validate accepts and any retention that is at least twice *)
(* the time a request takes.                                               *)
(***************************************************************************)
EXTENDS Sessions, FunctionTheorems, FiniteSetTheorems, TLAPS

(***************************************************************************)
(* The inductive invariant.  A request in flight began a short while ago;  *)
(* what it learnt of its session still holds, as rows only ever change in  *)
(* one direction; and a session whose revocation is known to a request is  *)
(* too young to be reaped while the request is in flight.                  *)
(***************************************************************************)
Recent(q) == q.began <= now /\ now <= q.began + MaxInFlight

Known(s) == session[s].status # "absent"

\* A request that carries a session's token.
TokenInv(q) ==
  q.step \in {"authenticate", "admitted"} =>
    /\ Known(q.session)
    /\ q.barred /\ q.step = "authenticate" =>
         q.session \in ended \/ session[q.session].user \in disabled
    /\ q.step = "admitted" =>
         /\ ~q.barred
         /\ Present(q.session)
         /\ session[q.session].expires > q.began
         /\ session[q.session].revoked # Null =>
              session[q.session].revoked >= q.began - MaxInFlight

\* A request that limits the sessions of a user.
LimitInv(q) ==
  q.step \in {"revoke", "limited"} =>
    /\ q.selected \subseteq q.listed
    /\ \A s \in q.listed : Known(s) /\ session[s].user = q.user
    /\ Cardinality(q.listed \ q.selected) = MaximumActive - 1
    /\ \A s \in q.selected, t \in q.listed \ q.selected :
         session[s].created <= session[t].created
    /\ q.step = "limited" =>
         \A s \in q.selected : session[s].revoked # Null \/ ~Present(s)

RequestInv(r) ==
  request[r] # Ready =>
    Recent(request[r]) /\ TokenInv(request[r]) /\ LimitInv(request[r])

AbsentUnrevoked == \A s \in SessionIDs : ~Known(s) => session[s].revoked = Null
EndedRevoked == \A s \in ended : session[s].revoked # Null

SessionsInv ==
  /\ TypeOK /\ AbsentUnrevoked /\ EndedRevoked
  /\ \A r \in Requests : RequestInv(r)

-----------------------------------------------------------------------------
(***************************************************************************)
(* Rows and requests.                                                      *)
(***************************************************************************)
\* The constants as numbers.
LEMMA PolicyNumbers ==
  /\ TTL \in Nat /\ AbsoluteLifetime \in Nat /\ AbsoluteLifetime >= TTL
  /\ MaximumActive \in Nat /\ MaximumActive >= 1
  /\ RefreshBeforeExpiry \in Nat /\ RefreshBeforeExpiry >= 1
  /\ RefreshBeforeExpiry <= TTL - 1
  /\ Retention \in Nat /\ Retention >= 2 * MaxInFlight
  /\ MaxInFlight \in Nat /\ MaxInFlight >= 1 /\ MaxTime \in Nat
  /\ SessionIDs \subseteq Nat /\ IsFiniteSet(SessionIDs)
BY SessionPolicyAssumption, RetentionAssumption DEF ValidPolicy

\* The columns of a row.
LEMMA RowFields ==
  ASSUME TypeOK, NEW s \in SessionIDs
  PROVE  /\ session[s] \in Rows
         /\ session[s].status \in {"absent", "present", "deleted"}
         /\ session[s].user \in Users /\ session[s].created \in Nat
         /\ session[s].created <= MaxTime
         /\ session[s].expires \in Nat /\ session[s].revoked \in Int
         /\ session[s].revoked # Null => session[s].revoked \in Times
<1>1. session[s] \in Rows
  BY DEF TypeOK
<1>2. /\ session[s].status \in {"absent", "present", "deleted"}
      /\ session[s].user \in Users /\ session[s].created \in Times
      /\ session[s].expires \in Nat /\ session[s].revoked \in Times \cup {Null}
  BY <1>1 DEF Rows
<1>3. /\ Times \subseteq Nat /\ Times \subseteq Int /\ Null \in Int
      /\ \A t \in Times : t <= MaxTime
  BY PolicyNumbers DEF Times, Null
<1>4. session[s].created \in Nat /\ session[s].created <= MaxTime
  BY <1>2, <1>3
<1>5. session[s].revoked \in Int
        /\ (session[s].revoked # Null => session[s].revoked \in Times)
  BY <1>2, <1>3
<1> QED
  BY <1>1, <1>2, <1>4, <1>5

\* What a handler knows at each of its steps.
LEMMA RequestFields ==
  ASSUME TypeOK, NEW r \in Requests, request[r] # Ready
  PROVE  /\ request[r] \in InFlight
         /\ request[r].step \in {"insert", "authenticate", "admitted", "revoke",
                                 "limited"}
         /\ request[r].began \in Times
         /\ request[r].step = "insert" => request[r].user \in Users
         /\ request[r].step \in {"authenticate", "admitted"} =>
              request[r].session \in SessionIDs /\ request[r].barred \in BOOLEAN
         /\ request[r].step \in {"revoke", "limited"} =>
              /\ request[r].user \in Users /\ request[r].listed \subseteq SessionIDs
              /\ request[r].selected \subseteq SessionIDs
<1>1. request[r] \in InFlight
  BY DEF TypeOK
<1> QED
  BY <1>1 DEF InFlight

\* The clock is a number.
LEMMA ClockType ==
  ASSUME TypeOK
  PROVE  now \in Nat /\ now <= MaxTime /\ now \in Times
BY PolicyNumbers DEF TypeOK, Times

(***************************************************************************)
(* What a statement may do to a row, and what follows for the requests     *)
(* that did not send it.                                                   *)
(***************************************************************************)
RowStep(s) ==
  /\ session[s].revoked # Null => session'[s].revoked = session[s].revoked
  /\ session[s].status = "deleted" => session'[s] = session[s]
  /\ ~Known(s)' => session'[s] = session[s]
  /\ Known(s) => /\ Known(s)'
                 /\ session'[s].user = session[s].user
                 /\ session'[s].created = session[s].created
                 /\ session'[s].expires = session[s].expires
  /\ session[s].revoked = Null /\ session'[s].revoked # Null =>
       session'[s].revoked >= now - MaxInFlight
  /\ Present(s) /\ ~Present(s)' =>
       \/ session[s].expires < now - Retention
       \/ session[s].revoked # Null /\ session[s].revoked < now - Retention

\* What an untouched row does.
LEMMA RowSame ==
  ASSUME NEW s, session'[s] = session[s]
  PROVE  RowStep(s)
BY DEF RowStep, Known, Present

\* What a request knows survives the statements of others.
LEMMA RequestKept ==
  ASSUME TypeOK, TypeOK', NEW r \in Requests, RequestInv(r),
         request'[r] = request[r],
         \A s \in SessionIDs : RowStep(s), now' = now,
         disabled \subseteq disabled', ended \subseteq ended'
  PROVE  RequestInv(r)'
<1> SUFFICES ASSUME request[r] # Ready
             PROVE  RequestInv(r)'
  BY DEF RequestInv
<1> DEFINE q == request[r]
<1>1. Recent(q) /\ TokenInv(q) /\ LimitInv(q)
  BY DEF RequestInv
<1>2. Recent(q)'
  BY <1>1 DEF Recent
<1>3. TokenInv(q)'
  <2> SUFFICES ASSUME q.step \in {"authenticate", "admitted"}
               PROVE  TokenInv(q)'
    BY DEF TokenInv
  <2> PICK s \in SessionIDs : s = q.session
    BY RequestFields
  <2>1. RowStep(s) /\ Known(s)
    BY <1>1 DEF TokenInv
  <2>2. Known(s)' /\ session'[s].user = session[s].user
          /\ session'[s].expires = session[s].expires
    BY <2>1 DEF RowStep
  <2>3. CASE q.step = "authenticate"
    BY <1>1, <2>2, <2>3 DEF TokenInv, Known
  <2>4. CASE q.step = "admitted"
    <3>1. /\ ~q.barred /\ Present(s) /\ session[s].expires > q.began
          /\ session[s].revoked # Null => session[s].revoked >= q.began - MaxInFlight
      BY <1>1, <2>4 DEF TokenInv
    <3>2. /\ q.began \in Int /\ now \in Int /\ Retention \in Int /\ MaxInFlight \in Int
          /\ session[s].expires \in Int /\ session[s].revoked \in Int
          /\ Retention >= 2 * MaxInFlight /\ now <= q.began + MaxInFlight
          /\ MaxInFlight >= 1 /\ q.began <= now
      BY <1>1, RequestFields, ClockType, PolicyNumbers, RowFields DEF Recent, Times
    <3>3. Present(s)'
      <4>1. ~(session[s].expires < now - Retention)
        BY <3>1, <3>2
      <4>2. ~(session[s].revoked # Null /\ session[s].revoked < now - Retention)
        BY <3>1, <3>2
      <4> QED
        BY <2>1, <3>1, <4>1, <4>2 DEF RowStep
    <3>4. session'[s].revoked # Null => session'[s].revoked >= q.began - MaxInFlight
      <4>1. CASE session[s].revoked # Null
        BY <2>1, <3>1, <4>1 DEF RowStep
      <4>2. CASE session[s].revoked = Null /\ session'[s].revoked # Null
        <5>1. session'[s].revoked >= now - MaxInFlight
          BY <2>1, <4>2 DEF RowStep
        <5>2. session'[s] \in Rows
          BY DEF TypeOK
        <5>3. session'[s].revoked \in Int
          BY <5>2, PolicyNumbers DEF Rows, Times, Null
        <5> QED
          BY <3>2, <5>1, <5>3
      <4> QED
        BY <4>1, <4>2
    <3> QED
      BY <2>2, <2>4, <3>1, <3>3, <3>4 DEF TokenInv, Known, Present
  <2> QED
    BY <2>3, <2>4
<1>4. LimitInv(q)'
  <2> SUFFICES ASSUME q.step \in {"revoke", "limited"}
               PROVE  LimitInv(q)'
    BY DEF LimitInv
  <2>1. q.listed \subseteq SessionIDs /\ q.selected \subseteq q.listed
    BY <1>1, RequestFields DEF LimitInv
  <2>2. \A s \in q.listed :
          /\ Known(s)' /\ session'[s].user = session[s].user
          /\ session'[s].created = session[s].created
    BY <1>1, <2>1 DEF LimitInv, RowStep
  <2>3. q.step = "limited" =>
          \A s \in q.selected : session'[s].revoked # Null \/ ~Present(s)'
    <3> SUFFICES ASSUME q.step = "limited", NEW s \in q.selected
                 PROVE  session'[s].revoked # Null \/ ~Present(s)'
      OBVIOUS
    <3>1. RowStep(s) /\ Known(s) /\ (session[s].revoked # Null \/ ~Present(s))
      BY <1>1, <2>1 DEF LimitInv
    <3>2. CASE session[s].revoked # Null
      BY <3>1, <3>2 DEF RowStep
    <3>3. CASE ~Present(s)
      <4>1. session[s].status = "deleted"
        BY <2>1, <3>1, <3>3, RowFields DEF Known, Present
      <4> QED
        BY <3>1, <4>1 DEF RowStep, Present
    <3> QED
      BY <3>1, <3>2, <3>3
  <2> QED
    BY <1>1, <2>1, <2>2, <2>3 DEF LimitInv, Known, Present
<1> QED
  BY <1>2, <1>3, <1>4 DEF RequestInv, Recent, TokenInv, LimitInv, Known, Present

-----------------------------------------------------------------------------
(***************************************************************************)
(* SessionsToRevoke.  The rank of a session among the active ones is an    *)
(* injection into 0 .. n-1, hence onto it, so that as many are spared as   *)
(* there are ranks beyond the last one that is selected.                   *)
(***************************************************************************)
Seniors(active, s) == {t \in active : OlderThan(t, s)}

\* The order of sort.Slice is strict and total.
LEMMA OlderThanOrders ==
  ASSUME TypeOK, NEW s \in SessionIDs, NEW t \in SessionIDs, NEW u \in SessionIDs
  PROVE  /\ ~OlderThan(s, s)
         /\ OlderThan(s, t) /\ OlderThan(t, u) => OlderThan(s, u)
         /\ s = t \/ OlderThan(s, t) \/ OlderThan(t, s)
         /\ session[s].created < session[t].created => OlderThan(s, t)
<1>1. s \in Nat /\ t \in Nat /\ u \in Nat
  BY PolicyNumbers
<1>2. /\ session[s].created \in Nat /\ session[t].created \in Nat
      /\ session[u].created \in Nat
  BY RowFields
<1> QED
  BY <1>1, <1>2 DEF OlderThan

\* Ranks are below the number of sessions, and grow with the order.
LEMMA RankGrows ==
  ASSUME TypeOK, NEW active \in SUBSET SessionIDs,
         NEW s \in active, NEW t \in active
  PROVE  /\ Cardinality(Seniors(active, s)) \in 0 .. Cardinality(active) - 1
         /\ OlderThan(s, t) =>
              Cardinality(Seniors(active, s)) < Cardinality(Seniors(active, t))
<1>1. IsFiniteSet(active) /\ Cardinality(active) \in Nat
  BY PolicyNumbers, FS_Subset, FS_CardinalityType
<1>2. /\ IsFiniteSet(Seniors(active, s)) /\ IsFiniteSet(Seniors(active, t))
      /\ Cardinality(Seniors(active, s)) \in Nat
      /\ Cardinality(Seniors(active, t)) \in Nat
  BY <1>1, FS_Subset, FS_CardinalityType DEF Seniors
<1>3. s \notin Seniors(active, s) /\ Seniors(active, s) \subseteq active
  BY OlderThanOrders DEF Seniors
<1>4. /\ IsFiniteSet(Seniors(active, s) \cup {s})
      /\ Cardinality(Seniors(active, s) \cup {s}) = Cardinality(Seniors(active, s)) + 1
  BY <1>2, <1>3, FS_AddElement
<1>5. Cardinality(Seniors(active, s)) + 1 <= Cardinality(active)
  <2>1. Seniors(active, s) \cup {s} \subseteq active
    BY <1>3
  <2> QED
    BY <1>1, <1>4, <2>1, FS_Subset
<1>6. ASSUME OlderThan(s, t)
      PROVE  Cardinality(Seniors(active, s)) < Cardinality(Seniors(active, t))
  <2>1. Seniors(active, s) \cup {s} \subseteq Seniors(active, t)
    BY <1>6, OlderThanOrders DEF Seniors
  <2>2. Cardinality(Seniors(active, s) \cup {s}) <= Cardinality(Seniors(active, t))
    BY <1>2, <2>1, FS_Subset
  <2> QED
    BY <1>2, <1>4, <2>2
<1> QED
  BY <1>1, <1>2, <1>5, <1>6

\* Exactly one session less than the limit is spared, and the selected ones are
\* no younger than those.
LEMMA SelectionExact ==
  ASSUME TypeOK, NEW active \in SUBSET SessionIDs,
         Cardinality(active) >= MaximumActive
  PROVE  /\ SessionsToRevoke(active) \subseteq active
         /\ Cardinality(active \ SessionsToRevoke(active)) = MaximumActive - 1
         /\ \A s \in SessionsToRevoke(active), t \in active \ SessionsToRevoke(active) :
              session[s].created <= session[t].created
<1> DEFINE n == Cardinality(active)
           count == n - MaximumActive + 1
           Rank(s) == Cardinality(Seniors(active, s))
           selected == SessionsToRevoke(active)
           spared == active \ selected
<1>1. IsFiniteSet(active) /\ n \in Nat /\ count \in Nat /\ count >= 1 /\ count <= n
        /\ n - count = MaximumActive - 1
  <2>1. IsFiniteSet(active) /\ n \in Nat
    BY PolicyNumbers, FS_Subset, FS_CardinalityType
  <2>2. n >= MaximumActive /\ MaximumActive \in Nat /\ MaximumActive >= 1
    BY PolicyNumbers
  <2> HIDE DEF n
  <2> QED
    BY <2>1, <2>2
<1>2. \A s \in active : Rank(s) \in 0 .. n - 1
  BY RankGrows
<1>3. \A s, t \in active : OlderThan(s, t) => Rank(s) < Rank(t)
  BY RankGrows
<1>4. selected = {s \in active : Rank(s) < count}
  BY DEF SessionsToRevoke, Seniors
<1> HIDE DEF n, count, Rank, selected
<1>5. \A s, t \in active : Rank(s) = Rank(t) => s = t
  <2> SUFFICES ASSUME NEW s \in active, NEW t \in active, Rank(s) = Rank(t), s # t
               PROVE  FALSE
    OBVIOUS
  <2>1. Rank(s) < Rank(t) \/ Rank(t) < Rank(s)
    BY <1>3, OlderThanOrders
  <2>2. Rank(s) \in Int /\ Rank(t) \in Int
    BY <1>2
  <2> QED
    BY <2>1, <2>2
<1>6. \A k \in 0 .. n - 1 : \E s \in active : Rank(s) = k
  <2> DEFINE f == [s \in active |-> Rank(s)]
  <2>1. f \in [active -> 0 .. n - 1] /\ \A s, t \in active : f[s] = f[t] => s = t
    BY <1>2, <1>5
  <2>2. f \in Injection(active, 0 .. n - 1)
    BY <2>1, Fun_IsInj
  <2>3. 0 \in Int /\ n - 1 \in Int
    BY <1>1
  <2>4. IsFiniteSet(0 .. n - 1) /\ Cardinality(0 .. n - 1) = n
    BY <1>1, <2>3, FS_Interval
  <2>5. f \in Surjection(active, 0 .. n - 1)
    BY <2>2, <2>4, FS_Injection DEF n
  <2> HIDE DEF f
  <2>6. \A k \in 0 .. n - 1 : \E s \in active : f[s] = k
    BY <2>5 DEF Surjection
  <2> QED
    BY <2>6 DEF f
<1>7. Cardinality(spared) = MaximumActive - 1
  <2> DEFINE g == [s \in spared |-> Rank(s)]
             T == count .. n - 1
  <2>1. \A s \in spared : s \in active /\ Rank(s) \in T
    BY <1>1, <1>2, <1>4
  <2>2. g \in [spared -> T] /\ \A s, t \in spared : g[s] = g[t] => s = t
    BY <1>5, <2>1
  <2>3. g \in Injection(spared, T)
    BY <2>2, Fun_IsInj
  <2>4. \A k \in T : \E s \in spared : g[s] = k
    <3> SUFFICES ASSUME NEW k \in T
                 PROVE  \E s \in spared : g[s] = k
      OBVIOUS
    <3>1. k \in 0 .. n - 1 /\ ~(k < count)
      BY <1>1
    <3>2. PICK s \in active : Rank(s) = k
      BY <1>6, <3>1
    <3>3. s \in spared
      BY <1>4, <3>1, <3>2
    <3> QED
      BY <3>2, <3>3
  <2>5. g \in Surjection(spared, T)
    BY <2>2, <2>4, Fun_IsSurj
  <2>6. count \in Int /\ n - 1 \in Int
    BY <1>1
  <2>7. IsFiniteSet(T) /\ Cardinality(T) = n - count
    BY <1>1, <2>6, FS_Interval
  <2>8. Cardinality(spared) = Cardinality(T)
    BY <2>3, <2>5, <2>7, FS_Injection
  <2> QED
    BY <1>1, <2>7, <2>8
<1>8. ASSUME NEW s \in selected, NEW t \in spared
      PROVE  session[s].created <= session[t].created
  <2>1. s \in active /\ t \in active /\ Rank(s) < count /\ ~(Rank(t) < count)
    BY <1>4
  <2>2. ~OlderThan(t, s)
    <3>1. Rank(s) \in Int /\ Rank(t) \in Int
      BY <1>2, <2>1
    <3> QED
      BY <1>1, <1>3, <2>1, <3>1
  <2>3. ~(session[t].created < session[s].created)
    BY <2>1, <2>2, OlderThanOrders
  <2>4. session[s].created \in Nat /\ session[t].created \in Nat
    BY <2>1, RowFields
  <2> QED
    BY <2>3, <2>4
<1> QED
  BY <1>4, <1>7, <1>8 DEF selected

-----------------------------------------------------------------------------
(***************************************************************************)
(* Every statement preserves the invariant.                                *)
(***************************************************************************)
\* What is left to show of a step at which the clock stands still.
LEMMA StepKeeps ==
  ASSUME SessionsInv, TypeOK', now' = now,
         disabled \subseteq disabled', ended \subseteq ended',
         \A s \in SessionIDs : RowStep(s),
         \A s \in ended' \ ended : session'[s].revoked # Null,
         \A r \in Requests : \/ request'[r] = request[r]
                             \/ request'[r] = Ready
                             \/ RequestInv(r)'
  PROVE  SessionsInv'
<1>1. TypeOK
  BY DEF SessionsInv
<1>2. AbsentUnrevoked'
  BY DEF SessionsInv, AbsentUnrevoked, RowStep, Known
<1>3. EndedRevoked'
  <2> SUFFICES ASSUME NEW s \in ended'
               PROVE  session'[s].revoked # Null
    BY DEF EndedRevoked
  <2>1. CASE s \in ended
    <3>1. s \in SessionIDs /\ session[s].revoked # Null
      BY <1>1, <2>1 DEF SessionsInv, EndedRevoked, TypeOK
    <3> QED
      BY <3>1 DEF RowStep
  <2> QED
    BY <2>1
<1>4. ASSUME NEW r \in Requests
      PROVE  RequestInv(r)'
  <2>1. CASE request'[r] = request[r]
    BY <1>1, <2>1, RequestKept DEF SessionsInv
  <2>2. CASE request'[r] = Ready
    BY <2>2 DEF RequestInv
  <2> QED
    BY <2>1, <2>2
<1> QED
  BY <1>2, <1>3, <1>4 DEF SessionsInv

\* A step of one request that writes no row.
LEMMA ReaderKeeps ==
  ASSUME SessionsInv, NEW r \in Requests, NEW state \in InFlight \cup {Ready},
         Set(r, state), UNCHANGED <<now, disabled, session, ended, reaper>>,
         state = Ready \/ (Recent(state) /\ TokenInv(state) /\ LimitInv(state))
  PROVE  SessionsInv'
<1>1. TypeOK /\ request' = [request EXCEPT ![r] = state]
  BY DEF SessionsInv, Set
<1>2. /\ request' \in [Requests -> InFlight \cup {Ready}] /\ request'[r] = state
      /\ \A x \in Requests \ {r} : request'[x] = request[x]
  BY <1>1 DEF TypeOK
<1>3. TypeOK'
  BY <1>1, <1>2 DEF TypeOK
<1>4. \A s \in SessionIDs : RowStep(s)
  BY RowSame
<1>5. state = Ready \/ (Recent(state)' /\ TokenInv(state)' /\ LimitInv(state)')
  BY DEF Recent, TokenInv, LimitInv, Known, Present
<1>6. request'[r] = Ready \/ RequestInv(r)'
  BY <1>2, <1>5 DEF RequestInv, Recent, TokenInv, LimitInv, Known, Present
<1> QED
  BY <1>2, <1>3, <1>4, <1>6, StepKeeps

\* Login looks the user up.
LEMMA LoginStep ==
  ASSUME SessionsInv, NEW r \in Requests, NEW u \in Users, Login(r, u)
  PROVE  SessionsInv'
<1> DEFINE new == [step |-> "insert", began |-> now, user |-> u]
<1>1. now \in Times /\ now \in Nat /\ MaxInFlight \in Nat
  BY ClockType, PolicyNumbers DEF SessionsInv
<1>2. new \in InFlight /\ new.step = "insert" /\ new.began = now
  BY <1>1 DEF InFlight
<1>3. Set(r, new) /\ UNCHANGED <<now, disabled, session, ended, reaper>>
  BY DEF Login
<1> HIDE DEF new
<1>4. Recent(new) /\ TokenInv(new) /\ LimitInv(new)
  BY <1>1, <1>2 DEF Recent, TokenInv, LimitInv
<1> QED
  BY <1>2, <1>3, <1>4, ReaderKeeps

\* The middleware has a token, and has sent nothing yet.
LEMMA BeginRequestStep ==
  ASSUME SessionsInv, NEW r \in Requests, NEW s \in SessionIDs, BeginRequest(r, s)
  PROVE  SessionsInv'
<1> DEFINE barred == s \in ended \/ session[s].user \in disabled
           new == [step |-> "authenticate", began |-> now, session |-> s,
                   barred |-> barred]
<1>1. now \in Times /\ now \in Nat /\ MaxInFlight \in Nat
  BY ClockType, PolicyNumbers DEF SessionsInv
<1>2. barred \in BOOLEAN
  OBVIOUS
<1>3. /\ Set(r, new) /\ UNCHANGED <<now, disabled, session, ended, reaper>>
      /\ Known(s)
  BY DEF BeginRequest, Known
<1>4. barred => s \in ended \/ session[s].user \in disabled
  OBVIOUS
<1> HIDE DEF barred
<1>5. new \in InFlight /\ new.step = "authenticate" /\ new.began = now
        /\ new.session = s /\ new.barred = barred
  BY <1>1, <1>2 DEF InFlight
<1> HIDE DEF new
<1>6. Recent(new) /\ LimitInv(new)
  BY <1>1, <1>5 DEF Recent, LimitInv
<1>7. TokenInv(new)
  BY <1>3, <1>4, <1>5 DEF TokenInv
<1> QED
  BY <1>3, <1>5, <1>6, <1>7, ReaderKeeps

\* The middleware's SELECT: a session that is barred is not authentic any more.
LEMMA AuthenticateStep ==
  ASSUME SessionsInv, NEW r \in Requests, AuthenticateRequest(r)
  PROVE  SessionsInv'
<1> DEFINE q == request[r]
           new == [q EXCEPT !.step = "admitted"]
<1>1. /\ q.step = "authenticate"
      /\ Set(r, IF Present(q.session) /\ Authenticate(session[q.session], q.began)
                  THEN new ELSE Ready)
      /\ UNCHANGED <<now, disabled, session, ended, reaper>>
  BY DEF AuthenticateRequest
<1>2. TypeOK /\ q # Ready
  BY <1>1 DEF SessionsInv, Ready
<1>3. q \in InFlight /\ q.session \in SessionIDs /\ q.barred \in BOOLEAN
  BY <1>1, <1>2, RequestFields
<1>4. Recent(q) /\ TokenInv(q)
  BY <1>2 DEF SessionsInv, RequestInv
<1>5. CASE Present(q.session) /\ Authenticate(session[q.session], q.began)
  <2>1. ~q.barred
    <3>1. q.session \notin ended
      BY <1>5 DEF Authenticate, SessionsInv, EndedRevoked
    <3>2. session[q.session].user \notin disabled
      BY <1>5 DEF Authenticate
    <3> QED
      BY <1>1, <1>4, <3>1, <3>2 DEF TokenInv
  <2>2. /\ new \in InFlight /\ new.step = "admitted" /\ new.began = q.began
        /\ new.session = q.session /\ new.barred = q.barred
    BY <1>1, <1>3 DEF InFlight
  <2>3. Set(r, new)
    BY <1>1, <1>5
  <2> HIDE DEF new
  <2>4. Recent(new) /\ LimitInv(new)
    BY <1>4, <2>2 DEF Recent, LimitInv
  <2>5. TokenInv(new)
    BY <1>1, <1>4, <1>5, <2>1, <2>2 DEF TokenInv, Authenticate
  <2> QED
    BY <1>1, <2>2, <2>3, <2>4, <2>5, ReaderKeeps
<1>6. CASE ~(Present(q.session) /\ Authenticate(session[q.session], q.began))
  <2>1. Set(r, Ready)
    BY <1>1, <1>6
  <2> QED
    BY <1>1, <2>1, ReaderKeeps
<1> QED
  BY <1>5, <1>6

\* The limit is applied to the sessions that are active now.
LEMMA ListStep ==
  ASSUME SessionsInv, NEW r \in Requests, NEW u \in Users, ListSessions(r, u)
  PROVE  SessionsInv'
<1> DEFINE active == ActiveSessions(u, now)
           selected == SessionsToRevoke(active)
           new == [step |-> "revoke", began |-> now, user |-> u, listed |-> active,
                   selected |-> selected]
<1>1. TypeOK /\ now \in Times /\ now \in Nat /\ MaxInFlight \in Nat
  BY ClockType, PolicyNumbers DEF SessionsInv
<1>2. /\ Cardinality(active) >= MaximumActive /\ Set(r, new)
      /\ UNCHANGED <<now, disabled, session, ended, reaper>>
  BY DEF ListSessions
<1>3. /\ active \in SUBSET SessionIDs
      /\ \A s \in active : Known(s) /\ session[s].user = u
  BY DEF ActiveSessions, Known, Present
<1> HIDE DEF active
<1>4. /\ selected \subseteq active
      /\ Cardinality(active \ selected) = MaximumActive - 1
      /\ \A s \in selected, t \in active \ selected :
           session[s].created <= session[t].created
  BY <1>1, <1>2, <1>3, SelectionExact
<1> HIDE DEF selected
<1>5. new \in InFlight /\ new.step = "revoke" /\ new.began = now /\ new.user = u
        /\ new.listed = active /\ new.selected = selected
  BY <1>1, <1>3, <1>4 DEF InFlight
<1> HIDE DEF new
<1>6. Recent(new) /\ TokenInv(new)
  BY <1>1, <1>5 DEF Recent, TokenInv
<1>7. LimitInv(new)
  BY <1>3, <1>4, <1>5 DEF LimitInv
<1> QED
  BY <1>2, <1>5, <1>6, <1>7, ReaderKeeps

\* A request ends.
LEMMA EndStep ==
  ASSUME SessionsInv, NEW r \in Requests, Serve(r) \/ EndLimit(r) \/ Cancel(r)
  PROVE  SessionsInv'
BY ReaderKeeps DEF Serve, EndLimit, Cancel

\* The session is inserted, under an id that was never used.
LEMMA InsertStep ==
  ASSUME SessionsInv, NEW r \in Requests, NEW s \in SessionIDs, InsertSession(r, s)
  PROVE  SessionsInv' /\ \A t \in SessionIDs : RowStep(t)
<1> DEFINE new == NewSession(request[r].user, request[r].began)
<1>1. /\ request[r].step = "insert" /\ session[s].status = "absent"
      /\ session' = [session EXCEPT ![s] = new]
      /\ request' = [request EXCEPT ![r] = Ready]
      /\ UNCHANGED <<now, disabled, ended, reaper>>
  BY DEF InsertSession, Set
<1>2. TypeOK /\ request[r] # Ready
  BY <1>1 DEF SessionsInv, Ready
<1>3. request[r].user \in Users /\ request[r].began \in Times
        /\ request[r].began + TTL \in Nat
  BY <1>1, <1>2, RequestFields, PolicyNumbers DEF Times
<1>4. new \in Rows /\ new.status = "present" /\ new.revoked = Null
  BY <1>3 DEF NewSession, Rows
<1> HIDE DEF new
<1>5. session'[s] = new /\ \A t \in SessionIDs \ {s} : session'[t] = session[t]
  BY <1>1, <1>2 DEF TypeOK
<1>6. TypeOK'
  BY <1>1, <1>2, <1>4 DEF TypeOK
<1>7. RowStep(s)
  <2>1. session[s].revoked = Null
    BY <1>1 DEF SessionsInv, AbsentUnrevoked, Known
  <2> QED
    BY <1>1, <1>4, <1>5, <2>1 DEF RowStep, Known, Present
<1>8. \A t \in SessionIDs : RowStep(t)
  BY <1>5, <1>7, RowSame
<1>9. \A x \in Requests : request'[x] = request[x] \/ request'[x] = Ready
  BY <1>1, <1>2 DEF TypeOK
<1> QED
  BY <1>1, <1>6, <1>8, <1>9, StepKeeps

\* A revocation, with a clock reading that is not older than a request may be.
LEMMA RevokeRow ==
  ASSUME SessionsInv, NEW s \in SessionIDs, Present(s), NEW at \in Times,
         at >= now - MaxInFlight, session'[s] = Revoke(session[s], at)
  PROVE  RowStep(s) /\ session'[s] \in Rows /\ session'[s].revoked # Null
<1> DEFINE revoked == IF session[s].revoked = Null THEN at ELSE session[s].revoked
<1>1. session[s] \in Rows /\ session[s].revoked \in Times \cup {Null}
  BY DEF SessionsInv, TypeOK, Rows
<1>2. at # Null
  BY PolicyNumbers DEF Times, Null
<1>3. revoked \in Times \cup {Null} /\ revoked # Null
        /\ (session[s].revoked # Null => revoked = session[s].revoked)
        /\ (session[s].revoked = Null => revoked = at)
  BY <1>1, <1>2
<1>4. session'[s] = [session[s] EXCEPT !.revoked = revoked]
  BY <1>1 DEF Revoke
<1> HIDE DEF revoked
<1>5. /\ session'[s] \in Rows /\ session'[s].revoked = revoked
      /\ session'[s].status = session[s].status
      /\ session'[s].user = session[s].user
      /\ session'[s].created = session[s].created
      /\ session'[s].expires = session[s].expires
  BY <1>1, <1>3, <1>4 DEF Rows
<1>6. RowStep(s)
  BY <1>3, <1>5 DEF RowStep, Known, Present
<1> QED
  BY <1>3, <1>5, <1>6

\* Logout: the session of an admitted request is there to be revoked.
LEMMA LogoutStep ==
  ASSUME SessionsInv, NEW r \in Requests, NEW at \in 0 .. now, Logout(r, at)
  PROVE  SessionsInv' /\ \A t \in SessionIDs : RowStep(t)
<1> DEFINE q == request[r]
<1>1. /\ q.step = "admitted" /\ at >= q.began
      /\ request' = [request EXCEPT ![r] = Ready]
      /\ UNCHANGED <<now, disabled, reaper>>
  BY DEF Logout, Set
<1>2. TypeOK /\ q # Ready
  BY <1>1 DEF SessionsInv, Ready
<1>3. PICK s \in SessionIDs : s = q.session
  BY <1>1, <1>2, RequestFields
<1>4. Recent(q) /\ Present(s)
  BY <1>1, <1>2, <1>3 DEF SessionsInv, RequestInv, TokenInv
<1>5. session' = [session EXCEPT ![s] = Revoke(@, at)] /\ ended' = ended \cup {s}
  BY <1>3, <1>4 DEF Logout
<1>6. at \in Times /\ at >= now - MaxInFlight
  BY <1>1, <1>2, <1>4, ClockType, RequestFields, PolicyNumbers DEF Recent, Times
<1>7. session'[s] = Revoke(session[s], at)
        /\ \A t \in SessionIDs \ {s} : session'[t] = session[t]
  BY <1>2, <1>5 DEF TypeOK
<1>8. RowStep(s) /\ session'[s] \in Rows /\ session'[s].revoked # Null
  BY <1>4, <1>6, <1>7, RevokeRow
<1>9. TypeOK'
  <2>1. session' \in [SessionIDs -> Rows]
    BY <1>2, <1>5, <1>7, <1>8 DEF TypeOK
  <2> QED
    BY <1>1, <1>2, <1>5, <2>1 DEF TypeOK
<1>10. \A t \in SessionIDs : RowStep(t)
  BY <1>7, <1>8, RowSame
<1>11. \A x \in Requests : request'[x] = request[x] \/ request'[x] = Ready
  BY <1>1, <1>2 DEF TypeOK
<1> QED
  BY <1>1, <1>5, <1>8, <1>9, <1>10, <1>11, StepKeeps

\* RevokeSessions: whatever was selected is revoked or was gone already.
LEMMA RevokeSessionsStep ==
  ASSUME SessionsInv, NEW r \in Requests, RevokeSessions(r)
  PROVE  SessionsInv' /\ \A t \in SessionIDs : RowStep(t)
<1> DEFINE q == request[r]
           matched == {s \in q.selected : Present(s) /\ session[s].user = q.user}
<1>1. /\ q.step = "revoke"
      /\ session' = [s \in SessionIDs |->
                       IF s \in matched THEN Revoke(session[s], q.began)
                       ELSE session[s]]
      /\ ended' = ended \cup matched
      /\ request' = [request EXCEPT ![r] = [q EXCEPT !.step = "limited"]]
      /\ UNCHANGED <<now, disabled, reaper>>
  BY DEF RevokeSessions, Set
<1>2. TypeOK /\ q # Ready
  BY <1>1 DEF SessionsInv, Ready
<1>3. Recent(q) /\ LimitInv(q)
  BY <1>2 DEF SessionsInv, RequestInv
<1>4. /\ q \in InFlight /\ q.began \in Times /\ q.listed \subseteq SessionIDs
      /\ q.selected \subseteq q.listed
  BY <1>1, <1>2, <1>3, RequestFields DEF LimitInv
<1>5. q.began >= now - MaxInFlight
  BY <1>2, <1>3, <1>4, ClockType, PolicyNumbers DEF Recent, Times
<1>6. \A s \in matched : s \in SessionIDs /\ Present(s)
  BY <1>4
<1>7. \A s \in q.selected : s \in matched \/ ~Present(s)
  BY <1>1, <1>3, <1>4 DEF LimitInv
<1>8. PICK new \in InFlight :
        /\ request' = [request EXCEPT ![r] = new]
        /\ new.step = "limited" /\ new.began = q.began
        /\ new.user = q.user /\ new.listed = q.listed /\ new.selected = q.selected
  <2> DEFINE next == [q EXCEPT !.step = "limited"]
  <2>1. /\ next \in InFlight /\ next.step = "limited" /\ next.began = q.began
        /\ next.user = q.user /\ next.listed = q.listed
        /\ next.selected = q.selected
    BY <1>1, <1>4 DEF InFlight
  <2>2. request' = [request EXCEPT ![r] = next]
    BY <1>1
  <2> HIDE DEF next
  <2> QED
    BY <2>1, <2>2
<1> HIDE DEF matched
<1>9. /\ \A s \in matched : session'[s] = Revoke(session[s], q.began)
      /\ \A s \in SessionIDs \ matched : session'[s] = session[s]
  BY <1>1, <1>6
<1>10. \A s \in matched :
         RowStep(s) /\ session'[s] \in Rows /\ session'[s].revoked # Null
  BY <1>4, <1>5, <1>6, <1>9, RevokeRow
<1>11. \A s \in SessionIDs : RowStep(s)
  BY <1>9, <1>10, RowSame
<1>12. /\ request' \in [Requests -> InFlight \cup {Ready}] /\ request'[r] = new
       /\ \A x \in Requests \ {r} : request'[x] = request[x]
  BY <1>1, <1>2, <1>8 DEF TypeOK
<1>13. TypeOK'
  <2>1. session' \in [SessionIDs -> Rows]
    BY <1>1, <1>2, <1>9, <1>10 DEF TypeOK
  <2>2. ended' \subseteq SessionIDs
    BY <1>1, <1>2, <1>6 DEF TypeOK
  <2> QED
    BY <1>1, <1>2, <1>12, <2>1, <2>2 DEF TypeOK
<1>14. RequestInv(r)'
  <2>1. Recent(new)' /\ TokenInv(new)'
    BY <1>1, <1>3, <1>8 DEF Recent, TokenInv
  <2>2. \A s \in q.listed : /\ Known(s)' /\ session'[s].user = session[s].user
                            /\ session'[s].created = session[s].created
    BY <1>1, <1>3, <1>4, <1>11 DEF LimitInv, RowStep
  <2>3. \A s \in q.selected : session'[s].revoked # Null \/ ~Present(s)'
    <3> SUFFICES ASSUME NEW s \in q.selected
                 PROVE  session'[s].revoked # Null \/ ~Present(s)'
      OBVIOUS
    <3>1. CASE s \in matched
      BY <1>10, <3>1
    <3>2. CASE s \notin matched
      BY <1>4, <1>7, <1>9, <3>2 DEF Present
    <3> QED
      BY <3>1, <3>2
  <2>4. /\ \A s \in q.listed : session[s].user = q.user
        /\ Cardinality(q.listed \ q.selected) = MaximumActive - 1
        /\ \A s \in q.selected, t \in q.listed \ q.selected :
             session[s].created <= session[t].created
    BY <1>1, <1>3 DEF LimitInv
  <2>5. \A s \in q.selected, t \in q.listed \ q.selected :
          session'[s].created <= session'[t].created
    BY <1>4, <2>2, <2>4
  <2>6. LimitInv(new)'
    BY <1>4, <1>8, <2>2, <2>3, <2>4, <2>5 DEF LimitInv, Known, Present
  <2> QED
    BY <1>12, <2>1, <2>6 DEF RequestInv, Recent, TokenInv, LimitInv, Known, Present
<1> QED
  BY <1>1, <1>10, <1>11, <1>12, <1>13, <1>14, StepKeeps

\* The reaper deletes rows that ended before its cutoff.
LEMMA ReaperStep ==
  ASSUME SessionsInv, NEW at \in 0 .. now, RunOnce(at)
  PROVE  SessionsInv' /\ \A t \in SessionIDs : RowStep(t)
<1> DEFINE all == Reapable(Cutoff(at))
           first == {s \in all : Cardinality({t \in all : ExpiresBefore(t, s)}) < Batch}
<1>1. /\ session' = [s \in SessionIDs |->
            IF s \in first THEN [session[s] EXCEPT !.status = "deleted"]
            ELSE session[s]]
      /\ UNCHANGED <<now, disabled, request, ended, reaper>>
  BY DEF RunOnce, DeleteExpiredSessions
<1>2. TypeOK /\ at \in Int /\ now \in Int /\ at <= now /\ Retention \in Int
  BY ClockType, PolicyNumbers DEF SessionsInv
<1>3. \A s \in first :
        /\ s \in SessionIDs /\ Present(s)
        /\ \/ session[s].expires < at - Retention
           \/ session[s].revoked # Null /\ session[s].revoked < at - Retention
  BY DEF Reapable, Cutoff
<1> HIDE DEF first
<1>4. ASSUME NEW s \in first
      PROVE  RowStep(s) /\ session'[s] \in Rows
  <2>1. session[s] \in Rows /\ session'[s] = [session[s] EXCEPT !.status = "deleted"]
    BY <1>1, <1>2, <1>3 DEF TypeOK
  <2>2. /\ session'[s] \in Rows /\ session'[s].status = "deleted"
        /\ session'[s].user = session[s].user
        /\ session'[s].created = session[s].created
        /\ session'[s].expires = session[s].expires
        /\ session'[s].revoked = session[s].revoked
    BY <2>1 DEF Rows
  <2>3. session[s].expires \in Int /\ session[s].revoked \in Int
    BY <1>2, <1>3, RowFields
  <2>4. \/ session[s].expires < now - Retention
        \/ session[s].revoked # Null /\ session[s].revoked < now - Retention
    BY <1>2, <1>3, <2>3
  <2> QED
    BY <1>3, <2>2, <2>4 DEF RowStep, Known, Present
<1>5. \A s \in SessionIDs : RowStep(s)
  BY <1>1, <1>4, RowSame
<1>6. TypeOK'
  <2>1. session' \in [SessionIDs -> Rows]
    BY <1>1, <1>2, <1>4 DEF TypeOK
  <2> QED
    BY <1>1, <1>2, <2>1 DEF TypeOK
<1> QED
  BY <1>1, <1>5, <1>6, StepKeeps

\* Time passes, but no request takes longer than it may.
LEMMA TickStep ==
  ASSUME SessionsInv, Tick
  PROVE  SessionsInv'
<1>1. /\ now < MaxTime /\ now' = now + 1
      /\ \A r \in Requests : request[r] # Ready => now < request[r].began + MaxInFlight
      /\ UNCHANGED <<disabled, session, request, ended, reaper>>
  BY DEF Tick
<1>2. TypeOK /\ now \in Nat /\ MaxTime \in Nat /\ MaxInFlight \in Nat
  BY ClockType, PolicyNumbers DEF SessionsInv
<1>3. TypeOK'
  BY <1>1, <1>2 DEF TypeOK, Times
<1>4. AbsentUnrevoked' /\ EndedRevoked'
  BY <1>1 DEF SessionsInv, AbsentUnrevoked, EndedRevoked, Known
<1>5. ASSUME NEW r \in Requests, request[r] # Ready
      PROVE  RequestInv(r)'
  <2>1. Recent(request[r]) /\ TokenInv(request[r]) /\ LimitInv(request[r])
    BY <1>5 DEF SessionsInv, RequestInv
  <2>2. request[r].began \in Nat
    BY <1>2, <1>5, RequestFields DEF Times
  <2>3. Recent(request[r])'
    BY <1>1, <1>2, <1>5, <2>1, <2>2 DEF Recent
  <2>4. TokenInv(request[r])' /\ LimitInv(request[r])'
    BY <1>1, <2>1 DEF TokenInv, LimitInv, Known, Present
  <2> QED
    BY <2>3, <2>4 DEF RequestInv
<1>6. \A r \in Requests : RequestInv(r)'
  BY <1>1, <1>5 DEF RequestInv
<1> QED
  BY <1>3, <1>4, <1>6 DEF SessionsInv

\* The invariant holds at the start.
LEMMA SessionsInvInit == Init => SessionsInv
<1> SUFFICES ASSUME Init
             PROVE  SessionsInv
  OBVIOUS
<1> DEFINE row == [status |-> "absent", user |-> CHOOSE u \in Users : TRUE,
                   created |-> 0, expires |-> 0, revoked |-> Null]
<1>1. (CHOOSE u \in Users : TRUE) \in Users /\ 0 \in Times
  BY SessionPolicyAssumption, PolicyNumbers DEF Times
<1>2. row \in Rows /\ row.status = "absent" /\ row.revoked = Null
  BY <1>1 DEF Rows
<1>3. session = [s \in SessionIDs |-> row]
  BY DEF Init
<1> HIDE DEF row
<1>4. TypeOK
  BY <1>1, <1>2, <1>3 DEF Init, TypeOK
<1>5. AbsentUnrevoked /\ EndedRevoked
  BY <1>2, <1>3 DEF Init, AbsentUnrevoked, EndedRevoked
<1>6. \A r \in Requests : RequestInv(r)
  BY DEF Init, RequestInv
<1> QED
  BY <1>4, <1>5, <1>6 DEF SessionsInv

\* Every step keeps the invariant and moves rows in one direction only.
LEMMA SessionsStep ==
  ASSUME SessionsInv, [Next]_vars
  PROVE  SessionsInv' /\ \A s \in SessionIDs : RowStep(s)
<1>1. ASSUME UNCHANGED session
      PROVE  \A s \in SessionIDs : RowStep(s)
  BY <1>1, RowSame
<1>2. ASSUME NEW r \in Requests, Begin(r)
      PROVE  SessionsInv' /\ UNCHANGED session
  BY <1>2, LoginStep, ListStep, BeginRequestStep
  DEF Begin, Login, ListSessions, BeginRequest
<1>3. ASSUME NEW r \in Requests, Continue(r)
      PROVE  SessionsInv' /\ \A s \in SessionIDs : RowStep(s)
  <2>1. CASE \E s \in SessionIDs : InsertSession(r, s)
    BY <2>1, InsertStep
  <2>2. CASE AuthenticateRequest(r)
    <3>1. UNCHANGED session
      BY <2>2 DEF AuthenticateRequest
    <3> QED
      BY <1>1, <2>2, <3>1, AuthenticateStep
  <2>3. CASE Serve(r) \/ EndLimit(r) \/ Cancel(r)
    <3>1. UNCHANGED session
      BY <2>3 DEF Serve, EndLimit, Cancel
    <3> QED
      BY <1>1, <2>3, <3>1, EndStep
  <2>4. CASE \E at \in 0 .. now : Logout(r, at)
    BY <2>4, LogoutStep
  <2>5. CASE RevokeSessions(r)
    BY <2>5, RevokeSessionsStep
  <2> QED
    BY <1>3, <2>1, <2>2, <2>3, <2>4, <2>5 DEF Continue
<1>4. CASE \E at \in 0 .. now : RunOnce(at)
  BY <1>4, ReaperStep
<1>5. CASE StopReaper \/ (\E u \in Users : DisableUser(u)) \/ UNCHANGED vars
  <2>1. /\ UNCHANGED <<now, session, request, ended>> /\ disabled \subseteq disabled'
        /\ disabled' \subseteq Users /\ reaper' \in {"running", "stopped"}
    BY <1>5 DEF StopReaper, DisableUser, vars, SessionsInv, TypeOK
  <2>2. TypeOK'
    BY <2>1 DEF SessionsInv, TypeOK
  <2> QED
    BY <1>1, <2>1, <2>2, StepKeeps
<1>6. CASE Tick
  <2>1. UNCHANGED session
    BY <1>6 DEF Tick
  <2> QED
    BY <1>1, <1>6, <2>1, TickStep
<1> QED
  BY <1>1, <1>2, <1>3, <1>4, <1>5, <1>6 DEF Next

\* It always holds.
LEMMA SessionsInvAlways == Spec => []SessionsInv
<1>1. SessionsInv /\ [Next]_vars => SessionsInv'
  BY SessionsStep
<1> QED
  BY <1>1, SessionsInvInit, PTL DEF Spec

-----------------------------------------------------------------------------
\* The tables and what the handlers know stay well formed.
THEOREM SessionsTypeCorrect == Spec => []TypeOK
<1>1. SessionsInv => TypeOK
  BY DEF SessionsInv
<1> QED
  BY <1>1, SessionsInvAlways, PTL

\* No request is admitted whose session was ended or whose user was disabled
\* before it came in, for any number of requests between the statements of which
\* logouts, limits, logins and the reaper come.
THEOREM BarredNeverAdmitted == Spec => []BarredStaysOut
<1>1. SessionsInv => BarredStaysOut
  <2> SUFFICES ASSUME SessionsInv, NEW r \in Requests, request[r].step = "admitted"
               PROVE  ~request[r].barred
    BY DEF BarredStaysOut
  <2>1. request[r] # Ready
    BY DEF Ready
  <2> QED
    BY <2>1 DEF SessionsInv, RequestInv, TokenInv
<1> QED
  BY <1>1, SessionsInvAlways, PTL

\* The row of an admitted request's session is not reaped, as long as the
\* retention is twice the time a request may take: a revocation is dated back by
\* at most one request, and a request outlasts it by at most one.
THEOREM AdmittedKeepsSession == Spec => []SessionOutlivesRequest
<1>1. SessionsInv => SessionOutlivesRequest
  <2> SUFFICES ASSUME SessionsInv, NEW r \in Requests, request[r].step = "admitted"
               PROVE  Present(request[r].session)
    BY DEF SessionOutlivesRequest
  <2>1. request[r] # Ready
    BY DEF Ready
  <2> QED
    BY <2>1 DEF SessionsInv, RequestInv, TokenInv
<1> QED
  BY <1>1, SessionsInvAlways, PTL

\* After RevokeSessions there is room for one more login, whatever the limit is
\* and whatever other requests did between the listing and the UPDATE; exactly as
\* many as needed were selected, and none younger than one that was spared.
THEOREM LimitMakesRoom == Spec => []LimitLeavesRoom
<1>1. SessionsInv => LimitLeavesRoom
  <2> SUFFICES ASSUME SessionsInv, NEW r \in Requests, request[r].step = "limited"
               PROVE  LET q == request[r]
                          spared == q.listed \ q.selected
                      IN /\ Cardinality(q.listed \cap ActiveSessions(q.user, now))
                              < MaximumActive
                         /\ q.selected # {} => Cardinality(spared) = MaximumActive - 1
                         /\ \A s \in q.selected, t \in spared :
                              session[s].created <= session[t].created
    BY DEF LimitLeavesRoom
  <2> DEFINE q == request[r]
             spared == q.listed \ q.selected
  <2>1. q # Ready
    BY DEF Ready
  <2>2. /\ \A s \in q.selected : session[s].revoked # Null \/ ~Present(s)
        /\ Cardinality(spared) = MaximumActive - 1
        /\ \A s \in q.selected, t \in spared :
             session[s].created <= session[t].created
    BY <2>1 DEF SessionsInv, RequestInv, LimitInv
  <2>3. q.listed \cap ActiveSessions(q.user, now) \subseteq spared
    BY <2>2 DEF ActiveSessions
  <2>4. IsFiniteSet(spared)
    <3>1. spared \subseteq SessionIDs
      BY <2>1, RequestFields DEF SessionsInv
    <3> QED
      BY <3>1, PolicyNumbers, FS_Subset
  <2>5. /\ Cardinality(q.listed \cap ActiveSessions(q.user, now))
             <= Cardinality(spared)
        /\ Cardinality(q.listed \cap ActiveSessions(q.user, now)) \in Nat
    BY <2>3, <2>4, FS_Subset, FS_CardinalityType
  <2>6. Cardinality(q.listed \cap ActiveSessions(q.user, now)) < MaximumActive
    BY <2>2, <2>5, PolicyNumbers
  <2> QED
    BY <2>2, <2>6
<1> QED
  BY <1>1, SessionsInvAlways, PTL

\* Refreshing as the policy allows prolongs a session, beyond the present and
\* never beyond its absolute lifetime, for every valid policy.
THEOREM RefreshStaysBounded == Spec => []RefreshBounded
<1>1. SessionsInv => RefreshBounded
  <2> SUFFICES ASSUME SessionsInv,
                      NEW s \in {t \in SessionIDs : Present(t)},
                      NEW at \in session[s].created .. session[s].created + AbsoluteLifetime,
                      NEW expires \in session[s].expires .. session[s].created + AbsoluteLifetime,
                      ShouldRefresh([session[s] EXCEPT !.expires = expires], at)
               PROVE  LET row == [session[s] EXCEPT !.expires = expires]
                          expiry == RefreshedExpiry(row, at)
                      IN /\ expiry > at /\ expiry >= expires
                         /\ expiry <= session[s].created + AbsoluteLifetime
    BY DEF RefreshBounded
  <2> DEFINE row == [session[s] EXCEPT !.expires = expires]
  <2>1. session[s] \in Rows /\ session[s].created \in Nat /\ session[s].expires \in Nat
    BY RowFields DEF SessionsInv
  <2>2. row.created = session[s].created /\ row.expires = expires
    BY <2>1 DEF Rows
  <2>3. ShouldRefresh(row, at)
    OBVIOUS
  <2> HIDE DEF row
  <2>4. at - session[s].created < AbsoluteLifetime /\ expires - at <= RefreshBeforeExpiry
    BY <2>2, <2>3 DEF ShouldRefresh
  <2>5. at \in Int /\ expires \in Int
    BY <2>1, PolicyNumbers
  <2>6. /\ RefreshedExpiry(row, at) > at /\ RefreshedExpiry(row, at) >= expires
        /\ RefreshedExpiry(row, at) <= session[s].created + AbsoluteLifetime
    BY <2>1, <2>2, <2>4, <2>5, PolicyNumbers DEF RefreshedExpiry
  <2> QED
    BY <2>6 DEF row
<1> QED
  BY <1>1, SessionsInvAlways, PTL
=============================================================================
