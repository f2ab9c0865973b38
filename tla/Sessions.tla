------------------------------ MODULE Sessions ------------------------------
(***************************************************************************)
(* Sessions: store/auth.go, store/session_lifecycle.go, auth/model.go,     *)
(* auth/session_policy.go, the HTTP middleware that authenticates, and the *)
(* reaper of worker/session_reaper.go.                                     *)
(*                                                                         *)
(* Requests run side by side.  Each reads the clock and then sends its     *)
(* statements one at a time, so the time it works with may be stale, and   *)
(* logouts, other logins and the reaper come between its steps.  A request *)
(* that is refused ends; why it is refused is not told apart.  Tokens are  *)
(* drawn at random and stand for their session, and a user keeps its       *)
(* tenant and role, so that only `disabled' is left of a user.             *)
(***************************************************************************)
EXTENDS Integers, FiniteSets

CONSTANTS
  Users, Requests,
  SessionIDs,           \* the ids NewSession may draw; they are compared
  TTL, AbsoluteLifetime, MaximumActive, RefreshBeforeExpiry,
  Retention, Batch,     \* of the reaper
  MaxInFlight,          \* how long a request may take (an assumption)
  MaxTime               \* how far the clock runs (a bound)

\* SessionPolicy.Validate, with the TTL the server is configured with.
ValidPolicy ==
  /\ TTL \in Nat /\ AbsoluteLifetime \in Nat /\ AbsoluteLifetime >= TTL
  /\ MaximumActive \in 1 .. 20
  /\ RefreshBeforeExpiry \in 1 .. TTL - 1

ASSUME SessionPolicyAssumption ==
  /\ ValidPolicy
  /\ SessionIDs \subseteq Nat /\ IsFiniteSet(SessionIDs)
  /\ Users # {}                 \* Bootstrap inserts some
  /\ Retention \in Nat \ {0} /\ Batch \in Nat \ {0}
  /\ MaxInFlight \in Nat \ {0} /\ MaxTime \in Nat

\* The server keeps sessions for 30 days; no request takes half of that.
ASSUME RetentionAssumption == Retention >= 2 * MaxInFlight

VARIABLES
  now,          \* the clock
  disabled,     \* the users whose row says disabled
  session,      \* table sessions: id -> row
  request,      \* request -> what its handler knows
  ended,        \* sessions whose Logout or RevokeSessions has returned
  reaper        \* the reaper's goroutine

vars == <<now, disabled, session, request, ended, reaper>>

-----------------------------------------------------------------------------
Null == -1
Times == 0 .. MaxTime

\* A row, before it is inserted and after it is deleted too.
Rows ==
  [status : {"absent", "present", "deleted"}, user : Users,
   created : Times, expires : Nat, revoked : Times \cup {Null}]

Ready == [step |-> "idle"]
InFlight ==
  [step : {"insert"}, began : Times, user : Users]
    \cup [step : {"authenticate", "admitted"}, began : Times,
          session : SessionIDs, barred : BOOLEAN]
    \cup [step : {"revoke", "limited"}, began : Times, user : Users,
          listed : SUBSET SessionIDs, selected : SUBSET SessionIDs]

TypeOK ==
  /\ now \in Times
  /\ disabled \subseteq Users
  /\ session \in [SessionIDs -> Rows]
  /\ request \in [Requests -> InFlight \cup {Ready}]
  /\ ended \subseteq SessionIDs
  /\ reaper \in {"running", "stopped"}

Present(s) == session[s].status = "present"
Set(r, state) == request' = [request EXCEPT ![r] = state]

-----------------------------------------------------------------------------
(***************************************************************************)
(* auth/model.go and auth/session_policy.go.                               *)
(***************************************************************************)
NewSession(user, at) ==
  [status |-> "present", user |-> user, created |-> at, expires |-> at + TTL,
   revoked |-> Null]

\* Fault: the session's own columns decide alone.
AuthenticateSessionOnly(row, at) == row.revoked = Null /\ row.expires > at
Authenticate(row, at) ==
  row.user \notin disabled /\ row.revoked = Null /\ row.expires > at

Revoke(row, at) == [row EXCEPT !.revoked = IF @ = Null THEN at ELSE @]

\* The order of sort.Slice.
OlderThan(s, t) ==
  \/ session[s].created < session[t].created
  \/ session[s].created = session[t].created /\ s < t

\* Fault: no room is made for the session that is to come.
SessionsToRevokeNoRoom(active) ==
  LET count == Cardinality(active) - MaximumActive
  IN {s \in active : Cardinality({t \in active : OlderThan(t, s)}) < count}
\* The sessions are ones that ActiveSessions returned for the same time.
SessionsToRevoke(active) ==
  LET count == Cardinality(active) - MaximumActive + 1
  IN {s \in active : Cardinality({t \in active : OlderThan(t, s)}) < count}

ShouldRefresh(row, at) ==
  /\ row.revoked = Null
  /\ row.expires > at
  /\ at - row.created < AbsoluteLifetime
  /\ row.expires - at <= RefreshBeforeExpiry

\* Fault: a session lives for ever if it is refreshed in time.
RefreshedExpiryUncapped(row, at) == at + TTL
RefreshedExpiry(row, at) ==
  LET candidate == at + TTL
      absolute == row.created + AbsoluteLifetime
  IN IF candidate > absolute THEN absolute ELSE candidate

-----------------------------------------------------------------------------
(***************************************************************************)
(* POST /v1/auth/login.  The password is right, and the user is looked up  *)
(* in one statement and the session inserted in another.                   *)
(***************************************************************************)
Login(r, u) ==
  /\ request[r] = Ready
  /\ u \notin disabled
  /\ Set(r, [step |-> "insert", began |-> now, user |-> u])
  /\ UNCHANGED <<now, disabled, session, ended, reaper>>

InsertSession(r, s) ==
  /\ request[r].step = "insert"
  /\ session[s].status = "absent"
  /\ session' = [session EXCEPT ![s] = NewSession(request[r].user, request[r].began)]
  /\ Set(r, Ready)
  /\ UNCHANGED <<now, disabled, ended, reaper>>

(***************************************************************************)
(* The middleware.  `barred' records whether, when the request came in,    *)
(* the session had been ended or its user disabled.                        *)
(***************************************************************************)
BeginRequest(r, s) ==
  /\ request[r] = Ready
  /\ session[s].status # "absent"
  /\ Set(r, [step |-> "authenticate", began |-> now, session |-> s,
             barred |-> s \in ended \/ session[s].user \in disabled])
  /\ UNCHANGED <<now, disabled, session, ended, reaper>>

AuthenticateRequest(r) ==
  LET q == request[r] IN
  /\ q.step = "authenticate"
  /\ Set(r, IF Present(q.session) /\ Authenticate(session[q.session], q.began)
              THEN [q EXCEPT !.step = "admitted"] ELSE Ready)
  /\ UNCHANGED <<now, disabled, session, ended, reaper>>

\* Any handler but logout.
Serve(r) ==
  /\ request[r].step = "admitted"
  /\ Set(r, Ready)
  /\ UNCHANGED <<now, disabled, session, ended, reaper>>

\* POST /v1/auth/logout reads the clock again, `at', before its UPDATE.
Logout(r, at) ==
  LET s == request[r].session IN
  /\ request[r].step = "admitted"
  /\ at >= request[r].began
  /\ IF Present(s)
       THEN /\ session' = [session EXCEPT ![s] = Revoke(@, at)]
            /\ ended' = ended \cup {s}
       ELSE UNCHANGED <<session, ended>>
  /\ Set(r, Ready)
  /\ UNCHANGED <<now, disabled, reaper>>

(***************************************************************************)
(* Limiting the sessions of a user: list the active ones, choose, revoke.  *)
(***************************************************************************)
ActiveSessions(u, at) ==
  {s \in SessionIDs : /\ Present(s) /\ session[s].user = u
                      /\ session[s].revoked = Null /\ session[s].expires > at}

\* Below the limit nothing is selected and the request is over.
ListSessions(r, u) ==
  LET active == ActiveSessions(u, now) IN
  /\ request[r] = Ready
  /\ Cardinality(active) >= MaximumActive
  /\ Set(r, [step |-> "revoke", began |-> now, user |-> u, listed |-> active,
             selected |-> SessionsToRevoke(active)])
  /\ UNCHANGED <<now, disabled, session, ended, reaper>>

RevokeSessions(r) ==
  LET q == request[r]
      matched == {s \in q.selected : Present(s) /\ session[s].user = q.user}
  IN /\ q.step = "revoke"
     /\ session' = [s \in SessionIDs |->
                      IF s \in matched THEN Revoke(session[s], q.began)
                      ELSE session[s]]
     /\ ended' = ended \cup matched
     /\ Set(r, [q EXCEPT !.step = "limited"])
     /\ UNCHANGED <<now, disabled, reaper>>

EndLimit(r) ==
  /\ request[r].step = "limited"
  /\ Set(r, Ready)
  /\ UNCHANGED <<now, disabled, session, ended, reaper>>

\* The client hangs up or a statement fails.
Cancel(r) ==
  /\ request[r] # Ready
  /\ Set(r, Ready)
  /\ UNCHANGED <<now, disabled, session, ended, reaper>>

-----------------------------------------------------------------------------
(***************************************************************************)
(* The reaper: at each tick it reads the clock, `at', and deletes a batch. *)
(* By the time of the DELETE the reading may be old.  It ends for good     *)
(* with the context or with the first error.                               *)
(***************************************************************************)
\* Fault: the retention is forgotten.
CutoffNow(at) == at
Cutoff(at) == at - Retention

\* Fault: sessions that were never revoked are left out.
ReapableRevoked(before) ==
  {s \in SessionIDs : /\ Present(s)
                      /\ session[s].revoked # Null /\ session[s].revoked < before}
Reapable(before) ==
  {s \in SessionIDs : /\ Present(s)
                      /\ \/ session[s].expires < before
                         \/ session[s].revoked # Null /\ session[s].revoked < before}

ExpiresBefore(s, t) ==
  \/ session[s].expires < session[t].expires
  \/ session[s].expires = session[t].expires /\ s < t

\* The table after the DELETE.
DeleteExpiredSessions(before) ==
  LET all == Reapable(before)
      first == {s \in all : Cardinality({t \in all : ExpiresBefore(t, s)}) < Batch}
  IN [s \in SessionIDs |->
        IF s \in first THEN [session[s] EXCEPT !.status = "deleted"] ELSE session[s]]

RunOnce(at) ==
  /\ reaper = "running"
  /\ session' = DeleteExpiredSessions(Cutoff(at))
  /\ UNCHANGED <<now, disabled, request, ended, reaper>>

StopReaper ==
  /\ reaper = "running"
  /\ reaper' = "stopped"
  /\ UNCHANGED <<now, disabled, session, request, ended>>

-----------------------------------------------------------------------------
\* An administrator disables a user, for good; no code here does.
DisableUser(u) ==
  /\ u \notin disabled
  /\ disabled' = disabled \cup {u}
  /\ UNCHANGED <<now, session, request, ended, reaper>>

Tick ==
  /\ now < MaxTime
  /\ \A r \in Requests :
       request[r] # Ready => now < request[r].began + MaxInFlight
  /\ now' = now + 1
  /\ UNCHANGED <<disabled, session, request, ended, reaper>>

Init ==
  /\ now = 0
  /\ disabled = {}
  /\ session = [s \in SessionIDs |->
                  [status |-> "absent", user |-> CHOOSE u \in Users : TRUE,
                   created |-> 0, expires |-> 0, revoked |-> Null]]
  /\ request = [r \in Requests |-> Ready]
  /\ ended = {}
  /\ reaper = "running"

Begin(r) ==
  \/ \E u \in Users : Login(r, u) \/ ListSessions(r, u)
  \/ \E s \in SessionIDs : BeginRequest(r, s)
Continue(r) ==
  \/ \E s \in SessionIDs : InsertSession(r, s)
  \/ AuthenticateRequest(r) \/ Serve(r) 
  \/ \E at \in 0 .. now : Logout(r, at)
  \/ RevokeSessions(r) \/ EndLimit(r) \/ Cancel(r)

Next ==
  \/ \E r \in Requests : Begin(r) \/ Continue(r)
  \/ \E at \in 0 .. now : RunOnce(at)
  \/ StopReaper
  \/ \E u \in Users : DisableUser(u)
  \/ Tick

\* Handlers do not hang, the reaper's ticker fires until it ends, time passes.
Fairness ==
  /\ \A r \in Requests : WF_vars(Continue(r))
  /\ WF_vars(RunOnce(now))
  /\ WF_vars(Tick)

Spec == Init /\ [][Next]_vars /\ Fairness

-----------------------------------------------------------------------------
\* Whoever is out stays out: a request is not admitted if its session had been
\* ended, or its user disabled, before the request came in.  The session may
\* have been inserted after its user was disabled, by a login that had already
\* passed its check, and may have been reaped since.
BarredStaysOut ==
  \A r \in Requests : request[r].step = "admitted" => ~request[r].barred

\* The reaper never takes a session away from a request that is being served,
\* so that its logout finds the row, although the time of a revocation and the
\* reaper's cutoff are both stale when they are written.
SessionOutlivesRequest ==
  \A r \in Requests :
    request[r].step = "admitted" => Present(request[r].session)

\* Once the sessions that were selected are revoked there is room for one more
\* login: of the sessions that were listed fewer than MaximumActive are still
\* active, no matter what happened since; no more were revoked than needed, and
\* those that were spared are no older than those that were not.
LimitLeavesRoom ==
  \A r \in Requests : request[r].step = "limited" =>
    LET q == request[r]
        spared == q.listed \ q.selected
    IN /\ Cardinality(q.listed \cap ActiveSessions(q.user, now)) < MaximumActive
       /\ q.selected # {} => Cardinality(spared) = MaximumActive - 1
       /\ \A s \in q.selected, t \in spared :
            session[s].created <= session[t].created

\* Refreshing a session whenever the policy allows it, however often it was
\* refreshed before, gives an expiry that is in the future, does not shorten
\* the session, and stays within the absolute lifetime.
RefreshBounded ==
  \A s \in {t \in SessionIDs : Present(t)} :
    LET last == session[s].created + AbsoluteLifetime IN
    \A at \in session[s].created .. last, expires \in session[s].expires .. last :
      LET row == [session[s] EXCEPT !.expires = expires]
          expiry == RefreshedExpiry(row, at)
      IN ShouldRefresh(row, at) => expiry > at /\ expiry >= expires /\ expiry <= last

\* A session that has been expired for the time of retention is deleted in the
\* end, whatever the batch, unless the reaper has stopped.
DeadSessionsReaped ==
  \A s \in SessionIDs :
    Present(s) /\ session[s].expires + Retention < MaxTime
      ~> ~Present(s) \/ reaper = "stopped"
=============================================================================
