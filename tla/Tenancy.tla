---------------------------- MODULE Tenancy ----------------------------
(* Tenants, their operators and their sessions (internal/tenants,          *)
(* internal/identity, internal/channels/onboardinghttp).                   *)
(*                                                                         *)
(* A request is one call of the onboarding API.  Provisioning and staff    *)
(* creation are transactions of several statements; their rows stay in the *)
(* request's tx until the commit.  Every other write is one statement.     *)
(* A protected request is validated once, by the middleware, and keeps the *)
(* principal it was given until it ends.                                   *)
EXTENDS Integers, FiniteSets

CONSTANTS
    Requests,       \* calls of the API, each made once
    Kinds,          \* the operations the calls of this instance may ask for
    Home,           \* the tenant that exists from the start
    Slugs,          \* tenant slugs a call may name
    HomeSlug,       \* the slug of Home
    ServiceSlugs, StaffSlugs, Emails,
    Boss, Clerk,    \* the owner and the staff operator of Home
    TTL,            \* session lifetime
    Skews,          \* application clock minus database clock
    MaxClock        \* bound on the database clock

ASSUME TenancyAssumption ==
    /\ Kinds \subseteq {"provision", "login", "logout", "createOperator",
                        "createService", "createStaff", "addAvailability"}
    /\ Home \notin Requests /\ HomeSlug \in Slugs
    /\ Boss \in Emails /\ Clerk \in Emails /\ Boss # Clerk
    /\ TTL \in Nat \ {0} /\ MaxClock \in Nat /\ Skews \subseteq Int

VARIABLES
    tenants,    \* the committed rows of each tenant
    inactive,   \* operators whose row says active = false
    sessions,   \* operator_sessions, by bearer token
    clock,      \* the database clock
    req,        \* the calls
    ended       \* tokens whose logout was answered, or whose operator was deactivated

vars == <<tenants, inactive, sessions, clock, req, ended>>

Ids == Requests \cup {Home}
Tokens == Requests \cup {Boss, Clerk}

NoStaff == [services |-> {}, rules |-> 0]
NoTenant == [slug |-> "", channels |-> FALSE, ops |-> [e \in Emails |-> "none"],
             services |-> {}, staff |-> [m \in StaffSlugs |-> NoStaff]]
NoSession == [tenant |-> Home, email |-> Boss, created |-> 0, expires |-> 0, revoked |-> FALSE]
NoInput == [slug |-> HomeSlug, email |-> Boss, role |-> "owner", services |-> {},
            member |-> CHOOSE m \in StaffSlugs : TRUE, assigned |-> {}, of |-> Home]
Fresh == [pc |-> "free", kind |-> "none", token |-> Boss, in |-> NoInput,
          tenant |-> Home, role |-> "none", tx |-> NoTenant, late |-> FALSE,
          age |-> 0, answer |-> "none"]

SessionOf(t, e, now, until) ==
    [tenant |-> t, email |-> e, created |-> now, expires |-> until, revoked |-> FALSE]

\* Home runs with an owner, a staff operator and a session of each.
Init ==
    /\ tenants = [t \in Ids |-> IF t # Home THEN NoTenant
                  ELSE [slug |-> HomeSlug, channels |-> TRUE,
                        ops |-> [e \in Emails |-> CASE e = Boss -> "owner"
                                                    [] e = Clerk -> "staff"
                                                    [] OTHER -> "none"],
                        services |-> {CHOOSE s \in ServiceSlugs : TRUE},
                        staff |-> [m \in StaffSlugs |-> NoStaff]]]
    /\ inactive = {}
    /\ sessions = [k \in Tokens |-> IF k \in {Boss, Clerk} THEN SessionOf(Home, k, 0, TTL)
                                    ELSE NoSession]
    /\ clock = 0
    /\ req = [r \in Requests |-> Fresh]
    /\ ended = {}

Visible(t) == tenants[t] # NoTenant
Goto(r, pc) == req' = [req EXCEPT ![r].pc = pc]
\* The call returns; a transaction it had open is rolled back or already committed.
Answer(r, a) == req' = [req EXCEPT ![r].pc = "done", ![r].answer = a, ![r].tx = NoTenant,
                                   ![r].in = NoInput]

-----------------------------------------------------------------------------
(* The inputs a call may carry.  A staffID of the availability route names  *)
(* one staff row of one tenant.                                             *)
Inputs(k) ==
    CASE k = "provision" ->
            {[NoInput EXCEPT !.slug = s, !.email = Boss, !.services = v, !.assigned = a] :
                s \in Slugs, v \in SUBSET ServiceSlugs, a \in SUBSET ServiceSlugs}
      [] k = "login" -> {[NoInput EXCEPT !.slug = s, !.email = e] : s \in Slugs, e \in Emails}
      [] k = "logout" -> {NoInput}
      [] k = "createOperator" ->
            {[NoInput EXCEPT !.email = e, !.role = o] : e \in Emails, o \in {"owner", "staff"}}
      [] k = "createService" -> {[NoInput EXCEPT !.services = {s}] : s \in ServiceSlugs}
      [] k = "createStaff" ->
            {[NoInput EXCEPT !.member = m, !.assigned = a] :
                m \in StaffSlugs, a \in SUBSET ServiceSlugs}
      [] k = "addAvailability" ->
            {[NoInput EXCEPT !.of = t, !.member = m] : t \in Ids, m \in StaffSlugs}

\* The catalogue names at least one service and gives its member some of them.
validateProvision(in) == in.services # {} /\ in.assigned # {} /\ in.assigned \subseteq in.services
validStaffInput(in) == in.assigned # {}

\* A request arrives with its token; a malformed body or header never gets this far.
Receive(r) ==
    /\ req[r].pc = "free"
    /\ \E k \in Kinds : \E in \in Inputs(k), token \in Tokens :
        /\ k \in {"provision", "login"} => token = Boss
        /\ sessions[token] # NoSession
        /\ k = "provision" => validateProvision(in)
        /\ k = "createStaff" => validStaffInput(in)
        /\ req' = [req EXCEPT ![r] = [Fresh EXCEPT !.kind = k, !.in = in, !.token = token,
                     !.late = k \notin {"provision", "login"} /\ token \in ended,
                     !.pc = CASE k = "provision" -> "insertTenant"
                              [] k = "login" -> "lookup"
                              [] OTHER -> "received"]]
    /\ UNCHANGED <<tenants, inactive, sessions, clock, ended>>

-----------------------------------------------------------------------------
(* Sessions *)

\* The account of a tenant, by slug and email, when its row is active.
Account(slug, e) == {t \in Ids : /\ tenants[t].slug = slug
                                 /\ tenants[t].ops[e] # "none"
                                 /\ <<t, e>> \notin inactive}

\* The password decides between the two outcomes of a lookup that found a row.
Authenticate(r) ==
    /\ req[r].pc = "lookup"
    /\ \/ \E t \in Account(req[r].in.slug, req[r].in.email) :
            req' = [req EXCEPT ![r].pc = "createSession", ![r].tenant = t]
       \/ Answer(r, "unauthorized")
    /\ UNCHANGED <<tenants, inactive, sessions, clock, ended>>

\* expires_at is the application's clock plus the lifetime; created_at is the database's.
createSession(r) ==
    /\ req[r].pc = "createSession"
    /\ \E skew \in Skews :
         LET until == clock + skew + TTL
         IN  IF until > clock
             THEN /\ sessions' = [sessions EXCEPT ![r] =
                                    SessionOf(req[r].tenant, req[r].in.email, clock, until)]
                  /\ Answer(r, "ok")
             ELSE UNCHANGED sessions /\ Answer(r, "error")
    /\ UNCHANGED <<tenants, inactive, clock, ended>>

Live_Unrevoked(k) ==
    /\ sessions[k].expires > clock
    /\ <<sessions[k].tenant, sessions[k].email>> \notin inactive

Live_AtExpiry(k) ==
    /\ ~sessions[k].revoked
    /\ sessions[k].expires >= clock
    /\ <<sessions[k].tenant, sessions[k].email>> \notin inactive

Live(k) ==
    /\ ~sessions[k].revoked
    /\ sessions[k].expires > clock
    /\ <<sessions[k].tenant, sessions[k].email>> \notin inactive

\* Logout is open to every operator, the rest of the routes to owners.
RequireRole(kind, role) == kind = "logout" \/ role = "owner"

First(kind) == CASE kind = "logout" -> "revoke"
                 [] kind = "createOperator" -> "createOperator"
                 [] kind = "createService" -> "createService"
                 [] kind = "createStaff" -> "insertStaff"
                 [] kind = "addAvailability" -> "addAvailability"

\* The middleware: the principal is read once and kept for the rest of the request.
ValidateSession(r) ==
    /\ req[r].pc = "received"
    /\ LET s == sessions[req[r].token]
           role == tenants[s.tenant].ops[s.email]
       IN  CASE ~Live(req[r].token) -> Answer(r, "unauthorized")
             [] Live(req[r].token) /\ ~RequireRole(req[r].kind, role) -> Answer(r, "forbidden")
             [] OTHER -> req' = [req EXCEPT ![r].pc = First(req[r].kind), ![r].tenant = s.tenant,
                                            ![r].role = role, ![r].age = clock - s.created]
    /\ UNCHANGED <<tenants, inactive, sessions, clock, ended>>

\* Both outcomes of the update are answered 204.
RevokeSession(r) ==
    /\ req[r].pc = "revoke"
    /\ sessions' = IF sessions[req[r].token].expires > clock
                   THEN [sessions EXCEPT ![req[r].token].revoked = TRUE] ELSE sessions
    /\ ended' = ended \cup {req[r].token}
    /\ Answer(r, "ok")
    /\ UNCHANGED <<tenants, inactive, clock>>

\* active = false, set in the database.
Deactivated ==
    /\ \E e \in Emails :
        /\ tenants[Home].ops[e] # "none" /\ <<Home, e>> \notin inactive
        /\ inactive' = inactive \cup {<<Home, e>>}
        /\ ended' = ended \cup {k \in Tokens : sessions[k] # NoSession /\ sessions[k].tenant = Home
                                                /\ sessions[k].email = e}
    /\ UNCHANGED <<tenants, sessions, clock, req>>

-----------------------------------------------------------------------------
(* Provisioning: one transaction over six tables *)

InsertTenant_NoConflict(r) ==
    /\ req[r].pc = "insertTenant"
    /\ req' = [req EXCEPT ![r].tx.slug = req[r].in.slug, ![r].pc = "insertChannels"]
    /\ UNCHANGED <<tenants, inactive, sessions, clock, ended>>

\* The unique slug: wait for an uncommitted row with it, conflict with a committed one.
InsertTenant(r) ==
    /\ req[r].pc = "insertTenant"
    /\ IF \E t \in Ids : tenants[t].slug = req[r].in.slug
       THEN Answer(r, "conflict")
       ELSE /\ \A q \in Requests \ {r} : req[q].tx.slug # req[r].in.slug
            /\ req' = [req EXCEPT ![r].tx.slug = req[r].in.slug, ![r].pc = "insertChannels"]
    /\ UNCHANGED <<tenants, inactive, sessions, clock, ended>>

InsertChannels(r) ==
    /\ req[r].pc = "insertChannels"
    /\ req' = [req EXCEPT ![r].tx.channels = TRUE, ![r].pc = "createOwner"]
    /\ UNCHANGED <<tenants, inactive, sessions, clock, ended>>

CreateOperatorTx(r) ==
    /\ req[r].pc = "createOwner"
    /\ req' = [req EXCEPT ![r].tx.ops[req[r].in.email] = "owner", ![r].pc = "insertCatalog"]
    /\ UNCHANGED <<tenants, inactive, sessions, clock, ended>>

insertCatalog(r) ==
    /\ req[r].pc = "insertCatalog"
    /\ req' = [req EXCEPT ![r].tx.services = req[r].in.services,
                          ![r].tx.staff[req[r].in.member] =
                              [services |-> req[r].in.assigned, rules |-> 1],
                          ![r].pc = "commitTenant"]
    /\ UNCHANGED <<tenants, inactive, sessions, clock, ended>>

Provision(r) ==
    /\ req[r].pc = "commitTenant"
    /\ tenants' = [tenants EXCEPT ![r] = req[r].tx]
    /\ Answer(r, "ok")
    /\ UNCHANGED <<inactive, sessions, clock, ended>>

-----------------------------------------------------------------------------
(* Changes to a tenant by its owners *)

CreateOperator(r) ==
    LET t == req[r].tenant
        e == req[r].in.email
    IN  /\ req[r].pc = "createOperator"
        /\ IF tenants[t].ops[e] # "none"
           THEN UNCHANGED tenants /\ Answer(r, "conflict")
           ELSE tenants' = [tenants EXCEPT ![t].ops[e] = req[r].in.role] /\ Answer(r, "ok")
        /\ UNCHANGED <<inactive, sessions, clock, ended>>

CreateService(r) ==
    LET t == req[r].tenant
    IN  /\ req[r].pc = "createService"
        /\ IF req[r].in.services \subseteq tenants[t].services
           THEN UNCHANGED tenants /\ Answer(r, "conflict")
           ELSE /\ tenants' = [tenants EXCEPT ![t].services = @ \cup req[r].in.services]
                /\ Answer(r, "ok")
        /\ UNCHANGED <<inactive, sessions, clock, ended>>

\* The unique staff slug of a tenant: another transaction may hold it uncommitted.
HoldsMember(q, t, m) == req[q].pc \in {"assign", "insertRules", "commitStaff"}
                        /\ req[q].tenant = t /\ req[q].in.member = m

CreateStaff(r) ==
    LET t == req[r].tenant
        m == req[r].in.member
    IN  /\ req[r].pc = "insertStaff"
        /\ IF tenants[t].staff[m] # NoStaff
           THEN Answer(r, "conflict")
           ELSE (\A q \in Requests \ {r} : ~HoldsMember(q, t, m)) /\ Goto(r, "assign")
        /\ UNCHANGED <<tenants, inactive, sessions, clock, ended>>

AssignService_Unchecked(r) ==
    /\ req[r].pc = "assign"
    /\ req' = [req EXCEPT ![r].tx.staff[req[r].in.member].services = req[r].in.assigned,
                          ![r].pc = "insertRules"]
    /\ UNCHANGED <<tenants, inactive, sessions, clock, ended>>

\* Each assignment selects the service of this tenant as the statement sees it.
AssignService(r) ==
    LET m == req[r].in.member
        todo == req[r].in.assigned \ req[r].tx.staff[m].services
    IN  /\ req[r].pc = "assign"
        /\ IF todo = {} THEN Goto(r, "insertRules")
           ELSE \E s \in todo :
                  IF s \in tenants[req[r].tenant].services
                  THEN req' = [req EXCEPT ![r].tx.staff[m].services = @ \cup {s}]
                  ELSE Answer(r, "invalid")
        /\ UNCHANGED <<tenants, inactive, sessions, clock, ended>>

insertAvailability(r) ==
    /\ req[r].pc = "insertRules"
    /\ req' = [req EXCEPT ![r].tx.staff[req[r].in.member].rules = 1, ![r].pc = "commitStaff"]
    /\ UNCHANGED <<tenants, inactive, sessions, clock, ended>>

CommitStaff(r) ==
    LET m == req[r].in.member
    IN  /\ req[r].pc = "commitStaff"
        /\ tenants' = [tenants EXCEPT ![req[r].tenant].staff[m] = req[r].tx.staff[m]]
        /\ Answer(r, "ok")
        /\ UNCHANGED <<inactive, sessions, clock, ended>>

\* The staff row must be one of the principal's tenant; 2 stands for more than one rule.
AddAvailability(r) ==
    LET t == req[r].tenant
        m == req[r].in.member
    IN  /\ req[r].pc = "addAvailability"
        /\ IF req[r].in.of = t /\ tenants[t].staff[m] # NoStaff
           THEN tenants' = [tenants EXCEPT ![t].staff[m].rules = 2] /\ Answer(r, "ok")
           ELSE UNCHANGED tenants /\ Answer(r, "not found")
        /\ UNCHANGED <<inactive, sessions, clock, ended>>

\* A statement fails, the connection is lost or the process dies: the deferred rollback.
Rollback(r) ==
    /\ req[r].pc \notin {"free", "done"}
    /\ Answer(r, "error")
    /\ UNCHANGED <<tenants, inactive, sessions, clock, ended>>

Tick == /\ clock < MaxClock
        /\ clock' = clock + 1
        /\ UNCHANGED <<tenants, inactive, sessions, req, ended>>

Call(r) ==
    \/ Receive(r) \/ Authenticate(r) \/ createSession(r) \/ ValidateSession(r)
    \/ RevokeSession(r) \/ InsertTenant(r) \/ InsertChannels(r) \/ CreateOperatorTx(r)
    \/ insertCatalog(r) \/ Provision(r) \/ CreateOperator(r) \/ CreateService(r)
    \/ CreateStaff(r) \/ AssignService(r) \/ insertAvailability(r) \/ CommitStaff(r)
    \/ AddAvailability(r) \/ Rollback(r)

Next == (\E r \in Requests : Call(r)) \/ Deactivated \/ Tick

Spec == Init /\ [][Next]_vars

-----------------------------------------------------------------------------
(* A tenant another call can see is complete: it has its channel row, an   *)
(* owner and a catalogue, and every member of its staff has working rules  *)
(* and performs only services of the same tenant, whatever provisioning    *)
(* and staff calls interleave or fail half way (tenants/store.go:59-61).   *)
TenantsAreWhole ==
    \A t \in Ids : Visible(t) =>
        /\ tenants[t].channels
        /\ \E e \in Emails : tenants[t].ops[e] = "owner"
        /\ tenants[t].services # {}
        /\ \A m \in StaffSlugs : tenants[t].staff[m] # NoStaff =>
              /\ tenants[t].staff[m].rules > 0
              /\ tenants[t].staff[m].services # {}
              /\ tenants[t].staff[m].services \subseteq tenants[t].services

(* Two provisioning calls for one slug never both succeed, so the host and *)
(* login lookups by slug find one tenant (tenants/store.go:92-99,310-331). *)
OneTenantPerSlug ==
    \A t, u \in Ids : Visible(t) /\ Visible(u) /\ t # u => tenants[t].slug # tenants[u].slug

(* A request that arrives after its token's logout was answered, or after  *)
(* its operator was deactivated, is never given a principal, even when the *)
(* logout found the session already expired (identity/store.go:178-225).   *)
EndedSessionsStayOut ==
    \A r \in Requests : req[r].late => req[r].pc \in {"free", "received", "done"}
                                       /\ req[r].answer \in {"none", "unauthorized", "error"}

(* A session is accepted for at most its lifetime on the database's clock  *)
(* (identity/store.go:26-27, 159, 190).                                    *)
LifetimeOnDatabaseClock ==
    \A r \in Requests : req[r].role # "none" => req[r].age < TTL

(* The slug of a tenant leads to it and to nothing half made.              *)
TenantsAreSound == TenantsAreWhole /\ OneTenantPerSlug

(* A session ends with its logout, with its operator, and with its time.   *)
SessionsEndOnTime == EndedSessionsStayOut /\ LifetimeOnDatabaseClock
=============================================================================
