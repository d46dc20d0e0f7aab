------------------------------- MODULE Startup -------------------------------
(***************************************************************************)
(* What cmd/api and cmd/worker do before they serve, for several processes *)
(* that start, crash and start again against one database: the migrations  *)
(* under their advisory lock, the demo tenant and its seed, the adoption   *)
(* of a legacy tenant, the demo channel row and the demo owner.  A process *)
(* that returns an error exits; its transaction rolls back and its locks   *)
(* go with its session.                                                    *)
(***************************************************************************)
EXTENDS Naturals, Sequences, FiniteSets

CONSTANTS
  Procs,        \* the processes of a deployment
  Workers,      \* those that run cmd/worker; the others run cmd/api
  Files,        \* Files[p]: the <<version, checksum>> pairs embedded in p
  Deployed,     \* how many migrations an earlier release left applied
  IdentityAt,   \* the version that creates tenant_channels and backfills it
  Custom,       \* whether the tenant differs from the one migration 1 inserts
  Demo,         \* DEMO_MODE
  Adoption,     \* Adoption[p]: the STAGE6_BOOTSTRAP input of p, or NoInput
  Origin,       \* Origin[p]: the configured demo widget origin
  MaxCrashes, MaxEdits

Versions == 1..2
Rules == {"working", "break"}
Emails == {"owner", "staff"}
Nobody == "nobody"
Unapplied == "unapplied"
NoChannels == [origin |-> "", telegram |-> "no row"]
Pristine == [origin |-> "", telegram |-> "off"]
NoOperator == [role |-> "none", password |-> "none"]
NotSeen == [channels |-> NoChannels, known |-> {}]
NoInput == [email |-> "none", password |-> "none", origin |-> "", telegram |-> "off"]

StartupAssumption ==
  /\ Workers \subseteq Procs
  /\ Nobody \notin Procs
  /\ Deployed \in 0..2 /\ IdentityAt \in Versions
  /\ Demo \in BOOLEAN /\ Custom \in BOOLEAN
  /\ MaxCrashes \in Nat /\ MaxEdits \in Nat
  \* LoadLegacyTenantBootstrap refuses DEMO_MODE and the adoption together.
  /\ Demo => \A p \in Procs : Adoption[p] = NoInput

VARIABLES
  pc, at,       \* where a process is, and the index of its current file
  locked,       \* holder of the migration advisory lock
  recorded,     \* schema_migrations: version -> checksum
  tenant,       \* whether the tenant row exists
  channels,     \* its tenant_channels row
  seeding,      \* whose open transaction holds the seeded services rows
  staged,       \* the rules the open transaction of a process has inserted
  rules,        \* availability_rules: how many rows each seeded rule has
  tenantLock,   \* who holds the tenant and channel rows FOR UPDATE
  seen,         \* what an adoption has read: the channels and the operators
  operators,    \* operators by email
  adoptions,    \* how many adoptions were applied
  cause,        \* why a process exited
  crashes, edits

\* A demo start that crashed before it made its owner leaves an origin behind.
Inherited == {Pristine, [origin |-> "site", telegram |-> "off"]}

database == <<recorded, tenant, channels, rules, operators, adoptions>>
locks == <<locked, seeding, staged, tenantLock, seen>>
vars == <<pc, at, locked, recorded, tenant, channels, seeding, staged, rules,
          tenantLock, seen, operators, adoptions, cause, crashes, edits>>

Init ==
  /\ pc = [p \in Procs |-> "boot"] /\ at = [p \in Procs |-> 1]
  /\ locked = Nobody
  /\ recorded = [v \in Versions |-> IF v <= Deployed THEN "a" ELSE Unapplied]
  /\ tenant = (Deployed >= 1 /\ ~Custom)
  /\ channels \in IF Deployed >= IdentityAt /\ ~Custom THEN Inherited ELSE {NoChannels}
  /\ seeding = Nobody /\ staged = [p \in Procs |-> {}]
  /\ rules = [r \in Rules |-> 0]
  /\ tenantLock = Nobody /\ seen = [p \in Procs |-> NotSeen]
  /\ operators = [e \in Emails |-> NoOperator]
  /\ adoptions = 0
  /\ cause = [p \in Procs |-> "none"]
  /\ crashes = 0 /\ edits = 0

Goto(p, where) == pc' = [pc EXCEPT ![p] = where]

(* An error returned by run(): deferred unlocks, rollbacks and pool.Close. *)
Exit(p, why) ==
  /\ Goto(p, "exited")
  /\ cause' = [cause EXCEPT ![p] = why]
  /\ locked' = IF locked = p THEN Nobody ELSE locked
  /\ seeding' = IF seeding = p THEN Nobody ELSE seeding
  /\ staged' = [staged EXCEPT ![p] = {}]
  /\ tenantLock' = IF tenantLock = p THEN Nobody ELSE tenantLock
  /\ seen' = [seen EXCEPT ![p] = NotSeen]

-----------------------------------------------------------------------------
(* ApplyMigrations *)

LockMigrations_Free(p) ==
  /\ pc[p] = "boot"
  /\ locked' = p /\ Goto(p, "check") /\ at' = [at EXCEPT ![p] = 1]
  /\ UNCHANGED <<database, seeding, staged, tenantLock, seen, cause, crashes, edits>>
LockMigrations(p) ==
  /\ pc[p] = "boot" /\ locked = Nobody
  /\ locked' = p /\ Goto(p, "check") /\ at' = [at EXCEPT ![p] = 1]
  /\ UNCHANGED <<database, seeding, staged, tenantLock, seen, cause, crashes, edits>>

File(p) == Files[p][at[p]]
Version(p) == File(p)[1]
Checksum(p) == File(p)[2]

CheckMigration_AnySum(p) ==
  /\ pc[p] = "check" /\ at[p] <= Len(Files[p])
  /\ IF recorded[Version(p)] = Unapplied
     THEN Goto(p, "apply") /\ UNCHANGED <<at, locks, cause>>
     ELSE at' = [at EXCEPT ![p] = @ + 1] /\ UNCHANGED <<pc, locks, cause>>
  /\ UNCHANGED <<database, crashes, edits>>
CheckMigration(p) ==
  /\ pc[p] = "check" /\ at[p] <= Len(Files[p])
  /\ CASE recorded[Version(p)] = Unapplied ->
            Goto(p, "apply") /\ UNCHANGED <<at, locks, cause>>
       [] recorded[Version(p)] = Checksum(p) ->
            at' = [at EXCEPT ![p] = @ + 1] /\ UNCHANGED <<pc, locks, cause>>
       [] OTHER -> Exit(p, "checksum") /\ UNCHANGED at
  /\ UNCHANGED <<database, crashes, edits>>

(* One transaction runs the file and inserts its schema_migrations row, whose *)
(* primary key refuses a version somebody else has recorded meanwhile.  The   *)
(* first file inserts a tenant; the identity file gives each tenant channels. *)
ApplyMigration(p) ==
  /\ pc[p] = "apply"
  /\ IF recorded[Version(p)] = Unapplied
     THEN /\ recorded' = [recorded EXCEPT ![Version(p)] = Checksum(p)]
          /\ tenant' = (tenant \/ (Version(p) = 1 /\ ~Custom))
          /\ channels' = IF Version(p) = IdentityAt /\ tenant THEN Pristine ELSE channels
          /\ at' = [at EXCEPT ![p] = @ + 1]
          /\ Goto(p, "check")
          /\ UNCHANGED <<locks, cause>>
     ELSE Exit(p, "conflict") /\ UNCHANGED <<at, recorded, tenant, channels>>
  /\ UNCHANGED <<rules, operators, adoptions, crashes, edits>>

Migrated(p) ==
  CASE Demo -> "tenant"
    [] ~Demo /\ p \notin Workers /\ Adoption[p] # NoInput -> "lock"
    [] OTHER -> "serving"

UnlockMigrations_Kept(p) ==
  /\ pc[p] = "check" /\ at[p] > Len(Files[p])
  /\ Goto(p, Migrated(p))
  /\ UNCHANGED <<database, at, locks, cause, crashes, edits>>
UnlockMigrations(p) ==
  /\ pc[p] = "check" /\ at[p] > Len(Files[p])
  /\ locked' = Nobody /\ Goto(p, Migrated(p))
  /\ UNCHANGED <<database, at, seeding, staged, tenantLock, seen, cause, crashes, edits>>

-----------------------------------------------------------------------------
(* EnsureFixedTenant and SeedCatalog *)

EnsureFixedTenant(p) ==
  /\ pc[p] = "tenant"
  /\ tenant' = TRUE
  /\ channels' = IF channels = NoChannels THEN Pristine ELSE channels
  /\ Goto(p, "services")
  /\ UNCHANGED <<at, locks, recorded, rules, operators, adoptions, cause, crashes, edits>>

(* The upsert of the services waits for another seed that has upserted them *)
(* and not yet committed, and keeps the rows until this one commits.        *)
SeedServices_NoWait(p) ==
  /\ pc[p] = "services"
  /\ seeding' = p /\ Goto(p, "rules")
  /\ UNCHANGED <<database, at, locked, staged, tenantLock, seen, cause, crashes, edits>>
SeedServices(p) ==
  /\ pc[p] = "services" /\ seeding = Nobody
  /\ seeding' = p /\ Goto(p, "rules")
  /\ UNCHANGED <<database, at, locked, staged, tenantLock, seen, cause, crashes, edits>>

(* INSERT ... WHERE NOT EXISTS: no unique index stands behind it. *)
SeedRules(p) ==
  /\ pc[p] = "rules"
  /\ staged' = [staged EXCEPT ![p] = {r \in Rules : rules[r] = 0}]
  /\ Goto(p, "commit")
  /\ UNCHANGED <<database, at, locked, seeding, tenantLock, seen, cause, crashes, edits>>

CommitSeed(p) ==
  /\ pc[p] = "commit"
  /\ rules' = [r \in Rules |-> rules[r] + (IF r \in staged[p] THEN 1 ELSE 0)]
  /\ seeding' = Nobody /\ staged' = [staged EXCEPT ![p] = {}]
  /\ Goto(p, IF p \in Workers THEN "serving" ELSE "channels")
  /\ UNCHANGED <<at, locked, recorded, tenant, channels, tenantLock, seen, operators,
                 adoptions, cause, crashes, edits>>

-----------------------------------------------------------------------------
(* BootstrapLegacyTenant *)

Known == {e \in Emails : operators[e] # NoOperator}

(* SELECT ... FOR UPDATE OF t,c: an owner's update of the channels waits for  *)
(* it, and so does an insert of an operator, whose foreign key locks the row. *)
LockLegacyTenant_NoLock(p) ==
  /\ pc[p] = "lock"
  /\ Goto(p, "count")
  /\ seen' = [seen EXCEPT ![p] = [channels |-> channels, known |-> {}]]
  /\ UNCHANGED <<database, at, locked, seeding, staged, tenantLock, cause, crashes, edits>>
LockLegacyTenant(p) ==
  /\ pc[p] = "lock" /\ tenantLock = Nobody
  /\ IF ~tenant \/ channels = NoChannels
     THEN Exit(p, "ineligible")
     ELSE /\ tenantLock' = p /\ Goto(p, "count")
          /\ seen' = [seen EXCEPT ![p] = [channels |-> channels, known |-> {}]]
          /\ UNCHANGED <<locked, seeding, staged, cause>>
  /\ UNCHANGED <<database, at, crashes, edits>>

CountOperators(p) ==
  /\ pc[p] = "count"
  /\ seen' = [seen EXCEPT ![p].known = Known]
  /\ Goto(p, "adopt")
  /\ UNCHANGED <<database, at, locked, seeding, staged, tenantLock, cause, crashes, edits>>

Given(p) == [origin |-> Adoption[p].origin, telegram |-> Adoption[p].telegram]

legacyChannelsPristine(p) == seen[p].channels = Pristine

Adopts(p) == seen[p].known = {} /\ legacyChannelsPristine(p)

Replays(p) ==
  /\ seen[p].known = {Adoption[p].email}
  /\ seen[p].channels = Given(p)
  /\ operators[Adoption[p].email] = [role |-> "owner", password |-> Adoption[p].password]

(* The writes and the commit; a taken email refuses the owner. *)
BootstrapLegacyTenant(p) ==
  /\ pc[p] = "adopt"
  /\ CASE Adopts(p) /\ Adoption[p].email \notin Known ->
            /\ operators' = [operators EXCEPT ![Adoption[p].email] =
                               [role |-> "owner", password |-> Adoption[p].password]]
            /\ channels' = Given(p)
            /\ adoptions' = adoptions + 1
            /\ tenantLock' = Nobody /\ Goto(p, "serving")
            /\ seen' = [seen EXCEPT ![p] = NotSeen]
            /\ UNCHANGED <<locked, seeding, staged, cause>>
       [] ~Adopts(p) /\ Replays(p) ->
            /\ tenantLock' = Nobody /\ Goto(p, "serving")
            /\ seen' = [seen EXCEPT ![p] = NotSeen]
            /\ UNCHANGED <<locked, seeding, staged, cause, operators, channels, adoptions>>
       [] OTHER ->
            Exit(p, "ineligible") /\ UNCHANGED <<operators, channels, adoptions>>
  /\ UNCHANGED <<at, recorded, tenant, rules, crashes, edits>>

-----------------------------------------------------------------------------
(* The demo channel row and EnsureOperator *)

shouldSetWidgetOrigin(p) ==
  \/ channels.origin = ""
  \/ channels.origin = "compose" /\ Origin[p] # "compose"

ReadChannels(p) ==
  /\ pc[p] = "channels"
  /\ CASE channels = NoChannels -> Exit(p, "missing")
       [] channels # NoChannels /\ shouldSetWidgetOrigin(p) ->
            Goto(p, "set") /\ UNCHANGED <<locks, cause>>
       [] OTHER -> Goto(p, "lookup") /\ UNCHANGED <<locks, cause>>
  /\ UNCHANGED <<database, at, crashes, edits>>

(* The whole row is written: the Telegram columns are cleared with it. *)
UpdateChannels(p) ==
  /\ pc[p] = "set"
  /\ channels' = [origin |-> Origin[p], telegram |-> "off"]
  /\ Goto(p, "lookup")
  /\ UNCHANGED <<at, locks, recorded, tenant, rules, operators, adoptions, cause, crashes, edits>>

LookupOperator(p) ==
  /\ pc[p] = "lookup"
  /\ Goto(p, IF "owner" \in Known THEN "serving" ELSE "create")
  /\ UNCHANGED <<database, at, locks, cause, crashes, edits>>

(* A taken email fails the insert; the winner's row is read instead. *)
CreateOperator(p) ==
  /\ pc[p] = "create"
  /\ operators' = IF "owner" \in Known THEN operators
                  ELSE [operators EXCEPT !["owner"] = [role |-> "owner", password |-> "seed"]]
  /\ Goto(p, "serving")
  /\ UNCHANGED <<at, locks, recorded, tenant, channels, rules, adoptions, cause, crashes, edits>>

-----------------------------------------------------------------------------
(* The environment: owners at work through a serving API, crashes, restarts. *)

Working ==
  /\ edits < MaxEdits
  /\ \E p \in Procs \ Workers : pc[p] = "serving"
  /\ \E e \in Known : operators[e].role = "owner"
  /\ tenantLock = Nobody
  /\ edits' = edits + 1

OwnerUpdatesChannels ==
  /\ Working
  /\ \E c \in [origin : {"compose", "site"}, telegram : {"off", "on"}] : channels' = c
  /\ UNCHANGED <<pc, at, locks, recorded, tenant, rules, operators, adoptions, cause, crashes>>

OwnerCreatesOperator ==
  /\ Working
  /\ \E e \in Emails \ Known, r \in {"owner", "staff"} :
       operators' = [operators EXCEPT ![e] = [role |-> r, password |-> "own"]]
  /\ UNCHANGED <<pc, at, locks, recorded, tenant, channels, rules, adoptions, cause, crashes>>

(* A login changed by hand: no handler of the API changes a password. *)
PasswordChanged ==
  /\ Working
  /\ \E e \in Known : operators' = [operators EXCEPT ![e].password = "own"]
  /\ UNCHANGED <<pc, at, locks, recorded, tenant, channels, rules, adoptions, cause, crashes>>

(* Covers a failed query too: run() returns it and the process exits. *)
Crash(p) ==
  /\ crashes < MaxCrashes /\ pc[p] \notin {"boot", "exited"}
  /\ crashes' = crashes + 1
  /\ Exit(p, "fault")
  /\ UNCHANGED <<database, at, edits>>

Restart(p) ==
  /\ pc[p] = "exited" /\ cause[p] = "fault"
  /\ Goto(p, "boot") /\ cause' = [cause EXCEPT ![p] = "none"]
  /\ UNCHANGED <<database, at, locks, crashes, edits>>

-----------------------------------------------------------------------------
run(p) ==
  \/ LockMigrations(p)
  \/ CheckMigration(p)
  \/ ApplyMigration(p)
  \/ UnlockMigrations(p)
  \/ EnsureFixedTenant(p)
  \/ SeedServices(p)
  \/ SeedRules(p)
  \/ CommitSeed(p)
  \/ LockLegacyTenant(p)
  \/ CountOperators(p)
  \/ BootstrapLegacyTenant(p)
  \/ ReadChannels(p)
  \/ UpdateChannels(p)
  \/ LookupOperator(p)
  \/ CreateOperator(p)

Next ==
  \/ \E p \in Procs : run(p) \/ Crash(p) \/ Restart(p)
  \/ OwnerUpdatesChannels
  \/ OwnerCreatesOperator
  \/ PasswordChanged

Spec == Init /\ [][Next]_vars

(* A started process keeps running, an exited one is started again by its  *)
(* operator, and PostgreSQL grants a contended lock to every waiter in the *)
(* end (its lock queue is first come, first served).                       *)
FairSpec ==
  Spec /\ \A p \in Procs : WF_vars(run(p)) /\ WF_vars(Restart(p))

-----------------------------------------------------------------------------
(* No process gives up because another one is starting: neither a migration *)
(* somebody else has just recorded, nor a lost race for the demo owner, nor *)
(* a channel row nobody has made yet is ever the reason for an exit.        *)
ConcurrentStartupSafe ==
  \A p \in Procs : cause[p] \notin {"conflict", "missing"}

(* A serving process finds every migration it was built with, each with the *)
(* content it was built with, whatever other releases started meanwhile, and *)
(* in demo mode a tenant with a widget origin and an owner who can log in.   *)
ServesWhatItWasBuiltFor ==
  \A p \in Procs : pc[p] = "serving" =>
    /\ \A i \in DOMAIN Files[p] : recorded[Files[p][i][1]] = Files[p][i][2]
    /\ Demo /\ p \notin Workers =>
         tenant /\ channels.origin # "" /\ operators["owner"].role = "owner"

(* SeedCatalog is repeatable: however many processes seed, and wherever one *)
(* of them crashes, no seeded availability rule exists twice, although only *)
(* the row locks of the services upsert before it keep two seeds apart.     *)
SeedIsRepeatable == \A r \in Rules : rules[r] <= 1

(* A startup that reports a completed adoption serves the tenant it was told *)
(* to adopt: until an owner changes something, the account and the channels  *)
(* are the ones of its own input, also when another process adopted first.   *)
(* A legacy tenant is adopted at most once.                                  *)
AdoptsItsOwnInput ==
  /\ adoptions <= 1
  /\ \A p \in Procs \ Workers : pc[p] = "serving" /\ Adoption[p] # NoInput /\ edits = 0 =>
       /\ Known = {Adoption[p].email}
       /\ operators[Adoption[p].email] = [role |-> "owner", password |-> Adoption[p].password]
       /\ channels = Given(p)

(* Every process whose files agree with the database serves in the end,     *)
(* after any bounded number of crashes.                                     *)
StartupCompletes == <>[](\A p \in Procs : pc[p] = "serving")
=============================================================================
