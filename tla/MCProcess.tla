----------------------------- MODULE MCProcess -----------------------------
(***************************************************************************)
(* What the processes of a deployment go through.  A behaviour is one of   *)
(* these, chosen by subject: turns that wait for their conversation's lock *)
(* and share their process's pool (TurnGate), and three startups           *)
(* (Startup): in demo mode on an empty database, of three releases, and of *)
(* two that adopt one tenant.                                              *)
(***************************************************************************)
EXTENDS TurnGate, Sequences

VARIABLES
  subject,
  stage, at, locked, recorded, tenant, channels, seeding, staged,       \* Startup
  rules, tenantLock, seen, operators, adoptions, cause, crashes, edits

startVars == <<stage, at, locked, recorded, tenant, channels, seeding, staged,
               rules, tenantLock, seen, operators, adoptions, cause, crashes, edits>>
all == <<subject, vars, startVars>>

-----------------------------------------------------------------------------
(* The instances *)

Request(p, c, k) == [proc |-> p, tenant |-> "a", conv |-> c, n |-> k]

\* Three requests of one tenant in one process, two of them for the same
\* conversation, and one for it in a second process.
OneTenant == {Request("p", "x", 1), Request("p", "x", 2), Request("p", "y", 1),
              Request("q", "x", 3)}

Procs == {"api1", "api2", "worker"}
Current == << <<1, "a">>, <<2, "a">> >>
Edited == << <<1, "a">>, <<2, "b">> >>
Older == << <<1, "a">> >>
NoInput == [email |-> "none", password |-> "none", origin |-> "", telegram |-> "off"]
Input == [email |-> "owner", password |-> "given", origin |-> "site", telegram |-> "on"]

\* Processes of one release on an empty database.
demo == INSTANCE Startup WITH
  Workers <- {"worker"}, Files <- [p \in Procs |-> Current], Deployed <- 0, IdentityAt <- 2,
  Custom <- TRUE, Demo <- TRUE, Adoption <- [p \in Procs |-> NoInput],
  Origin <- [p \in Procs |-> "site"], MaxCrashes <- 1, MaxEdits <- 1, pc <- stage

\* Three releases that disagree about the second migration.
releases == INSTANCE Startup WITH
  Workers <- {"worker"},
  Files <- [p \in Procs |-> CASE p = "api1" -> Current [] p = "api2" -> Edited
                              [] OTHER -> Older],
  Deployed <- 1, IdentityAt <- 2,
  Custom <- FALSE, Demo <- TRUE, Adoption <- [p \in Procs |-> NoInput],
  Origin <- [p \in Procs |-> "site"], MaxCrashes <- 1, MaxEdits <- 1, pc <- stage

\* Two adoptions of the legacy tenant that name different owners.
adopt == INSTANCE Startup WITH
  Workers <- {"worker"}, Files <- [p \in Procs |-> Current], Deployed <- 2, IdentityAt <- 2,
  Custom <- FALSE, Demo <- FALSE,
  Adoption <- [p \in Procs |-> CASE p = "api1" -> Input
                                 [] p = "api2" -> [Input EXCEPT !.email = "staff"]
                                 [] OTHER -> NoInput],
  Origin <- [p \in Procs |-> "site"], MaxCrashes <- 2, MaxEdits <- 1, pc <- stage

ASSUME ProcessAssumption ==
  demo!StartupAssumption /\ releases!StartupAssumption /\ adopt!StartupAssumption

-----------------------------------------------------------------------------
ProcessInit ==
  /\ \/ subject \in {"gate", "demo"} /\ demo!Init
     \/ subject = "releases" /\ releases!Init
     \/ subject = "adopt" /\ adopt!Init
  /\ Init

Gate(A) == subject = "gate" /\ A /\ UNCHANGED <<subject, startVars>>
Start(s, A) == subject = s /\ A /\ UNCHANGED <<subject, vars>>

ProcessNext ==
  \/ Gate(Next)
  \/ Start("demo", demo!Next)
  \/ Start("releases", releases!Next)
  \/ Start("adopt", adopt!Next)

ProcessFairness ==
  /\ \A r \in Requests : WF_all(Gate(Move(r))) /\ WF_all(Gate(StartQuery(r)))
  /\ \A p \in Procs : /\ WF_all(Start("demo", demo!run(p)))
                      /\ WF_all(Start("demo", demo!Restart(p)))

ProcessSpec == ProcessInit /\ [][ProcessNext]_all /\ ProcessFairness

-----------------------------------------------------------------------------
\* However starts of processes meet: none exits because another one is
\* starting, no seeded rule exists twice, a serving process finds the
\* migrations it was built with, and a completed adoption is the one of the
\* process's own input (Startup).
StartupIsSafe ==
  /\ subject = "demo" => demo!ConcurrentStartupSafe /\ demo!SeedIsRepeatable
  /\ subject = "releases" => releases!ServesWhatItWasBuiltFor
  /\ subject = "adopt" => adopt!AdoptsItsOwnInput

\* Every process serves in the end (Startup).
StartupCompletes == subject = "demo" => demo!StartupCompletes
=============================================================================
