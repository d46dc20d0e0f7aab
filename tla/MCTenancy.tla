----------------------------- MODULE MCTenancy -----------------------------
(***************************************************************************)
(* Two instances of Tenancy, one of them chosen by subject: calls that     *)
(* provision tenants and change their catalogues, with the constants of    *)
(* the configuration, and calls that come and go with sessions.  The       *)
(* application's clock is not ahead of the database's.                     *)
(***************************************************************************)
EXTENDS Tenancy, TLC

VARIABLE subject

CatalogueKinds == {"provision", "createService", "createStaff", "addAvailability"}

access == INSTANCE Tenancy WITH
    Kinds <- {"login", "logout", "createOperator"}, Slugs <- {HomeSlug},
    Skews <- {-2, 0}, MaxClock <- 1

TwoInit == subject \in {"catalogue", "access"} /\ Init

TwoNext == /\ \/ subject = "catalogue" /\ Next
              \/ subject = "access" /\ access!Next
           /\ UNCHANGED subject

TwoSpec == TwoInit /\ [][TwoNext]_<<subject, vars>>

\* A call's name is also the name of the tenant and of the token it makes.
AnyCall == Permutations(Requests)
=============================================================================
