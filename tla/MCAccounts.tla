----------------------------- MODULE MCAccounts -----------------------------
(***************************************************************************)
(* A small instance of Accounts for TLC: the platform with three           *)
(* administrators, two of them signed in, and a trading organization with  *)
(* an administrator; one more address that may be invited or apply.        *)
(***************************************************************************)
EXTENDS Accounts, TLC

CONSTANTS p1, p2, p3, adm, new, o0, o1, o2, s1, s2, k1

Person(org, role, keys) ==
    [NoUser EXCEPT !.status = "active", !.org = org, !.role = role, !.keys = keys,
                   !.history = (keys # {})]

SignedIn(u) == [NoSession EXCEPT !.user = u, !.key = k1, !.fresh = TRUE]

MCHolders ==
    [users |-> p1 :> Person(o0, "platform", {k1}) @@ p2 :> Person(o0, "platform", {k1})
                 @@ p3 :> Person(o0, "platform", {k1}) @@ adm :> Person(o1, "admin", {})
                 @@ new :> NoUser,
     orgs |-> o0 :> "open" @@ o1 :> "open" @@ o2 :> "absent",
     sessions |-> [s \in Sessions |-> IF s = s1 THEN SignedIn(p1)
                                      ELSE IF s = s2 THEN SignedIn(p2) ELSE NoSession]]

\* Nothing but the start tells these apart.
Either == Permutations(Sessions) \cup Permutations({p1, p2, p3})
=============================================================================
