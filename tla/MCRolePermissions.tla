-------------------------- MODULE MCRolePermissions --------------------------
(***************************************************************************)
(* Instance of RolePermissions for TLC: one tenant with a role and its     *)
(* child, another with one role.                                           *)
(***************************************************************************)
EXTENDS RolePermissions, TLC

CONSTANTS t1, t2, base, child, other, n1, n2, e1, e2, p1, y1, g1, q1, q2, listener, s1, s2

MCTenants == {t1, t2}
MCRoles == {base, child, other}
MCTenantOf == (base :> t1) @@ (child :> t1) @@ (other :> t2)
MCParent == (base :> NoParent) @@ (child :> base) @@ (other :> NoParent)
MCGrants == (base :> {n1}) @@ (child :> {}) @@ (other :> {n1})
MCInitial == {base, other}
MCHeld == {base}
MCOpen == {s1}
MCDefaults == {other}
MCChoices == {{n2}}
MCPerms == {n1, n2}

\* A role change here and one elsewhere, a role change and a publication or a
\* tenant sync, a publication and a tenant sync, and a role assignment between
\* two requests.
MCCalls == {{listener, e1, e2}, {listener, e1, p1},
            {listener, e1, y1}, {listener, p1, y1}, {g1, q1, q2}}

\* One request and one publication.
PublishedMeanwhile == {{p1, q1}}

\* A publication may drop the second permission.
MCDeclared == {{n1, n2}, {n1}}
=============================================================================
