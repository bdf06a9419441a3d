----------------------------- MODULE AragonACL ------------------------------
(***************************************************************************)
(* The permissions of an Aragon organization, as the code under src/ uses  *)
(* them: the ACL contract is external, a value `acl' here maps each        *)
(* permission that was ever created to its manager and its grantees.  The  *)
(* second half are the assertions the scripts make about an ACL            *)
(* (scripts/helpers/aragon.js).                                            *)
(***************************************************************************)

\* The permissions of an app: pairs of the app and the role.
Roles(app, names) == {<<app, name>> : name \in names}

Nobody == "nobody"

NoPermissions == <<>>

Manager(acl, p) == IF p \in DOMAIN acl THEN acl[p].manager ELSE Nobody
Grantees(acl, p) == IF p \in DOMAIN acl THEN acl[p].grantees ELSE {}

LOCAL With(acl, ps, Entry(_)) ==
    [p \in DOMAIN acl \cup ps |-> IF p \in ps THEN Entry(p) ELSE acl[p]]

\* createPermission() is refused when the permission has a manager.
CanCreate(acl, ps) == \A p \in ps : Manager(acl, p) = Nobody

Create(acl, ps, entity, manager) ==
    With(acl, ps, LAMBDA p : [manager |-> manager, grantees |-> Grantees(acl, p) \cup {entity}])

Grant(acl, ps, entity) ==
    With(acl, ps, LAMBDA p : [manager |-> Manager(acl, p), grantees |-> Grantees(acl, p) \cup {entity}])

Revoke(acl, ps, entity) ==
    With(acl, ps, LAMBDA p : [manager |-> Manager(acl, p), grantees |-> Grantees(acl, p) \ {entity}])

SetManager(acl, ps, manager) ==
    With(acl, ps, LAMBDA p : [manager |-> manager, grantees |-> Grantees(acl, p)])

-----------------------------------------------------------------------------
\* assertRole(): with onlyGrantee the grantees are replayed from the events
\* of the ACL and must be the expected ones and no other.
AssertRole(acl, p, manager, grantees) ==
    /\ Manager(acl, p) = manager
    /\ Grantees(acl, p) = grantees

AssertMissingRole(acl, p) ==
    /\ Manager(acl, p) = Nobody
    /\ Grantees(acl, p) = {}

AssertRoles(acl, ps, manager, grantees) == \A p \in ps : AssertRole(acl, p, manager, grantees)
AssertMissingRoles(acl, ps) == \A p \in ps : AssertMissingRole(acl, p)
=============================================================================
