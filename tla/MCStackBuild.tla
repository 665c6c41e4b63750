---------------------------- MODULE MCStackBuild ----------------------------
(* Templates of up to three roles whose dependencies have none themselves. *)
EXTENDS StackBuild

CONSTANTS db, cache, app

ThreeRoles == {db, cache, app}

(* app is exposed; a role refers to the host it depends on, and app may    *)
(* refer to a role the template lacks.                                     *)
SomeSpecs ==
  {s \in RoleSpec : /\ s.exposed = (s.role = app)
                    /\ s.role # s.dependsOn
                    /\ s.role = cache => s.healthcheck
                    /\ \/ s.hosts = {s.dependsOn} \ {NoRole}
                       \/ s.role = app /\ s.hosts = {cache}}

Distinct(t) == \A i, j \in DOMAIN t : t[i].role = t[j].role => i = j

SomeTemplates ==
  {t \in UNION {[1..n -> SomeSpecs] : n \in 1..3} : Distinct(t) /\ OneLevel(t)}
=============================================================================
