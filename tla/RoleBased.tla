----------------------------- MODULE RoleBased -----------------------------
(***************************************************************************)
(* The RoleBased strategy, internal/council/rolebased.go: Stage 1 with a   *)
(* role for each member, no second stage, and a chairman.                  *)
(***************************************************************************)
EXTENDS Council

PlaysRoles == ct.strategy = "roleBased"

\* Every role has a model: RolesWithModels and the environment see to that.
RoleBasedConfigured == ct.roles # <<>>

\* A member goes under the name of its role, here its position.
RoleLabels ==
  [of      |-> [i \in Answered |-> i],
   toModel |-> [i \in Answered |-> Pool(ct)[i]]]

\* A stage2_complete without results follows stage1_complete, for the clients
\* that wait for it.
RoleBasedStep ==
  /\ PlaysRoles
  /\ Stage1Joined(ct.quorumMin, {RoleLabels}, <<Event("stage2_complete", 0)>>, "stage3")
  /\ UNCHANGED slots

===========================================================================
