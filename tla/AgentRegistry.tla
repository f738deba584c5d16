--------------------------- MODULE AgentRegistry ----------------------------
(***************************************************************************)
(* AgentRegistry behind marketplace/api.py.  All methods share one         *)
(* connection: what an INSERT that fails leaves behind is not rolled back, *)
(* and the commit of a later call makes it durable.  Tags are kept like    *)
(* capabilities, the counters of agent_stats are added to; both are left   *)
(* out.                                                                    *)
(***************************************************************************)
EXTENDS Integers, Sequences, SequencesExt

CONSTANTS
    RegAgents,
    Manifests      \* the capability lists that manifests hold

NoManifest == <<"none">>

ASSUME RegistryAssumption == NoManifest \notin Manifests

VARIABLES
    tables,        \* what the connection sees
    durable        \* what is committed

registryVars == <<tables, durable>>

(* manifest: agent_registrations.manifest; capabilities and stats: the     *)
(* tables agent_capabilities and agent_stats.                              *)
RegistryInit ==
    /\ tables = [manifest |-> [a \in RegAgents |-> NoManifest],
                 status |-> [a \in RegAgents |-> "active"],
                 capabilities |-> {}, stats |-> {}]
    /\ durable = tables

Registered(a) == tables.manifest[a] # NoManifest

(* The rows inserted before (agent_id, capability) would be there twice.   *)
Inserted(a, m) ==
    {<<a, m[i]>> : i \in {j \in DOMAIN m : \A k \in 1..j : \A l \in 1..(k - 1) : m[k] # m[l]}}

AllDistinct(m) == IsInjective(m)

Commit == durable' = tables'

(* Without a commit, api.py answers "Registration failed" or "Update       *)
(* failed".                                                                *)
register_agent(a, m) ==
    LET rows == [tables EXCEPT !.manifest[a] = m, !.status[a] = "active",
                               !.capabilities = @ \cup Inserted(a, m)]
    IN
    /\ ~Registered(a)
    /\ IF AllDistinct(m)
       THEN tables' = [rows EXCEPT !.stats = @ \cup {a}] /\ Commit
       ELSE tables' = rows /\ UNCHANGED durable

(* Faulty variant: the old capabilities stay.                              *)
update_manifest_Keep(a, m) ==
    /\ Registered(a)
    /\ tables' = [tables EXCEPT !.manifest[a] = m, !.capabilities = @ \cup Inserted(a, m)]
    /\ Commit

update_manifest(a, m) ==
    LET others == {row \in tables.capabilities : row[1] # a} IN
    /\ Registered(a)
    /\ tables' = [tables EXCEPT !.manifest[a] = m, !.capabilities = others \cup Inserted(a, m)]
    /\ IF AllDistinct(m) THEN Commit ELSE UNCHANGED durable

(* record_task_completion and update_reputation change a row of stats, if  *)
(* there is one, and commit.                                               *)
record_task_completion == UNCHANGED tables /\ Commit

set_agent_status(a, status) ==
    /\ tables' = IF Registered(a) THEN [tables EXCEPT !.status[a] = status] ELSE tables
    /\ Commit

(* The process stops, and starts again on what is committed.               *)
RegistryCrash == tables' = durable /\ UNCHANGED durable

search_agents(capability, status) ==
    {a \in RegAgents : Registered(a) /\ <<a, capability>> \in tables.capabilities
                       /\ tables.status[a] = status}

RegistryNext ==
    \/ \E a \in RegAgents, m \in Manifests : register_agent(a, m) \/ update_manifest(a, m)
    \/ record_task_completion
    \/ \E a \in RegAgents, status \in {"active", "inactive", "suspended"} :
         set_agent_status(a, status)
    \/ RegistryCrash

(* The index never promises more than the manifest: whichever updates      *)
(* fail halfway, get committed by a later call or are lost in a crash,     *)
(* search_agents finds no agent by a capability that its manifest does not *)
(* list (registry.py 142-378).                                             *)
IndexWithinManifest ==
    \A a \in RegAgents, status \in {"active", "inactive", "suspended"} :
      \A row \in tables.capabilities :
        a \in search_agents(row[2], status) => row[2] \in Range(tables.manifest[a])
=============================================================================
