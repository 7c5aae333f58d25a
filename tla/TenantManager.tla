---------------------------- MODULE TenantManager ----------------------------
(***************************************************************************)
(* The tenant manager: tenants, the index of their API keys, and their     *)
(* usage, as the gateway's external processor uses them: it has a key      *)
(* verified, and posts the usage of the request under the identifier it    *)
(* was given. Identifiers are milliseconds, keys are random. The map and   *)
(* the index change under one lock; nothing is ever deleted.               *)
(***************************************************************************)
EXTENDS Naturals, Maps

CONSTANTS
  ApiKeys,       \* keys that generateAPIKey returns, each once
  TenantMillis,  \* the milliseconds at which tenants are created
  Callers,       \* inference requests under way
  NoKey          \* what a caller that is idle has

ASSUME TenantAssumption ==
  /\ TenantMillis \subseteq Nat
  /\ NoKey \notin ApiKeys

VARIABLES
  tenants,   \* TenantStore.tenants: identifier -> its key, and the keys that ran up its usage
  keyIndex,  \* TenantStore.keyIndex: key -> identifier
  caller,    \* inference request -> its key and the tenant it was verified as
  collided   \* history: identifiers that were given to a second tenant

tenantVars == <<tenants, keyIndex, caller, collided>>

-----------------------------------------------------------------------------
Tenant == [key : ApiKeys, billed : SUBSET ApiKeys]
IdleCaller == [key |-> NoKey, tenant |-> 0]

\* Every key leads to a tenant.
TenantsTypeOK ==
  /\ DOMAIN tenants \subseteq TenantMillis
  /\ \A t \in DOMAIN tenants : tenants[t] \in Tenant
  /\ DOMAIN keyIndex \subseteq ApiKeys
  /\ \A k \in DOMAIN keyIndex : keyIndex[k] \in DOMAIN tenants
  /\ caller \in [Callers -> [key : ApiKeys \cup {NoKey}, tenant : TenantMillis \cup {0}]]
  /\ collided \subseteq TenantMillis

TenantsInit ==
  /\ tenants = EmptyMap
  /\ keyIndex = EmptyMap
  /\ caller = [q \in Callers |-> IdleCaller]
  /\ collided = {}

-----------------------------------------------------------------------------
\* POST /api/tenants: of two tenants of one millisecond the second replaces
\* the first, while both keys lead to the identifier. The millisecond is taken
\* before the lock, so that identifiers may enter in any order.
CreateTenant(k, t) ==
  /\ k \notin DOMAIN keyIndex
  /\ tenants' = Put(tenants, t, [key |-> k, billed |-> {}])
  /\ keyIndex' = Put(keyIndex, k, t)
  /\ collided' = IF t \in DOMAIN tenants THEN collided \cup {t} ELSE collided
  /\ UNCHANGED caller

\* Mutant of Verify: a key that is known is taken for any tenant's.
VerifyLoosely(q, k) ==
  /\ caller[q] = IdleCaller
  /\ k \in DOMAIN keyIndex
  /\ \E t \in DOMAIN tenants : caller' = [caller EXCEPT ![q] = [key |-> k, tenant |-> t]]
  /\ UNCHANGED <<tenants, keyIndex, collided>>

\* POST /api/auth/verify: an unknown key is a 401. Nothing suspends a tenant.
Verify(q, k) ==
  /\ caller[q] = IdleCaller
  /\ k \in DOMAIN keyIndex
  /\ caller' = [caller EXCEPT ![q] = [key |-> k, tenant |-> keyIndex[k]]]
  /\ UNCHANGED <<tenants, keyIndex, collided>>

\* Mutant of RecordUsage: usage that no tenant is there for is entered anew.
RecordUsageAnew(q) ==
  /\ caller[q] # IdleCaller
  /\ tenants' = Put(tenants, caller[q].tenant, [billed |-> {caller[q].key}])
  /\ caller' = [caller EXCEPT ![q] = IdleCaller]
  /\ UNCHANGED <<keyIndex, collided>>

\* POST /api/tenants/:id/usage
RecordUsage(q) ==
  /\ caller[q] # IdleCaller
  /\ caller[q].tenant \in DOMAIN tenants
  /\ tenants' = [tenants EXCEPT ![caller[q].tenant].billed = @ \cup {caller[q].key}]
  /\ caller' = [caller EXCEPT ![q] = IdleCaller]
  /\ UNCHANGED <<keyIndex, collided>>

TenantsNext ==
  \/ \E k \in ApiKeys, t \in TenantMillis : CreateTenant(k, t)
  \/ \E q \in Callers, k \in ApiKeys : Verify(q, k)
  \/ \E q \in Callers : RecordUsage(q)

TenantsSpec == TenantsInit /\ [][TenantsNext]_tenantVars

-----------------------------------------------------------------------------
(* Properties *)

\* A tenant is billed only for requests that came with a key of its identifier,
\* however creations, verifications and usage posts interleave: with its own,
\* and after a collision with one of those that were issued for the identifier,
\* never with a key that leads elsewhere.
BilledIsOwn ==
  \A t \in DOMAIN tenants :
    /\ tenants[t].billed \subseteq {k \in DOMAIN keyIndex : keyIndex[k] = t}
    /\ t \notin collided => tenants[t].billed \subseteq {tenants[t].key}
=============================================================================
