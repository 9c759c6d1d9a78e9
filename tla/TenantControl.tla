---------------------------- MODULE TenantControl ----------------------------
(***************************************************************************)
(* What decides the runtime of a tenant's next run: its status, its        *)
(* license, runtime_backend, its runtime configurations and the kill       *)
(* switch of the process (admin/gateway_service.py, runtime_config/        *)
(* service.py, tenancy/service.py, licensing/service.py).                  *)
(*                                                                         *)
(* Every request authenticates first, and what its plain SELECTs show is   *)
(* the database as it was then: its view.  The tenant's row is read        *)
(* FOR UPDATE, as it is.  The writes of administrators carry an            *)
(* Idempotency-Key and leave a record of it in their own transaction.      *)
(***************************************************************************)
EXTENDS Integers, Sequences

CONSTANTS
  Requests,    \* requests under way, each of one transaction
  MaxWrites,   \* bound: writes of the administrators, each with an Idempotency-Key
  MaxConfigs,  \* bound: runtime configurations of the tenant
  MaxLicenses, \* bound: licenses of the tenant
  MaxTenantRuns \* bound: runs

ASSUME TenantAssumption ==
  MaxWrites \in Nat /\ MaxConfigs \in Nat /\ MaxLicenses \in Nat \ {0} /\ MaxTenantRuns \in Nat

VARIABLES
  taTenant,   \* the row of the tenant
  taConfigs,  \* its runtime configurations, by version
  taLicenses, \* how many licenses it has
  taKill,     \* PI_GATEWAY_KILL_SWITCH of the process
  taRuns,     \* its runs: configuration (0 for the system's), backend, still active
  taRequests, \* what each request is about to do
  taEffects   \* how often each key has had its effect; the record is there from the first

taVars == <<taTenant, taConfigs, taLicenses, taKill, taRuns, taRequests, taEffects>>

Backends == {"current", "pi"}
SystemConfig == 0
NoSnapshot == [config |-> 0, backend |-> "none"]
NoRequest == [op |-> "none"]

TenantIsIdle == \A i \in 1..Len(taRuns) : ~ taRuns[i].active

\* A tenant as create_tenant leaves it, with a license of its own and the system's
\* configuration; or later, when its first configuration has been activated, and the
\* next one may have been written.
TaInit ==
  /\ \/ taConfigs = <<>>
     \/ \E b \in Backends : taConfigs = <<[status |-> "active", backend |-> b]>>
     \/ \E b, d \in Backends : taConfigs = <<[status |-> "active", backend |-> b],
                                             [status |-> "draft", backend |-> d]>>
  /\ taTenant = [status |-> "active", backend |-> "current", license |-> 1,
                 config |-> IF taConfigs = <<>> THEN SystemConfig ELSE 1]
  /\ taLicenses = 1
  /\ taKill \in BOOLEAN
  /\ taRuns = <<>>
  /\ taRequests = [q \in Requests |-> NoRequest]
  /\ taEffects = [k \in 1..MaxWrites |-> 0]

-----------------------------------------------------------------------------
\* The administrators' writes, each with what the view shows of what it reads.
AdminOps(keys) ==
       [op : {"version"}, key : keys, backend : Backends, seen : {Len(taConfigs)}]
  \cup [op : {"activate"}, key : keys, config : 1..Len(taConfigs), locked : {FALSE}]
  \cup [op : {"switch"}, key : keys, backend : Backends, configs : {taConfigs}]
  \cup [op : {"status"}, key : keys, status : {"active", "disabled"}, idle : {TenantIsIdle}]
  \cup [op : {"license"}, key : keys, seen : {taLicenses}]
  \cup [op : {"licensed"}, key : keys, license : 1..taLicenses, on : BOOLEAN]

\* _idempotent: a request whose key has a record is answered from it.  Any other has
\* a key not used yet (any of them does), or repeats a request that is under way.
Keys == 1..MaxWrites
UnderWay(k) == \E q \in Requests : taRequests[q].op \notin {"none", "message"} /\ taRequests[q].key = k
Unused(k) == taEffects[k] = 0 /\ ~ UnderWay(k)

AdminArrives(q) ==
  /\ taRequests[q] = NoRequest
  /\ \E k \in Keys : \E request \in AdminOps({k}) :
       /\ taEffects[k] = 0
       /\ UnderWay(k) \/ \A l \in 1..k - 1 : ~ Unused(l)
       /\ taRequests' = [taRequests EXCEPT ![q] = request]
  /\ UNCHANGED <<taTenant, taConfigs, taLicenses, taKill, taRuns, taEffects>>

\* resolve_current_user refuses the users of a tenant that is not active.
MessageArrives(q) ==
  /\ taRequests[q] = NoRequest
  /\ taTenant.status = "active"
  /\ taRequests' = [taRequests EXCEPT ![q] =
       [op |-> "message", tenant |-> taTenant, configs |-> taConfigs]]
  /\ UNCHANGED <<taTenant, taConfigs, taLicenses, taKill, taRuns, taEffects>>

Ends(q) == taRequests' = [taRequests EXCEPT ![q] = NoRequest]

\* The record is inserted last; if its key is there by now, everything is rolled back.
WinsMut(q) == TRUE
Wins(q) == taEffects[taRequests[q].key] = 0
Commits(q) ==
  /\ Wins(q)
  /\ taEffects' = [taEffects EXCEPT ![taRequests[q].key] = @ + 1]
  /\ Ends(q)

\* Configurations whose row an activation that is under way has locked.
LockedBy(q) == {c \in 1..Len(taConfigs) :
  taRequests[q].op = "activate" /\ taRequests[q].locked /\ taRequests[q].config = c}
LockedByOthers(q) == UNION {LockedBy(p) : p \in Requests \ {q}}

-----------------------------------------------------------------------------
\* The number of the version comes from the view, and the tenant must not have it yet.
CreateTenantVersion(q) ==
  LET r == taRequests[q] IN
  /\ r.op = "version"
  /\ r.seen = Len(taConfigs) /\ r.seen < MaxConfigs
  /\ taConfigs' = Append(taConfigs, [status |-> "draft", backend |-> r.backend])
  /\ Commits(q)
  /\ UNCHANGED <<taTenant, taLicenses, taKill, taRuns>>

\* activate locks the configuration, and then the tenant and the active ones.
LockConfig(q) ==
  LET r == taRequests[q] IN
  /\ r.op = "activate" /\ ~ r.locked
  /\ r.config \notin LockedByOthers(q)
  /\ taConfigs[r.config].status # "retired"
  /\ taRequests' = [taRequests EXCEPT ![q].locked = TRUE]
  /\ UNCHANGED <<taTenant, taConfigs, taLicenses, taKill, taRuns, taEffects>>

ActiveConfigs == {c \in 1..Len(taConfigs) : taConfigs[c].status = "active"}

RetiredMut(c) == {}     \* the loop over the previous ones forgotten
Retired(c) == ActiveConfigs \ {c}

ActivateConfig(q) ==
  LET r == taRequests[q] IN
  /\ r.op = "activate" /\ r.locked
  /\ Retired(r.config) \cap LockedByOthers(q) = {}
  /\ taConfigs' = [c \in 1..Len(taConfigs) |->
       IF c \in Retired(r.config) THEN [taConfigs[c] EXCEPT !.status = "retired"]
       ELSE IF c = r.config THEN [taConfigs[c] EXCEPT !.status = "active"]
       ELSE taConfigs[c]]
  /\ taTenant' = [taTenant EXCEPT !.config = r.config]
  /\ Commits(q)
  /\ UNCHANGED <<taLicenses, taKill, taRuns>>

\* The tenant's configuration is looked for in the view, the Gateway may be well.
PiIsReady(configs) ==
  /\ taTenant.license # 0
  /\ taTenant.config \in 1..Len(configs)
  /\ configs[taTenant.config] = [status |-> "active", backend |-> "pi"]

SwitchBackend(q) ==
  LET r == taRequests[q] IN
  /\ r.op = "switch"
  /\ r.backend = "pi" /\ taTenant.backend # "pi" => PiIsReady(r.configs)
  /\ taTenant' = [taTenant EXCEPT !.backend = r.backend]
  /\ Commits(q)
  /\ UNCHANGED <<taConfigs, taLicenses, taKill, taRuns>>

\* A tenant with active runs is not disabled, as far as the view shows them.
UpdateStatus(q) ==
  LET r == taRequests[q] IN
  /\ r.op = "status"
  /\ r.status = "disabled" => r.idle
  /\ taTenant' = [taTenant EXCEPT !.status = r.status]
  /\ Commits(q)
  /\ UNCHANGED <<taConfigs, taLicenses, taKill, taRuns>>

CreateLicense(q) ==
  LET r == taRequests[q] IN
  /\ r.op = "license"
  /\ r.seen = taLicenses /\ r.seen < MaxLicenses
  /\ taLicenses' = taLicenses + 1
  /\ Commits(q)
  /\ UNCHANGED <<taTenant, taConfigs, taKill, taRuns>>

\* license_status is active exactly while there is an active license.
UpdateLicenseStatus(q) ==
  LET r == taRequests[q] IN
  /\ r.op = "licensed"
  /\ taTenant' = [taTenant EXCEPT !.license =
                    IF r.on THEN r.license ELSE IF @ = r.license THEN 0 ELSE @]
  /\ Commits(q)
  /\ UNCHANGED <<taConfigs, taLicenses, taKill, taRuns>>

-----------------------------------------------------------------------------
EffectiveRuntimeBackend == IF taKill THEN "current" ELSE taTenant.backend

\* snapshot_for_new_run; the rows of the configurations are those of the view.
PointerMut(tenant) == tenant.config     \* the tenant's row from the view, too
Pointer(tenant) == taTenant.config

SnapshotForNewRun(tenant, configs) ==
  LET c == IF taKill THEN SystemConfig ELSE Pointer(tenant)
      fits == IF c = SystemConfig
                THEN EffectiveRuntimeBackend = "current"
                ELSE /\ c <= Len(configs)
                     /\ configs[c] = [status |-> "active", backend |-> EffectiveRuntimeBackend]
  IN IF fits THEN [config |-> c, backend |-> EffectiveRuntimeBackend] ELSE NoSnapshot

\* append_message and the other requests that make a run of a user.
StartRun(q) ==
  LET r == taRequests[q]
      snapshot == SnapshotForNewRun(r.tenant, r.configs)
  IN /\ r.op = "message"
     /\ taTenant.status = "active"     \* resolve_user, FOR UPDATE
     /\ r.tenant.license # 0      \* authorize_run, in the view
     /\ snapshot # NoSnapshot
     /\ Len(taRuns) < MaxTenantRuns
     /\ taRuns' = Append(taRuns, [config |-> snapshot.config, backend |-> snapshot.backend,
                                  active |-> TRUE])
     /\ Ends(q)
     /\ UNCHANGED <<taTenant, taConfigs, taLicenses, taKill, taEffects>>

RunEnds ==
  \E i \in 1..Len(taRuns) :
    /\ taRuns[i].active
    /\ taRuns' = [taRuns EXCEPT ![i].active = FALSE]
    /\ UNCHANGED <<taTenant, taConfigs, taLicenses, taKill, taRequests, taEffects>>

\* An error, an answer from the record, a deadlock, the end of the connection.
RolledBack(q) ==
  /\ taRequests[q] # NoRequest
  /\ Ends(q)
  /\ UNCHANGED <<taTenant, taConfigs, taLicenses, taKill, taRuns, taEffects>>

\* The kill switch is read when the process starts.
Restart ==
  /\ taKill' \in BOOLEAN
  /\ taRequests' = [q \in Requests |-> NoRequest]
  /\ UNCHANGED <<taTenant, taConfigs, taLicenses, taRuns, taEffects>>

TaNext ==
  \/ \E q \in Requests :
       \/ AdminArrives(q) \/ MessageArrives(q)
       \/ CreateTenantVersion(q) \/ LockConfig(q) \/ ActivateConfig(q)
       \/ SwitchBackend(q) \/ UpdateStatus(q)
       \/ CreateLicense(q) \/ UpdateLicenseStatus(q)
       \/ StartRun(q) \/ RolledBack(q)
  \/ RunEnds
  \/ Restart

TaSpec == TaInit /\ [][TaNext]_taVars

-----------------------------------------------------------------------------
TaTypeOK ==
  /\ taTenant \in [status : {"active", "disabled"}, backend : Backends,
                   license : 0..taLicenses, config : 0..Len(taConfigs)]
  /\ taConfigs \in Seq([status : {"draft", "active", "retired"}, backend : Backends])
  /\ taRuns \in Seq([config : 0..Len(taConfigs), backend : Backends, active : BOOLEAN])
  /\ taKill \in BOOLEAN /\ taLicenses \in 1..MaxLicenses
  /\ taEffects \in [Keys -> Nat]

\* However activations, switches and messages meet: the tenant's pointer names its
\* one active configuration, a run has the backend of the configuration it is
\* frozen with and no draft's, and a write that is sent twice is done once.
OneActiveConfig == ActiveConfigs = {taTenant.config} \ {0}

RunsFitTheirConfig ==
  \A i \in 1..Len(taRuns) :
    IF taRuns[i].config = SystemConfig THEN taRuns[i].backend = "current"
    ELSE /\ taConfigs[taRuns[i].config].status # "draft"
         /\ taConfigs[taRuns[i].config].backend = taRuns[i].backend

KeysActOnce == \A k \in Keys : taEffects[k] <= 1

TenantIsSound == OneActiveConfig /\ RunsFitTheirConfig /\ KeysActOnce

\* A run starts with what the tenant has then, not with what it had when the
\* request came.
RunsStartRight ==
  [][Len(taRuns') > Len(taRuns) =>
       LET run == taRuns'[Len(taRuns')] IN
       /\ run.config \in {SystemConfig} \cup ActiveConfigs
       /\ ~ taKill => run.config = taTenant.config]_taVars
=============================================================================
