------------------------------- MODULE Plugins -------------------------------
(* PluginsService (plugins.ts, skillInstaller.ts, mcp.ts): the connections of *)
(* MCP servers and of provider accounts that Turns share in a pool, the       *)
(* leases through which a Turn uses them, installed Skills with their         *)
(* directories, and the authorization of accounts.                            *)
(*                                                                            *)
(* A source is an MCP connection or the one service of an account; its        *)
(* generation stands for the object that is replaced when it is saved or      *)
(* authorized again. Tools, catalogs, tokens and their contents are left out. *)
EXTENDS Naturals, FiniteSets

CONSTANTS Mcps, Accounts,  \* the sources
          Revisions,       \* of the one Skill; each has a directory of its own
          Leases,          \* Turns
          MaxEntries,      \* bound: connections ever opened
          MaxEdits         \* bound: changes of the configuration, checks and connections lost

ASSUME PluginsAssumption ==
  /\ Mcps \cap Accounts = {} /\ {MaxEntries, MaxEdits} \subseteq Nat
  /\ IsFiniteSet(Mcps) /\ IsFiniteSet(Accounts) /\ IsFiniteSet(Leases)

VARIABLES config,   \* per source: is it there and enabled, its generation, what was recorded of it
          pool,     \* every connection, by its number
          lease,    \* per Turn
          checks,   \* connections held by checkMcp
          grants,   \* authorization under way, refreshes under way, and ghost: grants refused
          skill,    \* the configured Skill, its installation under way, and the pass of updates
          dirs,     \* Skill directories: there, and being removed
          wanted,   \* ghost: what the user last made of the Skill, or that a pass brought it back
          service   \* edits so far, and whether the service is stopping

pluginVars == <<config, pool, lease, checks, grants, skill, dirs, wanted, service>>

Sources == Mcps \cup Accounts
NoRevision == "none"
NoInstall == [phase |-> "none", existed |-> FALSE, rev |-> NoRevision]

PluginsInit ==
  /\ config = [s \in Sources |-> [there |-> FALSE, on |-> FALSE, gen |-> 0, seen |-> 0, ok |-> TRUE]]
  /\ pool = <<>>
  /\ lease = [l \in Leases |-> [phase |-> "idle", entries |-> {}, dirs |-> {}]]
  /\ checks = {}
  /\ grants = [pending |-> {}, refreshing |-> {}, refused |-> {}]
  /\ skill = [there |-> FALSE, on |-> FALSE, rev |-> NoRevision, install |-> NoInstall, pass |-> "none"]
  /\ dirs = [kept |-> {}, removing |-> {}]
  /\ wanted = "none"
  /\ service = [edits |-> 0, gen |-> 0, stopping |-> FALSE]

-----------------------------------------------------------------------------
(* The pool.                                                                  *)

Entries == DOMAIN pool
Holders(i) == Cardinality({l \in Leases : i \in lease[l].entries}) + Cardinality({c \in checks : c = i})

\* An entry's keep(): its source is still there, enabled, and the same.
Keep(cfg, e) == cfg[e.source].there /\ cfg[e.source].on /\ cfg[e.source].gen = e.gen

\* Mutant: a reaped connection is one that is not configured, in use or not.
IdleAnyhow(i, held) == TRUE

\* An entry nobody holds.
Idle(i, held) == i \notin held

\* #reap: idle entries that are no longer configured leave the pool and are closed.
Reaped(p, cfg, held, stopping) ==
  [i \in DOMAIN p |->
     IF p[i].pooled /\ Idle(i, held) /\ (stopping \/ ~Keep(cfg, p[i]))
     THEN [p[i] EXCEPT !.pooled = FALSE, !.phase = "closed"] ELSE p[i]]

HeldBy(ls, cs) == cs \cup UNION {ls[l].entries : l \in Leases}

\* #persist(true): the configuration changed, and unused connections are closed.
Configured(cfg) ==
  /\ config' = cfg
  /\ pool' = Reaped(pool, cfg, HeldBy(lease, checks), service.stopping)

Edit == service.edits < MaxEdits /\ ~service.stopping
Edits == service' = [service EXCEPT !.edits = @ + 1]
NewGen == service.gen + 1
EditsWithGen == service' = [service EXCEPT !.edits = @ + 1, !.gen = NewGen]

\* saveMcp: a connection with a new generation, unchecked.
SaveMcp(s, enabled) ==
  /\ Edit /\ EditsWithGen
  /\ Configured([config EXCEPT ![s] = [there |-> TRUE, on |-> enabled, gen |-> NewGen, seen |-> 0, ok |-> TRUE]])
  /\ UNCHANGED <<lease, checks, grants, skill, dirs, wanted>>

\* enableMcp, enableService: an account that must be authorized again enables nothing.
EnableSource(s, enabled) ==
  /\ Edit /\ Edits
  /\ config[s].there /\ config[s].on # enabled
  /\ enabled => config[s].ok
  /\ Configured([config EXCEPT ![s].on = enabled])
  /\ UNCHANGED <<lease, checks, grants, skill, dirs, wanted>>

RemoveSource(s) ==
  /\ Edit /\ Edits
  /\ config[s].there
  /\ Configured([config EXCEPT ![s] = [@ EXCEPT !.there = FALSE, !.on = FALSE, !.seen = 0, !.ok = TRUE]])
  /\ UNCHANGED <<lease, checks, grants, skill, dirs, wanted>>

RemoveMcp(s) == s \in Mcps /\ RemoveSource(s)
DisconnectAccount(s) == s \in Accounts /\ RemoveSource(s)

PooledFor(p, s) == {i \in DOMAIN p : p[i].pooled /\ p[i].source = s /\ p[i].gen = config[s].gen}

\* #connection for every source of a set: the pooled entry, or a new one that connects.
WithConnections(ss) ==
  LET new == {s \in ss : PooledFor(pool, s) = {}}
      at == CHOOSE f \in [new -> Cardinality(Entries) + 1 .. Cardinality(Entries) + Cardinality(new)] :
              \A s, t \in new : f[s] = f[t] => s = t
  IN [i \in 1 .. Cardinality(Entries) + Cardinality(new) |->
        IF i \in Entries THEN pool[i]
        ELSE LET s == CHOOSE t \in new : at[t] = i
             IN [source |-> s, gen |-> config[s].gen, pooled |-> TRUE, phase |-> "connecting"]]

EntriesFor(p, ss) == UNION {PooledFor(p, s) : s \in ss}

\* #tools, for what is pooled: a connection whose list failed is asked for it again.
Asked(ss) ==
  LET p == WithConnections(ss) IN
  [i \in DOMAIN p |-> IF p[i].phase = "unlisted" /\ i \in EntriesFor(pool, ss)
                      THEN [p[i] EXCEPT !.phase = "connecting"] ELSE p[i]]

\* The connection or account object this entry was made for is still the configured one.
Own(e) == config[e.source].there /\ config[e.source].gen = e.gen

\* What entries told is recorded for their own sources, unless one must be authorized again.
Recorded(es) ==
  [s \in Sources |->
     IF config[s].ok /\ \E e \in es : e.source = s /\ Own(e)
     THEN [config[s] EXCEPT !.seen = (CHOOSE e \in es : e.source = s).gen] ELSE config[s]]

\* Of entries whose tools are known, at once for those that ask for them.
Listed(p, ss) == {p[i] : i \in {j \in EntriesFor(p, ss) : p[j].phase = "open"}}

\* #connection and #tools settle: the tools are there; or the connection failed and leaves the
\* pool; or only the list failed, and is asked again by the next Turn.
EntrySettles(i, phase) ==
  /\ pool[i].phase = "connecting"
  /\ pool' = [pool EXCEPT ![i].phase = phase, ![i].pooled = @ /\ phase # "failed"]
  /\ config' = IF Holders(i) > 0 /\ pool[i].source \in Mcps THEN Recorded({pool[i]}) ELSE config
  /\ UNCHANGED <<lease, checks, grants, skill, dirs, wanted, service>>

\* onclose: the server ended the connection.
ServerCloses(i) ==
  /\ Edit /\ Edits
  /\ pool[i].phase \in {"open", "unlisted"}
  /\ pool' = [pool EXCEPT ![i].phase = "lost", ![i].pooled = FALSE]
  /\ UNCHANGED <<config, lease, checks, grants, skill, dirs, wanted>>

\* checkMcp holds the entry like a lease, also of a connection that is disabled.
CheckMcp(s) ==
  /\ Edit /\ Edits
  /\ config[s].there /\ checks = {}
  /\ pool' = Asked({s})
  /\ Cardinality(DOMAIN pool') <= MaxEntries
  /\ checks' = EntriesFor(pool', {s})
  /\ config' = Recorded(Listed(pool', {s}))
  /\ UNCHANGED <<lease, grants, skill, dirs, wanted>>

CheckEnds(i) ==
  /\ i \in checks /\ pool[i].phase # "connecting"
  /\ checks' = checks \ {i}
  /\ pool' = Reaped(pool, config, HeldBy(lease, checks'), service.stopping)
  /\ UNCHANGED <<config, lease, grants, skill, dirs, wanted, service>>

-----------------------------------------------------------------------------
(* Leases.                                                                    *)

EnabledSource(s) == config[s].there /\ config[s].on /\ (s \in Accounts => config[s].ok)

\* acquire captures what is enabled, and holds it, before it awaits anything.
Acquire(l) ==
  /\ ~service.stopping
  /\ lease[l].phase = "idle"
  /\ LET ss == {s \in Sources : EnabledSource(s)} IN
     /\ pool' = Asked(ss)
     /\ Cardinality(DOMAIN pool') <= MaxEntries
     /\ lease' = [lease EXCEPT ![l] = [phase |-> "opening", entries |-> EntriesFor(pool', ss),
                                       dirs |-> IF skill.there /\ skill.on THEN {skill.rev} ELSE {}]]
     /\ config' = Recorded(Listed(pool', ss \cap Mcps))
  /\ UNCHANGED <<checks, grants, skill, dirs, wanted, service>>

\* The snapshot is complete; a connection that failed is a diagnostic in it, and an error of
\* its account.
LeaseReady(l) ==
  /\ lease[l].phase = "opening"
  /\ \A i \in lease[l].entries : pool[i].phase # "connecting"
  /\ lease' = [lease EXCEPT ![l].phase = "held"]
  /\ config' = Recorded({pool[i] : i \in {j \in lease[l].entries : pool[j].source \in Accounts}})
  /\ UNCHANGED <<pool, checks, grants, skill, dirs, wanted, service>>

\* #removeUnusedSkill: a directory no lease and no Skill uses is removed, which takes a while.
Unused(ds, ls, sk) ==
  {d \in ds : d # NoRevision /\ ~(sk.there /\ sk.rev = d) /\ \A l \in Leases : d \notin ls[l].dirs}
Removing(ds, ls, sk) == dirs' = [dirs EXCEPT !.removing = @ \cup Unused(ds, ls, sk)]

\* release, by the end of the Turn or by an acquire that found its snapshot too large.
ReleaseLease(l) ==
  /\ lease[l].phase = "held"
  /\ lease' = [lease EXCEPT ![l] = [phase |-> "ended", entries |-> {}, dirs |-> {}]]
  /\ pool' = Reaped(pool, config, HeldBy(lease', checks), service.stopping)
  /\ Removing(lease[l].dirs, lease', skill)
  /\ UNCHANGED <<config, checks, grants, skill, wanted, service>>

-----------------------------------------------------------------------------
(* Accounts.                                                                  *)

\* authorize: for an account that is there, or for a new one. Bound: one authorization at a
\* time.
Authorize(a) ==
  /\ Edit /\ Edits
  /\ grants.pending = {}
  /\ grants' = [grants EXCEPT !.pending = {[account |-> a, known |-> config[a].there, phase |-> "asked"]}]
  /\ UNCHANGED <<config, pool, lease, checks, skill, dirs, wanted>>

\* finishAuthorization takes the pending state, and awaits the tokens and the identity.
Callback(p) ==
  /\ p.phase = "asked"
  /\ grants' = [grants EXCEPT !.pending = {[p EXCEPT !.phase = "exchanging"]}]
  /\ UNCHANGED <<config, pool, lease, checks, skill, dirs, wanted, service>>

\* The account is looked up again after the awaits.
StillKnown(p) == p.known => config[p.account].there

\* The account gets the new grant and keeps the services that grant allows, or the
\* authorization is refused.
Authorized(p, allowed) ==
  LET a == p.account IN
  /\ p.phase = "exchanging" /\ StillKnown(p)
  /\ ~p.known => ~config[a].there
  /\ Configured([config EXCEPT ![a] = [there |-> TRUE, on |-> allowed /\ (p.known => config[a].on),
                                       gen |-> NewGen, seen |-> 0, ok |-> TRUE]])
  /\ service' = [service EXCEPT !.gen = NewGen]
  /\ grants' = [grants EXCEPT !.pending = {}]
  /\ UNCHANGED <<lease, checks, skill, dirs, wanted>>

NotAuthorized(p) ==
  /\ grants' = [grants EXCEPT !.pending = {}]
  /\ UNCHANGED <<config, pool, lease, checks, skill, dirs, wanted, service>>

\* The grants that requests of Turns still carry.
GrantsInUse == {pool[i].gen : i \in {j \in Entries : pool[j].source \in Accounts /\ Holders(j) > 0}}

\* #token: one refresh of a grant at a time. Bound: a grant that was refused is not tried again.
Refresh(g) ==
  /\ g \notin grants.refreshing \cup grants.refused
  /\ grants' = [grants EXCEPT !.refreshing = @ \cup {g}]
  /\ UNCHANGED <<config, pool, lease, checks, skill, dirs, wanted, service>>

\* The provider refuses the grant, or what was refreshed: the account that still has it must
\* be authorized again.
RefreshEnds(g, refused) ==
  /\ g \in grants.refreshing
  /\ grants' = [grants EXCEPT !.refreshing = @ \ {g}, !.refused = IF refused THEN @ \cup {g} ELSE @]
  /\ config' = [s \in Sources |->
                  IF refused /\ s \in Accounts /\ Own([source |-> s, gen |-> g])
                  THEN [config[s] EXCEPT !.ok = FALSE] ELSE config[s]]
  /\ UNCHANGED <<pool, lease, checks, skill, dirs, wanted, service>>

-----------------------------------------------------------------------------
(* Skills.                                                                    *)

\* installSkill: one installation at a time, which a second call joins.
Installing ==
  [skill EXCEPT !.install = IF @.phase # "none" THEN @
                            ELSE [phase |-> "fetching", existed |-> skill.there, rev |-> NoRevision]]

\* installSkill for the user; one that joins an update of a Skill removed meanwhile fails with it.
InstallSkill ==
  /\ Edit /\ Edits
  /\ skill' = Installing
  /\ wanted' = IF skill.there \/ skill'.install.existed THEN wanted ELSE "on"
  /\ UNCHANGED <<config, pool, lease, checks, grants, dirs>>

\* updateSkills, by its timer or the user: it copies the list, and Skills before this one come first.
UpdatesStart ==
  /\ Edit /\ Edits
  /\ skill.there /\ skill.pass = "none"
  /\ skill' = [skill EXCEPT !.pass = "listed"]
  /\ UNCHANGED <<config, pool, lease, checks, grants, dirs, wanted>>

\* The pass comes to this Skill of its copy, and installs it, be it still there or not.
UpdateReaches ==
  /\ ~service.stopping /\ skill.pass = "listed"
  /\ skill' = [Installing EXCEPT !.pass = "waiting"]
  /\ UNCHANGED <<config, pool, lease, checks, grants, dirs, wanted, service>>

\* The pass goes on once the installation it waits for has ended.
PassAfter == IF skill.pass = "waiting" THEN "none" ELSE skill.pass

\* materializeSkill: the revision gets its directory, or finds it there already.
Materialized(r) ==
  /\ skill.install.phase = "fetching"
  /\ skill' = [skill EXCEPT !.install.phase = "materialized", !.install.rev = r]
  /\ dirs' = [dirs EXCEPT !.kept = @ \cup {r}]
  /\ UNCHANGED <<config, pool, lease, checks, grants, wanted, service>>

\* Mutant: a Skill that was removed during its update is added again.
OvertakenNever == service.stopping

\* The Skill was removed, or the service stopped, during the installation.
Overtaken == service.stopping \/ (skill.install.existed /\ ~skill.there)

\* A Skill that a pass installs after the user removed it is new, and so enabled.
InstallEnds ==
  LET r == skill.install.rev
      done == [skill EXCEPT !.install = NoInstall, !.pass = PassAfter]
  IN
  /\ skill.install.phase = "materialized"
  /\ skill' = IF Overtaken THEN done
              ELSE [done EXCEPT !.there = TRUE, !.on = skill.there => skill.on, !.rev = r]
  /\ wanted' = IF ~Overtaken /\ ~skill.there /\ ~skill.install.existed /\ wanted = "none"
               THEN "revived" ELSE wanted
  /\ Removing(IF Overtaken THEN {r} ELSE {skill.rev}, lease, skill')
  /\ UNCHANGED <<config, pool, lease, checks, grants, service>>

InstallFails ==
  /\ skill.install.phase = "fetching"
  /\ skill' = [skill EXCEPT !.install = NoInstall, !.pass = PassAfter]
  /\ wanted' = IF skill.there THEN wanted ELSE "none"
  /\ UNCHANGED <<config, pool, lease, checks, grants, dirs, service>>

EnableSkill(on) ==
  /\ Edit /\ Edits
  /\ skill.there /\ skill.on # on
  /\ skill' = [skill EXCEPT !.on = on]
  /\ wanted' = IF on THEN "on" ELSE "off"
  /\ UNCHANGED <<config, pool, lease, checks, grants, dirs>>

RemoveSkill ==
  /\ Edit /\ Edits
  /\ skill.there
  /\ skill' = [skill EXCEPT !.there = FALSE, !.on = FALSE, !.rev = NoRevision]
  /\ wanted' = "none"
  /\ Removing({skill.rev}, lease, skill')
  /\ UNCHANGED <<config, pool, lease, checks, grants>>

\* rm of a directory has ended.
DirectoryRemoved(d) ==
  /\ d \in dirs.removing
  /\ dirs' = [kept |-> dirs.kept \ {d}, removing |-> dirs.removing \ {d}]
  /\ UNCHANGED <<config, pool, lease, checks, grants, skill, wanted, service>>

-----------------------------------------------------------------------------
\* shutdown: it awaits the installations, then closes every connection.
Shutdown ==
  /\ ~service.stopping
  /\ service' = [service EXCEPT !.stopping = TRUE]
  /\ grants' = [grants EXCEPT !.pending = {p \in @ : p.phase # "asked"}]
  /\ UNCHANGED <<config, pool, lease, checks, skill, dirs, wanted>>

PoolCloses ==
  /\ service.stopping /\ skill.install = NoInstall
  /\ \E i \in Entries : pool[i].pooled
  /\ \A i \in Entries : pool[i].phase # "connecting"
  /\ pool' = [i \in Entries |-> IF pool[i].pooled THEN [pool[i] EXCEPT !.pooled = FALSE, !.phase = "closed"]
                                ELSE pool[i]]
  /\ UNCHANGED <<config, lease, checks, grants, skill, dirs, wanted, service>>

PluginsNext ==
  \/ \E s \in Mcps : SaveMcp(s, TRUE) \/ SaveMcp(s, FALSE) \/ CheckMcp(s)
  \/ \E s \in Sources : EnableSource(s, TRUE) \/ EnableSource(s, FALSE) \/ RemoveMcp(s) \/ DisconnectAccount(s)
  \/ \E i \in Entries :
       \/ \E phase \in {"open", "unlisted", "failed"} : EntrySettles(i, phase)
       \/ ServerCloses(i) \/ CheckEnds(i)
  \/ \E l \in Leases : Acquire(l) \/ LeaseReady(l) \/ ReleaseLease(l)
  \/ \E a \in Accounts : Authorize(a)
  \/ \E p \in grants.pending :
       Callback(p) \/ Authorized(p, TRUE) \/ Authorized(p, FALSE) \/ NotAuthorized(p)
  \/ \E g \in GrantsInUse : Refresh(g)
  \/ \E g \in grants.refreshing : RefreshEnds(g, TRUE) \/ RefreshEnds(g, FALSE)
  \/ InstallSkill \/ UpdatesStart \/ UpdateReaches \/ InstallEnds \/ InstallFails \/ RemoveSkill
  \/ \E r \in Revisions : Materialized(r) \/ DirectoryRemoved(r)
  \/ EnableSkill(TRUE) \/ EnableSkill(FALSE)
  \/ Shutdown \/ PoolCloses

PluginsSpec == PluginsInit /\ [][PluginsNext]_pluginVars

-----------------------------------------------------------------------------
(* Properties. *)

PluginsTypeOK ==
  /\ \A i \in Entries : pool[i].phase \in {"connecting", "open", "unlisted", "failed", "lost", "closed"}
  /\ Entries \subseteq 1..MaxEntries
  /\ skill.rev \in Revisions \cup {NoRevision}
  /\ dirs.kept \cup dirs.removing \subseteq Revisions

\* Turns share connections: none is closed under a Turn or a check that holds it, as long as
\* the service runs; and none outlives its configuration once the last of them has let go,
\* whatever was saved, disabled, disconnected or lost meanwhile.
ConnectionsAreHeld ==
  ~service.stopping => \A i \in Entries :
     /\ pool[i].phase = "closed" => Holders(i) = 0
     /\ pool[i].pooled /\ Holders(i) = 0 => Keep(config, pool[i])
     /\ pool[i].phase \in {"connecting", "open", "unlisted"} => pool[i].pooled

\* What ends late is recorded only where it still belongs. A status is of the connection as it
\* is configured now, an account is to be authorized again only for a grant that was refused,
\* and an update neither enables a Skill the user disabled nor brings back one removed while it
\* ran; what a pass comes to late, from its copy of the list, is the exception below.
LateResultsAreOwn ==
  /\ \A s \in Sources : config[s].seen \in {0, config[s].gen}
  /\ \A a \in Accounts : ~config[a].ok => config[a].gen \in grants.refused
  /\ skill.there => \/ wanted = IF skill.on THEN "on" ELSE "off"
                    \/ wanted = "revived" /\ skill.on

\* Neither a connection nor a late result escapes the configuration the user sees, in whatever order
\* Turns, checks, updates and authorizations end.
PluginsAreSound == PluginsTypeOK /\ ConnectionsAreHeld /\ LateResultsAreOwn
=============================================================================
