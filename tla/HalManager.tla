----------------------------- MODULE HalManager -----------------------------
(***************************************************************************)
(* The HAL manager: RPC worker threads and the polling thread of one        *)
(* manager process, working on the provider catalog, the pinned selections  *)
(* and their store, the device routes and the active providers.             *)
(*                                                                          *)
(* manager.py never holds _lock across a provider call, so a step below is  *)
(* one critical section of _lock together with the provider call before it; *)
(* everything else interleaves.  The one critical section that touches the  *)
(* disk, the commit of a selection, is split so that the process can die    *)
(* inside it.  What discovery and the providers answer is arbitrary, so the *)
(* health snapshot, a record of past answers, is not part of the state.     *)
(***************************************************************************)
EXTENDS Naturals, FiniteSets

CONSTANTS Domains, Providers, Devices,
          DomainOf,     \* the domain prefix of a device id
          Rank,         \* catalog order: priority, then component name
          Catalogs,     \* what discovery and describe may yield
          Answers,      \* what a provider may answer a probe
          Workers,      \* RPC worker threads; worker p serves client p
          Poller,       \* the msys-hal-watch thread
          Requests,     \* the calls the clients make
          None,
          MaxRevision,  \* bound: events recorded by one manager process
          MaxRestarts   \* bound: manager restarts

Procs == Workers \cup {Poller}

Maybe(S) == S \cup {None}

(* The domains each candidate describes; {} is no candidate. *)
CatalogType == [Providers -> SUBSET Domains]

Request == [op : {"inventory", "get_state", "set_state", "list_providers",
                  "get_provider", "select_provider", "poll"},
            doms : SUBSET Domains, dev : Maybe(Devices),
            comp : Maybe(Providers), cas : BOOLEAN, refresh : BOOLEAN,
            probe : BOOLEAN, allow : BOOLEAN]

(* What handle accepts: a device is named where, and only where, a state is  *)
(* read or written; one domain where a provider is probed, inspected or      *)
(* selected; expected_revision only with a selection.                        *)
WellFormed(q) ==
    /\ q.dev # None <=> q.op \in {"get_state", "set_state"}
    /\ (q.op \in {"get_provider", "select_provider"} \/ q.probe)
           => \E d \in Domains : q.doms = {d}
    /\ q.cas => q.op = "select_provider"

ASSUME ManagerAssumption ==
    /\ DomainOf \in [Devices -> Domains]
    /\ Rank \in [Providers -> Nat]
    /\ \A a, b \in Providers : Rank[a] = Rank[b] => a = b
    /\ Catalogs \subseteq CatalogType
    /\ Requests \subseteq Request
    /\ \A q \in Requests : WellFormed(q)
    /\ Answers \subseteq {"available", "unavailable", "error"}
    /\ Poller \notin Workers
    /\ None \notin Domains \cup Providers \cup Devices \cup Procs
    /\ MaxRevision \in Nat
    /\ MaxRestarts \in Nat

VARIABLES catalog,      \* _candidates
          fresh,        \* _catalog_at is within catalog_ttl
          catalogLock,  \* holder of _catalog_lock
          lock,         \* thread inside a split critical section of _lock
          selections,   \* _selections
          store,        \* provider-selection.json
          routes,       \* _device_routes
          active,       \* _active_providers
          revision,     \* _revision
          polled,       \* _last_fingerprint is not None
          pc, req, loc, \* per thread: step, request, local variables
          basis,        \* per client: its last provider listing
          restarts

vars == <<catalog, fresh, catalogLock, lock, selections, store, routes, active,
          revision, polled, pc, req, loc, basis, restarts>>

DevicesOf(d) == {x \in Devices : DomainOf[x] = d}

NoReq == [op |-> "poll", doms |-> {}, dev |-> None, comp |-> None,
          cas |-> FALSE, refresh |-> FALSE, probe |-> FALSE, allow |-> FALSE]

NoRoutes == [x \in Devices |-> None]
NoPins == [d \in Domains |-> None]

(* ret: where refresh_catalog returns to; force: its argument; cands: the     *)
(* catalog it returned; todo, dom, queue, fallback, routes, active, pins: the *)
(* locals of inventory and _ordered_for; dev, target: the device in hand and  *)
(* its route; pending: devices poll_once still reads; rows: preferences read; *)
(* exp: the expected_revision argument; old: the preference being replaced.   *)
Idle == [ret |-> "idle", force |-> FALSE,
         cands |-> [c \in Providers |-> {}], doms |-> {}, todo |-> {},
         dom |-> None, queue |-> {},
         fallback |-> [comp |-> None, devs |-> {}], routes |-> NoRoutes,
         active |-> NoPins, pins |-> NoPins, dev |-> None, target |-> None,
         pending |-> {}, rows |-> NoPins, exp |-> None,
         old |-> None]

(* A client's knowledge: the domains it listed and the revision it was given. *)
(* As history: the process it asked (boot), the domains whose preference had  *)
(* changed between its row and the revision (outdated), and those whose       *)
(* preference was replaced since the revision was read (replaced).            *)
NoBasis == [doms |-> {}, rev |-> 0, boot |-> 0, outdated |-> {},
            replaced |-> {}]

Init ==
    /\ catalog = [c \in Providers |-> {}]
    /\ fresh = FALSE
    /\ catalogLock = None
    /\ lock = None
    /\ store = NoPins
    /\ selections = store
    /\ routes = NoRoutes
    /\ active = NoPins
    /\ revision = 0
    /\ polled = FALSE
    /\ pc = [p \in Procs |-> "idle"]
    /\ req = [p \in Procs |-> NoReq]
    /\ loc = [p \in Procs |-> Idle]
    /\ basis = [p \in Workers |-> NoBasis]
    /\ restarts = 0

-----------------------------------------------------------------------------
(* Threads and the bound on revisions. *)

At(p, l) == pc[p] = l
Unlocked == lock = None

Step(p, l, r) ==
    /\ pc' = [pc EXCEPT ![p] = l]
    /\ loc' = [loc EXCEPT ![p] = r]
    /\ UNCHANGED req

(* The handler returns, or raises and its client gets the error. *)
Finish(p) ==
    /\ pc' = [pc EXCEPT ![p] = "idle"]
    /\ loc' = [loc EXCEPT ![p] = Idle]
    /\ req' = [req EXCEPT ![p] = NoReq]

(* get_state and set_state return or raise; inside poll_once either way the  *)
(* poll goes on with the next device.                                        *)
Leave(p) ==
    IF req[p].op = "poll" /\ loc[p].dev # None
    THEN Step(p, "states", [loc[p] EXCEPT !.dev = None])
    ELSE Finish(p)

Mutating(p) == pc[p] # "idle" /\ req[p].op \in {"set_state", "select_provider"}

(* Room for one more event next to those the running calls may record. *)
Headroom ==
    revision + Cardinality({p \in Procs : Mutating(p) \/ At(p, "record")})
        < MaxRevision

-----------------------------------------------------------------------------
(* refresh_catalog: entered at "catalog", it returns to loc.ret. *)

Refresh(r, force, ret) == [r EXCEPT !.force = force, !.ret = ret]

CatalogCached == fresh /\ \E c \in Providers : catalog[c] # {}

MustDiscover(p) == loc[p].force \/ ~CatalogCached

ReturnCatalog(p, cat) == Step(p, loc[p].ret, [loc[p] EXCEPT !.cands = cat])

CheckCatalog(p) ==
    /\ At(p, "catalog") /\ Unlocked
    /\ \/ MustDiscover(p) /\ Step(p, "claim", loc[p])
       \/ ~MustDiscover(p) /\ ReturnCatalog(p, catalog)
    /\ UNCHANGED <<catalog, fresh, catalogLock, lock, selections, store,
                   routes, active, revision, polled, basis, restarts>>

(* _catalog_lock is taken and the catalog checked again. *)
ClaimCatalog(p) ==
    /\ At(p, "claim") /\ Unlocked /\ catalogLock = None
    /\ \/ /\ MustDiscover(p)
          /\ catalogLock' = p
          /\ Step(p, "discover", loc[p])
       \/ /\ ~MustDiscover(p)
          /\ ReturnCatalog(p, catalog)
          /\ UNCHANGED catalogLock
    /\ UNCHANGED <<catalog, fresh, lock, selections, store, routes, active,
                   revision, polled, basis, restarts>>

(* discover and the describe calls succeed; found lists what was accepted. *)
Discover(p, found) ==
    /\ At(p, "discover") /\ Unlocked
    /\ catalog' = found
    /\ fresh' = TRUE
    /\ catalogLock' = None
    /\ ReturnCatalog(p, found)
    /\ UNCHANGED <<lock, selections, store, routes, active, revision, polled,
                   basis, restarts>>

(* Slip: the lock is not released when discovery raises. *)
DiscoverFailsHolding(p) ==
    /\ At(p, "discover")
    /\ Leave(p)
    /\ UNCHANGED <<catalog, fresh, catalogLock, lock, selections, store, routes,
                   active, revision, polled, basis, restarts>>

(* discover raises: the exception leaves the method, the lock is released. *)
DiscoverFails(p) ==
    /\ At(p, "discover")
    /\ catalogLock' = None
    /\ Leave(p)
    /\ UNCHANGED <<catalog, fresh, lock, selections, store, routes, active,
                   revision, polled, basis, restarts>>

CatalogExpires ==
    /\ fresh
    /\ fresh' = FALSE
    /\ UNCHANGED <<catalog, catalogLock, lock, selections, store, routes,
                   active, revision, polled, pc, req, loc, basis,
                   restarts>>

Serving(cat, d) == {c \in Providers : d \in cat[c]}

First(S) == CHOOSE c \in S : \A b \in S : Rank[c] <= Rank[b]

-----------------------------------------------------------------------------
(* inventory and _probe_candidate. *)

(* The routes and active provider one domain contributes. *)
Settle(r, c, devs) ==
    [r EXCEPT !.active = [@ EXCEPT ![r.dom] = c],
              !.routes = [x \in Devices |-> IF x \in devs THEN c ELSE @[x]],
              !.todo = @ \ {r.dom}, !.dom = None, !.queue = {},
              !.fallback = Idle.fallback]

StartInventory(r, doms, force) ==
    [Refresh(r, force, "domains") EXCEPT
        !.doms = doms, !.todo = doms, !.routes = NoRoutes,
        !.active = NoPins, !.pins = NoPins]

(* The loop over the requested domains enters _ordered_for. *)
NextDomain(p, d) ==
    /\ At(p, "domains") /\ d \in loc[p].todo
    /\ Step(p, "catalog", [Refresh(loc[p], FALSE, "order") EXCEPT !.dom = d])
    /\ UNCHANGED <<catalog, fresh, catalogLock, lock, selections, store,
                   routes, active, revision, polled, basis, restarts>>

(* Slips: the pin is not looked for in the catalog; it does not stand alone. *)
OrderedBlindly(cat, d, preferred) == {preferred}
OrderedTogether(cat, d, preferred) == Serving(cat, d)

(* A pinned candidate stands alone; otherwise all are tried, best first. *)
Ordered(cat, d, preferred) ==
    IF preferred \in Serving(cat, d) THEN {preferred} ELSE Serving(cat, d)

OrderFor(p) ==
    LET d == loc[p].dom
        queue == Ordered(loc[p].cands, d, selections[d])
        pin == IF selections[d] \in queue THEN selections[d] ELSE None
        r == [loc[p] EXCEPT !.queue = queue, !.pins = [@ EXCEPT ![d] = pin]]
    IN  /\ At(p, "order") /\ Unlocked
        /\ IF queue = {} THEN Step(p, "domains", Settle(r, None, {}))
                         ELSE Step(p, "probe", r)
        /\ UNCHANGED <<catalog, fresh, catalogLock, lock, selections, store,
                       routes, active, revision, polled, basis,
                       restarts>>

(* _probe_candidate of the best untried candidate, and what inventory makes  *)
(* of the answer.                                                            *)
AfterProbe(r, c, answer, devs) ==
    LET manual == r.pins[r.dom] # None
        kept == IF answer = "unavailable" /\ r.fallback.comp = None
                THEN [comp |-> c, devs |-> devs] ELSE r.fallback
    IN  IF answer = "available" \/ (answer = "unavailable" /\ manual)
        THEN Settle(r, c, devs)
        ELSE IF r.queue = {c} THEN Settle(r, kept.comp, kept.devs)
        ELSE [r EXCEPT !.queue = @ \ {c}, !.fallback = kept]

Probe(p, answer, devs) ==
    LET c == First(loc[p].queue)
        d == loc[p].dom
        r == AfterProbe(loc[p], c, answer, devs)
    IN  /\ At(p, "probe") /\ Unlocked
        /\ devs \subseteq (IF answer = "error" THEN {} ELSE DevicesOf(d))
        /\ Step(p, IF r.queue = {} THEN "domains" ELSE "probe", r)
        /\ UNCHANGED <<catalog, fresh, catalogLock, lock, selections, store,
                       routes, active, revision, polled, basis, restarts>>

(* Slip: routes of devices that were not found again are kept. *)
MergedRoutes(p) ==
    [x \in Devices |-> IF loc[p].routes[x] # None THEN loc[p].routes[x]
                                                ELSE routes[x]]

NewRoutes(p) == loc[p].routes

(* inventory's last critical section: the routes are replaced as a whole. *)
Publish(p) ==
    /\ At(p, "domains") /\ loc[p].todo = {} /\ Unlocked
    /\ routes' = NewRoutes(p)
    /\ active' = [d \in Domains |-> IF d \in loc[p].doms
                                    THEN loc[p].active[d] ELSE active[d]]
    /\ CASE loc[p].dev # None -> Step(p, "lookup", loc[p])
         [] loc[p].dev = None /\ req[p].op = "poll" ->
              \E seen \in SUBSET {x \in Devices : loc[p].routes[x] # None} :
                 Step(p, "states", [loc[p] EXCEPT !.pending = seen])
         [] OTHER -> Finish(p)
    /\ UNCHANGED <<catalog, fresh, catalogLock, lock, selections, store,
                   revision, polled, basis, restarts>>

-----------------------------------------------------------------------------
(* _route, get_state and set_state. *)

(* _route(refresh=False): a cached route, or an inventory of the domain. *)
CachedRoute(p) ==
    LET x == loc[p].dev IN
    /\ At(p, "cached") /\ Unlocked
    /\ IF routes[x] # None
       THEN Step(p, "invoke", [loc[p] EXCEPT !.target = routes[x]])
       ELSE Step(p, "catalog", StartInventory(loc[p], {DomainOf[x]}, FALSE))
    /\ UNCHANGED <<catalog, fresh, catalogLock, lock, selections, store,
                   routes, active, revision, polled, basis, restarts>>

(* _route after its inventory: the shared table is read again. *)
LookupRoute(p) ==
    LET x == loc[p].dev IN
    /\ At(p, "lookup") /\ Unlocked
    /\ IF routes[x] # None
       THEN Step(p, "invoke", [loc[p] EXCEPT !.target = routes[x]])
       ELSE Leave(p)
    /\ UNCHANGED <<catalog, fresh, catalogLock, lock, selections, store,
                   routes, active, revision, polled, basis, restarts>>

(* The provider answers get_state, well or badly; poll_once notes either. *)
ReadState(p) ==
    /\ At(p, "invoke") /\ req[p].op \in {"get_state", "poll"} /\ Unlocked
    /\ Leave(p)
    /\ UNCHANGED <<catalog, fresh, catalogLock, lock, selections, store,
                   routes, active, revision, polled, basis, restarts>>

(* The provider's set_state: only a valid reply is recorded as a change. *)
WriteState(p, valid) ==
    /\ At(p, "invoke") /\ req[p].op = "set_state"
    /\ IF valid THEN Step(p, "record", loc[p]) ELSE Leave(p)
    /\ UNCHANGED <<catalog, fresh, catalogLock, lock, selections, store,
                   routes, active, revision, polled, basis, restarts>>

(* _record_event and the delivery of the event, after which the call ends. *)
RecordEvent(p) ==
    /\ At(p, "record") /\ Unlocked
    /\ revision' = revision + 1
    /\ Finish(p)
    /\ UNCHANGED <<catalog, fresh, catalogLock, lock, selections, store,
                   routes, active, polled, basis, restarts>>

(* poll_once reads the available devices one by one ... *)
PollState(p, x) ==
    /\ At(p, "states") /\ x \in loc[p].pending
    /\ Step(p, "cached", [loc[p] EXCEPT !.dev = x, !.pending = @ \ {x}])
    /\ UNCHANGED <<catalog, fresh, catalogLock, lock, selections, store,
                   routes, active, revision, polled, basis, restarts>>

(* ... and compares the fingerprint with the one of the poll before.         *)
PollCompare(p, differs) ==
    /\ At(p, "states") /\ loc[p].pending = {}
    /\ differs => polled /\ Headroom
    /\ polled' = TRUE
    /\ IF differs THEN Step(p, "record", loc[p]) ELSE Finish(p)
    /\ UNCHANGED <<catalog, fresh, catalogLock, lock, selections, store,
                   routes, active, revision, basis, restarts>>

-----------------------------------------------------------------------------
(* list_providers and get_provider. *)

StartListing(r, doms, refresh, ret) ==
    [Refresh(r, refresh, ret) EXCEPT
        !.doms = doms, !.todo = doms, !.rows = NoPins]

(* list_providers(probe=True) has probed every candidate, in parallel.  Unless *)
(* one is pinned, the health then on record decides which is active: the best  *)
(* healthy one, the best that answered, or none.                               *)
Sweep(p, best) ==
    LET d == CHOOSE x \in loc[p].doms : TRUE
        matching == Serving(loc[p].cands, d)
    IN  /\ At(p, "sweep") /\ Unlocked
        /\ best \in Maybe(matching)
        /\ active' = IF matching = {} \/ selections[d] \in matching THEN active
                     ELSE [active EXCEPT ![d] = best]
        /\ Step(p, "rows", loc[p])
        /\ UNCHANGED <<catalog, fresh, catalogLock, lock, selections, store,
                       routes, revision, polled, basis, restarts>>

(* _selection_for: the effective provider of a domain. *)
Effective(d, matching) ==
    IF selections[d] \in matching THEN selections[d]
    ELSE IF active[d] \in matching THEN active[d]
    ELSE IF matching # {} THEN First(matching) ELSE None

(* One row of the reply: the preference and the active provider are read. *)
ReadRow(p, d) ==
    LET r == [loc[p] EXCEPT !.todo = @ \ {d},
                            !.rows = [@ EXCEPT ![d] = selections[d]]]
        matching == Serving(r.cands, d)
        asked == req[p].comp
        detail == IF asked # None THEN asked ELSE Effective(d, matching)
    IN  /\ At(p, "rows") /\ d \in loc[p].todo /\ Unlocked
        /\ IF req[p].op # "get_provider"
           THEN Step(p, "rows", r)
           ELSE IF asked \notin Maybe(matching) THEN Finish(p)
           ELSE IF detail # None /\ req[p].probe
           THEN Step(p, "detail", [r EXCEPT !.dom = d, !.target = detail])
           ELSE Step(p, "rows", r)
        /\ UNCHANGED <<catalog, fresh, catalogLock, lock, selections, store,
                       routes, active, revision, polled, basis,
                       restarts>>

(* get_provider(probe=True) probes its candidate before the revision is read. *)
ProbeDetail(p) ==
    /\ At(p, "detail")
    /\ Step(p, "rows", [loc[p] EXCEPT !.dom = None, !.target = None])
    /\ UNCHANGED <<catalog, fresh, catalogLock, lock, selections, store,
                   routes, active, revision, polled, basis, restarts>>

(* The revision is read last, in a critical section of its own, and replied. *)
ReplyRows(p) ==
    /\ At(p, "rows") /\ loc[p].todo = {} /\ Unlocked
    /\ basis' = [basis EXCEPT ![p] =
                    [doms |-> loc[p].doms, rev |-> revision, boot |-> restarts,
                     outdated |-> {d \in loc[p].doms :
                                      loc[p].rows[d] # selections[d]},
                     replaced |-> {}]]
    /\ Finish(p)
    /\ UNCHANGED <<catalog, fresh, catalogLock, lock, selections, store,
                   routes, active, revision, polled, restarts>>

-----------------------------------------------------------------------------
(* select_provider and reset_provider (comp = None). *)

(* Slip: the revision is not checked again after the preflight. *)
StaleBeforePreflight(p) ==
    At(p, "vet") /\ loc[p].exp # None /\ loc[p].exp # revision

(* _check_revision *)
Stale(p) == loc[p].exp # None /\ loc[p].exp # revision

Target(p) == CHOOSE d \in req[p].doms : TRUE

(* The candidate must exist, the revision match, the preference change. *)
VetSelection(p) ==
    LET d == Target(p)
        c == req[p].comp
    IN  /\ At(p, "vet") /\ Unlocked
        /\ IF c \notin Maybe(Serving(loc[p].cands, d)) \/ Stale(p)
           THEN Finish(p)
           ELSE IF selections[d] = c
           THEN Step(p, "catalog", StartListing(loc[p], {d}, FALSE, "rows"))
           ELSE Step(p, IF c = None THEN "commit" ELSE "preflight", loc[p])
        /\ UNCHANGED <<catalog, fresh, catalogLock, lock, selections, store,
                       routes, active, revision, polled, basis,
                       restarts>>

Preflight(p, answer) ==
    /\ At(p, "preflight") /\ Unlocked
    /\ IF answer = "available" \/ (answer = "unavailable" /\ req[p].allow)
       THEN Step(p, "commit", loc[p])
       ELSE Finish(p)
    /\ UNCHANGED <<catalog, fresh, catalogLock, lock, selections, store,
                   routes, active, revision, polled, basis, restarts>>

(* The second critical section, up to the write of the store. *)
Commit(p) ==
    LET d == Target(p)
        c == req[p].comp
    IN  /\ At(p, "commit") /\ Unlocked
        /\ IF ~Stale(p) /\ selections[d] # c
           THEN /\ lock' = p
                /\ selections' = [selections EXCEPT ![d] = c]
                /\ Step(p, "saving", [loc[p] EXCEPT !.old = selections[d]])
           ELSE /\ UNCHANGED <<lock, selections>>
                /\ IF Stale(p) THEN Finish(p)
                   ELSE Step(p, "catalog", StartListing(loc[p], {d}, FALSE, "rows"))
        /\ UNCHANGED <<catalog, fresh, catalogLock, store, routes, active,
                       revision, polled, basis, restarts>>

(* Slip: the saved preference is not followed by an event. *)
SaveQuietly(p) ==
    /\ At(p, "saving")
    /\ store' = selections
    /\ lock' = None
    /\ Finish(p)
    /\ UNCHANGED <<catalog, fresh, catalogLock, selections, routes, active,
                   revision, polled, basis, restarts>>

(* SelectionStore.save replaces the file atomically ... *)
Save(p) ==
    /\ At(p, "saving")
    /\ store' = selections
    /\ Step(p, "install", loc[p])
    /\ UNCHANGED <<catalog, fresh, catalogLock, lock, selections, routes,
                   active, revision, polled, basis, restarts>>

(* Slip: memory keeps the preference that could not be saved. *)
NotRolledBack(p) == selections

RolledBack(p) == [selections EXCEPT ![Target(p)] = loc[p].old]

(* ... or fails before it does, and the preference is rolled back. *)
SaveFails(p) ==
    /\ At(p, "saving")
    /\ selections' = RolledBack(p)
    /\ lock' = None
    /\ Finish(p)
    /\ UNCHANGED <<catalog, fresh, catalogLock, store, routes, active, revision, polled, basis, restarts>>

(* Slip: cached routes survive the change of provider. *)
KeptRoutes(d) == routes

RoutesWithout(d) ==
    [x \in Devices |-> IF x \in DevicesOf(d) THEN None ELSE routes[x]]

(* The rest of the critical section: routes and active provider of the       *)
(* domain are forgotten and the event is recorded.                           *)
Install(p) ==
    LET d == Target(p) IN
    /\ At(p, "install")
    /\ routes' = RoutesWithout(d)
    /\ active' = [active EXCEPT ![d] = None]
    /\ revision' = revision + 1
    /\ basis' = [q \in Workers |-> [basis[q] EXCEPT !.replaced = @ \cup {d}]]
    /\ lock' = None
    /\ Step(p, "catalog", StartListing(loc[p], {d}, FALSE, "rows"))
    /\ UNCHANGED <<catalog, fresh, catalogLock, selections, store, polled,
                   restarts>>

-----------------------------------------------------------------------------
(* handle: where a method starts, and with which locals. *)
EntryPoint(q) ==
    IF q.op = "get_state" /\ ~q.refresh THEN "cached" ELSE "catalog"

EntryLocals(p, q) ==
    LET r == [Idle EXCEPT !.dev = q.dev,
                          !.exp = IF q.cas THEN basis[p].rev ELSE None]
    IN  CASE q.op = "inventory" -> StartInventory(r, q.doms, q.refresh)
          [] q.op = "get_state" /\ ~q.refresh -> r
          [] q.op \in {"get_state", "set_state"} /\ EntryPoint(q) = "catalog" ->
               StartInventory(r, {DomainOf[q.dev]}, TRUE)
          [] q.op \in {"list_providers", "get_provider"} ->
               StartListing(r, q.doms, q.refresh,
                            IF q.probe /\ q.op = "list_providers"
                            THEN "sweep" ELSE "rows")
          [] q.op = "select_provider" -> Refresh(r, TRUE, "vet")
          [] q.op = "poll" -> StartInventory(r, Domains, TRUE)

Enter(p, q) ==
    /\ At(p, "idle")
    /\ req' = [req EXCEPT ![p] = q]
    /\ pc' = [pc EXCEPT ![p] = EntryPoint(q)]
    /\ loc' = [loc EXCEPT ![p] = EntryLocals(p, q)]
    /\ UNCHANGED <<catalog, fresh, catalogLock, lock, selections, store,
                   routes, active, revision, polled, basis, restarts>>

(* A worker takes a call; a client passes only a revision it was given. *)
Call(p, q) ==
    /\ q.op # "poll"
    /\ q.op \in {"set_state", "select_provider"} => Headroom
    /\ q.cas => q.doms \subseteq basis[p].doms
    /\ Enter(p, q)

(* The polling thread's interval elapses. *)
Poll(q) ==
    /\ q.op = "poll"
    /\ Enter(Poller, q)

(* The process dies at any point; the next one has only the store. *)
Restart ==
    /\ restarts < MaxRestarts
    /\ restarts' = restarts + 1
    /\ catalog' = [c \in Providers |-> {}]
    /\ fresh' = FALSE
    /\ catalogLock' = None
    /\ lock' = None
    /\ selections' = store
    /\ routes' = NoRoutes
    /\ active' = NoPins
    /\ revision' = 0
    /\ polled' = FALSE
    /\ pc' = [p \in Procs |-> "idle"]
    /\ req' = [p \in Procs |-> NoReq]
    /\ loc' = [p \in Procs |-> Idle]
    /\ UNCHANGED <<store, basis>>

Run(p) ==
    \/ CheckCatalog(p)
    \/ ClaimCatalog(p)
    \/ \E found \in Catalogs : Discover(p, found)
    \/ DiscoverFails(p)
    \/ \E d \in Domains : NextDomain(p, d)
    \/ OrderFor(p)
    \/ \E answer \in Answers, devs \in SUBSET Devices : Probe(p, answer, devs)
    \/ Publish(p)
    \/ CachedRoute(p)
    \/ LookupRoute(p)
    \/ ReadState(p)
    \/ \E valid \in BOOLEAN : WriteState(p, valid)
    \/ RecordEvent(p)
    \/ \E x \in Devices : PollState(p, x)
    \/ \E differs \in BOOLEAN : PollCompare(p, differs)
    \/ \E best \in Maybe(Providers) : Sweep(p, best)
    \/ \E d \in Domains : ReadRow(p, d)
    \/ ProbeDetail(p)
    \/ ReplyRows(p)
    \/ VetSelection(p)
    \/ \E answer \in Answers : Preflight(p, answer)
    \/ Commit(p)
    \/ Save(p)
    \/ SaveFails(p)
    \/ Install(p)

Next ==
    \/ \E p \in Workers, q \in Requests : Call(p, q)
    \/ \E q \in Requests : Poll(q)
    \/ \E p \in Procs : Run(p)
    \/ CatalogExpires
    \/ Restart

Spec == Init /\ [][Next]_vars

(* Every provider call has a deadline and every critical section ends, so a  *)
(* running thread keeps running and a thread waiting for a lock gets it; the *)
(* polling thread polls for ever.                                            *)
Fairness ==
    /\ \A p \in Procs : SF_vars(Run(p))
    /\ WF_vars(\E q \in Requests : Poll(q))

FairSpec == Spec /\ Fairness

-----------------------------------------------------------------------------
Labels == {"idle", "catalog", "claim", "discover", "domains", "order", "probe",
           "cached", "lookup", "invoke", "record", "states", "sweep",
           "rows", "detail", "vet", "preflight", "commit",
           "saving", "install"}

Pins == [Domains -> Maybe(Providers)]

Local == [ret : {"idle", "domains", "order", "rows", "sweep", "vet"},
          force : BOOLEAN, cands : CatalogType, doms : SUBSET Domains,
          todo : SUBSET Domains, dom : Maybe(Domains),
          queue : SUBSET Providers,
          fallback : [comp : Maybe(Providers), devs : SUBSET Devices],
          routes : [Devices -> Maybe(Providers)], active : Pins, pins : Pins,
          dev : Maybe(Devices), target : Maybe(Providers),
          pending : SUBSET Devices, rows : Pins, exp : Maybe(Nat),
          old : Maybe(Providers)]

TypeOK ==
    /\ catalog \in CatalogType
    /\ fresh \in BOOLEAN
    /\ catalogLock \in Maybe(Procs)
    /\ lock \in Maybe(Procs)
    /\ selections \in Pins
    /\ store \in Pins
    /\ routes \in [Devices -> Maybe(Providers)]
    /\ active \in Pins
    /\ revision \in Nat
    /\ polled \in BOOLEAN
    /\ pc \in [Procs -> Labels]
    /\ req \in [Procs -> Request]
    /\ loc \in [Procs -> Local]
    /\ basis \in [Workers -> [doms : SUBSET Domains, rev : Nat, boot : Nat,
                              outdated : SUBSET Domains,
                              replaced : SUBSET Domains]]
    /\ restarts \in Nat

(* Memory and disk agree on the pinned providers whenever no commit is in     *)
(* its critical section, whatever saves failed and wherever the process died  *)
(* (select_provider's rollback, SelectionStore.save, __init__).               *)
SelectionDurable == Unlocked => selections = store

(* The preferences as their users see them: a commit counts once its event is *)
(* recorded.                                                                  *)
VisiblePins ==
    IF lock = None THEN store ELSE [store EXCEPT ![Target(lock)] = loc[lock].old]

Policy == INSTANCE ProviderPolicy WITH pins <- VisiblePins

(* The manager implements ProviderPolicy: threads, failing saves and crashes  *)
(* never show a preference without its event, or half of a commit             *)
(* (docs/hal-contract-v1.md: "A successful commit atomically saves the        *)
(* selection ... and emits a watch entry").                                   *)
PolicyImplemented == Policy!Spec

(* The clients whose checked commit is being written, while the manager their *)
(* revision came from still runs.                                             *)
Overwriting ==
    {p \in Workers : /\ pc[p] = "saving"
                     /\ loc[p].exp # None
                     /\ basis[p].boot = restarts}

(* A commit with expected_revision replaces the preference that was in force  *)
(* when that revision was read: nobody's commit in between is lost            *)
(* (_check_revision runs again after the preflight).                          *)
CasKeepsOthers == \A p \in Overwriting : Target(p) \notin basis[p].replaced

(* It replaces the preference its client was shown with that revision         *)
(* (README.md: "HAL_CONFLICT means another change won and Settings must       *)
(* reload").                                                                  *)
CasReplacesSeen == \A p \in Overwriting : Target(p) \notin basis[p].outdated

(* An inventory reports, and routes through, only the provider it found       *)
(* pinned: a pinned provider that fails is not replaced by another one        *)
(* (docs/hal-contract-v1.md: "A pinned provider fails visibly").              *)
PinnedFailsVisibly ==
    \A p \in Procs, d \in Domains :
        LET pin == loc[p].pins[d] IN
        pin # None => /\ loc[p].active[d] \in {None, pin}
                      /\ \A x \in DevicesOf(d) : loc[p].routes[x] \in {None, pin}

(* The provider reported active for a device's domain owns its route          *)
(* (docs/hal-contract-v1.md: "the provider that actually answered and owns    *)
(* the device routes").                                                       *)
ActiveOwns(x) == routes[x] # None => active[DomainOf[x]] = routes[x]

(* A new route always has the active provider as its owner, and inventories,  *)
(* commits and polls keep it so.  Only list_providers with probe parts the    *)
(* two: it recomputes the active provider from the health on record and       *)
(* leaves the routes as they are.                                             *)
OwnerLostByProbeOnly ==
    [][\A x \in Devices :
          (ActiveOwns(x) \/ routes'[x] # routes[x])
          => \/ ActiveOwns(x)'
             \/ \E p \in Procs : pc[p] = "sweep" /\ pc'[p] = "rows"]_vars

(* set_state writes through the provider its own inventory found pinned, if   *)
(* that pin is still in force (set_state, _route).                            *)
WriteFollowsPin ==
    \A p \in Workers :
        (pc[p] = "invoke" /\ req[p].op = "set_state") =>
            LET d == DomainOf[loc[p].dev]
                pin == loc[p].pins[d]
            IN  (pin # None /\ pin = selections[d]) => loc[p].target = pin

(* Every call returns: no thread waits for ever on _catalog_lock or _lock.    *)
CallsReturn == \A p \in Procs : pc[p] # "idle" ~> pc[p] = "idle"

(* The routes never contradict the pins for ever: an inventory overtaken by   *)
(* a commit may put back the routes the commit dropped, but as long as the    *)
(* polling thread's inventories complete, one of them replaces those routes.  *)
RoutesFollowPins ==
    \A x \in Devices :
        LET d == DomainOf[x] IN
        (routes[x] # None /\ selections[d] \in Serving(catalog, d))
            => routes[x] = selections[d]

StaleRoutesHeal ==
    []<><<Publish(Poller)>>_vars => []<>RoutesFollowPins
=============================================================================
