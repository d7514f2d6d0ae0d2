-------------------------- MODULE HalManagerProofs --------------------------
(***************************************************************************)
(* Proofs about the HAL manager, for any number of worker threads, domains, *)
(* providers, devices and calls.                                            *)
(***************************************************************************)
EXTENDS HalManager, WellFoundedInduction, TLAPS

-----------------------------------------------------------------------------
(* The inductive invariant.  Most of it is about one thread: its label l, its *)
(* request q and its locals r, and no shared state.                           *)

InCatalog == {"catalog", "claim", "discover"}

(* An inventory is collecting, or it called refresh_catalog and will be. *)
Collecting(l, r) ==
    \/ l \in {"domains", "order", "probe"}
    \/ l \in InCatalog /\ r.ret \in {"domains", "order"}

(* A domain has been taken from the list. *)
InHand(l, r) ==
    \/ l \in {"order", "probe"}
    \/ l \in InCatalog /\ r.ret = "order"

(* What an inventory collected belongs to domains it is done with, and the    *)
(* routes of a domain are those of its active provider.                       *)
Collected(r) ==
    /\ r.todo \subseteq r.doms
    /\ \A d \in r.todo : r.active[d] = None
    /\ \A x \in Devices : r.routes[x] # None =>
          /\ DomainOf[x] \in r.doms /\ DomainOf[x] \notin r.todo
          /\ r.active[DomainOf[x]] = r.routes[x]

PinsHonoured(r) ==
    \A d \in Domains : r.pins[d] # None =>
        /\ r.active[d] \in {None, r.pins[d]}
        /\ \A x \in DevicesOf(d) : r.routes[x] \in {None, r.pins[d]}

(* Candidates are left to try; a pinned one stands alone. *)
Trying(r) ==
    /\ r.queue # {}
    /\ r.pins[r.dom] # None => /\ r.queue = {r.pins[r.dom]}
                               /\ r.fallback.comp = None
    /\ r.fallback.devs \subseteq DevicesOf(r.dom)

Selecting == {"vet", "preflight", "commit", "saving", "install"}

(* Where a request can be. *)
Placed(l, q, r) ==
    /\ l \in Selecting => q.op = "select_provider"
    /\ l = "sweep" => q.op = "list_providers" /\ q.probe
    /\ l \in {"cached", "lookup", "invoke"} => r.dev # None
    /\ l \in InCatalog =>
          /\ r.ret # "idle"
          /\ r.ret = "vet" => q.op = "select_provider"
          /\ r.ret = "sweep" => q.op = "list_providers" /\ q.probe

Thread(l, q, r) ==
    /\ l \in Labels /\ q \in Requests \cup {NoReq} /\ r \in Local
    /\ Placed(l, q, r)
    /\ PinsHonoured(r)
    /\ Collecting(l, r) => Collected(r)
    /\ InHand(l, r) => r.dom \in r.todo
    /\ IF l = "probe" THEN Trying(r) ELSE r.fallback = Idle.fallback

Threads == \A p \in Procs : Thread(pc[p], req[p], loc[p])

(* The commit in progress: the one thread that is past the second check, what *)
(* memory and disk hold meanwhile, and the preference to roll back to.        *)
CommitConsistent ==
    /\ \A p \in Procs : pc[p] \in {"saving", "install"} <=> lock = p
    /\ lock = None => selections = store
    /\ \A p \in Procs : pc[p] = "saving" =>
          /\ selections = [store EXCEPT ![Target(p)] = req[p].comp]
          /\ loc[p].old = store[Target(p)]
          /\ loc[p].old # req[p].comp
    /\ \A p \in Procs : pc[p] = "install" =>
          /\ selections = store
          /\ store[Target(p)] = req[p].comp
          /\ loc[p].old # req[p].comp

(* A preference replaced since a client was given its revision shows in the   *)
(* revision, as long as the manager lives.                                    *)
BasisCounted ==
    \A p \in Workers :
        /\ loc[p].exp \in {None, basis[p].rev}
        /\ basis[p].boot <= restarts
        /\ basis[p].boot = restarts =>
              /\ basis[p].rev <= revision
              /\ basis[p].replaced # {} => basis[p].rev < revision
              /\ (pc[p] = "saving" /\ loc[p].exp # None)
                    => basis[p].replaced = {}

ManagerInv == TypeOK /\ Threads /\ CommitConsistent /\ BasisCounted
-----------------------------------------------------------------------------
(* Lemmas about the operators of the model. *)

(* The best candidate is one of the candidates: ranks are natural numbers, so *)
(* a set of providers that is not empty has a first one (refresh_catalog).    *)
LEMMA FirstInSet ==
    ASSUME NEW S \in SUBSET Providers, S # {}
    PROVE  First(S) \in S
<1> DEFINE T == {Rank[c] : c \in S}
<1>1. T \subseteq Nat /\ T # {}
  BY ManagerAssumption
<1>0. \A k, n \in Nat : k < n => <<k, n>> \in OpToRel(<, Nat)
  BY DEF OpToRel
<1>2. PICK m \in T : \A k \in T : ~ (<<k, m>> \in OpToRel(<, Nat))
  BY <1>1, WFMin, NatLessThanWellFounded
<1>3. PICK c \in S : m = Rank[c]
  BY <1>2
<1>4. \A b \in S : Rank[c] <= Rank[b]
  <2> SUFFICES ASSUME NEW b \in S
               PROVE  m <= Rank[b]
    BY <1>3
  <2>1. m \in Nat /\ Rank[b] \in Nat /\ Rank[b] \in T
    BY <1>1
  <2>2. ~ (Rank[b] < m)
    BY <2>1, <1>0, <1>2
  <2> QED BY <2>1, <2>2
<1> QED BY <1>4 DEF First

(* Every thread works on a request that handle accepted. *)
LEMMA RequestAccepted ==
    ASSUME NEW q \in Requests \cup {NoReq}
    PROVE  q \in Request /\ WellFormed(q)
<1>1. NoReq \in Request /\ WellFormed(NoReq)
  BY DEF NoReq, Request, WellFormed, Maybe
<1> QED BY <1>1, ManagerAssumption

(* A selection names one domain. *)
LEMMA TargetDomain ==
    ASSUME NEW q \in Requests \cup {NoReq}, q.op = "select_provider"
    PROVE  (CHOOSE d \in q.doms : TRUE) \in Domains
BY RequestAccepted DEF WellFormed

(* The locals of a thread that has nothing to do. *)
LEMMA IdleThread == Thread("idle", NoReq, Idle)
<1>1. Idle \in Local
  BY ManagerAssumption DEF Idle, Local, NoPins, NoRoutes, Maybe, CatalogType, Pins
<1>2. Idle.pins = NoPins /\ Idle.fallback = Idle.fallback
  BY DEF Idle
<1> QED
  BY <1>1, <1>2 DEF Thread, Placed, PinsHonoured, Collecting, InHand, Labels,
     InCatalog, Selecting, NoPins

LEMMA ReturnThread ==
    ASSUME NEW l \in InCatalog, NEW q, NEW r, Thread(l, q, r),
           NEW cat \in CatalogType
    PROVE  Thread(r.ret, q, [r EXCEPT !.cands = cat])
<1> DEFINE s == [r EXCEPT !.cands = cat]
<1>0. r \in Local /\ r.ret # "idle" /\ l # "probe" /\ l \notin Selecting
  BY DEF Thread, Placed, InCatalog, Selecting
<1>1. s \in Local
  BY <1>0 DEF Local
<1>2. /\ s.todo = r.todo /\ s.doms = r.doms /\ s.active = r.active
      /\ s.routes = r.routes /\ s.pins = r.pins /\ s.dom = r.dom
      /\ s.fallback = r.fallback
  BY <1>0 DEF Local
<1>3. PinsHonoured(s) /\ (Collected(r) => Collected(s))
  BY <1>2 DEF PinsHonoured, Collected, Thread
<1>4. r.ret \in {"domains", "order", "rows", "sweep", "vet"}
  BY <1>0 DEF Local
<1>5. Placed(r.ret, q, s)
  BY <1>4 DEF Thread, Placed, InCatalog, Selecting
<1>6. /\ Collecting(r.ret, s) => Collected(s)
      /\ InHand(r.ret, s) => s.dom \in s.todo
  BY <1>2, <1>3, <1>4 DEF Thread, Collecting, InHand, InCatalog
<1> QED
  BY <1>1, <1>2, <1>3, <1>4, <1>5, <1>6, <1>0 DEF Thread, Labels

LEMMA InventoryThread ==
    ASSUME NEW q \in Requests \cup {NoReq}, NEW r \in Local,
           r.fallback = Idle.fallback,
           NEW doms \in SUBSET Domains, NEW force \in BOOLEAN
    PROVE  Thread("catalog", q, StartInventory(r, doms, force))
<1> DEFINE s == StartInventory(r, doms, force)
<1>1. s \in Local
  BY DEF StartInventory, Refresh, Local, NoPins, NoRoutes, Pins, Maybe
<1>2. /\ s.todo = doms /\ s.doms = doms /\ s.active = NoPins
      /\ s.routes = NoRoutes /\ s.pins = NoPins
      /\ s.ret = "domains" /\ s.fallback = r.fallback
  BY DEF StartInventory, Refresh, Local
<1>3. PinsHonoured(s) /\ Collected(s)
  BY <1>2 DEF PinsHonoured, Collected, NoPins, NoRoutes
<1> QED
  BY <1>1, <1>2, <1>3
  DEF Thread, Placed, Labels, InHand, InCatalog, Selecting

LEMMA ListingThread ==
    ASSUME NEW q \in Requests \cup {NoReq}, NEW r \in Local,
           r.fallback = Idle.fallback, PinsHonoured(r),
           NEW doms \in SUBSET Domains, NEW refresh \in BOOLEAN,
           NEW ret \in {"rows", "sweep"},
           ret = "sweep" => q.op = "list_providers" /\ q.probe
    PROVE  Thread("catalog", q, StartListing(r, doms, refresh, ret))
<1> DEFINE s == StartListing(r, doms, refresh, ret)
<1>1. s \in Local
  BY DEF StartListing, Refresh, Local, NoPins, Pins, Maybe
<1>2. /\ s.active = r.active /\ s.routes = r.routes /\ s.pins = r.pins
      /\ s.ret = ret /\ s.fallback = r.fallback
  BY DEF StartListing, Refresh, Local
<1>3. PinsHonoured(s)
  BY <1>2 DEF PinsHonoured
<1> QED
  BY <1>1, <1>2, <1>3
  DEF Thread, Placed, Labels, InHand, InCatalog, Selecting, Collecting

(* A domain is settled: it contributes a provider and devices of its own. *)
LEMMA SettledThread ==
    ASSUME NEW q \in Requests \cup {NoReq}, NEW r \in Local,
           PinsHonoured(r), Collected(r), r.dom \in r.todo,
           NEW c \in Maybe(Providers), NEW devs \in SUBSET DevicesOf(r.dom),
           r.pins[r.dom] # None => c \in {None, r.pins[r.dom]}
    PROVE  Thread("domains", q, Settle(r, c, devs))
<1> DEFINE s == Settle(r, c, devs)
<1>0. r.dom \in Domains /\ r.todo \subseteq Domains
  BY DEF Local
<1>1. s \in Local
  BY ManagerAssumption DEF Settle, Local, Idle, Pins, Maybe
<1>2. /\ s.doms = r.doms /\ s.todo = r.todo \ {r.dom} /\ s.pins = r.pins
      /\ s.active = [r.active EXCEPT ![r.dom] = c]
      /\ s.routes = [x \in Devices |-> IF x \in devs THEN c ELSE r.routes[x]]
      /\ s.fallback = Idle.fallback
  BY DEF Settle, Local
<1>3. r.active \in [Domains -> Maybe(Providers)]
  BY DEF Local, Pins
<1>4. \A x \in devs : x \in Devices /\ DomainOf[x] = r.dom
  BY DEF DevicesOf
<1>5. \A x \in Devices : DomainOf[x] = r.dom /\ x \notin devs => r.routes[x] = None
  BY DEF Collected
<1>6. Collected(s)
  <2>1. s.todo \subseteq s.doms /\ \A d \in s.todo : s.active[d] = None
    BY <1>0, <1>2, <1>3 DEF Collected
  <2>2. ASSUME NEW x \in Devices, s.routes[x] # None
        PROVE  /\ DomainOf[x] \in s.doms /\ DomainOf[x] \notin s.todo
               /\ s.active[DomainOf[x]] = s.routes[x]
    <3>1. CASE DomainOf[x] = r.dom
      BY <2>2, <3>1, <1>0, <1>2, <1>3, <1>5 DEF Collected
    <3>2. CASE DomainOf[x] # r.dom
      BY <2>2, <3>2, <1>0, <1>2, <1>3, <1>4, ManagerAssumption DEF Collected
    <3> QED BY <3>1, <3>2
  <2> QED BY <2>1, <2>2 DEF Collected
<1>7. PinsHonoured(s)
  <2> SUFFICES ASSUME NEW d \in Domains, s.pins[d] # None
               PROVE  /\ s.active[d] \in {None, s.pins[d]}
                      /\ \A x \in DevicesOf(d) : s.routes[x] \in {None, s.pins[d]}
    BY DEF PinsHonoured
  <2>1. CASE d = r.dom
    BY <2>1, <1>0, <1>2, <1>3, <1>5 DEF DevicesOf
  <2>2. CASE d # r.dom
    BY <2>2, <1>0, <1>2, <1>3, <1>4 DEF DevicesOf, PinsHonoured
  <2> QED BY <2>1, <2>2
<1> QED
  BY <1>1, <1>2, <1>6, <1>7
  DEF Thread, Placed, Labels, InHand, InCatalog, Selecting

-----------------------------------------------------------------------------
(* Steps that concern one thread only.  Nearly every action is one of these:  *)
(* it moves its thread, may change the catalog, the routes and the active     *)
(* providers, and touches neither preferences nor revision.                   *)

Critical == {"saving", "install"}

SharedOK ==
    /\ catalog \in CatalogType /\ fresh \in BOOLEAN
    /\ catalogLock \in Maybe(Procs)
    /\ routes \in [Devices -> Maybe(Providers)] /\ active \in Pins
    /\ polled \in BOOLEAN

policyVars == <<lock, selections, store, revision, basis, restarts>>

Plain(p, l, q, r) ==
    /\ pc' = [pc EXCEPT ![p] = l]
    /\ req' = [req EXCEPT ![p] = q]
    /\ loc' = [loc EXCEPT ![p] = r]
    /\ pc[p] \notin Critical /\ l \notin Critical
    /\ Thread(l, q, r)
    /\ p \in Workers => r.exp \in {None, basis[p].rev}
    /\ SharedOK'
    /\ UNCHANGED policyVars

IsPlain(p) == \E l, q, r : Plain(p, l, q, r)

LEMMA StepIsPlain ==
    ASSUME ManagerInv, NEW p \in Procs, NEW l, NEW r, Step(p, l, r),
           pc[p] \notin Critical, l \notin Critical, Thread(l, req[p], r),
           r.exp = loc[p].exp, SharedOK', UNCHANGED policyVars
    PROVE  IsPlain(p)
<1>1. req' = [req EXCEPT ![p] = req[p]]
  BY DEF Step, ManagerInv, TypeOK
<1>2. p \in Workers => r.exp \in {None, basis[p].rev}
  BY DEF ManagerInv, BasisCounted
<1>3. Plain(p, l, req[p], r)
  BY <1>1, <1>2 DEF Plain, Step
<1> QED BY <1>3 DEF IsPlain

LEMMA FinishIsPlain ==
    ASSUME ManagerInv, NEW p \in Procs, Finish(p), pc[p] \notin Critical,
           SharedOK', UNCHANGED policyVars
    PROVE  IsPlain(p)
<1>1. Idle.exp = None
  BY DEF Idle
<1>2. Plain(p, "idle", NoReq, Idle)
  BY <1>1, IdleThread DEF Plain, Finish, Critical
<1> QED BY <1>2 DEF IsPlain

(* get_state and set_state end, or go back to the poll they belong to. *)
LEMMA LeaveIsPlain ==
    ASSUME ManagerInv, NEW p \in Procs, Leave(p),
           pc[p] \in {"discover", "lookup", "invoke"},
           SharedOK', UNCHANGED policyVars
    PROVE  IsPlain(p)
<1>0. pc[p] \notin Critical
  BY DEF Critical
<1> DEFINE r == [loc[p] EXCEPT !.dev = None]
<1>1. CASE Finish(p)
  BY <1>0, <1>1, FinishIsPlain
<1>2. CASE Step(p, "states", r)
  <2>1. Thread(pc[p], req[p], loc[p]) /\ loc[p] \in Local
    BY DEF ManagerInv, Threads, Thread
  <2>2. r \in Local
    BY <2>1 DEF Local, Maybe
  <2>3. /\ r.pins = loc[p].pins /\ r.active = loc[p].active
        /\ r.routes = loc[p].routes /\ r.fallback = loc[p].fallback
        /\ r.exp = loc[p].exp
    BY <2>1 DEF Local
  <2>4. PinsHonoured(r)
    BY <2>1, <2>3 DEF Thread, PinsHonoured
  <2>5. Thread("states", req[p], r)
    BY <2>1, <2>2, <2>3, <2>4
    DEF Thread, Placed, Labels, InHand, InCatalog, Selecting, Collecting
  <2>6. "states" \notin Critical
    BY DEF Critical
  <2> HIDE DEF r
  <2> QED BY <1>0, <1>2, <2>3, <2>5, <2>6, StepIsPlain
<1> QED BY <1>1, <1>2 DEF Leave

(* A thread takes part of its locals along; what it leaves out of an          *)
(* inventory's results is not read again.                                     *)
LEMMA ThreadElsewhere ==
    ASSUME NEW l, NEW q, NEW r, Thread(l, q, r), l # "probe",
           NEW k \in Labels \ (InCatalog \cup {"domains", "order", "probe"}),
           NEW s \in Local,
           s.pins = r.pins, s.active = r.active, s.routes = r.routes,
           s.fallback = r.fallback, Placed(k, q, s)
    PROVE  Thread(k, q, s)
BY DEF Thread, PinsHonoured, InHand, Collecting

LEMMA TypeOKShared == TypeOK => SharedOK
BY DEF TypeOK, SharedOK

-----------------------------------------------------------------------------
(* refresh_catalog *)
LEMMA CatalogPlain ==
    ASSUME ManagerInv, NEW p \in Procs,
           \/ CheckCatalog(p) \/ ClaimCatalog(p)
           \/ \E found \in Catalogs : Discover(p, found)
           \/ DiscoverFails(p)
    PROVE  IsPlain(p)
<1>0. /\ Thread(pc[p], req[p], loc[p]) /\ loc[p] \in Local /\ SharedOK
      /\ catalog \in CatalogType
  BY TypeOKShared DEF ManagerInv, Threads, Thread, SharedOK
<1>1. ASSUME NEW cat \in CatalogType, ReturnCatalog(p, cat),
             pc[p] \in InCatalog, SharedOK', UNCHANGED policyVars
      PROVE  IsPlain(p)
  <2>1. Thread(loc[p].ret, req[p], [loc[p] EXCEPT !.cands = cat])
    BY <1>0, <1>1, ReturnThread
  <2>2. [loc[p] EXCEPT !.cands = cat].exp = loc[p].exp
    BY <1>0 DEF Local
  <2>3. loc[p].ret \notin Critical /\ pc[p] \notin Critical
    BY <1>0, <1>1 DEF Local, Critical, InCatalog
  <2> QED BY <1>1, <2>1, <2>2, <2>3, StepIsPlain DEF ReturnCatalog
<1>2. ASSUME NEW l \in {"claim", "discover"}, Step(p, l, loc[p]),
             pc[p] \in {"catalog", "claim"}, SharedOK', UNCHANGED policyVars
      PROVE  IsPlain(p)
  <2>1. Thread(l, req[p], loc[p])
    BY <1>0, <1>2
    DEF Thread, Placed, Labels, InHand, InCatalog, Selecting, Collecting
  <2> QED BY <1>2, <2>1, StepIsPlain DEF Critical
<1>3. CASE CheckCatalog(p)
  <2>1. SharedOK' /\ UNCHANGED policyVars /\ pc[p] = "catalog"
    BY <1>0, <1>3 DEF CheckCatalog, SharedOK, policyVars, At
  <2> QED BY <1>0, <1>1, <1>2, <1>3, <2>1 DEF CheckCatalog, InCatalog
<1>4. CASE ClaimCatalog(p)
  <2>1. SharedOK' /\ UNCHANGED policyVars /\ pc[p] = "claim"
    BY <1>0, <1>4 DEF ClaimCatalog, SharedOK, policyVars, At, Maybe
  <2> QED BY <1>0, <1>1, <1>2, <1>4, <2>1 DEF ClaimCatalog, InCatalog
<1>5. ASSUME NEW found \in Catalogs, Discover(p, found)
      PROVE  IsPlain(p)
  <2>1. found \in CatalogType
    BY ManagerAssumption
  <2>2. SharedOK' /\ UNCHANGED policyVars /\ pc[p] = "discover"
    BY <1>0, <1>5, <2>1 DEF Discover, SharedOK, policyVars, At, Maybe
  <2> QED BY <1>1, <1>5, <2>1, <2>2 DEF Discover, InCatalog
<1>6. CASE DiscoverFails(p)
  <2>1. SharedOK' /\ UNCHANGED policyVars /\ pc[p] = "discover"
    BY <1>0, <1>6 DEF DiscoverFails, SharedOK, policyVars, At, Maybe
  <2> QED BY <1>6, <2>1, LeaveIsPlain DEF DiscoverFails
<1> QED BY <1>3, <1>4, <1>5, <1>6

-----------------------------------------------------------------------------
(* inventory *)

(* _ordered_for, then the probes: the next candidate is tried, or the domain  *)
(* is settled with what has been found.                                       *)
LEMMA ProbedThread ==
    ASSUME NEW q, NEW r, Thread("probe", q, r), NEW answer,
           NEW devs \in SUBSET DevicesOf(r.dom),
           NEW s, s = AfterProbe(r, First(r.queue), answer, devs)
    PROVE  /\ Thread(IF s.queue = {} THEN "domains" ELSE "probe", q, s)
           /\ s.exp = r.exp
<1> DEFINE c == First(r.queue)
           kept == IF answer = "unavailable" /\ r.fallback.comp = None
                   THEN [comp |-> c, devs |-> devs] ELSE r.fallback
           t == [r EXCEPT !.queue = @ \ {c}, !.fallback = kept]
<1>1. /\ r \in Local /\ q \in Requests \cup {NoReq} /\ PinsHonoured(r)
      /\ Collected(r) /\ r.dom \in r.todo /\ Trying(r) /\ Placed("probe", q, r)
  BY DEF Thread, Collecting, InHand
<1>2. r.queue \in SUBSET Providers /\ r.fallback.comp \in Maybe(Providers)
  BY <1>1 DEF Local
<1>3. c \in r.queue /\ c \in Providers
  BY <1>1, <1>2, FirstInSet DEF Trying
<1>4. r.pins[r.dom] # None => c = r.pins[r.dom]
  BY <1>1, <1>3 DEF Trying
<1>5. /\ kept.comp \in Maybe(Providers) /\ kept.devs \in SUBSET DevicesOf(r.dom)
      /\ r.pins[r.dom] # None => kept.comp \in {None, r.pins[r.dom]}
      /\ kept \in [comp : Maybe(Providers), devs : SUBSET Devices]
  <2>1. CASE answer = "unavailable" /\ r.fallback.comp = None
    BY <2>1, <1>3, <1>4 DEF Maybe, DevicesOf
  <2>2. CASE ~ (answer = "unavailable" /\ r.fallback.comp = None)
    <3>1. kept = r.fallback
      BY <2>2
    <3>2. r.fallback \in [comp : Maybe(Providers), devs : SUBSET Devices]
      BY <1>1 DEF Local
    <3>3. r.fallback.devs \subseteq DevicesOf(r.dom)
      BY <1>1 DEF Trying
    <3>4. r.pins[r.dom] # None => r.fallback.comp = None
      BY <1>1 DEF Trying
    <3> HIDE DEF kept
    <3> QED BY <3>1, <3>2, <3>3, <3>4
  <2> QED BY <2>1, <2>2
<1>6. ASSUME NEW e \in Maybe(Providers), NEW found \in SUBSET DevicesOf(r.dom),
             s = Settle(r, e, found),
             r.pins[r.dom] # None => e \in {None, r.pins[r.dom]}
      PROVE  /\ Thread(IF s.queue = {} THEN "domains" ELSE "probe", q, s)
             /\ s.exp = r.exp
  <2>1. s.queue = {} /\ s.exp = r.exp
    BY <1>1, <1>6 DEF Settle, Local
  <2>2. Thread("domains", q, Settle(r, e, found))
    BY <1>1, <1>6, SettledThread
  <2> QED BY <2>1, <2>2, <1>6
<1>7. CASE s = Settle(r, c, devs)
  BY <1>3, <1>4, <1>6, <1>7 DEF Maybe
<1>8. CASE s = Settle(r, kept.comp, kept.devs)
  <2> HIDE DEF kept
  <2> QED BY <1>5, <1>6, <1>8
<1>9. CASE s = t /\ r.queue # {c} /\ ~ (answer = "unavailable" /\ r.pins[r.dom] # None)
  <2>1. r.queue \ {c} # {} /\ r.pins[r.dom] = None
    BY <1>1, <1>3, <1>4, <1>9 DEF Trying
  <2> HIDE DEF kept
  <2>2. /\ t.queue = r.queue \ {c} /\ t.fallback = kept /\ t.exp = r.exp
        /\ t.pins = r.pins /\ t.active = r.active /\ t.routes = r.routes
        /\ t.dom = r.dom /\ t.todo = r.todo /\ t.doms = r.doms
    BY <1>1 DEF Local
  <2>3. t \in Local
    BY <1>1, <1>5 DEF Local
  <2> HIDE DEF t
  <2>4. PinsHonoured(t) /\ Collected(t) /\ Trying(t)
    BY <1>1, <1>5, <2>1, <2>2 DEF PinsHonoured, Collected, Trying
  <2>5. Thread("probe", q, t)
    BY <1>1, <2>2, <2>3, <2>4
    DEF Thread, Placed, Labels, InCatalog, Selecting
  <2>6. s.queue # {} /\ s.exp = r.exp
    BY <1>9, <2>1, <2>2
  <2> QED BY <1>9, <2>5, <2>6
<1> QED BY <1>7, <1>8, <1>9 DEF AfterProbe

(* The locals once the candidates are ordered. *)
Pinned(queue, preferred) == IF preferred \in queue THEN preferred ELSE None
Lined(r, queue, pin) ==
    [r EXCEPT !.queue = queue, !.pins = [@ EXCEPT ![r.dom] = pin]]

LEMMA OrderedThread ==
    ASSUME NEW q, NEW r, Thread("order", q, r), NEW preferred,
           NEW queue, queue = Ordered(r.cands, r.dom, preferred),
           NEW s, s = Lined(r, queue, Pinned(queue, preferred))
    PROVE  /\ IF queue = {} THEN Thread("domains", q, Settle(s, None, {}))
                            ELSE Thread("probe", q, s)
           /\ s.exp = r.exp /\ Settle(s, None, {}).exp = r.exp
<1> DEFINE pin == Pinned(queue, preferred)
<1>1. /\ r \in Local /\ q \in Requests \cup {NoReq} /\ PinsHonoured(r)
      /\ Collected(r) /\ r.dom \in r.todo /\ r.fallback = Idle.fallback
  BY DEF Thread, Collecting, InHand
<1>2. r.dom \in Domains /\ r.pins \in [Domains -> Maybe(Providers)]
  BY <1>1 DEF Local, Pins
<1>3. queue \in SUBSET Providers /\ (pin # None => queue = {pin})
  BY DEF Ordered, Serving, Pinned
<1>4. pin \in Maybe(Providers)
  BY <1>3 DEF Maybe, Pinned
<1> HIDE DEF pin
<1>5. s \in Local
  BY <1>1, <1>2, <1>3, <1>4 DEF Local, Pins, Lined, pin
<1>6. /\ s.queue = queue /\ s.pins = [r.pins EXCEPT ![r.dom] = pin]
      /\ s.active = r.active /\ s.routes = r.routes /\ s.dom = r.dom
      /\ s.todo = r.todo /\ s.doms = r.doms /\ s.fallback = r.fallback
      /\ s.exp = r.exp
  BY <1>1 DEF Local, Lined, pin
<1>7. Collected(s)
  BY <1>1, <1>6 DEF Collected
<1>8. PinsHonoured(s)
  <2> SUFFICES ASSUME NEW d \in Domains, s.pins[d] # None
               PROVE  /\ s.active[d] \in {None, s.pins[d]}
                      /\ \A x \in DevicesOf(d) : s.routes[x] \in {None, s.pins[d]}
    BY DEF PinsHonoured
  <2>1. CASE d = r.dom
    BY <2>1, <1>1, <1>6 DEF Collected, DevicesOf
  <2>2. CASE d # r.dom
    BY <2>2, <1>1, <1>2, <1>6 DEF PinsHonoured
  <2> QED BY <2>1, <2>2
<1>9. CASE queue = {}
  <2>1. s.dom \in s.todo
    BY <1>1, <1>6
  <2>2. Thread("domains", q, Settle(s, None, {}))
    BY <1>1, <1>5, <1>7, <1>8, <2>1, SettledThread DEF Maybe
  <2>3. Settle(s, None, {}).exp = s.exp
    BY <1>5 DEF Settle, Local
  <2> QED BY <1>6, <1>9, <2>2, <2>3
<1>10. CASE queue # {}
  <2>1. s.pins[s.dom] = pin
    BY <1>2, <1>6
  <2>2. Trying(s)
    BY <1>1, <1>3, <1>6, <1>10, <2>1 DEF Trying, Idle
  <2>3. Thread("probe", q, s)
    BY <1>1, <1>5, <1>6, <1>7, <1>8, <2>2
    DEF Thread, Placed, Labels, InCatalog, Selecting
  <2>4. Settle(s, None, {}).exp = s.exp
    BY <1>5 DEF Settle, Local
  <2> QED BY <1>6, <1>10, <2>3, <2>4
<1> QED BY <1>9, <1>10

LEMMA InventoryPlain ==
    ASSUME ManagerInv, NEW p \in Procs,
           \/ \E d \in Domains : NextDomain(p, d)
           \/ OrderFor(p)
           \/ \E answer \in Answers, devs \in SUBSET Devices :
                 Probe(p, answer, devs)
    PROVE  IsPlain(p)
<1>0. Thread(pc[p], req[p], loc[p]) /\ loc[p] \in Local /\ SharedOK
  BY TypeOKShared DEF ManagerInv, Threads, Thread
<1>1. ASSUME NEW d \in Domains, NextDomain(p, d)
      PROVE  IsPlain(p)
  <2> DEFINE s == [Refresh(loc[p], FALSE, "order") EXCEPT !.dom = d]
  <2>1. /\ SharedOK' /\ UNCHANGED policyVars /\ pc[p] = "domains"
        /\ d \in loc[p].todo /\ Step(p, "catalog", s)
    BY <1>0, <1>1 DEF NextDomain, SharedOK, policyVars, At
  <2>2. s \in Local
    BY <1>0 DEF Refresh, Local, Maybe
  <2>3. /\ s.ret = "order" /\ s.dom = d /\ s.todo = loc[p].todo
        /\ s.doms = loc[p].doms /\ s.pins = loc[p].pins
        /\ s.active = loc[p].active /\ s.routes = loc[p].routes
        /\ s.fallback = loc[p].fallback /\ s.exp = loc[p].exp
    BY <1>0 DEF Refresh, Local
  <2> HIDE DEF s
  <2>4. PinsHonoured(s) /\ Collected(s)
    BY <1>0, <2>1, <2>3 DEF Thread, PinsHonoured, Collected, Collecting
  <2>5. Thread("catalog", req[p], s)
    BY <1>0, <2>1, <2>2, <2>3, <2>4
    DEF Thread, Placed, Labels, InCatalog, Selecting
  <2>6. "catalog" \notin Critical /\ pc[p] \notin Critical
    BY <2>1 DEF Critical
  <2> QED BY <2>1, <2>3, <2>5, <2>6, StepIsPlain
<1>2. CASE OrderFor(p)
  <2> DEFINE d == loc[p].dom
             queue == Ordered(loc[p].cands, d, selections[d])
             s == Lined(loc[p], queue, Pinned(queue, selections[d]))
  <2>1. /\ SharedOK' /\ UNCHANGED policyVars /\ pc[p] = "order"
        /\ IF queue = {} THEN Step(p, "domains", Settle(s, None, {}))
                         ELSE Step(p, "probe", s)
    BY <1>0, <1>2 DEF OrderFor, SharedOK, policyVars, At, Lined, Pinned
  <2>2. /\ IF queue = {} THEN Thread("domains", req[p], Settle(s, None, {}))
                         ELSE Thread("probe", req[p], s)
        /\ s.exp = loc[p].exp /\ Settle(s, None, {}).exp = loc[p].exp
    <3>1. Thread("order", req[p], loc[p])
      BY <1>0, <2>1
    <3> QED BY <3>1, OrderedThread
  <2>3. {"domains", "probe", pc[p]} \cap Critical = {}
    BY <2>1 DEF Critical
  <2> HIDE DEF s, queue
  <2> QED BY <2>1, <2>2, <2>3, StepIsPlain
<1>3. ASSUME NEW answer \in Answers, NEW devs \in SUBSET Devices,
             Probe(p, answer, devs)
      PROVE  IsPlain(p)
  <2> DEFINE s == AfterProbe(loc[p], First(loc[p].queue), answer, devs)
             l == IF s.queue = {} THEN "domains" ELSE "probe"
  <2>1. /\ SharedOK' /\ UNCHANGED policyVars /\ pc[p] = "probe"
        /\ devs \in SUBSET DevicesOf(loc[p].dom) /\ Step(p, l, s)
    BY <1>0, <1>3 DEF Probe, SharedOK, policyVars, At
  <2>2. Thread(l, req[p], s) /\ s.exp = loc[p].exp
    <3>1. Thread("probe", req[p], loc[p])
      BY <1>0, <2>1
    <3>2. s = AfterProbe(loc[p], First(loc[p].queue), answer, devs)
      OBVIOUS
    <3> HIDE DEF s
    <3> QED BY <2>1, <3>1, <3>2, ProbedThread
  <2>3. l \notin Critical /\ pc[p] \notin Critical
    BY <2>1 DEF Critical
  <2> HIDE DEF l, s
  <2> QED BY <2>1, <2>2, <2>3, StepIsPlain
<1> QED BY <1>1, <1>2, <1>3

-----------------------------------------------------------------------------
(* The end of inventory, _route, get_state, set_state and poll_once. *)
LEMMA RoutePlain ==
    ASSUME ManagerInv, NEW p \in Procs,
           \/ Publish(p) \/ CachedRoute(p) \/ LookupRoute(p) \/ ReadState(p)
           \/ \E valid \in BOOLEAN : WriteState(p, valid)
           \/ \E x \in Devices : PollState(p, x)
           \/ \E differs \in BOOLEAN : PollCompare(p, differs)
    PROVE  IsPlain(p)
<1>0. /\ Thread(pc[p], req[p], loc[p]) /\ loc[p] \in Local /\ SharedOK
      /\ req[p] \in Requests \cup {NoReq}
  BY TypeOKShared DEF ManagerInv, Threads, Thread
<1>a. ASSUME NEW s, NEW l \in {"lookup", "invoke", "record", "states", "cached"},
             Step(p, l, s), pc[p] \notin Critical, pc[p] # "probe",
             s \in Local, s.pins = loc[p].pins, s.active = loc[p].active,
             s.routes = loc[p].routes, s.fallback = loc[p].fallback,
             s.exp = loc[p].exp,
             l \in {"lookup", "invoke", "cached"} => s.dev # None,
             SharedOK', UNCHANGED policyVars
      PROVE  IsPlain(p)
  <2>1. l \in Labels \ (InCatalog \cup {"domains", "order", "probe"})
    BY DEF Labels, InCatalog
  <2>2. Placed(l, req[p], s)
    BY <1>a DEF Placed, InCatalog, Selecting
  <2>3. Thread(l, req[p], s)
    BY <1>0, <1>a, <2>1, <2>2, ThreadElsewhere
  <2>4. l \notin Critical
    BY DEF Critical
  <2> QED BY <1>a, <2>3, <2>4, StepIsPlain
<1>b. ASSUME pc[p] \in {"cached", "lookup"}
      PROVE  loc[p].dev \in Devices /\ DomainOf[loc[p].dev] \in Domains
  BY <1>0, <1>b, ManagerAssumption DEF Thread, Placed, Local, Maybe
<1>c. ASSUME pc[p] \in {"cached", "lookup"}, routes[loc[p].dev] # None,
             Step(p, "invoke", [loc[p] EXCEPT !.target = routes[loc[p].dev]]),
             SharedOK', UNCHANGED policyVars
      PROVE  IsPlain(p)
  <2> DEFINE s == [loc[p] EXCEPT !.target = routes[loc[p].dev]]
  <2>1. routes[loc[p].dev] \in Maybe(Providers)
    BY <1>0, <1>b, <1>c DEF SharedOK
  <2>2. /\ s \in Local /\ s.pins = loc[p].pins /\ s.active = loc[p].active
        /\ s.routes = loc[p].routes /\ s.fallback = loc[p].fallback
        /\ s.exp = loc[p].exp /\ s.dev = loc[p].dev
    BY <1>0, <2>1 DEF Local
  <2>3. loc[p].dev # None /\ pc[p] \notin Critical /\ pc[p] # "probe"
    BY <1>b, <1>c, ManagerAssumption DEF Critical
  <2>4. Step(p, "invoke", s)
    BY <1>c
  <2> HIDE DEF s
  <2> QED BY <1>a, <1>c, <2>2, <2>3, <2>4
<1>1. CASE Publish(p)
  <2>1. /\ UNCHANGED policyVars /\ pc[p] = "domains"
        /\ pc[p] \notin Critical /\ pc[p] # "probe"
    BY <1>1 DEF Publish, policyVars, At, Critical
  <2>2. SharedOK'
    <3>1. loc[p].routes \in [Devices -> Maybe(Providers)] /\ loc[p].active \in Pins
      BY <1>0 DEF Local
    <3> QED BY <1>0, <1>1, <3>1 DEF Publish, SharedOK, NewRoutes, Pins
  <2>3. CASE loc[p].dev # None /\ Step(p, "lookup", loc[p])
    BY <1>0, <1>a, <2>1, <2>2, <2>3
  <2>4. ASSUME NEW seen \in SUBSET Devices,
               Step(p, "states", [loc[p] EXCEPT !.pending = seen])
        PROVE  IsPlain(p)
    <3> DEFINE s == [loc[p] EXCEPT !.pending = seen]
    <3>1. /\ s \in Local /\ s.pins = loc[p].pins /\ s.active = loc[p].active
          /\ s.routes = loc[p].routes /\ s.fallback = loc[p].fallback
          /\ s.exp = loc[p].exp
      BY <1>0 DEF Local
    <3>2. Step(p, "states", s)
      BY <2>4
    <3> HIDE DEF s
    <3> QED BY <1>a, <2>1, <2>2, <3>1, <3>2
  <2>5. CASE Finish(p)
    BY <2>1, <2>2, <2>5, FinishIsPlain
  <2>6. \/ loc[p].dev # None /\ Step(p, "lookup", loc[p])
        \/ \E seen \in SUBSET Devices :
              Step(p, "states", [loc[p] EXCEPT !.pending = seen])
        \/ Finish(p)
    BY <1>1 DEF Publish
  <2> QED BY <2>3, <2>4, <2>5, <2>6
<1>2. CASE CachedRoute(p)
  <2>1. SharedOK' /\ UNCHANGED policyVars /\ pc[p] = "cached"
    BY <1>0, <1>2 DEF CachedRoute, SharedOK, policyVars, At
  <2>2. CASE routes[loc[p].dev] # None
    BY <1>2, <1>c, <2>1, <2>2 DEF CachedRoute
  <2>3. CASE routes[loc[p].dev] = None
    <3> DEFINE s == StartInventory(loc[p], {DomainOf[loc[p].dev]}, FALSE)
    <3>1. Step(p, "catalog", s)
      BY <1>2, <2>3 DEF CachedRoute
    <3>2. loc[p].fallback = Idle.fallback /\ {DomainOf[loc[p].dev]} \in SUBSET Domains
      BY <1>0, <1>b, <2>1 DEF Thread
    <3>3. Thread("catalog", req[p], s)
      BY <1>0, <3>2, InventoryThread
    <3>4. s.exp = loc[p].exp
      BY <1>0 DEF StartInventory, Refresh, Local
    <3>5. "catalog" \notin Critical /\ pc[p] \notin Critical
      BY <2>1 DEF Critical
    <3> HIDE DEF s
    <3> QED BY <2>1, <3>1, <3>3, <3>4, <3>5, StepIsPlain
  <2> QED BY <2>2, <2>3
<1>3. CASE LookupRoute(p)
  <2>1. SharedOK' /\ UNCHANGED policyVars /\ pc[p] = "lookup"
    BY <1>0, <1>3 DEF LookupRoute, SharedOK, policyVars, At
  <2>2. CASE routes[loc[p].dev] # None
    BY <1>3, <1>c, <2>1, <2>2 DEF LookupRoute
  <2>3. CASE Leave(p)
    BY <2>1, <2>3, LeaveIsPlain
  <2> QED BY <1>3, <2>2, <2>3 DEF LookupRoute
<1>4. CASE ReadState(p)
  <2>1. SharedOK' /\ UNCHANGED policyVars /\ pc[p] = "invoke" /\ Leave(p)
    BY <1>0, <1>4 DEF ReadState, SharedOK, policyVars, At
  <2> QED BY <2>1, LeaveIsPlain
<1>5. ASSUME NEW valid \in BOOLEAN, WriteState(p, valid)
      PROVE  IsPlain(p)
  <2>1. /\ SharedOK' /\ UNCHANGED policyVars /\ pc[p] = "invoke"
        /\ pc[p] \notin Critical
        /\ Leave(p) \/ Step(p, "record", loc[p])
    BY <1>0, <1>5 DEF WriteState, SharedOK, policyVars, At, Critical
  <2>2. CASE Leave(p)
    BY <2>1, <2>2, LeaveIsPlain
  <2>3. CASE Step(p, "record", loc[p])
    BY <1>0, <1>a, <2>1, <2>3
  <2> QED BY <2>1, <2>2, <2>3
<1>6. ASSUME NEW x \in Devices, PollState(p, x)
      PROVE  IsPlain(p)
  <2> DEFINE s == [loc[p] EXCEPT !.dev = x, !.pending = @ \ {x}]
  <2>1. /\ SharedOK' /\ UNCHANGED policyVars /\ pc[p] = "states"
        /\ pc[p] \notin Critical /\ Step(p, "cached", s)
    BY <1>0, <1>6 DEF PollState, SharedOK, policyVars, At, Critical
  <2>2. /\ s \in Local /\ s.pins = loc[p].pins /\ s.active = loc[p].active
        /\ s.routes = loc[p].routes /\ s.fallback = loc[p].fallback
        /\ s.exp = loc[p].exp /\ s.dev = x
    BY <1>0 DEF Local, Maybe
  <2>3. x # None
    BY ManagerAssumption
  <2> HIDE DEF s
  <2> QED BY <1>a, <2>1, <2>2, <2>3
<1>7. ASSUME NEW differs \in BOOLEAN, PollCompare(p, differs)
      PROVE  IsPlain(p)
  <2>1. /\ SharedOK' /\ UNCHANGED policyVars /\ pc[p] = "states"
        /\ pc[p] \notin Critical
        /\ Finish(p) \/ Step(p, "record", loc[p])
    BY <1>0, <1>7 DEF PollCompare, SharedOK, policyVars, At, Critical
  <2>2. CASE Finish(p)
    BY <2>1, <2>2, FinishIsPlain
  <2>3. CASE Step(p, "record", loc[p])
    BY <1>0, <1>a, <2>1, <2>3
  <2> QED BY <2>1, <2>2, <2>3
<1> QED BY <1>1, <1>2, <1>3, <1>4, <1>5, <1>6, <1>7

-----------------------------------------------------------------------------
(* list_providers, get_provider and the checks of select_provider. *)
LEMMA ListingPlain ==
    ASSUME ManagerInv, NEW p \in Procs,
           \/ \E best \in Maybe(Providers) : Sweep(p, best)
           \/ \E d \in Domains : ReadRow(p, d)
           \/ ProbeDetail(p) \/ VetSelection(p)
           \/ \E answer \in Answers : Preflight(p, answer)
    PROVE  IsPlain(p)
<1>0. /\ Thread(pc[p], req[p], loc[p]) /\ loc[p] \in Local /\ SharedOK
      /\ req[p] \in Requests \cup {NoReq} /\ selections \in Pins
  BY TypeOKShared DEF ManagerInv, Threads, Thread, TypeOK
<1>a. ASSUME NEW s, NEW l \in {"rows", "detail", "preflight", "commit"},
             Step(p, l, s), pc[p] \notin Critical, pc[p] # "probe",
             s \in Local, s.pins = loc[p].pins, s.active = loc[p].active,
             s.routes = loc[p].routes, s.fallback = loc[p].fallback,
             s.exp = loc[p].exp,
             l \in Selecting => req[p].op = "select_provider",
             SharedOK', UNCHANGED policyVars
      PROVE  IsPlain(p)
  <2>1. l \in Labels \ (InCatalog \cup {"domains", "order", "probe"})
    BY DEF Labels, InCatalog
  <2>2. Placed(l, req[p], s)
    BY <1>a DEF Placed, InCatalog
  <2>3. Thread(l, req[p], s)
    BY <1>0, <1>a, <2>1, <2>2, ThreadElsewhere
  <2>4. l \notin Critical
    BY DEF Critical
  <2> QED BY <1>a, <2>3, <2>4, StepIsPlain
<1>1. ASSUME NEW best \in Maybe(Providers), Sweep(p, best)
      PROVE  IsPlain(p)
  <2>1. /\ UNCHANGED policyVars /\ pc[p] = "sweep" /\ pc[p] \notin Critical
        /\ Step(p, "rows", loc[p])
    BY <1>1 DEF Sweep, policyVars, At, Critical
  <2>2. SharedOK'
    BY <1>0, <1>1 DEF Sweep, SharedOK, Pins
  <2> QED BY <1>0, <1>a, <2>1, <2>2 DEF Selecting
<1>2. ASSUME NEW d \in Domains, ReadRow(p, d)
      PROVE  IsPlain(p)
  <2> DEFINE r == [loc[p] EXCEPT !.todo = @ \ {d},
                                 !.rows = [@ EXCEPT ![d] = selections[d]]]
             matching == Serving(r.cands, d)
             detail == IF req[p].comp # None THEN req[p].comp
                                             ELSE Effective(d, matching)
             s == [r EXCEPT !.dom = d, !.target = detail]
  <2>1. /\ UNCHANGED policyVars /\ SharedOK' /\ pc[p] = "rows"
        /\ pc[p] \notin Critical
    BY <1>0, <1>2 DEF ReadRow, SharedOK, policyVars, At, Critical
  <2>2. /\ r \in Local /\ r.pins = loc[p].pins /\ r.active = loc[p].active
        /\ r.routes = loc[p].routes /\ r.fallback = loc[p].fallback
        /\ r.exp = loc[p].exp
    BY <1>0 DEF Local, Pins
  <2>3. detail \in Maybe(Providers)
    <3>1. req[p].comp \in Maybe(Providers)
      BY <1>0, RequestAccepted DEF Request
    <3>2. selections[d] \in Maybe(Providers) /\ active[d] \in Maybe(Providers)
      BY <1>0 DEF SharedOK, Pins
    <3>3. matching \in SUBSET Providers
      BY DEF Serving
    <3>4. matching # {} => First(matching) \in Providers
      BY <3>3, FirstInSet
    <3> HIDE DEF matching
    <3> QED BY <3>1, <3>2, <3>4 DEF Effective, Maybe
  <2> HIDE DEF detail, matching
  <2>4. \/ Step(p, "rows", r) \/ Finish(p) \/ Step(p, "detail", s)
    BY <1>2 DEF ReadRow, detail, matching
  <2> HIDE DEF r
  <2>5. /\ s \in Local /\ s.pins = r.pins /\ s.active = r.active
        /\ s.routes = r.routes /\ s.fallback = r.fallback /\ s.exp = r.exp
    BY <2>2, <2>3 DEF Local, Maybe
  <2> HIDE DEF s
  <2>6. CASE Step(p, "rows", r)
    BY <1>a, <2>1, <2>2, <2>6 DEF Selecting
  <2>7. CASE Finish(p)
    BY <2>1, <2>7, FinishIsPlain
  <2>8. CASE Step(p, "detail", s)
    BY <1>a, <2>1, <2>2, <2>5, <2>8 DEF Selecting
  <2> QED BY <2>4, <2>6, <2>7, <2>8
<1>3. CASE ProbeDetail(p)
  <2> DEFINE s == [loc[p] EXCEPT !.dom = None, !.target = None]
  <2>1. /\ UNCHANGED policyVars /\ SharedOK' /\ pc[p] = "detail"
        /\ pc[p] \notin Critical /\ Step(p, "rows", s)
    BY <1>0, <1>3 DEF ProbeDetail, SharedOK, policyVars, At, Critical
  <2>2. /\ s \in Local /\ s.pins = loc[p].pins /\ s.active = loc[p].active
        /\ s.routes = loc[p].routes /\ s.fallback = loc[p].fallback
        /\ s.exp = loc[p].exp
    BY <1>0 DEF Local, Maybe
  <2> HIDE DEF s
  <2> QED BY <1>a, <2>1, <2>2 DEF Selecting
<1>4. CASE VetSelection(p)
  <2> DEFINE s == StartListing(loc[p], {Target(p)}, FALSE, "rows")
  <2>1. /\ UNCHANGED policyVars /\ SharedOK' /\ pc[p] = "vet"
        /\ pc[p] \notin Critical
        /\ \/ Finish(p) \/ Step(p, "catalog", s)
           \/ \E l \in {"commit", "preflight"} : Step(p, l, loc[p])
    BY <1>0, <1>4 DEF VetSelection, SharedOK, policyVars, At, Critical
  <2>2. req[p].op = "select_provider"
    BY <1>0, <2>1 DEF Thread, Placed, Selecting
  <2>3. CASE Finish(p)
    BY <2>1, <2>3, FinishIsPlain
  <2>4. CASE Step(p, "catalog", s)
    <3>1. {Target(p)} \in SUBSET Domains
      BY <1>0, <2>2, TargetDomain DEF Target
    <3>2. Thread("catalog", req[p], s)
      BY <1>0, <2>1, <3>1, ListingThread DEF Thread
    <3>3. s.exp = loc[p].exp
      BY <1>0 DEF StartListing, Refresh, Local
    <3>4. "catalog" \notin Critical
      BY DEF Critical
    <3> HIDE DEF s
    <3> QED BY <2>1, <2>4, <3>2, <3>3, <3>4, StepIsPlain
  <2>5. ASSUME NEW l \in {"commit", "preflight"}, Step(p, l, loc[p])
        PROVE  IsPlain(p)
    BY <1>0, <1>a, <2>1, <2>2, <2>5
  <2> QED BY <2>1, <2>3, <2>4, <2>5
<1>5. ASSUME NEW answer \in Answers, Preflight(p, answer)
      PROVE  IsPlain(p)
  <2>1. /\ UNCHANGED policyVars /\ SharedOK' /\ pc[p] = "preflight"
        /\ pc[p] \notin Critical
        /\ Finish(p) \/ Step(p, "commit", loc[p])
    BY <1>0, <1>5 DEF Preflight, SharedOK, policyVars, At, Critical
  <2>2. req[p].op = "select_provider"
    BY <1>0, <2>1 DEF Thread, Placed, Selecting
  <2>3. CASE Finish(p)
    BY <2>1, <2>3, FinishIsPlain
  <2>4. CASE Step(p, "commit", loc[p])
    BY <1>0, <1>a, <2>1, <2>2, <2>4
  <2> QED BY <2>1, <2>3, <2>4
<1> QED BY <1>1, <1>2, <1>3, <1>4, <1>5

-----------------------------------------------------------------------------
(* handle: a thread starts a request. *)
LEMMA EnterPlain ==
    ASSUME ManagerInv, NEW p \in Procs, NEW q \in Requests, Enter(p, q),
           q.cas => p \in Workers
    PROVE  IsPlain(p)
<1> DEFINE exp == IF q.cas THEN basis[p].rev ELSE None
           r == [Idle EXCEPT !.dev = q.dev, !.exp = exp]
           s == EntryLocals(p, q)
           l == EntryPoint(q)
<1>1. q \in Request /\ WellFormed(q)
  BY RequestAccepted
<1>2. /\ SharedOK' /\ UNCHANGED policyVars /\ pc[p] = "idle"
      /\ pc[p] \notin Critical
      /\ pc' = [pc EXCEPT ![p] = l] /\ req' = [req EXCEPT ![p] = q]
      /\ loc' = [loc EXCEPT ![p] = s]
  BY TypeOKShared DEF Enter, SharedOK, policyVars, At, Critical, ManagerInv
<1>3. exp \in Maybe(Nat) /\ (p \in Workers => exp \in {None, basis[p].rev})
  BY DEF ManagerInv, TypeOK, Maybe
<1>4. Idle \in Local /\ Idle.pins = NoPins
  BY IdleThread DEF Thread, Idle
<1> HIDE DEF exp
<1>5. r \in Local
  BY <1>1, <1>3, <1>4 DEF Local, Request
<1>6. r.dev = q.dev /\ r.exp = exp /\ r.fallback = Idle.fallback /\ r.pins = NoPins
  BY <1>4 DEF Local
<1> HIDE DEF r
<1>7. PinsHonoured(r)
  BY <1>6 DEF PinsHonoured, NoPins
<1>8. q.doms \in SUBSET Domains /\ q.refresh \in BOOLEAN /\ q.probe \in BOOLEAN
  BY <1>1 DEF Request
<1>9. q.dev # None => q.dev \in Devices /\ DomainOf[q.dev] \in Domains
  BY <1>1, ManagerAssumption DEF Request, Maybe
<1>10. Thread(l, q, s) /\ s.exp = exp
  <2>1. CASE q.op = "inventory"
    <3>1. l = "catalog" /\ s = StartInventory(r, q.doms, q.refresh)
      BY <2>1 DEF EntryPoint, EntryLocals, r, exp
    <3>2. StartInventory(r, q.doms, q.refresh).exp = r.exp
      BY <1>5 DEF StartInventory, Refresh, Local
    <3> HIDE DEF l, s
    <3> QED BY <3>1, <3>2, <1>5, <1>6, <1>8, InventoryThread
  <2>2. CASE q.op = "get_state" /\ ~q.refresh
    <3>1. l = "cached" /\ s = r
      BY <2>2 DEF EntryPoint, EntryLocals, r, exp
    <3>2. r.dev # None
      BY <2>2, <1>1, <1>6 DEF WellFormed
    <3>3. Thread("cached", q, r)
      BY <3>2, <1>5, <1>6, <1>7
      DEF Thread, Placed, Labels, InHand, InCatalog, Selecting, Collecting
    <3> HIDE DEF l, s
    <3> QED BY <3>1, <3>3, <1>6
  <2>3. CASE \/ q.op = "set_state"
             \/ q.op = "get_state" /\ q.refresh
    <3>1. l = "catalog" /\ s = StartInventory(r, {DomainOf[q.dev]}, TRUE)
      BY <2>3 DEF EntryPoint, EntryLocals, r, exp
    <3>2. StartInventory(r, {DomainOf[q.dev]}, TRUE).exp = r.exp
      BY <1>5 DEF StartInventory, Refresh, Local
    <3>3. {DomainOf[q.dev]} \in SUBSET Domains
      BY <2>3, <1>1, <1>9 DEF WellFormed
    <3> HIDE DEF l, s
    <3> QED BY <3>1, <3>2, <3>3, <1>5, <1>6, InventoryThread
  <2>4. CASE q.op \in {"list_providers", "get_provider"}
    <3> DEFINE ret == IF q.probe /\ q.op = "list_providers" THEN "sweep" ELSE "rows"
    <3>1. l = "catalog" /\ s = StartListing(r, q.doms, q.refresh, ret)
      BY <2>4 DEF EntryPoint, EntryLocals, r, exp
    <3>2. StartListing(r, q.doms, q.refresh, ret).exp = r.exp
      BY <1>5 DEF StartListing, Refresh, Local
    <3>3. ret \in {"rows", "sweep"} /\ (ret = "sweep" => q.op = "list_providers" /\ q.probe)
      OBVIOUS
    <3> HIDE DEF l, s, ret
    <3> QED BY <3>1, <3>2, <3>3, <1>5, <1>6, <1>7, <1>8, ListingThread
  <2>5. CASE q.op = "select_provider"
    <3>1. l = "catalog" /\ s = Refresh(r, TRUE, "vet")
      BY <2>5 DEF EntryPoint, EntryLocals, r, exp
    <3>2. s \in Local
      BY <3>1, <1>5 DEF Refresh, Local
    <3>3. /\ s.exp = r.exp /\ s.ret = "vet" /\ s.pins = r.pins
          /\ s.fallback = r.fallback
      BY <3>1, <1>5 DEF Refresh, Local
    <3> HIDE DEF s
    <3>4. PinsHonoured(s)
      BY <3>3, <1>6 DEF PinsHonoured, NoPins
    <3>5. Thread("catalog", q, s)
      BY <2>5, <3>2, <3>3, <3>4, <1>6
      DEF Thread, Placed, Labels, InHand, InCatalog, Selecting, Collecting
    <3> HIDE DEF l
    <3> QED BY <3>1, <3>3, <3>5, <1>6
  <2>6. CASE q.op = "poll"
    <3>1. l = "catalog" /\ s = StartInventory(r, Domains, TRUE)
      BY <2>6 DEF EntryPoint, EntryLocals, r, exp
    <3>2. StartInventory(r, Domains, TRUE).exp = r.exp
      BY <1>5 DEF StartInventory, Refresh, Local
    <3> HIDE DEF l, s
    <3> QED BY <3>1, <3>2, <1>5, <1>6, InventoryThread
  <2>7. q.op \in {"inventory", "get_state", "set_state", "list_providers",
                  "get_provider", "select_provider", "poll"}
    BY <1>1 DEF Request
  <2> QED BY <2>1, <2>2, <2>3, <2>4, <2>5, <2>6, <2>7, <1>8
<1>11. l \notin Critical
  BY DEF EntryPoint, Critical
<1> HIDE DEF l, s
<1>12. Plain(p, l, q, s)
  BY <1>2, <1>3, <1>10, <1>11 DEF Plain
<1> QED BY <1>12 DEF IsPlain

-----------------------------------------------------------------------------
(* A plain step keeps the invariant, whatever thread makes it.               *)
LEMMA MovedThreads ==
    ASSUME ManagerInv, NEW p \in Procs, NEW l, NEW q, NEW r, Thread(l, q, r),
           pc' = [pc EXCEPT ![p] = l], req' = [req EXCEPT ![p] = q],
           loc' = [loc EXCEPT ![p] = r]
    PROVE  /\ Threads'
           /\ pc' \in [Procs -> Labels] /\ req' \in [Procs -> Request]
           /\ loc' \in [Procs -> Local]
           /\ pc'[p] = l /\ req'[p] = q /\ loc'[p] = r
           /\ \A o \in Procs : o # p =>
                 pc'[o] = pc[o] /\ req'[o] = req[o] /\ loc'[o] = loc[o]
<1>1. /\ pc \in [Procs -> Labels] /\ req \in [Procs -> Request]
      /\ loc \in [Procs -> Local] /\ Threads
  BY DEF ManagerInv, TypeOK
<1>2. l \in Labels /\ r \in Local /\ q \in Request
  BY RequestAccepted DEF Thread
<1>3. /\ pc'[p] = l /\ req'[p] = q /\ loc'[p] = r
      /\ \A o \in Procs : o # p =>
            pc'[o] = pc[o] /\ req'[o] = req[o] /\ loc'[o] = loc[o]
  BY <1>1
<1>4. \A o \in Procs : Thread(pc'[o], req'[o], loc'[o])
  BY <1>1, <1>3 DEF Threads
<1>5. Threads'
  BY <1>4 DEF Threads, Thread, Placed, PinsHonoured, Collecting, Collected,
     InHand, Trying, Idle, NoReq, Labels, Local, CatalogType, Pins, Maybe,
     InCatalog, Selecting, DevicesOf, NoPins, NoRoutes
<1> QED BY <1>1, <1>2, <1>3, <1>5

LEMMA PlainKeepsInv ==
    ASSUME ManagerInv, NEW p \in Procs, IsPlain(p)
    PROVE  ManagerInv'
<1>1. PICK l, q, r : Plain(p, l, q, r)
  BY DEF IsPlain
<1>2. /\ Threads'
      /\ pc' \in [Procs -> Labels] /\ req' \in [Procs -> Request]
      /\ loc' \in [Procs -> Local]
      /\ pc'[p] = l /\ req'[p] = q /\ loc'[p] = r
      /\ \A o \in Procs : o # p =>
            pc'[o] = pc[o] /\ req'[o] = req[o] /\ loc'[o] = loc[o]
  BY <1>1, MovedThreads DEF Plain
<1>3. UNCHANGED policyVars /\ SharedOK' /\ pc[p] \notin Critical /\ l \notin Critical
  BY <1>1 DEF Plain
<1>4. TypeOK'
  BY <1>2, <1>3 DEF ManagerInv, TypeOK, SharedOK, policyVars, Pins
<1>5. \A o \in Procs : pc'[o] \in Critical =>
         /\ pc[o] = pc'[o] /\ loc'[o] = loc[o] /\ req'[o] = req[o]
         /\ Target(o)' = Target(o)
  BY <1>2, <1>3 DEF Target
<1>6. CommitConsistent'
  <2>1. \A o \in Procs : pc'[o] \in Critical <=> lock' = o
    BY <1>2, <1>3 DEF ManagerInv, CommitConsistent, Critical, policyVars
  <2>2. lock' = None => selections' = store'
    BY <1>3 DEF ManagerInv, CommitConsistent, policyVars
  <2>3. ASSUME NEW o \in Procs, pc'[o] = "saving"
        PROVE  /\ selections' = [store' EXCEPT ![Target(o)'] = req'[o].comp]
               /\ loc'[o].old = store'[Target(o)']
               /\ loc'[o].old # req'[o].comp
    BY <1>3, <1>5, <2>3 DEF ManagerInv, CommitConsistent, policyVars, Critical
  <2>4. ASSUME NEW o \in Procs, pc'[o] = "install"
        PROVE  /\ selections' = store' /\ store'[Target(o)'] = req'[o].comp
               /\ loc'[o].old # req'[o].comp
    BY <1>3, <1>5, <2>4 DEF ManagerInv, CommitConsistent, policyVars, Critical
  <2> QED BY <2>1, <2>2, <2>3, <2>4 DEF CommitConsistent, Critical
<1>7. BasisCounted'
  <2> SUFFICES ASSUME NEW o \in Workers
               PROVE  /\ loc'[o].exp \in {None, basis[o].rev}
                      /\ (pc'[o] = "saving" => pc[o] = "saving" /\ loc'[o] = loc[o])
    BY <1>3 DEF ManagerInv, BasisCounted, policyVars
  <2>1. CASE o = p
    BY <1>1, <1>2, <1>3, <2>1 DEF Plain, Critical
  <2>2. CASE o # p
    BY <1>2, <2>2 DEF ManagerInv, BasisCounted, Procs
  <2> QED BY <2>1, <2>2
<1> QED BY <1>2, <1>4, <1>6, <1>7 DEF ManagerInv

-----------------------------------------------------------------------------
(* The actions that touch preferences, revision or what a client was told.   *)

LEMMA RecordKeepsInv ==
    ASSUME ManagerInv, NEW p \in Procs, RecordEvent(p)
    PROVE  ManagerInv'
<1>1. /\ pc[p] = "record" /\ Finish(p) /\ revision' = revision + 1
      /\ UNCHANGED <<catalog, fresh, catalogLock, lock, selections, store,
                     routes, active, polled, basis, restarts>>
  BY DEF RecordEvent, At
<1>2. /\ Threads'
      /\ pc' \in [Procs -> Labels] /\ req' \in [Procs -> Request]
      /\ loc' \in [Procs -> Local]
      /\ pc'[p] = "idle" /\ req'[p] = NoReq /\ loc'[p] = Idle
      /\ \A o \in Procs : o # p =>
            pc'[o] = pc[o] /\ req'[o] = req[o] /\ loc'[o] = loc[o]
  BY <1>1, MovedThreads, IdleThread DEF Finish
<1>3. revision \in Nat
  BY DEF ManagerInv, TypeOK
<1>4. TypeOK'
  BY <1>1, <1>2 DEF ManagerInv, TypeOK, Pins
<1>5. \A o \in Procs : pc'[o] \in Critical =>
         /\ pc[o] = pc'[o] /\ loc'[o] = loc[o] /\ req'[o] = req[o]
         /\ Target(o)' = Target(o)
  BY <1>2 DEF Target, Critical
<1>6. CommitConsistent'
  <2>1. \A o \in Procs : pc'[o] \in Critical <=> lock' = o
    BY <1>1, <1>2 DEF ManagerInv, CommitConsistent, Critical
  <2>2. \A o \in Procs : pc'[o] = "saving" =>
           /\ selections' = [store' EXCEPT ![Target(o)'] = req'[o].comp]
           /\ loc'[o].old = store'[Target(o)']
           /\ loc'[o].old # req'[o].comp
    BY <1>1, <1>5 DEF ManagerInv, CommitConsistent, Critical
  <2>3. \A o \in Procs : pc'[o] = "install" =>
           /\ selections' = store' /\ store'[Target(o)'] = req'[o].comp
           /\ loc'[o].old # req'[o].comp
    BY <1>1, <1>5 DEF ManagerInv, CommitConsistent, Critical
  <2> QED BY <1>1, <2>1, <2>2, <2>3 DEF ManagerInv, CommitConsistent, Critical
<1>7. BasisCounted'
  <2> SUFFICES ASSUME NEW o \in Workers
               PROVE  /\ loc'[o].exp \in {None, basis[o].rev}
                      /\ basis[o].boot <= restarts
                      /\ basis[o].boot = restarts =>
                            /\ basis[o].rev <= revision + 1
                            /\ basis[o].replaced # {} => basis[o].rev < revision + 1
                            /\ (pc'[o] = "saving" /\ loc'[o].exp # None)
                                  => basis[o].replaced = {}
    BY <1>1 DEF BasisCounted
  <2>1. /\ loc'[o].exp \in {None, loc[o].exp}
        /\ pc'[o] = "saving" => pc[o] = "saving" /\ loc'[o] = loc[o]
    BY <1>2 DEF Idle, Procs
  <2>2. basis[o].rev \in Nat
    BY DEF ManagerInv, TypeOK
  <2> QED BY <1>3, <2>1, <2>2 DEF ManagerInv, BasisCounted
<1> QED BY <1>2, <1>4, <1>6, <1>7 DEF ManagerInv

(* A client is given a row of preferences and, with it, a revision. *)
LEMMA ReplyKeepsInv ==
    ASSUME ManagerInv, NEW p \in Procs, ReplyRows(p)
    PROVE  ManagerInv'
<1> DEFINE told == [doms |-> loc[p].doms, rev |-> revision, boot |-> restarts,
                    outdated |-> {d \in loc[p].doms :
                                     loc[p].rows[d] # selections[d]},
                    replaced |-> {}]
<1>1. /\ pc[p] = "rows" /\ Finish(p) /\ basis' = [basis EXCEPT ![p] = told]
      /\ UNCHANGED <<catalog, fresh, catalogLock, lock, selections, store,
                     routes, active, revision, polled, restarts>>
  BY DEF ReplyRows, At
<1>2. /\ Threads'
      /\ pc' \in [Procs -> Labels] /\ req' \in [Procs -> Request]
      /\ loc' \in [Procs -> Local]
      /\ pc'[p] = "idle" /\ req'[p] = NoReq /\ loc'[p] = Idle
      /\ \A o \in Procs : o # p =>
            pc'[o] = pc[o] /\ req'[o] = req[o] /\ loc'[o] = loc[o]
  BY <1>1, MovedThreads, IdleThread DEF Finish
<1>3. revision \in Nat /\ restarts \in Nat
  BY DEF ManagerInv, TypeOK
<1>4. loc[p].doms \in SUBSET Domains
  BY DEF ManagerInv, TypeOK, Local
<1>5. told \in [doms : SUBSET Domains, rev : Nat, boot : Nat,
                outdated : SUBSET Domains, replaced : SUBSET Domains]
  BY <1>3, <1>4
<1>6. /\ told.rev = revision /\ told.boot = restarts /\ told.replaced = {}
  OBVIOUS
<1> HIDE DEF told
<1>7. TypeOK'
  BY <1>1, <1>2, <1>5 DEF ManagerInv, TypeOK, Pins
<1>8. \A o \in Procs : pc'[o] \in Critical =>
         /\ pc[o] = pc'[o] /\ loc'[o] = loc[o] /\ req'[o] = req[o]
         /\ Target(o)' = Target(o)
  BY <1>2 DEF Target, Critical
<1>9. CommitConsistent'
  <2>1. \A o \in Procs : pc'[o] \in Critical <=> lock' = o
    BY <1>1, <1>2 DEF ManagerInv, CommitConsistent, Critical
  <2>2. \A o \in Procs : pc'[o] = "saving" =>
           /\ selections' = [store' EXCEPT ![Target(o)'] = req'[o].comp]
           /\ loc'[o].old = store'[Target(o)']
           /\ loc'[o].old # req'[o].comp
    BY <1>1, <1>8 DEF ManagerInv, CommitConsistent, Critical
  <2>3. \A o \in Procs : pc'[o] = "install" =>
           /\ selections' = store' /\ store'[Target(o)'] = req'[o].comp
           /\ loc'[o].old # req'[o].comp
    BY <1>1, <1>8 DEF ManagerInv, CommitConsistent, Critical
  <2> QED BY <1>1, <2>1, <2>2, <2>3 DEF ManagerInv, CommitConsistent, Critical
<1>10. BasisCounted'
  <2> SUFFICES ASSUME NEW o \in Workers
               PROVE  /\ loc'[o].exp \in {None, basis'[o].rev}
                      /\ basis'[o].boot <= restarts
                      /\ basis'[o].boot = restarts =>
                            /\ basis'[o].rev <= revision
                            /\ basis'[o].replaced # {} => basis'[o].rev < revision
                            /\ (pc'[o] = "saving" /\ loc'[o].exp # None)
                                  => basis'[o].replaced = {}
    BY <1>1 DEF BasisCounted
  <2>1. CASE o = p
    <3>1. basis'[o] = told
      BY <1>1, <2>1 DEF ManagerInv, TypeOK
    <3> QED BY <1>2, <1>3, <1>6, <2>1, <3>1 DEF Idle
  <2>2. CASE o # p
    <3>1. basis'[o] = basis[o]
      BY <1>1, <2>2 DEF ManagerInv, TypeOK
    <3> QED BY <1>2, <2>2, <3>1 DEF ManagerInv, BasisCounted, Procs
  <2> QED BY <2>1, <2>2
<1> QED BY <1>2, <1>7, <1>9, <1>10 DEF ManagerInv

(* What is known of a thread that is about to write the store. *)
LEMMA SelectingThread ==
    ASSUME ManagerInv, NEW p \in Procs, pc[p] \in Selecting
    PROVE  /\ req[p].op = "select_provider" /\ req[p] \in Requests \cup {NoReq}
           /\ Target(p) \in Domains /\ req[p].comp \in Maybe(Providers)
           /\ loc[p] \in Local /\ PinsHonoured(loc[p])
           /\ loc[p].fallback = Idle.fallback
           /\ Thread(pc[p], req[p], loc[p])
<1>1. Thread(pc[p], req[p], loc[p])
  BY DEF ManagerInv, Threads
<1>2. req[p] \in Requests \cup {NoReq} /\ req[p].op = "select_provider"
  BY <1>1 DEF Thread, Placed
<1>3. Target(p) \in Domains
  BY <1>2, TargetDomain DEF Target
<1>4. req[p].comp \in Maybe(Providers)
  BY <1>2, RequestAccepted DEF Request
<1> QED BY <1>1, <1>2, <1>3, <1>4 DEF Thread, Selecting

(* The listing that answers a selection. *)
LEMMA AnswerThread ==
    ASSUME ManagerInv, NEW p \in Procs, pc[p] \in Selecting
    PROVE  LET s == StartListing(loc[p], {Target(p)}, FALSE, "rows")
           IN  Thread("catalog", req[p], s) /\ s.exp = loc[p].exp
<1>1. Thread("catalog", req[p], StartListing(loc[p], {Target(p)}, FALSE, "rows"))
  BY SelectingThread, ListingThread
<1>2. StartListing(loc[p], {Target(p)}, FALSE, "rows").exp = loc[p].exp
  BY SelectingThread DEF StartListing, Refresh, Local
<1> QED BY <1>1, <1>2

(* The second critical section either gives up, which is a plain step, or     *)
(* takes the lock with the revision unchanged since the client's listing.     *)
Commits(p) ==
    /\ pc[p] = "commit" /\ lock = None /\ ~Stale(p)
    /\ selections[Target(p)] # req[p].comp
    /\ lock' = p
    /\ selections' = [selections EXCEPT ![Target(p)] = req[p].comp]
    /\ Step(p, "saving", [loc[p] EXCEPT !.old = selections[Target(p)]])
    /\ UNCHANGED <<catalog, fresh, catalogLock, store, routes, active,
                   revision, polled, basis, restarts>>

LEMMA CommitOrPlain ==
    ASSUME ManagerInv, NEW p \in Procs, Commit(p)
    PROVE  Commits(p) \/ IsPlain(p)
<1> DEFINE s == StartListing(loc[p], {Target(p)}, FALSE, "rows")
<1>1. pc[p] = "commit" /\ pc[p] \notin Critical /\ pc[p] \in Selecting
  BY DEF Commit, At, Critical, Selecting
<1>2. CASE ~Stale(p) /\ selections[Target(p)] # req[p].comp
  BY <1>1, <1>2 DEF Commit, Commits, Unlocked
<1>3. CASE ~ (~Stale(p) /\ selections[Target(p)] # req[p].comp)
  <2>1. UNCHANGED policyVars /\ SharedOK'
    BY <1>3, TypeOKShared DEF Commit, policyVars, SharedOK, ManagerInv
  <2>2. Finish(p) \/ Step(p, "catalog", s)
    BY <1>3 DEF Commit
  <2>3. Thread("catalog", req[p], s) /\ s.exp = loc[p].exp /\ "catalog" \notin Critical
    BY <1>1, AnswerThread DEF Critical
  <2> HIDE DEF s
  <2> QED BY <1>1, <2>1, <2>2, <2>3, FinishIsPlain, StepIsPlain
<1> QED BY <1>2, <1>3

LEMMA CommitKeepsInv ==
    ASSUME ManagerInv, NEW p \in Procs, Commits(p)
    PROVE  ManagerInv'
<1> DEFINE s == [loc[p] EXCEPT !.old = selections[Target(p)]]
<1>1. /\ pc[p] = "commit" /\ lock = None /\ lock' = p /\ ~Stale(p)
      /\ selections[Target(p)] # req[p].comp
      /\ selections' = [selections EXCEPT ![Target(p)] = req[p].comp]
      /\ Step(p, "saving", s)
      /\ UNCHANGED <<catalog, fresh, catalogLock, store, routes, active,
                     revision, polled, basis, restarts>>
  BY DEF Commits
<1>2. /\ Target(p) \in Domains /\ req[p].comp \in Maybe(Providers)
      /\ loc[p] \in Local /\ Thread("commit", req[p], loc[p])
      /\ req[p].op = "select_provider"
  BY <1>1, SelectingThread DEF Selecting
<1>3. selections = store /\ selections \in [Domains -> Maybe(Providers)]
  BY <1>1 DEF ManagerInv, CommitConsistent, TypeOK, Pins
<1>4. s \in Local
  BY <1>2, <1>3 DEF Local
<1>5. /\ s.pins = loc[p].pins /\ s.active = loc[p].active
      /\ s.routes = loc[p].routes /\ s.fallback = loc[p].fallback
      /\ s.exp = loc[p].exp /\ s.old = selections[Target(p)]
  BY <1>2 DEF Local
<1> HIDE DEF s
<1>6. Thread("saving", req[p], s)
  <2>1. "saving" \in Labels \ (InCatalog \cup {"domains", "order", "probe"})
    BY DEF Labels, InCatalog
  <2>2. Placed("saving", req[p], s)
    BY <1>2 DEF Placed, InCatalog
  <2> QED BY <1>2, <1>4, <1>5, <2>1, <2>2, ThreadElsewhere
<1>7. /\ pc' = [pc EXCEPT ![p] = "saving"] /\ loc' = [loc EXCEPT ![p] = s]
      /\ req' = [req EXCEPT ![p] = req[p]] /\ req' = req
  BY <1>1 DEF Step, ManagerInv, TypeOK
<1>8. /\ Threads'
      /\ pc' \in [Procs -> Labels] /\ req' \in [Procs -> Request]
      /\ loc' \in [Procs -> Local]
      /\ pc'[p] = "saving" /\ loc'[p] = s
      /\ \A o \in Procs : o # p =>
            pc'[o] = pc[o] /\ req'[o] = req[o] /\ loc'[o] = loc[o]
  BY <1>6, <1>7, MovedThreads
<1>9. TypeOK'
  <2>1. selections' \in Pins
    BY <1>1, <1>2, <1>3 DEF Pins
  <2> QED BY <1>1, <1>8, <2>1 DEF ManagerInv, TypeOK, Pins, Maybe
<1>10. \A o \in Procs : o # p => pc'[o] \notin Critical
  BY <1>1, <1>8, ManagerAssumption DEF ManagerInv, CommitConsistent, Critical
<1>11. CommitConsistent'
  <2>1. \A o \in Procs : pc'[o] \in Critical <=> lock' = o
    BY <1>1, <1>8, <1>10 DEF Critical
  <2>2. lock' # None
    BY <1>1, ManagerAssumption
  <2>3. /\ selections' = [store' EXCEPT ![Target(p)'] = req'[p].comp]
        /\ loc'[p].old = store'[Target(p)'] /\ loc'[p].old # req'[p].comp
    <3>1. Target(p)' = Target(p)
      BY <1>7 DEF Target
    <3> QED BY <1>1, <1>3, <1>5, <1>7, <1>8, <3>1
  <2> QED BY <1>8, <1>10, <2>1, <2>2, <2>3 DEF CommitConsistent, Critical
<1>12. BasisCounted'
  <2> SUFFICES ASSUME NEW o \in Workers
               PROVE  /\ loc'[o].exp \in {None, basis[o].rev}
                      /\ (basis[o].boot = restarts /\ pc'[o] = "saving"
                          /\ loc'[o].exp # None) => basis[o].replaced = {}
    BY <1>1 DEF ManagerInv, BasisCounted
  <2>1. loc'[o].exp = loc[o].exp /\ loc[o].exp \in {None, basis[o].rev}
    BY <1>5, <1>8 DEF ManagerInv, BasisCounted, Procs
  <2>2. CASE o = p
    BY <1>1, <2>1, <2>2 DEF Stale, ManagerInv, BasisCounted, TypeOK
  <2>3. CASE o # p
    BY <1>10, <2>1, <2>3 DEF Procs, Critical
  <2> QED BY <2>1, <2>2, <2>3
<1> QED BY <1>8, <1>9, <1>11, <1>12 DEF ManagerInv

(* SelectionStore.save succeeds: the file is replaced. *)
LEMMA SaveKeepsInv ==
    ASSUME ManagerInv, NEW p \in Procs, Save(p)
    PROVE  ManagerInv'
<1>1. /\ pc[p] = "saving" /\ store' = selections /\ Step(p, "install", loc[p])
      /\ UNCHANGED <<catalog, fresh, catalogLock, lock, selections, routes,
                     active, revision, polled, basis, restarts>>
  BY DEF Save, At
<1>2. /\ Target(p) \in Domains /\ req[p].comp \in Maybe(Providers)
      /\ loc[p] \in Local /\ Thread("saving", req[p], loc[p])
      /\ req[p].op = "select_provider"
  BY <1>1, SelectingThread DEF Selecting
<1>3. /\ store \in [Domains -> Maybe(Providers)] /\ lock = p
      /\ selections = [store EXCEPT ![Target(p)] = req[p].comp]
      /\ loc[p].old # req[p].comp
  BY <1>1 DEF ManagerInv, CommitConsistent, TypeOK, Pins
<1>4. Thread("install", req[p], loc[p])
  <2>1. "install" \in Labels \ (InCatalog \cup {"domains", "order", "probe"})
    BY DEF Labels, InCatalog
  <2>2. Placed("install", req[p], loc[p])
    BY <1>2 DEF Placed, InCatalog
  <2> QED BY <1>2, <2>1, <2>2, ThreadElsewhere
<1>5. /\ pc' = [pc EXCEPT ![p] = "install"] /\ loc' = [loc EXCEPT ![p] = loc[p]]
      /\ req' = [req EXCEPT ![p] = req[p]] /\ req' = req
  BY <1>1 DEF Step, ManagerInv, TypeOK
<1>6. /\ Threads'
      /\ pc' \in [Procs -> Labels] /\ req' \in [Procs -> Request]
      /\ loc' \in [Procs -> Local]
      /\ pc'[p] = "install" /\ loc'[p] = loc[p]
      /\ \A o \in Procs : o # p =>
            pc'[o] = pc[o] /\ req'[o] = req[o] /\ loc'[o] = loc[o]
  BY <1>4, <1>5, MovedThreads
<1>7. TypeOK'
  BY <1>1, <1>6 DEF ManagerInv, TypeOK, Pins, Maybe
<1>8. \A o \in Procs : o # p => pc'[o] \notin Critical
  BY <1>3, <1>6 DEF ManagerInv, CommitConsistent, Critical
<1>9. CommitConsistent'
  <2>1. \A o \in Procs : pc'[o] \in Critical <=> lock' = o
    BY <1>1, <1>3, <1>6, <1>8 DEF Critical
  <2>2. lock' # None
    BY <1>1, <1>3, ManagerAssumption
  <2>3. /\ selections' = store' /\ store'[Target(p)'] = req'[p].comp
        /\ loc'[p].old # req'[p].comp
    <3>1. Target(p)' = Target(p)
      BY <1>5 DEF Target
    <3> QED BY <1>1, <1>2, <1>3, <1>5, <1>6, <3>1
  <2> QED BY <1>6, <1>8, <2>1, <2>2, <2>3 DEF CommitConsistent, Critical
<1>10. BasisCounted'
  <2> SUFFICES ASSUME NEW o \in Workers
               PROVE  loc'[o].exp = loc[o].exp /\ pc'[o] # "saving"
    BY <1>1 DEF ManagerInv, BasisCounted
  <2> QED BY <1>6, <1>8 DEF Procs, Critical
<1> QED BY <1>6, <1>7, <1>9, <1>10 DEF ManagerInv

(* It fails: memory goes back to what the file still says. *)
LEMMA SaveFailsKeepsInv ==
    ASSUME ManagerInv, NEW p \in Procs, SaveFails(p)
    PROVE  ManagerInv' /\ selections' = store'
<1>1. /\ pc[p] = "saving" /\ selections' = RolledBack(p) /\ lock' = None
      /\ Finish(p)
      /\ UNCHANGED <<catalog, fresh, catalogLock, store, routes, active,
                     revision, polled, basis, restarts>>
  BY DEF SaveFails, At
<1>2. Target(p) \in Domains
  BY <1>1, SelectingThread DEF Selecting
<1>3. /\ store \in [Domains -> Maybe(Providers)] /\ lock = p
      /\ selections = [store EXCEPT ![Target(p)] = req[p].comp]
      /\ loc[p].old = store[Target(p)]
  BY <1>1 DEF ManagerInv, CommitConsistent, TypeOK, Pins
<1>4. selections' = store
  <2>1. selections' = [selections EXCEPT ![Target(p)] = store[Target(p)]]
    BY <1>1, <1>3 DEF RolledBack
  <2> QED BY <1>2, <1>3, <2>1
<1>5. /\ Threads'
      /\ pc' \in [Procs -> Labels] /\ req' \in [Procs -> Request]
      /\ loc' \in [Procs -> Local]
      /\ pc'[p] = "idle" /\ req'[p] = NoReq /\ loc'[p] = Idle
      /\ \A o \in Procs : o # p =>
            pc'[o] = pc[o] /\ req'[o] = req[o] /\ loc'[o] = loc[o]
  BY <1>1, MovedThreads, IdleThread DEF Finish
<1>6. TypeOK'
  BY <1>1, <1>3, <1>4, <1>5 DEF ManagerInv, TypeOK, Pins, Maybe
<1>7. \A o \in Procs : pc'[o] \notin Critical /\ None # o
  BY <1>3, <1>5, ManagerAssumption DEF ManagerInv, CommitConsistent, Critical
<1>8. CommitConsistent'
  BY <1>1, <1>4, <1>7 DEF CommitConsistent, Critical
<1>9. BasisCounted'
  <2> SUFFICES ASSUME NEW o \in Workers
               PROVE  loc'[o].exp \in {None, loc[o].exp} /\ pc'[o] # "saving"
    BY <1>1 DEF ManagerInv, BasisCounted
  <2> QED BY <1>5, <1>7 DEF Procs, Critical, Idle
<1> QED BY <1>1, <1>4, <1>5, <1>6, <1>8, <1>9 DEF ManagerInv

(* The rest of the critical section: the event counts every client's         *)
(* revision out of date.                                                     *)
LEMMA InstallKeepsInv ==
    ASSUME ManagerInv, NEW p \in Procs, Install(p)
    PROVE  ManagerInv'
<1> DEFINE s == StartListing(loc[p], {Target(p)}, FALSE, "rows")
<1>1. /\ pc[p] = "install" /\ routes' = RoutesWithout(Target(p))
      /\ active' = [active EXCEPT ![Target(p)] = None]
      /\ revision' = revision + 1
      /\ basis' = [o \in Workers |->
                      [basis[o] EXCEPT !.replaced = @ \cup {Target(p)}]]
      /\ lock' = None /\ Step(p, "catalog", s)
      /\ UNCHANGED <<catalog, fresh, catalogLock, selections, store, polled,
                     restarts>>
  BY DEF Install, At
<1>2. Target(p) \in Domains
  BY <1>1, SelectingThread DEF Selecting
<1>3. lock = p /\ selections = store
  BY <1>1 DEF ManagerInv, CommitConsistent
<1>4. Thread("catalog", req[p], s) /\ s.exp = loc[p].exp
  BY <1>1, AnswerThread DEF Selecting
<1> HIDE DEF s
<1>5. /\ pc' = [pc EXCEPT ![p] = "catalog"] /\ loc' = [loc EXCEPT ![p] = s]
      /\ req' = [req EXCEPT ![p] = req[p]]
  BY <1>1 DEF Step, ManagerInv, TypeOK
<1>6. /\ Threads'
      /\ pc' \in [Procs -> Labels] /\ req' \in [Procs -> Request]
      /\ loc' \in [Procs -> Local]
      /\ pc'[p] = "catalog" /\ loc'[p] = s
      /\ \A o \in Procs : o # p =>
            pc'[o] = pc[o] /\ req'[o] = req[o] /\ loc'[o] = loc[o]
  BY <1>4, <1>5, MovedThreads
<1>7. revision \in Nat /\ restarts \in Nat
  BY DEF ManagerInv, TypeOK
<1>8. \A o \in Workers :
         /\ basis[o].rev \in Nat /\ basis[o].boot \in Nat
         /\ basis'[o].rev = basis[o].rev /\ basis'[o].boot = basis[o].boot
  BY <1>1 DEF ManagerInv, TypeOK
<1>9. TypeOK'
  <2>1. routes' \in [Devices -> Maybe(Providers)]
    BY <1>1 DEF RoutesWithout, ManagerInv, TypeOK, Maybe
  <2>2. active' \in Pins
    BY <1>1 DEF Pins, ManagerInv, TypeOK, Maybe
  <2>3. basis' \in [Workers -> [doms : SUBSET Domains, rev : Nat, boot : Nat,
                                outdated : SUBSET Domains,
                                replaced : SUBSET Domains]]
    BY <1>1, <1>2 DEF ManagerInv, TypeOK
  <2>4. /\ catalog' \in CatalogType /\ fresh' \in BOOLEAN
        /\ catalogLock' \in Maybe(Procs) /\ lock' \in Maybe(Procs)
        /\ selections' \in Pins /\ store' \in Pins /\ polled' \in BOOLEAN
        /\ revision' \in Nat /\ restarts' \in Nat
    BY <1>1, <1>7 DEF ManagerInv, TypeOK, Maybe
  <2> QED BY <1>6, <2>1, <2>2, <2>3, <2>4 DEF TypeOK, Pins, Maybe, CatalogType
<1>10. \A o \in Procs : pc'[o] \notin Critical /\ None # o
  BY <1>3, <1>6, ManagerAssumption DEF ManagerInv, CommitConsistent, Critical
<1>11. CommitConsistent'
  BY <1>1, <1>3, <1>10 DEF CommitConsistent, Critical
<1>12. BasisCounted'
  <2> SUFFICES ASSUME NEW o \in Workers
               PROVE  /\ loc'[o].exp \in {None, basis[o].rev}
                      /\ pc'[o] # "saving"
                      /\ basis[o].boot <= restarts
                      /\ basis[o].boot = restarts => basis[o].rev < revision + 1
    BY <1>1, <1>7, <1>8 DEF BasisCounted
  <2>1. loc'[o].exp = loc[o].exp /\ pc'[o] # "saving"
    BY <1>4, <1>6, <1>10 DEF Procs, Critical
  <2> QED BY <1>7, <1>8, <2>1 DEF ManagerInv, BasisCounted
<1> QED BY <1>6, <1>9, <1>11, <1>12 DEF ManagerInv

(* A new process starts from the store alone. *)
LEMMA RestartKeepsInv ==
    ASSUME ManagerInv, Restart
    PROVE  ManagerInv'
<1>1. restarts \in Nat /\ restarts' = restarts + 1
  BY DEF ManagerInv, TypeOK, Restart
<1>2. Idle \in Local /\ Idle.exp = None /\ NoReq \in Request /\ "idle" \in Labels
  BY IdleThread, RequestAccepted DEF Thread, Idle
<1>3. TypeOK'
  <2>1. /\ pc' \in [Procs -> Labels] /\ req' \in [Procs -> Request]
        /\ loc' \in [Procs -> Local]
    BY <1>2 DEF Restart
  <2>2. /\ routes' \in [Devices -> Maybe(Providers)] /\ active' \in Pins
        /\ catalog' \in CatalogType
    BY DEF Restart, NoPins, NoRoutes, Pins, Maybe, CatalogType
  <2>3. /\ catalogLock' \in Maybe(Procs) /\ lock' \in Maybe(Procs)
        /\ revision' \in Nat /\ restarts' \in Nat
    BY <1>1 DEF Restart, Maybe
  <2>4. selections' \in Pins /\ store' \in Pins /\ basis' = basis
    BY DEF ManagerInv, TypeOK, Restart
  <2>5. fresh' \in BOOLEAN /\ polled' \in BOOLEAN
    BY DEF Restart
  <2> QED BY <2>1, <2>2, <2>3, <2>4, <2>5 DEF ManagerInv, TypeOK, Pins, Maybe, CatalogType
<1>4. \A o \in Procs : Thread(pc'[o], req'[o], loc'[o])
  BY IdleThread DEF Restart
<1>5. Threads'
  BY <1>4 DEF Threads, Thread, Placed, PinsHonoured, Collecting, Collected,
     InHand, Trying, Idle, NoReq, Labels, Local, CatalogType, Pins, Maybe,
     InCatalog, Selecting, DevicesOf, NoPins, NoRoutes
<1>6. CommitConsistent'
  BY ManagerAssumption DEF Restart, CommitConsistent
<1>7. BasisCounted'
  <2> SUFFICES ASSUME NEW o \in Workers
               PROVE  /\ loc'[o].exp = None /\ basis[o].boot <= restarts + 1
                      /\ basis[o].boot # restarts + 1
    BY <1>1 DEF BasisCounted, Restart
  <2>1. loc'[o] = Idle
    BY DEF Restart, Procs
  <2>2. basis[o].boot <= restarts /\ basis[o].boot \in Nat
    BY DEF ManagerInv, BasisCounted, TypeOK
  <2> QED BY <1>1, <1>2, <2>1, <2>2
<1> QED BY <1>3, <1>5, <1>6, <1>7 DEF ManagerInv

LEMMA ManagerInvInit == Init => ManagerInv
<1> SUFFICES ASSUME Init PROVE ManagerInv
  OBVIOUS
<1>1. Idle \in Local /\ Idle.exp = None /\ NoReq \in Request /\ "idle" \in Labels
  BY IdleThread, RequestAccepted DEF Thread, Idle
<1>2. NoBasis \in [doms : SUBSET Domains, rev : Nat, boot : Nat,
                   outdated : SUBSET Domains, replaced : SUBSET Domains]
  BY DEF NoBasis
<1>3. TypeOK
  BY <1>1, <1>2 DEF Init, TypeOK, NoPins, NoRoutes, Pins, Maybe, CatalogType
<1>4. Threads
  BY IdleThread DEF Init, Threads
<1>5. CommitConsistent
  BY ManagerAssumption DEF Init, CommitConsistent
<1>6. BasisCounted
  BY <1>1 DEF Init, BasisCounted, NoBasis, Procs
<1> QED BY <1>3, <1>4, <1>5, <1>6 DEF ManagerInv

(* Every step is a plain step of one thread or one of the five others. *)
LEMMA StepKinds ==
    ASSUME ManagerInv, Next
    PROVE  \/ \E p \in Procs :
                 \/ IsPlain(p) \/ RecordEvent(p) \/ ReplyRows(p) \/ Commits(p)
                 \/ Save(p) \/ SaveFails(p) \/ Install(p)
           \/ CatalogExpires \/ Restart
<1>1. ASSUME NEW p \in Workers, NEW q \in Requests, Call(p, q)
      PROVE  \E o \in Procs : IsPlain(o)
  BY <1>1, EnterPlain DEF Call, Procs
<1>2. ASSUME NEW q \in Requests, Poll(q)
      PROVE  \E o \in Procs : IsPlain(o)
  <2>1. ~q.cas /\ Enter(Poller, q) /\ Poller \in Procs
    BY <1>2, ManagerAssumption DEF Poll, WellFormed, Procs
  <2> QED BY <2>1, EnterPlain
<1>3. ASSUME NEW p \in Procs, Run(p)
      PROVE  \/ IsPlain(p) \/ RecordEvent(p) \/ ReplyRows(p) \/ Commits(p)
             \/ Save(p) \/ SaveFails(p) \/ Install(p)
  BY <1>3, CatalogPlain, InventoryPlain, RoutePlain, ListingPlain, CommitOrPlain
  DEF Run
<1> QED BY <1>1, <1>2, <1>3 DEF Next

(* No thread moves. *)
LEMMA QuietKeepsInv ==
    ASSUME ManagerInv, UNCHANGED <<pc, req, loc>>, UNCHANGED policyVars, SharedOK'
    PROVE  ManagerInv'
<1>1. TypeOK'
  BY DEF ManagerInv, TypeOK, SharedOK, policyVars, Pins, Maybe
<1>2. \A o \in Procs : Thread(pc'[o], req'[o], loc'[o])
  BY DEF ManagerInv, Threads
<1>3. Threads'
  BY <1>2 DEF Threads, Thread, Placed, PinsHonoured, Collecting, Collected,
     InHand, Trying, Idle, NoReq, Labels, Local, CatalogType, Pins, Maybe,
     InCatalog, Selecting, DevicesOf, NoPins, NoRoutes
<1>4. CommitConsistent'
  BY DEF ManagerInv, CommitConsistent, policyVars, Target
<1>5. BasisCounted'
  BY DEF ManagerInv, BasisCounted, policyVars
<1> QED BY <1>1, <1>3, <1>4, <1>5 DEF ManagerInv

LEMMA ManagerInvNext == ManagerInv /\ [Next]_vars => ManagerInv'
<1> SUFFICES ASSUME ManagerInv, [Next]_vars PROVE ManagerInv'
  OBVIOUS
<1>1. CASE UNCHANGED vars
  BY <1>1, QuietKeepsInv, TypeOKShared DEF vars, policyVars, SharedOK, ManagerInv
<1>2. CASE CatalogExpires
  BY <1>2, QuietKeepsInv, TypeOKShared
  DEF CatalogExpires, policyVars, SharedOK, ManagerInv
<1>3. CASE Restart
  BY <1>3, RestartKeepsInv
<1>4. ASSUME NEW p \in Procs,
             \/ IsPlain(p) \/ RecordEvent(p) \/ ReplyRows(p) \/ Commits(p)
             \/ Save(p) \/ SaveFails(p) \/ Install(p)
      PROVE  ManagerInv'
  BY <1>4, PlainKeepsInv, RecordKeepsInv, ReplyKeepsInv, CommitKeepsInv,
     SaveKeepsInv, SaveFailsKeepsInv, InstallKeepsInv
<1> QED BY <1>1, <1>2, <1>3, <1>4, StepKinds

LEMMA ManagerInvariant == Spec => []ManagerInv
BY ManagerInvInit, ManagerInvNext, PTL DEF Spec

-----------------------------------------------------------------------------
(* The state of the manager keeps its types: every provider, device and       *)
(* domain it reaches for exists, in every interleaving of calls and polls.    *)
THEOREM ManagerTyped == Spec => []TypeOK
<1>1. ManagerInv => TypeOK
  BY DEF ManagerInv
<1> QED BY <1>1, ManagerInvariant, PTL

(* Memory and provider-selection.json agree whenever no commit is inside its  *)
(* critical section: the rollback after a failed save, the order of save and  *)
(* install, and the restart from the file leave nothing behind.               *)
THEOREM SelectionsAreDurable == Spec => []SelectionDurable
<1>1. ManagerInv => SelectionDurable
  BY DEF ManagerInv, CommitConsistent, SelectionDurable, Unlocked
<1> QED BY <1>1, ManagerInvariant, PTL

(* select_provider with expected_revision, checked again after the preflight, *)
(* never writes over a preference that somebody else committed after the      *)
(* revision was read, for any number of clients.                              *)
THEOREM CheckedCommitKeepsOthers == Spec => []CasKeepsOthers
<1>1. ManagerInv => CasKeepsOthers
  <2> SUFFICES ASSUME ManagerInv, NEW p \in Overwriting
               PROVE  Target(p) \notin basis[p].replaced
    BY DEF CasKeepsOthers
  <2>1. /\ p \in Workers /\ pc[p] = "saving" /\ loc[p].exp # None
        /\ basis[p].boot = restarts
    BY DEF Overwriting
  <2>2. basis[p].replaced = {}
    BY <2>1 DEF ManagerInv, BasisCounted
  <2> QED BY <2>2
<1> QED BY <1>1, ManagerInvariant, PTL

(* An inventory that found a provider pinned reports and routes through that  *)
(* provider or none, whatever the candidates answer and however often the     *)
(* pin changes meanwhile (_ordered_for, inventory).                           *)
THEOREM PinsFailVisibly == Spec => []PinnedFailsVisibly
<1>1. ManagerInv => PinnedFailsVisibly
  BY DEF ManagerInv, Threads, Thread, PinsHonoured, PinnedFailsVisibly
<1> QED BY <1>1, ManagerInvariant, PTL

-----------------------------------------------------------------------------
(* The refinement: what the users see of the preferences. *)

LEMMA PlainStutters ==
    ASSUME ManagerInv, NEW p \in Procs, IsPlain(p)
    PROVE  UNCHANGED <<VisiblePins, revision, restarts>>
<1>1. PICK l, q, r : Plain(p, l, q, r)
  BY DEF IsPlain
<1>2. /\ UNCHANGED policyVars /\ pc[p] \notin Critical
      /\ \A o \in Procs : o # p => req'[o] = req[o] /\ loc'[o] = loc[o]
  BY <1>1, MovedThreads DEF Plain
<1>3. CASE lock = None
  BY <1>2, <1>3 DEF policyVars, VisiblePins
<1>4. CASE lock # None
  <2>1. lock \in Procs /\ lock # p
    BY <1>2, <1>4 DEF ManagerInv, TypeOK, Maybe, CommitConsistent, Critical
  <2>2. Target(lock)' = Target(lock) /\ loc'[lock'] = loc[lock] /\ lock' = lock
    BY <1>2, <2>1 DEF Target, policyVars
  <2> QED BY <1>2, <1>4, <2>2 DEF policyVars, VisiblePins
<1> QED BY <1>3, <1>4

(* Of a commit, users see nothing before its event is recorded. *)
LEMMA CommitStutters ==
    ASSUME ManagerInv, NEW p \in Procs, Commits(p) \/ Save(p) \/ SaveFails(p)
    PROVE  UNCHANGED <<VisiblePins, revision, restarts>>
<1>0. store \in [Domains -> Maybe(Providers)] /\ p # None
  BY ManagerAssumption DEF ManagerInv, TypeOK, Pins
<1>1. CASE Commits(p)
  <2>1. /\ lock = None /\ lock' = p /\ UNCHANGED <<store, revision, restarts>>
        /\ Step(p, "saving", [loc[p] EXCEPT !.old = selections[Target(p)]])
    BY <1>1 DEF Commits
  <2>2. selections = store /\ loc[p] \in Local
    BY <2>1 DEF ManagerInv, CommitConsistent, TypeOK
  <2>3. Target(p)' = Target(p) /\ loc'[p].old = store[Target(p)]
    BY <2>1, <2>2 DEF Step, Target, ManagerInv, TypeOK, Local
  <2>4. VisiblePins = store /\ VisiblePins' = [store EXCEPT ![Target(p)] = store[Target(p)]]
    BY <1>0, <2>1, <2>3 DEF VisiblePins
  <2> QED BY <1>0, <2>1, <2>4
<1>2. CASE Save(p)
  <2>1. /\ pc[p] = "saving" /\ store' = selections /\ Step(p, "install", loc[p])
        /\ UNCHANGED <<lock, revision, restarts>>
    BY <1>2 DEF Save, At
  <2>2. /\ lock = p /\ selections = [store EXCEPT ![Target(p)] = req[p].comp]
        /\ loc[p].old = store[Target(p)]
    BY <2>1 DEF ManagerInv, CommitConsistent
  <2>3. Target(p)' = Target(p) /\ loc'[p] = loc[p]
    BY <2>1 DEF Step, Target, ManagerInv, TypeOK
  <2>4. /\ VisiblePins = [store EXCEPT ![Target(p)] = store[Target(p)]]
        /\ VisiblePins' = [selections EXCEPT ![Target(p)] = store[Target(p)]]
    BY <1>0, <2>1, <2>2, <2>3 DEF VisiblePins
  <2>5. Target(p) \in Domains
    BY <2>1, SelectingThread DEF Selecting
  <2>6. VisiblePins = store /\ VisiblePins' = store
    BY <1>0, <2>2, <2>4, <2>5
  <2> QED BY <2>1, <2>6
<1>3. CASE SaveFails(p)
  <2>1. pc[p] = "saving" /\ lock' = None /\ UNCHANGED <<store, revision, restarts>>
    BY <1>3 DEF SaveFails, At
  <2>2. lock = p /\ loc[p].old = store[Target(p)]
    BY <2>1 DEF ManagerInv, CommitConsistent
  <2>3. /\ VisiblePins = [store EXCEPT ![Target(p)] = store[Target(p)]]
        /\ VisiblePins' = store
    BY <1>0, <2>1, <2>2 DEF VisiblePins
  <2> QED BY <1>0, <2>1, <2>3
<1> QED BY <1>1, <1>2, <1>3

(* The event makes the whole commit visible: one preference has changed. *)
LEMMA InstallPins ==
    ASSUME ManagerInv, NEW p \in Procs, Install(p)
    PROVE  \E d \in Domains, c \in Providers \cup {None} : Policy!Pin(d, c)
<1> DEFINE d == Target(p)
           c == req[p].comp
<1>1. /\ pc[p] = "install" /\ lock' = None /\ revision' = revision + 1
      /\ UNCHANGED <<store, restarts>>
  BY DEF Install, At
<1>2. d \in Domains /\ c \in Providers \cup {None}
  BY <1>1, SelectingThread DEF Selecting, Maybe
<1>3. /\ lock = p /\ store[d] = c /\ loc[p].old # c
      /\ store \in [Domains -> Maybe(Providers)] /\ p # None
  BY <1>1, ManagerAssumption DEF ManagerInv, CommitConsistent, TypeOK, Pins
<1>4. VisiblePins = [store EXCEPT ![d] = loc[p].old] /\ VisiblePins' = store
  BY <1>1, <1>3 DEF VisiblePins
<1> HIDE DEF d, c
<1>5. VisiblePins[d] # c /\ VisiblePins' = [VisiblePins EXCEPT ![d] = c]
  <2>1. VisiblePins[d] = loc[p].old
    BY <1>2, <1>3, <1>4
  <2>2. [VisiblePins EXCEPT ![d] = c] = store
    BY <1>2, <1>3, <1>4
  <2> QED BY <1>3, <1>4, <2>1, <2>2
<1>6. Policy!Pin(d, c)
  BY <1>1, <1>5 DEF Policy!Pin
<1> QED BY <1>2, <1>6

(* A new process shows the file: a commit is there as a whole or not at all. *)
LEMMA RestartImplements ==
    ASSUME ManagerInv, Restart
    PROVE  Policy!Restart
<1>1. /\ lock' = None /\ store' = store /\ restarts' = restarts + 1
      /\ revision' = 0
  BY DEF Restart
<1>2. VisiblePins' = store
  BY <1>1 DEF VisiblePins
<1>3. CASE lock = None
  BY <1>1, <1>2, <1>3 DEF VisiblePins, Policy!Restart
<1>4. CASE lock # None
  <2>1. lock \in Procs /\ pc[lock] \in Critical
    BY <1>4 DEF ManagerInv, TypeOK, Maybe, CommitConsistent, Critical
  <2>2. Target(lock) \in Domains
    BY <2>1, SelectingThread DEF Selecting, Critical
  <2>3. store \in [Domains -> Maybe(Providers)]
    BY DEF ManagerInv, TypeOK, Pins
  <2>4. VisiblePins = [store EXCEPT ![Target(lock)] = loc[lock].old]
    BY <1>4 DEF VisiblePins
  <2>5. store = [VisiblePins EXCEPT ![Target(lock)] = store[Target(lock)]]
    BY <2>2, <2>3, <2>4
  <2>6. store[Target(lock)] \in Providers \cup {None}
    BY <2>2, <2>3 DEF Maybe
  <2> QED BY <1>1, <1>2, <2>2, <2>5, <2>6 DEF Policy!Restart
<1> QED BY <1>3, <1>4

LEMMA PolicyStep ==
    ManagerInv /\ [Next]_vars => [Policy!Next]_(Policy!vars)
<1> SUFFICES ASSUME ManagerInv, [Next]_vars
             PROVE  Policy!Next \/ UNCHANGED <<VisiblePins, revision, restarts>>
  BY DEF Policy!vars
<1>1. CASE UNCHANGED vars
  BY <1>1 DEF vars, VisiblePins, Target
<1>2. CASE CatalogExpires
  BY <1>2 DEF CatalogExpires, VisiblePins, Target
<1>3. CASE Restart
  BY <1>3, RestartImplements DEF Policy!Next
<1>4. ASSUME NEW p \in Procs, RecordEvent(p) \/ ReplyRows(p)
      PROVE  Policy!Next \/ UNCHANGED <<VisiblePins, revision, restarts>>
  <2>1. /\ pc[p] \notin Critical /\ Finish(p) /\ UNCHANGED <<lock, store, restarts>>
        /\ revision' \in {revision, revision + 1}
    BY <1>4 DEF RecordEvent, ReplyRows, At, Critical
  <2>2. VisiblePins' = VisiblePins
    <3>1. CASE lock = None
      BY <2>1, <3>1 DEF VisiblePins
    <3>2. CASE lock # None
      <4>1. lock \in Procs /\ lock # p
        BY <2>1, <3>2 DEF ManagerInv, TypeOK, Maybe, CommitConsistent, Critical
      <4>2. Target(lock)' = Target(lock) /\ loc'[lock'] = loc[lock]
        BY <2>1, <4>1 DEF Target, Finish, ManagerInv, TypeOK
      <4> QED BY <2>1, <3>2, <4>2 DEF VisiblePins
    <3> QED BY <3>1, <3>2
  <2> QED BY <2>1, <2>2 DEF Policy!Next, Policy!Record
<1>5. ASSUME NEW p \in Procs,
             \/ IsPlain(p) \/ Commits(p) \/ Save(p) \/ SaveFails(p) \/ Install(p)
      PROVE  Policy!Next \/ UNCHANGED <<VisiblePins, revision, restarts>>
  BY <1>5, PlainStutters, CommitStutters, InstallPins DEF Policy!Next
<1> QED BY <1>1, <1>2, <1>3, <1>4, <1>5, StepKinds

(* The manager implements ProviderPolicy: whatever the threads do, saves fail *)
(* and processes die, the users see one table that changes one domain at a    *)
(* time, each change with its event, and that survives a restart.             *)
THEOREM ManagerImplementsPolicy == Spec => PolicyImplemented
<1>1. Init => Policy!Init
  BY DEF Init, Policy!Init, VisiblePins, NoPins
<1> QED
  BY <1>1, PolicyStep, ManagerInvariant, PTL
  DEF Spec, PolicyImplemented, Policy!Spec

-----------------------------------------------------------------------------
(* The actions that write _device_routes or _active_providers. *)
LEMMA RouteWriters ==
    ASSUME Next
    PROVE  \/ UNCHANGED <<routes, active>>
           \/ Restart
           \/ \E p \in Procs : \/ Publish(p) \/ Install(p)
                               \/ \E best \in Maybe(Providers) : Sweep(p, best)
<1>1. ASSUME NEW p \in Procs, Run(p)
      PROVE  \/ UNCHANGED <<routes, active>> \/ Publish(p) \/ Install(p)
             \/ \E best \in Maybe(Providers) : Sweep(p, best)
  BY <1>1 DEF Run, CheckCatalog, ClaimCatalog, Discover, DiscoverFails,
     NextDomain, OrderFor, Probe, CachedRoute, LookupRoute, ReadState,
     WriteState, RecordEvent, PollState, PollCompare, ReadRow, ProbeDetail,
     ReplyRows, VetSelection, Preflight, Commit, Save, SaveFails
<1>2. ASSUME NEW p, NEW q, Enter(p, q)
      PROVE  UNCHANGED <<routes, active>>
  BY <1>2 DEF Enter
<1> QED BY <1>1, <1>2 DEF Next, Call, Poll, CatalogExpires

(* Whatever inventories, commits, polls and listings race: a device's route   *)
(* is replaced only together with an active provider that owns it, and only   *)
(* list_providers with probe ever parts the two.                              *)
THEOREM RoutesHaveActiveOwner == Spec => OwnerLostByProbeOnly
<1> DEFINE Kept == \A x \in Devices :
             (ActiveOwns(x) \/ routes'[x] # routes[x])
             => \/ ActiveOwns(x)'
                \/ \E p \in Procs : pc[p] = "sweep" /\ pc'[p] = "rows"
<1>1. ManagerInv /\ [Next]_vars => [Kept]_vars
  <2> SUFFICES ASSUME ManagerInv, Next
               PROVE  Kept
    OBVIOUS
  <2>0. \A x \in Devices : DomainOf[x] \in Domains
    BY ManagerAssumption
  <2>1. CASE UNCHANGED <<routes, active>>
    BY <2>1 DEF ActiveOwns
  <2>2. CASE Restart
    BY <2>2 DEF Restart, NoRoutes, ActiveOwns
  <2>3. ASSUME NEW p \in Procs, Publish(p)
        PROVE  \A x \in Devices : ActiveOwns(x)'
    <3>1. /\ pc[p] = "domains" /\ routes' = loc[p].routes
          /\ active' = [d \in Domains |-> IF d \in loc[p].doms
                                          THEN loc[p].active[d] ELSE active[d]]
      BY <2>3 DEF Publish, At, NewRoutes
    <3>2. Collected(loc[p])
      BY <3>1 DEF ManagerInv, Threads, Thread, Collecting
    <3> QED BY <2>0, <3>1, <3>2 DEF Collected, ActiveOwns
  <2>4. ASSUME NEW p \in Procs, Install(p)
        PROVE  Kept
    <3>1. /\ pc[p] = "install" /\ routes' = RoutesWithout(Target(p))
          /\ active' = [active EXCEPT ![Target(p)] = None]
      BY <2>4 DEF Install, At
    <3>2. active \in [Domains -> Maybe(Providers)]
      BY DEF ManagerInv, TypeOK, Pins
    <3> QED BY <2>0, <3>1, <3>2 DEF RoutesWithout, DevicesOf, ActiveOwns
  <2>5. ASSUME NEW p \in Procs, NEW best \in Maybe(Providers), Sweep(p, best)
        PROVE  Kept
    <3>1. pc[p] = "sweep" /\ Step(p, "rows", loc[p])
      BY <2>5 DEF Sweep, At
    <3>2. pc'[p] = "rows"
      BY <3>1 DEF Step, ManagerInv, TypeOK
    <3> QED BY <3>1, <3>2
  <2> QED BY <2>1, <2>2, <2>3, <2>4, <2>5, RouteWriters
<1> QED BY <1>1, ManagerInvariant, PTL DEF Spec, OwnerLostByProbeOnly
=============================================================================
