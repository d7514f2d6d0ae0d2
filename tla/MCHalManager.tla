---------------------------- MODULE MCHalManager ----------------------------
(* Instances of HalManager: which calls the clients of a run make.           *)
EXTENDS HalManager, TLC

CONSTANTS d1, d2, a, b, w1, w2, x1, x2

MCDomainOf == [x \in Devices |-> IF x = x1 THEN d1 ELSE d2]

(* a comes before b in the catalog *)
MCRank == [c \in Providers |-> IF c = a THEN 1 ELSE 2]

(* Both candidates serve every domain; then one of them is removed. *)
Full == [c \in Providers |-> Domains]
Without(c) == [Full EXCEPT ![c] = {}]

MCCatalogs == {Full, Without(b)}
MCFixedCatalog == {Full}

Base == [NoReq EXCEPT !.op = "inventory"]

Inventories(refresh) ==
    {[Base EXCEPT !.doms = {d}, !.refresh = refresh] : d \in Domains}

Writes == {[Base EXCEPT !.op = "set_state", !.dev = x] : x \in Devices}

Listing == [Base EXCEPT !.op = "list_providers", !.doms = {d1},
                        !.probe = TRUE]

Detail == [Base EXCEPT !.op = "get_provider", !.doms = {d1}, !.probe = TRUE]

Select(c, cas) == [Base EXCEPT !.op = "select_provider", !.doms = {d1},
                               !.comp = c, !.cas = cas]

Polling == [Base EXCEPT !.op = "poll", !.doms = Domains, !.refresh = TRUE]

(* Clients that list, then pin or reset with the revision they were given,   *)
(* and have the domain inventoried.  Commits without a revision and the      *)
(* detail of a provider are in the other sets.                               *)
SelectRequests ==
    {Listing, Select(a, TRUE), Select(b, TRUE), Select(None, TRUE)}
        \cup Inventories(FALSE)

(* A client that uses a device, inspects and pins its provider next to the   *)
(* polls; inventories are made by the polls and by the writes.               *)
RouteRequests ==
    {Polling, Detail, Select(b, FALSE)} \cup Writes

(* Two clients, one of which pins the provider of the device. *)
StaleRequests == {Select(b, FALSE)} \cup Inventories(FALSE) \cup Writes

Symmetry == Permutations(Workers)
=============================================================================
