------------------------------ MODULE Storage ------------------------------
(***************************************************************************)
(* The removable-storage part of the native HAL process (native_hal.c).     *)
(*                                                                          *)
(* The process is one poll loop: it takes an uevent, a timeout or an RPC    *)
(* and works it off before it polls again.  Media come and go, and other    *)
(* programs mount and unmount, while it works, so every look at sysfs and   *)
(* mountinfo (storage_scan) and every mount or umount command is a step of  *)
(* its own.  present holds the volumes that pass the scan's name,           *)
(* removable, critical-mount and block-device filters.                      *)
(***************************************************************************)
EXTENDS Naturals, Sequences, FiniteSets, SequencesExt, FiniteSetsExt

CONSTANTS Volumes,      \* block device names, in the order qsort gives them
          MaxVolumes,   \* MAX_STORAGE_VOLUMES (32)
          DefaultAuto,  \* MSYS_HAL_STORAGE_AUTOMOUNT
          Configs,      \* contents storage.json may have at first
          None,
          MaxChanges,   \* bound: media and mount changes made from outside
          MaxCalls,     \* bound: RPCs that change state
          MaxRestarts   \* bound: restarts of the process

ASSUME StorageAssumption ==
    /\ Volumes \subseteq Nat
    /\ IsFiniteSet(Volumes)
    /\ MaxVolumes \in Nat \ {0}
    /\ DefaultAuto \in BOOLEAN
    /\ Configs \subseteq {"missing", "true", "false", "invalid"}
    /\ None \notin Volumes
    /\ MaxChanges \in Nat
    /\ MaxCalls \in Nat
    /\ MaxRestarts \in Nat

VARIABLES present,      \* the volumes sysfs shows
          mountinfo,    \* per volume its mounts, oldest first
          uevents,      \* names with an uevent queued on the netlink socket
          netlink,      \* storage_open_uevent succeeded
          config,       \* storage.json
          auto,         \* storage_auto_mount
          configError,  \* storage_config_error is set
          attempted, suppressed,  \* storage_attempted, storage_suppressed
          errors,       \* storage_errors, by name
          cache,        \* storage_cache
          dirty,        \* storage_revision moved since the last event
          job,          \* what the loop is working off
          announced,    \* history: the last event and the process that sent it
          honoured,     \* history: <<volume, process>> unmounted by a client
          awaiting,     \* history: media inserted while no unmount of their name
                        \* was on record, and not yet tried or mounted
          changes, calls, restarts

osVars == <<present, mountinfo>>
listVars == <<attempted, suppressed, errors>>
viewVars == <<cache, dirty>>
configVars == <<config, auto, configError>>
boundVars == <<changes, calls, restarts>>
vars == <<present, mountinfo, uevents, netlink, config, auto, configError,
          attempted, suppressed, errors, cache, dirty, job, announced,
          honoured, awaiting, changes, calls, restarts>>

Kinds == {"managed", "external"}
MountLists == {<< >>} \cup {<<k>> : k \in Kinds} \cup
              {<<"managed", "external">>, <<"external", "managed">>}

(* What is left when the mount of a kind ends: there is one of each at most. *)
Without(list, k) ==
    CHOOSE rest \in MountLists : Range(rest) = Range(list) \ {k}

Row == [mount : Kinds \cup {"none"}, error : {"none", "mount", "unmount"}]

Jobs == [op : {"refresh", "mount", "unmount", "config", "none"},
         step : {"idle", "scan", "automount", "lookup", "command",
                 "failed", "check", "reply"},
         vol : Volumes \cup {None}, todo : SUBSET Volumes]

Idle == [op |-> "none", step |-> "idle", vol |-> None, todo |-> {}]

TypeOK ==
    /\ present \subseteq Volumes
    /\ mountinfo \in [Volumes -> MountLists]
    /\ uevents \subseteq Volumes
    /\ {netlink, auto, configError, dirty} \subseteq BOOLEAN
    /\ config \in {"missing", "true", "false", "invalid"}
    /\ attempted \subseteq Volumes /\ Cardinality(attempted) <= MaxVolumes
    /\ suppressed \subseteq Volumes /\ Cardinality(suppressed) <= MaxVolumes
    /\ errors \in [Volumes -> {"none", "mount", "unmount"}]
    /\ Cardinality({v \in Volumes : errors[v] # "none"}) <= MaxVolumes
    /\ DOMAIN cache \subseteq Volumes /\ Cardinality(DOMAIN cache) <= MaxVolumes
    /\ cache \in [DOMAIN cache -> Row]
    /\ job \in Jobs
    /\ honoured \subseteq Volumes \X (0 .. MaxRestarts)
    /\ awaiting \subseteq Volumes

-----------------------------------------------------------------------------
(* The bounded tables and the scan. *)

(* Slip: storage_list_add without its capacity check. *)
ListAddUnchecked(list, v) == list \cup {v}

(* storage_list_add: a full list keeps what it has *)
ListAdd(list, v) ==
    IF Cardinality(list) >= MaxVolumes THEN list ELSE list \cup {v}

SetError(v, code) ==
    IF errors[v] # "none" \/
       Cardinality({u \in Volumes : errors[u] # "none"}) < MaxVolumes
    THEN [errors EXCEPT ![v] = code]
    ELSE errors

ClearError(v) == [errors EXCEPT ![v] = "none"]

(* storage_mount_for reports the first line of mountinfo for the device *)
MountOf(v) == IF mountinfo[v] = << >> THEN "none" ELSE Head(mountinfo[v])

(* list_entries sorts the names it has read from the directory (at most 128, *)
(* which the model takes to be all of them).                                 *)
Before(v) == {u \in present : u < v}

(* The scan stops at MAX_STORAGE_VOLUMES entries of the sorted directory. *)
Visible == {v \in present : Cardinality(Before(v)) < MaxVolumes}

(* With more media than that a scan loses sight of some that are still in. *)
Crowded(media) == Cardinality(media) > MaxVolumes

Scan == [v \in Visible |-> [mount |-> MountOf(v), error |-> errors[v]]]

(* Slip: suppressions are dropped when the volume is not mounted. *)
PrunedUnmounted(list) == {v \in list \cap Visible : MountOf(v) # "none"}

(* storage_refresh forgets the names the scan no longer shows *)
Pruned(list) == list \cap Visible

(* The end of storage_refresh: prune, compare, replace the cache. *)
Publish ==
    /\ cache' = Scan
    /\ dirty' = (dirty \/ Scan # cache)
    /\ suppressed' = Pruned(suppressed)
    /\ attempted' = Pruned(attempted)
    /\ UNCHANGED errors

Goto(step) == job' = [job EXCEPT !.step = step]

-----------------------------------------------------------------------------
(* storage_refresh(1), entered at "scan". *)

Process == restarts + 1

Snapshot == [volumes |-> cache, auto |-> auto, by |-> Process]

Unserved == {v \in Visible : MountOf(v) = "none" /\ v \notin attempted
                                                 /\ v \notin suppressed}

Rescan(step, next) ==
    /\ job.step = step
    /\ Publish
    /\ Goto(next)
    /\ UNCHANGED <<osVars, uevents, netlink, configVars, announced, honoured,
                   awaiting, boundVars>>

BeginRefresh ==
    \/ /\ ~auto
       /\ Rescan("scan", "reply")
    \/ /\ job.step = "scan"
       /\ auto
       /\ job' = [job EXCEPT !.step = "automount", !.todo = Unserved]
       /\ UNCHANGED <<osVars, uevents, netlink, configVars, listVars, viewVars,
                      announced, honoured, awaiting, boundVars>>

KernelMounts(v) ==
    /\ v \in present
    /\ "managed" \notin Range(mountinfo[v])
    /\ mountinfo' = [mountinfo EXCEPT ![v] = Append(@, "managed")]

(* storage_mount_volume: the command succeeds, or it fails, or storage_run   *)
(* kills it after 15 seconds and the kernel may have mounted all the same.   *)
Mounted(v) ==
    /\ KernelMounts(v)
    /\ errors' = ClearError(v)

NotMounted(v) ==
    /\ UNCHANGED mountinfo \/ KernelMounts(v)
    /\ errors' = SetError(v, "mount")

(* Names are tried in directory order. *)
AutoMount ==
    /\ job.step = "automount"
    /\ job.todo # {}
    /\ LET v == Min(job.todo)
       IN /\ attempted' = ListAdd(attempted, v)
          /\ Mounted(v) \/ NotMounted(v)
          /\ awaiting' = awaiting \ {v}
          /\ job' = [job EXCEPT !.todo = @ \ {v}]
    /\ UNCHANGED <<present, uevents, netlink, configVars, suppressed, viewVars,
                   announced, honoured, boundVars>>

EndRefresh ==
    /\ job.todo = {}
    /\ Rescan("automount", "reply")

(* Slip: only the loop's own refreshes and set_config send the event. *)
ReplySilently ==
    /\ job.step = "reply"
    /\ announced' = IF dirty /\ job.op \in {"refresh", "config"} THEN Snapshot ELSE announced
    /\ dirty' = FALSE
    /\ job' = Idle
    /\ UNCHANGED <<osVars, uevents, netlink, configVars, listVars, cache,
                   honoured, awaiting, boundVars>>

(* process_call replies and, if the revision moved, sends the whole state; *)
(* the loop's own refreshes do the same without a reply.                   *)
Reply ==
    /\ job.step = "reply"
    /\ announced' = IF dirty THEN Snapshot ELSE announced
    /\ dirty' = FALSE
    /\ job' = Idle
    /\ UNCHANGED <<osVars, uevents, netlink, configVars, listVars, cache,
                   honoured, awaiting, boundVars>>

-----------------------------------------------------------------------------
(* What wakes the loop. *)

Take(op, step, v) ==
    /\ job = Idle
    /\ job' = [op |-> op, step |-> step, vol |-> v, todo |-> {}]

(* Slip: the handler refreshes but leaves the name on the attempted list. *)
TakeUeventKeeping(v) ==
    /\ netlink /\ v \in uevents
    /\ uevents' \in {uevents, uevents \ {v}}
    /\ Take("refresh", "scan", None)
    /\ UNCHANGED <<osVars, netlink, configVars, listVars, viewVars, announced,
                   honoured, awaiting, boundVars>>

(* The kernel may have queued more than one packet for the name. *)
TakeUevent(v) ==
    /\ netlink /\ v \in uevents
    /\ uevents' \in {uevents, uevents \ {v}}
    /\ attempted' = attempted \ {v}
    /\ Take("refresh", "scan", None)
    /\ UNCHANGED <<osVars, netlink, configVars, suppressed, errors, viewVars,
                   announced, honoured, awaiting, boundVars>>

(* Without a netlink socket the loop refreshes on a timeout. *)
FallbackTimeout ==
    /\ ~netlink
    /\ Take("refresh", "scan", None)
    /\ UNCHANGED <<osVars, uevents, netlink, configVars, listVars, viewVars,
                   announced, honoured, awaiting, boundVars>>

Call(op, step, v) ==
    /\ calls < MaxCalls
    /\ calls' = calls + 1
    /\ Take(op, step, v)
    /\ UNCHANGED <<osVars, uevents, netlink, announced, honoured, awaiting,
                   changes, restarts>>

(* refresh({}) and list_volumes({"refresh": true}) *)
CallRefresh ==
    /\ Call("refresh", "scan", None)
    /\ UNCHANGED <<configVars, listVars, viewVars>>

CallMount(v) ==
    /\ Call("mount", "lookup", v)
    /\ UNCHANGED <<configVars, listVars, viewVars>>

CallUnmount(v) ==
    /\ Call("unmount", "lookup", v)
    /\ UNCHANGED <<configVars, listVars, viewVars>>

(* storage_save_config replaces the file atomically. *)
SaveConfig(enabled) == config' = IF enabled THEN "true" ELSE "false"

(* set_config: the file first, then the setting and the refresh. *)
CallConfig(enabled) ==
    \/ /\ Call("config", IF enabled THEN "scan" ELSE "reply", None)
       /\ SaveConfig(enabled)
       /\ attempted' = IF enabled /\ ~auto THEN {} ELSE attempted
       /\ auto' = enabled
       /\ configError' = FALSE
       /\ dirty' = (auto # enabled \/ configError)
       /\ UNCHANGED <<suppressed, errors, cache>>
    \/ /\ Call("config", "reply", None)
       /\ configError' = TRUE
       /\ UNCHANGED <<config, auto, listVars, viewVars>>

-----------------------------------------------------------------------------
(* build_storage_mount and build_storage_unmount, between their refreshes. *)

(* storage_refresh(0) and storage_find *)
Lookup ==
    /\ job.step = "lookup"
    /\ Publish
    /\ Goto(IF job.vol \notin Visible THEN "reply"
            ELSE IF job.op = "unmount" /\ MountOf(job.vol) = "external"
                 THEN "reply" ELSE "command")
    /\ UNCHANGED <<osVars, uevents, netlink, configVars, announced, honoured,
                   awaiting, boundVars>>

(* A mounted volume needs no command, but a client's mount lifts the         *)
(* suppression all the same.                                                 *)
MountCommand ==
    /\ job.step = "command" /\ job.op = "mount"
    /\ LET v == job.vol
           known == cache[v].mount # "none"
       IN \/ /\ \/ known /\ UNCHANGED <<mountinfo, errors>>
                \/ ~known /\ Mounted(v)
             /\ suppressed' = suppressed \ {v}
             /\ honoured' = {p \in honoured : p[1] # v}
             /\ awaiting' = awaiting \ {v}
             /\ Goto("check")
          \/ /\ ~known /\ NotMounted(v)
             /\ Goto("failed")
             /\ IF mountinfo' = mountinfo THEN UNCHANGED <<honoured, awaiting>>
                ELSE /\ honoured' = {p \in honoured : p[1] # v}
                     /\ awaiting' = awaiting \ {v}
             /\ UNCHANGED suppressed
    /\ UNCHANGED <<present, uevents, netlink, configVars, attempted, viewVars,
                   announced, boundVars>>

KernelUnmounts(v) ==
    /\ "managed" \in Range(mountinfo[v])
    /\ mountinfo' = [mountinfo EXCEPT ![v] = Without(@, "managed")]

(* umount succeeds: the volume is not mounted again behind the client's back *)
Unmounted(v) ==
    /\ KernelUnmounts(v)
    /\ errors' = ClearError(v)
    /\ suppressed' = ListAdd(suppressed, v)
    /\ honoured' = IF Crowded(present) THEN honoured
                   ELSE honoured \cup {<<v, restarts>>}

UnmountCommand ==
    /\ job.step = "command" /\ job.op = "unmount"
    /\ LET v == job.vol
           known == cache[v].mount # "none"
       IN \/ ~known /\ UNCHANGED <<mountinfo, suppressed, errors, honoured>>
          \/ known /\ Unmounted(v)
          \/ /\ known
             /\ UNCHANGED mountinfo \/ KernelUnmounts(v)
             /\ errors' = SetError(v, "unmount")
             /\ UNCHANGED <<suppressed, honoured>>
    /\ Goto("failed")
    /\ UNCHANGED <<present, uevents, netlink, configVars, attempted, viewVars,
                   announced, awaiting, boundVars>>

(* After a mount: refresh and look again; a mount that does not show is an   *)
(* error of its own, stored before one more refresh.                         *)
CheckMount ==
    /\ job.step = "check"
    /\ cache' = Scan
    /\ dirty' = (dirty \/ Scan # cache)
    /\ suppressed' = Pruned(suppressed)
    /\ attempted' = Pruned(attempted)
    /\ LET shown == job.vol \in Visible /\ MountOf(job.vol) # "none"
       IN /\ errors' = IF shown THEN errors ELSE SetError(job.vol, "mount")
          /\ Goto(IF shown THEN "reply" ELSE "failed")
    /\ UNCHANGED <<osVars, uevents, netlink, configVars, announced, honoured,
                   awaiting, boundVars>>

(* The refresh before the reply of an unmount or of a failed mount. *)
Conclude == Rescan("failed", "reply")

-----------------------------------------------------------------------------
(* Outside the process. *)

Change ==
    /\ changes < MaxChanges
    /\ changes' = changes + 1
    /\ UNCHANGED <<netlink, configVars, listVars, viewVars, job, announced,
                   calls, restarts>>

Queued(v) == uevents' = IF netlink THEN uevents \cup {v} ELSE uevents

InsertMedium(v) ==
    /\ v \notin present
    /\ Change
    /\ present' = present \cup {v}
    /\ Queued(v)
    /\ awaiting' = IF v \in suppressed THEN awaiting ELSE awaiting \cup {v}
    /\ honoured' = IF Crowded(present') THEN {} ELSE honoured
    /\ UNCHANGED mountinfo

(* The mounts of a medium go with it. *)
RemoveMedium(v) ==
    /\ v \in present
    /\ Change
    /\ present' = present \ {v}
    /\ mountinfo' = [mountinfo EXCEPT ![v] = << >>]
    /\ Queued(v)
    /\ awaiting' = awaiting \ {v}
    /\ honoured' = {p \in honoured : p[1] # v}

(* Another program mounts the volume elsewhere, or ends one of its mounts. *)
MountElsewhere(v) ==
    /\ v \in present
    /\ "external" \notin Range(mountinfo[v])
    /\ Change
    /\ mountinfo' = [mountinfo EXCEPT ![v] = Append(@, "external")]
    /\ awaiting' = awaiting \ {v}
    /\ UNCHANGED <<present, uevents, honoured>>

UnmountElsewhere(v, k) ==
    /\ k \in Range(mountinfo[v])
    /\ Change
    /\ mountinfo' = [mountinfo EXCEPT ![v] = Without(@, k)]
    /\ UNCHANGED <<present, uevents, honoured, awaiting>>

Loaded(auto0, file) ==
    CASE file = "true" -> TRUE [] file = "false" -> FALSE [] OTHER -> auto0

(* A fresh process: static storage zeroed, the socket opened, the config     *)
(* read by the first refresh.  Nothing is sent: the subscribers keep what    *)
(* the last process told them.                                               *)
Boot(file) ==
    /\ netlink' \in BOOLEAN
    /\ uevents' = {}
    /\ auto' = Loaded(DefaultAuto, file)
    /\ configError' = (file = "invalid")
    /\ attempted' = {} /\ suppressed' = {}
    /\ errors' = [v \in Volumes |-> "none"]
    /\ cache' = << >>
    /\ dirty' = FALSE
    /\ job' = [Idle EXCEPT !.op = "refresh", !.step = "scan"]

(* The process dies, at any point, and Core starts it again. *)
Restart ==
    /\ restarts < MaxRestarts
    /\ restarts' = restarts + 1
    /\ Boot(config)
    /\ UNCHANGED <<osVars, config, announced, honoured, awaiting, changes,
                   calls>>

-----------------------------------------------------------------------------
Init ==
    /\ present = {} /\ mountinfo = [v \in Volumes |-> << >>]
    /\ config \in Configs
    /\ netlink \in BOOLEAN
    /\ uevents = {}
    /\ auto = Loaded(DefaultAuto, config)
    /\ configError = (config = "invalid")
    /\ attempted = {} /\ suppressed = {}
    /\ errors = [v \in Volumes |-> "none"]
    /\ cache = << >>
    /\ dirty = FALSE
    /\ job = [Idle EXCEPT !.op = "refresh", !.step = "scan"]
    /\ announced = [volumes |-> << >>, auto |-> DefaultAuto, by |-> 0]
    /\ honoured = {} /\ awaiting = {}
    /\ changes = 0 /\ calls = 0 /\ restarts = 0

Work == BeginRefresh \/ AutoMount \/ EndRefresh \/ Reply \/ Lookup
        \/ MountCommand \/ UnmountCommand \/ CheckMount \/ Conclude

Wakeup == (\E v \in Volumes : TakeUevent(v)) \/ FallbackTimeout

Clients ==
    \/ CallRefresh
    \/ \E v \in Volumes : CallMount(v) \/ CallUnmount(v)
    \/ \E enabled \in BOOLEAN : CallConfig(enabled)

Outside ==
    \E v \in Volumes :
        \/ InsertMedium(v) \/ RemoveMedium(v) \/ MountElsewhere(v)
        \/ \E k \in Kinds : UnmountElsewhere(v, k)

Next == Work \/ Wakeup \/ Clients \/ Outside \/ Restart

Spec == Init /\ [][Next]_vars

-----------------------------------------------------------------------------
(* Whenever the loop is waiting, whoever follows msys.hal.storage.changed     *)
(* holds the volume list and the auto-mount setting the process holds, once   *)
(* this process has sent an event: every path out of process_call and of the  *)
(* loop's own refreshes publishes what its refreshes changed, the error paths *)
(* too.  A process that has sent none still has the empty list and the        *)
(* setting of its file, the state it compares its first scan with: a medium   *)
(* that went while no process was watching is not announced.                  *)
SubscribersInStep ==
    job = Idle =>
        IF announced.by = Process THEN announced = Snapshot
        ELSE cache = << >> /\ auto = Loaded(DefaultAuto, config)

(* A volume a client unmounted is not mounted by the HAL again while its     *)
(* medium stays in, the client does not ask for it and the process lives     *)
(* (storage_suppressed against refreshes, uevents and set_config).           *)
ManualUnmountRespected ==
    \A v \in Volumes : <<v, restarts>> \in honoured =>
        "managed" \notin Range(mountinfo[v])

(* The same promise without "while the process lives", as the manual makes   *)
(* it: until the medium is removed and inserted again.                       *)
ManualUnmountLasts ==
    \A p \in honoured : "managed" \notin Range(mountinfo[p[1]])

(* With nothing queued and nothing to do, no medium was missed: the cache     *)
(* lists exactly the volumes there are, and with auto-mount on each one       *)
(* inserted was tried.  The exception is a name whose unmount was still on    *)
(* record when its medium came back: no scan saw it gone, so storage_refresh  *)
(* has not pruned it from storage_suppressed.                                 *)
NoMediumMissed ==
    (job = Idle /\ netlink /\ uevents = {}) =>
        /\ DOMAIN cache = Visible
        /\ auto => awaiting \cap Visible = {}
=============================================================================
