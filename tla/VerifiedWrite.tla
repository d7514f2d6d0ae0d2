--------------------------- MODULE VerifiedWrite ---------------------------
(***************************************************************************)
(* The writes of the Linux providers that are read back before they are     *)
(* acknowledged: backlight brightness and the xinput matrix (linux.py), and *)
(* the Bluetooth soft block (radios.py).                                    *)
(*                                                                          *)
(* All three find the slot (a sysfs directory, an rfkill entry, an xinput   *)
(* id) of the device they were asked for, check it, write it, read it back  *)
(* and only then report success.  Calls run side by side without a lock,    *)
(* and between any two steps devices come and go and others write, too.     *)
(***************************************************************************)
EXTENDS Naturals, FiniteSets

CONSTANTS Writers,        \* worker threads of the component server
          Kinds,          \* which backend: "backlight", "radio", "xinput"
          Slots, Names,   \* Names: devices, as the requests and sessions say
          Levels,         \* values an attribute can have
          Maxima,         \* max_brightness of the panel
          NoDev,
          MaxWrites,      \* bound: set_state calls
          MaxEvents       \* bound: hotplug and outside writes

ASSUME WriteAssumption ==
    /\ Kinds \subseteq {"backlight", "radio", "xinput"} /\ Kinds # {}
    /\ NoDev \notin Slots \cup Names \cup Levels
                  \cup [name : Names, value : Levels]
    /\ Levels # {} /\ IsFiniteSet(Slots)
    /\ Maxima \subseteq Nat \ {0}
    /\ {MaxWrites, MaxEvents} \subseteq Nat

VARIABLES kind,      \* the backend of this process
          panelMax,  \* max_brightness
          slot,      \* what each slot holds: a device's name and its value
          hard,      \* the radio's hard block is on
          wr,        \* the set_state call each worker runs
          acked,     \* history: value each device was last read back at
          foreign,   \* history: devices changed from outside since then
          doubtful,  \* history: what failed calls left, as <<device, value>>
          writes, events

writeVars == <<kind, panelMax, slot, hard, wr, acked, foreign, doubtful,
               writes, events>>

At(w) == wr[w].at
Present == {s \in Slots : slot[s] # NoDev}
NoWrite == [step |-> "idle", name |-> NoDev, want |-> NoDev, at |-> NoDev]

WriteTypeOK ==
    /\ kind \in Kinds /\ panelMax \in Maxima
    /\ slot \in [Slots -> [name : Names, value : Levels] \cup {NoDev}]
    /\ hard \in BOOLEAN
    /\ wr \in [Writers ->
               [step : {"idle", "resolve", "check", "write", "verify", "reply"},
                name : Names \cup {NoDev}, want : Levels \cup {NoDev},
                at : Slots \cup {NoDev}]]
    /\ acked \in [Names -> Levels \cup {NoDev}]
    /\ foreign \subseteq Names /\ doubtful \subseteq Names \X Levels

-----------------------------------------------------------------------------
(* brightness_percent in a request, and in the reply. *)

(* Slip: the division truncates. *)
FromPercentDown(p, m) == (p * m) \div 100

FromPercent(p, m) == (p * m + 50) \div 100

(* round(): ties go to the even neighbour. *)
ToPercent(b, m) ==
    LET q == (b * 100) \div m
        r == (b * 100) % m
    IN  IF 2 * r > m \/ (2 * r = m /\ q % 2 = 1) THEN q + 1 ELSE q

-----------------------------------------------------------------------------
Advance(w, step) == wr' = [wr EXCEPT ![w].step = step]
Done(w) == wr' = [wr EXCEPT ![w] = NoWrite]
envVars == <<kind, panelMax, hard, acked, foreign, doubtful, writes, events>>

WriteCall(w, n, v) ==
    /\ wr[w].step = "idle" /\ writes < MaxWrites
    /\ writes' = writes + 1
    /\ wr' = [wr EXCEPT ![w] = [step |-> "resolve", name |-> n, want |-> v,
                                at |-> NoDev]]
    /\ UNCHANGED <<kind, panelMax, slot, hard, acked, foreign, doubtful,
                   events>>

SlotsOf(n) == {s \in Present : slot[s].name = n}

(* _entry, _radio_for_controller and the ids that _xinput_id accepts: exactly *)
(* one slot, or nothing.                                                     *)
Target(n) == IF Cardinality(SlotsOf(n)) = 1 THEN SlotsOf(n) ELSE {}

(* The slot is looked up.  The call ends as unavailable or read-only when it *)
(* finds none or several, and when the display session is missing or leaves  *)
(* the transform to its provider.                                            *)
Resolve(w) ==
    /\ wr[w].step = "resolve"
    /\ \/ \E s \in Target(wr[w].name) :
             wr' = [wr EXCEPT ![w].at = s, ![w].step = "check"]
       \/ (Target(wr[w].name) = {} \/ kind = "xinput") /\ Done(w)
    /\ UNCHANGED <<slot, envVars>>

(* max_brightness and the access mode are read, or the hard block: a radio   *)
(* that is hard blocked is not powered on.  The slot may have become         *)
(* read-only.  xinput has nothing to check.                                  *)
PowersOn(w) == kind = "radio" /\ wr[w].want = "on"
Check(w) ==
    /\ wr[w].step = "check"
    /\ \/ /\ kind = "xinput" \/ (At(w) \in Present /\ ~(PowersOn(w) /\ hard))
          /\ Advance(w, "write")
       \/ kind # "xinput" /\ Done(w)
    /\ UNCHANGED <<slot, envVars>>

(* What w leaves in its slot stays there unconfirmed. *)
Doubt(w) == doubtful' = doubtful \cup {<<slot[At(w)].name, wr[w].want>>}

(* The write goes to the slot, whatever it holds by now.  It may be accepted *)
(* and ignored by the driver, and it may be reported as failed with or       *)
(* without an effect: xinput may end after its request was carried out by    *)
(* its timeout or a non-zero code.                                           *)
Write(w) ==
    /\ wr[w].step = "write"
    /\ \/ /\ At(w) \in Present
          /\ slot' = [slot EXCEPT ![At(w)].value = wr[w].want]
          /\ foreign' = foreign \ {slot[At(w)].name}
          /\ \/ Advance(w, "verify") /\ UNCHANGED doubtful
             \/ Done(w) /\ Doubt(w)
       \/ /\ At(w) \in Present /\ UNCHANGED <<slot, foreign, doubtful>>
          /\ Advance(w, "verify")
       \/ Done(w) /\ UNCHANGED <<slot, foreign, doubtful>>
    /\ UNCHANGED <<kind, panelMax, hard, acked, writes, events>>

(* Slip: any readable value counts as confirmation. *)
VerifiedLoosely(w) == At(w) \in Present

Verified(w) == At(w) \in Present /\ slot[At(w)].value = wr[w].want

(* The read-back leads to the reply.  It ends the call with an error when it *)
(* shows another value, and when it fails itself with the value in place: an *)
(* unreadable attribute, or list-props that times out or finds nothing.      *)
Verify(w) ==
    /\ wr[w].step = "verify"
    /\ \/ /\ Verified(w)
          /\ Advance(w, "reply")
          /\ acked' = [acked EXCEPT ![slot[At(w)].name] = wr[w].want]
          /\ doubtful' = {d \in doubtful : d[1] # slot[At(w)].name}
       \/ /\ Done(w) /\ UNCHANGED acked
          /\ IF Verified(w) THEN Doubt(w) ELSE UNCHANGED doubtful
    /\ UNCHANGED <<kind, panelMax, slot, hard, foreign, writes, events>>

(* get_state or _touch_state answers; it reads once more or not at all. *)
Reply(w) ==
    /\ wr[w].step = "reply"
    /\ Done(w)
    /\ UNCHANGED <<slot, envVars>>

(* External: somebody else writes, the driver does, or the server carries    *)
(* out the request of an xinput that has been killed since.                  *)
Event == events < MaxEvents /\ events' = events + 1
OutsideWrite ==
    /\ Event
    /\ \E s \in Present, v \in Levels :
          /\ v # slot[s].value
          /\ slot' = [slot EXCEPT ![s].value = v]
          /\ foreign' = foreign \cup {slot[s].name}
    /\ UNCHANGED <<kind, panelMax, hard, wr, acked, doubtful, writes>>

HardBlock ==
    /\ Event /\ kind = "radio"
    /\ hard' = ~hard
    /\ UNCHANGED <<kind, panelMax, slot, wr, acked, foreign, doubtful, writes>>

(* External: hotplug.  A sysfs directory carries its device's name; an       *)
(* xinput id goes to whatever device comes next.                             *)
Unplug ==
    /\ Event
    /\ \E s \in Present :
          /\ slot' = [slot EXCEPT ![s] = NoDev]
          /\ foreign' = foreign \cup {slot[s].name}
    /\ UNCHANGED <<kind, panelMax, hard, wr, acked, doubtful, writes>>

Plug ==
    /\ Event
    /\ \E s \in Slots \ Present, n \in Names, v \in Levels :
          /\ kind = "backlight" => SlotsOf(n) = {}
          /\ slot' = [slot EXCEPT ![s] = [name |-> n, value |-> v]]
          /\ foreign' = foreign \cup {n}
    /\ UNCHANGED <<kind, panelMax, hard, wr, acked, doubtful, writes>>

WriteInit ==
    /\ kind \in Kinds /\ panelMax \in Maxima
    /\ kind # "backlight" => \A m \in Maxima : panelMax <= m
    /\ slot \in [Slots -> [name : Names, value : Levels] \cup {NoDev}]
    /\ Cardinality(Present) <= 1
    /\ hard = FALSE
    /\ wr = [w \in Writers |-> NoWrite]
    /\ acked = [n \in Names |-> NoDev]
    /\ foreign = {} /\ doubtful = {}
    /\ writes = 0 /\ events = 0

WriteNext ==
    \/ \E w \in Writers :
          \/ \E n \in Names, v \in Levels : WriteCall(w, n, v)
          \/ Resolve(w) \/ Check(w) \/ Write(w) \/ Verify(w) \/ Reply(w)
    \/ OutsideWrite \/ HardBlock \/ Unplug \/ Plug

WriteSpec == WriteInit /\ [][WriteNext]_writeVars

-----------------------------------------------------------------------------
(* Once no call is past its write, a device that nobody outside has touched  *)
(* shows the value that was acknowledged last, or one that a call wrote and  *)
(* reported as failed since: racing calls never leave one caller's value     *)
(* behind while another was told that its own took effect.                   *)
AcknowledgedValueStands ==
    (\A w \in Writers : wr[w].step # "verify") =>
    \A s \in Present :
       LET n == slot[s].name
       IN  (SlotsOf(n) = {s} /\ n \notin foreign /\ acked[n] # NoDev)
           => slot[s].value = acked[n] \/ <<n, slot[s].value>> \in doubtful

(* "HAL never silently applies a matrix to a different input device"         *)
(* (docs/linux-providers.md): the device a write changes is the one that the *)
(* call named.  The id is looked up in one xinput process and written in     *)
(* another one, so that it may have gone to another device in between.       *)
WriteHitsNamedDevice ==
    [][\A w \in Writers :
          (wr[w].step = "write" /\ wr'[w] # wr[w] /\ slot' # slot)
          => slot[At(w)].name = wr[w].name]_writeVars

(* A brightness set in percent is reported back as the same percent on every *)
(* panel with at least one level per percent.                                *)
PercentKept ==
    panelMax >= 100 =>
    \A p \in 0 .. 100 :
       /\ FromPercent(p, panelMax) <= panelMax
       /\ ToPercent(FromPercent(p, panelMax), panelMax) = p
=============================================================================
