--------------------------- MODULE BluetoothPower ---------------------------
(***************************************************************************)
(* Bluetooth power of the native provider (native_hal.c,                    *)
(* request_bluetooth_power): a conversation with the kernel's Management    *)
(* channel and, when the controller has dropped out of it, a pulse on the   *)
(* rfkill soft block or, for USB, HCIDEVUP, each followed by bounded        *)
(* re-probes.                                                               *)
(*                                                                          *)
(* Every probe may fail, and what the failure means is read from an error   *)
(* string that some failures leave as it was.  The controller registers,    *)
(* unregisters and changes power by itself between any two steps.           *)
(***************************************************************************)
EXTENDS Naturals

CONSTANTS MaxProbes,    \* re-probes: 10, 50 and 20 in the code
          MaxPowerCalls, MaxFaults, MaxMoves   \* bounds

ASSUME BluetoothAssumption ==
    /\ MaxProbes \in Nat \ {0}
    /\ {MaxPowerCalls, MaxFaults, MaxMoves} \subseteq Nat

VARIABLES ctl,       \* controller: on, off, gone (no controller registered)
                     \* or missing (others are, this one is not)
          soft,      \* the radio is soft blocked
          bterr,     \* bluetooth_management_error
          bt,        \* the request in progress
          passed,    \* history: controller states during the request
          softWas,   \* history: the soft block when the request began
          excused,   \* history: an rfkill write failed, or somebody else wrote
          powerCalls, faults, moves

btVars == <<ctl, soft, bterr, bt, passed, softWas, excused, powerCalls, faults,
            moves>>

Controllers == {"on", "off", "gone", "missing"}
NoPower == [step |-> "idle", want |-> "off", n |-> 0, result |-> "none",
            blind |-> FALSE]

BluetoothTypeOK ==
    /\ ctl \in Controllers /\ passed \subseteq Controllers
    /\ {soft, softWas, excused} \subseteq BOOLEAN
    /\ bterr \in {"none", "gone", "missing", "other"}
    /\ bt \in [step : {"idle", "read", "manage", "confirm", "rfkill", "pulse",
                       "unblock", "probe", "reset", "usb", "register", "up"},
               want : {"on", "off"}, n : 0 .. MaxProbes,
               result : {"none", "ok", "failed"}, blind : BOOLEAN]

-----------------------------------------------------------------------------
frame == <<powerCalls, moves>>
Goes(step) == bt' = [bt EXCEPT !.step = step, !.n = 0]
Ends(result) == bt' = [bt EXCEPT !.step = "idle", !.result = result]

(* The request failed; request_bluetooth_power tries the USB path when the   *)
(* last error says that only this controller is missing.                     *)
Gives(err) ==
    IF bt.want = "on" /\ err = "missing" /\ bt.step # "up"
    THEN Goes("usb") ELSE Ends("failed")

(* Slip: every failed probe passes for an unregistered controller. *)
IndexMissingAny(err) == TRUE

(* bluetooth_management_index_missing *)
IndexMissing(err) == err = "gone"

(* bluetooth_info: powered or not, or an error; bterr' tells which.  A       *)
(* failure may also leave the error of an earlier probe in place.            *)
Sees(power) == ctl = power /\ bterr' = "none" /\ UNCHANGED faults
Misses ==
    \/ ctl \in {"gone", "missing"} /\ bterr' = ctl /\ UNCHANGED faults
    \/ /\ faults < MaxFaults /\ faults' = faults + 1
       /\ bterr' \in {"other", bterr}
(* Some failures are silent: the error string then still shows the past. *)
Stale == bterr' = bterr /\ ctl # bterr

PowerCall(want) ==
    /\ bt.step = "idle" /\ powerCalls < MaxPowerCalls
    /\ powerCalls' = powerCalls + 1
    /\ bt' = [NoPower EXCEPT !.step = "read", !.want = want]
    /\ passed' = {ctl} /\ softWas' = soft /\ excused' = FALSE
    /\ UNCHANGED <<ctl, soft, bterr, faults, moves>>

ReadInfo ==
    /\ bt.step = "read"
    /\ \/ \E p \in {"on", "off"} :
             Sees(p) /\ IF p = bt.want THEN Ends("ok") ELSE Goes("manage")
       \/ /\ Misses
          /\ \/ ~IndexMissing(bterr') /\ Gives(bterr')
             \/ /\ IndexMissing(bterr')
                /\ bt' = [bt EXCEPT
                     !.blind = Stale,
                     !.step = IF bt.want = "off" THEN "idle" ELSE "rfkill",
                     !.result = IF bt.want = "off" THEN "ok" ELSE @]
    /\ UNCHANGED <<ctl, soft, passed, softWas, excused, frame>>

(* set_bluetooth_power: probes once more, then Set Powered.  Powering off    *)
(* may unregister the controller.  A failed answer leaves either state.      *)
Powered(want) == IF want = "on" THEN {"on"} ELSE {"off", "gone"}
SetPowered(then) ==
    /\ \/ /\ ctl \in {"on", "off"} /\ bterr' = "none"
          /\ ctl' \in Powered(bt.want)
          /\ then /\ UNCHANGED faults
       \/ /\ ctl \in {"on", "off"} /\ faults < MaxFaults /\ faults' = faults + 1
          /\ bterr' \in {"none", "other"}
          /\ ctl' \in {ctl} \cup Powered(bt.want)
          /\ Gives(bterr')
       \/ Misses /\ Gives(bterr') /\ UNCHANGED ctl
    /\ passed' = passed \cup {ctl'}

Manage ==
    /\ bt.step = "manage"
    /\ SetPowered(Goes("confirm"))
    /\ UNCHANGED <<soft, softWas, excused, frame>>

(* After Set Powered: one look for off, up to MaxProbes for on. *)
Confirm ==
    /\ bt.step = "confirm"
    /\ \/ \E p \in {"on", "off"} :
             Sees(p) /\ IF p = bt.want THEN Ends("ok") ELSE Gives("none")
       \/ /\ Misses
          /\ IF bt.want = "off"
             THEN IF IndexMissing(bterr') THEN Ends("ok") ELSE Ends("failed")
             ELSE IF bt.n + 1 < MaxProbes THEN bt' = [bt EXCEPT !.n = @ + 1]
                                      ELSE Gives(bterr')
    /\ UNCHANGED <<ctl, soft, passed, softWas, excused, frame>>

(* read_rfkill: a radio that is hard blocked or read-only ends the request;  *)
(* an unblocked one is blocked first, so that unblocking is an edge.         *)
RfkillState ==
    /\ bt.step = "rfkill"
    /\ \/ IF soft THEN Goes("unblock") ELSE Goes("pulse")
       \/ Gives(bterr)
    /\ UNCHANGED <<ctl, soft, bterr, passed, softWas, excused, faults, frame>>

(* write_rfkill, verified: done, not done, or done and not confirmed. *)
Rfkill(blocked, then) ==
    /\ \/ soft' = blocked /\ then /\ UNCHANGED <<faults, excused>>
       \/ /\ faults < MaxFaults /\ faults' = faults + 1
          /\ soft' \in {soft, blocked}
          /\ excused' = TRUE /\ Gives(bterr)
    /\ UNCHANGED <<ctl, bterr, passed, softWas, frame>>

Pulse == bt.step = "pulse" /\ Rfkill(TRUE, Goes("unblock"))

(* Slip: the edge is taken for done after the block. *)
UnblockSkipped ==
    /\ bt.step = "unblock" /\ Goes("probe")
    /\ UNCHANGED <<ctl, soft, bterr, passed, softWas, excused, faults, frame>>

Unblock == bt.step = "unblock" /\ Rfkill(FALSE, Goes("probe"))

(* Slip: the probes are not counted. *)
AgainForever == bt' = [bt EXCEPT !.step = "probe", !.n = @ + 1]

(* The controller comes back, possibly unpowered. *)
Again == IF bt.n + 1 < MaxProbes
         THEN bt' = [bt EXCEPT !.step = "probe", !.n = @ + 1]
         ELSE Gives(bterr')
Reprobe ==
    /\ bt.step = "probe"
    /\ \/ Sees("on") /\ Ends("ok")
       \/ Sees("off") /\ bt' = [bt EXCEPT !.step = "reset"]
       \/ Misses /\ IF IndexMissing(bterr') THEN Again ELSE Gives(bterr')
    /\ UNCHANGED <<ctl, soft, passed, softWas, excused, frame>>

ManageAgain ==
    /\ bt.step = "reset"
    /\ SetPowered(Again)
    /\ UNCHANGED <<soft, softWas, excused, frame>>

(* HCIDEVUP, on a USB controller only. *)
DeviceUp ==
    /\ bt.step = "usb"
    /\ \/ /\ ctl' \in {ctl, "off", "on"} /\ passed' = passed \cup {ctl'}
          /\ Goes("register") /\ UNCHANGED bterr
       \/ /\ Ends("failed") /\ bterr' \in {bterr, "other"}
          /\ UNCHANGED <<ctl, passed>>
    /\ UNCHANGED <<soft, softWas, excused, faults, frame>>

Register ==
    /\ bt.step = "register"
    /\ \/ Sees("on") /\ Ends("ok")
       \/ Sees("off") /\ Goes("up")
       \/ /\ bt.n + 1 < MaxProbes /\ Misses
          /\ bt' = [bt EXCEPT !.n = @ + 1]
       \/ /\ bt.n + 1 = MaxProbes
          /\ \/ ctl \in {"gone", "missing"} /\ UNCHANGED faults
             \/ faults < MaxFaults /\ faults' = faults + 1
          /\ bterr' = "other" /\ Ends("failed")
    /\ UNCHANGED <<ctl, soft, passed, softWas, excused, frame>>

PowerUp ==
    /\ bt.step = "up"
    /\ SetPowered(Ends("ok"))
    /\ UNCHANGED <<soft, softWas, excused, frame>>

(* External: the kernel and others. *)
ControllerMoves ==
    /\ moves < MaxMoves /\ moves' = moves + 1
    /\ ctl' \in Controllers \ {ctl}
    /\ passed' = passed \cup {ctl'}
    /\ UNCHANGED <<soft, bterr, bt, softWas, excused, powerCalls, faults>>

OtherRfkill ==
    /\ moves < MaxMoves /\ moves' = moves + 1
    /\ soft' = ~soft /\ excused' = TRUE
    /\ UNCHANGED <<ctl, bterr, bt, passed, softWas, powerCalls, faults>>

BluetoothInit ==
    /\ ctl \in Controllers /\ soft \in BOOLEAN
    /\ bterr = "other" /\ bt = NoPower
    /\ passed = {} /\ softWas = soft /\ excused = FALSE
    /\ powerCalls = 0 /\ faults = 0 /\ moves = 0

BluetoothNext ==
    \/ \E want \in {"on", "off"} : PowerCall(want)
    \/ ReadInfo \/ Manage \/ Confirm \/ RfkillState \/ Pulse \/ Unblock
    \/ Reprobe \/ ManageAgain \/ DeviceUp \/ Register \/ PowerUp
    \/ ControllerMoves \/ OtherRfkill

BluetoothSpec == BluetoothInit /\ [][BluetoothNext]_btVars

-----------------------------------------------------------------------------
(* Power is only reported as set when the controller really was on, or off   *)
(* or unregistered, at some moment of the request, whichever of the probes   *)
(* failed; except that an empty list remembered from an earlier request can  *)
(* pass for one of this request when the first probe fails silently.         *)
PowerReportedTruly ==
    (bt.step = "idle" /\ bt.result = "ok") =>
    IF bt.want = "on" THEN "on" \in passed
    ELSE bt.blind \/ passed \cap {"off", "gone"} # {}

(* Nothing the provider does leaves a radio blocked that was not: the pulse  *)
(* that wakes a controller is always completed, unless an rfkill write       *)
(* failed or somebody else wrote.                                            *)
PulseRestores ==
    (bt.step = "idle" /\ ~excused /\ bt.result # "none") => (soft => softWas)
=============================================================================
