---------------------------- MODULE RadioProofs ----------------------------
(***************************************************************************)
(* Proofs about the radio providers: the native Bluetooth power request and *)
(* the Python Wi-Fi control.                                                *)
(***************************************************************************)
EXTENDS BluetoothPower, WifiControl, TLAPS

-----------------------------------------------------------------------------
(* Bluetooth power. *)

PowerSteps == {"idle", "read", "manage", "confirm", "rfkill", "pulse",
               "unblock", "probe", "reset", "usb", "register", "up"}

PowerRequests == [step : PowerSteps, want : {"on", "off"}, n : 0 .. MaxProbes,
                  result : {"none", "ok", "failed"}, blind : BOOLEAN]

(* While a request runs, its history includes the present. *)
PresentSeen == bt.step # "idle" => ctl \in passed

(* Only powering on goes beyond Set Powered. *)
RecoveryPowersOn ==
    bt.step \in {"rfkill", "pulse", "unblock", "probe", "reset", "usb",
                 "register", "up"} => bt.want = "on"

(* set_bluetooth_power cleared the error string before the power is confirmed, *)
(* so what an earlier probe left in it cannot confirm that power is off.       *)
ConfirmedAfresh ==
    (bt.step = "confirm" /\ bt.want = "off") => bterr = "none"

(* The only step that may find the radio blocked by this request is the one   *)
(* that unblocks it.                                                          *)
BlockedOnlyToUnblock ==
    (~excused /\ bt.step # "unblock") => (soft => softWas)

PowerInv ==
    /\ BluetoothTypeOK /\ PresentSeen /\ RecoveryPowersOn /\ ConfirmedAfresh
    /\ BlockedOnlyToUnblock /\ PowerReportedTruly

(* What the three ways to leave a step do to the request. *)
LEMMA RequestMoves ==
    ASSUME BluetoothTypeOK
    PROVE  /\ \A s \in PowerSteps : Goes(s) =>
                 /\ bt' \in PowerRequests /\ bt'.step = s /\ bt'.want = bt.want
           /\ \A r \in {"ok", "failed"} : Ends(r) =>
                 /\ bt' \in PowerRequests /\ bt'.step = "idle"
                 /\ bt'.want = bt.want /\ bt'.result = r /\ bt'.blind = bt.blind
           /\ \A e : Gives(e) =>
                 /\ bt' \in PowerRequests /\ bt'.want = bt.want
                 /\ \/ bt'.step = "usb" /\ bt.want = "on"
                    \/ bt'.step = "idle" /\ bt'.result = "failed"
<1>1. bt \in PowerRequests /\ MaxProbes \in Nat
  BY BluetoothAssumption DEF BluetoothTypeOK, PowerRequests, PowerSteps
<1>0. 0 \in 0 .. MaxProbes
  BY <1>1
<1>2. ASSUME NEW s \in PowerSteps, Goes(s)
      PROVE  bt' \in PowerRequests /\ bt'.step = s /\ bt'.want = bt.want
  BY <1>0, <1>1, <1>2 DEF Goes, PowerRequests
<1>3. ASSUME NEW r \in {"ok", "failed"}, Ends(r)
      PROVE  /\ bt' \in PowerRequests /\ bt'.step = "idle"
             /\ bt'.want = bt.want /\ bt'.result = r /\ bt'.blind = bt.blind
  BY <1>1, <1>3 DEF Ends, PowerRequests, PowerSteps
<1>4. ASSUME NEW e, Gives(e)
      PROVE  /\ bt' \in PowerRequests /\ bt'.want = bt.want
             /\ \/ bt'.step = "usb" /\ bt.want = "on"
                \/ bt'.step = "idle" /\ bt'.result = "failed"
  BY <1>2, <1>3, <1>4 DEF Gives, PowerSteps
<1> QED BY <1>2, <1>3, <1>4

(* One more probe of the same step. *)
LEMMA RequestProbes ==
    ASSUME BluetoothTypeOK, bt.n + 1 < MaxProbes,
           NEW s \in PowerSteps, bt' = [bt EXCEPT !.step = s, !.n = @ + 1]
    PROVE  bt' \in PowerRequests /\ bt'.step = s /\ bt'.want = bt.want
<1>1. bt \in PowerRequests /\ MaxProbes \in Nat
  BY BluetoothAssumption DEF BluetoothTypeOK, PowerRequests, PowerSteps
<1>2. bt.n + 1 \in 0 .. MaxProbes
  BY <1>1 DEF PowerRequests
<1> QED BY <1>1, <1>2 DEF PowerRequests

(* The invariant in terms of the parts that a step can disturb. *)
LEMMA PowerInvFromParts ==
    ASSUME PowerInv, ctl' \in Controllers, passed' \subseteq Controllers,
           soft' \in BOOLEAN, softWas' \in BOOLEAN, excused' \in BOOLEAN,
           bterr' \in {"none", "gone", "missing", "other"},
           bt' \in PowerRequests, PresentSeen', RecoveryPowersOn',
           ConfirmedAfresh', BlockedOnlyToUnblock', PowerReportedTruly'
    PROVE  PowerInv'
BY DEF PowerInv, BluetoothTypeOK, PowerRequests, PowerSteps

(* A step of the request that leaves the radio alone. *)
LEMMA SoftKept ==
    ASSUME PowerInv, UNCHANGED <<soft, softWas, excused>>,
           bt.step # "unblock" \/ bt'.step = "unblock"
    PROVE  /\ soft' \in BOOLEAN /\ softWas' \in BOOLEAN /\ excused' \in BOOLEAN
           /\ BlockedOnlyToUnblock'
<1>1. {soft, softWas, excused} \subseteq BOOLEAN
  BY DEF PowerInv, BluetoothTypeOK
<1>2. BlockedOnlyToUnblock
  BY DEF PowerInv
<1> QED BY <1>1, <1>2 DEF BlockedOnlyToUnblock

(* A step of the request that ends it in failure, or takes it up at another   *)
(* step than the confirmation.                                                *)
LEMMA RequestKept ==
    ASSUME PowerInv, bt' \in PowerRequests, bt'.want = bt.want,
           ctl' \in Controllers, passed' = passed \cup {ctl'},
           bterr' \in {"none", "gone", "missing", "other"},
           soft' \in BOOLEAN, softWas' \in BOOLEAN, excused' \in BOOLEAN,
           BlockedOnlyToUnblock',
           \/ bt'.step = "idle" /\ bt'.result = "failed"
           \/ bt'.step \in {"usb", "rfkill", "pulse", "unblock", "probe",
                            "reset", "register", "up"} /\ bt.want = "on"
           \/ bt'.step = "manage"
           \/ bt'.step = "confirm" /\ bterr' = "none"
           \/ bt'.step = "confirm" /\ bt.want = "on"
    PROVE  PowerInv'
<1>1. passed' \subseteq Controllers
  BY DEF PowerInv, BluetoothTypeOK
<1>2. PresentSeen'
  BY DEF PresentSeen
<1>3. bt.want \in {"on", "off"}
  BY DEF PowerInv, BluetoothTypeOK
<1>4. RecoveryPowersOn' /\ ConfirmedAfresh' /\ PowerReportedTruly'
  BY <1>3 DEF RecoveryPowersOn, ConfirmedAfresh, PowerReportedTruly
<1> QED BY <1>1, <1>2, <1>4, PowerInvFromParts

(* A step of the request that ends it well. *)
LEMMA RequestAnswered ==
    ASSUME PowerInv, Ends("ok"), UNCHANGED <<soft, softWas, excused>>,
           bt.step \notin {"idle", "unblock"},
           ctl' \in Controllers, passed' = passed \cup {ctl'},
           bterr' \in {"none", "gone", "missing", "other"},
           ctl \in Powered(bt.want) \/ ctl' \in Powered(bt.want)
    PROVE  PowerInv'
<1>1. passed' \subseteq Controllers
  BY DEF PowerInv, BluetoothTypeOK
<1>2. /\ bt' \in PowerRequests /\ bt'.step = "idle" /\ bt'.want = bt.want
      /\ bt'.result = "ok"
  BY RequestMoves DEF PowerInv
<1>3. ctl \in passed /\ bt.want \in {"on", "off"}
  BY DEF PowerInv, PresentSeen, BluetoothTypeOK
<1>4. /\ PresentSeen' /\ RecoveryPowersOn' /\ ConfirmedAfresh'
      /\ PowerReportedTruly'
  BY <1>2, <1>3 DEF RecoveryPowersOn, ConfirmedAfresh, PowerReportedTruly,
                    PresentSeen, Powered
<1> QED BY <1>1, <1>2, <1>4, SoftKept, PowerInvFromParts

(* A probe that fails is one of two things. *)
LEMMA ProbeMisses ==
    ASSUME PowerInv, Misses
    PROVE  /\ bterr' \in {"none", "gone", "missing", "other"}
           /\ \/ ctl \in {"gone", "missing"} /\ bterr' = ctl
              \/ bterr' \in {"other", bterr}
BY DEF Misses, PowerInv, BluetoothTypeOK

(* Set Powered: the controller is what was asked for, or the request is given *)
(* up.                                                                        *)
LEMMA PoweredOrGiven ==
    ASSUME PowerInv, NEW ACTION A, SetPowered(A)
    PROVE  /\ ctl' \in Controllers /\ passed' = passed \cup {ctl'}
           /\ bterr' \in {"none", "gone", "missing", "other"}
           /\ \/ bterr' = "none" /\ ctl' \in Powered(bt.want) /\ A
              \/ Gives(bterr')
<1>1. /\ ctl \in Controllers /\ passed' = passed \cup {ctl'}
      /\ Powered(bt.want) \subseteq Controllers
  BY DEF PowerInv, BluetoothTypeOK, SetPowered, Powered, Controllers
<1>2. Misses => bterr' \in {"none", "gone", "missing", "other"}
  BY ProbeMisses
<1> QED BY <1>1, <1>2 DEF SetPowered

(* A request that is given up, or goes on to the USB path. *)
LEMMA RequestGivenUp ==
    ASSUME PowerInv, NEW e, Gives(e), UNCHANGED <<soft, softWas, excused>>,
           bt.step # "unblock",
           ctl' \in Controllers, passed' = passed \cup {ctl'},
           bterr' \in {"none", "gone", "missing", "other"}
    PROVE  PowerInv'
<1>1. /\ bt' \in PowerRequests /\ bt'.want = bt.want
      /\ \/ bt'.step = "usb" /\ bt.want = "on"
         \/ bt'.step = "idle" /\ bt'.result = "failed"
  BY RequestMoves DEF PowerInv
<1> QED BY <1>1, SoftKept, RequestKept

(* A request that goes on at another step. *)
LEMMA RequestGoesOn ==
    ASSUME PowerInv, NEW s \in PowerSteps, bt' \in PowerRequests,
           bt'.step = s, bt'.want = bt.want, UNCHANGED <<soft, softWas, excused>>,
           bt.step # "unblock" \/ s = "unblock",
           ctl' \in Controllers, passed' = passed \cup {ctl'},
           bterr' \in {"none", "gone", "missing", "other"},
           \/ s \in {"usb", "rfkill", "pulse", "unblock", "probe",
                     "reset", "register", "up"} /\ bt.want = "on"
           \/ s = "manage"
           \/ s = "confirm" /\ bterr' = "none"
           \/ s = "confirm" /\ bt.want = "on"
    PROVE  PowerInv'
BY SoftKept, RequestKept

(* What holds of every step that does not move the controller. *)
LEMMA ControllerKept ==
    ASSUME PowerInv, UNCHANGED <<ctl, passed>>, bt.step # "idle"
    PROVE  ctl' \in Controllers /\ passed' = passed \cup {ctl'}
BY DEF PowerInv, BluetoothTypeOK, PresentSeen

LEMMA ReadInfoKeeps ==
    ASSUME PowerInv, ReadInfo
    PROVE  PowerInv'
<1>1. /\ bt.step = "read" /\ bt.want \in {"on", "off"} /\ bt \in PowerRequests
      /\ UNCHANGED <<soft, softWas, excused>>
      /\ ctl \in Controllers /\ ctl \in passed /\ passed \subseteq Controllers
      /\ UNCHANGED <<ctl, passed>>
  BY DEF ReadInfo, PowerInv, BluetoothTypeOK, PowerRequests, PowerSteps,
         PresentSeen
<1>2. ctl' \in Controllers /\ passed' = passed \cup {ctl'}
  BY <1>1
<1>3. ASSUME NEW p \in {"on", "off"}, Sees(p),
             IF p = bt.want THEN Ends("ok") ELSE Goes("manage")
      PROVE  PowerInv'
  <2>1. bterr' = "none" /\ ctl = p
    BY <1>3 DEF Sees
  <2>2. CASE p = bt.want
    BY <1>1, <1>2, <1>3, <2>1, <2>2, RequestAnswered DEF Powered
  <2>3. CASE p # bt.want
    <3>1. bt' \in PowerRequests /\ bt'.step = "manage" /\ bt'.want = bt.want
      BY <1>3, <2>3, RequestMoves DEF PowerInv, PowerSteps
    <3> QED BY <1>1, <1>2, <2>1, <3>1, RequestGoesOn DEF PowerSteps
  <2> QED BY <2>2, <2>3
<1>4. ASSUME Misses, Gives(bterr')
      PROVE  PowerInv'
  BY <1>1, <1>2, <1>4, ProbeMisses, RequestGivenUp
<1>5. ASSUME Misses, IndexMissing(bterr'),
             bt' = [bt EXCEPT
                     !.blind = Stale,
                     !.step = IF bt.want = "off" THEN "idle" ELSE "rfkill",
                     !.result = IF bt.want = "off" THEN "ok" ELSE @]
      PROVE  PowerInv'
  <2>1. bterr' = "gone"
    BY <1>5 DEF IndexMissing
  <2>2. Stale \in BOOLEAN
    BY DEF Stale
  <2>3. bt' \in PowerRequests /\ bt'.want = bt.want
    BY <1>1, <1>5, <2>2 DEF PowerRequests, PowerSteps
  <2>4. CASE bt.want = "on"
    <3>1. bt'.step = "rfkill"
      BY <1>1, <1>5, <2>4 DEF PowerRequests
    <3> QED BY <1>1, <1>2, <2>1, <2>3, <2>4, <3>1, RequestGoesOn DEF PowerSteps
  <2>5. CASE bt.want = "off"
    <3>1. bt'.step = "idle" /\ bt'.result = "ok"
      BY <1>1, <1>5, <2>5 DEF PowerRequests
    <3>2. bt'.blind <=> Stale
      BY <1>1, <1>5 DEF PowerRequests
    <3>3. ctl = "gone" \/ Stale
      BY <1>5, <2>1 DEF Misses, Stale
    <3>4. PowerReportedTruly'
      BY <1>1, <2>3, <2>5, <3>2, <3>3 DEF PowerReportedTruly
    <3>5. PresentSeen' /\ RecoveryPowersOn' /\ ConfirmedAfresh'
      BY <3>1 DEF PresentSeen, RecoveryPowersOn, ConfirmedAfresh
    <3> QED BY <1>1, <2>1, <2>3, <3>4, <3>5, SoftKept, PowerInvFromParts
  <2> QED BY <1>1, <2>4, <2>5
<1> QED BY <1>3, <1>4, <1>5 DEF ReadInfo

LEMMA SetPoweredKeeps ==
    ASSUME PowerInv, Manage \/ ManageAgain \/ PowerUp
    PROVE  PowerInv'
<1>1. bt.want \in {"on", "off"} /\ UNCHANGED <<soft, softWas, excused>>
  BY DEF PowerInv, BluetoothTypeOK, Manage, ManageAgain, PowerUp
<1>2. ASSUME NEW ACTION A, SetPowered(A), bt.step \notin {"idle", "unblock"},
             (/\ bterr' = "none" /\ ctl' \in Powered(bt.want) /\ A
              /\ ctl' \in Controllers /\ passed' = passed \cup {ctl'})
             => PowerInv'
      PROVE  PowerInv'
  BY <1>1, <1>2, PoweredOrGiven, RequestGivenUp
<1>3. CASE Manage
  <2>1. SetPowered(Goes("confirm")) /\ bt.step = "manage"
    BY <1>3 DEF Manage
  <2>2. ASSUME bterr' = "none", Goes("confirm"),
               ctl' \in Controllers, passed' = passed \cup {ctl'}
        PROVE  PowerInv'
    <3>1. bt' \in PowerRequests /\ bt'.step = "confirm" /\ bt'.want = bt.want
      BY <2>2, RequestMoves DEF PowerInv, PowerSteps
    <3> QED BY <1>1, <2>1, <2>2, <3>1, RequestGoesOn DEF PowerSteps
  <2> QED BY <1>2, <2>1, <2>2
<1>4. CASE ManageAgain
  <2>1. SetPowered(Again) /\ bt.step = "reset" /\ bt.want = "on"
    BY <1>4 DEF ManageAgain, PowerInv, RecoveryPowersOn
  <2>2. ASSUME bterr' = "none", Again,
               ctl' \in Controllers, passed' = passed \cup {ctl'}
        PROVE  PowerInv'
    <3>1. CASE bt.n + 1 < MaxProbes
      <4>1. bt' \in PowerRequests /\ bt'.step = "probe" /\ bt'.want = bt.want
        BY <2>2, <3>1, RequestProbes DEF PowerInv, PowerSteps, Again
      <4> QED BY <1>1, <2>1, <2>2, <4>1, RequestGoesOn DEF PowerSteps
    <3>2. CASE ~(bt.n + 1 < MaxProbes)
      BY <1>1, <2>1, <2>2, <3>2, RequestGivenUp DEF Again
    <3> QED BY <3>1, <3>2
  <2> QED BY <1>2, <2>1, <2>2
<1>5. CASE PowerUp
  <2>1. SetPowered(Ends("ok")) /\ bt.step = "up"
    BY <1>5 DEF PowerUp
  <2> QED BY <1>1, <1>2, <2>1, RequestAnswered
<1> QED BY <1>3, <1>4, <1>5

LEMMA ConfirmKeeps ==
    ASSUME PowerInv, Confirm
    PROVE  PowerInv'
<1>1. /\ bt.step = "confirm" /\ bt.want \in {"on", "off"}
      /\ UNCHANGED <<soft, softWas, excused, ctl, passed>>
  BY DEF Confirm, PowerInv, BluetoothTypeOK
<1>2. ctl' \in Controllers /\ passed' = passed \cup {ctl'}
  BY <1>1, ControllerKept
<1>3. ASSUME NEW p \in {"on", "off"}, Sees(p),
             IF p = bt.want THEN Ends("ok") ELSE Gives("none")
      PROVE  PowerInv'
  BY <1>1, <1>2, <1>3, RequestAnswered, RequestGivenUp DEF Sees, Powered
<1>4. ASSUME Misses, bt.want = "off",
             IF IndexMissing(bterr') THEN Ends("ok") ELSE Ends("failed")
      PROVE  PowerInv'
  <2>1. bterr = "none"
    BY <1>1, <1>4 DEF PowerInv, ConfirmedAfresh
  <2>2. CASE IndexMissing(bterr')
    <3>1. bterr' = "gone" /\ ctl = "gone"
      BY <1>4, <2>1, <2>2, ProbeMisses DEF IndexMissing
    <3> QED BY <1>1, <1>2, <1>4, <2>2, <3>1, RequestAnswered DEF Powered
  <2>3. CASE ~IndexMissing(bterr')
    <3>1. /\ bt' \in PowerRequests /\ bt'.step = "idle"
          /\ bt'.want = bt.want /\ bt'.result = "failed"
      BY <1>4, <2>3, RequestMoves DEF PowerInv
    <3> QED BY <1>1, <1>2, <1>4, <3>1, ProbeMisses, SoftKept, RequestKept
  <2> QED BY <2>2, <2>3
<1>5. ASSUME Misses, bt.want = "on",
             IF bt.n + 1 < MaxProbes THEN bt' = [bt EXCEPT !.n = @ + 1]
                                     ELSE Gives(bterr')
      PROVE  PowerInv'
  <2>1. CASE bt.n + 1 < MaxProbes
    <3>1. bt \in PowerRequests /\ bt' = [bt EXCEPT !.n = @ + 1]
      BY <1>5, <2>1 DEF PowerInv, BluetoothTypeOK, PowerRequests, PowerSteps
    <3>2. bt' = [bt EXCEPT !.step = "confirm", !.n = @ + 1]
      BY <1>1, <3>1 DEF PowerRequests
    <3>3. bt' \in PowerRequests /\ bt'.step = "confirm" /\ bt'.want = bt.want
      BY <2>1, <3>2, RequestProbes DEF PowerInv, PowerSteps
    <3> QED BY <1>1, <1>2, <1>5, <3>3, ProbeMisses, RequestGoesOn DEF PowerSteps
  <2>2. CASE ~(bt.n + 1 < MaxProbes)
    BY <1>1, <1>2, <1>5, <2>2, ProbeMisses, RequestGivenUp
  <2> QED BY <2>1, <2>2
<1> QED BY <1>1, <1>3, <1>4, <1>5 DEF Confirm

(* The steps that power a controller on again through rfkill. *)
LEMMA PulseKeeps ==
    ASSUME PowerInv, RfkillState \/ Pulse \/ Unblock
    PROVE  PowerInv'
<1>1. /\ bt.step \in {"rfkill", "pulse", "unblock"} /\ bt.want = "on"
      /\ UNCHANGED <<softWas, ctl, passed, bterr>>
      /\ bterr \in {"none", "gone", "missing", "other"}
      /\ {soft, softWas, excused} \subseteq BOOLEAN
  BY DEF RfkillState, Pulse, Unblock, Rfkill, PowerInv, RecoveryPowersOn,
         BluetoothTypeOK
<1>2. ctl' \in Controllers /\ passed' = passed \cup {ctl'}
  BY <1>1, ControllerKept
<1>3. ASSUME NEW s \in {"unblock", "pulse", "probe"}, Goes(s)
      PROVE  bt' \in PowerRequests /\ bt'.step = s /\ bt'.want = bt.want
  BY <1>3, RequestMoves DEF PowerInv, PowerSteps
<1>4. CASE RfkillState
  <2>1. bt.step = "rfkill" /\ UNCHANGED <<soft, excused>>
    BY <1>4 DEF RfkillState
  <2>2. CASE Gives(bterr)
    BY <1>1, <1>2, <2>1, <2>2, RequestGivenUp
  <2>3. CASE Goes("unblock") \/ Goes("pulse")
    BY <1>1, <1>2, <1>3, <2>1, <2>3, RequestGoesOn DEF PowerSteps
  <2> QED BY <1>4, <2>2, <2>3 DEF RfkillState
<1>5. ASSUME NEW b \in BOOLEAN, soft' \in {soft, b}, excused' = TRUE,
             Gives(bterr)
      PROVE  PowerInv'
  <2>1. /\ bt' \in PowerRequests /\ bt'.want = bt.want
        /\ \/ bt'.step = "usb" /\ bt.want = "on"
           \/ bt'.step = "idle" /\ bt'.result = "failed"
    BY <1>5, RequestMoves DEF PowerInv
  <2>2. soft' \in BOOLEAN /\ softWas' \in BOOLEAN /\ excused' \in BOOLEAN
    BY <1>1, <1>5
  <2>3. BlockedOnlyToUnblock'
    BY <1>5 DEF BlockedOnlyToUnblock
  <2> QED BY <1>1, <1>2, <2>1, <2>2, <2>3, RequestKept
<1>6. CASE Pulse
  <2>1. CASE soft' = TRUE /\ Goes("unblock") /\ UNCHANGED excused
    <3>1. bt' \in PowerRequests /\ bt'.step = "unblock" /\ bt'.want = bt.want
      BY <1>3, <2>1
    <3>2. BlockedOnlyToUnblock'
      BY <3>1 DEF BlockedOnlyToUnblock
    <3>3. soft' \in BOOLEAN /\ softWas' \in BOOLEAN /\ excused' \in BOOLEAN
      BY <1>1, <2>1
    <3> QED BY <1>1, <1>2, <3>1, <3>2, <3>3, RequestKept
  <2> QED BY <1>5, <1>6, <2>1 DEF Pulse, Rfkill
<1>7. CASE Unblock
  <2>1. CASE soft' = FALSE /\ Goes("probe") /\ UNCHANGED excused
    <3>1. bt' \in PowerRequests /\ bt'.step = "probe" /\ bt'.want = bt.want
      BY <1>3, <2>1
    <3>2. BlockedOnlyToUnblock'
      BY <2>1 DEF BlockedOnlyToUnblock
    <3>3. soft' \in BOOLEAN /\ softWas' \in BOOLEAN /\ excused' \in BOOLEAN
      BY <1>1, <2>1
    <3> QED BY <1>1, <1>2, <3>1, <3>2, <3>3, RequestKept
  <2> QED BY <1>5, <1>7, <2>1 DEF Unblock, Rfkill
<1> QED BY <1>4, <1>6, <1>7

LEMMA ReprobeKeeps ==
    ASSUME PowerInv, Reprobe
    PROVE  PowerInv'
<1>1. /\ bt.step = "probe" /\ bt.want = "on"
      /\ UNCHANGED <<soft, softWas, excused, ctl, passed>>
  BY DEF Reprobe, PowerInv, RecoveryPowersOn
<1>2. ctl' \in Controllers /\ passed' = passed \cup {ctl'}
  BY <1>1, ControllerKept
<1>3. CASE Sees("on") /\ Ends("ok")
  BY <1>1, <1>2, <1>3, RequestAnswered DEF Sees, Powered
<1>4. CASE Sees("off") /\ bt' = [bt EXCEPT !.step = "reset"]
  <2>1. bt' \in PowerRequests /\ bt'.step = "reset" /\ bt'.want = bt.want
    BY <1>4 DEF PowerInv, BluetoothTypeOK, PowerRequests, PowerSteps
  <2> QED BY <1>1, <1>2, <1>4, <2>1, RequestGoesOn DEF PowerSteps, Sees
<1>5. CASE Misses /\ Gives(bterr')
  BY <1>1, <1>2, <1>5, ProbeMisses, RequestGivenUp
<1>6. CASE /\ Misses /\ bt.n + 1 < MaxProbes
           /\ bt' = [bt EXCEPT !.step = "probe", !.n = @ + 1]
  <2>1. bt' \in PowerRequests /\ bt'.step = "probe" /\ bt'.want = bt.want
    BY <1>6, RequestProbes DEF PowerInv, PowerSteps
  <2> QED BY <1>1, <1>2, <1>6, <2>1, ProbeMisses, RequestGoesOn DEF PowerSteps
<1> QED BY <1>3, <1>4, <1>5, <1>6 DEF Reprobe, Again

LEMMA UsbKeeps ==
    ASSUME PowerInv, DeviceUp \/ Register
    PROVE  PowerInv'
<1>1. /\ bt.step \in {"usb", "register"} /\ bt.want = "on"
      /\ UNCHANGED <<soft, softWas, excused>>
      /\ ctl \in Controllers
      /\ bterr \in {"none", "gone", "missing", "other"}
      /\ ctl \in passed
  BY DEF DeviceUp, Register, PowerInv, RecoveryPowersOn, BluetoothTypeOK,
         PresentSeen
<1>2. ASSUME Ends("failed")
      PROVE  /\ bt' \in PowerRequests /\ bt'.step = "idle"
             /\ bt'.want = bt.want /\ bt'.result = "failed"
  BY <1>2, RequestMoves DEF PowerInv
<1>3. ASSUME NEW s \in {"register", "up"}, Goes(s)
      PROVE  bt' \in PowerRequests /\ bt'.step = s /\ bt'.want = bt.want
  BY <1>3, RequestMoves DEF PowerInv, PowerSteps
<1>4. CASE DeviceUp
  <2>1. ctl' \in Controllers /\ passed' = passed \cup {ctl'}
        /\ bterr' \in {"none", "gone", "missing", "other"}
    BY <1>1, <1>4 DEF DeviceUp, Controllers
  <2>2. CASE Goes("register")
    BY <1>1, <1>3, <2>1, <2>2, RequestGoesOn DEF PowerSteps
  <2>3. CASE Ends("failed")
    BY <1>1, <1>2, <2>1, <2>3, SoftKept, RequestKept
  <2> QED BY <1>4, <2>2, <2>3 DEF DeviceUp
<1>5. CASE Register
  <2>1. ctl' \in Controllers /\ passed' = passed \cup {ctl'}
        /\ bt.step = "register"
    BY <1>1, <1>5 DEF Register
  <2>2. CASE Sees("on") /\ Ends("ok")
    BY <1>1, <2>1, <2>2, RequestAnswered DEF Sees, Powered
  <2>3. CASE Sees("off") /\ Goes("up")
    BY <1>1, <1>3, <2>1, <2>3, RequestGoesOn DEF PowerSteps, Sees
  <2>4. CASE bt.n + 1 < MaxProbes /\ Misses /\ bt' = [bt EXCEPT !.n = @ + 1]
    <3>1. bt \in PowerRequests
      BY DEF PowerInv, BluetoothTypeOK, PowerRequests, PowerSteps
    <3>2. bt' = [bt EXCEPT !.step = "register", !.n = @ + 1]
      BY <2>1, <2>4, <3>1 DEF PowerRequests
    <3>3. bt' \in PowerRequests /\ bt'.step = "register" /\ bt'.want = bt.want
      BY <2>4, <3>2, RequestProbes DEF PowerInv, PowerSteps
    <3> QED BY <1>1, <2>1, <2>4, <3>3, ProbeMisses, RequestGoesOn DEF PowerSteps
  <2>5. CASE bterr' = "other" /\ Ends("failed")
    BY <1>1, <1>2, <2>1, <2>5, SoftKept, RequestKept
  <2> QED BY <1>5, <2>2, <2>3, <2>4, <2>5 DEF Register
<1> QED BY <1>4, <1>5

(* A new request, and what others do. *)
LEMMA OutsideKeeps ==
    ASSUME PowerInv,
           (\E want \in {"on", "off"} : PowerCall(want)) \/ ControllerMoves
           \/ OtherRfkill
    PROVE  PowerInv'
<1>1. /\ bt \in PowerRequests /\ ctl \in Controllers
      /\ passed \subseteq Controllers
      /\ bterr \in {"none", "gone", "missing", "other"}
      /\ MaxProbes \in Nat
  BY BluetoothAssumption
  DEF PowerInv, BluetoothTypeOK, PowerRequests, PowerSteps
<1>2. {soft, softWas, excused} \subseteq BOOLEAN
  BY DEF PowerInv, BluetoothTypeOK
<1>3. /\ PresentSeen /\ RecoveryPowersOn /\ ConfirmedAfresh
      /\ BlockedOnlyToUnblock /\ PowerReportedTruly
  BY DEF PowerInv
<1>4. ASSUME NEW want \in {"on", "off"}, PowerCall(want)
      PROVE  PowerInv'
  <2>1. /\ bt' = [NoPower EXCEPT !.step = "read", !.want = want]
        /\ passed' = {ctl} /\ softWas' = soft /\ excused' = FALSE
        /\ UNCHANGED <<ctl, soft, bterr>>
    BY <1>4 DEF PowerCall
  <2>2. 0 \in 0 .. MaxProbes
    BY <1>1
  <2>3. bt' \in PowerRequests /\ bt'.step = "read"
    BY <2>1, <2>2 DEF NoPower, PowerRequests, PowerSteps
  <2>4. PresentSeen' /\ RecoveryPowersOn' /\ ConfirmedAfresh'
        /\ PowerReportedTruly'
    BY <2>1, <2>3 DEF PresentSeen, RecoveryPowersOn, ConfirmedAfresh,
                      PowerReportedTruly
  <2>5. /\ soft' \in BOOLEAN /\ softWas' \in BOOLEAN /\ excused' \in BOOLEAN
        /\ BlockedOnlyToUnblock'
    BY <1>2, <2>1 DEF BlockedOnlyToUnblock
  <2> QED BY <1>1, <2>1, <2>3, <2>4, <2>5, PowerInvFromParts
<1>5. CASE ControllerMoves
  <2>1. /\ ctl' \in Controllers /\ passed' = passed \cup {ctl'}
        /\ UNCHANGED <<soft, bterr, bt, softWas, excused>>
    BY <1>5 DEF ControllerMoves
  <2>2. PresentSeen' /\ RecoveryPowersOn' /\ ConfirmedAfresh'
        /\ PowerReportedTruly'
    BY <1>3, <2>1 DEF PresentSeen, RecoveryPowersOn, ConfirmedAfresh,
                      PowerReportedTruly
  <2>3. /\ soft' \in BOOLEAN /\ softWas' \in BOOLEAN /\ excused' \in BOOLEAN
        /\ BlockedOnlyToUnblock'
    BY <1>2, <1>3, <2>1 DEF BlockedOnlyToUnblock
  <2> QED BY <1>1, <2>1, <2>2, <2>3, PowerInvFromParts
<1>6. CASE OtherRfkill
  <2>1. /\ soft' = ~soft /\ excused' = TRUE
        /\ UNCHANGED <<ctl, bterr, bt, passed, softWas>>
    BY <1>6 DEF OtherRfkill
  <2>2. PresentSeen' /\ RecoveryPowersOn' /\ ConfirmedAfresh'
        /\ PowerReportedTruly'
    BY <1>3, <2>1 DEF PresentSeen, RecoveryPowersOn, ConfirmedAfresh,
                      PowerReportedTruly
  <2>3. /\ soft' \in BOOLEAN /\ softWas' \in BOOLEAN /\ excused' \in BOOLEAN
        /\ BlockedOnlyToUnblock'
    BY <1>2, <2>1 DEF BlockedOnlyToUnblock
  <2> QED BY <1>1, <2>1, <2>2, <2>3, PowerInvFromParts
<1> QED BY <1>4, <1>5, <1>6

LEMMA PowerInvHolds == BluetoothSpec => []PowerInv
<1>1. BluetoothInit => PowerInv
  <2> SUFFICES ASSUME BluetoothInit
               PROVE  PowerInv
    OBVIOUS
  <2>1. 0 \in 0 .. MaxProbes
    BY BluetoothAssumption
  <2>2. bt \in PowerRequests /\ bt.step = "idle" /\ bt.result = "none"
    BY <2>1 DEF BluetoothInit, NoPower, PowerRequests, PowerSteps
  <2>3. {soft, softWas, excused} \subseteq BOOLEAN
    BY DEF BluetoothInit
  <2>4. BluetoothTypeOK
    BY <2>2, <2>3
    DEF BluetoothInit, BluetoothTypeOK, PowerRequests, PowerSteps
  <2>5. BlockedOnlyToUnblock
    BY DEF BluetoothInit, BlockedOnlyToUnblock
  <2> QED BY <2>2, <2>4, <2>5
          DEF PowerInv, PresentSeen, RecoveryPowersOn, ConfirmedAfresh,
              PowerReportedTruly
<1>2. PowerInv /\ [BluetoothNext]_btVars => PowerInv'
  <2>1. ASSUME PowerInv, UNCHANGED btVars
        PROVE  PowerInv'
    BY <2>1 DEF btVars, PowerInv, BluetoothTypeOK, PresentSeen,
                RecoveryPowersOn, ConfirmedAfresh, BlockedOnlyToUnblock,
                PowerReportedTruly
  <2> QED BY <2>1, ReadInfoKeeps, SetPoweredKeeps, ConfirmKeeps, PulseKeeps,
             ReprobeKeeps, UsbKeeps, OutsideKeeps DEF BluetoothNext
<1> QED BY <1>1, <1>2, PTL DEF BluetoothSpec

(* The variables of the Bluetooth power request always have their types. *)
THEOREM PowerRequestsTyped == BluetoothSpec => []BluetoothTypeOK
<1>1. PowerInv => BluetoothTypeOK
  BY DEF PowerInv
<1> QED BY <1>1, PowerInvHolds, PTL

(* However the probes fail and however the controller moves between them,     *)
(* request_bluetooth_power reports power as set only when the controller was  *)
(* in that state at some moment of the request, or the first probe failed     *)
(* silently.                                                                  *)
THEOREM PowerIsReportedTruly == BluetoothSpec => []PowerReportedTruly
<1>1. PowerInv => PowerReportedTruly
  BY DEF PowerInv
<1> QED BY <1>1, PowerInvHolds, PTL

(* The rfkill pulse of request_bluetooth_power never leaves a radio blocked   *)
(* that was not, unless an rfkill write failed or somebody else wrote.        *)
THEOREM PulsesRestore == BluetoothSpec => []PulseRestores
<1>1. PowerInv => PulseRestores
  BY DEF PowerInv, BlockedOnlyToUnblock, PulseRestores
<1> QED BY <1>1, PowerInvHolds, PTL

-----------------------------------------------------------------------------
(* Wi-Fi control. *)

WpaStates == [conf : Conf, disk : Conf, selected : NetIds \cup {NoNet}]
CallRecords == [op : {"none", "scan", "disconnect", "connect", "forget"},
                step : Steps, ssid : Ssids \cup {NoNet},
                key : Creds \cup {NoNet}, id : NetIds \cup {NoNet},
                known : BOOLEAN]

(* The steps at which a call holds a network id it is about to use. *)
Holding == Assembly \cup {"cleanup", "remove"}
Making == Assembly \cup {"cleanup"}

(* What a call's step says of its other fields. *)
Caller(r) ==
    /\ r.step \in {"idle", "command"} => r.id = NoNet
    /\ r.step = "list" =>
          /\ r.op \in {"connect", "forget"} /\ ~r.known
          /\ r.op = "connect" => r.ssid # NoNet /\ r.id = NoNet
          /\ r.id # NoNet => r.ssid = NoNet
    /\ r.step = "add" =>
          /\ r.op = "connect" /\ ~r.known /\ r.id = NoNet
          /\ r.ssid # NoNet /\ r.key # NoNet
    /\ r.step \in Making =>
          /\ r.op = "connect" /\ r.id # NoNet /\ r.ssid # NoNet
          /\ ~r.known => r.key # NoNet
    /\ r.step \in {"ssid", "key", "cleanup"} => ~r.known
    /\ r.step = "remove" => r.op = "forget" /\ r.id # NoNet /\ r.known

Callers == \A c \in WifiCallers : Caller(wcall[c])

(* The maker of an entry is a call still at work on it. *)
MakerAtWork ==
    \A i \in NetIds : maker[i] # NoNet =>
       /\ wcall[maker[i]].id = i /\ ~wcall[maker[i]].known
       /\ wcall[maker[i]].step \in Making

(* A call that holds an entry either found it under its own SSID or made it. *)
HoldersKnown ==
    \A i \in Used \ mixed : \A c \in WifiCallers :
       (wcall[c].id = i /\ wcall[c].step \in Holding) =>
       IF wcall[c].known THEN wcall[c].ssid \in {NoNet, wpa.conf[i].ssid}
       ELSE maker[i] = c

(* What the maker of an entry has set by now. *)
MadeSoFar(e, r) ==
    /\ r.step = "ssid" => e.ssid = NoNet
    /\ r.step \in {"key", "enable", "select"} => e.ssid = r.ssid
    /\ r.step \in {"enable", "select"} => e.key = r.key

EntriesInOrder ==
    \A i \in Used \ mixed :
       /\ wpa.conf[i].key # NoNet => wpa.conf[i].ssid # NoNet
       /\ maker[i] # NoNet => MadeSoFar(wpa.conf[i], wcall[maker[i]])

DiskComplete ==
    \A i \in NetIds \ mixed : wpa.disk[i] # NoNet =>
       wpa.disk[i].ssid # NoNet /\ wpa.disk[i].key # NoNet

WifiInv ==
    /\ WifiTypeOK /\ reloads \in Nat
    /\ Callers /\ MakerAtWork /\ HoldersKnown /\ EntriesInOrder
    /\ DiskComplete /\ PartialCreationRemoved

(* What the command of a call may do to the supplicant. *)
EntryEffect(c, j) ==
    /\ wpa.conf[j] = NoNet => wpa'.conf[j] = NoNet
    /\ (wpa.conf[j] # NoNet /\ wpa'.conf[j] = NoNet) =>
          j = wcall[c].id /\ wcall[c].step \in {"remove", "cleanup"}
    /\ wpa'.conf[j] # NoNet =>
          /\ \/ wpa'.conf[j].ssid = wpa.conf[j].ssid
             \/ /\ j = wcall[c].id /\ wcall[c].step = "ssid"
                /\ wpa'.conf[j].ssid = wcall[c].ssid
          /\ \/ wpa'.conf[j].key = wpa.conf[j].key
             \/ /\ j = wcall[c].id /\ wcall[c].step = "key"
                /\ wpa'.conf[j].key = wcall[c].key
    /\ \/ wpa'.disk[j] \in {wpa.disk[j], NoNet}
       \/ /\ wpa'.disk[j] = wpa.conf[j] /\ wpa.conf[j] # NoNet
          /\ wpa.conf[j].key # NoNet
Effect(c) == wpa' \in WpaStates /\ \A j \in NetIds : EntryEffect(c, j)

(* What it has done when it was carried out. *)
Exact(c) ==
    LET i == wcall[c].id
    IN  /\ wcall[c].step = "ssid" => wpa'.conf[i].ssid = wcall[c].ssid
        /\ wcall[c].step = "key" => wpa'.conf[i].key = wcall[c].key
        /\ wcall[c].step = "select" =>
              wpa'.selected = i /\ wpa'.conf[i].enabled
        /\ wcall[c].step \in {"remove", "cleanup"} => wpa'.conf[i] = NoNet

LEMMA WifiTypes ==
    ASSUME WifiTypeOK
    PROVE  /\ wpa \in WpaStates /\ wpa.conf \in [NetIds -> Entry \cup {NoNet}]
           /\ wpa.disk \in [NetIds -> Entry \cup {NoNet}]
           /\ wcall \in [WifiCallers -> CallRecords]
           /\ maker \in [NetIds -> WifiCallers \cup {NoNet}]
           /\ strays \subseteq NetIds /\ mixed \subseteq NetIds
           /\ NoNet \notin Entry /\ NoNet \notin NetIds /\ NoNet \notin Ssids
           /\ NoNet \notin Creds /\ NoNet \notin WifiCallers
BY WifiAssumption DEF WifiTypeOK, WpaStates, CallRecords, Conf

LEMMA NoEffect ==
    ASSUME WifiTypeOK, NEW c \in WifiCallers, UNCHANGED wpa
    PROVE  Effect(c)
BY WifiTypes DEF Effect, EntryEffect

(* A single field of one entry is set. *)
LEMMA FieldSet ==
    ASSUME WifiTypeOK, NEW i \in NetIds, i \in Used, NEW e \in Entry,
           wpa' = [wpa EXCEPT !.conf = [@ EXCEPT ![i] = e]]
    PROVE  /\ wpa' \in WpaStates /\ wpa'.disk = wpa.disk
           /\ wpa'.selected = wpa.selected
           /\ wpa'.conf = [wpa.conf EXCEPT ![i] = e]
           /\ wpa'.conf[i] = e /\ wpa'.conf[i] # NoNet
           /\ \A j \in NetIds : j # i => wpa'.conf[j] = wpa.conf[j]
<1>1. wpa \in WpaStates /\ wpa.conf \in [NetIds -> Entry \cup {NoNet}]
  BY WifiTypes
<1>2. [wpa.conf EXCEPT ![i] = e] \in [NetIds -> Entry \cup {NoNet}]
  BY <1>1
<1>3. wpa'.conf = [wpa.conf EXCEPT ![i] = e] /\ wpa'.disk = wpa.disk
      /\ wpa'.selected = wpa.selected
  BY <1>1 DEF WpaStates
<1>4. wpa' \in WpaStates
  BY <1>1, <1>2 DEF WpaStates, Conf
<1> QED BY <1>1, <1>3, <1>4, WifiTypes

LEMMA CommandEffect ==
    ASSUME WifiTypeOK, Callers, NEW c \in WifiCallers,
           wcall[c].step \in Assembly \cup {"command", "remove", "cleanup", "save"},
           wcall[c].step # "save" => Possible(c),
           wpa' = CarriedOut(c)
    PROVE  Effect(c) /\ Exact(c)
<1> DEFINE r == wcall[c]
           i == r.id
<1>1. /\ wpa \in WpaStates /\ wpa.conf \in [NetIds -> Entry \cup {NoNet}]
      /\ r \in CallRecords /\ NoNet \notin Entry /\ Caller(r)
      /\ wpa.disk \in [NetIds -> Entry \cup {NoNet}] /\ NoNet \notin NetIds
  BY WifiTypes DEF Callers
<1>2. r.step \in Holding => i \in NetIds /\ i \in Used /\ wpa.conf[i] \in Entry
  BY <1>1 DEF Caller, Possible, Used, Holding, Making, Assembly, CallRecords
<1>3. CASE r.step = "command"
  <2>1. wpa' = wpa \/ wpa' = [wpa EXCEPT !.selected = NoNet]
    BY <1>3 DEF CarriedOut
  <2>2. wpa' \in WpaStates /\ wpa'.conf = wpa.conf /\ wpa'.disk = wpa.disk
    BY <1>1, <2>1 DEF WpaStates
  <2> QED BY <1>3, <2>2 DEF Effect, EntryEffect, Exact
<1>4. ASSUME NEW e \in Entry, r.step \in Holding,
             wpa' = [wpa EXCEPT !.conf = [@ EXCEPT ![i] = e]],
             e.ssid = wpa.conf[i].ssid \/ (r.step = "ssid" /\ e.ssid = r.ssid),
             e.key = wpa.conf[i].key \/ (r.step = "key" /\ e.key = r.key)
      PROVE  Effect(c) /\ wpa'.conf[i] = e
  BY <1>1, <1>2, <1>4, FieldSet DEF Effect, EntryEffect
<1>5. CASE r.step = "ssid"
  <2> DEFINE e == [wpa.conf[i] EXCEPT !.ssid = r.ssid]
  <2>1. wpa' = [wpa EXCEPT !.conf = [@ EXCEPT ![i] = e]]
    BY <1>5 DEF CarriedOut
  <2>2. wpa.conf[i] \in Entry /\ r.step \in Holding
    BY <1>2, <1>5 DEF Holding, Assembly
  <2>3. /\ e \in Entry /\ e.ssid = r.ssid /\ e.key = wpa.conf[i].key
    BY <1>1, <2>2 DEF Entry, CallRecords
  <2> HIDE DEF e
  <2> QED BY <1>4, <1>5, <2>1, <2>2, <2>3 DEF Exact
<1>6. CASE r.step = "key"
  <2> DEFINE e == [wpa.conf[i] EXCEPT !.key = r.key]
  <2>1. wpa' = [wpa EXCEPT !.conf = [@ EXCEPT ![i] = e]]
    BY <1>6 DEF CarriedOut
  <2>2. wpa.conf[i] \in Entry /\ r.step \in Holding
    BY <1>2, <1>6 DEF Holding, Assembly
  <2>3. /\ e \in Entry /\ e.key = r.key /\ e.ssid = wpa.conf[i].ssid
    BY <1>1, <2>2 DEF Entry, CallRecords
  <2> HIDE DEF e
  <2> QED BY <1>4, <1>6, <2>1, <2>2, <2>3 DEF Exact
<1>7. CASE r.step = "enable"
  <2> DEFINE e == [wpa.conf[i] EXCEPT !.enabled = TRUE]
  <2>1. wpa' = [wpa EXCEPT !.conf = [@ EXCEPT ![i] = e]]
    BY <1>7 DEF CarriedOut
  <2>2. wpa.conf[i] \in Entry /\ r.step \in Holding
    BY <1>2, <1>7 DEF Holding, Assembly
  <2>3. /\ e \in Entry /\ e.key = wpa.conf[i].key /\ e.ssid = wpa.conf[i].ssid
    BY <1>1, <2>2 DEF Entry
  <2> HIDE DEF e
  <2> QED BY <1>4, <1>7, <2>1, <2>2, <2>3 DEF Exact
<1>8. CASE r.step = "select"
  <2> DEFINE f == [j \in NetIds |->
                      IF j \in Used THEN [wpa.conf[j] EXCEPT !.enabled = (j = i)]
                      ELSE NoNet]
  <2>1. wpa' = [wpa EXCEPT !.selected = i, !.conf = f]
    BY <1>8 DEF CarriedOut
  <2>2. i \in NetIds /\ i \in Used
    BY <1>2, <1>8 DEF Holding, Assembly
  <2>3. ASSUME NEW j \in NetIds, j \in Used
        PROVE  /\ f[j] \in Entry /\ f[j] # NoNet
               /\ f[j].ssid = wpa.conf[j].ssid /\ f[j].key = wpa.conf[j].key
               /\ f[j].enabled = (j = i)
    <3>1. wpa.conf[j] \in Entry
      BY <1>1, <2>3 DEF Used
    <3>2. f[j] = [wpa.conf[j] EXCEPT !.enabled = (j = i)]
      BY <2>3
    <3>3. (j = i) \in BOOLEAN
      OBVIOUS
    <3>4. f[j] \in Entry
      BY <3>1, <3>2, <3>3 DEF Entry
    <3> QED BY <1>1, <3>1, <3>2, <3>4 DEF Entry
  <2>4. \A j \in NetIds : j \notin Used => f[j] = NoNet
    OBVIOUS
  <2>5. f \in Conf
    BY <2>3, <2>4 DEF Conf
  <2> HIDE DEF f
  <2>6. /\ wpa' \in WpaStates /\ wpa'.conf = f /\ wpa'.disk = wpa.disk
        /\ wpa'.selected = i
    BY <1>1, <2>1, <2>2, <2>5 DEF WpaStates
  <2>7. Effect(c)
    BY <2>3, <2>4, <2>6 DEF Effect, EntryEffect, Used
  <2>8. f[i].enabled
    BY <2>2, <2>3
  <2> QED BY <1>8, <2>6, <2>7, <2>8 DEF Exact
<1>9. CASE r.step \in {"remove", "cleanup"}
  <2> DEFINE sel == IF wpa.selected = i THEN NoNet ELSE wpa.selected
             f == [wpa.conf EXCEPT ![i] = NoNet]
  <2>1. wpa' = [wpa EXCEPT !.conf = f, !.selected = sel]
    BY <1>1, <1>9 DEF CarriedOut, WpaStates
  <2>2. i \in NetIds
    BY <1>2, <1>9 DEF Holding
  <2>3. /\ f \in Conf /\ f[i] = NoNet /\ sel \in NetIds \cup {NoNet}
        /\ \A j \in NetIds : j # i => f[j] = wpa.conf[j]
    BY <1>1, <2>2 DEF Conf, WpaStates
  <2> HIDE DEF f, sel
  <2>4. /\ wpa' \in WpaStates /\ wpa'.conf = f /\ wpa'.disk = wpa.disk
    BY <1>1, <2>1, <2>3 DEF WpaStates
  <2> QED BY <1>9, <2>3, <2>4 DEF Effect, EntryEffect, Exact
<1>10. CASE r.step = "save"
  <2> DEFINE f == [j \in NetIds |->
                      IF j \in Used /\ wpa.conf[j].key # NoNet
                      THEN wpa.conf[j] ELSE NoNet]
  <2>1. wpa' = [wpa EXCEPT !.disk = f]
    BY <1>10 DEF CarriedOut
  <2>2. /\ f \in Conf
        /\ \A j \in NetIds :
              f[j] = NoNet \/ (f[j] = wpa.conf[j] /\ wpa.conf[j] # NoNet
                               /\ wpa.conf[j].key # NoNet)
    BY <1>1 DEF Conf, Used
  <2> HIDE DEF f
  <2>3. wpa' \in WpaStates /\ wpa'.conf = wpa.conf /\ wpa'.disk = f
    BY <1>1, <2>1, <2>2 DEF WpaStates
  <2> QED BY <1>10, <2>2, <2>3 DEF Effect, EntryEffect, Exact
<1> QED BY <1>3, <1>5, <1>6, <1>7, <1>8, <1>9, <1>10 DEF Assembly

(* What a step of call c does to the bookkeeping around it. *)
CallMoves(c) ==
    /\ wcall' \in [WifiCallers -> CallRecords] /\ Caller(wcall'[c])
    /\ \A d \in WifiCallers \ {c} : wcall'[d] = wcall[d]
    /\ maker' \in [NetIds -> WifiCallers \cup {NoNet}]
    /\ strays' \subseteq NetIds /\ mixed' = mixed /\ reloads' = reloads

(* It holds what it held before or has just found. *)
HoldMoves(c) ==
    wcall'[c].step \in Holding =>
       \/ /\ wcall[c].step \in Holding
          /\ wcall'[c].id = wcall[c].id /\ wcall'[c].ssid = wcall[c].ssid
          /\ wcall'[c].known = wcall[c].known
       \/ /\ wcall'[c].known /\ wpa' = wpa
          /\ wcall'[c].ssid \in {NoNet, wpa.conf[wcall'[c].id].ssid}

(* It gives up only entries of its own, or ones that are gone. *)
MakerMoves(c, i) ==
    /\ maker'[i] # maker[i] =>
          maker'[i] = NoNet /\ (maker[i] = c \/ wpa'.conf[i] = NoNet)
    /\ maker'[i] = c =>
          /\ wcall'[c].id = i /\ ~wcall'[c].known /\ wcall'[c].step \in Making
    /\ (maker[i] = c /\ maker'[i] # c /\ wpa'.conf[i] # NoNet) =>
          /\ i \in strays' \/ wcall[c].step = "select"
          /\ wcall'[c].step \notin Holding
    /\ (i \in strays /\ i \notin strays') => wpa'.conf[i] = NoNet
    /\ (maker'[i] = c /\ wpa'.conf[i] # NoNet /\ i \notin mixed) =>
          MadeSoFar(wpa'.conf[i], wcall'[c])

LEMMA CallKeepsInv ==
    ASSUME WifiInv, NEW c \in WifiCallers, Effect(c), CallMoves(c),
           HoldMoves(c), \A i \in NetIds : MakerMoves(c, i)
    PROVE  WifiInv'
<1> USE DEF CallMoves
<1>1. /\ WifiTypeOK /\ Callers /\ MakerAtWork /\ HoldersKnown /\ EntriesInOrder
      /\ DiskComplete /\ PartialCreationRemoved /\ reloads \in Nat
  BY DEF WifiInv
<1>2. /\ Caller(wcall[c]) /\ NoNet \notin WifiCallers /\ mixed \subseteq NetIds
      /\ maker \in [NetIds -> WifiCallers \cup {NoNet}]
  BY <1>1, WifiTypes DEF Callers
<1>3. WifiTypeOK'
  BY <1>2 DEF WifiTypeOK, Effect, WpaStates, CallRecords
<1>4. Callers'
  BY <1>1 DEF Callers
<1>5. MakerAtWork'
  <2> SUFFICES ASSUME NEW i \in NetIds, maker'[i] # NoNet
               PROVE  /\ wcall'[maker'[i]].id = i /\ ~wcall'[maker'[i]].known
                      /\ wcall'[maker'[i]].step \in Making
    BY DEF MakerAtWork
  <2>1. maker'[i] = maker[i] /\ maker'[i] \in WifiCallers
    BY DEF MakerMoves
  <2>2. CASE maker'[i] = c
    BY <2>2 DEF MakerMoves
  <2>3. CASE maker'[i] # c
    BY <1>1, <2>1, <2>3 DEF MakerAtWork
  <2> QED BY <2>2, <2>3
<1>6. ASSUME NEW i \in NetIds, i \notin mixed, wpa'.conf[i] # NoNet
      PROVE  /\ i \in Used \ mixed
             /\ (wcall[c].id = i /\ wcall[c].step \in {"ssid", "key"}) =>
                   /\ ~wcall[c].known /\ maker[i] = c
                   /\ MadeSoFar(wpa.conf[i], wcall[c])
                   /\ wcall[c].ssid # NoNet /\ wcall[c].key # NoNet
             /\ \/ wpa'.conf[i].ssid = wpa.conf[i].ssid
                \/ /\ i = wcall[c].id /\ wcall[c].step = "ssid"
                   /\ wpa'.conf[i].ssid = wcall[c].ssid
             /\ \/ wpa'.conf[i].key = wpa.conf[i].key
                \/ /\ i = wcall[c].id /\ wcall[c].step = "key"
                   /\ wpa'.conf[i].key = wcall[c].key
  <2>1. EntryEffect(c, i)
    BY DEF Effect
  <2>2. i \in Used \ mixed
    BY <1>6, <2>1 DEF Used, EntryEffect
  <2>3. ASSUME wcall[c].id = i, wcall[c].step \in {"ssid", "key"}
        PROVE  /\ ~wcall[c].known /\ maker[i] = c
               /\ MadeSoFar(wpa.conf[i], wcall[c])
               /\ wcall[c].ssid # NoNet /\ wcall[c].key # NoNet
    <3>1. /\ ~wcall[c].known /\ wcall[c].ssid # NoNet /\ wcall[c].key # NoNet
      BY <1>2, <2>3 DEF Caller, Making, Assembly
    <3>2. maker[i] = c
      BY <1>1, <2>2, <2>3, <3>1 DEF HoldersKnown, Holding, Assembly
    <3> QED BY <1>1, <1>2, <2>2, <3>1, <3>2 DEF EntriesInOrder
  <2> QED BY <1>6, <2>1, <2>2, <2>3 DEF EntryEffect
<1>7. HoldersKnown'
  <2> SUFFICES ASSUME NEW i \in NetIds, i \notin mixed, wpa'.conf[i] # NoNet,
                      NEW d \in WifiCallers, wcall'[d].id = i,
                      wcall'[d].step \in Holding
               PROVE  IF wcall'[d].known
                      THEN wcall'[d].ssid \in {NoNet, wpa'.conf[i].ssid}
                      ELSE maker'[i] = d
    BY DEF HoldersKnown, Used
  <2>1. ASSUME wcall[d].id = i, wcall[d].step \in Holding,
               wcall'[d].known = wcall[d].known, wcall'[d].ssid = wcall[d].ssid
        PROVE  IF wcall'[d].known
               THEN wcall'[d].ssid \in {NoNet, wpa'.conf[i].ssid}
               ELSE maker'[i] = d
    <3>1. IF wcall[d].known THEN wcall[d].ssid \in {NoNet, wpa.conf[i].ssid}
          ELSE maker[i] = d
      BY <1>1, <1>6, <2>1 DEF HoldersKnown
    <3>2. CASE wcall[d].known
      BY <1>6, <2>1, <3>1, <3>2 DEF MadeSoFar
    <3>3. CASE ~wcall[d].known
      <4>1. maker[i] = d
        BY <3>1, <3>3
      <4>2. MakerMoves(c, i)
        OBVIOUS
      <4>3. CASE d = c
        BY <4>1, <4>2, <4>3 DEF MakerMoves
      <4>4. CASE d # c
        BY <2>1, <3>3, <4>1, <4>2, <4>4 DEF MakerMoves
      <4> QED BY <2>1, <3>3, <4>3, <4>4
    <3> QED BY <3>2, <3>3
  <2>2. CASE d # c
    BY <2>1, <2>2
  <2>3. CASE d = c
    BY <2>1, <2>3 DEF HoldMoves
  <2> QED BY <2>2, <2>3
<1>8. EntriesInOrder'
  <2> SUFFICES ASSUME NEW i \in NetIds, i \notin mixed, wpa'.conf[i] # NoNet
               PROVE  /\ wpa'.conf[i].key # NoNet => wpa'.conf[i].ssid # NoNet
                      /\ maker'[i] # NoNet =>
                            MadeSoFar(wpa'.conf[i], wcall'[maker'[i]])
    BY DEF EntriesInOrder, Used
  <2>1. /\ wpa.conf[i].key # NoNet => wpa.conf[i].ssid # NoNet
        /\ maker[i] # NoNet => MadeSoFar(wpa.conf[i], wcall[maker[i]])
    BY <1>1, <1>6 DEF EntriesInOrder
  <2>2. wpa'.conf[i].key # NoNet => wpa'.conf[i].ssid # NoNet
    BY <1>6, <2>1 DEF MadeSoFar
  <2>3. ASSUME maker'[i] # NoNet
        PROVE  MadeSoFar(wpa'.conf[i], wcall'[maker'[i]])
    <3>1. MakerMoves(c, i)
      OBVIOUS
    <3>2. CASE maker'[i] = c
      BY <3>1, <3>2 DEF MakerMoves
    <3>3. CASE maker'[i] # c
      <4>1. maker[i] = maker'[i] /\ maker[i] \in WifiCallers \ {c}
        BY <1>2, <2>3, <3>1, <3>3 DEF MakerMoves
      <4>2. /\ wpa'.conf[i].ssid = wpa.conf[i].ssid
            /\ wpa'.conf[i].key = wpa.conf[i].key
        BY <1>6, <4>1
      <4> QED BY <2>1, <4>1, <4>2, <1>2 DEF MadeSoFar
    <3> QED BY <3>2, <3>3
  <2> QED BY <2>2, <2>3
<1>9. DiskComplete'
  <2> SUFFICES ASSUME NEW i \in NetIds, i \notin mixed, wpa'.disk[i] # NoNet
               PROVE  wpa'.disk[i].ssid # NoNet /\ wpa'.disk[i].key # NoNet
    BY DEF DiskComplete
  <2>1. EntryEffect(c, i)
    BY DEF Effect
  <2>2. CASE wpa'.disk[i] = wpa.disk[i]
    BY <1>1, <2>2 DEF DiskComplete
  <2>3. CASE /\ wpa'.disk[i] = wpa.conf[i] /\ wpa.conf[i] # NoNet
             /\ wpa.conf[i].key # NoNet
    BY <1>1, <2>3 DEF EntriesInOrder, Used
  <2> QED BY <2>1, <2>2, <2>3 DEF EntryEffect
<1>10. PartialCreationRemoved'
  <2> SUFFICES ASSUME NEW i \in NetIds, i \notin mixed, wpa'.conf[i] # NoNet,
                      i \notin strays'
               PROVE  IF maker'[i] = NoNet
                      THEN wpa'.conf[i].ssid # NoNet /\ wpa'.conf[i].key # NoNet
                      ELSE wcall'[maker'[i]].id = i
    BY DEF PartialCreationRemoved, Used
  <2>1. MakerMoves(c, i)
    OBVIOUS
  <2>2. CASE maker'[i] # NoNet
    BY <1>5, <2>2 DEF MakerAtWork
  <2>3. CASE maker'[i] = NoNet /\ maker[i] = NoNet
    <3>1. i \in Used \ (strays \cup mixed)
      BY <1>6, <2>1 DEF MakerMoves
    <3>2. wpa.conf[i].ssid # NoNet /\ wpa.conf[i].key # NoNet
      BY <1>1, <2>3, <3>1 DEF PartialCreationRemoved
    <3> QED BY <1>6, <2>3, <3>2
  <2>4. CASE maker'[i] = NoNet /\ maker[i] # NoNet
    <3>1. maker[i] = c /\ wcall[c].step = "select"
      BY <1>2, <2>1, <2>4 DEF MakerMoves
    <3>2. ~wcall[c].known
      BY <1>1, <2>4, <3>1 DEF MakerAtWork
    <3>3. wcall[c].ssid # NoNet /\ wcall[c].key # NoNet
      BY <1>2, <3>1, <3>2 DEF Caller, Making, Assembly
    <3>4. MadeSoFar(wpa.conf[i], wcall[c])
      BY <1>1, <1>6, <2>4, <3>1 DEF EntriesInOrder
    <3> QED BY <1>6, <2>4, <3>1, <3>3, <3>4 DEF MadeSoFar
  <2> QED BY <2>2, <2>3, <2>4
<1> QED BY <1>1, <1>3, <1>4, <1>5, <1>7, <1>8, <1>9, <1>10 DEF WifiInv

(* What Return and Goto do to the record of the call. *)
LEMMA CallRecordMoves ==
    ASSUME WifiTypeOK, NEW c \in WifiCallers
    PROVE  /\ Return(c) =>
                /\ wcall' \in [WifiCallers -> CallRecords]
                /\ \A d \in WifiCallers \ {c} : wcall'[d] = wcall[d]
                /\ wcall'[c] = NoCall /\ Caller(wcall'[c])
                /\ wcall'[c].step \notin Holding
           /\ \A s \in Steps : Goto(c, s) =>
                /\ wcall' \in [WifiCallers -> CallRecords]
                /\ \A d \in WifiCallers \ {c} : wcall'[d] = wcall[d]
                /\ wcall'[c] = [wcall[c] EXCEPT !.step = s]
                /\ wcall'[c].step = s /\ wcall'[c].op = wcall[c].op
                /\ wcall'[c].ssid = wcall[c].ssid /\ wcall'[c].key = wcall[c].key
                /\ wcall'[c].id = wcall[c].id /\ wcall'[c].known = wcall[c].known
<1>1. wcall \in [WifiCallers -> CallRecords] /\ wcall[c] \in CallRecords
  BY WifiTypes
<1>2. ASSUME Return(c)
      PROVE  /\ wcall' \in [WifiCallers -> CallRecords]
             /\ \A d \in WifiCallers \ {c} : wcall'[d] = wcall[d]
             /\ wcall'[c] = NoCall /\ Caller(wcall'[c])
             /\ wcall'[c].step \notin Holding
  <2>1. NoCall \in CallRecords
    BY DEF NoCall, CallRecords, Steps, Assembly
  <2>2. wcall'[c] = NoCall
    BY <1>1, <1>2 DEF Return
  <2>3. Caller(wcall'[c]) /\ wcall'[c].step \notin Holding
    BY <2>2 DEF NoCall, Caller, Holding, Making, Assembly
  <2> QED BY <1>1, <1>2, <2>1, <2>2, <2>3 DEF Return
<1>3. ASSUME NEW s \in Steps, Goto(c, s)
      PROVE  /\ wcall' \in [WifiCallers -> CallRecords]
             /\ \A d \in WifiCallers \ {c} : wcall'[d] = wcall[d]
             /\ wcall'[c] = [wcall[c] EXCEPT !.step = s]
             /\ wcall'[c].step = s /\ wcall'[c].op = wcall[c].op
             /\ wcall'[c].ssid = wcall[c].ssid /\ wcall'[c].key = wcall[c].key
             /\ wcall'[c].id = wcall[c].id /\ wcall'[c].known = wcall[c].known
  <2> DEFINE r == [wcall[c] EXCEPT !.step = s]
  <2>1. wcall' = [wcall EXCEPT ![c] = r]
    BY <1>3 DEF Goto
  <2>2. /\ r \in CallRecords /\ r.step = s /\ r.op = wcall[c].op
        /\ r.ssid = wcall[c].ssid /\ r.key = wcall[c].key
        /\ r.id = wcall[c].id /\ r.known = wcall[c].known
    BY <1>1 DEF CallRecords
  <2> HIDE DEF r
  <2>3. wcall'[c] = r
    BY <1>1, <2>1
  <2>4. wcall' \in [WifiCallers -> CallRecords]
    BY <1>1, <2>1, <2>2
  <2>5. \A d \in WifiCallers \ {c} : wcall'[d] = wcall[d]
    BY <1>1, <2>1
  <2> QED BY <2>2, <2>3, <2>4, <2>5 DEF r
<1> QED BY <1>2, <1>3

(* A call that makes nothing moves on, and the bookkeeping stays. *)
LEMMA OtherCallMoves ==
    ASSUME WifiInv, NEW c \in WifiCallers, Effect(c), CallMoves(c),
           HoldMoves(c), wcall[c].step \notin Making,
           UNCHANGED <<maker, strays>>
    PROVE  WifiInv'
<1>1. ASSUME NEW i \in NetIds
      PROVE  MakerMoves(c, i)
  <2>1. maker[i] # c
    BY WifiAssumption DEF WifiInv, MakerAtWork
  <2> QED BY <2>1 DEF MakerMoves
<1> QED BY <1>1, CallKeepsInv

(* What a call that returns leaves alone. *)
LEMMA ReturnsQuietly ==
    ASSUME WifiInv, NEW c \in WifiCallers, Effect(c), Return(c),
           wcall[c].step \notin Making,
           UNCHANGED <<maker, strays, mixed, reloads>>
    PROVE  WifiInv'
<1>1. WifiTypeOK
  BY DEF WifiInv
<1>2. CallMoves(c) /\ HoldMoves(c)
  BY <1>1, WifiTypes, CallRecordMoves DEF CallMoves, HoldMoves
<1> QED BY <1>2, OtherCallMoves

(* A call that goes on without holding an id. *)
LEMMA GoesOnQuietly ==
    ASSUME WifiInv, NEW c \in WifiCallers, Effect(c),
           NEW s \in {"finish", "save"}, Goto(c, s),
           wcall[c].step \notin Making,
           UNCHANGED <<maker, strays, mixed, reloads>>
    PROVE  WifiInv'
<1>1. WifiTypeOK
  BY DEF WifiInv
<1>2. /\ wcall' \in [WifiCallers -> CallRecords]
      /\ \A d \in WifiCallers \ {c} : wcall'[d] = wcall[d]
      /\ wcall'[c].step = s
  BY <1>1, CallRecordMoves DEF Steps
<1>3. CallMoves(c) /\ HoldMoves(c)
  BY <1>1, <1>2, WifiTypes
  DEF CallMoves, HoldMoves, Caller, Holding, Making, Assembly
<1> QED BY <1>3, OtherCallMoves

LEMMA WifiCallKeeps ==
    ASSUME WifiInv, NEW c \in WifiCallers, NEW r \in Request, WifiCall(c, r)
    PROVE  WifiInv'
<1> DEFINE n == [NoCall EXCEPT !.op = r.op, !.ssid = r.ssid, !.key = r.key,
                               !.id = r.id,
                               !.step = IF r.op \in {"connect", "forget"}
                                        THEN "list" ELSE "command"]
<1>1. /\ wcall' = [wcall EXCEPT ![c] = n] /\ wcall[c].op = "none"
      /\ UNCHANGED <<wpa, maker, strays, mixed, reloads>>
  BY DEF WifiCall
<1>2. WifiTypeOK /\ Caller(wcall[c]) /\ wcall \in [WifiCallers -> CallRecords]
  BY WifiTypes DEF WifiInv, Callers
<1>3. /\ n \in CallRecords /\ Caller(n) /\ n.step \in {"list", "command"}
  BY WifiAssumption
  DEF Request, NoCall, CallRecords, Caller, Steps, Assembly, Making
<1> HIDE DEF n
<1>4. /\ wcall' \in [WifiCallers -> CallRecords] /\ wcall'[c] = n
      /\ \A d \in WifiCallers \ {c} : wcall'[d] = wcall[d]
  BY <1>1, <1>2, <1>3
<1>5. CallMoves(c) /\ HoldMoves(c)
  BY <1>1, <1>2, <1>3, <1>4, WifiTypes
  DEF CallMoves, HoldMoves, Holding, Assembly
<1>6. wcall[c].step \notin Making
  BY <1>1, <1>2 DEF Caller
<1> QED BY <1>1, <1>2, <1>5, <1>6, NoEffect, OtherCallMoves

(* What LIST_NETWORKS found is a configured entry with the SSID asked for. *)
LEMMA ListNetworksKeeps ==
    ASSUME WifiInv, NEW c \in WifiCallers, ListNetworks(c)
    PROVE  WifiInv'
<1> DEFINE r == wcall[c]
           found == Matches(r)
           Settle(i, step) ==
               wcall' = [wcall EXCEPT ![c].id = i, ![c].step = step,
                                      ![c].known = TRUE]
<1>1. /\ r.step = "list" /\ r.step \notin Making
      /\ UNCHANGED <<wpa, maker, strays, mixed, reloads>>
  BY DEF ListNetworks, Making, Assembly
<1>2. WifiTypeOK /\ Caller(r) /\ wcall \in [WifiCallers -> CallRecords]
      /\ r \in CallRecords
  BY WifiTypes DEF WifiInv, Callers
<1>3. Effect(c)
  BY <1>1, <1>2, NoEffect
<1>4. CASE Return(c)
  BY <1>1, <1>3, <1>4, ReturnsQuietly
<1>5. ASSUME NEW i \in found, NEW s \in {"remove", "enable"}, Settle(i, s),
             s = "remove" => r.op = "forget", s = "enable" => r.op = "connect"
      PROVE  WifiInv'
  <2> DEFINE n == [r EXCEPT !.id = i, !.step = s, !.known = TRUE]
  <2>1. i \in NetIds /\ r.ssid \in {NoNet, wpa.conf[i].ssid}
    BY <1>2, <1>1 DEF Matches, Listed, Used, Caller
  <2>2. wcall' = [wcall EXCEPT ![c] = n]
    BY <1>5, <1>2
  <2>3. /\ n \in CallRecords /\ n.step = s /\ n.id = i /\ n.known
        /\ n.ssid = r.ssid /\ n.op = r.op
    BY <1>2, <2>1 DEF CallRecords, Steps, Assembly
  <2> HIDE DEF n
  <2>4. /\ wcall' \in [WifiCallers -> CallRecords] /\ wcall'[c] = n
        /\ \A d \in WifiCallers \ {c} : wcall'[d] = wcall[d]
    BY <1>2, <2>2, <2>3
  <2>5. Caller(n)
    BY <1>1, <1>2, <1>5, <2>1, <2>3, WifiAssumption
    DEF Caller, Making, Assembly
  <2>6. CallMoves(c) /\ HoldMoves(c)
    BY <1>1, <1>2, <2>1, <2>3, <2>4, <2>5, WifiTypes DEF CallMoves, HoldMoves
  <2> QED BY <1>1, <1>3, <2>6, OtherCallMoves
<1>6. CASE r.op = "connect" /\ r.key # NoNet /\ Goto(c, "add")
  <2>1. /\ wcall' \in [WifiCallers -> CallRecords]
        /\ \A d \in WifiCallers \ {c} : wcall'[d] = wcall[d]
        /\ wcall'[c].step = "add" /\ wcall'[c].op = r.op
        /\ wcall'[c].ssid = r.ssid /\ wcall'[c].key = r.key
        /\ wcall'[c].id = r.id /\ wcall'[c].known = r.known
    BY <1>2, <1>6, CallRecordMoves DEF Steps
  <2>2. Caller(wcall'[c])
    BY <1>1, <1>2, <1>6, <2>1 DEF Caller, Making, Assembly
  <2>3. CallMoves(c) /\ HoldMoves(c)
    BY <1>1, <1>2, <2>1, <2>2, WifiTypes
    DEF CallMoves, HoldMoves, Holding, Assembly
  <2> QED BY <1>1, <1>3, <2>3, OtherCallMoves
<1> HIDE DEF Settle
<1>7. \/ Return(c)
      \/ \E i \in found : Settle(i, "remove") /\ r.op = "forget"
      \/ \E i \in found : Settle(i, "enable") /\ r.op = "connect"
      \/ r.op = "connect" /\ r.key # NoNet /\ Goto(c, "add")
  BY DEF ListNetworks, Settle
<1> QED BY <1>4, <1>5, <1>6, <1>7

(* The calls that are not assembling an entry. *)
LEMMA PlainCallKeeps ==
    ASSUME WifiInv, NEW c \in WifiCallers,
           AddRefused(c) \/ FinishState(c) \/ Command(c) \/ Save(c)
    PROVE  WifiInv'
<1>1. WifiTypeOK /\ Callers
  BY DEF WifiInv
<1>2. CASE AddRefused(c) \/ FinishState(c)
  <2>1. wcall[c].step \notin Making
    BY <1>2 DEF AddRefused, FinishState, Making, Assembly
  <2>2. Return(c) /\ UNCHANGED <<wpa, maker, strays, mixed, reloads>>
    BY <1>2 DEF AddRefused, FinishState, wifiBounds
  <2> QED BY <1>1, <2>1, <2>2, NoEffect, ReturnsQuietly
<1>3. CASE Command(c)
  <2>1. /\ wcall[c].step = "command" /\ wcall[c].step \notin Making
        /\ UNCHANGED <<maker, strays, mixed, reloads>>
    BY <1>3 DEF Command, Making, Assembly
  <2>2. Effect(c)
    BY <1>1, <1>3, <2>1, NoEffect, CommandEffect
    DEF Command, Answered, Refused, Unanswered
  <2>3. Goto(c, "finish") \/ Return(c)
    BY <1>3 DEF Command
  <2> QED BY <2>1, <2>2, <2>3, ReturnsQuietly, GoesOnQuietly
<1>4. CASE Save(c)
  <2>1. /\ wcall[c].step = "save" /\ wcall[c].step \notin Making
        /\ UNCHANGED <<maker, strays, mixed, reloads>>
    BY <1>4 DEF Save, Making, Assembly
  <2>2. wpa' = wpa \/ wpa' = CarriedOut(c)
    BY <1>4 DEF Save
  <2>3. Effect(c)
    BY <1>1, <2>1, <2>2, NoEffect, CommandEffect
  <2>4. Goto(c, "finish") \/ Return(c)
    BY <1>4 DEF Save
  <2> QED BY <2>1, <2>3, <2>4, ReturnsQuietly, GoesOnQuietly
<1> QED BY <1>2, <1>3, <1>4

(* Of an entry that is gone nobody is the maker any more. *)
LEMMA RemoveKeeps ==
    ASSUME WifiInv, NEW c \in WifiCallers, Remove(c)
    PROVE  WifiInv'
<1> DEFINE i == wcall[c].id
<1>1. /\ WifiTypeOK /\ Callers /\ MakerAtWork
      /\ wcall[c].step = "remove" /\ wcall[c].step \notin Making
      /\ UNCHANGED <<mixed, reloads>>
  BY DEF WifiInv, Remove, Making, Assembly
<1>2. /\ maker \in [NetIds -> WifiCallers \cup {NoNet}] /\ strays \subseteq NetIds
      /\ NoNet \notin WifiCallers
  BY <1>1, WifiTypes
<1>3. Effect(c)
  BY <1>1, NoEffect, CommandEffect DEF Remove, Answered, Refused, Unanswered
<1>4. Goto(c, "save") \/ Return(c)
  BY DEF Remove
<1>5. /\ maker' = (IF wpa'.conf[i] = NoNet THEN [maker EXCEPT ![i] = NoNet]
                                           ELSE maker)
      /\ strays' = (IF wpa'.conf[i] = NoNet THEN strays \ {i} ELSE strays)
  BY DEF Remove
<1>6. maker' \in [NetIds -> WifiCallers \cup {NoNet}] /\ strays' \subseteq NetIds
  BY <1>2, <1>5
<1>7. /\ wcall' \in [WifiCallers -> CallRecords] /\ Caller(wcall'[c])
      /\ \A d \in WifiCallers \ {c} : wcall'[d] = wcall[d]
      /\ wcall'[c].step \notin Holding
  <2>1. CASE Return(c)
    BY <1>1, <2>1, CallRecordMoves
  <2>2. CASE Goto(c, "save")
    <3>1. /\ wcall' \in [WifiCallers -> CallRecords]
          /\ \A d \in WifiCallers \ {c} : wcall'[d] = wcall[d]
          /\ wcall'[c].step = "save"
      BY <1>1, <2>2, CallRecordMoves DEF Steps
    <3> QED BY <3>1 DEF Caller, Holding, Making, Assembly
  <2> QED BY <1>4, <2>1, <2>2
<1>8. CallMoves(c) /\ HoldMoves(c)
  BY <1>1, <1>6, <1>7 DEF CallMoves, HoldMoves
<1>9. ASSUME NEW j \in NetIds
      PROVE  MakerMoves(c, j)
  <2>1. maker[j] # c
    BY <1>1, <1>2 DEF MakerAtWork
  <2>2. maker'[j] = maker[j] \/ (maker'[j] = NoNet /\ wpa'.conf[j] = NoNet)
    BY <1>2, <1>5
  <2>3. (j \in strays /\ j \notin strays') => wpa'.conf[j] = NoNet
    BY <1>5
  <2> QED BY <1>2, <2>1, <2>2, <2>3 DEF MakerMoves
<1> QED BY <1>3, <1>8, <1>9, CallKeepsInv

LEMMA UnmadeMoves ==
    ASSUME WifiTypeOK, NEW c \in WifiCallers, maker' = Unmade(c)
    PROVE  /\ maker' \in [NetIds -> WifiCallers \cup {NoNet}]
           /\ \A i \in NetIds : /\ maker[i] = c => maker'[i] = NoNet
                                /\ maker[i] # c => maker'[i] = maker[i]
                                /\ maker'[i] # c
BY WifiTypes DEF Unmade

(* One more command of connect is answered. *)
LEMMA StepOkKeeps ==
    ASSUME WifiInv, NEW c \in WifiCallers, StepOk(c)
    PROVE  WifiInv'
<1> DEFINE r == wcall[c]
           s == NextStep(r)
<1>1. /\ WifiTypeOK /\ Callers /\ MakerAtWork /\ EntriesInOrder
      /\ r.step \in Assembly /\ Caller(r)
      /\ Goto(c, s) /\ UNCHANGED <<strays, mixed, reloads>>
  BY DEF WifiInv, StepOk, Callers
<1>2. /\ maker \in [NetIds -> WifiCallers \cup {NoNet}] /\ strays \subseteq NetIds
      /\ NoNet \notin WifiCallers
  BY <1>1, WifiTypes
<1>3. Effect(c) /\ Exact(c)
  BY <1>1, CommandEffect DEF StepOk, Answered
<1>4. /\ r.step = "ssid" => s = "key"
      /\ r.step = "key" => s = "enable"
      /\ r.step = "enable" => s = "select"
      /\ r.step = "select" => s \in {"finish", "save"}
      /\ s \in Steps
  BY <1>1 DEF NextStep, Assembly, Steps
<1> HIDE DEF s
<1>5. /\ wcall' \in [WifiCallers -> CallRecords]
      /\ \A d \in WifiCallers \ {c} : wcall'[d] = wcall[d]
      /\ wcall'[c].step = s /\ wcall'[c].op = r.op
      /\ wcall'[c].ssid = r.ssid /\ wcall'[c].key = r.key
      /\ wcall'[c].id = r.id /\ wcall'[c].known = r.known
  BY <1>1, <1>4, CallRecordMoves
<1>6. Caller(wcall'[c])
  BY <1>1, <1>4, <1>5 DEF Caller, Making, Assembly
<1>7. maker' = (IF r.step = "select" THEN Unmade(c) ELSE maker)
  BY DEF StepOk
<1>8. maker' \in [NetIds -> WifiCallers \cup {NoNet}]
  BY <1>1, <1>2, <1>7, UnmadeMoves
<1>9. CallMoves(c) /\ HoldMoves(c)
  BY <1>1, <1>2, <1>5, <1>6, <1>8 DEF CallMoves, HoldMoves, Holding
<1>10. ASSUME NEW j \in NetIds
       PROVE  MakerMoves(c, j)
  <2>1. CASE r.step = "select"
    <3>1. /\ maker[j] = c => maker'[j] = NoNet
          /\ maker[j] # c => maker'[j] = maker[j]
          /\ maker'[j] # c
      BY <1>1, <1>7, <2>1, UnmadeMoves
    <3>2. wcall'[c].step \notin Holding
      BY <1>4, <1>5, <2>1 DEF Holding, Assembly
    <3> QED BY <1>1, <2>1, <3>1, <3>2 DEF MakerMoves
  <2>2. CASE r.step # "select"
    <3>1. maker' = maker /\ s \in {"key", "enable", "select"}
      BY <1>1, <1>4, <1>7, <2>2 DEF Assembly
    <3>2. ASSUME maker[j] = c
          PROVE  wcall'[c].id = j /\ ~wcall'[c].known /\ wcall'[c].step \in Making
      BY <1>1, <1>2, <1>5, <3>1, <3>2 DEF MakerAtWork, Making, Assembly
    <3>3. ASSUME maker[j] = c, wpa'.conf[j] # NoNet, j \notin mixed
          PROVE  MadeSoFar(wpa'.conf[j], wcall'[c])
      <4>1. EntryEffect(c, j) /\ r.id = j
        BY <1>1, <1>2, <1>3, <3>3 DEF Effect, MakerAtWork
      <4>2. j \in Used \ mixed
        BY <3>3, <4>1 DEF EntryEffect, Used
      <4>3. MadeSoFar(wpa.conf[j], r)
        BY <1>1, <1>2, <3>3, <4>2 DEF EntriesInOrder
      <4>4. CASE r.step = "ssid"
        BY <1>3, <1>4, <1>5, <4>1, <4>4 DEF Exact, MadeSoFar
      <4>5. CASE r.step = "key"
        BY <1>3, <1>4, <1>5, <3>3, <4>1, <4>3, <4>5
        DEF Exact, MadeSoFar, EntryEffect
      <4>6. CASE r.step = "enable"
        BY <1>4, <1>5, <3>3, <4>1, <4>3, <4>6 DEF MadeSoFar, EntryEffect
      <4> QED BY <1>1, <2>2, <4>4, <4>5, <4>6 DEF Assembly
    <3> QED BY <1>1, <3>1, <3>2, <3>3 DEF MakerMoves
  <2> QED BY <2>1, <2>2
<1> QED BY <1>3, <1>9, <1>10, CallKeepsInv

(* A command of connect fails: a new entry is cleaned up, a known one kept. *)
LEMMA StepFailedKeeps ==
    ASSUME WifiInv, NEW c \in WifiCallers, StepFailed(c)
    PROVE  WifiInv'
<1> DEFINE r == wcall[c]
<1>1. /\ WifiTypeOK /\ Callers /\ MakerAtWork /\ r.step \in Assembly /\ Caller(r)
      /\ UNCHANGED <<maker, strays, mixed, reloads>>
  BY DEF WifiInv, StepFailed, Callers
<1>2. /\ maker \in [NetIds -> WifiCallers \cup {NoNet}] /\ strays \subseteq NetIds
      /\ NoNet \notin WifiCallers
  BY <1>1, WifiTypes
<1>3. Effect(c)
  BY <1>1, NoEffect, CommandEffect DEF StepFailed, Refused, Unanswered
<1>4. \/ r.known /\ Return(c)
      \/ ~r.known /\ Goto(c, "cleanup")
  BY DEF StepFailed, AfterFailure
<1>5. /\ wcall' \in [WifiCallers -> CallRecords]
      /\ \A d \in WifiCallers \ {c} : wcall'[d] = wcall[d]
  BY <1>1, <1>4, CallRecordMoves DEF Steps
<1>6. ASSUME ~r.known
      PROVE  /\ wcall'[c].step = "cleanup" /\ wcall'[c].op = r.op
             /\ wcall'[c].ssid = r.ssid /\ wcall'[c].key = r.key
             /\ wcall'[c].id = r.id /\ wcall'[c].known = r.known
  BY <1>1, <1>4, <1>6, CallRecordMoves DEF Steps
<1>7. ASSUME r.known
      PROVE  Caller(wcall'[c]) /\ wcall'[c].step \notin Holding
  BY <1>1, <1>4, <1>7, CallRecordMoves
<1>8. Caller(wcall'[c])
  BY <1>1, <1>6, <1>7 DEF Caller, Making, Assembly
<1>9. CallMoves(c) /\ HoldMoves(c)
  BY <1>1, <1>2, <1>5, <1>6, <1>7, <1>8 DEF CallMoves, HoldMoves, Holding
<1>10. ASSUME NEW j \in NetIds
       PROVE  MakerMoves(c, j)
  <2>1. ASSUME maker[j] = c
        PROVE  /\ wcall'[c].id = j /\ ~wcall'[c].known
               /\ wcall'[c].step = "cleanup"
    BY <1>1, <1>2, <1>6, <2>1 DEF MakerAtWork
  <2> QED BY <1>1, <2>1 DEF MakerMoves, MadeSoFar, Making
<1> QED BY <1>3, <1>9, <1>10, CallKeepsInv

(* The cleanup removes the entry or leaves a stray. *)
LEMMA CleanupKeeps ==
    ASSUME WifiInv, NEW c \in WifiCallers, Cleanup(c)
    PROVE  WifiInv'
<1> DEFINE i == wcall[c].id
<1>1. /\ WifiTypeOK /\ Callers /\ MakerAtWork
      /\ wcall[c].step = "cleanup" /\ Return(c) /\ maker' = Unmade(c)
      /\ UNCHANGED <<mixed, reloads>>
  BY DEF WifiInv, Cleanup
<1>2. /\ maker \in [NetIds -> WifiCallers \cup {NoNet}] /\ strays \subseteq NetIds
      /\ NoNet \notin WifiCallers
  BY <1>1, WifiTypes
<1>3. Effect(c)
  BY <1>1, NoEffect, CommandEffect DEF Cleanup, Answered, Refused, Unanswered
<1>4. \/ wpa'.conf[i] = NoNet /\ strays' = strays \ {i}
      \/ wpa' = wpa /\ strays' = strays \cup ({i} \cap Used)
  BY <1>1, CommandEffect DEF Cleanup, Answered, Refused, Unanswered, Exact
<1>5. strays' \subseteq NetIds
  BY <1>2, <1>4 DEF Used
<1>6. CallMoves(c) /\ HoldMoves(c)
  BY <1>1, <1>5, CallRecordMoves, UnmadeMoves DEF CallMoves, HoldMoves
<1>7. ASSUME NEW j \in NetIds
      PROVE  MakerMoves(c, j)
  <2>1. /\ maker[j] = c => maker'[j] = NoNet
        /\ maker[j] # c => maker'[j] = maker[j]
        /\ maker'[j] # c
    BY <1>1, UnmadeMoves
  <2>2. (maker[j] = c /\ wpa'.conf[j] # NoNet) => j \in strays'
    BY <1>1, <1>2, <1>4 DEF MakerAtWork, Used
  <2>3. (j \in strays /\ j \notin strays') => wpa'.conf[j] = NoNet
    BY <1>4
  <2>4. wcall'[c].step \notin Holding
    BY <1>1, CallRecordMoves
  <2> QED BY <2>1, <2>2, <2>3, <2>4 DEF MakerMoves
<1> QED BY <1>3, <1>6, <1>7, CallKeepsInv

(* A new entry under an unused id.  Whoever holds that id from before makes   *)
(* it a mixed one; a saved entry under it stays one that may be incomplete.   *)
LEMMA AddNetworkKeeps ==
    ASSUME WifiInv, NEW c \in WifiCallers, AddNetwork(c)
    PROVE  WifiInv'
<1> DEFINE blank == [ssid |-> NoNet, key |-> NoNet, enabled |-> FALSE]
<1>1. /\ WifiTypeOK /\ Callers /\ MakerAtWork /\ HoldersKnown /\ EntriesInOrder
      /\ DiskComplete /\ PartialCreationRemoved /\ reloads \in Nat
      /\ wcall[c].step = "add" /\ Caller(wcall[c]) /\ reloads' = reloads
  BY DEF WifiInv, AddNetwork, Callers
<1>2. /\ wpa \in WpaStates /\ wpa.conf \in [NetIds -> Entry \cup {NoNet}]
      /\ wcall \in [WifiCallers -> CallRecords] /\ wcall[c] \in CallRecords
      /\ maker \in [NetIds -> WifiCallers \cup {NoNet}]
      /\ strays \subseteq NetIds /\ mixed \subseteq NetIds
      /\ NoNet \notin Entry /\ NoNet \notin NetIds /\ NoNet \notin WifiCallers
  BY <1>1, WifiTypes
<1>3. PICK i \in NetIds \ Used :
          /\ wpa' = [wpa EXCEPT !.conf = [@ EXCEPT ![i] = blank]]
          /\ mixed' = IF i \in Held THEN mixed \cup {i}
                      ELSE IF wpa.disk[i] = NoNet THEN mixed \ {i} ELSE mixed
          /\ \/ /\ wcall' = [wcall EXCEPT ![c].id = i, ![c].step = "ssid"]
                /\ maker' = [maker EXCEPT ![i] = c]
                /\ strays' = strays \ {i}
             \/ /\ Return(c)
                /\ maker' = [maker EXCEPT ![i] = NoNet]
                /\ strays' = strays \cup {i}
  BY DEF AddNetwork
<1>4. /\ blank \in Entry /\ blank.ssid = NoNet /\ blank.key = NoNet
  BY DEF Entry
<1> HIDE DEF blank
<1>5. /\ wpa' \in WpaStates /\ wpa'.conf[i] = blank /\ wpa'.disk = wpa.disk
      /\ \A j \in NetIds : j # i => wpa'.conf[j] = wpa.conf[j]
      /\ wpa'.conf[i] # NoNet
  <2>1. [wpa.conf EXCEPT ![i] = blank] \in Conf
    BY <1>2, <1>4 DEF Conf
  <2>2. /\ wpa'.conf = [wpa.conf EXCEPT ![i] = blank] /\ wpa'.disk = wpa.disk
        /\ wpa' \in WpaStates
    BY <1>2, <1>3, <2>1 DEF WpaStates
  <2> QED BY <1>2, <1>4, <2>2
<1>6. /\ wcall' \in [WifiCallers -> CallRecords] /\ Caller(wcall'[c])
      /\ \A d \in WifiCallers \ {c} : wcall'[d] = wcall[d]
      /\ \/ /\ wcall'[c].id = i /\ wcall'[c].step = "ssid" /\ ~wcall'[c].known
            /\ maker' = [maker EXCEPT ![i] = c] /\ strays' = strays \ {i}
         \/ /\ wcall'[c].step \notin Holding
            /\ maker' = [maker EXCEPT ![i] = NoNet]
            /\ strays' = strays \cup {i}
  <2>1. CASE /\ Return(c) /\ maker' = [maker EXCEPT ![i] = NoNet]
             /\ strays' = strays \cup {i}
    BY <1>1, <2>1, CallRecordMoves
  <2>2. CASE /\ wcall' = [wcall EXCEPT ![c].id = i, ![c].step = "ssid"]
             /\ maker' = [maker EXCEPT ![i] = c] /\ strays' = strays \ {i}
    <3> DEFINE n == [wcall[c] EXCEPT !.id = i, !.step = "ssid"]
    <3>1. wcall' = [wcall EXCEPT ![c] = n]
      BY <1>2, <2>2
    <3>2. /\ n \in CallRecords /\ n.id = i /\ n.step = "ssid"
          /\ n.op = wcall[c].op /\ n.ssid = wcall[c].ssid
          /\ n.key = wcall[c].key /\ n.known = wcall[c].known
      BY <1>2 DEF CallRecords, Steps, Assembly
    <3> HIDE DEF n
    <3>3. Caller(n) /\ ~n.known
      BY <1>1, <1>2, <3>2 DEF Caller, Making, Assembly
    <3>4. /\ wcall' \in [WifiCallers -> CallRecords] /\ wcall'[c] = n
          /\ \A d \in WifiCallers \ {c} : wcall'[d] = wcall[d]
      BY <1>2, <3>1, <3>2
    <3> QED BY <2>2, <3>2, <3>3, <3>4
  <2> QED BY <1>3, <2>1, <2>2
<1>7. /\ maker' \in [NetIds -> WifiCallers \cup {NoNet}]
      /\ strays' \subseteq NetIds /\ mixed' \subseteq NetIds
      /\ \A j \in NetIds : j # i =>
            /\ maker'[j] = maker[j] /\ (j \in strays' <=> j \in strays)
            /\ (j \in mixed' <=> j \in mixed)
  BY <1>2, <1>3, <1>6
<1>8. /\ maker'[i] = c => wcall'[c].id = i /\ wcall'[c].step = "ssid"
                          /\ ~wcall'[c].known
      /\ maker'[i] # c => i \in strays' /\ wcall'[c].step \notin Holding
                          /\ maker'[i] = NoNet
  BY <1>2, <1>6
<1>9. \A j \in NetIds : maker[j] # c
  BY <1>1, <1>2 DEF MakerAtWork, Making, Assembly
<1>10. ASSUME i \notin mixed'
       PROVE  /\ \A d \in WifiCallers \ {c} :
                    ~(wcall'[d].id = i /\ wcall'[d].step \in Holding)
              /\ wpa.disk[i] = NoNet \/ i \notin mixed
  BY <1>3, <1>6, <1>10 DEF Held, Holding
<1>11. WifiTypeOK' /\ Callers'
  BY <1>1, <1>5, <1>6, <1>7 DEF WifiTypeOK, WpaStates, CallRecords, Callers
<1>12. MakerAtWork'
  <2> SUFFICES ASSUME NEW j \in NetIds, maker'[j] # NoNet
               PROVE  /\ wcall'[maker'[j]].id = j /\ ~wcall'[maker'[j]].known
                      /\ wcall'[maker'[j]].step \in Making
    BY DEF MakerAtWork
  <2>1. CASE j = i
    BY <1>8, <2>1 DEF Making, Assembly
  <2>2. CASE j # i
    <3>1. maker'[j] = maker[j] /\ maker[j] \in WifiCallers \ {c}
      BY <1>2, <1>7, <1>9, <2>2
    <3> QED BY <1>1, <1>6, <3>1 DEF MakerAtWork
  <2> QED BY <2>1, <2>2
<1>13. HoldersKnown'
  <2> SUFFICES ASSUME NEW j \in NetIds, j \notin mixed', wpa'.conf[j] # NoNet,
                      NEW d \in WifiCallers, wcall'[d].id = j,
                      wcall'[d].step \in Holding
               PROVE  IF wcall'[d].known
                      THEN wcall'[d].ssid \in {NoNet, wpa'.conf[j].ssid}
                      ELSE maker'[j] = d
    BY DEF HoldersKnown, Used
  <2>1. CASE j = i
    BY <1>8, <1>10, <2>1
  <2>2. CASE j # i
    <3>1. d # c
      BY <1>6, <2>2
    <3>2. j \in Used \ mixed /\ maker'[j] = maker[j]
      BY <1>5, <1>7, <2>2 DEF Used
    <3> QED BY <1>1, <1>5, <1>6, <2>2, <3>1, <3>2 DEF HoldersKnown
  <2> QED BY <2>1, <2>2
<1>14. EntriesInOrder'
  <2> SUFFICES ASSUME NEW j \in NetIds, j \notin mixed', wpa'.conf[j] # NoNet
               PROVE  /\ wpa'.conf[j].key # NoNet => wpa'.conf[j].ssid # NoNet
                      /\ maker'[j] # NoNet =>
                            MadeSoFar(wpa'.conf[j], wcall'[maker'[j]])
    BY DEF EntriesInOrder, Used
  <2>1. CASE j = i
    BY <1>4, <1>5, <1>8, <2>1 DEF MadeSoFar
  <2>2. CASE j # i
    <3>1. /\ j \in Used \ mixed /\ maker'[j] = maker[j]
          /\ maker[j] \in (WifiCallers \ {c}) \cup {NoNet}
          /\ wpa'.conf[j] = wpa.conf[j]
      BY <1>2, <1>5, <1>7, <1>9, <2>2 DEF Used
    <3>2. /\ wpa.conf[j].key # NoNet => wpa.conf[j].ssid # NoNet
          /\ maker[j] # NoNet => MadeSoFar(wpa.conf[j], wcall[maker[j]])
      BY <1>1, <3>1 DEF EntriesInOrder
    <3> QED BY <1>6, <3>1, <3>2
  <2> QED BY <2>1, <2>2
<1>15. DiskComplete'
  <2> SUFFICES ASSUME NEW j \in NetIds, j \notin mixed', wpa.disk[j] # NoNet
               PROVE  wpa.disk[j].ssid # NoNet /\ wpa.disk[j].key # NoNet
    BY <1>5 DEF DiskComplete
  <2>1. j \notin mixed
    BY <1>7, <1>10
  <2> QED BY <1>1, <2>1 DEF DiskComplete
<1>16. PartialCreationRemoved'
  <2> SUFFICES ASSUME NEW j \in NetIds, j \notin mixed', wpa'.conf[j] # NoNet,
                      j \notin strays'
               PROVE  IF maker'[j] = NoNet
                      THEN wpa'.conf[j].ssid # NoNet /\ wpa'.conf[j].key # NoNet
                      ELSE wcall'[maker'[j]].id = j
    BY DEF PartialCreationRemoved, Used
  <2>1. CASE maker'[j] # NoNet
    BY <1>12, <2>1 DEF MakerAtWork
  <2>2. CASE maker'[j] = NoNet
    <3>1. j # i
      BY <1>2, <1>8, <2>2
    <3>2. j \in Used \ (strays \cup mixed) /\ maker[j] = NoNet
          /\ wpa'.conf[j] = wpa.conf[j]
      BY <1>5, <1>7, <2>2, <3>1 DEF Used
    <3> QED BY <1>1, <2>2, <3>2 DEF PartialCreationRemoved
  <2> QED BY <2>1, <2>2
<1> QED BY <1>1, <1>11, <1>12, <1>13, <1>14, <1>15, <1>16 DEF WifiInv

(* A restart brings back what was saved, and whoever holds one of those ids   *)
(* holds it by mistake.                                                       *)
LEMMA SupplicantRestartKeeps ==
    ASSUME WifiInv, SupplicantRestart
    PROVE  WifiInv'
<1>1. /\ WifiTypeOK /\ Callers /\ DiskComplete /\ reloads \in Nat
      /\ wpa' = [wpa EXCEPT !.conf = wpa.disk, !.selected = NoNet]
      /\ mixed' = mixed \cup (Held \cap {i \in NetIds : wpa.disk[i] # NoNet})
      /\ maker' = [i \in NetIds |-> NoNet] /\ strays' = {}
      /\ wcall' = wcall /\ reloads' = reloads + 1
  BY DEF WifiInv, SupplicantRestart
<1>2. /\ wpa \in WpaStates /\ mixed \subseteq NetIds
  BY <1>1, WifiTypes
<1>3. wpa' \in WpaStates /\ wpa'.conf = wpa.disk /\ wpa'.disk = wpa.disk
  BY <1>1, <1>2 DEF WpaStates
<1>4. WifiTypeOK'
  BY <1>1, <1>2, <1>3 DEF WifiTypeOK, WpaStates
<1>5. Callers' /\ MakerAtWork'
  BY <1>1 DEF Callers, MakerAtWork
<1>6. HoldersKnown'
  BY <1>1, <1>3 DEF HoldersKnown, Used, Held, Holding
<1>7. DiskComplete'
  BY <1>1, <1>3 DEF DiskComplete
<1>8. EntriesInOrder' /\ PartialCreationRemoved'
  BY <1>1, <1>3 DEF EntriesInOrder, PartialCreationRemoved, DiskComplete, Used
<1> QED BY <1>1, <1>4, <1>5, <1>6, <1>7, <1>8 DEF WifiInv

LEMMA WifiInvHolds == WifiSpec => []WifiInv
<1>1. WifiInit => WifiInv
  <2> SUFFICES ASSUME WifiInit
               PROVE  WifiInv
    OBVIOUS
  <2>1. NoCall \in CallRecords /\ Caller(NoCall) /\ NoCall.step = "idle"
    BY DEF NoCall, CallRecords, Caller, Steps, Assembly, Making
  <2>2. [i \in NetIds |-> NoNet] \in Conf
    BY DEF Conf
  <2>3. /\ wpa \in WpaStates /\ wpa.conf = [i \in NetIds |-> NoNet]
        /\ wpa.disk = [i \in NetIds |-> NoNet]
    BY <2>2 DEF WifiInit, WpaStates
  <2>4. WifiTypeOK /\ Callers /\ reloads \in Nat
    BY <2>1, <2>3 DEF WifiInit, WifiTypeOK, Callers, WpaStates, CallRecords
  <2>5. MakerAtWork
    BY DEF WifiInit, MakerAtWork
  <2>6. Used = {}
    BY <2>3 DEF Used
  <2> QED BY <2>3, <2>4, <2>5, <2>6
          DEF WifiInv, HoldersKnown, EntriesInOrder, DiskComplete,
              PartialCreationRemoved
<1>2. WifiInv /\ [WifiNext]_wifiVars => WifiInv'
  <2>1. ASSUME WifiInv, UNCHANGED wifiVars
        PROVE  WifiInv'
    BY <2>1 DEF wifiVars, WifiInv, WifiTypeOK, Callers, MakerAtWork,
                HoldersKnown, EntriesInOrder, DiskComplete,
                PartialCreationRemoved, Used
  <2>2. ASSUME WifiInv, NEW c \in WifiCallers,
               \/ \E r \in Request : WifiCall(c, r)
               \/ ListNetworks(c) \/ AddNetwork(c) \/ AddRefused(c)
               \/ StepOk(c) \/ StepFailed(c) \/ Cleanup(c)
               \/ Remove(c) \/ Save(c) \/ Command(c) \/ FinishState(c)
        PROVE  WifiInv'
    BY <2>2, WifiCallKeeps, ListNetworksKeeps, AddNetworkKeeps, PlainCallKeeps,
       StepOkKeeps, StepFailedKeeps, CleanupKeeps, RemoveKeeps
  <2> QED BY <2>1, <2>2, SupplicantRestartKeeps DEF WifiNext
<1> QED BY <1>1, <1>2, PTL DEF WifiSpec

(* For any number of workers, network ids and supplicant restarts: an entry   *)
(* that a connect of radios.py began and did not finish still has that call   *)
(* at work on it, or is one of the exceptions the property names.             *)
THEOREM PartialCreationsRemoved == WifiSpec => []PartialCreationRemoved
<1>1. WifiInv => PartialCreationRemoved
  BY DEF WifiInv
<1> QED BY <1>1, WifiInvHolds, PTL

(* A step of one call moves the record of that call alone. *)
LEMMA OnlyOneCallMoves ==
    ASSUME WifiInv, [WifiNext]_wifiVars, NEW c \in WifiCallers,
           wcall'[c] # wcall[c]
    PROVE  \/ \E r \in Request : WifiCall(c, r)
           \/ ListNetworks(c) \/ AddNetwork(c) \/ AddRefused(c)
           \/ StepOk(c) \/ StepFailed(c) \/ Cleanup(c)
           \/ Remove(c) \/ Save(c) \/ Command(c) \/ FinishState(c)
<1>1. WifiTypeOK /\ wcall \in [WifiCallers -> CallRecords]
  BY WifiTypes DEF WifiInv
<1>2. ~SupplicantRestart /\ ~UNCHANGED wifiVars
  BY DEF SupplicantRestart, wifiVars
<1>3. PICK d \in WifiCallers :
         \/ \E r \in Request : WifiCall(d, r)
         \/ ListNetworks(d) \/ AddNetwork(d) \/ AddRefused(d)
         \/ StepOk(d) \/ StepFailed(d) \/ Cleanup(d)
         \/ Remove(d) \/ Save(d) \/ Command(d) \/ FinishState(d)
  BY <1>2 DEF WifiNext
<1>4. ASSUME d # c
      PROVE  wcall'[c] = wcall[c]
  <2>1. Return(d) => wcall'[c] = wcall[c]
    BY <1>1, <1>4 DEF Return
  <2>2. \A s : Goto(d, s) => wcall'[c] = wcall[c]
    BY <1>1, <1>4 DEF Goto
  <2>3. ASSUME NEW i, NEW s, NEW k,
               wcall' = [wcall EXCEPT ![d].id = i, ![d].step = s, ![d].known = k]
        PROVE  wcall'[c] = wcall[c]
    BY <1>1, <1>4, <2>3
  <2>4. ASSUME NEW i, NEW s, wcall' = [wcall EXCEPT ![d].id = i, ![d].step = s]
        PROVE  wcall'[c] = wcall[c]
    BY <1>1, <1>4, <2>4
  <2>5. ASSUME NEW r \in Request, WifiCall(d, r)
        PROVE  wcall'[c] = wcall[c]
    BY <1>1, <1>4, <2>5 DEF WifiCall
  <2>6. ASSUME ListNetworks(d)
        PROVE  wcall'[c] = wcall[c]
    <3> DEFINE Settle(i, s) ==
                   wcall' = [wcall EXCEPT ![d].id = i, ![d].step = s,
                                          ![d].known = TRUE]
    <3>1. \A i, s : Settle(i, s) => wcall'[c] = wcall[c]
      BY <2>3
    <3> HIDE DEF Settle
    <3>2. \/ Return(d) \/ Goto(d, "add")
          \/ \E i \in Matches(wcall[d]) : Settle(i, "remove") \/ Settle(i, "enable")
      BY <2>6 DEF ListNetworks, Settle
    <3> QED BY <2>1, <2>2, <3>1, <3>2
  <2>7. AddNetwork(d) => wcall'[c] = wcall[c]
    BY <2>1, <2>4 DEF AddNetwork
  <2>8. (AddRefused(d) \/ StepOk(d) \/ StepFailed(d) \/ Cleanup(d) \/ Remove(d)
         \/ Save(d) \/ Command(d) \/ FinishState(d)) => wcall'[c] = wcall[c]
    BY <2>1, <2>2 DEF AddRefused, StepOk, StepFailed, Cleanup, Remove, Save,
                      Command, FinishState
  <2> QED BY <1>3, <2>5, <2>6, <2>7, <2>8
<1> QED BY <1>3, <1>4

(* A connect of radios.py whose SELECT_NETWORK is answered has selected an    *)
(* enabled entry with its own SSID and credentials, unless the supplicant     *)
(* handed its id out twice.                                                   *)
THEOREM ConnectsReachTheirNetwork == WifiSpec => ConnectReachesItsNetwork
<1>1. ASSUME WifiInv, [WifiNext]_wifiVars, NEW c \in WifiCallers,
             wcall[c].step = "select", wcall'[c].step \in {"save", "finish"},
             wcall[c].id \notin mixed
      PROVE  /\ wpa'.selected = wcall[c].id
             /\ wpa'.conf[wcall[c].id].ssid = wcall[c].ssid
             /\ wpa'.conf[wcall[c].id].enabled
             /\ wpa'.conf[wcall[c].id].key = wcall[c].key \/ wcall[c].known
  <2> DEFINE r == wcall[c]
             i == r.id
  <2>1. /\ WifiTypeOK /\ Callers /\ MakerAtWork /\ HoldersKnown
        /\ EntriesInOrder /\ Caller(r)
    BY <1>1 DEF WifiInv, Callers
  <2>2. wcall'[c] # r
    BY <1>1
  <2>3. StepOk(c)
    <3>1. ~StepFailed(c)
      <4>1. StepFailed(c) => Return(c) \/ Goto(c, "cleanup")
        BY DEF StepFailed
      <4>2. ~Return(c)
        BY <1>1, <2>1, CallRecordMoves DEF NoCall
      <4>3. ~Goto(c, "cleanup")
        <5>1. "cleanup" \in Steps
          BY DEF Steps
        <5>2. Goto(c, "cleanup") => wcall'[c].step = "cleanup"
          BY <2>1, <5>1, CallRecordMoves
        <5> QED BY <1>1, <5>2
      <4> QED BY <4>1, <4>2, <4>3
    <3>2. ~\E q \in Request : WifiCall(c, q)
      <4>1. r.op # "none"
        BY <1>1, <2>1 DEF Caller, Making, Assembly
      <4> QED BY <4>1 DEF WifiCall
    <3> QED BY <1>1, <2>2, <3>1, <3>2, OnlyOneCallMoves
            DEF ListNetworks, AddNetwork, AddRefused, Cleanup, Remove, Save,
                Command, FinishState
  <2>4. Effect(c) /\ Exact(c) /\ i \in NetIds /\ i \in Used
    <3>1. r.step \in Assembly /\ Possible(c) /\ wpa' = CarriedOut(c)
      BY <2>3 DEF StepOk, Answered
    <3>2. i \in Used
      BY <1>1, <2>1, <3>1 DEF Possible, Caller, Making, Assembly
    <3> QED BY <2>1, <3>1, <3>2, CommandEffect DEF Used
  <2>5. EntryEffect(c, i) /\ wpa'.conf[i] # NoNet
    BY <1>1, <2>4 DEF Effect, EntryEffect, Used
  <2>6. /\ wpa'.conf[i].ssid = wpa.conf[i].ssid
        /\ wpa'.conf[i].key = wpa.conf[i].key
    BY <1>1, <2>5 DEF EntryEffect
  <2>7. wpa.conf[i].ssid = r.ssid /\ (wpa.conf[i].key = r.key \/ r.known)
    <3>1. r.ssid # NoNet
      BY <1>1, <2>1 DEF Caller, Making, Assembly
    <3>2. CASE r.known
      BY <1>1, <2>1, <2>4, <3>1, <3>2 DEF HoldersKnown, Holding, Assembly
    <3>3. CASE ~r.known
      <4>1. maker[i] = c
        BY <1>1, <2>1, <2>4, <3>3 DEF HoldersKnown, Holding, Assembly
      <4> QED BY <1>1, <2>1, <2>4, <4>1, WifiTypes DEF EntriesInOrder, MadeSoFar
    <3> QED BY <3>2, <3>3
  <2> QED BY <1>1, <2>4, <2>6, <2>7 DEF Exact
<1>2. WifiInv /\ [WifiNext]_wifiVars =>
      [\A c \in WifiCallers :
          LET call == wcall[c]
              e == wpa'.conf[call.id]
          IN  (/\ call.step = "select" /\ wcall'[c].step \in {"save", "finish"}
               /\ call.id \notin mixed)
              => /\ wpa'.selected = call.id
                 /\ e.ssid = call.ssid /\ e.enabled
                 /\ e.key = call.key \/ call.known]_wifiVars
  BY <1>1
<1> QED BY <1>2, WifiInvHolds, PTL DEF WifiSpec, ConnectReachesItsNetwork

(* An entry of the supplicant disappears only because a forget named it or    *)
(* because the connect that was making it failed.                             *)
THEOREM RemovalsSpareOthers == WifiSpec => RemovalSparesOthers
<1>1. ASSUME WifiInv, [WifiNext]_wifiVars, NEW i \in Used \ mixed,
             wpa'.conf[i] = NoNet, reloads' = reloads
      PROVE  \E c \in WifiCallers :
                /\ wcall[c].id = i /\ wcall'[c] # wcall[c]
                /\ \/ wcall[c].op = "connect" /\ maker[i] = c
                   \/ /\ wcall[c].op = "forget"
                      /\ wcall[c].ssid \in {NoNet, wpa.conf[i].ssid}
  <2>1. /\ WifiTypeOK /\ Callers /\ MakerAtWork /\ HoldersKnown
        /\ reloads \in Nat /\ i \in NetIds /\ wpa.conf[i] # NoNet
        /\ wpa \in WpaStates /\ wpa.conf \in [NetIds -> Entry \cup {NoNet}]
    BY <1>1, WifiTypes DEF WifiInv, Used
  <2>2. wpa' # wpa
    BY <1>1, <2>1
  <2>3. ~SupplicantRestart /\ ~UNCHANGED wifiVars
    BY <1>1, <2>1, <2>2 DEF SupplicantRestart, wifiVars
  <2>4. PICK c \in WifiCallers :
           AddNetwork(c) \/ StepOk(c) \/ StepFailed(c) \/ Cleanup(c)
           \/ Remove(c) \/ Save(c) \/ Command(c)
    BY <1>1, <2>2, <2>3
    DEF WifiNext, WifiCall, ListNetworks, AddRefused, FinishState
  <2>5. Caller(wcall[c])
    BY <2>1 DEF Callers
  <2>6. ~AddNetwork(c)
    <3>1. ASSUME NEW j \in NetIds \ Used, NEW e,
                 wpa' = [wpa EXCEPT !.conf = [@ EXCEPT ![j] = e]]
          PROVE  wpa'.conf[i] = wpa.conf[i]
      <4>1. wpa'.conf = [wpa.conf EXCEPT ![j] = e] /\ i # j
        BY <1>1, <2>1, <3>1 DEF WpaStates
      <4> QED BY <2>1, <4>1
    <3> QED BY <1>1, <2>1, <3>1 DEF AddNetwork
  <2>7. Effect(c)
    BY <2>1, <2>4, <2>6, NoEffect, CommandEffect
    DEF StepOk, StepFailed, Cleanup, Remove, Save, Command, Answered, Refused,
        Unanswered
  <2>8. wcall[c].id = i /\ wcall[c].step \in {"remove", "cleanup"}
    BY <1>1, <2>1, <2>7 DEF Effect, EntryEffect
  <2>9. Cleanup(c) \/ Remove(c)
    BY <2>4, <2>6, <2>8
    DEF StepOk, StepFailed, Save, Command, Assembly
  <2>10. wcall'[c] # wcall[c]
    <3>1. Return(c) \/ Goto(c, "save")
      BY <2>9 DEF Cleanup, Remove
    <3>2. Return(c) => wcall'[c].step = "idle"
      BY <2>1, CallRecordMoves DEF NoCall
    <3>3. Goto(c, "save") => wcall'[c].step = "save"
      BY <2>1, CallRecordMoves DEF Steps
    <3> QED BY <2>8, <3>1, <3>2, <3>3
  <2>11. CASE wcall[c].step = "cleanup"
    <3>1. wcall[c].op = "connect" /\ ~wcall[c].known
      BY <2>5, <2>11 DEF Caller, Making
    <3>2. maker[i] = c
      BY <1>1, <2>1, <2>8, <2>11, <3>1 DEF HoldersKnown, Holding
    <3> QED BY <2>8, <2>10, <3>1, <3>2
  <2>12. CASE wcall[c].step = "remove"
    <3>1. wcall[c].op = "forget" /\ wcall[c].known
      BY <2>5, <2>12 DEF Caller
    <3>2. wcall[c].ssid \in {NoNet, wpa.conf[i].ssid}
      BY <1>1, <2>1, <2>8, <2>12, <3>1 DEF HoldersKnown, Holding
    <3> QED BY <2>8, <2>10, <3>1, <3>2
  <2> QED BY <2>8, <2>11, <2>12
<1>2. WifiInv /\ [WifiNext]_wifiVars =>
      [\A i \in Used \ mixed :
          (wpa'.conf[i] = NoNet /\ reloads' = reloads) =>
          \E c \in WifiCallers :
             /\ wcall[c].id = i /\ wcall'[c] # wcall[c]
             /\ \/ wcall[c].op = "connect" /\ maker[i] = c
                \/ /\ wcall[c].op = "forget"
                   /\ wcall[c].ssid \in {NoNet, wpa.conf[i].ssid}]_wifiVars
  BY <1>1
<1> QED BY <1>2, WifiInvHolds, PTL DEF WifiSpec, RemovalSparesOthers
=============================================================================
