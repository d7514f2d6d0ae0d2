---------------------------- MODULE WifiControl ----------------------------
(***************************************************************************)
(* Wi-Fi control of the Python network provider (radios.py NetworkBackend). *)
(*                                                                          *)
(* A scan, disconnect, connect or forget is a sequence of wpa_supplicant    *)
(* commands, each answered OK or FAIL or not at all within the socket's     *)
(* timeout, when the command may have been carried out or not.  The         *)
(* component server runs several calls at once and the backend has no lock. *)
(* The supplicant hands out any unused network id, and restarts with what   *)
(* SAVE_CONFIG last stored.                                                 *)
(***************************************************************************)
EXTENDS Naturals, FiniteSets

CONSTANTS WifiCallers,   \* worker threads of the component server
          Ssids, Creds,  \* Creds: the passphrases, and open security
          NetIds,        \* network ids the supplicant can hand out
          MaxRows,       \* MAX_CONFIGURED_NETWORKS
          NoNet,
          MaxWifiCalls,  \* bound: set_state calls
          MaxLost,       \* bound: refused or unanswered commands
          MaxReloads     \* bound: supplicant restarts

Entry == [ssid : Ssids \cup {NoNet}, key : Creds \cup {NoNet},
          enabled : BOOLEAN]

ASSUME WifiAssumption ==
    /\ NetIds \subseteq Nat /\ IsFiniteSet(NetIds)
    /\ NoNet \notin NetIds \cup Ssids \cup Creds \cup WifiCallers \cup Entry
    /\ {MaxRows, MaxWifiCalls, MaxLost, MaxReloads} \subseteq Nat

VARIABLES wpa,       \* the supplicant: conf, disk and the selected network
          wcall,     \* the set_state call each worker runs
          maker,     \* history: call assembling each entry
          strays,    \* history: entries whose removal was never confirmed
          mixed,     \* history: ids that came to mean another entry while a
                     \* call still held them, or saved as such
          wifiCalls, lost, reloads

wifiVars == <<wpa, wcall, maker, strays, mixed, wifiCalls, lost, reloads>>
wifiBounds == <<wifiCalls, lost, reloads>>

Conf == [NetIds -> Entry \cup {NoNet}]
Request == [op : {"scan", "disconnect"}, ssid : {NoNet}, key : {NoNet},
            id : {NoNet}]
           \cup [op : {"connect"}, ssid : Ssids, key : Creds \cup {NoNet},
                 id : {NoNet}]
           \cup [op : {"forget"}, ssid : Ssids, key : {NoNet}, id : {NoNet}]
           \cup [op : {"forget"}, ssid : {NoNet}, key : {NoNet}, id : NetIds]

(* id: the network the call names or has settled on; known: it was           *)
(* configured before the call.                                               *)
NoCall == [op |-> "none", step |-> "idle", ssid |-> NoNet, key |-> NoNet,
           id |-> NoNet, known |-> FALSE]

Assembly == {"ssid", "key", "enable", "select"}
Steps == Assembly \cup {"idle", "command", "list", "add", "cleanup", "remove",
                        "save", "finish"}

WifiTypeOK ==
    /\ wpa \in [conf : Conf, disk : Conf, selected : NetIds \cup {NoNet}]
    /\ wcall \in [WifiCallers ->
                  [op : {"none", "scan", "disconnect", "connect", "forget"},
                   step : Steps, ssid : Ssids \cup {NoNet},
                   key : Creds \cup {NoNet}, id : NetIds \cup {NoNet},
                   known : BOOLEAN]]
    /\ maker \in [NetIds -> WifiCallers \cup {NoNet}]
    /\ strays \subseteq NetIds /\ mixed \subseteq NetIds

Used == {i \in NetIds : wpa.conf[i] # NoNet}
Held == {wcall[c].id : c \in {d \in WifiCallers :
            wcall[d].step \in Assembly \cup {"cleanup", "remove"}}}

-----------------------------------------------------------------------------
(* WpaSupplicantControl.request, and the supplicant behind it (external). *)

(* The state a command leaves when it is carried out.  A key is a value: its  *)
(* quoting (_psk_argument) is not looked at.                                   *)
CarriedOut(c) ==
    LET call == wcall[c]
        i == call.id
    IN  CASE call.step = "command" ->
               IF call.op = "scan" THEN wpa ELSE [wpa EXCEPT !.selected = NoNet]
          [] call.step = "ssid" -> [wpa EXCEPT !.conf[i].ssid = call.ssid]
          [] call.step = "key" -> [wpa EXCEPT !.conf[i].key = call.key]
          [] call.step = "enable" -> [wpa EXCEPT !.conf[i].enabled = TRUE]
          [] call.step = "select" ->   \* disables all the others
               [wpa EXCEPT !.selected = i,
                           !.conf = [j \in NetIds |->
                              IF j \in Used
                              THEN [wpa.conf[j] EXCEPT !.enabled = (j = i)]
                              ELSE NoNet]]
          [] call.step \in {"remove", "cleanup"} ->
               [wpa EXCEPT !.conf[i] = NoNet,
                           !.selected = IF @ = i THEN NoNet ELSE @]
          [] call.step = "save" ->
               [wpa EXCEPT !.disk =
                  [j \in NetIds |->
                     IF j \in Used /\ wpa.conf[j].key # NoNet
                     THEN wpa.conf[j] ELSE NoNet]]

Possible(c) == wcall[c].id # NoNet => wcall[c].id \in Used

Answered(c) == Possible(c) /\ wpa' = CarriedOut(c) /\ UNCHANGED lost

(* FAIL, or no answer: the command may have been carried out all the same. *)
Refused(c) ==
    /\ IF Possible(c) THEN lost < MaxLost /\ lost' = lost + 1
                      ELSE UNCHANGED lost
    /\ UNCHANGED wpa
Unanswered(c) ==
    /\ Possible(c) /\ lost < MaxLost
    /\ lost' = lost + 1
    /\ wpa' = CarriedOut(c)

Goto(c, step) == wcall' = [wcall EXCEPT ![c].step = step]
Return(c) == wcall' = [wcall EXCEPT ![c] = NoCall]

Unmade(c) == [i \in NetIds |-> IF maker[i] = c THEN NoNet ELSE maker[i]]

-----------------------------------------------------------------------------
(* set_state: the first command follows from the action. *)

WifiCall(c, r) ==
    /\ wcall[c].op = "none" /\ wifiCalls < MaxWifiCalls
    /\ wifiCalls' = wifiCalls + 1
    /\ wcall' = [wcall EXCEPT ![c] =
                 [NoCall EXCEPT !.op = r.op, !.ssid = r.ssid, !.key = r.key,
                                !.id = r.id,
                                !.step = IF r.op \in {"connect", "forget"}
                                         THEN "list" ELSE "command"]]
    /\ UNCHANGED <<wpa, maker, strays, mixed, lost, reloads>>

(* _parse_networks keeps the first MaxRows rows. *)
Listed == {i \in Used : Cardinality({j \in Used : j < i}) < MaxRows}

Matches(call) ==
    {i \in Listed : IF call.id # NoNet THEN i = call.id
                                       ELSE wpa.conf[i].ssid = call.ssid}

(* LIST_NETWORKS decides how the call goes on: one match is selected or      *)
(* forgotten, none makes connect add a network, and a call whose fields do   *)
(* not fit what was found, or that gets no answer, ends in an error.         *)
ListNetworks(c) ==
    LET call == wcall[c]
        found == Matches(call)
        Settle(i, step) ==
            wcall' = [wcall EXCEPT ![c].id = i, ![c].step = step,
                                   ![c].known = TRUE]
    IN  /\ call.step = "list"
        /\ \/ lost < MaxLost /\ lost' = lost + 1 /\ Return(c)
           \/ /\ UNCHANGED lost /\ Cardinality(found) = 1
              /\ \/ call.op = "forget" /\ \E i \in found : Settle(i, "remove")
                 \/ /\ call.op = "connect" /\ call.key = NoNet
                    /\ \E i \in found : Settle(i, "enable")
           \/ /\ UNCHANGED lost
              /\ found = {} /\ call.op = "connect" /\ call.key # NoNet
              /\ Goto(c, "add")
           \/ /\ UNCHANGED lost
              /\ \/ Cardinality(found) > 1
                 \/ call.op = "forget" /\ Cardinality(found) # 1
                 \/ call.op = "connect" /\ (found = {} <=> call.key = NoNet)
              /\ Return(c)
        /\ UNCHANGED <<wpa, maker, strays, mixed, wifiCalls, reloads>>

(* ADD_NETWORK: the supplicant makes an empty entry under an unused id,      *)
(* which another call may hold from before.  When the answer is lost the     *)
(* entry stays.                                                              *)
AddNetwork(c) ==
    /\ wcall[c].step = "add"
    /\ \E i \in NetIds \ Used :
          /\ wpa' = [wpa EXCEPT !.conf[i] = [ssid |-> NoNet, key |-> NoNet,
                                             enabled |-> FALSE]]
          /\ mixed' = IF i \in Held THEN mixed \cup {i}
                      ELSE IF wpa.disk[i] = NoNet THEN mixed \ {i} ELSE mixed
          /\ \/ /\ wcall' = [wcall EXCEPT ![c].id = i, ![c].step = "ssid"]
                /\ maker' = [maker EXCEPT ![i] = c]
                /\ strays' = strays \ {i}
                /\ UNCHANGED lost
             \/ /\ lost < MaxLost /\ lost' = lost + 1
                /\ Return(c)
                /\ maker' = [maker EXCEPT ![i] = NoNet]
                /\ strays' = strays \cup {i}
    /\ UNCHANGED <<wifiCalls, reloads>>

AddRefused(c) ==
    /\ wcall[c].step = "add"
    /\ NetIds \ Used = {} \/ lost < MaxLost
    /\ lost' = IF NetIds \ Used = {} THEN lost ELSE lost + 1
    /\ Return(c)
    /\ UNCHANGED <<wpa, maker, strays, mixed, wifiCalls, reloads>>

(* Slip: the credentials are never sent. *)
NextStepKeyless(call) ==
    CASE call.step \in {"ssid", "key"} -> "enable"
      [] call.step = "enable" -> "select"
      [] call.step = "select" -> IF call.known THEN "finish" ELSE "save"

(* SET_NETWORK, ENABLE_NETWORK and SELECT_NETWORK are answered OK.  A known  *)
(* profile is complete once selected, a new one is saved.                    *)
NextStep(call) ==
    CASE call.step = "ssid" -> "key"
      [] call.step = "key" -> "enable"
      [] call.step = "enable" -> "select"
      [] call.step = "select" -> IF call.known THEN "finish" ELSE "save"

StepOk(c) ==
    LET call == wcall[c]
    IN  /\ call.step \in Assembly
        /\ Answered(c)
        /\ Goto(c, NextStep(call))
        /\ maker' = IF call.step = "select" THEN Unmade(c) ELSE maker
        /\ UNCHANGED <<strays, mixed, wifiCalls, reloads>>

(* Slip: selecting is outside the guarded part. *)
AfterFailureLate(call) ==
    IF call.known \/ call.step = "select" THEN "idle" ELSE "cleanup"

(* Slip: a failure removes the profile the call found, too. *)
AfterFailureKnown(call) == "cleanup"

(* What the except clause does: a new entry is removed, a known one is kept. *)
AfterFailure(call) == IF call.known THEN "idle" ELSE "cleanup"

StepFailed(c) ==
    LET call == wcall[c]
    IN  /\ call.step \in Assembly
        /\ Refused(c) \/ Unanswered(c)
        /\ IF AfterFailure(call) = "idle" THEN Return(c) ELSE Goto(c, "cleanup")
        /\ UNCHANGED <<maker, strays, mixed, wifiCalls, reloads>>

(* The cleanup's REMOVE_NETWORK; its errors are swallowed. *)
Cleanup(c) ==
    LET i == wcall[c].id
    IN  /\ wcall[c].step = "cleanup"
        /\ Return(c)
        /\ \/ Answered(c) /\ strays' = strays \ {i}
           \/ Unanswered(c) /\ strays' = strays \ {i}
           \/ Refused(c) /\ strays' = strays \cup ({i} \cap Used)
        /\ maker' = Unmade(c)
        /\ UNCHANGED <<mixed, wifiCalls, reloads>>

(* forget: REMOVE_NETWORK, then SAVE_CONFIG. *)
Remove(c) ==
    LET i == wcall[c].id
    IN  /\ wcall[c].step = "remove"
        /\ \/ Answered(c) /\ Goto(c, "save")
           \/ Unanswered(c) /\ Return(c)
           \/ Refused(c) /\ Return(c)
        /\ maker' = IF wpa'.conf[i] = NoNet
                    THEN [maker EXCEPT ![i] = NoNet] ELSE maker
        /\ strays' = IF wpa'.conf[i] = NoNet THEN strays \ {i} ELSE strays
        /\ UNCHANGED <<mixed, wifiCalls, reloads>>

(* SAVE_CONFIG: FAIL is reported as configuration_persisted false, no answer *)
(* ends the call in an error.                                                *)
Save(c) ==
    /\ wcall[c].step = "save"
    /\ \/ wpa' = CarriedOut(c) /\ Goto(c, "finish") /\ UNCHANGED lost
       \/ /\ lost < MaxLost /\ lost' = lost + 1
          /\ \/ UNCHANGED wpa /\ Goto(c, "finish")
             \/ wpa' \in {wpa, CarriedOut(c)} /\ Return(c)
    /\ UNCHANGED <<maker, strays, mixed, wifiCalls, reloads>>

(* scan and disconnect are one command. *)
Command(c) ==
    /\ wcall[c].step = "command"
    /\ \/ Answered(c) /\ Goto(c, "finish")
       \/ (Refused(c) \/ Unanswered(c)) /\ Return(c)
    /\ UNCHANGED <<maker, strays, mixed, wifiCalls, reloads>>

(* _finish_state only reads; the call has done its work whether it succeeds  *)
(* or the interface has gone.                                                *)
FinishState(c) ==
    /\ wcall[c].step = "finish"
    /\ Return(c)
    /\ UNCHANGED <<wpa, maker, strays, mixed, wifiBounds>>

(* External: the supplicant restarts and reads its configuration file. *)
SupplicantRestart ==
    /\ reloads < MaxReloads
    /\ reloads' = reloads + 1
    /\ wpa' = [wpa EXCEPT !.conf = wpa.disk, !.selected = NoNet]
    /\ mixed' = mixed \cup (Held \cap {i \in NetIds : wpa.disk[i] # NoNet})
    /\ maker' = [i \in NetIds |-> NoNet]
    /\ strays' = {}
    /\ UNCHANGED <<wcall, wifiCalls, lost>>

WifiInit ==
    /\ wpa = [conf |-> [i \in NetIds |-> NoNet],
              disk |-> [i \in NetIds |-> NoNet], selected |-> NoNet]
    /\ wcall = [c \in WifiCallers |-> NoCall]
    /\ maker = [i \in NetIds |-> NoNet]
    /\ strays = {} /\ mixed = {}
    /\ wifiCalls = 0 /\ lost = 0 /\ reloads = 0

WifiNext ==
    \/ \E c \in WifiCallers :
          \/ \E r \in Request : WifiCall(c, r)
          \/ ListNetworks(c) \/ AddNetwork(c) \/ AddRefused(c)
          \/ StepOk(c) \/ StepFailed(c) \/ Cleanup(c)
          \/ Remove(c) \/ Save(c) \/ Command(c) \/ FinishState(c)
    \/ SupplicantRestart

WifiSpec == WifiInit /\ [][WifiNext]_wifiVars

-----------------------------------------------------------------------------
(* "Partial creation is removed on failure": an entry that connect began and *)
(* did not finish still has its call at work on it, unless an answer was     *)
(* lost or the removal itself was refused, or its id was handed out twice.   *)
PartialCreationRemoved ==
    \A i \in Used \ (strays \cup mixed) :
       IF maker[i] = NoNet
       THEN NoNet \notin {wpa.conf[i].ssid, wpa.conf[i].key}
       ELSE wcall[maker[i]].id = i

(* A connect whose SELECT_NETWORK is answered has selected an entry with its *)
(* own SSID, the credentials it brought, and enabled, whatever other calls   *)
(* do in between, unless the supplicant handed its id out a second time.     *)
ConnectReachesItsNetwork ==
    [][\A c \in WifiCallers :
          LET call == wcall[c]
              e == wpa'.conf[call.id]
          IN  (/\ call.step = "select" /\ wcall'[c].step \in {"save", "finish"}
               /\ call.id \notin mixed)
              => /\ wpa'.selected = call.id
                 /\ e.ssid = call.ssid /\ e.enabled
                 /\ e.key = call.key \/ call.known]_wifiVars

(* An entry disappears only because a forget named it or because the connect *)
(* that was making it failed; a failed connect to a configured network never *)
(* costs the user that profile.                                              *)
RemovalSparesOthers ==
    [][\A i \in Used \ mixed :
          (wpa'.conf[i] = NoNet /\ reloads' = reloads) =>
          \E c \in WifiCallers :
             /\ wcall[c].id = i /\ wcall'[c] # wcall[c]
             /\ \/ wcall[c].op = "connect" /\ maker[i] = c
                \/ /\ wcall[c].op = "forget"
                   /\ wcall[c].ssid \in {NoNet, wpa.conf[i].ssid}]_wifiVars
=============================================================================
