----------------------------- MODULE Providers -----------------------------
(***************************************************************************)
(* The provider processes of the package.  Every manifest component runs    *)
(* one domain in a process of its own (provider.py), and the processes      *)
(* share no state, so a behaviour is that of one of them while the others   *)
(* rest: the states to be checked are the sum of theirs, not the product.   *)
(***************************************************************************)
EXTENDS WifiControl, VerifiedWrite, DisplaySession, Ch347Config, BluetoothPower

Processes == {"network", "attribute", "session", "ch347", "bluetooth"}

VARIABLE proc    \* the process this behaviour follows

providersVars == <<wifiVars, writeVars, sessionVars, ch347Vars, btVars, proc>>

ProvidersTypeOK ==
    /\ proc \in Processes
    /\ WifiTypeOK /\ WriteTypeOK /\ SessionTypeOK /\ Ch347TypeOK
    /\ BluetoothTypeOK

(* Resting processes have no devices, files or settings. *)
ProvidersInit ==
    /\ proc \in Processes
    /\ WifiInit /\ WriteInit /\ SessionInit /\ Ch347Init /\ BluetoothInit
    /\ proc # "attribute" => /\ kind = CHOOSE k \in Kinds : TRUE
                             /\ \A m \in Maxima : panelMax <= m
                             /\ Present = {}
    /\ proc # "session" => \A f \in Files : file[f] = NoDoc
    /\ proc # "ch347" => \A f \in ConfigFiles : conf[f] = NoValue
    /\ proc # "bluetooth" => ctl = "gone" /\ ~soft

NetworkProcess ==
    /\ proc = "network" /\ WifiNext
    /\ UNCHANGED <<writeVars, sessionVars, ch347Vars, btVars, proc>>
AttributeProcess ==
    /\ proc = "attribute" /\ WriteNext
    /\ UNCHANGED <<wifiVars, sessionVars, ch347Vars, btVars, proc>>
SessionProcess ==
    /\ proc = "session" /\ SessionNext
    /\ UNCHANGED <<wifiVars, writeVars, ch347Vars, btVars, proc>>
Ch347Process ==
    /\ proc = "ch347" /\ Ch347Next
    /\ UNCHANGED <<wifiVars, writeVars, sessionVars, btVars, proc>>
BluetoothProcess ==
    /\ proc = "bluetooth" /\ BluetoothNext
    /\ UNCHANGED <<wifiVars, writeVars, sessionVars, ch347Vars, proc>>

ProvidersNext ==
    \/ NetworkProcess \/ AttributeProcess \/ SessionProcess
    \/ Ch347Process \/ BluetoothProcess

ProvidersSpec == ProvidersInit /\ [][ProvidersNext]_providersVars
=============================================================================
