---------------------------- MODULE Ch347Config ----------------------------
(***************************************************************************)
(* set_state of the CH347 control provider (ch347.py): up to five           *)
(* configuration files are written one after the other, then the display    *)
(* output is signalled and its receipts awaited, or it is restarted, or,    *)
(* when it was not running, nothing more is done.                           *)
(*                                                                          *)
(* Calls hold the backend's _lock, so one runs at a time.  The output reads *)
(* its files when it starts and when it is signalled, applies them and      *)
(* writes receipts that carry its generation, and it starts, stops and dies *)
(* on its own.  Touch previews are the TouchCalibration module's.           *)
(***************************************************************************)
EXTENDS Naturals, Sequences

CONSTANTS FileOrder,    \* the files in the order set_state writes them
          Cold,         \* those that only a restart applies: calibration
          Optional,     \* overlay, cursor, rotation: newer than the package
          Values,
          NoValue,      \* the file does not exist; no receipt
          MaxSets, MaxOutput   \* bounds: calls, and changes of the output

ConfigFiles == {FileOrder[i] : i \in 1 .. Len(FileOrder)}
Hot == ConfigFiles \ Cold

Settings == [ConfigFiles -> Values \cup {NoValue}]
Receipts == [gen : Nat \ {0}, value : Values \cup {NoValue}]

ASSUME Ch347Assumption ==
    /\ FileOrder \in Seq(STRING) /\ Cold \cup Optional \subseteq ConfigFiles
    /\ \A i, j \in 1 .. Len(FileOrder) : FileOrder[i] = FileOrder[j] => i = j
    /\ NoValue \notin Values \cup Settings \cup Receipts
    /\ {MaxSets, MaxOutput} \subseteq Nat

VARIABLES conf,      \* contents of the configuration files
          out,       \* the output: state in the core's list, generation, what
                     \* it runs with, what it is reloading, pending SIGUSR1
          rcpt,      \* its receipts: a generation and a value
          set,       \* the set_state call in progress
          said,      \* how the last call ended, none while one runs
          unapplied, \* history: a call left files the output was not told of
          sets, outputs

ch347Vars == <<conf, out, rcpt, set, said, unapplied, sets, outputs>>

(* todo: the changed files still to be written; ready: the component's state *)
(* as the call looked it up.                                                 *)
NoSet == [step |-> "idle", changes |-> <<>>, todo |-> {}, restart |-> FALSE,
          ready |-> FALSE]
Stopped == [state |-> "stopped", gen |-> 0, run |-> NoValue, load |-> NoValue,
            signal |-> FALSE]

Ch347TypeOK ==
    /\ conf \in Settings
    /\ out \in [state : {"stopped", "starting", "ready"},
                gen : 0 .. MaxOutput + MaxSets,
                run : Settings \cup {NoValue}, load : Settings \cup {NoValue},
                signal : BOOLEAN]
    /\ rcpt \in [Hot -> Receipts \cup {NoValue}]
    /\ set.step \in {"idle", "write", "apply", "wait", "stop", "start",
                     "started"}
    /\ DOMAIN set.changes \subseteq ConfigFiles
    /\ set.todo \subseteq DOMAIN set.changes
    /\ said \in {"none", "applied", "saved", "error"}
    /\ {set.restart, set.ready, unapplied} \subseteq BOOLEAN

-----------------------------------------------------------------------------
Changed == DOMAIN set.changes
SetStep(s) ==
    /\ set' = [set EXCEPT !.step = s]
    /\ UNCHANGED <<said, unapplied>>
Succeed == set' = NoSet /\ said' = "applied" /\ UNCHANGED unapplied

(* A call that ends in an error, or is killed, leaves behind what it wrote. *)
Fail ==
    /\ set' = NoSet /\ said' = "error"
    /\ unapplied' = (unapplied \/ set.todo # Changed)

(* _target_summary: the state of the output in the core's component list. *)
Ready == out.state = "ready"

(* _configuration_provisioned: fps.env or touch_calibration.env exists, and   *)
(* the one that is missing is then created from its defaults.  The other     *)
(* files must be there to be changed.                                        *)
Provisioned(ch) ==
    DOMAIN ch # {} =>
    /\ \E f \in ConfigFiles \ Optional : conf[f] # NoValue
    /\ \A f \in DOMAIN ch \cap Optional : conf[f] # NoValue

(* set_state: the component's state is looked up once, and every changed     *)
(* setting must be provisioned, before anything is written.                  *)
SetState(ch, restart) ==
    /\ set.step = "idle" /\ sets < MaxSets
    /\ Provisioned(ch)
    /\ sets' = sets + 1
    /\ set' = [NoSet EXCEPT !.step = "write", !.changes = ch,
                            !.todo = DOMAIN ch, !.restart = restart,
                            !.ready = Ready]
    /\ said' = "none"
    /\ UNCHANGED <<conf, out, rcpt, unapplied, outputs>>

(* _atomic_write replaces a file as a whole. *)
Stored(f) == [conf EXCEPT ![f] = set.changes[f]]

(* _write_fps, _write_debug_overlay, _write_cursor, _write_calibration and   *)
(* _write_rotation, in this order; each replaces its file or raises.         *)
WriteConfig ==
    /\ set.step = "write"
    /\ \E i \in 1 .. Len(FileOrder) :
          /\ FileOrder[i] \in set.todo
          /\ \A j \in 1 .. i - 1 : FileOrder[j] \notin set.todo
          /\ \/ /\ conf' = Stored(FileOrder[i])
                /\ set' = [set EXCEPT !.todo = @ \ {FileOrder[i]}]
                /\ UNCHANGED <<said, unapplied>>
             \/ Fail /\ UNCHANGED conf
    /\ UNCHANGED <<out, rcpt, sets, outputs>>

(* Slip: one of the hot files is forgotten when the changes are summed up. *)
HotChangedShort == Changed \cap (Hot \ {FileOrder[1]}) # {}

HotChanged == Changed \cap Hot # {}

(* What comes after the files depends on the state looked up at the start.   *)
(* A call that finds the output not running is done: its files are read at   *)
(* the next start, unless the output was already past reading them.          *)
Written ==
    /\ set.step = "write" /\ set.todo = {}
    /\ \/ /\ set.restart \/ (Changed \cap Cold # {} /\ set.ready)
          /\ SetStep("stop")
       \/ /\ ~set.restart /\ (Changed \cap Cold = {} \/ ~set.ready)
          /\ IF HotChanged /\ set.ready
             THEN SetStep("apply")
             ELSE /\ set' = NoSet /\ said' = "saved"
                  /\ unapplied' = (unapplied \/
                                   (Changed # {} /\ ~set.ready
                                    /\ out.run # NoValue))
    /\ UNCHANGED <<conf, out, rcpt, sets, outputs>>

(* _reload_runtime: the owner of the output must be alive to be signalled. *)
Signal ==
    /\ set.step = "apply"
    /\ IF out.state = "stopped" THEN Fail /\ UNCHANGED out
       ELSE /\ out' = [out EXCEPT !.signal = TRUE]
            /\ SetStep("wait")
    /\ UNCHANGED <<conf, rcpt, sets, outputs>>

(* Slip: a receipt counts whichever generation wrote it. *)
AppliedEver(f) == IF rcpt[f] = NoValue THEN NoValue ELSE rcpt[f].value

(* _load_applied_...: a receipt counts when the running generation wrote it. *)
Applied(f) ==
    IF out.state # "stopped" /\ rcpt[f] # NoValue /\ rcpt[f].gen = out.gen
    THEN rcpt[f].value ELSE NoValue

(* _runtime_receipts_match: every hot setting is provisioned and applied. *)
ReceiptsMatch == \A f \in Hot : conf[f] # NoValue /\ Applied(f) = conf[f]

AwaitReceipts ==
    /\ set.step = "wait"
    /\ (ReceiptsMatch /\ Succeed) \/ Fail
    /\ UNCHANGED <<conf, out, rcpt, sets, outputs>>

(* _restart: the state is looked up again; stop and start go to the core,    *)
(* whose answers may be lost, and success needs the answer "ready".          *)
StopOutput ==
    /\ set.step = "stop"
    /\ \/ /\ Ready
          /\ out' = [Stopped EXCEPT !.gen = out.gen]
          /\ SetStep("start") \/ Fail
       \/ Fail /\ UNCHANGED out
    /\ UNCHANGED <<conf, rcpt, sets, outputs>>

Started == [Stopped EXCEPT !.state = "starting", !.gen = out.gen + 1]
StartOutput ==
    /\ set.step = "start"
    /\ \/ /\ out' = IF out.state = "stopped" THEN Started ELSE out
          /\ SetStep("started") \/ Fail
       \/ Fail /\ UNCHANGED out
    /\ UNCHANGED <<conf, rcpt, sets, outputs>>

StartAnswered ==
    /\ set.step = "started"
    /\ (Ready /\ Succeed) \/ Fail
    /\ UNCHANGED <<conf, out, rcpt, sets, outputs>>

(* The provider is killed. *)
ProviderKilled ==
    /\ set.step # "idle" /\ Fail
    /\ UNCHANGED <<conf, out, rcpt, sets, outputs>>

-----------------------------------------------------------------------------
(* External: the display output. *)
OutputMoves(o) == out' = o /\ UNCHANGED <<conf, set, said, unapplied, sets, outputs>>

OutputStarts ==
    /\ outputs < MaxOutput /\ out.state = "stopped"
    /\ outputs' = outputs + 1 /\ out' = Started
    /\ UNCHANGED <<conf, rcpt, set, said, unapplied, sets>>

(* A starting output reads everything, and what a call left is in effect. *)
OutputReads ==
    /\ out.state = "starting" /\ out.run = NoValue
    /\ out' = [out EXCEPT !.run = conf]
    /\ unapplied' = FALSE
    /\ UNCHANGED <<conf, rcpt, set, said, sets, outputs>>

OutputReady ==
    /\ out.state = "starting" /\ out.run # NoValue
    /\ OutputMoves([out EXCEPT !.state = "ready"]) /\ UNCHANGED rcpt

OutputReloads ==
    /\ out.signal /\ out.run # NoValue /\ out.load = NoValue
    /\ OutputMoves([out EXCEPT !.load = conf, !.signal = FALSE])
    /\ UNCHANGED rcpt

OutputApplies ==
    /\ out.load # NoValue
    /\ OutputMoves([out EXCEPT !.load = NoValue,
                      !.run = [f \in ConfigFiles |-> IF f \in Hot THEN out.load[f]
                                                     ELSE out.run[f]]])
    /\ UNCHANGED rcpt

OutputReceipt(f) ==
    /\ out.run # NoValue
    /\ rcpt[f] # [gen |-> out.gen, value |-> out.run[f]]
    /\ rcpt' = [rcpt EXCEPT ![f] = [gen |-> out.gen, value |-> out.run[f]]]
    /\ OutputMoves(out)

OutputStops ==
    /\ outputs < MaxOutput /\ out.state # "stopped"
    /\ outputs' = outputs + 1
    /\ out' = [Stopped EXCEPT !.gen = out.gen]
    /\ UNCHANGED <<conf, rcpt, set, said, unapplied, sets>>

Ch347Init ==
    /\ conf \in Settings
    /\ out = Stopped
    /\ rcpt = [f \in Hot |-> NoValue]
    /\ set = NoSet /\ said = "none" /\ unapplied = FALSE
    /\ sets = 0 /\ outputs = 0

Ch347Next ==
    \/ \E fs \in SUBSET ConfigFiles : \E ch \in [fs -> Values], r \in BOOLEAN :
          SetState(ch, r)
    \/ WriteConfig \/ Written \/ Signal \/ AwaitReceipts
    \/ StopOutput \/ StartOutput \/ StartAnswered \/ ProviderKilled
    \/ OutputStarts \/ OutputReads \/ OutputReady \/ OutputReloads
    \/ OutputApplies \/ OutputStops
    \/ \E f \in Hot : OutputReceipt(f)

Ch347Spec == Ch347Init /\ [][Ch347Next]_ch347Vars

-----------------------------------------------------------------------------
(* A call that reports a running output's settings as changed, or a restart  *)
(* as done, leaves the current generation running with exactly what the      *)
(* files say, whatever the output did in between; after a call that failed   *)
(* halfway this is only certain again once the output has been restarted.    *)
SuccessMeansApplied ==
    [][(set # NoSet /\ set' = NoSet /\ said' = "applied")
       => /\ out.run # NoValue
          /\ unapplied \/ \A f \in Hot : out.run[f] = conf[f]
          /\ set.restart => out.run = conf]_ch347Vars

(* Between calls a running output runs with the hot settings the files hold, *)
(* even while a reload is under way, unless some call failed, was killed, or *)
(* found the output not running.                                             *)
SavedReachesOutput ==
    (set.step = "idle" /\ ~unapplied /\ out.state = "ready")
    => \A f \in Hot : out.run[f] = conf[f]
=============================================================================
