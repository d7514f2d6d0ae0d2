--------------------------- MODULE DisplaySession ---------------------------
(***************************************************************************)
(* How the display and input providers find the current display session    *)
(* (display_session.py, and DisplayBackend._session and                     *)
(* InputBackend._display_input in linux.py).                                *)
(*                                                                          *)
(* A session document says when it was observed.  The display provider asks *)
(* the window manager first, whose layout may embed one, both providers     *)
(* then ask it for its own copy, and both fall back to the state files,     *)
(* read one after the other while the display outputs rewrite them, stop or *)
(* leave an old file behind, and while the clock moves.                     *)
(***************************************************************************)
EXTENDS Naturals, Sequences, FiniteSets

CONSTANTS Paths,        \* the state files, in the order they are read
          MaxAge,       \* max_age_ms; 0 turns the freshness check off
          Ahead,        \* how far in the future a document may lie (5 s)
          NoDoc, BadDoc,
          MaxTime, MaxSteps, MaxReads   \* bounds: clock, docChanges, calls

Files == 1 .. Len(Paths)

ASSUME SessionAssumption ==
    /\ Paths \in Seq(STRING)
    /\ \A i, j \in Files : Paths[i] = Paths[j] => i = j
    /\ {MaxAge, Ahead, MaxTime, MaxSteps, MaxReads} \subseteq Nat
    /\ MaxTime >= 1
    /\ {NoDoc, BadDoc} \cap Nat = {}

VARIABLES clock,     \* wall clock
          file,      \* observed_at of each state file, NoDoc, or BadDoc
          embedded,  \* session in the window manager's layout, or NoDoc
          inband,    \* answer to get_display_session, or NoDoc
          rd,        \* the call in progress
          steady,    \* history: files unchanged and fresh since it began
          reads, docChanges

sessionVars == <<clock, file, embedded, inband, rd, steady, reads, docChanges>>

Docs == 0 .. MaxTime + Ahead + 1
NoRead == [op |-> "none", step |-> "idle", at |-> 0, fresh |-> {}, got |-> NoDoc]

SessionTypeOK ==
    /\ clock \in 0 .. MaxTime
    /\ file \in [Files -> Docs \cup {NoDoc, BadDoc}]
    /\ {embedded, inband} \subseteq Docs \cup {NoDoc}
    /\ rd.op \in {"none", "display", "input"}
    /\ rd.step \in {"idle", "layout", "inband", "files", "done"}
    /\ rd.at \in 0 .. Len(Paths) + 1
    /\ rd.fresh \subseteq Docs /\ rd.got \in Docs \cup {NoDoc}
    /\ steady \subseteq Files

(* _require_fresh. *)
FreshAt(d, t) ==
    /\ d \in Nat
    /\ MaxAge = 0 \/ (t <= d + MaxAge /\ d <= t + Ahead)
Fresh(d) == FreshAt(d, clock)

-----------------------------------------------------------------------------
(* A get_state or inventory call, or the first part of the input's set_state. *)
SessionBegin(op) ==
    /\ rd.op = "none" /\ reads < MaxReads
    /\ reads' = reads + 1
    /\ rd' = [NoRead EXCEPT !.op = op,
                            !.step = IF op = "display" THEN "layout"
                                     ELSE "inband"]
    /\ steady' = {p \in Files : Fresh(file[p])}
    /\ UNCHANGED <<clock, file, embedded, inband, docChanges>>

(* A session of the window manager is taken when it is fresh; otherwise the  *)
(* next source is asked.                                                     *)
Accept(d, next) ==
    /\ rd' = IF Fresh(d) THEN [rd EXCEPT !.step = "done", !.got = d]
             ELSE [rd EXCEPT !.step = next, !.at = 1]
    /\ UNCHANGED <<clock, file, embedded, inband, steady, reads, docChanges>>

AskLayout == rd.step = "layout" /\ Accept(embedded, "inband")
AskInband == rd.step = "inband" /\ Accept(inband, "files")

(* load: missing, invalid and stale files are passed over. *)
ReadFile ==
    /\ rd.step = "files" /\ rd.at <= Len(Paths)
    /\ rd' = [rd EXCEPT !.at = @ + 1,
                        !.fresh = IF Fresh(file[rd.at])
                                  THEN @ \cup {file[rd.at]} ELSE @]
    /\ UNCHANGED <<clock, file, embedded, inband, steady, reads, docChanges>>

(* Slip: the oldest document wins. *)
BestOldest(docs) == CHOOSE d \in docs : \A e \in docs : d <= e

Best(docs) == CHOOSE d \in docs : \A e \in docs : e <= d

(* The newest of the fresh documents, or UnavailableError. *)
ChooseNewest ==
    /\ rd.step = "files" /\ rd.at > Len(Paths)
    /\ rd' = [rd EXCEPT !.step = "done",
                        !.got = IF rd.fresh = {} THEN NoDoc ELSE Best(rd.fresh)]
    /\ UNCHANGED <<clock, file, embedded, inband, steady, reads, docChanges>>

SessionAnswer ==
    /\ rd.step = "done"
    /\ rd' = NoRead
    /\ steady' = {}
    /\ UNCHANGED <<clock, file, embedded, inband, reads, docChanges>>

-----------------------------------------------------------------------------
(* External: display outputs publish documents observed about now and stop,  *)
(* with or without removing their file; a write is cut short.                *)
DocChange == docChanges < MaxSteps /\ docChanges' = docChanges + 1
Publish ==
    /\ DocChange
    /\ \E p \in Files :
          /\ file' = [file EXCEPT ![p] = clock]
          /\ steady' = steady \ {p}
    /\ UNCHANGED <<clock, embedded, inband, rd, reads>>

LoseFile ==
    /\ DocChange
    /\ \E p \in Files :
          /\ file' \in {[file EXCEPT ![p] = b] : b \in {NoDoc, BadDoc}}
          /\ steady' = steady \ {p}
    /\ UNCHANGED <<clock, embedded, inband, rd, reads>>

(* The window manager copies a session, or stops answering. *)
ManagerChange ==
    /\ DocChange
    /\ \E d \in {NoDoc} \cup {file[p] : p \in {q \in Files : file[q] \in Nat}} :
          \/ embedded' = d /\ UNCHANGED inband
          \/ inband' = d /\ UNCHANGED embedded
    /\ UNCHANGED <<clock, file, rd, steady, reads>>

(* Time passes, or the clock is set back. *)
SetClock(t) ==
    /\ clock' = t
    /\ steady' = {p \in steady : FreshAt(file[p], t)}
    /\ UNCHANGED <<file, embedded, inband, rd, reads>>

Tick == clock < MaxTime /\ SetClock(clock + 1) /\ UNCHANGED docChanges
ClockBack == DocChange /\ clock > 0 /\ SetClock(clock - 1)

SessionInit ==
    /\ clock = 1
    /\ file \in [Files -> {0, 1, 1 + Ahead, NoDoc}]
    /\ embedded = NoDoc /\ inband = NoDoc
    /\ rd = NoRead /\ steady = {}
    /\ reads = 0 /\ docChanges = 0

SessionNext ==
    \/ \E op \in {"display", "input"} : SessionBegin(op)
    \/ AskLayout \/ AskInband \/ ReadFile \/ ChooseNewest \/ SessionAnswer
    \/ Publish \/ LoseFile \/ ManagerChange \/ Tick \/ ClockBack

SessionSpec == SessionInit /\ [][SessionNext]_sessionVars

-----------------------------------------------------------------------------
(* A session read from the files is at least as new as every file that stood *)
(* there, fresh, from the beginning of the call to its end, however the      *)
(* outputs rewrote the others meanwhile; while such a file exists the        *)
(* session is never reported unavailable.                                    *)
SteadySessionServed ==
    (rd.step = "done" /\ rd.at > Len(Paths)) =>
    \A p \in steady : rd.got # NoDoc /\ file[p] <= rd.got
=============================================================================
