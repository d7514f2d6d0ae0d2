-------------------------- MODULE TouchCalibration --------------------------
(***************************************************************************)
(* The transactional touch calibration of the CH347 control provider        *)
(* (ch347.py): a matrix is tried as a preview, then confirmed, cancelled or *)
(* timed out; undo swaps the saved matrix with the one before.              *)
(*                                                                          *)
(* Every handler runs under the backend's _lock, so at most one job is in   *)
(* progress.  Its _apply_affine writes the effective document, signals the  *)
(* output process and waits up to five seconds for a receipt, and while it  *)
(* waits the output process runs, restarts or dies, time passes and the     *)
(* provider may be killed.                                                  *)
(***************************************************************************)
EXTENDS Naturals

CONSTANTS Matrices,     \* affine matrices
          Bases,        \* rotation and geometry a matrix was taken under
          MaxAffine,    \* MAX_AFFINE_REVISION
          None,
          MaxCalls,     \* bound: RPCs
          MaxChanges,   \* bound: output and basis changes from outside
          MaxStarts     \* bound: starts of the provider

Revisions == 0 .. MaxAffine
Document == [rev : Revisions, matrix : Matrices]
Preview == [doc : Document, base : Document, basis : Bases]

ASSUME TouchAssumption ==
    /\ Matrices # {} /\ Bases # {}
    /\ None \notin Matrices \cup Bases \cup Document \cup Preview
    /\ MaxAffine \in Nat
    /\ {MaxCalls, MaxChanges, MaxStarts} \subseteq Nat

VARIABLES saved,      \* affine state file: revision, matrix, previous
          effective,  \* effective document, None while it is absent
          receipt,    \* applied receipt of the running output, or None
          output,     \* the display-output process runs
          basis,      \* what _basis_snapshot reads, None when it raises
          preview,    \* _preview
          expired,    \* the preview's deadline has passed
          watching,   \* the preview's _preview_watch thread is alive
          job,        \* the handler that holds _lock
          phase,      \* the provider process
          prior,      \* history: the matrix saved before saved.matrix
          leftBehind, \* history: documents that failures left in effective
          calls, changes, starts

fileVars == <<saved, prior>>
outputVars == <<receipt, output>>
previewVars == <<preview, expired, watching>>
boundVars == <<calls, changes, starts>>
vars == <<saved, effective, receipt, output, basis, preview, expired, watching,
          job, phase, prior, leftBehind, calls, changes, starts>>

Doc(r, m) == [rev |-> r, matrix |-> m]
SavedDoc == Doc(saved.rev, saved.matrix)

(* target: the document being applied; base: the one to return to; by: who   *)
(* asked for a restore; basis: what the request carries.                     *)
Idle == [op |-> "idle", step |-> "idle", target |-> None, base |-> None,
         by |-> None, basis |-> None]

TypeOK ==
    /\ saved \in [rev : Revisions, matrix : Matrices,
                  previous : Matrices \cup {None}]
    /\ effective \in Document \cup {None}
    /\ receipt \in Document \cup {None}
    /\ basis \in Bases \cup {None}
    /\ preview \in Preview \cup {None}
    /\ {output, expired, watching} \subseteq BOOLEAN
    /\ job.op \in {"idle", "preview", "rollback", "restore", "undo",
                   "unpersist", "recover", "rotate"}
    /\ job.step \in {"idle", "write", "wait"}
    /\ job.target \in Document \cup {None}
    /\ phase \in {"serving", "closing", "exited"}
    /\ prior \in Matrices \cup {None}
    /\ leftBehind \subseteq Document

-----------------------------------------------------------------------------
(* _apply_affine, as a job of two steps. *)

Apply(op, target, base, by, b) ==
    job' = [op |-> op, step |-> "write", target |-> target, base |-> base,
            by |-> by, basis |-> b]

(* The effective document is replaced and the output process signalled. *)
WriteEffective ==
    /\ job.step = "write"
    /\ effective' = job.target
    /\ job' = [job EXCEPT !.step = "wait"]
    /\ UNCHANGED <<fileVars, outputVars, basis, previewVars, phase, leftBehind,
                   boundVars>>

(* The receipt matches: _reload_runtime returns and the readback agrees. *)
Applied == job.step = "wait" /\ effective = job.target /\ receipt = job.target

(* What a failure leaves in effective and nothing in progress will replace. *)
Leave == leftBehind' = leftBehind \cup ({effective} \ {SavedDoc, None})

Release == job' = Idle

(* _clear_preview *)
ClearPreview ==
    /\ preview' = None
    /\ expired' = FALSE
    /\ watching' = FALSE

(* touch_calibration_preview succeeds: the preview is on the panel, with its *)
(* token, its deadline and its watcher.                                      *)
OpenPreview ==
    /\ job.op = "preview" /\ Applied
    /\ preview' = [doc |-> job.target, base |-> job.base, basis |-> job.basis]
    /\ expired' = FALSE
    /\ watching' = TRUE
    /\ Release
    /\ UNCHANGED <<fileVars, effective, outputVars, basis, phase, leftBehind,
                   boundVars>>

(* Slip: the preview request fails without taking its document back. *)
PreviewFailsForward ==
    /\ job.op = "preview"
    /\ Release
    /\ UNCHANGED <<fileVars, effective, outputVars, basis, previewVars, phase,
                   leftBehind, boundVars>>

(* The write is refused, the output is gone or no receipt comes in time:     *)
(* the document before it is applied again.                                  *)
PreviewFails ==
    /\ job.op = "preview"
    /\ Apply("rollback", job.base, None, None, None)
    /\ UNCHANGED <<fileVars, effective, outputVars, basis, previewVars, phase,
                   leftBehind, boundVars>>

(* The rollback of a failed preview, the re-apply of an undo that could not  *)
(* be saved, and the recovery at start end here, well or badly.              *)
Settled ==
    /\ job.op \in {"rollback", "unpersist", "recover"}
    /\ \/ Applied /\ UNCHANGED leftBehind
       \/ Leave
    /\ Release
    /\ UNCHANGED <<fileVars, effective, outputVars, basis, previewVars, phase,
                   boundVars>>

(* _restore_preview_locked succeeds; set_state then goes on to its write and *)
(* close to the end of the process.                                          *)
Restored ==
    /\ job.op = "restore" /\ Applied
    /\ ClearPreview
    /\ job' = IF job.by = "set_state" THEN [Idle EXCEPT !.op = "rotate",
                                                        !.basis = job.basis]
              ELSE Idle
    /\ phase' = IF job.by = "close" THEN "closing" ELSE phase
    /\ UNCHANGED <<fileVars, effective, outputVars, basis, leftBehind,
                   boundVars>>

(* It raises: the preview stays open, but a watcher that saw it is gone, and *)
(* the effective document may already be the base.                           *)
RestoreFails ==
    /\ job.op = "restore"
    /\ Release
    /\ leftBehind' = leftBehind \cup ({effective} \ {preview.doc, None})
    /\ watching' = (watching /\ job.by # "watch")
    /\ phase' = IF job.by = "close" THEN "closing" ELSE phase
    /\ UNCHANGED <<fileVars, effective, outputVars, basis, preview, expired,
                   boundVars>>

(* Slip: undo saves the older matrix under the revision it already had. *)
UndoneInPlace == [rev |-> saved.rev, matrix |-> job.target.matrix,
                  previous |-> saved.matrix]

(* Undo swaps the two matrices under a new revision. *)
Undone == [rev |-> job.target.rev, matrix |-> job.target.matrix,
           previous |-> saved.matrix]

(* _atomic_write of the affine state file. *)
SaveAffine(document) ==
    /\ saved' = document
    /\ prior' = saved.matrix

(* The state file is replaced, or is not and the old matrix is applied. *)
UndoApplied ==
    /\ job.op = "undo" /\ Applied
    /\ \/ SaveAffine(Undone) /\ Release
       \/ /\ Apply("unpersist", SavedDoc, None, None, None)
          /\ UNCHANGED fileVars
    /\ UNCHANGED <<effective, outputVars, basis, previewVars, phase,
                   leftBehind, boundVars>>

(* A failed undo raises without a rollback. *)
UndoFails ==
    /\ job.op = "undo"
    /\ Leave
    /\ Release
    /\ UNCHANGED <<fileVars, effective, outputVars, basis, previewVars, phase,
                   boundVars>>

(* _restart stops the output process and starts it again, if it can. *)
RestartOutput ==
    /\ output
    /\ output' \in BOOLEAN
    /\ effective' = IF output' THEN SavedDoc ELSE None
    /\ receipt' = effective'

(* set_state writes the new rotation or geometry and restarts the output     *)
(* process if the change needs it; either may fail.                          *)
Rotate ==
    /\ job.op = "rotate"
    /\ basis' \in IF job.basis = None THEN {basis} ELSE {basis, job.basis}
    /\ RestartOutput \/ UNCHANGED <<effective, outputVars>>
    /\ Release
    /\ UNCHANGED <<fileVars, previewVars, phase, leftBehind, boundVars>>

-----------------------------------------------------------------------------
(* The requests.  One that is refused changes nothing and is left out.       *)

Call ==
    /\ phase = "serving" /\ job = Idle
    /\ calls < MaxCalls
    /\ calls' = calls + 1
    /\ UNCHANGED <<outputVars, phase, effective, leftBehind, basis, changes,
                   starts>>

(* Slip: the revision is not checked against its maximum. *)
ExhaustedNever(rev) == FALSE

Exhausted(rev) == rev >= MaxAffine

(* Writable: the running output has applied the effective document. *)
Writable == effective # None /\ receipt = effective

StartPreview(m) ==
    /\ preview = None
    /\ Writable
    /\ basis # None
    /\ ~Exhausted(effective.rev)
    /\ Apply("preview", Doc(effective.rev + 1, m), effective, None, basis)

CallPreview(m) ==
    /\ Call
    /\ StartPreview(m)
    /\ UNCHANGED <<fileVars, previewVars>>

Restore(by, b) == Apply("restore", preview.base, None, by, b)

(* Slip: the matrix that was already the older one stays the older one. *)
ConfirmedOver == [rev |-> preview.doc.rev, matrix |-> preview.doc.matrix,
                  previous |-> saved.previous]

Confirmed == [rev |-> preview.doc.rev, matrix |-> preview.doc.matrix,
              previous |-> preview.base.matrix]

(* touch_calibration_confirm.  A preview that is late, taken under another   *)
(* basis or no longer applied, with no receipt too, is restored; when the    *)
(* basis cannot be read or the state file not replaced, it stays open.       *)
CallConfirm ==
    /\ preview # None
    /\ Call
    /\ LET current == /\ ~expired
                      /\ basis = preview.basis
                      /\ receipt = preview.doc
       IN \/ /\ \/ expired
                \/ basis \notin {None, preview.basis}
                \/ basis # None /\ receipt # preview.doc
             /\ Restore("client", None)
             /\ UNCHANGED <<fileVars, previewVars>>
          \/ /\ current
             /\ SaveAffine(Confirmed)
             /\ ClearPreview
             /\ UNCHANGED job

CallCancel ==
    /\ preview # None
    /\ Call
    /\ Restore("client", None)
    /\ UNCHANGED <<fileVars, previewVars>>

CallUndo ==
    /\ preview = None
    /\ saved.previous # None
    /\ ~Exhausted(saved.rev)
    /\ Call
    /\ Apply("undo", Doc(saved.rev + 1, saved.previous), None, None, None)
    /\ UNCHANGED <<fileVars, previewVars>>

(* set_state with touch_calibration or physical_rotation ends a preview      *)
(* first; one with restart alone (b = None) leaves it open.                  *)
CallSetState(b) ==
    /\ Call
    /\ IF preview = None \/ b = None
       THEN job' = [Idle EXCEPT !.op = "rotate", !.basis = b]
       ELSE Restore("set_state", b)
    /\ UNCHANGED <<fileVars, previewVars>>

-----------------------------------------------------------------------------
(* The watcher, the clock, the life of the process. *)

(* Slip: the watcher looks at the basis and not at the clock. *)
WatchDueOnBasis == basis # preview.basis

WatchDue == expired \/ basis # preview.basis

(* _preview_watch finds the preview over, takes the lock and restores. *)
Watch ==
    /\ job = Idle /\ phase # "exited"
    /\ preview # None /\ watching
    /\ WatchDue
    /\ Restore("watch", None)
    /\ UNCHANGED <<fileVars, effective, outputVars, basis, previewVars, phase,
                   leftBehind, boundVars>>

Expire ==
    /\ preview # None /\ ~expired
    /\ expired' = TRUE
    /\ UNCHANGED <<fileVars, effective, outputVars, basis, preview, watching,
                   job, phase, leftBehind, boundVars>>

(* SIGTERM or the idle timeout: run() ends, close() restores. *)
Close ==
    /\ phase = "serving" /\ job = Idle
    /\ IF preview = None
       THEN phase' = "closing" /\ UNCHANGED job
       ELSE Restore("close", None) /\ UNCHANGED phase
    /\ UNCHANGED <<fileVars, effective, outputVars, basis, previewVars,
                   leftBehind, boundVars>>

(* A preview call that waited for the lock while close() held it; the        *)
(* interpreter joins its thread before it exits.                             *)
LatePreview(m) ==
    /\ phase = "closing" /\ job = Idle
    /\ calls < MaxCalls
    /\ calls' = calls + 1
    /\ StartPreview(m)
    /\ UNCHANGED <<fileVars, effective, outputVars, basis, previewVars, phase,
                   leftBehind, changes, starts>>

Ended ==
    /\ phase' = "exited"
    /\ ClearPreview
    /\ Release
    /\ UNCHANGED <<fileVars, effective, outputVars, basis, leftBehind,
                   boundVars>>

(* The process ends once its threads have, or is killed at any point. *)
Exit == phase = "closing" /\ job = Idle /\ Ended

Kill == phase # "exited" /\ Ended

(* main: recover_stale_preview, then serve. *)
Start ==
    /\ phase = "exited"
    /\ starts < MaxStarts
    /\ starts' = starts + 1
    /\ phase' = "serving"
    /\ IF effective \in {None, SavedDoc} THEN UNCHANGED job
       ELSE Apply("recover", SavedDoc, None, None, None)
    /\ UNCHANGED <<fileVars, effective, outputVars, basis, previewVars,
                   leftBehind, calls, changes>>

-----------------------------------------------------------------------------
(* The display-output process and the files others write. *)

(* It reads the effective document on SIGUSR1 and writes its receipt. *)
OutputReloads ==
    /\ output
    /\ receipt # effective
    /\ receipt' = effective
    /\ UNCHANGED <<fileVars, effective, output, basis, previewVars, job, phase,
                   leftBehind, boundVars>>

Change ==
    /\ changes < MaxChanges
    /\ changes' = changes + 1
    /\ UNCHANGED <<fileVars, previewVars, job, phase, leftBehind, calls,
                   starts>>

(* Its runtime files go with it; it starts from the saved matrix. *)
OutputStops ==
    /\ output
    /\ Change
    /\ output' = FALSE
    /\ receipt' = None
    /\ effective' = None
    /\ UNCHANGED basis

OutputStarts ==
    /\ ~output
    /\ output' = TRUE
    /\ effective' = SavedDoc
    /\ receipt' = SavedDoc
    /\ UNCHANGED <<fileVars, basis, previewVars, job, phase, leftBehind,
                   boundVars>>

BasisChanges ==
    /\ Change
    /\ basis' \in (Bases \cup {None}) \ {basis}
    /\ UNCHANGED <<effective, outputVars>>

-----------------------------------------------------------------------------
Init ==
    /\ saved \in [rev : {0}, matrix : Matrices, previous : {None}]
    /\ prior = None
    /\ effective = SavedDoc /\ receipt = SavedDoc /\ output = TRUE
    /\ basis \in Bases
    /\ preview = None /\ expired = FALSE /\ watching = FALSE
    /\ job = Idle
    /\ phase = "serving"
    /\ leftBehind = {}
    /\ calls = 0 /\ changes = 0 /\ starts = 0

Finish == OpenPreview \/ PreviewFails \/ Settled \/ Restored \/ RestoreFails
          \/ UndoApplied \/ UndoFails \/ Rotate

Work == WriteEffective \/ Finish

Clients ==
    \/ \E m \in Matrices : CallPreview(m) \/ LatePreview(m)
    \/ CallConfirm \/ CallCancel \/ CallUndo
    \/ \E b \in Bases \cup {None} : CallSetState(b)

Process == Watch \/ Expire \/ Close \/ Exit \/ Kill \/ Start

Outside == OutputReloads \/ OutputStops \/ OutputStarts \/ BasisChanges

Next == Work \/ Clients \/ Process \/ Outside

Spec == Init /\ [][Next]_vars

(* A wait ends after its timeout, the clock runs, the watcher gets the lock  *)
(* and a closed process exits.                                               *)
FairSpec == Spec /\ WF_vars(Finish) /\ WF_vars(WriteEffective)
                 /\ WF_vars(Expire) /\ WF_vars(Watch) /\ WF_vars(Exit)

-----------------------------------------------------------------------------
(* While the provider serves, with no preview open and no handler running,   *)
(* the output is told the saved matrix, or one that a failed rollback,       *)
(* cancel, undo or recovery had to leave behind: every other way through     *)
(* preview, confirm, cancel, undo, set_state, close, a kill at any point and *)
(* recover_stale_preview brings the two together.                            *)
RuntimeMatchesSaved ==
    (phase # "exited" /\ job = Idle /\ preview = None) =>
        effective \in {None, SavedDoc} \cup leftBehind

(* Undo goes back to the matrix that was saved before the present one        *)
(* (confirm keeps the preview's base, undo swaps), unless a failure had left *)
(* another one in effect when the confirmed preview began.                   *)
PreviousIsPrior ==
    \/ saved.previous = prior
    \/ \E d \in leftBehind : saved.previous = d.matrix

(* As long as no failure left a document behind, every change of the saved   *)
(* matrix carries a higher revision than all saved before, whatever          *)
(* previews, undos, kills and restarts came between: expected_revision tells *)
(* a newer calibration from an older one.                                    *)
SavedRevisionGrows ==
    [][(saved' # saved /\ leftBehind = {}) => saved'.rev > saved.rev]_vars

(* A preview ends, or its watcher tried to restore and could not             *)
(* (_preview_watch gives up after one failure).                              *)
PreviewExpires == (preview # None) ~> (preview = None \/ ~watching)

(* What the manual says of every preview: the TTL ends it. *)
PreviewEnds == (preview # None) ~> (preview = None)
=============================================================================
