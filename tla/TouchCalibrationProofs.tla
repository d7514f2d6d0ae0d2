---------------------- MODULE TouchCalibrationProofs ----------------------
(***************************************************************************)
(* Proofs about the transactional touch calibration.                        *)
(***************************************************************************)
EXTENDS TouchCalibration, TLAPS

JobOps == {"idle", "preview", "rollback", "restore", "undo", "unpersist",
           "recover", "rotate"}
JobRecords == [op : JobOps, step : {"idle", "write", "wait"},
               target : Document \cup {None}, base : Document \cup {None},
               by : {None, "client", "set_state", "watch", "close"},
               basis : Bases \cup {None}]

(* What a preview may be taken back to. *)
Restorable == {SavedDoc} \cup leftBehind

(* What each handler carries while it waits for the output. *)
JobShape ==
    /\ job.op = "idle" => job = Idle
    /\ job.op = "rotate" => job.step = "idle"
    /\ job.op = "preview" =>
          /\ preview = None /\ job.basis \in Bases
          /\ job.target \in Document /\ job.base \in Restorable
          /\ job.target.rev = job.base.rev + 1
    /\ job.op = "rollback" => preview = None /\ job.target \in Restorable
    /\ job.op = "restore" => preview # None /\ job.target = preview.base
    /\ job.op = "undo" =>
          /\ preview = None /\ job.target \in Document
          /\ job.target.rev = saved.rev + 1
    /\ job.op \in {"unpersist", "recover"} =>
          preview = None /\ job.target = SavedDoc

PreviewShape ==
    preview # None => /\ preview.base \in Restorable
                      /\ preview.doc.rev = preview.base.rev + 1

(* Between handlers the output was told something that is accounted for; an   *)
(* output that came back while a preview is open has also read it.            *)
Told ==
    (job.op \in {"idle", "rotate"} /\ phase # "exited") =>
    \/ effective \in {None} \cup leftBehind
    \/ effective = SavedDoc /\ (preview = None \/ receipt = SavedDoc)
    \/ preview # None /\ effective = preview.doc

Gone == phase = "exited" => job = Idle /\ preview = None

TouchInv ==
    /\ TypeOK /\ job \in JobRecords
    /\ JobShape /\ PreviewShape /\ Told /\ Gone /\ PreviousIsPrior

SavedRecords == [rev : Revisions, matrix : Matrices,
                 previous : Matrices \cup {None}]
Phases == {"serving", "closing", "exited"}

LEMMA TouchTypes ==
    ASSUME TouchInv
    PROVE  /\ saved \in SavedRecords /\ prior \in Matrices \cup {None}
           /\ effective \in Document \cup {None}
           /\ receipt \in Document \cup {None}
           /\ basis \in Bases \cup {None}
           /\ preview \in Preview \cup {None}
           /\ output \in BOOLEAN /\ expired \in BOOLEAN /\ watching \in BOOLEAN
           /\ job \in JobRecords /\ phase \in Phases
           /\ leftBehind \subseteq Document
           /\ SavedDoc \in Document /\ Restorable \subseteq Document
           /\ SavedDoc.rev = saved.rev /\ SavedDoc.matrix = saved.matrix
<1>1. /\ saved \in SavedRecords /\ prior \in Matrices \cup {None}
      /\ effective \in Document \cup {None}
      /\ receipt \in Document \cup {None}
      /\ basis \in Bases \cup {None}
      /\ preview \in Preview \cup {None}
      /\ job \in JobRecords /\ phase \in Phases
      /\ leftBehind \subseteq Document
  BY DEF TouchInv, TypeOK, SavedRecords, Phases
<1>2. output \in BOOLEAN /\ expired \in BOOLEAN /\ watching \in BOOLEAN
  BY DEF TouchInv, TypeOK
<1>3. /\ SavedDoc \in Document
      /\ SavedDoc.rev = saved.rev /\ SavedDoc.matrix = saved.matrix
  BY <1>1 DEF SavedDoc, Doc, Document, SavedRecords
<1> QED BY <1>1, <1>2, <1>3 DEF Restorable

LEMMA TouchFromParts ==
    ASSUME saved' \in SavedRecords, prior' \in Matrices \cup {None},
           effective' \in Document \cup {None},
           receipt' \in Document \cup {None},
           basis' \in Bases \cup {None},
           preview' \in Preview \cup {None},
           output' \in BOOLEAN, expired' \in BOOLEAN, watching' \in BOOLEAN,
           job' \in JobRecords, phase' \in Phases,
           leftBehind' \subseteq Document,
           JobShape', PreviewShape', Told', Gone', PreviousIsPrior'
    PROVE  TouchInv'
<1>1. {output', expired', watching'} \subseteq BOOLEAN
  OBVIOUS
<1>2. TypeOK'
  BY <1>1 DEF TypeOK, SavedRecords, Phases, JobRecords, JobOps
<1> QED BY <1>2 DEF TouchInv

LEMMA IdleIs ==
    Idle \in JobRecords /\ Idle.op = "idle" /\ Idle.step = "idle"
BY DEF Idle, JobRecords, JobOps

(* set_state on its way to its own write. *)
LEMMA RotateIs ==
    ASSUME NEW b \in Bases \cup {None},
           job' = [Idle EXCEPT !.op = "rotate", !.basis = b]
    PROVE  job' \in JobRecords /\ job'.op = "rotate" /\ job'.step = "idle"
BY DEF Idle, JobRecords, JobOps

LEMMA ApplyIs ==
    ASSUME NEW op \in JobOps, NEW target \in Document \cup {None},
           NEW base \in Document \cup {None},
           NEW by \in {None, "client", "set_state", "watch", "close"},
           NEW b \in Bases \cup {None}, Apply(op, target, base, by, b)
    PROVE  /\ job' \in JobRecords /\ job'.op = op /\ job'.step = "write"
           /\ job'.target = target /\ job'.base = base /\ job'.basis = b
BY DEF Apply, JobRecords

(* The steps that leave the state file alone and open no preview. *)
LEMMA FileKept ==
    ASSUME TouchInv, UNCHANGED fileVars, leftBehind \subseteq leftBehind',
           leftBehind' \subseteq Document, preview' \in {preview, None}
    PROVE  /\ PreviewShape' /\ PreviousIsPrior'
           /\ saved' \in SavedRecords /\ prior' \in Matrices \cup {None}
           /\ preview' \in Preview \cup {None}
           /\ SavedDoc' = SavedDoc /\ Restorable \subseteq Restorable'
<1>1. saved' = saved /\ prior' = prior
  BY DEF fileVars
<1>2. SavedDoc' = SavedDoc
  BY <1>1 DEF SavedDoc
<1>3. Restorable \subseteq Restorable'
  BY <1>2 DEF Restorable
<1>4. PreviewShape'
  BY <1>3 DEF TouchInv, PreviewShape
<1>5. PreviousIsPrior'
  BY <1>1 DEF TouchInv, PreviousIsPrior
<1> QED BY <1>1, <1>2, <1>3, <1>4, <1>5, TouchTypes

LEMMA TouchKept ==
    ASSUME TouchInv, UNCHANGED fileVars, leftBehind \subseteq leftBehind',
           leftBehind' \subseteq Document, preview' \in {preview, None},
           effective' \in Document \cup {None},
           receipt' \in Document \cup {None},
           basis' \in Bases \cup {None},
           output' \in BOOLEAN, expired' \in BOOLEAN, watching' \in BOOLEAN,
           job' \in JobRecords, phase' \in Phases,
           JobShape', Told', Gone'
    PROVE  TouchInv'
BY FileKept, TouchFromParts

(* A handler ends: what is in effect is accounted for. *)
LEMMA HandlerEnds ==
    ASSUME TouchInv, UNCHANGED fileVars, leftBehind \subseteq leftBehind',
           leftBehind' \subseteq Document, preview' \in {preview, None},
           effective' \in Document \cup {None},
           receipt' \in Document \cup {None},
           basis' \in Bases \cup {None},
           output' \in BOOLEAN, expired' \in BOOLEAN, watching' \in BOOLEAN,
           job' \in JobRecords, phase' \in Phases,
           job' = Idle \/ (job'.op = "rotate" /\ job'.step = "idle"),
           Told', phase' = "exited" => job' = Idle /\ preview' = None
    PROVE  TouchInv'
<1>1. JobShape'
  BY IdleIs DEF JobShape
<1>2. Gone'
  BY DEF Gone
<1> QED BY <1>1, <1>2, TouchKept

(* A handler takes the lock, or goes on under it. *)
LEMMA HandlerGoesOn ==
    ASSUME TouchInv, UNCHANGED <<fileVars, outputVars, basis, previewVars,
                                 phase, leftBehind>>,
           effective' \in Document \cup {None}, job' \in JobRecords,
           job'.op \notin {"idle", "rotate"}, JobShape', phase # "exited"
    PROVE  TouchInv'
<1>1. /\ UNCHANGED <<receipt, output, preview, expired, watching, phase, basis>>
      /\ UNCHANGED <<leftBehind, fileVars>>
  BY DEF outputVars, previewVars
<1>2. Told'
  BY DEF Told
<1>3. Gone'
  BY <1>1 DEF Gone
<1>4. leftBehind \subseteq leftBehind' /\ leftBehind' \subseteq Document
  BY <1>1, TouchTypes
<1> QED BY <1>1, <1>2, <1>3, <1>4, TouchTypes, TouchKept

LEMMA HandlerAlive ==
    ASSUME TouchInv, job.op # "idle" PROVE phase # "exited" /\ job # Idle
BY IdleIs DEF TouchInv, Gone

LEMMA WriteEffectiveKeeps == ASSUME TouchInv, WriteEffective PROVE TouchInv'
<1>0. /\ job.step = "write" /\ effective' = job.target
      /\ job' = [job EXCEPT !.step = "wait"]
      /\ UNCHANGED <<fileVars, outputVars, basis, previewVars, phase, leftBehind>>
  BY DEF WriteEffective
<1>1. job.op \notin {"idle", "rotate"}
  BY <1>0, IdleIs DEF TouchInv, JobShape
<1>2. /\ job' \in JobRecords /\ job'.op = job.op /\ job'.target = job.target
      /\ job'.base = job.base /\ job'.basis = job.basis
      /\ effective' \in Document \cup {None}
  BY <1>0, TouchTypes DEF JobRecords
<1>3. /\ SavedDoc' = SavedDoc /\ saved' = saved /\ preview' = preview
      /\ leftBehind' = leftBehind
  BY <1>0 DEF fileVars, previewVars, SavedDoc
<1>4. JobShape'
  BY <1>1, <1>2, <1>3 DEF TouchInv, JobShape, Restorable
<1> QED BY <1>0, <1>1, <1>2, <1>4, HandlerAlive, HandlerGoesOn

(* The preview is on the panel. *)
LEMMA OpenPreviewKeeps == ASSUME TouchInv, OpenPreview PROVE TouchInv'
<1>0. /\ job.op = "preview" /\ Applied /\ job' = Idle
      /\ preview' = [doc |-> job.target, base |-> job.base, basis |-> job.basis]
      /\ expired' = FALSE /\ watching' = TRUE
      /\ UNCHANGED <<saved, prior, effective, receipt, output, basis, phase,
                     leftBehind>>
  BY DEF OpenPreview, Release, fileVars, outputVars
<1>1. /\ job.target \in Document /\ job.base \in Restorable
      /\ job.base \in Document /\ job.basis \in Bases
      /\ job.target.rev = job.base.rev + 1
  BY <1>0, TouchTypes DEF TouchInv, JobShape
<1>2. /\ preview' \in Preview /\ preview'.doc = job.target
      /\ preview'.base = job.base
  BY <1>0, <1>1 DEF Preview
<1>3. preview' # None
  BY <1>2, TouchAssumption
<1>4. effective' = preview'.doc
  BY <1>0, <1>2 DEF Applied
<1>5. Told' /\ JobShape'
  BY <1>0, <1>3, <1>4, IdleIs DEF Told, JobShape
<1>6. PreviewShape'
  BY <1>0, <1>1, <1>2 DEF PreviewShape, Restorable, SavedDoc
<1>7. Gone'
  BY <1>0, HandlerAlive DEF Gone
<1>8. PreviousIsPrior'
  BY <1>0 DEF TouchInv, PreviousIsPrior
<1>9. expired' \in BOOLEAN /\ watching' \in BOOLEAN
  BY <1>0
<1> QED BY <1>0, <1>2, <1>5, <1>6, <1>7, <1>8, <1>9, IdleIs, TouchTypes,
           TouchFromParts

LEMMA PreviewFailsKeeps == ASSUME TouchInv, PreviewFails PROVE TouchInv'
<1>0. /\ job.op = "preview" /\ Apply("rollback", job.base, None, None, None)
      /\ UNCHANGED <<fileVars, outputVars, basis, previewVars, phase, leftBehind>>
      /\ effective' = effective
  BY DEF PreviewFails
<1>1. preview = None /\ job.base \in Restorable /\ job.base \in Document
  BY <1>0, TouchTypes DEF TouchInv, JobShape
<1>2. job' \in JobRecords /\ job'.op = "rollback" /\ job'.target = job.base
  BY <1>0, <1>1, ApplyIs DEF JobOps
<1>3. preview' = preview /\ Restorable' = Restorable
  BY <1>0 DEF previewVars, fileVars, Restorable, SavedDoc
<1>4. JobShape'
  BY <1>1, <1>2, <1>3 DEF JobShape
<1> QED BY <1>0, <1>2, <1>4, TouchTypes, HandlerAlive, HandlerGoesOn

(* What is left behind is the document in effect, if it is another one. *)
LEMMA LeaveIs ==
    ASSUME TouchInv, NEW S, leftBehind' = leftBehind \cup ({effective} \ S),
           None \in S
    PROVE  /\ leftBehind \subseteq leftBehind' /\ leftBehind' \subseteq Document
           /\ effective \in leftBehind' \cup S
BY TouchTypes

LEMMA SettledKeeps == ASSUME TouchInv, Settled PROVE TouchInv'
<1>0. /\ job.op \in {"rollback", "unpersist", "recover"}
      /\ (Applied /\ UNCHANGED leftBehind) \/ Leave
      /\ job' = Idle
      /\ UNCHANGED <<saved, prior, effective, receipt, output, basis, phase>>
      /\ UNCHANGED <<preview, expired, watching>>
  BY DEF Settled, Release, fileVars, outputVars, previewVars
<1>1. SavedDoc' = SavedDoc /\ preview = None
  BY <1>0 DEF SavedDoc, TouchInv, JobShape
<1>2. /\ leftBehind \subseteq leftBehind' /\ leftBehind' \subseteq Document
      /\ effective \in leftBehind' \cup {SavedDoc, None}
  <2>1. CASE Leave
    BY <2>1, LeaveIs DEF Leave
  <2>2. CASE Applied /\ UNCHANGED leftBehind
    BY <1>0, <2>2, TouchTypes DEF Applied, TouchInv, JobShape, Restorable
  <2> QED BY <1>0, <2>1, <2>2
<1>3. Told'
  BY <1>0, <1>1, <1>2 DEF Told
<1>4. phase' # "exited"
  BY <1>0, HandlerAlive
<1> QED BY <1>0, <1>2, <1>3, <1>4, IdleIs, TouchTypes, HandlerEnds DEF fileVars

LEMMA RestoredKeeps == ASSUME TouchInv, Restored PROVE TouchInv'
<1>0. /\ job.op = "restore" /\ Applied
      /\ preview' = None /\ expired' = FALSE /\ watching' = FALSE
      /\ job' = Idle \/ job' = [Idle EXCEPT !.op = "rotate", !.basis = job.basis]
      /\ phase' \in {"closing", phase}
      /\ UNCHANGED <<saved, prior, effective, receipt, output, basis, leftBehind>>
  BY DEF Restored, ClearPreview, fileVars, outputVars
<1>1. job.basis \in Bases \cup {None}
  BY TouchTypes DEF JobRecords
<1>2. /\ job' \in JobRecords
      /\ job' = Idle \/ (job'.op = "rotate" /\ job'.step = "idle")
  BY <1>0, <1>1, IdleIs, RotateIs
<1>3. effective \in Restorable
  BY <1>0 DEF Applied, TouchInv, JobShape, PreviewShape
<1>4. SavedDoc' = SavedDoc
  BY <1>0 DEF SavedDoc
<1>5. Told'
  BY <1>0, <1>3, <1>4 DEF Told, Restorable
<1>6. phase' # "exited" /\ phase' \in Phases
  BY <1>0, TouchTypes, HandlerAlive DEF Phases
<1>7. expired' \in BOOLEAN /\ watching' \in BOOLEAN
  BY <1>0
<1> QED BY <1>0, <1>2, <1>5, <1>6, <1>7, TouchTypes, HandlerEnds DEF fileVars

LEMMA RestoreFailsKeeps == ASSUME TouchInv, RestoreFails PROVE TouchInv'
<1>0. /\ job.op = "restore" /\ job' = Idle
      /\ leftBehind' = leftBehind \cup ({effective} \ {preview.doc, None})
      /\ watching' = (watching /\ job.by # "watch")
      /\ phase' \in {"closing", phase}
      /\ UNCHANGED <<saved, prior, effective, receipt, output, basis, preview,
                     expired>>
  BY DEF RestoreFails, Release, fileVars, outputVars
<1>1. /\ leftBehind \subseteq leftBehind' /\ leftBehind' \subseteq Document
      /\ effective \in leftBehind' \cup {preview.doc, None}
  BY <1>0, LeaveIs
<1>2. preview # None
  BY <1>0 DEF TouchInv, JobShape
<1>3. Told'
  BY <1>0, <1>1, <1>2 DEF Told
<1>4. phase' # "exited" /\ phase' \in Phases
  BY <1>0, TouchTypes, HandlerAlive DEF Phases
<1>5. watching' \in BOOLEAN
  BY <1>0
<1> QED BY <1>0, <1>1, <1>3, <1>4, <1>5, IdleIs, TouchTypes, HandlerEnds
        DEF fileVars

(* Undo saves what the output has already applied, or applies the old again. *)
LEMMA UndoAppliedKeeps == ASSUME TouchInv, UndoApplied PROVE TouchInv'
<1>0. /\ job.op = "undo" /\ Applied
      /\ UNCHANGED <<effective, receipt, output, basis, preview, expired,
                     watching, phase, leftBehind>>
  BY DEF UndoApplied, outputVars, previewVars
<1>1. preview = None /\ job.target \in Document
  BY <1>0 DEF TouchInv, JobShape
<1>2. CASE SaveAffine(Undone) /\ Release
  <2>1. /\ saved' \in SavedRecords /\ saved'.previous = saved.matrix
        /\ saved'.rev = job.target.rev /\ saved'.matrix = job.target.matrix
        /\ prior' = saved.matrix /\ prior' \in Matrices /\ job' = Idle
    BY <1>1, <1>2, TouchTypes
       DEF SaveAffine, Undone, Release, SavedRecords, Document
  <2>2. SavedDoc' = job.target
    BY <1>1, <2>1 DEF SavedDoc, Doc, Document
  <2>3. effective' = SavedDoc'
    BY <1>0, <2>2 DEF Applied
  <2>4. Told' /\ JobShape' /\ PreviewShape' /\ PreviousIsPrior'
    BY <1>0, <1>1, <2>1, <2>3, IdleIs
       DEF Told, JobShape, PreviewShape, PreviousIsPrior
  <2>5. Gone'
    BY <1>0, HandlerAlive DEF Gone
  <2> QED BY <1>0, <2>1, <2>4, <2>5, IdleIs, TouchTypes, TouchFromParts
<1>3. CASE Apply("unpersist", SavedDoc, None, None, None) /\ UNCHANGED fileVars
  <2>1. job' \in JobRecords /\ job'.op = "unpersist" /\ job'.target = SavedDoc
    BY <1>3, TouchTypes, ApplyIs DEF JobOps
  <2>2. SavedDoc' = SavedDoc
    BY <1>3 DEF fileVars, SavedDoc
  <2>3. JobShape'
    BY <1>0, <1>1, <2>1, <2>2 DEF JobShape
  <2> QED BY <1>0, <1>3, <2>1, <2>3, TouchTypes, HandlerAlive, HandlerGoesOn
          DEF outputVars, previewVars
<1> QED BY <1>2, <1>3 DEF UndoApplied

LEMMA UndoFailsKeeps == ASSUME TouchInv, UndoFails PROVE TouchInv'
<1>0. /\ job.op = "undo" /\ Leave /\ job' = Idle
      /\ UNCHANGED <<saved, prior, effective, receipt, output, basis, phase>>
      /\ UNCHANGED <<preview, expired, watching>>
  BY DEF UndoFails, Release, fileVars, outputVars, previewVars
<1>1. SavedDoc' = SavedDoc /\ preview = None
  BY <1>0 DEF SavedDoc, TouchInv, JobShape
<1>2. /\ leftBehind \subseteq leftBehind' /\ leftBehind' \subseteq Document
      /\ effective \in leftBehind' \cup {SavedDoc, None}
  BY <1>0, LeaveIs DEF Leave
<1>3. Told'
  BY <1>0, <1>1, <1>2 DEF Told
<1>4. phase' # "exited"
  BY <1>0, HandlerAlive
<1> QED BY <1>0, <1>2, <1>3, <1>4, IdleIs, TouchTypes, HandlerEnds DEF fileVars

LEMMA RotateKeeps == ASSUME TouchInv, Rotate PROVE TouchInv'
<1>0. /\ job.op = "rotate" /\ job' = Idle
      /\ basis' \in {basis, job.basis}
      /\ RestartOutput \/ UNCHANGED <<effective, receipt, output>>
      /\ UNCHANGED <<saved, prior, preview, expired, watching, phase, leftBehind>>
  BY DEF Rotate, Release, fileVars, outputVars, previewVars
<1>1. basis' \in Bases \cup {None}
  BY <1>0, TouchTypes DEF JobRecords
<1>2. SavedDoc' = SavedDoc
  BY <1>0 DEF SavedDoc
<1>3. /\ effective' \in Document \cup {None} /\ receipt' \in Document \cup {None}
      /\ output' \in BOOLEAN
      /\ \/ effective' = effective /\ receipt' = receipt
         \/ effective' = None
         \/ effective' = SavedDoc /\ receipt' = SavedDoc
  <2>1. CASE RestartOutput
    BY <2>1, TouchTypes DEF RestartOutput
  <2>2. CASE UNCHANGED <<effective, receipt, output>>
    BY <2>2, TouchTypes
  <2> QED BY <1>0, <2>1, <2>2
<1>4. phase # "exited"
  BY <1>0, HandlerAlive
<1>5. Told'
  BY <1>0, <1>2, <1>3, <1>4, IdleIs DEF TouchInv, Told
<1> QED BY <1>0, <1>1, <1>3, <1>4, <1>5, IdleIs, TouchTypes, HandlerEnds
        DEF fileVars

-----------------------------------------------------------------------------
(* The requests. *)

LEMMA CallIs ==
    ASSUME TouchInv, Call
    PROVE  /\ job = Idle /\ job.op = "idle" /\ phase = "serving"
           /\ UNCHANGED <<receipt, output, phase, effective, leftBehind, basis>>
BY IdleIs DEF Call, outputVars

LEMMA StartPreviewKeeps ==
    ASSUME TouchInv, NEW m \in Matrices, StartPreview(m), job = Idle,
           phase # "exited", UNCHANGED <<fileVars, effective, outputVars, basis,
                                         previewVars, phase, leftBehind>>
    PROVE  TouchInv'
<1>1. /\ preview = None /\ effective \in Document /\ effective.rev \in Revisions
      /\ effective.rev < MaxAffine /\ basis \in Bases
      /\ Apply("preview", Doc(effective.rev + 1, m), effective, None, basis)
  <2>1. effective \in Document /\ basis \in Bases
    BY TouchTypes DEF StartPreview, Writable
  <2>2. effective.rev \in Revisions
    BY <2>1 DEF Document
  <2> QED BY <2>1, <2>2, TouchAssumption
          DEF StartPreview, Exhausted, Revisions
<1>2. effective.rev + 1 \in Revisions
  BY <1>1, TouchAssumption DEF Revisions
<1> DEFINE new == Doc(effective.rev + 1, m)
<1>3. new \in Document /\ new.rev = effective.rev + 1
  BY <1>2 DEF Doc, Document
<1> HIDE DEF new
<1>4. /\ job' \in JobRecords /\ job'.op = "preview" /\ job'.target = new
      /\ job'.base = effective /\ job'.basis = basis
  BY <1>1, <1>3, ApplyIs DEF JobOps, new
<1>5. effective \in Restorable
  <2>1. effective # None
    BY <1>1, TouchAssumption
  <2> QED BY <1>1, <2>1, IdleIs DEF TouchInv, Told, Restorable
<1>6. preview' = preview /\ Restorable' = Restorable
  BY DEF previewVars, fileVars, Restorable, SavedDoc
<1>7. JobShape'
  BY <1>1, <1>3, <1>4, <1>5, <1>6 DEF JobShape
<1> QED BY <1>4, <1>7, TouchTypes, HandlerGoesOn

LEMMA CallPreviewKeeps ==
    ASSUME TouchInv, NEW m \in Matrices, CallPreview(m) \/ LatePreview(m)
    PROVE  TouchInv'
<1>1. CASE CallPreview(m)
  BY <1>1, StartPreviewKeeps DEF CallPreview, Call
<1>2. CASE LatePreview(m)
  BY <1>2, StartPreviewKeeps DEF LatePreview
<1> QED BY <1>1, <1>2

(* A restore begins, whoever asks for it. *)
LEMMA RestoreKeeps ==
    ASSUME TouchInv, preview # None,
           NEW by \in {"client", "set_state", "watch", "close"},
           NEW b \in Bases \cup {None}, Restore(by, b), phase # "exited",
           UNCHANGED <<fileVars, effective, outputVars, basis, previewVars,
                       phase, leftBehind>>
    PROVE  TouchInv'
<1>1. preview.base \in Document
  BY TouchTypes DEF Preview
<1>2. job' \in JobRecords /\ job'.op = "restore" /\ job'.target = preview.base
  <2>1. Apply("restore", preview.base, None, by, b)
    BY DEF Restore
  <2>2. "restore" \in JobOps /\ preview.base \in Document \cup {None}
    BY <1>1 DEF JobOps
  <2>3. None \in Document \cup {None}
    OBVIOUS
  <2>4. by \in {None, "client", "set_state", "watch", "close"}
    OBVIOUS
  <2> QED BY <2>1, <2>2, <2>3, <2>4, ApplyIs
<1>3. preview' = preview
  BY DEF previewVars
<1>4. JobShape'
  BY <1>2, <1>3 DEF JobShape
<1> QED BY <1>2, <1>4, TouchTypes, HandlerGoesOn

(* The preview becomes the saved matrix. *)
LEMMA ConfirmKeeps ==
    ASSUME TouchInv, preview # None, Call, receipt = preview.doc,
           SaveAffine(Confirmed), ClearPreview, UNCHANGED job
    PROVE  TouchInv'
<1>0. /\ job = Idle /\ job.op = "idle" /\ phase = "serving" /\ job' = job
      /\ UNCHANGED <<receipt, output, phase, effective, leftBehind, basis>>
      /\ preview' = None /\ expired' = FALSE /\ watching' = FALSE
  BY CallIs DEF ClearPreview
<1>1. preview \in Preview /\ preview.doc \in Document /\ preview.base \in Document
  BY TouchTypes DEF Preview
<1>2. /\ saved' \in SavedRecords /\ saved'.rev = preview.doc.rev
      /\ saved'.matrix = preview.doc.matrix
      /\ saved'.previous = preview.base.matrix
      /\ prior' = saved.matrix /\ prior' \in Matrices
  BY <1>1, TouchTypes DEF SaveAffine, Confirmed, SavedRecords, Document
<1>3. SavedDoc' = preview.doc
  BY <1>1, <1>2 DEF SavedDoc, Doc, Document
<1>4. effective \in {None, preview.doc} \cup leftBehind
  BY <1>0 DEF TouchInv, Told
<1>5. Told' /\ JobShape' /\ PreviewShape' /\ Gone'
  BY <1>0, <1>3, <1>4, IdleIs DEF Told, JobShape, PreviewShape, Gone
<1>6. preview.base \in Restorable
  BY DEF TouchInv, PreviewShape
<1>7. PreviousIsPrior'
  BY <1>0, <1>2, <1>6, TouchTypes DEF PreviousIsPrior, Restorable
<1>8. expired' \in BOOLEAN /\ watching' \in BOOLEAN
  BY <1>0
<1> QED BY <1>0, <1>2, <1>5, <1>7, <1>8, TouchTypes, TouchFromParts

LEMMA CallConfirmKeeps == ASSUME TouchInv, CallConfirm PROVE TouchInv'
<1>1. preview # None /\ Call
  BY DEF CallConfirm
<1>2. CASE Restore("client", None) /\ UNCHANGED <<fileVars, previewVars>>
  BY <1>1, <1>2, CallIs, RestoreKeeps DEF outputVars
<1>3. CASE receipt = preview.doc /\ SaveAffine(Confirmed) /\ ClearPreview
           /\ UNCHANGED job
  BY <1>1, <1>3, ConfirmKeeps
<1> QED BY <1>2, <1>3 DEF CallConfirm

LEMMA CallCancelKeeps == ASSUME TouchInv, CallCancel PROVE TouchInv'
BY CallIs, RestoreKeeps DEF CallCancel, outputVars

LEMMA CallUndoKeeps == ASSUME TouchInv, CallUndo PROVE TouchInv'
<1>0. /\ preview = None /\ saved.previous # None /\ ~Exhausted(saved.rev) /\ Call
      /\ Apply("undo", Doc(saved.rev + 1, saved.previous), None, None, None)
      /\ UNCHANGED <<fileVars, previewVars>>
  BY DEF CallUndo
<1>1. saved.previous \in Matrices /\ saved.rev + 1 \in Revisions
  BY <1>0, TouchTypes, TouchAssumption DEF SavedRecords, Revisions, Exhausted
<1> DEFINE new == Doc(saved.rev + 1, saved.previous)
<1>2. new \in Document /\ new.rev = saved.rev + 1
  BY <1>1 DEF Doc, Document
<1> HIDE DEF new
<1>3. job' \in JobRecords /\ job'.op = "undo" /\ job'.target = new
  BY <1>0, <1>2, ApplyIs DEF JobOps, new
<1>4. preview' = preview /\ saved' = saved
  BY <1>0 DEF fileVars, previewVars
<1>5. JobShape'
  BY <1>0, <1>2, <1>3, <1>4 DEF JobShape
<1> QED BY <1>0, <1>3, <1>5, CallIs, TouchTypes, HandlerGoesOn DEF outputVars

LEMMA CallSetStateKeeps ==
    ASSUME TouchInv, NEW b \in Bases \cup {None}, CallSetState(b) PROVE TouchInv'
<1>0. /\ Call /\ UNCHANGED <<fileVars, previewVars>>
      /\ \/ job' = [Idle EXCEPT !.op = "rotate", !.basis = b]
         \/ preview # None /\ Restore("set_state", b)
  BY DEF CallSetState
<1>1. CASE preview # None /\ Restore("set_state", b)
  BY <1>0, <1>1, CallIs, RestoreKeeps DEF outputVars
<1>2. CASE job' = [Idle EXCEPT !.op = "rotate", !.basis = b]
  <2>1. job' \in JobRecords /\ job'.op = "rotate" /\ job'.step = "idle"
    BY <1>2, RotateIs
  <2>2. /\ job.op = "idle" /\ phase = "serving"
        /\ UNCHANGED <<receipt, output, phase, effective, leftBehind, basis>>
        /\ UNCHANGED <<saved, prior, preview, expired, watching>>
    BY <1>0, CallIs DEF fileVars, previewVars
  <2>3. Told'
    BY <2>1, <2>2 DEF TouchInv, Told, SavedDoc
  <2> QED BY <2>1, <2>2, <2>3, TouchTypes, HandlerEnds DEF fileVars
<1> QED BY <1>0, <1>1, <1>2

-----------------------------------------------------------------------------
(* The process, its watcher and the output. *)

LEMMA WatchKeeps == ASSUME TouchInv, Watch PROVE TouchInv'
BY RestoreKeeps DEF Watch

LEMMA ExpireKeeps == ASSUME TouchInv, Expire PROVE TouchInv'
<1>0. /\ expired' = TRUE
      /\ UNCHANGED <<saved, prior, effective, receipt, output, basis, preview,
                     watching, job, phase, leftBehind>>
  BY DEF Expire, fileVars, outputVars
<1>1. JobShape' /\ Told' /\ Gone'
  BY <1>0 DEF TouchInv, JobShape, Told, Gone, Restorable, SavedDoc
<1>2. expired' \in BOOLEAN
  BY <1>0
<1> QED BY <1>0, <1>1, <1>2, TouchTypes, TouchKept DEF fileVars

LEMMA CloseKeeps == ASSUME TouchInv, Close PROVE TouchInv'
<1>0. /\ phase = "serving" /\ job = Idle
      /\ UNCHANGED <<fileVars, effective, outputVars, basis, previewVars,
                     leftBehind>>
      /\ \/ phase' = "closing" /\ UNCHANGED job
         \/ preview # None /\ Restore("close", None) /\ UNCHANGED phase
  BY DEF Close
<1>1. CASE preview # None /\ Restore("close", None) /\ UNCHANGED phase
  BY <1>0, <1>1, RestoreKeeps
<1>2. CASE phase' = "closing" /\ UNCHANGED job
  <2>1. UNCHANGED <<saved, prior, effective, receipt, output, basis, preview,
                    expired, watching, leftBehind, job>>
    BY <1>0, <1>2 DEF fileVars, outputVars, previewVars
  <2>2. Told'
    BY <1>0, <1>2, <2>1 DEF TouchInv, Told, SavedDoc
  <2>3. phase' \in Phases /\ phase' # "exited"
    BY <1>2 DEF Phases
  <2> QED BY <1>0, <2>1, <2>2, <2>3, TouchTypes, HandlerEnds DEF fileVars
<1> QED BY <1>0, <1>1, <1>2

LEMMA EndedKeeps == ASSUME TouchInv, Ended PROVE TouchInv'
<1>0. /\ phase' = "exited" /\ preview' = None /\ job' = Idle
      /\ expired' = FALSE /\ watching' = FALSE
      /\ UNCHANGED <<saved, prior, effective, receipt, output, basis, leftBehind>>
  BY DEF Ended, ClearPreview, Release, fileVars, outputVars
<1>1. Told'
  BY <1>0 DEF Told
<1>2. expired' \in BOOLEAN /\ watching' \in BOOLEAN /\ phase' \in Phases
  BY <1>0 DEF Phases
<1> QED BY <1>0, <1>1, <1>2, IdleIs, TouchTypes, HandlerEnds DEF fileVars

(* recover_stale_preview *)
LEMMA StartKeeps == ASSUME TouchInv, Start PROVE TouchInv'
<1>0. /\ phase = "exited" /\ phase' = "serving"
      /\ \/ effective \in {None, SavedDoc} /\ UNCHANGED job
         \/ Apply("recover", SavedDoc, None, None, None)
      /\ UNCHANGED <<saved, prior, effective, receipt, output, basis, preview,
                     expired, watching, leftBehind>>
  BY DEF Start, fileVars, outputVars, previewVars
<1>1. job = Idle /\ preview = None
  BY <1>0 DEF TouchInv, Gone
<1>2. SavedDoc' = SavedDoc
  BY <1>0 DEF SavedDoc
<1>3. phase' \in Phases /\ phase' # "exited"
  BY <1>0 DEF Phases
<1>4. CASE effective \in {None, SavedDoc} /\ UNCHANGED job
  <2>1. Told'
    BY <1>0, <1>1, <1>2, <1>4 DEF Told
  <2> QED BY <1>0, <1>1, <1>3, <1>4, <2>1, TouchTypes, HandlerEnds DEF fileVars
<1>5. CASE Apply("recover", SavedDoc, None, None, None)
  <2>1. job' \in JobRecords /\ job'.op = "recover" /\ job'.target = SavedDoc
    BY <1>5, TouchTypes, ApplyIs DEF JobOps
  <2>2. JobShape' /\ Told' /\ Gone'
    BY <1>0, <1>1, <1>2, <2>1 DEF JobShape, Told, Gone
  <2> QED BY <1>0, <1>3, <2>1, <2>2, TouchTypes, TouchKept DEF fileVars
<1> QED BY <1>0, <1>4, <1>5

LEMMA OutsideKeeps == ASSUME TouchInv, Outside PROVE TouchInv'
<1>0. /\ UNCHANGED <<saved, prior, preview, expired, watching, job, phase,
                     leftBehind>>
      /\ output' \in BOOLEAN /\ basis' \in Bases \cup {None}
      /\ \/ effective' = effective /\ receipt' \in {receipt, effective}
         \/ effective' = None /\ receipt' = None
         \/ effective' = SavedDoc /\ receipt' = SavedDoc
  <2>1. CASE OutputReloads
    BY <2>1, TouchTypes DEF OutputReloads, fileVars, previewVars
  <2>2. CASE OutputStops
    BY <2>2, TouchTypes DEF OutputStops, Change, fileVars, previewVars
  <2>3. CASE OutputStarts
    BY <2>3, TouchTypes DEF OutputStarts, fileVars, previewVars
  <2>4. CASE BasisChanges
    BY <2>4, TouchTypes DEF BasisChanges, Change, fileVars, previewVars,
                            outputVars
  <2> QED BY <2>1, <2>2, <2>3, <2>4 DEF Outside
<1>1. SavedDoc' = SavedDoc
  BY <1>0 DEF SavedDoc
<1>2. effective' \in Document \cup {None} /\ receipt' \in Document \cup {None}
  BY <1>0, TouchTypes
<1>3. Told'
  BY <1>0, <1>1 DEF TouchInv, Told
<1>4. JobShape' /\ Gone'
  BY <1>0, <1>1 DEF TouchInv, JobShape, Gone, Restorable
<1> QED BY <1>0, <1>2, <1>3, <1>4, TouchTypes, TouchKept DEF fileVars

-----------------------------------------------------------------------------
LEMMA TouchInitInv == ASSUME Init PROVE TouchInv
<1>0. /\ saved \in SavedRecords /\ saved.previous = None /\ prior = None
      /\ effective = SavedDoc /\ receipt = SavedDoc /\ output = TRUE
      /\ basis \in Bases /\ preview = None /\ expired = FALSE
      /\ watching = FALSE /\ job = Idle /\ phase = "serving" /\ leftBehind = {}
  <2>1. 0 \in Revisions
    BY TouchAssumption DEF Revisions
  <2> QED BY <2>1 DEF Init, SavedRecords
<1>1. SavedDoc \in Document
  BY <1>0 DEF SavedDoc, Doc, Document, SavedRecords
<1>2. JobShape /\ PreviewShape /\ Told /\ Gone /\ PreviousIsPrior
  BY <1>0, IdleIs DEF JobShape, PreviewShape, Told, Gone, PreviousIsPrior
<1>3. {output, expired, watching} \subseteq BOOLEAN
  BY <1>0
<1>4. TypeOK
  BY <1>0, <1>1, <1>3, IdleIs DEF TypeOK, SavedRecords, JobRecords
<1> QED BY <1>0, <1>2, <1>4, IdleIs DEF TouchInv

LEMMA TouchStepInv == ASSUME TouchInv, Next PROVE TouchInv'
<1>1. CASE Work
  BY <1>1, WriteEffectiveKeeps, OpenPreviewKeeps, PreviewFailsKeeps,
     SettledKeeps, RestoredKeeps, RestoreFailsKeeps, UndoAppliedKeeps,
     UndoFailsKeeps, RotateKeeps DEF Work, Finish
<1>2. CASE Clients
  BY <1>2, CallPreviewKeeps, CallConfirmKeeps, CallCancelKeeps, CallUndoKeeps,
     CallSetStateKeeps DEF Clients
<1>3. CASE Process
  BY <1>3, WatchKeeps, ExpireKeeps, CloseKeeps, EndedKeeps, StartKeeps
     DEF Process, Exit, Kill
<1>4. CASE Outside
  BY <1>4, OutsideKeeps
<1> QED BY <1>1, <1>2, <1>3, <1>4 DEF Next

(* TouchInv holds in every state of the calibration protocol. *)
THEOREM TouchInvariant == Spec => []TouchInv
<1>1. Init => TouchInv
  BY TouchInitInv
<1>2. TouchInv /\ UNCHANGED vars => TouchInv'
  BY DEF vars, TouchInv, TypeOK, JobShape, PreviewShape, Told, Gone,
         PreviousIsPrior, Restorable, SavedDoc
<1>3. TouchInv /\ [Next]_vars => TouchInv'
  BY <1>2, TouchStepInv
<1> QED BY <1>1, <1>3, PTL DEF Spec

(* Every handler, the watcher, a kill and a start keep the types, so no      *)
(* revision passes MAX_AFFINE_REVISION.                                      *)
THEOREM CalibrationTyped == Spec => []TypeOK
<1>1. TouchInv => TypeOK
  BY DEF TouchInv
<1> QED BY <1>1, TouchInvariant, PTL

(* With no preview open and no handler running the output was told the saved *)
(* matrix, or one that a failure had to leave behind.                        *)
THEOREM RuntimeFollowsSaved == Spec => []RuntimeMatchesSaved
<1>1. TouchInv => RuntimeMatchesSaved
  BY IdleIs DEF TouchInv, Told, RuntimeMatchesSaved
<1> QED BY <1>1, TouchInvariant, PTL

(* Undo goes back to the matrix saved before the present one, unless a       *)
(* failure had left another in effect.                                       *)
THEOREM UndoReturnsToPrior == Spec => []PreviousIsPrior
<1>1. TouchInv => PreviousIsPrior
  BY DEF TouchInv
<1> QED BY <1>1, TouchInvariant, PTL

(* While no failure left a document behind, confirm and undo, the only       *)
(* writers of the state file, save under a higher revision.                  *)
THEOREM RevisionsGrow == Spec => SavedRevisionGrows
<1>1. ASSUME TouchInv, Next, saved' # saved, leftBehind = {}
      PROVE  saved'.rev > saved.rev
  <2>1. \/ job.op = "undo" /\ SaveAffine(Undone)
        \/ preview # None /\ SaveAffine(Confirmed)
    <3>1. ~UNCHANGED saved
      BY <1>1
    <3>2. CASE Work
      BY <3>1, <3>2 DEF Work, Finish, WriteEffective, OpenPreview, PreviewFails,
         Settled, Restored, RestoreFails, UndoApplied, UndoFails, Rotate, fileVars
    <3>3. CASE Clients
      BY <3>1, <3>3 DEF Clients, CallPreview, LatePreview, CallConfirm,
         CallCancel, CallUndo, CallSetState, fileVars
    <3>4. CASE Process
      BY <3>1, <3>4 DEF Process, Watch, Expire, Close, Exit, Kill, Ended, Start,
         fileVars
    <3>5. CASE Outside
      BY <3>1, <3>5 DEF Outside, OutputReloads, OutputStops, OutputStarts,
         BasisChanges, Change, fileVars
    <3> QED BY <1>1, <3>2, <3>3, <3>4, <3>5 DEF Next
  <2>2. saved.rev \in Nat
    BY <1>1, TouchTypes, TouchAssumption DEF SavedRecords, Revisions
  <2>3. CASE job.op = "undo" /\ SaveAffine(Undone)
    <3>1. saved'.rev = saved.rev + 1
      BY <1>1, <2>3 DEF SaveAffine, Undone, TouchInv, JobShape
    <3> QED BY <2>2, <3>1
  <2>4. CASE preview # None /\ SaveAffine(Confirmed)
    <3>1. preview.base = SavedDoc /\ preview.doc.rev = preview.base.rev + 1
      BY <1>1, <2>4 DEF TouchInv, PreviewShape, Restorable
    <3>2. saved'.rev = saved.rev + 1
      BY <1>1, <2>4, <3>1, TouchTypes DEF SaveAffine, Confirmed
    <3> QED BY <2>2, <3>2
  <2> QED BY <2>1, <2>3, <2>4
<1>2. TouchInv /\ [Next]_vars =>
        [(saved' # saved /\ leftBehind = {}) => saved'.rev > saved.rev]_vars
  BY <1>1
<1> QED BY <1>2, TouchInvariant, PTL DEF Spec, SavedRevisionGrows
=============================================================================
