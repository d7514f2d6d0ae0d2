---------------------------- MODULE LinuxProofs ----------------------------
(***************************************************************************)
(* Proofs about the Linux providers: writes that are read back before they  *)
(* are acknowledged, and the lookup of the current display session.         *)
(***************************************************************************)
EXTENDS VerifiedWrite, DisplaySession, WellFoundedInduction, TLAPS

-----------------------------------------------------------------------------
(* Verified writes. *)

Devices == [name : Names, value : Levels]
WriteRecords ==
    [step : {"idle", "resolve", "check", "write", "verify", "reply"},
     name : Names \cup {NoDev}, want : Levels \cup {NoDev},
     at : Slots \cup {NoDev}]

(* What the step of a call says of its other fields. *)
Writing(r) ==
    /\ r.step # "idle" => r.name \in Names /\ r.want \in Levels
    /\ r.step \in {"idle", "resolve"} => r.at = NoDev
    /\ r.step \in {"check", "write", "verify", "reply"} => r.at \in Slots

(* The device shows what was acknowledged last or what a failed call left, or *)
(* the call that wrote last is about to read its own value back.              *)
LastWriterVerifies ==
    \A s \in Present :
       (/\ SlotsOf(slot[s].name) = {s} /\ slot[s].name \notin foreign
        /\ acked[slot[s].name] # NoDev)
       => \/ slot[s].value = acked[slot[s].name]
          \/ <<slot[s].name, slot[s].value>> \in doubtful
          \/ \E w \in Writers : /\ wr[w].step = "verify" /\ At(w) = s
                                /\ slot[s].value = wr[w].want

WriteInv ==
    /\ WriteTypeOK /\ \A w \in Writers : Writing(wr[w])
    /\ LastWriterVerifies

LEMMA WriteTypes ==
    ASSUME WriteInv
    PROVE  /\ kind \in Kinds /\ panelMax \in Maxima
           /\ slot \in [Slots -> Devices \cup {NoDev}]
           /\ wr \in [Writers -> WriteRecords] /\ \A w \in Writers : Writing(wr[w])
           /\ acked \in [Names -> Levels \cup {NoDev}]
           /\ foreign \subseteq Names /\ doubtful \subseteq Names \X Levels
           /\ NoDev \notin Slots /\ NoDev \notin Names /\ NoDev \notin Levels
           /\ NoDev \notin Devices
           /\ \A s \in Slots : s \in Present <=> slot[s] \in Devices
<1>1. /\ kind \in Kinds /\ panelMax \in Maxima
      /\ slot \in [Slots -> Devices \cup {NoDev}]
      /\ acked \in [Names -> Levels \cup {NoDev}]
      /\ foreign \subseteq Names /\ doubtful \subseteq Names \X Levels
  BY DEF WriteInv, WriteTypeOK, Devices
<1>2. wr \in [Writers -> WriteRecords] /\ \A w \in Writers : Writing(wr[w])
  BY DEF WriteInv, WriteTypeOK, WriteRecords
<1>3. /\ NoDev \notin Slots /\ NoDev \notin Names /\ NoDev \notin Levels
      /\ NoDev \notin Devices
  BY WriteAssumption DEF Devices
<1> QED BY <1>1, <1>2, <1>3 DEF Present

LEMMA WriteTypeFromParts ==
    ASSUME WriteInv, UNCHANGED <<kind, panelMax>>, hard' \in BOOLEAN,
           slot' \in [Slots -> Devices \cup {NoDev}],
           wr' \in [Writers -> WriteRecords],
           \A w \in Writers : Writing(wr'[w]),
           acked' \in [Names -> Levels \cup {NoDev}],
           foreign' \subseteq Names, doubtful' \subseteq Names \X Levels,
           LastWriterVerifies'
    PROVE  WriteInv'
BY DEF WriteInv, WriteTypeOK, Devices, WriteRecords

LEMMA HardTyped ==
    ASSUME WriteInv
    PROVE  hard \in BOOLEAN
BY DEF WriteInv, WriteTypeOK

(* What moving one call on does to the records. *)
LEMMA WriterMoves ==
    ASSUME WriteInv, NEW w \in Writers, NEW r \in WriteRecords,
           wr' = [wr EXCEPT ![w] = r], Writing(r)
    PROVE  /\ wr' \in [Writers -> WriteRecords] /\ wr'[w] = r
           /\ \A v \in Writers : v # w => wr'[v] = wr[v]
           /\ \A v \in Writers : Writing(wr'[v])
BY WriteTypes

LEMMA AdvanceIs ==
    ASSUME WriteInv, NEW w \in Writers, wr[w].step # "idle",
           wr[w].step # "resolve",
           NEW s \in {"write", "verify", "reply"}, Advance(w, s)
    PROVE  \E r \in WriteRecords :
              /\ wr' = [wr EXCEPT ![w] = r] /\ Writing(r)
              /\ r.step = s /\ r.name = wr[w].name /\ r.want = wr[w].want
              /\ r.at = wr[w].at
<1> DEFINE r == [wr[w] EXCEPT !.step = s]
<1>1. wr[w] \in WriteRecords /\ Writing(wr[w])
  BY WriteTypes
<1>2. wr' = [wr EXCEPT ![w] = r]
  BY DEF Advance
<1>3. /\ r \in WriteRecords /\ r.step = s /\ r.name = wr[w].name
      /\ r.want = wr[w].want /\ r.at = wr[w].at
  BY <1>1 DEF WriteRecords
<1> HIDE DEF r
<1>4. Writing(r)
  BY <1>1, <1>3 DEF Writing, WriteRecords
<1> QED BY <1>2, <1>3, <1>4

LEMMA DoneIs ==
    /\ NoWrite \in WriteRecords /\ Writing(NoWrite)
    /\ NoWrite.step = "idle" /\ NoWrite.at = NoDev
BY DEF NoWrite, WriteRecords, Writing

(* A call that moves on without touching any slot, and was not about to read  *)
(* back.                                                                      *)
LEMMA MovesQuietly ==
    ASSUME WriteInv, NEW w \in Writers, NEW r \in WriteRecords,
           wr' = [wr EXCEPT ![w] = r], Writing(r), wr[w].step # "verify",
           UNCHANGED <<kind, panelMax, slot, hard, acked, foreign, doubtful>>
    PROVE  WriteInv'
<1>1. /\ wr' \in [Writers -> WriteRecords] /\ wr'[w] = r
      /\ \A v \in Writers : v # w => wr'[v] = wr[v]
      /\ \A v \in Writers : Writing(wr'[v])
  BY WriterMoves
<1>2. LastWriterVerifies'
  BY <1>1 DEF WriteInv, LastWriterVerifies, At, Present, SlotsOf
<1> QED BY <1>1, <1>2, WriteTypes, HardTyped, WriteTypeFromParts

LEMMA CallStepsKeep ==
    ASSUME WriteInv, NEW w \in Writers,
           \/ \E n \in Names, v \in Levels : WriteCall(w, n, v)
           \/ Resolve(w) \/ Check(w) \/ Reply(w)
    PROVE  WriteInv'
<1>1. UNCHANGED <<kind, panelMax, slot, hard, acked, foreign, doubtful>>
  BY DEF WriteCall, Resolve, Check, Reply, envVars
<1>2. ASSUME NEW n \in Names, NEW v \in Levels, WriteCall(w, n, v)
      PROVE  WriteInv'
  <2> DEFINE r == [step |-> "resolve", name |-> n, want |-> v, at |-> NoDev]
  <2>1. wr' = [wr EXCEPT ![w] = r] /\ wr[w].step # "verify"
    BY <1>2 DEF WriteCall
  <2>2. r \in WriteRecords /\ Writing(r) /\ r.at = NoDev
    BY DEF WriteRecords, Writing
  <2> HIDE DEF r
  <2> QED BY <1>1, <2>1, <2>2, MovesQuietly
<1>3. ASSUME Done(w), wr[w].step # "verify"
      PROVE  WriteInv'
  BY <1>1, <1>3, DoneIs, MovesQuietly DEF Done
<1>4. CASE Resolve(w)
  <2>1. ASSUME NEW s \in Target(wr[w].name),
               wr' = [wr EXCEPT ![w].at = s, ![w].step = "check"]
        PROVE  WriteInv'
    <3> DEFINE r == [wr[w] EXCEPT !.at = s, !.step = "check"]
    <3>1. s \in Present /\ slot[s].name = wr[w].name /\ s \in Slots
      BY <2>1 DEF Target, SlotsOf, Present
    <3>2. wr[w] \in WriteRecords /\ Writing(wr[w]) /\ wr[w].step = "resolve"
      BY <1>4, WriteTypes DEF Resolve
    <3>3. wr' = [wr EXCEPT ![w] = r]
      BY <2>1, WriteTypes
    <3>4. /\ r \in WriteRecords /\ r.step = "check" /\ r.at = s
          /\ r.name = wr[w].name /\ r.want = wr[w].want
      BY <3>1, <3>2 DEF WriteRecords
    <3> HIDE DEF r
    <3>5. Writing(r)
      BY <3>1, <3>2, <3>4 DEF Writing
    <3> QED BY <1>1, <3>1, <3>2, <3>3, <3>4, <3>5, MovesQuietly
  <2>2. wr[w].step # "verify"
    BY <1>4 DEF Resolve
  <2> QED BY <1>3, <1>4, <2>1, <2>2 DEF Resolve
<1>5. CASE Check(w)
  <2>1. wr[w].step = "check"
    BY <1>5 DEF Check
  <2>2. CASE Advance(w, "write")
    <3>1. PICK r \in WriteRecords :
              /\ wr' = [wr EXCEPT ![w] = r] /\ Writing(r)
              /\ r.step = "write" /\ r.name = wr[w].name
              /\ r.at = wr[w].at
      BY <2>1, <2>2, AdvanceIs
    <3> QED BY <1>1, <2>1, <3>1, MovesQuietly
  <2> QED BY <1>3, <1>5, <2>1, <2>2 DEF Check
<1>6. CASE Reply(w)
  BY <1>3, <1>6 DEF Reply
<1> QED BY <1>2, <1>4, <1>5, <1>6

(* The write itself: the writer becomes the one that verifies. *)
LEMMA WriteKeeps ==
    ASSUME WriteInv, NEW w \in Writers, Write(w)
    PROVE  WriteInv'
<1>1. /\ wr[w].step = "write" /\ wr[w].want \in Levels /\ At(w) \in Slots
      /\ UNCHANGED <<kind, panelMax, hard, acked>>
  BY WriteTypes DEF Write, Writing, At
<1>2. CASE Done(w) /\ UNCHANGED <<slot, foreign, doubtful>>
  BY <1>1, <1>2, DoneIs, MovesQuietly DEF Done
<1>3. ASSUME Advance(w, "verify")
      PROVE  \E r \in WriteRecords :
                /\ wr' = [wr EXCEPT ![w] = r] /\ Writing(r)
                /\ r.step = "verify" /\ r.want = wr[w].want /\ r.at = wr[w].at
  BY <1>1, <1>3, AdvanceIs
<1>4. CASE Advance(w, "verify") /\ UNCHANGED <<slot, foreign, doubtful>>
  BY <1>1, <1>3, <1>4, MovesQuietly
<1>5. ASSUME At(w) \in Present,
             slot' = [slot EXCEPT ![At(w)].value = wr[w].want],
             foreign' = foreign \ {slot[At(w)].name},
             \/ Advance(w, "verify") /\ UNCHANGED doubtful
             \/ Done(w) /\ Doubt(w)
      PROVE  WriteInv'
  <2> DEFINE s == At(w)
             e == [slot[s] EXCEPT !.value = wr[w].want]
             p == <<slot[s].name, wr[w].want>>
  <2>1. PICK r \in WriteRecords :
            /\ wr' = [wr EXCEPT ![w] = r] /\ Writing(r)
            /\ \/ /\ r.step = "verify" /\ r.want = wr[w].want /\ r.at = s
                  /\ doubtful' = doubtful
               \/ doubtful' = doubtful \cup {p}
    <3>1. CASE Advance(w, "verify") /\ UNCHANGED doubtful
      BY <1>3, <3>1 DEF At
    <3>2. CASE Done(w) /\ Doubt(w)
      BY <3>2, DoneIs DEF Done, Doubt
    <3> QED BY <1>5, <3>1, <3>2
  <2>2. /\ wr' \in [Writers -> WriteRecords] /\ wr'[w] = r
        /\ \A v \in Writers : v # w => wr'[v] = wr[v]
        /\ \A v \in Writers : Writing(wr'[v])
    BY <2>1, WriterMoves
  <2>3. slot[s] \in Devices /\ slot \in [Slots -> Devices \cup {NoDev}]
    BY <1>1, <1>5, WriteTypes
  <2>4. /\ e \in Devices /\ e.name = slot[s].name /\ e.value = wr[w].want
        /\ p \in Names \X Levels
    BY <1>1, <2>3 DEF Devices
  <2>5. slot' = [slot EXCEPT ![s] = e]
    BY <1>5
  <2> HIDE DEF e
  <2>6. /\ slot' \in [Slots -> Devices \cup {NoDev}] /\ slot'[s] = e
        /\ \A q \in Slots : q # s => slot'[q] = slot[q]
    BY <1>1, <2>3, <2>4, <2>5
  <2>7. /\ Present' = Present
        /\ \A q \in Present : slot'[q].name = slot[q].name
    BY <1>1, <1>5, <2>4, <2>6, WriteTypes DEF Present
  <2>8. \A n : SlotsOf(n)' = SlotsOf(n)
    BY <2>7 DEF SlotsOf
  <2>9. \A v \in Writers : v # w => At(v)' = At(v)
    BY <2>2 DEF At
  <2>10. doubtful \subseteq doubtful' /\ doubtful' \subseteq Names \X Levels
    BY <2>1, <2>4, WriteTypes
  <2>11. LastWriterVerifies'
    <3> SUFFICES ASSUME NEW q \in Present,
                        SlotsOf(slot[q].name) = {q},
                        slot[q].name \notin foreign',
                        acked[slot[q].name] # NoDev
                 PROVE  \/ slot'[q].value = acked[slot[q].name]
                        \/ <<slot[q].name, slot'[q].value>> \in doubtful'
                        \/ \E v \in Writers :
                              /\ wr'[v].step = "verify" /\ At(v)' = q
                              /\ slot'[q].value = wr'[v].want
      BY <1>1, <2>7, <2>8 DEF LastWriterVerifies
    <3>1. CASE q = s
      <4>1. slot'[q].value = wr[w].want
        BY <2>4, <2>6, <3>1
      <4>2. CASE /\ r.step = "verify" /\ r.want = wr[w].want /\ r.at = s
        BY <2>2, <3>1, <4>1, <4>2 DEF At
      <4>3. CASE doubtful' = doubtful \cup {p}
        BY <3>1, <4>1, <4>3
      <4> QED BY <2>1, <4>2, <4>3
    <3>2. CASE q # s
      <4>1. slot[q].name # slot[s].name /\ slot'[q] = slot[q]
        BY <1>5, <2>6, <3>2 DEF SlotsOf, Present
      <4>2. slot[q].name \notin foreign
        BY <1>5, <4>1
      <4>3. \/ slot[q].value = acked[slot[q].name]
            \/ <<slot[q].name, slot[q].value>> \in doubtful
            \/ \E v \in Writers : /\ wr[v].step = "verify" /\ At(v) = q
                                  /\ slot[q].value = wr[v].want
        BY <4>2 DEF WriteInv, LastWriterVerifies
      <4> QED BY <1>1, <2>2, <2>9, <2>10, <4>1, <4>3
    <3> QED BY <3>1, <3>2
  <2>12. foreign' \subseteq Names
    BY <1>5, WriteTypes
  <2> QED BY <1>1, <2>2, <2>6, <2>10, <2>11, <2>12, WriteTypes, HardTyped,
             WriteTypeFromParts
<1> QED BY <1>2, <1>4, <1>5 DEF Write

(* The read-back: the last writer's acknowledges its own value or leaves it   *)
(* in doubt, any other finds a value that is not its own.                     *)
LEMMA VerifyKeeps ==
    ASSUME WriteInv, NEW w \in Writers, Verify(w)
    PROVE  WriteInv'
<1> DEFINE s == At(w)
           n == slot[s].name
<1>1. /\ wr[w].step = "verify" /\ wr[w].want \in Levels /\ s \in Slots
      /\ UNCHANGED <<kind, panelMax, slot, hard, foreign>>
  BY WriteTypes DEF Verify, Writing, At
<1>2. PICK r \in WriteRecords : wr' = [wr EXCEPT ![w] = r] /\ Writing(r)
  <2>1. CASE Advance(w, "reply")
    BY <1>1, <2>1, AdvanceIs
  <2>2. CASE Done(w)
    BY <2>2, DoneIs DEF Done
  <2> QED BY <2>1, <2>2 DEF Verify
<1>3. /\ wr' \in [Writers -> WriteRecords] /\ wr'[w] = r
      /\ \A v \in Writers : v # w => wr'[v] = wr[v]
      /\ \A v \in Writers : Writing(wr'[v])
  BY <1>2, WriterMoves
<1>4. \A v \in Writers : v # w => At(v)' = At(v)
  BY <1>3 DEF At
<1>5. Present' = Present /\ \A m : SlotsOf(m)' = SlotsOf(m)
  BY <1>1 DEF Present, SlotsOf
<1>6. ASSUME NEW q \in Present, SlotsOf(slot[q].name) = {q},
             slot[q].name \notin foreign, acked[slot[q].name] # NoDev
      PROVE  \/ slot[q].value = acked[slot[q].name]
             \/ <<slot[q].name, slot[q].value>> \in doubtful
             \/ \E v \in Writers : /\ wr[v].step = "verify" /\ At(v) = q
                                   /\ slot[q].value = wr[v].want
  BY <1>6 DEF WriteInv, LastWriterVerifies
<1>7. CASE /\ Verified(w)
           /\ acked' = [acked EXCEPT ![slot[At(w)].name] = wr[w].want]
           /\ doubtful' = {d \in doubtful : d[1] # slot[At(w)].name}
  <2>1. s \in Present /\ slot[s].value = wr[w].want
    BY <1>7 DEF Verified
  <2>2. slot[s] \in Devices /\ n \in Names
    BY <1>1, <2>1, WriteTypes DEF Devices
  <2>3. /\ acked' \in [Names -> Levels \cup {NoDev}] /\ acked'[n] = wr[w].want
        /\ \A m \in Names : m # n => acked'[m] = acked[m]
    BY <1>1, <1>7, <2>2, WriteTypes
  <2>4. doubtful' \subseteq Names \X Levels
    BY <1>7, WriteTypes
  <2>5. LastWriterVerifies'
    <3> SUFFICES ASSUME NEW q \in Present, SlotsOf(slot[q].name) = {q},
                        slot[q].name \notin foreign,
                        acked'[slot[q].name] # NoDev
                 PROVE  \/ slot[q].value = acked'[slot[q].name]
                        \/ <<slot[q].name, slot[q].value>> \in doubtful'
                        \/ \E v \in Writers :
                              /\ wr'[v].step = "verify" /\ At(v)' = q
                              /\ slot[q].value = wr'[v].want
      BY <1>1, <1>5 DEF LastWriterVerifies
    <3>1. CASE slot[q].name = n
      <4>1. q = s
        BY <2>1, <3>1 DEF SlotsOf
      <4> QED BY <2>1, <2>3, <4>1
    <3>2. CASE slot[q].name # n
      <4>1. slot[q].name \in Names /\ q # s
        BY <3>2, WriteTypes DEF Devices, Present
      <4>2. acked'[slot[q].name] = acked[slot[q].name]
        BY <2>3, <3>2, <4>1
      <4>3. <<slot[q].name, slot[q].value>> \in doubtful
            => <<slot[q].name, slot[q].value>> \in doubtful'
        BY <1>7, <3>2
      <4> QED BY <1>3, <1>4, <1>6, <4>1, <4>2, <4>3
    <3> QED BY <3>1, <3>2
  <2> QED BY <1>1, <1>3, <2>3, <2>4, <2>5, WriteTypes, HardTyped,
             WriteTypeFromParts
<1>8. CASE /\ UNCHANGED acked
           /\ IF Verified(w) THEN Doubt(w) ELSE UNCHANGED doubtful
  <2>1. doubtful \subseteq doubtful' /\ doubtful' \subseteq Names \X Levels
    <3>1. CASE Verified(w)
      <4>1. slot[s] \in Devices
        BY <1>1, <3>1, WriteTypes DEF Verified
      <4>2. <<n, wr[w].want>> \in Names \X Levels
        BY <1>1, <4>1 DEF Devices
      <4> QED BY <1>8, <3>1, <4>2, WriteTypes DEF Doubt
    <3>2. CASE ~Verified(w)
      BY <1>8, <3>2, WriteTypes
    <3> QED BY <3>1, <3>2
  <2>2. LastWriterVerifies'
    <3> SUFFICES ASSUME NEW q \in Present, SlotsOf(slot[q].name) = {q},
                        slot[q].name \notin foreign,
                        acked[slot[q].name] # NoDev
                 PROVE  \/ slot[q].value = acked[slot[q].name]
                        \/ <<slot[q].name, slot[q].value>> \in doubtful'
                        \/ \E v \in Writers :
                              /\ wr'[v].step = "verify" /\ At(v)' = q
                              /\ slot[q].value = wr'[v].want
      BY <1>1, <1>5, <1>8 DEF LastWriterVerifies
    <3>1. CASE s = q /\ slot[q].value = wr[w].want
      <4>1. Verified(w)
        BY <3>1 DEF Verified
      <4> QED BY <1>8, <3>1, <4>1 DEF Doubt
    <3>2. CASE ~(s = q /\ slot[q].value = wr[w].want)
      BY <1>3, <1>4, <1>6, <2>1, <3>2
    <3> QED BY <3>1, <3>2
  <2> QED BY <1>1, <1>3, <1>8, <2>1, <2>2, WriteTypes, HardTyped,
             WriteTypeFromParts
<1> QED BY <1>7, <1>8 DEF Verify

(* Others change one slot, and the names involved count as foreign. *)
LEMMA OthersChangeOneSlot ==
    ASSUME WriteInv, NEW s \in Slots, NEW e \in Devices \cup {NoDev},
           slot' = [slot EXCEPT ![s] = e],
           UNCHANGED <<kind, panelMax, hard, wr, acked, doubtful>>,
           NEW n \in Names, foreign' = foreign \cup {n},
           s \in Present => slot[s].name = n,
           e # NoDev => e.name = n
    PROVE  WriteInv'
<1>1. /\ slot' \in [Slots -> Devices \cup {NoDev}] /\ slot'[s] = e
      /\ \A q \in Slots : q # s => slot'[q] = slot[q]
      /\ foreign' \subseteq Names
  BY WriteTypes
<1>2. /\ wr' \in [Writers -> WriteRecords]
      /\ \A w \in Writers : Writing(wr'[w])
      /\ \A w \in Writers : At(w)' = At(w)
      /\ acked' \in [Names -> Levels \cup {NoDev}] /\ hard' \in BOOLEAN
  BY WriteTypes, HardTyped DEF At
<1>3. LastWriterVerifies'
  <2> SUFFICES ASSUME NEW q \in Slots, slot'[q] # NoDev,
                      \A x \in Slots : (slot'[x] # NoDev
                                       /\ slot'[x].name = slot'[q].name)
                                      => x = q,
                      slot'[q].name \notin foreign', acked[slot'[q].name] # NoDev
               PROVE  \/ slot'[q].value = acked[slot'[q].name]
                      \/ <<slot'[q].name, slot'[q].value>> \in doubtful
                      \/ \E w \in Writers : /\ wr[w].step = "verify" /\ At(w) = q
                                            /\ slot'[q].value = wr[w].want
    BY <1>2 DEF LastWriterVerifies, Present, SlotsOf
  <2>1. q # s /\ slot'[q].name # n
    BY <1>1
  <2>2. slot'[q] = slot[q]
    BY <1>1, <2>1
  <2>3. SlotsOf(slot[q].name) = {q}
    <3>1. ASSUME NEW x \in Slots
          PROVE  (slot'[x] # NoDev /\ slot'[x].name = slot[q].name)
                 <=> (slot[x] # NoDev /\ slot[x].name = slot[q].name)
      <4>1. CASE x = s
        BY <1>1, <2>1, <2>2, <4>1 DEF Present
      <4>2. CASE x # s
        BY <1>1, <4>2
      <4> QED BY <4>1, <4>2
    <3>2. \A x \in Slots :
             (slot[x] # NoDev /\ slot[x].name = slot[q].name) <=> x = q
      BY <2>2, <3>1
    <3> QED BY <3>2 DEF SlotsOf, Present
  <2>4. slot[q].name \notin foreign /\ q \in Present
    BY <2>2 DEF Present
  <2> QED BY <2>2, <2>3, <2>4 DEF WriteInv, LastWriterVerifies
<1> QED BY <1>1, <1>2, <1>3, WriteTypes, WriteTypeFromParts

LEMMA OthersKeep ==
    ASSUME WriteInv, OutsideWrite \/ HardBlock \/ Unplug \/ Plug
    PROVE  WriteInv'
<1>1. CASE OutsideWrite
  <2>1. PICK s \in Present, v \in Levels :
            /\ slot' = [slot EXCEPT ![s].value = v]
            /\ foreign' = foreign \cup {slot[s].name}
    BY <1>1 DEF OutsideWrite
  <2> DEFINE e == [slot[s] EXCEPT !.value = v]
  <2>2. s \in Slots /\ slot[s] \in Devices
    BY WriteTypes DEF Present
  <2>3. /\ slot' = [slot EXCEPT ![s] = e] /\ e \in Devices
        /\ e.name = slot[s].name /\ slot[s].name \in Names
    BY <2>1, <2>2 DEF Devices
  <2> HIDE DEF e
  <2>4. UNCHANGED <<kind, panelMax, hard, wr, acked, doubtful>>
    BY <1>1 DEF OutsideWrite
  <2> QED BY <2>1, <2>2, <2>3, <2>4, OthersChangeOneSlot
<1>2. CASE HardBlock
  <2>1. UNCHANGED <<kind, panelMax, slot, wr, acked, foreign, doubtful>>
    BY <1>2 DEF HardBlock
  <2>2. hard' \in BOOLEAN
    BY <1>2, HardTyped DEF HardBlock
  <2>3. LastWriterVerifies'
    BY <2>1
    DEF WriteInv, LastWriterVerifies, At, Present, SlotsOf
  <2> QED BY <2>1, <2>2, <2>3, WriteTypes, WriteTypeFromParts
<1>3. CASE Unplug
  <2>1. PICK s \in Present : /\ slot' = [slot EXCEPT ![s] = NoDev]
                             /\ foreign' = foreign \cup {slot[s].name}
    BY <1>3 DEF Unplug
  <2>2. s \in Slots /\ slot[s] \in Devices /\ slot[s].name \in Names
    BY WriteTypes DEF Present, Devices
  <2>3. UNCHANGED <<kind, panelMax, hard, wr, acked, doubtful>>
    BY <1>3 DEF Unplug
  <2> QED BY <2>1, <2>2, <2>3, WriteTypes, OthersChangeOneSlot
<1>4. CASE Plug
  <2>1. PICK s \in Slots \ Present, n \in Names, v \in Levels :
            /\ slot' = [slot EXCEPT ![s] = [name |-> n, value |-> v]]
            /\ foreign' = foreign \cup {n}
    BY <1>4 DEF Plug
  <2> DEFINE e == [name |-> n, value |-> v]
  <2>2. e \in Devices /\ e.name = n
    BY DEF Devices
  <2> HIDE DEF e
  <2>3. UNCHANGED <<kind, panelMax, hard, wr, acked, doubtful>>
    BY <1>4 DEF Plug
  <2>4. slot' = [slot EXCEPT ![s] = e]
    BY <2>1 DEF e
  <2> QED BY <2>1, <2>2, <2>3, <2>4, OthersChangeOneSlot
<1> QED BY <1>1, <1>2, <1>3, <1>4

LEMMA WriteInvHolds == WriteSpec => []WriteInv
<1>1. WriteInit => WriteInv
  <2> SUFFICES ASSUME WriteInit
               PROVE  WriteInv
    OBVIOUS
  <2>1. wr \in [Writers -> WriteRecords] /\ \A w \in Writers : wr[w] = NoWrite
    BY DoneIs DEF WriteInit
  <2>2. WriteTypeOK
    BY <2>1 DEF WriteInit, WriteTypeOK, WriteRecords
  <2>4. \A s \in Present : slot[s].name \in Names
    BY DEF WriteInit, Present
  <2>5. LastWriterVerifies
    BY <2>4 DEF WriteInit, LastWriterVerifies
  <2> QED BY <2>1, <2>2, <2>5, DoneIs DEF WriteInv
<1>2. WriteInv /\ [WriteNext]_writeVars => WriteInv'
  <2>1. ASSUME WriteInv, UNCHANGED writeVars
        PROVE  WriteInv'
    BY <2>1 DEF writeVars, WriteInv, WriteTypeOK,
                LastWriterVerifies, At, Present, SlotsOf
  <2> QED BY <2>1, CallStepsKeep, WriteKeeps, VerifyKeeps, OthersKeep
          DEF WriteNext
<1> QED BY <1>1, <1>2, PTL DEF WriteSpec

(* For any number of racing set_state calls, slots and devices: once no call  *)
(* is between its write and its read-back, a device nobody outside touched    *)
(* shows the value acknowledged last or one that a call wrote and reported    *)
(* as failed since.                                                           *)
THEOREM AcknowledgedValuesStand == WriteSpec => []AcknowledgedValueStands
<1>1. WriteInv => AcknowledgedValueStands
  BY DEF WriteInv, LastWriterVerifies, AcknowledgedValueStands
<1> QED BY <1>1, WriteInvHolds, PTL

(* A quotient is known by its remainder's range. *)
LEMMA QuotientUnique ==
    ASSUME NEW m \in Nat, NEW q \in Int, NEW p \in Int, NEW r \in Int,
           NEW d \in Int, 0 <= r, r < m, 0 <= d, d < m, q * m + r = p * m + d
    PROVE  q = p /\ r = d
<1>1. ASSUME NEW k \in Int, k >= 1
      PROVE  k * m >= m
  BY <1>1
<1>2. (q - p) * m = d - r
  OBVIOUS
<1>3. ~(q - p >= 1)
  BY <1>1, <1>2
<1>4. (p - q) * m = r - d
  OBVIOUS
<1>5. ~(p - q >= 1)
  BY <1>1, <1>4
<1>6. q = p
  BY <1>3, <1>5
<1> QED BY <1>6

(* brightness_percent: rounding to the panel's levels and back is exact on    *)
(* every panel with at least one level per percent.                           *)
LEMMA PercentRoundTrip ==
    ASSUME NEW m \in Nat, m >= 100, NEW p \in 0 .. 100
    PROVE  /\ FromPercent(p, m) <= m
           /\ ToPercent(FromPercent(p, m), m) = p
<1> DEFINE x == p * m
           b == (x + 50) \div 100
           a == b * 100
           d == a - x
<1>1. x \in Nat /\ x <= 100 * m
  OBVIOUS
<1>2. b \in Nat /\ a <= x + 50 /\ x + 50 < a + 100
  BY <1>1
<1>3. b <= m
  BY <1>1, <1>2
<1>4. d \in Int /\ -49 <= d /\ d <= 50 /\ a = p * m + d
  BY <1>1, <1>2
<1> DEFINE q == a \div m
           r == a % m
<1>5. q \in Int /\ r \in Int /\ 0 <= r /\ r < m /\ a = q * m + r
  BY <1>2
<1>6. CASE d >= 0
  <2>1. q = p /\ r = d
    BY <1>4, <1>5, <1>6, QuotientUnique
  <2>2. ~(2 * r > m)
    BY <1>4, <2>1
  <2>3. ~(2 * r = m)
    <3>1. ASSUME 2 * r = m
          PROVE  FALSE
      <4>1. m = 100 /\ d = 50
        BY <1>4, <2>1, <3>1
      <4>2. b * 100 = p * 100 + 50
        BY <1>4, <4>1
      <4> QED BY <1>2, <4>2
    <3> QED BY <3>1
  <2> QED BY <1>3, <2>1, <2>2, <2>3 DEF FromPercent, ToPercent
<1>7. CASE d < 0
  <2>1. a = (p - 1) * m + (m + d)
    BY <1>4
  <2>2. q = p - 1 /\ r = m + d
    BY <1>4, <1>5, <1>7, <2>1, QuotientUnique
  <2>3. 2 * r > m
    BY <1>4, <2>2
  <2> QED BY <1>3, <2>2, <2>3 DEF FromPercent, ToPercent
<1> QED BY <1>4, <1>6, <1>7

(* A brightness set in percent is reported back as the same percent, whatever *)
(* max_brightness of at least 100 the panel has.                              *)
THEOREM PercentIsKept == WriteSpec => []PercentKept
<1>1. WriteInv => PercentKept
  <2> SUFFICES ASSUME WriteInv
               PROVE  PercentKept
    OBVIOUS
  <2>1. panelMax \in Nat
    BY WriteAssumption, WriteTypes
  <2> QED BY <2>1, PercentRoundTrip DEF PercentKept
<1> QED BY <1>1, WriteInvHolds, PTL

-----------------------------------------------------------------------------
(* Display session lookup. *)

Reading == [op : {"none", "display", "input"},
            step : {"idle", "layout", "inband", "files", "done"},
            at : 0 .. Len(Paths) + 1, fresh : SUBSET Docs,
            got : Docs \cup {NoDoc}]

(* Every steady file is fresh, and the ones the call has read are among what  *)
(* it collected.                                                              *)
SteadyFresh == \A p \in steady : Fresh(file[p])
SteadyCollected ==
    /\ rd.step = "files" =>
          /\ rd.at >= 1
          /\ \A p \in steady : p < rd.at => file[p] \in rd.fresh
    /\ rd.step \in {"idle", "layout", "inband"} => rd.at <= 1

SessionInv ==
    /\ SessionTypeOK /\ rd \in Reading
    /\ SteadyFresh /\ SteadyCollected /\ SteadySessionServed

LEMMA SessionConstants ==
    /\ Len(Paths) \in Nat /\ MaxAge \in Nat /\ Ahead \in Nat /\ MaxTime \in Nat
    /\ MaxTime >= 1 /\ NoDoc \notin Nat /\ BadDoc \notin Nat
    /\ Files = 1 .. Len(Paths) /\ Docs \subseteq Nat
BY SessionAssumption DEF Files, Docs

(* The newest of some documents exists: Best takes one of them, and none of   *)
(* them is newer.                                                             *)
LEMMA BestIsNewest ==
    ASSUME NEW docs \in SUBSET Docs, docs # {}
    PROVE  Best(docs) \in docs /\ \A e \in docs : e <= Best(docs)
<1> DEFINE top == MaxTime + Ahead + 1
           ages == {top - d : d \in docs}
<1>1. top \in Nat /\ docs \subseteq 0 .. top
  BY SessionConstants DEF Docs
<1>2. ages \in SUBSET Nat /\ ages # {}
  <2>1. \A d \in docs : top - d \in Nat
    BY <1>1
  <2>2. \E d \in docs : top - d \in ages
    OBVIOUS
  <2> HIDE DEF top
  <2> QED BY <2>1, <2>2
<1>3. PICK a \in ages : \A b \in ages : ~(<<b, a>> \in OpToRel(<, Nat))
  <2> HIDE DEF ages
  <2> QED BY <1>2, NatLessThanWellFounded, WFMin
<1>4. PICK d \in docs : a = top - d
  OBVIOUS
<1>5. ASSUME NEW e \in docs
      PROVE  e <= d
  <2>1. top - e \in ages /\ top - e \in Nat /\ a \in Nat
    BY <1>2
  <2>2. ~(top - e < a)
    BY <1>3, <2>1 DEF OpToRel
  <2> QED BY <1>1, <1>4, <2>2
<1>6. \E x \in docs : \A e \in docs : e <= x
  BY <1>5
<1> QED BY <1>6 DEF Best

LEMMA SessionTypes ==
    ASSUME SessionInv
    PROVE  /\ clock \in 0 .. MaxTime /\ clock \in Docs
           /\ file \in [Files -> Docs \cup {NoDoc, BadDoc}]
           /\ embedded \in Docs \cup {NoDoc} /\ inband \in Docs \cup {NoDoc}
           /\ rd \in Reading /\ steady \subseteq Files
<1>1. /\ clock \in 0 .. MaxTime /\ file \in [Files -> Docs \cup {NoDoc, BadDoc}]
      /\ rd \in Reading /\ steady \subseteq Files
      /\ embedded \in Docs \cup {NoDoc} /\ inband \in Docs \cup {NoDoc}
  BY DEF SessionInv, SessionTypeOK
<1>2. clock \in Docs
  BY <1>1, SessionConstants DEF Docs
<1> QED BY <1>1, <1>2

LEMMA SessionTypeFromParts ==
    ASSUME clock' \in 0 .. MaxTime,
           file' \in [Files -> Docs \cup {NoDoc, BadDoc}],
           embedded' \in Docs \cup {NoDoc}, inband' \in Docs \cup {NoDoc},
           rd' \in Reading, steady' \subseteq Files
    PROVE  SessionTypeOK'
BY DEF SessionTypeOK, Reading

(* A fresh document is one of the documents there are. *)
LEMMA FreshIsDoc ==
    ASSUME NEW d \in Docs \cup {NoDoc, BadDoc}, Fresh(d)
    PROVE  d \in Docs
BY SessionConstants DEF Fresh, FreshAt

(* The call itself. *)
LEMMA CallKeepsSession ==
    ASSUME SessionInv,
           \/ \E op \in {"display", "input"} : SessionBegin(op)
           \/ AskLayout \/ AskInband \/ ReadFile \/ ChooseNewest
           \/ SessionAnswer
    PROVE  SessionInv'
<1>1. UNCHANGED <<clock, file, embedded, inband>>
  BY DEF SessionBegin, AskLayout, AskInband, Accept, ReadFile, ChooseNewest,
         SessionAnswer
<1>2. SteadyFresh /\ SteadyCollected /\ SteadySessionServed
  BY DEF SessionInv
<1>3. ASSUME rd' \in Reading, steady' \subseteq Files, SteadyFresh',
             SteadyCollected', SteadySessionServed'
      PROVE  SessionInv'
  <2>1. SessionTypeOK'
    BY <1>1, <1>3, SessionTypes, SessionTypeFromParts
  <2> QED BY <1>3, <2>1 DEF SessionInv
<1>4. /\ NoRead \in Reading /\ NoRead.step = "idle" /\ NoRead.at = 0
      /\ NoRead.got = NoDoc /\ NoRead.fresh = {}
  BY SessionConstants DEF NoRead, Reading
<1>5. steady' = steady => SteadyFresh'
  BY <1>1, <1>2 DEF SteadyFresh, Fresh
<1>6. ASSUME NEW op \in {"display", "input"}, SessionBegin(op)
      PROVE  SessionInv'
  <2>1. /\ rd' \in Reading /\ rd'.step \in {"layout", "inband"} /\ rd'.at = 0
    BY <1>4, <1>6 DEF SessionBegin, Reading
  <2>2. steady' = {p \in Files : Fresh(file[p])}
    BY <1>6 DEF SessionBegin
  <2>3. steady' \subseteq Files /\ SteadyFresh'
    BY <1>1, <2>2 DEF SteadyFresh, Fresh
  <2>4. SteadyCollected' /\ SteadySessionServed'
    BY <2>1 DEF SteadyCollected, SteadySessionServed
  <2> QED BY <1>3, <2>1, <2>3, <2>4
<1>7. ASSUME NEW d \in Docs \cup {NoDoc}, NEW next \in {"inband", "files"},
             Accept(d, next), rd.step \in {"layout", "inband"}
      PROVE  SessionInv'
  <2>1. rd \in Reading /\ rd.at <= 1 /\ steady' = steady /\ steady \subseteq Files
    BY <1>2, <1>7, SessionTypes DEF SteadyCollected, Accept
  <2>2. CASE Fresh(d)
    <3>1. rd' = [rd EXCEPT !.step = "done", !.got = d] /\ d \in Docs
      BY <1>7, <2>2, FreshIsDoc DEF Accept
    <3>2. rd' \in Reading /\ rd'.step = "done" /\ rd'.at = rd.at
      BY <2>1, <3>1 DEF Reading
    <3>3. rd.at > Len(Paths) => steady = {}
      <4>1. rd.at \in Nat
        BY <2>1, SessionConstants DEF Reading
      <4>2. rd.at > Len(Paths) => Files = {}
        BY <2>1, <4>1, SessionConstants
      <4> QED BY <2>1, <4>2
    <3>4. SteadySessionServed'
      BY <2>1, <3>2, <3>3 DEF SteadySessionServed
    <3>5. SteadyCollected'
      BY <3>2 DEF SteadyCollected
    <3> QED BY <1>3, <1>5, <2>1, <3>2, <3>4, <3>5
  <2>3. CASE ~Fresh(d)
    <3>1. rd' = [rd EXCEPT !.step = next, !.at = 1]
      BY <1>7, <2>3 DEF Accept
    <3>a. 1 \in 0 .. Len(Paths) + 1
      BY SessionConstants
    <3>2. rd' \in Reading /\ rd'.step = next /\ rd'.at = 1
      BY <2>1, <3>1, <3>a DEF Reading
    <3>3. \A p \in steady : ~(p < 1)
      BY <2>1, SessionConstants
    <3>4. SteadySessionServed' /\ SteadyCollected'
      BY <2>1, <3>2, <3>3 DEF SteadySessionServed, SteadyCollected
    <3> QED BY <1>3, <1>5, <2>1, <3>2, <3>4
  <2> QED BY <2>2, <2>3
<1>8. CASE AskLayout \/ AskInband
  BY <1>7, <1>8, SessionTypes DEF AskLayout, AskInband
<1>9. CASE ReadFile
  <2>1. /\ rd \in Reading /\ rd.step = "files" /\ rd.at <= Len(Paths)
        /\ steady' = steady /\ steady \subseteq Files
        /\ file \in [Files -> Docs \cup {NoDoc, BadDoc}]
        /\ Len(Paths) \in Nat /\ Files = 1 .. Len(Paths)
    BY <1>9, SessionTypes, SessionConstants DEF ReadFile
  <2> DEFINE f == IF Fresh(file[rd.at]) THEN rd.fresh \cup {file[rd.at]}
                  ELSE rd.fresh
  <2>2. rd' = [rd EXCEPT !.at = @ + 1, !.fresh = f]
    BY <1>9 DEF ReadFile
  <2>3. f \subseteq Docs
    <3>1. rd.fresh \subseteq Docs /\ rd.at \in Nat
      BY <2>1 DEF Reading
    <3>2. CASE Fresh(file[rd.at])
      <4>1. rd.at \in Files
        BY <1>2, <2>1, <3>1 DEF SteadyCollected
      <4>2. file[rd.at] \in Docs
        BY <2>1, <3>2, <4>1, FreshIsDoc
      <4> QED BY <3>1, <4>2
    <3> QED BY <3>1, <3>2
  <2> HIDE DEF f
  <2>a. rd.at \in Nat /\ rd.at >= 1 /\ rd.at + 1 \in 0 .. Len(Paths) + 1
    BY <1>2, <2>1 DEF Reading, SteadyCollected
  <2>4. /\ rd' \in Reading /\ rd'.step = "files" /\ rd'.at = rd.at + 1
        /\ rd'.fresh = f
    BY <2>1, <2>2, <2>3, <2>a DEF Reading
  <2>5. ASSUME NEW p \in steady, p < rd.at + 1
        PROVE  file[p] \in f
    <3>1. CASE p < rd.at
      BY <1>2, <2>1, <3>1 DEF SteadyCollected, f
    <3>2. CASE p = rd.at
      BY <1>2, <3>2 DEF SteadyFresh, f
    <3> QED BY <2>1, <2>5, <2>a, <3>1, <3>2
  <2>6. SteadyCollected' /\ SteadySessionServed'
    BY <1>1, <2>1, <2>4, <2>5, <2>a DEF SteadyCollected, SteadySessionServed
  <2> QED BY <1>3, <1>5, <2>1, <2>4, <2>6
<1>10. CASE ChooseNewest
  <2>1. /\ rd \in Reading /\ rd.step = "files" /\ rd.at > Len(Paths)
        /\ steady' = steady /\ steady \subseteq Files
        /\ Len(Paths) \in Nat /\ Files = 1 .. Len(Paths)
    BY <1>10, SessionTypes, SessionConstants DEF ChooseNewest
  <2> DEFINE g == IF rd.fresh = {} THEN NoDoc ELSE Best(rd.fresh)
  <2>2. rd' = [rd EXCEPT !.step = "done", !.got = g]
    BY <1>10 DEF ChooseNewest
  <2>3. rd.fresh \in SUBSET Docs
    BY <2>1 DEF Reading
  <2>4. ASSUME NEW p \in steady
        PROVE  file[p] \in rd.fresh
    <3>1. p < rd.at
      BY <2>1 DEF Reading
    <3> QED BY <1>2, <2>1, <3>1 DEF SteadyCollected
  <2>5. g \in Docs \cup {NoDoc}
    BY <2>3, BestIsNewest
  <2>6. ASSUME NEW p \in steady
        PROVE  g # NoDoc /\ file[p] <= g
    BY <2>3, <2>4, BestIsNewest, SessionConstants
  <2> HIDE DEF g
  <2>7. rd' \in Reading /\ rd'.step = "done" /\ rd'.got = g
    BY <2>1, <2>2, <2>5 DEF Reading
  <2>8. SteadyCollected' /\ SteadySessionServed'
    BY <1>1, <2>1, <2>6, <2>7 DEF SteadyCollected, SteadySessionServed
  <2> QED BY <1>3, <1>5, <2>1, <2>7, <2>8
<1>11. CASE SessionAnswer
  <2>1. rd' = NoRead /\ steady' = {}
    BY <1>11 DEF SessionAnswer
  <2>2. SteadyFresh' /\ SteadyCollected' /\ SteadySessionServed'
    BY <1>4, <2>1 DEF SteadyFresh, SteadyCollected, SteadySessionServed
  <2> QED BY <1>3, <1>4, <2>1, <2>2
<1> QED BY <1>6, <1>8, <1>9, <1>10, <1>11

(* The outside: a file that stays steady keeps its document. *)
LEMMA OutsideKeepsSession ==
    ASSUME SessionInv, Publish \/ LoseFile \/ ManagerChange \/ Tick \/ ClockBack
    PROVE  SessionInv'
<1>1. SteadyFresh /\ SteadyCollected /\ SteadySessionServed /\ rd' = rd
  BY DEF SessionInv, Publish, LoseFile, ManagerChange, Tick, ClockBack, SetClock
<1>2. ASSUME clock' \in 0 .. MaxTime,
             file' \in [Files -> Docs \cup {NoDoc, BadDoc}],
             embedded' \in Docs \cup {NoDoc}, inband' \in Docs \cup {NoDoc},
             steady' \subseteq steady,
             \A p \in steady' : file'[p] = file[p] /\ FreshAt(file[p], clock')
      PROVE  SessionInv'
  <2>1. SessionTypeOK'
    BY <1>1, <1>2, SessionTypes, SessionTypeFromParts
  <2>2. SteadyFresh'
    BY <1>2 DEF SteadyFresh, Fresh
  <2>3. SteadyCollected' /\ SteadySessionServed'
    BY <1>1, <1>2 DEF SteadyCollected, SteadySessionServed
  <2> QED BY <1>1, <2>1, <2>2, <2>3, SessionTypes DEF SessionInv
<1>3. ASSUME NEW p \in Files, NEW d \in Docs \cup {NoDoc, BadDoc},
             file' = [file EXCEPT ![p] = d], steady' = steady \ {p},
             UNCHANGED <<clock, embedded, inband>>
      PROVE  SessionInv'
  <2>1. /\ file' \in [Files -> Docs \cup {NoDoc, BadDoc}]
        /\ \A q \in Files : q # p => file'[q] = file[q]
    BY <1>3, SessionTypes
  <2>2. \A q \in steady' : file'[q] = file[q] /\ FreshAt(file[q], clock')
    BY <1>1, <1>3, <2>1, SessionTypes DEF SteadyFresh, Fresh
  <2> QED BY <1>2, <1>3, <2>1, <2>2, SessionTypes
<1>4. CASE Publish
  BY <1>3, <1>4, SessionTypes DEF Publish
<1>5. CASE LoseFile
  BY <1>3, <1>5 DEF LoseFile
<1>6. CASE ManagerChange
  <2>1. UNCHANGED <<clock, file, steady>>
    BY <1>6 DEF ManagerChange
  <2>2. embedded' \in Docs \cup {NoDoc} /\ inband' \in Docs \cup {NoDoc}
    BY <1>6, SessionTypes, SessionConstants DEF ManagerChange
  <2>3. \A q \in steady : FreshAt(file[q], clock)
    BY <1>1 DEF SteadyFresh, Fresh
  <2> QED BY <1>2, <2>1, <2>2, <2>3, SessionTypes
<1>7. ASSUME NEW t \in 0 .. MaxTime, SetClock(t)
      PROVE  SessionInv'
  BY <1>2, <1>7, SessionTypes DEF SetClock
<1>8. CASE Tick
  <2>1. clock + 1 \in 0 .. MaxTime
    BY <1>8, SessionTypes, SessionConstants DEF Tick
  <2> QED BY <1>7, <1>8, <2>1 DEF Tick
<1>9. CASE ClockBack
  <2>1. clock - 1 \in 0 .. MaxTime
    BY <1>9, SessionTypes, SessionConstants DEF ClockBack
  <2> QED BY <1>7, <1>9, <2>1 DEF ClockBack
<1> QED BY <1>4, <1>5, <1>6, <1>8, <1>9

LEMMA SessionInvHolds == SessionSpec => []SessionInv
<1>1. SessionInit => SessionInv
  <2> SUFFICES ASSUME SessionInit
               PROVE  SessionInv
    OBVIOUS
  <2>1. /\ NoRead \in Reading /\ NoRead.step = "idle" /\ NoRead.at = 0
    BY SessionConstants DEF NoRead, Reading
  <2>2. {0, 1, 1 + Ahead} \subseteq Docs /\ 1 \in 0 .. MaxTime
    BY SessionConstants DEF Docs
  <2>3. file \in [Files -> Docs \cup {NoDoc, BadDoc}]
    BY <2>2 DEF SessionInit
  <2>4. SessionTypeOK /\ rd \in Reading
    BY <2>1, <2>2, <2>3 DEF SessionInit, SessionTypeOK, Reading
  <2> QED BY <2>1, <2>4
          DEF SessionInit, SessionInv, SteadyFresh, SteadyCollected,
              SteadySessionServed
<1>2. SessionInv /\ [SessionNext]_sessionVars => SessionInv'
  <2>1. ASSUME SessionInv, UNCHANGED sessionVars
        PROVE  SessionInv'
    BY <2>1 DEF sessionVars, SessionInv, SessionTypeOK, Reading, SteadyFresh,
                Fresh, SteadyCollected, SteadySessionServed
  <2> QED BY <2>1, CallKeepsSession, OutsideKeepsSession DEF SessionNext
<1> QED BY <1>1, <1>2, PTL DEF SessionSpec

(* For any number of state files, read one after the other while outputs      *)
(* rewrite them and the clock moves: the session served is at least as new as *)
(* every file that stood there, fresh, during the whole call.                 *)
THEOREM SteadySessionsServed == SessionSpec => []SteadySessionServed
<1>1. SessionInv => SteadySessionServed
  BY DEF SessionInv
<1> QED BY <1>1, SessionInvHolds, PTL
=============================================================================
