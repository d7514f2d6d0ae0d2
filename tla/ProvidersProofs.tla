-------------------------- MODULE ProvidersProofs --------------------------
(***************************************************************************)
(* Proofs about the CH347 output configuration, and about the provider      *)
(* processes side by side: what RadioProofs, LinuxProofs and the first part *)
(* of this module prove of each provider holds of all of them together.     *)
(***************************************************************************)
EXTENDS Providers, RadioProofs, LinuxProofs, TLAPS

-----------------------------------------------------------------------------
(* CH347 output configuration. *)

SetSteps == {"idle", "write", "apply", "wait", "stop", "start", "started"}
Changes == UNION {[S -> Values] : S \in SUBSET ConfigFiles}
SetRecords == [step : SetSteps, changes : Changes, todo : SUBSET ConfigFiles,
               restart : BOOLEAN, ready : BOOLEAN]
OutRecords == [state : {"stopped", "starting", "ready"},
               gen : 0 .. MaxOutput + MaxSets,
               run : Settings \cup {NoValue}, load : Settings \cup {NoValue},
               signal : BOOLEAN]

(* A receipt of the running generation. *)
Current(f) == rcpt[f] # NoValue /\ rcpt[f].gen = out.gen

(* A file no call is changing: the output runs with it, is at most reloading  *)
(* the same value, and a current receipt shows it.                            *)
Settled(f) ==
    /\ out.run[f] = conf[f]
    /\ out.load # NoValue => out.load[f] = conf[f]
    /\ Current(f) => rcpt[f].value = conf[f]

(* A file the call has written: whatever comes later in the chain from file   *)
(* to reload to output to receipt is never newer than what comes earlier.     *)
Catching(f) ==
    /\ (Current(f) /\ rcpt[f].value = conf[f]) => out.run[f] = conf[f]
    /\ (out.run[f] = conf[f] /\ out.load # NoValue) => out.load[f] = conf[f]

Following ==
    (~unapplied /\ out.run # NoValue) =>
    \A f \in Hot : Catching(f) /\ (f \notin Changed \ set.todo => Settled(f))

OutputShape ==
    /\ out.state = "stopped" => out.run = NoValue /\ ~out.signal
    /\ out.state # "stopped" => out.gen >= 1
    /\ out.state = "ready" => out.run # NoValue
    /\ out.run = NoValue => out.load = NoValue

ReceiptsPast ==
    \A f \in Hot : rcpt[f] # NoValue =>
       /\ rcpt[f].gen <= out.gen
       /\ (rcpt[f].gen = out.gen /\ out.state # "stopped") => out.run # NoValue

SetShape ==
    /\ set.todo \subseteq Changed
    /\ set.step \notin {"idle", "write"} => set.todo = {}
    /\ set.step \in {"apply", "wait"} => ~set.restart /\ Changed \cap Hot # {}
    /\ set.step = "idle" => set = NoSet

(* Since the call stopped the output, whoever started it again, it has only   *)
(* ever run with what the call wrote.                                         *)
Restarting ==
    set.step \in {"start", "started"} =>
    /\ out.run \in {NoValue, conf} /\ out.load = NoValue /\ ~out.signal
    /\ out.run # NoValue => \A f \in Hot : Current(f) => rcpt[f].value = conf[f]

(* Every generation was started by a call or counted as a start of its own. *)
ToStart == set.step \in {"write", "apply", "wait", "stop", "start"}
GenCounted ==
    /\ sets \in 0 .. MaxSets /\ outputs \in 0 .. MaxOutput
    /\ out.gen <= sets + outputs
    /\ ToStart => out.gen + 1 <= sets + outputs

Ch347Inv ==
    /\ Ch347TypeOK /\ set \in SetRecords
    /\ OutputShape /\ ReceiptsPast /\ SetShape /\ Restarting /\ GenCounted
    /\ Following

LEMMA Ch347Constants ==
    /\ MaxSets \in Nat /\ MaxOutput \in Nat /\ NoValue \notin Values
    /\ NoValue \notin Settings /\ NoValue \notin Receipts
    /\ Hot \subseteq ConfigFiles
BY Ch347Assumption DEF Hot

LEMMA ChangesAre ==
    ASSUME NEW ch \in Changes
    PROVE  DOMAIN ch \subseteq ConfigFiles /\ \A f \in DOMAIN ch : ch[f] \in Values
BY DEF Changes

LEMMA NoSetIs ==
    /\ NoSet \in SetRecords /\ NoSet.step = "idle" /\ NoSet.todo = {}
    /\ DOMAIN NoSet.changes = {} /\ ~NoSet.restart
<1>1. <<>> \in [{} -> Values] /\ DOMAIN <<>> = {}
  OBVIOUS
<1>2. <<>> \in Changes
  BY <1>1 DEF Changes
<1> QED BY <1>1, <1>2 DEF NoSet, SetRecords, SetSteps

LEMMA Ch347Types ==
    ASSUME Ch347Inv
    PROVE  /\ conf \in Settings /\ out \in OutRecords /\ set \in SetRecords
           /\ rcpt \in [Hot -> Receipts \cup {NoValue}]
           /\ said \in {"none", "applied", "saved", "error"}
           /\ unapplied \in BOOLEAN
           /\ sets \in 0 .. MaxSets /\ outputs \in 0 .. MaxOutput
           /\ Changed \subseteq ConfigFiles /\ set.todo \subseteq Changed
           /\ \A f \in Changed : set.changes[f] \in Values
<1>1. /\ conf \in Settings /\ out \in OutRecords /\ set \in SetRecords
      /\ rcpt \in [Hot -> Receipts \cup {NoValue}]
      /\ said \in {"none", "applied", "saved", "error"}
      /\ sets \in 0 .. MaxSets /\ outputs \in 0 .. MaxOutput
      /\ set.todo \subseteq Changed
  BY DEF Ch347Inv, Ch347TypeOK, OutRecords, GenCounted, SetShape
<1>2. unapplied \in BOOLEAN
  BY DEF Ch347Inv, Ch347TypeOK
<1>3. set.changes \in Changes
  BY <1>1 DEF SetRecords
<1> QED BY <1>1, <1>2, <1>3, ChangesAre DEF Changed

LEMMA Ch347TypeFromParts ==
    ASSUME conf' \in Settings, out' \in OutRecords, set' \in SetRecords,
           rcpt' \in [Hot -> Receipts \cup {NoValue}],
           said' \in {"none", "applied", "saved", "error"},
           unapplied' \in BOOLEAN, OutputShape', ReceiptsPast', SetShape',
           Restarting', GenCounted', Following'
    PROVE  Ch347Inv'
<1>1. set'.changes \in Changes /\ set'.step \in SetSteps
  BY DEF SetRecords
<1>2. DOMAIN set'.changes \subseteq ConfigFiles
  BY <1>1, ChangesAre
<1>3. {set'.restart, set'.ready, unapplied'} \subseteq BOOLEAN
  BY DEF SetRecords
<1>4. set'.todo \subseteq DOMAIN set'.changes
  BY DEF SetShape, Changed
<1>5. Ch347TypeOK'
  BY <1>1, <1>2, <1>3, <1>4 DEF Ch347TypeOK, OutRecords, SetSteps
<1> QED BY <1>5 DEF Ch347Inv

(* The call ends in an error: nothing is left that the output was not told    *)
(* of, or the history says so. *)
LEMMA FailKeepsFollowing ==
    ASSUME Ch347Inv, Fail, UNCHANGED <<conf, rcpt>>,
           out' = out \/ out'.run = NoValue
    PROVE  Following' /\ unapplied' \in BOOLEAN
<1>1. set' = NoSet /\ unapplied' = (unapplied \/ set.todo # Changed)
  BY DEF Fail
<1>2. unapplied' \in BOOLEAN
  BY <1>1, Ch347Types
<1>3. ASSUME ~unapplied', out'.run # NoValue, NEW f \in Hot
      PROVE  Catching(f)' /\ Settled(f)'
  <2>1. ~unapplied /\ set.todo = Changed /\ out' = out
    BY <1>1, <1>3, Ch347Types
  <2>2. Catching(f) /\ Settled(f)
    BY <1>3, <2>1 DEF Ch347Inv, Following
  <2> QED BY <2>1, <2>2 DEF Catching, Settled, Current
<1>4. Following'
  BY <1>3 DEF Following
<1> QED BY <1>2, <1>4

(* While no call runs only the output matters. *)
LEMMA CallOver ==
    ASSUME Ch347Inv, set' = NoSet, UNCHANGED <<conf, rcpt, sets, outputs>>,
           out' \in OutRecords, OutputShape', ReceiptsPast',
           out'.gen <= sets + outputs, Following', unapplied' \in BOOLEAN,
           said' \in {"none", "applied", "saved", "error"}
    PROVE  Ch347Inv'
<1>1. SetShape'
  BY NoSetIs DEF SetShape, Changed
<1>2. Restarting' /\ ~ToStart'
  BY NoSetIs DEF Restarting, ToStart
<1>3. GenCounted'
  BY <1>2, Ch347Types DEF GenCounted
<1> QED BY <1>1, <1>2, <1>3, Ch347Types, NoSetIs, Ch347TypeFromParts

LEMMA OutputUnmoved ==
    ASSUME Ch347Inv, UNCHANGED <<conf, out, rcpt, sets, outputs>>
    PROVE  /\ OutputShape' /\ ReceiptsPast' /\ out' \in OutRecords
           /\ out'.gen <= sets + outputs
           /\ \A f \in Hot : /\ Settled(f) => Settled(f)'
                             /\ Catching(f) => Catching(f)'
<1>1. OutputShape' /\ ReceiptsPast'
  BY DEF Ch347Inv, OutputShape, ReceiptsPast
<1>2. out' \in OutRecords /\ out'.gen <= sets + outputs
  BY Ch347Types DEF Ch347Inv, GenCounted
<1>3. \A f \in Hot : /\ Settled(f) => Settled(f)'
                     /\ Catching(f) => Catching(f)'
  BY DEF Settled, Catching, Current
<1> QED BY <1>1, <1>2, <1>3

LEMMA FailStep ==
    ASSUME Ch347Inv, Fail, UNCHANGED <<conf, rcpt, sets, outputs>>,
           out' \in OutRecords, OutputShape', ReceiptsPast',
           out'.gen <= sets + outputs, out' = out \/ out'.run = NoValue
    PROVE  Ch347Inv'
BY FailKeepsFollowing, CallOver DEF Fail

LEMMA FailOnly ==
    ASSUME Ch347Inv, Fail, UNCHANGED <<conf, out, rcpt, sets, outputs>>
    PROVE  Ch347Inv'
BY OutputUnmoved, FailStep

(* The call goes on to its next step. *)
LEMMA NextSetStep ==
    ASSUME Ch347Inv, NEW s \in SetSteps, set' = [set EXCEPT !.step = s]
    PROVE  /\ set' \in SetRecords /\ set'.step = s /\ set'.restart = set.restart
           /\ set'.changes = set.changes /\ set'.todo = set.todo
           /\ Changed' = Changed
BY Ch347Types DEF SetRecords, Changed

LEMMA SetStateStep ==
    ASSUME Ch347Inv, NEW fs \in SUBSET ConfigFiles, NEW ch \in [fs -> Values],
           NEW r \in BOOLEAN, SetState(ch, r)
    PROVE  Ch347Inv'
<1>1. ch \in Changes /\ DOMAIN ch = fs
  BY DEF Changes
<1>2. Ready \in BOOLEAN
  BY DEF Ready
<1>3. /\ set' \in SetRecords /\ set'.step = "write" /\ set'.changes = ch
      /\ set'.todo = fs /\ Changed' = fs
  BY <1>1, <1>2 DEF SetState, NoSet, SetRecords, SetSteps, Changed
<1>4. UNCHANGED <<conf, out, rcpt, unapplied, outputs>> /\ sets' = sets + 1
      /\ said' = "none" /\ sets < MaxSets /\ set = NoSet
  BY DEF SetState, Ch347Inv, SetShape
<1>5. SetShape' /\ Restarting'
  BY <1>3 DEF SetShape, Restarting
<1>6. GenCounted'
  <2>1. out.gen <= sets + outputs /\ out.gen \in Nat
    BY Ch347Types, Ch347Constants DEF Ch347Inv, GenCounted, OutRecords
  <2> QED BY <1>4, <2>1, Ch347Types, Ch347Constants DEF GenCounted
<1>7. OutputShape' /\ ReceiptsPast'
  BY <1>4 DEF Ch347Inv, OutputShape, ReceiptsPast
<1>8. ASSUME ~unapplied, out.run # NoValue, NEW f \in Hot
      PROVE  Catching(f)' /\ Settled(f)'
  <2>1. Changed = {}
    BY <1>4, NoSetIs DEF Changed
  <2>2. Catching(f) /\ Settled(f)
    BY <1>8, <2>1 DEF Ch347Inv, Following
  <2> QED BY <1>4, <2>2 DEF Catching, Settled, Current
<1>9. Following'
  BY <1>4, <1>8 DEF Following
<1> QED BY <1>3, <1>4, <1>5, <1>6, <1>7, <1>9, Ch347Types, Ch347TypeFromParts

(* The files are written: the call goes on, or says that they are saved. *)
LEMMA WrittenStep == ASSUME Ch347Inv, Written PROVE Ch347Inv'
<1>0. /\ UNCHANGED <<conf, out, rcpt, sets, outputs>>
      /\ set.step = "write" /\ set.todo = {}
  BY DEF Written
<1>1. ASSUME NEW s \in {"stop", "apply"}, SetStep(s),
             s = "apply" => ~set.restart /\ HotChanged
      PROVE  Ch347Inv'
  <2>1. /\ set' \in SetRecords /\ set'.step = s /\ set'.restart = set.restart
        /\ set'.todo = set.todo /\ Changed' = Changed
        /\ UNCHANGED <<said, unapplied>>
    BY <1>1, NextSetStep DEF SetStep, SetSteps
  <2>2. SetShape' /\ Restarting'
    BY <1>0, <1>1, <2>1 DEF SetShape, Restarting, HotChanged
  <2>3. GenCounted'
    BY <1>0, <2>1 DEF Ch347Inv, GenCounted, ToStart
  <2>4. Following'
    BY <1>0, <2>1, OutputUnmoved DEF Ch347Inv, Following
  <2> QED BY <1>0, <2>1, <2>2, <2>3, <2>4, OutputUnmoved, Ch347Types,
             Ch347TypeFromParts
<1>2. ASSUME set' = NoSet, said' = "saved", ~(HotChanged /\ set.ready),
             unapplied' = (unapplied \/ (Changed # {} /\ ~set.ready
                                         /\ out.run # NoValue))
      PROVE  Ch347Inv'
  <2>1. unapplied' \in BOOLEAN
    BY <1>2, Ch347Types
  <2>2. ASSUME ~unapplied', out'.run # NoValue, NEW f \in Hot
        PROVE  Catching(f)' /\ Settled(f)'
    <3>1. ~unapplied /\ f \notin Changed /\ out.run # NoValue
      BY <1>0, <1>2, <2>2, Ch347Types DEF HotChanged
    <3> QED BY <1>0, <3>1, OutputUnmoved DEF Ch347Inv, Following
  <2>3. Following'
    BY <2>2 DEF Following
  <2> QED BY <1>0, <1>2, <2>1, <2>3, OutputUnmoved, CallOver
<1> QED BY <1>1, <1>2 DEF Written

(* A file is replaced: an output that ran with the old one has to catch up. *)
LEMMA WriteConfigStep == ASSUME Ch347Inv, WriteConfig PROVE Ch347Inv'
<1>0. UNCHANGED <<out, rcpt, sets, outputs>> /\ set.step = "write"
  BY DEF WriteConfig
<1>1. CASE Fail /\ UNCHANGED conf
  BY <1>0, <1>1, FailOnly
<1>2. ASSUME NEW g \in set.todo, conf' = Stored(g),
             set' = [set EXCEPT !.todo = @ \ {g}], UNCHANGED <<said, unapplied>>
      PROVE  Ch347Inv'
  <2>1. g \in ConfigFiles /\ g \in Changed /\ set.changes[g] \in Values
    BY <1>2, Ch347Types
  <2>2. /\ conf' \in Settings /\ conf'[g] \in Values
        /\ \A f \in ConfigFiles \ {g} : conf'[f] = conf[f]
    BY <1>2, <2>1, Ch347Types DEF Stored, Settings
  <2>3. /\ set' \in SetRecords /\ set'.step = "write" /\ Changed' = Changed
        /\ set'.todo = set.todo \ {g}
    BY <1>0, <1>2, Ch347Types DEF SetRecords, Changed
  <2>4. SetShape' /\ Restarting'
    BY <2>3, Ch347Types DEF SetShape, Restarting
  <2>5. GenCounted'
    BY <1>0, <2>3 DEF Ch347Inv, GenCounted, ToStart
  <2>6. OutputShape' /\ ReceiptsPast'
    BY <1>0 DEF Ch347Inv, OutputShape, ReceiptsPast
  <2>7. ASSUME ~unapplied, out.run # NoValue, NEW f \in Hot
        PROVE  Catching(f)' /\ (f \notin Changed' \ set'.todo => Settled(f)')
    <3>1. Catching(f) /\ (f \notin Changed \ set.todo => Settled(f))
      BY <2>7 DEF Ch347Inv, Following
    <3>2. CASE f # g
      <4>1. conf'[f] = conf[f]
        BY <2>2, <3>2, Ch347Constants
      <4> QED BY <1>0, <2>3, <3>1, <3>2, <4>1 DEF Catching, Settled, Current
    <3>3. CASE f = g
      <4>1. Settled(f)
        BY <1>2, <3>1, <3>3
      <4>2. f \in Changed' \ set'.todo
        BY <2>1, <2>3, <3>3
      <4>3. Catching(f)'
        BY <1>0, <4>1 DEF Catching, Settled, Current
      <4> QED BY <4>2, <4>3
    <3> QED BY <3>2, <3>3
  <2>8. Following'
    BY <1>0, <1>2, <2>7 DEF Following
  <2> QED BY <1>0, <1>2, <2>2, <2>3, <2>4, <2>5, <2>6, <2>8, Ch347Types,
             Ch347TypeFromParts
<1>3. PICK i \in 1 .. Len(FileOrder) :
         /\ FileOrder[i] \in set.todo
         /\ \/ /\ conf' = Stored(FileOrder[i])
               /\ set' = [set EXCEPT !.todo = @ \ {FileOrder[i]}]
               /\ UNCHANGED <<said, unapplied>>
            \/ Fail /\ UNCHANGED conf
  BY DEF WriteConfig
<1> QED BY <1>1, <1>2, <1>3

(* Restarting a dead output leaves it with nothing read. *)
LEMMA StoppedIs ==
    ASSUME Ch347Inv, out' = [Stopped EXCEPT !.gen = out.gen],
           UNCHANGED rcpt
    PROVE  /\ out' \in OutRecords /\ OutputShape' /\ ReceiptsPast'
           /\ out'.gen = out.gen /\ out'.run = NoValue /\ out'.load = NoValue
           /\ ~out'.signal
<1>1. /\ out' \in OutRecords /\ out'.gen = out.gen /\ out'.run = NoValue
      /\ out'.load = NoValue /\ ~out'.signal /\ out'.state = "stopped"
  BY Ch347Types DEF Stopped, OutRecords
<1> QED BY <1>1 DEF OutputShape, ReceiptsPast, Ch347Inv

LEMMA StartedIs ==
    ASSUME Ch347Inv, out' = Started, UNCHANGED rcpt,
           out.gen + 1 \in 0 .. MaxOutput + MaxSets
    PROVE  /\ out' \in OutRecords /\ OutputShape' /\ ReceiptsPast'
           /\ out'.gen = out.gen + 1 /\ out'.run = NoValue
           /\ out'.load = NoValue /\ ~out'.signal
<1>1. /\ out' \in OutRecords /\ out'.gen = out.gen + 1 /\ out'.run = NoValue
      /\ out'.load = NoValue /\ ~out'.signal /\ out'.state = "starting"
  BY DEF Started, Stopped, OutRecords
<1>2. out.gen \in Nat /\ \A f \in Hot : rcpt[f] # NoValue => rcpt[f].gen \in Nat
  BY Ch347Types, Ch347Constants DEF OutRecords, Receipts
<1>3. OutputShape'
  BY <1>1, <1>2 DEF OutputShape
<1>4. ASSUME NEW f \in Hot, rcpt[f] # NoValue
      PROVE  rcpt[f].gen <= out.gen + 1 /\ rcpt[f].gen # out.gen + 1
  BY <1>2, <1>4 DEF Ch347Inv, ReceiptsPast
<1>5. ReceiptsPast'
  BY <1>1, <1>4 DEF ReceiptsPast
<1> QED BY <1>1, <1>3, <1>5

LEMMA SignalStep == ASSUME Ch347Inv, Signal PROVE Ch347Inv'
<1>0. UNCHANGED <<conf, rcpt, sets, outputs>> /\ set.step = "apply"
  BY DEF Signal
<1>1. CASE Fail /\ UNCHANGED out
  BY <1>0, <1>1, FailOnly
<1>2. CASE /\ out.state # "stopped" /\ out' = [out EXCEPT !.signal = TRUE]
           /\ SetStep("wait")
  <2>1. /\ set' \in SetRecords /\ set'.step = "wait"
        /\ set'.restart = set.restart
        /\ set'.todo = set.todo /\ Changed' = Changed
        /\ UNCHANGED <<said, unapplied>>
    BY <1>2, NextSetStep DEF SetStep, SetSteps
  <2>2. /\ out' \in OutRecords /\ out'.run = out.run /\ out'.load = out.load
        /\ out'.gen = out.gen /\ out'.state = out.state
    BY <1>2, Ch347Types DEF OutRecords
  <2>3. OutputShape' /\ ReceiptsPast'
    BY <1>0, <1>2, <2>2 DEF Ch347Inv, OutputShape, ReceiptsPast
  <2>4. SetShape' /\ Restarting'
    BY <1>0, <2>1 DEF Ch347Inv, SetShape, Restarting
  <2>5. GenCounted'
    BY <1>0, <2>1, <2>2 DEF Ch347Inv, GenCounted, ToStart
  <2>6. \A f \in Hot : /\ Settled(f) => Settled(f)'
                       /\ Catching(f) => Catching(f)'
    BY <1>0, <2>2 DEF Settled, Catching, Current
  <2>7. Following'
    BY <2>1, <2>2, <2>6 DEF Ch347Inv, Following
  <2> QED BY <1>0, <2>1, <2>2, <2>3, <2>4, <2>5, <2>7, Ch347Types,
             Ch347TypeFromParts
<1> QED BY <1>1, <1>2 DEF Signal

(* Receipts of the running generation that match the files: it runs with     *)
(* them, unless an earlier call left something behind.                       *)
LEMMA MatchMeansApplied ==
    ASSUME Ch347Inv, set.step = "wait", ReceiptsMatch
    PROVE  /\ out.run # NoValue
           /\ ~unapplied => \A f \in Hot : Settled(f)
<1>1. ASSUME NEW f \in Hot
      PROVE  Current(f) /\ rcpt[f].value = conf[f] /\ out.state # "stopped"
  BY DEF ReceiptsMatch, Applied, Current
<1>2. Hot # {}
  BY DEF Ch347Inv, SetShape
<1>3. out.run # NoValue
  BY <1>1, <1>2 DEF Ch347Inv, ReceiptsPast, Current
<1>4. ASSUME ~unapplied, NEW f \in Hot
      PROVE  Settled(f)
  <2>1. Catching(f)
    BY <1>3, <1>4 DEF Ch347Inv, Following
  <2> QED BY <1>1, <2>1 DEF Catching, Settled
<1> QED BY <1>3, <1>4

LEMMA AwaitReceiptsStep == ASSUME Ch347Inv, AwaitReceipts PROVE Ch347Inv'
<1>0. /\ UNCHANGED <<conf, out, rcpt, sets, outputs>> /\ set.step = "wait"
      /\ (ReceiptsMatch /\ Succeed) \/ Fail
  BY DEF AwaitReceipts
<1>1. CASE Fail
  BY <1>0, <1>1, FailOnly
<1>2. CASE ReceiptsMatch /\ Succeed
  <2>1. set' = NoSet /\ said' = "applied" /\ unapplied' = unapplied
    BY <1>2 DEF Succeed
  <2>2. ASSUME ~unapplied, NEW f \in Hot
        PROVE  Catching(f)' /\ Settled(f)'
    <3>1. Settled(f)
      BY <1>0, <1>2, <2>2, MatchMeansApplied
    <3>2. Catching(f)
      BY <3>1 DEF Settled, Catching
    <3> QED BY <1>0, <3>1, <3>2, OutputUnmoved
  <2>3. Following'
    BY <2>1, <2>2 DEF Following
  <2> QED BY <1>0, <2>1, <2>3, OutputUnmoved, Ch347Types, CallOver
<1> QED BY <1>0, <1>1, <1>2

LEMMA StopOutputStep == ASSUME Ch347Inv, StopOutput PROVE Ch347Inv'
<1>0. UNCHANGED <<conf, rcpt, sets, outputs>> /\ set.step = "stop"
  BY DEF StopOutput
<1>1. CASE Fail /\ UNCHANGED out
  BY <1>0, <1>1, FailOnly
<1>2. CASE out' = [Stopped EXCEPT !.gen = out.gen] /\ (SetStep("start") \/ Fail)
  <2>1. /\ out' \in OutRecords /\ OutputShape' /\ ReceiptsPast'
        /\ out'.gen = out.gen /\ out'.run = NoValue /\ out'.load = NoValue
        /\ ~out'.signal
    BY <1>0, <1>2, StoppedIs
  <2>2. CASE Fail
    <3>1. out'.gen <= sets + outputs
      BY <2>1 DEF Ch347Inv, GenCounted
    <3> QED BY <1>0, <2>1, <2>2, <3>1, FailStep
  <2>3. CASE SetStep("start")
    <3>1. /\ set' \in SetRecords /\ set'.step = "start"
          /\ set'.todo = set.todo /\ Changed' = Changed
          /\ UNCHANGED <<said, unapplied>>
      BY <2>3, NextSetStep DEF SetStep, SetSteps
    <3>2. SetShape' /\ Restarting' /\ Following'
      BY <1>0, <2>1, <3>1 DEF Ch347Inv, SetShape, Restarting, Following
    <3>3. GenCounted'
      BY <1>0, <2>1, <3>1 DEF Ch347Inv, GenCounted, ToStart
    <3> QED BY <1>0, <2>1, <3>1, <3>2, <3>3, Ch347Types, Ch347TypeFromParts
  <2> QED BY <1>2, <2>2, <2>3
<1> QED BY <1>1, <1>2 DEF StopOutput

LEMMA StartOutputStep == ASSUME Ch347Inv, StartOutput PROVE Ch347Inv'
<1>0. UNCHANGED <<conf, rcpt, sets, outputs>> /\ set.step = "start"
  BY DEF StartOutput
<1>1. CASE Fail /\ UNCHANGED out
  BY <1>0, <1>1, FailOnly
<1>g. /\ out.gen + 1 <= sets + outputs /\ out.gen \in Nat
      /\ out.gen + 1 \in 0 .. MaxOutput + MaxSets
  BY <1>0, Ch347Types, Ch347Constants DEF Ch347Inv, GenCounted, ToStart, OutRecords
<1>2. ASSUME out' = Started \/ out' = out
      PROVE  /\ out' \in OutRecords /\ OutputShape' /\ ReceiptsPast'
             /\ out'.gen <= sets + outputs
             /\ out' = out \/ (out'.run = NoValue /\ out'.load = NoValue
                               /\ ~out'.signal)
  <2>1. CASE out' = Started
    BY <1>0, <1>g, <2>1, StartedIs
  <2>2. CASE out' = out
    BY <1>0, <2>2, OutputUnmoved
  <2> QED BY <1>2, <2>1, <2>2
<1>3. ASSUME out' = Started \/ out' = out, Fail
      PROVE  Ch347Inv'
  BY <1>0, <1>2, <1>3, FailStep
<1>4. ASSUME out' = Started \/ out' = out, SetStep("started")
      PROVE  Ch347Inv'
  <2>1. /\ set' \in SetRecords /\ set'.step = "started"
        /\ set'.todo = set.todo /\ Changed' = Changed
        /\ UNCHANGED <<said, unapplied>>
    BY <1>4, NextSetStep DEF SetStep, SetSteps
  <2>2. SetShape'
    BY <1>0, <2>1 DEF Ch347Inv, SetShape
  <2>3. GenCounted'
    BY <1>0, <1>2, <1>4, <2>1 DEF Ch347Inv, GenCounted, ToStart
  <2>4. CASE out' = out
    <3>1. Restarting'
      BY <1>0, <2>1, <2>4 DEF Ch347Inv, Restarting, Current
    <3>2. Following'
      BY <1>0, <2>1, <2>4, OutputUnmoved DEF Ch347Inv, Following
    <3> QED BY <1>0, <1>2, <1>4, <2>1, <2>2, <2>3, <3>1, <3>2, Ch347Types,
               Ch347TypeFromParts
  <2>5. CASE out'.run = NoValue /\ out'.load = NoValue /\ ~out'.signal
    <3>1. Restarting' /\ Following'
      BY <2>5 DEF Restarting, Following
    <3> QED BY <1>0, <1>2, <1>4, <2>1, <2>2, <2>3, <3>1, Ch347Types,
               Ch347TypeFromParts
  <2> QED BY <1>2, <1>4, <2>4, <2>5
<1> QED BY <1>1, <1>3, <1>4 DEF StartOutput

(* The answer "ready" comes from an output that has read what was written. *)
LEMMA ReadyMeansApplied ==
    ASSUME Ch347Inv, set.step = "started", Ready
    PROVE  out.run = conf /\ \A f \in Hot : Settled(f)
<1>1. out.run # NoValue
  BY DEF Ch347Inv, OutputShape, Ready
<1>2. out.run = conf /\ out.load = NoValue
  BY <1>1 DEF Ch347Inv, Restarting
<1>3. \A f \in Hot : Settled(f)
  BY <1>1, <1>2 DEF Ch347Inv, Restarting, Settled
<1> QED BY <1>2, <1>3

LEMMA StartAnsweredStep == ASSUME Ch347Inv, StartAnswered PROVE Ch347Inv'
<1>0. /\ UNCHANGED <<conf, out, rcpt, sets, outputs>> /\ set.step = "started"
      /\ (Ready /\ Succeed) \/ Fail
  BY DEF StartAnswered
<1>1. CASE Fail
  BY <1>0, <1>1, FailOnly
<1>2. CASE Ready /\ Succeed
  <2>1. set' = NoSet /\ said' = "applied" /\ unapplied' = unapplied
    BY <1>2 DEF Succeed
  <2>2. ASSUME NEW f \in Hot
        PROVE  Catching(f)' /\ Settled(f)'
    <3>1. Settled(f)
      BY <1>0, <1>2, ReadyMeansApplied
    <3>2. Catching(f)
      BY <3>1 DEF Settled, Catching
    <3> QED BY <1>0, <3>1, <3>2, OutputUnmoved
  <2>3. Following'
    BY <2>1, <2>2 DEF Following
  <2> QED BY <1>0, <2>1, <2>3, OutputUnmoved, Ch347Types, CallOver
<1> QED BY <1>0, <1>1, <1>2

LEMMA ProviderKilledStep == ASSUME Ch347Inv, ProviderKilled PROVE Ch347Inv'
BY FailOnly DEF ProviderKilled

(* What the output does on its own leaves the call where it is. *)
LEMMA CallUnmoved ==
    ASSUME Ch347Inv, UNCHANGED <<conf, set, said, sets>>
    PROVE  SetShape' /\ set' \in SetRecords /\ Changed' = Changed
           /\ conf' \in Settings /\ (ToStart' <=> ToStart)
           /\ said' \in {"none", "applied", "saved", "error"}
BY Ch347Types DEF Ch347Inv, SetShape, Changed, ToStart

LEMMA OutputStartsStep == ASSUME Ch347Inv, OutputStarts PROVE Ch347Inv'
<1>0. /\ UNCHANGED <<conf, rcpt, set, said, unapplied, sets>>
      /\ outputs' = outputs + 1 /\ outputs < MaxOutput /\ out' = Started
  BY DEF OutputStarts
<1>1. /\ out.gen \in Nat /\ out.gen <= sets + outputs
      /\ ToStart => out.gen + 1 <= sets + outputs
      /\ sets \in 0 .. MaxSets /\ outputs \in 0 .. MaxOutput
  BY Ch347Types, Ch347Constants DEF Ch347Inv, GenCounted, OutRecords
<1>2. out.gen + 1 \in 0 .. MaxOutput + MaxSets
  BY <1>0, <1>1, Ch347Constants
<1>3. /\ out' \in OutRecords /\ OutputShape' /\ ReceiptsPast'
      /\ out'.gen = out.gen + 1 /\ out'.run = NoValue
      /\ out'.load = NoValue /\ ~out'.signal
  BY <1>0, <1>2, StartedIs
<1>4. GenCounted'
  <2>1. outputs + 1 \in 0 .. MaxOutput
    BY <1>0, <1>1, Ch347Constants
  <2>2. /\ out.gen + 1 <= sets + (outputs + 1)
        /\ ToStart => (out.gen + 1) + 1 <= sets + (outputs + 1)
    BY <1>1
  <2> QED BY <1>0, <1>1, <1>3, <2>1, <2>2, CallUnmoved DEF GenCounted
<1>5. Restarting' /\ Following'
  BY <1>3 DEF Restarting, Following
<1> QED BY <1>0, <1>3, <1>4, <1>5, CallUnmoved, Ch347Types, Ch347TypeFromParts

LEMMA OutputStopsStep == ASSUME Ch347Inv, OutputStops PROVE Ch347Inv'
<1>0. /\ UNCHANGED <<conf, rcpt, set, said, unapplied, sets>>
      /\ outputs' = outputs + 1 /\ outputs < MaxOutput
      /\ out' = [Stopped EXCEPT !.gen = out.gen]
  BY DEF OutputStops
<1>1. /\ out.gen \in Nat /\ out.gen <= sets + outputs
      /\ ToStart => out.gen + 1 <= sets + outputs
      /\ sets \in 0 .. MaxSets /\ outputs \in 0 .. MaxOutput
  BY Ch347Types, Ch347Constants DEF Ch347Inv, GenCounted, OutRecords
<1>3. /\ out' \in OutRecords /\ OutputShape' /\ ReceiptsPast'
      /\ out'.gen = out.gen /\ out'.run = NoValue
      /\ out'.load = NoValue /\ ~out'.signal
  BY <1>0, StoppedIs
<1>4. GenCounted'
  <2>1. outputs + 1 \in 0 .. MaxOutput
    BY <1>0, <1>1, Ch347Constants
  <2>2. /\ out.gen <= sets + (outputs + 1)
        /\ ToStart => out.gen + 1 <= sets + (outputs + 1)
    BY <1>1
  <2> QED BY <1>0, <1>1, <1>3, <2>1, <2>2, CallUnmoved DEF GenCounted
<1>5. Restarting' /\ Following'
  BY <1>3 DEF Restarting, Following
<1> QED BY <1>0, <1>3, <1>4, <1>5, CallUnmoved, Ch347Types, Ch347TypeFromParts

(* A starting output reads everything; no receipt is of its generation yet. *)
LEMMA OutputReadsStep == ASSUME Ch347Inv, OutputReads PROVE Ch347Inv'
<1>0. /\ UNCHANGED <<conf, rcpt, set, said, sets, outputs>>
      /\ out.state = "starting" /\ out.run = NoValue
      /\ out' = [out EXCEPT !.run = conf] /\ unapplied' = FALSE
  BY DEF OutputReads
<1>1. /\ out' \in OutRecords /\ out'.run = conf /\ out'.load = out.load
      /\ out'.gen = out.gen /\ out'.state = out.state /\ out'.signal = out.signal
  BY <1>0, Ch347Types DEF OutRecords
<1>2. out.load = NoValue /\ \A f \in Hot : ~Current(f)
  BY <1>0 DEF Ch347Inv, OutputShape, ReceiptsPast, Current
<1>3. conf # NoValue
  BY Ch347Types, Ch347Constants
<1>4. OutputShape' /\ ReceiptsPast'
  BY <1>0, <1>1, <1>3 DEF Ch347Inv, OutputShape, ReceiptsPast
<1>5. \A f \in Hot : ~Current(f)'
  BY <1>0, <1>1, <1>2 DEF Current
<1>6. Restarting'
  BY <1>0, <1>1, <1>2, <1>5 DEF Ch347Inv, Restarting
<1>7. Following'
  BY <1>0, <1>1, <1>2, <1>5 DEF Following, Settled, Catching
<1>8. GenCounted'
  BY <1>0, <1>1, CallUnmoved DEF Ch347Inv, GenCounted
<1> QED BY <1>0, <1>1, <1>4, <1>6, <1>7, <1>8, CallUnmoved, Ch347Types,
           Ch347TypeFromParts

(* The steps of a running output differ in what they make of one setting. *)
LEMMA RunningStep ==
    ASSUME Ch347Inv, UNCHANGED <<conf, set, said, unapplied, sets, outputs>>,
           out' \in OutRecords, rcpt' \in [Hot -> Receipts \cup {NoValue}],
           out.run # NoValue, out'.run # NoValue, out'.gen = out.gen,
           OutputShape', ReceiptsPast', Restarting',
           \A f \in Hot : Catching(f) => Catching(f)',
           \A f \in Hot : Settled(f) => Settled(f)'
    PROVE  Ch347Inv'
<1>1. Following'
  BY CallUnmoved DEF Ch347Inv, Following
<1>2. GenCounted'
  BY CallUnmoved DEF Ch347Inv, GenCounted
<1> QED BY <1>1, <1>2, CallUnmoved, Ch347Types, Ch347TypeFromParts

LEMMA OutputReadyStep == ASSUME Ch347Inv, OutputReady PROVE Ch347Inv'
<1>0. /\ UNCHANGED <<conf, rcpt, set, said, unapplied, sets, outputs>>
      /\ out.state = "starting" /\ out.run # NoValue
      /\ out' = [out EXCEPT !.state = "ready"]
  BY DEF OutputReady, OutputMoves
<1>1. /\ out' \in OutRecords /\ out'.run = out.run /\ out'.load = out.load
      /\ out'.gen = out.gen /\ out'.signal = out.signal /\ out'.state = "ready"
  BY <1>0, Ch347Types DEF OutRecords
<1>2. OutputShape' /\ ReceiptsPast'
  BY <1>0, <1>1 DEF Ch347Inv, OutputShape, ReceiptsPast
<1>3. Restarting'
  BY <1>0, <1>1 DEF Ch347Inv, Restarting, Current
<1>4. \A f \in Hot : /\ Settled(f) => Settled(f)'
                     /\ Catching(f) => Catching(f)'
  BY <1>0, <1>1 DEF Settled, Catching, Current
<1> QED BY <1>0, <1>1, <1>2, <1>3, <1>4, Ch347Types, RunningStep

LEMMA OutputReloadsStep == ASSUME Ch347Inv, OutputReloads PROVE Ch347Inv'
<1>0. /\ UNCHANGED <<conf, rcpt, set, said, unapplied, sets, outputs>>
      /\ out.signal /\ out.run # NoValue /\ out.load = NoValue
      /\ out' = [out EXCEPT !.load = conf, !.signal = FALSE]
  BY DEF OutputReloads, OutputMoves
<1>1. /\ out' \in OutRecords /\ out'.run = out.run /\ out'.load = conf
      /\ out'.gen = out.gen /\ ~out'.signal /\ out'.state = out.state
  BY <1>0, Ch347Types DEF OutRecords
<1>2. OutputShape' /\ ReceiptsPast'
  BY <1>0, <1>1 DEF Ch347Inv, OutputShape, ReceiptsPast
<1>3. Restarting'
  BY <1>0, <1>1 DEF Ch347Inv, Restarting, Current
<1>4. \A f \in Hot : /\ Settled(f) => Settled(f)'
                     /\ Catching(f) => Catching(f)'
  BY <1>0, <1>1 DEF Settled, Catching, Current
<1> QED BY <1>0, <1>1, <1>2, <1>3, <1>4, Ch347Types, RunningStep

LEMMA OutputAppliesStep == ASSUME Ch347Inv, OutputApplies PROVE Ch347Inv'
<1> DEFINE new == [f \in ConfigFiles |-> IF f \in Hot THEN out.load[f]
                                         ELSE out.run[f]]
<1>0. /\ UNCHANGED <<conf, rcpt, set, said, unapplied, sets, outputs>>
      /\ out.load # NoValue
      /\ out' = [out EXCEPT !.load = NoValue, !.run = new]
  BY DEF OutputApplies, OutputMoves
<1>1. out.run # NoValue /\ out.run \in Settings /\ out.load \in Settings
  BY <1>0, Ch347Types DEF Ch347Inv, OutputShape, OutRecords
<1>2. new \in Settings /\ new # NoValue
  BY <1>1, Ch347Constants DEF Settings
<1>3. \A f \in Hot : new[f] = out.load[f]
  BY Ch347Constants
<1> HIDE DEF new
<1>4. /\ out' \in OutRecords /\ out'.run = new /\ out'.load = NoValue
      /\ out'.gen = out.gen /\ out'.state = out.state
      /\ out'.signal = out.signal
  BY <1>0, <1>2, Ch347Types DEF OutRecords
<1>5. OutputShape' /\ ReceiptsPast'
  BY <1>0, <1>1, <1>2, <1>4 DEF Ch347Inv, OutputShape, ReceiptsPast
<1>6. Restarting'
  BY <1>0 DEF Ch347Inv, Restarting
<1>7. ASSUME NEW f \in Hot, Settled(f)
      PROVE  Settled(f)'
  BY <1>0, <1>3, <1>4, <1>7 DEF Settled, Current
<1>8. ASSUME NEW f \in Hot, Catching(f)
      PROVE  Catching(f)'
  BY <1>0, <1>3, <1>4, <1>8 DEF Catching, Current
<1> QED BY <1>0, <1>1, <1>2, <1>4, <1>5, <1>6, <1>7, <1>8, Ch347Types,
           RunningStep

LEMMA OutputReceiptStep ==
    ASSUME Ch347Inv, NEW g \in Hot, OutputReceipt(g) PROVE Ch347Inv'
<1>0. /\ UNCHANGED <<conf, out, set, said, unapplied, sets, outputs>>
      /\ out.run # NoValue
      /\ rcpt' = [rcpt EXCEPT ![g] = [gen |-> out.gen, value |-> out.run[g]]]
  BY DEF OutputReceipt, OutputMoves
<1>1. out.run \in Settings /\ out.gen \in Nat /\ out.gen >= 1
  BY <1>0, Ch347Types, Ch347Constants DEF OutRecords, Ch347Inv, OutputShape
<1>2. [gen |-> out.gen, value |-> out.run[g]] \in Receipts
  BY <1>1, Ch347Constants DEF Receipts, Settings
<1>3. /\ rcpt' \in [Hot -> Receipts \cup {NoValue}]
      /\ rcpt'[g] # NoValue /\ rcpt'[g].gen = out.gen
      /\ rcpt'[g].value = out.run[g]
      /\ \A f \in Hot \ {g} : rcpt'[f] = rcpt[f]
  BY <1>0, <1>2, Ch347Types, Ch347Constants
<1>4. OutputShape'
  BY <1>0 DEF Ch347Inv, OutputShape
<1>5. ReceiptsPast'
  BY <1>0, <1>1, <1>3 DEF Ch347Inv, ReceiptsPast
<1>6. \A f \in Hot \ {g} : /\ Current(f)' <=> Current(f)
                           /\ rcpt'[f] = rcpt[f]
  BY <1>0, <1>3 DEF Current
<1>7. Restarting'
  BY <1>0, <1>3, <1>6 DEF Ch347Inv, Restarting
<1>8. ASSUME NEW f \in Hot
      PROVE  (Settled(f) => Settled(f)') /\ (Catching(f) => Catching(f)')
  <2>1. CASE f = g
    BY <1>0, <1>3, <2>1 DEF Settled, Catching
  <2>2. CASE f # g
    BY <1>0, <1>6, <2>2 DEF Settled, Catching
  <2> QED BY <2>1, <2>2
<1> QED BY <1>0, <1>3, <1>4, <1>5, <1>7, <1>8, Ch347Types, RunningStep

LEMMA Ch347InitInv == Ch347Init => Ch347Inv
<1> SUFFICES ASSUME Ch347Init PROVE Ch347Inv
  OBVIOUS
<1>1. /\ conf \in Settings /\ out = Stopped /\ rcpt = [f \in Hot |-> NoValue]
      /\ set = NoSet /\ said = "none" /\ unapplied = FALSE
      /\ sets = 0 /\ outputs = 0
  BY DEF Ch347Init
<1>2. /\ out \in OutRecords /\ out.gen = 0 /\ out.run = NoValue
      /\ out.load = NoValue /\ ~out.signal /\ out.state = "stopped"
  BY <1>1, Ch347Constants DEF Stopped, OutRecords
<1>3. rcpt \in [Hot -> Receipts \cup {NoValue}] /\ \A f \in Hot : rcpt[f] = NoValue
  BY <1>1
<1>4. OutputShape /\ ReceiptsPast
  BY <1>2, <1>3 DEF OutputShape, ReceiptsPast
<1>5. /\ set \in SetRecords /\ set.step = "idle" /\ set.todo = {}
      /\ Changed = {} /\ ~set.restart
  BY <1>1, NoSetIs DEF Changed
<1>6. SetShape /\ Restarting /\ Following
  BY <1>1, <1>2, <1>5 DEF SetShape, Restarting, Following
<1>7. GenCounted
  <2>1. sets \in 0 .. MaxSets /\ outputs \in 0 .. MaxOutput /\ ~ToStart
    BY <1>1, <1>5, Ch347Constants DEF ToStart
  <2> QED BY <1>1, <1>2, <2>1 DEF GenCounted
<1>8. DOMAIN set.changes \subseteq ConfigFiles /\ set.todo \subseteq DOMAIN set.changes
  BY <1>5 DEF Changed
<1>9. {set.restart, set.ready, unapplied} \subseteq BOOLEAN
  BY <1>1, <1>5 DEF SetRecords
<1>10. Ch347TypeOK
  BY <1>1, <1>2, <1>3, <1>5, <1>8, <1>9 DEF Ch347TypeOK, OutRecords
<1> QED BY <1>4, <1>5, <1>6, <1>7, <1>10 DEF Ch347Inv

LEMMA Ch347StepInv == Ch347Inv /\ [Ch347Next]_ch347Vars => Ch347Inv'
<1> SUFFICES ASSUME Ch347Inv, [Ch347Next]_ch347Vars PROVE Ch347Inv'
  OBVIOUS
<1>1. CASE UNCHANGED ch347Vars
  <2>1. /\ UNCHANGED <<conf, out, rcpt, set, said, unapplied, sets, outputs>>
    BY <1>1 DEF ch347Vars
  <2> QED BY <2>1 DEF Ch347Inv, Ch347TypeOK, OutputShape, ReceiptsPast, SetShape,
             Restarting, GenCounted, ToStart, Following, Changed, Settled,
             Catching, Current
<1>2. CASE Ch347Next
  BY <1>2, SetStateStep, WriteConfigStep, WrittenStep, SignalStep,
     AwaitReceiptsStep, StopOutputStep, StartOutputStep, StartAnsweredStep,
     ProviderKilledStep, OutputStartsStep, OutputReadsStep, OutputReadyStep,
     OutputReloadsStep, OutputAppliesStep, OutputStopsStep, OutputReceiptStep
     DEF Ch347Next
<1> QED BY <1>1, <1>2

(* Ch347Inv holds in every state of the configuration protocol. *)
THEOREM Ch347Invariant == Ch347Spec => []Ch347Inv
BY Ch347InitInv, Ch347StepInv, PTL DEF Ch347Spec

(* Whatever set_state, the output and a killed provider do, the variables    *)
(* keep their types; generations stay within what starts can account for.    *)
THEOREM ConfigurationTyped == Ch347Spec => []Ch347TypeOK
<1>1. Ch347Inv => Ch347TypeOK
  BY DEF Ch347Inv
<1> QED BY <1>1, Ch347Invariant, PTL

(* Between calls of set_state a running output runs with the hot settings    *)
(* its files hold, unless a call left files it was not told of.              *)
THEOREM SavedSettingsReachOutput == Ch347Spec => []SavedReachesOutput
<1>1. Ch347Inv => SavedReachesOutput
  <2> SUFFICES ASSUME Ch347Inv, set.step = "idle", ~unapplied,
                      out.state = "ready", NEW f \in Hot
               PROVE  out.run[f] = conf[f]
    BY DEF SavedReachesOutput
  <2>1. out.run # NoValue /\ Changed = {}
    BY NoSetIs DEF Ch347Inv, OutputShape, SetShape, Changed
  <2> QED BY <2>1 DEF Ch347Inv, Following, Settled
<1> QED BY <1>1, Ch347Invariant, PTL

(* A set_state call that answers "applied" after signalling or restarting    *)
(* the output leaves it running with what the files say.                     *)
THEOREM SuccessIsApplied == Ch347Spec => SuccessMeansApplied
<1> DEFINE Step == (set # NoSet /\ set' = NoSet /\ said' = "applied")
       => /\ out.run # NoValue
          /\ unapplied \/ \A f \in Hot : out.run[f] = conf[f]
          /\ set.restart => out.run = conf
<1>1. ASSUME Ch347Inv, Ch347Next, set # NoSet, set' = NoSet, said' = "applied"
      PROVE  Step
  <2>1. (AwaitReceipts /\ ReceiptsMatch) \/ (StartAnswered /\ Ready)
    <3>1. ~Fail
      BY <1>1 DEF Fail
    <3>2. ~SetStep("stop") /\ ~SetStep("apply") /\ ~SetStep("wait")
          /\ ~SetStep("start") /\ ~SetStep("started")
      <4>1. ASSUME NEW s \in SetSteps, SetStep(s), s # "idle"
            PROVE  FALSE
        BY <1>1, <4>1, NextSetStep, NoSetIs DEF SetStep
      <4> QED BY <4>1 DEF SetSteps
    <3>3. set' # set
      BY <1>1
    <3>4. /\ \A ch, r : ~SetState(ch, r)
          /\ ~Written
      BY <1>1, <3>1, <3>2 DEF SetState, Written
    <3>5. ~WriteConfig
      <4>1. ASSUME NEW t, set.step = "write", set' = [set EXCEPT !.todo = t]
            PROVE  FALSE
        <5>1. set'.step = "write"
          BY <1>1, <4>1, Ch347Types DEF SetRecords
        <5> QED BY <1>1, <5>1, NoSetIs
      <4> QED BY <3>1, <4>1 DEF WriteConfig
    <3>6. ~Signal /\ ~StopOutput /\ ~StartOutput /\ ~ProviderKilled
      BY <3>1, <3>2 DEF Signal, StopOutput, StartOutput, ProviderKilled
    <3>7. /\ ~OutputStarts /\ ~OutputReads /\ ~OutputReady /\ ~OutputReloads
          /\ ~OutputApplies /\ ~OutputStops /\ \A f \in Hot : ~OutputReceipt(f)
      BY <3>3 DEF OutputStarts, OutputReads, OutputReady, OutputReloads,
                  OutputApplies, OutputStops, OutputReceipt, OutputMoves
    <3>8. AwaitReceipts \/ StartAnswered
      BY <1>1, <3>4, <3>5, <3>6, <3>7 DEF Ch347Next
    <3> QED BY <3>1, <3>8 DEF AwaitReceipts, StartAnswered
  <2>2. CASE AwaitReceipts /\ ReceiptsMatch
    <3>1. set.step = "wait" /\ ~set.restart
      BY <1>1, <2>2 DEF AwaitReceipts, Ch347Inv, SetShape
    <3>2. out.run # NoValue /\ (~unapplied => \A f \in Hot : Settled(f))
      BY <1>1, <2>2, <3>1, MatchMeansApplied
    <3> QED BY <3>1, <3>2 DEF Settled
  <2>3. CASE StartAnswered /\ Ready
    <3>1. out.run = conf /\ \A f \in Hot : Settled(f)
      BY <1>1, <2>3, ReadyMeansApplied DEF StartAnswered
    <3>2. conf # NoValue
      BY <1>1, Ch347Types, Ch347Constants
    <3> QED BY <3>1, <3>2
  <2> QED BY <2>1, <2>2, <2>3
<1>2. Ch347Inv /\ [Ch347Next]_ch347Vars => [Step]_ch347Vars
  BY <1>1
<1> QED BY <1>2, Ch347Invariant, PTL DEF Ch347Spec, SuccessMeansApplied

-----------------------------------------------------------------------------
(* The provider processes together.  A step of one process leaves the state   *)
(* of the others alone, so the composition implements each of them.           *)

LEMMA EachProcessMoves ==
    ASSUME [ProvidersNext]_providersVars
    PROVE  /\ [WifiNext]_wifiVars /\ [WriteNext]_writeVars
           /\ [SessionNext]_sessionVars /\ [Ch347Next]_ch347Vars
           /\ [BluetoothNext]_btVars
           /\ proc' = proc
BY DEF ProvidersNext, providersVars, NetworkProcess, AttributeProcess,
       SessionProcess, Ch347Process, BluetoothProcess

(* Every behaviour of the provider processes is, seen from one of them, a    *)
(* behaviour of that provider alone: the processes share no state.           *)
THEOREM ProvidersImplementEach ==
    ProvidersSpec => /\ WifiSpec /\ WriteSpec /\ SessionSpec
                     /\ Ch347Spec /\ BluetoothSpec
<1>1. ProvidersInit => /\ WifiInit /\ WriteInit /\ SessionInit
                       /\ Ch347Init /\ BluetoothInit
  BY DEF ProvidersInit
<1>2. [ProvidersNext]_providersVars =>
        /\ [WifiNext]_wifiVars /\ [WriteNext]_writeVars
        /\ [SessionNext]_sessionVars /\ [Ch347Next]_ch347Vars
        /\ [BluetoothNext]_btVars
  BY EachProcessMoves
<1> QED BY <1>1, <1>2, PTL DEF ProvidersSpec, WifiSpec, WriteSpec, SessionSpec,
           Ch347Spec, BluetoothSpec

(* The variables of every provider process keep their types. *)
THEOREM ProvidersTyped == ProvidersSpec => []ProvidersTypeOK
<1>1. ProvidersInit => proc \in Processes
  BY DEF ProvidersInit
<1>2. ASSUME proc \in Processes, [ProvidersNext]_providersVars
      PROVE  (proc \in Processes)'
  BY <1>2, EachProcessMoves DEF Processes
<1>3. ProvidersSpec => [](proc \in Processes)
  BY <1>1, <1>2, PTL DEF ProvidersSpec
<1>4. WifiInv => WifiTypeOK
  BY DEF WifiInv
<1>5. WriteInv => WriteTypeOK
  BY DEF WriteInv
<1>6. SessionInv => SessionTypeOK
  BY DEF SessionInv
<1>7. (/\ proc \in Processes /\ WifiTypeOK /\ WriteTypeOK
       /\ SessionTypeOK /\ Ch347TypeOK /\ BluetoothTypeOK) => ProvidersTypeOK
  BY DEF ProvidersTypeOK
<1> QED BY <1>3, <1>4, <1>5, <1>6, <1>7, ProvidersImplementEach, WifiInvHolds,
           WriteInvHolds, SessionInvHolds, ConfigurationTyped,
           PowerRequestsTyped, PTL

(* What is proved of each provider holds of the processes side by side. *)
THEOREM ProvidersKeepTheirPromises ==
    ProvidersSpec =>
    /\ []PowerReportedTruly /\ []PulseRestores
    /\ []PartialCreationRemoved /\ ConnectReachesItsNetwork
    /\ RemovalSparesOthers
    /\ []AcknowledgedValueStands /\ []PercentKept
    /\ []SteadySessionServed
    /\ []SavedReachesOutput /\ SuccessMeansApplied
BY ProvidersImplementEach, PowerIsReportedTruly, PulsesRestore,
   PartialCreationsRemoved, ConnectsReachTheirNetwork, RemovalsSpareOthers,
   AcknowledgedValuesStand, PercentIsKept,
   SteadySessionsServed, SavedSettingsReachOutput, SuccessIsApplied, PTL
=============================================================================
