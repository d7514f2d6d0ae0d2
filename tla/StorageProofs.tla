--------------------------- MODULE StorageProofs ---------------------------
(***************************************************************************)
(* Proofs about the removable storage of the native HAL process.            *)
(***************************************************************************)
EXTENDS Storage, FiniteSetTheorems, SequenceTheorems, WellFoundedInduction,
        TLAPS

ErrorCodes == {"none", "mount", "unmount"}
Erring(e) == {v \in Volumes : e[v] # "none"}

(* A medium that is out has no mounts; one that waits to be tried has none. *)
MountsPresent == \A v \in Volumes : v \notin present => mountinfo[v] = << >>
AwaitingUnmounted == \A v \in awaiting : v \in present /\ mountinfo[v] = << >>

(* Where each handler is and what it may rely on. *)
StorageJob ==
    /\ job.step \in {"lookup", "command", "check"} => job.vol \in Volumes
    /\ job.step = "command" => job.vol \in DOMAIN cache
    /\ job.step = "automount" => job.todo \cap suppressed = {}

(* Names are suppressed only while the last scan showed them, so the list     *)
(* never refuses the volume a client unmounts.                                *)
SuppressedShown == suppressed \subseteq DOMAIN cache

(* What the subscribers were told, when no change is pending. *)
Told ==
    IF announced.by = Process THEN announced = Snapshot
    ELSE cache = << >> /\ auto = Loaded(DefaultAuto, config)

Announced ==
    /\ announced.by \in 0 .. Process
    /\ job = Idle => ~dirty
    /\ ~dirty => Told

(* A standing unmount of this process. *)
Honoured(v) == <<v, restarts>> \in honoured
HonouredKept ==
    /\ honoured # {} => ~Crowded(present)
    /\ \A p \in honoured : p[2] <= restarts
    /\ \A v \in Volumes : Honoured(v) =>
          v \in present /\ v \in suppressed /\ "managed" \notin Range(mountinfo[v])

(* With nothing queued: every scan that is over saw all there is, a medium    *)
(* not tried yet is in the work list or suppressed, and only a queued uevent  *)
(* can be about a name that was tried before its medium came in.              *)
Seen ==
    /\ awaiting \cap suppressed = {}
    /\ netlink =>
       /\ attempted \cap awaiting \subseteq uevents
       /\ (uevents = {} /\ job.step \in {"idle", "reply"}) => DOMAIN cache = Visible
       /\ (uevents = {} /\ auto /\ job.step # "scan") =>
             awaiting \cap Visible \subseteq
                suppressed \cup (IF job.step = "automount" THEN job.todo ELSE {})

StorageInv ==
    /\ TypeOK /\ restarts \in 0 .. MaxRestarts
    /\ MountsPresent /\ AwaitingUnmounted /\ StorageJob /\ SuppressedShown
    /\ Announced /\ HonouredKept /\ Seen

-----------------------------------------------------------------------------
(* The operators. *)

LEMMA StorageConstants ==
    /\ Volumes \subseteq Nat /\ IsFiniteSet(Volumes) /\ MaxVolumes \in Nat \ {0}
    /\ DefaultAuto \in BOOLEAN /\ None \notin Volumes /\ MaxRestarts \in Nat
BY StorageAssumption

LEMMA SubsetsFinite ==
    ASSUME NEW S \in SUBSET Volumes
    PROVE  IsFiniteSet(S) /\ Cardinality(S) \in Nat
BY StorageConstants, FS_Subset, FS_CardinalityType

LEMMA SmallerSet ==
    ASSUME NEW S \in SUBSET Volumes, NEW T \in SUBSET S
    PROVE  Cardinality(T) <= Cardinality(S) /\ Cardinality(T) \in Nat
           /\ Cardinality(S) \in Nat /\ (Cardinality(T) = Cardinality(S) => T = S)
BY SubsetsFinite, FS_Subset

(* storage_list_add keeps the bound. *)
LEMMA ListAddIs ==
    ASSUME NEW list \in SUBSET Volumes, Cardinality(list) <= MaxVolumes,
           NEW v \in Volumes
    PROVE  /\ ListAdd(list, v) \subseteq list \cup {v}
           /\ list \subseteq ListAdd(list, v)
           /\ Cardinality(ListAdd(list, v)) <= MaxVolumes
<1>1. Cardinality(list \cup {v}) <= Cardinality(list) + 1
      /\ Cardinality(list) \in Nat
  BY SubsetsFinite, FS_AddElement
<1>2. CASE Cardinality(list) >= MaxVolumes
  BY <1>2 DEF ListAdd
<1>3. CASE ~(Cardinality(list) >= MaxVolumes)
  <2>1. Cardinality(list \cup {v}) <= MaxVolumes
    <3>1. Cardinality(list \cup {v}) \in Nat
      BY SubsetsFinite
    <3> QED BY <1>1, <1>3, <3>1, StorageConstants
  <2> QED BY <1>3, <2>1 DEF ListAdd
<1> QED BY <1>2, <1>3

(* It has room for a name that is shown, if it holds only such names. *)
LEMMA ListAddRoom ==
    ASSUME NEW shown \in SUBSET Volumes, Cardinality(shown) <= MaxVolumes,
           NEW list \in SUBSET shown, NEW v \in shown
    PROVE  v \in ListAdd(list, v)
<1>1. CASE Cardinality(list) >= MaxVolumes
  <2>1. Cardinality(list) = Cardinality(shown)
    BY <1>1, SmallerSet, StorageConstants
  <2>2. list = shown
    BY <2>1, SmallerSet
  <2> QED BY <1>1, <2>2 DEF ListAdd
<1>2. CASE ~(Cardinality(list) >= MaxVolumes)
  BY <1>2 DEF ListAdd
<1> QED BY <1>1, <1>2

(* The error table keeps its bound too. *)
LEMMA SetErrorIs ==
    ASSUME errors \in [Volumes -> ErrorCodes], NEW v \in Volumes,
           Cardinality(Erring(errors)) <= MaxVolumes,
           NEW code \in ErrorCodes
    PROVE  /\ SetError(v, code) \in [Volumes -> ErrorCodes]
           /\ Cardinality(Erring(SetError(v, code))) <= MaxVolumes
<1> DEFINE new == [errors EXCEPT ![v] = code]
<1>0. Erring(errors) \in SUBSET Volumes /\ Cardinality(Erring(errors)) \in Nat
  BY SubsetsFinite DEF Erring
<1>1. new \in [Volumes -> ErrorCodes] /\ Erring(new) \subseteq Erring(errors) \cup {v}
  BY DEF Erring
<1> HIDE DEF new
<1>2. SetError(v, code) = IF v \in Erring(errors) \/
                             Cardinality(Erring(errors)) < MaxVolumes
                          THEN new ELSE errors
  BY DEF SetError, Erring, new
<1>3. CASE v \in Erring(errors)
  <2>1. Cardinality(Erring(new)) <= Cardinality(Erring(errors))
        /\ Cardinality(Erring(new)) \in Nat
    BY <1>0, <1>1, <1>3, SmallerSet
  <2> QED BY <1>0, <1>1, <1>2, <1>3, <2>1, StorageConstants
<1>4. CASE v \notin Erring(errors) /\ Cardinality(Erring(errors)) < MaxVolumes
  <2>1. /\ Cardinality(Erring(errors) \cup {v}) = Cardinality(Erring(errors)) + 1
        /\ Erring(errors) \cup {v} \in SUBSET Volumes
    BY <1>0, <1>4, SubsetsFinite, FS_AddElement
  <2>2. /\ Cardinality(Erring(new)) <= Cardinality(Erring(errors) \cup {v})
        /\ Cardinality(Erring(new)) \in Nat
    BY <1>1, <2>1, SmallerSet
  <2> QED BY <1>0, <1>1, <1>2, <1>4, <2>1, <2>2, StorageConstants
<1>5. CASE v \notin Erring(errors) /\ ~(Cardinality(Erring(errors)) < MaxVolumes)
  BY <1>2, <1>5
<1> QED BY <1>3, <1>4, <1>5

LEMMA ClearErrorIs ==
    ASSUME errors \in [Volumes -> ErrorCodes], NEW v \in Volumes,
           Cardinality(Erring(errors)) <= MaxVolumes
    PROVE  /\ ClearError(v) \in [Volumes -> ErrorCodes]
           /\ Cardinality(Erring(ClearError(v))) <= MaxVolumes
<1>1. /\ ClearError(v) \in [Volumes -> ErrorCodes]
      /\ Erring(ClearError(v)) \subseteq Erring(errors)
      /\ Erring(errors) \in SUBSET Volumes
  BY DEF ClearError, ErrorCodes, Erring
<1>2. /\ Cardinality(Erring(ClearError(v))) <= Cardinality(Erring(errors))
      /\ Cardinality(Erring(ClearError(v))) \in Nat
      /\ Cardinality(Erring(errors)) \in Nat
  BY <1>1, SmallerSet
<1> QED BY <1>1, <1>2, StorageConstants

(* A set of volumes has a last one in directory order. *)
LEMMA LastVolume ==
    ASSUME NEW S \in SUBSET Volumes, S # {}
    PROVE  \E m \in S : \A u \in S : u <= m
<1> DEFINE Above(m) == {u \in S : u > m}
           counts == {Cardinality(Above(m)) : m \in S}
<1>1. \A m \in S : Above(m) \in SUBSET Volumes /\ Cardinality(Above(m)) \in Nat
  BY SubsetsFinite
<1>2. counts \subseteq Nat /\ counts # {}
  BY <1>1
<1>3. PICK c \in counts : \A d \in counts : ~(<<d, c>> \in OpToRel(<, Nat))
  <2> HIDE DEF counts
  <2> QED BY <1>2, NatLessThanWellFounded, WFMin
<1>4. PICK m \in S : c = Cardinality(Above(m))
  OBVIOUS
<1>5. ASSUME NEW u \in S, u > m
      PROVE  FALSE
  <2>1. Above(u) \in SUBSET Above(m) /\ u \in Above(m) /\ u \notin Above(u)
    <3>1. m \in Nat /\ u \in Nat /\ S \subseteq Nat
      BY StorageConstants
    <3>2. \A w \in S : w > u => w > m
      BY <1>5, <3>1
    <3>3. ~(u > u)
      BY <3>1
    <3> QED BY <1>5, <3>2, <3>3
  <2>2. Cardinality(Above(u)) \in Nat /\ Cardinality(Above(m)) \in Nat
        /\ Cardinality(Above(u)) <= Cardinality(Above(m))
        /\ Cardinality(Above(u)) # Cardinality(Above(m))
    <3> HIDE DEF Above
    <3> QED BY <1>1, <2>1, SmallerSet
  <2>3. Cardinality(Above(u)) \in counts
    OBVIOUS
  <2> HIDE DEF Above, counts
  <2>4. <<Cardinality(Above(u)), c>> \in OpToRel(<, Nat)
    BY <1>4, <2>2 DEF OpToRel
  <2> QED BY <1>3, <2>3, <2>4
<1> QED BY <1>5, StorageConstants

(* A scan shows at most MAX_STORAGE_VOLUMES entries. *)
LEMMA VisibleBound ==
    ASSUME present \subseteq Volumes
    PROVE  Visible \subseteq present /\ Cardinality(Visible) <= MaxVolumes
           /\ Cardinality(Visible) \in Nat
<1>1. Visible \subseteq present /\ Visible \in SUBSET Volumes
  BY DEF Visible
<1>2. CASE Visible = {}
  BY <1>1, <1>2, FS_EmptySet, StorageConstants
<1>3. CASE Visible # {}
  <2>1. PICK m \in Visible : \A u \in Visible : u <= m
    BY <1>1, <1>3, LastVolume
  <2>2. Visible \subseteq Before(m) \cup {m}
    BY <1>1, <2>1, StorageConstants DEF Before
  <2>3. /\ Before(m) \in SUBSET Volumes /\ m \in Volumes /\ m \notin Before(m)
        /\ Cardinality(Before(m)) < MaxVolumes
    <3>1. m \in Nat /\ ~(m < m)
      BY <1>1, StorageConstants
    <3> QED BY <1>1, <3>1 DEF Before, Visible
  <2>4. /\ Cardinality(Before(m) \cup {m}) = Cardinality(Before(m)) + 1
        /\ Cardinality(Before(m)) \in Nat
    BY <2>3, SubsetsFinite, FS_AddElement
  <2>5. /\ Cardinality(Visible) <= Cardinality(Before(m) \cup {m})
        /\ Cardinality(Visible) \in Nat
    <3>1. Before(m) \cup {m} \in SUBSET Volumes
      BY <2>3
    <3> QED BY <2>2, <3>1, SmallerSet
  <2> QED BY <1>1, <2>3, <2>4, <2>5, StorageConstants
<1> QED BY <1>2, <1>3

(* With no more media than that it shows them all. *)
LEMMA UncrowdedShown ==
    ASSUME present \subseteq Volumes, ~Crowded(present)
    PROVE  Visible = present
<1>1. ASSUME NEW v \in present
      PROVE  Cardinality(Before(v)) < MaxVolumes
  <2>1. Before(v) \in SUBSET present /\ v \notin Before(v)
    BY StorageConstants DEF Before
  <2>2. /\ Cardinality(Before(v)) <= Cardinality(present)
        /\ Cardinality(Before(v)) # Cardinality(present)
        /\ Cardinality(Before(v)) \in Nat /\ Cardinality(present) \in Nat
    BY <2>1, SmallerSet
  <2> QED BY <2>2, StorageConstants DEF Crowded
<1> QED BY <1>1 DEF Visible

(* The first name of a work list. *)
LEMMA FirstVolume ==
    ASSUME NEW S \in SUBSET Volumes, S # {}
    PROVE  Min(S) \in S
<1>1. S \subseteq Nat
  BY StorageConstants
<1>2. PICK m \in S : \A u \in S : ~(<<u, m>> \in OpToRel(<, Nat))
  BY <1>1, NatLessThanWellFounded, WFMin
<1>3. ASSUME NEW u \in S PROVE m <= u
  <2>1. u \in Nat /\ m \in Nat
    BY <1>1
  <2>2. ~(u < m)
    BY <1>2, <2>1 DEF OpToRel
  <2> QED BY <2>1, <2>2
<1> QED BY <1>3 DEF Min

(* Lists of mounts: at most one of each kind. *)
LEMMA MountListIs ==
    ASSUME NEW l \in MountLists
    PROVE  \/ l = << >> \/ l = <<"managed">> \/ l = <<"external">>
           \/ l = <<"managed", "external">> \/ l = <<"external", "managed">>
BY DEF MountLists, Kinds

LEMMA MountRanges ==
    /\ Range(<< >>) = {} /\ Range(<<"managed">>) = {"managed"}
    /\ Range(<<"external">>) = {"external"}
    /\ Range(<<"managed", "external">>) = {"managed", "external"}
    /\ Range(<<"external", "managed">>) = {"managed", "external"}
BY DEF Range

LEMMA EmptyMounts ==
    ASSUME NEW l \in MountLists
    PROVE  /\ Range(l) \subseteq Kinds /\ (Range(l) = {} <=> l = << >>)
           /\ l # << >> => Head(l) \in Kinds
BY MountListIs, MountRanges DEF Kinds

LEMMA AppendToOne ==
    ASSUME NEW S, NEW j \in S, NEW k \in S
    PROVE  Append(<<j>>, k) = <<j, k>>
<1> DEFINE s == Append(<<j>>, k)
<1>1. <<j>> \in Seq(S) /\ Len(<<j>>) = 1 /\ <<j>>[1] = j
  OBVIOUS
<1>2. s \in Seq(S) /\ Len(s) = 2 /\ s[1] = j /\ s[2] = k
  BY <1>1, AppendProperties
<1>3. <<j, k>> \in Seq(S) /\ Len(<<j, k>>) = 2
  OBVIOUS
<1> HIDE DEF s
<1>4. \A i \in 1 .. Len(s) : s[i] = <<j, k>>[i]
  BY <1>2
<1>5. s = <<j, k>>
  BY <1>2, <1>3, <1>4, SeqEqual
<1> QED BY <1>5 DEF s

LEMMA AppendIs ==
    ASSUME NEW l \in MountLists, NEW k \in Kinds, k \notin Range(l)
    PROVE  /\ Append(l, k) \in MountLists
           /\ Range(Append(l, k)) = Range(l) \cup {k}
           /\ Append(l, k) # << >>
<1>1. Append(<< >>, "managed") = <<"managed">>
  OBVIOUS
<1>2. Append(<< >>, "external") = <<"external">>
  OBVIOUS
<1>3. Append(<<"external">>, "managed") = <<"external", "managed">>
  BY AppendToOne DEF Kinds
<1>4. Append(<<"managed">>, "external") = <<"managed", "external">>
  BY AppendToOne DEF Kinds
<1>5. \/ l = << >> \/ (l = <<"external">> /\ k = "managed")
      \/ (l = <<"managed">> /\ k = "external")
  BY MountListIs, MountRanges DEF Kinds
<1>6. << >> # <<"managed">> /\ << >> # <<"external">>
      /\ << >> # <<"external", "managed">> /\ << >> # <<"managed", "external">>
  BY MountRanges
<1>7. {<<"managed">>, <<"external">>, <<"external", "managed">>,
       <<"managed", "external">>} \subseteq MountLists
  BY DEF MountLists, Kinds
<1> QED BY <1>1, <1>2, <1>3, <1>4, <1>5, <1>6, <1>7, MountRanges DEF Kinds

LEMMA WithoutIs ==
    ASSUME NEW l \in MountLists, NEW k \in Kinds
    PROVE  /\ Without(l, k) \in MountLists
           /\ Range(Without(l, k)) = Range(l) \ {k}
<1>1. \E rest \in MountLists : Range(rest) = Range(l) \ {k}
  <2>1. {<< >>, <<"managed">>, <<"external">>} \subseteq MountLists
    BY DEF MountLists, Kinds
  <2>2. Range(l) \ {k} \in {{}, {"managed"}, {"external"}}
    BY MountListIs, MountRanges DEF Kinds
  <2> QED BY <2>1, <2>2, MountRanges
<1> QED BY <1>1 DEF Without

-----------------------------------------------------------------------------
(* Types, and the steps that leave media and mounts alone. *)

SmallList(l) == l \subseteq Volumes /\ Cardinality(l) <= MaxVolumes
ErrorTable(e) ==
    e \in [Volumes -> ErrorCodes] /\ Cardinality(Erring(e)) <= MaxVolumes
View(c) == /\ DOMAIN c \subseteq Volumes /\ Cardinality(DOMAIN c) <= MaxVolumes
           /\ c \in [DOMAIN c -> Row]

LEMMA StorageTypes ==
    ASSUME StorageInv
    PROVE  /\ present \subseteq Volumes /\ uevents \subseteq Volumes
           /\ mountinfo \in [Volumes -> MountLists]
           /\ netlink \in BOOLEAN /\ auto \in BOOLEAN
           /\ configError \in BOOLEAN /\ dirty \in BOOLEAN
           /\ config \in {"missing", "true", "false", "invalid"}
           /\ SmallList(attempted) /\ SmallList(suppressed)
           /\ ErrorTable(errors) /\ View(cache) /\ job \in Jobs
           /\ honoured \subseteq Volumes \X (0 .. MaxRestarts)
           /\ awaiting \subseteq Volumes /\ restarts \in 0 .. MaxRestarts
<1>1. netlink \in BOOLEAN /\ auto \in BOOLEAN
      /\ configError \in BOOLEAN /\ dirty \in BOOLEAN
  BY DEF StorageInv, TypeOK
<1> QED BY <1>1 DEF StorageInv, TypeOK, SmallList, ErrorTable, View, ErrorCodes,
                    Erring

LEMMA StorageFromParts ==
    ASSUME present' \subseteq Volumes, uevents' \subseteq Volumes,
           mountinfo' \in [Volumes -> MountLists],
           netlink' \in BOOLEAN, auto' \in BOOLEAN,
           configError' \in BOOLEAN, dirty' \in BOOLEAN,
           config' \in {"missing", "true", "false", "invalid"},
           SmallList(attempted'), SmallList(suppressed'),
           ErrorTable(errors'), View(cache'), job' \in Jobs,
           honoured' \subseteq Volumes \X (0 .. MaxRestarts),
           awaiting' \subseteq Volumes, restarts' \in 0 .. MaxRestarts,
           MountsPresent', AwaitingUnmounted', StorageJob', SuppressedShown',
           Announced', HonouredKept', Seen'
    PROVE  StorageInv'
<1>1. {netlink', auto', configError', dirty'} \subseteq BOOLEAN
  OBVIOUS
<1>2. TypeOK'
  BY <1>1 DEF TypeOK, SmallList, ErrorTable, View, ErrorCodes, Erring
<1> QED BY <1>2 DEF StorageInv

LEMMA IdleJob == Idle \in Jobs /\ Idle.step = "idle"
BY DEF Idle, Jobs

LEMMA JobGoes ==
    ASSUME StorageInv, NEW s, job' = [job EXCEPT !.step = s],
           s \in {"automount", "check", "command", "failed", "reply"}
    PROVE  /\ job' \in Jobs /\ job'.step = s /\ job'.vol = job.vol
           /\ job'.todo = job.todo /\ job'.op = job.op /\ job' # Idle
<1>1. job' \in Jobs /\ job'.step = s /\ job'.vol = job.vol
      /\ job'.todo = job.todo /\ job'.op = job.op
  BY StorageTypes DEF Jobs
<1> QED BY <1>1, IdleJob

LEMMA VisibleKept == ASSUME UNCHANGED present PROVE Visible' = Visible
BY DEF Visible, Before

(* A standing unmount is of a medium the scan shows. *)
LEMMA HonouredVisible ==
    ASSUME StorageInv, NEW v \in Volumes, Honoured(v)
    PROVE  v \in Visible /\ v \in present /\ v \in suppressed
           /\ "managed" \notin Range(mountinfo[v])
<1>1. ~Crowded(present)
  BY DEF StorageInv, HonouredKept, Honoured
<1>2. Visible = present
  BY <1>1, StorageTypes, UncrowdedShown
<1> QED BY <1>2 DEF StorageInv, HonouredKept

LEMMA MediaKept ==
    ASSUME StorageInv,
           UNCHANGED <<present, mountinfo, awaiting, honoured, restarts>>,
           suppressed \cap Visible \subseteq suppressed'
    PROVE  /\ MountsPresent' /\ AwaitingUnmounted' /\ HonouredKept'
           /\ present' \subseteq Volumes /\ awaiting' \subseteq Volumes
           /\ mountinfo' \in [Volumes -> MountLists]
           /\ honoured' \subseteq Volumes \X (0 .. MaxRestarts)
           /\ restarts' \in 0 .. MaxRestarts
<1>1. MountsPresent' /\ AwaitingUnmounted'
  BY DEF StorageInv, MountsPresent, AwaitingUnmounted
<1>2. ASSUME NEW v \in Volumes, Honoured(v)'
      PROVE  v \in present /\ v \in suppressed'
             /\ "managed" \notin Range(mountinfo[v])
  <2>1. Honoured(v)
    BY <1>2 DEF Honoured
  <2> QED BY <2>1, HonouredVisible
<1>3. (honoured # {} => ~Crowded(present)) /\ \A p \in honoured : p[2] <= restarts
  BY DEF StorageInv, HonouredKept
<1>4. HonouredKept'
  BY <1>2, <1>3 DEF HonouredKept, Crowded
<1> QED BY <1>1, <1>4, StorageTypes

LEMMA QuietStep ==
    ASSUME StorageInv,
           UNCHANGED <<present, mountinfo, awaiting, honoured, restarts>>,
           suppressed \cap Visible \subseteq suppressed',
           uevents' \subseteq Volumes, netlink' \in BOOLEAN, auto' \in BOOLEAN,
           configError' \in BOOLEAN, dirty' \in BOOLEAN,
           config' \in {"missing", "true", "false", "invalid"},
           SmallList(attempted'), SmallList(suppressed'),
           ErrorTable(errors'), View(cache'), job' \in Jobs,
           StorageJob', SuppressedShown', Announced', Seen'
    PROVE  StorageInv'
BY MediaKept, StorageFromParts

LEMMA PrunedIs ==
    ASSUME NEW l, SmallList(l)
    PROVE  SmallList(Pruned(l)) /\ Pruned(l) = l \cap Visible
<1>1. Pruned(l) = l \cap Visible /\ l \in SUBSET Volumes
  BY DEF Pruned, SmallList
<1>2. /\ Cardinality(l \cap Visible) <= Cardinality(l)
      /\ Cardinality(l \cap Visible) \in Nat /\ Cardinality(l) \in Nat
  BY <1>1, SmallerSet
<1>3. Cardinality(l) <= MaxVolumes
  BY DEF SmallList
<1>4. Cardinality(l \cap Visible) <= MaxVolumes
  BY <1>2, <1>3, StorageConstants
<1> QED BY <1>1, <1>4 DEF SmallList

LEMMA ScanIs == ASSUME StorageInv PROVE View(Scan) /\ DOMAIN Scan = Visible
<1>1. DOMAIN Scan = Visible
  BY DEF Scan
<1>2. Visible \subseteq Volumes /\ Cardinality(Visible) <= MaxVolumes
  BY StorageTypes, VisibleBound
<1>3. ASSUME NEW v \in Visible
      PROVE  [mount |-> MountOf(v), error |-> errors[v]] \in Row
  <2>1. mountinfo[v] \in MountLists /\ errors[v] \in ErrorCodes
    BY <1>2, StorageTypes DEF ErrorTable
  <2>2. MountOf(v) \in Kinds \cup {"none"}
    BY <2>1, EmptyMounts DEF MountOf
  <2> QED BY <2>1, <2>2 DEF Row, ErrorCodes
<1>4. Scan \in [Visible -> Row]
  BY <1>3 DEF Scan
<1> QED BY <1>1, <1>2, <1>4 DEF View

(* A refresh that ends by publishing what its scan shows. *)
LEMMA PublishingStep ==
    ASSUME StorageInv, cache' = Scan, dirty' = (dirty \/ Scan # cache),
           suppressed' = Pruned(suppressed), attempted' = Pruned(attempted),
           ErrorTable(errors'),
           UNCHANGED <<osVars, uevents, netlink, configVars, announced,
                       honoured, awaiting, restarts>>,
           job' \in Jobs, job'.step \in {"command", "failed", "reply"},
           job'.step = "command" => job'.vol \in Visible,
           job.step = "scan" => ~auto, job.step = "automount" => job.todo = {}
    PROVE  StorageInv'
<1>0. /\ UNCHANGED <<present, mountinfo, config, auto, configError>>
      /\ UNCHANGED <<uevents, netlink, announced, honoured, awaiting, restarts>>
  BY DEF osVars, configVars
<1>1. View(cache') /\ DOMAIN cache' = Visible
  BY ScanIs
<1>2. /\ SmallList(suppressed') /\ suppressed' = suppressed \cap Visible
      /\ SmallList(attempted') /\ attempted' = attempted \cap Visible
  BY StorageTypes, PrunedIs
<1>3. dirty' \in BOOLEAN /\ (~dirty' => ~dirty /\ cache' = cache)
  BY StorageTypes
<1>4. Visible' = Visible /\ Visible \subseteq Volumes
  BY <1>0, <1>1, VisibleKept DEF View
<1>5. StorageJob' /\ SuppressedShown'
  BY <1>1, <1>2, <1>4 DEF StorageJob, SuppressedShown
<1>6. Announced'
  <2>1. job' # Idle
    BY IdleJob
  <2>2. (~dirty' => Told') /\ announced'.by \in 0 .. Process'
    BY <1>0, <1>3 DEF StorageInv, Announced, Told, Snapshot, Process
  <2> QED BY <2>1, <2>2 DEF Announced
<1>7. Seen'
  <2>0. awaiting \cap suppressed' = {}
    BY <1>2 DEF StorageInv, Seen
  <2> SUFFICES ASSUME netlink PROVE
        /\ attempted' \cap awaiting \subseteq uevents
        /\ DOMAIN cache' = Visible
        /\ (uevents = {} /\ auto) => awaiting \cap Visible \subseteq suppressed'
    BY <1>0, <1>4, <2>0 DEF Seen
  <2>1. attempted \cap awaiting \subseteq uevents
    BY DEF StorageInv, Seen
  <2>2. ASSUME uevents = {}, auto
        PROVE  awaiting \cap Visible \subseteq suppressed
    <3>1. job.step # "scan"
      BY <2>2
    <3> QED BY <2>2, <3>1 DEF StorageInv, Seen
  <2> QED BY <1>1, <1>2, <2>1, <2>2
<1> QED BY <1>0, <1>1, <1>2, <1>3, <1>5, <1>6, <1>7, StorageTypes, QuietStep

LEMMA RescanKeeps ==
    ASSUME StorageInv, NEW s \in {"scan", "automount", "failed"},
           Rescan(s, "reply"), s = "scan" => ~auto, s = "automount" => job.todo = {}
    PROVE  StorageInv'
<1>1. job.step = s /\ job' = [job EXCEPT !.step = "reply"] /\ Publish
      /\ UNCHANGED <<osVars, uevents, netlink, configVars, announced, honoured,
                     awaiting, boundVars>>
  BY DEF Rescan, Goto
<1>2. job' \in Jobs /\ job'.step = "reply"
  BY <1>1, JobGoes
<1> QED BY <1>1, <1>2, StorageTypes, PublishingStep DEF Publish, boundVars

LEMMA BeginRefreshKeeps == ASSUME StorageInv, BeginRefresh PROVE StorageInv'
<1>1. CASE ~auto /\ Rescan("scan", "reply")
  BY <1>1, RescanKeeps
<1>2. CASE /\ job.step = "scan" /\ auto
           /\ job' = [job EXCEPT !.step = "automount", !.todo = Unserved]
           /\ UNCHANGED <<osVars, uevents, netlink, configVars, listVars,
                          viewVars, announced, honoured, awaiting, boundVars>>
  <2>0. /\ UNCHANGED <<present, mountinfo, uevents, netlink, config, auto>>
        /\ UNCHANGED <<configError, attempted, suppressed, errors, cache, dirty>>
        /\ UNCHANGED <<announced, honoured, awaiting, restarts>>
    BY <1>2 DEF osVars, configVars, listVars, viewVars, boundVars
  <2>1. Unserved \subseteq Volumes /\ Unserved \cap suppressed = {}
    BY StorageTypes, VisibleBound DEF Unserved
  <2>2. /\ job' \in Jobs /\ job'.step = "automount" /\ job'.todo = Unserved
    BY <1>2, <2>1, StorageTypes DEF Jobs
  <2>3. StorageJob' /\ SuppressedShown'
    BY <2>0, <2>1, <2>2 DEF StorageInv, StorageJob, SuppressedShown
  <2>4. Announced'
    BY <2>0, <2>2, IdleJob DEF StorageInv, Announced, Told, Snapshot, Process
  <2>5. Seen'
    <3>1. ASSUME netlink, uevents = {}, NEW v \in awaiting \cap Visible
          PROVE  v \in suppressed \cup Unserved
      <4>1. v \notin attempted
        BY <3>1 DEF StorageInv, Seen
      <4>2. MountOf(v) = "none"
        BY DEF StorageInv, AwaitingUnmounted, MountOf
      <4> QED BY <4>1, <4>2 DEF Unserved
    <3> QED BY <2>0, <2>2, <3>1, VisibleKept DEF StorageInv, Seen
  <2> QED BY <2>0, <2>2, <2>3, <2>4, <2>5, StorageTypes, QuietStep
<1> QED BY <1>1, <1>2 DEF BeginRefresh

LEMMA EndRefreshKeeps == ASSUME StorageInv, EndRefresh PROVE StorageInv'
BY RescanKeeps DEF EndRefresh

LEMMA ConcludeKeeps == ASSUME StorageInv, Conclude PROVE StorageInv'
BY RescanKeeps DEF Conclude

LEMMA ReplyKeeps == ASSUME StorageInv, Reply PROVE StorageInv'
<1>0. /\ job.step = "reply" /\ job' = Idle /\ dirty' = FALSE
      /\ announced' = IF dirty THEN Snapshot ELSE announced
      /\ UNCHANGED <<present, mountinfo, uevents, netlink, config, auto>>
      /\ UNCHANGED <<configError, attempted, suppressed, errors, cache>>
      /\ UNCHANGED <<honoured, awaiting, restarts>>
  BY DEF Reply, osVars, configVars, listVars, boundVars
<1>1. StorageJob' /\ SuppressedShown'
  BY <1>0, IdleJob DEF StorageInv, StorageJob, SuppressedShown
<1>2. Announced'
  <2>1. CASE dirty
    <3>1. announced' = Snapshot /\ Snapshot' = Snapshot /\ Process' = Process
      BY <1>0, <2>1 DEF Snapshot, Process
    <3>2. announced'.by = Process' /\ Process \in Nat
      BY <3>1, StorageTypes, StorageConstants DEF Snapshot, Process
    <3> QED BY <1>0, <3>1, <3>2 DEF Announced, Told
  <2>2. CASE ~dirty
    BY <1>0, <2>2 DEF StorageInv, Announced, Told, Snapshot, Process
  <2> QED BY <2>1, <2>2, StorageTypes
<1>4. Seen'
  BY <1>0, IdleJob, VisibleKept DEF StorageInv, Seen
<1>5. dirty' \in BOOLEAN
  BY <1>0
<1> QED BY <1>0, <1>1, <1>2, <1>4, <1>5, IdleJob, StorageTypes, QuietStep

LEMMA LookupKeeps == ASSUME StorageInv, Lookup PROVE StorageInv'
<1>1. \E s \in {"reply", "command"} :
         job' = [job EXCEPT !.step = s] /\ (s = "command" => job.vol \in Visible)
  BY DEF Lookup, Goto
<1>2. /\ job' \in Jobs /\ job'.step \in {"reply", "command"}
      /\ job'.step = "command" => job'.vol \in Visible
  BY <1>1, JobGoes
<1> QED BY <1>2, StorageTypes, PublishingStep DEF Lookup, Publish, boundVars

LEMMA CheckMountKeeps == ASSUME StorageInv, CheckMount PROVE StorageInv'
<1>1. \E s \in {"reply", "failed"} : job' = [job EXCEPT !.step = s]
  BY DEF CheckMount, Goto
<1>2. job' \in Jobs /\ job'.step \in {"reply", "failed"}
  BY <1>1, JobGoes
<1>3. job.vol \in Volumes
  BY DEF CheckMount, StorageInv, StorageJob
<1>4. ErrorTable(SetError(job.vol, "mount")) /\ ErrorTable(errors)
  BY <1>3, StorageTypes, SetErrorIs DEF ErrorTable, ErrorCodes
<1>5. ErrorTable(errors')
  BY <1>4 DEF CheckMount
<1> QED BY <1>2, <1>5, PublishingStep DEF CheckMount, boundVars

-----------------------------------------------------------------------------
(* The commands that mount and unmount. *)

(* mountinfo changes for one volume that is in. *)
OnlyMounts(v) ==
    /\ mountinfo' \in [Volumes -> MountLists]
    /\ \A u \in Volumes \ {v} : mountinfo'[u] = mountinfo[u]
    /\ mountinfo'[v] # mountinfo[v] => v \in present

LEMMA KernelMountsIs ==
    ASSUME StorageInv, NEW v \in Volumes, KernelMounts(v)
    PROVE  /\ OnlyMounts(v) /\ mountinfo' # mountinfo
<1>1. /\ v \in present /\ "managed" \notin Range(mountinfo[v])
      /\ mountinfo' = [mountinfo EXCEPT ![v] = Append(mountinfo[v], "managed")]
  BY DEF KernelMounts
<1>2. mountinfo[v] \in MountLists /\ mountinfo \in [Volumes -> MountLists]
  BY StorageTypes
<1>3. /\ Append(mountinfo[v], "managed") \in MountLists
      /\ Range(Append(mountinfo[v], "managed")) = Range(mountinfo[v]) \cup {"managed"}
  BY <1>1, <1>2, AppendIs DEF Kinds
<1>4. mountinfo'[v] = Append(mountinfo[v], "managed")
  BY <1>1, <1>2
<1>5. mountinfo' \in [Volumes -> MountLists]
      /\ \A u \in Volumes \ {v} : mountinfo'[u] = mountinfo[u]
  BY <1>1, <1>2, <1>3
<1>6. mountinfo'[v] # mountinfo[v]
  BY <1>1, <1>3, <1>4
<1> QED BY <1>1, <1>5, <1>6 DEF OnlyMounts

LEMMA KernelUnmountsIs ==
    ASSUME StorageInv, NEW v \in Volumes, KernelUnmounts(v)
    PROVE  /\ OnlyMounts(v) /\ v \in present /\ v \notin awaiting
           /\ "managed" \notin Range(mountinfo'[v])
<1>1. /\ "managed" \in Range(mountinfo[v])
      /\ mountinfo' = [mountinfo EXCEPT ![v] = Without(mountinfo[v], "managed")]
  BY DEF KernelUnmounts
<1>2. mountinfo[v] \in MountLists /\ mountinfo \in [Volumes -> MountLists]
  BY StorageTypes
<1>3. mountinfo[v] # << >>
  BY <1>1, MountRanges
<1>4. v \in present /\ v \notin awaiting
  BY <1>3 DEF StorageInv, MountsPresent, AwaitingUnmounted
<1>5. /\ Without(mountinfo[v], "managed") \in MountLists
      /\ Range(Without(mountinfo[v], "managed")) = Range(mountinfo[v]) \ {"managed"}
  BY <1>2, WithoutIs DEF Kinds
<1>6. mountinfo'[v] = Without(mountinfo[v], "managed")
  BY <1>1, <1>2
<1>7. mountinfo' \in [Volumes -> MountLists]
      /\ \A u \in Volumes \ {v} : mountinfo'[u] = mountinfo[u]
  BY <1>1, <1>2, <1>5
<1> QED BY <1>4, <1>5, <1>6, <1>7 DEF OnlyMounts

LEMMA MountsUnchanged ==
    ASSUME StorageInv, NEW v \in Volumes, UNCHANGED mountinfo
    PROVE  OnlyMounts(v)
BY StorageTypes DEF OnlyMounts

(* The volume that was mounted or unmounted no longer waits to be tried. *)
LEMMA MountsMoved ==
    ASSUME StorageInv, NEW v \in Volumes, OnlyMounts(v), UNCHANGED present,
           awaiting' \subseteq awaiting,
           v \in awaiting' => mountinfo'[v] = mountinfo[v]
    PROVE  /\ MountsPresent' /\ AwaitingUnmounted' /\ awaiting' \subseteq Volumes
<1>1. \A u \in Volumes : u \notin present => mountinfo'[u] = mountinfo[u]
  BY DEF OnlyMounts
<1>2. MountsPresent'
  BY <1>1 DEF StorageInv, MountsPresent
<1>3. awaiting' \subseteq Volumes
  BY StorageTypes
<1>4. \A u \in awaiting' : mountinfo'[u] = mountinfo[u]
  BY <1>3 DEF OnlyMounts
<1>5. AwaitingUnmounted'
  BY <1>4 DEF StorageInv, AwaitingUnmounted
<1> QED BY <1>2, <1>3, <1>5

(* Standing unmounts of other volumes are not touched. *)
LEMMA HonouredMoved ==
    ASSUME StorageInv, NEW v \in Volumes, OnlyMounts(v),
           UNCHANGED <<present, restarts>>, honoured' \subseteq honoured,
           <<v, restarts>> \in honoured' =>
              v \in suppressed' /\ "managed" \notin Range(mountinfo'[v]),
           suppressed \ {v} \subseteq suppressed'
    PROVE  HonouredKept' /\ honoured' \subseteq Volumes \X (0 .. MaxRestarts)
<1>1. ASSUME NEW u \in Volumes, Honoured(u)'
      PROVE  u \in present /\ u \in suppressed'
             /\ "managed" \notin Range(mountinfo'[u])
  <2>1. Honoured(u)
    BY <1>1 DEF Honoured
  <2>2. u \in present /\ u \in suppressed /\ "managed" \notin Range(mountinfo[u])
    BY <2>1, HonouredVisible
  <2>3. u \in suppressed' /\ "managed" \notin Range(mountinfo'[u])
    BY <1>1, <2>2 DEF OnlyMounts, Honoured
  <2> QED BY <2>2, <2>3
<1>2. (honoured # {} => ~Crowded(present)) /\ \A p \in honoured : p[2] <= restarts
  BY DEF StorageInv, HonouredKept
<1>3. HonouredKept'
  BY <1>1, <1>2 DEF HonouredKept, Crowded
<1> QED BY <1>3, StorageTypes

LEMMA MountErrors ==
    ASSUME StorageInv, NEW v \in Volumes
    PROVE  /\ Mounted(v) => ErrorTable(errors') /\ KernelMounts(v)
           /\ NotMounted(v) => /\ ErrorTable(errors')
                               /\ UNCHANGED mountinfo \/ KernelMounts(v)
<1>1. /\ ErrorTable(ClearError(v)) /\ ErrorTable(SetError(v, "mount"))
  BY StorageTypes, SetErrorIs, ClearErrorIs DEF ErrorTable, ErrorCodes
<1> QED BY <1>1 DEF Mounted, NotMounted

LEMMA AutoMountKeeps == ASSUME StorageInv, AutoMount PROVE StorageInv'
<1> DEFINE v == Min(job.todo)
<1>0. /\ job.step = "automount" /\ job.todo # {} /\ job.todo \subseteq Volumes
      /\ attempted' = ListAdd(attempted, v)
      /\ Mounted(v) \/ NotMounted(v)
      /\ awaiting' = awaiting \ {v}
      /\ job' = [job EXCEPT !.todo = @ \ {v}]
      /\ UNCHANGED <<present, uevents, netlink, config, auto, configError>>
      /\ UNCHANGED <<suppressed, cache, dirty, announced, honoured, restarts>>
  BY StorageTypes DEF AutoMount, configVars, viewVars, boundVars, Jobs
<1>1. v \in job.todo /\ v \in Volumes
  BY <1>0, FirstVolume
<1> HIDE DEF v
<1>2. ErrorTable(errors') /\ (UNCHANGED mountinfo \/ KernelMounts(v))
  BY <1>0, <1>1, MountErrors
<1>3. OnlyMounts(v)
  BY <1>1, <1>2, KernelMountsIs, MountsUnchanged
<1>4. MountsPresent' /\ AwaitingUnmounted' /\ awaiting' \subseteq Volumes
  BY <1>0, <1>1, <1>3, MountsMoved
<1>5. v \notin suppressed
  BY <1>0, <1>1 DEF StorageInv, StorageJob
<1>6. <<v, restarts>> \notin honoured'
  <2>1. ~Honoured(v)
    BY <1>1, <1>5, HonouredVisible
  <2> QED BY <1>0, <2>1 DEF Honoured
<1>7. HonouredKept' /\ honoured' \subseteq Volumes \X (0 .. MaxRestarts)
  BY <1>0, <1>1, <1>3, <1>6, HonouredMoved
<1>8. /\ SmallList(attempted') /\ attempted' \subseteq attempted \cup {v}
  BY <1>0, <1>1, StorageTypes, ListAddIs DEF SmallList
<1>9. /\ job' \in Jobs /\ job'.step = "automount" /\ job'.todo = job.todo \ {v}
      /\ job'.vol = job.vol
  BY <1>0, StorageTypes DEF Jobs
<1>10. StorageJob' /\ SuppressedShown' /\ Announced'
  BY <1>0, <1>9, IdleJob DEF StorageInv, StorageJob, SuppressedShown, Announced,
                             Told, Snapshot, Process
<1>11. Seen'
  <2>1. ASSUME netlink
        PROVE  /\ attempted' \cap awaiting' \subseteq uevents
               /\ (uevents = {} /\ auto) =>
                     awaiting' \cap Visible \subseteq suppressed \cup job'.todo
    BY <1>0, <1>8, <1>9, <2>1 DEF StorageInv, Seen
  <2>2. awaiting' \cap suppressed' = {}
    BY <1>0 DEF StorageInv, Seen
  <2> QED BY <1>0, <1>9, <2>1, <2>2, VisibleKept DEF Seen
<1>12. mountinfo' \in [Volumes -> MountLists]
  BY <1>3 DEF OnlyMounts
<1> QED BY <1>0, <1>2, <1>4, <1>7, <1>8, <1>9, <1>10, <1>11, <1>12,
           StorageTypes, StorageFromParts

(* A client's mount: the suppression goes with the volume's wait. *)
LEMMA MountCommandKeeps == ASSUME StorageInv, MountCommand PROVE StorageInv'
<1> DEFINE v == job.vol
           lifted == {p \in honoured : p[1] # v}
<1>0. /\ job.step = "command"
      /\ UNCHANGED <<present, uevents, netlink, config, auto, configError>>
      /\ UNCHANGED <<attempted, cache, dirty, announced, restarts>>
  BY DEF MountCommand, configVars, viewVars, boundVars
<1>1. v \in Volumes
  BY <1>0 DEF StorageInv, StorageJob
<1>2. /\ ErrorTable(errors') /\ OnlyMounts(v)
      /\ \E s \in {"check", "failed"} : job' = [job EXCEPT !.step = s]
      /\ \/ /\ suppressed' = suppressed \ {v} /\ honoured' = lifted
            /\ awaiting' = awaiting \ {v}
         \/ /\ suppressed' = suppressed /\ honoured' = honoured
            /\ awaiting' = awaiting /\ mountinfo' = mountinfo
         \/ /\ suppressed' = suppressed /\ honoured' = lifted
            /\ awaiting' = awaiting \ {v}
  <2>1. CASE /\ \/ UNCHANGED <<mountinfo, errors>> \/ Mounted(v)
             /\ suppressed' = suppressed \ {v} /\ honoured' = lifted
             /\ awaiting' = awaiting \ {v} /\ Goto("check")
    <3>1. ErrorTable(errors') /\ (UNCHANGED mountinfo \/ KernelMounts(v))
      BY <1>1, <2>1, StorageTypes, MountErrors
    <3>2. OnlyMounts(v)
      BY <1>1, <3>1, KernelMountsIs, MountsUnchanged
    <3> QED BY <2>1, <3>1, <3>2 DEF Goto
  <2>2. CASE /\ NotMounted(v) /\ Goto("failed") /\ UNCHANGED suppressed
             /\ IF mountinfo' = mountinfo THEN UNCHANGED <<honoured, awaiting>>
                ELSE honoured' = lifted /\ awaiting' = awaiting \ {v}
    <3>1. ErrorTable(errors') /\ (UNCHANGED mountinfo \/ KernelMounts(v))
      BY <1>1, <2>2, MountErrors
    <3>2. OnlyMounts(v)
      BY <1>1, <3>1, KernelMountsIs, MountsUnchanged
    <3> QED BY <2>2, <3>1, <3>2 DEF Goto
  <2> QED BY <2>1, <2>2 DEF MountCommand
<1>3. /\ job' \in Jobs /\ job'.step \in {"check", "failed"} /\ job'.vol = v
      /\ job' # Idle
  BY <1>2, JobGoes
<1>4. /\ awaiting' \subseteq awaiting /\ honoured' \subseteq honoured
      /\ suppressed' \subseteq suppressed /\ suppressed \ {v} \subseteq suppressed'
      /\ v \in awaiting' => mountinfo'[v] = mountinfo[v]
  BY <1>2
<1>5. ASSUME <<v, restarts>> \in honoured'
      PROVE  v \in suppressed' /\ "managed" \notin Range(mountinfo'[v])
  <2>1. <<v, restarts>> \notin lifted
    OBVIOUS
  <2>2. mountinfo' = mountinfo /\ suppressed' = suppressed /\ honoured' = honoured
    <3> HIDE DEF lifted, v
    <3> QED BY <1>2, <1>5, <2>1
  <2>3. Honoured(v)
    BY <1>5, <2>2 DEF Honoured
  <2> HIDE DEF v
  <2>4. v \in suppressed /\ "managed" \notin Range(mountinfo[v])
    BY <1>1, <2>3, HonouredVisible
  <2> QED BY <2>2, <2>4
<1> HIDE DEF v, lifted
<1>6. MountsPresent' /\ AwaitingUnmounted' /\ awaiting' \subseteq Volumes
  BY <1>0, <1>1, <1>2, <1>4, MountsMoved
<1>7. HonouredKept' /\ honoured' \subseteq Volumes \X (0 .. MaxRestarts)
  BY <1>0, <1>1, <1>2, <1>4, <1>5, HonouredMoved
<1>8. SmallList(suppressed')
  <2>1. suppressed \in SUBSET Volumes /\ Cardinality(suppressed) <= MaxVolumes
    BY StorageTypes DEF SmallList
  <2>2. /\ Cardinality(suppressed') <= Cardinality(suppressed)
        /\ Cardinality(suppressed') \in Nat /\ Cardinality(suppressed) \in Nat
    BY <1>4, <2>1, SmallerSet
  <2>3. Cardinality(suppressed') <= MaxVolumes
    BY <2>1, <2>2, StorageConstants
  <2> QED BY <1>4, <2>1, <2>3 DEF SmallList
<1>9. StorageJob' /\ SuppressedShown' /\ Announced'
  BY <1>0, <1>1, <1>3, <1>4 DEF StorageInv, StorageJob, SuppressedShown,
                                Announced, Told, Snapshot, Process
<1>10. awaiting' \cap suppressed \subseteq suppressed'
  BY <1>2
<1>11. Seen'
  <2>1. ASSUME netlink
        PROVE  /\ attempted \cap awaiting' \subseteq uevents
               /\ (uevents = {} /\ auto) =>
                     awaiting' \cap Visible \subseteq suppressed'
    BY <1>0, <1>4, <1>10, <2>1 DEF StorageInv, Seen
  <2>2. awaiting' \cap suppressed' = {}
    BY <1>4 DEF StorageInv, Seen
  <2> QED BY <1>0, <1>3, <2>1, <2>2, VisibleKept DEF Seen
<1>12. mountinfo' \in [Volumes -> MountLists]
  BY <1>2 DEF OnlyMounts
<1> QED BY <1>0, <1>2, <1>3, <1>6, <1>7, <1>8, <1>9, <1>11, <1>12,
           StorageTypes, StorageFromParts

(* A client's unmount: the list has room, so the suppression takes hold. *)
LEMMA UnmountCommandKeeps == ASSUME StorageInv, UnmountCommand PROVE StorageInv'
<1> DEFINE v == job.vol
<1>0. /\ job.step = "command" /\ job' = [job EXCEPT !.step = "failed"]
      /\ UNCHANGED <<present, uevents, netlink, config, auto, configError>>
      /\ UNCHANGED <<attempted, cache, dirty, announced, awaiting, restarts>>
      /\ \/ UNCHANGED <<mountinfo, suppressed, errors, honoured>>
         \/ Unmounted(v)
         \/ /\ UNCHANGED mountinfo \/ KernelUnmounts(v)
            /\ errors' = SetError(v, "unmount")
            /\ UNCHANGED <<suppressed, honoured>>
  BY DEF UnmountCommand, Goto, configVars, viewVars, boundVars
<1>1. v \in Volumes /\ v \in DOMAIN cache
  BY <1>0 DEF StorageInv, StorageJob
<1>2. /\ job' \in Jobs /\ job'.step = "failed" /\ job' # Idle
  BY <1>0, JobGoes
<1> HIDE DEF v
<1>3. ErrorTable(ClearError(v)) /\ ErrorTable(SetError(v, "unmount"))
  BY <1>1, StorageTypes, SetErrorIs, ClearErrorIs DEF ErrorTable, ErrorCodes
<1>4. /\ ErrorTable(errors') /\ OnlyMounts(v)
      /\ v \in awaiting => mountinfo'[v] = mountinfo[v]
      /\ mountinfo' = mountinfo \/ (v \in present
                                    /\ "managed" \notin Range(mountinfo'[v]))
  BY <1>0, <1>1, <1>3, StorageTypes, KernelUnmountsIs, MountsUnchanged
     DEF Unmounted
<1>5. MountsPresent' /\ AwaitingUnmounted' /\ awaiting' \subseteq Volumes
  BY <1>0, <1>1, <1>4, MountsMoved
<1>6. /\ SmallList(ListAdd(suppressed, v)) /\ v \in ListAdd(suppressed, v)
      /\ suppressed \subseteq ListAdd(suppressed, v)
      /\ ListAdd(suppressed, v) \subseteq DOMAIN cache
  <2>1. /\ suppressed \in SUBSET Volumes /\ Cardinality(suppressed) <= MaxVolumes
        /\ DOMAIN cache \in SUBSET Volumes
        /\ Cardinality(DOMAIN cache) <= MaxVolumes
        /\ suppressed \in SUBSET DOMAIN cache
    BY StorageTypes DEF SmallList, View, StorageInv, SuppressedShown
  <2>2. v \in ListAdd(suppressed, v)
    BY <1>1, <2>1, ListAddRoom
  <2>3. /\ ListAdd(suppressed, v) \subseteq suppressed \cup {v}
        /\ suppressed \subseteq ListAdd(suppressed, v)
        /\ Cardinality(ListAdd(suppressed, v)) <= MaxVolumes
    BY <1>1, <2>1, ListAddIs
  <2> QED BY <1>1, <2>1, <2>2, <2>3 DEF SmallList
<1>7. /\ SmallList(suppressed') /\ suppressed \subseteq suppressed'
      /\ suppressed' \subseteq DOMAIN cache
  BY <1>0, <1>6, StorageTypes DEF Unmounted, StorageInv, SuppressedShown
<1>8. HonouredKept' /\ honoured' \subseteq Volumes \X (0 .. MaxRestarts)
  <2>1. CASE Unmounted(v)
    <3>1. /\ "managed" \notin Range(mountinfo'[v]) /\ v \in present
          /\ v \in suppressed'
          /\ honoured' \subseteq honoured \cup {<<v, restarts>>}
          /\ Crowded(present) => honoured' = honoured
      BY <1>1, <1>6, <2>1, KernelUnmountsIs DEF Unmounted
    <3>2. ASSUME NEW u \in Volumes, Honoured(u)'
          PROVE  u \in present /\ u \in suppressed'
                 /\ "managed" \notin Range(mountinfo'[u])
      <4>1. CASE u = v
        BY <3>1, <4>1
      <4>2. CASE u # v
        <5>1. Honoured(u)
          BY <1>0, <3>1, <3>2, <4>2 DEF Honoured
        <5>2. /\ u \in present /\ u \in suppressed
              /\ "managed" \notin Range(mountinfo[u])
          BY <5>1, HonouredVisible
        <5> QED BY <1>4, <1>7, <4>2, <5>2 DEF OnlyMounts
      <4> QED BY <4>1, <4>2
    <3>3. /\ honoured # {} => ~Crowded(present)
          /\ \A p \in honoured : p[2] <= restarts
      BY DEF StorageInv, HonouredKept
    <3>4. honoured' # {} => ~Crowded(present)
      BY <3>1, <3>3
    <3>5. \A p \in honoured' : p[2] <= restarts
      <4>1. restarts <= restarts
        BY StorageTypes, StorageConstants
      <4> QED BY <3>1, <3>3, <4>1
    <3>6. HonouredKept'
      BY <1>0, <3>2, <3>4, <3>5 DEF HonouredKept, Crowded
    <3> QED BY <1>1, <3>1, <3>6, StorageTypes
  <2>2. CASE honoured' = honoured
    <3>1. ASSUME <<v, restarts>> \in honoured'
          PROVE  v \in suppressed' /\ "managed" \notin Range(mountinfo'[v])
      <4>1. Honoured(v)
        BY <2>2, <3>1 DEF Honoured
      <4>2. v \in suppressed /\ "managed" \notin Range(mountinfo[v])
        BY <1>1, <4>1, HonouredVisible
      <4> QED BY <1>4, <1>7, <4>2
    <3> QED BY <1>0, <1>1, <1>4, <1>7, <2>2, <3>1, HonouredMoved
  <2> QED BY <1>0, <2>1, <2>2
<1>9. StorageJob' /\ SuppressedShown' /\ Announced'
  BY <1>0, <1>2, <1>7 DEF StorageInv, StorageJob, SuppressedShown,
                          Announced, Told, Snapshot, Process
<1>10. Seen'
  <2>1. ASSUME netlink
        PROVE  /\ attempted \cap awaiting \subseteq uevents
               /\ (uevents = {} /\ auto) =>
                     awaiting \cap Visible \subseteq suppressed'
    BY <1>0, <1>7, <2>1 DEF StorageInv, Seen
  <2>2. awaiting' \cap suppressed' = {}
    <3>1. CASE Unmounted(v)
      <4>1. v \notin awaiting
        BY <1>1, <3>1, KernelUnmountsIs DEF Unmounted
      <4>2. suppressed' \subseteq suppressed \cup {v}
        BY <3>1 DEF Unmounted, ListAdd
      <4> QED BY <1>0, <4>1, <4>2 DEF StorageInv, Seen
    <3>2. CASE suppressed' = suppressed
      BY <1>0, <3>2 DEF StorageInv, Seen
    <3> QED BY <1>0, <3>1, <3>2
  <2> QED BY <1>0, <1>2, <2>1, <2>2, VisibleKept DEF Seen
<1>11. mountinfo' \in [Volumes -> MountLists]
  BY <1>4 DEF OnlyMounts
<1> QED BY <1>0, <1>2, <1>4, <1>5, <1>7, <1>8, <1>9, <1>10, <1>11,
           StorageTypes, StorageFromParts

-----------------------------------------------------------------------------
(* What wakes the loop. *)

LEMMA TakeIs ==
    ASSUME StorageInv, NEW op \in {"refresh", "mount", "unmount", "config"},
           NEW step \in {"scan", "lookup", "reply"},
           NEW v \in Volumes \cup {None}, Take(op, step, v)
    PROVE  /\ job = Idle /\ job.step = "idle" /\ ~dirty /\ Told
           /\ announced.by \in 0 .. Process
           /\ job' \in Jobs /\ job'.step = step /\ job'.vol = v
           /\ job'.todo = {} /\ job' # Idle
<1>1. /\ job' \in Jobs /\ job'.step = step /\ job'.vol = v /\ job'.todo = {}
  BY DEF Take, Jobs
<1>2. job = Idle /\ ~dirty /\ Told /\ announced.by \in 0 .. Process
  BY DEF Take, StorageInv, Announced
<1> QED BY <1>1, <1>2, IdleJob

LEMMA TakenStep ==
    ASSUME StorageInv, NEW op \in {"refresh", "mount", "unmount", "config"},
           NEW step \in {"scan", "lookup", "reply"},
           NEW v \in Volumes \cup {None}, Take(op, step, v),
           step = "lookup" => v \in Volumes,
           UNCHANGED <<present, mountinfo, netlink, suppressed, errors, cache>>,
           UNCHANGED <<announced, honoured, awaiting, restarts>>,
           config' \in {"missing", "true", "false", "invalid"},
           auto' \in BOOLEAN, configError' \in BOOLEAN, dirty' \in BOOLEAN,
           SmallList(attempted'), attempted' \subseteq attempted,
           uevents' \subseteq uevents,
           uevents \cap attempted' \subseteq uevents',
           step # "scan" => uevents' = uevents /\ (auto' => auto),
           ~dirty' => auto' = auto,
           config' = config \/ Loaded(DefaultAuto, config') = auto'
    PROVE  StorageInv'
<1>1. /\ job.step = "idle" /\ Told /\ announced.by \in 0 .. Process
      /\ job' \in Jobs /\ job'.step = step /\ job'.vol = v
      /\ job'.todo = {} /\ job' # Idle
  BY TakeIs
<1>2. StorageJob' /\ SuppressedShown'
  BY <1>1 DEF StorageInv, StorageJob, SuppressedShown
<1>3. Announced'
  <2>1. Process' = Process /\ (auto' = auto => Snapshot' = Snapshot)
    BY DEF Snapshot, Process
  <2>2. ASSUME ~dirty' PROVE Told'
    <3>1. auto' = auto
      BY <2>2
    <3> QED BY <1>1, <2>1, <3>1 DEF Told
  <2> QED BY <1>1, <2>1, <2>2 DEF Announced
<1>4. Seen'
  <2>1. ASSUME netlink
        PROVE  attempted' \cap awaiting \subseteq uevents'
    BY <2>1 DEF StorageInv, Seen
  <2>2. ASSUME netlink, uevents' = {}, step # "scan"
        PROVE  /\ DOMAIN cache = Visible
               /\ auto' => awaiting \cap Visible \subseteq suppressed
    BY <1>1, <2>2 DEF StorageInv, Seen
  <2>3. awaiting' \cap suppressed' = {}
    BY DEF StorageInv, Seen
  <2> QED BY <1>1, <2>1, <2>2, <2>3, VisibleKept DEF Seen
<1>5. uevents' \subseteq Volumes
  BY StorageTypes
<1> QED BY <1>1, <1>2, <1>3, <1>4, <1>5, StorageTypes, QuietStep

LEMMA FewerAttempted ==
    ASSUME StorageInv, NEW l \in SUBSET attempted PROVE SmallList(l)
<1>1. attempted \in SUBSET Volumes /\ Cardinality(attempted) <= MaxVolumes
  BY StorageTypes DEF SmallList
<1>2. /\ Cardinality(l) <= Cardinality(attempted)
      /\ Cardinality(l) \in Nat /\ Cardinality(attempted) \in Nat
  BY <1>1, SmallerSet
<1>3. Cardinality(l) <= MaxVolumes
  BY <1>1, <1>2, StorageConstants
<1> QED BY <1>1, <1>3 DEF SmallList

LEMMA WakeupKeeps == ASSUME StorageInv, Wakeup PROVE StorageInv'
<1>1. ASSUME NEW v \in Volumes, TakeUevent(v) PROVE StorageInv'
  <2>1. /\ uevents' \in {uevents, uevents \ {v}}
        /\ attempted' = attempted \ {v} /\ Take("refresh", "scan", None)
        /\ UNCHANGED <<present, mountinfo, netlink, suppressed, errors, cache>>
        /\ UNCHANGED <<announced, honoured, awaiting, restarts>>
        /\ UNCHANGED <<config, auto, configError, dirty>>
    BY <1>1 DEF TakeUevent, osVars, configVars, viewVars, boundVars
  <2>2. SmallList(attempted') /\ attempted' \subseteq attempted
    BY <2>1, FewerAttempted
  <2> QED BY <2>1, <2>2, StorageTypes, TakenStep
<1>2. CASE FallbackTimeout
  <2>1. /\ Take("refresh", "scan", None)
        /\ UNCHANGED <<present, mountinfo, netlink, suppressed, errors, cache>>
        /\ UNCHANGED <<announced, honoured, awaiting, restarts>>
        /\ UNCHANGED <<config, auto, configError, dirty, uevents, attempted>>
    BY <1>2 DEF FallbackTimeout, osVars, configVars, listVars, viewVars, boundVars
  <2> QED BY <2>1, StorageTypes, TakenStep
<1> QED BY <1>1, <1>2 DEF Wakeup

LEMMA CallConfigKeeps ==
    ASSUME StorageInv, NEW enabled \in BOOLEAN, CallConfig(enabled)
    PROVE  StorageInv'
<1>1. CASE /\ Call("config", IF enabled THEN "scan" ELSE "reply", None)
           /\ SaveConfig(enabled)
           /\ attempted' = IF enabled /\ ~auto THEN {} ELSE attempted
           /\ auto' = enabled /\ configError' = FALSE
           /\ dirty' = (auto # enabled \/ configError)
           /\ UNCHANGED <<suppressed, errors, cache>>
  <2> DEFINE step == IF enabled THEN "scan" ELSE "reply"
  <2>1. /\ Take("config", step, None)
        /\ UNCHANGED <<present, mountinfo, netlink, suppressed, errors, cache>>
        /\ UNCHANGED <<announced, honoured, awaiting, restarts, uevents>>
    BY <1>1 DEF Call, osVars
  <2>2. SmallList(attempted') /\ attempted' \subseteq attempted
    BY <1>1, FewerAttempted
  <2>3. /\ config' \in {"missing", "true", "false", "invalid"}
        /\ config' = config \/ Loaded(DefaultAuto, config') = auto'
    BY <1>1 DEF SaveConfig, Loaded
  <2>4. /\ auto' \in BOOLEAN /\ configError' \in BOOLEAN /\ dirty' \in BOOLEAN
        /\ ~dirty' => auto' = auto
    BY <1>1, StorageTypes
  <2>5. /\ step \in {"scan", "lookup", "reply"}
        /\ step = "lookup" => None \in Volumes
        /\ step # "scan" => (auto' => auto)
    BY <1>1
  <2> HIDE DEF step
  <2>6. /\ "config" \in {"refresh", "mount", "unmount", "config"}
        /\ None \in Volumes \cup {None}
    OBVIOUS
  <2>7. /\ uevents' \subseteq uevents
        /\ uevents \cap attempted' \subseteq uevents'
        /\ step # "scan" => uevents' = uevents /\ (auto' => auto)
    BY <2>1, <2>5
  <2>8. UNCHANGED <<announced, honoured, awaiting, restarts>>
    BY <2>1
  <2> QED BY <2>1, <2>2, <2>3, <2>4, <2>5, <2>6, <2>7, <2>8, TakenStep
<1>2. CASE /\ Call("config", "reply", None) /\ configError' = TRUE
           /\ UNCHANGED <<config, auto, listVars, viewVars>>
  <2>1. /\ Take("config", "reply", None)
        /\ UNCHANGED <<present, mountinfo, netlink, suppressed, errors, cache>>
        /\ UNCHANGED <<announced, honoured, awaiting, restarts, uevents>>
        /\ UNCHANGED <<config, auto, dirty, attempted>>
    BY <1>2 DEF Call, osVars, listVars, viewVars
  <2>2. configError' \in BOOLEAN
    BY <1>2
  <2> QED BY <2>1, <2>2, StorageTypes, TakenStep
<1> QED BY <1>1, <1>2 DEF CallConfig

LEMMA ClientsKeep == ASSUME StorageInv, Clients PROVE StorageInv'
<1>1. ASSUME NEW op \in {"refresh", "mount", "unmount"},
             NEW step \in {"scan", "lookup"}, NEW v \in Volumes \cup {None},
             step = "lookup" => v \in Volumes, Call(op, step, v),
             UNCHANGED <<configVars, listVars, viewVars>>
      PROVE  StorageInv'
  <2>1. /\ Take(op, step, v)
        /\ UNCHANGED <<present, mountinfo, netlink, suppressed, errors, cache>>
        /\ UNCHANGED <<announced, honoured, awaiting, restarts>>
        /\ UNCHANGED <<config, auto, configError, dirty, uevents, attempted>>
    BY <1>1 DEF Call, osVars, configVars, listVars, viewVars
  <2> QED BY <1>1, <2>1, StorageTypes, TakenStep
<1>2. CASE CallRefresh
  BY <1>1, <1>2 DEF CallRefresh
<1>3. ASSUME NEW v \in Volumes, CallMount(v) \/ CallUnmount(v) PROVE StorageInv'
  BY <1>1, <1>3 DEF CallMount, CallUnmount
<1> QED BY <1>2, <1>3, CallConfigKeeps DEF Clients

-----------------------------------------------------------------------------
(* Media and other programs. *)

LEMMA ChangeIs ==
    ASSUME StorageInv, Change
    PROVE  /\ UNCHANGED <<netlink, config, auto, configError, attempted>>
           /\ UNCHANGED <<suppressed, errors, cache, dirty, job, announced>>
           /\ restarts' = restarts
           /\ StorageJob' /\ SuppressedShown' /\ Announced'
<1>1. /\ UNCHANGED <<netlink, config, auto, configError, attempted>>
      /\ UNCHANGED <<suppressed, errors, cache, dirty, job, announced>>
      /\ restarts' = restarts
  BY DEF Change, configVars, listVars, viewVars
<1> QED BY <1>1 DEF StorageInv, StorageJob, SuppressedShown, Announced, Told,
                   Snapshot, Process

LEMMA ChangedStep ==
    ASSUME StorageInv, Change, present' \subseteq Volumes,
           uevents' \subseteq Volumes, mountinfo' \in [Volumes -> MountLists],
           honoured' \subseteq Volumes \X (0 .. MaxRestarts),
           awaiting' \subseteq Volumes,
           MountsPresent', AwaitingUnmounted', HonouredKept', Seen'
    PROVE  StorageInv'
BY ChangeIs, StorageTypes, StorageFromParts

LEMMA InsertMediumKeeps ==
    ASSUME StorageInv, NEW v \in Volumes, InsertMedium(v) PROVE StorageInv'
<1>0. /\ v \notin present /\ Change /\ present' = present \cup {v}
      /\ uevents' = IF netlink THEN uevents \cup {v} ELSE uevents
      /\ awaiting' = IF v \in suppressed THEN awaiting ELSE awaiting \cup {v}
      /\ honoured' = IF Crowded(present') THEN {} ELSE honoured
      /\ mountinfo' = mountinfo
  BY DEF InsertMedium, Queued
<1>1. MountsPresent' /\ AwaitingUnmounted'
  BY <1>0 DEF StorageInv, MountsPresent, AwaitingUnmounted
<1>2. HonouredKept'
  <2>1. \A p \in honoured : p[2] <= restarts
    BY DEF StorageInv, HonouredKept
  <2>2. honoured' # {} => ~Crowded(present)'
    BY <1>0 DEF Crowded
  <2>3. ASSUME NEW u \in Volumes, Honoured(u)'
        PROVE  u \in present' /\ u \in suppressed'
               /\ "managed" \notin Range(mountinfo'[u])
    <3>1. Honoured(u)
      BY <1>0, <2>3, ChangeIs DEF Honoured
    <3> QED BY <1>0, <3>1, ChangeIs, HonouredVisible
  <2>4. \A p \in honoured' : p[2] <= restarts'
    BY <1>0, <2>1, ChangeIs
  <2> QED BY <2>2, <2>3, <2>4 DEF HonouredKept
<1>3. Seen'
  <2>1. awaiting' \cap suppressed' = {}
    BY <1>0, ChangeIs DEF StorageInv, Seen
  <2>2. ASSUME netlink
        PROVE  attempted' \cap awaiting' \subseteq uevents' /\ uevents' # {}
    BY <1>0, <2>2, ChangeIs DEF StorageInv, Seen
  <2> QED BY <1>0, <2>1, <2>2, ChangeIs DEF Seen
<1>4. /\ present' \subseteq Volumes /\ uevents' \subseteq Volumes
      /\ awaiting' \subseteq Volumes
      /\ honoured' \subseteq Volumes \X (0 .. MaxRestarts)
  BY <1>0, StorageTypes
<1> QED BY <1>0, <1>1, <1>2, <1>3, <1>4, StorageTypes, ChangedStep

LEMMA RemoveMediumKeeps ==
    ASSUME StorageInv, NEW v \in Volumes, RemoveMedium(v) PROVE StorageInv'
<1>0. /\ v \in present /\ Change /\ present' = present \ {v}
      /\ uevents' = IF netlink THEN uevents \cup {v} ELSE uevents
      /\ awaiting' = awaiting \ {v}
      /\ honoured' = {p \in honoured : p[1] # v}
      /\ mountinfo' = [mountinfo EXCEPT ![v] = << >>]
  BY DEF RemoveMedium, Queued
<1>1. /\ mountinfo' \in [Volumes -> MountLists] /\ mountinfo'[v] = << >>
      /\ \A u \in Volumes \ {v} : mountinfo'[u] = mountinfo[u]
  BY <1>0, StorageTypes DEF MountLists
<1>2. MountsPresent'
  BY <1>0, <1>1 DEF StorageInv, MountsPresent
<1>3. AwaitingUnmounted'
  BY <1>0, <1>1, StorageTypes DEF StorageInv, AwaitingUnmounted
<1>4. HonouredKept'
  <2>1. \A p \in honoured' : p[2] <= restarts'
    BY <1>0, ChangeIs DEF StorageInv, HonouredKept
  <2>2. honoured' # {} => ~Crowded(present')
    <3>1. /\ Cardinality(present') <= Cardinality(present)
          /\ Cardinality(present') \in Nat /\ Cardinality(present) \in Nat
      BY <1>0, StorageTypes, SmallerSet
    <3>2. honoured # {} => ~(Cardinality(present) > MaxVolumes)
      BY DEF StorageInv, HonouredKept, Crowded
    <3>3. honoured # {} => ~(Cardinality(present') > MaxVolumes)
      BY <3>1, <3>2, StorageConstants
    <3> QED BY <1>0, <3>3 DEF Crowded
  <2>3. ASSUME NEW u \in Volumes, Honoured(u)'
        PROVE  u \in present' /\ u \in suppressed'
               /\ "managed" \notin Range(mountinfo'[u])
    <3>1. <<u, restarts>> \in honoured' /\ <<u, restarts>>[1] = u
      BY <2>3, <1>0, ChangeIs DEF Honoured
    <3>2. Honoured(u) /\ u # v
      BY <1>0, <3>1 DEF Honoured
    <3> QED BY <1>0, <1>1, <3>2, ChangeIs, HonouredVisible
  <2> QED BY <2>1, <2>2, <2>3 DEF HonouredKept
<1>5. Seen'
  BY <1>0, ChangeIs DEF StorageInv, Seen
<1>6. /\ present' \subseteq Volumes /\ uevents' \subseteq Volumes
      /\ awaiting' \subseteq Volumes
      /\ honoured' \subseteq Volumes \X (0 .. MaxRestarts)
  BY <1>0, StorageTypes
<1> QED BY <1>0, <1>1, <1>2, <1>3, <1>4, <1>5, <1>6, ChangedStep

(* Another program's mounts: only what is managed counts as the HAL's. *)
LEMMA ElsewhereKeeps ==
    ASSUME StorageInv, NEW v \in Volumes, Change, OnlyMounts(v),
           UNCHANGED <<present, uevents, honoured>>,
           awaiting' \subseteq awaiting,
           v \in awaiting' => mountinfo'[v] = mountinfo[v],
           "managed" \notin Range(mountinfo[v]) =>
              "managed" \notin Range(mountinfo'[v])
    PROVE  StorageInv'
<1>1. MountsPresent' /\ AwaitingUnmounted' /\ awaiting' \subseteq Volumes
  BY MountsMoved
<1>2. ASSUME <<v, restarts>> \in honoured'
      PROVE  v \in suppressed' /\ "managed" \notin Range(mountinfo'[v])
  <2>1. Honoured(v)
    BY <1>2 DEF Honoured
  <2> QED BY <2>1, ChangeIs, HonouredVisible
<1>3. HonouredKept' /\ honoured' \subseteq Volumes \X (0 .. MaxRestarts)
  BY <1>2, ChangeIs, HonouredMoved
<1>4. Seen'
  BY ChangeIs, VisibleKept DEF StorageInv, Seen
<1>5. mountinfo' \in [Volumes -> MountLists]
  BY DEF OnlyMounts
<1> QED BY <1>1, <1>3, <1>4, <1>5, StorageTypes, ChangedStep

LEMMA MountElsewhereKeeps ==
    ASSUME StorageInv, NEW v \in Volumes, MountElsewhere(v) PROVE StorageInv'
<1>0. /\ v \in present /\ "external" \notin Range(mountinfo[v]) /\ Change
      /\ mountinfo' = [mountinfo EXCEPT ![v] = Append(mountinfo[v], "external")]
      /\ awaiting' = awaiting \ {v} /\ UNCHANGED <<present, uevents, honoured>>
  BY DEF MountElsewhere
<1>1. mountinfo[v] \in MountLists /\ mountinfo \in [Volumes -> MountLists]
  BY StorageTypes
<1>2. /\ Append(mountinfo[v], "external") \in MountLists
      /\ Range(Append(mountinfo[v], "external"))
           = Range(mountinfo[v]) \cup {"external"}
  BY <1>0, <1>1, AppendIs DEF Kinds
<1>3. /\ mountinfo' \in [Volumes -> MountLists]
      /\ mountinfo'[v] = Append(mountinfo[v], "external")
      /\ \A u \in Volumes \ {v} : mountinfo'[u] = mountinfo[u]
  BY <1>0, <1>1, <1>2
<1>4. OnlyMounts(v)
  BY <1>0, <1>3 DEF OnlyMounts
<1>5. "managed" \notin Range(mountinfo[v]) => "managed" \notin Range(mountinfo'[v])
  BY <1>2, <1>3
<1> QED BY <1>0, <1>4, <1>5, ElsewhereKeeps

LEMMA UnmountElsewhereKeeps ==
    ASSUME StorageInv, NEW v \in Volumes, NEW k \in Kinds, UnmountElsewhere(v, k)
    PROVE  StorageInv'
<1>0. /\ k \in Range(mountinfo[v]) /\ Change
      /\ mountinfo' = [mountinfo EXCEPT ![v] = Without(mountinfo[v], k)]
      /\ UNCHANGED <<present, uevents, honoured, awaiting>>
  BY DEF UnmountElsewhere
<1>1. mountinfo[v] \in MountLists /\ mountinfo \in [Volumes -> MountLists]
  BY StorageTypes
<1>2. /\ Without(mountinfo[v], k) \in MountLists
      /\ Range(Without(mountinfo[v], k)) = Range(mountinfo[v]) \ {k}
  BY <1>1, WithoutIs
<1>3. /\ mountinfo' \in [Volumes -> MountLists]
      /\ mountinfo'[v] = Without(mountinfo[v], k)
      /\ \A u \in Volumes \ {v} : mountinfo'[u] = mountinfo[u]
  BY <1>0, <1>1, <1>2
<1>4. mountinfo[v] # << >>
  BY <1>0, MountRanges
<1>5. v \in present /\ v \notin awaiting
  BY <1>4 DEF StorageInv, MountsPresent, AwaitingUnmounted
<1>6. OnlyMounts(v)
  BY <1>3, <1>5 DEF OnlyMounts
<1>7. "managed" \notin Range(mountinfo[v]) => "managed" \notin Range(mountinfo'[v])
  BY <1>2, <1>3
<1> QED BY <1>0, <1>5, <1>6, <1>7, ElsewhereKeeps

(* A new process knows nothing and owes nothing to the unmounts of the last. *)
LEMMA FreshView == View(<< >>) /\ DOMAIN << >> = {}
<1>1. DOMAIN << >> = {} /\ << >> \in [{} -> Row]
  OBVIOUS
<1>2. Cardinality({}) <= MaxVolumes
  BY FS_EmptySet, StorageConstants
<1> QED BY <1>1, <1>2 DEF View

LEMMA FreshLists ==
    /\ SmallList({}) /\ ErrorTable([v \in Volumes |-> "none"])
    /\ [Idle EXCEPT !.op = "refresh", !.step = "scan"] \in Jobs
    /\ [Idle EXCEPT !.op = "refresh", !.step = "scan"].step = "scan"
    /\ \A file : Loaded(DefaultAuto, file) \in BOOLEAN
<1>1. Cardinality({}) <= MaxVolumes
  BY FS_EmptySet, StorageConstants
<1>2. Erring([v \in Volumes |-> "none"]) = {}
  BY DEF Erring
<1>3. [v \in Volumes |-> "none"] \in [Volumes -> ErrorCodes]
  BY DEF ErrorCodes
<1>4. ErrorTable([v \in Volumes |-> "none"])
  BY <1>1, <1>2, <1>3 DEF ErrorTable
<1>5. \A file : Loaded(DefaultAuto, file) \in BOOLEAN
  BY StorageConstants DEF Loaded
<1> QED BY <1>1, <1>4, <1>5 DEF SmallList, Idle, Jobs

LEMMA RestartKeeps == ASSUME StorageInv, Restart PROVE StorageInv'
<1>0. /\ restarts < MaxRestarts /\ restarts' = restarts + 1
      /\ netlink' \in BOOLEAN /\ uevents' = {}
      /\ auto' = Loaded(DefaultAuto, config) /\ configError' = (config = "invalid")
      /\ attempted' = {} /\ suppressed' = {}
      /\ errors' = [v \in Volumes |-> "none"] /\ cache' = << >> /\ dirty' = FALSE
      /\ job' = [Idle EXCEPT !.op = "refresh", !.step = "scan"]
      /\ UNCHANGED <<present, mountinfo, config, announced, honoured, awaiting>>
  BY DEF Restart, Boot, osVars
<1>1. job' \in Jobs /\ job'.step = "scan" /\ job' # Idle
  BY <1>0, FreshLists, IdleJob
<1>2. MountsPresent' /\ AwaitingUnmounted'
  BY <1>0 DEF StorageInv, MountsPresent, AwaitingUnmounted
<1>3. restarts' \in 0 .. MaxRestarts /\ restarts \in Nat
  BY <1>0, StorageTypes, StorageConstants
<1>4. HonouredKept'
  <2>1. ASSUME NEW p \in honoured
        PROVE  p[2] \in Nat /\ p[2] <= restarts
    BY StorageTypes, StorageConstants DEF StorageInv, HonouredKept
  <2>2. \A p \in honoured : p[2] <= restarts + 1 /\ p[2] # restarts + 1
    BY <1>3, <2>1
  <2>3. \A v \in Volumes : <<v, restarts + 1>> \notin honoured
    <3>1. \A v \in Volumes : <<v, restarts + 1>>[2] = restarts + 1
      OBVIOUS
    <3> QED BY <2>2, <3>1
  <2>4. honoured # {} => ~Crowded(present)
    BY DEF StorageInv, HonouredKept
  <2> QED BY <1>0, <2>2, <2>3, <2>4 DEF HonouredKept, Honoured, Crowded
<1>5. StorageJob' /\ SuppressedShown' /\ Seen'
  BY <1>0, <1>1 DEF StorageJob, SuppressedShown, Seen
<1>6. Announced'
  <2>1. announced.by \in 0 .. Process /\ Process \in Nat /\ Process' = Process + 1
    BY <1>0, <1>3 DEF StorageInv, Announced, Process
  <2>2. announced'.by \in 0 .. Process' /\ announced'.by # Process'
    BY <1>0, <2>1
  <2> QED BY <1>0, <1>1, <2>2 DEF Announced, Told
<1>7. /\ auto' \in BOOLEAN /\ configError' \in BOOLEAN /\ dirty' \in BOOLEAN
      /\ SmallList(attempted') /\ SmallList(suppressed') /\ ErrorTable(errors')
      /\ View(cache')
  BY <1>0, FreshLists, FreshView
<1> QED BY <1>0, <1>1, <1>2, <1>3, <1>4, <1>5, <1>6, <1>7, StorageTypes,
           StorageFromParts

LEMMA StorageInitInv == ASSUME Init PROVE StorageInv
<1>0. /\ present = {} /\ mountinfo = [v \in Volumes |-> << >>]
      /\ config \in Configs /\ netlink \in BOOLEAN /\ uevents = {}
      /\ auto = Loaded(DefaultAuto, config) /\ configError = (config = "invalid")
      /\ attempted = {} /\ suppressed = {}
      /\ errors = [v \in Volumes |-> "none"] /\ cache = << >> /\ dirty = FALSE
      /\ job = [Idle EXCEPT !.op = "refresh", !.step = "scan"]
      /\ announced = [volumes |-> << >>, auto |-> DefaultAuto, by |-> 0]
      /\ honoured = {} /\ awaiting = {} /\ restarts = 0
  BY DEF Init
<1>1. job \in Jobs /\ job.step = "scan" /\ job # Idle
  BY <1>0, FreshLists, IdleJob
<1>2. mountinfo \in [Volumes -> MountLists]
  BY <1>0 DEF MountLists
<1>3. MountsPresent /\ AwaitingUnmounted
  BY <1>0 DEF MountsPresent, AwaitingUnmounted
<1>4. StorageJob /\ SuppressedShown /\ Seen
  BY <1>0, <1>1 DEF StorageJob, SuppressedShown, Seen
<1>5. Announced /\ HonouredKept
  BY <1>0, <1>1 DEF Announced, Told, Process, HonouredKept, Honoured
<1>6. /\ SmallList(attempted) /\ SmallList(suppressed) /\ ErrorTable(errors)
      /\ View(cache)
  BY <1>0, FreshLists, FreshView
<1>7. {netlink, auto, configError, dirty} \subseteq BOOLEAN
  BY <1>0, FreshLists
<1>8. config \in {"missing", "true", "false", "invalid"}
  BY <1>0, StorageAssumption
<1>9. TypeOK
  BY <1>0, <1>1, <1>2, <1>6, <1>7, <1>8
     DEF TypeOK, SmallList, ErrorTable, View, ErrorCodes, Erring
<1>10. restarts \in 0 .. MaxRestarts
  BY <1>0, StorageConstants
<1> QED BY <1>3, <1>4, <1>5, <1>9, <1>10 DEF StorageInv

LEMMA StorageStepInv == ASSUME StorageInv, Next PROVE StorageInv'
<1>1. CASE Work
  BY <1>1, BeginRefreshKeeps, AutoMountKeeps, EndRefreshKeeps, ReplyKeeps,
     LookupKeeps, MountCommandKeeps, UnmountCommandKeeps, CheckMountKeeps,
     ConcludeKeeps DEF Work
<1>2. CASE Outside
  BY <1>2, InsertMediumKeeps, RemoveMediumKeeps, MountElsewhereKeeps,
     UnmountElsewhereKeeps DEF Outside
<1> QED BY <1>1, <1>2, WakeupKeeps, ClientsKeep, RestartKeeps DEF Next

(* StorageInv holds in every state of the storage service. *)
THEOREM StorageInvariant == Spec => []StorageInv
<1>1. Init => StorageInv
  BY StorageInitInv
<1>2. StorageInv /\ UNCHANGED vars => StorageInv'
  BY DEF vars, StorageInv, TypeOK, MountsPresent, AwaitingUnmounted, StorageJob,
         SuppressedShown, Announced, Told, Snapshot, Process, HonouredKept,
         Honoured, Crowded, Seen, Visible, Before
<1>3. StorageInv /\ [Next]_vars => StorageInv'
  BY <1>2, StorageStepInv
<1> QED BY <1>1, <1>3, PTL DEF Spec

(* The variables keep their types: no list, table or cache of the process    *)
(* ever holds more than MAX_STORAGE_VOLUMES names.                           *)
THEOREM StorageTyped == Spec => []TypeOK
<1>1. StorageInv => TypeOK
  BY DEF StorageInv
<1> QED BY <1>1, StorageInvariant, PTL

(* Whenever the loop waits, the last event carried what the process holds,   *)
(* or this process has sent none and found nothing to tell.                  *)
THEOREM SubscribersKeptInStep == Spec => []SubscribersInStep
<1>1. StorageInv => SubscribersInStep
  BY DEF StorageInv, Announced, Told, SubscribersInStep
<1> QED BY <1>1, StorageInvariant, PTL

(* A client's unmount stands for as long as the process and the medium do.   *)
THEOREM ManualUnmountsRespected == Spec => []ManualUnmountRespected
<1>1. StorageInv => ManualUnmountRespected
  BY DEF StorageInv, HonouredKept, Honoured, ManualUnmountRespected
<1> QED BY <1>1, StorageInvariant, PTL

(* With nothing queued the cache lists every volume, and with auto-mount on  *)
(* every medium was tried that came in with no unmount of its name on record. *)
THEOREM NoMediaMissed == Spec => []NoMediumMissed
<1>1. StorageInv => NoMediumMissed
  <2> SUFFICES ASSUME StorageInv, job = Idle, netlink, uevents = {}
               PROVE  /\ DOMAIN cache = Visible
                      /\ auto => awaiting \cap Visible = {}
    BY DEF NoMediumMissed
  <2>1. job.step = "idle"
    BY IdleJob
  <2> QED BY <2>1 DEF StorageInv, Seen
<1> QED BY <1>1, StorageInvariant, PTL
=============================================================================
