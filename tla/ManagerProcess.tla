--------------------------- MODULE ManagerProcess ---------------------------
(***************************************************************************)
(* The manager process around its catalog: the ComponentServer that takes    *)
(* the calls (mipc.py) and the journal its watch calls wait on (manager.py). *)
(* A handler reaches the journal only through _condition, and the server     *)
(* leaves open what a handler does, so the two share no variable and a       *)
(* behaviour is that of one part while the other rests: the states to be     *)
(* checked are the sum of theirs, not the product.                           *)
(***************************************************************************)
EXTENDS EventJournal, MipcServer

Parts == {"journal", "server"}

VARIABLE part    \* the part this behaviour follows

processVars == <<vars, mipcVars, part>>

ProcessInit == part \in Parts /\ Init /\ MipcInit

JournalPart == part = "journal" /\ Next /\ UNCHANGED <<mipcVars, part>>
ServerPart == part = "server" /\ MipcNext /\ UNCHANGED <<vars, part>>

ProcessNext == JournalPart \/ ServerPart

(* The fairness of both parts; the resting one has nothing enabled. *)
ProcessSpec ==
    /\ ProcessInit /\ [][ProcessNext]_processVars
    /\ JournalFairness /\ MipcFairness
=============================================================================
