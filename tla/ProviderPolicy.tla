--------------------------- MODULE ProviderPolicy ---------------------------
(***************************************************************************)
(* What the HAL manager promises about its provider preferences, with no    *)
(* threads, locks or files: a table of pins that changes one domain at a    *)
(* time, each change counted by the revision together with the other events.*)
(***************************************************************************)
EXTENDS Naturals

CONSTANTS Domains, Providers, None

VARIABLES pins, revision,
          restarts  \* how often the manager was started again

vars == <<pins, revision, restarts>>

Init ==
    /\ pins = [d \in Domains |-> None]
    /\ revision = 0
    /\ restarts = 0

(* A preference changes and the change is an event. *)
Pin(d, c) ==
    /\ pins[d] # c
    /\ pins' = [pins EXCEPT ![d] = c]
    /\ revision' = revision + 1
    /\ UNCHANGED restarts

(* Another event: a device was written, or a poll saw a difference. *)
Record ==
    /\ revision' = revision + 1
    /\ UNCHANGED <<pins, restarts>>

(* The manager is restarted.  The pins survive; a commit that was under way  *)
(* is there as a whole or not at all.                                        *)
Restart ==
    /\ restarts' = restarts + 1
    /\ revision' = 0
    /\ \/ UNCHANGED pins
       \/ \E d \in Domains, c \in Providers \cup {None} :
             pins' = [pins EXCEPT ![d] = c]

Next ==
    \/ \E d \in Domains, c \in Providers \cup {None} : Pin(d, c)
    \/ Record
    \/ Restart

Spec == Init /\ [][Next]_vars
=============================================================================
