------------------------- MODULE MCPeriodicSchedule -------------------------
(* PeriodicSchedule for TLC.  A behaviour is about packets or about the list: *)
(* either two clients have pipes, whose devices send and halt, or all clients *)
(* do, whose devices only NAK, since packets change no link of the list.      *)
EXTENDS PeriodicSchedule, TLC

CONSTANTS c1, c2, c3, c4

VARIABLE callers        \* the clients that have pipes

MCInit ==
    /\ Init
    /\ callers = Clients \/ callers \in {S \in SUBSET Clients : Cardinality(S) = 2}

MCNext ==
    /\ Next /\ UNCHANGED callers
    /\ \A c \in Clients \ callers : pc'[c] = "idle"
    /\ IF callers = Clients
       THEN \A t \in Qtds : qtd'[t].st \in {"zero", "active"}
       ELSE \A c \in callers : pipe'[c] \in {NumQh - 2, NumQh - 1, NumQh}

MCSpec == MCInit /\ [][MCNext]_<<vars, callers>>

ClientSymmetry == Permutations(Clients)
=============================================================================
