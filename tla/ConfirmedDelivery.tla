-------------------------- MODULE ConfirmedDelivery --------------------------
(***************************************************************************)
(* What the sync channels promise, with no cursor, chunk or epoch in it.   *)
(* Rows are stored on the device, held by the cloud, and confirmed: the    *)
(* device believes the cloud holds them and will not send them again.  A   *)
(* row is confirmed only while it is stored and held; a confirmation may   *)
(* be withdrawn at any time (the row is then sent again), and all of them  *)
(* are when the cloud loses its log.                                       *)
(***************************************************************************)
CONSTANTS Lanes, Row
VARIABLES stored, held, confirmed

dvars == <<stored, held, confirmed>>

DInit ==
  /\ stored = [l \in Lanes |-> {}]
  /\ held = [l \in Lanes |-> {}]
  /\ confirmed = [l \in Lanes |-> {}]

\* Capture, deletion or a rewind: never a new confirmation.
Change ==
  /\ stored' \in [Lanes -> SUBSET Row]
  /\ confirmed' \in [Lanes -> SUBSET Row]
  /\ \A l \in Lanes : confirmed'[l] \subseteq confirmed[l] \cap stored'[l]
  /\ held' = held

\* The cloud takes rows; it forgets none.
Deliver ==
  /\ held' \in [Lanes -> SUBSET Row]
  /\ \A l \in Lanes : held[l] \subseteq held'[l]
  /\ UNCHANGED <<stored, confirmed>>

\* The device confirms rows the cloud holds.
Confirm ==
  /\ confirmed' \in [Lanes -> SUBSET Row]
  /\ \A l \in Lanes : /\ confirmed[l] \subseteq confirmed'[l]
                      /\ confirmed'[l] \subseteq stored[l] \cap held[l]
  /\ UNCHANGED <<stored, held>>

\* The cloud loses everything.
Lose ==
  /\ held' = [l \in Lanes |-> {}]
  /\ confirmed' = [l \in Lanes |-> {}]
  /\ UNCHANGED stored

DNext == Change \/ Deliver \/ Confirm \/ Lose

DSpec == DInit /\ [][DNext]_dvars
=============================================================================
