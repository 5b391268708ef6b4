-------------------------------- MODULE MCRecord -------------------------------
(***************************************************************************)
(* Small instances of what dirad records: the writer and the registry,     *)
(* tokens at the end of a turn, commits, decisions and specs out of git,   *)
(* and what reports and retention make of it all.  These modules meet only *)
(* in the store, each in tables of its own, so that no step of one can     *)
(* enable or spoil a step of another: a behaviour takes one part and runs  *)
(* it alone, and Parts says which a run explores.                          *)
(***************************************************************************)
EXTENDS Writer, TokenCapture, Retention, Capture, Reindex, SpecSources

CONSTANT Parts

\* Every session is a project of its own.
OwnProject == [s \in Worked |-> s]

VARIABLE part

recordVars == <<part, vars, turnVars, workVars, walkVars, historyVars, sourceVars>>

\* A part that does not run has one initial state.
RecordInit ==
  /\ part \in Parts
  /\ Init /\ TurnInit /\ WorkInit /\ WalkInit
  /\ HistoryInit /\ (part # "history" => session = Nobody)
  /\ SourceInit

Alone(p, others) == part = p /\ UNCHANGED <<part, others>>
RecordNext ==
  \/ Alone("writer", <<turnVars, workVars, walkVars, historyVars, sourceVars>>) /\ Next
  \/ Alone("turns", <<vars, workVars, walkVars, historyVars, sourceVars>>) /\ TurnNext
  \/ Alone("worked", <<vars, turnVars, walkVars, historyVars, sourceVars>>) /\ WorkNext
  \/ Alone("walk", <<vars, turnVars, workVars, historyVars, sourceVars>>) /\ WalkNext
  \/ Alone("history", <<vars, turnVars, workVars, walkVars, sourceVars>>) /\ HistoryNext
  \/ Alone("sources", <<vars, turnVars, workVars, walkVars, historyVars>>) /\ SourceNext

RecordSpec == RecordInit /\ [][RecordNext]_recordVars

--------------------------------------------------------------------------------
(* The properties are those of the modules: the initial states of a part   *)
(* that does not run satisfy them.                                         *)

\* The states of every part have their types.
TypesOK ==
  /\ TypeOK /\ TurnTypeOK /\ WorkTypeOK /\ WalkTypeOK /\ HistoryTypeOK /\ SourceTypeOK

================================================================================
