----------------------------- MODULE MCDispatch -----------------------------
(***************************************************************************)
(* Tasks for TLC.  Of p1: in the directory of the settings, in the one of  *)
(* config_json, in one that overrides config_json, and one with an empty   *)
(* requirement in each directory.  Of p2: one that get() refuses and one   *)
(* in the other directory.                                                 *)
(***************************************************************************)
EXTENDS Dispatch, TLC

CONSTANTS d1, d2, m2, p1, p2, t1, t2, t3, t4, t5, t6, t7

InD2 == [work_dir |-> d2, model |-> m2, api_key |-> Absent]
BlankModel == [work_dir |-> Absent, model |-> Blank, api_key |-> Absent]

MCPlace == {d1, d2} \X {p1, p2}
MCUnreadable == {<<d2, p1>>}
MCProjectOf == [t \in TaskId |-> IF t \in {t5, t6} THEN p2 ELSE p1]
MCRequestOf ==
    t1 :> [work_dir |-> Blank, config |-> NoConfig]
    @@ t2 :> [work_dir |-> Blank, config |-> InD2]
    @@ t3 :> [work_dir |-> d1, config |-> InD2]
    @@ t4 :> [work_dir |-> d1, config |-> NoConfig]
    @@ t5 :> [work_dir |-> Blank, config |-> BlankModel]
    @@ t6 :> [work_dir |-> d2, config |-> NoConfig]
    @@ t7 :> [work_dir |-> d2, config |-> NoConfig]
=============================================================================
