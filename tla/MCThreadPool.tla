----------------------------- MODULE MCThreadPool -----------------------------
(* Instances of ThreadPool for TLC.                                         *)
EXTENDS ThreadPool, TLC

CONSTANTS c1, c2

(* Pauses racing each other, then terminate and the destructor's second     *)
(* terminate; tasks are added at any time.                                  *)
LifeScript == c1 :> <<"initialize", "pause", "terminate", "terminate">> @@ c2 :> <<"pause", "unpause">>
(* Termination racing add_task: the script under which FuturesResolve fails. *)
AddRaceScript == c1 :> <<"initialize", "terminate">> @@ c2 :> <<>>
=============================================================================
