------------------------------- MODULE MCLogger -------------------------------
(* Instances of Logger for TLC.                                             *)
EXTENDS Logger, TLC

CONSTANTS t1, t2

(* Threads that log and switch the strategy.                                *)
LogScript == t1 :> <<"log", "set_strategy", "log">> @@ t2 :> <<"log", "log">>
(* One thread reads while another logs.                                     *)
ReadScript == t1 :> <<"log", "read", "log", "read">> @@ t2 :> <<"log", "log", "log">>
(* A thread reads back what it logged, nobody else logs.                    *)
AloneScript == t1 :> <<"log", "read", "log", "log", "read">> @@ t2 :> <<>>
(* A read meets a single log call.                                          *)
RaceScript == t1 :> <<"read">> @@ t2 :> <<"log">>

UseScripts == {LogScript, ReadScript, AloneScript}
RaceScripts == {RaceScript}
=============================================================================
