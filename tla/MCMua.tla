-------------------------------- MODULE MCMua --------------------------------
(***************************************************************************)
(* The mail client: the worker under one of its two front ends. The user   *)
(* issues the commands of a script, in the bridge without waiting for the  *)
(* answers, and may stop the program at any time.                          *)
(***************************************************************************)
EXTENDS MuaBridge, MuaConsole

CONSTANTS m1, m2, m3

VARIABLES case, script

allVars == <<vars, ui, con, case, script>>

MCStartBoxes == ("INBOX" :> <<m1, m2>>) @@ ("Work" :> <<m3>>)

Do(op, id, arg) == [op |-> op, id |-> id, arg |-> arg]
Connect == Do("connect", 0, "host")
Move == Do("move", 1, "Work")

(* A case: the front end, the script, the bound on its faults, whether mail *)
(* arrives and another session expunges meanwhile, whether the servers may  *)
(* refuse the user, and whether the program may be stopped before the last  *)
(* command of the script.                                                   *)
Case(fr, limit, others, refused, hasty, seq) ==
  [front |-> fr, limit |-> limit, others |-> others, refused |-> refused, hasty |-> hasty, script |-> seq]

Cases ==
  {Case("console", 2, FALSE, FALSE, FALSE, <<Connect, Move>>),
   Case("console", 1, TRUE, FALSE, FALSE, <<Connect, Move>>),
   Case("bridge", 1, FALSE, FALSE, FALSE, <<Connect, Do("delete", 1, "none")>>),
   Case("bridge", 1, FALSE, FALSE, FALSE, <<Connect, Do("fetch", 0, "Work"), Do("rmdir", 0, "Work")>>),
   Case("bridge", 2, FALSE, FALSE, FALSE, <<Connect, Do("fetchmail", 1, "none")>>),
   Case("console", 1, FALSE, FALSE, FALSE, <<Connect, Move, Do("delete", 1, "none")>>),
   Case("console", 1, FALSE, FALSE, FALSE,
        <<Connect, Do("labeladd", 1, "deleted"), Do("labeladd", 2, "colour"), Do("labelrm", 1, "deleted")>>),
   Case("bridge", 1, FALSE, FALSE, FALSE, <<Connect, Do("connect", 0, "empty"), Do("folders", 0, "none")>>),
   Case("bridge", 2, FALSE, TRUE, TRUE, <<Do("send", 0, "user"), Connect, Do("disconnect", 0, "none")>>),
   Case("console", 2, FALSE, TRUE, TRUE, <<Connect, Do("send", 0, "user")>>),
   Case("console", 1, FALSE, FALSE, TRUE, 
        <<Do("send", 0, "user"), Connect, Do("read", 2, "none"), Do("send", 0, "nobody")>>),
   Case("console", 1, FALSE, FALSE, FALSE, 
        <<Connect, Do("mkdir", 0, "New"), Do("star", 1, "on"), Do("important", 1, "on")>>),
   Case("console", 1, FALSE, FALSE, FALSE, <<Connect, Do("getatt", 1, "0"), Do("getatt", 1, "1"), Do("star", 1, "off")>>),
   Case("console", 1, TRUE, FALSE, FALSE,
        <<Connect, Do("fetch", 0, "Work"), Do("rmdir", 0, "Work"), Do("move", 1, "Work")>>),
   Case("console", 2, FALSE, FALSE, FALSE, <<Connect, Do("move", 1, "none"), Do("disconnect", 0, "none")>>)}

MCInit ==
  /\ WorkerInit /\ BridgeInit /\ ConsoleInit
  /\ case \in Cases
  /\ script = case.script
  /\ accepted \/ case.refused

Stoppable == case.hasty \/ script = <<>>

Running == ~At("crashed") /\ UNCHANGED case
WithinLimit == faults' <= case.limit

UserStep ==
  /\ Running /\ script # <<>> /\ script' = Tail(script)
  /\ \/ case.front = "bridge" /\ Command(Head(script)) /\ UNCHANGED con
     \/ case.front = "console" /\ mainCommand(Head(script)) /\ UNCHANGED ui

BridgeStep ==
  /\ Running /\ case.front = "bridge" /\ UNCHANGED <<con, script>>
  /\ onResult \/ (Stoppable /\ destroy)

ConsoleStep ==
  /\ Running /\ case.front = "console" /\ UNCHANGED <<ui, script>>
  /\ (Stoppable /\ mainQuit) \/ waitAndPrint \/ waitTimesOut \/ mainStops
  /\ WithinLimit

BackgroundStep ==
  /\ Running /\ UNCHANGED <<ui, con, script>>
  /\ WorkerStep \/ Notify \/ ConnectionLost \/ LateExecution
  /\ WithinLimit

OthersStep ==
  /\ Running /\ case.others /\ UNCHANGED <<ui, con, script>>
  /\ MailArrives \/ OtherExpunge
  /\ WithinLimit

(* The program has ended.                                                   *)
Ended == (halt = "joined" \/ At("crashed")) /\ UNCHANGED allVars

MCNext == UserStep \/ BridgeStep \/ ConsoleStep \/ BackgroundStep \/ OthersStep \/ Ended

(* Both threads run on; the bridge's event loop applies results, the        *)
(* console takes them, and a stop that was begun is gone through with.      *)
Fairness ==
  /\ WF_allVars(~At("crashed") /\ WorkerStep /\ UNCHANGED <<ui, con, case, script>>)
  /\ WF_allVars(~At("crashed") /\ Notify /\ UNCHANGED <<ui, con, case, script>>)
  /\ WF_allVars(~At("crashed") /\ case.front = "bridge" /\ onResult /\ UNCHANGED <<con, case, script>>)
  /\ WF_allVars(~At("crashed") /\ case.front = "bridge" /\ halt # "no" /\ destroy /\ UNCHANGED <<con, case, script>>)
  /\ WF_allVars(~At("crashed") /\ case.front = "console" /\ (waitAndPrint \/ mainStops) /\ UNCHANGED <<ui, case, script>>)

MCSpec == MCInit /\ [][MCNext]_allVars /\ Fairness
=============================================================================
