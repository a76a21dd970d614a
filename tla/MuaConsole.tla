----------------------------- MODULE MuaConsole -----------------------------
(***************************************************************************)
(* The console front end of the mail client. Its main loop pushes one      *)
(* command and waits for the first result that is not a report of a        *)
(* reconnection, ten seconds for each; after a timeout it returns to the   *)
(* prompt and the result that comes later is taken for the answer to the   *)
(* next command. Lines that are not a command, or have bad arguments, are  *)
(* answered without the worker.                                            *)
(***************************************************************************)
EXTENDS MailWorker

VARIABLE con  \* see ConsoleInit

(* at: "prompt", "wait", "last" (waiting for the disconnect of quit),       *)
(* "stop"; op: the command waited for; shown: number of the command whose   *)
(* result was printed last, 0 when none or the wait timed out.              *)
ConsoleInit ==
  con = [at |-> "prompt", op |-> "none", isConnected |-> FALSE, shown |-> 0, timeouts |-> 0]

Returns == IF con.at = "last" THEN "stop" ELSE "prompt"

ConsoleUnchanged == UNCHANGED <<queueVars, issued, wk, conn, cur, conf, halt, boxes, sel, late, mail, accepted, ghost>>

(* A line of input that is a command.                                       *)
mainCommand(c) ==
  /\ con.at = "prompt"
  /\ con' = [con EXCEPT !.at = "wait", !.op = c.op, !.shown = 0]
  /\ Ask(c.op, c.id, c.arg)

(* quit, exit or the end of the input.                                      *)
mainQuit ==
  /\ con.at = "prompt"
  /\ IF con.isConnected
     THEN con' = [con EXCEPT !.at = "last", !.op = "disconnect", !.shown = 0] /\ Ask("disconnect", 0, "none")
     ELSE con' = [con EXCEPT !.at = "stop"] /\ UNCHANGED vars

(* printResult: whether the result is a success.                            *)
printResult(r) == r.ok

(* waitAndPrint, one result. connect and disconnect record what they have   *)
(* been told.                                                               *)
waitAndPrint ==
  LET r == Head(results) IN
  /\ con.at \in {"wait", "last"} /\ results # <<>>
  /\ results' = Tail(results)
  /\ con' = IF r.op = "reconnect" THEN con
            ELSE [con EXCEPT !.at = Returns, !.shown = r.no,
                             !.isConnected = IF printResult(r) /\ con.op \in {"connect", "disconnect"}
                                             THEN con.op = "connect" ELSE @]
  /\ UNCHANGED faults /\ ConsoleUnchanged

waitTimesOut ==
  /\ con.at \in {"wait", "last"} /\ results = <<>> /\ ~notifying /\ faults < MaxFaults
  /\ con' = [con EXCEPT !.at = Returns, !.timeouts = @ + 1]
  /\ faults' = faults + 1
  /\ UNCHANGED results /\ ConsoleUnchanged

mainStops == con.at = "stop" /\ stop /\ UNCHANGED con

-----------------------------------------------------------------------------
(* Every command has exactly one result, in order: what the console prints  *)
(* for a command is the result of the command it issued as many commands    *)
(* before as there have been timeouts.                                      *)
PrintedLagsByTimeouts == con.shown # 0 => con.shown = issued - con.timeouts
=============================================================================
