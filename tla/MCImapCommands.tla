--------------------------- MODULE MCImapCommands ---------------------------
(***************************************************************************)
(* Two sessions, two users with an INBOX each, and room for one more       *)
(* folder. All commands of both sessions together are too much to          *)
(* enumerate; each scenario lets each session use some of the commands     *)
(* that have intermediate steps (the others are always there), so that     *)
(* between them the pairs that touch the same tables meet.                 *)
(***************************************************************************)
EXTENDS ImapCommands

CONSTANTS s1, s2, u1, u2

VARIABLE scenario

a == <<"a">>
ab == <<"a", "b">>

MCStart == <<INBOX>>
MCNames == {INBOX, a, ab}
MCSets == {<< <<1, Star>> >>, << <<3, 3>>, <<2, 1>> >>}
MCUidSets == {<< <<3, 1>> >>, << <<2, 2>>, <<Star, Star>> >>}
MCItems == {{"ALL"}, {"X"}}
MCStores == {[sign |-> "+", flags |-> {"\\Deleted"}, silent |-> FALSE],
             [sign |-> "", flags |-> {}, silent |-> TRUE],
             [sign |-> "-", flags |-> {"$custom"}, silent |-> FALSE]}

Scenarios ==
  [login  |-> [fresh |-> TRUE, users |-> {u1, u2}, mail |-> 1,
               one |-> {"SELECT", "UID STORE"}, two |-> {"SELECT"}],
   select |-> [fresh |-> FALSE, users |-> {u1}, mail |-> 2,
               one |-> {"SELECT"}, two |-> {"EXPUNGE", "STORE"}],
   fetch  |-> [fresh |-> FALSE, users |-> {u1}, mail |-> 3,
               one |-> {"UID FETCH", "FETCH"}, two |-> {"STORE", "EXPUNGE"}],
   store  |-> [fresh |-> FALSE, users |-> {u1}, mail |-> 2,
               one |-> {"UID STORE", "EXPUNGE"}, two |-> {"CLOSE", "EXPUNGE"}],
   tree   |-> [fresh |-> FALSE, users |-> {u1}, mail |-> 1,
               one |-> {"CREATE", "SUBSCRIBE", "DELETE"}, two |-> {"DELETE", "RENAME"}],
   copy   |-> [fresh |-> FALSE, users |-> {u1}, mail |-> 2,
               one |-> {"CREATE", "COPY", "UID COPY"}, two |-> {"DELETE"}]]

MayCall(s) == {"none"} \cup (IF s = s1 THEN Scenarios[scenario].one ELSE Scenarios[scenario].two)

(* Where the login is not the subject both sessions start with the empty    *)
(* INBOX of u1 selected, and no session logs in or out again.               *)
MCInit ==
  /\ scenario \in DOMAIN Scenarios
  /\ TablesInit
  /\ LET inbox == CHOOSE f \in DOMAIN folders : folders[f].user = u1
         started == [state |-> "Selected", user |-> u1, box |-> inbox]
     IN st = [s \in Sessions |-> IF Scenarios[scenario].fresh THEN Fresh ELSE started]
  /\ call = [s \in Sessions |-> Idle]
  /\ view = [s \in Sessions |-> NoView]

MCNext ==
  /\ Next
  /\ UNCHANGED scenario
  /\ lastMid' <= Scenarios[scenario].mail
  /\ \A u \in Users \ Scenarios[scenario].users : ~Deliver(u)
  /\ \A s \in Sessions : /\ call'[s].cmd \in MayCall(s)
                         /\ ~Scenarios[scenario].fresh => st'[s].user = st[s].user
MCSpec == MCInit /\ [][MCNext]_<<vars, scenario>>
=============================================================================
