---------------------------- MODULE ImapService -----------------------------
(***************************************************************************)
(* What an IMAP session promises its client, whatever threads and handlers *)
(* it is made of: commands are taken one at a time, a command is taken     *)
(* only when the answer to the one before is made, every command has one   *)
(* answer, the answers arrive in the order of the commands, and a          *)
(* connection that went down delivers nothing more.                        *)
(***************************************************************************)
EXTENDS Naturals, Sequences

CONSTANT Sessions

VARIABLES
  taken,    \* session -> number of commands taken
  made,     \* session -> number of answers made
  replies,  \* session -> the answers delivered, by number of command
  up        \* session -> the connection is open

serviceVars == <<taken, made, replies, up>>

ServiceInit ==
  /\ taken = [s \in Sessions |-> 0]
  /\ made = [s \in Sessions |-> 0]
  /\ replies = [s \in Sessions |-> <<>>]
  /\ up = [s \in Sessions |-> TRUE]

TakeCommand(s) ==
  /\ made[s] = taken[s]
  /\ taken' = [taken EXCEPT ![s] = @ + 1]
  /\ UNCHANGED <<made, replies, up>>

MakeAnswer(s) ==
  /\ made[s] < taken[s]
  /\ made' = [made EXCEPT ![s] = @ + 1]
  /\ UNCHANGED <<taken, replies, up>>

(* A command refused at once.                                               *)
RefuseCommand(s) ==
  /\ made[s] = taken[s]
  /\ taken' = [taken EXCEPT ![s] = @ + 1]
  /\ made' = [made EXCEPT ![s] = @ + 1]
  /\ UNCHANGED <<replies, up>>

Deliver(s) ==
  /\ up[s] /\ Len(replies[s]) < made[s]
  /\ replies' = [replies EXCEPT ![s] = Append(@, Len(@) + 1)]
  /\ UNCHANGED <<taken, made, up>>

GoDown(s) ==
  /\ up[s]
  /\ up' = [up EXCEPT ![s] = FALSE]
  /\ UNCHANGED <<taken, made, replies>>

ServiceNext ==
  \E s \in Sessions :
    TakeCommand(s) \/ MakeAnswer(s) \/ RefuseCommand(s) \/ Deliver(s) \/ GoDown(s)

ServiceSpec == ServiceInit /\ [][ServiceNext]_serviceVars
=============================================================================
