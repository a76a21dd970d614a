----------------------------- MODULE SmtpSession -----------------------------
(***************************************************************************)
(* One SMTP connection: the loop of server_main.cpp that receives a line,  *)
(* gives it to SmtpSession::ProcessLine and sends the reply, and the state *)
(* machine behind ProcessLine. Beside it stands what the client knows from *)
(* the replies alone, so that the two sides can be compared.               *)
(*                                                                         *)
(* A line is abstracted to what the session tells apart: the command it    *)
(* parses as, and what it decodes to as base64.                            *)
(***************************************************************************)
EXTENDS Naturals, Sequences

CONSTANTS
  Users,     \* names of accounts
  MaxRcpts,  \* bound: recipients of a mail
  MaxLines   \* body lines that fit in MAX_MESSAGE_SIZE

ASSUME SessionAssumption == MaxRcpts \in Nat /\ MaxLines \in Nat

VARIABLES
  state, authenticated, secure, authUser, sender, recipients, body,  \* SmtpSession
  conn,      \* whether the loop still serves the connection
  reply,     \* the reply to the last line, "none" if it had none
  view       \* what the client concludes from its lines and the replies

session == <<state, authenticated, authUser, sender, recipients, body>>
vars == <<session, secure, conn, reply, view>>

NoName == "no name"
Nobody == "nobody"     \* a name that is no account's
Names == Users \cup {Nobody, NoName}

States == {"WAIT_HELO", "WAIT_MAIL", "WAIT_RCPT", "RECEIVING_DATA", "CLOSED", "STARTTLS",
           "AUTH_WAIT_USER", "AUTH_WAIT_PASS"}
Transaction == {"WAIT_RCPT", "RECEIVING_DATA"}

-----------------------------------------------------------------------------
(* What base64 text stands for: a name, an account's password, credentials  *)
(* of AUTH PLAIN with the right or a wrong password, some other word, the   *)
(* empty string; or it is not base64.                                       *)
Word == [kind |-> "word", user |-> Nobody]
Empty == [kind |-> "empty", user |-> NoName]
Invalid == [kind |-> "invalid", user |-> NoName]
Contents == [kind : {"name", "password", "credentials", "wrong"}, user : Users] \cup {Word, Empty}

(* Commands that are themselves four-letter groups of the base64 alphabet.  *)
Bare == {"DATA", "RSET", "NOOP", "QUIT", "STARTTLS"}

Lines ==
  [cmd : Bare \cup {"HELO", "EHLO", "AUTH LOGIN", "AUTH PLAIN", "AUTH OTHER", ".", "text", "long"},
   arg : {Empty}]
  \cup [cmd : {"MAIL", "RCPT"}, arg : [kind : {"name"}, user : Users]]
  \cup [cmd : {"AUTH PLAIN"}, arg : (Contents \ {Empty}) \cup {Invalid}]
  \cup [cmd : {"base64"}, arg : Contents]

(* DecodeBase64 throws on a character outside its alphabet.                 *)
DecodeBase64(line) ==
  IF line.cmd = "base64" THEN line.arg
  ELSE IF line.cmd \in Bare THEN Word ELSE Invalid

(* ExtractUsername of a decoded value.                                      *)
ExtractUsername(content) ==
  IF content.kind = "name" THEN content.user
  ELSE IF content = Empty THEN NoName ELSE Nobody

-----------------------------------------------------------------------------
NoView == [sender |-> NoName, rcpts |-> <<>>, lines |-> 0, greeted |-> FALSE,
           proven |-> FALSE, mech |-> "none", name |-> NoName]

Init ==
  /\ state = "WAIT_HELO"
  /\ authenticated = FALSE
  /\ authUser = NoName
  /\ sender = NoName /\ recipients = <<>> /\ body = 0
  /\ secure = FALSE
  /\ conn = "open"
  /\ reply = "220"
  /\ view = NoView

Answer(code) == reply' = code /\ UNCHANGED <<secure, conn>>

(* An exception out of ProcessLine ends the pool task and, with it, the     *)
(* connection; there is no reply.                                           *)
Throw == conn' = "closed" /\ reply' = "none" /\ UNCHANGED <<session, secure>>

MessageUnchanged == UNCHANGED <<sender, recipients, body>>

ResetMessage == sender' = NoName /\ recipients' = <<>> /\ body' = 0

(* Mutant: the authentication outlives the greeting.                        *)
ResetToHeloKeepsAuth ==
  /\ UNCHANGED authenticated
  /\ authUser' = NoName
  /\ ResetMessage

(* The rest of ResetToHelo; its callers choose the state they go on in.     *)
ResetToHelo ==
  /\ authenticated' = FALSE
  /\ authUser' = NoName
  /\ ResetMessage

Refuse(code) == Answer(code) /\ UNCHANGED session

-----------------------------------------------------------------------------
(* The command handlers.                                                    *)

HandleHelo(line) ==
  /\ line.cmd \in {"HELO", "EHLO"}
  /\ ResetToHelo
  /\ state' = "WAIT_MAIL"
  /\ Answer("250")

HandleMail(line) ==
  /\ line.cmd = "MAIL"
  /\ \/ state # "WAIT_MAIL" /\ Refuse("503")
     \/ state = "WAIT_MAIL" /\ ~authenticated /\ Refuse("530")
     \/ /\ state = "WAIT_MAIL" /\ authenticated
        /\ sender' = line.arg.user
        /\ state' = "WAIT_RCPT"
        /\ Answer("250")
        /\ UNCHANGED <<authenticated, authUser, recipients, body>>

HandleRcpt(line) ==
  /\ line.cmd = "RCPT"
  /\ \/ state # "WAIT_RCPT" /\ Refuse("503")
     \/ /\ state = "WAIT_RCPT" /\ Len(recipients) < MaxRcpts
        /\ recipients' = Append(recipients, line.arg.user)
        /\ Answer("250")
        /\ UNCHANGED <<state, authenticated, authUser, sender, body>>

HandleData(line) ==
  /\ line.cmd = "DATA"
  /\ \/ (state # "WAIT_RCPT" \/ recipients = <<>>) /\ Refuse("503")
     \/ /\ state = "WAIT_RCPT" /\ recipients # <<>>
        /\ state' = "RECEIVING_DATA"
        /\ Answer("354")
        /\ UNCHANGED <<authenticated, authUser>> /\ MessageUnchanged

(* RSET is not refused in any state, WAIT_HELO included.                    *)
HandleRset(line) ==
  /\ line.cmd = "RSET"
  /\ ResetMessage
  /\ state' = "WAIT_MAIL"
  /\ Answer("250")
  /\ UNCHANGED <<authenticated, authUser>>

HandleNoop(line) == line.cmd = "NOOP" /\ Refuse("250")

HandleQuit(line) ==
  /\ line.cmd = "QUIT"
  /\ state' = "CLOSED"
  /\ conn' = "closed"
  /\ reply' = "221"
  /\ UNCHANGED <<secure, authenticated, authUser>> /\ MessageUnchanged

HandleStartTLS(line) ==
  /\ line.cmd = "STARTTLS"
  /\ \/ state # "WAIT_MAIL" /\ Refuse("503")
     \/ /\ state = "WAIT_MAIL"
        /\ state' = "STARTTLS"
        /\ Answer("220")
        /\ UNCHANGED <<authenticated, authUser>> /\ MessageUnchanged

Unknown(line) == line.cmd \in {".", "text", "base64"} /\ Refuse("502")

-----------------------------------------------------------------------------
(* AUTH. A query that fails refuses the right password too.                 *)

Authorize(right) ==
  \/ right /\ authenticated' = TRUE /\ Answer("235")
  \/ UNCHANGED authenticated /\ Answer("535")

HandleAuth(line) ==
  /\ line.cmd \in {"AUTH LOGIN", "AUTH PLAIN", "AUTH OTHER"}
  /\ \/ (state # "WAIT_MAIL" \/ authenticated) /\ Refuse("503")
     \/ state = "WAIT_MAIL" /\ ~authenticated /\ ~secure /\ Refuse("538")
     \/ /\ state = "WAIT_MAIL" /\ ~authenticated /\ secure
        /\ \/ /\ line.cmd = "AUTH LOGIN"
              /\ state' = "AUTH_WAIT_USER"
              /\ Answer("334")
              /\ UNCHANGED <<authenticated, authUser>> /\ MessageUnchanged
           \/ /\ line.cmd = "AUTH PLAIN" /\ line.arg = Empty
              /\ state' = "AUTH_WAIT_PASS"
              /\ Answer("334")
              /\ UNCHANGED <<authenticated, authUser>> /\ MessageUnchanged
           \/ line.cmd = "AUTH PLAIN" /\ line.arg = Invalid /\ Throw
           \/ /\ line.cmd = "AUTH PLAIN" /\ line.arg \notin {Empty, Invalid}
              /\ Authorize(line.arg.kind = "credentials")
              /\ UNCHANGED <<state, authUser>> /\ MessageUnchanged
           \/ line.cmd = "AUTH OTHER" /\ Refuse("504")

AuthUser(line) ==
  /\ state = "AUTH_WAIT_USER"
  /\ authUser' = ExtractUsername(DecodeBase64(line))
  /\ state' = "AUTH_WAIT_PASS"
  /\ Answer("334")
  /\ UNCHANGED authenticated /\ MessageUnchanged

(* An empty name makes the line be read as the credentials of AUTH PLAIN.   *)
AuthPass(line) ==
  /\ state = "AUTH_WAIT_PASS"
  /\ LET content == DecodeBase64(line)
     IN Authorize(IF authUser = NoName THEN content.kind = "credentials"
                  ELSE content.kind = "password" /\ content.user = authUser)
  /\ authUser' = NoName
  /\ state' = "WAIT_MAIL"
  /\ MessageUnchanged

HandleAuthLine(line) ==
  \/ DecodeBase64(line) = Invalid /\ Throw
  \/ DecodeBase64(line) # Invalid /\ (AuthUser(line) \/ AuthPass(line))

-----------------------------------------------------------------------------
(* The lines of a mail. SaveMessage stores it for at least one recipient or *)
(* fails (module MailDelivery).                                             *)
EndOfData ==
  /\ \E code \in {"250", "452"} : Answer(code)
  /\ state' = "WAIT_MAIL"
  /\ ResetMessage
  /\ UNCHANGED <<authenticated, authUser>>

BodyLine ==
  /\ body < MaxLines
  /\ body' = body + 1
  /\ Answer("none")
  /\ UNCHANGED <<state, authenticated, authUser, sender, recipients>>

(* Mutant: only the body is dropped, the envelope stays.                    *)
TooLargeKeepsEnvelope ==
  /\ body = MaxLines
  /\ state' = "WAIT_MAIL"
  /\ body' = 0
  /\ Answer("552")
  /\ UNCHANGED <<authenticated, authUser, sender, recipients>>

TooLarge ==
  /\ body = MaxLines
  /\ state' = "WAIT_MAIL"
  /\ ResetMessage
  /\ Answer("552")
  /\ UNCHANGED <<authenticated, authUser>>

DataLine(line) ==
  \/ line.cmd = "." /\ EndOfData
  \/ line.cmd # "." /\ (BodyLine \/ TooLarge)

Command(line) ==
  \/ HandleHelo(line)
  \/ HandleAuth(line)
  \/ HandleMail(line)
  \/ HandleRcpt(line)
  \/ HandleData(line)
  \/ HandleRset(line)
  \/ HandleNoop(line)
  \/ HandleQuit(line)
  \/ HandleStartTLS(line)
  \/ Unknown(line)

(* A line over 512 characters is refused before anything else is looked at. *)
ProcessLine(line) ==
  \/ line.cmd = "long" /\ Refuse("500")
  \/ /\ line.cmd # "long"
     /\ \/ state \in {"AUTH_WAIT_USER", "AUTH_WAIT_PASS"} /\ HandleAuthLine(line)
        \/ state = "RECEIVING_DATA" /\ DataLine(line)
        \/ state \in {"WAIT_HELO", "WAIT_MAIL", "WAIT_RCPT"} /\ Command(line)

-----------------------------------------------------------------------------
(* The client: it knows the line it sent and the reply to it.               *)

Greeted(line, code) == line.cmd \in {"HELO", "EHLO"} /\ code = "250"

(* Replies after which a transaction is over or begins anew.                *)
EndsTransaction(line, code) ==
  \/ code = "250" /\ line.cmd \in {"HELO", "EHLO", "RSET", "MAIL", "."}
  \/ code \in {"452", "552"}

Observed(line, code) ==
  [sender  |-> IF line.cmd = "MAIL" /\ code = "250" THEN line.arg.user
               ELSE IF EndsTransaction(line, code) THEN NoName ELSE view.sender,
   rcpts   |-> IF line.cmd = "RCPT" /\ code = "250" THEN Append(view.rcpts, line.arg.user)
               ELSE IF EndsTransaction(line, code) THEN <<>> ELSE view.rcpts,
   lines   |-> IF code = "none" THEN view.lines + 1
               ELSE IF EndsTransaction(line, code) THEN 0 ELSE view.lines,
   greeted |-> view.greeted \/ Greeted(line, code),
   proven  |-> code = "235" \/ (view.proven /\ ~Greeted(line, code)),
   mech    |-> IF code = "334" /\ line.cmd = "AUTH LOGIN" THEN "LOGIN"
               ELSE IF code = "334" /\ line.cmd = "AUTH PLAIN" THEN "PLAIN"
               ELSE IF code \in {"235", "535"} THEN "none" ELSE view.mech,
   name    |-> IF code = "334" /\ view.mech = "LOGIN" THEN ExtractUsername(DecodeBase64(line))
               ELSE IF code \in {"235", "535"} THEN NoName ELSE view.name]

Receive(line) ==
  /\ conn = "open" /\ state # "STARTTLS"
  /\ ProcessLine(line)
  /\ view' = IF conn' = "open" THEN Observed(line, reply') ELSE view

(* After the reply to STARTTLS both ends shake hands; a second time, or     *)
(* when the key exchange fails, the loop ends.                              *)
Handshake ==
  /\ conn = "open" /\ state = "STARTTLS"
  /\ ~secure
  /\ secure' = TRUE
  /\ state' = "WAIT_HELO"
  /\ ResetToHelo
  /\ view' = NoView
  /\ UNCHANGED <<conn, reply>>

(* Receive, Send or StartTLS fails: peer gone, timeout, bad handshake.      *)
Disconnect ==
  /\ conn = "open"
  /\ conn' = "closed"
  /\ UNCHANGED <<session, secure, reply, view>>

Next == (\E line \in Lines : Receive(line)) \/ Handshake \/ Disconnect

Spec == Init /\ [][Next]_vars

-----------------------------------------------------------------------------
(* Types of the session's members; the size check keeps the body within     *)
(* MAX_MESSAGE_SIZE, whatever lines follow each other.                      *)
TypeOK ==
  /\ state \in States
  /\ authenticated \in BOOLEAN /\ secure \in BOOLEAN
  /\ authUser \in Names /\ sender \in Users \cup {NoName}
  /\ recipients \in Seq(Users) /\ Len(recipients) <= MaxRcpts
  /\ body \in 0..MaxLines
  /\ conn \in {"open", "closed"}
  /\ view \in [sender : Users \cup {NoName}, rcpts : Seq(Users), lines : Nat, greeted : BOOLEAN,
               proven : BOOLEAN, mech : {"none", "LOGIN", "PLAIN"}, name : Names]

(* The mail SaveMessage gets is the one the client was told of: the sender  *)
(* and the recipients answered 250 in this transaction and the body lines   *)
(* taken without a complaint, nothing of an earlier mail among them.        *)
EnvelopeAgreed ==
  (conn = "open" /\ state \in Transaction) =>
    sender = view.sender /\ recipients = view.rcpts /\ body = view.lines

(* A mail transaction is open only to a client that has proven who it is    *)
(* since its last greeting and over the encrypted channel.                  *)
OnlyAuthenticated ==
  /\ conn = "open" => authenticated = view.proven
  /\ authenticated => secure
  /\ state \in Transaction => authenticated

(* The password of AUTH LOGIN is checked against the name given in the same *)
(* exchange, and no name is left behind for a later one.                    *)
LoginNameAgreed ==
  conn = "open" =>
    authUser = IF state = "AUTH_WAIT_PASS" /\ view.mech = "LOGIN" THEN view.name ELSE NoName

(* Before a greeting, on the connection and again after the handshake,      *)
(* STARTTLS, AUTH and MAIL are a bad sequence and lead nowhere. HandleRset  *)
(* moves an ungreeted session to WAIT_MAIL, from which all three go on; the *)
(* formula allows that state and fails after its next command. No run       *)
(* checks it.                                                               *)
GreetingFirst == (conn = "open" /\ ~view.greeted) => state \in {"WAIT_HELO", "WAIT_MAIL"}
=============================================================================
