-------------------------- MODULE SmtpSessionProofs --------------------------
(***************************************************************************)
(* What the client of an SMTP session is told and what the session does    *)
(* agree for any accounts and bounds. The inductive invariant adds to the  *)
(* properties of SmtpSession that nothing is left over outside a           *)
(* transaction and that the client knows which AUTH exchange it is in.     *)
(***************************************************************************)
EXTENDS SmtpSession, TLAPS

(* Outside a transaction the session and the client hold no part of a mail. *)
NothingLeftOver ==
  (conn = "open" /\ state \notin Transaction) =>
    /\ sender = NoName /\ recipients = <<>> /\ body = 0
    /\ view.sender = NoName /\ view.rcpts = <<>> /\ view.lines = 0

(* The client knows whether an AUTH exchange is under way, and which one.   *)
ExchangeKnown ==
  conn = "open" =>
    /\ state # "CLOSED"
    /\ state = "AUTH_WAIT_USER" => view.mech = "LOGIN" /\ view.name = NoName
    /\ state \notin {"AUTH_WAIT_USER", "AUTH_WAIT_PASS"} => view.mech = "none" /\ view.name = NoName
    /\ view.mech = "PLAIN" => view.name = NoName
    /\ state \in {"AUTH_WAIT_USER", "AUTH_WAIT_PASS"} => ~authenticated /\ secure /\ view.mech # "none"

SessionInv ==
  /\ TypeOK
  /\ EnvelopeAgreed
  /\ OnlyAuthenticated
  /\ LoginNameAgreed
  /\ NothingLeftOver
  /\ ExchangeKnown

(* A new connection satisfies the invariant.                                *)
LEMMA InitInv == Init => SessionInv
<1> SUFFICES ASSUME Init PROVE SessionInv
  OBVIOUS
<1> USE DEF Init, NoView
<1>a. <<>> \in Seq(Users) /\ Len(<<>>) = 0
  OBVIOUS
<1>b. recipients \in Seq(Users) /\ Len(recipients) <= MaxRcpts
  BY <1>a, SessionAssumption
<1>c. view \in [sender : Users \cup {NoName}, rcpts : Seq(Users), lines : Nat, greeted : BOOLEAN,
                proven : BOOLEAN, mech : {"none", "LOGIN", "PLAIN"}, name : Names]
  BY <1>a DEF Names
<1>d. body \in 0..MaxLines
  BY SessionAssumption
<1>1. TypeOK
  BY <1>b, <1>c, <1>d DEF TypeOK, States, Names
<1>2. EnvelopeAgreed /\ OnlyAuthenticated /\ LoginNameAgreed
  BY DEF EnvelopeAgreed, OnlyAuthenticated, LoginNameAgreed, Transaction
<1>3. NothingLeftOver /\ ExchangeKnown
  BY DEF NothingLeftOver, ExchangeKnown, Transaction
<1> QED BY <1>1, <1>2, <1>3 DEF SessionInv

-----------------------------------------------------------------------------
(* A session whose connection is gone keeps the invariant, whatever the     *)
(* client believed last.                                                    *)
LEMMA ClosedInv ==
  ASSUME SessionInv, conn' = "closed", UNCHANGED <<authenticated, authUser, sender, recipients, body, secure, view>>,
         state' \in {state, "CLOSED"}
  PROVE  SessionInv'
  BY DEF SessionInv, TypeOK, EnvelopeAgreed, OnlyAuthenticated, LoginNameAgreed, NothingLeftOver, ExchangeKnown,
     States, Transaction

(* A refused line changes nothing the two sides compare.                    *)
LEMMA RefuseInv ==
  ASSUME SessionInv, NEW line \in Lines, conn = "open",
         NEW code \in {"250", "500", "502", "503", "504", "530", "538"}, Refuse(code),
         code = "250" => line.cmd = "NOOP",
         view' = Observed(line, code)
  PROVE  SessionInv'
<1>1. /\ UNCHANGED <<state, authenticated, authUser, sender, recipients, body, secure, conn>>
      /\ reply' = code
  BY DEF Refuse, Answer, session
<1>2. ~EndsTransaction(line, code) /\ ~Greeted(line, code)
  BY DEF EndsTransaction, Greeted
<1>3. /\ view'.sender = view.sender /\ view'.rcpts = view.rcpts /\ view'.lines = view.lines
      /\ view'.greeted = view.greeted /\ view'.proven = view.proven
      /\ view'.mech = view.mech /\ view'.name = view.name
  BY <1>2 DEF Observed, SessionInv, TypeOK
<1>4. view' = view
  BY <1>3 DEF SessionInv, TypeOK, Observed
<1> QED
  BY <1>1, <1>4 DEF SessionInv, TypeOK, EnvelopeAgreed, OnlyAuthenticated, LoginNameAgreed, NothingLeftOver,
     ExchangeKnown

-----------------------------------------------------------------------------
Views == [sender : Users \cup {NoName}, rcpts : Seq(Users), lines : Nat, greeted : BOOLEAN,
          proven : BOOLEAN, mech : {"none", "LOGIN", "PLAIN"}, name : Names]

(* MAIL and RCPT name a user; every line decodes to some name.              *)
LEMMA LineTypes ==
  ASSUME NEW line \in Lines
  PROVE  /\ line.cmd \in {"MAIL", "RCPT"} => line.arg.user \in Users
         /\ ExtractUsername(DecodeBase64(line)) \in Names
<1>1. line.cmd \in {"MAIL", "RCPT"} => line.arg.user \in Users
  BY DEF Lines, Bare, Contents, Word, Empty, Invalid
<1>2. line.cmd = "base64" => line.arg \in Contents
  BY DEF Lines, Bare
<1>3. DecodeBase64(line) \in Contents \cup {Invalid}
  BY <1>2 DEF DecodeBase64, Contents
<1>4. ASSUME NEW content \in Contents PROVE content.kind = "name" => content.user \in Users
  BY DEF Contents, Word, Empty
<1>5. Invalid.kind # "name"
  BY DEF Invalid
<1>6. ExtractUsername(DecodeBase64(line)) \in Names
  BY <1>3, <1>4, <1>5 DEF ExtractUsername, Names
<1> QED BY <1>1, <1>6

(* What the client concludes is well-formed.                                *)
LEMMA ObservedType ==
  ASSUME TypeOK, NEW line \in Lines, NEW code
  PROVE  Observed(line, code) \in Views
<1>1. view \in Views
  BY DEF TypeOK, Views
<1> DEFINE U == line.arg.user
           E == ExtractUsername(DecodeBase64(line))
<1>2. /\ line.cmd \in {"MAIL", "RCPT"} => U \in Users
      /\ E \in Names
  BY LineTypes
<1>3. line.cmd = "RCPT" => Append(view.rcpts, U) \in Seq(Users)
  BY <1>1, <1>2 DEF Views
<1> HIDE DEF U, E
<1> DEFINE
     s == IF line.cmd = "MAIL" /\ code = "250" THEN U ELSE IF EndsTransaction(line, code) THEN NoName ELSE view.sender
     r == IF line.cmd = "RCPT" /\ code = "250" THEN Append(view.rcpts, U)
          ELSE IF EndsTransaction(line, code) THEN <<>> ELSE view.rcpts
     l == IF code = "none" THEN view.lines + 1 ELSE IF EndsTransaction(line, code) THEN 0 ELSE view.lines
     g == view.greeted \/ Greeted(line, code)
     p == code = "235" \/ (view.proven /\ ~Greeted(line, code))
     m == IF code = "334" /\ line.cmd = "AUTH LOGIN" THEN "LOGIN"
          ELSE IF code = "334" /\ line.cmd = "AUTH PLAIN" THEN "PLAIN"
          ELSE IF code \in {"235", "535"} THEN "none" ELSE view.mech
     n == IF code = "334" /\ view.mech = "LOGIN" THEN E ELSE IF code \in {"235", "535"} THEN NoName ELSE view.name
<1>4. s \in Users \cup {NoName}
  BY <1>1, <1>2 DEF Views
<1>5. r \in Seq(Users)
  BY <1>1, <1>3 DEF Views
<1>6. l \in Nat
  BY <1>1 DEF Views
<1>7. g \in BOOLEAN /\ p \in BOOLEAN
  BY <1>1 DEF Views, Greeted
<1>8. m \in {"none", "LOGIN", "PLAIN"}
  BY <1>1 DEF Views
<1>9. n \in Names
  BY <1>1, <1>2 DEF Views, Names
<1>10. Observed(line, code) = [sender |-> s, rcpts |-> r, lines |-> l, greeted |-> g, proven |-> p,
                               mech |-> m, name |-> n]
  BY DEF Observed, U, E
<1> HIDE DEF s, r, l, g, p, m, n
<1> QED BY <1>4, <1>5, <1>6, <1>7, <1>8, <1>9, <1>10 DEF Views

(* The invariant holds after an accepted line when the session's fields and *)
(* the client's, taken from the reply, do.                                  *)
LEMMA AcceptInv ==
  ASSUME SessionInv, NEW line \in Lines, view' = Observed(line, reply'),
         state' \in States, authenticated' \in BOOLEAN, secure' \in BOOLEAN,
         authUser' \in Names, sender' \in Users \cup {NoName},
         recipients' \in Seq(Users), Len(recipients') <= MaxRcpts, body' \in 0..MaxLines,
         conn' = "open",
         EnvelopeAgreed', OnlyAuthenticated', LoginNameAgreed', NothingLeftOver', ExchangeKnown'
  PROVE  SessionInv'
<1>1. Observed(line, reply') \in Views
  BY ObservedType DEF SessionInv
<1>2. view' \in Views
  BY <1>1
<1> QED BY <1>2 DEF SessionInv, TypeOK, Views

(* The fields of what the client concludes.                                 *)
LEMMA ObservedFields ==
  ASSUME NEW line, NEW code, view' = Observed(line, code)
  PROVE  /\ view'.sender = IF line.cmd = "MAIL" /\ code = "250" THEN line.arg.user
                           ELSE IF EndsTransaction(line, code) THEN NoName ELSE view.sender
         /\ view'.rcpts = IF line.cmd = "RCPT" /\ code = "250" THEN Append(view.rcpts, line.arg.user)
                          ELSE IF EndsTransaction(line, code) THEN <<>> ELSE view.rcpts
         /\ view'.lines = IF code = "none" THEN view.lines + 1
                          ELSE IF EndsTransaction(line, code) THEN 0 ELSE view.lines
         /\ view'.proven = (code = "235" \/ (view.proven /\ ~Greeted(line, code)))
         /\ view'.mech = IF code = "334" /\ line.cmd = "AUTH LOGIN" THEN "LOGIN"
                         ELSE IF code = "334" /\ line.cmd = "AUTH PLAIN" THEN "PLAIN"
                         ELSE IF code \in {"235", "535"} THEN "none" ELSE view.mech
         /\ view'.name = IF code = "334" /\ view.mech = "LOGIN" THEN ExtractUsername(DecodeBase64(line))
                         ELSE IF code \in {"235", "535"} THEN NoName ELSE view.name
  BY DEF Observed

(* Only 235 and a greeting change what the client has proven.               *)
LEMMA ProvenKept ==
  ASSUME NEW line, NEW code, view' = Observed(line, code), view.proven \in BOOLEAN,
         code # "235", ~Greeted(line, code)
  PROVE  view'.proven = view.proven
<1>1. view'.proven = (code = "235" \/ (view.proven /\ ~Greeted(line, code)))
  BY ObservedFields
<1>2. CASE view.proven = TRUE
  BY <1>1, <1>2
<1>3. CASE view.proven = FALSE
  BY <1>1, <1>3
<1> QED BY <1>2, <1>3

(* HELO and EHLO begin anew on both sides.                                  *)
LEMMA HeloInv ==
  ASSUME SessionInv, NEW line \in Lines, conn = "open",
         state \in {"WAIT_HELO", "WAIT_MAIL", "WAIT_RCPT"}, HandleHelo(line), view' = Observed(line, reply')
  PROVE  SessionInv'
<1>1. /\ state' = "WAIT_MAIL" /\ authenticated' = FALSE /\ authUser' = NoName
      /\ sender' = NoName /\ recipients' = <<>> /\ body' = 0
      /\ UNCHANGED <<secure, conn>> /\ reply' = "250" /\ line.cmd \in {"HELO", "EHLO"}
  BY DEF HandleHelo, ResetToHelo, ResetMessage, Answer
<1>2. EndsTransaction(line, reply') /\ Greeted(line, reply')
  BY <1>1 DEF EndsTransaction, Greeted
<1>3. /\ view'.sender = NoName /\ view'.rcpts = <<>> /\ view'.lines = 0 /\ view'.proven = FALSE
      /\ view'.mech = "none" /\ view'.name = NoName
  BY <1>1, <1>2, ObservedFields DEF SessionInv, ExchangeKnown
<1>4. /\ recipients' \in Seq(Users) /\ Len(recipients') <= MaxRcpts /\ body' \in 0..MaxLines
  BY <1>1, SessionAssumption
<1>5. EnvelopeAgreed' /\ OnlyAuthenticated' /\ LoginNameAgreed' /\ NothingLeftOver' /\ ExchangeKnown'
  BY <1>1, <1>3 DEF EnvelopeAgreed, OnlyAuthenticated, LoginNameAgreed, NothingLeftOver, ExchangeKnown, Transaction
<1> QED BY <1>1, <1>4, <1>5, AcceptInv DEF States, Names, SessionInv, TypeOK

(* MAIL opens a transaction with an empty envelope on both sides.           *)
LEMMA MailInv ==
  ASSUME SessionInv, NEW line \in Lines, conn = "open",
         state \in {"WAIT_HELO", "WAIT_MAIL", "WAIT_RCPT"}, HandleMail(line), view' = Observed(line, reply')
  PROVE  SessionInv'
<1>0. CASE Refuse("503") \/ Refuse("530")
  <2>1. CASE Refuse("503")
    BY <2>1, RefuseInv DEF Refuse, Answer
  <2>2. CASE Refuse("530")
    BY <2>2, RefuseInv DEF Refuse, Answer
  <2> QED BY <1>0, <2>1, <2>2
<1>1. CASE /\ state = "WAIT_MAIL" /\ authenticated /\ line.cmd = "MAIL"
           /\ sender' = line.arg.user
           /\ state' = "WAIT_RCPT"
           /\ Answer("250")
           /\ UNCHANGED <<authenticated, authUser, recipients, body>>
  <2>1. EndsTransaction(line, reply') /\ ~Greeted(line, reply') /\ reply' = "250" /\ UNCHANGED <<secure, conn>>
    BY <1>1 DEF EndsTransaction, Greeted, Answer
  <2>2. /\ view'.sender = line.arg.user /\ view'.rcpts = <<>> /\ view'.lines = 0
        /\ view'.proven = view.proven /\ view'.mech = "none" /\ view'.name = NoName
    BY <1>1, <2>1, ObservedFields DEF SessionInv, ExchangeKnown, TypeOK
  <2>3. line.arg.user \in Users
    BY <1>1, LineTypes
  <2>4. EnvelopeAgreed' /\ OnlyAuthenticated' /\ LoginNameAgreed' /\ NothingLeftOver' /\ ExchangeKnown'
    BY <1>1, <2>1, <2>2 DEF SessionInv, EnvelopeAgreed, OnlyAuthenticated, LoginNameAgreed, NothingLeftOver,
       ExchangeKnown, Transaction
  <2> QED BY <1>1, <2>1, <2>3, <2>4, AcceptInv DEF States, SessionInv, TypeOK
<1> QED BY <1>0, <1>1 DEF HandleMail

(* RCPT adds the recipient on both sides.                                   *)
LEMMA RcptInv ==
  ASSUME SessionInv, NEW line \in Lines, conn = "open",
         state \in {"WAIT_HELO", "WAIT_MAIL", "WAIT_RCPT"}, HandleRcpt(line), view' = Observed(line, reply')
  PROVE  SessionInv'
<1>0. CASE Refuse("503")
  BY <1>0, RefuseInv DEF Refuse, Answer
<1>1. CASE /\ state = "WAIT_RCPT" /\ Len(recipients) < MaxRcpts /\ line.cmd = "RCPT"
           /\ recipients' = Append(recipients, line.arg.user)
           /\ Answer("250")
           /\ UNCHANGED <<state, authenticated, authUser, sender, body>>
  <2>1. ~EndsTransaction(line, reply') /\ ~Greeted(line, reply') /\ reply' = "250" /\ UNCHANGED <<secure, conn>>
    BY <1>1 DEF EndsTransaction, Greeted, Answer
  <2>2. /\ view'.sender = view.sender /\ view'.rcpts = Append(view.rcpts, line.arg.user) /\ view'.lines = view.lines
        /\ view'.proven = view.proven /\ view'.mech = "none" /\ view'.name = NoName
    BY <1>1, <2>1, ObservedFields DEF SessionInv, ExchangeKnown, TypeOK
  <2>3. line.arg.user \in Users
    BY <1>1, LineTypes
  <2>4. recipients' \in Seq(Users) /\ Len(recipients') <= MaxRcpts
    BY <1>1, <2>3, SessionAssumption DEF SessionInv, TypeOK
  <2>5. EnvelopeAgreed' /\ OnlyAuthenticated' /\ LoginNameAgreed' /\ NothingLeftOver' /\ ExchangeKnown'
    BY <1>1, <2>1, <2>2 DEF SessionInv, EnvelopeAgreed, OnlyAuthenticated, LoginNameAgreed, NothingLeftOver,
       ExchangeKnown, Transaction
  <2> QED BY <1>1, <2>1, <2>4, <2>5, AcceptInv DEF States, SessionInv, TypeOK
<1> QED BY <1>0, <1>1 DEF HandleRcpt

(* DATA goes on with the envelope both sides have.                          *)
LEMMA DataInv ==
  ASSUME SessionInv, NEW line \in Lines, conn = "open",
         state \in {"WAIT_HELO", "WAIT_MAIL", "WAIT_RCPT"}, HandleData(line), view' = Observed(line, reply')
  PROVE  SessionInv'
<1>0. CASE Refuse("503")
  BY <1>0, RefuseInv DEF Refuse, Answer
<1>1. CASE /\ state = "WAIT_RCPT" /\ recipients # <<>> /\ line.cmd = "DATA"
           /\ state' = "RECEIVING_DATA"
           /\ Answer("354")
           /\ UNCHANGED <<authenticated, authUser>> /\ MessageUnchanged
  <2>1. /\ ~EndsTransaction(line, reply') /\ ~Greeted(line, reply') /\ reply' = "354"
        /\ UNCHANGED <<secure, conn, sender, recipients, body>>
    BY <1>1 DEF EndsTransaction, Greeted, Answer, MessageUnchanged
  <2>a. view.mech = "none" /\ view.name = NoName /\ view.proven \in BOOLEAN
    BY <1>1 DEF SessionInv, ExchangeKnown, TypeOK
  <2>b. view' = Observed(line, "354")
    BY <2>1
  <2>2. /\ view'.sender = view.sender /\ view'.rcpts = view.rcpts /\ view'.lines = view.lines
        /\ view'.proven = view.proven /\ view'.mech = "none" /\ view'.name = NoName
    BY <2>1, <2>a, <2>b DEF Observed, EndsTransaction, Greeted
  <2>3. EnvelopeAgreed' /\ OnlyAuthenticated' /\ LoginNameAgreed' /\ NothingLeftOver' /\ ExchangeKnown'
    BY <1>1, <2>1, <2>2 DEF SessionInv, EnvelopeAgreed, OnlyAuthenticated, LoginNameAgreed, NothingLeftOver,
       ExchangeKnown, Transaction
  <2> QED BY <1>1, <2>1, <2>3, AcceptInv DEF States, SessionInv, TypeOK
<1> QED BY <1>0, <1>1 DEF HandleData

(* RSET forgets the mail on both sides and keeps the authentication.        *)
LEMMA RsetInv ==
  ASSUME SessionInv, NEW line \in Lines, conn = "open",
         state \in {"WAIT_HELO", "WAIT_MAIL", "WAIT_RCPT"}, HandleRset(line), view' = Observed(line, reply')
  PROVE  SessionInv'
<1>1. /\ state' = "WAIT_MAIL" /\ sender' = NoName /\ recipients' = <<>> /\ body' = 0
      /\ UNCHANGED <<authenticated, authUser, secure, conn>> /\ reply' = "250" /\ line.cmd = "RSET"
  BY DEF HandleRset, ResetMessage, Answer
<1>2. EndsTransaction(line, reply') /\ ~Greeted(line, reply')
  BY <1>1 DEF EndsTransaction, Greeted
<1>3. /\ view'.sender = NoName /\ view'.rcpts = <<>> /\ view'.lines = 0 /\ view'.proven = view.proven
      /\ view'.mech = "none" /\ view'.name = NoName
  BY <1>1, <1>2, ObservedFields DEF SessionInv, ExchangeKnown, TypeOK
<1>4. /\ recipients' \in Seq(Users) /\ Len(recipients') <= MaxRcpts /\ body' \in 0..MaxLines
  BY <1>1, SessionAssumption
<1>5. EnvelopeAgreed' /\ OnlyAuthenticated' /\ LoginNameAgreed' /\ NothingLeftOver' /\ ExchangeKnown'
  BY <1>1, <1>3 DEF SessionInv, EnvelopeAgreed, OnlyAuthenticated, LoginNameAgreed, NothingLeftOver,
       ExchangeKnown, Transaction
<1> QED BY <1>1, <1>4, <1>5, AcceptInv DEF States, SessionInv, TypeOK

(* STARTTLS is accepted between mails only.                                 *)
LEMMA StartTLSInv ==
  ASSUME SessionInv, NEW line \in Lines, conn = "open",
         state \in {"WAIT_HELO", "WAIT_MAIL", "WAIT_RCPT"}, HandleStartTLS(line), view' = Observed(line, reply')
  PROVE  SessionInv'
<1>0. CASE Refuse("503")
  BY <1>0, RefuseInv DEF Refuse, Answer
<1>1. CASE /\ state = "WAIT_MAIL" /\ line.cmd = "STARTTLS"
           /\ state' = "STARTTLS"
           /\ Answer("220")
           /\ UNCHANGED <<authenticated, authUser>> /\ MessageUnchanged
  <2>1. /\ ~EndsTransaction(line, reply') /\ ~Greeted(line, reply') /\ reply' = "220"
        /\ UNCHANGED <<secure, conn, sender, recipients, body>>
    BY <1>1 DEF EndsTransaction, Greeted, Answer, MessageUnchanged
  <2>a. view.mech = "none" /\ view.name = NoName /\ view.proven \in BOOLEAN
    BY <1>1 DEF SessionInv, ExchangeKnown, TypeOK
  <2>b. view' = Observed(line, "220")
    BY <2>1
  <2>2. /\ view'.sender = view.sender /\ view'.rcpts = view.rcpts /\ view'.lines = view.lines
        /\ view'.proven = view.proven /\ view'.mech = "none" /\ view'.name = NoName
    BY <2>1, <2>a, <2>b DEF Observed, EndsTransaction, Greeted
  <2>3. EnvelopeAgreed' /\ OnlyAuthenticated' /\ LoginNameAgreed' /\ NothingLeftOver' /\ ExchangeKnown'
    BY <1>1, <2>1, <2>2 DEF SessionInv, EnvelopeAgreed, OnlyAuthenticated, LoginNameAgreed, NothingLeftOver,
       ExchangeKnown, Transaction
  <2> QED BY <1>1, <2>1, <2>3, AcceptInv DEF States, SessionInv, TypeOK
<1> QED BY <1>0, <1>1 DEF HandleStartTLS

-----------------------------------------------------------------------------
(* An exception closes the connection and leaves the session as it was.     *)
LEMMA ThrowInv ==
  ASSUME SessionInv, Throw, view' = view
  PROVE  SessionInv'
  BY ClosedInv DEF Throw, session

(* The verdict on a password: 235 makes both sides authenticated.           *)
LEMMA VerdictInv ==
  ASSUME SessionInv, NEW line \in Lines, conn = "open", NEW right \in BOOLEAN, Authorize(right),
         state \in {"WAIT_MAIL", "AUTH_WAIT_PASS"}, ~authenticated, secure,
         state' = "WAIT_MAIL", authUser' = NoName, MessageUnchanged,
         line.cmd \notin {"HELO", "EHLO"},
         view' = Observed(line, reply')
  PROVE  SessionInv'
<1>a. UNCHANGED <<secure, conn, sender, recipients, body>>
  BY DEF Authorize, Answer, MessageUnchanged
<1>b. \/ reply' = "235" /\ authenticated' = TRUE
      \/ reply' = "535" /\ authenticated' = authenticated
  BY DEF Authorize, Answer
<1>c. authenticated = FALSE
  BY DEF SessionInv, TypeOK
<1>1. /\ UNCHANGED <<secure, conn, sender, recipients, body>>
      /\ reply' \in {"235", "535"}
      /\ authenticated' = (reply' = "235")
  BY <1>a, <1>b, <1>c
<1>2. ~view.proven
  BY DEF SessionInv, OnlyAuthenticated, TypeOK
<1>3. /\ view'.sender = view.sender /\ view'.rcpts = view.rcpts /\ view'.lines = view.lines
      /\ view'.proven = (reply' = "235") /\ view'.mech = "none" /\ view'.name = NoName
  BY <1>1, <1>2 DEF Observed, EndsTransaction, Greeted
<1>4. EnvelopeAgreed' /\ OnlyAuthenticated' /\ LoginNameAgreed' /\ NothingLeftOver' /\ ExchangeKnown'
  BY <1>1, <1>3 DEF SessionInv, EnvelopeAgreed, OnlyAuthenticated, LoginNameAgreed, NothingLeftOver,
       ExchangeKnown, Transaction
<1>5. authenticated' \in BOOLEAN
  BY <1>1
<1> QED BY <1>1, <1>4, <1>5, AcceptInv DEF States, Names, SessionInv, TypeOK

(* A challenge leads into the exchange the client has asked for.            *)
LEMMA ChallengeInv ==
  ASSUME SessionInv, NEW line \in Lines, conn = "open", state = "WAIT_MAIL", ~authenticated, secure,
         \/ line.cmd = "AUTH LOGIN" /\ state' = "AUTH_WAIT_USER"
         \/ line.cmd = "AUTH PLAIN" /\ state' = "AUTH_WAIT_PASS",
         Answer("334"), UNCHANGED <<authenticated, authUser>>, MessageUnchanged,
         view' = Observed(line, reply')
  PROVE  SessionInv'
<1>1. UNCHANGED <<secure, conn, sender, recipients, body>> /\ reply' = "334"
  BY DEF Answer, MessageUnchanged
<1>2. view.mech = "none" /\ view.name = NoName /\ view.proven = FALSE /\ authUser = NoName
  BY DEF SessionInv, ExchangeKnown, OnlyAuthenticated, LoginNameAgreed, TypeOK
<1>3. /\ view'.sender = view.sender /\ view'.rcpts = view.rcpts /\ view'.lines = view.lines
      /\ view'.proven = FALSE /\ view'.name = NoName
      /\ view'.mech = IF line.cmd = "AUTH LOGIN" THEN "LOGIN" ELSE "PLAIN"
  BY <1>1, <1>2 DEF Observed, EndsTransaction, Greeted
<1>4. EnvelopeAgreed' /\ OnlyAuthenticated' /\ LoginNameAgreed' /\ NothingLeftOver' /\ ExchangeKnown'
  BY <1>1, <1>2, <1>3 DEF SessionInv, EnvelopeAgreed, OnlyAuthenticated, LoginNameAgreed, NothingLeftOver,
       ExchangeKnown, Transaction
<1> QED BY <1>1, <1>4, AcceptInv DEF States, SessionInv, TypeOK

(* AUTH: refused, a challenge, an exception, or a verdict at once.          *)
LEMMA AuthInv ==
  ASSUME SessionInv, NEW line \in Lines, conn = "open",
         state \in {"WAIT_HELO", "WAIT_MAIL", "WAIT_RCPT"}, HandleAuth(line),
         view' = IF conn' = "open" THEN Observed(line, reply') ELSE view
  PROVE  SessionInv'
<1>1. ASSUME NEW code \in {"503", "504", "538"}, Refuse(code) PROVE SessionInv'
  <2>1. view' = Observed(line, code)
    BY <1>1 DEF Refuse, Answer
  <2> QED BY <1>1, <2>1, RefuseInv
<1>2. CASE /\ state = "WAIT_MAIL" /\ ~authenticated /\ secure
           /\ \/ line.cmd = "AUTH LOGIN" /\ state' = "AUTH_WAIT_USER"
              \/ line.cmd = "AUTH PLAIN" /\ state' = "AUTH_WAIT_PASS"
           /\ Answer("334") /\ UNCHANGED <<authenticated, authUser>> /\ MessageUnchanged
  <2>1. view' = Observed(line, reply')
    BY <1>2 DEF Answer
  <2> QED BY <1>2, <2>1, ChallengeInv
<1>3. CASE Throw
  <2>1. view' = view
    BY <1>3 DEF Throw
  <2> QED BY <1>3, <2>1, ThrowInv
<1>4. CASE /\ state = "WAIT_MAIL" /\ ~authenticated /\ secure /\ line.cmd = "AUTH PLAIN"
           /\ Authorize(line.arg.kind = "credentials")
           /\ UNCHANGED <<state, authUser>> /\ MessageUnchanged
  <2>1. view' = Observed(line, reply')
    BY <1>4 DEF Authorize, Answer
  <2>2. authUser' = NoName
    BY <1>4 DEF SessionInv, LoginNameAgreed
  <2>3. (line.arg.kind = "credentials") \in BOOLEAN
    OBVIOUS
  <2> QED BY <1>4, <2>1, <2>2, <2>3, VerdictInv
<1> QED BY <1>1, <1>2, <1>3, <1>4 DEF HandleAuth

(* The lines of an AUTH exchange. A line that decodes is no greeting, so    *)
(* it cannot be taken for one.                                              *)
LEMMA AuthLineInv ==
  ASSUME SessionInv, NEW line \in Lines, conn = "open",
         state \in {"AUTH_WAIT_USER", "AUTH_WAIT_PASS"}, HandleAuthLine(line),
         view' = IF conn' = "open" THEN Observed(line, reply') ELSE view
  PROVE  SessionInv'
<1>1. CASE Throw
  <2>1. view' = view
    BY <1>1 DEF Throw
  <2> QED BY <1>1, <2>1, ThrowInv
<1>2. ASSUME DecodeBase64(line) # Invalid
      PROVE  line.cmd \in Bare \cup {"base64"}
  BY <1>2 DEF DecodeBase64
<1>3. CASE DecodeBase64(line) # Invalid /\ AuthUser(line)
  <2>1. /\ state = "AUTH_WAIT_USER" /\ state' = "AUTH_WAIT_PASS" /\ reply' = "334"
        /\ authUser' = ExtractUsername(DecodeBase64(line))
        /\ UNCHANGED <<authenticated, secure, conn, sender, recipients, body>>
    BY <1>3 DEF AuthUser, Answer, MessageUnchanged
  <2>2. view.mech = "LOGIN" /\ view.name = NoName /\ view.proven \in BOOLEAN
    BY <2>1 DEF SessionInv, ExchangeKnown, TypeOK
  <2>3. view' = Observed(line, "334") /\ line.cmd \in Bare \cup {"base64"}
    BY <1>2, <1>3, <2>1
  <2>a. ~EndsTransaction(line, "334") /\ ~Greeted(line, "334") /\ line.cmd \notin {"AUTH LOGIN", "AUTH PLAIN"}
    BY <2>3 DEF EndsTransaction, Greeted, Bare
  <2>b. view'.proven = view.proven
    BY <2>2, <2>3, <2>a, ProvenKept
  <2>4. /\ view'.sender = view.sender /\ view'.rcpts = view.rcpts /\ view'.lines = view.lines
        /\ view'.mech = "LOGIN"
        /\ view'.name = ExtractUsername(DecodeBase64(line))
    <3>1. view' = Observed(line, reply') /\ ~EndsTransaction(line, reply') /\ reply' = "334"
      BY <2>1, <2>3, <2>a
    <3> QED BY <2>2, <2>3, <2>a, <3>1, ObservedFields DEF Bare
  <2>5. ExtractUsername(DecodeBase64(line)) \in Names
    BY LineTypes
  <2>6. EnvelopeAgreed' /\ OnlyAuthenticated' /\ LoginNameAgreed' /\ NothingLeftOver' /\ ExchangeKnown'
    BY <2>1, <2>2, <2>4, <2>b DEF SessionInv, EnvelopeAgreed, OnlyAuthenticated, LoginNameAgreed, NothingLeftOver,
       ExchangeKnown, Transaction
  <2> QED BY <2>1, <2>3, <2>5, <2>6, AcceptInv DEF States, SessionInv, TypeOK
<1>4. CASE DecodeBase64(line) # Invalid /\ AuthPass(line)
  <2> DEFINE right == IF authUser = NoName THEN DecodeBase64(line).kind = "credentials"
                      ELSE DecodeBase64(line).kind = "password" /\ DecodeBase64(line).user = authUser
  <2>1. /\ Authorize(right) /\ state = "AUTH_WAIT_PASS" /\ state' = "WAIT_MAIL" /\ authUser' = NoName
        /\ MessageUnchanged
    BY <1>4 DEF AuthPass
  <2>2. right \in BOOLEAN
    OBVIOUS
  <2>3. ~authenticated /\ secure
    BY <2>1 DEF SessionInv, ExchangeKnown
  <2>4. line.cmd \notin {"HELO", "EHLO"}
    BY <1>2, <1>4 DEF Bare
  <2>5. view' = Observed(line, reply')
    BY <2>1 DEF Authorize, Answer
  <2> HIDE DEF right
  <2> QED BY <2>1, <2>2, <2>3, <2>4, <2>5, VerdictInv
<1> QED BY <1>1, <1>3, <1>4 DEF HandleAuthLine

(* The lines of a mail, up to the final dot or the size limit.              *)
LEMMA DataLineInv ==
  ASSUME SessionInv, NEW line \in Lines, conn = "open", state = "RECEIVING_DATA", DataLine(line),
         view' = IF conn' = "open" THEN Observed(line, reply') ELSE view
  PROVE  SessionInv'
<1>1. view.mech = "none" /\ view.name = NoName /\ view.proven \in BOOLEAN /\ view.lines \in Nat
  BY DEF SessionInv, ExchangeKnown, TypeOK
<1>2. CASE \/ line.cmd = "." /\ EndOfData
           \/ line.cmd # "." /\ TooLarge
  <2>1. /\ state' = "WAIT_MAIL" /\ sender' = NoName /\ recipients' = <<>> /\ body' = 0
        /\ UNCHANGED <<authenticated, authUser, secure, conn>>
        /\ \/ line.cmd = "." /\ reply' \in {"250", "452"}
           \/ reply' = "552"
    BY <1>2 DEF EndOfData, TooLarge, ResetMessage, Answer
  <2>2. view' = Observed(line, reply') /\ EndsTransaction(line, reply') /\ ~Greeted(line, reply')
    BY <2>1 DEF EndsTransaction, Greeted
  <2>a. view'.proven = view.proven
    BY <1>1, <2>1, <2>2, ProvenKept
  <2>b. view'.sender = NoName /\ view'.rcpts = <<>> /\ view'.lines = 0 /\ view'.mech = "none" /\ view'.name = NoName
    BY <1>1, <2>1, <2>2, ObservedFields
  <2>3. /\ view'.sender = NoName /\ view'.rcpts = <<>> /\ view'.lines = 0 /\ view'.proven = view.proven
        /\ view'.mech = "none" /\ view'.name = NoName
    BY <2>a, <2>b
  <2>4. /\ recipients' \in Seq(Users) /\ Len(recipients') <= MaxRcpts /\ body' \in 0..MaxLines
    BY <2>1, SessionAssumption
  <2>5. EnvelopeAgreed' /\ OnlyAuthenticated' /\ LoginNameAgreed' /\ NothingLeftOver' /\ ExchangeKnown'
    BY <2>1, <2>3 DEF SessionInv, EnvelopeAgreed, OnlyAuthenticated, LoginNameAgreed, NothingLeftOver,
       ExchangeKnown, Transaction
  <2> QED BY <2>1, <2>2, <2>4, <2>5, AcceptInv DEF States, SessionInv, TypeOK
<1>3. CASE BodyLine
  <2>1. /\ body < MaxLines /\ body' = body + 1 /\ reply' = "none"
        /\ UNCHANGED <<state, authenticated, authUser, sender, recipients, secure, conn>>
    BY <1>3 DEF BodyLine, Answer
  <2>2. view' = Observed(line, "none")
    BY <2>1
  <2>a. ~EndsTransaction(line, "none") /\ ~Greeted(line, "none")
    BY DEF EndsTransaction, Greeted
  <2>b. view'.proven = view.proven
    BY <1>1, <2>2, <2>a, ProvenKept
  <2>c. /\ view'.sender = view.sender /\ view'.rcpts = view.rcpts /\ view'.lines = view.lines + 1
        /\ view'.mech = "none" /\ view'.name = NoName
    <3>1. view' = Observed(line, reply') /\ ~EndsTransaction(line, reply') /\ reply' = "none"
      BY <2>1, <2>2, <2>a
    <3> QED BY <1>1, <3>1, ObservedFields
  <2>3. /\ view'.sender = view.sender /\ view'.rcpts = view.rcpts /\ view'.lines = view.lines + 1
        /\ view'.proven = view.proven /\ view'.mech = "none" /\ view'.name = NoName
    BY <2>b, <2>c
  <2>4. body' \in 0..MaxLines
    BY <2>1, SessionAssumption DEF SessionInv, TypeOK
  <2>5. EnvelopeAgreed' /\ OnlyAuthenticated' /\ LoginNameAgreed' /\ NothingLeftOver' /\ ExchangeKnown'
    BY <2>1, <2>3 DEF SessionInv, EnvelopeAgreed, OnlyAuthenticated, LoginNameAgreed, NothingLeftOver,
       ExchangeKnown, Transaction
  <2> QED BY <2>1, <2>2, <2>4, <2>5, AcceptInv DEF SessionInv, TypeOK
<1> QED BY <1>2, <1>3 DEF DataLine

-----------------------------------------------------------------------------
(* Every line the loop receives preserves the invariant.                    *)
LEMMA ReceiveInv ==
  ASSUME SessionInv, NEW line \in Lines, Receive(line)
  PROVE  SessionInv'
<1>1. /\ conn = "open" /\ ProcessLine(line)
      /\ view' = IF conn' = "open" THEN Observed(line, reply') ELSE view
  BY DEF Receive
<1>2. ASSUME NEW code \in {"250", "500", "502"}, Refuse(code), code = "250" => line.cmd = "NOOP" PROVE SessionInv'
  <2>1. view' = Observed(line, code)
    BY <1>1, <1>2 DEF Refuse, Answer
  <2> QED BY <1>1, <1>2, <2>1, RefuseInv
<1>3. CASE line.cmd = "long" /\ Refuse("500")
  BY <1>2, <1>3
<1>4. CASE state \in {"AUTH_WAIT_USER", "AUTH_WAIT_PASS"} /\ HandleAuthLine(line)
  BY <1>1, <1>4, AuthLineInv
<1>5. CASE state = "RECEIVING_DATA" /\ DataLine(line)
  BY <1>1, <1>5, DataLineInv
<1>6. CASE state \in {"WAIT_HELO", "WAIT_MAIL", "WAIT_RCPT"} /\ Command(line)
  <2>1. CASE HandleAuth(line)
    BY <1>1, <1>6, <2>1, AuthInv
  <2>2. CASE HandleNoop(line)
    BY <1>2, <2>2 DEF HandleNoop
  <2>3. CASE Unknown(line)
    BY <1>2, <2>3 DEF Unknown
  <2>4. CASE HandleQuit(line)
    <3>1. /\ conn' = "closed" /\ state' = "CLOSED"
          /\ UNCHANGED <<authenticated, authUser, sender, recipients, body, secure>>
      BY <2>4 DEF HandleQuit, MessageUnchanged
    <3>2. view' = view
      BY <1>1, <3>1
    <3> QED BY <3>1, <3>2, ClosedInv
  <2>5. ASSUME conn' = "open" PROVE view' = Observed(line, reply')
    BY <1>1, <2>5
  <2>6. CASE HandleHelo(line)
    BY <1>1, <1>6, <2>5, <2>6, HeloInv DEF HandleHelo, Answer
  <2>7. CASE HandleMail(line)
    BY <1>1, <1>6, <2>5, <2>7, MailInv DEF HandleMail, Refuse, Answer
  <2>8. CASE HandleRcpt(line)
    BY <1>1, <1>6, <2>5, <2>8, RcptInv DEF HandleRcpt, Refuse, Answer
  <2>9. CASE HandleData(line)
    BY <1>1, <1>6, <2>5, <2>9, DataInv DEF HandleData, Refuse, Answer
  <2>10. CASE HandleRset(line)
    BY <1>1, <1>6, <2>5, <2>10, RsetInv DEF HandleRset, Answer
  <2>11. CASE HandleStartTLS(line)
    BY <1>1, <1>6, <2>5, <2>11, StartTLSInv DEF HandleStartTLS, Refuse, Answer
  <2> QED BY <1>6, <2>1, <2>2, <2>3, <2>4, <2>6, <2>7, <2>8, <2>9, <2>10, <2>11 DEF Command
<1> QED BY <1>1, <1>3, <1>4, <1>5, <1>6 DEF ProcessLine

(* The handshake begins anew on both sides.                                 *)
LEMMA HandshakeInv ==
  ASSUME SessionInv, Handshake
  PROVE  SessionInv'
<1>1. /\ state' = "WAIT_HELO" /\ secure' = TRUE /\ conn' = "open" /\ authenticated' = FALSE /\ authUser' = NoName
      /\ sender' = NoName /\ recipients' = <<>> /\ body' = 0 /\ view' = NoView
  BY DEF Handshake, ResetToHelo, ResetMessage
<1>2. <<>> \in Seq(Users) /\ Len(<<>>) = 0
  OBVIOUS
<1>3. view' \in Views
  BY <1>1, <1>2 DEF NoView, Views, Names
<1>a. recipients' \in Seq(Users) /\ Len(recipients') <= MaxRcpts /\ body' \in 0..MaxLines
  BY <1>1, <1>2, SessionAssumption
<1>4. TypeOK'
  BY <1>1, <1>3, <1>a DEF TypeOK, States, Names, Views
<1>5. EnvelopeAgreed' /\ OnlyAuthenticated' /\ LoginNameAgreed'
  BY <1>1 DEF NoView, EnvelopeAgreed, OnlyAuthenticated, LoginNameAgreed, Transaction
<1>6. NothingLeftOver' /\ ExchangeKnown'
  BY <1>1 DEF NoView, NothingLeftOver, ExchangeKnown, Transaction
<1> QED BY <1>4, <1>5, <1>6 DEF SessionInv

(* The invariant is inductive.                                              *)
LEMMA StepInv == SessionInv /\ [Next]_vars => SessionInv'
<1> SUFFICES ASSUME SessionInv, [Next]_vars PROVE SessionInv'
  OBVIOUS
<1>1. ASSUME NEW line \in Lines, Receive(line) PROVE SessionInv'
  BY <1>1, ReceiveInv
<1>2. CASE Handshake
  BY <1>2, HandshakeInv
<1>3. CASE Disconnect
  BY <1>3, ClosedInv DEF Disconnect, session
<1>4. CASE UNCHANGED vars
  BY <1>4 DEF vars, session, SessionInv, TypeOK, EnvelopeAgreed, OnlyAuthenticated, LoginNameAgreed, NothingLeftOver,
     ExchangeKnown
<1> QED BY <1>1, <1>2, <1>3, <1>4 DEF Next

(* Every reachable state satisfies it.                                      *)
LEMMA Invariance == Spec => []SessionInv
  BY InitInv, StepInv, PTL DEF Spec

(* Types hold, the body limit and the recipient bound among them.           *)
THEOREM SessionTypes == Spec => []TypeOK
<1>1. SessionInv => TypeOK
  BY DEF SessionInv
<1> QED BY <1>1, Invariance, PTL

(* For any accounts, number of recipients and size limit, SaveMessage gets  *)
(* exactly the envelope and body the client was told of.                    *)
THEOREM MailIsWhatWasAgreed == Spec => []EnvelopeAgreed
<1>1. SessionInv => EnvelopeAgreed
  BY DEF SessionInv
<1> QED BY <1>1, Invariance, PTL

(* MAIL, RCPT and DATA get nowhere without AUTH over the secure channel     *)
(* since the last greeting.                                                 *)
THEOREM MailNeedsAuthentication == Spec => []OnlyAuthenticated
<1>1. SessionInv => OnlyAuthenticated
  BY DEF SessionInv
<1> QED BY <1>1, Invariance, PTL

(* m_auth_username is the name of the LOGIN exchange under way, and empty   *)
(* at any other time.                                                       *)
THEOREM LoginNamesNeverMix == Spec => []LoginNameAgreed
<1>1. SessionInv => LoginNameAgreed
  BY DEF SessionInv
<1> QED BY <1>1, Invariance, PTL
=============================================================================
