--------------------------- MODULE MCImapSession ----------------------------
(***************************************************************************)
(* Either one session alone, with every event, or two sessions that share  *)
(* two workers and one database connection. s1 may go secure, s2 stays     *)
(* plain: one worker is always left for tasks that wait for no client. In  *)
(* the shared case no client closes and s2 is not slow.                    *)
(***************************************************************************)
EXTENDS ImapSession, TLC

CONSTANTS s1, s2, w1, w2

VARIABLE shared

MCScripts ==
  (s1 :> {<<"starttls", "cmd">>, <<"bad", "starttls">>, <<"starttls", "starttls">>, <<"logout">>})
  @@ (s2 :> {<<"cmd">>, <<"logout">>})

(* A client that is gone at once.                                           *)
Absent == [Start(<<"cmd">>) EXCEPT !.peer = FALSE, !.strand = <<>>]

MCInit ==
  /\ shared \in BOOLEAN
  /\ tasks = <<>>
  /\ job = [w \in Threads |-> NoTask]
  /\ PoolInit
  /\ IF shared
     THEN ses = (s1 :> Start(<<"starttls", "cmd">>)) @@ (s2 :> Start(<<"cmd">>))
     ELSE \E x \in Scripts[s1] : ses = (s1 :> Start(x)) @@ (s2 :> Absent)

MCNext ==
  /\ Next
  /\ shared => /\ \A s \in Sessions : ~ClientCloses(s)
               /\ ses[s2].taken = 0 => ~TimerExpires(s2)
  /\ UNCHANGED shared

MCSpec == MCInit /\ [][MCNext]_<<vars, shared>> /\ Fairness
=============================================================================
