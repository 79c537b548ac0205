---------------------------- MODULE MCRefreshWindow ----------------------------
(***************************************************************************)
(* RefreshTokens with five tabs, along one family of schedules: the others *)
(* of its size are far too many to search.                                 *)
(***************************************************************************)
EXTENDS RefreshTokens

Done(b) == pc[b] \in Ended

(* Three tabs present the login's token to three processes, the last of    *)
(* which waits for everybody else; two more present the first one's token. *)
(* Nothing fails, nobody signs out, and only the first answer has landed.  *)
Schedule ==
  /\ mishaps \subseteq {"overlap", "overtaken"} /\ pc[SignOut] = "idle"
  /\ \A b \in Tabs : host[b] \in {Nobody, IF b <= 3 THEN b ELSE b - 3}
  /\ \A b \in 4..5 : tab[b] # "idle" => key[b] = 1
  /\ \A b \in Tabs : tab[b] = "answered" => b = 1
  /\ pc[3] \in {"idle", "sent"} \/ \A b \in Tabs \ {3} : Done(b)
=============================================================================
