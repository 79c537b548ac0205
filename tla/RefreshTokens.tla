--------------------------- MODULE RefreshTokens ----------------------------
(***************************************************************************)
(* One signed-in session and the browser tabs that live on it: the cookie  *)
(* the tabs share, the web server processes that renew it for them, each   *)
(* answering the same cookie from memory                                   *)
(* (apps/web/src/lib/server/auth.ts), and the identity service that        *)
(* rotates the refresh token, tolerates the one before it for a short      *)
(* while, and revokes the session when an older one turns up               *)
(* (services/identity/src/identity/features/auth/service.py, sessions/).   *)
(* A renewal is one transaction at READ COMMITTED, and a sign-out another. *)
(***************************************************************************)
EXTENDS Integers, FiniteSets

CONSTANTS
  TabCount,   \* tabs, each of which asks once for a fresh token
  SignOut,    \* the request that signs the session out
  Login,      \* the token the login gave
  ProcessCount,  \* processes of the web server
  Nobody,
  Grace,      \* REFRESH_REUSE_GRACE_SECONDS, in ticks
  Lifetime,   \* REFRESH_TOKEN_EXPIRE_DAYS, in ticks
  MaxTime     \* bound of the run: where the clock stops

(* Tabs are numbered in the order they ask, and processes in the order     *)
(* they are first asked.                                                   *)
Tabs == 1..TabCount
Processes == 1..ProcessCount

ASSUME TokenNamesAssumption ==
  /\ TabCount \in Nat /\ ProcessCount \in Nat
  /\ SignOut \notin Tabs /\ Login \notin Tabs
  /\ Nobody \notin Tabs \cup Processes \cup {SignOut, Login}
ASSUME TokenTimesAssumption ==
  Grace \in Nat /\ Lifetime \in Nat /\ MaxTime \in Nat

(* A token is known by the tab whose renewal minted it.                    *)
Tokens == Tabs \cup {Login}
Requests == Tabs \cup {SignOut}
Row == [status : {"active", "revoked"}, current : Tokens,
        previous : Tokens \cup {Nobody}, until : Nat, expires : Nat]

VARIABLES
  clock,    \* in ticks
  row,      \* the committed row of the session
  locker,   \* who holds its row lock
  cookie,   \* of the browser: a token, or Nobody
  memo,     \* whose renewal each process remembers for a token
  tab,      \* of each tab: idle, waiting, answered
  key,      \* the token it presented
  flight,   \* the renewal its process answers it from
  host,     \* the process that serves it
  pc,       \* of each request to the identity service
  seen,     \* the row it decided by, and when
  fresh,    \* the row as its update found it
  outcome,  \* what its process knows of a renewal
  mishaps   \* what has gone wrong on the way

serverVars == <<row, locker, pc, seen, fresh>>
browserVars == <<cookie, memo, tab, key, flight, host>>
vars == <<clock, serverVars, browserVars, outcome, mishaps>>

FirstRow == [status |-> "active", current |-> Login, previous |-> Nobody,
             until |-> 0, expires |-> Lifetime]
Unread == [row |-> FirstRow, now |-> 0]

Init ==
  /\ clock = 0
  /\ row = FirstRow
  /\ locker = Nobody
  /\ cookie = Login
  /\ memo = [p \in Processes |-> [t \in Tokens |-> Nobody]]
  /\ tab = [b \in Tabs |-> "idle"]
  /\ key = [b \in Tabs |-> Login]
  /\ flight = [b \in Tabs |-> Nobody]
  /\ host = [b \in Tabs |-> Nobody]
  /\ pc = [r \in Requests |-> "idle"]
  /\ seen = [b \in Tabs |-> Unread]
  /\ fresh = [b \in Tabs |-> FirstRow]
  /\ outcome = [b \in Tabs |-> "none"]
  /\ mishaps = {}

-----------------------------------------------------------------------------
(* The web server: rotateRefreshToken answers a token it has presented     *)
(* before from memory, while the renewal is in flight and ever after.      *)

Ended == {"accepted", "refused", "mistrusted", "lost", "ended"}
Open == {r \in Requests : pc[r] \notin Ended \cup {"idle"}}

(* Bound: the sign-out stands in for the last tab.                         *)
LastTab(b) == b = TabCount => pc[SignOut] = "idle"

(* Fault variant: the entry is evicted once the renewal has settled.       *)
Remembered_Evicted(p, t) ==
  LET b == memo[p][t]
  IN  IF b # Nobody /\ outcome[b] # "none" THEN Nobody ELSE b

Remembered(p, t) == memo[p][t]

Ask(b, p) ==
  LET known == Remembered(p, cookie)
  IN  /\ tab[b] = "idle" /\ cookie # Nobody /\ LastTab(b)
      /\ \A a \in 1..(b - 1) : tab[a] # "idle"
      /\ p = 1 \/ \E a \in Tabs : host[a] = p - 1
      /\ tab' = [tab EXCEPT ![b] = "waiting"]
      /\ key' = [key EXCEPT ![b] = cookie]
      /\ host' = [host EXCEPT ![b] = p]
      /\ flight' = [flight EXCEPT ![b] = IF known = Nobody THEN b ELSE known]
      /\ IF known = Nobody
         THEN /\ pc' = [pc EXCEPT ![b] = "sent"]
              /\ memo' = [memo EXCEPT ![p][cookie] = b]
              /\ mishaps' = mishaps \cup (IF Open = {} THEN {} ELSE {"overlap"})
         ELSE UNCHANGED <<pc, memo, mishaps>>
      /\ UNCHANGED <<clock, row, locker, seen, fresh, cookie, outcome>>

(* The answer reaches the browser: a new cookie, or none any more.         *)
Land(b) ==
  /\ tab[b] = "waiting" /\ outcome[flight[b]] # "none"
  /\ tab' = [tab EXCEPT ![b] = "answered"]
  /\ cookie' = IF outcome[flight[b]] = "ok" THEN flight[b] ELSE Nobody
  /\ UNCHANGED <<clock, serverVars, memo, key, flight, host, outcome, mishaps>>

(* Or is dropped on the way.                                               *)
Drop(b) ==
  /\ tab[b] = "waiting" /\ outcome[flight[b]] # "none"
  /\ tab' = [tab EXCEPT ![b] = "answered"]
  /\ UNCHANGED <<clock, serverVars, cookie, memo, key, flight, host, outcome, mishaps>>

(* Bound: one failure in a run; that requests overlap, or overtake one     *)
(* another, is none.                                                       *)
Spared == mishaps \subseteq {"overlap", "overtaken"}

(* A process restarts: its memory and the tabs it was serving go.    *)
Restart(p) ==
  /\ Spared /\ \E t \in Tokens : memo[p][t] # Nobody
  /\ memo' = [memo EXCEPT ![p] = [t \in Tokens |-> Nobody]]
  /\ tab' = [b \in Tabs |-> IF tab[b] = "waiting" /\ host[b] = p THEN "answered" ELSE tab[b]]
  /\ mishaps' = mishaps \cup {"restart"}
  /\ UNCHANGED <<clock, serverVars, cookie, key, flight, host, outcome>>

-----------------------------------------------------------------------------
(* refresh_tokens. The session is read and, the coroutine resumed, so is   *)
(* the clock: one step here, in which no tick falls.                       *)

WithinGrace(b) == row.previous = key[b] /\ clock <= row.until
Known(b) == row.current = key[b] \/ WithinGrace(b)

Finish(b, how) ==
  /\ pc' = [pc EXCEPT ![b] = how]
  /\ outcome' = [outcome EXCEPT ![b] = "refused"]

(* A session that is over refuses without a fuss; one past its expiry too, *)
(* and the exception undoes expire_session's write of it.                  *)
RefuseOver(b) ==
  /\ pc[b] = "sent"
  /\ row.status # "active" \/ (Known(b) /\ row.expires <= clock)
  /\ Finish(b, "refused")
  /\ UNCHANGED <<clock, row, locker, seen, fresh, browserVars, mishaps>>

Mistrust(b) ==
  /\ pc[b] = "sent"
  /\ row.status = "active" /\ ~Known(b)
  /\ pc' = [pc EXCEPT ![b] = "mistrust"]
  /\ seen' = [seen EXCEPT ![b] = [row |-> row, now |-> clock]]
  /\ UNCHANGED <<clock, row, locker, fresh, browserVars, outcome, mishaps>>

(* _handle_reuse: the family is revoked where still active, once its row   *)
(* is free, and committed before the refusal.                              *)
RevokeFamily(b) ==
  /\ pc[b] = "mistrust" /\ locker = Nobody
  /\ row' = [row EXCEPT !.status = "revoked"]
  /\ Finish(b, "mistrusted")
  /\ UNCHANGED <<clock, locker, seen, fresh, browserVars, mishaps>>

Trust(b) ==
  /\ pc[b] = "sent"
  /\ row.status = "active" /\ Known(b) /\ clock < row.expires
  /\ pc' = [pc EXCEPT ![b] = "check"]
  /\ seen' = [seen EXCEPT ![b] = [row |-> row, now |-> clock]]
  /\ UNCHANGED <<clock, row, locker, fresh, browserVars, outcome, mishaps>>

(* rotate_session reads the row again: a session revoked meanwhile is left *)
(* alone, and the tokens are answered all the same.                        *)
Check(b) ==
  /\ pc[b] = "check"
  /\ pc' = [pc EXCEPT ![b] = IF row.status = "active" THEN "rotate" ELSE "written"]
  /\ UNCHANGED <<clock, row, locker, seen, fresh, browserVars, outcome, mishaps>>

(* rotate reads it once more, and its update waits for the row.            *)
ReadFresh(b) ==
  /\ pc[b] = "rotate"
  /\ fresh' = [fresh EXCEPT ![b] = row]
  /\ pc' = [pc EXCEPT ![b] = "update"]
  /\ UNCHANGED <<clock, row, locker, seen, browserVars, outcome, mishaps>>

(* For the record: another rotation was committed while this one waited.   *)
Overtaken(b) == row.current # fresh[b].current

Update(b) ==
  /\ pc[b] = "update" /\ locker = Nobody
  /\ locker' = b
  /\ pc' = [pc EXCEPT ![b] = "written"]
  /\ mishaps' = mishaps \cup (IF Overtaken(b) THEN {"overtaken"} ELSE {})
  /\ UNCHANGED <<clock, row, seen, fresh, browserVars, outcome>>

(* What the session remembers of the token before: a replay within the     *)
(* grace keeps the token the window protects, and its deadline.            *)
ByGrace(b) == seen[b].row.previous = key[b] /\ seen[b].now <= seen[b].row.until

(* Fault variant: the token just replaced is remembered, replay or not.    *)
CarriedToken_Last(b) == seen[b].row.current

CarriedToken(b) == IF ByGrace(b) THEN seen[b].row.previous ELSE seen[b].row.current

(* Fault variant: every replay starts a new window.                        *)
CarriedDeadline_Renewed(b) == seen[b].now + Grace

CarriedDeadline(b) == IF ByGrace(b) THEN seen[b].row.until ELSE seen[b].now + Grace

(* Fault variant: the entity is saved as it was read, status and all.      *)
Rotated_Whole(r, b) ==
  [seen[b].row EXCEPT !.current = b, !.previous = CarriedToken(b),
                      !.until = CarriedDeadline(b), !.expires = seen[b].now + Lifetime]

(* The update writes the columns that differ from what rotate read.        *)
Rotated(r, b) ==
  LET Column(want, old, now) == IF want = old THEN now ELSE want
  IN  [r EXCEPT !.current = b,
                !.previous = Column(CarriedToken(b), fresh[b].previous, @),
                !.until = Column(CarriedDeadline(b), fresh[b].until, @),
                !.expires = Column(seen[b].now + Lifetime, fresh[b].expires, @)]

(* The answer leaves before get_db commits; it may be lost on the way to   *)
(* the process, which then remembers a failure.                            *)
Answer(b) ==
  /\ pc[b] = "written"
  /\ \/ /\ outcome' = [outcome EXCEPT ![b] = "ok"]
        /\ UNCHANGED mishaps
     \/ /\ Spared
        /\ outcome' = [outcome EXCEPT ![b] = "failed"]
        /\ mishaps' = mishaps \cup {"lost answer"}
  /\ pc' = [pc EXCEPT ![b] = "answered"]
  /\ UNCHANGED <<clock, row, locker, seen, fresh, browserVars>>

(* Fault variant: the lock outlives the transaction.                       *)
Released_Never(r) == locker

Released(r) == IF locker = r THEN Nobody ELSE locker

Commit(b) ==
  /\ pc[b] = "answered"
  /\ row' = IF locker = b THEN Rotated(row, b) ELSE row
  /\ locker' = Released(b)
  /\ pc' = [pc EXCEPT ![b] = "accepted"]
  /\ fresh' = [fresh EXCEPT ![b] = FirstRow]
  /\ UNCHANGED <<clock, seen, browserVars, outcome, mishaps>>

(* The identity process dies between the answer and the commit.            *)
LoseCommit(b) ==
  /\ pc[b] = "answered" /\ Spared
  /\ locker' = Released(b)
  /\ pc' = [pc EXCEPT ![b] = "lost"]
  /\ fresh' = [fresh EXCEPT ![b] = FirstRow]
  /\ mishaps' = mishaps \cup {"lost commit"}
  /\ UNCHANGED <<clock, row, seen, browserVars, outcome>>

-----------------------------------------------------------------------------
(* The sign-out: revoke_token, revoke_session. An ended session is fine.   *)

BeginSignOut ==
  /\ pc[SignOut] = "idle" /\ cookie # Nobody /\ tab[TabCount] = "idle"
  /\ pc' = [pc EXCEPT ![SignOut] = IF row.status = "active" THEN "revoke" ELSE "revoked"]
  /\ mishaps' = mishaps \cup (IF Open = {} THEN {} ELSE {"overlap"})
  /\ UNCHANGED <<clock, row, locker, seen, fresh, browserVars, outcome>>

RevokeSession ==
  /\ pc[SignOut] = "revoke" /\ locker = Nobody
  /\ locker' = SignOut
  /\ pc' = [pc EXCEPT ![SignOut] = "revoked"]
  /\ UNCHANGED <<clock, row, seen, fresh, browserVars, outcome, mishaps>>

(* The answer clears the cookie, and the commit follows.                   *)
SignedOut ==
  /\ pc[SignOut] = "revoked"
  /\ cookie' = Nobody
  /\ pc' = [pc EXCEPT ![SignOut] = "answered"]
  /\ UNCHANGED <<clock, row, locker, seen, fresh, memo, tab, key, flight, host, outcome, mishaps>>

CommitSignOut ==
  /\ pc[SignOut] = "answered"
  /\ row' = IF locker = SignOut THEN [row EXCEPT !.status = "revoked"] ELSE row
  /\ locker' = Released(SignOut)
  /\ pc' = [pc EXCEPT ![SignOut] = "ended"]
  /\ UNCHANGED <<clock, seen, fresh, browserVars, outcome, mishaps>>

-----------------------------------------------------------------------------
Tick ==
  /\ clock < MaxTime
  /\ clock' = clock + 1
  /\ UNCHANGED <<serverVars, browserVars, outcome, mishaps>>

Renewal(b) ==
  \/ RefuseOver(b) \/ Mistrust(b) \/ RevokeFamily(b) \/ Trust(b) \/ Check(b)
  \/ ReadFresh(b) \/ Update(b) \/ Answer(b) \/ Commit(b)

SigningOut == RevokeSession \/ SignedOut \/ CommitSignOut

Next ==
  \/ \E b \in Tabs : Renewal(b) \/ Land(b) \/ Drop(b) \/ LoseCommit(b)
  \/ \E b \in Tabs, p \in Processes : Ask(b, p)
  \/ \E p \in Processes : Restart(p)
  \/ BeginSignOut \/ SigningOut
  \/ Tick

Spec == Init /\ [][Next]_vars

(* Coroutines are resumed and an answer that is there reaches its tab, or  *)
(* is dropped; asking, failing and the clock are up to the world.          *)
FairSpec ==
  /\ Spec
  /\ \A b \in Tabs : WF_vars(Renewal(b)) /\ WF_vars(Land(b) \/ Drop(b))
  /\ WF_vars(SigningOut)

-----------------------------------------------------------------------------
(* Properties.                                                             *)

(* Rows, places and the owner of the lock are of their kind.               *)
TokensTypeOK ==
  /\ row \in Row /\ clock \in 0..MaxTime
  /\ locker \in Open \cup {Nobody}
  /\ cookie \in Tokens \cup {Nobody}
  /\ \A b \in Tabs : tab[b] = "waiting" => flight[b] \in Tabs

(* Nothing brings a session back: not even a renewal that read it alive    *)
(* and commits after the revocation (rotate, "There is no path back into   *)
(* active", sessions/service.py).                                          *)
EndedForGood == [][row.status = "revoked" => row'.status = "revoked"]_vars

Trusted == {b \in Tabs : pc[b] \in {"accepted", "answered", "lost"}}

(* A token is accepted no later than its grace after an acceptance that    *)
(* found it current (refresh_tokens, "a caller cannot extend its own       *)
(* tolerance by replaying").                                               *)
WindowNeverMoves ==
  \A b \in Trusted : ByGrace(b) =>
    \E d \in Trusted : ~ByGrace(d) /\ key[d] = key[b] /\ seen[b].now <= seen[d].now + Grace

(* Whatever overlaps, nothing but an acceptance of a current token opens a *)
(* window or dates one: a token accepted by grace was accepted while       *)
(* current, and it is within a grace of some such acceptance.              *)
WindowsOpenedOnce ==
  \A b \in Trusted : ByGrace(b) =>
    /\ \E d \in Trusted : ~ByGrace(d) /\ key[d] = key[b]
    /\ \E d \in Trusted : ~ByGrace(d) /\ seen[b].now <= seen[d].now + Grace

(* And of the same one, as long as no update waited for the row while      *)
(* another rotation wrote it: the columns of two rotations are then never  *)
(* mixed, however often a token is replayed (rotate,                       *)
(* sessions/repository.py).                                                *)
WindowAnchored ==
  WindowsOpenedOnce /\ ("overtaken" \notin mishaps => WindowNeverMoves)

Mistrusted == {b \in Tabs : pc[b] \in {"mistrust", "mistrusted"}}

(* As long as only one token is ever presented, from however many tabs and *)
(* processes, within the grace of the earliest presentation that was       *)
(* trusted, nobody is mistrusted (refresh_tokens, "any number of           *)
(* overlapping replays of the same cookie stay inside one rotation").      *)
ReplaysTolerated ==
  (\A b \in Tabs : key[b] = Login) =>
    \A b \in Mistrusted : \E d \in Trusted : seen[b].now > seen[d].now + Grace

(* The web server presents each token once: with one process that does not *)
(* restart, no renewal overlapping another and no commit lost, tabs never  *)
(* get their own session revoked, whatever is dropped and however late     *)
(* (rotateRefreshToken, "Each refresh value therefore reaches /auth/refresh*)
(* exactly once per process").                                             *)
SessionKept ==
  /\ \A a, b \in Tabs : host[a] # Nobody /\ host[b] # Nobody => host[a] = host[b]
  /\ mishaps \subseteq {"lost answer"}
  => Mistrusted = {}

(* Tabs that asked are answered and requests end, for good since each tab  *)
(* asks once.                                                              *)
EveryTabAnswered == <>[](Open = {} /\ \A b \in Tabs : tab[b] # "waiting")

(* sessions/service.py, rotate_session: the window is there "so a benign   *)
(* race (two tabs, a dropped response) does not trigger reuse chain-kill": *)
(* while no time passes, nothing fails and no two renewals even overlap.   *)
BenignRaceSurvives == clock = 0 /\ mishaps = {} => Mistrusted = {}
=============================================================================
