---------------------------- MODULE RefreshProofs ----------------------------
(***************************************************************************)
(* Proofs about RefreshTokens, for any number of tabs and processes: a     *)
(* revoked session stays revoked, overlapping replays of one token are     *)
(* tolerated, one web process never gets its own session revoked, and the  *)
(* grace window stays where it was opened unless two updates are mixed.    *)
(***************************************************************************)
EXTENDS RefreshTokens, TLAPS

Places == {"idle", "sent", "check", "rotate", "update", "written", "answered",
           "mistrust", "revoke", "revoked"} \cup Ended
Decided == [row : Row, now : Nat]

(* Every variable is of its type.                                          *)
Shape ==
  /\ clock \in 0..MaxTime
  /\ row \in Row
  /\ locker \in Requests \cup {Nobody}
  /\ cookie \in Tokens \cup {Nobody}
  /\ memo \in [Processes -> [Tokens -> Tabs \cup {Nobody}]]
  /\ tab \in [Tabs -> {"idle", "waiting", "answered"}]
  /\ key \in [Tabs -> Tokens]
  /\ flight \in [Tabs -> Tabs \cup {Nobody}]
  /\ host \in [Tabs -> Processes \cup {Nobody}]
  /\ pc \in [Requests -> Places]
  /\ seen \in [Tabs -> Decided]
  /\ fresh \in [Tabs -> Row]
  /\ outcome \in [Tabs -> {"none", "ok", "failed", "refused"}]

(* A tab that waits knows for whom, one whose renewal was sent has asked,  *)
(* and the row is locked by a request between its update and its end.      *)
InOrder ==
  /\ \A b \in Tabs : tab[b] = "waiting" => flight[b] \in Tabs
  /\ \A b \in Tabs :
       tab[b] = "idle" => pc[b] = "idle" /\ key[b] = Login /\ host[b] = Nobody
  /\ locker # Nobody => pc[locker] \in {"written", "revoked", "answered"}

TypeInv == Shape /\ InOrder

Live(r) == pc[r] \notin Ended \cup {"idle"}

(* While only the login's token has been presented: a row that moved on    *)
(* protects it, until a grace after an acceptance.                         *)
AllLogin == \A b \in Tabs : key[b] = Login
Anchored(t) == \E d \in Trusted : t = seen[d].now + Grace
Kept(rw) == IF rw.current = Login THEN rw.previous = Nobody /\ rw.until = 0
            ELSE rw.previous = Login /\ Anchored(rw.until)
Deciding == {"check", "rotate", "update", "written", "answered"}

Tolerant ==
  /\ Kept(row)
  /\ \A b \in Tabs : Kept(seen[b].row) /\ Kept(fresh[b])
  /\ \A b \in Tabs : row.current = Login => fresh[b].current = Login
  /\ \A b \in Tabs : pc[b] \in Deciding => ByGrace(b) \/ seen[b].row.current = Login
  /\ \A b \in Mistrusted : \E d \in Trusted : seen[b].now > seen[d].now + Grace

ReplayInv == TypeInv /\ (AllLogin => Tolerant)

(* While nothing went wrong that SessionKept excludes: one request at a    *)
(* time, whose token is the current one; and the cookie is the current     *)
(* token, or one its process remembers.                                    *)
Calm ==
  /\ \A a, b \in Tabs : host[a] # Nobody /\ host[b] # Nobody => host[a] = host[b]
  /\ mishaps \subseteq {"lost answer"}

Presented(t) == \E b \in Tabs : pc[b] # "idle" /\ key[b] = t
Usable(t) ==
  \/ row.status # "active" \/ row.current = t
  \/ Presented(t)
  \/ t \in Tabs /\ pc[t] = "answered"

(* At most one request is in progress;                                     *)
OneByOne == \A q, r \in Requests : Live(q) /\ Live(r) => q = r
(* what a tab presented, its process remembers;                            *)
InMemory == \A b \in Tabs : pc[b] # "idle" => host[b] \in Processes /\ memo[host[b]][key[b]] = b
(* a request in progress presents the current token,                       *)
HoldsCurrent == \A b \in Tabs : Live(b) /\ row.status = "active" => row.current = key[b]
(* and holds the row once it is past its update, if there was one;         *)
HoldsLock ==
  \A b \in Tabs : pc[b] \in {"written", "answered"} => locker = b \/ row.status # "active"
(* a token that was answered is usable;                                    *)
Minted ==
  \A b \in Tabs :
    outcome[b] = "ok" => pc[b] \in {"answered", "accepted", "lost"} /\ Usable(b)
(* and only such a token, or the login's, is in the cookie.                *)
Carried == Usable(Login) /\ (cookie \in Tabs => outcome[cookie] = "ok")

Single == OneByOne /\ InMemory /\ HoldsCurrent /\ HoldsLock /\ Minted /\ Carried /\ Mistrusted = {}

KeptInv == TypeInv /\ (Calm => Single)

LEMMA Names ==
  /\ Nobody \notin Tabs /\ Nobody \notin Requests /\ Nobody \notin Tokens
  /\ Nobody \notin Processes
  /\ Login \notin Tabs /\ Login \in Tokens /\ SignOut \notin Tabs /\ SignOut \in Requests
  /\ Tabs \subseteq Requests /\ Tabs \subseteq Tokens
  /\ \A r \in Requests : r = SignOut \/ r \in Tabs
BY TokenNamesAssumption DEF Requests, Tokens

LEMMA FirstRowTypes == FirstRow \in Row /\ Unread \in Decided
BY Names, TokenTimesAssumption DEF FirstRow, Row, Unread, Decided

(* What a rotation makes of the row.                                       *)
LEMMA RotatedRow ==
  ASSUME Shape, NEW b \in Tabs
  PROVE  /\ Rotated(row, b) \in Row
         /\ Rotated(row, b).status = row.status
         /\ Rotated(row, b).current = b
         /\ Rotated(row, b).previous =
              IF CarriedToken(b) = fresh[b].previous THEN row.previous ELSE CarriedToken(b)
         /\ Rotated(row, b).until =
              IF CarriedDeadline(b) = fresh[b].until THEN row.until ELSE CarriedDeadline(b)
<1>1. /\ seen[b].row \in Row /\ seen[b].now \in Nat /\ fresh[b] \in Row /\ row \in Row
      /\ key[b] \in Tokens /\ b \in Tokens
  BY Names DEF Shape, Decided
<1>2. CarriedToken(b) \in Tokens
  BY <1>1 DEF CarriedToken, ByGrace, Row
<1>3. CarriedDeadline(b) \in Nat /\ seen[b].now + Lifetime \in Nat
  BY <1>1, TokenTimesAssumption DEF CarriedDeadline, Row
<1> DEFINE previous == IF CarriedToken(b) = fresh[b].previous THEN row.previous ELSE CarriedToken(b)
           until == IF CarriedDeadline(b) = fresh[b].until THEN row.until ELSE CarriedDeadline(b)
           expires == IF seen[b].now + Lifetime = fresh[b].expires
                      THEN row.expires ELSE seen[b].now + Lifetime
<1>4. Rotated(row, b) = [row EXCEPT !.current = b, !.previous = previous, !.until = until,
                                    !.expires = expires]
  BY <1>1 DEF Rotated, Row
<1>5. previous \in Tokens \cup {Nobody} /\ until \in Nat /\ expires \in Nat
  BY <1>1, <1>2, <1>3 DEF Row
<1> HIDE DEF previous, until, expires
<1>6. /\ Rotated(row, b) \in Row
      /\ Rotated(row, b).status = row.status /\ Rotated(row, b).current = b
      /\ Rotated(row, b).previous = previous /\ Rotated(row, b).until = until
  BY <1>1, <1>4, <1>5 DEF Row
<1> QED
  BY <1>6 DEF previous, until

LEMMA TypeInit == Init => TypeInv
BY Names, FirstRowTypes, TokenTimesAssumption
DEF Init, TypeInv, Shape, InOrder, Places, Tokens

(* The row of a request changes, and nothing else that the types tell.     *)
LEMMA ShapeStep == TypeInv /\ [Next]_vars => Shape'
<1> SUFFICES ASSUME TypeInv, [Next]_vars PROVE Shape'
  OBVIOUS
<1> USE DEF TypeInv, Shape, Places, Ended
<1>1. ASSUME NEW b \in Tabs, RefuseOver(b) \/ Check(b) \/ Answer(b)
      PROVE  Shape'
  <2>1. CASE RefuseOver(b)
    BY <2>1, Names DEF RefuseOver, Finish, browserVars
  <2>2. CASE Check(b)
    BY <2>2, Names DEF Check, browserVars
  <2>3. CASE Answer(b)
    BY <2>3, Names DEF Answer, browserVars
  <2> QED
    BY <1>1, <2>1, <2>2, <2>3
<1>2. ASSUME NEW b \in Tabs, Mistrust(b) \/ Trust(b) PROVE Shape'
  <2>1. [row |-> row, now |-> clock] \in Decided
    BY DEF Decided
  <2> QED
    BY <1>2, <2>1, Names DEF Mistrust, Trust, browserVars
<1>3. ASSUME NEW b \in Tabs, RevokeFamily(b) PROVE Shape'
  <2>1. [row EXCEPT !.status = "revoked"] \in Row
    BY DEF Row
  <2> QED
    BY <1>3, <2>1, Names DEF RevokeFamily, Finish, browserVars
<1>4. ASSUME NEW b \in Tabs, ReadFresh(b) PROVE Shape'
  BY <1>4, Names DEF ReadFresh, browserVars
<1>5. ASSUME NEW b \in Tabs, Update(b) PROVE Shape'
  BY <1>5, Names DEF Update, browserVars
<1>6. ASSUME NEW b \in Tabs, Commit(b) PROVE Shape'
  <2>1. row' \in Row
    BY <1>6, RotatedRow DEF Commit
  <2> QED
    BY <1>6, <2>1, Names, FirstRowTypes DEF Commit, Released, browserVars
<1>7. ASSUME NEW b \in Tabs, LoseCommit(b) PROVE Shape'
  BY <1>7, Names, FirstRowTypes DEF LoseCommit, Released, browserVars
<1>8. ASSUME NEW b \in Tabs, Land(b) \/ Drop(b) PROVE Shape'
  <2>1. cookie' \in Tokens \cup {Nobody}
    BY <1>8, Names DEF Land, Drop, InOrder
  <2> QED
    BY <1>8, <2>1 DEF Land, Drop, serverVars
<1>9. ASSUME NEW b \in Tabs, NEW p \in Processes, Ask(b, p) PROVE Shape'
  <2>1. cookie \in Tokens /\ Remembered(p, cookie) \in Tabs \cup {Nobody}
    BY <1>9 DEF Ask, Remembered
  <2>2. /\ tab' = [tab EXCEPT ![b] = "waiting"] /\ key' = [key EXCEPT ![b] = cookie]
        /\ host' = [host EXCEPT ![b] = p]
        /\ UNCHANGED <<clock, row, locker, seen, fresh, cookie, outcome>>
    BY <1>9 DEF Ask
  <2>3. flight' \in [Tabs -> Tabs \cup {Nobody}]
    BY <1>9, <2>1 DEF Ask
  <2>4. pc' \in [Requests -> Places]
    <3>1. pc' = pc \/ pc' = [pc EXCEPT ![b] = "sent"]
      BY <1>9 DEF Ask
    <3> QED
      BY <3>1, Names
  <2>5. memo' \in [Processes -> [Tokens -> Tabs \cup {Nobody}]]
    <3> DEFINE m == [memo[p] EXCEPT ![cookie] = b]
    <3>1. memo' = memo \/ memo' = [memo EXCEPT ![p] = m]
      BY <1>9 DEF Ask
    <3>2. m \in [Tokens -> Tabs \cup {Nobody}]
      BY <2>1
    <3> QED
      BY <3>1, <3>2
  <2>6. /\ tab' \in [Tabs -> {"idle", "waiting", "answered"}] /\ key' \in [Tabs -> Tokens]
        /\ host' \in [Tabs -> Processes \cup {Nobody}]
    BY <2>1, <2>2
  <2> QED
    BY <2>2, <2>3, <2>4, <2>5, <2>6
<1>10. ASSUME NEW p \in Processes, Restart(p) PROVE Shape'
  BY <1>10 DEF Restart, serverVars
<1>11. CASE BeginSignOut
  BY <1>11, Names DEF BeginSignOut, browserVars
<1>12. CASE RevokeSession
  BY <1>12, Names DEF RevokeSession, browserVars
<1>13. CASE SignedOut
  BY <1>13, Names DEF SignedOut
<1>14. CASE CommitSignOut
  <2>1. row' \in Row
    BY <1>14 DEF CommitSignOut, Row
  <2> QED
    BY <1>14, <2>1, Names DEF CommitSignOut, Released, browserVars
<1>15. CASE Tick
  BY <1>15, TokenTimesAssumption DEF Tick, serverVars, browserVars
<1>16. CASE UNCHANGED vars
  BY <1>16 DEF vars, serverVars, browserVars
<1> QED
  BY <1>1, <1>2, <1>3, <1>4, <1>5, <1>6, <1>7, <1>8, <1>9, <1>10, <1>11, <1>12, <1>13,
     <1>14, <1>15, <1>16 DEF Next, Renewal, SigningOut

(* A request moves alone, and leaves the browser and the clock alone.      *)
LEMMA RenewalMoves ==
  ASSUME TypeInv, NEW b \in Tabs, Renewal(b) \/ LoseCommit(b)
  PROVE  /\ \A r \in Requests : r # b => pc'[r] = pc[r]
         /\ \A a \in Tabs : a # b => seen'[a] = seen[a]
         /\ \A a \in Tabs : a # b => fresh'[a] = fresh[a]
         /\ \A a \in Tabs : a # b => outcome'[a] = outcome[a]
         /\ UNCHANGED <<clock, cookie, memo, tab, key, flight, host>>
         /\ Live(b) /\ pc'[b] # "idle" /\ pc'[b] # "revoked"
         /\ mishaps \subseteq mishaps'
<1> USE Names DEF TypeInv, Shape, Live, Ended
<1>1. CASE RefuseOver(b) \/ RevokeFamily(b)
  BY <1>1 DEF RefuseOver, RevokeFamily, Finish, browserVars
<1>2. CASE Mistrust(b) \/ Trust(b)
  BY <1>2 DEF Mistrust, Trust, browserVars
<1>3. CASE Check(b) \/ ReadFresh(b)
  BY <1>3 DEF Check, ReadFresh, browserVars
<1>4. CASE Update(b)
  BY <1>4 DEF Update, browserVars
<1>5. CASE Answer(b)
  BY <1>5 DEF Answer, browserVars
<1>6. CASE Commit(b) \/ LoseCommit(b)
  BY <1>6 DEF Commit, LoseCommit, browserVars
<1> QED
  BY <1>1, <1>2, <1>3, <1>4, <1>5, <1>6 DEF Renewal

(* The lock is kept, taken by the one who moves, or given up by it.        *)
LEMMA RenewalLocks ==
  ASSUME TypeInv, NEW b \in Tabs, Renewal(b) \/ LoseCommit(b)
  PROVE  \/ /\ locker' = locker
            /\ pc[b] \in {"written", "answered"} => locker # b \/ pc'[b] = "answered"
         \/ locker = Nobody /\ locker' = b /\ pc'[b] = "written"
         \/ locker = b /\ locker' = Nobody
<1> USE Names DEF TypeInv, Shape
<1>1. CASE RefuseOver(b) \/ RevokeFamily(b)
  BY <1>1 DEF RefuseOver, RevokeFamily, Finish
<1>2. CASE Mistrust(b) \/ Trust(b)
  BY <1>2 DEF Mistrust, Trust
<1>3. CASE Check(b) \/ ReadFresh(b) \/ Update(b)
  BY <1>3 DEF Check, ReadFresh, Update
<1>4. CASE Answer(b)
  BY <1>4 DEF Answer
<1>5. CASE Commit(b) \/ LoseCommit(b)
  BY <1>5 DEF Commit, LoseCommit, Released
<1> QED
  BY <1>1, <1>2, <1>3, <1>4, <1>5 DEF Renewal

LEMMA InOrderStep == TypeInv /\ [Next]_vars => InOrder'
<1> SUFFICES ASSUME TypeInv, [Next]_vars PROVE InOrder'
  OBVIOUS
<1>1. ASSUME NEW b \in Tabs, Renewal(b) \/ LoseCommit(b) PROVE InOrder'
  <2>1. /\ \A r \in Requests : r # b => pc'[r] = pc[r]
        /\ UNCHANGED <<clock, cookie, memo, tab, key, flight, host>>
        /\ pc[b] # "idle"
    BY <1>1, RenewalMoves DEF Live
  <2>2. locker' # Nobody => pc'[locker'] \in {"written", "revoked", "answered"}
    <3>1. CASE locker' = locker /\ locker # b
      BY <2>1, <3>1 DEF TypeInv, Shape, InOrder
    <3>2. CASE locker' = locker /\ locker = b
      <4>1. pc[b] \in {"written", "revoked", "answered"}
        BY <3>2, Names DEF TypeInv, InOrder
      <4>2. pc[b] # "revoked"
        BY <1>1 DEF Renewal, RefuseOver, Mistrust, RevokeFamily, Trust, Check, ReadFresh,
                    Update, Answer, Commit, LoseCommit
      <4> QED
        BY <1>1, <3>2, <4>1, <4>2, RenewalLocks, Names
    <3>3. CASE (locker' = b /\ pc'[b] = "written") \/ locker' = Nobody
      BY <3>3
    <3> QED
      BY <1>1, <3>1, <3>2, <3>3, RenewalLocks
  <2> QED
    BY <2>1, <2>2, Names DEF TypeInv, InOrder
<1>2. ASSUME NEW b \in Tabs, Land(b) \/ Drop(b) PROVE InOrder'
  BY <1>2 DEF Land, Drop, serverVars, TypeInv, Shape, InOrder
<1>3. ASSUME NEW b \in Tabs, NEW p \in Processes, Ask(b, p) PROVE InOrder'
  <2>1. cookie \in Tokens /\ Remembered(p, cookie) \in Tabs \cup {Nobody}
    BY <1>3 DEF Ask, Remembered, TypeInv, Shape
  <2>2. flight'[b] \in Tabs /\ \A a \in Tabs : a # b => flight'[a] = flight[a]
    BY <1>3, <2>1 DEF Ask, TypeInv, Shape
  <2>3. /\ tab'[b] = "waiting"
        /\ \A a \in Tabs : a # b => tab'[a] = tab[a] /\ key'[a] = key[a] /\ host'[a] = host[a]
    BY <1>3 DEF Ask, TypeInv, Shape
  <2>4. pc[b] = "idle" /\ \A r \in Requests : r # b => pc'[r] = pc[r]
    BY <1>3, Names DEF Ask, TypeInv, Shape, InOrder
  <2>5. UNCHANGED locker
    BY <1>3 DEF Ask
  <2> QED
    BY <2>2, <2>3, <2>4, <2>5, Names DEF TypeInv, Shape, InOrder
<1>4. ASSUME NEW p \in Processes, Restart(p) PROVE InOrder'
  BY <1>4 DEF Restart, serverVars, TypeInv, Shape, InOrder
<1>5. CASE BeginSignOut \/ RevokeSession \/ SignedOut
  BY <1>5, Names DEF BeginSignOut, RevokeSession, SignedOut, browserVars, TypeInv, Shape, InOrder
<1>6. CASE CommitSignOut
  BY <1>6, Names DEF CommitSignOut, Released, browserVars, TypeInv, Shape, InOrder
<1>7. CASE Tick \/ UNCHANGED vars
  BY <1>7 DEF Tick, vars, serverVars, browserVars, InOrder, TypeInv
<1> QED
  BY <1>1, <1>2, <1>3, <1>4, <1>5, <1>6, <1>7 DEF Next, SigningOut

LEMMA TypeAlways == Spec => []TypeInv
<1>1. TypeInv /\ [Next]_vars => TypeInv'
  BY ShapeStep, InOrderStep DEF TypeInv
<1> QED
  BY <1>1, TypeInit, PTL DEF Spec

(* Rows and places are of their kind, and only a request in progress holds *)
(* the row's lock (TokensTypeOK).                                          *)
THEOREM TokensTyped == Spec => []TokensTypeOK
<1>1. TypeInv => TokensTypeOK
  BY Names DEF TypeInv, Shape, InOrder, TokensTypeOK, Open, Ended
<1> QED
  BY <1>1, TypeAlways, PTL

-----------------------------------------------------------------------------
(* What a step may do to the committed row: nothing, end it, or rotate it. *)
LEMMA RowSteps ==
  ASSUME TypeInv, [Next]_vars
  PROVE  \/ row' = row
         \/ row' = [row EXCEPT !.status = "revoked"]
         \/ \E b \in Tabs : Commit(b) /\ locker = b /\ row' = Rotated(row, b)
<1>1. ASSUME NEW b \in Tabs, Renewal(b)
      PROVE  \/ row' = row \/ row' = [row EXCEPT !.status = "revoked"]
             \/ Commit(b) /\ locker = b /\ row' = Rotated(row, b)
  BY <1>1 DEF Renewal, RefuseOver, Mistrust, RevokeFamily, Trust, Check, ReadFresh, Update,
              Answer, Commit
<1>2. ASSUME NEW b \in Tabs, Land(b) \/ Drop(b) \/ LoseCommit(b) PROVE row' = row
  BY <1>2 DEF Land, Drop, LoseCommit, serverVars
<1>3. ASSUME NEW b \in Tabs, NEW p \in Processes, Ask(b, p) PROVE row' = row
  BY <1>3 DEF Ask
<1>4. ASSUME NEW p \in Processes, Restart(p) PROVE row' = row
  BY <1>4 DEF Restart, serverVars
<1>5. CASE BeginSignOut \/ SigningOut
  BY <1>5 DEF BeginSignOut, SigningOut, RevokeSession, SignedOut, CommitSignOut
<1>6. CASE Tick \/ UNCHANGED vars
  BY <1>6 DEF Tick, vars, serverVars
<1> QED
  BY <1>1, <1>2, <1>3, <1>4, <1>5, <1>6 DEF Next

(* A session that has ended stays so.                                      *)
LEMMA EndedStep ==
  ASSUME TypeInv, [Next]_vars
  PROVE  row.status # "active" => row'.status # "active"
<1>1. ASSUME NEW b \in Tabs, row' = Rotated(row, b) PROVE row'.status = row.status
  BY <1>1, RotatedRow DEF TypeInv
<1> QED
  BY <1>1, RowSteps DEF TypeInv, Shape, Row

(* Nothing brings a session back (EndedForGood): a renewal that read it    *)
(* alive and commits after the revocation writes the columns of the token  *)
(* only.                                                                   *)
THEOREM SessionsEndForGood == Spec => EndedForGood
<1>1. TypeInv /\ [Next]_vars => (row.status = "revoked" => row'.status = "revoked")
  <2> SUFFICES ASSUME TypeInv, [Next]_vars, row.status = "revoked"
               PROVE  row'.status = "revoked"
    OBVIOUS
  <2>1. row' \in Row /\ row'.status # "active"
    BY EndedStep, ShapeStep DEF Shape
  <2> QED
    BY <2>1 DEF Row
<1>2. TypeInv /\ [Next]_vars => [row.status = "revoked" => row'.status = "revoked"]_vars
  BY <1>1
<1> QED
  BY <1>2, TypeAlways, PTL DEF Spec, EndedForGood

-----------------------------------------------------------------------------
(* A renewal that was trusted stays so, by the same decision.              *)
LEMMA TrustedStay ==
  ASSUME TypeInv, [Next]_vars, NEW d \in Trusted
  PROVE  d \in Trusted' /\ seen'[d] = seen[d]
<1> USE DEF Trusted
<1>1. ASSUME NEW b \in Tabs, Renewal(b) \/ LoseCommit(b)
      PROVE  d \in Trusted' /\ seen'[d] = seen[d]
  <2>1. CASE d # b
    BY <1>1, <2>1, RenewalMoves, Names
  <2>2. CASE d = b
    <3>1. pc[b] = "answered"
      BY <1>1, <2>2, RenewalMoves DEF Live, Ended
    <3>2. Commit(b) \/ LoseCommit(b)
      BY <1>1, <3>1 DEF Renewal, RefuseOver, Mistrust, RevokeFamily, Trust, Check, ReadFresh,
                        Update, Answer
    <3> QED
      BY <2>2, <3>2, Names DEF Commit, LoseCommit, TypeInv, Shape
  <2> QED
    BY <2>1, <2>2
<1>2. ASSUME NEW b \in Tabs, Land(b) \/ Drop(b) PROVE UNCHANGED <<pc, seen>>
  BY <1>2 DEF Land, Drop, serverVars
<1>3. ASSUME NEW b \in Tabs, NEW p \in Processes, Ask(b, p)
      PROVE  seen' = seen /\ \A a \in Tabs : pc[a] # "idle" => pc'[a] = pc[a]
  <2>1. pc[b] = "idle"
    BY <1>3 DEF Ask, TypeInv, InOrder
  <2> QED
    BY <1>3, <2>1, Names DEF Ask, TypeInv, Shape
<1>4. ASSUME NEW p \in Processes, Restart(p) PROVE UNCHANGED <<pc, seen>>
  BY <1>4 DEF Restart, serverVars
<1>5. CASE BeginSignOut \/ SigningOut
  <2>1. seen' = seen /\ \A a \in Tabs : pc'[a] = pc[a]
    BY <1>5, Names DEF BeginSignOut, SigningOut, RevokeSession, SignedOut, CommitSignOut,
                       TypeInv, Shape
  <2> QED
    BY <2>1
<1>6. CASE Tick \/ UNCHANGED vars
  BY <1>6 DEF Tick, vars, serverVars
<1> QED
  BY <1>1, <1>2, <1>3, <1>4, <1>5, <1>6 DEF Next

(* Keys are given once: if all are the login's now, they were before.      *)
LEMMA KeysGiven ==
  ASSUME TypeInv, [Next]_vars
  PROVE  AllLogin' => AllLogin /\ key' = key
<1>1. ASSUME NEW b \in Tabs, Renewal(b) \/ LoseCommit(b) PROVE key' = key
  BY <1>1, RenewalMoves
<1>2. ASSUME NEW b \in Tabs, Land(b) \/ Drop(b) PROVE key' = key
  BY <1>2 DEF Land, Drop
<1>3. ASSUME NEW b \in Tabs, NEW p \in Processes, Ask(b, p) PROVE AllLogin' => key' = key
  <2>1. key[b] = Login /\ key' = [key EXCEPT ![b] = cookie]
    BY <1>3 DEF Ask, TypeInv, InOrder
  <2> QED
    BY <2>1 DEF AllLogin, TypeInv, Shape
<1>4. ASSUME NEW p \in Processes, Restart(p) PROVE key' = key
  BY <1>4 DEF Restart
<1>5. ASSUME BeginSignOut \/ SigningOut \/ Tick \/ UNCHANGED vars PROVE key' = key
  BY <1>5 DEF BeginSignOut, SigningOut, RevokeSession, SignedOut, CommitSignOut, Tick, vars,
              browserVars
<1> QED
  BY <1>1, <1>2, <1>3, <1>4, <1>5 DEF Next, AllLogin

(* What is kept stays kept, once the same is current.                      *)
LEMMA KeptStays ==
  ASSUME TypeInv, [Next]_vars
  PROVE  \A r \in Row : Kept(r) =>
           IF r.current = Login THEN r.previous = Nobody /\ r.until = 0
           ELSE r.previous = Login /\ \E d \in Trusted' : r.until = seen'[d].now + Grace
<1> TAKE r \in Row
<1> HAVE Kept(r)
<1>1. CASE r.current = Login
  BY <1>1 DEF Kept
<1>2. CASE r.current # Login
  <2>1. PICK d \in Trusted : r.until = seen[d].now + Grace
    BY <1>2 DEF Kept, Anchored
  <2>2. d \in Trusted' /\ r.until = seen'[d].now + Grace
    BY <2>1, TrustedStay
  <2> QED
    BY <1>2, <2>2 DEF Kept
<1> QED
  BY <1>1, <1>2

(* What a rotation leaves when only the login's token was presented.       *)
LEMMA RotatedKept ==
  ASSUME ReplayInv, AllLogin, [Next]_vars, NEW b \in Tabs, Commit(b),
         row' = Rotated(row, b)
  PROVE  Kept(row)'
<1>1. /\ row \in Row /\ seen[b].row \in Row /\ seen[b].now \in Nat /\ fresh[b] \in Row
      /\ key[b] = Login /\ pc[b] = "answered"
  BY DEF ReplayInv, TypeInv, Shape, Decided, AllLogin, Commit
<1>2. /\ Kept(row) /\ Kept(seen[b].row) /\ Kept(fresh[b])
      /\ row.current = Login => fresh[b].current = Login
      /\ ByGrace(b) \/ seen[b].row.current = Login
  BY <1>1 DEF ReplayInv, Tolerant, Deciding
<1>3. b \in Trusted' /\ seen'[b] = seen[b]
  BY <1>1, TrustedStay DEF Trusted, ReplayInv
<1>4. CarriedToken(b) = Login
  BY <1>1, <1>2 DEF CarriedToken, ByGrace
<1>5. \E d \in Trusted' : CarriedDeadline(b) = seen'[d].now + Grace
  <2>1. CASE ByGrace(b)
    <3>1. seen[b].row.current # Login
      BY <1>1, <1>2, <2>1, Names DEF ByGrace, Kept
    <3>2. CarriedDeadline(b) = seen[b].row.until
      BY <2>1 DEF CarriedDeadline
    <3> QED
      BY <1>1, <1>2, <3>1, <3>2, KeptStays DEF ReplayInv
  <2>2. CASE ~ByGrace(b)
    BY <1>3, <2>2 DEF CarriedDeadline
  <2> QED
    BY <2>1, <2>2
<1>6. row'.current = b /\ b # Login
  BY RotatedRow, Names DEF ReplayInv, TypeInv
<1>7. row'.previous = Login
  <2>1. fresh[b].previous = Login => row.previous = Login
    BY <1>2, Names DEF Kept
  <2> QED
    BY <1>4, <2>1, RotatedRow DEF ReplayInv, TypeInv
<1>8. \E d \in Trusted' : row'.until = seen'[d].now + Grace
  <2>1. CASE CarriedDeadline(b) # fresh[b].until
    BY <1>5, <2>1, RotatedRow DEF ReplayInv, TypeInv
  <2>2. CASE CarriedDeadline(b) = fresh[b].until /\ row.current = Login
    <3>1. row.until = CarriedDeadline(b)
      BY <1>2, <2>2 DEF Kept
    <3>2. row'.until = row.until
      BY <2>2, RotatedRow DEF ReplayInv, TypeInv
    <3> QED
      BY <1>5, <3>1, <3>2
  <2>3. CASE CarriedDeadline(b) = fresh[b].until /\ row.current # Login
    <3>1. row'.until = row.until
      BY <2>3, RotatedRow DEF ReplayInv, TypeInv
    <3> QED
      BY <1>1, <1>2, <2>3, <3>1, KeptStays DEF ReplayInv
  <2> QED
    BY <2>1, <2>2, <2>3
<1> QED
  BY <1>6, <1>7, <1>8 DEF Kept, Anchored

(* The committed row protects the login's token, whatever is committed.    *)
LEMMA RowKept ==
  ASSUME ReplayInv, AllLogin, [Next]_vars
  PROVE  Kept(row)' /\ (row'.current = Login => row.current = Login)
<1>1. row \in Row /\ Kept(row)
  BY DEF ReplayInv, TypeInv, Shape, Tolerant
<1>2. CASE row' = row \/ row' = [row EXCEPT !.status = "revoked"]
  <2>1. row'.current = row.current /\ row'.previous = row.previous /\ row'.until = row.until
    BY <1>1, <1>2 DEF Row
  <2> QED
    BY <1>1, <2>1, KeptStays DEF ReplayInv, Kept, Anchored
<1>3. ASSUME NEW b \in Tabs, Commit(b), row' = Rotated(row, b)
      PROVE  Kept(row)' /\ (row'.current = Login => row.current = Login)
  <2>1. row'.current # Login
    BY <1>3, RotatedRow, Names DEF ReplayInv, TypeInv
  <2> QED
    BY <1>3, <2>1, RotatedKept
<1> QED
  BY <1>2, <1>3, RowSteps DEF ReplayInv

(* What a tab decided by, and what its update found, is kept: it is what   *)
(* it was, or the row as it stands, or the first.                          *)
LEMMA ReadRows ==
  ASSUME TypeInv, [Next]_vars, NEW b \in Tabs
  PROVE  /\ \/ seen'[b] = seen[b] /\ (pc'[b] \in Deciding => pc[b] \in Deciding)
               /\ (b \in Mistrusted' => b \in Mistrusted)
            \/ seen'[b] = [row |-> row, now |-> clock] /\ row' = row /\ (Trust(b) \/ Mistrust(b))
         /\ fresh'[b] \in {fresh[b], row, FirstRow}
<1> USE DEF Deciding, Mistrusted
<1>1. ASSUME NEW a \in Tabs, Renewal(a) \/ LoseCommit(a), a # b
      PROVE  seen'[b] = seen[b] /\ pc'[b] = pc[b] /\ fresh'[b] = fresh[b]
  BY <1>1, RenewalMoves, Names
<1>2. ASSUME Trust(b) \/ Mistrust(b)
      PROVE  seen'[b] = [row |-> row, now |-> clock] /\ row' = row /\ fresh' = fresh
  BY <1>2 DEF Trust, Mistrust, TypeInv, Shape
<1>3. ASSUME RefuseOver(b) \/ RevokeFamily(b)
      PROVE  /\ seen' = seen /\ fresh' = fresh /\ pc'[b] \in {"refused", "mistrusted"}
             /\ pc'[b] = "mistrusted" => pc[b] = "mistrust"
  BY <1>3, Names DEF RefuseOver, RevokeFamily, Finish, TypeInv, Shape
<1>4. ASSUME Check(b) \/ Update(b) \/ Answer(b)
      PROVE  /\ seen' = seen /\ fresh' = fresh /\ pc[b] \in Deciding
             /\ pc'[b] \notin {"mistrust", "mistrusted"}
  BY <1>4, Names DEF Check, Update, Answer, TypeInv, Shape
<1>5. ASSUME ReadFresh(b)
      PROVE  /\ seen' = seen /\ fresh'[b] = row /\ row' = row /\ pc[b] \in Deciding
             /\ pc'[b] \notin {"mistrust", "mistrusted"}
  BY <1>5, Names DEF ReadFresh, TypeInv, Shape
<1>6. ASSUME Commit(b) \/ LoseCommit(b)
      PROVE  /\ seen' = seen /\ fresh'[b] = FirstRow /\ pc[b] \in Deciding
             /\ pc'[b] \notin {"mistrust", "mistrusted"}
  BY <1>6, Names DEF Commit, LoseCommit, TypeInv, Shape
<1>7. ASSUME NEW a \in Tabs, Land(a) \/ Drop(a) PROVE UNCHANGED <<pc, seen, fresh>>
  BY <1>7 DEF Land, Drop, serverVars
<1>8. ASSUME NEW a \in Tabs, NEW p \in Processes, Ask(a, p)
      PROVE  UNCHANGED <<seen, fresh>> /\ pc'[b] \in {pc[b], "sent"}
  BY <1>8, Names DEF Ask, TypeInv, Shape
<1>9. ASSUME NEW p \in Processes, Restart(p) PROVE UNCHANGED <<pc, seen, fresh>>
  BY <1>9 DEF Restart, serverVars
<1>10. ASSUME BeginSignOut \/ SigningOut
       PROVE  UNCHANGED <<seen, fresh>> /\ pc'[b] = pc[b]
  BY <1>10, Names DEF BeginSignOut, SigningOut, RevokeSession, SignedOut, CommitSignOut,
                      TypeInv, Shape
<1>11. ASSUME Tick \/ UNCHANGED vars PROVE UNCHANGED <<pc, seen, fresh>>
  BY <1>11 DEF Tick, vars, serverVars
<1> QED
  BY <1>1, <1>2, <1>3, <1>4, <1>5, <1>6, <1>7, <1>8, <1>9, <1>10, <1>11 DEF Next, Renewal

LEMMA ReplayStep == ReplayInv /\ [Next]_vars => ReplayInv'
<1> SUFFICES ASSUME ReplayInv, [Next]_vars, AllLogin' PROVE Tolerant'
  BY ShapeStep, InOrderStep DEF ReplayInv, TypeInv
<1>1. TypeInv /\ AllLogin /\ key' = key /\ Tolerant
  BY KeysGiven DEF ReplayInv
<1>2. /\ Kept(row)' /\ (row'.current = Login => row.current = Login)
      /\ row \in Row /\ Kept(row) /\ FirstRow \in Row /\ Kept(FirstRow)
  BY <1>1, RowKept, FirstRowTypes DEF FirstRow, Kept, TypeInv, Shape, Tolerant
<1>3. ASSUME NEW b \in Tabs PROVE Kept(seen[b].row)' /\ Kept(fresh[b])'
  <2>1. /\ seen[b].row \in Row /\ Kept(seen[b].row) /\ fresh[b] \in Row /\ Kept(fresh[b])
    BY <1>1 DEF Tolerant, TypeInv, Shape, Decided
  <2>2. seen'[b].row \in Row /\ Kept(seen'[b].row)
    BY <1>1, <1>2, <2>1, ReadRows
  <2>3. fresh'[b] \in Row /\ Kept(fresh'[b])
    BY <1>1, <1>2, <2>1, ReadRows
  <2> QED
    BY <1>1, <2>2, <2>3, KeptStays DEF Kept, Anchored
<1>4. ASSUME NEW b \in Tabs, row'.current = Login PROVE fresh'[b].current = Login
  <2>1. row.current = Login /\ fresh[b].current = Login /\ FirstRow.current = Login
    BY <1>1, <1>2, <1>4 DEF Tolerant, FirstRow
  <2> QED
    BY <1>1, <2>1, ReadRows
<1>5. ASSUME NEW b \in Tabs, pc'[b] \in Deciding
      PROVE  ByGrace(b)' \/ seen'[b].row.current = Login
  <2>1. CASE seen'[b] = seen[b] /\ pc[b] \in Deciding
    BY <1>1, <2>1 DEF Tolerant, ByGrace
  <2>2. CASE seen'[b] = [row |-> row, now |-> clock] /\ Trust(b)
    BY <1>1, <2>2 DEF Trust, Known, WithinGrace, ByGrace, AllLogin
  <2>3. ~Mistrust(b)
    BY <1>1, <1>5, Names DEF Mistrust, TypeInv, Shape, Deciding
  <2> QED
    BY <1>1, <1>5, <2>1, <2>2, <2>3, ReadRows
<1>6. ASSUME NEW b \in Mistrusted'
      PROVE  \E d \in Trusted' : seen'[b].now > seen'[d].now + Grace
  <2> b \in Tabs
    BY DEF Mistrusted
  <2>1. CASE seen'[b] = seen[b] /\ b \in Mistrusted
    <3>1. PICK d \in Trusted : seen[b].now > seen[d].now + Grace
      BY <1>1, <2>1 DEF Tolerant
    <3> QED
      BY <1>1, <2>1, <3>1, TrustedStay
  <2>2. CASE seen'[b] = [row |-> row, now |-> clock] /\ Mistrust(b)
    <3>1. row.current # Login /\ ~(row.previous = Login /\ clock <= row.until)
      BY <1>1, <2>2 DEF Mistrust, Known, WithinGrace, AllLogin
    <3>2. PICK d \in Trusted : row.until = seen[d].now + Grace
      BY <1>2, <3>1 DEF Kept, Anchored
    <3>3. row.previous = Login /\ clock \in Nat /\ row.until \in Nat
      BY <1>1, <1>2, <3>1 DEF Kept, TypeInv, Shape, Row
    <3>4. d \in Trusted' /\ seen'[d] = seen[d]
      BY <1>1, TrustedStay
    <3>5. seen'[b].now = clock
      BY <2>2
    <3> QED
      BY <3>1, <3>2, <3>3, <3>4, <3>5
  <2>3. ~Trust(b)
    BY <1>1, <1>6, Names DEF Trust, TypeInv, Shape, Mistrusted
  <2> QED
    BY <1>1, <1>6, <2>1, <2>2, <2>3, ReadRows
<1> QED
  BY <1>2, <1>3, <1>4, <1>5, <1>6 DEF Tolerant

(* Replays are tolerated (ReplaysTolerated): however many tabs and         *)
(* processes present the login's token, nobody is mistrusted within the    *)
(* grace of the earliest of them that was trusted.                         *)
THEOREM ReplaysAlwaysTolerated == Spec => []ReplaysTolerated
<1>1. Init => ReplayInv
  <2> SUFFICES ASSUME Init PROVE ReplayInv
    OBVIOUS
  <2>1. Kept(row) /\ \A b \in Tabs : Kept(seen[b].row) /\ Kept(fresh[b])
    BY DEF Init, Kept, FirstRow, Unread
  <2> QED
    BY <2>1, TypeInit, Names DEF Init, ReplayInv, Tolerant, FirstRow, Mistrusted, Deciding
<1>2. ReplayInv => ReplaysTolerated
  BY DEF ReplayInv, AllLogin, Tolerant, ReplaysTolerated
<1> QED
  BY <1>1, <1>2, ReplayStep, PTL DEF Spec

-----------------------------------------------------------------------------
(* What a row remembers of the token before: one that an acceptance found  *)
(* current, and the grace of such an acceptance,                           *)
Opened(t) == \E d \in Trusted : ~ByGrace(d) /\ key[d] = t
Dated(u) == \E d \in Trusted : ~ByGrace(d) /\ u = seen[d].now + Grace
Parts(r) ==
  IF r.current = Login THEN r.previous = Nobody /\ r.until = 0
  ELSE r.previous \in Tokens /\ Opened(r.previous) /\ Dated(r.until)
(* of the same acceptance, if no rotation overtook another.                *)
Whole(r) ==
  r.current # Login =>
    \E d \in Trusted : ~ByGrace(d) /\ key[d] = r.previous /\ r.until = seen[d].now + Grace
SameWindow(r, s) == r.previous = s.previous /\ r.until = s.until
Committed(t) == t = Login \/ (t \in Tabs /\ pc[t] = "accepted")

(* Whatever overlaps: the rows that were read are rows as they once were,  *)
(* known by their token; a decision found its token where it says;         *)
WindowRows ==
  /\ Parts(row) /\ Committed(row.current)
  /\ \A b \in Tabs : Parts(seen[b].row) /\ Parts(fresh[b]) /\ Committed(fresh[b].current)
  /\ \A b \in Tabs : row.current = Login => fresh[b].current = Login
  /\ \A b \in Tabs : fresh[b].current = row.current => SameWindow(fresh[b], row)
  /\ \A b \in Tabs : pc[b] \in Deciding => ByGrace(b) \/ seen[b].row.current = key[b]
(* and if no rotation overtook another, the row is what the holder of its  *)
(* lock found, and its window is one.                                      *)
WindowWhole ==
  /\ Whole(row)
  /\ \A b \in Tabs : Whole(seen[b].row)
  /\ \A b \in Tabs : locker = b => row.current = fresh[b].current

WindowInv == TypeInv /\ WindowRows /\ ("overtaken" \notin mishaps => WindowWhole)

(* An acceptance stays what it was: of that token, at that time.           *)
LEMMA AcceptanceStays ==
  ASSUME TypeInv, [Next]_vars, NEW d \in Tabs
  PROVE  /\ pc[d] # "idle" => key'[d] = key[d]
         /\ d \in Trusted => /\ d \in Trusted' /\ seen'[d] = seen[d] /\ key'[d] = key[d]
                             /\ ByGrace(d)' = ByGrace(d)
<1>1. pc[d] # "idle" => key'[d] = key[d]
  <2>1. ASSUME NEW b \in Tabs, NEW p \in Processes, Ask(b, p), pc[d] # "idle"
        PROVE  key'[d] = key[d]
    <3>1. pc[b] = "idle"
      BY <2>1 DEF Ask, TypeInv, InOrder
    <3> QED
      BY <2>1, <3>1 DEF Ask, TypeInv, Shape
  <2>2. ASSUME NEW b \in Tabs, Renewal(b) \/ LoseCommit(b) PROVE key' = key
    BY <2>2, RenewalMoves
  <2>3. ASSUME NEW b \in Tabs, Land(b) \/ Drop(b) PROVE key' = key
    BY <2>3 DEF Land, Drop
  <2>4. ASSUME NEW p \in Processes, Restart(p) PROVE key' = key
    BY <2>4 DEF Restart
  <2>5. ASSUME BeginSignOut \/ SigningOut \/ Tick \/ UNCHANGED vars PROVE key' = key
    BY <2>5 DEF BeginSignOut, SigningOut, RevokeSession, SignedOut, CommitSignOut, Tick, vars,
                browserVars
  <2> QED
    BY <2>1, <2>2, <2>3, <2>4, <2>5 DEF Next
<1>2. ASSUME d \in Trusted
      PROVE  d \in Trusted' /\ seen'[d] = seen[d] /\ key'[d] = key[d] /\ ByGrace(d)' = ByGrace(d)
  <2>1. d \in Trusted' /\ seen'[d] = seen[d]
    BY <1>2, TrustedStay
  <2>2. key'[d] = key[d]
    BY <1>1, <1>2 DEF Trusted
  <2> QED
    BY <2>1, <2>2 DEF ByGrace
<1> QED
  BY <1>1, <1>2

(* So what a row remembers stays remembered rightly.                       *)
LEMMA WindowsStay ==
  ASSUME TypeInv, [Next]_vars
  PROVE  /\ \A t \in Tokens : Opened(t) => \E d \in Trusted' : ~ByGrace(d)' /\ key'[d] = t
         /\ \A u \in Nat : Dated(u) => \E d \in Trusted' : ~ByGrace(d)' /\ u = seen'[d].now + Grace
         /\ \A r \in Row : Whole(r) /\ r.current # Login =>
              \E d \in Trusted' :
                ~ByGrace(d)' /\ key'[d] = r.previous /\ r.until = seen'[d].now + Grace
<1>1. \A d \in Trusted : /\ d \in Trusted' /\ seen'[d] = seen[d] /\ key'[d] = key[d]
                         /\ ByGrace(d)' = ByGrace(d)
  BY AcceptanceStays DEF Trusted
<1>2. ASSUME NEW t \in Tokens, Opened(t)
      PROVE  \E d \in Trusted' : ~ByGrace(d)' /\ key'[d] = t
  <2>1. PICK d \in Trusted : ~ByGrace(d) /\ key[d] = t
    BY <1>2 DEF Opened
  <2> QED
    BY <1>1, <2>1
<1>3. ASSUME NEW u \in Nat, Dated(u)
      PROVE  \E d \in Trusted' : ~ByGrace(d)' /\ u = seen'[d].now + Grace
  <2>1. PICK d \in Trusted : ~ByGrace(d) /\ u = seen[d].now + Grace
    BY <1>3 DEF Dated
  <2> QED
    BY <1>1, <2>1
<1>4. ASSUME NEW r \in Row, Whole(r), r.current # Login
      PROVE  \E d \in Trusted' :
               ~ByGrace(d)' /\ key'[d] = r.previous /\ r.until = seen'[d].now + Grace
  <2>1. PICK d \in Trusted : ~ByGrace(d) /\ key[d] = r.previous /\ r.until = seen[d].now + Grace
    BY <1>4 DEF Whole
  <2> QED
    BY <1>1, <2>1
<1> QED
  BY <1>2, <1>3, <1>4

(* The two together, for a row.                                            *)
LEMMA PartsStay ==
  ASSUME TypeInv, [Next]_vars, NEW r \in Row, Parts(r)
  PROVE  IF r.current = Login THEN r.previous = Nobody /\ r.until = 0
         ELSE /\ r.previous \in Tokens
              /\ \E d \in Trusted' : ~ByGrace(d)' /\ key'[d] = r.previous
              /\ \E d \in Trusted' : ~ByGrace(d)' /\ r.until = seen'[d].now + Grace
<1>1. CASE r.current = Login
  BY <1>1 DEF Parts
<1>2. CASE r.current # Login
  <2>1. r.previous \in Tokens /\ Opened(r.previous) /\ Dated(r.until) /\ r.until \in Nat
    BY <1>2 DEF Parts, Row
  <2> QED
    BY <1>2, <2>1, WindowsStay
<1> QED
  BY <1>1, <1>2

(* What a renewal carries over: the window it was let in by, or a new one  *)
(* of its own.                                                             *)
LEMMA CarriedWindow ==
  ASSUME TypeInv, WindowRows, [Next]_vars, NEW b \in Tabs, Commit(b)
  PROVE  /\ CarriedToken(b) \in Tokens /\ CarriedDeadline(b) \in Nat
         /\ \E d \in Trusted' : ~ByGrace(d)' /\ key'[d] = CarriedToken(b)
         /\ \E d \in Trusted' : ~ByGrace(d)' /\ CarriedDeadline(b) = seen'[d].now + Grace
         /\ Whole(seen[b].row) => \E d \in Trusted' :
              /\ ~ByGrace(d)' /\ key'[d] = CarriedToken(b)
              /\ CarriedDeadline(b) = seen'[d].now + Grace
<1>1. /\ seen[b].row \in Row /\ seen[b].now \in Nat /\ key[b] \in Tokens
      /\ seen[b].row.until \in Nat /\ seen[b].row.current \in Tokens
      /\ pc[b] = "answered" /\ Parts(seen[b].row)
      /\ ByGrace(b) \/ seen[b].row.current = key[b]
  BY DEF TypeInv, Shape, Decided, Row, WindowRows, Commit, Deciding
<1>2. CASE ByGrace(b)
  <2>1. /\ CarriedToken(b) = seen[b].row.previous /\ CarriedDeadline(b) = seen[b].row.until
        /\ seen[b].row.previous = key[b]
    BY <1>2 DEF CarriedToken, CarriedDeadline, ByGrace
  <2>2. seen[b].row.current # Login
    BY <1>1, <2>1, Names DEF Parts
  <2>3. \E d \in Trusted' : ~ByGrace(d)' /\ key'[d] = seen[b].row.previous
    BY <1>1, <2>2, PartsStay
  <2>4. \E d \in Trusted' : ~ByGrace(d)' /\ seen[b].row.until = seen'[d].now + Grace
    BY <1>1, <2>2, PartsStay
  <2>5. Whole(seen[b].row) => \E d \in Trusted' :
          ~ByGrace(d)' /\ key'[d] = seen[b].row.previous /\ seen[b].row.until = seen'[d].now + Grace
    BY <1>1, <2>2, WindowsStay
  <2> QED
    BY <1>1, <2>1, <2>3, <2>4, <2>5
<1>3. CASE ~ByGrace(b)
  <2>1. CarriedToken(b) = key[b] /\ CarriedDeadline(b) = seen[b].now + Grace
    BY <1>1, <1>3 DEF CarriedToken, CarriedDeadline
  <2>2. b \in Trusted' /\ ~ByGrace(b)' /\ key'[b] = key[b] /\ seen'[b] = seen[b]
    BY <1>1, <1>3, AcceptanceStays DEF Trusted
  <2>3. seen[b].now + Grace \in Nat
    BY <1>1, TokenTimesAssumption
  <2> QED
    BY <1>1, <2>1, <2>2, <2>3
<1> QED
  BY <1>2, <1>3

(* A rotation leaves a remembered token and a deadline that are each       *)
(* right, and right together if it wrote on what it had found.             *)
LEMMA RotatedWindow ==
  ASSUME TypeInv, WindowRows, [Next]_vars, NEW b \in Tabs, Commit(b), locker = b,
         row' = Rotated(row, b)
  PROVE  Parts(row)' /\ (WindowWhole => Whole(row)')
<1>1. /\ row'.current = b /\ b # Login
      /\ row'.previous = IF CarriedToken(b) = fresh[b].previous THEN row.previous
                         ELSE CarriedToken(b)
      /\ row'.until = IF CarriedDeadline(b) = fresh[b].until THEN row.until
                      ELSE CarriedDeadline(b)
  BY RotatedRow, Names DEF TypeInv
<1>2. /\ row \in Row /\ fresh[b] \in Row /\ Parts(row) /\ Parts(fresh[b])
      /\ row.current = Login => fresh[b].current = Login
      /\ fresh[b].current = row.current => SameWindow(fresh[b], row)
  BY DEF TypeInv, Shape, WindowRows
<1>3. \/ row.previous = fresh[b].previous /\ row.until = fresh[b].until
      \/ row.current # Login
  <2>1. CASE row.current = Login
    BY <1>2, <2>1 DEF SameWindow
  <2> QED
    BY <2>1
<1>4. CarriedToken(b) \in Tokens /\ CarriedDeadline(b) \in Nat
  BY CarriedWindow
<1>5. \E d \in Trusted' : ~ByGrace(d)' /\ key'[d] = CarriedToken(b)
  BY CarriedWindow
<1>6. \E d \in Trusted' : ~ByGrace(d)' /\ CarriedDeadline(b) = seen'[d].now + Grace
  BY CarriedWindow
<1>7. row.current # Login =>
        /\ row.previous \in Tokens
        /\ \E d \in Trusted' : ~ByGrace(d)' /\ key'[d] = row.previous
        /\ \E d \in Trusted' : ~ByGrace(d)' /\ row.until = seen'[d].now + Grace
  BY <1>2, PartsStay
<1>8. row'.previous \in Tokens /\ \E d \in Trusted' : ~ByGrace(d)' /\ key'[d] = row'.previous
  <2>1. CASE row'.previous = CarriedToken(b)
    BY <1>4, <1>5, <2>1
  <2>2. CASE row'.previous # CarriedToken(b)
    <3>1. row'.previous = row.previous /\ row.current # Login
      BY <1>1, <1>3, <2>2
    <3> QED
      BY <1>7, <3>1
  <2> QED
    BY <2>1, <2>2
<1>9. \E d \in Trusted' : ~ByGrace(d)' /\ row'.until = seen'[d].now + Grace
  <2>1. CASE row'.until = CarriedDeadline(b)
    BY <1>6, <2>1
  <2>2. CASE row'.until # CarriedDeadline(b)
    <3>1. row'.until = row.until /\ row.current # Login
      BY <1>1, <1>3, <2>2
    <3> QED
      BY <1>7, <3>1
  <2> QED
    BY <2>1, <2>2
<1>10. ASSUME WindowWhole PROVE Whole(row)'
  <2>1. row.previous = fresh[b].previous /\ row.until = fresh[b].until /\ Whole(seen[b].row)
    BY <1>2, <1>10 DEF WindowWhole, SameWindow
  <2>2. row'.previous = CarriedToken(b) /\ row'.until = CarriedDeadline(b)
    BY <1>1, <2>1
  <2>3. \E d \in Trusted' :
          /\ ~ByGrace(d)' /\ key'[d] = CarriedToken(b)
          /\ CarriedDeadline(b) = seen'[d].now + Grace
    BY <2>1, CarriedWindow
  <2> QED
    BY <2>2, <2>3 DEF Whole
<1> QED
  BY <1>1, <1>8, <1>9, <1>10 DEF Parts, Opened, Dated

(* The committed row, whatever a step does to it.                          *)
LEMMA RowWindow ==
  ASSUME TypeInv, WindowRows, [Next]_vars
  PROVE  /\ Parts(row)' /\ (WindowWhole => Whole(row)')
         /\ \/ row'.current = row.current /\ SameWindow(row', row)
            \/ \E b \in Tabs : Commit(b) /\ locker = b /\ row'.current = b
<1>1. row \in Row /\ Parts(row)
  BY DEF TypeInv, Shape, WindowRows
<1>2. CASE row' = row \/ row' = [row EXCEPT !.status = "revoked"]
  <2>1. row'.current = row.current /\ SameWindow(row', row)
    BY <1>1, <1>2 DEF Row, SameWindow
  <2>2. Parts(row)'
    BY <1>1, <2>1, PartsStay DEF Parts, Opened, Dated, SameWindow
  <2>3. WindowWhole => Whole(row)'
    <3> SUFFICES ASSUME WindowWhole, row'.current # Login
                 PROVE  \E d \in Trusted' : /\ ~ByGrace(d)' /\ key'[d] = row'.previous
                                            /\ row'.until = seen'[d].now + Grace
      BY DEF Whole
    <3>1. Whole(row) /\ row.current # Login
      BY <2>1 DEF WindowWhole
    <3>2. \E d \in Trusted' :
            ~ByGrace(d)' /\ key'[d] = row.previous /\ row.until = seen'[d].now + Grace
      BY <1>1, <3>1, WindowsStay
    <3> QED
      BY <2>1, <3>2 DEF SameWindow
  <2> QED
    BY <2>1, <2>2, <2>3
<1>3. ASSUME NEW b \in Tabs, Commit(b), locker = b, row' = Rotated(row, b)
      PROVE  Parts(row)' /\ (WindowWhole => Whole(row)') /\ row'.current = b
  BY <1>3, RotatedWindow, RotatedRow DEF TypeInv
<1> QED
  BY <1>2, <1>3, RowSteps

(* A token that was committed stays so.                                    *)
LEMMA CommittedStays ==
  ASSUME TypeInv, [Next]_vars, NEW b \in Tabs
  PROVE  pc[b] = "accepted" => pc'[b] = "accepted"
<1> SUFFICES ASSUME pc[b] = "accepted" PROVE pc'[b] = "accepted"
  OBVIOUS
<1>1. ASSUME NEW a \in Tabs, Renewal(a) \/ LoseCommit(a) PROVE pc'[b] = pc[b]
  <2>1. Live(a) /\ \A r \in Requests : r # a => pc'[r] = pc[r]
    BY <1>1, RenewalMoves
  <2> QED
    BY <2>1, Names DEF Live, Ended
<1>2. ASSUME NEW a \in Tabs, Land(a) \/ Drop(a) PROVE pc' = pc
  BY <1>2 DEF Land, Drop, serverVars
<1>3. ASSUME NEW a \in Tabs, NEW p \in Processes, Ask(a, p) PROVE pc'[b] = pc[b]
  <2>1. pc[a] = "idle"
    BY <1>3 DEF Ask, TypeInv, InOrder
  <2> QED
    BY <1>3, <2>1, Names DEF Ask, TypeInv, Shape
<1>4. ASSUME NEW p \in Processes, Restart(p) PROVE pc' = pc
  BY <1>4 DEF Restart, serverVars
<1>5. ASSUME BeginSignOut \/ SigningOut PROVE pc'[b] = pc[b]
  BY <1>5, Names DEF BeginSignOut, SigningOut, RevokeSession, SignedOut, CommitSignOut,
                     TypeInv, Shape
<1>6. ASSUME Tick \/ UNCHANGED vars PROVE pc' = pc
  BY <1>6 DEF Tick, vars, serverVars
<1> QED
  BY <1>1, <1>2, <1>3, <1>4, <1>5, <1>6 DEF Next

LEMMA WindowRowsStep ==
  ASSUME TypeInv, WindowRows, [Next]_vars
  PROVE  WindowRows'
<1>1. /\ row \in Row /\ Parts(row) /\ Committed(row.current)
      /\ FirstRow \in Row /\ Parts(FirstRow) /\ Committed(FirstRow.current)
      /\ FirstRow.current = Login /\ FirstRow.previous = Nobody /\ FirstRow.until = 0
  BY FirstRowTypes DEF FirstRow, Parts, Committed, TypeInv, Shape, WindowRows
<1>2. \A t \in Tokens : Committed(t) => t = Login \/ (t \in Tabs /\ pc'[t] = "accepted")
  BY CommittedStays DEF Committed
<1>3. PICK kind \in {"same", "rotated"} :
        /\ kind = "same" => row'.current = row.current /\ SameWindow(row', row)
        /\ kind = "rotated" => \E b \in Tabs : Commit(b) /\ row'.current = b
  BY RowWindow
<1>4. Parts(row)' /\ Committed(row.current)'
  <2>1. Committed(row.current)'
    <3>1. CASE kind = "same"
      BY <1>1, <1>2, <1>3, <3>1 DEF Committed, Row
    <3>2. CASE kind = "rotated"
      <4>1. PICK b \in Tabs : Commit(b) /\ row'.current = b
        BY <1>3, <3>2
      <4>2. pc'[b] = "accepted"
        BY <4>1, Names DEF Commit, TypeInv, Shape
      <4> QED
        BY <4>1, <4>2 DEF Committed
    <3> QED
      BY <3>1, <3>2
  <2> QED
    BY <2>1, RowWindow
<1>5. ASSUME NEW b \in Tabs
      PROVE  /\ Parts(seen[b].row)' /\ Parts(fresh[b])' /\ Committed(fresh[b].current)'
             /\ seen'[b].row \in Row /\ fresh'[b] \in {fresh[b], row, FirstRow}
  <2>1. /\ seen[b].row \in Row /\ Parts(seen[b].row) /\ fresh[b] \in Row /\ Parts(fresh[b])
        /\ Committed(fresh[b].current)
    BY DEF WindowRows, TypeInv, Shape, Decided
  <2>2. seen'[b].row \in Row /\ Parts(seen'[b].row)
    BY <1>1, <2>1, ReadRows
  <2>3. /\ fresh'[b] \in Row /\ Parts(fresh'[b]) /\ Committed(fresh'[b].current)
        /\ fresh'[b] \in {fresh[b], row, FirstRow}
    BY <1>1, <2>1, ReadRows
  <2>4. Parts(seen[b].row)'
    BY <2>2, PartsStay DEF Parts, Opened, Dated
  <2>5. Parts(fresh[b])'
    BY <2>3, PartsStay DEF Parts, Opened, Dated
  <2>6. Committed(fresh[b].current)'
    BY <1>2, <2>3 DEF Committed, Row
  <2> QED
    BY <2>2, <2>3, <2>4, <2>5, <2>6
<1>6. ASSUME NEW b \in Tabs, row'.current = Login PROVE fresh'[b].current = Login
  <2>1. row.current = Login
    BY <1>3, <1>6, Names
  <2> QED
    BY <1>1, <1>5, <2>1 DEF WindowRows
<1>7. ASSUME NEW b \in Tabs, fresh'[b].current = row'.current
      PROVE  SameWindow(fresh'[b], row')
  <2>1. CASE kind = "same"
    <3>1. row'.current = row.current /\ SameWindow(row', row)
      BY <1>3, <2>1
    <3>2. SameWindow(fresh'[b], row)
      <4>1. fresh[b].current = row.current => SameWindow(fresh[b], row)
        BY DEF WindowRows
      <4>2. row.current = Login => row.previous = Nobody /\ row.until = 0
        BY <1>1 DEF Parts
      <4> QED
        BY <1>1, <1>5, <1>7, <3>1, <4>1, <4>2 DEF SameWindow
    <3> QED
      BY <3>1, <3>2 DEF SameWindow
  <2>2. CASE kind = "rotated"
    <3>1. PICK c \in Tabs : Commit(c) /\ row'.current = c
      BY <1>3, <2>2
    <3>2. pc[c] = "answered" /\ c # Login
      BY <3>1, Names DEF Commit
    <3>3. fresh[b].current # c /\ row.current # c /\ FirstRow.current # c
      BY <1>1, <3>2 DEF WindowRows, Committed
    <3> QED
      BY <1>5, <1>7, <3>1, <3>3
  <2> QED
    BY <2>1, <2>2
<1>8. ASSUME NEW b \in Tabs, pc'[b] \in Deciding
      PROVE  ByGrace(b)' \/ seen'[b].row.current = key'[b]
  <2>1. CASE seen'[b] = seen[b] /\ pc[b] \in Deciding
    <3>1. key'[b] = key[b]
      BY <2>1, AcceptanceStays DEF Deciding
    <3>2. ByGrace(b) \/ seen[b].row.current = key[b]
      BY <2>1 DEF WindowRows
    <3> QED
      BY <2>1, <3>1, <3>2 DEF ByGrace
  <2>2. CASE seen'[b] = [row |-> row, now |-> clock] /\ Trust(b)
    <3>1. key'[b] = key[b]
      BY <2>2, AcceptanceStays DEF Trust
    <3> QED
      BY <2>2, <3>1 DEF Trust, Known, WithinGrace, ByGrace
  <2>3. ~Mistrust(b)
    BY <1>8, Names DEF Mistrust, TypeInv, Shape, Deciding
  <2> QED
    BY <1>8, <2>1, <2>2, <2>3, ReadRows
<1> QED
  BY <1>4, <1>5, <1>6, <1>7, <1>8 DEF WindowRows

(* An update that waited out another rotation is on the record, and the    *)
(* record is kept.                                                         *)
LEMMA RecordKept ==
  ASSUME TypeInv, [Next]_vars, "overtaken" \notin mishaps'
  PROVE  "overtaken" \notin mishaps /\ \A b \in Tabs : Update(b) => ~Overtaken(b)
<1>1. ASSUME NEW b \in Tabs, Renewal(b) \/ LoseCommit(b) PROVE mishaps \subseteq mishaps'
  BY <1>1, RenewalMoves
<1>2. ASSUME NEW b \in Tabs, Land(b) \/ Drop(b) PROVE mishaps' = mishaps
  BY <1>2 DEF Land, Drop
<1>3. ASSUME NEW b \in Tabs, NEW p \in Processes, Ask(b, p) PROVE mishaps \subseteq mishaps'
  BY <1>3 DEF Ask
<1>4. ASSUME NEW p \in Processes, Restart(p) PROVE mishaps \subseteq mishaps'
  BY <1>4 DEF Restart
<1>5. ASSUME BeginSignOut \/ SigningOut \/ Tick \/ UNCHANGED vars
      PROVE  mishaps \subseteq mishaps'
  BY <1>5 DEF BeginSignOut, SigningOut, RevokeSession, SignedOut, CommitSignOut, Tick, vars
<1>6. \A b \in Tabs : Update(b) => ~Overtaken(b)
  BY DEF Update
<1> QED
  BY <1>1, <1>2, <1>3, <1>4, <1>5, <1>6 DEF Next

(* Who holds the lock took it by its update, and found the row since then. *)
LEMMA LockTaken ==
  ASSUME TypeInv, [Next]_vars, NEW b \in Tabs, locker' = b
  PROVE  \/ locker = b /\ fresh'[b] = fresh[b] /\ ~Commit(b)
         \/ Update(b) /\ locker = Nobody /\ row' = row /\ fresh' = fresh
<1>1. b # Nobody /\ b # SignOut /\ b \in Requests
  BY Names
<1>2. ASSUME NEW a \in Tabs, Renewal(a), a # b PROVE locker = b /\ fresh'[b] = fresh[b]
  BY <1>1, <1>2, RenewalLocks, RenewalMoves
<1>3. ASSUME Renewal(b)
      PROVE  \/ locker = b /\ fresh'[b] = fresh[b] /\ ~Commit(b)
             \/ Update(b) /\ locker = Nobody /\ row' = row /\ fresh' = fresh
  <2>1. CASE Update(b)
    BY <2>1 DEF Update
  <2>2. CASE Commit(b)
    BY <1>1, <2>2 DEF Commit, Released
  <2>3. CASE ReadFresh(b)
    <3>1. locker = b /\ pc[b] = "rotate"
      BY <2>3 DEF ReadFresh
    <3> QED
      BY <1>1, <3>1 DEF TypeInv, InOrder
  <2>4. CASE RefuseOver(b) \/ Mistrust(b) \/ RevokeFamily(b) \/ Trust(b) \/ Check(b) \/ Answer(b)
    <3>1. locker = b /\ fresh' = fresh /\ pc[b] # "answered"
      BY <2>4 DEF RefuseOver, Mistrust, RevokeFamily, Trust, Check, Answer
    <3> QED
      BY <3>1 DEF Commit
  <2> QED
    BY <1>3, <2>1, <2>2, <2>3, <2>4 DEF Renewal
<1>4. ASSUME NEW a \in Tabs, LoseCommit(a) PROVE locker = b /\ fresh'[b] = fresh[b] /\ a # b
  BY <1>1, <1>4 DEF LoseCommit, Released, TypeInv, Shape
<1>5. ASSUME NEW a \in Tabs, Land(a) \/ Drop(a) PROVE UNCHANGED <<pc, locker, fresh>>
  BY <1>5 DEF Land, Drop, serverVars
<1>6. ASSUME NEW a \in Tabs, NEW p \in Processes, Ask(a, p)
      PROVE  UNCHANGED <<locker, fresh>> /\ pc'[b] \in {pc[b], "sent"}
  BY <1>1, <1>6 DEF Ask, TypeInv, Shape
<1>7. ASSUME NEW p \in Processes, Restart(p) PROVE UNCHANGED <<pc, locker, fresh>>
  BY <1>7 DEF Restart, serverVars
<1>8. ASSUME BeginSignOut \/ SigningOut
      PROVE  locker = b /\ fresh' = fresh /\ pc'[b] = pc[b]
  BY <1>1, <1>8 DEF BeginSignOut, SigningOut, RevokeSession, SignedOut, CommitSignOut,
                    Released, TypeInv, Shape
<1>9. ASSUME Tick \/ UNCHANGED vars PROVE UNCHANGED <<pc, locker, fresh>>
  BY <1>9 DEF Tick, vars, serverVars
<1>10. Commit(b) => locker' # b
  BY <1>1 DEF Commit, Released
<1> QED
  BY <1>2, <1>3, <1>4, <1>5, <1>6, <1>7, <1>8, <1>9, <1>10 DEF Next

LEMMA WindowWholeStep ==
  ASSUME TypeInv, WindowRows, WindowWhole, [Next]_vars, "overtaken" \notin mishaps'
  PROVE  WindowWhole'
<1>1. Whole(row)'
  BY RowWindow
<1>2. ASSUME NEW b \in Tabs PROVE Whole(seen[b].row)'
  <2>1. /\ row \in Row /\ Whole(row) /\ seen[b].row \in Row /\ Whole(seen[b].row)
    BY DEF WindowWhole, TypeInv, Shape, Decided
  <2>2. seen'[b].row \in Row /\ Whole(seen'[b].row)
    BY <2>1, ReadRows
  <2>3. seen'[b].row.current # Login => \E d \in Trusted' :
          /\ ~ByGrace(d)' /\ key'[d] = seen'[b].row.previous
          /\ seen'[b].row.until = seen'[d].now + Grace
    BY <2>2, WindowsStay
  <2> QED
    BY <2>3 DEF Whole
<1>3. ASSUME NEW b \in Tabs, locker' = b PROVE row'.current = fresh'[b].current
  <2>1. CASE locker = b /\ fresh'[b] = fresh[b] /\ ~Commit(b)
    <3>1. row.current = fresh[b].current
      BY <2>1 DEF WindowWhole
    <3>2. row'.current = row.current
      BY <2>1, RowWindow
    <3> QED
      BY <2>1, <3>1, <3>2
  <2>2. CASE Update(b) /\ row' = row /\ fresh' = fresh
    BY <2>2, RecordKept DEF Overtaken
  <2> QED
    BY <1>3, <2>1, <2>2, LockTaken
<1> QED
  BY <1>1, <1>2, <1>3 DEF WindowWhole

LEMMA WindowInit == Init => WindowInv
<1> SUFFICES ASSUME Init PROVE WindowInv
  OBVIOUS
<1>1. /\ row = FirstRow /\ FirstRow.current = Login /\ FirstRow.previous = Nobody
      /\ FirstRow.until = 0 /\ locker = Nobody
      /\ \A b \in Tabs : seen[b].row = FirstRow /\ fresh[b] = FirstRow /\ pc[b] = "idle"
  BY Names DEF Init, FirstRow, Unread
<1>2. WindowRows
  BY <1>1 DEF WindowRows, Parts, Committed, SameWindow, Deciding
<1>3. WindowWhole
  BY <1>1, Names DEF WindowWhole, Whole
<1> QED
  BY <1>2, <1>3, TypeInit DEF WindowInv

LEMMA WindowAlways == Spec => []WindowInv
<1>1. WindowInv /\ [Next]_vars => WindowInv'
  <2> SUFFICES ASSUME WindowInv, [Next]_vars PROVE WindowInv'
    OBVIOUS
  <2>1. TypeInv' /\ WindowRows'
    BY ShapeStep, InOrderStep, WindowRowsStep DEF WindowInv, TypeInv
  <2>2. "overtaken" \notin mishaps' => WindowWhole'
    BY RecordKept, WindowWholeStep DEF WindowInv
  <2> QED
    BY <2>1, <2>2 DEF WindowInv
<1> QED
  BY <1>1, WindowInit, PTL DEF Spec

(* Overtaken or not (WindowsOpenedOnce), only a token that was accepted    *)
(* while current is accepted by grace, and within a grace of such an       *)
(* acceptance.                                                             *)
THEOREM WindowsAlwaysOpenedOnce == Spec => []WindowsOpenedOnce
<1>1. WindowInv => WindowsOpenedOnce
  <2> SUFFICES ASSUME WindowInv, NEW b \in Trusted, ByGrace(b)
               PROVE  /\ \E d \in Trusted : ~ByGrace(d) /\ key[d] = key[b]
                      /\ \E d \in Trusted : ~ByGrace(d) /\ seen[b].now <= seen[d].now + Grace
    BY DEF WindowsOpenedOnce
  <2>1. /\ seen[b].row.previous = key[b] /\ seen[b].now <= seen[b].row.until
        /\ Parts(seen[b].row) /\ key[b] \in Tokens
    BY DEF ByGrace, WindowInv, WindowRows, TypeInv, Shape, Trusted
  <2>2. Opened(seen[b].row.previous) /\ Dated(seen[b].row.until)
    BY <2>1, Names DEF Parts
  <2> QED
    BY <2>1, <2>2 DEF Opened, Dated
<1> QED
  BY <1>1, WindowAlways, PTL

(* And the grace window never moves (WindowAnchored), however often a      *)
(* token is replayed and whatever fails, unless an update waited for the   *)
(* row while another rotation wrote it.                                    *)
THEOREM WindowAlwaysAnchored == Spec => []WindowAnchored
<1>1. WindowInv => ("overtaken" \notin mishaps => WindowNeverMoves)
  <2> SUFFICES ASSUME WindowInv, "overtaken" \notin mishaps, NEW b \in Trusted, ByGrace(b)
               PROVE  \E d \in Trusted : /\ ~ByGrace(d) /\ key[d] = key[b]
                                         /\ seen[b].now <= seen[d].now + Grace
    BY DEF WindowNeverMoves
  <2>1. /\ seen[b].row.previous = key[b] /\ seen[b].now <= seen[b].row.until
        /\ Parts(seen[b].row) /\ Whole(seen[b].row) /\ key[b] \in Tokens
    BY DEF ByGrace, WindowInv, WindowRows, WindowWhole, TypeInv, Shape, Trusted
  <2>2. seen[b].row.current # Login
    BY <2>1, Names DEF Parts
  <2> QED
    BY <2>1, <2>2 DEF Whole
<1>2. WindowInv /\ WindowsOpenedOnce => WindowAnchored
  BY <1>1 DEF WindowAnchored
<1> QED
  BY <1>2, WindowAlways, WindowsAlwaysOpenedOnce, PTL

-----------------------------------------------------------------------------
(* What SessionKept excludes does not go away: a calm run was calm.        *)
LEMMA CalmBefore ==
  ASSUME TypeInv, [Next]_vars, Calm'
  PROVE  /\ Calm
         /\ \A p \in Processes : ~Restart(p)
         /\ \A b \in Tabs : ~LoseCommit(b)
<1>1. ASSUME NEW b \in Tabs, LoseCommit(b) PROVE FALSE
  BY <1>1 DEF LoseCommit, Calm
<1>2. ASSUME NEW p \in Processes, Restart(p) PROVE FALSE
  BY <1>2 DEF Restart, Calm
<1>3. ASSUME NEW b \in Tabs, Renewal(b) PROVE Calm
  <2>1. host' = host /\ mishaps \subseteq mishaps'
    BY <1>3, RenewalMoves
  <2> QED
    BY <2>1 DEF Calm
<1>4. ASSUME NEW b \in Tabs, Land(b) \/ Drop(b) PROVE Calm
  BY <1>4 DEF Land, Drop, Calm
<1>5. ASSUME NEW b \in Tabs, NEW p \in Processes, Ask(b, p) PROVE Calm
  <2>1. host[b] = Nobody /\ \A a \in Tabs : a # b => host'[a] = host[a]
    BY <1>5 DEF Ask, TypeInv, Shape, InOrder
  <2>2. mishaps \subseteq mishaps'
    BY <1>5 DEF Ask
  <2> QED
    BY <2>1, <2>2 DEF Calm
<1>6. ASSUME BeginSignOut \/ SigningOut \/ Tick \/ UNCHANGED vars PROVE Calm
  <2>1. host' = host /\ mishaps \subseteq mishaps'
    BY <1>6 DEF BeginSignOut, SigningOut, RevokeSession, SignedOut, CommitSignOut, Tick, vars,
                browserVars
  <2> QED
    BY <2>1 DEF Calm
<1> QED
  BY <1>1, <1>2, <1>3, <1>4, <1>5, <1>6 DEF Next

(* A request that is not live is not where a live one is.                  *)
LEMMA LivePlaces ==
  \A r \in Requests :
    pc[r] \in {"sent", "check", "rotate", "update", "written", "answered", "mistrust",
              "revoke", "revoked"} => Live(r)
BY DEF Live, Ended

(* A renewal that is alone keeps it all.                                   *)
LEMMA RenewalKeeps ==
  ASSUME TypeInv, Single, [Next]_vars, NEW b \in Tabs, Renewal(b)
  PROVE  Single'
<1>1. /\ \A r \in Requests : r # b => pc'[r] = pc[r]
      /\ \A a \in Tabs : a # b => outcome'[a] = outcome[a]
      /\ UNCHANGED <<clock, cookie, memo, tab, key, flight, host>>
      /\ Live(b) /\ pc'[b] # "idle" /\ pc[b] # "idle"
  BY RenewalMoves DEF Live
<1>2. /\ \A r \in Requests : r # b => ~Live(r)
      /\ row.status = "active" => row.current = key[b]
      /\ row.status # "active" => row'.status # "active"
      /\ b \in Requests
  BY <1>1, EndedStep, Names DEF Single, OneByOne, HoldsCurrent
<1>3. OneByOne' /\ InMemory'
  BY <1>1, <1>2, Names DEF Single, OneByOne, InMemory, Live
<1>4. ~Mistrust(b)
  BY <1>2 DEF Mistrust, Known
<1>5. Mistrusted' = {} /\ ~RevokeFamily(b)
  <2>1. pc[b] \notin {"mistrust", "mistrusted"} /\ Mistrusted = {}
    BY DEF Single, Mistrusted
  <2>2. pc'[b] \notin {"mistrust", "mistrusted"} /\ ~RevokeFamily(b)
    <3>1. ~RevokeFamily(b)
      BY <2>1 DEF RevokeFamily
    <3>2. pc'[b] \notin {"mistrust", "mistrusted"}
      <4> USE Names DEF TypeInv, Shape
      <4>1. CASE RefuseOver(b) \/ Trust(b)
        BY <4>1 DEF RefuseOver, Finish, Trust
      <4>2. CASE Check(b) \/ ReadFresh(b)
        BY <4>2 DEF Check, ReadFresh
      <4>3. CASE Update(b) \/ Answer(b)
        BY <4>3 DEF Update, Answer
      <4>4. CASE Commit(b)
        BY <4>4 DEF Commit
      <4> QED
        BY <1>4, <3>1, <4>1, <4>2, <4>3, <4>4 DEF Renewal
    <3> QED
      BY <3>1, <3>2
  <2> QED
    BY <1>1, <2>1, <2>2, Names DEF Mistrusted
<1>6. ASSUME ~Commit(b) PROVE row' = row
  BY <1>4, <1>5, <1>6 DEF Renewal, RefuseOver, Trust, Check, ReadFresh, Update, Answer
<1>7. ASSUME Commit(b)
      PROVE  /\ pc[b] = "answered" /\ pc'[b] = "accepted" /\ outcome' = outcome
             /\ row'.status = "active" => row.status = "active" /\ row'.current = b
  <2>1. CASE locker = b
    BY <1>7, <2>1, RotatedRow, Names DEF Commit, TypeInv, Shape
  <2>2. CASE locker # b
    <3>1. row.status # "active" /\ row' = row
      BY <1>7, <2>2 DEF Commit, Single, HoldsLock
    <3> QED
      BY <1>7, <3>1, Names DEF Commit, TypeInv, Shape
  <2> QED
    BY <2>1, <2>2
<1>8. HoldsCurrent'
  <2> SUFFICES ASSUME NEW a \in Tabs, Live(a)', row'.status = "active"
               PROVE  row'.current = key'[a]
    BY DEF HoldsCurrent
  <2>1. a = b
    BY <1>1, <1>2, Names DEF Live
  <2>2. ~Commit(b)
    BY <1>7, <2>1 DEF Live, Ended
  <2> QED
    BY <1>1, <1>2, <1>6, <2>1, <2>2
<1>9. HoldsLock'
  <2> SUFFICES ASSUME NEW a \in Tabs, pc'[a] \in {"written", "answered"}
               PROVE  locker' = a \/ row'.status # "active"
    BY DEF HoldsLock
  <2>1. a = b
    BY <1>1, <1>2, LivePlaces, Names
  <2>2. CASE Check(b) \/ Update(b)
    BY <2>1, <2>2, Names DEF Check, Update, TypeInv, Shape
  <2>3. CASE Answer(b)
    BY <2>1, <2>3 DEF Answer, Single, HoldsLock
  <2>4. CASE RefuseOver(b) \/ Trust(b) \/ ReadFresh(b) \/ Commit(b)
    BY <2>1, <2>4, Names DEF RefuseOver, Finish, Trust, ReadFresh, Commit, TypeInv, Shape
  <2> QED
    BY <1>4, <1>5, <2>2, <2>3, <2>4 DEF Renewal
<1>10. ASSUME NEW t \in Tokens, Usable(t) PROVE Usable(t)'
  <2>1. CASE row.status # "active"
    BY <1>2, <2>1 DEF Usable
  <2>2. CASE Presented(t)
    <3>1. PICK a \in Tabs : pc[a] # "idle" /\ key[a] = t
      BY <2>2 DEF Presented
    <3>2. pc'[a] # "idle" /\ key'[a] = t
      BY <1>1, <3>1, Names
    <3> QED
      BY <3>2 DEF Usable, Presented
  <2>3. CASE row.status = "active" /\ row.current = t
    <3>1. pc'[b] # "idle" /\ key'[b] = t
      BY <1>1, <1>2, <2>3
    <3> QED
      BY <3>1 DEF Usable, Presented
  <2>4. CASE t \in Tabs /\ pc[t] = "answered"
    <3>1. t = b
      BY <1>2, <2>4, LivePlaces, Names
    <3>2. CASE Commit(b)
      BY <1>7, <3>1, <3>2 DEF Usable
    <3>3. CASE ~Commit(b)
      BY <2>4, <3>1, <3>3, <1>4, <1>5 DEF Renewal, RefuseOver, Trust, Check, ReadFresh, Update,
                                            Answer
    <3> QED
      BY <3>2, <3>3
  <2> QED
    BY <1>10, <2>1, <2>2, <2>3, <2>4 DEF Usable
<1>11. Minted'
  <2> SUFFICES ASSUME NEW a \in Tabs, outcome'[a] = "ok"
               PROVE  pc'[a] \in {"answered", "accepted", "lost"} /\ Usable(a)'
    BY DEF Minted
  <2>1. CASE outcome[a] = "ok"
    <3>1. pc[a] \in {"answered", "accepted", "lost"} /\ Usable(a)'
      BY <2>1, <1>10, Names DEF Single, Minted
    <3>2. CASE a = b
      <4>1. pc[b] = "answered"
        BY <1>1, <3>1, <3>2 DEF Live, Ended
      <4>2. Commit(b)
        BY <4>1, <1>4, <1>5 DEF Renewal, RefuseOver, Trust, Check, ReadFresh, Update, Answer
      <4> QED
        BY <1>7, <3>1, <3>2, <4>2
    <3>3. CASE a # b
      BY <1>1, <3>1, <3>3, Names
    <3> QED
      BY <3>2, <3>3
  <2>2. CASE outcome[a] # "ok"
    <3>1. a = b
      BY <1>1, <2>2
    <3>2. Answer(b)
      BY <2>2, <3>1, <1>4, <1>5 DEF Renewal, RefuseOver, Finish, Trust, Check, ReadFresh, Update,
                                      Commit, TypeInv, Shape
    <3>3. pc'[a] = "answered"
      BY <3>1, <3>2, Names DEF Answer, TypeInv, Shape
    <3> QED
      BY <3>3 DEF Usable
  <2> QED
    BY <2>1, <2>2
<1>12. Carried'
  <2>1. Usable(Login)'
    BY <1>10, Names DEF Single, Carried
  <2>2. ASSUME cookie \in Tabs PROVE outcome'[cookie] = "ok"
    <3>1. outcome[cookie] = "ok" /\ pc[cookie] \in {"answered", "accepted", "lost"}
      BY <2>2 DEF Single, Carried, Minted
    <3>2. CASE cookie = b
      <4>1. pc[b] = "answered"
        BY <1>1, <3>1, <3>2 DEF Live, Ended
      <4>2. Commit(b)
        BY <4>1, <1>4, <1>5 DEF Renewal, RefuseOver, Trust, Check, ReadFresh, Update, Answer
      <4> QED
        BY <1>7, <3>1, <4>2
    <3>3. CASE cookie # b
      BY <1>1, <2>2, <3>1, <3>3
    <3> QED
      BY <3>2, <3>3
  <2> QED
    BY <1>1, <2>1, <2>2 DEF Carried
<1> QED
  BY <1>3, <1>5, <1>8, <1>9, <1>11, <1>12 DEF Single

(* So does a tab that asks: a token its process has not presented is the   *)
(* current one, for nothing else is in flight.                             *)
LEMMA AskKeeps ==
  ASSUME TypeInv, Calm', Single, NEW b \in Tabs, NEW p \in Processes, Ask(b, p)
  PROVE  Single'
<1>1. /\ row' = row /\ locker' = locker /\ outcome' = outcome /\ cookie' = cookie
      /\ cookie \in Tokens
      /\ \A a \in Tabs : a # b => key'[a] = key[a] /\ host'[a] = host[a]
      /\ key'[b] = cookie /\ host'[b] = p
      /\ pc[b] = "idle" /\ b \in Requests /\ b # Nobody
      /\ \A r \in Requests : r # b => pc'[r] = pc[r]
  BY Names DEF Ask, TypeInv, Shape, InOrder
<1>2. ASSUME NEW t \in Tokens, Usable(t) PROVE Usable(t)'
  <2>1. CASE Presented(t)
    <3>1. PICK a \in Tabs : pc[a] # "idle" /\ key[a] = t
      BY <2>1 DEF Presented
    <3>2. pc'[a] # "idle" /\ key'[a] = t
      BY <1>1, <3>1, Names
    <3> QED
      BY <3>2 DEF Usable, Presented
  <2>2. CASE t \in Tabs /\ pc[t] = "answered"
    BY <1>1, <2>2, Names DEF Usable
  <2> QED
    BY <1>1, <1>2, <2>1, <2>2 DEF Usable
<1>3. HoldsLock' /\ Minted' /\ Carried' /\ Mistrusted' = {}
  <2>1. pc'[b] \in {"idle", "sent"}
    BY <1>1 DEF Ask, TypeInv, Shape
  <2>2. HoldsLock' /\ Mistrusted' = {}
    BY <1>1, <2>1, Names DEF Single, HoldsLock, Mistrusted
  <2>3. Minted' /\ Carried'
    BY <1>1, <1>2, Names DEF Single, Minted, Carried
  <2> QED
    BY <2>2, <2>3
<1>4. CASE memo[p][cookie] # Nobody
  <2>1. pc' = pc /\ memo' = memo
    BY <1>4 DEF Ask, Remembered
  <2>2. OneByOne' /\ InMemory' /\ HoldsCurrent'
    BY <1>1, <2>1 DEF Single, OneByOne, InMemory, HoldsCurrent, Live
  <2> QED
    BY <1>3, <2>2 DEF Single
<1>5. CASE memo[p][cookie] = Nobody
  <2>1. /\ pc'[b] = "sent" /\ memo'[p][cookie] = b
        /\ \A q \in Processes, t \in Tokens : q # p \/ t # cookie => memo'[q][t] = memo[q][t]
        /\ mishaps' = mishaps \cup (IF Open = {} THEN {} ELSE {"overlap"})
    BY <1>1, <1>5 DEF Ask, Remembered, TypeInv, Shape
  <2>2. Open = {}
    BY <2>1 DEF Calm
  <2>3. \A r \in Requests : ~Live(r)
    BY <2>2 DEF Open, Live
  <2>4. ~Presented(cookie)
    <3>1. SUFFICES ASSUME NEW a \in Tabs, pc[a] # "idle", key[a] = cookie PROVE FALSE
      BY DEF Presented
    <3>2. host[a] \in Processes /\ memo[host[a]][cookie] = a
      <4>1. host[a] \in Processes /\ memo[host[a]][key[a]] = a
        BY <3>1 DEF Single, InMemory
      <4> QED
        BY <3>1, <4>1
    <3> a # b
      BY <1>1, <3>1
    <3>3. host'[a] = host[a] /\ host'[b] = p /\ host'[a] # Nobody /\ host'[b] # Nobody
      BY <1>1, <3>2, Names
    <3>4. host[a] = p
      BY <3>3 DEF Calm
    <3> QED
      BY <1>5, <3>2, <3>4, Names
  <2>5. Usable(cookie)
    BY <1>1 DEF Single, Carried, Minted, Tokens
  <2>6. row.status = "active" => row.current = cookie
    BY <2>3, <2>4, <2>5, LivePlaces, Names DEF Usable
  <2>7. HoldsCurrent'
    BY <1>1, <2>3, <2>6, Names DEF HoldsCurrent, Live
  <2>8. OneByOne'
    BY <1>1, <2>3 DEF OneByOne, Live
  <2>9. InMemory'
    <3> SUFFICES ASSUME NEW a \in Tabs, pc'[a] # "idle"
                 PROVE  host'[a] \in Processes /\ memo'[host'[a]][key'[a]] = a
      BY DEF InMemory
    <3>1. CASE a = b
      BY <1>1, <2>1, <3>1
    <3>2. CASE a # b
      <4>1. /\ host'[a] = host[a] /\ key'[a] = key[a] /\ host[a] \in Processes
            /\ memo[host[a]][key[a]] = a /\ key[a] \in Tokens
        BY <1>1, <3>2, Names DEF Single, InMemory, TypeInv, Shape
      <4>2. host[a] # p \/ key[a] # cookie
        BY <1>5, <4>1, Names
      <4> QED
        BY <2>1, <4>1, <4>2
    <3> QED
      BY <3>1, <3>2
  <2> QED
    BY <1>3, <2>7, <2>8, <2>9 DEF Single
<1> QED
  BY <1>4, <1>5

(* And an answer that lands, or is dropped.                                *)
LEMMA LandKeeps ==
  ASSUME TypeInv, Single, NEW b \in Tabs, Land(b) \/ Drop(b)
  PROVE  Single'
<1>1. /\ UNCHANGED <<row, locker, pc, memo, key, host, outcome>>
      /\ cookie' = cookie \/ cookie' = Nobody \/ outcome[cookie'] = "ok"
  BY DEF Land, Drop, serverVars
<1>2. OneByOne' /\ InMemory' /\ HoldsCurrent' /\ HoldsLock' /\ Mistrusted' = {}
  BY <1>1 DEF Single, OneByOne, InMemory, HoldsCurrent, HoldsLock, Mistrusted, Live
<1>3. Minted' /\ Carried'
  BY <1>1, Names DEF Single, Minted, Carried, Usable, Presented
<1> QED
  BY <1>2, <1>3 DEF Single

(* And a sign-out, which only ends the session.                            *)
LEMMA SignOutKeeps ==
  ASSUME TypeInv, Calm', Single, [Next]_vars, BeginSignOut \/ SigningOut
  PROVE  Single'
<1>1. /\ UNCHANGED <<memo, key, host, outcome>>
      /\ \A a \in Tabs : pc'[a] = pc[a]
      /\ cookie' = cookie \/ cookie' = Nobody
      /\ SignOut \in Requests
  BY Names DEF BeginSignOut, SigningOut, RevokeSession, SignedOut, CommitSignOut, browserVars,
               TypeInv, Shape
<1>2. row.status # "active" => row'.status # "active"
  BY EndedStep
<1>3. row'.status = "active" => row'.current = row.current /\ row.status = "active"
  <2>1. row' = row \/ row' = [row EXCEPT !.status = "revoked"]
    BY DEF BeginSignOut, SigningOut, RevokeSession, SignedOut, CommitSignOut
  <2> QED
    BY <2>1 DEF TypeInv, Shape, Row
<1>4. InMemory' /\ Mistrusted' = {}
  BY <1>1 DEF Single, InMemory, Mistrusted
<1>5. HoldsCurrent'
  BY <1>1, <1>3 DEF Single, HoldsCurrent, Live
<1>6. HoldsLock'
  <2>1. \A a \in Tabs : locker = a => locker' = a
    BY Names DEF BeginSignOut, SigningOut, RevokeSession, SignedOut, CommitSignOut, Released
  <2> QED
    BY <1>1, <1>2, <2>1 DEF Single, HoldsLock
<1>7. ASSUME NEW t \in Tokens, Usable(t) PROVE Usable(t)'
  <2>1. Presented(t) => Presented(t)'
    BY <1>1 DEF Presented
  <2>2. row'.status = "active" => row'.current = row.current
    BY <1>3
  <2> QED
    BY <1>1, <1>2, <1>7, <2>1, <2>2 DEF Usable
<1>8. Minted' /\ Carried'
  BY <1>1, <1>7, Names DEF Single, Minted, Carried
<1>9. OneByOne'
  <2>1. CASE BeginSignOut
    <3>1. Open = {}
      BY <2>1 DEF BeginSignOut, Calm
    <3> QED
      BY <1>1, <3>1, Names DEF Open, OneByOne, Live
  <2>2. CASE SigningOut
    <3>1. Live(SignOut)
      BY <2>2, LivePlaces, <1>1 DEF SigningOut, RevokeSession, SignedOut, CommitSignOut
    <3> QED
      BY <1>1, <3>1, Names DEF Single, OneByOne, Live
  <2> QED
    BY <2>1, <2>2
<1> QED
  BY <1>4, <1>5, <1>6, <1>8, <1>9 DEF Single

LEMMA KeptStep == KeptInv /\ [Next]_vars => KeptInv'
<1> SUFFICES ASSUME KeptInv, [Next]_vars, Calm' PROVE Single'
  BY ShapeStep, InOrderStep DEF KeptInv, TypeInv
<1>1. TypeInv /\ Single
  BY CalmBefore DEF KeptInv
<1>2. ASSUME NEW b \in Tabs, Renewal(b) PROVE Single'
  BY <1>1, <1>2, RenewalKeeps
<1>3. ASSUME NEW b \in Tabs, Land(b) \/ Drop(b) PROVE Single'
  BY <1>1, <1>3, LandKeeps
<1>4. ASSUME NEW b \in Tabs, NEW p \in Processes, Ask(b, p) PROVE Single'
  BY <1>1, <1>4, AskKeeps
<1>5. CASE BeginSignOut \/ SigningOut
  BY <1>1, <1>5, SignOutKeeps
<1>6. CASE Tick \/ UNCHANGED vars
  <2>1. UNCHANGED <<row, locker, pc, memo, key, host, outcome, cookie>>
    BY <1>6 DEF Tick, vars, serverVars, browserVars
  <2>2. OneByOne' /\ InMemory' /\ HoldsCurrent' /\ HoldsLock' /\ Mistrusted' = {}
    BY <1>1, <2>1 DEF Single, OneByOne, InMemory, HoldsCurrent, HoldsLock, Mistrusted, Live
  <2>3. Minted' /\ Carried'
    BY <1>1, <2>1 DEF Single, Minted, Carried, Usable, Presented
  <2> QED
    BY <2>2, <2>3 DEF Single
<1> QED
  BY <1>1, <1>2, <1>3, <1>4, <1>5, <1>6, CalmBefore DEF Next

(* The web server presents each token once (SessionKept): one process that *)
(* does not restart, whose renewals do not overlap and whose commits are   *)
(* not lost, never gets its own session revoked.                           *)
THEOREM SessionAlwaysKept == Spec => []SessionKept
<1>1. Init => KeptInv
  <2> SUFFICES ASSUME Init PROVE KeptInv
    OBVIOUS
  <2>1. \A r \in Requests : pc[r] = "idle" /\ ~Live(r)
    BY DEF Init, Live
  <2>2. OneByOne /\ InMemory /\ HoldsCurrent /\ HoldsLock /\ Mistrusted = {}
    BY <2>1, Names DEF OneByOne, InMemory, HoldsCurrent, HoldsLock, Mistrusted
  <2>3. Minted /\ Carried
    BY Names DEF Init, Minted, Carried, Usable, FirstRow
  <2> QED
    BY <2>2, <2>3, TypeInit DEF KeptInv, Single
<1>2. KeptInv => SessionKept
  BY DEF KeptInv, Single, Calm, SessionKept
<1> QED
  BY <1>1, <1>2, KeptStep, PTL DEF Spec

=============================================================================
