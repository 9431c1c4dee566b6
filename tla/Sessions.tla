------------------------------ MODULE Sessions ------------------------------
(***************************************************************************)
(* internal/auth: Login, Refresh and Logout over refresh_sessions, as      *)
(* concurrent transactions, and the cookie by which a browser holds its    *)
(* refresh token.  A session stands for its row and for its token: the     *)
(* token is random and never repeated.  Refresh reads the row without a    *)
(* lock; its UPDATE by id takes the row lock and asks nothing more, and    *)
(* its writes are one step with the commit.                                *)
(***************************************************************************)
CONSTANTS
  Tx,       \* requests served at the same time
  Client,   \* browsers, each of which may send several requests at once
  Session,  \* ids of refresh_sessions rows
  None      \* no row, no cookie, no request

Call == [op : {"login", "refresh", "logout"}, from : Client,
         token : Session \cup {None}]

ASSUME SessionsAssumption == None \notin Tx \cup Session \cup Call

VARIABLES
  issued,   \* sessions that have a row
  revoked,  \* those whose revoked_at is set
  expired,  \* those whose expires_at has passed
  parent,   \* the session that a refresh replaced by this one (history)
  issuer,   \* the transaction that inserted it (history)
  lock,     \* holder of the row lock of an UPDATE
  cookie,   \* the refresh token each browser holds
  lost,     \* tokens of requests whose answer never arrived (history)
  pc, call,
  reply     \* the token an answer puts into the cookie, None to delete it

rows == <<issued, revoked, expired, parent, issuer>>
browser == <<cookie, lost>>
vars == <<rows, lock, browser, pc, call, reply>>

Init ==
  /\ issued = {}
  /\ revoked = {}
  /\ expired = {}
  /\ parent = [s \in Session |-> None]
  /\ issuer = [s \in Session |-> None]
  /\ lock = [s \in Session |-> None]
  /\ cookie = [c \in Client |-> None]
  /\ lost = {}
  /\ pc = [t \in Tx |-> "idle"]
  /\ call = [t \in Tx |-> None]
  /\ reply = [t \in Tx |-> None]

----------------------------------------------------------------------------
Goto(t, label) == pc' = [pc EXCEPT ![t] = label]

TakeNothing(t) == UNCHANGED lock
Take(t) == lock' = [lock EXCEPT ![call[t].token] = t]
Release(t) == lock' = [s \in Session |-> IF lock[s] = t THEN None ELSE lock[s]]

\* The request is over at the server, and the answer is on its way.
AnswerWith(t, r) ==
  /\ reply' = [reply EXCEPT ![t] = r]
  /\ Goto(t, "answer")
  /\ Release(t)
  /\ UNCHANGED <<call, browser>>

Finish(t) ==
  /\ Goto(t, "idle")
  /\ call' = [call EXCEPT ![t] = None]
  /\ reply' = [reply EXCEPT ![t] = None]
  /\ Release(t)

\* Every error of Refresh deletes the cookie; errors of Login and Logout
\* leave it alone.
Refuse(t) ==
  /\ UNCHANGED rows
  /\ \/ call[t].op = "refresh" /\ AnswerWith(t, None)
     \/ call[t].op # "refresh" /\ Finish(t) /\ UNCHANGED browser

\* A login whose password is wrong or whose account is inactive changes
\* nothing and is not a step.
FirstStatement(c) ==
  CASE c.op = "login" -> "issue"
    [] c.op # "login" /\ c.token = None -> "answer"
    [] c.op = "refresh" /\ c.token # None -> "lookup"
    [] c.op = "logout" /\ c.token # None -> "logout"

Begin(t) ==
  /\ pc[t] = "idle"
  /\ \E c \in Call :
       /\ c.token = IF c.op = "login" THEN None ELSE cookie[c.from]
       /\ call' = [call EXCEPT ![t] = c]
       /\ Goto(t, FirstStatement(c))
  /\ UNCHANGED <<rows, lock, browser, reply>>

UsableUntilExpiry(s) == s \notin expired
Usable(s) == s \notin revoked /\ s \notin expired

\* INVALID_REFRESH_TOKEN and REFRESH_TOKEN_EXPIRED.
Lookup(t) ==
  /\ pc[t] = "lookup"
  /\ \/ /\ Usable(call[t].token)
        /\ Goto(t, "revoke")
        /\ UNCHANGED <<rows, lock, browser, call, reply>>
     \/ ~Usable(call[t].token) /\ Refuse(t)

\* The UPDATE waits for the row, and succeeds on a session revoked meanwhile.
Revoke(t) ==
  /\ pc[t] = "revoke"
  /\ lock[call[t].token] = None
  /\ Take(t)
  /\ Goto(t, "issue")
  /\ UNCHANGED <<rows, browser, call, reply>>

RevokedBy(t) ==
  IF call[t].op = "refresh" THEN revoked \cup {call[t].token} ELSE revoked

\* The insert and the commit of a login or a refresh.  Without a free id (the
\* bound Session) the insert fails.
Issue(t) ==
  /\ pc[t] = "issue"
  /\ \/ \E s \in Session \ issued :
          /\ issued' = issued \cup {s}
          /\ revoked' = RevokedBy(t)
          /\ parent' = [parent EXCEPT ![s] = call[t].token]
          /\ issuer' = [issuer EXCEPT ![s] = t]
          /\ AnswerWith(t, s)
          /\ UNCHANGED expired
     \/ issued = Session /\ Refuse(t)

LogoutKeepsCookie(t) == call[t].token
LogoutReply(t) == None

\* One UPDATE, which waits for a refresh of the session and finds it revoked
\* already if that refresh commits; the answer is the same.
Logout(t) ==
  /\ pc[t] = "logout"
  /\ lock[call[t].token] = None
  /\ revoked' = revoked \cup {call[t].token}
  /\ AnswerWith(t, LogoutReply(t))
  /\ UNCHANGED <<issued, expired, parent, issuer>>

\* A failed statement, or a process or connection that ends without an answer.
Abort(t) ==
  /\ pc[t] \notin {"idle", "answer"}
  /\ Refuse(t) \/ (Finish(t) /\ UNCHANGED <<rows, browser>>)

\* The browser obeys Set-Cookie, whatever it has stored since it sent the
\* request.
Receive(t) ==
  /\ pc[t] = "answer"
  /\ cookie' = [cookie EXCEPT ![call[t].from] = reply[t]]
  /\ Finish(t)
  /\ UNCHANGED <<rows, lost>>

\* The answer is lost on its way, or already that of the commit: then the
\* handler takes what it did for a failure, and Refresh deletes the cookie.
Lose(t) ==
  /\ pc[t] = "answer"
  /\ lost' = lost \cup ({call[t].token} \ {None})
  /\ \/ UNCHANGED cookie
     \/ /\ call[t].op = "refresh"
        /\ cookie' = [cookie EXCEPT ![call[t].from] = None]
  /\ Finish(t)
  /\ UNCHANGED rows

Expire(s) ==
  /\ s \in issued \ expired
  /\ expired' = expired \cup {s}
  /\ UNCHANGED <<issued, revoked, parent, issuer, lock, browser, pc, call, reply>>

Advance(t) ==
  Lookup(t) \/ Revoke(t) \/ Issue(t) \/ Logout(t) \/ Receive(t) \/ Lose(t)

Next ==
  \/ \E t \in Tx : Begin(t) \/ Advance(t) \/ Abort(t)
  \/ \E s \in Session : Expire(s)

Spec == Init /\ [][Next]_vars

----------------------------------------------------------------------------
(* Properties *)

\* Every row, cookie and request is well typed, a refresh about to commit
\* holds the row it revokes, and tokens are those of rows.
TypeOK ==
  /\ issued \subseteq Session
  /\ revoked \subseteq issued
  /\ expired \subseteq issued
  /\ parent \in [Session -> issued \cup {None}]
  /\ issuer \in [Session -> Tx \cup {None}]
  /\ lock \in [Session -> Tx \cup {None}]
  /\ cookie \in [Client -> issued \cup {None}]
  /\ lost \subseteq issued
  /\ pc \in [Tx -> {"idle", "lookup", "revoke", "issue", "logout", "answer"}]
  /\ call \in [Tx -> Call \cup {None}]
  /\ reply \in [Tx -> issued \cup {None}]
  /\ \A t \in Tx : (call[t] = None) <=> (pc[t] = "idle")
  /\ \A t \in Tx : pc[t] = "issue" /\ call[t].op = "refresh" =>
       lock[call[t].token] = t

\* Sessions that replace the same session come from refreshes that overlapped:
\* no transaction replaces a session again once its rotation is committed.
HeirsOverlapped ==
  \A r, s \in issued :
    r # s /\ parent[r] = parent[s] /\ parent[s] # None => issuer[r] # issuer[s]

\* The cookie of a browser names a session that can be refreshed until it
\* expires, unless a request with that cookie was served and its answer is
\* still on its way or was lost, however refreshes, logins and logouts of the
\* browser overlap and in whichever order their answers arrive.
CookieUsable ==
  \A c \in Client : cookie[c] \in revoked =>
    \/ cookie[c] \in lost
    \/ \E t \in Tx : pc[t] = "answer" /\ call[t].token = cookie[c]
=============================================================================
