--------------------------- MODULE SessionsProofs ---------------------------
(***************************************************************************)
(* Proofs about Sessions, for every number of requests, browsers and       *)
(* sessions.                                                               *)
(***************************************************************************)
EXTENDS Sessions, TLAPS

\* What each statement knows of the request it serves.
RequestsOK ==
  \A t \in Tx :
    /\ pc[t] # "idle" => call[t].token \in issued \cup {None}
    /\ pc[t] \in {"lookup", "revoke"} =>
         call[t].op = "refresh" /\ call[t].token # None
    /\ pc[t] = "logout" => call[t].token # None
    /\ pc[t] = "issue" => (call[t].op = "refresh" <=> call[t].token # None)

\* A refresh that found its session usable has not replaced it before.
NotReplacedBefore ==
  \A t \in Tx : pc[t] \in {"revoke", "issue"} /\ call[t].token # None =>
    \A s \in issued : parent[s] = call[t].token => issuer[s] # t

\* A session that replaces another was stored with the revocation of it.
ReplacedIsRevoked ==
  \A s \in issued : parent[s] # None => parent[s] \in revoked

HeirInv == ReplacedIsRevoked /\ HeirsOverlapped /\ NotReplacedBefore

\* A token on its way to its browser is known to nobody yet.
FreshReply ==
  \A t \in Tx : reply[t] # None =>
    /\ pc[t] = "answer"
    /\ reply[t] \notin revoked
    /\ \A c \in Client : cookie[c] # reply[t]
    /\ \A u \in Tx : pc[u] # "idle" => call[u].token # reply[t]
    /\ \A u \in Tx \ {t} : reply[u] # reply[t]

\* A token is known to one browser.
OneBrowser ==
  /\ \A c, d \in Client : cookie[c] = cookie[d] /\ cookie[c] # None => c = d
  /\ \A t \in Tx, c \in Client :
       pc[t] # "idle" /\ call[t].token = cookie[c] /\ cookie[c] # None =>
         call[t].from = c

BrowserInv == FreshReply /\ OneBrowser /\ CookieUsable

IInv == TypeOK /\ RequestsOK /\ HeirInv /\ BrowserInv

----------------------------------------------------------------------------
(* How a request ends, or is answered *)

LEMMA Tokens ==
  ASSUME TypeOK, RequestsOK, NEW t \in Tx, pc[t] # "idle"
  PROVE  /\ call[t] \in Call
         /\ call[t].op \in {"login", "refresh", "logout"}
         /\ call[t].from \in Client
         /\ call[t].token \in issued \cup {None}
BY DEF TypeOK, RequestsOK, Call

LEMMA FinishStep ==
  ASSUME TypeOK, NEW t \in Tx, Finish(t)
  PROVE  /\ pc' = [pc EXCEPT ![t] = "idle"]
         /\ call' = [call EXCEPT ![t] = None]
         /\ reply' = [reply EXCEPT ![t] = None]
         /\ \A u \in Tx \ {t} :
              pc'[u] = pc[u] /\ call'[u] = call[u] /\ reply'[u] = reply[u]
         /\ pc'[t] = "idle" /\ call'[t] = None /\ reply'[t] = None
         /\ lock' \in [Session -> Tx \cup {None}]
         /\ \A s \in Session : lock[s] # t => lock'[s] = lock[s]
BY DEF Finish, Goto, Release, TypeOK

LEMMA AnswerStep ==
  ASSUME TypeOK, NEW t \in Tx, NEW r, AnswerWith(t, r)
  PROVE  /\ pc' = [pc EXCEPT ![t] = "answer"]
         /\ call' = call /\ cookie' = cookie /\ lost' = lost
         /\ reply' = [reply EXCEPT ![t] = r]
         /\ \A u \in Tx \ {t} : pc'[u] = pc[u] /\ reply'[u] = reply[u]
         /\ pc'[t] = "answer" /\ reply'[t] = r
         /\ lock' \in [Session -> Tx \cup {None}]
         /\ \A s \in Session : lock[s] # t => lock'[s] = lock[s]
BY DEF AnswerWith, Goto, Release, TypeOK, browser

\* Types survive the end of a request whatever became of the browser.
LEMMA FinishTypes ==
  ASSUME TypeOK, RequestsOK, NEW t \in Tx, Finish(t), UNCHANGED rows,
         cookie' \in [Client -> issued \cup {None}], lost' \subseteq issued
  PROVE  TypeOK' /\ RequestsOK'
<1>1. /\ issued' = issued /\ revoked' = revoked /\ expired' = expired
      /\ parent' = parent /\ issuer' = issuer
  BY DEF rows
<1>2. \A u \in Tx : pc'[u] = "issue" /\ call'[u].op = "refresh" =>
        lock'[call'[u].token] = u
  <2> SUFFICES ASSUME NEW u \in Tx, pc'[u] = "issue", call'[u].op = "refresh"
               PROVE  lock'[call'[u].token] = u
    OBVIOUS
  <2>1. u # t /\ pc[u] = "issue" /\ call'[u] = call[u]
    BY FinishStep
  <2>2. call[u].token \in Session /\ lock[call[u].token] = u
    BY <2>1 DEF TypeOK, RequestsOK
  <2> QED
    BY <2>1, <2>2, FinishStep
<1>3. TypeOK'
  BY <1>1, <1>2, FinishStep DEF TypeOK
<1>4. RequestsOK'
  BY <1>1, FinishStep DEF RequestsOK
<1> QED
  BY <1>3, <1>4

\* Types survive an answer and the rows committed with it.
LEMMA AnswerTypes ==
  ASSUME TypeOK, RequestsOK, NEW t \in Tx, pc[t] # "idle",
         NEW r \in issued' \cup {None}, AnswerWith(t, r),
         issued \subseteq issued', issued' \subseteq Session,
         revoked' \subseteq issued', expired' \subseteq issued',
         parent' \in [Session -> issued' \cup {None}],
         issuer' \in [Session -> Tx \cup {None}]
  PROVE  TypeOK' /\ RequestsOK'
<1>1. \A u \in Tx : pc'[u] = "issue" /\ call'[u].op = "refresh" =>
        lock'[call'[u].token] = u
  <2> SUFFICES ASSUME NEW u \in Tx, pc'[u] = "issue", call'[u].op = "refresh"
               PROVE  lock'[call'[u].token] = u
    OBVIOUS
  <2>1. u # t /\ pc[u] = "issue" /\ call'[u] = call[u]
    BY AnswerStep
  <2>2. call[u].token \in Session /\ lock[call[u].token] = u
    BY <2>1 DEF TypeOK, RequestsOK
  <2> QED
    BY <2>1, <2>2, AnswerStep
<1>2. \A u \in Tx : (call'[u] = None) <=> (pc'[u] = "idle")
  BY AnswerStep DEF TypeOK
<1>3. cookie' \in [Client -> issued' \cup {None}] /\ lost' \subseteq issued'
  BY AnswerStep DEF TypeOK
<1>4. /\ pc' \in [Tx -> {"idle", "lookup", "revoke", "issue", "logout", "answer"}]
      /\ call' \in [Tx -> Call \cup {None}]
      /\ reply' \in [Tx -> issued' \cup {None}]
  BY AnswerStep DEF TypeOK
<1>5. TypeOK'
  BY <1>1, <1>2, <1>3, <1>4, AnswerStep DEF TypeOK
<1>6. RequestsOK'
  BY AnswerStep DEF RequestsOK
<1> QED
  BY <1>5, <1>6

----------------------------------------------------------------------------
(* What the invariant keeps when no session is inserted *)

LEMMA HeirKept ==
  ASSUME HeirInv, issued' = issued, parent' = parent, issuer' = issuer,
         revoked \subseteq revoked',
         \A u \in Tx : pc'[u] \in {"revoke", "issue"} =>
           \/ pc[u] \in {"revoke", "issue"} /\ call'[u] = call[u]
           \/ call'[u].token = None
           \/ call'[u].token \notin revoked
  PROVE  HeirInv'
<1>1. ReplacedIsRevoked' /\ HeirsOverlapped'
  BY DEF HeirInv, ReplacedIsRevoked, HeirsOverlapped
<1>2. NotReplacedBefore'
  BY DEF HeirInv, ReplacedIsRevoked, NotReplacedBefore
<1> QED
  BY <1>1, <1>2 DEF HeirInv

\* A request that ends with an error, with or without an answer.
LEMMA RefuseOK ==
  ASSUME IInv, NEW t \in Tx, pc[t] \notin {"idle", "answer"},
         Refuse(t) \/ (Finish(t) /\ UNCHANGED <<rows, browser>>)
  PROVE  IInv'
<1> USE DEF IInv
<1>1. /\ issued' = issued /\ revoked' = revoked /\ expired' = expired
      /\ parent' = parent /\ issuer' = issuer
  BY DEF Refuse, rows
<1>2. reply[t] = None
  BY DEF BrowserInv, FreshReply
<1>3. CASE AnswerWith(t, None)
  <2>1. TypeOK' /\ RequestsOK'
    BY <1>1, <1>3, AnswerTypes DEF TypeOK
  <2>2. \A u \in Tx : pc'[u] \in {"revoke", "issue"} =>
          pc[u] \in {"revoke", "issue"} /\ call'[u] = call[u]
    BY <1>3, AnswerStep
  <2>3. HeirInv'
    BY <1>1, <2>2, HeirKept
  <2>4. FreshReply'
    BY <1>1, <1>3, AnswerStep DEF BrowserInv, FreshReply
  <2>5. OneBrowser'
    BY <1>3, AnswerStep DEF BrowserInv, OneBrowser
  <2>6. CookieUsable'
    BY <1>1, <1>3, AnswerStep DEF BrowserInv, CookieUsable
  <2> QED
    BY <2>1, <2>3, <2>4, <2>5, <2>6 DEF BrowserInv
<1>4. CASE Finish(t) /\ UNCHANGED browser
  <2>0. cookie' = cookie /\ lost' = lost
    BY <1>4 DEF browser
  <2>1. TypeOK' /\ RequestsOK'
    BY <1>1, <1>4, <2>0, FinishTypes DEF TypeOK, rows
  <2>2. \A u \in Tx : pc'[u] \in {"revoke", "issue"} =>
          pc[u] \in {"revoke", "issue"} /\ call'[u] = call[u]
    BY <1>4, FinishStep
  <2>3. HeirInv'
    BY <1>1, <2>2, HeirKept
  <2>4. FreshReply'
    BY <1>1, <1>4, <2>0, FinishStep DEF BrowserInv, FreshReply
  <2>5. OneBrowser'
    BY <1>4, <2>0, FinishStep DEF BrowserInv, OneBrowser
  <2>6. CookieUsable'
    BY <1>1, <1>4, <2>0, FinishStep DEF BrowserInv, CookieUsable
  <2> QED
    BY <2>1, <2>3, <2>4, <2>5, <2>6 DEF BrowserInv
<1> QED
  BY <1>3, <1>4 DEF Refuse

----------------------------------------------------------------------------
(* Statements that insert no session *)

LEMMA BeginOK ==
  ASSUME IInv, NEW t \in Tx, Begin(t)
  PROVE  IInv'
<1> USE DEF IInv
<1>1. PICK c \in Call :
        /\ c.token = IF c.op = "login" THEN None ELSE cookie[c.from]
        /\ call' = [call EXCEPT ![t] = c]
        /\ pc' = [pc EXCEPT ![t] = FirstStatement(c)]
  BY DEF Begin, Goto
<1>2. /\ pc[t] = "idle" /\ UNCHANGED <<rows, lock, browser, reply>>
      /\ issued' = issued /\ revoked' = revoked /\ expired' = expired
      /\ parent' = parent /\ issuer' = issuer /\ lock' = lock
      /\ cookie' = cookie /\ lost' = lost /\ reply' = reply
  BY DEF Begin, rows, browser
<1>3. /\ c.op \in {"login", "refresh", "logout"} /\ c.from \in Client
      /\ c # None
      /\ c.token \in issued \cup {None}
  BY <1>1, SessionsAssumption DEF Call, TypeOK
<1>4. /\ FirstStatement(c) \in {"lookup", "issue", "logout", "answer"}
      /\ FirstStatement(c) = "lookup" => c.op = "refresh" /\ c.token # None
      /\ FirstStatement(c) = "logout" => c.token # None
      /\ FirstStatement(c) = "issue" => c.op = "login" /\ c.token = None
  <2>1. CASE c.op = "login"
    BY <1>1, <2>1 DEF FirstStatement
  <2>2. CASE c.op # "login" /\ c.token = None
    BY <2>2 DEF FirstStatement
  <2>3. CASE c.op = "refresh" /\ c.token # None
    BY <2>3 DEF FirstStatement
  <2>4. CASE c.op = "logout" /\ c.token # None
    BY <2>4 DEF FirstStatement
  <2> QED
    BY <1>3, <2>1, <2>2, <2>3, <2>4
<1>5. /\ \A u \in Tx \ {t} : pc'[u] = pc[u] /\ call'[u] = call[u]
      /\ pc'[t] = FirstStatement(c) /\ call'[t] = c
  BY <1>1 DEF TypeOK
<1>6. TypeOK'
  BY <1>1, <1>2, <1>3, <1>4, <1>5 DEF TypeOK
<1>7. RequestsOK'
  BY <1>2, <1>3, <1>4, <1>5 DEF RequestsOK
<1>8. HeirInv'
  BY <1>2, <1>4, <1>5, HeirKept
<1>9. FreshReply'
  <2>1. reply[t] = None
    BY <1>2 DEF BrowserInv, FreshReply
  <2>2. \A u \in Tx : reply[u] # None => c.token # reply[u]
    BY <1>1, <1>3 DEF BrowserInv, FreshReply
  <2> QED
    BY <1>2, <1>5, <2>1, <2>2 DEF BrowserInv, FreshReply
<1>10. OneBrowser'
  BY <1>1, <1>2, <1>3, <1>5 DEF BrowserInv, OneBrowser
<1>11. CookieUsable'
  BY <1>2, <1>5 DEF BrowserInv, CookieUsable
<1> QED
  BY <1>6, <1>7, <1>8, <1>9, <1>10, <1>11 DEF BrowserInv

\* A refresh that goes on with its request.
LEMMA ProceedOK ==
  ASSUME IInv, NEW t \in Tx,
         \/ /\ pc[t] = "lookup" /\ Usable(call[t].token)
            /\ Goto(t, "revoke")
            /\ UNCHANGED <<rows, lock, browser, call, reply>>
         \/ Revoke(t)
  PROVE  IInv'
<1> USE DEF IInv
<1>1. /\ issued' = issued /\ revoked' = revoked /\ expired' = expired
      /\ parent' = parent /\ issuer' = issuer
      /\ cookie' = cookie /\ lost' = lost /\ reply' = reply /\ call' = call
  BY DEF Revoke, rows, browser
<1>2. PICK next \in {"revoke", "issue"} :
        /\ pc' = [pc EXCEPT ![t] = next]
        /\ pc[t] = IF next = "revoke" THEN "lookup" ELSE "revoke"
  BY DEF Revoke, Goto
<1>3. /\ \A u \in Tx \ {t} : pc'[u] = pc[u]
      /\ pc'[t] = next
  BY <1>2 DEF TypeOK
<1>4. call[t].op = "refresh" /\ call[t].token \in Session
  BY <1>2 DEF RequestsOK, TypeOK
<1>5. /\ lock' \in [Session -> Tx \cup {None}]
      /\ \A s \in Session : lock[s] # None => lock'[s] = lock[s]
      /\ next = "issue" => lock'[call[t].token] = t
  BY <1>2, <1>3, <1>4 DEF Revoke, Take, Goto, TypeOK
<1>6. TypeOK'
  <2>1. ASSUME NEW u \in Tx, pc'[u] = "issue", call[u].op = "refresh"
        PROVE  lock'[call[u].token] = u
    <3>1. CASE u = t
      BY <1>3, <1>5, <2>1, <3>1
    <3>2. CASE u # t
      <4>1. /\ pc[u] = "issue" /\ lock[call[u].token] = u
            /\ call[u].token \in Session
        BY <1>3, <2>1, <3>2 DEF TypeOK, RequestsOK
      <4> QED
        BY <1>5, <4>1, SessionsAssumption
    <3> QED
      BY <3>1, <3>2
  <2> QED
    BY <1>1, <1>2, <1>3, <1>5, <2>1 DEF TypeOK
<1>7. RequestsOK'
  BY <1>1, <1>2, <1>3 DEF RequestsOK
<1>8. HeirInv'
  <2>1. next = "revoke" => call[t].token \notin revoked
    BY <1>2 DEF Usable, Revoke
  <2> QED
    BY <1>1, <1>2, <1>3, <2>1, HeirKept
<1>9. FreshReply'
  BY <1>1, <1>2, <1>3 DEF BrowserInv, FreshReply
<1>10. OneBrowser'
  BY <1>1, <1>2, <1>3 DEF BrowserInv, OneBrowser
<1>11. CookieUsable'
  BY <1>1, <1>2, <1>3 DEF BrowserInv, CookieUsable
<1> QED
  BY <1>6, <1>7, <1>8, <1>9, <1>10, <1>11 DEF BrowserInv

LEMMA LogoutOK ==
  ASSUME IInv, NEW t \in Tx, Logout(t)
  PROVE  IInv'
<1> USE DEF IInv
<1>1. /\ pc[t] = "logout" /\ AnswerWith(t, None)
      /\ revoked' = revoked \cup {call[t].token}
      /\ issued' = issued /\ expired' = expired
      /\ parent' = parent /\ issuer' = issuer
  BY DEF Logout, LogoutReply
<1>2. call[t].token \in issued
  BY <1>1 DEF RequestsOK
<1>3. TypeOK' /\ RequestsOK'
  BY <1>1, <1>2, AnswerTypes DEF TypeOK
<1>4. HeirInv'
  <2>1. \A u \in Tx : pc'[u] \in {"revoke", "issue"} =>
          pc[u] \in {"revoke", "issue"} /\ call'[u] = call[u]
    BY <1>1, AnswerStep
  <2> QED
    BY <1>1, <2>1, HeirKept
<1>5. FreshReply'
  BY <1>1, AnswerStep DEF BrowserInv, FreshReply
<1>6. OneBrowser'
  BY <1>1, AnswerStep DEF BrowserInv, OneBrowser
<1>7. CookieUsable'
  BY <1>1, AnswerStep DEF BrowserInv, CookieUsable
<1> QED
  BY <1>3, <1>4, <1>5, <1>6, <1>7 DEF BrowserInv

\* The answer takes the witness of CookieUsable away, and with it the cookie.
LEMMA ReceiveOK ==
  ASSUME IInv, NEW t \in Tx, Receive(t)
  PROVE  IInv'
<1> USE DEF IInv
<1> DEFINE b == call[t].from
<1>1. /\ pc[t] = "answer" /\ Finish(t) /\ UNCHANGED rows
      /\ cookie' = [cookie EXCEPT ![b] = reply[t]]
      /\ issued' = issued /\ revoked' = revoked /\ expired' = expired
      /\ parent' = parent /\ issuer' = issuer /\ lost' = lost
  BY DEF Receive, rows
<1>2. b \in Client /\ reply[t] \in issued \cup {None}
  BY <1>1, Tokens DEF TypeOK
<1>3. \A c \in Client : cookie'[c] = IF c = b THEN reply[t] ELSE cookie[c]
  BY <1>1, <1>2 DEF TypeOK
<1>4. TypeOK' /\ RequestsOK'
  BY <1>1, <1>2, FinishTypes DEF TypeOK
<1>5. HeirInv'
  <2>1. \A u \in Tx : pc'[u] \in {"revoke", "issue"} =>
          pc[u] \in {"revoke", "issue"} /\ call'[u] = call[u]
    BY <1>1, FinishStep
  <2> QED
    BY <1>1, <2>1, HeirKept
<1>6. FreshReply'
  BY <1>1, <1>3, FinishStep DEF BrowserInv, FreshReply
<1>7. OneBrowser'
  BY <1>1, <1>2, <1>3, FinishStep DEF BrowserInv, OneBrowser, FreshReply
<1>8. CookieUsable'
  <2> SUFFICES ASSUME NEW c \in Client, cookie'[c] \in revoked
               PROVE  \/ cookie'[c] \in lost
                      \/ \E u \in Tx : pc'[u] = "answer" /\ call'[u].token = cookie'[c]
    BY <1>1 DEF CookieUsable
  <2>1. revoked \subseteq Session /\ None \notin Session
    BY SessionsAssumption DEF TypeOK
  <2>2. c # b /\ cookie'[c] = cookie[c] /\ cookie[c] # None
    BY <1>3, <2>1 DEF BrowserInv, FreshReply
  <2>3. call[t].token # cookie[c]
    BY <1>1, <2>2 DEF BrowserInv, OneBrowser
  <2> QED
    BY <1>1, <2>2, <2>3, FinishStep DEF BrowserInv, CookieUsable
<1> QED
  BY <1>4, <1>5, <1>6, <1>7, <1>8 DEF BrowserInv

LEMMA LoseOK ==
  ASSUME IInv, NEW t \in Tx, Lose(t)
  PROVE  IInv'
<1> USE DEF IInv
<1>1. /\ pc[t] = "answer" /\ Finish(t) /\ UNCHANGED rows
      /\ lost' = lost \cup ({call[t].token} \ {None})
      /\ issued' = issued /\ revoked' = revoked /\ expired' = expired
      /\ parent' = parent /\ issuer' = issuer
  BY DEF Lose, rows
<1>2. call[t].token \in issued \cup {None} /\ call[t].from \in Client
  BY <1>1, Tokens
<1>3. /\ cookie' \in [Client -> issued \cup {None}]
      /\ \A c \in Client : cookie'[c] \in {cookie[c], None}
  BY <1>2 DEF Lose, TypeOK
<1>4. TypeOK' /\ RequestsOK'
  BY <1>1, <1>2, <1>3, FinishTypes DEF TypeOK
<1>5. HeirInv'
  <2>1. \A u \in Tx : pc'[u] \in {"revoke", "issue"} =>
          pc[u] \in {"revoke", "issue"} /\ call'[u] = call[u]
    BY <1>1, FinishStep
  <2> QED
    BY <1>1, <2>1, HeirKept
<1>6. FreshReply'
  <2> SUFFICES ASSUME NEW u \in Tx, reply'[u] # None
               PROVE  /\ pc'[u] = "answer"
                      /\ reply'[u] \notin revoked'
                      /\ \A c \in Client : cookie'[c] # reply'[u]
                      /\ \A v \in Tx : pc'[v] # "idle" => call'[v].token # reply'[u]
                      /\ \A v \in Tx \ {u} : reply'[v] # reply'[u]
    BY DEF FreshReply
  <2>1. u # t /\ reply'[u] = reply[u] /\ pc'[u] = pc[u]
    BY <1>1, FinishStep
  <2>2. \A c \in Client : cookie'[c] # reply[u]
    BY <1>3, <2>1 DEF BrowserInv, FreshReply
  <2> QED
    BY <1>1, <2>1, <2>2, FinishStep DEF BrowserInv, FreshReply
<1>7. OneBrowser'
  BY <1>1, <1>3, FinishStep DEF BrowserInv, OneBrowser
<1>8. CookieUsable'
  <2> SUFFICES ASSUME NEW c \in Client, cookie'[c] \in revoked
               PROVE  \/ cookie'[c] \in lost'
                      \/ \E u \in Tx : pc'[u] = "answer" /\ call'[u].token = cookie'[c]
    BY <1>1 DEF CookieUsable
  <2>1. revoked \subseteq Session /\ None \notin Session
    BY SessionsAssumption DEF TypeOK
  <2>2. cookie'[c] = cookie[c] /\ cookie[c] # None
    BY <1>3, <2>1
  <2>3. CASE call[t].token = cookie[c]
    BY <1>1, <2>2, <2>3
  <2>4. CASE call[t].token # cookie[c]
    BY <1>1, <2>2, <2>4, FinishStep DEF BrowserInv, CookieUsable
  <2> QED
    BY <2>3, <2>4
<1> QED
  BY <1>4, <1>5, <1>6, <1>7, <1>8 DEF BrowserInv

LEMMA ExpireOK ==
  ASSUME IInv, NEW s \in Session, Expire(s)
  PROVE  IInv'
BY DEF IInv, Expire, browser, TypeOK, RequestsOK, HeirInv, ReplacedIsRevoked,
       HeirsOverlapped, NotReplacedBefore, BrowserInv, FreshReply, OneBrowser,
       CookieUsable

----------------------------------------------------------------------------
(* The statement that inserts one *)

LEMMA IssueOK ==
  ASSUME IInv, NEW t \in Tx, Issue(t)
  PROVE  IInv'
<1> USE DEF IInv
<1>1. CASE Refuse(t)
  BY <1>1, RefuseOK DEF Issue
<1>2. CASE ~Refuse(t)
  <2>1. PICK s \in Session \ issued :
          /\ issued' = issued \cup {s}
          /\ revoked' = RevokedBy(t)
          /\ parent' = [parent EXCEPT ![s] = call[t].token]
          /\ issuer' = [issuer EXCEPT ![s] = t]
          /\ AnswerWith(t, s)
          /\ expired' = expired
    BY <1>2 DEF Issue
  <2>2. pc[t] = "issue" /\ s # None
    BY SessionsAssumption DEF Issue
  <2>3. /\ call[t].token \in issued \cup {None}
        /\ call[t].op = "refresh" <=> call[t].token # None
    BY <2>2 DEF RequestsOK
  <2>4. /\ revoked \subseteq revoked'
        /\ revoked' \ revoked \subseteq {call[t].token}
        /\ revoked' \subseteq issued
        /\ call[t].token # None => call[t].token \in revoked'
    BY <2>1, <2>3 DEF RevokedBy, TypeOK
  <2>5. \A r \in issued : parent'[r] = parent[r] /\ issuer'[r] = issuer[r]
    BY <2>1 DEF TypeOK
  <2>6. parent'[s] = call[t].token /\ issuer'[s] = t
    BY <2>1 DEF TypeOK
  <2>7. TypeOK' /\ RequestsOK'
    <3>1. parent' \in [Session -> issued' \cup {None}]
      BY <2>1, <2>3 DEF TypeOK
    <3>2. issuer' \in [Session -> Tx \cup {None}]
      BY <2>1 DEF TypeOK
    <3>3. /\ issued \subseteq issued' /\ issued' \subseteq Session
          /\ revoked' \subseteq issued' /\ expired' \subseteq issued'
          /\ s \in issued' \cup {None}
      BY <2>1, <2>4 DEF TypeOK
    <3> QED
      BY <2>1, <2>2, <3>1, <3>2, <3>3, AnswerTypes
  <2>8. ReplacedIsRevoked'
    BY <2>1, <2>4, <2>5, <2>6 DEF HeirInv, ReplacedIsRevoked
  \* The heirs that the same session already has come from other transactions.
  <2>9. \A r \in issued : parent[r] = call[t].token /\ parent[r] # None =>
          issuer[r] # t
    BY <2>2 DEF HeirInv, NotReplacedBefore
  <2>10. HeirsOverlapped'
    BY <2>1, <2>5, <2>6, <2>9 DEF HeirInv, HeirsOverlapped
  <2>11. NotReplacedBefore'
    <3> SUFFICES ASSUME NEW u \in Tx, pc'[u] \in {"revoke", "issue"},
                        call'[u].token # None,
                        NEW r \in issued', parent'[r] = call'[u].token
                 PROVE  issuer'[r] # u
      BY DEF NotReplacedBefore
    <3>1. u # t /\ pc[u] \in {"revoke", "issue"} /\ call'[u] = call[u]
      BY <2>1, AnswerStep
    <3>2. CASE r = s
      BY <2>6, <3>1, <3>2
    <3>3. CASE r \in issued
      BY <2>5, <3>1, <3>3 DEF HeirInv, NotReplacedBefore
    <3> QED
      BY <2>1, <3>2, <3>3
  <2>12. FreshReply'
    <3>1. reply[t] = None
      BY <2>2 DEF BrowserInv, FreshReply
    <3>2. \A u \in Tx \ {t} : reply[u] # None =>
            reply[u] \in issued /\ reply[u] # call[t].token
      BY <2>2 DEF BrowserInv, FreshReply, TypeOK
    <3>3. \A c \in Client : cookie[c] # s
      BY <2>2 DEF TypeOK
    <3>4. \A u \in Tx : pc[u] # "idle" => call[u].token # s
      BY <2>2, Tokens
    <3>5. s \notin revoked'
      BY <2>4
    <3>6. \A u \in Tx : pc'[u] # "idle" => pc[u] # "idle"
      BY <2>1, <2>2, AnswerStep
    <3> SUFFICES ASSUME NEW u \in Tx, reply'[u] # None
                 PROVE  /\ pc'[u] = "answer"
                        /\ reply'[u] \notin revoked'
                        /\ \A c \in Client : cookie'[c] # reply'[u]
                        /\ \A v \in Tx : pc'[v] # "idle" => call'[v].token # reply'[u]
                        /\ \A v \in Tx \ {u} : reply'[v] # reply'[u]
      BY DEF FreshReply
    <3>7. CASE u = t
      <4>1. \A v \in Tx \ {t} : reply'[v] # s
        BY <2>1, <2>2, <3>2, AnswerStep
      <4> QED
        BY <2>1, <3>3, <3>4, <3>5, <3>6, <3>7, <4>1, AnswerStep
    <3>8. CASE u # t
      <4>1. reply'[u] = reply[u] /\ pc'[u] = pc[u] /\ reply'[t] = s
        BY <2>1, <3>8, AnswerStep
      <4>2. reply[u] \notin revoked' /\ reply[u] # s
        BY <2>2, <2>4, <3>2, <3>8, <4>1 DEF BrowserInv, FreshReply
      <4> QED
        BY <2>1, <3>6, <4>1, <4>2, AnswerStep DEF BrowserInv, FreshReply
    <3> QED
      BY <3>7, <3>8
  <2>13. OneBrowser'
    BY <2>1, <2>2, AnswerStep DEF BrowserInv, OneBrowser
  <2>14. CookieUsable'
    BY <2>1, <2>4, AnswerStep DEF BrowserInv, CookieUsable
  <2> QED
    BY <2>7, <2>8, <2>10, <2>11, <2>12, <2>13, <2>14 DEF HeirInv, BrowserInv
<1> QED
  BY <1>1, <1>2

----------------------------------------------------------------------------
(* The invariant, and what it says *)

LEMMA InitOK == Init => IInv
BY SessionsAssumption
   DEF Init, IInv, TypeOK, RequestsOK, HeirInv, ReplacedIsRevoked,
       HeirsOverlapped, NotReplacedBefore, BrowserInv, FreshReply, OneBrowser,
       CookieUsable

LEMMA NextOK ==
  ASSUME IInv, [Next]_vars
  PROVE  IInv'
<1>1. CASE UNCHANGED vars
  BY <1>1
     DEF vars, rows, browser, IInv, TypeOK, RequestsOK, HeirInv,
         ReplacedIsRevoked, HeirsOverlapped, NotReplacedBefore, BrowserInv,
         FreshReply, OneBrowser, CookieUsable
<1>2. ASSUME NEW t \in Tx, Begin(t) PROVE IInv'
  BY <1>2, BeginOK
<1>3. ASSUME NEW t \in Tx, Lookup(t) PROVE IInv'
  <2>1. CASE Refuse(t)
    BY <1>3, <2>1, RefuseOK DEF Lookup
  <2>2. CASE ~Refuse(t)
    BY <1>3, <2>2, ProceedOK DEF Lookup
  <2> QED
    BY <2>1, <2>2
<1>4. ASSUME NEW t \in Tx, Revoke(t) PROVE IInv'
  BY <1>4, ProceedOK
<1>5. ASSUME NEW t \in Tx, Issue(t) PROVE IInv'
  BY <1>5, IssueOK
<1>6. ASSUME NEW t \in Tx, Logout(t) PROVE IInv'
  BY <1>6, LogoutOK
<1>7. ASSUME NEW t \in Tx, Receive(t) PROVE IInv'
  BY <1>7, ReceiveOK
<1>8. ASSUME NEW t \in Tx, Lose(t) PROVE IInv'
  BY <1>8, LoseOK
<1>9. ASSUME NEW t \in Tx, Abort(t) PROVE IInv'
  BY <1>9, RefuseOK DEF Abort
<1>10. ASSUME NEW s \in Session, Expire(s) PROVE IInv'
  BY <1>10, ExpireOK
<1> QED
  BY <1>1, <1>2, <1>3, <1>4, <1>5, <1>6, <1>7, <1>8, <1>9, <1>10
     DEF Next, Advance

LEMMA Invariant == Spec => []IInv
BY InitOK, NextOK, PTL DEF Spec

\* Rows, requests and cookies are well typed, and a refresh about to commit
\* holds the row lock of the session it revokes.
THEOREM TypeCorrect == Spec => []TypeOK
<1>1. IInv => TypeOK
  BY DEF IInv
<1> QED
  BY <1>1, Invariant, PTL

\* Only refreshes that overlap can replace one session, each once: a committed
\* rotation is seen by every transaction that begins after it.
THEOREM RotationIsSeen == Spec => []HeirsOverlapped
<1>1. IInv => HeirsOverlapped
  BY DEF IInv, HeirInv
<1> QED
  BY <1>1, Invariant, PTL

\* A browser whose requests were all answered holds a token that works until
\* it expires, or none, in whichever order the answers came.
THEOREM CookiesWork == Spec => []CookieUsable
<1>1. IInv => CookieUsable
  BY DEF IInv, BrowserInv
<1> QED
  BY <1>1, Invariant, PTL
=============================================================================
