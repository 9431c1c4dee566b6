---------------------------- MODULE AccessProofs ----------------------------
(***************************************************************************)
(* Proofs about Access, for every number of transactions, users, roles and *)
(* permissions.                                                            *)
(***************************************************************************)
EXTENDS Access, TLAPS

SeedItem == Permission \cup SeedRole

\* The permissions and roles a seed has upserted.
Upserted(t) == IF Seeding(t) THEN SeedItem \ (todo[t] \cup {item[t]}) ELSE {}

\* The rows a transaction has written, and holds.
Held(t) ==
  Upserted(t) \cup (IF pc[t] \in {"replace", "commit"} THEN {call[t].row} ELSE {})
LocksHeld == \A t \in Tx, x \in Row : lock[x] = t <=> x \in Held(t)

\* The rows whose links it has written, and what it links each of them to.
Written(t) ==
  (Upserted(t) \cap Role) \cup (IF pc[t] = "commit" THEN {call[t].row} ELSE {})
Wish(t, x) == IF x = call[t].row THEN call[t].refs ELSE SeedGrants[x]
WritesOK(t) ==
  /\ added[t] = {l \in Link : l[1] \in Written(t) /\ l[2] \in Wish(t, l[1])}
  /\ gone[t] = {l \in links : l[1] \in Written(t) /\ l[2] \notin Wish(t, l[1])}

\* The course of a seed.
SeedOK(t) ==
  /\ Seeding(t) => pc[t] \notin {"authenticate", "check"}
  /\ pc[t] \in {"upsert", "admin"} => Seeding(t)
  /\ pc[t] # "upsert" => todo[t] = {}
  /\ item[t] \notin todo[t]
  /\ item[t] \notin Permission => todo[t] \cap Permission = {}

\* What the checks of a request have found stays true until it ends.
RequestOK(t) ==
  pc[t] \in {"insert", "update", "replace", "commit"} /\ ~Seeding(t) =>
    /\ call[t].refs \subseteq present
    /\ call[t].op = "assign" => call[t].row \in present /\ pc[t] # "insert"
    /\ call[t].op # "assign" =>
         pc[t] # "update" /\ (pc[t] # "insert" => call[t].row \notin present)

LinksOwned == \A l \in links : l[1] \in present

IInv ==
  /\ TypeOK /\ LocksHeld /\ LinksOwned
  /\ \A t \in Tx : SeedOK(t) /\ RequestOK(t) /\ WritesOK(t)

----------------------------------------------------------------------------
(* Calls, and the transactions beside the one that takes a step *)

LEMMA CallFacts ==
  ASSUME NEW c \in Call
  PROVE  /\ c.op \in {"createUser", "assign", "createRole", "seed"}
         /\ c.row \in User \cup Role /\ c.row \in Row /\ c.refs \subseteq Row
         /\ c.op = "seed" => c.row = Admin /\ c.refs = {SuperAdmin} /\ c.by = None
         /\ c.op # "seed" => c.by \in User /\ c.by # None
         /\ c.op = "assign" => c.row \in User
         /\ c.row \in User => c.refs \subseteq Role
         /\ c.row \in Role => c.refs \subseteq Permission /\ c.row \notin User
         /\ LinksOf(c.row, c.refs) \subseteq Link
         /\ c # None
BY AccessRowsAssumption, AccessAssumption DEF Call, SeedCall, Row, LinksOf, Link

LEMMA CallOf ==
  ASSUME TypeOK, NEW t \in Tx, pc[t] # "idle"
  PROVE  call[t] \in Calls /\ call[t] \in Call
BY AccessAssumption DEF TypeOK

Others(t) ==
  \A u \in Tx \ {t} :
    /\ pc'[u] = pc[u] /\ call'[u] = call[u] /\ item'[u] = item[u]
    /\ todo'[u] = todo[u] /\ added'[u] = added[u] /\ gone'[u] = gone[u]

LEMMA FinishStep ==
  ASSUME TypeOK, NEW t \in Tx, Finish(t)
  PROVE  /\ Others(t)
         /\ pc'[t] = "idle" /\ call'[t] = None /\ item'[t] = None
         /\ todo'[t] = {} /\ added'[t] = {} /\ gone'[t] = {}
         /\ lock' = [x \in Row |-> IF lock[x] = t THEN None ELSE lock[x]]
BY DEF Finish, TypeOK, Others, Release

LEMMA OthersKeep ==
  ASSUME TypeOK, NEW t \in Tx, Begin(t) \/ Advance(t) \/ Rollback(t)
  PROVE  Others(t)
<1>1. CASE Begin(t)
  BY <1>1 DEF Begin, TypeOK, Others
<1>2. CASE Rollback(t)
  BY <1>2, FinishStep DEF Rollback
<1>3. CASE Authenticate(t)
  BY <1>3, <1>2 DEF Authenticate, Goto, locals, TypeOK, Others
<1>4. CASE Check(t)
  BY <1>4, <1>2 DEF Check, Goto, locals, TypeOK, Others
<1>5. CASE Insert(t)
  BY <1>5, <1>2 DEF Insert, Goto, locals, TypeOK, Others
<1>6. CASE Update(t)
  BY <1>6 DEF Update, Goto, locals, TypeOK, Others
<1>7. CASE Replace(t)
  BY <1>7 DEF Replace, WriteLinks, Goto, TypeOK, Others
<1>8. CASE Commit(t)
  BY <1>8, FinishStep DEF Commit
<1>9. CASE Upsert(t)
  BY <1>9 DEF Upsert, WriteLinks, Goto, TypeOK, Others
<1>10. CASE FindAdmin(t)
  BY <1>10 DEF FindAdmin, Goto, locals, TypeOK, Others
<1> QED
  BY <1>1, <1>2, <1>3, <1>4, <1>5, <1>6, <1>7, <1>8, <1>9, <1>10 DEF Advance

----------------------------------------------------------------------------
(* Types *)

LEMMA PhaseFacts ==
  ASSUME NEW xs, NEW x \in Phase(xs)
  PROVE  x \in xs /\ (x \notin Permission => xs \cap Permission = {})
BY DEF Phase

LEMMA LinkFacts ==
  ASSUME NEW x, NEW ys, LinksOf(x, ys) \subseteq Link, links \subseteq Link
  PROVE  LinksButTo(links, x, ys) \subseteq Link
BY DEF LinksButTo

LEMMA SeedGrantsLink ==
  ASSUME NEW r \in SeedRole
  PROVE  LinksOf(r, SeedGrants[r]) \subseteq Link
BY AccessRowsAssumption DEF LinksOf, Link

LEMMA InitTypes == Init => TypeOK
<1> SUFFICES ASSUME Init PROVE TypeOK
  OBVIOUS
<1>1. /\ present \subseteq Row /\ links \subseteq Link
      /\ lock \in [Row -> Tx \cup {None}]
  BY DEF Init
<1>2. /\ call \in [Tx -> Calls \cup {None}]
      /\ item \in [Tx -> Permission \cup SeedRole \cup {None}]
      /\ todo \in [Tx -> SUBSET (Permission \cup SeedRole)]
      /\ added \in [Tx -> SUBSET Link] /\ gone \in [Tx -> SUBSET Link]
  BY DEF Init
<1> QED
  BY <1>1, <1>2 DEF Init, TypeOK

LEMMA RollbackTypes ==
  ASSUME TypeOK, NEW t \in Tx, Finish(t),
         present' \subseteq Row, links' \subseteq Link
  PROVE  TypeOK'
<1>1. /\ pc' \in [Tx -> {"idle", "authenticate", "check", "insert", "update",
                    "replace", "commit", "upsert", "admin"}]
      /\ call' \in [Tx -> Calls \cup {None}]
      /\ item' \in [Tx -> Permission \cup SeedRole \cup {None}]
      /\ todo' \in [Tx -> SUBSET (Permission \cup SeedRole)]
      /\ added' \in [Tx -> SUBSET Link] /\ gone' \in [Tx -> SUBSET Link]
  BY DEF TypeOK, Finish
<1>2. lock' \in [Row -> Tx \cup {None}]
  BY FinishStep DEF TypeOK
<1> QED
  BY <1>1, <1>2, FinishStep DEF TypeOK, Others

LEMMA GotoTypes ==
  ASSUME TypeOK, NEW t \in Tx, UNCHANGED locals,
         lock' \in [Row -> Tx \cup {None}],
         NEW label \in {"check", "insert", "update", "replace", "commit"},
         Goto(t, label), pc[t] \notin {"idle", "upsert"}
  PROVE  TypeOK'
BY DEF TypeOK, Goto, rows, locals

LEMMA NextTypes ==
  ASSUME TypeOK, [Next]_vars
  PROVE  TypeOK'
<1>1. CASE UNCHANGED vars
  BY <1>1 DEF vars, rows, locals, TypeOK
<1>2. ASSUME NEW t \in Tx, Rollback(t)
      PROVE  TypeOK'
  BY <1>2, RollbackTypes DEF Rollback, rows, TypeOK
<1>3. ASSUME NEW t \in Tx, Begin(t)
      PROVE  TypeOK'
  <2> PICK c \in Calls : call' = [call EXCEPT ![t] = c]
    BY <1>3 DEF Begin
  <2>1. c \in Call /\ c # None
    BY AccessAssumption, CallFacts
  <2>2. /\ present' = present /\ links' = links /\ lock' = lock
        /\ added' = added /\ gone' = gone
        /\ call' \in [Tx -> Calls \cup {None}]
        /\ pc' \in [Tx -> {"idle", "authenticate", "check", "insert", "update",
                    "replace", "commit", "upsert", "admin"}]
        /\ pc'[t] # "idle" /\ call'[t] # None
    BY <1>3, <2>1 DEF Begin, rows, TypeOK
  <2>3. item' \in [Tx -> Permission \cup SeedRole \cup {None}]
    BY <1>3, PhaseFacts DEF Begin, TypeOK
  <2>4. todo' \in [Tx -> SUBSET (Permission \cup SeedRole)]
    BY <1>3 DEF Begin, TypeOK
  <2>5. pc'[t] = "upsert" <=> item'[t] # None
    <3>1. None \notin Permission \cup SeedRole
      BY AccessAssumption, AccessRowsAssumption DEF Row
    <3>2. CASE pc'[t] = "upsert"
      BY <1>3, <3>1, <3>2, PhaseFacts DEF Begin, TypeOK
    <3>3. CASE pc'[t] # "upsert"
      BY <1>3, <3>3 DEF Begin, TypeOK
    <3> QED
      BY <3>2, <3>3
  <2>6. Others(t)
    BY <1>3, OthersKeep
  <2> QED
    BY <2>2, <2>3, <2>4, <2>5, <2>6 DEF TypeOK, Others
<1>4. ASSUME NEW t \in Tx, Authenticate(t) \/ Check(t)
      PROVE  TypeOK'
  BY <1>4, <1>2, GotoTypes DEF Authenticate, Check, TypeOK
<1>5. ASSUME NEW t \in Tx, Insert(t) \/ Update(t)
      PROVE  TypeOK'
  BY <1>5, <1>2, GotoTypes DEF Insert, Update, Hold, TypeOK
<1>6. ASSUME NEW t \in Tx, Replace(t)
      PROVE  TypeOK'
  <2>1. LinksOf(call[t].row, call[t].refs) \subseteq Link
    BY <1>6, CallOf, CallFacts DEF Replace
  <2> QED
    BY <1>6, <2>1, LinkFacts DEF Replace, WriteLinks, Goto, rows, TypeOK
<1>7. ASSUME NEW t \in Tx, Commit(t)
      PROVE  TypeOK'
  <2>1. present' \subseteq Row /\ links' \subseteq Link
    BY <1>7 DEF Commit, TypeOK
  <2> QED
    BY <1>7, <2>1, RollbackTypes DEF Commit
<1>8. ASSUME NEW t \in Tx, Upsert(t)
      PROVE  TypeOK'
  <2>1. item[t] \in Permission \cup SeedRole
    BY <1>8 DEF Upsert, TypeOK
  <2>2. lock' \in [Row -> Tx \cup {None}]
    BY <1>8 DEF Upsert, Hold, TypeOK
  <2>3. added' \in [Tx -> SUBSET Link] /\ gone' \in [Tx -> SUBSET Link]
    BY <1>8, <2>1, SeedGrantsLink, LinkFacts, AccessRowsAssumption
    DEF Upsert, WriteLinks, TypeOK
  <2>4. None \notin Permission \cup SeedRole
    BY AccessAssumption, AccessRowsAssumption DEF Row
  <2>5. CASE todo[t] # {}
    <3>1. PICK y \in Phase(todo[t]) :
            item' = [item EXCEPT ![t] = y] /\ todo' = [todo EXCEPT ![t] = @ \ {y}]
      BY <1>8, <2>5 DEF Upsert
    <3>2. y \in Permission \cup SeedRole
      BY PhaseFacts DEF TypeOK
    <3>3. item' \in [Tx -> Permission \cup SeedRole \cup {None}]
      BY <3>1, <3>2 DEF TypeOK
    <3>4. todo' \in [Tx -> SUBSET (Permission \cup SeedRole)]
      BY <3>1 DEF TypeOK
    <3>5. /\ pc' = pc /\ call' = call
          /\ present' = present /\ links' = links
      BY <1>8, <2>5 DEF Upsert, rows
    <3>6. \A u \in Tx : pc[u] = "upsert" <=> item'[u] # None
      BY <1>8, <2>4, <3>1, <3>2 DEF Upsert, TypeOK
    <3> QED
      BY <2>2, <2>3, <3>3, <3>4, <3>5, <3>6 DEF TypeOK
  <2>6. CASE todo[t] = {}
    <3>1. /\ item' = [item EXCEPT ![t] = None] /\ todo' = todo
          /\ pc' = [pc EXCEPT ![t] = "admin"] /\ pc[t] = "upsert"
          /\ call' = call /\ present' = present /\ links' = links
      BY <1>8, <2>6 DEF Upsert, Goto, rows
    <3> QED
      BY <2>2, <2>3, <3>1 DEF TypeOK
  <2> QED
    BY <2>5, <2>6
<1>9. ASSUME NEW t \in Tx, FindAdmin(t)
      PROVE  TypeOK'
  BY <1>9, GotoTypes DEF FindAdmin, TypeOK
<1> QED
  BY <1>1, <1>2, <1>3, <1>4, <1>5, <1>6, <1>7, <1>8, <1>9
  DEF Next, BreakDeadlock, Advance, Abort

----------------------------------------------------------------------------
(* Locks: who writes a row holds it, until it ends *)

LEMMA HeldKept ==
  ASSUME TypeOK, LocksHeld, NEW t \in Tx, Others(t),
         lock' = [x \in Row |->
           IF x \in Held(t)' THEN t ELSE IF lock[x] = t THEN None ELSE lock[x]],
         \A x \in Held(t)' : lock[x] \in {None, t}
  PROVE  LocksHeld'
<1>1. \A u \in Tx \ {t} : Held(u)' = Held(u)
  BY DEF Others, Held, Upserted, Seeding
<1>2. None \notin Tx
  BY AccessAssumption
<1> SUFFICES ASSUME NEW u \in Tx, NEW x \in Row
             PROVE  lock'[x] = u <=> x \in Held(u)'
  BY DEF LocksHeld
<1>3. CASE u = t
  BY <1>2, <1>3
<1>4. CASE u # t
  BY <1>1, <1>2, <1>4 DEF LocksHeld
<1> QED
  BY <1>3, <1>4

LEMMA HeldSame ==
  ASSUME TypeOK, LocksHeld, NEW t \in Tx, Others(t), UNCHANGED lock,
         Held(t)' = Held(t)
  PROVE  LocksHeld'
<1>1. \A u \in Tx : Held(u)' = Held(u)
  BY DEF Others, Held, Upserted, Seeding
<1> QED
  BY <1>1 DEF LocksHeld

LEMMA FinishLocks ==
  ASSUME TypeOK, LocksHeld, NEW t \in Tx, Finish(t)
  PROVE  LocksHeld'
<1>1. Held(t)' = {}
  BY FinishStep DEF Held, Upserted, Seeding
<1> QED
  BY <1>1, FinishStep, HeldKept

LEMMA TakeLock ==
  ASSUME TypeOK, LocksHeld, NEW t \in Tx, Others(t), NEW y \in Row, Hold(t, y),
         lock[y] \in {None, t}, Held(t)' = Held(t) \cup {y}
  PROVE  LocksHeld'
<1>1. \A x \in Row : lock[x] = t <=> x \in Held(t)
  BY DEF LocksHeld
<1>2. lock' = [x \in Row |-> IF x = y THEN t ELSE lock[x]]
  BY DEF Hold, TypeOK
<1>3. \A u \in Tx \ {t} : Held(u)' = Held(u)
  BY DEF Others, Held, Upserted, Seeding
<1> SUFFICES ASSUME NEW u \in Tx, NEW x \in Row
             PROVE  lock'[x] = u <=> x \in Held(u)'
  BY DEF LocksHeld
<1>4. CASE u = t
  BY <1>1, <1>2, <1>4
<1>5. CASE u # t
  BY <1>2, <1>3, <1>5, AccessAssumption DEF LocksHeld
<1> QED
  BY <1>4, <1>5

\* The row a seed is at is one it has not upserted.
LEMMA UpsertHolds ==
  ASSUME TypeOK, NEW t \in Tx, SeedOK(t), Upsert(t)
  PROVE  /\ Seeding(t) /\ Seeding(t)' /\ call'[t] = call[t]
         /\ item[t] \in SeedItem
         /\ Upserted(t)' = Upserted(t) \cup {item[t]}
         /\ pc'[t] \notin {"replace", "commit"}
<1>1. pc[t] = "upsert" /\ item[t] \in SeedItem /\ Seeding(t) /\ item[t] \notin todo[t]
  BY DEF Upsert, TypeOK, SeedOK, SeedItem
<1>2. None \notin SeedItem /\ todo[t] \subseteq SeedItem
  BY AccessAssumption, AccessRowsAssumption DEF Row, SeedItem, TypeOK
<1>3. CASE todo[t] # {}
  <2>1. PICK y \in Phase(todo[t]) :
          item' = [item EXCEPT ![t] = y] /\ todo' = [todo EXCEPT ![t] = @ \ {y}]
    BY <1>3 DEF Upsert
  <2>2. y \in todo[t] /\ item'[t] = y /\ todo'[t] = todo[t] \ {y}
    BY <2>1, PhaseFacts DEF TypeOK
  <2>3. pc' = pc /\ call' = call
    BY <1>3 DEF Upsert
  <2> QED
    BY <1>1, <1>2, <2>2, <2>3 DEF Upserted, Seeding
<1>4. CASE todo[t] = {}
  <2>1. pc'[t] = "admin" /\ call' = call /\ item'[t] = None /\ todo'[t] = {}
    BY <1>4 DEF Upsert, Goto, TypeOK
  <2> QED
    BY <1>1, <1>2, <1>4, <2>1 DEF Upserted, Seeding
<1> QED
  BY <1>3, <1>4

LEMMA NextLocks ==
  ASSUME IInv, [Next]_vars
  PROVE  LocksHeld'
<1>0. TypeOK /\ LocksHeld
  BY DEF IInv
<1>1. CASE UNCHANGED vars
  BY <1>0, <1>1 DEF vars, rows, locals, LocksHeld, Held, Upserted, Seeding
<1>2. ASSUME NEW t \in Tx, Finish(t)
      PROVE  LocksHeld'
  BY <1>0, <1>2, FinishLocks
<1>3. ASSUME NEW t \in Tx, Begin(t)
      PROVE  LocksHeld'
  <2>1. Held(t) = {} /\ lock' = lock
    BY <1>3 DEF Begin, Held, Upserted, Seeding
  <2>2. PICK c \in Calls : call' = [call EXCEPT ![t] = c] /\
          (\/ /\ c.op = "seed" /\ pc' = [pc EXCEPT ![t] = "upsert"]
              /\ \E x \in Phase(Permission \cup SeedRole) :
                  /\ item' = [item EXCEPT ![t] = x]
                  /\ todo' = [todo EXCEPT ![t] = (Permission \cup SeedRole) \ {x}]
           \/ c.op # "seed" /\ pc' = [pc EXCEPT ![t] = "authenticate"])
    BY <1>3 DEF Begin
  <2>3. Held(t)' = {}
    BY <1>0, <2>2 DEF Held, Upserted, Seeding, SeedItem, TypeOK
  <2> QED
    BY <1>0, <1>3, <2>1, <2>3, OthersKeep, HeldSame
<1>4. ASSUME NEW t \in Tx, Authenticate(t) \/ Check(t) \/ FindAdmin(t) \/ Replace(t)
      PROVE  LocksHeld'
  <2>1. CASE Rollback(t)
    BY <1>2, <2>1 DEF Rollback
  <2>2. CASE ~Rollback(t)
    <3>1. lock' = lock /\ call' = call /\ item' = item /\ todo' = todo
      BY <1>4, <2>2 DEF Authenticate, Check, FindAdmin, Replace, Goto, locals
    <3>2. /\ pc[t] # "idle" /\ pc'[t] # "idle"
          /\ pc[t] \in {"replace", "commit"} <=> pc'[t] \in {"replace", "commit"}
      BY <1>0, <1>4, <2>2
      DEF Authenticate, Check, FindAdmin, Replace, Goto, TypeOK
    <3>3. Held(t)' = Held(t)
      BY <3>1, <3>2 DEF Held, Upserted, Seeding
    <3> QED
      BY <1>0, <1>4, <3>1, <3>3, OthersKeep, HeldSame DEF Advance
  <2> QED
    BY <2>1, <2>2
<1>5. ASSUME NEW t \in Tx, Insert(t) \/ Update(t)
      PROVE  LocksHeld'
  <2>1. CASE Rollback(t)
    BY <1>2, <2>1 DEF Rollback
  <2>2. CASE ~Rollback(t)
    <3>1. /\ Hold(t, call[t].row) /\ lock[call[t].row] \in {None, t}
          /\ call' = call /\ item' = item /\ todo' = todo /\ pc'[t] = "replace"
          /\ pc[t] \in {"insert", "update"}
      BY <1>0, <1>5, <2>2
      DEF Insert, Update, Goto, locals, Free, Wanted, TypeOK
    <3>2. call[t].row \in Row
      BY <1>0, <3>1, CallOf, CallFacts
    <3>3. Held(t)' = Held(t) \cup {call[t].row}
      BY <3>1 DEF Held, Upserted, Seeding
    <3> QED
      BY <1>0, <1>5, <3>1, <3>2, <3>3, OthersKeep, TakeLock DEF Advance
  <2> QED
    BY <2>1, <2>2
<1>6. ASSUME NEW t \in Tx, Upsert(t)
      PROVE  LocksHeld'
  <2>1. item[t] \in Row /\ lock[item[t]] \in {None, t} /\ Hold(t, item[t])
    BY <1>0, <1>6, AccessRowsAssumption, UpsertHolds
    DEF IInv, Upsert, Free, Wanted, SeedItem, Row
  <2>2. Held(t)' = Held(t) \cup {item[t]}
    BY <1>0, <1>6, UpsertHolds DEF IInv, Held, Upsert
  <2> QED
    BY <1>0, <1>6, <2>1, <2>2, OthersKeep, TakeLock DEF Advance
<1>7. CASE BreakDeadlock
  BY <1>2, <1>7 DEF BreakDeadlock, Rollback
<1> QED
  BY <1>1, <1>2, <1>3, <1>4, <1>5, <1>6, <1>7
  DEF Next, Advance, Abort, Rollback, Commit

----------------------------------------------------------------------------
(* The course of a seed and of a request *)

LEMMA NextSeeds ==
  ASSUME IInv, [Next]_vars, NEW u \in Tx
  PROVE  SeedOK(u)'
<1>0. TypeOK /\ SeedOK(u)
  BY DEF IInv
<1>1. CASE UNCHANGED vars
  BY <1>0, <1>1 DEF vars, rows, locals, SeedOK, Seeding
<1>2. ASSUME NEW t \in Tx, t # u, Others(t)
      PROVE  SeedOK(u)'
  BY <1>0, <1>2 DEF Others, SeedOK, Seeding
<1>3. CASE Finish(u)
  BY <1>0, <1>3, FinishStep DEF SeedOK, Seeding
<1>4. CASE Begin(u)
  <2> PICK c \in Calls : call' = [call EXCEPT ![u] = c] /\
          (\/ /\ c.op = "seed" /\ pc' = [pc EXCEPT ![u] = "upsert"]
              /\ \E x \in Phase(Permission \cup SeedRole) :
                  /\ item' = [item EXCEPT ![u] = x]
                  /\ todo' = [todo EXCEPT ![u] = (Permission \cup SeedRole) \ {x}]
           \/ /\ c.op # "seed" /\ pc' = [pc EXCEPT ![u] = "authenticate"]
              /\ UNCHANGED <<item, todo>>)
    BY <1>4 DEF Begin
  <2>1. CASE c.op = "seed"
    <3> PICK x \in Phase(Permission \cup SeedRole) :
          /\ item' = [item EXCEPT ![u] = x]
          /\ todo' = [todo EXCEPT ![u] = (Permission \cup SeedRole) \ {x}]
      BY <2>1
    <3>1. x \notin Permission => (Permission \cup SeedRole) \cap Permission = {}
      BY PhaseFacts
    <3>2. /\ pc'[u] = "upsert" /\ call'[u] = c /\ item'[u] = x
          /\ todo'[u] = (Permission \cup SeedRole) \ {x}
      BY <1>0, <2>1 DEF TypeOK
    <3> QED
      BY <2>1, <3>1, <3>2 DEF SeedOK, Seeding
  <2>2. CASE c.op # "seed"
    <3>1. pc[u] = "idle" /\ todo[u] = {}
      BY <1>0, <1>4 DEF Begin, SeedOK
    <3>2. /\ pc'[u] = "authenticate" /\ call'[u] = c
          /\ item'[u] = item[u] /\ todo'[u] = todo[u]
      BY <1>0, <2>2 DEF TypeOK
    <3> QED
      BY <2>2, <3>1, <3>2 DEF SeedOK, Seeding
  <2> QED
    BY <2>1, <2>2
<1>5. CASE Upsert(u)
  <2>1. Seeding(u) /\ Seeding(u)'
    BY <1>0, <1>5, UpsertHolds
  <2>2. CASE todo[u] # {}
    <3>1. PICK y \in Phase(todo[u]) :
            item' = [item EXCEPT ![u] = y] /\ todo' = [todo EXCEPT ![u] = @ \ {y}]
      BY <1>5, <2>2 DEF Upsert
    <3>2. item'[u] = y /\ todo'[u] = todo[u] \ {y} /\ pc'[u] = "upsert"
      BY <1>0, <1>5, <2>2, <3>1 DEF TypeOK, Upsert
    <3> QED
      BY <2>1, <3>2, PhaseFacts DEF SeedOK
  <2>3. CASE todo[u] = {}
    <3>1. item'[u] = None /\ todo'[u] = {} /\ pc'[u] = "admin"
      BY <1>0, <1>5, <2>3 DEF TypeOK, Upsert, Goto
    <3> QED
      BY <2>1, <3>1 DEF SeedOK
  <2> QED
    BY <2>2, <2>3
<1>6. ASSUME Authenticate(u) \/ Check(u) \/ Insert(u) \/ Update(u) \/ Replace(u)
               \/ FindAdmin(u), ~Rollback(u)
      PROVE  SeedOK(u)'
  <2>1. /\ call' = call /\ item' = item /\ todo' = todo
        /\ pc[u] \notin {"idle", "upsert"} /\ pc'[u] \notin {"idle", "upsert", "admin"}
        /\ pc'[u] = "check" => pc[u] = "authenticate"
        /\ pc'[u] # "authenticate"
    BY <1>0, <1>6
    DEF Authenticate, Check, Insert, Update, Replace, FindAdmin, Goto, locals, TypeOK
  <2> QED
    BY <1>0, <2>1 DEF SeedOK, Seeding
<1>7. CASE BreakDeadlock
  BY <1>0, <1>2, <1>3, <1>7, FinishStep DEF BreakDeadlock, Rollback
<1>8. ASSUME NEW t \in Tx, Begin(t) \/ Advance(t) \/ Abort(t)
      PROVE  SeedOK(u)'
  <2>1. CASE t # u
    BY <1>0, <1>2, <1>8, <2>1, OthersKeep DEF Abort
  <2>2. CASE t = u
    BY <1>3, <1>4, <1>5, <1>6, <1>8, <2>2 DEF Advance, Abort, Rollback, Commit
  <2> QED
    BY <2>1, <2>2
<1> QED
  BY <1>1, <1>7, <1>8 DEF Next

\* Rows are only added, and only those the committing transaction holds.
LEMMA RowsGrow ==
  ASSUME TypeOK, LocksHeld, [Next]_vars
  PROVE  /\ present \subseteq present'
         /\ \/ UNCHANGED rows
            \/ \E t \in Tx :
                 Commit(t) /\ present' = present \cup {x \in Row : x \in Held(t)}
BY DEF Next, Advance, Begin, Abort, BreakDeadlock, Authenticate, Check, Insert, Update,
       Replace, Upsert, FindAdmin, Rollback, Goto, Commit, LocksHeld, vars, rows

LEMMA NextRequests ==
  ASSUME IInv, [Next]_vars, NEW u \in Tx
  PROVE  RequestOK(u)'
<1>0. TypeOK /\ LocksHeld /\ SeedOK(u) /\ RequestOK(u)
  BY DEF IInv
<1>1. present \subseteq present'
  BY <1>0, RowsGrow
\* What is new in present was held by the transaction that committed.
<1>2. ASSUME pc[u] \in {"replace", "commit"}, pc'[u] # "idle",
             call[u].row \notin present
      PROVE  call[u].row \notin present'
  <2>1. call[u].row \in Held(u) /\ call[u].row \in Row
    BY <1>0, <1>2, CallOf, CallFacts DEF Held
  <2>2. ASSUME NEW t \in Tx, Commit(t), call[u].row \in Held(t)
        PROVE  FALSE
    <3>1. t = u
      BY <1>0, <2>1, <2>2 DEF LocksHeld
    <3> QED
      BY <1>0, <1>2, <2>2, <3>1, FinishStep DEF Commit
  <2> QED
    BY <1>0, <1>2, <2>1, <2>2, RowsGrow DEF rows
<1>3. ASSUME pc'[u] = pc[u], call'[u] = call[u]
      PROVE  RequestOK(u)'
  <2> SUFFICES ASSUME pc[u] \in {"insert", "update", "replace", "commit"}, ~Seeding(u)
               PROVE  RequestOK(u)'
    BY <1>3 DEF RequestOK, Seeding
  <2> QED
    BY <1>0, <1>1, <1>2, <1>3 DEF RequestOK, Seeding
<1>4. ASSUME pc'[u] \in {"idle", "authenticate", "check", "upsert", "admin"}
      PROVE  RequestOK(u)'
  BY <1>4 DEF RequestOK
<1>5. ASSUME Seeding(u), call'[u] = call[u]
      PROVE  RequestOK(u)'
  BY <1>4, <1>5 DEF RequestOK, Seeding
<1>6. CASE UNCHANGED vars
  BY <1>3, <1>6 DEF vars
<1>7. ASSUME NEW t \in Tx, t # u, Others(t)
      PROVE  RequestOK(u)'
  BY <1>3, <1>7 DEF Others
<1>8. CASE Finish(u)
  BY <1>0, <1>4, <1>8, FinishStep
<1>9. CASE Begin(u)
  BY <1>0, <1>4, <1>9 DEF Begin, TypeOK
<1>10. ASSUME Authenticate(u) \/ Upsert(u) \/ FindAdmin(u), ~Rollback(u)
       PROVE  RequestOK(u)'
  BY <1>0, <1>4, <1>5, <1>10
  DEF Authenticate, Upsert, FindAdmin, Goto, TypeOK, SeedOK
<1>11. ASSUME Check(u), ~Rollback(u)
       PROVE  RequestOK(u)'
  <2>1. /\ present' = present /\ call' = call /\ Valid(call[u])
        /\ pc'[u] = IF call[u].op = "assign" THEN "update" ELSE "insert"
    BY <1>0, <1>11 DEF Check, Goto, rows, TypeOK
  <2> QED
    BY <2>1 DEF Valid, RequestOK
<1>12. ASSUME Insert(u) \/ Update(u) \/ Replace(u), ~Rollback(u)
       PROVE  RequestOK(u)'
  <2>1. /\ call' = call /\ present' = present /\ pc'[u] \in {"replace", "commit"}
        /\ pc[u] \in {"insert", "update", "replace"}
        /\ pc[u] = "insert" => call[u].row \notin present
    BY <1>0, <1>12 DEF Insert, Update, Replace, Goto, rows, TypeOK
  <2> QED
    BY <1>0, <2>1 DEF RequestOK, Seeding
<1>13. CASE BreakDeadlock
  BY <1>0, <1>7, <1>8, <1>13, FinishStep DEF BreakDeadlock, Rollback
<1>14. ASSUME NEW t \in Tx, Begin(t) \/ Advance(t) \/ Abort(t)
       PROVE  RequestOK(u)'
  <2>1. CASE t # u
    BY <1>0, <1>7, <1>14, <2>1, OthersKeep DEF Abort
  <2>2. CASE t = u
    BY <1>8, <1>9, <1>10, <1>11, <1>12, <1>14, <2>2
    DEF Advance, Abort, Rollback, Commit
  <2> QED
    BY <2>1, <2>2
<1> QED
  BY <1>6, <1>13, <1>14 DEF Next

----------------------------------------------------------------------------
(* The links written *)

LEMMA WrittenHeld ==
  ASSUME TypeOK, NEW t \in Tx, pc[t] # "idle"
  PROVE  Written(t) \subseteq Held(t) /\ Held(t) \subseteq Row
BY CallOf, CallFacts, AccessRowsAssumption DEF Written, Held, Upserted, SeedItem, Row

\* A commit replaces the links of the rows it wrote by those it wished.
LEMMA CommitLinks ==
  ASSUME IInv, NEW t \in Tx, Commit(t)
  PROVE  /\ links' = {l \in links : l[1] \notin Written(t)}
                       \cup {l \in Link : l[1] \in Written(t) /\ l[2] \in Wish(t, l[1])}
         /\ present' = present \cup {x \in Row : x \in Held(t)}
         /\ \A l \in links' : l[1] \in present'
<1>1. /\ TypeOK /\ LocksHeld /\ LinksOwned /\ WritesOK(t)
      /\ links' = (links \cup added[t]) \ gone[t]
      /\ present' = present \cup {x \in Row : lock[x] = t}
      /\ pc[t] = "commit"
  BY DEF Commit, IInv
<1>2. links' = {l \in links : l[1] \notin Written(t)}
                 \cup {l \in Link : l[1] \in Written(t) /\ l[2] \in Wish(t, l[1])}
  BY <1>1 DEF WritesOK, TypeOK
<1>3. present' = present \cup {x \in Row : x \in Held(t)}
  BY <1>1 DEF LocksHeld
<1>4. Written(t) \subseteq present'
  BY <1>1, <1>3, WrittenHeld
<1> QED
  BY <1>1, <1>2, <1>3, <1>4 DEF LinksOwned

LEMMA NextOwned ==
  ASSUME IInv, [Next]_vars
  PROVE  LinksOwned'
<1>1. CASE UNCHANGED rows
  BY <1>1 DEF rows, IInv, LinksOwned
<1>2. ASSUME NEW t \in Tx, Commit(t)
      PROVE  LinksOwned'
  BY <1>2, CommitLinks DEF LinksOwned
<1> QED
  BY <1>1, <1>2, RowsGrow DEF IInv

LEMMA WritesKept ==
  ASSUME NEW u \in Tx, WritesOK(u), UNCHANGED links,
         added'[u] = added[u], gone'[u] = gone[u], Written(u)' = Written(u),
         \A x \in Written(u) : Wish(u, x)' = Wish(u, x)
  PROVE  WritesOK(u)'
BY DEF WritesOK

LEMMA WritesMore ==
  ASSUME TypeOK, NEW u \in Tx, WritesOK(u), UNCHANGED links,
         NEW x, NEW ys, WriteLinks(u, x, ys), LinksOf(x, ys) \subseteq Link,
         Written(u)' = Written(u) \cup {x}, Wish(u, x)' = ys,
         \A y \in Written(u) : Wish(u, y)' = Wish(u, y)
  PROVE  WritesOK(u)'
<1>1. added'[u] = added[u] \cup LinksOf(x, ys) /\ gone'[u] = gone[u] \cup LinksButTo(links, x, ys)
  BY DEF WriteLinks, TypeOK
<1>2. LinksOf(x, ys) = {l \in Link : l[1] = x /\ l[2] \in ys}
  <2>1. \A l \in Link : l = <<l[1], l[2]>>
    BY DEF Link
  <2> QED
    BY <2>1 DEF LinksOf
<1>3. LinksButTo(links, x, ys) = {l \in links : l[1] = x /\ l[2] \notin ys}
  BY DEF LinksButTo
<1>4. added'[u] = {l \in Link : l[1] \in Written(u)' /\ l[2] \in Wish(u, l[1])'}
  BY <1>1, <1>2 DEF WritesOK
<1>5. gone'[u] = {l \in links' : l[1] \in Written(u)' /\ l[2] \notin Wish(u, l[1])'}
  BY <1>1, <1>3 DEF WritesOK
<1> QED
  BY <1>4, <1>5 DEF WritesOK

LEMMA NextWrites ==
  ASSUME IInv, [Next]_vars, NEW u \in Tx
  PROVE  WritesOK(u)'
<1>0. TypeOK /\ LocksHeld /\ SeedOK(u) /\ WritesOK(u)
  BY DEF IInv
<1>1. CASE UNCHANGED vars
  BY <1>0, <1>1 DEF vars, rows, locals, WritesOK, Written, Wish, Upserted, Seeding
<1>2. ASSUME NEW t \in Tx, t # u, Others(t), UNCHANGED links
      PROVE  WritesOK(u)'
  <2>1. Written(u)' = Written(u) /\ \A x \in Written(u) : Wish(u, x)' = Wish(u, x)
    BY <1>2 DEF Others, Written, Wish, Upserted, Seeding
  <2> QED
    BY <1>0, <1>2, <2>1, WritesKept DEF Others
<1>3. ASSUME NEW t \in Tx, t # u, Commit(t)
      PROVE  WritesOK(u)'
  <2>1. /\ Written(u)' = Written(u) /\ \A x : Wish(u, x)' = Wish(u, x)
        /\ added'[u] = added[u] /\ gone'[u] = gone[u]
    BY <1>0, <1>3, FinishStep DEF Commit, Others, Written, Wish, Upserted, Seeding
  <2>2. Written(u) \cap Written(t) = {}
    <3>1. CASE pc[u] = "idle"
      BY <3>1 DEF Written, Upserted, Seeding
    <3>2. CASE pc[u] # "idle"
      BY <1>0, <1>3, <3>2, WrittenHeld DEF Commit, LocksHeld
    <3> QED
      BY <3>1, <3>2
  <2>3. \A l : l[1] \in Written(u) =>
          (l \in links' <=> l \in links)
    BY <1>3, <2>2, CommitLinks
  <2>4. {l \in links' : l[1] \in Written(u) /\ l[2] \notin Wish(u, l[1])}
          = {l \in links : l[1] \in Written(u) /\ l[2] \notin Wish(u, l[1])}
    BY <2>3
  <2> QED
    BY <1>0, <2>1, <2>4 DEF WritesOK
<1>4. CASE Finish(u)
  BY <1>0, <1>4, FinishStep DEF WritesOK, Written, Upserted, Seeding
<1>5. CASE Begin(u)
  <2>1. added'[u] = {} /\ gone'[u] = {}
    BY <1>0, <1>5 DEF Begin, WritesOK, Written, Upserted, Seeding
  <2>2. Written(u)' = {}
    <3> PICK c \in Calls : call' = [call EXCEPT ![u] = c] /\
          (\/ /\ c.op = "seed" /\ pc' = [pc EXCEPT ![u] = "upsert"]
              /\ \E x \in Phase(Permission \cup SeedRole) :
                  /\ item' = [item EXCEPT ![u] = x]
                  /\ todo' = [todo EXCEPT ![u] = (Permission \cup SeedRole) \ {x}]
           \/ c.op # "seed" /\ pc' = [pc EXCEPT ![u] = "authenticate"])
      BY <1>5 DEF Begin
    <3> QED
      BY <1>0 DEF Written, Upserted, Seeding, SeedItem, TypeOK
  <2> QED
    BY <2>1, <2>2 DEF WritesOK
<1>6. ASSUME Authenticate(u) \/ Check(u) \/ Insert(u) \/ Update(u) \/ FindAdmin(u),
             ~Rollback(u)
      PROVE  WritesOK(u)'
  <2>1. /\ links' = links /\ call' = call /\ item' = item /\ todo' = todo
        /\ added' = added /\ gone' = gone
        /\ pc[u] \notin {"idle", "commit"} /\ pc'[u] \notin {"idle", "commit"}
    BY <1>0, <1>6
    DEF Authenticate, Check, Insert, Update, FindAdmin, Goto, locals, rows, TypeOK
  <2>2. Written(u)' = Written(u) /\ \A x : Wish(u, x)' = Wish(u, x)
    BY <2>1 DEF Written, Wish, Upserted, Seeding
  <2> QED
    BY <1>0, <2>1, <2>2 DEF WritesOK
<1>7. CASE Replace(u)
  <2>1. /\ links' = links /\ call' = call /\ item' = item /\ todo' = todo
        /\ pc[u] = "replace" /\ pc'[u] = "commit"
        /\ WriteLinks(u, call[u].row, call[u].refs)
    BY <1>0, <1>7 DEF Replace, Goto, rows, TypeOK
  <2>2. LinksOf(call[u].row, call[u].refs) \subseteq Link
    BY <1>0, <2>1, CallOf, CallFacts
  <2>3. Written(u)' = Written(u) \cup {call[u].row} /\ \A x : Wish(u, x)' = Wish(u, x)
    BY <2>1 DEF Written, Wish, Upserted, Seeding
  <2>4. Wish(u, call[u].row)' = call[u].refs
    BY <2>1 DEF Wish
  <2> QED
    BY <1>0, <2>1, <2>2, <2>3, <2>4, WritesMore
<1>8. CASE Upsert(u)
  <2>1. /\ links' = links /\ call'[u] = call[u] /\ item[u] \in SeedItem
        /\ Upserted(u)' = Upserted(u) \cup {item[u]}
        /\ pc[u] # "commit" /\ pc'[u] # "commit" /\ Seeding(u)
    BY <1>0, <1>8, UpsertHolds DEF Upsert, Goto, rows
  <2>2. \A x : Wish(u, x)' = Wish(u, x)
    BY <2>1 DEF Wish
  <2>3. CASE item[u] \in Permission /\ UNCHANGED <<added, gone>>
    <3>1. Written(u)' = Written(u)
      BY <2>1, <2>3, AccessRowsAssumption DEF Written
    <3> QED
      BY <1>0, <2>1, <2>2, <2>3, <3>1, WritesKept
  <2>4. CASE item[u] \in Role /\ WriteLinks(u, item[u], SeedGrants[item[u]])
    <3>1. PICK r \in SeedRole : r = item[u]
      BY <2>1, <2>4, AccessRowsAssumption DEF SeedItem
    <3>2. WriteLinks(u, r, SeedGrants[r]) /\ Written(u)' = Written(u) \cup {r}
      BY <2>1, <2>4, <3>1 DEF Written
    <3>3. r # call[u].row
      BY <1>0, <2>1, <3>1, CallOf, CallFacts, AccessRowsAssumption DEF Seeding
    <3>4. Wish(u, r)' = SeedGrants[r]
      BY <2>1, <3>3 DEF Wish
    <3> QED
      BY <1>0, <2>1, <2>2, <3>2, <3>4, SeedGrantsLink, WritesMore
  <2> QED
    BY <1>8, <2>3, <2>4 DEF Upsert
<1>9. CASE BreakDeadlock
  BY <1>0, <1>2, <1>4, <1>9, FinishStep DEF BreakDeadlock, Rollback, rows
<1>10. ASSUME NEW t \in Tx, Begin(t) \/ Advance(t) \/ Abort(t)
       PROVE  WritesOK(u)'
  <2>1. CASE t # u
    <3>1. UNCHANGED links \/ Commit(t)
      BY <1>10
      DEF Advance, Begin, Abort, Authenticate, Check, Insert, Update, Replace, Upsert,
          FindAdmin, Rollback, Goto, rows
    <3> QED
      BY <1>0, <1>2, <1>3, <1>10, <2>1, <3>1, OthersKeep DEF Abort
  <2>2. CASE t = u
    BY <1>4, <1>5, <1>6, <1>7, <1>8, <1>10, <2>2 DEF Advance, Abort, Rollback, Commit
  <2> QED
    BY <2>1, <2>2
<1> QED
  BY <1>1, <1>9, <1>10 DEF Next

LEMMA Inductive == Spec => []IInv
<1>1. Init => IInv
  <2> SUFFICES ASSUME Init PROVE IInv
    OBVIOUS
  <2>1. LocksHeld
    BY AccessAssumption DEF Init, LocksHeld, Held, Upserted, Seeding
  <2>2. \A t \in Tx : SeedOK(t) /\ RequestOK(t)
    BY DEF Init, SeedOK, RequestOK, Seeding
  <2>3. LinksOwned /\ \A t \in Tx : WritesOK(t)
    BY DEF Init, LinksOwned, WritesOK, Written, Upserted, Seeding
  <2> QED
    BY <2>1, <2>2, <2>3, InitTypes DEF IInv
<1>2. IInv /\ [Next]_vars => IInv'
  BY NextTypes, NextLocks, NextOwned, NextSeeds, NextRequests, NextWrites DEF IInv
<1> QED
  BY <1>1, <1>2, PTL DEF Spec

----------------------------------------------------------------------------
(* The properties *)

\* Rows, links and transactions are well typed in every reachable state.
THEOREM TypeCorrect == Spec => []TypeOK
<1>1. IInv => TypeOK
  BY DEF IInv
<1> QED
  BY <1>1, Inductive, PTL

\* Overlapping runs of the seed take turns after the permissions: each holds all
\* of those it has upserted, and RoleManage is one.
THEOREM SeedsOneByOne == Spec => []SeedsTakeTurns
<1>1. IInv => SeedsTakeTurns
  <2> SUFFICES ASSUME IInv, NEW t \in Tx, NEW u \in Tx,
                      Seeding(t), item[t] \notin Permission,
                      Seeding(u), item[u] \notin Permission
               PROVE  t = u
    BY DEF SeedsTakeTurns
  <2>1. ASSUME NEW v \in Tx, Seeding(v), item[v] \notin Permission
        PROVE  lock[RoleManage] = v
    <3>1. RoleManage \in Upserted(v)
      BY <2>1, AccessRowsAssumption DEF IInv, SeedOK, Upserted, SeedItem
    <3> QED
      BY <2>1, <3>1, AccessRowsAssumption DEF IInv, LocksHeld, Held, Row
  <2> QED
    BY <2>1
<1> QED
  BY <1>1, Inductive, PTL

\* Every deadlock takes a run of the seed: a call that others wait for holds one
\* row only, and what it waits for itself is there already and no user.
THEOREM DeadlocksNeedASeed == Spec => []DeadlocksTakeASeed
<1>1. IInv => DeadlocksTakeASeed
  <2> SUFFICES ASSUME IInv, NEW G \in SUBSET Tx, Stuck(G),
                      \A t \in G : ~Seeding(t)
               PROVE  FALSE
    BY DEF DeadlocksTakeASeed
  <2>1. \A t \in Tx : SeedOK(t) /\ RequestOK(t)
    BY DEF IInv
  \* A call that another waits for, and that waits, is at "replace".
  <2>2. ASSUME NEW t \in G, NEW u \in G, NEW x \in Wanted(t), lock[x] = u
        PROVE  pc[u] = "replace" /\ x = call[u].row
    <3>1. x \in Row
      <4>1. pc[t] # "idle"
        BY <2>2 DEF Wanted
      <4>2. call[t].row \in Row /\ call[t].refs \subseteq Row
        BY <4>1, CallOf, CallFacts DEF IInv
      <4>3. pc[t] # "upsert"
        BY <2>1 DEF SeedOK
      <4> QED
        BY <2>2, <4>2, <4>3 DEF Wanted
    <3>2. x \in Held(u)
      BY <2>2, <3>1 DEF IInv, LocksHeld
    <3>3. pc[u] \in {"replace", "commit"} /\ x = call[u].row
      BY <3>2 DEF Held, Upserted
    <3>4. pc[u] # "commit"
      BY DEF Stuck, WaitsFor, Wanted
    <3> QED
      BY <3>3, <3>4
  <2>3. PICK t \in G, u \in G : WaitsFor(t, u)
    BY DEF Stuck
  <2>4. pc[u] = "replace"
    BY <2>2, <2>3 DEF WaitsFor
  <2>5. PICK v \in G : WaitsFor(u, v)
    BY DEF Stuck
  <2>6. PICK x \in Wanted(u) : lock[x] = v
    BY <2>5 DEF WaitsFor
  <2>7. x \in call[u].refs /\ pc[v] = "replace" /\ x = call[v].row
    BY <2>2, <2>4, <2>6 DEF Wanted
  <2>8. x \in present
    BY <2>1, <2>4, <2>7 DEF RequestOK
  <2>9. call[v].op = "assign" /\ x \in User
    <3>1. call[v].op = "assign"
      BY <2>1, <2>7, <2>8 DEF RequestOK
    <3> QED
      BY <2>7, <3>1, CallOf, CallFacts DEF IInv
  <2>10. x \notin User
    BY <2>4, <2>7, CallOf, CallFacts, AccessRowsAssumption DEF IInv
  <2> QED
    BY <2>9, <2>10
<1> QED
  BY <1>1, Inductive, PTL

----------------------------------------------------------------------------
(* Access implements AccessControl *)

\* The commit of a seed is one step of the abstract seed.
LEMMA SeedCommits ==
  ASSUME IInv, NEW t \in Tx, Commit(t), Seeding(t)
  PROVE  Control!Seed
<1>1. pc[t] = "commit" /\ call[t].row = Admin /\ call[t].refs = {SuperAdmin}
  BY CallOf, CallFacts DEF Commit, Seeding, IInv
<1>2. Upserted(t) = SeedItem
  <2>1. todo[t] = {} /\ item[t] = None
    BY <1>1 DEF IInv, SeedOK, TypeOK
  <2>2. None \notin SeedItem
    BY AccessAssumption, AccessRowsAssumption DEF Row, SeedItem
  <2> QED
    BY <2>1, <2>2 DEF Upserted
<1>3. Held(t) = SeedRows /\ SeedRows \subseteq Row
  BY <1>1, <1>2, AccessRowsAssumption DEF Held, SeedRows, SeedItem, Row
<1>4. Written(t) = SeedRole \cup {Admin}
  BY <1>1, <1>2, AccessRowsAssumption DEF Written, SeedItem
<1>5. {l \in Link : l[1] \in Written(t) /\ l[2] \in Wish(t, l[1])} = SeedLinks
  <2>1. Admin \notin SeedRole
    BY AccessRowsAssumption
  <2>2. \A l \in Link : l = <<l[1], l[2]>>
    BY DEF Link
  <2>3. SeedLinks \subseteq Link
    BY SeedGrantsLink, AccessRowsAssumption DEF SeedLinks, LinksOf, Link
  <2>4. \A l \in Link : l \in SeedLinks <=>
          \/ l[1] = Admin /\ l[2] = SuperAdmin
          \/ l[1] \in SeedRole /\ l[2] \in SeedGrants[l[1]]
    BY <2>2 DEF SeedLinks, LinksOf
  <2>5. \A l \in Link : l[1] \in Written(t) /\ l[2] \in Wish(t, l[1]) <=>
          \/ l[1] = Admin /\ l[2] = SuperAdmin
          \/ l[1] \in SeedRole /\ l[2] \in SeedGrants[l[1]]
    BY <1>1, <1>4, <2>1 DEF Wish
  <2> QED
    BY <2>3, <2>4, <2>5
<1>6. present' = present \cup SeedRows
  BY <1>3, CommitLinks
<1>7. links' = {l \in links : l[1] \notin SeedRole \cup {Admin}} \cup SeedLinks
  BY <1>4, <1>5, CommitLinks
<1> QED
  BY <1>6, <1>7
  DEF Control!Seed, Control!SeedRows, SeedRows, Control!SeedLinks, SeedLinks,
      Control!LinksOf, LinksOf, Control!SeedRole, SeedRole

\* The commit of a call is one creation or one assignment.
LEMMA CallCommits ==
  ASSUME IInv, NEW t \in Tx, Commit(t), ~Seeding(t)
  PROVE  Control!Next
<1> DEFINE c == call[t]
<1>1. /\ pc[t] = "commit" /\ c \in Call /\ c \in Calls /\ c.op # "seed"
      /\ RequestOK(t) /\ TypeOK /\ LinksOwned
  BY CallOf DEF Commit, Seeding, IInv
<1>2. Held(t) = {c.row} /\ Written(t) = {c.row}
  BY <1>1 DEF Held, Written, Upserted
<1>3. {l \in Link : l[1] \in Written(t) /\ l[2] \in Wish(t, l[1])} = LinksOf(c.row, c.refs)
  <2>1. \A l \in Link : l = <<l[1], l[2]>>
    BY DEF Link
  <2> QED
    BY <1>1, <1>2, <2>1, CallFacts DEF Wish, LinksOf
<1>4. links' = {l \in links : l[1] # c.row} \cup LinksOf(c.row, c.refs)
  BY <1>2, <1>3, CommitLinks
<1>5. present' = present \cup {c.row}
  BY <1>1, <1>2, CallFacts, CommitLinks
<1>6. c.refs \subseteq present
  BY <1>1 DEF RequestOK
<1>7. CASE c.op = "assign"
  <2>1. c.row \in present /\ c.row \in User /\ c.refs \in SUBSET Role
    BY <1>1, <1>7, CallFacts DEF RequestOK
  <2>2. Control!Assign(c.row, c.refs)
    BY <1>4, <1>5, <1>6, <2>1 DEF Control!Assign, Control!LinksOf, LinksOf
  <2> QED
    BY <1>1, <1>7, <2>2 DEF Control!Next
<1>8. CASE c.op # "assign"
  <2>1. c.row \notin present
    BY <1>1, <1>8 DEF RequestOK
  <2>2. {l \in links : l[1] # c.row} = links
    BY <1>1, <2>1 DEF LinksOwned
  <2>3. Control!Create(c.row, c.refs)
    BY <1>1, <1>4, <1>5, <1>6, <2>1, <2>2, CallFacts
    DEF Control!Create, Control!LinksOf, LinksOf, Control!Link, Link
  <2> QED
    BY <1>1, <1>8, <2>3 DEF Control!Next, Call, SeedCall
<1> QED
  BY <1>7, <1>8

\* However statements of calls and seeds interleave, fail and wait, each call
\* and each seed changes users, roles and links in one step or not at all.
THEOREM Implements == Spec => ActsAtomically
<1>1. Init => Control!Init
  BY DEF Init, Control!Init
<1>2. IInv /\ [Next]_vars => [Control!Next]_<<present, links>>
  <2> SUFFICES ASSUME IInv, [Next]_vars
               PROVE  [Control!Next]_<<present, links>>
    OBVIOUS
  <2>1. CASE UNCHANGED rows
    BY <2>1 DEF rows
  <2>2. ASSUME NEW t \in Tx, Commit(t)
        PROVE  Control!Next
    <3>1. CASE Seeding(t)
      BY <2>2, <3>1, SeedCommits, CallOf DEF Commit, Seeding, IInv, Control!Next
    <3>2. CASE ~Seeding(t)
      BY <2>2, <3>2, CallCommits
    <3> QED
      BY <3>1, <3>2
  <2> QED
    BY <2>1, <2>2, RowsGrow DEF IInv
<1> QED
  BY <1>1, <1>2, Inductive, PTL DEF Spec, Control!Spec, ActsAtomically

----------------------------------------------------------------------------
(* The way back when nobody may manage roles *)

\* Once nobody may manage roles and no call is under way that was let in before,
\* only the commit of a seed changes that, whatever calls are sent.
THEOREM NoWayBackButASeed == Spec => OnlyASeedRestores
<1> DEFINE Restored == LockedOut => LockedOut' \/ \E t \in Tx : Seeding(t) /\ Commit(t)
<1>1. ASSUME IInv, [Next]_vars, LockedOut, ~\E t \in Tx : Seeding(t) /\ Commit(t)
      PROVE  LockedOut'
  <2>1. UNCHANGED rows
    <3>1. ASSUME NEW t \in Tx, Commit(t) PROVE FALSE
      BY <1>1, <3>1 DEF Commit, LockedOut
    <3> QED
      BY <1>1, <3>1, RowsGrow DEF IInv
  <2>2. SUFFICES ASSUME NEW u \in Tx, pc'[u] \notin {"idle", "authenticate"}
                 PROVE  Seeding(u)'
    BY <1>1, <2>1 DEF LockedOut, rows
  <2>3. TypeOK /\ SeedOK(u)
    BY <1>1 DEF IInv
  <2>4. ASSUME pc'[u] = pc[u], call'[u] = call[u]
        PROVE  Seeding(u)'
    BY <1>1, <2>2, <2>4 DEF LockedOut, Seeding
  <2>5. CASE UNCHANGED vars
    BY <2>4, <2>5 DEF vars
  <2>6. ~Finish(u)
    BY <2>2, <2>3, FinishStep
  <2>7. CASE Begin(u)
    <3> PICK c \in Calls : call' = [call EXCEPT ![u] = c] /\
          \/ c.op = "seed"
          \/ pc' = [pc EXCEPT ![u] = "authenticate"]
      BY <2>7 DEF Begin
    <3> QED
      BY <2>2, <2>3 DEF TypeOK, Seeding
  <2>8. ~Authenticate(u)
    <3>1. ASSUME Authenticate(u) PROVE ~Admitted(u)
      <4>1. ~Seeding(u) /\ pc[u] # "idle"
        BY <2>3, <3>1 DEF Authenticate, SeedOK
      <4>2. call[u].by \in User
        BY <2>3, <4>1, CallOf, CallFacts DEF Seeding
      <4> QED
        BY <1>1, <4>2 DEF Admitted, LockedOut
    <3> QED
      BY <2>6, <3>1 DEF Authenticate, Rollback
  <2>9. ASSUME Check(u) \/ Insert(u) \/ Update(u) \/ Replace(u) \/ Upsert(u) \/ FindAdmin(u)
        PROVE  Seeding(u)'
    <3>1. call' = call /\ pc[u] \notin {"idle", "authenticate"}
      BY <2>6, <2>9
      DEF Check, Insert, Update, Replace, Upsert, FindAdmin, Rollback, Goto
    <3> QED
      BY <1>1, <2>2, <3>1 DEF LockedOut, Seeding
  <2>10. CASE BreakDeadlock
    BY <2>3, <2>4, <2>6, <2>10, FinishStep DEF BreakDeadlock, Rollback, Others
  <2>11. ASSUME NEW t \in Tx, Begin(t) \/ Advance(t) \/ Abort(t)
         PROVE  Seeding(u)'
    <3>1. CASE t = u
      BY <2>6, <2>7, <2>8, <2>9, <2>11, <3>1 DEF Advance, Abort, Rollback, Commit
    <3>2. CASE t # u
      BY <2>3, <2>4, <2>11, <3>2, OthersKeep DEF Abort, Others
    <3> QED
      BY <3>1, <3>2
  <2> QED
    BY <1>1, <2>5, <2>10, <2>11 DEF Next
<1>2. IInv /\ [Next]_vars => [Restored]_vars
  BY <1>1
<1> HIDE DEF Restored
<1>3. Spec => [][Restored]_vars
  BY <1>2, Inductive, PTL DEF Spec
<1> QED
  BY <1>3 DEF Restored, OnlyASeedRestores

\* Whatever was assigned before and whatever runs beside it, a run of the seed
\* that commits leaves its administrator with every permission, and each role
\* of the seed with its own permissions and no other.
THEOREM SeedRestores ==
  Spec => [][\A t \in Tx : Commit(t) /\ Seeding(t) =>
               /\ Codes(links', Admin) = Permission
               /\ \A r \in SeedRole :
                    {l \in links' : l[1] = r} = LinksOf(r, SeedGrants[r])]_vars
<1> DEFINE Restored == /\ Codes(links', Admin) = Permission
                       /\ \A r \in SeedRole :
                            {l \in links' : l[1] = r} = LinksOf(r, SeedGrants[r])
           Restores == \A t \in Tx : Commit(t) /\ Seeding(t) => Restored
<1>1. ASSUME IInv, NEW t \in Tx, Commit(t), Seeding(t) PROVE Restored
  <2>1. links' = {l \in links : l[1] \notin SeedRole \cup {Admin}} \cup SeedLinks
    BY <1>1, SeedCommits
    DEF Control!Seed, Control!SeedLinks, SeedLinks, Control!LinksOf, LinksOf,
        Control!SeedRole, SeedRole
  <2>2. Admin \notin SeedRole /\ SuperAdmin \in SeedRole /\ SeedRole \subseteq Role
        /\ Admin \in User /\ SeedGrants[SuperAdmin] = Permission
    BY AccessRowsAssumption
  <2>3. <<Admin, SuperAdmin>> \in links'
    BY <2>1 DEF SeedLinks, LinksOf
  <2>4. \A p \in Permission : <<SuperAdmin, p>> \in links'
    BY <2>1, <2>2 DEF SeedLinks, LinksOf
  <2>5. Codes(links', Admin) = Permission
    BY <2>2, <2>3, <2>4 DEF Codes
  <2>6. ASSUME NEW r \in SeedRole
        PROVE  {l \in links' : l[1] = r} = LinksOf(r, SeedGrants[r])
    BY <2>1, <2>2 DEF SeedLinks, LinksOf
  <2> QED
    BY <2>5, <2>6
<1>2. IInv => Restores
  BY <1>1
<1> HIDE DEF Restores
<1>3. Spec => [][Restores]_vars
  BY <1>2, Inductive, PTL
<1> QED
  BY <1>3 DEF Restores
=============================================================================
