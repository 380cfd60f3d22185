-------------------------- MODULE RefreshTokensProofs --------------------------
(***************************************************************************)
(* Theorems about RefreshTokens, for every number of accounts, families,     *)
(* requests, tokens and every grace window, lifetime and time bound.          *)
(*                                                                         *)
(* IInv is inductive: TypeOK alone is not, since the fields of a row come      *)
(* from the claims of its token, which come from the request that signed it.  *)
(***************************************************************************)
EXTENDS RefreshTokens, WellFoundedInduction, TLAPS

\* Tokens are signed in order: exactly the first "issued" ones have claims, and
\* only those can be stored or delivered.
SignedInOrder ==
  \A j \in Jti : /\ j <= issued <=> claims[j] # None
                 /\ j \in Stored \cup delivered => j <= issued

\* A row repeats the claims of the JWT it was created with.
RowsMatchClaims ==
  \A j \in Stored : /\ row[j].fam = claims[j].fam
                    /\ row[j].sub = claims[j].sub
                    /\ row[j].exp = claims[j].exp

\* A token signed later expires no sooner, and none expires later than one
\* signed now would.
ExpiryInOrder ==
  /\ \A j \in Jti : j <= issued => claims[j].exp <= now + Ttl
  /\ \A i, j \in Jti : i < j /\ j <= issued => claims[i].exp <= claims[j].exp

\* What a request knows agrees with the tokens it is about.
Issuing == {"save", "consume", "answer"}
RequestsConsistent ==
  \A r \in Requests :
    /\ req[r].pc \in {"password", "user", "save", "consume"} => req[r].sub \in Users
    /\ req[r].pc \in {"user", "save", "consume"} => req[r].fam \in Families
    /\ req[r].pc = "password" => req[r].jti = 0
    /\ req[r].pc \in {"lookup", "user", "consume"} => req[r].jti # 0
    /\ req[r].jti # 0 => /\ req[r].jti \in delivered
                         /\ req[r].fam = claims[req[r].jti].fam
                         /\ req[r].sub = claims[req[r].jti].sub
    /\ req[r].pc \in Issuing => /\ req[r].new \in 1 .. issued
                                /\ req[r].new \notin delivered
                                /\ req[r].jti < req[r].new
                                /\ req[r].fam = claims[req[r].new].fam
                                /\ req[r].sub = claims[req[r].new].sub

\* Two requests never issue the same token.
IssuedOnce ==
  \A r, q \in Requests : req[r].pc \in Issuing /\ req[q].pc \in Issuing
                         /\ req[r].new = req[q].new => r = q

\* Only a token some client received is ever consumed.
ConsumedDelivered == \A j \in Stored : Consumed(j) => j \in delivered

\* The successor is stored before its predecessor is consumed, and does not
\* leave the table before it.
SavedFirst ==
  \A r \in Requests : req[r].pc = "consume" /\ req[r].jti \in Stored
                      => req[r].new \in Stored

\* SuccessorStored, with the account.
SuccessorOfSameAccount ==
  \A j \in Stored : Consumed(j) =>
    /\ row[j].replacedBy \in Stored
    /\ row[j].replacedBy > j
    /\ row[row[j].replacedBy].fam = row[j].fam
    /\ row[row[j].replacedBy].sub = row[j].sub

IInv ==
  /\ TypeOK /\ SignedInOrder /\ RowsMatchClaims /\ ExpiryInOrder
  /\ RequestsConsistent /\ IssuedOnce /\ ConsumedDelivered /\ SavedFirst
  /\ SuccessorOfSameAccount /\ TokensHaveAccount

-------------------------------------------------------------------------------
USE ConstantsAssumption, NoneIsNoRecord

LEMMA InitIInv == Init => IInv
<1> SUFFICES ASSUME Init PROVE IInv
  OBVIOUS
<1> USE DEF Init
<1>1. TypeOK
  BY DEF TypeOK, Request, Idle
<1>2. Stored = {} /\ \A r \in Requests : req[r].pc = "idle" /\ req[r].jti = 0
  BY DEF Stored, Idle
<1>3. SignedInOrder /\ ExpiryInOrder
  BY <1>2 DEF SignedInOrder, ExpiryInOrder, Jti, Stored
<1>4. RowsMatchClaims /\ ConsumedDelivered /\ SuccessorOfSameAccount /\ TokensHaveAccount
  BY <1>2 DEF RowsMatchClaims, ConsumedDelivered, SuccessorOfSameAccount, TokensHaveAccount
<1>5. RequestsConsistent /\ IssuedOnce /\ SavedFirst
  BY <1>2 DEF RequestsConsistent, IssuedOnce, SavedFirst, Issuing
<1> QED BY <1>1, <1>3, <1>4, <1>5 DEF IInv

\* A step that only moves one request on, without giving it a new token, keeps
\* IInv as soon as the request it leaves behind is consistent.
LEMMA RequestStep ==
  ASSUME IInv, NEW r \in Requests, NEW v \in Request,
         req' = [req EXCEPT ![r] = v],
         UNCHANGED <<accounts, row, claims, issued, opened, delivered, now>>,
         v.pc \in {"password", "user"} => v.sub \in Users,
         v.pc = "user" => v.fam \in Families,
         v.pc = "password" => v.jti = 0,
         v.pc \in {"lookup", "user"} => v.jti # 0,
         v.jti # 0 => /\ v.jti \in delivered
                      /\ v.fam = claims[v.jti].fam /\ v.sub = claims[v.jti].sub,
         v.pc \notin Issuing
  PROVE  IInv'
<1>1. TypeOK'
  BY DEF IInv, TypeOK
<1>2. /\ SignedInOrder' /\ RowsMatchClaims' /\ ExpiryInOrder'
      /\ ConsumedDelivered' /\ SuccessorOfSameAccount' /\ TokensHaveAccount'
  BY DEF IInv, SignedInOrder, RowsMatchClaims, ExpiryInOrder, ConsumedDelivered,
         SuccessorOfSameAccount, TokensHaveAccount, Stored, Consumed
<1>3. \A q \in Requests : req'[q] = IF q = r THEN v ELSE req[q]
  BY DEF IInv, TypeOK
<1>4. RequestsConsistent'
  BY <1>3 DEF IInv, RequestsConsistent, Issuing
<1>5. IssuedOnce'
  BY <1>3 DEF IInv, IssuedOnce
<1>6. SavedFirst'
  BY <1>3 DEF IInv, SavedFirst, Stored, Issuing
<1> QED BY <1>1, <1>2, <1>4, <1>5, <1>6 DEF IInv

\* The request is answered, or goes off to revoke its family.
LEMMA ReplyOrRevoke ==
  ASSUME IInv, NEW r \in Requests, Reply(r) \/ Goto(r, "revoke"),
         UNCHANGED <<accounts, row, claims, issued, opened, delivered, now>>
  PROVE  IInv'
<1> DEFINE w == [req[r] EXCEPT !.pc = "revoke"]
<1>1. Idle \in Request /\ w \in Request
  BY DEF IInv, TypeOK, Request, Idle
<1>2. CASE Reply(r)
  BY <1>1, <1>2, RequestStep DEF Reply, Idle, Issuing
<1>3. CASE Goto(r, "revoke")
  <2>1. req' = [req EXCEPT ![r] = w]
    BY <1>3 DEF Goto
  <2>2. w.pc = "revoke" /\ w.jti = req[r].jti /\ w.fam = req[r].fam /\ w.sub = req[r].sub
    BY DEF IInv, TypeOK, Request
  <2>3. w.jti # 0 => /\ w.jti \in delivered
                     /\ w.fam = claims[w.jti].fam /\ w.sub = claims[w.jti].sub
    BY <2>2 DEF IInv, RequestsConsistent
  <2> HIDE DEF w
  <2> QED BY <1>1, <2>1, <2>2, <2>3, RequestStep DEF Issuing
<1> QED BY <1>2, <1>3

LEMMA LoginIInv ==
  ASSUME IInv, NEW r \in Requests, NEW u \in Users, Login(r, u)
  PROVE  IInv'
<1> DEFINE v == [Idle EXCEPT !.pc = "password", !.sub = u]
<1>1. v \in Request /\ v.pc = "password" /\ v.sub = u /\ v.jti = 0
  BY DEF Request, Idle
<1>2. req' = [req EXCEPT ![r] = v]
  BY DEF Login
<1> HIDE DEF v
<1> QED BY <1>1, <1>2, RequestStep DEF Login, Issuing

LEMMA PresentTokenIInv ==
  ASSUME IInv, NEW r \in Requests, NEW j \in Jti, PresentToken(r, j)
  PROVE  IInv'
<1> DEFINE v == [pc |-> "lookup", jti |-> j, fam |-> claims[j].fam,
                 sub |-> claims[j].sub, reuse |-> FALSE, new |-> 0]
<1>1. claims[j].fam \in Families /\ claims[j].sub \in Users /\ j \in Nat /\ j # 0
  BY DEF PresentToken, IInv, TypeOK, SignedInOrder, Claims, Jti
<1>2. v \in Request
  BY <1>1 DEF Request
<1>3. req' = [req EXCEPT ![r] = v]
  BY DEF PresentToken
<1> QED BY <1>1, <1>2, <1>3, RequestStep DEF PresentToken, Issuing

LEMMA TokenAcceptedIInv ==
  ASSUME IInv, NEW r \in Requests, TokenAccepted(r)
  PROVE  IInv'
<1> DEFINE j == req[r].jti
           v == [req[r] EXCEPT !.pc = "user", !.reuse = Consumed(j)]
<1>1. req[r] \in Request /\ row[j] \in Row /\ j # 0
  BY DEF TokenAccepted, Known, IInv, TypeOK, RequestsConsistent, SignedInOrder, Stored
<1>2. v \in Request
  BY <1>1 DEF Request, Consumed
<1>3. v.pc = "user" /\ v.jti = j /\ v.fam = req[r].fam /\ v.sub = req[r].sub
  BY <1>1 DEF Request
<1>4. v.fam \in Families /\ v.sub \in Users
  BY <1>1, <1>3 DEF TokenAccepted, Known, Row
<1>5. v.jti \in delivered /\ v.fam = claims[v.jti].fam /\ v.sub = claims[v.jti].sub
  BY <1>1, <1>3 DEF IInv, RequestsConsistent
<1>6. req' = [req EXCEPT ![r] = v]
  BY DEF TokenAccepted
<1> HIDE DEF v, j
<1> QED BY <1>1, <1>2, <1>3, <1>4, <1>5, <1>6, RequestStep DEF TokenAccepted, Issuing

\* Both login and refresh issue through IssueTokenPair.
LEMMA IssueIInv ==
  ASSUME IInv, NEW r \in Requests, NEW f \in Families,
         req[r].pc \in {"password", "user"},
         req[r].jti # 0 => f = req[r].fam,
         IssueTokenPair(r, f),
         opened' \subseteq Families, UNCHANGED <<accounts, row, delivered, now>>
  PROVE  IInv'
<1> DEFINE k == issued + 1
           v == [req[r] EXCEPT !.pc = "save", !.fam = f, !.new = k]
<1> USE DEF IssueTokenPair
<1>1. /\ k \in Jti /\ issued' = k /\ k \in Nat /\ k \notin Stored \cup delivered
      /\ k > issued
  BY DEF IInv, TypeOK, SignedInOrder, Jti
<1>2. req[r] \in Request /\ req[r].sub \in Users
  BY DEF IInv, TypeOK, RequestsConsistent
<1>3. /\ v \in Request /\ v.pc = "save" /\ v.fam = f /\ v.new = k
      /\ v.jti = req[r].jti /\ v.sub = req[r].sub
  BY <1>1, <1>2 DEF Request
<1>4. \A q \in Requests : req'[q] = IF q = r THEN v ELSE req[q]
  BY DEF IInv, TypeOK
<1>5. \A j \in Jti : claims'[j] = IF j = k THEN [fam |-> f, sub |-> req[r].sub, exp |-> now + Ttl]
                                  ELSE claims[j]
  BY DEF IInv, TypeOK
<1>6. claims'[k] \in Claims
  BY <1>1, <1>2, <1>5 DEF Claims, IInv, TypeOK
<1>7. TypeOK'
  BY <1>1, <1>3, <1>6 DEF IInv, TypeOK, Jti
<1>8. SignedInOrder'
  BY <1>1, <1>5, <1>6 DEF IInv, TypeOK, SignedInOrder, Stored, Jti
<1>9. RowsMatchClaims'
  BY <1>1, <1>5 DEF IInv, RowsMatchClaims, Stored
<1>10. ExpiryInOrder'
  <2>1. \A j \in Jti : j <= issued' => j = k \/ j <= issued
    BY <1>1 DEF IInv, TypeOK, Jti
  <2>2. claims'[k].exp = now + Ttl
    BY <1>1, <1>5
  <2> QED BY <2>1, <2>2, <1>1, <1>5 DEF IInv, TypeOK, ExpiryInOrder, Jti
<1>11. RequestsConsistent'
  <2>1. \A q \in Requests : req[q].jti # 0 => req[q].jti \in Jti /\ req[q].jti # k /\ req[q].jti <= issued
    BY <1>1 DEF IInv, TypeOK, RequestsConsistent, SignedInOrder
  <2>2. \A q \in Requests : req[q].pc \in Issuing => req[q].new \in Jti /\ req[q].new # k
    BY <1>1 DEF IInv, TypeOK, RequestsConsistent, Jti
  <2>3. claims'[k].fam = f /\ claims'[k].sub = req[r].sub
    BY <1>1, <1>5
  <2>4. req[r].jti < k
    BY <2>1, <1>1, <1>2 DEF Request, IInv, TypeOK
  <2>5. ASSUME NEW q \in Requests, q # r
        PROVE  /\ req'[q] = req[q]
               /\ req[q].jti # 0 => claims'[req[q].jti] = claims[req[q].jti]
               /\ req[q].pc \in Issuing => claims'[req[q].new] = claims[req[q].new]
               /\ req[q].pc \in Issuing => req[q].new \in 1 .. issued'
    BY <2>1, <2>2, <2>5, <1>1, <1>4, <1>5 DEF IInv, RequestsConsistent, Jti, TypeOK
  <2>6. req[r].jti # 0 => claims'[req[r].jti] = claims[req[r].jti]
    BY <2>1, <1>5
  <2> HIDE DEF v, k
  <2>7. v.new \in 1 .. issued'
    BY <1>1, <1>3 DEF Jti
  <2> QED BY <2>3, <2>4, <2>5, <2>6, <2>7, <1>1, <1>2, <1>3, <1>4
        DEF IInv, RequestsConsistent, Issuing
<1>12. IssuedOnce'
  <2>1. \A q \in Requests : req[q].pc \in Issuing => req[q].new # k
    BY <1>1 DEF IInv, RequestsConsistent, TypeOK
  <2> HIDE DEF v, k, IssueTokenPair
  <2>2. SUFFICES ASSUME NEW p \in Requests, NEW q \in Requests, p # q,
                        req'[p].pc \in Issuing, req'[q].pc \in Issuing
                 PROVE  req'[p].new # req'[q].new
    BY DEF IssuedOnce
  <2>3. CASE p = r
    BY <2>1, <2>2, <2>3, <1>3, <1>4
  <2>4. CASE q = r
    BY <2>1, <2>2, <2>4, <1>3, <1>4
  <2>5. CASE p # r /\ q # r
    BY <2>2, <2>5, <1>4 DEF IInv, IssuedOnce
  <2> QED BY <2>3, <2>4, <2>5
<1>13. SavedFirst'
  BY <1>3, <1>4 DEF IInv, SavedFirst, Stored
<1>14. ConsumedDelivered' /\ SuccessorOfSameAccount' /\ TokensHaveAccount'
  BY DEF IInv, ConsumedDelivered, SuccessorOfSameAccount, TokensHaveAccount, Stored, Consumed
<1> QED BY <1>7, <1>8, <1>9, <1>10, <1>11, <1>12, <1>13, <1>14 DEF IInv

LEMMA RevokeFamilyIInv ==
  ASSUME IInv, NEW r \in Requests, RevokeFamily(r)
  PROVE  IInv'
<1> USE DEF RevokeFamily
<1>1. \A j \in Jti : /\ row'[j] = None <=> row[j] = None
                     /\ row[j] # None =>
                          /\ row'[j] \in Row
                          /\ row'[j].fam = row[j].fam /\ row'[j].sub = row[j].sub
                          /\ row'[j].exp = row[j].exp
                          /\ row'[j].consumedAt = row[j].consumedAt
                          /\ row'[j].replacedBy = row[j].replacedBy
  BY DEF IInv, TypeOK, Row
<1>2. Stored' = Stored
  BY <1>1 DEF Stored
<1>3. \A q \in Requests : req'[q] = IF q = r THEN Idle ELSE req[q]
  BY DEF IInv, TypeOK, Reply
<1>4. TypeOK'
  BY <1>1, <1>2 DEF IInv, TypeOK, Reply, Idle, Request, Stored
<1>5. SignedInOrder' /\ ExpiryInOrder' /\ RowsMatchClaims'
  BY <1>1, <1>2 DEF IInv, SignedInOrder, ExpiryInOrder, RowsMatchClaims, Stored
<1>6. RequestsConsistent' /\ IssuedOnce' /\ SavedFirst'
  BY <1>2, <1>3 DEF IInv, RequestsConsistent, IssuedOnce, SavedFirst, Idle, Issuing
<1>7. ConsumedDelivered' /\ SuccessorOfSameAccount' /\ TokensHaveAccount'
  BY <1>1, <1>2 DEF IInv, ConsumedDelivered, SuccessorOfSameAccount, TokensHaveAccount,
                    Stored, Consumed
<1> QED BY <1>4, <1>5, <1>6, <1>7 DEF IInv

LEMMA SaveTokenIInv ==
  ASSUME IInv, NEW r \in Requests, SaveToken(r)
  PROVE  IInv'
<1> DEFINE k == req[r].new
           n == [fam |-> claims[k].fam, sub |-> claims[k].sub,
                 exp |-> claims[k].exp,
                 consumedAt |-> 0, revoked |-> FALSE, replacedBy |-> 0]
           pc == IF req[r].jti = 0 \/ req[r].reuse THEN "answer" ELSE "consume"
           v == [req[r] EXCEPT !.pc = pc]
<1>1. /\ req[r] \in Request /\ req[r].pc = "save" /\ req[r].sub \in accounts
      /\ row' = [row EXCEPT ![k] = n] /\ req' = [req EXCEPT ![r] = v]
      /\ UNCHANGED <<accounts, claims, issued, opened, delivered, now>>
  BY DEF SaveToken, Goto, IInv, TypeOK
<1>2. /\ k \in Jti /\ k <= issued /\ k \notin delivered /\ req[r].fam = claims[k].fam
      /\ req[r].sub = claims[k].sub /\ claims[k] \in Claims
  BY <1>1 DEF IInv, TypeOK, RequestsConsistent, SignedInOrder, Issuing, Jti
<1>3. n \in Row /\ n # None
  <2>1. claims[k].fam \in Families /\ claims[k].sub \in Users /\ claims[k].exp \in Nat
    BY <1>2 DEF Claims
  <2>2. n \in Row
    BY <2>1 DEF Row
  <2> QED BY <2>2
<1>4. /\ v \in Request /\ v.pc = pc /\ v.jti = req[r].jti /\ v.fam = req[r].fam
      /\ v.sub = req[r].sub /\ v.new = k /\ pc \in {"answer", "consume"}
      /\ pc = "consume" => req[r].jti # 0
  BY <1>1 DEF Request
<1>5. \A j \in Jti : row'[j] = IF j = k THEN n ELSE row[j]
  BY <1>1 DEF IInv, TypeOK
<1>6. \A q \in Requests : req'[q] = IF q = r THEN v ELSE req[q]
  BY <1>1 DEF IInv, TypeOK
<1>7. /\ n.fam = claims[k].fam /\ n.sub = claims[k].sub /\ n.exp = claims[k].exp
      /\ n.consumedAt = 0
  OBVIOUS
<1> HIDE DEF n, k, v, pc
<1>8. Stored' = Stored \cup {k} /\ k \notin {j \in Stored : Consumed(j)}
  BY <1>2, <1>3, <1>5 DEF Stored, IInv, ConsumedDelivered
<1>9. TypeOK'
  BY <1>1, <1>2, <1>3, <1>4, <1>5, <1>6 DEF IInv, TypeOK
<1>10. SignedInOrder' /\ ExpiryInOrder' /\ RowsMatchClaims'
  BY <1>1, <1>2, <1>5, <1>7, <1>8 DEF IInv, SignedInOrder, ExpiryInOrder, RowsMatchClaims, Stored
<1>11. RequestsConsistent'
  BY <1>1, <1>2, <1>4, <1>6 DEF IInv, RequestsConsistent, Issuing, k
<1>12. IssuedOnce'
  BY <1>1, <1>4, <1>6 DEF IInv, IssuedOnce, Issuing, k
<1>13. SavedFirst'
  <2>1. \A q \in Requests : req[q].pc = "consume" => req[q].jti # k
    BY <1>2 DEF IInv, RequestsConsistent
  <2> QED BY <2>1, <1>1, <1>4, <1>6, <1>8 DEF IInv, SavedFirst
<1>14. ConsumedDelivered' /\ TokensHaveAccount'
  BY <1>1, <1>2, <1>5, <1>7, <1>8 DEF IInv, ConsumedDelivered, TokensHaveAccount, Consumed, Stored
<1>15. SuccessorOfSameAccount'
  <2>1. \A j \in Jti : row[j] = None /\ j = k => j \notin Stored
    BY DEF Stored
  <2>2. ASSUME k \in Stored PROVE row[k].fam = n.fam /\ row[k].sub = n.sub
    BY <2>2, <1>7 DEF IInv, RowsMatchClaims
  <2> QED BY <2>2, <1>2, <1>5, <1>7, <1>8 DEF IInv, SuccessorOfSameAccount, Consumed, Stored
<1> QED BY <1>9, <1>10, <1>11, <1>12, <1>13, <1>14, <1>15 DEF IInv

LEMMA ConsumeTokenIInv ==
  ASSUME IInv, NEW r \in Requests, ConsumeToken(r)
  PROVE  IInv'
<1> DEFINE j == req[r].jti
           v == [req[r] EXCEPT !.pc = "answer"]
<1>1. /\ req[r] \in Request /\ req[r].pc = "consume" /\ req' = [req EXCEPT ![r] = v]
      /\ UNCHANGED <<accounts, claims, issued, opened, delivered, now>>
  BY DEF ConsumeToken, Goto, IInv, TypeOK
<1>2. /\ v \in Request /\ v.pc = "answer" /\ v.jti = j /\ v.fam = req[r].fam
      /\ v.sub = req[r].sub /\ v.new = req[r].new
  BY <1>1 DEF Request
<1>3. \A q \in Requests : req'[q] = IF q = r THEN v ELSE req[q]
  BY <1>1 DEF IInv, TypeOK
<1>4. /\ j \in Jti /\ j \in delivered /\ claims[j].fam = claims[req[r].new].fam
      /\ claims[j].sub = claims[req[r].new].sub /\ j < req[r].new /\ req[r].new \in Jti
      /\ req[r].new \notin delivered
  BY <1>1 DEF IInv, TypeOK, RequestsConsistent, Issuing, Jti
<1>5. \A i \in Jti : /\ row'[i] = None <=> row[i] = None
                     /\ row[i] # None =>
                          /\ row'[i] \in Row
                          /\ row'[i].fam = row[i].fam /\ row'[i].sub = row[i].sub
                          /\ row'[i].exp = row[i].exp
                          /\ i # j => row'[i] = row[i]
                          /\ i = j => row'[i].replacedBy = req[r].new
  <2> DEFINE m == [row[j] EXCEPT !.consumedAt = now, !.replacedBy = req[r].new]
  <2>1. CASE row[j] = None
    BY <2>1 DEF ConsumeToken, IInv, TypeOK
  <2>2. CASE row[j] # None
    <3>1. row[j] \in Row /\ now \in Nat /\ req[r].new \in Nat
      BY <1>4, <2>2 DEF IInv, TypeOK, Jti
    <3>2. /\ m \in Row /\ m.fam = row[j].fam /\ m.sub = row[j].sub
          /\ m.exp = row[j].exp /\ m.replacedBy = req[r].new
      BY <3>1 DEF Row
    <3>3. \A i \in Jti : row'[i] = IF i = j THEN m ELSE row[i]
      BY <2>2 DEF ConsumeToken, IInv, TypeOK
    <3> HIDE DEF m, j
    <3>4. \A i \in Jti : row[i] # None => row[i] \in Row
      BY DEF IInv, TypeOK
    <3> QED BY <2>2, <3>2, <3>3, <3>4
  <2> QED BY <2>1, <2>2
<1>6. row' \in [Jti -> Row \cup {None}] /\ Stored' = Stored
  BY <1>5 DEF ConsumeToken, IInv, TypeOK, Stored
<1> HIDE DEF j, v
<1>7. TypeOK'
  BY <1>1, <1>2, <1>6 DEF IInv, TypeOK
<1>8. SignedInOrder' /\ ExpiryInOrder' /\ RowsMatchClaims' /\ TokensHaveAccount'
  BY <1>1, <1>5, <1>6 DEF IInv, SignedInOrder, ExpiryInOrder, RowsMatchClaims,
                          TokensHaveAccount, Stored
<1>9. RequestsConsistent'
  BY <1>1, <1>2, <1>3 DEF IInv, RequestsConsistent, Issuing, j
<1>10. IssuedOnce' /\ SavedFirst'
  BY <1>1, <1>2, <1>3, <1>6 DEF IInv, IssuedOnce, SavedFirst, Issuing
<1>11. ConsumedDelivered'
  BY <1>1, <1>4, <1>5, <1>6 DEF IInv, ConsumedDelivered, Consumed, Stored
<1>12. SuccessorOfSameAccount'
  <2> SUFFICES ASSUME NEW i \in Stored, Consumed(i)'
               PROVE  /\ row'[i].replacedBy \in Stored
                      /\ row'[i].replacedBy > i
                      /\ row'[row'[i].replacedBy].fam = row'[i].fam
                      /\ row'[row'[i].replacedBy].sub = row'[i].sub
    BY <1>6 DEF SuccessorOfSameAccount
  <2>1. CASE i = j
    <3>1. req[r].new \in Stored
      BY <1>1, <2>1 DEF IInv, SavedFirst, j
    <3>2. row'[i].replacedBy = req[r].new
      BY <2>1, <1>5 DEF Stored
    <3> QED BY <2>1, <3>1, <3>2, <1>4, <1>5 DEF IInv, RowsMatchClaims, Stored, Jti
  <2>2. CASE i # j
    <3>1. row'[i] = row[i] /\ Consumed(i)
      BY <2>2, <1>5 DEF Stored, Consumed
    <3> QED BY <3>1, <1>5 DEF IInv, SuccessorOfSameAccount, Stored
  <2> QED BY <2>1, <2>2
<1> QED BY <1>7, <1>8, <1>9, <1>10, <1>11, <1>12 DEF IInv

LEMMA DeliverIInv ==
  ASSUME IInv, NEW r \in Requests, Deliver(r)
  PROVE  IInv'
<1>1. /\ req[r].pc = "answer" /\ delivered' = delivered \cup {req[r].new}
      /\ UNCHANGED <<accounts, row, claims, issued, opened, now>>
  BY DEF Deliver
<1>2. \A q \in Requests : req'[q] = IF q = r THEN Idle ELSE req[q]
  BY DEF Deliver, Reply, IInv, TypeOK
<1>3. req[r].new \in Jti /\ req[r].new <= issued
  BY <1>1 DEF IInv, RequestsConsistent, Issuing, TypeOK, Jti
<1>4. TypeOK'
  BY <1>1, <1>3 DEF IInv, TypeOK, Deliver, Reply, Idle, Request
<1>5. SignedInOrder' /\ ExpiryInOrder' /\ RowsMatchClaims' /\ TokensHaveAccount'
  BY <1>1, <1>3 DEF IInv, SignedInOrder, ExpiryInOrder, RowsMatchClaims, TokensHaveAccount, Stored
<1>6. RequestsConsistent'
  <2>1. \A q \in Requests : q # r /\ req[q].pc \in Issuing => req[q].new # req[r].new
    BY <1>1 DEF IInv, IssuedOnce, Issuing
  <2> QED BY <2>1, <1>1, <1>2 DEF IInv, RequestsConsistent, Idle, Issuing
<1>7. IssuedOnce' /\ SavedFirst'
  BY <1>1, <1>2 DEF IInv, IssuedOnce, SavedFirst, Idle, Issuing, Stored
<1>8. ConsumedDelivered' /\ SuccessorOfSameAccount'
  BY <1>1 DEF IInv, ConsumedDelivered, SuccessorOfSameAccount, Consumed, Stored
<1> QED BY <1>4, <1>5, <1>6, <1>7, <1>8 DEF IInv

\* The purge goes by expiry: with a token go all those signed before it.
LEMMA PurgeIInv ==
  ASSUME IInv, Purge
  PROVE  IInv'
<1>1. UNCHANGED <<accounts, claims, issued, opened, delivered, req, now>>
  BY DEF Purge
<1>2. \A j \in Jti : row'[j] = IF row[j] # None /\ row[j].exp < now THEN None ELSE row[j]
  BY DEF Purge
<1>3. TypeOK'
  BY <1>1 DEF Purge, IInv, TypeOK
<1>4. Stored' \subseteq Stored /\ \A j \in Stored' : row'[j] = row[j]
  BY <1>2 DEF Stored
<1>5. \A i, j \in Jti : i < j /\ j \in Stored /\ i \in Stored' => j \in Stored'
  <2> TAKE i \in Jti, j \in Jti
  <2> HAVE i < j /\ j \in Stored /\ i \in Stored'
  <2>1. i \in Stored /\ ~(row[i].exp < now) /\ j <= issued
    BY <1>2, <1>4 DEF Stored, IInv, SignedInOrder
  <2>2. row[i].exp = claims[i].exp /\ row[j].exp = claims[j].exp /\ claims[i].exp <= claims[j].exp
    BY <2>1 DEF IInv, RowsMatchClaims, ExpiryInOrder
  <2>3. row[i].exp \in Nat /\ row[j].exp \in Nat /\ now \in Nat
    BY <2>1 DEF IInv, TypeOK, Row, Stored
  <2> QED BY <2>1, <2>2, <2>3, <1>2 DEF Stored
<1>6. SignedInOrder' /\ ExpiryInOrder' /\ RowsMatchClaims' /\ TokensHaveAccount'
  BY <1>1, <1>4 DEF IInv, SignedInOrder, ExpiryInOrder, RowsMatchClaims, TokensHaveAccount
<1>7. RequestsConsistent' /\ IssuedOnce' /\ ConsumedDelivered'
  BY <1>1, <1>4 DEF IInv, RequestsConsistent, IssuedOnce, ConsumedDelivered, Consumed
<1>8. SavedFirst'
  BY <1>1, <1>4, <1>5 DEF IInv, SavedFirst, RequestsConsistent, Issuing, Stored
<1>9. SuccessorOfSameAccount'
  BY <1>4, <1>5 DEF IInv, SuccessorOfSameAccount, Consumed, Stored
<1> QED BY <1>3, <1>6, <1>7, <1>8, <1>9 DEF IInv

\* The cascade takes a token and its successor together.
LEMMA RemoveAccountIInv ==
  ASSUME IInv, NEW u \in Users, RemoveAccount(u)
  PROVE  IInv'
<1>1. /\ accounts' = accounts \ {u}
      /\ UNCHANGED <<claims, issued, opened, delivered, req, now>>
  BY DEF RemoveAccount
<1>2. \A j \in Jti : row'[j] = IF row[j] # None /\ row[j].sub = u THEN None ELSE row[j]
  BY DEF RemoveAccount
<1>3. TypeOK'
  BY <1>1 DEF RemoveAccount, IInv, TypeOK
<1>4. Stored' \subseteq Stored /\ \A j \in Stored' : row'[j] = row[j]
  BY <1>2 DEF Stored
<1>5. \A i, j \in Stored : row[i].sub = row[j].sub /\ i \in Stored' => j \in Stored'
  BY <1>2 DEF Stored
<1>6. SignedInOrder' /\ ExpiryInOrder' /\ RowsMatchClaims'
  BY <1>1, <1>4 DEF IInv, SignedInOrder, ExpiryInOrder, RowsMatchClaims
<1>7. RequestsConsistent' /\ IssuedOnce' /\ ConsumedDelivered'
  BY <1>1, <1>4 DEF IInv, RequestsConsistent, IssuedOnce, ConsumedDelivered, Consumed
<1>8. SavedFirst'
  <2> SUFFICES ASSUME NEW r \in Requests, req[r].pc = "consume", req[r].jti \in Stored'
               PROVE  req[r].new \in Stored'
    BY <1>1 DEF SavedFirst
  <2>1. req[r].jti \in Stored /\ req[r].new \in Stored
    BY <1>4 DEF IInv, SavedFirst
  <2>2. row[req[r].jti].sub = row[req[r].new].sub
    BY <2>1 DEF IInv, RowsMatchClaims, RequestsConsistent, Issuing
  <2> QED BY <2>1, <2>2, <1>5
<1>9. SuccessorOfSameAccount'
  BY <1>4, <1>5 DEF IInv, SuccessorOfSameAccount, Consumed
<1>10. TokensHaveAccount'
  BY <1>1, <1>2, <1>4 DEF IInv, TokensHaveAccount, Stored
<1> QED BY <1>3, <1>6, <1>7, <1>8, <1>9, <1>10 DEF IInv

LEMMA TickIInv ==
  ASSUME IInv, Tick
  PROVE  IInv'
<1> USE DEF Tick
<1>1. TypeOK'
  BY DEF IInv, TypeOK
<1>2. ExpiryInOrder'
  <2>1. \A j \in Jti : j <= issued => claims[j].exp \in Nat
    BY DEF IInv, TypeOK, SignedInOrder, Claims
  <2> QED BY <2>1 DEF IInv, TypeOK, ExpiryInOrder
<1>3. /\ SignedInOrder' /\ RowsMatchClaims' /\ RequestsConsistent' /\ IssuedOnce'
      /\ ConsumedDelivered' /\ SavedFirst' /\ SuccessorOfSameAccount' /\ TokensHaveAccount'
  BY DEF IInv, SignedInOrder, RowsMatchClaims, RequestsConsistent, IssuedOnce,
         ConsumedDelivered, SavedFirst, SuccessorOfSameAccount, TokensHaveAccount,
         Stored, Consumed
<1> QED BY <1>1, <1>2, <1>3 DEF IInv

LEMMA StepIInv ==
  ASSUME IInv, NEW r \in Requests, Step(r)
  PROVE  IInv'
<1>1. ASSUME NEW f \in Families, OpenFamily(r, f) PROVE IInv'
  <2>1. req[r].jti = 0 /\ opened' \subseteq Families
    BY <1>1 DEF OpenFamily, IInv, RequestsConsistent, TypeOK
  <2> QED BY <1>1, <2>1, IssueIInv DEF OpenFamily
<1>2. CASE WrongPassword(r)
  BY <1>2, ReplyOrRevoke DEF WrongPassword
<1>3. CASE TokenUnknown(r) \/ TokenRevoked(r) \/ TokenReplayed(r)
  BY <1>3, ReplyOrRevoke DEF TokenUnknown, TokenRevoked, TokenReplayed
<1>4. CASE TokenAccepted(r)
  BY <1>4, TokenAcceptedIInv
<1>5. CASE UserFound(r)
  <2>1. req[r].fam \in Families /\ opened' \subseteq Families
    BY <1>5 DEF UserFound, IInv, RequestsConsistent, TypeOK
  <2> QED BY <1>5, <2>1, IssueIInv DEF UserFound
<1>6. CASE UserGone(r)
  BY <1>6, ReplyOrRevoke DEF UserGone
<1>7. CASE RevokeFamily(r)
  BY <1>7, RevokeFamilyIInv
<1>8. CASE SaveToken(r)
  BY <1>8, SaveTokenIInv
<1>9. CASE SaveRejected(r)
  BY <1>9, ReplyOrRevoke DEF SaveRejected
<1>10. CASE ConsumeToken(r)
  BY <1>10, ConsumeTokenIInv
<1>11. CASE Deliver(r)
  BY <1>11, DeliverIInv
<1> QED BY <1>1, <1>2, <1>3, <1>4, <1>5, <1>6, <1>7, <1>8, <1>9, <1>10, <1>11 DEF Step

LEMMA NextIInv == IInv /\ [Next]_vars => IInv'
<1> SUFFICES ASSUME IInv, [Next]_vars PROVE IInv'
  OBVIOUS
<1>1. ASSUME NEW r \in Requests, NEW u \in Users, Login(r, u) PROVE IInv'
  BY <1>1, LoginIInv
<1>2. ASSUME NEW r \in Requests, NEW j \in Jti, PresentToken(r, j) PROVE IInv'
  BY <1>2, PresentTokenIInv
<1>3. ASSUME NEW r \in Requests, Step(r) PROVE IInv'
  BY <1>3, StepIInv
<1>4. ASSUME NEW r \in Requests, Abort(r) PROVE IInv'
  BY <1>4, ReplyOrRevoke DEF Abort
<1>5. CASE Purge
  BY <1>5, PurgeIInv
<1>6. ASSUME NEW u \in Users, RemoveAccount(u) PROVE IInv'
  BY <1>6, RemoveAccountIInv
<1>7. CASE Tick
  BY <1>7, TickIInv
<1>8. CASE UNCHANGED vars
  BY <1>8 DEF vars, IInv, TypeOK, SignedInOrder, RowsMatchClaims, ExpiryInOrder,
              RequestsConsistent, IssuedOnce, ConsumedDelivered, SavedFirst,
              SuccessorOfSameAccount, TokensHaveAccount, Stored, Consumed
<1> QED BY <1>1, <1>2, <1>3, <1>4, <1>5, <1>6, <1>7, <1>8 DEF Next

\* Every state of the rotation satisfies the inductive invariant.
THEOREM Invariance == Spec => []IInv
  BY InitIInv, NextIInv, PTL DEF Spec

-------------------------------------------------------------------------------
(***************************************************************************)
(* A bounded set of numbers has a greatest member.                           *)
(***************************************************************************)
LEMMA Least ==
  ASSUME NEW T, T \subseteq Nat, T # {}
  PROVE  \E x \in T : \A y \in T : x <= y
<1>1. PICK x \in T : \A y \in T : ~ (<<y, x>> \in OpToRel(<, Nat))
  BY NatLessThanWellFounded, WFMin
<1>2. \A y \in Nat : <<y, x>> \in OpToRel(<, Nat) <=> y < x
  BY DEF OpToRel
<1>3. \A y \in T : x <= y
  <2> TAKE y \in T
  <2>1. x \in Nat /\ y \in Nat
    OBVIOUS
  <2>2. ~(y < x)
    BY <1>1, <1>2, <2>1
  <2> QED BY <2>1, <2>2
<1> QED BY <1>3

LEMMA Greatest ==
  ASSUME NEW N \in Nat, NEW T, T \subseteq 1 .. N, T # {}
  PROVE  \E x \in T : \A y \in T : y <= x
<1> DEFINE U == {N - x : x \in T}
<1>1. \A x \in T : x \in Nat /\ N - x \in Nat
  OBVIOUS
<1>2. U \subseteq Nat /\ U # {}
  BY <1>1
<1>3. PICK u \in U : \A v \in U : u <= v
  <2> HIDE DEF U
  <2> QED BY <1>2, Least
<1>4. PICK x \in T : u = N - x
  OBVIOUS
<1>5. \A y \in T : y <= x
  <2> TAKE y \in T
  <2>1. N - x <= N - y
    BY <1>3, <1>4
  <2> QED BY <2>1, <1>1
<1> QED BY <1>5

\* The youngest token of a session has no successor, so it is not consumed.
LEMMA YoungestIsFresh == IInv => SessionHasFreshToken
<1> SUFFICES ASSUME IInv, NEW j \in Stored
             PROVE  \E k \in Stored : row[k].fam = row[j].fam /\ ~Consumed(k)
  BY DEF SessionHasFreshToken
<1> DEFINE T == {k \in Stored : row[k].fam = row[j].fam}
<1>1. T \subseteq 1 .. MaxTokens /\ T # {}
  BY DEF Stored, Jti
<1>2. PICK k \in T : \A i \in T : i <= k
  <2> HIDE DEF T
  <2> QED BY <1>1, Greatest
<1>3. ~Consumed(k)
  <2> SUFFICES ASSUME Consumed(k) PROVE FALSE
    OBVIOUS
  <2>1. row[k].replacedBy \in T /\ row[k].replacedBy > k
    BY DEF IInv, SuccessorOfSameAccount
  <2> QED BY <2>1, <1>1, <1>2
<1> QED BY <1>3

-------------------------------------------------------------------------------
(***************************************************************************)
(* Refinement: one lemma for what keeps a closed session closed.             *)
(***************************************************************************)

\* A step that only lets requests go, or move on before the checks, and only
\* takes rows away or revokes them, brings no session to life.
LEMMA NoNewAuthority ==
  ASSUME IInv, NEW f \in Families,
         \A r \in Requests : req'[r].pc \in {"user", "save"} =>
            req[r].pc \in {"user", "save"} /\ req'[r].fam = req[r].fam,
         \A r \in Requests : req'[r].pc = "lookup" =>
            \/ req[r].pc = "lookup" /\ req'[r].jti = req[r].jti
            \/ req'[r].jti \in Jti /\ now < claims[req'[r].jti].exp,
         \A j \in Jti : row'[j] # None =>
            /\ row[j] # None
            /\ row'[j].fam = row[j].fam /\ row'[j].exp = row[j].exp
            /\ row[j].revoked => row'[j].revoked,
         now \in Nat, now' \in Nat, now <= now',
         Alive(f)'
  PROVE  Alive(f)
<1>1. CASE InFlight(f)'
  BY <1>1 DEF InFlight, Alive
<1>2. ASSUME NEW j \in Jti, Usable(j)', row'[j].fam = f
      PROVE  Alive(f)
  <2>1. row[j] # None /\ ~row[j].revoked /\ row[j].fam = f /\ row'[j].exp = row[j].exp
    BY <1>2 DEF Usable
  <2>2. row[j].exp = claims[j].exp /\ row[j].exp \in Nat
    BY <2>1 DEF IInv, RowsMatchClaims, Stored, TypeOK, Row
  <2>3. CASE now' < row[j].exp
    BY <2>1, <2>2, <2>3 DEF Usable, Alive
  <2>4. CASE \E r \in Requests : req'[r].pc = "lookup" /\ req'[r].jti = j
    BY <2>1, <2>2, <2>4 DEF Usable, Alive
  <2> QED BY <1>2, <2>1, <2>3, <2>4 DEF Usable
<1> QED BY <1>1, <1>2 DEF Alive

\* OpenFamily is the only action that draws a family; it touches no other.
LEMMA OpenFamilyOpens ==
  ASSUME IInv, NEW r \in Requests, NEW f \in Families, OpenFamily(r, f)
  PROVE  /\ f \notin opened /\ opened' = opened \cup {f}
         /\ Alive(f)'
         /\ \A g \in Families \ {f} : Alive(g)' <=> Alive(g)
<1> DEFINE v == [req[r] EXCEPT !.pc = "save", !.fam = f, !.new = issued + 1]
<1>1. /\ f \notin opened /\ opened' = opened \cup {f} /\ req[r].pc = "password"
      /\ req' = [req EXCEPT ![r] = v] /\ row' = row /\ now' = now
  BY DEF OpenFamily, IssueTokenPair
<1>2. v.pc = "save" /\ v.fam = f
  BY DEF IInv, TypeOK, Request
<1> HIDE DEF v
<1>3. \A q \in Requests : req'[q] = IF q = r THEN v ELSE req[q]
  BY <1>1 DEF IInv, TypeOK
<1>4. Alive(f)'
  BY <1>2, <1>3 DEF Alive, InFlight
<1>5. ASSUME NEW g \in Families \ {f} PROVE InFlight(g)' <=> InFlight(g)
  BY <1>1, <1>2, <1>3 DEF InFlight
<1>6. ASSUME NEW j \in Jti PROVE Usable(j)' <=> Usable(j)
  BY <1>1, <1>2, <1>3 DEF Usable
<1> QED BY <1>1, <1>4, <1>5, <1>6 DEF Alive

LEMMA OtherStepsOpenNothing ==
  ASSUME IInv, IInv', [Next]_vars,
         ~ \E r \in Requests, f \in Families : OpenFamily(r, f),
         NEW g \in Families, Alive(g)'
  PROVE  opened' = opened /\ Alive(g)
<1> USE DEF Reply, Goto, Idle
<1>1. now \in Nat /\ now' \in Nat /\ \A r \in Requests : req[r] \in Request
  BY DEF IInv, TypeOK
<1>2. ASSUME NEW r \in Requests, NEW u \in Users, Login(r, u)
      PROVE  opened' = opened /\ Alive(g)
  BY <1>1, <1>2, NoNewAuthority DEF Login, IInv, TypeOK, Request
<1>3. ASSUME NEW r \in Requests, NEW j \in Jti, PresentToken(r, j)
      PROVE  opened' = opened /\ Alive(g)
  BY <1>1, <1>3, NoNewAuthority DEF PresentToken, IInv, TypeOK, Request
<1>4. ASSUME NEW r \in Requests,
             \/ WrongPassword(r) \/ TokenUnknown(r) \/ TokenRevoked(r) \/ TokenReplayed(r)
             \/ UserGone(r) \/ SaveRejected(r) \/ Deliver(r) \/ Abort(r)
      PROVE  opened' = opened /\ Alive(g)
  BY <1>1, <1>4, NoNewAuthority
     DEF WrongPassword, TokenUnknown, TokenRevoked, TokenReplayed, UserGone,
         SaveRejected, Deliver, Abort, IInv, TypeOK, Request
<1>5. ASSUME NEW r \in Requests, TokenAccepted(r)
      PROVE  opened' = opened /\ Alive(g)
  <2>1. CASE InFlight(g)'
    <3>1. CASE req[r].fam = g
      <4>1. Usable(req[r].jti) /\ row[req[r].jti].fam = g /\ req[r].jti \in Jti
        BY <1>5, <3>1 DEF TokenAccepted, Known, Usable, IInv, RequestsConsistent, TypeOK
      <4> QED BY <4>1, <1>5 DEF Alive, TokenAccepted
    <3>2. CASE req[r].fam # g
      BY <1>1, <1>5, <2>1, <3>2 DEF TokenAccepted, InFlight, Alive, IInv, TypeOK, Request
    <3> QED BY <3>1, <3>2
  <2>2. ASSUME NEW j \in Jti, Usable(j)', row'[j].fam = g
        PROVE  Alive(g)
    BY <1>1, <1>5, <2>2 DEF TokenAccepted, Usable, Alive, IInv, TypeOK, Request
  <2> QED BY <1>5, <2>1, <2>2 DEF Alive, TokenAccepted
<1>6. ASSUME NEW r \in Requests, UserFound(r)
      PROVE  opened' = opened /\ Alive(g)
  <2>1. \A q \in Requests : /\ req'[q].pc \in {"user", "save"} =>
                                 req[q].pc \in {"user", "save"} /\ req'[q].fam = req[q].fam
                            /\ req'[q].pc = "lookup" => req[q].pc = "lookup" /\ req'[q].jti = req[q].jti
    BY <1>1, <1>6 DEF UserFound, IssueTokenPair, IInv, TypeOK, Request
  <2>2. row' = row /\ now' = now /\ opened' = opened
    BY <1>6 DEF UserFound, IssueTokenPair
  <2> QED BY <1>1, <2>1, <2>2, NoNewAuthority
<1>7. ASSUME NEW r \in Requests, RevokeFamily(r)
      PROVE  opened' = opened /\ Alive(g)
  <2>1. \A q \in Requests : req'[q] = req[q] \/ req'[q] = Idle
    BY <1>7 DEF RevokeFamily, IInv, TypeOK
  <2>2. \A j \in Jti : row'[j] # None =>
            /\ row[j] # None
            /\ row'[j].fam = row[j].fam /\ row'[j].exp = row[j].exp
            /\ row[j].revoked => row'[j].revoked
    BY <1>7 DEF RevokeFamily, IInv, TypeOK, Row
  <2> QED BY <1>1, <1>7, <2>1, <2>2, NoNewAuthority DEF RevokeFamily
<1>8. ASSUME NEW r \in Requests, SaveToken(r)
      PROVE  opened' = opened /\ Alive(g)
  <2>1. \A q \in Requests : /\ req'[q].pc \in {"user", "save"} =>
                                 req[q].pc \in {"user", "save"} /\ req'[q].fam = req[q].fam
                            /\ req'[q].pc = "lookup" => req[q].pc = "lookup" /\ req'[q].jti = req[q].jti
    BY <1>1, <1>8 DEF SaveToken, IInv, TypeOK, Request
  <2>2. req[r].pc = "save" /\ req[r].new \in Jti /\ claims[req[r].new].fam = req[r].fam
    BY <1>8 DEF SaveToken, IInv, TypeOK, RequestsConsistent, Issuing, Jti
  <2>3. \A j \in Jti : /\ j # req[r].new => row'[j] = row[j]
                       /\ j = req[r].new => row'[j].fam = req[r].fam
    BY <1>8, <2>2 DEF SaveToken, IInv, TypeOK
  <2>4. CASE InFlight(g)'
    BY <1>8, <2>1, <2>4 DEF InFlight, Alive, SaveToken
  <2>5. ASSUME NEW j \in Jti, Usable(j)', row'[j].fam = g
        PROVE  Alive(g)
    <3>1. CASE j = req[r].new
      BY <2>2, <2>3, <2>5, <3>1 DEF Alive, InFlight
    <3>2. CASE j # req[r].new
      BY <1>8, <2>1, <2>3, <2>5, <3>2 DEF Usable, Alive, SaveToken
    <3> QED BY <3>1, <3>2
  <2> QED BY <1>8, <2>4, <2>5 DEF Alive, SaveToken
<1>9. ASSUME NEW r \in Requests, ConsumeToken(r)
      PROVE  opened' = opened /\ Alive(g)
  <2>1. \A q \in Requests : req'[q] = req[q] \/ req'[q].pc = "answer"
    BY <1>1, <1>9 DEF ConsumeToken, IInv, TypeOK, Request
  <2>2. \A j \in Jti : row'[j] # None =>
            /\ row[j] # None
            /\ row'[j].fam = row[j].fam /\ row'[j].exp = row[j].exp
            /\ row[j].revoked => row'[j].revoked
    BY <1>9 DEF ConsumeToken, IInv, TypeOK, Row
  <2> QED BY <1>1, <1>9, <2>1, <2>2, NoNewAuthority DEF ConsumeToken
<1>10. CASE Purge
  BY <1>1, <1>10, NoNewAuthority DEF Purge
<1>11. ASSUME NEW u \in Users, RemoveAccount(u)
       PROVE  opened' = opened /\ Alive(g)
  BY <1>1, <1>11, NoNewAuthority DEF RemoveAccount
<1>12. CASE Tick
  BY <1>1, <1>12, NoNewAuthority DEF Tick
<1>13. CASE UNCHANGED vars
  BY <1>1, <1>13, NoNewAuthority DEF vars
<1> QED BY <1>2, <1>3, <1>4, <1>5, <1>6, <1>7, <1>8, <1>9, <1>10, <1>11, <1>12, <1>13
        DEF Next, Step

LEMMA InitRefines == Init => Lifecycle!Init
BY DEF Init, Lifecycle!Init, SessionStatus

LEMMA StepRefines ==
  ASSUME IInv, IInv', [Next]_vars
  PROVE  [Lifecycle!Next]_([f \in Families |-> SessionStatus(f)])
<1> DEFINE st == [f \in Families |-> SessionStatus(f)]
<1>1. ASSUME NEW r \in Requests, NEW f \in Families, OpenFamily(r, f)
      PROVE  Lifecycle!Open(f)
  <2>1. /\ f \notin opened /\ opened' = opened \cup {f} /\ Alive(f)'
        /\ \A g \in Families \ {f} : Alive(g)' <=> Alive(g)
    BY <1>1, OpenFamilyOpens
  <2>2. SessionStatus(f) = "new" /\ SessionStatus(f)' = "open"
    BY <2>1 DEF SessionStatus
  <2>3. \A g \in Families \ {f} : SessionStatus(g)' = SessionStatus(g)
    BY <2>1 DEF SessionStatus
  <2> HIDE DEF SessionStatus
  <2> QED BY <2>2, <2>3 DEF Lifecycle!Open
<1>2. CASE ~ \E r \in Requests, f \in Families : OpenFamily(r, f)
  <2> DEFINE S == {f \in Families : SessionStatus(f) = "open" /\ SessionStatus(f)' = "closed"}
  <2>1. opened' = opened \/ Families = {}
    <3>1. ASSUME NEW f \in Families PROVE opened' = opened
      <4>1. CASE Alive(f)'
        BY <1>2, <4>1, OtherStepsOpenNothing
      <4>2. CASE ~Alive(f)'
        BY <1>2 DEF Next, Step, Login, PresentToken, WrongPassword, TokenUnknown, TokenRevoked,
             TokenReplayed, TokenAccepted, UserFound, UserGone, RevokeFamily, SaveToken,
             SaveRejected, ConsumeToken, Deliver, Abort, Purge, RemoveAccount, Tick, vars
      <4> QED BY <4>1, <4>2
    <3> QED BY <3>1
  <2>2. \A f \in Families : \/ SessionStatus(f)' = SessionStatus(f)
                            \/ SessionStatus(f) = "open" /\ SessionStatus(f)' = "closed"
    BY <1>2, <2>1, OtherStepsOpenNothing DEF SessionStatus
  <2> HIDE DEF SessionStatus
  <2>3. CASE S = {}
    BY <2>2, <2>3
  <2>4. CASE S # {}
    <3>1. \A f \in Families : SessionStatus(f)' = IF f \in S THEN "closed" ELSE SessionStatus(f)
      BY <2>2
    <3>2. Lifecycle!Close(S)
      BY <2>4, <3>1 DEF Lifecycle!Close
    <3> QED BY <3>2 DEF Lifecycle!Next
  <2> QED BY <2>3, <2>4
<1> QED BY <1>1, <1>2 DEF Lifecycle!Next

-------------------------------------------------------------------------------
(***************************************************************************)
(* The properties of RefreshTokens, for every value of the constants.        *)
(***************************************************************************)

\* The state of the rotation always has the types TypeOK gives it.
THEOREM TypeCorrect == Spec => []TypeOK
<1>1. IInv => TypeOK
  BY DEF IInv
<1> QED BY Invariance, <1>1, PTL

\* A consumed refresh token always has its younger successor, of the same
\* session, beside it in the table.
THEOREM SuccessorAlwaysStored == Spec => []SuccessorStored
<1>1. IInv => SuccessorStored
  BY DEF IInv, SuccessorOfSameAccount, SuccessorStored
<1> QED BY Invariance, <1>1, PTL

\* Whatever requests fail half-way, rotation never leaves a session without an
\* unconsumed token.
THEOREM RotationNeverStrands == Spec => []SessionHasFreshToken
  BY Invariance, YoungestIsFresh, PTL

\* No refresh token is stored for an account that is gone.
THEOREM NoTokenWithoutAccount == Spec => []TokensHaveAccount
<1>1. IInv => TokensHaveAccount
  BY DEF IInv
<1> QED BY Invariance, <1>1, PTL

\* The rotation implements SessionLifecycle: a closed session stays closed.
THEOREM RotationRefinesLifecycle == Spec => SessionsRefined
<1>1. IInv /\ IInv' /\ [Next]_vars => [Lifecycle!Next]_([f \in Families |-> SessionStatus(f)])
  BY StepRefines
<1> QED BY Invariance, InitRefines, <1>1, PTL DEF Spec, SessionsRefined, Lifecycle!Spec

-------------------------------------------------------------------------------
(***************************************************************************)
(* What two comments of the entity say does hold, short of one overlap each. *)
(***************************************************************************)

\* Request r uses token j for the first time, and has not marked it yet.
FirstUse(r, j) ==
  req[r].jti = j /\ ~req[r].reuse /\ req[r].pc \in {"user", "save", "consume"}

\* A token is marked while no other first use of it is under way.
MarkedAlone ==
  \A r \in Requests : ConsumeToken(r) =>
    \A q \in Requests \ {r} : ~FirstUse(q, req[r].jti)

\* What a first use presents has not been marked meanwhile.
FirstUsesFit ==
  \A r \in Requests :
    /\ req[r].pc = "consume" => ~req[r].reuse
    /\ \A j \in Stored : FirstUse(r, j) => ~Consumed(j)

\* A family is revoked while no other request of it is past its checks.
RevokedAlone ==
  \A r \in Requests : RevokeFamily(r) =>
    \A q \in Requests \ {r} :
      ~ (req[q].fam = req[r].fam /\ req[q].pc \in {"user", "save"})

\* Every token belongs to a session that was opened, and what is past its checks
\* belongs to a session of which nothing is revoked.
FamiliesFit ==
  /\ \A j \in Jti : j <= issued => claims[j].fam \in opened
  /\ RevocationCoversFamily
  /\ \A r \in Requests, j \in Stored :
       req[r].pc \in {"user", "save"} /\ row[j].fam = req[r].fam => ~row[j].revoked

\* Marking a token changes nothing else.
LEMMA MarksOneToken ==
  ASSUME IInv, NEW r \in Requests, ConsumeToken(r)
  PROVE  \A i \in Jti : /\ row'[i] = None <=> row[i] = None
                        /\ i # req[r].jti => row'[i] = row[i]
                        /\ row[i] # None =>
                             row'[i].fam = row[i].fam /\ row'[i].revoked = row[i].revoked
<1> DEFINE j == req[r].jti
           m == [row[j] EXCEPT !.consumedAt = now, !.replacedBy = req[r].new]
<1>1. row \in [Jti -> Row \cup {None}] /\ j \in Jti /\ now \in Nat /\ req[r].new \in Nat
  BY DEF ConsumeToken, IInv, TypeOK, RequestsConsistent, Request, Jti
<1>2. CASE row[j] = None
  BY <1>2 DEF ConsumeToken
<1>3. CASE row[j] # None
  <2>1. m \in Row /\ m.fam = row[j].fam /\ m.revoked = row[j].revoked
    BY <1>1, <1>3 DEF Row
  <2>2. \A i \in Jti : row'[i] = IF i = j THEN m ELSE row[i]
    BY <1>1, <1>3 DEF ConsumeToken
  <2> HIDE DEF m, j
  <2> QED BY <1>1, <1>3, <2>1, <2>2 DEF j
<1> QED BY <1>2, <1>3

\* A step that lets no request begin a first use, and marks nothing, keeps them so.
LEMMA NothingMarked ==
  ASSUME FirstUsesFit,
         \A r \in Requests :
           \/ req'[r].pc \notin {"user", "save", "consume"}
           \/ /\ req'[r].pc = "save" /\ req[r].pc \in {"user", "save"}
              /\ req'[r].jti = req[r].jti /\ req'[r].reuse = req[r].reuse
           \/ req'[r] = req[r],
         \A j \in Jti : row'[j] # None =>
           row[j] # None /\ row'[j].consumedAt = row[j].consumedAt
  PROVE  FirstUsesFit'
<1>1. Stored' \subseteq Stored /\ \A j \in Stored' : Consumed(j)' <=> Consumed(j)
  BY DEF Stored, Consumed
<1>2. ASSUME NEW r \in Requests, NEW j \in Jti, FirstUse(r, j)' PROVE FirstUse(r, j)
  BY <1>2 DEF FirstUse
<1>3. \A r \in Requests : req'[r].pc = "consume" => req'[r] = req[r]
  OBVIOUS
<1> QED BY <1>1, <1>2, <1>3 DEF FirstUsesFit, Stored

LEMMA OpenFamilyFirstUses ==
  ASSUME IInv, FirstUsesFit, NEW r \in Requests, NEW f \in Families, OpenFamily(r, f)
  PROVE  FirstUsesFit'
<1> DEFINE v == [req[r] EXCEPT !.pc = "save", !.fam = f, !.new = issued + 1]
<1>1. row' = row /\ req[r].pc = "password" /\ req[r].jti = 0
  BY DEF OpenFamily, IInv, RequestsConsistent
<1>2. v.pc = "save" /\ v.jti = 0
  BY <1>1 DEF IInv, TypeOK, Request
<1>3. \A q \in Requests : req'[q] = IF q = r THEN v ELSE req[q]
  BY DEF OpenFamily, IssueTokenPair, IInv, TypeOK
<1> HIDE DEF v
<1>4. Stored' = Stored /\ 0 \notin Stored
  BY <1>1 DEF Stored, Jti
<1> QED BY <1>1, <1>2, <1>3, <1>4 DEF FirstUsesFit, FirstUse, Consumed

\* The check notes whether the token was marked.
LEMMA TokenAcceptedFirstUses ==
  ASSUME IInv, FirstUsesFit, NEW r \in Requests, TokenAccepted(r)
  PROVE  FirstUsesFit'
<1> DEFINE j == req[r].jti
           v == [req[r] EXCEPT !.pc = "user", !.reuse = Consumed(j)]
<1>1. req[r] \in Request /\ row' = row
  BY DEF TokenAccepted, IInv, TypeOK
<1>2. v.pc = "user" /\ v.jti = j /\ v.reuse = Consumed(j)
  BY <1>1 DEF Request
<1>3. \A q \in Requests : req'[q] = IF q = r THEN v ELSE req[q]
  BY DEF TokenAccepted, IInv, TypeOK
<1> HIDE DEF v
<1>4. Stored' = Stored
  BY <1>1 DEF Stored
<1> QED BY <1>1, <1>2, <1>3, <1>4 DEF FirstUsesFit, FirstUse, Consumed

LEMMA SaveTokenFirstUses ==
  ASSUME IInv, FirstUsesFit, NEW r \in Requests, SaveToken(r)
  PROVE  FirstUsesFit'
<1> DEFINE k == req[r].new
           n == [fam |-> claims[k].fam, sub |-> claims[k].sub, exp |-> claims[k].exp,
                 consumedAt |-> 0, revoked |-> FALSE, replacedBy |-> 0]
           pc == IF req[r].jti = 0 \/ req[r].reuse THEN "answer" ELSE "consume"
           v == [req[r] EXCEPT !.pc = pc]
<1>1. req[r] \in Request /\ req[r].pc = "save"
  BY DEF SaveToken, IInv, TypeOK
<1>2. /\ v.jti = req[r].jti /\ v.reuse = req[r].reuse
      /\ v.pc \in {"answer", "consume"} /\ (v.pc = "consume" => ~req[r].reuse)
  BY <1>1 DEF Request
<1>3. \A i \in Jti : row'[i] = IF i = k THEN n ELSE row[i]
  BY DEF SaveToken, IInv, TypeOK
<1>4. n.consumedAt = 0
  OBVIOUS
<1>5. \A q \in Requests : req'[q] = IF q = r THEN v ELSE req[q]
  BY DEF SaveToken, Goto, IInv, TypeOK
<1> HIDE DEF k, n, v, pc
<1>6. ASSUME NEW q \in Requests, NEW i \in Stored', FirstUse(q, i)'
      PROVE  ~Consumed(i)'
  <2>1. FirstUse(q, i)
    BY <1>1, <1>2, <1>5, <1>6 DEF FirstUse
  <2>2. CASE i = k
    BY <1>3, <1>4, <2>2 DEF Consumed, Stored
  <2>3. CASE i # k
    BY <1>3, <2>1, <2>3 DEF FirstUsesFit, Consumed, Stored
  <2> QED BY <2>2, <2>3
<1> QED BY <1>2, <1>5, <1>6 DEF FirstUsesFit

LEMMA ConsumeTokenFirstUses ==
  ASSUME IInv, FirstUsesFit, MarkedAlone, NEW r \in Requests, ConsumeToken(r)
  PROVE  FirstUsesFit'
<1> DEFINE j == req[r].jti
           v == [req[r] EXCEPT !.pc = "answer"]
<1>1. v.pc = "answer"
  BY DEF IInv, TypeOK, Request
<1>2. \A q \in Requests : req'[q] = IF q = r THEN v ELSE req[q]
  BY DEF ConsumeToken, Goto, IInv, TypeOK
<1>3. \A i \in Jti : (row'[i] = None <=> row[i] = None) /\ (i # j => row'[i] = row[i])
  BY MarksOneToken
<1>4. Stored' = Stored
  BY <1>3 DEF Stored
<1> HIDE DEF v
<1>5. ASSUME NEW q \in Requests, NEW i \in Stored, FirstUse(q, i)' PROVE ~Consumed(i)'
  <2>1. q # r /\ FirstUse(q, i)
    BY <1>1, <1>2, <1>5 DEF FirstUse
  <2>2. i # j
    BY <2>1 DEF MarkedAlone, FirstUse
  <2> QED BY <1>3, <2>1, <2>2 DEF FirstUsesFit, Consumed, Stored
<1> QED BY <1>1, <1>2, <1>4, <1>5 DEF FirstUsesFit

LEMMA NextFirstUsesFit == IInv /\ FirstUsesFit /\ [Next]_vars /\ [MarkedAlone]_vars => FirstUsesFit'
<1> SUFFICES ASSUME IInv, FirstUsesFit, [Next]_vars, [MarkedAlone]_vars PROVE FirstUsesFit'
  OBVIOUS
<1> USE DEF Reply, Goto, Idle
<1>0. /\ req \in [Requests -> Request] /\ \A r \in Requests : req[r] \in Request
      /\ row \in [Jti -> Row \cup {None}]
  BY DEF IInv, TypeOK
<1>1. ASSUME NEW r \in Requests, NEW u \in Users, Login(r, u) PROVE FirstUsesFit'
  BY <1>0, <1>1, NothingMarked DEF Login
<1>2. ASSUME NEW r \in Requests, NEW j \in Jti, PresentToken(r, j) PROVE FirstUsesFit'
  BY <1>0, <1>2, NothingMarked DEF PresentToken
<1>3. ASSUME NEW r \in Requests,
             \/ WrongPassword(r) \/ TokenUnknown(r) \/ TokenRevoked(r) \/ TokenReplayed(r)
             \/ UserGone(r) \/ SaveRejected(r) \/ Deliver(r) \/ Abort(r)
      PROVE  FirstUsesFit'
  BY <1>0, <1>3, NothingMarked
     DEF WrongPassword, TokenUnknown, TokenRevoked, TokenReplayed, UserGone, SaveRejected,
         Deliver, Abort, Request
<1>4. ASSUME NEW r \in Requests, NEW f \in Families, OpenFamily(r, f) PROVE FirstUsesFit'
  BY <1>4, OpenFamilyFirstUses
<1>5. ASSUME NEW r \in Requests, TokenAccepted(r) PROVE FirstUsesFit'
  BY <1>5, TokenAcceptedFirstUses
<1>6. ASSUME NEW r \in Requests, UserFound(r) PROVE FirstUsesFit'
  BY <1>0, <1>6, NothingMarked DEF UserFound, IssueTokenPair, Request
<1>7. ASSUME NEW r \in Requests, RevokeFamily(r) PROVE FirstUsesFit'
  BY <1>0, <1>7, NothingMarked DEF RevokeFamily, Row
<1>8. ASSUME NEW r \in Requests, SaveToken(r) PROVE FirstUsesFit'
  BY <1>8, SaveTokenFirstUses
<1>9. ASSUME NEW r \in Requests, ConsumeToken(r) PROVE FirstUsesFit'
  <2>1. req'[r] # req[r]
    BY <1>0, <1>9 DEF ConsumeToken, Request
  <2>2. MarkedAlone
    BY <2>1 DEF vars
  <2> QED BY <1>9, <2>2, ConsumeTokenFirstUses
<1>10. ASSUME Purge \/ Tick \/ \E u \in Users : RemoveAccount(u) PROVE FirstUsesFit'
  BY <1>0, <1>10, NothingMarked DEF Purge, Tick, RemoveAccount
<1>11. CASE UNCHANGED vars
  BY <1>0, <1>11, NothingMarked DEF vars
<1> QED BY <1>1, <1>2, <1>3, <1>4, <1>5, <1>6, <1>7, <1>8, <1>9, <1>10, <1>11 DEF Next, Step

\* Only a first use marks a token, and the token was not marked.
LEMMA MarkedOnce ==
  ASSUME IInv, FirstUsesFit, [Next]_vars, NEW j \in Jti, row[j] # None, Consumed(j)
  PROVE  row'[j] = None \/ row'[j].consumedAt = row[j].consumedAt
<1>0. /\ row \in [Jti -> Row \cup {None}] /\ row[j] \in Row /\ j \in Stored
  BY DEF IInv, TypeOK, Stored
<1>1. ASSUME NEW r \in Requests, SaveToken(r) PROVE row'[j] = row[j]
  <2>1. j # req[r].new
    BY <1>0, <1>1 DEF SaveToken, IInv, ConsumedDelivered, RequestsConsistent, Issuing
  <2> QED BY <1>0, <1>1, <2>1 DEF SaveToken
<1>2. ASSUME NEW r \in Requests, ConsumeToken(r) PROVE row'[j] = row[j]
  <2>1. j # req[r].jti
    BY <1>0, <1>2 DEF ConsumeToken, FirstUsesFit, FirstUse
  <2> QED BY <1>0, <1>2, <2>1 DEF ConsumeToken
<1>3. ASSUME NEW r \in Requests, RevokeFamily(r) PROVE row'[j].consumedAt = row[j].consumedAt
  BY <1>0, <1>3 DEF RevokeFamily, Row
<1>4. ASSUME Purge \/ \E u \in Users : RemoveAccount(u) PROVE row'[j] \in {row[j], None}
  BY <1>4 DEF Purge, RemoveAccount
<1>5. CASE \/ \E r \in Requests, u \in Users : Login(r, u)
           \/ \E r \in Requests, i \in Jti : PresentToken(r, i)
           \/ \E r \in Requests, f \in Families : OpenFamily(r, f)
           \/ \E r \in Requests :
                \/ WrongPassword(r) \/ TokenUnknown(r) \/ TokenRevoked(r) \/ TokenReplayed(r)
                \/ TokenAccepted(r) \/ UserFound(r) \/ UserGone(r) \/ SaveRejected(r)
                \/ Deliver(r) \/ Abort(r)
           \/ Tick \/ UNCHANGED vars
  BY <1>5 DEF Login, PresentToken, OpenFamily, WrongPassword, TokenUnknown, TokenRevoked,
     TokenReplayed, TokenAccepted, UserFound, UserGone, SaveRejected, Deliver, Abort, Tick, vars
<1> QED BY <1>1, <1>2, <1>3, <1>4, <1>5 DEF Next, Step

\* "Date de premiere utilisation": consumed_at is that date, in every behaviour in
\* which no two first uses of one token overlap.
THEOREM FirstUseIsDated == Spec /\ [][MarkedAlone]_vars => ConsumedAtIsFirstUse
<1> DEFINE Dated ==
      \A j \in Jti : (row[j] # None /\ Consumed(j)) =>
        (row'[j] = None \/ row'[j].consumedAt = row[j].consumedAt)
<1>1. Init => FirstUsesFit
  <2> SUFFICES ASSUME Init PROVE FirstUsesFit
    OBVIOUS
  <2>1. \A r \in Requests : req[r].pc = "idle"
    BY DEF Init, Idle
  <2> QED BY <2>1 DEF FirstUsesFit, FirstUse
<1>2. IInv /\ FirstUsesFit /\ [Next]_vars /\ [MarkedAlone]_vars => FirstUsesFit'
  BY NextFirstUsesFit
<1>3. Spec /\ [][MarkedAlone]_vars => []FirstUsesFit
  BY <1>1, <1>2, Invariance, PTL DEF Spec
<1>4. IInv /\ FirstUsesFit /\ [Next]_vars => [Dated]_vars
  BY MarkedOnce
<1> QED BY <1>3, <1>4, Invariance, PTL DEF Spec, ConsumedAtIsFirstUse

\* A step that lets no request past its checks, and inserts and revokes nothing,
\* keeps the families as they were.
LEMMA NothingRevoked ==
  ASSUME FamiliesFit,
         \A r \in Requests : req'[r].pc \in {"user", "save"} =>
           req[r].pc \in {"user", "save"} /\ req'[r].fam = req[r].fam,
         \A j \in Jti : row'[j] # None =>
           /\ row[j] # None /\ row'[j].fam = row[j].fam /\ row'[j].revoked = row[j].revoked,
         \A j \in Jti : j <= issued' => claims'[j].fam \in opened'
  PROVE  FamiliesFit'
<1>1. \A j \in Stored' :
        j \in Stored /\ row'[j].fam = row[j].fam /\ row'[j].revoked = row[j].revoked
  BY DEF Stored
<1>2. RevocationCoversFamily'
  BY <1>1 DEF FamiliesFit, RevocationCoversFamily
<1> QED BY <1>1, <1>2 DEF FamiliesFit

\* A session that opens has no rows yet.
LEMMA OpenFamilyFamilies ==
  ASSUME IInv, FamiliesFit, NEW r \in Requests, NEW f \in Families, OpenFamily(r, f)
  PROVE  FamiliesFit'
<1> DEFINE v == [req[r] EXCEPT !.pc = "save", !.fam = f, !.new = issued + 1]
<1>1. f \notin opened /\ opened' = opened \cup {f} /\ row' = row /\ issued' = issued + 1
  BY DEF OpenFamily, IssueTokenPair
<1>2. v.fam = f
  BY DEF IInv, TypeOK, Request
<1>3. \A q \in Requests : req'[q] = IF q = r THEN v ELSE req[q]
  BY DEF OpenFamily, IssueTokenPair, IInv, TypeOK
<1> HIDE DEF v
<1>4. \A j \in Jti : claims'[j] = IF j = issued + 1
                                 THEN [fam |-> f, sub |-> req[r].sub, exp |-> now + Ttl]
                                 ELSE claims[j]
  BY DEF OpenFamily, IssueTokenPair, IInv, TypeOK
<1>5. \A j \in Jti : j <= issued' => claims'[j].fam \in opened'
  BY <1>1, <1>4 DEF FamiliesFit, IInv, TypeOK, Jti
<1>6. \A j \in Stored : row[j].fam # f
  BY <1>1 DEF IInv, SignedInOrder, RowsMatchClaims, FamiliesFit, Stored
<1>7. Stored' = Stored
  BY <1>1 DEF Stored
<1>8. RevocationCoversFamily'
  BY <1>1, <1>7 DEF FamiliesFit, RevocationCoversFamily
<1>9. ASSUME NEW q \in Requests, NEW j \in Stored,
             req'[q].pc \in {"user", "save"}, row[j].fam = req'[q].fam
      PROVE  ~row[j].revoked
  BY <1>2, <1>3, <1>6, <1>9 DEF FamiliesFit
<1> QED BY <1>1, <1>5, <1>7, <1>8, <1>9 DEF FamiliesFit

\* The check reads one row: none of its family is revoked then.
LEMMA TokenAcceptedFamilies ==
  ASSUME IInv, FamiliesFit, NEW r \in Requests, TokenAccepted(r)
  PROVE  FamiliesFit'
<1> DEFINE v == [req[r] EXCEPT !.pc = "user", !.reuse = Consumed(req[r].jti)]
<1>1. /\ req[r].jti \in Stored /\ row[req[r].jti].fam = req[r].fam /\ ~row[req[r].jti].revoked
      /\ UNCHANGED <<row, claims, issued, opened>>
  BY DEF TokenAccepted, Known, IInv, TypeOK, RequestsConsistent, Stored
<1>2. v.fam = req[r].fam
  BY DEF IInv, TypeOK, Request
<1>3. \A q \in Requests : req'[q] = IF q = r THEN v ELSE req[q]
  BY DEF TokenAccepted, IInv, TypeOK
<1> HIDE DEF v
<1>4. Stored' = Stored
  BY <1>1 DEF Stored
<1>5. \A i \in Stored : row[i].fam = req[r].fam => ~row[i].revoked
  BY <1>1 DEF FamiliesFit, RevocationCoversFamily
<1>6. RevocationCoversFamily'
  BY <1>1, <1>4 DEF FamiliesFit, RevocationCoversFamily
<1> QED BY <1>1, <1>2, <1>3, <1>4, <1>5, <1>6 DEF FamiliesFit

\* The row that is inserted is that of a family of which nothing is revoked.
LEMMA SaveTokenFamilies ==
  ASSUME IInv, FamiliesFit, NEW r \in Requests, SaveToken(r)
  PROVE  FamiliesFit'
<1> DEFINE k == req[r].new
           n == [fam |-> claims[k].fam, sub |-> claims[k].sub, exp |-> claims[k].exp,
                 consumedAt |-> 0, revoked |-> FALSE, replacedBy |-> 0]
           pc == IF req[r].jti = 0 \/ req[r].reuse THEN "answer" ELSE "consume"
           v == [req[r] EXCEPT !.pc = pc]
<1>1. /\ req[r] \in Request /\ req[r].pc = "save" /\ k \in Jti
      /\ claims[k].fam = req[r].fam /\ UNCHANGED <<claims, issued, opened>>
  BY DEF SaveToken, IInv, TypeOK, RequestsConsistent, Issuing, Jti
<1>2. n.fam = req[r].fam /\ n.revoked = FALSE
  BY <1>1
<1>3. v.pc \in {"answer", "consume"}
  BY <1>1 DEF Request
<1>4. \A i \in Jti : row'[i] = IF i = k THEN n ELSE row[i]
  BY <1>1 DEF SaveToken, IInv, TypeOK
<1>5. \A q \in Requests : req'[q] = IF q = r THEN v ELSE req[q]
  BY DEF SaveToken, Goto, IInv, TypeOK
<1> HIDE DEF k, n, v, pc
<1>6. \A i \in Stored' : i = k \/ (i \in Stored /\ row'[i] = row[i])
  BY <1>4 DEF Stored
<1>7. row'[k] = n /\ \A i \in Stored' : row'[i].fam = req[r].fam => ~row'[i].revoked
  BY <1>1, <1>2, <1>4, <1>6 DEF FamiliesFit
<1>8. RevocationCoversFamily'
  <2> SUFFICES ASSUME NEW i \in Stored', NEW m \in Stored', row'[i].fam = row'[m].fam
               PROVE  row'[i].revoked <=> row'[m].revoked
    BY DEF RevocationCoversFamily
  <2>1. CASE row'[i].fam = req[r].fam
    BY <2>1, <1>7
  <2>2. CASE row'[i].fam # req[r].fam
    BY <1>2, <1>6, <1>7, <2>2 DEF FamiliesFit, RevocationCoversFamily
  <2> QED BY <2>1, <2>2
<1>9. ASSUME NEW q \in Requests, NEW i \in Stored',
             req'[q].pc \in {"user", "save"}, row'[i].fam = req'[q].fam
      PROVE  ~row'[i].revoked
  <2>1. q # r /\ req'[q] = req[q]
    BY <1>3, <1>5, <1>9
  <2>2. CASE i = k
    BY <1>2, <1>7, <2>2
  <2>3. CASE i # k
    BY <1>6, <1>9, <2>1, <2>3 DEF FamiliesFit
  <2> QED BY <2>2, <2>3
<1> QED BY <1>1, <1>8, <1>9 DEF FamiliesFit

\* A family that is revoked is revoked whole, and no request of it is past its checks.
LEMMA RevokeFamilyFamilies ==
  ASSUME IInv, FamiliesFit, RevokedAlone, NEW r \in Requests, RevokeFamily(r)
  PROVE  FamiliesFit'
<1>1. \A i \in Jti : /\ row'[i] = None <=> row[i] = None
                     /\ row[i] # None =>
                          /\ row'[i].fam = row[i].fam
                          /\ row'[i].revoked = (row[i].revoked \/ row[i].fam = req[r].fam)
  BY DEF RevokeFamily, IInv, TypeOK, Row
<1>2. Stored' = Stored /\ UNCHANGED <<claims, issued, opened>>
  BY <1>1 DEF Stored, RevokeFamily
<1>3. \A q \in Requests : req'[q] = IF q = r THEN Idle ELSE req[q]
  BY DEF RevokeFamily, Reply, IInv, TypeOK
<1>4. RevocationCoversFamily'
  BY <1>1, <1>2 DEF FamiliesFit, RevocationCoversFamily, Stored
<1>5. ASSUME NEW q \in Requests, NEW i \in Stored,
             req'[q].pc \in {"user", "save"}, row'[i].fam = req'[q].fam
      PROVE  ~row'[i].revoked
  <2>1. q # r /\ req'[q] = req[q]
    BY <1>3, <1>5 DEF Idle
  <2>2. req[q].fam # req[r].fam
    BY <1>5, <2>1 DEF RevokedAlone
  <2> QED BY <1>1, <1>5, <2>1, <2>2 DEF FamiliesFit, Stored
<1> QED BY <1>2, <1>4, <1>5 DEF FamiliesFit

LEMMA NextFamiliesFit == IInv /\ FamiliesFit /\ [Next]_vars /\ [RevokedAlone]_vars => FamiliesFit'
<1> SUFFICES ASSUME IInv, FamiliesFit, [Next]_vars, [RevokedAlone]_vars PROVE FamiliesFit'
  OBVIOUS
<1> USE DEF Reply, Goto, Idle
<1>0. /\ req \in [Requests -> Request] /\ \A r \in Requests : req[r] \in Request
      /\ row \in [Jti -> Row \cup {None}]
      /\ \A j \in Jti : j <= issued => claims[j].fam \in opened
  BY DEF IInv, TypeOK, FamiliesFit
<1>1. ASSUME NEW r \in Requests, NEW u \in Users, Login(r, u) PROVE FamiliesFit'
  BY <1>0, <1>1, NothingRevoked DEF Login
<1>2. ASSUME NEW r \in Requests, NEW j \in Jti, PresentToken(r, j) PROVE FamiliesFit'
  BY <1>0, <1>2, NothingRevoked DEF PresentToken
<1>3. ASSUME NEW r \in Requests,
             \/ WrongPassword(r) \/ TokenUnknown(r) \/ TokenRevoked(r) \/ TokenReplayed(r)
             \/ UserGone(r) \/ SaveRejected(r) \/ Deliver(r) \/ Abort(r)
      PROVE  FamiliesFit'
  BY <1>0, <1>3, NothingRevoked
     DEF WrongPassword, TokenUnknown, TokenRevoked, TokenReplayed, UserGone, SaveRejected,
         Deliver, Abort, Request
<1>4. ASSUME NEW r \in Requests, NEW f \in Families, OpenFamily(r, f) PROVE FamiliesFit'
  BY <1>4, OpenFamilyFamilies
<1>5. ASSUME NEW r \in Requests, TokenAccepted(r) PROVE FamiliesFit'
  BY <1>5, TokenAcceptedFamilies
<1>6. ASSUME NEW r \in Requests, UserFound(r) PROVE FamiliesFit'
  <2>1. \A q \in Requests : req'[q].pc \in {"user", "save"} =>
          req[q].pc \in {"user", "save"} /\ req'[q].fam = req[q].fam
    BY <1>0, <1>6 DEF UserFound, IssueTokenPair, Request
  <2>2. req[r].jti # 0 /\ req[r].jti \in Jti /\ req[r].jti <= issued
        /\ req[r].fam = claims[req[r].jti].fam
    BY <1>6 DEF UserFound, IInv, TypeOK, RequestsConsistent, SignedInOrder
  <2>3. \A j \in Jti : claims'[j].fam = IF j = issued + 1 THEN req[r].fam ELSE claims[j].fam
    BY <1>6 DEF UserFound, IssueTokenPair, IInv, TypeOK
  <2>4. issued' = issued + 1 /\ opened' = opened /\ row' = row
    BY <1>6 DEF UserFound, IssueTokenPair
  <2>5. \A j \in Jti : j <= issued' => claims'[j].fam \in opened'
    BY <1>0, <2>2, <2>3, <2>4 DEF IInv, TypeOK, Jti
  <2> QED BY <2>1, <2>4, <2>5, NothingRevoked
<1>7. ASSUME NEW r \in Requests, RevokeFamily(r) PROVE FamiliesFit'
  <2>1. req'[r] # req[r]
    BY <1>0, <1>7 DEF RevokeFamily, Request
  <2>2. RevokedAlone
    BY <2>1 DEF vars
  <2> QED BY <1>7, <2>2, RevokeFamilyFamilies
<1>8. ASSUME NEW r \in Requests, SaveToken(r) PROVE FamiliesFit'
  BY <1>8, SaveTokenFamilies
<1>9. ASSUME NEW r \in Requests, ConsumeToken(r) PROVE FamiliesFit'
  <2>1. \A q \in Requests : req'[q] = req[q] \/ req'[q].pc = "answer"
    BY <1>0, <1>9 DEF ConsumeToken, Request
  <2> QED BY <1>0, <1>9, <2>1, MarksOneToken, NothingRevoked DEF ConsumeToken
<1>10. ASSUME Purge \/ Tick \/ \E u \in Users : RemoveAccount(u) PROVE FamiliesFit'
  BY <1>0, <1>10, NothingRevoked DEF Purge, Tick, RemoveAccount
<1>11. CASE UNCHANGED vars
  BY <1>0, <1>11, NothingRevoked DEF vars
<1> QED BY <1>1, <1>2, <1>3, <1>4, <1>5, <1>6, <1>7, <1>8, <1>9, <1>10, <1>11 DEF Next, Step

\* "Renseignee pour TOUTES les lignes d'une famille": a family is revoked whole or not
\* at all, in every behaviour in which no revocation comes between the check of
\* another request of the family and its insertion.
THEOREM RevocationIsWhole == Spec /\ [][RevokedAlone]_vars => []RevocationCoversFamily
<1>1. Init => FamiliesFit
  <2> SUFFICES ASSUME Init PROVE FamiliesFit
    OBVIOUS
  <2>1. Stored = {} /\ issued = 0
    BY DEF Init, Stored
  <2> QED BY <2>1 DEF FamiliesFit, RevocationCoversFamily, Jti
<1>2. IInv /\ FamiliesFit /\ [Next]_vars /\ [RevokedAlone]_vars => FamiliesFit'
  BY NextFamiliesFit
<1>3. FamiliesFit => RevocationCoversFamily
  BY DEF FamiliesFit
<1> QED BY <1>1, <1>2, <1>3, Invariance, PTL DEF Spec
==============================================================================
