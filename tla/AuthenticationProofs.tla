------------------------ MODULE AuthenticationProofs ------------------------
(***************************************************************************)
(* Theorems about Authentication, for every set of phones, codes, tokens   *)
(* and requests.  The inductive invariant IInv adds to TypeOK what a       *)
(* request in flight carries (a phone where a phone is needed, tokens that *)
(* were issued) and what the rows of refresh_tokens owe to each other.     *)
(* Each part is kept by every step, by a lemma of its own.                 *)
(***************************************************************************)
EXTENDS Authentication, TLAPS

\* Where a request works on the keys of a phone number.
PhonePC == PC \ {"idle", "insertEmail", "issue", "readUser", "rotate", "revoke"}

SoundRecord(q) ==
  /\ q \in Request
  /\ q.pc # "idle" => q.user \in Users
  /\ q.pc \in PhonePC => q.user \in Phones
  /\ \A t \in q.tokens : Issued(t)

RequestOK ==
  /\ req \in [Requests -> Request]
  /\ \A r \in Requests : SoundRecord(req[r])

OtpOK ==
  /\ otp \in [Phones -> Codes \cup {None}]
  /\ attempts \in [Phones -> Counter]
  /\ sms \in [Phones -> Counter]
  /\ blocked \in SUBSET Phones
  /\ use \in [Phones -> Use]

RowsOK ==
  /\ accounts \in SUBSET Users
  /\ disabled \in SUBSET Users
  /\ asked \in SUBSET Events
  /\ crashes \in Nat

\* A session is named by a token that was issued; only what was issued is
\* revoked, ended or raced.
TokenOK ==
  /\ holder \in [Tokens -> Users \cup {None}]
  /\ session \in [Tokens -> Tokens \cup {None}]
  /\ revoked \in SUBSET Tokens /\ expired \in SUBSET Tokens
  /\ ended \in SUBSET Tokens /\ raced \in SUBSET Tokens
  /\ \A t \in Tokens : Issued(t) => session[t] \in Tokens /\ Issued(session[t])
  /\ \A t \in revoked \cup ended : Issued(t)

IInv == RequestOK /\ OtpOK /\ RowsOK /\ TokenOK

LEMMA InvariantTypes == IInv => TypeOK
BY DEF IInv, RequestOK, OtpOK, RowsOK, TokenOK, TypeOK

LEMMA NoneIsNobody == None \notin Users /\ None \notin Phones /\ Phones \subseteq Users
BY AuthAssumption DEF Users

LEMMA InitInvariant == Init => IInv
<1> SUFFICES ASSUME Init PROVE IInv
  OBVIOUS
<1>1. Idle \in Request /\ Idle.pc = "idle" /\ Idle.tokens = {}
  BY DEF Idle, Request, PC
<1>2. RequestOK
  BY <1>1 DEF Init, RequestOK, SoundRecord, PhonePC
<1>3. OtpOK
  BY DEF Init, OtpOK, Absent, Counter, NewUse, Use
<1>4. RowsOK
  BY AuthAssumption DEF Init, RowsOK
<1>5. TokenOK
  BY DEF Init, TokenOK, Issued
<1> QED
  BY <1>2, <1>3, <1>4, <1>5 DEF IInv

-----------------------------------------------------------------------------
(* Tokens: what a step can do to the rows of refresh_tokens.               *)

LEMMA TokenChange ==
  ASSUME IInv, Next
  PROVE  \/ UNCHANGED <<holder, session, revoked, ended, raced>>
         \/ \E u \in Users : BeginSession(u)
         \/ \E r \in Requests : Rotate(r) \/ Revoke(r)
<1>1. ASSUME NEW r \in Requests, Issue(r) \/ InsertEmail(r)
      PROVE  \/ UNCHANGED <<holder, session, revoked, ended, raced>>
             \/ \E u \in Users : BeginSession(u)
  <2>1. req[r].user \in Users
    BY <1>1 DEF IInv, RequestOK, SoundRecord, Issue, InsertEmail, At
  <2> QED
    BY <1>1, <2>1 DEF Issue, InsertEmail, tokenVars
<1>2. ASSUME NEW r \in Requests,
             \/ CountSms(r) \/ ExpireSms(r) \/ SaveOtp(r) \/ SaveAttempts(r)
             \/ GetOtp(r) \/ Attempt(r) \/ Block(r) \/ DeleteOtp(r)
             \/ FindUser(r) \/ InsertUser(r) \/ ReadUser(r) \/ Fail(r)
      PROVE  UNCHANGED <<holder, session, revoked, ended, raced>>
  BY <1>2 DEF CountSms, ExpireSms, SaveOtp, SaveAttempts, GetOtp, Attempt, Block, DeleteOtp,
              FindUser, InsertUser, ReadUser, Fail, tokenVars
<1>3. ASSUME NEW r \in Requests, NEW x,
             \/ RegisterPhone(r, x) \/ VerifyOtp(r, x) \/ RegisterEmail(r, x)
             \/ LoginEmail(r, x) \/ RefreshToken(r, x) \/ Logout(r, x) \/ LogoutAll(r, x)
      PROVE  UNCHANGED <<holder, session, revoked, ended, raced>>
  BY <1>3 DEF RegisterPhone, VerifyOtp, RegisterEmail, LoginEmail, RefreshToken, Logout,
              LogoutAll, tokenVars
<1>4. ASSUME NEW x, ExpireKey(x) \/ Disable(x) \/ Expire(x)
      PROVE  UNCHANGED <<holder, session, revoked, ended, raced>>
  BY <1>4 DEF ExpireKey, Disable, Expire, tokenVars
<1> QED
  BY <1>1, <1>2, <1>3, <1>4 DEF Next

\* A token that is drawn is new to every session.
LEMMA BeginEffect ==
  ASSUME IInv, NEW u \in Users, BeginSession(u)
  PROVE  \E t \in Tokens :
           /\ ~Issued(t) /\ t \notin revoked \cup ended
           /\ \A s \in Tokens : Issued(s) => session[s] # t
           /\ Issued(t)' /\ session'[t] = t
           /\ \A s \in Tokens \ {t} : holder'[s] = holder[s] /\ session'[s] = session[s]
<1>1. PICK t \in Tokens :
        /\ ~Issued(t)
        /\ holder' = [holder EXCEPT ![t] = u]
        /\ session' = [session EXCEPT ![t] = t]
  BY DEF BeginSession
<1>2. holder'[t] # None /\ session'[t] = t
  BY <1>1, NoneIsNobody DEF IInv, TokenOK
<1>3. \A s \in Tokens \ {t} : holder'[s] = holder[s] /\ session'[s] = session[s]
  BY <1>1 DEF IInv, TokenOK
<1>4. t \notin revoked \cup ended /\ \A s \in Tokens : Issued(s) => session[s] # t
  BY <1>1 DEF IInv, TokenOK
<1> QED
  BY <1>1, <1>2, <1>3, <1>4 DEF Issued

LEMMA RotateEffect ==
  ASSUME IInv, NEW r \in Requests, Rotate(r)
  PROVE  \E old, new \in Tokens :
           /\ Issued(old) /\ ~Issued(new) /\ new \notin revoked \cup ended
           /\ Issued(new)' /\ session'[new] = session[old]
           /\ \A s \in Tokens \ {new} : holder'[s] = holder[s] /\ session'[s] = session[s]
           /\ revoked' = revoked \cup {old}
           /\ old \in revoked => session[old] \in raced'
           /\ raced \subseteq raced' /\ ended' = ended
<1>1. PICK old \in req[r].tokens, new \in Tokens :
        /\ ~Issued(new)
        /\ holder' = [holder EXCEPT ![new] = req[r].user]
        /\ session' = [session EXCEPT ![new] = session[old]]
        /\ revoked' = revoked \cup {old}
        /\ raced' = raced \cup Overtaken({old})
  BY DEF Rotate
<1>2. old \in Tokens /\ Issued(old) /\ req[r].user \in Users
  BY DEF IInv, RequestOK, SoundRecord, Request, Rotate, At
<1>3. holder'[new] # None /\ session'[new] = session[old]
  BY <1>1, <1>2, NoneIsNobody DEF IInv, TokenOK
<1>4. \A s \in Tokens \ {new} : holder'[s] = holder[s] /\ session'[s] = session[s]
  BY <1>1 DEF IInv, TokenOK
<1>5. new \notin revoked \cup ended
  BY <1>1 DEF IInv, TokenOK
<1>6. raced \subseteq raced' /\ (old \in revoked => session[old] \in raced')
  BY <1>1 DEF Overtaken
<1>7. ended' = ended
  BY DEF Rotate
<1> QED
  BY <1>1, <1>2, <1>3, <1>4, <1>5, <1>6, <1>7 DEF Issued

LEMMA RevokeEffect ==
  ASSUME IInv, NEW r \in Requests, Revoke(r)
  PROVE  \E gone \in SUBSET Tokens :
           /\ \A t \in gone : Issued(t)
           /\ revoked' = revoked \cup gone
           /\ ended' = ended \cup {session[t] : t \in gone}
           /\ raced \subseteq raced'
           /\ \A t \in gone \cap revoked : session[t] \in raced'
           /\ holder' = holder /\ session' = session
<1> DEFINE gone == req[r].tokens
<1>1. gone \in SUBSET Tokens /\ \A t \in gone : Issued(t)
  BY DEF IInv, RequestOK, SoundRecord, Request
<1>2. /\ revoked' = revoked \cup gone
      /\ ended' = ended \cup {session[t] : t \in gone}
      /\ raced' = raced \cup Overtaken(gone)
      /\ holder' = holder /\ session' = session
  BY DEF Revoke
<1>3. raced \subseteq raced' /\ \A t \in gone \cap revoked : session[t] \in raced'
  BY <1>2 DEF Overtaken
<1> QED
  BY <1>1, <1>2, <1>3

\* No row of refresh_tokens is ever deleted.
LEMMA IssuedStays ==
  ASSUME IInv, Next, NEW t \in Tokens, Issued(t)
  PROVE  Issued(t)'
<1>1. CASE UNCHANGED <<holder, session, revoked, ended, raced>>
  BY <1>1 DEF Issued
<1>2. ASSUME NEW u \in Users, BeginSession(u) PROVE Issued(t)'
  BY <1>2, BeginEffect DEF Issued
<1>3. ASSUME NEW r \in Requests, Rotate(r) PROVE Issued(t)'
  BY <1>3, RotateEffect DEF Issued
<1>4. ASSUME NEW r \in Requests, Revoke(r) PROVE Issued(t)'
  BY <1>4, RevokeEffect DEF Issued
<1> QED
  BY <1>1, <1>2, <1>3, <1>4, TokenChange

LEMMA ExpiredType ==
  ASSUME IInv, Next
  PROVE  expired' \in SUBSET Tokens /\ raced' \in SUBSET Tokens
<1>1. expired \in SUBSET Tokens /\ raced \in SUBSET Tokens /\ session \in [Tokens -> Tokens \cup {None}]
  BY DEF IInv, TokenOK
<1>2. ASSUME NEW r \in Requests, Rotate(r)
      PROVE  expired' \in SUBSET Tokens /\ raced' \in SUBSET Tokens
  <2>1. PICK old \in req[r].tokens : expired' = expired /\ raced' = raced \cup Overtaken({old})
    BY <1>2 DEF Rotate
  <2>2. Issued(old) /\ old \in Tokens
    BY <2>1 DEF IInv, RequestOK, SoundRecord, Request
  <2>3. session[old] \in Tokens
    BY <2>2 DEF IInv, TokenOK
  <2> QED
    BY <1>1, <2>1, <2>3 DEF Overtaken
<1>3. ASSUME NEW r \in Requests, Revoke(r)
      PROVE  expired' \in SUBSET Tokens /\ raced' \in SUBSET Tokens
  <2>1. expired' = expired /\ raced' = raced \cup Overtaken(req[r].tokens)
    BY <1>3 DEF Revoke
  <2>2. \A t \in req[r].tokens : session[t] \in Tokens
    BY DEF IInv, RequestOK, SoundRecord, Request, TokenOK
  <2> QED
    BY <1>1, <2>1, <2>2 DEF Overtaken
<1>4. ASSUME NEW t \in Tokens, Expire(t)
      PROVE  expired' \in SUBSET Tokens /\ raced' \in SUBSET Tokens
  BY <1>1, <1>4 DEF Expire
<1>5. CASE UNCHANGED <<expired, raced>>
  BY <1>1, <1>5
<1>6. ASSUME NEW r \in Requests,
             \/ CountSms(r) \/ ExpireSms(r) \/ SaveOtp(r) \/ SaveAttempts(r)
             \/ GetOtp(r) \/ Attempt(r) \/ Block(r) \/ DeleteOtp(r)
             \/ FindUser(r) \/ InsertUser(r) \/ InsertEmail(r) \/ Issue(r)
             \/ ReadUser(r) \/ Fail(r)
      PROVE  UNCHANGED <<expired, raced>>
  BY <1>6 DEF CountSms, ExpireSms, SaveOtp, SaveAttempts, GetOtp, Attempt, Block, DeleteOtp,
              FindUser, InsertUser, InsertEmail, Issue, BeginSession, ReadUser, Fail, tokenVars
<1>7. ASSUME NEW r \in Requests, NEW x,
             \/ RegisterPhone(r, x) \/ VerifyOtp(r, x) \/ RegisterEmail(r, x)
             \/ LoginEmail(r, x) \/ RefreshToken(r, x) \/ Logout(r, x) \/ LogoutAll(r, x)
      PROVE  UNCHANGED <<expired, raced>>
  BY <1>7 DEF RegisterPhone, VerifyOtp, RegisterEmail, LoginEmail, RefreshToken, Logout,
              LogoutAll, tokenVars
<1>8. ASSUME NEW x, ExpireKey(x) \/ Disable(x)
      PROVE  UNCHANGED <<expired, raced>>
  BY <1>8 DEF ExpireKey, Disable, tokenVars
<1> QED
  BY <1>2, <1>3, <1>4, <1>5, <1>6, <1>7, <1>8 DEF Next

\* What TokenOK says beyond types.
TokenLinks ==
  /\ revoked \in SUBSET Tokens /\ ended \in SUBSET Tokens
  /\ \A t \in Tokens : Issued(t) => session[t] \in Tokens /\ Issued(session[t])
  /\ \A t \in revoked \cup ended : Issued(t)

LEMMA TokenLinksStep ==
  ASSUME IInv, Next
  PROVE  TokenLinks'
<1>1. TokenLinks
  BY DEF IInv, TokenOK, TokenLinks
<1>2. CASE UNCHANGED <<holder, session, revoked, ended, raced>>
  BY <1>1, <1>2 DEF TokenLinks, Issued
<1>3. ASSUME NEW u \in Users, BeginSession(u) PROVE TokenLinks'
  <2>1. revoked' = revoked /\ ended' = ended
    BY <1>3 DEF BeginSession
  <2>2. PICK t \in Tokens :
          /\ Issued(t)' /\ session'[t] = t
          /\ \A s \in Tokens \ {t} : holder'[s] = holder[s] /\ session'[s] = session[s]
    BY <1>3, BeginEffect
  <2>3. \A s \in Tokens : Issued(s) => Issued(s)'
    BY <2>2 DEF Issued
  <2> QED
    BY <1>1, <2>1, <2>2, <2>3 DEF TokenLinks, Issued
<1>4. ASSUME NEW r \in Requests, Rotate(r) PROVE TokenLinks'
  <2>1. PICK old \in Tokens, new \in Tokens :
          /\ Issued(old) /\ Issued(new)' /\ session'[new] = session[old]
          /\ \A s \in Tokens \ {new} : holder'[s] = holder[s] /\ session'[s] = session[s]
          /\ revoked' = revoked \cup {old} /\ ended' = ended
    BY <1>4, RotateEffect
  <2>2. \A s \in Tokens : Issued(s) => Issued(s)'
    BY <2>1 DEF Issued
  <2> QED
    BY <1>1, <2>1, <2>2 DEF TokenLinks, Issued
<1>5. ASSUME NEW r \in Requests, Revoke(r) PROVE TokenLinks'
  <2>1. PICK gone \in SUBSET Tokens :
          /\ \A t \in gone : Issued(t)
          /\ revoked' = revoked \cup gone
          /\ ended' = ended \cup {session[t] : t \in gone}
          /\ holder' = holder /\ session' = session
    BY <1>5, RevokeEffect
  <2> QED
    BY <1>1, <2>1 DEF TokenLinks, Issued
<1> QED
  BY <1>2, <1>3, <1>4, <1>5, TokenChange

LEMMA TokenStep ==
  ASSUME IInv, Next
  PROVE  TokenOK'
<1>1. holder' \in [Tokens -> Users \cup {None}] /\ session' \in [Tokens -> Tokens \cup {None}]
  <2>1. /\ holder \in [Tokens -> Users \cup {None}]
        /\ session \in [Tokens -> Tokens \cup {None}]
    BY DEF IInv, TokenOK
  <2>2. ASSUME NEW u \in Users, BeginSession(u)
        PROVE  holder' \in [Tokens -> Users \cup {None}]
               /\ session' \in [Tokens -> Tokens \cup {None}]
    BY <2>1, <2>2 DEF BeginSession
  <2>3. ASSUME NEW r \in Requests, Rotate(r)
        PROVE  holder' \in [Tokens -> Users \cup {None}]
               /\ session' \in [Tokens -> Tokens \cup {None}]
    <3>1. req[r].tokens \subseteq Tokens /\ req[r].user \in Users
      BY <2>3 DEF IInv, RequestOK, SoundRecord, Request, Rotate, At
    <3> QED
      BY <2>1, <2>3, <3>1 DEF Rotate
  <2>4. ASSUME NEW r \in Requests, Revoke(r) PROVE holder' = holder /\ session' = session
    BY <2>4 DEF Revoke
  <2> QED
    BY <2>1, <2>2, <2>3, <2>4, TokenChange
<1>2. TokenLinks'
  BY TokenLinksStep
<1> QED
  BY <1>1, <1>2, ExpiredType DEF TokenOK, TokenLinks

-----------------------------------------------------------------------------
(* Requests, rows and keys.                                                *)

\* A request that takes a sound record leaves the others as they were.
LEMMA RecordStep ==
  ASSUME IInv, Next, NEW r \in Requests, NEW record,
         req' = [req EXCEPT ![r] = record], SoundRecord(record)
  PROVE  RequestOK'
<1>1. /\ req \in [Requests -> Request] /\ \A q \in Requests : SoundRecord(req[q])
      /\ record \in Request
  BY DEF IInv, RequestOK, SoundRecord
<1>2. req' \in [Requests -> Request]
  BY <1>1
<1>3. ASSUME NEW q \in Requests PROVE SoundRecord(req[q])'
  <2>1. SoundRecord(req'[q])
    BY <1>1
  <2>2. \A t \in req'[q].tokens : t \in Tokens
    BY <1>2 DEF Request
  <2>3. \A t \in req'[q].tokens : Issued(t)'
    BY <2>1, <2>2, IssuedStays DEF SoundRecord
  <2> QED
    BY <2>1, <2>3 DEF SoundRecord
<1> QED
  BY <1>2, <1>3 DEF RequestOK

LEMMA IdleIsSound == SoundRecord(Idle) /\ Idle \in Request
BY DEF SoundRecord, Idle, Request, PC, PhonePC

LEMMA FinishStep ==
  ASSUME IInv, Next, NEW r \in Requests, Finish(r)
  PROVE  RequestOK'
BY RecordStep, IdleIsSound DEF Finish

\* A request that goes on keeps what it carries.
LEMMA GoToStep ==
  ASSUME IInv, Next, NEW r \in Requests, NEW pc \in PC, GoTo(r, pc),
         req[r].pc # "idle", pc \in PhonePC => req[r].user \in Phones
  PROVE  RequestOK'
<1> DEFINE record == [req[r] EXCEPT !.pc = pc]
<1>1. SoundRecord(req[r]) /\ req[r] \in Request
  BY DEF IInv, RequestOK
<1>2. /\ record \in Request /\ record.pc = pc
      /\ record.user = req[r].user /\ record.tokens = req[r].tokens
  BY <1>1 DEF Request
<1>3. req' = [req EXCEPT ![r] = record]
  BY DEF GoTo
<1>4. SoundRecord(record)
  BY <1>1, <1>2 DEF SoundRecord
<1> HIDE DEF record
<1> QED
  BY <1>3, <1>4, RecordStep

\* The same, with a code.
LEMMA GoToWithCodeStep ==
  ASSUME IInv, Next, NEW r \in Requests, NEW pc \in PC, NEW c \in Codes \cup {None},
         req' = [req EXCEPT ![r].pc = pc, ![r].code = c],
         req[r].pc \in PhonePC
  PROVE  RequestOK'
<1> DEFINE record == [req[r] EXCEPT !.pc = pc, !.code = c]
<1>1. SoundRecord(req[r]) /\ req[r] \in Request
  BY DEF IInv, RequestOK
<1>2. /\ record \in Request /\ record.pc = pc
      /\ record.user = req[r].user /\ record.tokens = req[r].tokens
  BY <1>1 DEF Request
<1>3. req' = [req EXCEPT ![r] = record]
  <2>1. req \in [Requests -> Request]
    BY DEF IInv, RequestOK
  <2> QED
    BY <1>1, <2>1 DEF Request
<1>4. SoundRecord(record)
  BY <1>1, <1>2, NoneIsNobody DEF SoundRecord, PhonePC
<1> HIDE DEF record
<1> QED
  BY <1>3, <1>4, RecordStep

\* A request that begins, with the account and the tokens it has read.
LEMMA StartStep ==
  ASSUME IInv, Next, NEW r \in Requests, NEW event, NEW pc \in PC \ {"idle"}, NEW u \in Users,
         NEW gone \in SUBSET Tokens, \A t \in gone : Issued(t),
         pc \in PhonePC => u \in Phones,
         Start(r, event, [Idle EXCEPT !.pc = pc, !.user = u, !.tokens = gone])
  PROVE  RequestOK'
<1> DEFINE record == [Idle EXCEPT !.pc = pc, !.user = u, !.tokens = gone]
<1>1. /\ record \in Request /\ record.pc = pc /\ record.user = u /\ record.tokens = gone
  BY IdleIsSound DEF Request
<1>2. SoundRecord(record)
  BY <1>1 DEF SoundRecord
<1>3. req' = [req EXCEPT ![r] = record]
  BY DEF Start
<1> HIDE DEF record
<1> QED
  BY <1>2, <1>3, RecordStep

\* The same, with no tokens.
LEMMA StartPlainStep ==
  ASSUME IInv, Next, NEW r \in Requests, NEW event, NEW pc \in PC \ {"idle"}, NEW u \in Users,
         pc \in PhonePC => u \in Phones,
         Start(r, event, [Idle EXCEPT !.pc = pc, !.user = u])
  PROVE  RequestOK'
<1> DEFINE record == [Idle EXCEPT !.pc = pc, !.user = u]
<1>1. record \in Request /\ record.pc = pc /\ record.user = u /\ record.tokens = {}
  <2>1. Idle \in Request /\ Idle.tokens = {}
    BY IdleIsSound DEF Idle
  <2> QED
    BY <2>1 DEF Request
<1>2. SoundRecord(record)
  BY <1>1 DEF SoundRecord
<1>3. req' = [req EXCEPT ![r] = record]
  BY DEF Start
<1> HIDE DEF record
<1> QED
  BY <1>2, <1>3, RecordStep

LEMMA RequestStep ==
  ASSUME IInv, Next
  PROVE  RequestOK'
<1>1. /\ req \in [Requests -> Request] /\ \A q \in Requests : SoundRecord(req[q])
      /\ holder \in [Tokens -> Users \cup {None}]
  BY DEF IInv, RequestOK, TokenOK
<1>2. CASE UNCHANGED req
  BY <1>1, <1>2, IssuedStays DEF RequestOK, SoundRecord, Request
<1>3. ASSUME NEW r \in Requests, NEW p \in Phones, RegisterPhone(r, p) \/ VerifyOtp(r, p)
      PROVE  RequestOK'
  <2>1. p \in Users /\ "countSms" \in PC \ {"idle"} /\ "getOtp" \in PC \ {"idle"}
    BY DEF PC, Users
  <2>2. \/ Start(r, "register_phone", [Idle EXCEPT !.pc = "countSms", !.user = p])
        \/ Start(r, "verify_otp", [Idle EXCEPT !.pc = "getOtp", !.user = p])
    BY <1>3 DEF RegisterPhone, VerifyOtp
  <2> QED
    BY <2>1, <2>2, StartPlainStep
<1>4. ASSUME NEW r \in Requests, NEW e \in Emails, RegisterEmail(r, e) \/ LoginEmail(r, e)
      PROVE  RequestOK'
  <2>1. /\ e \in Users /\ "insertEmail" \in PC \ {"idle"} /\ "issue" \in PC \ {"idle"}
        /\ "insertEmail" \notin PhonePC /\ "issue" \notin PhonePC
    BY DEF PC, PhonePC, Users
  <2>2. \/ Start(r, "register_email", [Idle EXCEPT !.pc = "insertEmail", !.user = e])
        \/ Start(r, "login_email", [Idle EXCEPT !.pc = "issue", !.user = e])
    BY <1>4 DEF RegisterEmail, LoginEmail
  <2> QED
    BY <2>1, <2>2, StartPlainStep
<1>5. ASSUME NEW r \in Requests, NEW t \in Tokens, RefreshToken(r, t) \/ Logout(r, t)
      PROVE  RequestOK'
  <2>1. Issued(t) /\ holder[t] \in Users
    BY <1>1, <1>5 DEF RefreshToken, Logout, Live, Issued
  <2>2. /\ "readUser" \in PC \ {"idle"} /\ "revoke" \in PC \ {"idle"}
        /\ "readUser" \notin PhonePC /\ "revoke" \notin PhonePC
    BY DEF PC, PhonePC
  <2>3. {t} \in SUBSET Tokens /\ \A x \in {t} : Issued(x)
    BY <2>1
  <2>4. \/ Start(r, "refresh_token",
                 [Idle EXCEPT !.pc = "readUser", !.user = holder[t], !.tokens = {t}])
        \/ Start(r, "logout", [Idle EXCEPT !.pc = "revoke", !.user = holder[t], !.tokens = {t}])
    BY <1>5 DEF RefreshToken, Logout
  <2> QED
    BY <2>1, <2>2, <2>3, <2>4, StartStep
<1>6. ASSUME NEW r \in Requests, NEW u \in Users, LogoutAll(r, u)
      PROVE  RequestOK'
  <2>1. LiveOf(u) \in SUBSET Tokens /\ \A t \in LiveOf(u) : Issued(t)
    BY NoneIsNobody DEF LiveOf, Issued
  <2>2. "revoke" \in PC \ {"idle"} /\ "revoke" \notin PhonePC
    BY DEF PC, PhonePC
  <2>3. Start(r, "logout_all", [Idle EXCEPT !.pc = "revoke", !.user = u, !.tokens = LiveOf(u)])
    BY <1>6 DEF LogoutAll
  <2> QED
    BY <2>1, <2>2, <2>3, StartStep
<1>7. ASSUME NEW r \in Requests,
             \/ CountSms(r) \/ ExpireSms(r) \/ SaveOtp(r) \/ SaveAttempts(r)
             \/ GetOtp(r) \/ Attempt(r) \/ Block(r) \/ DeleteOtp(r) \/ FindUser(r)
             \/ InsertUser(r)
      PROVE  RequestOK'
  <2>1. req[r].pc \in PhonePC
    BY <1>7 DEF CountSms, ExpireSms, SaveOtp, SaveAttempts, GetOtp, Attempt, Block, DeleteOtp,
                FindUser, InsertUser, At, PC, PhonePC
  <2>2. req[r].pc # "idle" /\ req[r].user \in Phones
    BY <1>1, <2>1 DEF SoundRecord, PhonePC
  <2>3. ASSUME NEW pc \in PC, GoTo(r, pc) PROVE RequestOK'
    BY <2>2, <2>3, GoToStep
  <2>4. CASE CountSms(r)
    BY <2>3, <2>4, FinishStep DEF CountSms, PC
  <2>5. CASE ExpireSms(r) \/ SaveAttempts(r) \/ Block(r)
    BY <2>3, <2>5, FinishStep DEF ExpireSms, SaveAttempts, Block, PC
  <2>6. CASE SaveOtp(r)
    BY <2>1, <2>6, GoToWithCodeStep DEF SaveOtp, FreshCodes, PC
  <2>7. CASE GetOtp(r)
    <3>1. otp[req[r].user] \in Codes \cup {None}
      BY <2>2 DEF IInv, OtpOK
    <3> QED
      BY <2>1, <2>7, <3>1, GoToWithCodeStep, FinishStep DEF GetOtp, PC
  <2>8. CASE Attempt(r)
    BY <2>3, <2>8, FinishStep DEF Attempt, PC
  <2>9. CASE DeleteOtp(r)
    BY <2>1, <2>9, GoToWithCodeStep DEF DeleteOtp, PC
  <2>10. CASE FindUser(r) \/ InsertUser(r)
    BY <2>3, <2>10, FinishStep DEF FindUser, InsertUser, PC
  <2> QED
    BY <1>7, <2>4, <2>5, <2>6, <2>7, <2>8, <2>9, <2>10
<1>8. ASSUME NEW r \in Requests, ReadUser(r)
      PROVE  RequestOK'
  <2>1. GoTo(r, "rotate") \/ Finish(r)
    BY <1>8 DEF ReadUser
  <2>2. req[r].pc # "idle"
    BY <1>8 DEF ReadUser, At
  <2> QED
    BY <2>1, <2>2, GoToStep, FinishStep DEF PC, PhonePC
<1>9. ASSUME NEW r \in Requests,
             InsertEmail(r) \/ Issue(r) \/ Rotate(r) \/ Revoke(r) \/ Fail(r)
      PROVE  RequestOK'
  BY <1>9, FinishStep DEF InsertEmail, Issue, Rotate, Revoke, Fail
<1>10. ASSUME NEW x, ExpireKey(x) \/ Disable(x) \/ Expire(x)
       PROVE  UNCHANGED req
  BY <1>10 DEF ExpireKey, Disable, Expire
<1> QED
  BY <1>2, <1>3, <1>4, <1>5, <1>6, <1>7, <1>8, <1>9, <1>10 DEF Next

LEMMA CounterTypes ==
  ASSUME NEW counter \in Counter, NEW limit, NEW ttl \in {"none", "short", "covers"}
  PROVE  /\ Incr(counter, limit) \in Counter
         /\ [counter EXCEPT !.ttl = ttl] \in Counter
         /\ Absent \in Counter
         /\ [n |-> 0, ttl |-> ttl] \in Counter
BY DEF Incr, Counter, Absent

LEMMA UseTypes ==
  ASSUME NEW x \in Use, NEW b \in BOOLEAN, NEW right \in BOOLEAN
  PROVE  /\ NewUse \in Use
         /\ [x EXCEPT !.torn = b] \in Use
         /\ [x EXCEPT !.exposed = b] \in Use
         /\ [x EXCEPT !.tries = x.tries + 1,
                      !.accepted = x.accepted + (IF right THEN 1 ELSE 0)] \in Use
<1>1. NewUse \in Use
  BY DEF NewUse, Use
<1>2. [x EXCEPT !.torn = b] \in Use /\ [x EXCEPT !.exposed = b] \in Use
  BY DEF Use
<1>3. ASSUME NEW i \in Nat, NEW k \in Nat
      PROVE  [x EXCEPT !.tries = i, !.accepted = k] \in Use
  BY DEF Use
<1>4. x.tries + 1 \in Nat /\ x.accepted + (IF right THEN 1 ELSE 0) \in Nat
  BY DEF Use
<1> QED
  BY <1>1, <1>2, <1>3, <1>4

LEMMA OtpStep ==
  ASSUME IInv, Next
  PROVE  OtpOK'
<1>1. /\ otp \in [Phones -> Codes \cup {None}]
      /\ attempts \in [Phones -> Counter] /\ sms \in [Phones -> Counter]
      /\ blocked \in SUBSET Phones /\ use \in [Phones -> Use]
  BY DEF IInv, OtpOK
<1>2. CASE UNCHANGED otpVars
  BY <1>1, <1>2 DEF otpVars, OtpOK
<1>3. ASSUME NEW r \in Requests, req[r].pc \in PhonePC
      PROVE  req[r].user \in Phones
  BY <1>3 DEF IInv, RequestOK, SoundRecord
<1>4. ASSUME NEW r \in Requests, CountSms(r)
      PROVE  OtpOK'
  <2>1. req[r].user \in Phones
    BY <1>3, <1>4 DEF CountSms, At, PC, PhonePC
  <2>2. Incr(sms[req[r].user], PHONE_REGISTER_MAX) \in Counter
    BY <1>1, <2>1, CounterTypes
  <2>3. /\ sms' = [sms EXCEPT ![req[r].user] = Incr(@, PHONE_REGISTER_MAX)]
        /\ UNCHANGED <<otp, attempts, blocked, use>>
    BY <1>4 DEF CountSms
  <2> QED
    BY <1>1, <2>1, <2>2, <2>3 DEF OtpOK
<1>5. ASSUME NEW r \in Requests, ExpireSms(r)
      PROVE  OtpOK'
  <2>1. req[r].user \in Phones
    BY <1>3, <1>5 DEF ExpireSms, At, PC, PhonePC
  <2>2. [sms[req[r].user] EXCEPT !.ttl = "covers"] \in Counter
    BY <1>1, <2>1, CounterTypes
  <2>3. /\ sms' = [sms EXCEPT ![req[r].user] = [@ EXCEPT !.ttl = "covers"]]
        /\ UNCHANGED <<otp, attempts, blocked, use>>
    BY <1>5 DEF ExpireSms
  <2> QED
    BY <1>1, <2>1, <2>2, <2>3 DEF OtpOK
<1>6. ASSUME NEW r \in Requests, SaveOtp(r)
      PROVE  OtpOK'
  <2> DEFINE p == req[r].user
             ttl == IF attempts[p].ttl = "covers" THEN "short" ELSE attempts[p].ttl
  <2>1. p \in Phones
    BY <1>3, <1>6 DEF SaveOtp, At, PC, PhonePC
  <2>2. ttl \in {"none", "short", "covers"} /\ attempts[p] \in Counter
    BY <1>1, <2>1 DEF Counter
  <2>3. [attempts[p] EXCEPT !.ttl = ttl] \in Counter
    BY <2>2, CounterTypes
  <2>4. /\ \E c \in Codes : otp' = [otp EXCEPT ![p] = c]
        /\ attempts' = [attempts EXCEPT ![p] = [@ EXCEPT !.ttl = ttl]]
        /\ use' = [use EXCEPT ![p] = NewUse]
        /\ UNCHANGED <<sms, blocked>>
    BY <1>6 DEF SaveOtp, FreshCodes
  <2>5. NewUse \in Use
    BY DEF NewUse, Use
  <2> HIDE DEF ttl
  <2> QED
    BY <1>1, <2>1, <2>3, <2>4, <2>5 DEF OtpOK
<1>7. ASSUME NEW r \in Requests, SaveAttempts(r)
      PROVE  OtpOK'
  <2> DEFINE p == req[r].user
             torn == use[p].tries # 0
  <2>1. p \in Phones
    BY <1>3, <1>7 DEF SaveAttempts, At, PC, PhonePC
  <2>2. [n |-> 0, ttl |-> "covers"] \in Counter /\ torn \in BOOLEAN
    BY DEF Counter
  <2>3. [use[p] EXCEPT !.torn = torn] \in Use
    BY <1>1, <2>1, <2>2, UseTypes
  <2>4. /\ attempts' = [attempts EXCEPT ![p] = [n |-> 0, ttl |-> "covers"]]
        /\ use' = [use EXCEPT ![p] = [@ EXCEPT !.torn = torn]]
        /\ UNCHANGED <<otp, sms, blocked>>
    BY <1>7 DEF SaveAttempts
  <2> HIDE DEF torn
  <2> QED
    BY <1>1, <2>1, <2>2, <2>3, <2>4 DEF OtpOK
<1>8. ASSUME NEW r \in Requests, GetOtp(r)
      PROVE  OtpOK'
  <2> DEFINE p == req[r].user
  <2>1. p \in Phones
    BY <1>3, <1>8 DEF GetOtp, At, PC, PhonePC
  <2> DEFINE seen == \E q \in Requests \ {r} :
                        req[q].pc \in {"attempt", "deleteOtp"} /\ req[q].code = otp[p]
             more == use[p].exposed \/ seen
  <2>2. use' = use \/ use' = [use EXCEPT ![p] = [@ EXCEPT !.exposed = more]]
    BY <1>8 DEF GetOtp
  <2>3. more \in BOOLEAN /\ use[p] \in Use
    BY <1>1, <2>1 DEF Use
  <2>4. [use[p] EXCEPT !.exposed = more] \in Use
    BY <2>3, UseTypes
  <2>5. UNCHANGED <<otp, attempts, sms, blocked>>
    BY <1>8 DEF GetOtp
  <2> HIDE DEF more, seen
  <2> QED
    BY <1>1, <2>1, <2>2, <2>4, <2>5 DEF OtpOK
<1>9. ASSUME NEW r \in Requests, Attempt(r)
      PROVE  OtpOK'
  <2> DEFINE p == req[r].user
  <2>1. p \in Phones
    BY <1>3, <1>9 DEF Attempt, At, PC, PhonePC
  <2> DEFINE n == Incr(attempts[p], OTP_MAX_ATTEMPTS).n
  <2>2. PICK right \in BOOLEAN :
          /\ use' = TriedOnce(r, n, right)
          /\ attempts' = [attempts EXCEPT ![p] = Incr(@, OTP_MAX_ATTEMPTS)]
          /\ UNCHANGED <<otp, sms, blocked>>
    BY <1>9 DEF Attempt
  <2>3. Incr(attempts[p], OTP_MAX_ATTEMPTS) \in Counter
    BY <1>1, <2>1, CounterTypes
  <2>4. [use[p] EXCEPT !.tries = use[p].tries + 1,
                      !.accepted = use[p].accepted + (IF right THEN 1 ELSE 0)] \in Use
    BY <1>1, <2>1, UseTypes
  <2>5. TriedOnce(r, n, right) \in [Phones -> Use]
    BY <1>1, <2>1, <2>4 DEF TriedOnce, Use
  <2> QED
    BY <1>1, <2>1, <2>2, <2>3, <2>5 DEF OtpOK
<1>10. ASSUME NEW r \in Requests, Block(r)
       PROVE  OtpOK'
  <2>1. req[r].user \in Phones
    BY <1>3, <1>10 DEF Block, At, PC, PhonePC
  <2> QED
    BY <1>1, <1>10, <2>1 DEF Block, OtpOK
<1>11. ASSUME NEW r \in Requests, DeleteOtp(r)
       PROVE  OtpOK'
  <2>1. Absent \in Counter /\ NewUse \in Use
    BY DEF Absent, Counter, NewUse, Use
  <2> QED
    BY <1>1, <1>11, <2>1 DEF DeleteOtp, OtpOK
<1>12. ASSUME NEW p \in Phones, ExpireKey(p)
       PROVE  OtpOK'
  <2>1. Absent \in Counter /\ NewUse \in Use
    BY DEF Absent, Counter, NewUse, Use
  <2> QED
    BY <1>1, <1>12, <2>1 DEF ExpireKey, OtpOK
<1>13. ASSUME NEW r \in Requests, Fail(r)
       PROVE  OtpOK'
  <2> DEFINE p == req[r].user
  <2>1. UNCHANGED <<otp, attempts, sms, blocked>>
    BY <1>13 DEF Fail
  <2>2. CASE use' = use
    BY <1>1, <2>1, <2>2 DEF OtpOK
  <2>3. CASE At(r, "deleteOtp")
    <3>1. p \in Phones
      BY <1>3, <2>3 DEF At, PC, PhonePC
    <3>2. use' = [use EXCEPT ![p] = [@ EXCEPT !.exposed = TRUE]]
      BY <1>13, <2>3 DEF Fail
    <3>3. [use[p] EXCEPT !.exposed = TRUE] \in Use
      BY <1>1, <3>1, UseTypes
    <3> QED
      BY <1>1, <2>1, <3>1, <3>2, <3>3 DEF OtpOK
  <2> QED
    BY <1>13, <2>2, <2>3 DEF Fail
<1>14. ASSUME NEW r \in Requests,
              FindUser(r) \/ InsertUser(r) \/ InsertEmail(r) \/ Issue(r)
              \/ ReadUser(r) \/ Rotate(r) \/ Revoke(r)
       PROVE  UNCHANGED otpVars
  BY <1>14 DEF FindUser, InsertUser, InsertEmail, Issue, ReadUser, Rotate, Revoke
<1>15. ASSUME NEW r \in Requests, NEW x,
              \/ RegisterPhone(r, x) \/ VerifyOtp(r, x) \/ RegisterEmail(r, x)
              \/ LoginEmail(r, x) \/ RefreshToken(r, x) \/ Logout(r, x) \/ LogoutAll(r, x)
       PROVE  UNCHANGED otpVars
  BY <1>15 DEF RegisterPhone, VerifyOtp, RegisterEmail, LoginEmail, RefreshToken, Logout,
               LogoutAll
<1>16. ASSUME NEW x, Disable(x) \/ Expire(x)
       PROVE  UNCHANGED otpVars
  BY <1>16 DEF Disable, Expire
<1> QED
  BY <1>2, <1>4, <1>5, <1>6, <1>7, <1>8, <1>9, <1>10, <1>11, <1>12, <1>13, <1>14, <1>15,
     <1>16 DEF Next

LEMMA RowsStep ==
  ASSUME IInv, Next
  PROVE  RowsOK'
<1>1. /\ accounts \in SUBSET Users /\ disabled \in SUBSET Users
      /\ asked \in SUBSET Events /\ crashes \in Nat
  BY DEF IInv, RowsOK
<1>2. CASE UNCHANGED <<accounts, disabled, asked, crashes>>
  BY <1>1, <1>2 DEF RowsOK
<1>3. ASSUME NEW r \in Requests, InsertUser(r) \/ InsertEmail(r)
      PROVE  RowsOK'
  <2>1. req[r].user \in Users
    BY <1>3 DEF IInv, RequestOK, SoundRecord, InsertUser, InsertEmail, At
  <2> QED
    BY <1>1, <1>3, <2>1 DEF InsertUser, InsertEmail, RowsOK
<1>4. ASSUME NEW r \in Requests, Fail(r) PROVE RowsOK'
  BY <1>1, <1>4 DEF Fail, RowsOK
<1>5. ASSUME NEW u \in Users, Disable(u) PROVE RowsOK'
  BY <1>1, <1>5 DEF Disable, RowsOK
<1>6. ASSUME NEW r \in Requests,
             \/ CountSms(r) \/ ExpireSms(r) \/ SaveOtp(r) \/ SaveAttempts(r)
             \/ GetOtp(r) \/ Attempt(r) \/ Block(r) \/ DeleteOtp(r)
             \/ FindUser(r) \/ Issue(r) \/ ReadUser(r) \/ Rotate(r) \/ Revoke(r)
      PROVE  UNCHANGED <<accounts, disabled, asked, crashes>>
  BY <1>6 DEF CountSms, ExpireSms, SaveOtp, SaveAttempts, GetOtp, Attempt, Block, DeleteOtp,
              FindUser, Issue, ReadUser, Rotate, Revoke
<1>7. ASSUME NEW r \in Requests, NEW x,
             \/ RegisterPhone(r, x) \/ VerifyOtp(r, x) \/ RegisterEmail(r, x)
             \/ LoginEmail(r, x) \/ RefreshToken(r, x) \/ Logout(r, x) \/ LogoutAll(r, x)
      PROVE  UNCHANGED <<accounts, disabled, asked, crashes>>
  BY <1>7 DEF RegisterPhone, VerifyOtp, RegisterEmail, LoginEmail, RefreshToken, Logout,
              LogoutAll
<1>8. ASSUME NEW x, ExpireKey(x) \/ Expire(x)
      PROVE  UNCHANGED <<accounts, disabled, asked, crashes>>
  BY <1>8 DEF ExpireKey, Expire
<1> QED
  BY <1>2, <1>3, <1>4, <1>5, <1>6, <1>7, <1>8 DEF Next

LEMMA NextInvariant == IInv /\ [Next]_vars => IInv'
<1> SUFFICES ASSUME IInv, [Next]_vars PROVE IInv'
  OBVIOUS
<1>1. CASE UNCHANGED vars
  BY <1>1 DEF vars, otpVars, tokenVars, IInv, RequestOK, OtpOK, RowsOK, TokenOK, SoundRecord,
              Issued
<1>2. CASE Next
  BY <1>2, RequestStep, OtpStep, RowsStep, TokenStep DEF IInv
<1> QED
  BY <1>1, <1>2

LEMMA AuthInvariant == Spec => []IInv
BY InitInvariant, NextInvariant, PTL DEF Spec

\* Every key, row and request keeps its type, for every instance.
THEOREM AuthTypeCorrect == Spec => []TypeOK
BY AuthInvariant, InvariantTypes, PTL

-----------------------------------------------------------------------------
(* Sessions.                                                               *)

LEMMA OneLiveStep ==
  ASSUME IInv, OneLiveTokenPerSession, Next
  PROVE  OneLiveTokenPerSession'
<1> USE DEF Live
<1>1. CASE UNCHANGED <<holder, session, revoked, ended, raced>>
  BY <1>1 DEF OneLiveTokenPerSession, Issued
<1>2. ASSUME NEW u \in Users, BeginSession(u) PROVE OneLiveTokenPerSession'
  <2>1. PICK t \in Tokens :
          /\ ~Issued(t) /\ session'[t] = t
          /\ \A s \in Tokens : Issued(s) => session[s] # t
          /\ \A s \in Tokens \ {t} : holder'[s] = holder[s] /\ session'[s] = session[s]
    BY <1>2, BeginEffect
  <2>2. revoked' = revoked /\ raced' = raced
    BY <1>2 DEF BeginSession
  <2> QED
    BY <2>1, <2>2 DEF OneLiveTokenPerSession, Issued
<1>3. ASSUME NEW r \in Requests, Rotate(r) PROVE OneLiveTokenPerSession'
  <2>1. PICK old \in Tokens, new \in Tokens :
          /\ Issued(old) /\ ~Issued(new) /\ session'[new] = session[old]
          /\ \A s \in Tokens \ {new} : holder'[s] = holder[s] /\ session'[s] = session[s]
          /\ revoked' = revoked \cup {old}
          /\ old \in revoked => session[old] \in raced'
          /\ raced \subseteq raced'
    BY <1>3, RotateEffect
  \* A token that is live beside the child: the parent was revoked, or the two
  \* were live together.
  <2>2. ASSUME NEW t \in Tokens, t # new, Live(t)', session'[t] = session[old]
        PROVE  session[old] \in raced'
    <3>1. Live(t) /\ t # old /\ session[t] = session[old]
      BY <2>1, <2>2 DEF Issued
    <3> QED
      BY <2>1, <3>1 DEF OneLiveTokenPerSession
  <2>3. ASSUME NEW t1 \in Tokens, NEW t2 \in Tokens, t1 # new, t2 # new,
               Live(t1)', Live(t2)', session'[t1] = session'[t2], t1 # t2
        PROVE  session'[t1] \in raced'
    BY <2>1, <2>3 DEF OneLiveTokenPerSession, Issued
  <2> QED
    BY <2>1, <2>2, <2>3 DEF OneLiveTokenPerSession
<1>4. ASSUME NEW r \in Requests, Revoke(r) PROVE OneLiveTokenPerSession'
  <2>1. revoked \subseteq revoked' /\ raced \subseteq raced' /\ holder' = holder
        /\ session' = session
    BY <1>4, RevokeEffect
  <2> QED
    BY <2>1 DEF OneLiveTokenPerSession, Issued
<1> QED
  BY <1>1, <1>2, <1>3, <1>4, TokenChange

\* However refreshes, sign-ins and logouts interleave, a session has two live
\* tokens only if a commit revoked one that was revoked since it was read.
THEOREM OneLiveTokenAlways == Spec => []OneLiveTokenPerSession
<1>1. Init => OneLiveTokenPerSession
  BY DEF Init, OneLiveTokenPerSession, Live, Issued
<1>2. IInv /\ OneLiveTokenPerSession /\ [Next]_vars => OneLiveTokenPerSession'
  <2>1. CASE UNCHANGED vars
    BY <2>1 DEF OneLiveTokenPerSession, Live, Issued, vars, tokenVars
  <2> QED
    BY <2>1, OneLiveStep
<1> QED
  BY <1>1, <1>2, AuthInvariant, PTL DEF Spec

LEMMA EndedStep ==
  ASSUME IInv, OneLiveTokenPerSession, EndedSessionIsDead, Next
  PROVE  EndedSessionIsDead'
<1> USE DEF Live
<1>1. CASE UNCHANGED <<holder, session, revoked, ended, raced>>
  BY <1>1 DEF EndedSessionIsDead, Issued
<1>2. ASSUME NEW u \in Users, BeginSession(u) PROVE EndedSessionIsDead'
  <2>1. PICK t \in Tokens :
          /\ t \notin ended /\ session'[t] = t
          /\ \A s \in Tokens \ {t} : holder'[s] = holder[s] /\ session'[s] = session[s]
    BY <1>2, BeginEffect
  <2>2. revoked' = revoked /\ ended' = ended /\ raced' = raced
    BY <1>2 DEF BeginSession
  <2> QED
    BY <2>1, <2>2 DEF EndedSessionIsDead, Issued
<1>3. ASSUME NEW r \in Requests, Rotate(r) PROVE EndedSessionIsDead'
  <2>1. PICK old \in Tokens, new \in Tokens :
          /\ Issued(old) /\ session'[new] = session[old]
          /\ \A s \in Tokens \ {new} : holder'[s] = holder[s] /\ session'[s] = session[s]
          /\ revoked' = revoked \cup {old}
          /\ old \in revoked => session[old] \in raced'
          /\ raced \subseteq raced' /\ ended' = ended
    BY <1>3, RotateEffect
  <2>2. session[old] \in ended => session[old] \in raced'
    BY <2>1 DEF EndedSessionIsDead
  <2> QED
    BY <2>1, <2>2 DEF EndedSessionIsDead, Issued
<1>4. ASSUME NEW r \in Requests, Revoke(r) PROVE EndedSessionIsDead'
  <2>1. PICK gone \in SUBSET Tokens :
          /\ \A t \in gone : Issued(t)
          /\ revoked' = revoked \cup gone
          /\ ended' = ended \cup {session[t] : t \in gone}
          /\ raced \subseteq raced'
          /\ \A t \in gone \cap revoked : session[t] \in raced'
          /\ holder' = holder /\ session' = session
    BY <1>4, RevokeEffect
  \* A live token of a session this commit ends, other than the one it revokes:
  \* the two were live together, or the other was revoked already.
  <2>2. ASSUME NEW t \in Tokens, Live(t)', NEW g \in gone, session[t] = session[g]
        PROVE  session[t] \in raced'
    <3>1. Live(t) /\ t # g
      BY <2>1, <2>2 DEF Issued
    <3>2. CASE g \in revoked
      BY <2>1, <2>2, <3>2
    <3>3. CASE Live(g)
      BY <2>1, <2>2, <3>1, <3>3 DEF OneLiveTokenPerSession
    <3> QED
      BY <2>1, <3>2, <3>3
  <2> QED
    BY <2>1, <2>2 DEF EndedSessionIsDead, Issued
<1> QED
  BY <1>1, <1>2, <1>3, <1>4, TokenChange

\* After logout or logout_all no token of the session is live, for any number of
\* requests in flight, unless one of them raced it.
THEOREM EndedSessionAlwaysDead == Spec => []EndedSessionIsDead
<1>1. Init => EndedSessionIsDead
  BY DEF Init, EndedSessionIsDead, Live, Issued
<1>2. IInv /\ OneLiveTokenPerSession /\ EndedSessionIsDead /\ [Next]_vars
      => EndedSessionIsDead'
  <2>1. CASE UNCHANGED vars
    BY <2>1 DEF EndedSessionIsDead, Live, Issued, vars, tokenVars
  <2> QED
    BY <2>1, EndedStep
<1> QED
  BY <1>1, <1>2, AuthInvariant, OneLiveTokenAlways, PTL DEF Spec

-----------------------------------------------------------------------------
(* The rows of refresh_tokens implement SessionLifecycle.                  *)

StateOf ==
  [t \in Tokens |-> IF ~Issued(t) THEN "unissued" ELSE IF t \in revoked THEN "revoked" ELSE "live"]

LEMMA LifecycleInit == Init => Sessions!Init
BY DEF Init, Sessions!Init, Issued

LEMMA LifecycleStep ==
  ASSUME IInv, Next
  PROVE  Sessions!Next \/ UNCHANGED Sessions!vars
<1>1. session \in [Tokens -> Tokens \cup {None}] /\ session' \in [Tokens -> Tokens \cup {None}]
  BY TokenStep DEF IInv, TokenOK
<1>2. CASE UNCHANGED <<holder, session, revoked, ended, raced>>
  BY <1>2 DEF Sessions!vars, Issued
<1>3. ASSUME NEW u \in Users, BeginSession(u) PROVE Sessions!Next
  <2>1. PICK t \in Tokens :
          /\ ~Issued(t) /\ t \notin revoked /\ Issued(t)' /\ session'[t] = t
          /\ \A s \in Tokens \ {t} : holder'[s] = holder[s] /\ session'[s] = session[s]
    BY <1>3, BeginEffect
  <2>2. revoked' = revoked
    BY <1>3 DEF BeginSession
  <2>3. StateOf[t] = "unissued" /\ StateOf' = [StateOf EXCEPT ![t] = "live"]
    BY <2>1, <2>2 DEF StateOf, Issued
  <2>4. session' = [session EXCEPT ![t] = t]
    BY <1>1, <2>1
  <2>5. Sessions!SignIn(t)
    BY <2>3, <2>4 DEF Sessions!SignIn, StateOf
  <2> QED
    BY <2>5 DEF Sessions!Next
<1>4. ASSUME NEW r \in Requests, Rotate(r) PROVE Sessions!Next
  <2>1. PICK old \in Tokens, new \in Tokens :
          /\ Issued(old) /\ ~Issued(new) /\ new \notin revoked
          /\ Issued(new)' /\ session'[new] = session[old]
          /\ \A s \in Tokens \ {new} : holder'[s] = holder[s] /\ session'[s] = session[s]
          /\ revoked' = revoked \cup {old}
    BY <1>4, RotateEffect
  <2>2. StateOf[old] # "unissued" /\ StateOf[new] = "unissued"
    BY <2>1 DEF StateOf
  <2>3. StateOf' = [StateOf EXCEPT ![old] = "revoked", ![new] = "live"]
    <3>1. old # new /\ new \notin revoked' /\ old \in revoked'
      BY <2>1
    <3>2. StateOf'[new] = "live" /\ StateOf'[old] = "revoked"
      BY <2>1, <3>1 DEF StateOf, Issued
    <3>3. \A s \in Tokens \ {old, new} : StateOf'[s] = StateOf[s]
      BY <2>1 DEF StateOf, Issued
    <3>4. /\ DOMAIN StateOf' = Tokens /\ DOMAIN StateOf = Tokens
          /\ StateOf' = [s \in Tokens |-> StateOf'[s]]
      BY DEF StateOf
    <3> HIDE DEF StateOf
    <3> QED
      BY <3>1, <3>2, <3>3, <3>4
  <2>4. session' = [session EXCEPT ![new] = session[old]]
    BY <1>1, <2>1
  <2>5. Sessions!Rotate(old, new)
    BY <2>2, <2>3, <2>4 DEF Sessions!Rotate, StateOf
  <2> QED
    BY <2>5 DEF Sessions!Next
<1>5. ASSUME NEW r \in Requests, Revoke(r) PROVE Sessions!Next
  <2>1. PICK gone \in SUBSET Tokens :
          /\ \A t \in gone : Issued(t)
          /\ revoked' = revoked \cup gone
          /\ holder' = holder /\ session' = session
    BY <1>5, RevokeEffect
  <2>2. \A t \in gone : StateOf[t] # "unissued"
    BY <2>1 DEF StateOf
  <2>3. StateOf' = [t \in Tokens |-> IF t \in gone THEN "revoked" ELSE StateOf[t]]
    BY <2>1 DEF StateOf, Issued
  <2>4. Sessions!Revoke(gone)
    BY <2>1, <2>2, <2>3 DEF Sessions!Revoke, StateOf
  <2> QED
    BY <2>4 DEF Sessions!Next
<1> QED
  BY <1>2, <1>3, <1>4, <1>5, TokenChange

\* A token is drawn by a sign-in or by the rotation of another, and a revoked
\* one stays revoked, for every number of tokens and of requests in flight.
THEOREM ImplementsSessions == Spec => ImplementsSessionLifecycle
<1>1. IInv /\ [Next]_vars => [Sessions!Next]_(Sessions!vars)
  <2>1. CASE UNCHANGED vars
    BY <2>1 DEF vars, tokenVars, Sessions!vars, Issued
  <2> QED
    BY <2>1, LifecycleStep
<1> QED
  BY <1>1, LifecycleInit, AuthInvariant, PTL DEF Spec, Sessions!Spec, ImplementsSessionLifecycle

-----------------------------------------------------------------------------
(* The count of SMS.                                                       *)

\* Only ExpireSms and a crash take a request away from the second command.
LEMMA ExpireSmsStays ==
  ASSUME IInv, Next, NEW q \in Requests, At(q, "expireSms"), ~ExpireSms(q), ~Fail(q)
  PROVE  req'[q] = req[q]
<1>1. req \in [Requests -> Request]
  BY DEF IInv, RequestOK
<1>2. ASSUME NEW r \in Requests, NEW x,
             \/ RegisterPhone(r, x) \/ VerifyOtp(r, x) \/ RegisterEmail(r, x)
             \/ LoginEmail(r, x) \/ RefreshToken(r, x) \/ Logout(r, x) \/ LogoutAll(r, x)
      PROVE  req'[q] = req[q]
  <2>1. \E record : At(r, "idle") /\ req' = [req EXCEPT ![r] = record]
    BY <1>2 DEF RegisterPhone, VerifyOtp, RegisterEmail, LoginEmail, RefreshToken, Logout,
                LogoutAll, Start
  <2> QED
    BY <1>1, <2>1 DEF At
<1>3. ASSUME NEW r \in Requests,
             \/ CountSms(r) \/ ExpireSms(r) \/ SaveOtp(r) \/ SaveAttempts(r)
             \/ GetOtp(r) \/ Attempt(r) \/ Block(r) \/ DeleteOtp(r)
             \/ FindUser(r) \/ InsertUser(r) \/ InsertEmail(r) \/ Issue(r)
             \/ ReadUser(r) \/ Rotate(r) \/ Revoke(r) \/ Fail(r)
      PROVE  req'[q] = req[q]
  <2>1. r # q
    BY <1>3 DEF CountSms, ExpireSms, SaveOtp, SaveAttempts, GetOtp, Attempt, Block, DeleteOtp,
                FindUser, InsertUser, InsertEmail, Issue, ReadUser, Rotate, Revoke, At
  <2>2. \/ \E record : req' = [req EXCEPT ![r] = record]
        \/ \E pc : GoTo(r, pc)
        \/ Finish(r)
        \/ \E pc, c : req' = [req EXCEPT ![r].pc = pc, ![r].code = c]
    BY <1>3 DEF CountSms, ExpireSms, SaveOtp, SaveAttempts, GetOtp, Attempt, Block, DeleteOtp,
                FindUser, InsertUser, InsertEmail, Issue, ReadUser, Rotate, Revoke, Fail
  <2> QED
    BY <1>1, <2>1, <2>2 DEF GoTo, Finish
<1>4. ASSUME NEW x, ExpireKey(x) \/ Disable(x) \/ Expire(x)
      PROVE  req'[q] = req[q]
  BY <1>4 DEF ExpireKey, Disable, Expire
<1> QED
  BY <1>2, <1>3, <1>4 DEF Next

\* What a step can do to the counts of SMS.
LEMMA SmsChange ==
  ASSUME Next
  PROVE  \/ UNCHANGED sms
         \/ \E r \in Requests : CountSms(r) \/ ExpireSms(r)
         \/ \E p \in Phones : sms' = [sms EXCEPT ![p] = Absent]
<1>1. ASSUME NEW p \in Phones, ExpireKey(p)
      PROVE  UNCHANGED sms \/ sms' = [sms EXCEPT ![p] = Absent]
  BY <1>1 DEF ExpireKey
<1>2. ASSUME NEW r \in Requests,
             \/ SaveOtp(r) \/ SaveAttempts(r) \/ GetOtp(r) \/ Attempt(r) \/ Block(r)
             \/ DeleteOtp(r) \/ FindUser(r) \/ InsertUser(r) \/ InsertEmail(r) \/ Issue(r)
             \/ ReadUser(r) \/ Rotate(r) \/ Revoke(r) \/ Fail(r)
      PROVE  UNCHANGED sms
  BY <1>2 DEF SaveOtp, SaveAttempts, GetOtp, Attempt, Block, DeleteOtp, FindUser, InsertUser,
              InsertEmail, Issue, ReadUser, Rotate, Revoke, Fail, otpVars
<1>3. ASSUME NEW r \in Requests, NEW x,
             \/ RegisterPhone(r, x) \/ VerifyOtp(r, x) \/ RegisterEmail(r, x)
             \/ LoginEmail(r, x) \/ RefreshToken(r, x) \/ Logout(r, x) \/ LogoutAll(r, x)
      PROVE  UNCHANGED sms
  BY <1>3 DEF RegisterPhone, VerifyOtp, RegisterEmail, LoginEmail, RefreshToken, Logout,
              LogoutAll, otpVars
<1>4. ASSUME NEW x, Disable(x) \/ Expire(x)
      PROVE  UNCHANGED sms
  BY <1>4 DEF Disable, Expire, otpVars
<1> QED
  BY <1>1, <1>2, <1>3, <1>4 DEF Next

LEMMA CrashesStay ==
  ASSUME IInv, Next, ~(crashes' > 0)
  PROVE  ~(crashes > 0) /\ \A r \in Requests : ~Fail(r)
<1>1. crashes \in Nat
  BY DEF IInv, RowsOK
<1>2. crashes' = crashes \/ \E r \in Requests : Fail(r)
  BY DEF Next, RegisterPhone, VerifyOtp, RegisterEmail, LoginEmail, RefreshToken, Logout,
         LogoutAll, CountSms, ExpireSms, SaveOtp, SaveAttempts, GetOtp, Attempt, Block,
         DeleteOtp, FindUser, InsertUser, InsertEmail, Issue, ReadUser, Rotate, Revoke,
         ExpireKey, Disable, Expire
<1>3. ASSUME NEW r \in Requests, Fail(r) PROVE crashes' = crashes + 1
  BY <1>3 DEF Fail
<1> QED
  BY <1>1, <1>2, <1>3

LEMMA SmsStep ==
  ASSUME IInv, SmsCountEnds, Next
  PROVE  SmsCountEnds'
<1> SUFFICES ASSUME NEW p \in Phones, sms'[p].n > 0, sms'[p].ttl = "none", ~(crashes' > 0)
             PROVE  \E r \in Requests : req'[r].user = p /\ req'[r].pc = "expireSms"
  BY DEF SmsCountEnds, At
<1>1. sms \in [Phones -> Counter] /\ req \in [Requests -> Request]
  BY DEF IInv, OtpOK, RequestOK
<1>2. ~(crashes > 0) /\ \A r \in Requests : ~Fail(r)
  BY CrashesStay
<1>3. CASE sms[p].n > 0 /\ sms[p].ttl = "none"
  <2>1. PICK q \in Requests : req[q].user = p /\ At(q, "expireSms")
    BY <1>2, <1>3 DEF SmsCountEnds
  <2>2. ~ExpireSms(q)
    <3>1. SUFFICES ASSUME ExpireSms(q) PROVE FALSE
      OBVIOUS
    <3>2. sms' = [sms EXCEPT ![p] = [@ EXCEPT !.ttl = "covers"]]
      BY <2>1, <3>1 DEF ExpireSms
    <3>3. [sms[p] EXCEPT !.ttl = "covers"].ttl = "covers"
      BY <1>1 DEF Counter
    <3> QED
      BY <1>1, <3>2, <3>3
  <2>3. req'[q] = req[q]
    BY <1>2, <2>1, <2>2, ExpireSmsStays
  <2> QED
    BY <2>1, <2>3 DEF At
<1>4. CASE ~(sms[p].n > 0 /\ sms[p].ttl = "none")
  \* The count that appears without a time to live is one that CountSms has just
  \* made 1, and it goes on to the second command.
  <2>1. PICK r \in Requests : CountSms(r) \/ ExpireSms(r)
    <3>1. ASSUME NEW x \in Phones, sms' = [sms EXCEPT ![x] = Absent] PROVE FALSE
      BY <1>1, <1>4, <3>1 DEF Absent
    <3>2. CASE UNCHANGED sms
      BY <1>4, <3>2
    <3> QED
      BY <3>1, <3>2, SmsChange
  <2>2. req[r].user \in Phones /\ req[r].pc # "idle"
    BY <2>1 DEF IInv, RequestOK, SoundRecord, CountSms, ExpireSms, At, PC, PhonePC
  <2> DEFINE x == req[r].user
             new == Incr(sms[x], PHONE_REGISTER_MAX)
  <2>3. ~ExpireSms(r)
    <3>1. SUFFICES ASSUME ExpireSms(r) PROVE FALSE
      OBVIOUS
    <3>2. sms' = [sms EXCEPT ![x] = [@ EXCEPT !.ttl = "covers"]]
      BY <3>1 DEF ExpireSms
    <3>3. [sms[x] EXCEPT !.ttl = "covers"].ttl = "covers"
      BY <1>1, <2>2 DEF Counter
    <3> QED
      BY <1>1, <1>4, <2>2, <3>2, <3>3
  <2>4. /\ sms' = [sms EXCEPT ![x] = new]
        /\ \/ new.n = 1 /\ GoTo(r, "expireSms")
           \/ new.n > 1
           \/ new.n > PHONE_REGISTER_MAX
    BY <2>1, <2>3 DEF CountSms
  <2>5. p = x /\ new = sms'[p]
    BY <1>1, <1>4, <2>2, <2>4
  <2>6. new.ttl = sms[x].ttl /\ sms[x].n \in Nat /\ new.n \in Nat
        /\ (new.n > 1 => sms[x].n > 0)
    BY <1>1, <2>2, AuthAssumption DEF Incr, Counter
  <2> HIDE DEF new, x
  <2>7. new.ttl = "none" /\ new.n > 0
    BY <2>5
  <2>8. sms[x].ttl = "none" /\ ~(new.n > 1)
    BY <1>4, <2>5, <2>6, <2>7
  <2>9. ~(new.n > PHONE_REGISTER_MAX)
    BY <2>6, <2>8, AuthAssumption
  <2>10. GoTo(r, "expireSms")
    BY <2>4, <2>8, <2>9
  <2>11. req'[r].user = req[r].user /\ req'[r].pc = "expireSms"
    BY <1>1, <2>10 DEF GoTo, Request
  <2> QED
    BY <2>5, <2>11 DEF x
<1> QED
  BY <1>3, <1>4

\* A count of SMS that never ends is the work of a crash between its two commands,
\* whatever the limit and however many requests count together.
THEOREM SmsCountAlwaysEnds == Spec => []SmsCountEnds
<1>1. Init => SmsCountEnds
  BY DEF Init, SmsCountEnds, Absent
<1>2. IInv /\ SmsCountEnds /\ [Next]_vars => SmsCountEnds'
  <2>1. CASE UNCHANGED vars
    BY <2>1 DEF SmsCountEnds, At, vars, otpVars
  <2> QED
    BY <2>1, SmsStep
<1> QED
  BY <1>1, <1>2, AuthInvariant, PTL DEF Spec

-----------------------------------------------------------------------------
(* The code of a phone: what a step can do to the keys of one number and to *)
(* the requests that work on them.                                          *)

Busy == {"attempt", "block", "deleteOtp"}

\* A verification that has read the stored code and not deleted it yet.
Holds(r, p) ==
  /\ req[r].pc \in {"attempt", "deleteOtp"}
  /\ otp[p] # None /\ req[r].code = otp[p]

KeysStay(p) == otp'[p] = otp[p] /\ attempts'[p] = attempts[p] /\ use'[p] = use[p]

OthersStay(r) == \A q \in Requests \ {r} : req'[q] = req[q]

KeyAction(r) ==
  SaveOtp(r) \/ SaveAttempts(r) \/ GetOtp(r) \/ Attempt(r) \/ Block(r) \/ DeleteOtp(r)

\* Every other step leaves the keys, the blocks and the verifications alone.
LEMMA QuietStep ==
  ASSUME IInv, Next, \A r \in Requests : ~KeyAction(r) /\ ~Fail(r),
         \A p \in Phones : ~ExpireKey(p)
  PROVE  /\ UNCHANGED <<otp, attempts, blocked, use>>
         /\ \A q \in Requests :
              req'[q] = req[q] \/ (req[q].pc \notin Busy /\ req'[q].pc \notin Busy)
<1>1. req \in [Requests -> Request]
  BY DEF IInv, RequestOK
<1>2. ASSUME NEW r \in Requests, NEW x,
             \/ RegisterPhone(r, x) \/ VerifyOtp(r, x) \/ RegisterEmail(r, x)
             \/ LoginEmail(r, x) \/ RefreshToken(r, x) \/ Logout(r, x) \/ LogoutAll(r, x)
      PROVE  /\ UNCHANGED <<otp, attempts, blocked, use>>
             /\ \A q \in Requests :
                  req'[q] = req[q] \/ (req[q].pc \notin Busy /\ req'[q].pc \notin Busy)
  <2>1. UNCHANGED <<otp, attempts, blocked, use>>
    BY <1>2 DEF RegisterPhone, VerifyOtp, RegisterEmail, LoginEmail, RefreshToken, Logout,
                LogoutAll, otpVars
  <2>2. \E u, gone : \E pc \in PC \ Busy :
          /\ req[r].pc = "idle"
          /\ \/ req' = [req EXCEPT ![r] = [Idle EXCEPT !.pc = pc, !.user = u]]
             \/ req' = [req EXCEPT ![r] = [Idle EXCEPT !.pc = pc, !.user = u, !.tokens = gone]]
    BY <1>2 DEF RegisterPhone, VerifyOtp, RegisterEmail, LoginEmail, RefreshToken, Logout,
                LogoutAll, Start, At, PC, Busy
  <2>3. req[r].pc \notin Busy /\ req'[r].pc \notin Busy /\ OthersStay(r)
    BY <1>1, <2>2 DEF Idle, Busy, OthersStay
  <2> QED
    BY <2>1, <2>3 DEF OthersStay
<1>3. ASSUME NEW r \in Requests,
             \/ CountSms(r) \/ ExpireSms(r) \/ FindUser(r) \/ InsertUser(r) \/ InsertEmail(r)
             \/ Issue(r) \/ ReadUser(r) \/ Rotate(r) \/ Revoke(r)
      PROVE  /\ UNCHANGED <<otp, attempts, blocked, use>>
             /\ \A q \in Requests :
                  req'[q] = req[q] \/ (req[q].pc \notin Busy /\ req'[q].pc \notin Busy)
  <2>1. UNCHANGED <<otp, attempts, blocked, use>>
    BY <1>3 DEF CountSms, ExpireSms, FindUser, InsertUser, InsertEmail, Issue, ReadUser,
                Rotate, Revoke, otpVars
  <2>2. req[r].pc \notin Busy
    BY <1>3 DEF CountSms, ExpireSms, FindUser, InsertUser, InsertEmail, Issue, ReadUser,
                Rotate, Revoke, At, Busy
  <2>3. Finish(r) \/ \E pc \in PC \ Busy : GoTo(r, pc)
    BY <1>3 DEF CountSms, ExpireSms, FindUser, InsertUser, InsertEmail, Issue, ReadUser,
                Rotate, Revoke, PC, Busy
  <2>4. req'[r].pc \notin Busy /\ OthersStay(r)
    BY <1>1, <2>3 DEF Finish, GoTo, Idle, Request, Busy, OthersStay
  <2> QED
    BY <2>1, <2>2, <2>4 DEF OthersStay
<1>4. ASSUME NEW x, Disable(x) \/ Expire(x)
      PROVE  UNCHANGED <<otp, attempts, blocked, use, req>>
  BY <1>4 DEF Disable, Expire, otpVars
<1> QED
  BY <1>2, <1>3, <1>4 DEF Next, KeyAction

\* The phone of a request that works on its keys.
LEMMA KeyPhone ==
  ASSUME IInv, NEW r \in Requests, KeyAction(r) \/ (Fail(r) /\ At(r, "deleteOtp"))
  PROVE  req[r].user \in Phones
BY DEF IInv, RequestOK, SoundRecord, KeyAction, SaveOtp, SaveAttempts, GetOtp, Attempt, Block,
       DeleteOtp, At, PC, PhonePC

LEMMA SaveOtpEffect ==
  ASSUME IInv, NEW r \in Requests, SaveOtp(r), NEW p, p = req[r].user
  PROVE  /\ \E c \in Codes :
              /\ \A x \in Phones : otp[x] # c
              /\ \A q \in Requests : req[q].code # c
              /\ otp'[p] = c
         /\ use'[p] = NewUse
         /\ \A x \in Phones \ {p} : KeysStay(x)
         /\ req[r].pc \notin Busy /\ req'[r].pc \notin Busy /\ OthersStay(r)
         /\ blocked' = blocked
<1>1. /\ otp \in [Phones -> Codes \cup {None}] /\ attempts \in [Phones -> Counter]
      /\ use \in [Phones -> Use] /\ req \in [Requests -> Request] /\ p \in Phones
  BY KeyPhone DEF IInv, OtpOK, RequestOK, KeyAction
<1>2. PICK c \in FreshCodes :
        /\ otp' = [otp EXCEPT ![p] = c]
        /\ req' = [req EXCEPT ![r].pc = "saveAttempts", ![r].code = c]
  BY DEF SaveOtp
<1>3. use' = [use EXCEPT ![p] = NewUse] /\ blocked' = blocked
      /\ \E a : attempts' = [attempts EXCEPT ![p] = a]
  BY DEF SaveOtp
<1>4. otp'[p] = c /\ use'[p] = NewUse /\ \A x \in Phones \ {p} : KeysStay(x)
  BY <1>1, <1>2, <1>3 DEF KeysStay
<1>5. req[r].pc \notin Busy /\ req'[r].pc \notin Busy /\ OthersStay(r)
  BY <1>1, <1>2 DEF SaveOtp, At, Busy, Request, OthersStay
<1> QED
  BY <1>2, <1>3, <1>4, <1>5 DEF FreshCodes

LEMMA SaveAttemptsEffect ==
  ASSUME IInv, NEW r \in Requests, SaveAttempts(r), NEW p, p = req[r].user
  PROVE  /\ otp' = otp /\ attempts'[p].n = 0 /\ attempts'[p].ttl = "covers"
         /\ use'[p].torn = (use[p].tries # 0) /\ use'[p].tries = use[p].tries
         /\ use'[p].accepted = use[p].accepted /\ use'[p].exposed = use[p].exposed
         /\ \A x \in Phones \ {p} : KeysStay(x)
         /\ req[r].pc \notin Busy /\ req'[r].pc \notin Busy /\ OthersStay(r)
         /\ blocked' = blocked
<1>1. /\ otp \in [Phones -> Codes \cup {None}] /\ attempts \in [Phones -> Counter]
      /\ use \in [Phones -> Use] /\ req \in [Requests -> Request] /\ p \in Phones
  BY KeyPhone DEF IInv, OtpOK, RequestOK, KeyAction
<1>2. req[r].pc \notin Busy /\ req'[r].pc \notin Busy /\ OthersStay(r)
  BY <1>1 DEF SaveAttempts, Finish, Idle, At, Busy, OthersStay
<1>3. /\ attempts' = [attempts EXCEPT ![p] = [n |-> 0, ttl |-> "covers"]]
      /\ use' = [use EXCEPT ![p] = [@ EXCEPT !.torn = use[p].tries # 0]]
      /\ UNCHANGED <<otp, blocked>>
  BY DEF SaveAttempts
<1>4. attempts'[p].n = 0 /\ attempts'[p].ttl = "covers" /\ \A x \in Phones \ {p} : KeysStay(x)
  BY <1>1, <1>3 DEF KeysStay
<1>5. use'[p] = [use[p] EXCEPT !.torn = use[p].tries # 0]
  BY <1>1, <1>3
<1>6. /\ use'[p].torn = (use[p].tries # 0) /\ use'[p].tries = use[p].tries
      /\ use'[p].accepted = use[p].accepted /\ use'[p].exposed = use[p].exposed
  BY <1>1, <1>5 DEF Use
<1> QED
  BY <1>2, <1>3, <1>4, <1>6

LEMMA GetOtpEffect ==
  ASSUME IInv, NEW r \in Requests, GetOtp(r), NEW p, p = req[r].user
  PROVE  /\ UNCHANGED <<otp, attempts, blocked>>
         /\ \A x \in Phones \ {p} : KeysStay(x)
         /\ req[r].pc \notin Busy /\ OthersStay(r)
         /\ \/ /\ use' = use /\ req'[r].pc \notin Busy
            \/ /\ otp[p] # None
               /\ use'[p].torn = use[p].torn /\ use'[p].tries = use[p].tries
               /\ use'[p].accepted = use[p].accepted
               /\ ~use'[p].exposed
                  => ~use[p].exposed /\ \A q \in Requests \ {r} : ~Holds(q, p)
               /\ req'[r].pc = "attempt" /\ req'[r].code = otp[p] /\ req'[r].user = p
<1>1. /\ otp \in [Phones -> Codes \cup {None}] /\ attempts \in [Phones -> Counter]
      /\ use \in [Phones -> Use] /\ req \in [Requests -> Request] /\ p \in Phones
  BY KeyPhone DEF IInv, OtpOK, RequestOK, KeyAction
<1> DEFINE seen == \E q \in Requests \ {r} :
                      req[q].pc \in {"attempt", "deleteOtp"} /\ req[q].code = otp[p]
           more == use[p].exposed \/ seen
<1>2. UNCHANGED <<otp, attempts, blocked>> /\ req[r].pc \notin Busy
  BY DEF GetOtp, At, Busy
<1>3. CASE otp[p] = None
  <2>1. Finish(r) /\ use' = use
    BY <1>3 DEF GetOtp
  <2>2. req'[r].pc \notin Busy /\ OthersStay(r)
    BY <1>1, <2>1 DEF Finish, Idle, Busy, OthersStay
  <2> QED
    BY <1>2, <2>1, <2>2 DEF KeysStay
<1>4. CASE otp[p] # None
  <2>1. /\ req' = [req EXCEPT ![r].pc = "attempt", ![r].code = otp[p]]
        /\ use' = [use EXCEPT ![p] = [@ EXCEPT !.exposed = more]]
    BY <1>4 DEF GetOtp
  <2>2. /\ req'[r].pc = "attempt" /\ req'[r].code = otp[p] /\ req'[r].user = p
        /\ OthersStay(r)
    BY <1>1, <2>1 DEF Request, OthersStay
  <2>3. /\ more \in BOOLEAN
        /\ ~more => ~use[p].exposed /\ \A q \in Requests \ {r} : ~Holds(q, p)
    BY <1>1 DEF Use, Holds
  <2> HIDE DEF more
  <2>4. use'[p] = [use[p] EXCEPT !.exposed = more] /\ \A x \in Phones \ {p} : KeysStay(x)
    BY <1>1, <1>2, <2>1 DEF KeysStay
  <2>5. /\ use'[p].torn = use[p].torn /\ use'[p].tries = use[p].tries
        /\ use'[p].accepted = use[p].accepted /\ use'[p].exposed = more
    BY <1>1, <2>4 DEF Use
  <2> QED
    BY <1>2, <1>4, <2>2, <2>3, <2>4, <2>5
<1> QED
  BY <1>3, <1>4

\* The n-th try of the stored code, and where its request goes.
LEMMA AttemptEffect ==
  ASSUME IInv, NEW r \in Requests, Attempt(r), NEW p, p = req[r].user
  PROVE  \E n \in Nat, right \in BOOLEAN :
           /\ attempts'[p].n = n /\ attempts'[p].ttl = attempts[p].ttl
           /\ n = attempts[p].n + 1 \/ (n = attempts[p].n /\ n > OTP_MAX_ATTEMPTS)
           /\ UNCHANGED <<otp, blocked>>
           /\ \A x \in Phones \ {p} : KeysStay(x)
           /\ req[r].pc = "attempt" /\ OthersStay(r)
           /\ \/ /\ ~(n <= OTP_MAX_ATTEMPTS /\ otp[p] = req[r].code)
                 /\ use' = use
              \/ /\ n <= OTP_MAX_ATTEMPTS /\ otp[p] = req[r].code
                 /\ use'[p].torn = use[p].torn /\ use'[p].exposed = use[p].exposed
                 /\ use'[p].tries = use[p].tries + 1
                 /\ use'[p].accepted = use[p].accepted + (IF right THEN 1 ELSE 0)
           /\ \/ /\ Accepts(n, right) /\ req'[r].pc = "deleteOtp"
                 /\ req'[r].user = p /\ req'[r].code = req[r].code
              \/ /\ Blocks(n, right) /\ req'[r].pc = "block" /\ req'[r].user = p
              \/ /\ ~Accepts(n, right) /\ ~Blocks(n, right) /\ req'[r].pc \notin Busy
<1>1. /\ otp \in [Phones -> Codes \cup {None}] /\ attempts \in [Phones -> Counter]
      /\ use \in [Phones -> Use] /\ req \in [Requests -> Request] /\ p \in Phones
  BY KeyPhone DEF IInv, OtpOK, RequestOK, KeyAction
<1> DEFINE counter == Incr(attempts[p], OTP_MAX_ATTEMPTS)
           n == counter.n
<1>2. PICK right \in BOOLEAN :
        /\ use' = TriedOnce(r, n, right)
        /\ \/ Accepts(n, right) /\ GoTo(r, "deleteOtp")
           \/ Blocks(n, right) /\ GoTo(r, "block")
           \/ ~Accepts(n, right) /\ ~Blocks(n, right) /\ Finish(r)
  BY DEF Attempt
<1>3. /\ n \in Nat /\ counter.ttl = attempts[p].ttl
      /\ n = attempts[p].n + 1 \/ (n = attempts[p].n /\ n > OTP_MAX_ATTEMPTS)
  BY <1>1 DEF Incr, Counter
<1>4. /\ attempts' = [attempts EXCEPT ![p] = counter]
      /\ UNCHANGED <<otp, blocked>> /\ req[r].pc = "attempt"
  BY DEF Attempt, At
<1>5. attempts'[p] = counter
  BY <1>1, <1>4
<1>6. attempts'[p].n = n /\ attempts'[p].ttl = attempts[p].ttl
  BY <1>3, <1>5
<1> HIDE DEF n, counter
<1> DEFINE tried == [use[p] EXCEPT !.tries = use[p].tries + 1,
                                   !.accepted = use[p].accepted + (IF right THEN 1 ELSE 0)]
<1>7. /\ tried.torn = use[p].torn /\ tried.exposed = use[p].exposed
      /\ tried.tries = use[p].tries + 1
      /\ tried.accepted = use[p].accepted + (IF right THEN 1 ELSE 0)
  BY <1>1 DEF Use
<1>8. \/ /\ ~(n <= OTP_MAX_ATTEMPTS /\ otp[p] = req[r].code)
         /\ use' = use
      \/ /\ n <= OTP_MAX_ATTEMPTS /\ otp[p] = req[r].code
         /\ use' = [use EXCEPT ![p] = tried]
  BY <1>2 DEF TriedOnce
<1> HIDE DEF tried
<1>9. \A x \in Phones \ {p} : KeysStay(x)
  BY <1>1, <1>4, <1>8 DEF KeysStay
<1>10. use' = use \/ use'[p] = tried
  BY <1>1, <1>8
<1>11. /\ OthersStay(r)
       /\ \/ /\ Accepts(n, right) /\ req'[r].pc = "deleteOtp"
             /\ req'[r].user = p /\ req'[r].code = req[r].code
          \/ /\ Blocks(n, right) /\ req'[r].pc = "block" /\ req'[r].user = p
          \/ /\ ~Accepts(n, right) /\ ~Blocks(n, right) /\ req'[r].pc \notin Busy
  BY <1>1, <1>2 DEF GoTo, Finish, Idle, Request, Busy, OthersStay
<1>12. \/ /\ ~(n <= OTP_MAX_ATTEMPTS /\ otp[p] = req[r].code)
          /\ use' = use
       \/ /\ n <= OTP_MAX_ATTEMPTS /\ otp[p] = req[r].code
          /\ use'[p].torn = use[p].torn /\ use'[p].exposed = use[p].exposed
          /\ use'[p].tries = use[p].tries + 1
          /\ use'[p].accepted = use[p].accepted + (IF right THEN 1 ELSE 0)
  BY <1>1, <1>7, <1>8
<1> QED
  BY <1>3, <1>4, <1>6, <1>9, <1>11, <1>12

LEMMA BlockEffect ==
  ASSUME IInv, NEW r \in Requests, Block(r)
  PROVE  /\ UNCHANGED <<otp, attempts, use>>
         /\ blocked' = blocked \cup {req[r].user}
         /\ req[r].pc = "block" /\ req'[r].pc \notin Busy /\ OthersStay(r)
BY DEF Block, IInv, RequestOK, Finish, Idle, At, Busy, OthersStay

LEMMA DeleteOtpEffect ==
  ASSUME IInv, NEW r \in Requests, DeleteOtp(r), NEW p, p = req[r].user
  PROVE  /\ otp'[p] = None /\ use'[p] = NewUse
         /\ \A x \in Phones \ {p} : KeysStay(x)
         /\ req[r].pc = "deleteOtp" /\ req'[r].pc \notin Busy /\ OthersStay(r)
         /\ blocked' = blocked
<1>1. /\ otp \in [Phones -> Codes \cup {None}] /\ attempts \in [Phones -> Counter]
      /\ use \in [Phones -> Use] /\ req \in [Requests -> Request] /\ p \in Phones
  BY KeyPhone DEF IInv, OtpOK, RequestOK, KeyAction
<1>2. req' = [req EXCEPT ![r].pc = "findUser", ![r].code = None] /\ req[r].pc = "deleteOtp"
  BY DEF DeleteOtp, At
<1>3. req'[r].pc \notin Busy /\ OthersStay(r)
  BY <1>1, <1>2 DEF Request, Busy, OthersStay
<1> QED
  BY <1>1, <1>2, <1>3 DEF DeleteOtp, KeysStay

\* The death of a request that had accepted a code leaves the code exposed.
LEMMA FailEffect ==
  ASSUME IInv, NEW r \in Requests, Fail(r)
  PROVE  /\ UNCHANGED <<otp, attempts, blocked>>
         /\ req'[r].pc \notin Busy /\ OthersStay(r)
         /\ \/ use' = use /\ req[r].pc # "deleteOtp"
            \/ /\ req[r].pc = "deleteOtp" /\ req[r].user \in Phones
               /\ use' = [use EXCEPT ![req[r].user] = [@ EXCEPT !.exposed = TRUE]]
<1>1. req \in [Requests -> Request]
  BY DEF IInv, RequestOK
<1>2. req'[r].pc \notin Busy /\ OthersStay(r)
  BY <1>1 DEF Fail, Finish, Idle, Busy, OthersStay
<1>3. req[r].pc = "deleteOtp" => req[r].user \in Phones
  BY KeyPhone DEF At
<1> QED
  BY <1>2, <1>3 DEF Fail, At

\* Time passes over a number: its code goes, or its count (while no code that it
\* covers is stored), or its block (once no code is stored).
LEMMA ExpireKeyEffect ==
  ASSUME IInv, NEW p \in Phones, ExpireKey(p)
  PROVE  /\ req' = req
         /\ \A x \in Phones \ {p} : KeysStay(x) /\ (x \in blocked => x \in blocked')
         /\ \/ otp'[p] = None /\ use'[p] = NewUse
            \/ /\ otp'[p] = otp[p] /\ use'[p] = use[p] /\ blocked' = blocked
               /\ \/ attempts'[p] = attempts[p]
                  \/ otp[p] = None \/ attempts[p].ttl # "covers"
            \/ otp'[p] = None /\ otp[p] = None /\ use'[p] = use[p]
<1>1. /\ otp \in [Phones -> Codes \cup {None}] /\ attempts \in [Phones -> Counter]
      /\ use \in [Phones -> Use]
  BY DEF IInv, OtpOK
<1>2. req' = req
  BY DEF ExpireKey
<1>3. \/ /\ otp' = [otp EXCEPT ![p] = None] /\ use' = [use EXCEPT ![p] = NewUse]
         /\ UNCHANGED <<attempts, blocked>>
      \/ /\ otp[p] = None \/ attempts[p].ttl # "covers"
         /\ attempts' = [attempts EXCEPT ![p] = Absent]
         /\ UNCHANGED <<otp, blocked, use>>
      \/ UNCHANGED <<otp, attempts, blocked, use>>
      \/ /\ otp[p] = None /\ blocked' = blocked \ {p}
         /\ UNCHANGED <<otp, attempts, use>>
  BY DEF ExpireKey
<1>4. CASE /\ otp' = [otp EXCEPT ![p] = None] /\ use' = [use EXCEPT ![p] = NewUse]
           /\ UNCHANGED <<attempts, blocked>>
  BY <1>1, <1>2, <1>4 DEF KeysStay
<1>5. CASE /\ otp[p] = None \/ attempts[p].ttl # "covers"
           /\ attempts' = [attempts EXCEPT ![p] = Absent]
           /\ UNCHANGED <<otp, blocked, use>>
  BY <1>1, <1>2, <1>5 DEF KeysStay
<1>6. CASE UNCHANGED <<otp, attempts, blocked, use>>
  BY <1>2, <1>6 DEF KeysStay
<1>7. CASE /\ otp[p] = None /\ blocked' = blocked \ {p}
           /\ UNCHANGED <<otp, attempts, use>>
  BY <1>2, <1>7 DEF KeysStay
<1> QED
  BY <1>3, <1>4, <1>5, <1>6, <1>7

\* While a code is stored whose count of tries was reset, the count outlasts the
\* code, and no try of it went uncounted.
CountCovers ==
  \A p \in Phones :
    otp[p] # None /\ ~use[p].torn =>
      /\ attempts[p].ttl = "covers"
      /\ use[p].tries <= attempts[p].n /\ use[p].tries <= OTP_MAX_ATTEMPTS

LEMMA CountStaysWithKeys ==
  ASSUME IInv, CountCovers, NEW p \in Phones, KeysStay(p), otp'[p] # None, ~use'[p].torn
  PROVE  /\ attempts'[p].ttl = "covers"
         /\ use'[p].tries <= attempts'[p].n /\ use'[p].tries <= OTP_MAX_ATTEMPTS
BY DEF KeysStay, CountCovers

LEMMA CountStep ==
  ASSUME IInv, CountCovers, Next
  PROVE  CountCovers'
<1> SUFFICES ASSUME NEW p \in Phones, otp'[p] # None, ~use'[p].torn
             PROVE  /\ attempts'[p].ttl = "covers"
                    /\ use'[p].tries <= attempts'[p].n /\ use'[p].tries <= OTP_MAX_ATTEMPTS
  BY DEF CountCovers
<1>1. attempts[p] \in Counter /\ use[p] \in Use /\ OTP_MAX_ATTEMPTS \in Nat
  BY AuthAssumption DEF IInv, OtpOK
<1>2. NewUse.torn
  BY DEF NewUse
<1>3. CASE KeysStay(p)
  BY <1>3, CountStaysWithKeys
<1>4. ASSUME NEW r \in Requests, KeyAction(r), ~KeysStay(p)
      PROVE  /\ attempts'[p].ttl = "covers"
             /\ use'[p].tries <= attempts'[p].n /\ use'[p].tries <= OTP_MAX_ATTEMPTS
  <2>1. CASE SaveOtp(r)
    BY <1>2, <1>4, <2>1, SaveOtpEffect
  <2>2. CASE SaveAttempts(r)
    <3>1. p = req[r].user
      BY <1>4, <2>2, SaveAttemptsEffect
    <3>2. /\ attempts'[p].n = 0 /\ attempts'[p].ttl = "covers"
          /\ use'[p].torn = (use[p].tries # 0) /\ use'[p].tries = use[p].tries
      BY <2>2, <3>1, SaveAttemptsEffect
    <3>3. use[p].tries = 0
      BY <3>2
    <3> QED
      BY <1>1, <3>2, <3>3
  <2>3. CASE GetOtp(r)
    <3>1. p = req[r].user
      BY <1>4, <2>3, GetOtpEffect
    <3>2. /\ attempts' = attempts /\ otp' = otp
          /\ use'[p].torn = use[p].torn /\ use'[p].tries = use[p].tries
      BY <2>3, <3>1, GetOtpEffect
    <3> QED
      BY <3>2 DEF CountCovers
  <2>4. CASE Attempt(r)
    <3>1. p = req[r].user
      BY <1>4, <2>4, AttemptEffect
    <3>2. PICK n \in Nat :
            /\ attempts'[p].n = n /\ attempts'[p].ttl = attempts[p].ttl
            /\ n = attempts[p].n + 1 \/ n = attempts[p].n
            /\ otp' = otp
            /\ \/ use' = use
               \/ /\ n <= OTP_MAX_ATTEMPTS /\ n = attempts[p].n + 1
                  /\ use'[p].torn = use[p].torn /\ use'[p].tries = use[p].tries + 1
      <4>1. attempts[p].n \in Nat
        BY <1>1 DEF Counter
      <4> QED
        BY <1>1, <2>4, <3>1, <4>1, AttemptEffect
    <3>3. /\ attempts[p].ttl = "covers"
          /\ use[p].tries <= attempts[p].n /\ use[p].tries <= OTP_MAX_ATTEMPTS
      BY <3>2 DEF CountCovers
    <3>4. use[p].tries \in Nat /\ attempts[p].n \in Nat
      BY <1>1 DEF Use, Counter
    <3> QED
      BY <1>1, <3>2, <3>3, <3>4
  <2>5. CASE Block(r)
    BY <1>4, <2>5, BlockEffect DEF KeysStay
  <2>6. CASE DeleteOtp(r)
    BY <1>4, <2>6, DeleteOtpEffect
  <2> QED
    BY <1>4, <2>1, <2>2, <2>3, <2>4, <2>5, <2>6 DEF KeyAction
<1>5. ASSUME NEW r \in Requests, Fail(r)
      PROVE  /\ attempts'[p].ttl = "covers"
             /\ use'[p].tries <= attempts'[p].n /\ use'[p].tries <= OTP_MAX_ATTEMPTS
  <2>1. otp' = otp /\ attempts' = attempts
    BY <1>5, FailEffect
  <2>2. use'[p] = use[p] \/ use'[p] = [use[p] EXCEPT !.exposed = TRUE]
    BY <1>5, FailEffect DEF IInv, OtpOK
  <2>3. use'[p].torn = use[p].torn /\ use'[p].tries = use[p].tries
    BY <1>1, <2>2 DEF Use
  <2> QED
    BY <2>1, <2>3 DEF CountCovers
<1>6. ASSUME NEW x \in Phones, ExpireKey(x), ~KeysStay(p)
      PROVE  /\ attempts'[p].ttl = "covers"
             /\ use'[p].tries <= attempts'[p].n /\ use'[p].tries <= OTP_MAX_ATTEMPTS
  BY <1>6, ExpireKeyEffect DEF CountCovers, KeysStay
<1>7. CASE UNCHANGED <<otp, attempts, blocked, use>>
  BY <1>7, <1>3 DEF KeysStay
<1> QED
  BY <1>3, <1>4, <1>5, <1>6, <1>7, QuietStep

LEMMA CountInvariant == Spec => []CountCovers
<1>1. Init => CountCovers
  BY DEF Init, CountCovers
<1>2. IInv /\ CountCovers /\ [Next]_vars => CountCovers'
  <2>1. CASE UNCHANGED vars
    BY <2>1 DEF CountCovers, vars, otpVars
  <2> QED
    BY <2>1, CountStep
<1> QED
  BY <1>1, <1>2, AuthInvariant, PTL DEF Spec

\* Never more than OTP_MAX_ATTEMPTS tries of one code, whatever the limit and
\* however many verifications interleave, unless its count was not reset with it.
THEOREM TriesAlwaysPerCode == Spec => []TriesArePerCode
<1>1. CountCovers => TriesArePerCode
  BY DEF CountCovers, TriesArePerCode
<1> QED
  BY <1>1, CountInvariant, PTL

\* A request that blocks a phone or deletes its code is taken from it only by doing so,
\* or by dying.
LEMMA ClosingStays ==
  ASSUME IInv, Next, NEW q \in Requests, req[q].pc \in {"block", "deleteOtp"},
         ~Block(q), ~DeleteOtp(q), ~Fail(q)
  PROVE  req'[q] = req[q]
<1>1. ASSUME NEW r \in Requests, KeyAction(r) PROVE req'[q] = req[q]
  <2>1. CASE r = q
    BY <1>1, <2>1 DEF KeyAction, SaveOtp, SaveAttempts, GetOtp, Attempt, At
  <2>2. CASE r # q
    <3>1. OthersStay(r)
      BY <1>1, SaveOtpEffect, SaveAttemptsEffect, GetOtpEffect, AttemptEffect, BlockEffect,
         DeleteOtpEffect DEF KeyAction
    <3> QED
      BY <2>2, <3>1 DEF OthersStay
  <2> QED
    BY <2>1, <2>2
<1>2. ASSUME NEW r \in Requests, Fail(r) PROVE req'[q] = req[q]
  BY <1>2, FailEffect DEF OthersStay
<1>3. ASSUME NEW p \in Phones, ExpireKey(p) PROVE req'[q] = req[q]
  BY <1>3, ExpireKeyEffect
<1> QED
  BY <1>1, <1>2, <1>3, QuietStep DEF Busy

UsedUp(p) == otp[p] # None /\ ~use[p].torn /\ use[p].tries >= OTP_MAX_ATTEMPTS

Closing(p) == \E r \in Requests : req[r].user = p /\ req[r].pc \in {"block", "deleteOtp"}

\* The code was used up already: what blocks it or deletes it goes on.
LEMMA UsedUpStays ==
  ASSUME IInv, Next, NEW p \in Phones, otp[p] # None, otp'[p] # None,
         \A r \in Requests : ~Fail(r), p \in blocked \/ Closing(p)
  PROVE  p \in blocked' \/ Closing(p)'
<1>1. ASSUME p \in blocked PROVE p \in blocked'
  <2>1. ASSUME NEW r \in Requests, KeyAction(r) PROVE p \in blocked'
    BY <1>1, <2>1, SaveOtpEffect, SaveAttemptsEffect, GetOtpEffect, AttemptEffect, BlockEffect,
       DeleteOtpEffect DEF KeyAction
  <2>2. ASSUME NEW x \in Phones, ExpireKey(x) PROVE p \in blocked'
    BY <1>1, <2>2 DEF ExpireKey
  <2> QED
    BY <1>1, <2>1, <2>2, QuietStep
<1>2. ASSUME NEW q \in Requests, req[q].user = p, req[q].pc \in {"block", "deleteOtp"}
      PROVE  p \in blocked' \/ Closing(p)'
  <2>1. CASE Block(q)
    BY <1>2, <2>1, BlockEffect
  <2>2. ~DeleteOtp(q)
    BY <1>2, DeleteOtpEffect
  <2>3. ASSUME ~Block(q) PROVE Closing(p)'
    <3>1. req'[q] = req[q]
      BY <1>2, <2>2, <2>3, ClosingStays
    <3> QED
      BY <1>2, <3>1 DEF Closing
  <2> QED
    BY <2>1, <2>3
<1> QED
  BY <1>1, <1>2 DEF Closing

\* The try that uses the code up: the last one allowed, whose request blocks the phone
\* when it was wrong and deletes the code when it was right.
LEMMA LastTryCloses ==
  ASSUME IInv, CountCovers, NEW r \in Requests, Attempt(r), NEW p \in Phones, p = req[r].user,
         UsedUp(p)', ~UsedUp(p)
  PROVE  Closing(p)'
<1>1. PICK n \in Nat, right \in BOOLEAN :
        /\ attempts'[p].n = n
        /\ n = attempts[p].n + 1 \/ (n = attempts[p].n /\ n > OTP_MAX_ATTEMPTS)
        /\ otp' = otp
        /\ \/ use' = use
           \/ /\ n <= OTP_MAX_ATTEMPTS
              /\ use'[p].torn = use[p].torn
              /\ use'[p].tries = use[p].tries + 1
        /\ \/ Accepts(n, right) /\ req'[r].pc = "deleteOtp" /\ req'[r].user = p
           \/ Blocks(n, right) /\ req'[r].pc = "block" /\ req'[r].user = p
           \/ ~Accepts(n, right) /\ ~Blocks(n, right)
  BY AttemptEffect
<1>2. /\ n <= OTP_MAX_ATTEMPTS /\ use'[p].torn = use[p].torn
      /\ use'[p].tries = use[p].tries + 1
  BY <1>1 DEF UsedUp
<1>3. use[p].tries <= attempts[p].n
  BY <1>1, <1>2 DEF CountCovers, UsedUp
<1>4. /\ use[p].tries \in Nat /\ attempts[p].n \in Nat /\ OTP_MAX_ATTEMPTS \in Nat
      /\ use'[p].tries >= OTP_MAX_ATTEMPTS
  BY AuthAssumption DEF IInv, OtpOK, Use, Counter, UsedUp
<1>5. n = OTP_MAX_ATTEMPTS
  BY <1>1, <1>2, <1>3, <1>4
<1>6. Accepts(n, right) \/ Blocks(n, right)
  BY <1>4, <1>5 DEF Accepts, Blocks
<1> QED
  BY <1>1, <1>6 DEF Closing

LEMMA UsedUpStep ==
  ASSUME IInv, CountCovers, UsedUpCodeIsBlocked, Next
  PROVE  UsedUpCodeIsBlocked'
<1> SUFFICES ASSUME NEW p \in Phones, UsedUp(p)', ~(crashes' > 0)
             PROVE  p \in blocked' \/ Closing(p)'
  BY DEF UsedUpCodeIsBlocked, UsedUp, Closing
<1>1. ~(crashes > 0) /\ \A r \in Requests : ~Fail(r)
  BY CrashesStay
<1>2. CASE UsedUp(p)
  <2>1. p \in blocked \/ Closing(p)
    BY <1>1, <1>2 DEF UsedUpCodeIsBlocked, UsedUp, Closing
  <2> QED
    BY <1>1, <1>2, <2>1, UsedUpStays DEF UsedUp
<1>3. ASSUME ~UsedUp(p) PROVE Closing(p)'
  <2>1. ASSUME NEW r \in Requests, KeyAction(r), ~Attempt(r) PROVE FALSE
    <3>1. CASE SaveOtp(r)
      BY <1>3, <3>1, SaveOtpEffect DEF UsedUp, KeysStay, NewUse
    <3>2. CASE SaveAttempts(r)
      <4>1. p = req[r].user
        BY <1>3, <3>2, SaveAttemptsEffect DEF UsedUp, KeysStay
      <4>2. use'[p].torn = (use[p].tries # 0) /\ use'[p].tries = use[p].tries
        BY <3>2, <4>1, SaveAttemptsEffect
      <4>3. use[p].tries >= OTP_MAX_ATTEMPTS /\ ~(use[p].tries # 0)
        BY <4>2 DEF UsedUp
      <4> QED
        BY <4>3, AuthAssumption
    <3>3. CASE GetOtp(r)
      BY <1>3, <3>3, GetOtpEffect DEF UsedUp, KeysStay
    <3>4. CASE Block(r)
      BY <1>3, <3>4, BlockEffect DEF UsedUp
    <3>5. CASE DeleteOtp(r)
      BY <1>3, <3>5, DeleteOtpEffect DEF UsedUp, KeysStay
    <3> QED
      BY <2>1, <3>1, <3>2, <3>3, <3>4, <3>5 DEF KeyAction
  <2>2. ASSUME NEW r \in Requests, Attempt(r) PROVE Closing(p)'
    <3>1. p = req[r].user
      BY <1>3, <2>2, AttemptEffect DEF UsedUp, KeysStay
    <3> QED
      BY <1>3, <2>2, <3>1, LastTryCloses
  <2>3. ASSUME NEW x \in Phones, ExpireKey(x) PROVE FALSE
    BY <1>3, <2>3, ExpireKeyEffect DEF UsedUp, KeysStay
  <2>4. ~UNCHANGED <<otp, attempts, blocked, use>>
    BY <1>3 DEF UsedUp
  <2> QED
    BY <1>1, <2>1, <2>2, <2>3, <2>4, QuietStep
<1> QED
  BY <1>2, <1>3

\* A code whose tries are used up is on its way to be deleted, or its phone is blocked,
\* whatever the limit and the interleaving, as long as no request has died.
THEOREM UsedUpCodeAlwaysBlocked == Spec => []UsedUpCodeIsBlocked
<1>1. Init => UsedUpCodeIsBlocked
  BY DEF Init, UsedUpCodeIsBlocked
<1>2. IInv /\ CountCovers /\ UsedUpCodeIsBlocked /\ [Next]_vars => UsedUpCodeIsBlocked'
  <2>1. CASE UNCHANGED vars
    BY <2>1 DEF UsedUpCodeIsBlocked, vars, otpVars
  <2> QED
    BY <2>1, UsedUpStep
<1> QED
  BY <1>1, <1>2, AuthInvariant, CountInvariant, PTL DEF Spec

\* A stored code is one phone's, and who holds it works for that phone.
CodesApart ==
  /\ \A p1, p2 \in Phones : otp[p1] # None /\ otp[p1] = otp[p2] => p1 = p2
  /\ \A r \in Requests, p \in Phones : Holds(r, p) => req[r].user = p
  /\ \A r \in Requests : req[r].pc = "attempt" => req[r].code # None

\* An unexposed code is held by one verification at most; once it has accepted the
\* code, that one goes on to delete it.
HeldOnce(p) ==
  /\ \A q1, q2 \in Requests : Holds(q1, p) /\ Holds(q2, p) => q1 = q2
  /\ use[p].accepted > 0 =>
       /\ use[p].accepted = 1
       /\ \E q \in Requests : Holds(q, p) /\ req[q].pc = "deleteOtp"

AcceptedInv == CodesApart /\ \A p \in Phones : use[p].exposed \/ HeldOnce(p)

\* Who comes to hold a code is the verification that reads it.
LEMMA HoldsBefore ==
  ASSUME IInv, Next, NEW q \in Requests, NEW p \in Phones, Holds(q, p)',
         ~GetOtp(q)
  PROVE  Holds(q, p)
<1>1. otp'[p] # None /\ req'[q].code = otp'[p] /\ req'[q].pc \in {"attempt", "deleteOtp"}
  BY DEF Holds
<1>2. ASSUME NEW r \in Requests, SaveOtp(r) PROVE Holds(q, p)
  <2>1. q # r /\ req'[q] = req[q]
    BY <1>1, <1>2, SaveOtpEffect DEF Busy, OthersStay
  <2>2. p # req[r].user
    BY <1>1, <1>2, <2>1, SaveOtpEffect
  <2> QED
    BY <1>1, <1>2, <2>1, <2>2, SaveOtpEffect DEF Holds, KeysStay
<1>3. ASSUME NEW r \in Requests, SaveAttempts(r) PROVE Holds(q, p)
  <2>1. q # r /\ req'[q] = req[q] /\ otp' = otp
    BY <1>1, <1>3, SaveAttemptsEffect DEF Busy, OthersStay
  <2> QED
    BY <1>1, <2>1 DEF Holds
<1>4. ASSUME NEW r \in Requests, GetOtp(r) PROVE Holds(q, p)
  <2>1. q # r /\ req'[q] = req[q] /\ otp' = otp
    BY <1>1, <1>4, GetOtpEffect DEF Busy, OthersStay
  <2> QED
    BY <1>1, <2>1 DEF Holds
<1>5. ASSUME NEW r \in Requests, Attempt(r) PROVE Holds(q, p)
  <2>1. /\ otp' = otp /\ req[r].pc = "attempt" /\ OthersStay(r)
        /\ \/ req'[r].code = req[r].code
           \/ req'[r].pc = "block"
           \/ req'[r].pc \notin Busy
    BY <1>5, AttemptEffect
  <2> QED
    BY <1>1, <2>1 DEF Holds, Busy, OthersStay
<1>6. ASSUME NEW r \in Requests, Block(r) PROVE Holds(q, p)
  BY <1>1, <1>6, BlockEffect DEF Holds, Busy, OthersStay
<1>7. ASSUME NEW r \in Requests, DeleteOtp(r) PROVE Holds(q, p)
  <2>1. q # r /\ req'[q] = req[q] /\ p # req[r].user
    BY <1>1, <1>7, DeleteOtpEffect DEF Busy, OthersStay
  <2> QED
    BY <1>1, <1>7, <2>1, DeleteOtpEffect DEF Holds, KeysStay
<1>8. ASSUME NEW r \in Requests, Fail(r) PROVE Holds(q, p)
  BY <1>1, <1>8, FailEffect DEF Holds, Busy, OthersStay
<1>9. ASSUME NEW x \in Phones, ExpireKey(x) PROVE Holds(q, p)
  BY <1>1, <1>9, ExpireKeyEffect DEF Holds, KeysStay
<1>10. ASSUME UNCHANGED <<otp, attempts, blocked, use>>,
              req'[q] = req[q] \/ req'[q].pc \notin Busy
       PROVE  Holds(q, p)
  BY <1>1, <1>10 DEF Holds, Busy
<1> QED
  BY <1>2, <1>3, <1>4, <1>5, <1>6, <1>7, <1>8, <1>9, <1>10, QuietStep DEF KeyAction

\* What else may be stored for a phone after a step: a code that was nowhere.
LEMMA CodeBefore ==
  ASSUME IInv, Next, NEW p \in Phones, otp'[p] # None, otp'[p] # otp[p]
  PROVE  /\ \E r \in Requests : SaveOtp(r) /\ req[r].user = p
         /\ use'[p] = NewUse
         /\ \A x \in Phones : otp[x] # otp'[p]
         /\ \A x \in Phones \ {p} : otp'[x] = otp[x]
         /\ \A q \in Requests : ~Holds(q, p)'
<1>1. ASSUME NEW r \in Requests, KeyAction(r), ~SaveOtp(r) PROVE FALSE
  BY <1>1, SaveAttemptsEffect, GetOtpEffect, AttemptEffect, BlockEffect, DeleteOtpEffect
     DEF KeyAction, KeysStay
<1>2. ASSUME NEW r \in Requests, Fail(r) PROVE FALSE
  BY <1>2, FailEffect
<1>3. ASSUME NEW x \in Phones, ExpireKey(x) PROVE FALSE
  BY <1>3, ExpireKeyEffect DEF KeysStay
<1>4. PICK r \in Requests : SaveOtp(r)
  BY <1>1, <1>2, <1>3, QuietStep
<1>5. req[r].user = p
  BY <1>4, SaveOtpEffect DEF KeysStay
<1>6. /\ use'[p] = NewUse
      /\ \A x \in Phones : otp[x] # otp'[p]
      /\ \A q \in Requests : req[q].code # otp'[p]
      /\ \A x \in Phones \ {p} : otp'[x] = otp[x]
      /\ req'[r].pc \notin Busy /\ OthersStay(r)
  BY <1>4, <1>5, SaveOtpEffect DEF KeysStay
<1>7. \A q \in Requests : ~Holds(q, p)'
  BY <1>6 DEF Holds, OthersStay, Busy
<1> QED
  BY <1>4, <1>5, <1>6, <1>7

LEMMA CodesApartStep ==
  ASSUME IInv, CodesApart, Next
  PROVE  CodesApart'
<1>1. ASSUME NEW p1 \in Phones, NEW p2 \in Phones, otp'[p1] # None, otp'[p1] = otp'[p2]
      PROVE  p1 = p2
  <2>1. CASE otp'[p1] = otp[p1] /\ otp'[p2] = otp[p2]
    BY <1>1, <2>1 DEF CodesApart
  <2>2. CASE otp'[p1] # otp[p1]
    BY <1>1, <2>2, CodeBefore
  <2>3. CASE otp'[p2] # otp[p2]
    BY <1>1, <2>3, CodeBefore
  <2> QED
    BY <2>1, <2>2, <2>3
<1>2. ASSUME NEW q \in Requests, NEW p \in Phones, Holds(q, p)'
      PROVE  req'[q].user = p
  <2>1. CASE GetOtp(q)
    <3>1. /\ otp' = otp /\ req'[q].pc = "attempt" /\ otp[req[q].user] # None
          /\ req'[q].code = otp[req[q].user] /\ req'[q].user = req[q].user
      BY <1>2, <2>1, GetOtpEffect DEF Holds, Busy
    <3>2. req[q].user \in Phones
      BY <2>1, KeyPhone DEF KeyAction
    <3> QED
      BY <1>2, <3>1, <3>2 DEF Holds, CodesApart
  <2>2. ASSUME ~GetOtp(q) PROVE req'[q].user = p
    <3>1. Holds(q, p) /\ req[q].user = p
      BY <1>2, <2>2, HoldsBefore DEF CodesApart
    <3>2. req'[q].user = req[q].user
      <4>1. req[q].pc \in {"attempt", "deleteOtp"} /\ req'[q].pc \in {"attempt", "deleteOtp"}
        BY <1>2, <3>1 DEF Holds
      <4>2. ASSUME NEW r \in Requests, KeyAction(r) PROVE req'[q].user = req[q].user
        BY <4>1, <4>2, SaveOtpEffect, SaveAttemptsEffect, GetOtpEffect, AttemptEffect,
           BlockEffect, DeleteOtpEffect DEF KeyAction, OthersStay, Busy
      <4>3. ASSUME NEW r \in Requests, Fail(r) PROVE req'[q].user = req[q].user
        BY <4>1, <4>3, FailEffect DEF OthersStay, Busy
      <4>4. ASSUME NEW x \in Phones, ExpireKey(x) PROVE req'[q].user = req[q].user
        BY <4>4, ExpireKeyEffect
      <4> QED
        BY <4>1, <4>2, <4>3, <4>4, QuietStep DEF Busy
    <3> QED
      BY <3>1, <3>2
  <2> QED
    BY <2>1, <2>2
<1>3. ASSUME NEW q \in Requests, req'[q].pc = "attempt"
      PROVE  req'[q].code # None
  <2>1. ASSUME req'[q] = req[q] PROVE req'[q].code # None
    BY <1>3, <2>1 DEF CodesApart
  <2>2. ASSUME NEW r \in Requests, KeyAction(r) PROVE req'[q].code # None
    BY <1>3, <2>1, <2>2, SaveOtpEffect, SaveAttemptsEffect, GetOtpEffect, AttemptEffect,
       BlockEffect, DeleteOtpEffect DEF KeyAction, OthersStay, Busy
  <2>3. ASSUME NEW r \in Requests, Fail(r) PROVE req'[q] = req[q]
    BY <1>3, <2>3, FailEffect DEF OthersStay, Busy
  <2>4. ASSUME NEW x \in Phones, ExpireKey(x) PROVE req'[q] = req[q]
    BY <2>4, ExpireKeyEffect
  <2> QED
    BY <1>3, <2>1, <2>2, <2>3, <2>4, QuietStep DEF Busy
<1> QED
  BY <1>1, <1>2, <1>3 DEF CodesApart

\* What a step can do to the history of a phone's code: begin another, or go on with
\* this one.  Only a try of it changes its acceptances, and it stays exposed.
LEMMA UseChange ==
  ASSUME IInv, Next, NEW p \in Phones
  PROVE  \/ use'[p] = NewUse /\ (otp'[p] = None \/ otp'[p] # otp[p])
         \/ /\ otp'[p] = otp[p]
            /\ ~use'[p].exposed => ~use[p].exposed
            /\ \/ use'[p].accepted = use[p].accepted
               \/ \E r \in Requests : Attempt(r) /\ req[r].user = p
<1> DEFINE Goal == \/ use'[p] = NewUse /\ (otp'[p] = None \/ otp'[p] # otp[p])
                   \/ /\ otp'[p] = otp[p]
                      /\ ~use'[p].exposed => ~use[p].exposed
                      /\ \/ use'[p].accepted = use[p].accepted
                         \/ \E r \in Requests : Attempt(r) /\ req[r].user = p
<1>1. ASSUME otp'[p] = otp[p], use'[p] = use[p] PROVE Goal
  BY <1>1
<1>2. ASSUME NEW r \in Requests, SaveOtp(r) PROVE Goal
  BY <1>1, <1>2, SaveOtpEffect DEF KeysStay
<1>3. ASSUME NEW r \in Requests, SaveAttempts(r) PROVE Goal
  BY <1>1, <1>3, SaveAttemptsEffect DEF KeysStay
<1>4. ASSUME NEW r \in Requests, GetOtp(r) PROVE Goal
  BY <1>1, <1>4, GetOtpEffect DEF KeysStay
<1>5. ASSUME NEW r \in Requests, Attempt(r) PROVE Goal
  <2>1. CASE p = req[r].user
    BY <1>5, <2>1, AttemptEffect
  <2>2. CASE p # req[r].user
    BY <1>1, <1>5, <2>2, AttemptEffect DEF KeysStay
  <2> QED
    BY <2>1, <2>2
<1>6. ASSUME NEW r \in Requests, Block(r) PROVE Goal
  BY <1>1, <1>6, BlockEffect
<1>7. ASSUME NEW r \in Requests, DeleteOtp(r) PROVE Goal
  BY <1>1, <1>7, DeleteOtpEffect DEF KeysStay
<1>8. ASSUME NEW r \in Requests, Fail(r) PROVE Goal
  <2>1. otp' = otp
    BY <1>8, FailEffect
  <2>2. use'[p] = use[p] \/ use'[p] = [use[p] EXCEPT !.exposed = TRUE]
    BY <1>8, FailEffect DEF IInv, OtpOK
  <2>3. /\ ~use'[p].exposed => ~use[p].exposed
        /\ use'[p].accepted = use[p].accepted
    BY <2>2 DEF IInv, OtpOK, Use
  <2> QED
    BY <2>1, <2>3
<1>9. ASSUME NEW x \in Phones, ExpireKey(x) PROVE Goal
  BY <1>1, <1>9, ExpireKeyEffect DEF KeysStay
<1>10. CASE UNCHANGED <<otp, attempts, blocked, use>>
  BY <1>1, <1>10
<1> QED
  BY <1>2, <1>3, <1>4, <1>5, <1>6, <1>7, <1>8, <1>9, <1>10, QuietStep DEF KeyAction

\* Two verifications come to hold a code only when one reads it while the other does.
LEMMA HeldByOne ==
  ASSUME IInv, AcceptedInv, Next, NEW p \in Phones, otp'[p] = otp[p], ~use'[p].exposed,
         HeldOnce(p), NEW q1 \in Requests, NEW q2 \in Requests, Holds(q1, p)', Holds(q2, p)'
  PROVE  q1 = q2
<1>1. ASSUME NEW q \in Requests, NEW o \in Requests, GetOtp(q), Holds(q, p)', Holds(o, p)'
      PROVE  o = q
  <2>1. SUFFICES ASSUME o # q PROVE FALSE
    OBVIOUS
  <2>2. ~GetOtp(o)
    <3>1. req'[o] = req[o] /\ req'[o].pc \in {"attempt", "deleteOtp"}
      BY <1>1, <2>1, GetOtpEffect DEF OthersStay, Holds
    <3> QED
      BY <3>1 DEF GetOtp, At
  <2>3. Holds(o, p)
    BY <1>1, <2>2, HoldsBefore
  <2>4. req[q].user = p
    <3>1. req'[q].user = p
      BY <1>1, CodesApartStep DEF AcceptedInv, CodesApart
    <3>2. req'[q].pc \in {"attempt", "deleteOtp"}
      BY <1>1 DEF Holds
    <3> QED
      BY <1>1, <3>1, <3>2, GetOtpEffect DEF Busy
  <2>5. req'[q].pc \in Busy
    BY <1>1 DEF Holds, Busy
  <2> QED
    BY <1>1, <2>1, <2>3, <2>4, <2>5, GetOtpEffect
<1>2. CASE GetOtp(q1) \/ GetOtp(q2)
  BY <1>1, <1>2
<1>3. CASE ~GetOtp(q1) /\ ~GetOtp(q2)
  BY <1>3, HoldsBefore DEF HeldOnce
<1> QED
  BY <1>2, <1>3

\* The verification that accepted the code is still there, about to delete it.
LEMMA AcceptorStays ==
  ASSUME IInv, AcceptedInv, Next, NEW p \in Phones, otp'[p] = otp[p], ~use'[p].exposed,
         NEW q \in Requests, Holds(q, p), req[q].pc = "deleteOtp"
  PROVE  Holds(q, p)' /\ req'[q].pc = "deleteOtp"
<1>1. otp[p] # None /\ req[q].user = p
  BY DEF Holds, AcceptedInv, CodesApart
<1>2. ~Block(q)
  BY BlockEffect
<1>3. ~DeleteOtp(q)
  BY <1>1, DeleteOtpEffect
<1>4. ~Fail(q)
  <2>1. SUFFICES ASSUME Fail(q) PROVE FALSE
    OBVIOUS
  <2>2. use' = [use EXCEPT ![p] = [@ EXCEPT !.exposed = TRUE]] /\ use \in [Phones -> Use]
    BY <1>1, <2>1, FailEffect DEF IInv, OtpOK
  <2>3. use'[p] = [use[p] EXCEPT !.exposed = TRUE]
    BY <2>2
  <2>4. use'[p].exposed
    BY <2>2, <2>3 DEF Use
  <2> QED
    BY <2>4
<1>5. req'[q] = req[q]
  BY <1>2, <1>3, <1>4, ClosingStays
<1> QED
  BY <1>5 DEF Holds

\* A try is accepted when no other was, and its request goes on to delete the code.
LEMMA FirstAccepted ==
  ASSUME IInv, AcceptedInv, Next, NEW p \in Phones, HeldOnce(p),
         NEW r \in Requests, Attempt(r), req[r].user = p,
         use'[p].accepted # use[p].accepted
  PROVE  use'[p].accepted = 1 /\ Holds(r, p)' /\ req'[r].pc = "deleteOtp"
<1>1. PICK n \in Nat, right \in BOOLEAN :
        /\ otp' = otp /\ req[r].pc = "attempt"
        /\ n <= OTP_MAX_ATTEMPTS /\ otp[p] = req[r].code
        /\ use'[p].accepted = use[p].accepted + (IF right THEN 1 ELSE 0)
        /\ \/ /\ Accepts(n, right) /\ req'[r].pc = "deleteOtp"
              /\ req'[r].user = p /\ req'[r].code = req[r].code
           \/ Blocks(n, right)
           \/ ~Accepts(n, right) /\ ~Blocks(n, right)
  BY AttemptEffect
<1>2. use[p].accepted \in Nat /\ OTP_MAX_ATTEMPTS \in Nat
  BY AuthAssumption DEF IInv, OtpOK, Use
<1>3. right
  BY <1>1, <1>2
<1>4. Accepts(n, right) /\ ~Blocks(n, right)
  BY <1>1, <1>2, <1>3 DEF Accepts, Blocks
<1>5. otp[p] # None
  BY <1>1 DEF AcceptedInv, CodesApart
<1>6. Holds(r, p)
  BY <1>1, <1>5 DEF Holds
<1>7. ~(use[p].accepted > 0)
  BY <1>1, <1>6 DEF HeldOnce
<1>8. Holds(r, p)' /\ req'[r].pc = "deleteOtp"
  BY <1>1, <1>4, <1>5 DEF Holds
<1> QED
  BY <1>1, <1>2, <1>3, <1>7, <1>8

LEMMA AcceptedStep ==
  ASSUME IInv, AcceptedInv, Next
  PROVE  AcceptedInv'
<1>1. ASSUME NEW p \in Phones, ~use'[p].exposed
      PROVE  HeldOnce(p)'
  <2>1. ASSUME use'[p] = NewUse, otp'[p] = None \/ otp'[p] # otp[p]
        PROVE  HeldOnce(p)'
    <3>1. \A q \in Requests : ~Holds(q, p)'
      BY <2>1, CodeBefore DEF Holds
    <3>2. ~(use'[p].accepted > 0)
      BY <2>1 DEF NewUse
    <3> QED
      BY <3>1, <3>2 DEF HeldOnce
  <2>2. ASSUME otp'[p] = otp[p], ~use[p].exposed,
               \/ use'[p].accepted = use[p].accepted
               \/ \E r \in Requests : Attempt(r) /\ req[r].user = p
        PROVE  HeldOnce(p)'
    <3>1. HeldOnce(p)
      BY <2>2 DEF AcceptedInv
    <3>2. \A q1, q2 \in Requests : Holds(q1, p)' /\ Holds(q2, p)' => q1 = q2
      BY <1>1, <2>2, <3>1, HeldByOne
    <3>3. ASSUME use'[p].accepted > 0
          PROVE  /\ use'[p].accepted = 1
                 /\ \E q \in Requests : Holds(q, p)' /\ req'[q].pc = "deleteOtp"
      <4>1. CASE use'[p].accepted = use[p].accepted
        <5>1. /\ use[p].accepted = 1
              /\ \E q \in Requests : Holds(q, p) /\ req[q].pc = "deleteOtp"
          BY <3>1, <3>3, <4>1 DEF HeldOnce
        <5> QED
          BY <1>1, <2>2, <4>1, <5>1, AcceptorStays
      <4>2. CASE use'[p].accepted # use[p].accepted
        BY <2>2, <3>1, <4>2, FirstAccepted
      <4> QED
        BY <4>1, <4>2
    <3> QED
      BY <3>2, <3>3 DEF HeldOnce
  <2> QED
    BY <1>1, <2>1, <2>2, UseChange
<1> QED
  BY <1>1, CodesApartStep DEF AcceptedInv

\* A code signs in once, for every number of verifications in flight, unless two held
\* it together or the one that accepted it died before it deleted it.
THEOREM CodeAlwaysAcceptedOnce == Spec => []CodeAcceptedOnce
<1>1. Init => AcceptedInv
  BY DEF Init, AcceptedInv, CodesApart, HeldOnce, Holds, Idle, NewUse
<1>2. IInv /\ AcceptedInv /\ [Next]_vars => AcceptedInv'
  <2>1. CASE UNCHANGED vars
    BY <2>1 DEF AcceptedInv, CodesApart, HeldOnce, Holds, vars, otpVars
  <2> QED
    BY <2>1, AcceptedStep
<1>3. IInv /\ AcceptedInv => CodeAcceptedOnce
  BY DEF IInv, OtpOK, Use, AcceptedInv, HeldOnce, CodeAcceptedOnce
<1> QED
  BY <1>1, <1>2, <1>3, AuthInvariant, PTL DEF Spec

=============================================================================
