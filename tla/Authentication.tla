--------------------------- MODULE Authentication ---------------------------
(***************************************************************************)
(* AuthService (app/services/auth_service.py) over its two stores: the     *)
(* Redis keys of a phone number (app/core/redis.py: the code, the count of *)
(* tries, the count of SMS, the block) and the users and refresh_tokens    *)
(* tables.                                                                 *)
(*                                                                         *)
(* As in QueueEngine a request is a coroutine, split at every await that   *)
(* reads or writes a store.  Each Redis command is atomic and no two are   *)
(* one transaction; what a request writes to PostgreSQL appears at its     *)
(* commit.  An account is named by the unique phone or email that finds it.*)
(***************************************************************************)
EXTENDS Naturals, FiniteSets

CONSTANTS
  Phones, Emails, \* unique keys of the users table
  Codes,          \* codes drawn by generate_otp: each issue is told from the others
  Tokens,         \* refresh tokens, each with the jti that makes its hash unique
  Requests,       \* requests that may be in flight together
  Workloads,      \* sets of events; what happens in a behaviour is drawn from one
  OTP_MAX_ATTEMPTS, PHONE_REGISTER_MAX,
  MaxCrashes,     \* bound on requests that die
  None

\* The handlers that clients call, and what befalls the tables.
Events == {"register_phone", "verify_otp", "register_email", "login_email",
           "refresh_token", "logout", "logout_all", "disable", "expire"}

ASSUME AuthAssumption ==
  /\ Workloads \subseteq SUBSET Events
  /\ OTP_MAX_ATTEMPTS \in Nat \ {0}
  /\ PHONE_REGISTER_MAX \in Nat \ {0}
  /\ MaxCrashes \in Nat
  /\ None \notin Phones \cup Emails \cup Codes \cup Tokens

VARIABLES
  otp,       \* tonde:otp:{phone}
  attempts,  \* tonde:otp_attempts:{phone}, with its time to live
  sms,       \* tonde:sms_attempts:{phone}, with its time to live
  blocked,   \* phones with a tonde:blocked:{phone}
  accounts,  \* users rows, by phone or email
  disabled,  \* accounts whose is_active is false
  holder,    \* refresh_tokens.user_id, None before the row exists
  session,   \* the sign-in a token descends from
  revoked,   \* tokens whose revoked_at is set
  expired,   \* tokens past expires_at
  req,       \* the requests in flight
  asked,     \* the events of this behaviour
  crashes,   \* requests that died, for the bound
  use,       \* history of the stored code: tries, acceptances, and what excuses them
  ended,     \* history: sessions that logout or logout_all ended
  raced      \* history: sessions some commit wrote after what it read had changed

otpVars == <<otp, attempts, sms, blocked, use>>
tokenVars == <<holder, session, revoked, expired, ended, raced>>
vars == <<otpVars, accounts, disabled, tokenVars, req, asked, crashes>>

-----------------------------------------------------------------------------
Users == Phones \cup Emails

PC == {"idle", "countSms", "expireSms", "saveOtp", "saveAttempts",
       "getOtp", "attempt", "block", "deleteOtp", "findUser", "insertUser",
       "insertEmail", "issue", "readUser", "rotate", "revoke"}

Request == [ pc     : PC,
             user   : Users \cup {None},
             code   : Codes \cup {None},
             tokens : SUBSET Tokens ]

Idle == [pc |-> "idle", user |-> None, code |-> None, tokens |-> {}]

\* A counter key: absent when n = 0 and ttl is "none".  A ttl of "covers"
\* outlasts the code stored now, "short" may end before it.
Counter == [n : Nat, ttl : {"none", "short", "covers"}]
Absent == [n |-> 0, ttl |-> "none"]

Use == [tries : Nat, accepted : Nat, torn : BOOLEAN, exposed : BOOLEAN]
NewUse == [tries |-> 0, accepted |-> 0, torn |-> TRUE, exposed |-> FALSE]

TypeOK ==
  /\ otp \in [Phones -> Codes \cup {None}]
  /\ attempts \in [Phones -> Counter]
  /\ sms \in [Phones -> Counter]
  /\ blocked \in SUBSET Phones
  /\ accounts \in SUBSET Users
  /\ disabled \in SUBSET Users
  /\ holder \in [Tokens -> Users \cup {None}]
  /\ session \in [Tokens -> Tokens \cup {None}]
  /\ revoked \in SUBSET Tokens
  /\ expired \in SUBSET Tokens
  /\ req \in [Requests -> Request]
  /\ asked \in SUBSET Events
  /\ crashes \in Nat
  /\ use \in [Phones -> Use]
  /\ ended \in SUBSET Tokens
  /\ raced \in SUBSET Tokens

Init ==
  /\ otp = [p \in Phones |-> None]
  /\ attempts = [p \in Phones |-> Absent]
  /\ sms = [p \in Phones |-> Absent]
  /\ blocked = {} /\ accounts = {} /\ disabled = {}
  /\ holder = [t \in Tokens |-> None]
  /\ session = [t \in Tokens |-> None]
  /\ revoked = {} /\ expired = {}
  /\ req = [r \in Requests |-> Idle]
  /\ asked \in Workloads
  /\ crashes = 0
  /\ use = [p \in Phones |-> NewUse]
  /\ ended = {} /\ raced = {}

-----------------------------------------------------------------------------
Issued(t) == holder[t] # None
Live(t) == Issued(t) /\ t \notin revoked

At(r, pc) == req[r].pc = pc

Start(r, event, record) ==
  /\ event \in asked
  /\ At(r, "idle")
  /\ req' = [req EXCEPT ![r] = record]

GoTo(r, pc) == req' = [req EXCEPT ![r].pc = pc]

Finish(r) == req' = [req EXCEPT ![r] = Idle]

-----------------------------------------------------------------------------
(* The keys of a phone number.                                             *)

\* incr: a key that is absent is created without a time to live.  Past its
\* limit a count makes no further difference.
Incr(counter, limit) == IF counter.n > limit THEN counter ELSE [counter EXCEPT !.n = @ + 1]

\* register_phone, after is_phone_blocked.
RegisterPhone(r, p) ==
  /\ p \notin blocked
  /\ Start(r, "register_phone", [Idle EXCEPT !.pc = "countSms", !.user = p])
  /\ UNCHANGED <<otpVars, accounts, disabled, tokenVars, asked, crashes>>

\* Mutant: the counter is given no time to live.
CountSmsForever(r) ==
  LET p == req[r].user
      n == Incr(sms[p], PHONE_REGISTER_MAX).n
  IN  /\ At(r, "countSms")
      /\ sms' = [sms EXCEPT ![p] = Incr(@, PHONE_REGISTER_MAX)]
      /\ IF n > PHONE_REGISTER_MAX THEN Finish(r) ELSE GoTo(r, "saveOtp")
      /\ UNCHANGED <<otp, attempts, blocked, use, accounts, disabled, tokenVars, asked, crashes>>

\* increment_register_attempts: incr, then expire when the count is 1; past
\* the limit the request is refused (429).
CountSms(r) ==
  LET p == req[r].user
      n == Incr(sms[p], PHONE_REGISTER_MAX).n
  IN  /\ At(r, "countSms")
      /\ sms' = [sms EXCEPT ![p] = Incr(@, PHONE_REGISTER_MAX)]
      /\ \/ n = 1 /\ GoTo(r, "expireSms")
         \/ n > 1 /\ n <= PHONE_REGISTER_MAX /\ GoTo(r, "saveOtp")
         \/ n > PHONE_REGISTER_MAX /\ Finish(r)
      /\ UNCHANGED <<otp, attempts, blocked, use, accounts, disabled, tokenVars, asked, crashes>>

ExpireSms(r) ==
  LET p == req[r].user
  IN  /\ At(r, "expireSms")
      /\ sms' = [sms EXCEPT ![p].ttl = "covers"]
      /\ GoTo(r, "saveOtp")
      /\ UNCHANGED <<otp, attempts, blocked, use, accounts, disabled, tokenVars, asked, crashes>>

\* A code that no key and no request holds.
FreshCodes == {c \in Codes : (\A p \in Phones : otp[p] # c) /\ (\A r \in Requests : req[r].code # c)}

\* save_otp, first setex: the code.  The tries counted until now have a
\* time to live that began before the code's.
SaveOtp(r) ==
  LET p == req[r].user
  IN  /\ At(r, "saveOtp")
      /\ \E c \in FreshCodes :
           /\ otp' = [otp EXCEPT ![p] = c]
           /\ req' = [req EXCEPT ![r].pc = "saveAttempts", ![r].code = c]
      /\ use' = [use EXCEPT ![p] = NewUse]
      /\ attempts' = [attempts EXCEPT ![p].ttl = IF @ = "covers" THEN "short" ELSE @]
      /\ UNCHANGED <<sms, blocked, accounts, disabled, tokenVars, asked, crashes>>

\* save_otp, second setex: no tries yet.  _send_otp_sms, which follows,
\* swallows its errors: the request ends as it would have.
SaveAttempts(r) ==
  LET p == req[r].user
  IN  /\ At(r, "saveAttempts")
      /\ attempts' = [attempts EXCEPT ![p] = [n |-> 0, ttl |-> "covers"]]
      /\ use' = [use EXCEPT ![p].torn = use[p].tries # 0]
      /\ Finish(r)
      /\ UNCHANGED <<otp, sms, blocked, accounts, disabled, tokenVars, asked, crashes>>

\* verify_otp, after is_phone_blocked.
VerifyOtp(r, p) ==
  /\ p \notin blocked
  /\ Start(r, "verify_otp", [Idle EXCEPT !.pc = "getOtp", !.user = p])
  /\ UNCHANGED <<otpVars, accounts, disabled, tokenVars, asked, crashes>>

\* get_otp: the code is read here and compared after the next await.
GetOtp(r) ==
  LET p == req[r].user
      c == otp[p]
      alsoHeld == \E q \in Requests \ {r} :
                    req[q].pc \in {"attempt", "deleteOtp"} /\ req[q].code = c
  IN  /\ At(r, "getOtp")
      /\ IF c = None
         THEN Finish(r) /\ UNCHANGED use
         ELSE /\ req' = [req EXCEPT ![r].pc = "attempt", ![r].code = c]
              /\ use' = [use EXCEPT ![p].exposed = @ \/ alsoHeld]
      /\ UNCHANGED <<otp, attempts, sms, blocked, accounts, disabled, tokenVars, asked, crashes>>

\* What verify_otp makes of the n-th try: the code is compared only within the
\* limit, and a wrong one at the limit blocks the phone.
Accepts(n, right) == n <= OTP_MAX_ATTEMPTS /\ right
Blocks(n, right) == n > OTP_MAX_ATTEMPTS \/ (n = OTP_MAX_ATTEMPTS /\ ~right)

\* A try is held against the stored code when it is the one compared.
TriedOnce(r, n, right) ==
  LET p == req[r].user
  IN  IF n <= OTP_MAX_ATTEMPTS /\ otp[p] = req[r].code
      THEN [use EXCEPT ![p].tries = @ + 1, ![p].accepted = @ + (IF right THEN 1 ELSE 0)]
      ELSE use

\* Mutant: the last wrong try does not block (remaining >= 0).
AttemptLenient(r) ==
  LET p == req[r].user
      n == Incr(attempts[p], OTP_MAX_ATTEMPTS).n
  IN  /\ At(r, "attempt")
      /\ attempts' = [attempts EXCEPT ![p] = Incr(@, OTP_MAX_ATTEMPTS)]
      /\ \E right \in BOOLEAN :
           /\ use' = TriedOnce(r, n, right)
           /\ \/ Accepts(n, right) /\ GoTo(r, "deleteOtp")
              \/ n > OTP_MAX_ATTEMPTS /\ GoTo(r, "block")
              \/ n <= OTP_MAX_ATTEMPTS /\ ~right /\ Finish(r)
      /\ UNCHANGED <<otp, sms, blocked, accounts, disabled, tokenVars, asked, crashes>>

\* Mutant: only a wrong try is counted.
AttemptCountsWrong(r) ==
  LET p == req[r].user
      n == Incr(attempts[p], OTP_MAX_ATTEMPTS).n
  IN  /\ At(r, "attempt")
      /\ \E right \in BOOLEAN :
           /\ attempts' = IF right THEN attempts
                          ELSE [attempts EXCEPT ![p] = Incr(@, OTP_MAX_ATTEMPTS)]
           /\ use' = TriedOnce(r, n, right)
           /\ \/ Accepts(n, right) /\ GoTo(r, "deleteOtp")
              \/ Blocks(n, right) /\ GoTo(r, "block")
              \/ ~Accepts(n, right) /\ ~Blocks(n, right) /\ Finish(r)
      /\ UNCHANGED <<otp, sms, blocked, accounts, disabled, tokenVars, asked, crashes>>

\* increment_otp_attempts and the comparison with the code read before it.
Attempt(r) ==
  LET p == req[r].user
      n == Incr(attempts[p], OTP_MAX_ATTEMPTS).n
  IN  /\ At(r, "attempt")
      /\ attempts' = [attempts EXCEPT ![p] = Incr(@, OTP_MAX_ATTEMPTS)]
      /\ \E right \in BOOLEAN :
           /\ use' = TriedOnce(r, n, right)
           /\ \/ Accepts(n, right) /\ GoTo(r, "deleteOtp")
              \/ Blocks(n, right) /\ GoTo(r, "block")
              \/ ~Accepts(n, right) /\ ~Blocks(n, right) /\ Finish(r)
      /\ UNCHANGED <<otp, sms, blocked, accounts, disabled, tokenVars, asked, crashes>>

\* block_phone.
Block(r) ==
  /\ At(r, "block")
  /\ blocked' = blocked \cup {req[r].user}
  /\ Finish(r)
  /\ UNCHANGED <<otp, attempts, sms, use, accounts, disabled, tokenVars, asked, crashes>>

\* Mutant: only the count of tries is deleted, the code is kept.
DeleteAttemptsOnly(r) ==
  /\ At(r, "deleteOtp")
  /\ attempts' = [attempts EXCEPT ![req[r].user] = Absent]
  /\ GoTo(r, "findUser")
  /\ UNCHANGED <<otp, sms, blocked, use, accounts, disabled, tokenVars, asked, crashes>>

\* delete_otp, one command for both keys: whatever code is stored by now.
DeleteOtp(r) ==
  LET p == req[r].user
  IN  /\ At(r, "deleteOtp")
      /\ otp' = [otp EXCEPT ![p] = None]
      /\ attempts' = [attempts EXCEPT ![p] = Absent]
      /\ req' = [req EXCEPT ![r].pc = "findUser", ![r].code = None]
      /\ use' = [use EXCEPT ![p] = NewUse]
      /\ UNCHANGED <<sms, blocked, accounts, disabled, tokenVars, asked, crashes>>

\* Time passes: a key with a time to live may go.  A block outlasts every
\* code issued before it (900 s against 300 s).
ExpireKey(p) ==
  /\ \/ /\ otp[p] # None
        /\ otp' = [otp EXCEPT ![p] = None]
        /\ use' = [use EXCEPT ![p] = NewUse]
        /\ UNCHANGED <<attempts, sms, blocked>>
     \/ /\ attempts[p].ttl = "short" \/ (attempts[p].ttl = "covers" /\ otp[p] = None)
        /\ attempts' = [attempts EXCEPT ![p] = Absent]
        /\ UNCHANGED <<otp, sms, blocked, use>>
     \/ /\ sms[p].ttl # "none"
        /\ sms' = [sms EXCEPT ![p] = Absent]
        /\ UNCHANGED <<otp, attempts, blocked, use>>
     \/ /\ p \in blocked /\ otp[p] = None
        /\ blocked' = blocked \ {p}
        /\ UNCHANGED <<otp, attempts, sms, use>>
  /\ UNCHANGED <<accounts, disabled, tokenVars, req, asked, crashes>>

-----------------------------------------------------------------------------
(* Accounts.                                                               *)

\* _get_or_create_user_by_phone: the account is read, or inserted and
\* committed; another insert of the phone committed since makes it fail.
FindUser(r) ==
  /\ At(r, "findUser")
  /\ GoTo(r, IF req[r].user \in accounts THEN "issue" ELSE "insertUser")
  /\ UNCHANGED <<otpVars, accounts, disabled, tokenVars, asked, crashes>>

\* Mutant: the row is inserted without its phone.
InsertAnonymous(r) ==
  /\ At(r, "insertUser")
  /\ IF req[r].user \in accounts
     THEN Finish(r) /\ UNCHANGED accounts
     ELSE GoTo(r, "issue") /\ accounts' = accounts \cup {None}
  /\ UNCHANGED <<otpVars, disabled, tokenVars, asked, crashes>>

InsertUser(r) ==
  /\ At(r, "insertUser")
  /\ IF req[r].user \in accounts
     THEN Finish(r) /\ UNCHANGED accounts
     ELSE GoTo(r, "issue") /\ accounts' = accounts \cup {req[r].user}
  /\ UNCHANGED <<otpVars, disabled, tokenVars, asked, crashes>>

\* register_email, when the address is not found.
RegisterEmail(r, e) ==
  /\ e \notin accounts
  /\ Start(r, "register_email", [Idle EXCEPT !.pc = "insertEmail", !.user = e])
  /\ UNCHANGED <<otpVars, accounts, disabled, tokenVars, asked, crashes>>

\* login_email, with the right password of an active account.
LoginEmail(r, e) ==
  /\ e \in accounts \ disabled
  /\ Start(r, "login_email", [Idle EXCEPT !.pc = "issue", !.user = e])
  /\ UNCHANGED <<otpVars, accounts, disabled, tokenVars, asked, crashes>>

\* Nothing in src/ clears users.is_active: an operator does, in the table.
Disable(u) ==
  /\ "disable" \in asked /\ u \in accounts \ disabled
  /\ disabled' = disabled \cup {u}
  /\ UNCHANGED <<otpVars, accounts, tokenVars, req, asked, crashes>>

-----------------------------------------------------------------------------
(* Refresh tokens.                                                         *)

\* _persist_refresh_token, at the commit of a sign-in: a session begins.
BeginSession(u) ==
  \E t \in Tokens :
    /\ ~Issued(t)
    /\ holder' = [holder EXCEPT ![t] = u]
    /\ session' = [session EXCEPT ![t] = t]
    /\ UNCHANGED <<revoked, expired, ended, raced>>

\* The end of verify_otp and of login_email.
Issue(r) ==
  /\ At(r, "issue")
  /\ BeginSession(req[r].user)
  /\ Finish(r)
  /\ UNCHANGED <<otpVars, accounts, disabled, asked, crashes>>

\* register_email: the account and its token are one commit, which fails when
\* the address was inserted since it was looked up.
InsertEmail(r) ==
  /\ At(r, "insertEmail")
  /\ IF req[r].user \in accounts
     THEN UNCHANGED <<accounts, tokenVars>>
     ELSE BeginSession(req[r].user) /\ accounts' = accounts \cup {req[r].user}
  /\ Finish(r)
  /\ UNCHANGED <<otpVars, disabled, asked, crashes>>

\* refresh_token, when the row is found not revoked and not expired.
RefreshToken(r, t) ==
  /\ Live(t) /\ t \notin expired
  /\ Start(r, "refresh_token",
           [Idle EXCEPT !.pc = "readUser", !.user = holder[t], !.tokens = {t}])
  /\ UNCHANGED <<otpVars, accounts, disabled, tokenVars, asked, crashes>>

ReadUser(r) ==
  /\ At(r, "readUser")
  /\ IF req[r].user \in disabled THEN Finish(r) ELSE GoTo(r, "rotate")
  /\ UNCHANGED <<otpVars, accounts, disabled, tokenVars, asked, crashes>>

\* Sessions of the tokens a commit revokes though another had revoked them.
Overtaken(gone) == {session[t] : t \in gone \cap revoked}

\* Mutant: the child is issued and the parent is not revoked.
RotateKeeping(r) ==
  /\ At(r, "rotate")
  /\ \E old \in req[r].tokens, new \in Tokens :
       /\ ~Issued(new)
       /\ holder' = [holder EXCEPT ![new] = req[r].user]
       /\ session' = [session EXCEPT ![new] = session[old]]
  /\ Finish(r)
  /\ UNCHANGED <<otpVars, accounts, disabled, revoked, expired, ended, raced, asked, crashes>>

\* Mutant: the child begins a session of its own.
RotateAdrift(r) ==
  /\ At(r, "rotate")
  /\ \E old \in req[r].tokens, new \in Tokens :
       /\ ~Issued(new)
       /\ holder' = [holder EXCEPT ![new] = req[r].user]
       /\ session' = [session EXCEPT ![new] = new]
       /\ revoked' = revoked \cup {old}
       /\ raced' = raced \cup Overtaken({old})
  /\ Finish(r)
  /\ UNCHANGED <<otpVars, accounts, disabled, expired, ended, asked, crashes>>

\* refresh_token's commit: the old row is revoked, whether or not it still was
\* live, and the new one inserted.
Rotate(r) ==
  /\ At(r, "rotate")
  /\ \E old \in req[r].tokens, new \in Tokens :
       /\ ~Issued(new)
       /\ holder' = [holder EXCEPT ![new] = req[r].user]
       /\ session' = [session EXCEPT ![new] = session[old]]
       /\ revoked' = revoked \cup {old}
       /\ raced' = raced \cup Overtaken({old})
  /\ Finish(r)
  /\ UNCHANGED <<otpVars, accounts, disabled, expired, ended, asked, crashes>>

\* logout, when the row is found not revoked: it may be expired.
Logout(r, t) ==
  /\ Live(t)
  /\ Start(r, "logout", [Idle EXCEPT !.pc = "revoke", !.user = holder[t], !.tokens = {t}])
  /\ UNCHANGED <<otpVars, accounts, disabled, tokenVars, asked, crashes>>

LiveOf(u) == {t \in Tokens : holder[t] = u /\ t \notin revoked}

\* logout_all, by the bearer of an access token: one SELECT reads the rows.
LogoutAll(r, u) ==
  /\ u \in accounts \ disabled
  /\ Start(r, "logout_all", [Idle EXCEPT !.pc = "revoke", !.user = u, !.tokens = LiveOf(u)])
  /\ UNCHANGED <<otpVars, accounts, disabled, tokenVars, asked, crashes>>

\* Mutant: the loop over the rows stops after the first.
RevokeFirst(r) ==
  LET gone == req[r].tokens
      over == {session[t] : t \in gone}
  IN  /\ At(r, "revoke")
      /\ \E first \in SUBSET gone :
           /\ Cardinality(first) <= 1 /\ (first = {} <=> gone = {})
           /\ revoked' = revoked \cup first
      /\ ended' = ended \cup over
      /\ raced' = raced \cup Overtaken(gone)
      /\ Finish(r)
      /\ UNCHANGED <<otpVars, accounts, disabled, holder, session, expired, asked, crashes>>

\* The commit of logout and of logout_all.  A token of these sessions that was
\* issued after the rows were read is not revoked.
Revoke(r) ==
  LET gone == req[r].tokens
      over == {session[t] : t \in gone}
  IN  /\ At(r, "revoke")
      /\ revoked' = revoked \cup gone
      /\ ended' = ended \cup over
      /\ raced' = raced \cup Overtaken(gone)
      /\ Finish(r)
      /\ UNCHANGED <<otpVars, accounts, disabled, holder, session, expired, asked, crashes>>

\* expires_at passes.
Expire(t) ==
  /\ "expire" \in asked /\ Live(t) /\ t \notin expired
  /\ expired' = expired \cup {t}
  /\ UNCHANGED <<otpVars, accounts, disabled, holder, session, revoked, ended, raced,
                 req, asked, crashes>>

\* A request dies: what it wrote to Redis stays, what it had not committed is
\* lost.  A code it had accepted is still there to be accepted.
Fail(r) ==
  /\ ~At(r, "idle") /\ crashes < MaxCrashes
  /\ crashes' = crashes + 1
  /\ use' = IF At(r, "deleteOtp") THEN [use EXCEPT ![req[r].user].exposed = TRUE] ELSE use
  /\ Finish(r)
  /\ UNCHANGED <<otp, attempts, sms, blocked, accounts, disabled, tokenVars, asked>>

Next ==
  \/ \E r \in Requests, p \in Phones : RegisterPhone(r, p) \/ VerifyOtp(r, p)
  \/ \E r \in Requests, e \in Emails : RegisterEmail(r, e) \/ LoginEmail(r, e)
  \/ \E r \in Requests, t \in Tokens : RefreshToken(r, t) \/ Logout(r, t)
  \/ \E r \in Requests, u \in Users : LogoutAll(r, u)
  \/ \E r \in Requests :
       \/ CountSms(r) \/ ExpireSms(r) \/ SaveOtp(r) \/ SaveAttempts(r)
       \/ GetOtp(r) \/ Attempt(r) \/ Block(r) \/ DeleteOtp(r)
       \/ FindUser(r) \/ InsertUser(r) \/ InsertEmail(r) \/ Issue(r)
       \/ ReadUser(r) \/ Rotate(r) \/ Revoke(r)
       \/ Fail(r)
  \/ \E p \in Phones : ExpireKey(p)
  \/ \E u \in Users : Disable(u)
  \/ \E t \in Tokens : Expire(t)

Spec == Init /\ [][Next]_vars

-----------------------------------------------------------------------------
(* Properties.                                                             *)

\* Rotation is one step and revocation is for good: the rows of
\* refresh_tokens implement SessionLifecycle under every interleaving.
Sessions == INSTANCE SessionLifecycle WITH
  state <- [t \in Tokens |-> IF ~Issued(t) THEN "unissued"
                             ELSE IF t \in revoked THEN "revoked" ELSE "live"],
  session <- session

ImplementsSessionLifecycle == Sessions!Spec

\* refresh_token.py:8 "une ligne par device": a session has one live token,
\* unless a commit revoked a token that another request had revoked since it
\* was read (two refreshes of one token: each issues a child).
OneLiveTokenPerSession ==
  \A t1, t2 \in Tokens :
    Live(t1) /\ Live(t2) /\ session[t1] = session[t2] => t1 = t2 \/ session[t1] \in raced

\* A session that logout or logout_all ended has no live token left, unless a
\* refresh raced it: the child it commits survives the logout.
EndedSessionIsDead ==
  \A t \in Tokens : Live(t) /\ session[t] \in ended => session[t] \in raced

\* OTP_MAX_ATTEMPTS bounds the tries of one code however verifications
\* interleave, unless the reset of the count (save_otp's second command) came
\* after a first try or not at all.
TriesArePerCode ==
  \A p \in Phones :
    otp[p] # None => use[p].torn \/ use[p].tries <= OTP_MAX_ATTEMPTS

\* A code whose tries are used up is being deleted or its phone blocked: no
\* further verification starts on it.  A crash before block_phone leaves it.
UsedUpCodeIsBlocked ==
  \A p \in Phones :
    otp[p] # None /\ ~use[p].torn /\ use[p].tries >= OTP_MAX_ATTEMPTS
    => \/ p \in blocked
       \/ \E r \in Requests : req[r].user = p /\ req[r].pc \in {"block", "deleteOtp"}
       \/ crashes > 0

\* A code signs in once.  It is compared before it is deleted, so twice only
\* when two verifications held it together or the first died before del.
CodeAcceptedOnce ==
  \A p \in Phones : use[p].accepted <= 1 \/ use[p].exposed

\* A count of SMS ends: incr and expire are two commands, and only the crash
\* of a request between them leaves a count that bars the phone for good.
SmsCountEnds ==
  \A p \in Phones :
    sms[p].n > 0 /\ sms[p].ttl = "none"
    => crashes > 0 \/ \E r \in Requests : req[r].user = p /\ At(r, "expireSms")

=============================================================================
