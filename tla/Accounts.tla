-------------------------------- MODULE Accounts --------------------------------
(***************************************************************************)
(* One account: registration, one-time codes, sign-in and lockout, access  *)
(* and refresh tokens, and the ways an account is closed (internal/auth,   *)
(* internal/user, the user routes of internal/admin, pkg/middleware).      *)
(*                                                                         *)
(* No statement of these packages touches two accounts, so one is enough.  *)
(* Each request is a call that goes through the statements of its handler  *)
(* one by one, interleaved with the others; a call makes one request.      *)
(* Redis is up and the hosts' clocks agree: without either, the revocation *)
(* check fails open, which pkg/middleware/revoke.go says and accepts.      *)
(***************************************************************************)
EXTENDS Integers, Sequences, FiniteSets

CONSTANTS
  Plans,          \* sequences of kinds of request: what callers may ask, in which order
  MaxCalls,       \* length of the longest plan
  LastInstant,    \* bound on the clock, but for calls that wait for it
  MaxAttempts,    \* otpMaxAttempts
  PerHour,        \* otpMaxResendsHour
  Cooldown, Hour, Expiry,       \* otpCooldown, an hour, otpExpiry, in instants
  MaxFailed, Lockout,           \* maxFailedAttempts, lockoutDuration
  RefreshTTL,     \* lifetime of a refresh token
  NoOne

ASSUME AccountsAssumption ==
  /\ {MaxCalls, LastInstant, MaxAttempts, PerHour} \subseteq Nat
  /\ {Cooldown, Hour, Expiry, MaxFailed, Lockout, RefreshTTL} \subseteq Nat \ {0}

VARIABLES
  now,            \* the clock
  account,        \* the users row with its profile and vendors rows, or NoOne
  session,        \* the sequence of sessions issued: access and refresh token
  cutoff,         \* revoked_before in Redis
  signOuts,       \* the sign-outs so far: when each read the clock, how many have
                  \* written the cutoff, and which of them wrote it last
  code,           \* the sequence of otp_verification rows
  call            \* the requests of the plan and how far each has come

vars == <<now, account, session, cutoff, signOuts, code, call>>

Calls == 1 .. MaxCalls
Roles == {"ROLE_CUSTOMER", "ROLE_HALL_OWNER"}
Statuses == {"PENDING_VERIFICATION", "ACTIVE", "INACTIVE", "SUSPENDED"}
OtpTypes == {"VERIFICATION", "PASSWORD_RESET"}

Done == [step |-> "done"]
At(step) == [step |-> step]

\* Requests are made one after another and answered in any order.
Starts(c, kind) ==
  /\ call[c] = [step |-> "new", kind |-> kind]
  /\ \A d \in 1 .. c - 1 : call[d].step # "new"
Is(c, step) == call[c].step = step
Goes(c, next) == call' = [call EXCEPT ![c] = next]

Registered == account # NoOne
Locked(u) == u.locked > now

\* canSignIn.
CanSignIn(u) ==
  /\ ~u.deleted
  /\ \/ u.status = "ACTIVE"
     \/ u.status = "PENDING_VERIFICATION" /\ (u.role = "ROLE_HALL_OWNER" => u.verified)

\* A plausible bug: a token minted in the sign-out's instant survives it.
RevokedBefore(iat) == iat < cutoff

\* Revoker.Revoked: a token minted at or before the cutoff is dead.
Revoked(iat) == iat <= cutoff

\* RequireAuth.
Accepted(s) == ~Revoked(session[s].iat)

--------------------------------------------------------------------------------
(* Registration: createAccount *)

\* The row createAccount inserts: nothing confirmed yet, profile and business
\* still to come.
NewAccount(role) ==
  [role |-> role, status |-> "PENDING_VERIFICATION", verified |-> FALSE, deleted |-> FALSE,
   failed |-> 0, locked |-> 0, profile |-> FALSE, business |-> FALSE]

\* doRegister lets a complete request through; ExistsByEmail and ExistsByPhone
\* are read before the insert.
Register(c, role) ==
  /\ Starts(c, "register")
  /\ Goes(c, IF Registered THEN Done ELSE [step |-> "insert", role |-> role])
  /\ UNCHANGED <<now, account, session, cutoff, signOuts, code>>

\* CreateUser: the user and its role in one transaction, refused by the unique
\* columns when another request was first.
CreateUser(c) ==
  /\ Is(c, "insert")
  /\ IF Registered
     THEN account' = account /\ Goes(c, Done)
     ELSE account' = NewAccount(call[c].role) /\ Goes(c, At("profile"))
  /\ UNCHANGED <<now, session, cutoff, signOuts, code>>

\* OnUserCreated: best effort, its failure is logged and the account stands.
EnsureProfile(c) ==
  /\ Is(c, "profile")
  /\ \E made \in BOOLEAN : account' = [account EXCEPT !.profile = made]
  /\ Goes(c, [step |-> IF account.role = "ROLE_HALL_OWNER" THEN "business" ELSE "latest",
              type |-> "VERIFICATION"])
  /\ UNCHANGED <<now, session, cutoff, signOuts, code>>

\* OnVendorCreated: best effort as well.
CreateBusiness(c) ==
  /\ Is(c, "business")
  /\ \E made \in BOOLEAN : account' = [account EXCEPT !.business = made]
  /\ Goes(c, [step |-> "latest", type |-> "VERIFICATION"])
  /\ UNCHANGED <<now, session, cutoff, signOuts, code>>

\* createUser of the admin: active and verified at once, with its profile.
AdminCreateUser(c, role) ==
  /\ Starts(c, "create")
  /\ account' = IF Registered THEN account
                ELSE [NewAccount(role) EXCEPT !.status = "ACTIVE", !.verified = TRUE,
                                              !.profile = TRUE]
  /\ Goes(c, Done)
  /\ UNCHANGED <<now, session, cutoff, signOuts, code>>

--------------------------------------------------------------------------------
(* One-time codes *)

RowsOf(type) == {k \in DOMAIN code : code[k].type = type}
LatestOtp(type) == CHOOSE k \in RowsOf(type) : \A j \in RowsOf(type) : j <= k
Outstanding(type) == {k \in RowsOf(type) : ~code[k].used}

\* The rows an open CreateOtp transaction has updated are locked until it commits.
RowLocked(k) == \E d \in Calls : Is(d, "newcode") /\ k \in call[d].old

\* Both are silent when there is no account.
RequestCode(c, type) ==
  /\ Starts(c, "code")
  /\ Goes(c, IF Registered THEN [step |-> "latest", type |-> type] ELSE Done)
  /\ UNCHANGED <<now, account, session, cutoff, signOuts, code>>

ResendOtp(c) == \E type \in OtpTypes : RequestCode(c, type)
ForgotPassword(c) == RequestCode(c, "PASSWORD_RESET")

\* store, first statement: the cooldown since the newest code.
CheckCooldown(c) ==
  /\ Is(c, "latest")
  /\ LET type == call[c].type
         cooling == RowsOf(type) # {} /\ now - code[LatestOtp(type)].born < Cooldown
     IN Goes(c, IF cooling THEN Done ELSE [call[c] EXCEPT !.step = "count"])
  /\ UNCHANGED <<now, account, session, cutoff, signOuts, code>>

\* store, second statement: the codes of the last hour.
CountRecent(c) ==
  /\ Is(c, "count")
  /\ LET recent == {k \in RowsOf(call[c].type) : code[k].born > now - Hour}
     IN Goes(c, IF Cardinality(recent) >= PerHour
                THEN Done ELSE [call[c] EXCEPT !.step = "retire"])
  /\ UNCHANGED <<now, account, session, cutoff, signOuts, code>>

\* CreateOtp: its UPDATE sees the codes committed by now, and waits for rows
\* another transaction has locked.
RetireCodes(c) ==
  /\ Is(c, "retire")
  /\ \A k \in Outstanding(call[c].type) : ~RowLocked(k)
  /\ Goes(c, [step |-> "newcode", type |-> call[c].type, old |-> Outstanding(call[c].type)])
  /\ UNCHANGED <<now, account, session, cutoff, signOuts, code>>

\* CreateOtp: its INSERT and the commit.
CreateOtp(c) ==
  /\ Is(c, "newcode")
  /\ code' = Append([k \in DOMAIN code |->
                       [code[k] EXCEPT !.used = code[k].used \/ k \in call[c].old]],
                    [type |-> call[c].type, born |-> now, used |-> FALSE,
                     tries |-> 0, accepted |-> 0])
  /\ Goes(c, Done)
  /\ UNCHANGED <<now, account, session, cutoff, signOuts>>

\* Verify, first statement, with a right or a wrong code: VerifyOtp and
\* ResetPassword.
VerifyCode(c, type, right) ==
  /\ Starts(c, "verify")
  /\ LET k == LatestOtp(type)
         open == /\ RowsOf(type) # {}
                 /\ ~code[k].used
                 /\ now - code[k].born <= Expiry
                 /\ code[k].tries < MaxAttempts
     IN Goes(c, IF open THEN [step |-> "bump", otp |-> k, right |-> right] ELSE Done)
  /\ UNCHANGED <<now, account, session, cutoff, signOuts, code>>

\* A plausible bug: the UPDATE trusts what the first statement read.
AlwaysSpendable(k) == k \in DOMAIN code

\* BumpOtpAttempt's WHERE clause.
Spendable(k) == ~code[k].used /\ code[k].tries < MaxAttempts

\* Verify, second statement: every guess spends an attempt, if one is left.
BumpOtpAttempt(c) ==
  /\ Is(c, "bump")
  /\ ~RowLocked(call[c].otp)
  /\ LET k == call[c].otp
         spent == Spendable(k)
         hit == spent /\ call[c].right
     IN /\ code' = IF spent
                   THEN [code EXCEPT ![k].tries = @ + 1, ![k].used = call[c].right,
                                     ![k].accepted = IF hit THEN @ + 1 ELSE @]
                   ELSE code
        /\ Goes(c, CASE ~hit -> Done
                     [] code[k].type = "VERIFICATION" -> At("mark")
                     [] OTHER -> At("password"))
  /\ UNCHANGED <<now, account, session, cutoff, signOuts>>

\* VerifyOtp: MarkVerified, then a session for the account.
MarkVerified(c) ==
  /\ Is(c, "mark")
  /\ account' = [account EXCEPT !.verified = TRUE,
                   !.status = IF @ = "PENDING_VERIFICATION" THEN "ACTIVE" ELSE @]
  /\ Goes(c, [step |-> "wait", from |-> 0])
  /\ UNCHANGED <<now, session, cutoff, signOuts, code>>

\* ResetPassword: UpdatePassword lifts the lock, then every session ends.
UpdatePassword(c) ==
  /\ Is(c, "password")
  /\ account' = [account EXCEPT !.failed = 0, !.locked = 0]
  /\ Goes(c, At("revoke"))
  /\ UNCHANGED <<now, session, cutoff, signOuts, code>>

--------------------------------------------------------------------------------
(* Sign-in *)

\* Login up to its first write: the lock is looked at before the password.
Login(c, right) ==
  /\ Starts(c, "login")
  /\ Goes(c, CASE ~Registered -> Done
               [] Registered /\ (Locked(account) \/ ~right) -> At("failure")
               [] Registered /\ ~Locked(account) /\ right ->
                    [step |-> IF account.locked # 0 THEN "clear" ELSE "admit",
                     may |-> CanSignIn(account)])
  /\ UNCHANGED <<now, account, session, cutoff, signOuts, code>>

\* The lock RecordFailedAttempt leaves: set when the threshold is crossed, and
\* never moved while it lasts.
LockAfterFailure(u) ==
  IF u.failed + 1 >= MaxFailed /\ u.locked <= now THEN now + Lockout ELSE u.locked

RecordFailedAttempt(c) ==
  /\ Is(c, "failure")
  /\ account' = [account EXCEPT !.failed = IF @ < MaxFailed THEN @ + 1 ELSE @,
                                !.locked = LockAfterFailure(account)]
  /\ Goes(c, Done)
  /\ UNCHANGED <<now, session, cutoff, signOuts, code>>

ClearExpiredLock(c) ==
  /\ Is(c, "clear")
  /\ account' = IF account.locked # 0 /\ account.locked <= now
                THEN [account EXCEPT !.failed = 0, !.locked = 0] ELSE account
  /\ Goes(c, [call[c] EXCEPT !.step = "admit"])
  /\ UNCHANGED <<now, session, cutoff, signOuts, code>>

\* canSignIn of the user read at the start, then RecordSuccessfulAttempt.
RecordSuccessfulAttempt(c) ==
  /\ Is(c, "admit")
  /\ IF call[c].may
     THEN /\ account' = [account EXCEPT !.failed = 0, !.locked = 0]
          /\ Goes(c, [step |-> "wait", from |-> 0])
     ELSE account' = account /\ Goes(c, Done)
  /\ UNCHANGED <<now, session, cutoff, signOuts, code>>

\* Issue: WaitPast reads the cutoff and sleeps until the clock is past it.
WaitPast(c) ==
  /\ Is(c, "wait")
  /\ Goes(c, [step |-> "mint", from |-> call[c].from, until |-> cutoff,
              waited |-> signOuts.landed])
  /\ UNCHANGED <<now, account, session, cutoff, signOuts, code>>

Mint(c) ==
  /\ Is(c, "mint")
  /\ now > call[c].until
  /\ Goes(c, [step |-> "hand", from |-> call[c].from, iat |-> now,
              waited |-> call[c].waited, minted |-> Len(signOuts.reads)])
  /\ UNCHANGED <<now, account, session, cutoff, signOuts, code>>

\* CreateRefreshToken, and the pair is handed to the caller.
HandOver(c) ==
  /\ Is(c, "hand")
  /\ session' = Append([s \in DOMAIN session |->
                          [session[s] EXCEPT !.heirs = IF s = call[c].from THEN @ + 1 ELSE @]],
                       [iat |-> call[c].iat, born |-> now, live |-> TRUE, heirs |-> 0,
                        waited |-> call[c].waited, minted |-> call[c].minted])
  /\ Goes(c, Done)
  /\ UNCHANGED <<now, account, cutoff, signOuts, code>>

--------------------------------------------------------------------------------
(* Refresh and sign-out *)

\* Rotate, first statement: FindRefreshToken and its expiry.
Refresh(c, s) ==
  /\ Starts(c, "refresh")
  /\ Goes(c, IF now > session[s].born + RefreshTTL THEN Done
             ELSE [step |-> "claim", token |-> s])
  /\ UNCHANGED <<now, account, session, cutoff, signOuts, code>>

\* A plausible bug: the claim does not ask whether it won.
ClaimUnchecked(c) ==
  /\ Is(c, "claim")
  /\ session' = [session EXCEPT ![call[c].token].live = FALSE]
  /\ Goes(c, [step |-> "reread", token |-> call[c].token])
  /\ UNCHANGED <<now, account, cutoff, signOuts, code>>

\* A plausible bug: the loser of the claim waits for the row to be free again.
ClaimAgain(c) == Is(c, "claim") /\ session[call[c].token].live /\ ClaimUnchecked(c)

\* Rotate, second statement: of two requests with one token one claims it, and
\* the other ends every session.
RevokeRefreshToken(c) ==
  /\ Is(c, "claim")
  /\ LET t == call[c].token
     IN IF session[t].live
        THEN /\ session' = [session EXCEPT ![t].live = FALSE]
             /\ Goes(c, [step |-> "reread", token |-> t])
        ELSE /\ session' = session
             /\ Goes(c, At("revoke"))
  /\ UNCHANGED <<now, account, cutoff, signOuts, code>>

\* Refresh: the account must still be allowed to sign in.
Reread(c) ==
  /\ Is(c, "reread")
  /\ Goes(c, IF CanSignIn(account) THEN [step |-> "wait", from |-> call[c].token] ELSE Done)
  /\ UNCHANGED <<now, account, session, cutoff, signOuts, code>>

AllRevoked == [s \in DOMAIN session |-> [session[s] EXCEPT !.live = FALSE]]

\* RevokeAll, the refresh tokens.
RevokeAllUserTokens(c) ==
  /\ Is(c, "revoke")
  /\ session' = AllRevoked
  /\ Goes(c, At("stamp"))
  /\ UNCHANGED <<now, account, cutoff, signOuts, code>>

\* Revoker.RevokeAll, its argument: the clock is read before the SET is sent.
StampCutoff(c) ==
  /\ Is(c, "stamp")
  /\ signOuts' = [signOuts EXCEPT !.reads = Append(@, now)]
  /\ Goes(c, [step |-> "set", at |-> now, nth |-> Len(signOuts.reads) + 1])
  /\ UNCHANGED <<now, account, session, cutoff, code>>

\* Revoker.RevokeAll, the SET: whatever is there is overwritten, a later stamp
\* included.
SetCutoff(c) ==
  /\ Is(c, "set")
  /\ cutoff' = call[c].at
  /\ signOuts' = [signOuts EXCEPT !.landed = @ + 1, !.last = call[c].nth]
  /\ Goes(c, Done)
  /\ UNCHANGED <<now, account, session, code>>

\* Revoke: RevokeRefreshTokenByHash, whatever the token's state.
Logout(c, s) ==
  /\ Starts(c, "logout")
  /\ session' = [session EXCEPT ![s].live = FALSE]
  /\ Goes(c, At("stamp"))
  /\ UNCHANGED <<now, account, cutoff, signOuts, code>>

\* Routes behind RequireAuth.
SignedIn == \E s \in DOMAIN session : Accepted(s)

LogoutAllDevices(c) ==
  /\ Starts(c, "logout")
  /\ SignedIn
  /\ Goes(c, At("revoke"))
  /\ UNCHANGED <<now, account, session, cutoff, signOuts, code>>

--------------------------------------------------------------------------------
(* Closing the account *)

\* SoftDelete by its holder, in one transaction with the refresh tokens.
DeleteAccount(c) ==
  /\ Starts(c, "close")
  /\ SignedIn
  /\ account' = [account EXCEPT !.deleted = TRUE, !.status = "INACTIVE", !.profile = FALSE]
  /\ session' = AllRevoked
  /\ Goes(c, At("stamp"))
  /\ UNCHANGED <<now, cutoff, signOuts, code>>

\* deleteUser: the profile stays.
AdminDeleteUser(c) ==
  /\ Starts(c, "close")
  /\ Registered
  /\ account' = [account EXCEPT !.deleted = TRUE, !.status = "INACTIVE"]
  /\ session' = AllRevoked
  /\ Goes(c, At("stamp"))
  /\ UNCHANGED <<now, cutoff, signOuts, code>>

\* updateUser: any status to any; the refresh tokens stay, refused by the status.
AdminUpdateUser(c, status) ==
  /\ Starts(c, "close")
  /\ Registered
  /\ account' = [account EXCEPT !.status = status]
  /\ Goes(c, IF status \in {"SUSPENDED", "INACTIVE"} THEN At("stamp") ELSE Done)
  /\ UNCHANGED <<now, session, cutoff, signOuts, code>>

\* blockUser toggles, in one statement.
BlockUser(c) ==
  /\ Starts(c, "close")
  /\ Registered
  /\ ~account.deleted
  /\ IF account.status = "SUSPENDED"
     THEN /\ account' = [account EXCEPT !.status = "ACTIVE"]
          /\ session' = session
          /\ Goes(c, Done)
     ELSE /\ account' = [account EXCEPT !.status = "SUSPENDED"]
          /\ session' = AllRevoked
          /\ Goes(c, At("stamp"))
  /\ UNCHANGED <<now, cutoff, signOuts, code>>

--------------------------------------------------------------------------------
Init ==
  /\ now = 1
  /\ account = NoOne
  /\ session = <<>>
  /\ cutoff = 0
  /\ signOuts = [reads |-> <<>>, landed |-> 0, last |-> 0]
  /\ code = <<>>
  /\ \E plan \in Plans :
       call = [c \in Calls |-> IF c \in DOMAIN plan
                               THEN [step |-> "new", kind |-> plan[c]] ELSE Done]

\* The clock, bounded except for the calls that sleep until it moves.
Tick ==
  /\ now < LastInstant \/ \E c \in Calls : Is(c, "mint") /\ call[c].until >= now
  /\ now' = now + 1
  /\ UNCHANGED <<account, session, cutoff, signOuts, code, call>>

\* A request arrives.
Request(c) ==
  \/ \E role \in Roles : Register(c, role) \/ AdminCreateUser(c, role)
  \/ ResendOtp(c) \/ ForgotPassword(c)
  \/ \E type \in OtpTypes, right \in BOOLEAN : VerifyCode(c, type, right)
  \/ \E right \in BOOLEAN : Login(c, right)
  \/ \E s \in DOMAIN session : Refresh(c, s) \/ Logout(c, s)
  \/ LogoutAllDevices(c)
  \/ DeleteAccount(c)
  \/ AdminDeleteUser(c)
  \/ \E status \in Statuses : AdminUpdateUser(c, status)
  \/ BlockUser(c)

\* The next statement of a request.
Continue(c) ==
  \/ CreateUser(c) \/ EnsureProfile(c) \/ CreateBusiness(c)
  \/ CheckCooldown(c) \/ CountRecent(c) \/ RetireCodes(c) \/ CreateOtp(c)
  \/ BumpOtpAttempt(c) \/ MarkVerified(c) \/ UpdatePassword(c)
  \/ RecordFailedAttempt(c) \/ ClearExpiredLock(c) \/ RecordSuccessfulAttempt(c)
  \/ WaitPast(c) \/ Mint(c) \/ HandOver(c)
  \/ RevokeRefreshToken(c) \/ Reread(c) \/ RevokeAllUserTokens(c)
  \/ StampCutoff(c) \/ SetCutoff(c)

Next == Tick \/ \E c \in Calls : Request(c) \/ Continue(c)

Spec == Init /\ [][Next]_vars

\* The server runs every handler on, and time passes.
FairSpec == Spec /\ WF_vars(Tick) /\ \A c \in Calls : WF_vars(Continue(c))

--------------------------------------------------------------------------------
\* The sign-out in force is the one whose SET landed last: it ends every access
\* token minted before it read the clock, whatever came between its clock read
\* and its SET (RevokeAll: "issued to this user up to now").  It is not always
\* the latest to have read the clock: of two on their way, the earlier stamp may
\* land last and let a token between the two live again.
SignedOutIsOut ==
  \A s \in DOMAIN session : session[s].minted < signOuts.last => ~Accepted(s)

\* A session that waited for the cutoff in force works at once, even when it was
\* asked for in that sign-out's own millisecond (WaitPast).
NewSessionsWork ==
  \A s \in DOMAIN session : session[s].waited = signOuts.landed => Accepted(s)

\* The cutoff of the access tokens separates the sessions before the sign-out in
\* force from the sessions that waited for it, whatever statements the sign-outs,
\* sign-ins and refreshes of one account interleave, and although it counts
\* whole milliseconds.
CutoffExact == SignedOutIsOut /\ NewSessionsWork

\* A refresh token is exchanged for one session at most, however many requests
\* present it together (Rotate).
OneHeir == \A s \in DOMAIN session : session[s].heirs <= 1

\* A code is accepted once at most and within the attempts it allows, however
\* many guesses arrive together (BumpOtpAttempt).
CodeSpentOnce ==
  \A k \in DOMAIN code : code[k].accepted <= 1 /\ code[k].tries <= MaxAttempts

\* Wrong passwords do not move the end of a lock that holds (RecordFailedAttempt).
LockKept == (Registered /\ Locked(account)) => account'.locked \in {0, account.locked}

\* Guessing gets nowhere: not at a code, however many guesses arrive together,
\* and not at a password, where it does not keep the owner out for longer either.
GuessingBounded == [][CodeSpentOnce' /\ LockKept]_vars

\* Every request is answered, those that sleep past a cutoff included.  A plan
\* has finitely many, so this is that they are all answered from some point on.
EveryRequestAnswered == <>[](\A c \in Calls : call[c].step \in {"new", "done"})

================================================================================
