----------------------------- MODULE AccountsProofs ----------------------------
(***************************************************************************)
(* Proofs about Accounts, for any plans of requests, any bounds on         *)
(* attempts, codes and failures, and any lifetimes.                        *)
(***************************************************************************)
EXTENDS Accounts, WellFoundedInduction, TLAPS

AccountType ==
  [role : Roles, status : Statuses, verified : BOOLEAN, deleted : BOOLEAN,
   failed : Nat, locked : Nat, profile : BOOLEAN, business : BOOLEAN]

SessionType ==
  [iat : Nat, born : Nat, live : BOOLEAN, heirs : Nat, waited : Nat, minted : Nat]

CodeType ==
  [type : OtpTypes, born : Nat, used : BOOLEAN, tries : Nat, accepted : Nat]

\* The cutoff in force is what some sign-out read, and no clock reads the future.
Reads == signOuts.reads
SignOutsTyped ==
  /\ signOuts \in [reads : Seq(Nat), landed : Nat, last : Nat]
  /\ \A n \in 1 .. Len(Reads) : Reads[n] <= now
  /\ \/ signOuts.last = 0 /\ cutoff = 0
     \/ signOuts.last \in 1 .. Len(Reads) /\ cutoff = Reads[signOuts.last]

RowsTyped ==
  /\ now \in Nat
  /\ SignOutsTyped
  /\ account \in AccountType \cup {NoOne}
  /\ session \in Seq(SessionType)
  /\ code \in Seq(CodeType)
  /\ session # <<>> \/ code # <<>> => account \in AccountType

\* What separates a session, or one about to be handed over, from the sign-outs:
\* minted after waiting for the one in force it is younger than the cutoff, minted
\* before one read the clock it is not younger than what that one read, landed or
\* on its way.
Separated(x) ==
  /\ x.iat <= now
  /\ x.waited <= signOuts.landed
  /\ x.minted <= Len(Reads)
  /\ x.waited = signOuts.landed => x.iat > cutoff
  /\ \A n \in 1 .. Len(Reads) : x.minted < n => x.iat <= Reads[n]

\* What a request remembers between two statements: the rows it names exist, the
\* cutoff it waits for is the one in force unless somebody signed out since, and
\* the cutoff it is about to write is what it read.
Remembers(x) ==
  /\ "step" \in DOMAIN x
  /\ x.step \notin {"new", "insert", "done"} => account \in AccountType
  /\ x.step = "insert" => x.role \in Roles
  /\ x.step \in {"latest", "count", "retire", "newcode"} =>
       "type" \in DOMAIN x /\ x.type \in OtpTypes
  /\ x.step = "bump" => x.otp \in DOMAIN code /\ x.right \in BOOLEAN
  /\ x.step \in {"claim", "reread"} => x.token \in DOMAIN session
  /\ x.step \in {"wait", "mint", "hand"} => x.from \in {0} \cup DOMAIN session
  /\ x.step = "mint" =>
       /\ x.until \in Nat
       /\ x.waited \in Nat /\ x.waited <= signOuts.landed
       /\ x.waited = signOuts.landed => x.until = cutoff
  /\ x.step = "hand" =>
       /\ {x.iat, x.waited, x.minted} \subseteq Nat
       /\ Separated(x)
  /\ x.step = "set" => x.nth \in 1 .. Len(Reads) /\ x.at = Reads[x.nth]

\* A request holds a refresh token from the moment it claimed it until it hands
\* over the session it was exchanged for.
Holds(x, s) ==
  \/ x.step = "reread" /\ x.token = s
  \/ x.step \in {"wait", "mint", "hand"} /\ x.from = s

\* A token is live, held by one request, exchanged, or spent.
TokenOK(s) ==
  /\ session[s].heirs <= 1
  /\ session[s].live => session[s].heirs = 0 /\ \A c \in Calls : ~Holds(call[c], s)
  /\ \A c \in Calls : Holds(call[c], s) =>
       session[s].heirs = 0 /\ \A d \in Calls : Holds(call[d], s) => c = d

\* A code that was accepted is used.
CodeOK(k) ==
  /\ code[k].accepted <= 1
  /\ code[k].accepted = 1 => code[k].used
  /\ code[k].tries <= MaxAttempts

CallsOK    == DOMAIN call = Calls /\ \A c \in Calls : Remembers(call[c])
SessionsOK == \A s \in DOMAIN session : Separated(session[s])
TokensOK   == \A s \in DOMAIN session : TokenOK(s)
CodesOK    == \A k \in DOMAIN code : CodeOK(k)

IInv == RowsTyped /\ CallsOK /\ SessionsOK /\ TokensOK /\ CodesOK

--------------------------------------------------------------------------------
(* What every step has in common *)

\* A sign-out reads the clock.
ClockRead ==
  /\ now' = now /\ cutoff' = cutoff
  /\ signOuts'.landed = signOuts.landed /\ signOuts'.last = signOuts.last
  /\ Len(Reads') = Len(Reads) + 1
  /\ Reads'[Len(Reads) + 1] = now
  /\ \A n \in 1 .. Len(Reads) : Reads'[n] = Reads[n]

\* A sign-out writes what it read.
SetLands ==
  /\ now' = now
  /\ Reads' = Reads
  /\ signOuts'.landed = signOuts.landed + 1

\* The clock and the cutoff: time passes, or somebody signs out.
Moves ==
  /\ now' \in Nat /\ now <= now'
  /\ SignOutsTyped'
  /\ UNCHANGED <<cutoff, signOuts>> \/ ClockRead \/ SetLands

\* A step that leaves the cutoff alone.
LEMMA TimePasses ==
  ASSUME RowsTyped, UNCHANGED <<cutoff, signOuts>>, now' \in Nat, now <= now'
  PROVE  Moves
<1>1. \A n \in 1 .. Len(Reads) : Reads[n] \in Nat
  BY DEF RowsTyped, SignOutsTyped, Reads
<1>2. SignOutsTyped'
  BY <1>1 DEF RowsTyped, SignOutsTyped, Reads
<1>. QED  BY <1>2 DEF Moves

\* Rows are never taken away.
Grows ==
  /\ account' \in AccountType \cup {NoOne}
  /\ account \in AccountType => account' \in AccountType
  /\ DOMAIN session \subseteq DOMAIN session'
  /\ DOMAIN code \subseteq DOMAIN code'

OnlyCall(c) == DOMAIN call' = Calls /\ \A d \in Calls \ {c} : call'[d] = call[d]

\* Refresh tokens are at most revoked.
TokensFade ==
  /\ session' \in Seq(SessionType)
  /\ DOMAIN session' = DOMAIN session
  /\ \A s \in DOMAIN session :
       /\ session'[s].iat = session[s].iat
       /\ session'[s].waited = session[s].waited
       /\ session'[s].minted = session[s].minted
       /\ session'[s].heirs = session[s].heirs
       /\ session'[s].live => session[s].live

\* A request's step changes what it remembers, and nobody else's memory.
LEMMA GoesIsOnly ==
  ASSUME NEW c \in Calls, NEW x, DOMAIN call = Calls, Goes(c, x)
  PROVE  OnlyCall(c) /\ call'[c] = x
BY DEF Goes, OnlyCall

\* Sessions stay separated from the sign-outs as time passes and as others sign
\* out: a sign-out reads a clock that is past everything minted so far.
LEMMA MovesSeparate ==
  ASSUME RowsTyped, Moves, NEW iat \in Nat, NEW waited \in Nat, NEW minted \in Nat,
         iat <= now, waited <= signOuts.landed, minted <= Len(Reads),
         waited = signOuts.landed => iat > cutoff,
         \A n \in 1 .. Len(Reads) : minted < n => iat <= Reads[n]
  PROVE  /\ iat <= now' /\ waited <= signOuts'.landed /\ minted <= Len(Reads')
         /\ waited = signOuts'.landed => iat > cutoff'
         /\ \A n \in 1 .. Len(Reads') : minted < n => iat <= Reads'[n]
<1>1. /\ now \in Nat /\ now' \in Nat /\ now <= now'
      /\ Len(Reads) \in Nat /\ signOuts.landed \in Nat
  BY DEF RowsTyped, SignOutsTyped, Reads, Moves
<1>2. CASE UNCHANGED <<cutoff, signOuts>>
  BY <1>1, <1>2 DEF Reads
<1>3. CASE ClockRead
  <2>1. minted <= Len(Reads') /\ iat <= now'
    BY <1>1, <1>3 DEF ClockRead
  <2>2. ASSUME NEW n \in 1 .. Len(Reads'), minted < n PROVE iat <= Reads'[n]
    <3>1. n \in 1 .. Len(Reads) \/ n = Len(Reads) + 1
      BY <1>1, <1>3 DEF ClockRead
    <3>. QED  BY <1>1, <1>3, <2>2, <3>1 DEF ClockRead
  <2>. QED  BY <1>3, <2>1, <2>2 DEF ClockRead
<1>4. CASE SetLands
  <2>1. waited < signOuts'.landed
    BY <1>1, <1>4 DEF SetLands
  <2>. QED  BY <1>1, <1>4, <2>1 DEF SetLands
<1>. QED  BY <1>2, <1>3, <1>4 DEF Moves

\* What a request remembers stays true while others take their steps.
LEMMA OthersRemember ==
  ASSUME RowsTyped, CallsOK, Moves, Grows, NEW d \in Calls, call'[d] = call[d]
  PROVE  Remembers(call[d])'
<1>1. Remembers(call[d])
  BY DEF CallsOK
<1>2. CASE call[d].step = "mint"
  <2>1. signOuts.landed \in Nat /\ call[d].waited \in Nat
    BY <1>1, <1>2 DEF Remembers, RowsTyped, SignOutsTyped
  <2>. QED  BY <1>1, <1>2, <2>1 DEF Remembers, Moves, Grows, ClockRead, SetLands
<1>3. CASE call[d].step = "hand"
  <2>1. Separated(call[d])'
    BY <1>1, <1>3, MovesSeparate DEF Remembers, Separated
  <2>. QED  BY <1>1, <1>3, <2>1 DEF Remembers, Grows
<1>4. CASE call[d].step = "set"
  <2>1. Len(Reads) \in Nat
    BY DEF RowsTyped, SignOutsTyped, Reads
  <2>2. call[d].nth \in 1 .. Len(Reads') /\ Reads'[call[d].nth] = Reads[call[d].nth]
    BY <1>1, <1>4, <2>1 DEF Remembers, Moves, ClockRead, SetLands, Reads
  <2>. QED  BY <1>1, <1>4, <2>2 DEF Remembers, Grows
<1>5. CASE call[d].step \notin {"mint", "hand", "set"}
  BY <1>1, <1>5 DEF Remembers, Grows
<1>. QED  BY <1>2, <1>3, <1>4, <1>5

LEMMA AllRemember ==
  ASSUME RowsTyped, CallsOK, Moves, Grows, NEW c \in Calls, OnlyCall(c), Remembers(call[c])'
  PROVE  CallsOK'
<1>1. \A d \in Calls \ {c} : Remembers(call[d])'
  BY OthersRemember DEF OnlyCall
<1>. QED  BY <1>1 DEF CallsOK, OnlyCall, Calls

LEMMA SessionsStay ==
  ASSUME RowsTyped, SessionsOK, Moves, TokensFade
  PROVE  SessionsOK'
<1>. SUFFICES ASSUME NEW s \in DOMAIN session PROVE Separated(session[s])'
  BY DEF SessionsOK, TokensFade
<1>1. session[s] \in SessionType
  BY DEF RowsTyped
<1>2. Separated(session[s])
  BY DEF SessionsOK
<1>3. /\ session[s].iat \in Nat /\ session[s].waited \in Nat /\ session[s].minted \in Nat
  BY <1>1 DEF SessionType
<1>4. /\ session'[s].iat = session[s].iat
      /\ session'[s].waited = session[s].waited
      /\ session'[s].minted = session[s].minted
  BY DEF TokensFade
<1>. QED  BY <1>2, <1>3, <1>4, MovesSeparate DEF Separated

LEMMA TokensStay ==
  ASSUME RowsTyped, CallsOK, TokensOK, TokensFade, NEW c \in Calls, OnlyCall(c),
         \A s \in DOMAIN session : Holds(call'[c], s) => Holds(call[c], s)
  PROVE  TokensOK'
<1>. SUFFICES ASSUME NEW s \in DOMAIN session PROVE TokenOK(s)'
  BY DEF TokensOK, TokensFade
<1>1. TokenOK(s)
  BY DEF TokensOK
<1>2. \A d \in Calls : Holds(call'[d], s) => Holds(call[d], s)
  BY DEF OnlyCall
<1>3. session'[s].heirs = session[s].heirs /\ (session'[s].live => session[s].live)
  BY DEF TokensFade
<1>4. (session[s].heirs <= 1)'
  BY <1>1, <1>3 DEF TokenOK
<1>5. (session[s].live => session[s].heirs = 0 /\ \A d \in Calls : ~Holds(call[d], s))'
  BY <1>1, <1>2, <1>3 DEF TokenOK, Calls
<1>6. (\A d \in Calls : Holds(call[d], s) =>
         session[s].heirs = 0 /\ \A e \in Calls : Holds(call[e], s) => d = e)'
  BY <1>1, <1>2, <1>3 DEF TokenOK, Calls
<1>. QED  BY <1>4, <1>5, <1>6 DEF TokenOK, Calls

\* The steps that leave the codes alone, give out no refresh token and claim none.
LEMMA OrdinaryStep ==
  ASSUME IInv, Moves, TokensFade, code' = code,
         account' \in AccountType \cup {NoOne},
         account \in AccountType => account' \in AccountType,
         NEW c \in Calls, OnlyCall(c), Remembers(call[c])',
         \A s \in DOMAIN session : Holds(call'[c], s) => Holds(call[c], s)
  PROVE  IInv'
<1>. USE DEF IInv
<1>1. Grows
  BY DEF Grows, TokensFade
<1>2. RowsTyped'
  <2>1. (session # <<>> \/ code # <<>> => account \in AccountType)'
    BY DEF RowsTyped, TokensFade
  <2>2. SignOutsTyped'
    BY DEF Moves
  <2>. QED  BY <2>1, <2>2 DEF RowsTyped, TokensFade, Moves
<1>3. CallsOK'
  BY <1>1, AllRemember
<1>4. SessionsOK'
  BY SessionsStay
<1>5. TokensOK'
  BY TokensStay
<1>6. CodesOK'
  BY DEF CodesOK, CodeOK
<1>. QED  BY <1>2, <1>3, <1>4, <1>5, <1>6

\* A step that changes no row but what the request remembers.
LEMMA QuietStep ==
  ASSUME IInv, UNCHANGED <<now, account, session, cutoff, signOuts, code>>,
         NEW c \in Calls, OnlyCall(c), Remembers(call[c])',
         \A s \in DOMAIN session : Holds(call'[c], s) => Holds(call[c], s)
  PROVE  IInv'
<1>1. Moves
  BY TimePasses DEF IInv, RowsTyped
<1>2. TokensFade
  BY DEF TokensFade, IInv, RowsTyped
<1>3. account' \in AccountType \cup {NoOne}
  BY DEF IInv, RowsTyped
<1>. QED  BY <1>1, <1>2, <1>3, OrdinaryStep

\* A step that changes the users row.
LEMMA AccountStep ==
  ASSUME IInv, UNCHANGED <<now, session, cutoff, signOuts, code>>, account' \in AccountType,
         NEW c \in Calls, OnlyCall(c), Remembers(call[c])',
         \A s \in DOMAIN session : Holds(call'[c], s) => Holds(call[c], s)
  PROVE  IInv'
<1>1. Moves
  BY TimePasses DEF IInv, RowsTyped
<1>2. TokensFade
  BY DEF TokensFade, IInv, RowsTyped
<1>. QED  BY <1>1, <1>2, OrdinaryStep

LEMMA RevokedOneFades ==
  ASSUME RowsTyped, NEW t \in DOMAIN session, session' = [session EXCEPT ![t].live = FALSE]
  PROVE  TokensFade
<1>1. \A s \in DOMAIN session : session[s] \in SessionType
  BY DEF RowsTyped
<1>2. \A x \in SessionType : [x EXCEPT !.live = FALSE] \in SessionType
  BY DEF SessionType
<1>3. session' \in Seq(SessionType)
  BY <1>1, <1>2 DEF RowsTyped
<1>4. \A s \in DOMAIN session : session'[s] = IF s = t THEN [session[s] EXCEPT !.live = FALSE]
                                             ELSE session[s]
  BY DEF RowsTyped
<1>. QED  BY <1>1, <1>3, <1>4 DEF TokensFade, SessionType, RowsTyped

LEMMA AllRevokedFades ==
  ASSUME RowsTyped, session' = AllRevoked
  PROVE  TokensFade
<1>1. \A s \in DOMAIN session : session[s] \in SessionType
  BY DEF RowsTyped
<1>2. \A x \in SessionType : [x EXCEPT !.live = FALSE] \in SessionType
  BY DEF SessionType
<1>3. \A s \in DOMAIN session : session'[s] = [session[s] EXCEPT !.live = FALSE]
  BY DEF AllRevoked
<1>4. Len(session) \in Nat /\ DOMAIN session = 1 .. Len(session)
  BY DEF RowsTyped
<1>5. session' \in Seq(SessionType) /\ DOMAIN session' = DOMAIN session
  BY <1>1, <1>2, <1>3, <1>4 DEF AllRevoked
<1>. QED  BY <1>1, <1>3, <1>5 DEF TokensFade, SessionType

--------------------------------------------------------------------------------
(* The newest code *)

\* A non-empty set of indices has a last one.
LEMMA LastIndex ==
  ASSUME NEW n \in Nat, NEW K \in SUBSET (1 .. n), K # {}
  PROVE  \E k \in K : \A j \in K : j <= k
<1>. DEFINE Bounds == {b \in Nat : \A j \in K : j <= b}
<1>1. Bounds # {} /\ Bounds \subseteq Nat
  BY n \in Bounds
<1>2. IsWellFoundedOn(OpToRel(<, Nat), Nat)
  BY NatLessThanWellFounded
<1>. HIDE DEF Bounds
<1>3. PICK m \in Bounds : \A b \in Bounds : ~(<<b, m>> \in OpToRel(<, Nat))
  BY <1>1, <1>2, WFMin
<1>4. \A b \in Bounds : ~(b < m)
  BY <1>1, <1>3 DEF OpToRel
<1>. USE DEF Bounds
<1>5. m \in K
  <2>. SUFFICES ASSUME m \notin K PROVE FALSE
    OBVIOUS
  <2>1. \A j \in K : j \in Nat /\ 1 <= j /\ j <= m /\ j # m
    OBVIOUS
  <2>2. m \in Nat /\ m - 1 \in Nat
    <3>1. m \in Nat
      OBVIOUS
    <3>2. PICK j \in K : TRUE
      OBVIOUS
    <3>. QED  BY <2>1, <3>1, <3>2
  <2>3. \A j \in K : j <= m - 1
    BY <2>1, <2>2
  <2>4. m - 1 \in Bounds
    BY <2>2, <2>3
  <2>. QED  BY <1>4, <2>2, <2>4
<1>. QED  BY <1>5

LEMMA LatestIsARow ==
  ASSUME RowsTyped, NEW type, RowsOf(type) # {}
  PROVE  LatestOtp(type) \in DOMAIN code
<1>1. Len(code) \in Nat /\ RowsOf(type) \in SUBSET (1 .. Len(code))
  BY DEF RowsTyped, RowsOf
<1>2. \E k \in RowsOf(type) : \A j \in RowsOf(type) : j <= k
  BY <1>1, LastIndex
<1>3. LatestOtp(type) \in RowsOf(type)
  BY <1>2 DEF LatestOtp
<1>. QED  BY <1>3 DEF RowsOf

--------------------------------------------------------------------------------
(* The requests *)

\* A request that was not asked yet holds nothing.
LEMMA RegisterOK ==
  ASSUME IInv, NEW c \in Calls, NEW role \in Roles, Register(c, role)
  PROVE  IInv'
<1>1. OnlyCall(c) /\ call'[c] = IF Registered THEN Done ELSE [step |-> "insert", role |-> role]
  BY GoesIsOnly DEF Register, IInv, CallsOK
<1>2. Remembers(call[c])'
  BY <1>1 DEF Remembers, Done
<1>3. \A s \in DOMAIN session : ~Holds(call'[c], s)
  BY <1>1 DEF Holds, Done
<1>. QED  BY <1>1, <1>2, <1>3, QuietStep DEF Register

LEMMA AdminCreateUserOK ==
  ASSUME IInv, NEW c \in Calls, NEW role \in Roles, AdminCreateUser(c, role)
  PROVE  IInv'
<1>1. OnlyCall(c) /\ call'[c] = Done
  BY GoesIsOnly DEF AdminCreateUser, IInv, CallsOK
<1>2. Moves /\ TokensFade /\ code' = code
  BY TimePasses DEF AdminCreateUser, TokensFade, IInv, RowsTyped
<1>3. account' \in AccountType \cup {NoOne} /\ (account \in AccountType => account' \in AccountType)
  <2>1. NewAccount(role) \in AccountType
    BY DEF NewAccount, AccountType, Statuses
  <2>2. \A u \in AccountType :
          [u EXCEPT !.status = "ACTIVE", !.verified = TRUE, !.profile = TRUE] \in AccountType
    BY DEF AccountType, Statuses
  <2>. QED  BY <2>1, <2>2 DEF AdminCreateUser, IInv, RowsTyped
<1>4. Remembers(call[c])' /\ \A s \in DOMAIN session : ~Holds(call'[c], s)
  BY <1>1 DEF Remembers, Holds, Done
<1>. QED  BY <1>1, <1>2, <1>3, <1>4, OrdinaryStep

LEMMA RequestCodeOK ==
  ASSUME IInv, NEW c \in Calls, NEW type \in OtpTypes, RequestCode(c, type)
  PROVE  IInv'
<1>1. OnlyCall(c) /\ call'[c] = IF Registered THEN [step |-> "latest", type |-> type] ELSE Done
  BY GoesIsOnly DEF RequestCode, IInv, CallsOK
<1>2. Remembers(call[c])' /\ \A s \in DOMAIN session : ~Holds(call'[c], s)
  BY <1>1 DEF Remembers, Holds, Done, RequestCode, Registered, IInv, RowsTyped
<1>. QED  BY <1>1, <1>2, QuietStep DEF RequestCode

LEMMA VerifyCodeOK ==
  ASSUME IInv, NEW c \in Calls, NEW type, NEW right \in BOOLEAN, VerifyCode(c, type, right)
  PROVE  IInv'
<1>1. /\ OnlyCall(c)
      /\ \/ call'[c] = Done
         \/ /\ RowsOf(type) # {}
            /\ call'[c] = [step |-> "bump", otp |-> LatestOtp(type), right |-> right]
  BY GoesIsOnly DEF VerifyCode, IInv, CallsOK
<1>2. RowsOf(type) # {} => account \in AccountType /\ LatestOtp(type) \in DOMAIN code
  BY LatestIsARow DEF RowsOf, IInv, RowsTyped
<1>3. Remembers(call[c])' /\ \A s \in DOMAIN session : ~Holds(call'[c], s)
  BY <1>1, <1>2 DEF Remembers, Holds, Done, VerifyCode
<1>. QED  BY <1>1, <1>3, QuietStep DEF VerifyCode

LEMMA LoginOK ==
  ASSUME IInv, NEW c \in Calls, NEW right, Login(c, right)
  PROVE  IInv'
<1>. DEFINE next == CASE ~Registered -> Done
                      [] Registered /\ (Locked(account) \/ ~right) -> At("failure")
                      [] Registered /\ ~Locked(account) /\ right ->
                           [step |-> IF account.locked # 0 THEN "clear" ELSE "admit",
                            may |-> CanSignIn(account)]
<1>1. OnlyCall(c) /\ call'[c] = next
  BY GoesIsOnly DEF Login, IInv, CallsOK
<1>2. /\ "step" \in DOMAIN next
      /\ next.step \in {"done", "failure", "clear", "admit"}
      /\ next.step # "done" => Registered
  BY DEF Done, At
<1>. HIDE DEF next
<1>3. Remembers(call[c])' /\ \A s \in DOMAIN session : ~Holds(call'[c], s)
  BY <1>1, <1>2 DEF Remembers, Holds, Registered, Login, IInv, RowsTyped
<1>. QED  BY <1>1, <1>3, QuietStep DEF Login

LEMMA RefreshOK ==
  ASSUME IInv, NEW c \in Calls, NEW s \in DOMAIN session, Refresh(c, s)
  PROVE  IInv'
<1>1. /\ OnlyCall(c)
      /\ call'[c] \in {Done, [step |-> "claim", token |-> s]}
  BY GoesIsOnly DEF Refresh, IInv, CallsOK
<1>2. account \in AccountType
  BY DEF IInv, RowsTyped
<1>3. Remembers(call[c])' /\ \A t \in DOMAIN session : ~Holds(call'[c], t)
  BY <1>1, <1>2 DEF Remembers, Holds, Done, Refresh
<1>. QED  BY <1>1, <1>3, QuietStep DEF Refresh

LEMMA LogoutOK ==
  ASSUME IInv, NEW c \in Calls, NEW s \in DOMAIN session, Logout(c, s)
  PROVE  IInv'
<1>1. OnlyCall(c) /\ call'[c] = At("stamp")
  BY GoesIsOnly DEF Logout, IInv, CallsOK
<1>2. account \in AccountType
  BY DEF IInv, RowsTyped
<1>3. Remembers(call[c])' /\ \A t \in DOMAIN session : ~Holds(call'[c], t)
  BY <1>1, <1>2 DEF Remembers, Holds, At, Logout
<1>4. TokensFade
  BY RevokedOneFades DEF Logout, IInv
<1>5. Moves
  BY TimePasses DEF Logout, IInv, RowsTyped
<1>. QED  BY <1>1, <1>2, <1>3, <1>4, <1>5, OrdinaryStep DEF Logout

LEMMA LogoutAllDevicesOK ==
  ASSUME IInv, NEW c \in Calls, LogoutAllDevices(c)
  PROVE  IInv'
<1>1. OnlyCall(c) /\ call'[c] = At("revoke")
  BY GoesIsOnly DEF LogoutAllDevices, IInv, CallsOK
<1>2. account \in AccountType
  BY DEF LogoutAllDevices, SignedIn, IInv, RowsTyped
<1>3. Remembers(call[c])' /\ \A t \in DOMAIN session : ~Holds(call'[c], t)
  BY <1>1, <1>2 DEF Remembers, Holds, At, LogoutAllDevices
<1>. QED  BY <1>1, <1>3, QuietStep DEF LogoutAllDevices

\* Closing the account changes its row and revokes refresh tokens, or leaves them.
LEMMA ClosingStep ==
  ASSUME IInv, UNCHANGED <<now, cutoff, signOuts, code>>,
         account \in AccountType, account' \in AccountType,
         session' \in {session, AllRevoked}, NEW c \in Calls,
         Goes(c, Done) \/ Goes(c, At("stamp"))
  PROVE  IInv'
<1>1. OnlyCall(c) /\ call'[c] \in {Done, At("stamp")}
  BY GoesIsOnly DEF IInv, CallsOK
<1>2. Remembers(call[c])' /\ \A t \in DOMAIN session : ~Holds(call'[c], t)
  BY <1>1 DEF Remembers, Holds, At, Done
<1>3. TokensFade
  <2>1. CASE session' = session
    BY <2>1 DEF TokensFade, IInv, RowsTyped
  <2>2. CASE session' = AllRevoked
    BY <2>2, AllRevokedFades DEF IInv
  <2>. QED  BY <2>1, <2>2
<1>4. Moves
  BY TimePasses DEF IInv, RowsTyped
<1>. QED  BY <1>1, <1>2, <1>3, <1>4, OrdinaryStep

LEMMA ClosingOK ==
  ASSUME IInv, NEW c \in Calls,
         \/ DeleteAccount(c) \/ AdminDeleteUser(c) \/ BlockUser(c)
         \/ \E status \in Statuses : AdminUpdateUser(c, status)
  PROVE  IInv'
<1>1. CASE DeleteAccount(c)
  <2>1. account \in AccountType
    BY <1>1 DEF DeleteAccount, SignedIn, IInv, RowsTyped
  <2>2. account' \in AccountType
    BY <1>1, <2>1 DEF DeleteAccount, AccountType, Statuses
  <2>. QED  BY <1>1, <2>1, <2>2, ClosingStep DEF DeleteAccount
<1>2. CASE AdminDeleteUser(c)
  <2>1. account \in AccountType
    BY <1>2 DEF AdminDeleteUser, Registered, IInv, RowsTyped
  <2>2. account' \in AccountType
    BY <1>2, <2>1 DEF AdminDeleteUser, AccountType, Statuses
  <2>. QED  BY <1>2, <2>1, <2>2, ClosingStep DEF AdminDeleteUser
<1>3. CASE BlockUser(c)
  <2>1. account \in AccountType
    BY <1>3 DEF BlockUser, Registered, IInv, RowsTyped
  <2>2. account' \in AccountType
    BY <1>3, <2>1 DEF BlockUser, AccountType, Statuses
  <2>. QED  BY <1>3, <2>1, <2>2, ClosingStep DEF BlockUser
<1>4. CASE \E status \in Statuses : AdminUpdateUser(c, status)
  <2>1. PICK status \in Statuses : AdminUpdateUser(c, status)
    BY <1>4
  <2>2. account \in AccountType
    BY <2>1 DEF AdminUpdateUser, Registered, IInv, RowsTyped
  <2>3. account' \in AccountType
    BY <2>1, <2>2 DEF AdminUpdateUser, AccountType
  <2>. QED  BY <2>1, <2>2, <2>3, ClosingStep DEF AdminUpdateUser
<1>. QED  BY <1>1, <1>2, <1>3, <1>4

--------------------------------------------------------------------------------
(* The statements of a request *)

\* A step that changes the codes.
LEMMA CodeStep ==
  ASSUME IInv, UNCHANGED <<now, account, session, cutoff, signOuts>>, account \in AccountType,
         code' \in Seq(CodeType), DOMAIN code \subseteq DOMAIN code', CodesOK',
         NEW c \in Calls, OnlyCall(c), Remembers(call[c])',
         \A s \in DOMAIN session : ~Holds(call'[c], s)
  PROVE  IInv'
<1>. USE DEF IInv
<1>1. Moves
  BY TimePasses DEF RowsTyped
<1>2. Grows
  BY DEF Grows, RowsTyped
<1>3. TokensFade
  BY DEF TokensFade, RowsTyped
<1>4. RowsTyped'
  BY <1>1 DEF RowsTyped, Moves
<1>5. CallsOK'
  BY <1>1, <1>2, AllRemember
<1>6. SessionsOK'
  BY <1>1, <1>3, SessionsStay
<1>7. TokensOK'
  BY <1>3, TokensStay
<1>. QED  BY <1>4, <1>5, <1>6, <1>7

LEMMA CreateUserOK ==
  ASSUME IInv, NEW c \in Calls, CreateUser(c)
  PROVE  IInv'
<1>1. Remembers(call[c]) /\ call[c].role \in Roles
  BY DEF CreateUser, Is, IInv, CallsOK, Remembers
<1>2. CASE Registered
  <2>1. OnlyCall(c) /\ call'[c] = Done
    BY <1>2, GoesIsOnly DEF CreateUser, IInv, CallsOK
  <2>2. Remembers(call[c])' /\ \A s \in DOMAIN session : ~Holds(call'[c], s)
    BY <2>1 DEF Remembers, Holds, Done
  <2>. QED  BY <1>2, <2>1, <2>2, QuietStep DEF CreateUser
<1>3. CASE ~Registered
  <2>1. OnlyCall(c) /\ call'[c] = At("profile")
    BY <1>3, GoesIsOnly DEF CreateUser, IInv, CallsOK
  <2>2. account' \in AccountType
    <3>1. \A role \in Roles : NewAccount(role) \in AccountType
      BY DEF NewAccount, AccountType, Statuses
    <3>2. account' = NewAccount(call[c].role)
      BY <1>3 DEF CreateUser
    <3>. QED  BY <1>1, <3>1, <3>2
  <2>3. Remembers(call[c])' /\ \A s \in DOMAIN session : ~Holds(call'[c], s)
    BY <2>1, <2>2 DEF Remembers, Holds, At
  <2>. QED  BY <2>1, <2>2, <2>3, AccountStep DEF CreateUser
<1>. QED  BY <1>2, <1>3

LEMMA EnsureProfileOK ==
  ASSUME IInv, NEW c \in Calls, EnsureProfile(c)
  PROVE  IInv'
<1>1. account \in AccountType
  BY DEF EnsureProfile, Is, IInv, CallsOK, Remembers
<1>2. /\ OnlyCall(c)
      /\ \E step \in {"business", "latest"} :
           call'[c] = [step |-> step, type |-> "VERIFICATION"]
  BY GoesIsOnly DEF EnsureProfile, IInv, CallsOK
<1>3. account' \in AccountType
  BY <1>1 DEF EnsureProfile, AccountType
<1>4. Remembers(call[c])' /\ \A s \in DOMAIN session : ~Holds(call'[c], s)
  BY <1>2, <1>3 DEF Remembers, Holds, OtpTypes
<1>. QED  BY <1>2, <1>3, <1>4, AccountStep DEF EnsureProfile

LEMMA CreateBusinessOK ==
  ASSUME IInv, NEW c \in Calls, CreateBusiness(c)
  PROVE  IInv'
<1>1. account \in AccountType
  BY DEF CreateBusiness, Is, IInv, CallsOK, Remembers
<1>2. OnlyCall(c) /\ call'[c] = [step |-> "latest", type |-> "VERIFICATION"]
  BY GoesIsOnly DEF CreateBusiness, IInv, CallsOK
<1>3. account' \in AccountType
  BY <1>1 DEF CreateBusiness, AccountType
<1>4. Remembers(call[c])' /\ \A s \in DOMAIN session : ~Holds(call'[c], s)
  BY <1>2, <1>3 DEF Remembers, Holds, OtpTypes
<1>. QED  BY <1>2, <1>3, <1>4, AccountStep DEF CreateBusiness

LEMMA CheckCooldownOK ==
  ASSUME IInv, NEW c \in Calls, CheckCooldown(c)
  PROVE  IInv'
<1>1. Remembers(call[c]) /\ call[c].step = "latest"
  BY DEF CheckCooldown, Is, IInv, CallsOK
<1>2. OnlyCall(c) /\ call'[c] \in {Done, [call[c] EXCEPT !.step = "count"]}
  BY GoesIsOnly DEF CheckCooldown, IInv, CallsOK
<1>3. Remembers(call[c])' /\ \A s \in DOMAIN session : ~Holds(call'[c], s)
  BY <1>1, <1>2 DEF Remembers, Holds, Done, CheckCooldown
<1>. QED  BY <1>2, <1>3, QuietStep DEF CheckCooldown

LEMMA CountRecentOK ==
  ASSUME IInv, NEW c \in Calls, CountRecent(c)
  PROVE  IInv'
<1>1. Remembers(call[c]) /\ call[c].step = "count"
  BY DEF CountRecent, Is, IInv, CallsOK
<1>2. OnlyCall(c) /\ call'[c] \in {Done, [call[c] EXCEPT !.step = "retire"]}
  BY GoesIsOnly DEF CountRecent, IInv, CallsOK
<1>3. Remembers(call[c])' /\ \A s \in DOMAIN session : ~Holds(call'[c], s)
  BY <1>1, <1>2 DEF Remembers, Holds, Done, CountRecent
<1>. QED  BY <1>2, <1>3, QuietStep DEF CountRecent

LEMMA RetireCodesOK ==
  ASSUME IInv, NEW c \in Calls, RetireCodes(c)
  PROVE  IInv'
<1>1. Remembers(call[c]) /\ call[c].step = "retire"
  BY DEF RetireCodes, Is, IInv, CallsOK
<1>2. /\ OnlyCall(c)
      /\ call'[c] = [step |-> "newcode", type |-> call[c].type, old |-> Outstanding(call[c].type)]
  BY GoesIsOnly DEF RetireCodes, IInv, CallsOK
<1>3. Remembers(call[c])' /\ \A s \in DOMAIN session : ~Holds(call'[c], s)
  BY <1>1, <1>2 DEF Remembers, Holds, RetireCodes
<1>. QED  BY <1>2, <1>3, QuietStep DEF RetireCodes

\* A new code is open; retiring the older ones keeps what was accepted of them.
LEMMA CreateOtpOK ==
  ASSUME IInv, NEW c \in Calls, CreateOtp(c)
  PROVE  IInv'
<1>1. /\ Remembers(call[c]) /\ call[c].step = "newcode"
      /\ account \in AccountType /\ call[c].type \in OtpTypes
  BY DEF CreateOtp, Is, IInv, CallsOK, Remembers
<1>2. OnlyCall(c) /\ call'[c] = Done
  BY GoesIsOnly DEF CreateOtp, IInv, CallsOK
<1>3. Remembers(call[c])' /\ \A s \in DOMAIN session : ~Holds(call'[c], s)
  BY <1>2 DEF Remembers, Holds, Done
<1>. DEFINE old == [k \in DOMAIN code |-> [code[k] EXCEPT !.used = code[k].used \/ k \in call[c].old]]
            new == [type |-> call[c].type, born |-> now, used |-> FALSE, tries |-> 0, accepted |-> 0]
<1>4. \A k \in DOMAIN code : code[k] \in CodeType
  BY DEF IInv, RowsTyped
<1>5. \A k \in DOMAIN code :
        /\ old[k] \in CodeType
        /\ old[k].tries = code[k].tries /\ old[k].accepted = code[k].accepted
        /\ code[k].used => old[k].used
  BY <1>4 DEF CodeType
<1>6. new \in CodeType /\ new.accepted = 0 /\ new.tries = 0
  BY <1>1 DEF CodeType, IInv, RowsTyped
<1>7. Len(code) \in Nat /\ DOMAIN code = 1 .. Len(code) /\ DOMAIN old = DOMAIN code
  BY DEF IInv, RowsTyped
<1>. HIDE DEF old, new
<1>8. old \in Seq(CodeType)
  <2>1. old = [k \in 1 .. Len(code) |-> old[k]]
    BY <1>7 DEF old
  <2>2. \A k \in 1 .. Len(code) : old[k] \in CodeType
    BY <1>5, <1>7
  <2>. QED  BY <1>7, <2>1, <2>2
<1>9. code' = Append(old, new)
  BY DEF CreateOtp, old, new
<1>10. /\ code' \in Seq(CodeType)
       /\ DOMAIN code' = DOMAIN code \cup {Len(code) + 1}
       /\ \A k \in DOMAIN code : code'[k] = old[k]
       /\ code'[Len(code) + 1] = new
  <2>1. Len(old) = Len(code)
    BY <1>7, <1>8
  <2>. QED  BY <1>6, <1>7, <1>8, <1>9, <2>1
<1>11. CodesOK'
  <2>. SUFFICES ASSUME NEW k \in DOMAIN code' PROVE CodeOK(k)'
    BY DEF CodesOK
  <2>1. CASE k \in DOMAIN code
    <3>1. CodeOK(k)
      BY <2>1 DEF IInv, CodesOK
    <3>. QED  BY <2>1, <3>1, <1>5, <1>10 DEF CodeOK
  <2>2. CASE k = Len(code) + 1
    BY <2>2, <1>6, <1>10, AccountsAssumption DEF CodeOK
  <2>. QED  BY <2>1, <2>2, <1>10
<1>. QED  BY <1>1, <1>2, <1>3, <1>10, <1>11, CodeStep DEF CreateOtp

\* A guess spends an attempt only of a code that is not used, and uses it up when
\* it is right: that is why nothing is accepted twice.
LEMMA BumpOtpAttemptOK ==
  ASSUME IInv, NEW c \in Calls, BumpOtpAttempt(c)
  PROVE  IInv'
<1>. DEFINE k == call[c].otp
<1>1. /\ Remembers(call[c]) /\ call[c].step = "bump"
      /\ account \in AccountType /\ k \in DOMAIN code /\ call[c].right \in BOOLEAN
  BY DEF BumpOtpAttempt, Is, IInv, CallsOK, Remembers
<1>2. /\ OnlyCall(c)
      /\ \E step \in {"done", "mark", "password"} : call'[c] = [step |-> step]
  BY GoesIsOnly DEF BumpOtpAttempt, IInv, CallsOK, Done, At
<1>3. Remembers(call[c])' /\ \A s \in DOMAIN session : ~Holds(call'[c], s)
  BY <1>1, <1>2 DEF Remembers, Holds, BumpOtpAttempt
<1>4. CASE ~Spendable(k)
  <2>1. code' = code
    BY <1>4 DEF BumpOtpAttempt
  <2>2. code' \in Seq(CodeType) /\ CodesOK'
    BY <2>1 DEF CodesOK, CodeOK, IInv, RowsTyped
  <2>. QED  BY <1>1, <1>2, <1>3, <2>1, <2>2, CodeStep DEF BumpOtpAttempt
<1>5. CASE Spendable(k)
  <2>1. code' = [code EXCEPT ![k].tries = @ + 1, ![k].used = call[c].right,
                             ![k].accepted = IF call[c].right THEN @ + 1 ELSE @]
    BY <1>5 DEF BumpOtpAttempt
  <2>2. code[k] \in CodeType /\ CodeOK(k)
    BY <1>1 DEF IInv, RowsTyped, CodesOK
  <2>3. /\ DOMAIN code' = DOMAIN code
        /\ \A j \in DOMAIN code : j # k => code'[j] = code[j]
        /\ code'[k] = [code[k] EXCEPT !.tries = @ + 1, !.used = call[c].right,
                                      !.accepted = IF call[c].right THEN @ + 1 ELSE @]
    BY <1>1, <2>1 DEF IInv, RowsTyped
  <2>4. code[k].accepted = 0 /\ code[k].tries < MaxAttempts
    BY <1>5, <2>2 DEF Spendable, CodeOK, CodeType
  <2>5. /\ code'[k].tries = code[k].tries + 1
        /\ code'[k].used = call[c].right
        /\ code'[k].accepted = IF call[c].right THEN 1 ELSE 0
        /\ code'[k] \in CodeType
    <3>. DEFINE a == IF call[c].right THEN 1 ELSE 0
    <3>1. a \in Nat
      OBVIOUS
    <3>2. code'[k] = [code[k] EXCEPT !.tries = @ + 1, !.used = call[c].right, !.accepted = a]
      BY <2>3, <2>4
    <3>3. code[k] \in CodeType /\ call[c].right \in BOOLEAN
      BY <1>1, <2>2
    <3>. HIDE DEF a
    <3>4. PICK u \in CodeType, r \in BOOLEAN : u = code[k] /\ r = call[c].right
      BY <3>3
    <3>5. PICK x : x = code'[k]
      OBVIOUS
    <3>6. x = [u EXCEPT !.tries = @ + 1, !.used = r, !.accepted = a]
      BY <3>2, <3>4, <3>5
    <3>7. x \in CodeType /\ x.tries = u.tries + 1 /\ x.used = r /\ x.accepted = a
      <4>1. u.type \in OtpTypes /\ u.born \in Nat /\ u.tries \in Nat
        BY <3>4 DEF CodeType
      <4>2. x = [type |-> u.type, born |-> u.born, used |-> r, tries |-> u.tries + 1,
                 accepted |-> a]
        BY <3>4, <3>6 DEF CodeType
      <4>. QED  BY <3>1, <3>4, <4>1, <4>2 DEF CodeType
    <3>. QED  BY <3>4, <3>5, <3>7 DEF a
  <2>6. code' \in Seq(CodeType)
    <3>1. Len(code) \in Nat /\ DOMAIN code = 1 .. Len(code) /\ \A j \in DOMAIN code : code[j] \in CodeType
      BY DEF IInv, RowsTyped
    <3>2. \A j \in DOMAIN code : code'[j] \in CodeType
      BY <2>3, <2>5, <3>1
    <3>3. code' = [j \in 1 .. Len(code) |-> code'[j]]
      BY <2>1, <3>1
    <3>. QED  BY <3>1, <3>2, <3>3
  <2>7. CodesOK'
    <3>. SUFFICES ASSUME NEW j \in DOMAIN code PROVE CodeOK(j)'
      BY <2>3 DEF CodesOK
    <3>1. CASE j = k
      BY <1>1, <2>2, <2>4, <2>5, <3>1, AccountsAssumption DEF CodeOK, CodeType
    <3>2. CASE j # k
      <4>1. CodeOK(j)
        BY DEF IInv, CodesOK
      <4>. QED  BY <2>3, <3>2, <4>1 DEF CodeOK
    <3>. QED  BY <3>1, <3>2
  <2>. QED  BY <1>1, <1>2, <1>3, <2>3, <2>6, <2>7, CodeStep DEF BumpOtpAttempt
<1>. QED  BY <1>4, <1>5

LEMMA MarkVerifiedOK ==
  ASSUME IInv, NEW c \in Calls, MarkVerified(c)
  PROVE  IInv'
<1>1. account \in AccountType
  BY DEF MarkVerified, Is, IInv, CallsOK, Remembers
<1>2. OnlyCall(c) /\ call'[c] = [step |-> "wait", from |-> 0]
  BY GoesIsOnly DEF MarkVerified, IInv, CallsOK
<1>3. account' \in AccountType
  BY <1>1 DEF MarkVerified, AccountType, Statuses
<1>4. 0 \notin DOMAIN session
  BY DEF IInv, RowsTyped
<1>5. Remembers(call[c])' /\ \A s \in DOMAIN session : ~Holds(call'[c], s)
  BY <1>2, <1>3, <1>4 DEF Remembers, Holds
<1>. QED  BY <1>2, <1>3, <1>5, AccountStep DEF MarkVerified

LEMMA UpdatePasswordOK ==
  ASSUME IInv, NEW c \in Calls, UpdatePassword(c)
  PROVE  IInv'
<1>1. account \in AccountType
  BY DEF UpdatePassword, Is, IInv, CallsOK, Remembers
<1>2. OnlyCall(c) /\ call'[c] = At("revoke")
  BY GoesIsOnly DEF UpdatePassword, IInv, CallsOK
<1>3. account' \in AccountType
  BY <1>1 DEF UpdatePassword, AccountType
<1>4. Remembers(call[c])' /\ \A s \in DOMAIN session : ~Holds(call'[c], s)
  BY <1>2, <1>3 DEF Remembers, Holds, At
<1>. QED  BY <1>2, <1>3, <1>4, AccountStep DEF UpdatePassword

LEMMA RecordFailedAttemptOK ==
  ASSUME IInv, NEW c \in Calls, RecordFailedAttempt(c)
  PROVE  IInv'
<1>1. account \in AccountType
  BY DEF RecordFailedAttempt, Is, IInv, CallsOK, Remembers
<1>2. OnlyCall(c) /\ call'[c] = Done
  BY GoesIsOnly DEF RecordFailedAttempt, IInv, CallsOK
<1>3. account' \in AccountType
  <2>1. LockAfterFailure(account) \in Nat
    BY <1>1, AccountsAssumption DEF LockAfterFailure, AccountType, IInv, RowsTyped
  <2>2. \A f, l \in Nat : [account EXCEPT !.failed = f, !.locked = l] \in AccountType
    BY <1>1 DEF AccountType
  <2>3. (IF account.failed < MaxFailed THEN account.failed + 1 ELSE account.failed) \in Nat
    BY <1>1 DEF AccountType
  <2>. QED  BY <2>1, <2>2, <2>3 DEF RecordFailedAttempt
<1>4. Remembers(call[c])' /\ \A s \in DOMAIN session : ~Holds(call'[c], s)
  BY <1>2 DEF Remembers, Holds, Done
<1>. QED  BY <1>2, <1>3, <1>4, AccountStep DEF RecordFailedAttempt

LEMMA ClearExpiredLockOK ==
  ASSUME IInv, NEW c \in Calls, ClearExpiredLock(c)
  PROVE  IInv'
<1>1. account \in AccountType /\ Remembers(call[c]) /\ call[c].step = "clear"
  BY DEF ClearExpiredLock, Is, IInv, CallsOK, Remembers
<1>2. OnlyCall(c) /\ call'[c] = [call[c] EXCEPT !.step = "admit"]
  BY GoesIsOnly DEF ClearExpiredLock, IInv, CallsOK
<1>3. account' \in AccountType
  BY <1>1 DEF ClearExpiredLock, AccountType
<1>4. Remembers(call[c])' /\ \A s \in DOMAIN session : ~Holds(call'[c], s)
  BY <1>1, <1>2, <1>3 DEF Remembers, Holds
<1>. QED  BY <1>2, <1>3, <1>4, AccountStep DEF ClearExpiredLock

LEMMA RecordSuccessfulAttemptOK ==
  ASSUME IInv, NEW c \in Calls, RecordSuccessfulAttempt(c)
  PROVE  IInv'
<1>1. account \in AccountType
  BY DEF RecordSuccessfulAttempt, Is, IInv, CallsOK, Remembers
<1>2. OnlyCall(c) /\ call'[c] \in {Done, [step |-> "wait", from |-> 0]}
  BY GoesIsOnly DEF RecordSuccessfulAttempt, IInv, CallsOK
<1>3. account' \in AccountType
  <2>1. [account EXCEPT !.failed = 0, !.locked = 0] \in AccountType
    BY <1>1 DEF AccountType
  <2>. QED  BY <1>1, <2>1 DEF RecordSuccessfulAttempt
<1>4. 0 \notin DOMAIN session
  BY DEF IInv, RowsTyped
<1>5. Remembers(call[c])' /\ \A s \in DOMAIN session : ~Holds(call'[c], s)
  BY <1>2, <1>3, <1>4 DEF Remembers, Holds, Done
<1>. QED  BY <1>2, <1>3, <1>5, AccountStep DEF RecordSuccessfulAttempt

\* The cutoff a request waits for is the one in force when it asked.
LEMMA WaitPastOK ==
  ASSUME IInv, NEW c \in Calls, WaitPast(c)
  PROVE  IInv'
<1>1. Remembers(call[c]) /\ call[c].step = "wait"
  BY DEF WaitPast, Is, IInv, CallsOK
<1>2. /\ OnlyCall(c)
      /\ call'[c] = [step |-> "mint", from |-> call[c].from, until |-> cutoff,
                     waited |-> signOuts.landed]
  BY GoesIsOnly DEF WaitPast, IInv, CallsOK
<1>3. cutoff \in Nat /\ signOuts.landed \in Nat
  BY DEF IInv, RowsTyped, SignOutsTyped, Reads
<1>4. Remembers(call[c])'
  BY <1>1, <1>2, <1>3 DEF Remembers, WaitPast
<1>5. \A s \in DOMAIN session : Holds(call'[c], s) => Holds(call[c], s)
  BY <1>1, <1>2 DEF Holds
<1>. QED  BY <1>2, <1>4, <1>5, QuietStep DEF WaitPast

\* A token is minted past the cutoff it waited for: it is accepted if nobody
\* signed out since, and dead if somebody did after it was minted.
LEMMA MintOK ==
  ASSUME IInv, NEW c \in Calls, Mint(c)
  PROVE  IInv'
<1>1. Remembers(call[c]) /\ call[c].step = "mint" /\ now > call[c].until
  BY DEF Mint, Is, IInv, CallsOK
<1>2. /\ OnlyCall(c)
      /\ call'[c] = [step |-> "hand", from |-> call[c].from, iat |-> now,
                     waited |-> call[c].waited, minted |-> Len(signOuts.reads)]
  BY GoesIsOnly DEF Mint, IInv, CallsOK
<1>3. now \in Nat /\ cutoff \in Nat /\ signOuts.landed \in Nat /\ Len(Reads) \in Nat
  BY DEF IInv, RowsTyped, SignOutsTyped, Reads
<1>4. Remembers(call[c])'
  BY <1>1, <1>2, <1>3 DEF Remembers, Separated, Mint, Reads
<1>5. \A s \in DOMAIN session : Holds(call'[c], s) => Holds(call[c], s)
  BY <1>1, <1>2 DEF Holds
<1>. QED  BY <1>2, <1>4, <1>5, QuietStep DEF Mint

LEMMA RereadOK ==
  ASSUME IInv, NEW c \in Calls, Reread(c)
  PROVE  IInv'
<1>1. Remembers(call[c]) /\ call[c].step = "reread"
  BY DEF Reread, Is, IInv, CallsOK
<1>2. OnlyCall(c) /\ call'[c] \in {Done, [step |-> "wait", from |-> call[c].token]}
  BY GoesIsOnly DEF Reread, IInv, CallsOK
<1>3. Remembers(call[c])'
  BY <1>1, <1>2 DEF Remembers, Done, Reread
<1>4. \A s \in DOMAIN session : Holds(call'[c], s) => Holds(call[c], s)
  BY <1>1, <1>2 DEF Holds, Done
<1>. QED  BY <1>2, <1>3, <1>4, QuietStep DEF Reread

LEMMA RevokeAllUserTokensOK ==
  ASSUME IInv, NEW c \in Calls, RevokeAllUserTokens(c)
  PROVE  IInv'
<1>1. account \in AccountType
  BY DEF RevokeAllUserTokens, Is, IInv, CallsOK, Remembers
<1>2. OnlyCall(c) /\ call'[c] = At("stamp")
  BY GoesIsOnly DEF RevokeAllUserTokens, IInv, CallsOK
<1>3. Remembers(call[c])' /\ \A s \in DOMAIN session : ~Holds(call'[c], s)
  BY <1>1, <1>2 DEF Remembers, Holds, At, RevokeAllUserTokens
<1>4. TokensFade
  BY AllRevokedFades DEF RevokeAllUserTokens, IInv
<1>5. Moves
  BY TimePasses DEF RevokeAllUserTokens, IInv, RowsTyped
<1>. QED  BY <1>1, <1>2, <1>3, <1>4, <1>5, OrdinaryStep DEF RevokeAllUserTokens

\* What a sign-out reads is past every token minted by now.
LEMMA StampCutoffOK ==
  ASSUME IInv, NEW c \in Calls, StampCutoff(c)
  PROVE  IInv'
<1>1. account \in AccountType
  BY DEF StampCutoff, Is, IInv, CallsOK, Remembers
<1>2. /\ OnlyCall(c)
      /\ call'[c] = [step |-> "set", at |-> now, nth |-> Len(Reads) + 1]
  BY GoesIsOnly DEF StampCutoff, IInv, CallsOK, Reads
<1>3. /\ signOuts \in [reads : Seq(Nat), landed : Nat, last : Nat]
      /\ now \in Nat /\ Len(Reads) \in Nat /\ Reads \in Seq(Nat)
  BY DEF IInv, RowsTyped, SignOutsTyped, Reads
<1>4. /\ signOuts' \in [reads : Seq(Nat), landed : Nat, last : Nat]
      /\ Reads' = Append(Reads, now)
      /\ signOuts'.landed = signOuts.landed /\ signOuts'.last = signOuts.last
  <2>. DEFINE longer == Append(Reads, now)
  <2>1. signOuts' = [signOuts EXCEPT !.reads = longer] /\ longer \in Seq(Nat)
    BY <1>3 DEF StampCutoff, Reads
  <2>. HIDE DEF longer
  <2>2. /\ signOuts' \in [reads : Seq(Nat), landed : Nat, last : Nat]
        /\ signOuts'.reads = longer
        /\ signOuts'.landed = signOuts.landed /\ signOuts'.last = signOuts.last
    BY <1>3, <2>1
  <2>. QED  BY <2>2 DEF longer, Reads
<1>5. ClockRead
  <2>1. \A n \in 1 .. Len(Reads) : Reads'[n] = Reads[n]
    BY <1>3, <1>4
  <2>2. Len(Reads') = Len(Reads) + 1 /\ Reads'[Len(Reads) + 1] = now
    BY <1>3, <1>4
  <2>3. now' = now /\ cutoff' = cutoff
    BY DEF StampCutoff
  <2>. QED  BY <1>4, <2>1, <2>2, <2>3 DEF ClockRead
<1>6. Moves
  <2>1. \A n \in 1 .. Len(Reads') : Reads'[n] <= now'
    <3>1. \A n \in 1 .. Len(Reads) : Reads[n] <= now
      BY DEF IInv, RowsTyped, SignOutsTyped
    <3>2. SUFFICES ASSUME NEW n \in 1 .. Len(Reads'), n # Len(Reads) + 1
                   PROVE  Reads'[n] <= now'
      BY <1>3, <1>5 DEF ClockRead
    <3>3. n \in 1 .. Len(Reads)
      BY <1>3, <1>5, <3>2 DEF ClockRead
    <3>. QED  BY <1>5, <3>1, <3>3 DEF ClockRead
  <2>2. (\/ signOuts.last = 0 /\ cutoff = 0
         \/ signOuts.last \in 1 .. Len(Reads) /\ cutoff = Reads[signOuts.last])'
    BY <1>3, <1>5 DEF ClockRead, IInv, RowsTyped, SignOutsTyped
  <2>. QED  BY <1>3, <1>4, <1>5, <2>1, <2>2 DEF Moves, SignOutsTyped, ClockRead
<1>7. Remembers(call[c])' /\ \A s \in DOMAIN session : ~Holds(call'[c], s)
  BY <1>1, <1>2, <1>3, <1>5 DEF Remembers, Holds, ClockRead, StampCutoff
<1>8. TokensFade
  BY DEF TokensFade, StampCutoff, IInv, RowsTyped
<1>. QED  BY <1>1, <1>2, <1>6, <1>7, <1>8, OrdinaryStep DEF StampCutoff

\* The cutoff written is what the sign-out read, whoever wrote before it.
LEMMA SetCutoffOK ==
  ASSUME IInv, NEW c \in Calls, SetCutoff(c)
  PROVE  IInv'
<1>1. account \in AccountType /\ Remembers(call[c]) /\ call[c].step = "set"
  BY DEF SetCutoff, Is, IInv, CallsOK, Remembers
<1>2. OnlyCall(c) /\ call'[c] = Done
  BY GoesIsOnly DEF SetCutoff, IInv, CallsOK
<1>3. call[c].nth \in 1 .. Len(Reads) /\ call[c].at = Reads[call[c].nth]
  BY <1>1 DEF Remembers
<1>4. /\ signOuts \in [reads : Seq(Nat), landed : Nat, last : Nat]
      /\ now \in Nat /\ Len(Reads) \in Nat
  BY DEF IInv, RowsTyped, SignOutsTyped, Reads
<1>5. /\ signOuts' \in [reads : Seq(Nat), landed : Nat, last : Nat]
      /\ Reads' = Reads
      /\ signOuts'.landed = signOuts.landed + 1
      /\ signOuts'.last = call[c].nth
  <2>. DEFINE k == call[c].nth
              n == signOuts.landed + 1
  <2>1. signOuts' = [signOuts EXCEPT !.landed = n, !.last = k] /\ n \in Nat /\ k \in Nat
    BY <1>3, <1>4 DEF SetCutoff
  <2>. HIDE DEF k, n
  <2>2. /\ signOuts' \in [reads : Seq(Nat), landed : Nat, last : Nat]
        /\ signOuts'.reads = signOuts.reads /\ signOuts'.landed = n /\ signOuts'.last = k
    BY <1>4, <2>1
  <2>. QED  BY <2>2 DEF k, n, Reads
<1>6. Moves
  <2>1. \A n \in 1 .. Len(Reads) : Reads[n] <= now
    BY DEF IInv, RowsTyped, SignOutsTyped
  <2>. QED  BY <1>3, <1>4, <1>5, <2>1 DEF Moves, SignOutsTyped, SetLands, SetCutoff
<1>7. Remembers(call[c])' /\ \A s \in DOMAIN session : ~Holds(call'[c], s)
  BY <1>2 DEF Remembers, Holds, Done
<1>8. TokensFade
  BY DEF TokensFade, SetCutoff, IInv, RowsTyped
<1>. QED  BY <1>1, <1>2, <1>6, <1>7, <1>8, OrdinaryStep DEF SetCutoff

\* Of the requests that present one token, the one that finds it live holds it.
LEMMA RevokeRefreshTokenOK ==
  ASSUME IInv, NEW c \in Calls, RevokeRefreshToken(c)
  PROVE  IInv'
<1>. DEFINE t == call[c].token
<1>1. /\ Remembers(call[c]) /\ call[c].step = "claim"
      /\ account \in AccountType /\ t \in DOMAIN session
  BY DEF RevokeRefreshToken, Is, IInv, CallsOK, Remembers
<1>2. Moves /\ UNCHANGED <<now, account, cutoff, signOuts, code>>
  BY TimePasses DEF RevokeRefreshToken, IInv, RowsTyped
<1>3. CASE ~session[t].live
  <2>1. OnlyCall(c) /\ call'[c] = At("revoke") /\ session' = session
    BY <1>3, GoesIsOnly DEF RevokeRefreshToken, IInv, CallsOK
  <2>2. Remembers(call[c])' /\ \A s \in DOMAIN session : ~Holds(call'[c], s)
    BY <1>1, <1>2, <2>1 DEF Remembers, Holds, At
  <2>. QED  BY <1>2, <2>1, <2>2, QuietStep
<1>4. CASE session[t].live
  <2>1. OnlyCall(c) /\ call'[c] = [step |-> "reread", token |-> t]
    BY <1>4, GoesIsOnly DEF RevokeRefreshToken, IInv, CallsOK
  <2>2. session' = [session EXCEPT ![t].live = FALSE]
    BY <1>4 DEF RevokeRefreshToken
  <2>3. TokensFade
    BY <1>1, <2>2, RevokedOneFades DEF IInv
  <2>4. session'[t].live = FALSE
    <3>1. session[t] \in SessionType
      BY <1>1 DEF IInv, RowsTyped
    <3>. QED  BY <1>1, <2>2, <3>1 DEF SessionType, IInv, RowsTyped
  <2>5. RowsTyped'
    BY <1>1, <1>2, <2>3 DEF Moves, TokensFade, IInv, RowsTyped
  <2>6. CallsOK'
    <3>1. Remembers(call[c])'
      BY <1>1, <1>2, <2>1, <2>3 DEF Remembers, TokensFade
    <3>2. Grows
      BY <1>2, <2>3 DEF Grows, TokensFade, IInv, RowsTyped
    <3>. QED  BY <1>2, <2>1, <3>1, <3>2, AllRemember DEF IInv
  <2>7. SessionsOK'
    BY <1>2, <2>3, SessionsStay DEF IInv
  <2>8. CodesOK'
    BY <1>2 DEF CodesOK, CodeOK, IInv
  <2>9. TokensOK'
    <3>. SUFFICES ASSUME NEW s \in DOMAIN session PROVE TokenOK(s)'
      BY <2>3 DEF TokensOK, TokensFade
    <3>1. TokenOK(s)
      BY DEF TokensOK, IInv
    <3>2. session'[s].heirs = session[s].heirs /\ (session'[s].live => session[s].live)
      BY <2>3 DEF TokensFade
    <3>3. CASE s = t
      <4>1. session[s].heirs = 0 /\ \A d \in Calls : ~Holds(call[d], s)
        BY <1>4, <3>1, <3>3 DEF TokenOK
      <4>2. \A d \in Calls \ {c} : ~Holds(call'[d], s)
        BY <2>1, <4>1 DEF OnlyCall
      <4>. QED  BY <2>4, <3>2, <3>3, <4>1, <4>2 DEF TokenOK, Calls
    <3>4. CASE s # t
      <4>1. ~Holds(call'[c], s)
        BY <2>1, <3>4 DEF Holds
      <4>2. \A d \in Calls : Holds(call'[d], s) => Holds(call[d], s)
        BY <2>1, <4>1 DEF OnlyCall
      <4>3. (session[s].heirs <= 1)'
        BY <3>1, <3>2 DEF TokenOK
      <4>4. (session[s].live => session[s].heirs = 0 /\ \A d \in Calls : ~Holds(call[d], s))'
        BY <3>1, <3>2, <4>2 DEF TokenOK, Calls
      <4>5. (\A d \in Calls : Holds(call[d], s) =>
               session[s].heirs = 0 /\ \A e \in Calls : Holds(call[e], s) => d = e)'
        BY <3>1, <3>2, <4>2 DEF TokenOK, Calls
      <4>. QED  BY <4>3, <4>4, <4>5 DEF TokenOK, Calls
    <3>. QED  BY <3>3, <3>4
  <2>. QED  BY <2>5, <2>6, <2>7, <2>8, <2>9 DEF IInv
<1>. QED  BY <1>3, <1>4

\* The session handed over is the only one exchanged for the token it came from,
\* and nobody holds its own token yet.
LEMMA HandOverOK ==
  ASSUME IInv, NEW c \in Calls, HandOver(c)
  PROVE  IInv'
<1>. DEFINE f   == call[c].from
            old == [s \in DOMAIN session |->
                      [session[s] EXCEPT !.heirs = IF s = f THEN @ + 1 ELSE @]]
            new == [iat |-> call[c].iat, born |-> now, live |-> TRUE, heirs |-> 0,
                    waited |-> call[c].waited, minted |-> call[c].minted]
            n   == Len(session)
<1>1. /\ Remembers(call[c]) /\ call[c].step = "hand"
      /\ account \in AccountType
      /\ {call[c].iat, call[c].waited, call[c].minted} \subseteq Nat
      /\ Separated(call[c])
  BY DEF HandOver, Is, IInv, CallsOK, Remembers
<1>2. OnlyCall(c) /\ call'[c] = Done
  BY GoesIsOnly DEF HandOver, IInv, CallsOK
<1>3. UNCHANGED <<now, account, cutoff, signOuts, code>> /\ now \in Nat
  BY DEF HandOver, IInv, RowsTyped
<1>4. n \in Nat /\ DOMAIN session = 1 .. n /\ \A s \in DOMAIN session : session[s] \in SessionType
  BY DEF IInv, RowsTyped
<1>5. \A s \in DOMAIN session :
        /\ old[s] \in SessionType
        /\ old[s].iat = session[s].iat
        /\ old[s].waited = session[s].waited
        /\ old[s].minted = session[s].minted
        /\ old[s].live = session[s].live
        /\ old[s].heirs = IF s = f THEN session[s].heirs + 1 ELSE session[s].heirs
  <2>. SUFFICES ASSUME NEW s \in DOMAIN session
                PROVE  /\ old[s] \in SessionType
                       /\ old[s].iat = session[s].iat
                       /\ old[s].waited = session[s].waited
                       /\ old[s].minted = session[s].minted
                       /\ old[s].live = session[s].live
                       /\ old[s].heirs = IF s = f THEN session[s].heirs + 1
                                         ELSE session[s].heirs
    OBVIOUS
  <2>1. \A u \in SessionType : [u EXCEPT !.heirs = IF s = f THEN @ + 1 ELSE @] \in SessionType
    BY DEF SessionType
  <2>. QED  BY <1>4, <2>1 DEF SessionType
<1>6. /\ new \in SessionType /\ new.heirs = 0 /\ new.live = TRUE
      /\ new.iat = call[c].iat /\ new.waited = call[c].waited /\ new.minted = call[c].minted
  BY <1>1, <1>3 DEF SessionType
<1>7. session' = Append(old, new) /\ old = [s \in 1 .. n |-> old[s]]
  BY <1>4 DEF HandOver
<1>. HIDE DEF old, new
<1>8. old \in Seq(SessionType) /\ Len(old) = n
  BY <1>4, <1>5, <1>7
<1>9. /\ session' \in Seq(SessionType)
      /\ DOMAIN session' = DOMAIN session \cup {n + 1}
      /\ \A s \in DOMAIN session : session'[s] = old[s]
      /\ session'[n + 1] = new
      /\ n + 1 \notin DOMAIN session
  BY <1>4, <1>6, <1>7, <1>8
<1>9a. Moves
  BY <1>3, TimePasses DEF IInv, RowsTyped
<1>10. RowsTyped'
  BY <1>1, <1>3, <1>9, <1>9a DEF Moves, IInv, RowsTyped
<1>11. CallsOK'
  <2>1. Remembers(call[c])'
    BY <1>2 DEF Remembers, Done
  <2>2. Grows
    BY <1>1, <1>3, <1>9 DEF Grows, IInv, RowsTyped
  <2>. QED  BY <1>2, <1>9a, <2>1, <2>2, AllRemember DEF IInv
<1>12. SessionsOK'
  <2>. SUFFICES ASSUME NEW s \in DOMAIN session' PROVE Separated(session[s])'
    BY DEF SessionsOK
  <2>1. CASE s \in DOMAIN session
    <3>1. Separated(session[s])
      BY <2>1 DEF SessionsOK, IInv
    <3>2. /\ session'[s].iat = session[s].iat
          /\ session'[s].waited = session[s].waited
          /\ session'[s].minted = session[s].minted
      BY <1>5, <1>9, <2>1
    <3>3. /\ now' = now /\ cutoff' = cutoff /\ signOuts' = signOuts /\ Reads' = Reads
      BY <1>3 DEF Reads
    <3>. QED  BY <3>1, <3>2, <3>3 DEF Separated
  <2>2. CASE s = n + 1
    <3>1. /\ session'[s].iat = call[c].iat
          /\ session'[s].waited = call[c].waited
          /\ session'[s].minted = call[c].minted
      BY <1>6, <1>9, <2>2
    <3>2. /\ now' = now /\ cutoff' = cutoff /\ signOuts' = signOuts /\ Reads' = Reads
      BY <1>3 DEF Reads
    <3>. QED  BY <1>1, <3>1, <3>2 DEF Separated
  <2>. QED  BY <1>9, <2>1, <2>2
<1>13. CodesOK'
  BY <1>3 DEF CodesOK, CodeOK, IInv
<1>14. TokensOK'
  <2>. SUFFICES ASSUME NEW s \in DOMAIN session' PROVE TokenOK(s)'
    BY DEF TokensOK
  <2>1. \A d \in Calls : \A t : Holds(call'[d], t) => d # c /\ Holds(call[d], t)
    BY <1>2 DEF OnlyCall, Holds, Done
  <2>2. CASE s = n + 1
    <3>1. \A d \in Calls : ~Holds(call[d], s)
      <4>. SUFFICES ASSUME NEW d \in Calls, Holds(call[d], s) PROVE FALSE
        OBVIOUS
      <4>1. Remembers(call[d])
        BY DEF CallsOK, IInv
      <4>2. s \in {0} \cup DOMAIN session
        BY <4>1 DEF Remembers, Holds
      <4>. QED  BY <1>4, <1>9, <2>2, <4>2
    <3>2. session'[s].heirs = 0
      BY <1>6, <1>9, <2>2
    <3>. QED  BY <2>1, <3>1, <3>2 DEF TokenOK, Calls
  <2>3. CASE s \in DOMAIN session /\ s = f
    <3>1. TokenOK(s) /\ Holds(call[c], s)
      BY <1>1, <2>3 DEF TokensOK, IInv, Holds
    <3>2. session[s].heirs = 0 /\ \A d \in Calls : Holds(call[d], s) => c = d
      BY <3>1 DEF TokenOK
    <3>3. ~session[s].live
      BY <3>1 DEF TokenOK
    <3>4. session'[s].heirs = 1 /\ ~session'[s].live
      BY <1>5, <1>9, <2>3, <3>2, <3>3
    <3>5. \A d \in Calls : ~Holds(call'[d], s)
      BY <2>1, <3>2
    <3>. QED  BY <3>4, <3>5 DEF TokenOK, Calls
  <2>4. CASE s \in DOMAIN session /\ s # f
    <3>1. TokenOK(s)
      BY <2>4 DEF TokensOK, IInv
    <3>2. session'[s].heirs = session[s].heirs /\ session'[s].live = session[s].live
      BY <1>5, <1>9, <2>4
    <3>3. (session[s].heirs <= 1)'
      BY <3>1, <3>2 DEF TokenOK
    <3>4. (session[s].live => session[s].heirs = 0 /\ \A d \in Calls : ~Holds(call[d], s))'
      BY <2>1, <3>1, <3>2 DEF TokenOK, Calls
    <3>5. (\A d \in Calls : Holds(call[d], s) =>
             session[s].heirs = 0 /\ \A e \in Calls : Holds(call[e], s) => d = e)'
      BY <2>1, <3>1, <3>2 DEF TokenOK, Calls
    <3>. QED  BY <3>3, <3>4, <3>5 DEF TokenOK, Calls
  <2>. QED  BY <1>9, <2>2, <2>3, <2>4
<1>. QED  BY <1>10, <1>11, <1>12, <1>13, <1>14 DEF IInv

--------------------------------------------------------------------------------
(* The invariant *)

LEMMA TickOK ==
  ASSUME IInv, Tick
  PROVE  IInv'
<1>. USE DEF IInv
<1>1. UNCHANGED <<account, session, cutoff, signOuts, code, call>> /\ now' = now + 1
  BY DEF Tick
<1>2. Moves
  BY <1>1, TimePasses DEF RowsTyped
<1>3. TokensFade /\ Grows
  BY <1>1 DEF TokensFade, Grows, RowsTyped
<1>4. RowsTyped'
  BY <1>1, <1>2 DEF RowsTyped, Moves
<1>5. CallsOK'
  <2>1. \A d \in Calls : Remembers(call[d])'
    BY <1>1, <1>2, <1>3, OthersRemember
  <2>. QED  BY <1>1, <2>1 DEF CallsOK, Calls
<1>6. SessionsOK'
  BY <1>2, <1>3, SessionsStay
<1>7. TokensOK' /\ CodesOK'
  BY <1>1 DEF TokensOK, TokenOK, Calls, CodesOK, CodeOK
<1>. QED  BY <1>4, <1>5, <1>6, <1>7

LEMMA InitOK ==
  ASSUME Init
  PROVE  IInv
<1>1. RowsTyped
  <2>1. signOuts = [reads |-> <<>>, landed |-> 0, last |-> 0] /\ cutoff = 0
    BY DEF Init
  <2>2. <<>> \in Seq(Nat) /\ Len(<<>>) = 0
    OBVIOUS
  <2>3. SignOutsTyped
    BY <2>1, <2>2 DEF SignOutsTyped, Reads
  <2>. QED  BY <2>3 DEF Init, RowsTyped
<1>2. CallsOK
  <2>1. PICK plan \in Plans :
          call = [c \in Calls |-> IF c \in DOMAIN plan
                                  THEN [step |-> "new", kind |-> plan[c]] ELSE Done]
    BY DEF Init
  <2>2. \A c \in Calls : "step" \in DOMAIN call[c] /\ call[c].step \in {"new", "done"}
    BY <2>1 DEF Done
  <2>. QED  BY <2>1, <2>2 DEF CallsOK, Remembers
<1>3. DOMAIN session = {} /\ DOMAIN code = {}
  BY DEF Init
<1>. QED  BY <1>1, <1>2, <1>3 DEF IInv, SessionsOK, TokensOK, CodesOK

LEMMA RequestOK ==
  ASSUME IInv, NEW c \in Calls, Request(c)
  PROVE  IInv'
<1>1. ASSUME NEW role \in Roles, Register(c, role) \/ AdminCreateUser(c, role) PROVE IInv'
  BY <1>1, RegisterOK, AdminCreateUserOK
<1>2. CASE ResendOtp(c) \/ ForgotPassword(c)
  BY <1>2, RequestCodeOK DEF ResendOtp, ForgotPassword, OtpTypes
<1>3. ASSUME NEW type \in OtpTypes, NEW right \in BOOLEAN, VerifyCode(c, type, right) PROVE IInv'
  BY <1>3, VerifyCodeOK
<1>4. ASSUME NEW right \in BOOLEAN, Login(c, right) PROVE IInv'
  BY <1>4, LoginOK
<1>5. ASSUME NEW s \in DOMAIN session, Refresh(c, s) \/ Logout(c, s) PROVE IInv'
  BY <1>5, RefreshOK, LogoutOK
<1>6. CASE LogoutAllDevices(c)
  BY <1>6, LogoutAllDevicesOK
<1>7. CASE \/ DeleteAccount(c) \/ AdminDeleteUser(c) \/ BlockUser(c)
           \/ \E status \in Statuses : AdminUpdateUser(c, status)
  BY <1>7, ClosingOK
<1>. QED  BY <1>1, <1>2, <1>3, <1>4, <1>5, <1>6, <1>7 DEF Request

LEMMA ContinueOK ==
  ASSUME IInv, NEW c \in Calls, Continue(c)
  PROVE  IInv'
BY CreateUserOK, EnsureProfileOK, CreateBusinessOK, CheckCooldownOK, CountRecentOK,
   RetireCodesOK, CreateOtpOK, BumpOtpAttemptOK, MarkVerifiedOK, UpdatePasswordOK,
   RecordFailedAttemptOK, ClearExpiredLockOK, RecordSuccessfulAttemptOK, WaitPastOK,
   MintOK, HandOverOK, RevokeRefreshTokenOK, RereadOK, RevokeAllUserTokensOK, StampCutoffOK,
   SetCutoffOK
   DEF Continue

\* IInv holds in every state of every execution.
THEOREM AccountsInvariant == Spec => []IInv
<1>1. Init => IInv
  BY InitOK
<1>2. IInv /\ [Next]_vars => IInv'
  <2>. SUFFICES ASSUME IInv, [Next]_vars PROVE IInv'
    OBVIOUS
  <2>1. CASE Tick
    BY <2>1, TickOK
  <2>2. ASSUME NEW c \in Calls, Request(c) \/ Continue(c) PROVE IInv'
    BY <2>2, RequestOK, ContinueOK
  <2>3. CASE UNCHANGED vars
    <3>1. UNCHANGED vars
      BY <2>3
    <3>2. Moves
      BY <3>1, TimePasses DEF vars, IInv, RowsTyped
    <3>3. RowsTyped'
      BY <3>1, <3>2 DEF vars, Moves, IInv, RowsTyped
    <3>4. TokensFade /\ Grows
      BY <3>1 DEF vars, TokensFade, Grows, IInv, RowsTyped
    <3>5. CallsOK'
      <4>1. \A d \in Calls : Remembers(call[d])'
        BY <3>1, <3>2, <3>4, OthersRemember DEF vars, IInv
      <4>. QED  BY <3>1, <4>1 DEF vars, CallsOK, IInv, Calls
    <3>6. SessionsOK'
      BY <3>2, <3>4, SessionsStay DEF IInv
    <3>7. TokensOK' /\ CodesOK'
      BY <3>1 DEF vars, IInv, TokensOK, TokenOK, CodesOK, CodeOK, Calls
    <3>. QED  BY <3>3, <3>5, <3>6, <3>7 DEF IInv
  <2>. QED  BY <2>1, <2>2, <2>3 DEF Next
<1>. QED  BY <1>1, <1>2, PTL DEF Spec

--------------------------------------------------------------------------------
(* What it gives *)

\* The cutoff in force separates the sessions minted before its sign-out read the
\* clock from those that waited for it, in whatever order the statements of
\* sign-outs, sign-ins and refreshes fall (revoke.go, WaitPast).
THEOREM CutoffIsExact == Spec => []CutoffExact
<1>1. IInv => CutoffExact
  <2>. SUFFICES ASSUME IInv, NEW s \in DOMAIN session
                PROVE  /\ session[s].minted < signOuts.last => ~Accepted(s)
                       /\ session[s].waited = signOuts.landed => Accepted(s)
    BY DEF CutoffExact, SignedOutIsOut, NewSessionsWork
  <2>1. Separated(session[s])
    BY DEF IInv, SessionsOK
  <2>2. session[s].iat \in Nat /\ session[s].minted \in Nat
    <3>1. session[s] \in SessionType
      BY DEF IInv, RowsTyped
    <3>. QED  BY <3>1 DEF SessionType
  <2>3. /\ cutoff \in Nat
        /\ \/ signOuts.last = 0
           \/ signOuts.last \in 1 .. Len(Reads) /\ cutoff = Reads[signOuts.last]
    BY DEF IInv, RowsTyped, SignOutsTyped, Reads
  <2>. QED  BY <2>1, <2>2, <2>3 DEF Separated, Accepted, Revoked
<1>. QED  BY <1>1, AccountsInvariant, PTL

\* A refresh token is exchanged for one session at most, however many requests
\* present it together (Rotate).
THEOREM OneHeirOnly == Spec => []OneHeir
<1>1. IInv => OneHeir
  BY DEF IInv, TokensOK, TokenOK, OneHeir
<1>. QED  BY <1>1, AccountsInvariant, PTL

\* While a lock holds, a step leaves its end alone or lifts it: only
\* RecordFailedAttempt sets one, and it looks at the lock first.
LEMMA StepsKeepLocks ==
  ASSUME IInv, [Next]_vars
  PROVE  LockKept
<1>. SUFFICES ASSUME account # NoOne, account.locked > now
              PROVE  account'.locked \in {0, account.locked}
  BY DEF LockKept, Registered, Locked
<1>1. account \in AccountType /\ now \in Nat /\ account.locked \in Nat
  BY DEF IInv, RowsTyped, AccountType
<1>2. CASE account' = account
  BY <1>2
<1>3. CASE account' # account
  <2>1. PICK c \in Calls : Request(c) \/ Continue(c)
    BY <1>3 DEF Next, Tick, vars
  <2>2. CASE \/ \E role \in Roles : AdminCreateUser(c, role)
             \/ CreateUser(c)
    BY <1>3, <2>2 DEF AdminCreateUser, CreateUser, Registered
  <2>3. CASE RecordFailedAttempt(c)
    <3>1. account'.locked = LockAfterFailure(account)
      BY <1>1, <2>3 DEF RecordFailedAttempt, AccountType
    <3>. QED  BY <1>1, <3>1 DEF LockAfterFailure
  <2>4. CASE UpdatePassword(c) \/ ClearExpiredLock(c) \/ RecordSuccessfulAttempt(c)
    BY <1>1, <1>3, <2>4 DEF UpdatePassword, ClearExpiredLock, RecordSuccessfulAttempt, AccountType
  <2>5. CASE \/ EnsureProfile(c) \/ CreateBusiness(c) \/ MarkVerified(c)
             \/ DeleteAccount(c) \/ AdminDeleteUser(c) \/ BlockUser(c)
             \/ \E status \in Statuses : AdminUpdateUser(c, status)
    BY <1>1, <2>5 DEF EnsureProfile, CreateBusiness, MarkVerified, DeleteAccount,
                      AdminDeleteUser, BlockUser, AdminUpdateUser, AccountType
  <2>6. Request(c) => \/ \E role \in Roles : AdminCreateUser(c, role)
                      \/ DeleteAccount(c) \/ AdminDeleteUser(c) \/ BlockUser(c)
                      \/ \E status \in Statuses : AdminUpdateUser(c, status)
    BY <1>3 DEF Request, Register, ResendOtp, ForgotPassword, RequestCode, VerifyCode,
                Login, Refresh, Logout, LogoutAllDevices
  <2>7. Continue(c) => \/ CreateUser(c) \/ RecordFailedAttempt(c)
                       \/ UpdatePassword(c) \/ ClearExpiredLock(c) \/ RecordSuccessfulAttempt(c)
                       \/ EnsureProfile(c) \/ CreateBusiness(c) \/ MarkVerified(c)
    BY <1>3 DEF Continue, CheckCooldown, CountRecent, RetireCodes, CreateOtp, BumpOtpAttempt,
                WaitPast, Mint, HandOver, RevokeRefreshToken, Reread, RevokeAllUserTokens,
                StampCutoff, SetCutoff
  <2>. QED  BY <2>1, <2>2, <2>3, <2>4, <2>5, <2>6, <2>7
<1>. QED  BY <1>2, <1>3

\* Guessing gets nowhere: a code is accepted once at most and within the attempts
\* it allows, and wrong passwords do not move the end of a lock that holds
\* (BumpOtpAttempt, RecordFailedAttempt).
THEOREM GuessingIsBounded == Spec => GuessingBounded
<1>1. IInv' => CodeSpentOnce'
  BY DEF IInv, CodesOK, CodeOK, CodeSpentOnce
<1>2. IInv /\ IInv' /\ [Next]_vars => [CodeSpentOnce' /\ LockKept]_vars
  BY <1>1, StepsKeepLocks
<1>. QED  BY <1>2, AccountsInvariant, PTL DEF Spec, GuessingBounded

================================================================================
