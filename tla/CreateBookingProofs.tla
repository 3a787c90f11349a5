--------------------------- MODULE CreateBookingProofs -------------------------
(***************************************************************************)
(* Proofs about the two modules that look at CreateVenueBooking statement  *)
(* by statement.  HallClaim: why the advisory lock of a date, held to the  *)
(* end of the transaction, makes check-then-insert safe, for any number of *)
(* transactions, venues and dates.  BookingRequest: why a request and its  *)
(* retries make one booking, for any number of calls, users, keys and      *)
(* slots.  The modules share no variable and no definition.                *)
(***************************************************************************)
EXTENDS HallClaim, BookingRequest, TLAPS

--------------------------------------------------------------------------------
(* HallClaim *)

\* Whether s is a row b has claimed before its current date.
Before(b, s) ==
  /\ s[1] = Request[b].facility
  /\ s[3] = Request[b].slot
  /\ s[2] \in Request[b].first .. (DateAt(Request[b], step[b]) - 1)

\* A claim writes its rows date by date, and keeps none after its end.
WrittenSoFar ==
  \A b \in Bookings :
    /\ step[b] <= Request[b].last - Request[b].first
    /\ written[b] \subseteq SlotsOf(b)
    /\ pc[b] \in {"idle", "locking", "checking", "inserting"} =>
         \A s \in SlotRows : s \in written[b] <=> Before(b, s)
    /\ pc[b] = "finishing" => written[b] = SlotsOf(b)
    /\ pc[b] \in {"booked", "rolledBack", "releasing", "released"} => written[b] = {}

\* The advisory locks of every date written, and of the one being looked at, are
\* held to the end.
LocksHeld ==
  \A b \in Bookings :
    /\ \A s \in written[b] : advisory[Key[<<s[1], s[2]>>]] = b
    /\ pc[b] \in {"checking", "inserting"} => advisory[KeyOf(b)] = b

\* What the clash check saw stays true until the insert: nobody else can commit
\* a row of a date whose lock b holds.
CheckStillHolds == \A b \in Bookings : pc[b] = "inserting" => ~Clash(b)

\* Nothing written overlaps anything committed.
WrittenAreFree ==
  \A b \in Bookings : \A s \in written[b] : \A t \in SlotRows :
    Overlap(s, t) => slotOwner[t] = NoBooking

CommittedExclusive ==
  \A s, t \in SlotRows :
    Overlap(s, t) => slotOwner[s] = NoBooking \/ slotOwner[t] = NoBooking \/ slotOwner[s] = slotOwner[t]

CommittedRows ==
  \A b \in Bookings, s \in SlotRows :
    slotOwner[s] = b <=> pc[b] \in {"booked", "releasing"} /\ s \in SlotsOf(b)

IInv ==
  /\ TypeOK
  /\ WrittenSoFar
  /\ LocksHeld
  /\ CheckStillHolds
  /\ WrittenAreFree
  /\ CommittedExclusive
  /\ CommittedRows

--------------------------------------------------------------------------------
(* Rows and days *)

LEMMA RequestFacts ==
  ASSUME NEW b \in Bookings
  PROVE  /\ Request[b].facility \in Facilities
         /\ Request[b].slot \in SlotTypes
         /\ Request[b].first \in Int /\ Request[b].last \in Int
         /\ 1 <= Request[b].first /\ Request[b].first <= Request[b].last
         /\ Request[b].last <= LastDate
         /\ b # NoBooking
BY ConstantsAssumption DEF RequestType, Dates

LEMMA SlotsOfRows ==
  ASSUME NEW b \in Bookings
  PROVE  SlotsOf(b) \subseteq SlotRows
BY RequestFacts, ConstantsAssumption DEF SlotsOf, SlotRows, Dates

\* The row a claim is at is one of its own.
LEMMA CurrentRow ==
  ASSUME TypeOK, WrittenSoFar, NEW b \in Bookings
  PROVE  /\ DayOf(b) \in Facilities \X Dates
         /\ KeyOf(b) = Key[DayOf(b)] /\ KeyOf(b) \in Keys
         /\ RowOf(b) \in SlotsOf(b)
         /\ RowOf(b) \in SlotRows
         /\ DayOf(b) = <<RowOf(b)[1], RowOf(b)[2]>>
         /\ RowOf(b)[3] = Request[b].slot
<1>1. step[b] \in Nat /\ step[b] <= Request[b].last - Request[b].first
  BY DEF TypeOK, WrittenSoFar
<1>2. DateAt(Request[b], step[b]) \in Request[b].first .. Request[b].last
  BY <1>1, RequestFacts DEF DateAt
<1>3. DayOf(b) \in Facilities \X Dates
  BY <1>2, RequestFacts, ConstantsAssumption DEF DayOf, Dates
<1>4. RowOf(b) \in SlotsOf(b)
  BY <1>2 DEF RowOf, DayOf, SlotsOf
<1>5. KeyOf(b) \in Keys
  BY <1>3, ConstantsAssumption DEF KeyOf
<1> QED BY <1>3, <1>4, <1>5, SlotsOfRows DEF RowOf, DayOf, KeyOf

LEMMA InitIInv == Init => IInv
<1> SUFFICES ASSUME Init PROVE IInv
  OBVIOUS
<1>1. TypeOK
  BY RequestFacts DEF Init, TypeOK, Step
<1>2. WrittenSoFar
  BY RequestFacts DEF Init, WrittenSoFar, Before, DateAt
<1>3. CommittedRows
  BY RequestFacts DEF Init, CommittedRows
<1>4. LocksHeld /\ CheckStillHolds /\ WrittenAreFree /\ CommittedExclusive
  BY DEF Init, LocksHeld, CheckStillHolds, WrittenAreFree, CommittedExclusive
<1> QED BY <1>1, <1>2, <1>3, <1>4 DEF IInv

--------------------------------------------------------------------------------
(* Steps that leave committed rows and their writers alone *)

\* Begin, Lock, Check and Insert's refusal, CouponUnavailable: nothing is written
\* and nothing is let go of.
LEMMA QuietStep ==
  ASSUME IInv, NEW b \in Bookings, NEW to \in Step,
         pc' = [pc EXCEPT ![b] = to],
         UNCHANGED <<step, slotOwner, written>>,
         advisory' \in [Keys -> Bookings \cup {NoBooking}],
         rowLock' \in [SlotRows -> Bookings \cup {NoBooking}],
         \A k \in Keys : advisory[k] # NoBooking => advisory'[k] = advisory[k],
         <<pc[b], to>> \in {<<"idle", "locking">>, <<"locking", "checking">>,
                            <<"checking", "refused">>, <<"checking", "inserting">>,
                            <<"inserting", "refused">>, <<"finishing", "refused">>},
         to \in {"checking", "inserting"} => advisory'[KeyOf(b)] = b,
         to = "inserting" => ~Clash(b)
  PROVE  IInv'
<1> USE DEF IInv
<1>1. TypeOK'
  BY DEF TypeOK
<1>2. WrittenSoFar'
  BY DEF WrittenSoFar, Before, TypeOK
<1>3. LocksHeld'
  <2>1. ASSUME NEW a \in Bookings, NEW s \in written[a] PROVE advisory'[Key[<<s[1], s[2]>>]] = a
    <3>1. s \in SlotRows
      BY DEF TypeOK
    <3>2. Key[<<s[1], s[2]>>] \in Keys
      BY <3>1, ConstantsAssumption DEF SlotRows
    <3> QED BY <3>2, RequestFacts DEF LocksHeld
  <2>2. ASSUME NEW a \in Bookings, pc'[a] \in {"checking", "inserting"}
        PROVE  advisory'[KeyOf(a)] = a
    <3>1. CASE a = b
      BY <2>2, <3>1 DEF TypeOK
    <3>2. CASE a # b
      BY <2>2, <3>2, CurrentRow, RequestFacts DEF LocksHeld, TypeOK
    <3> QED BY <3>1, <3>2
  <2> QED BY <2>1, <2>2 DEF LocksHeld, KeyOf, DayOf
<1>4. CheckStillHolds'
  BY DEF CheckStillHolds, TypeOK, Clash, DayOf
<1>5. WrittenAreFree' /\ CommittedExclusive'
  BY DEF WrittenAreFree, CommittedExclusive
<1>6. CommittedRows'
  BY DEF CommittedRows, TypeOK
<1> QED BY <1>1, <1>2, <1>3, <1>4, <1>5, <1>6

--------------------------------------------------------------------------------
(* The insert that succeeds *)

LEMMA InsertStep ==
  ASSUME IInv, NEW b \in Bookings, Insert(b), slotOwner[RowOf(b)] = NoBooking
  PROVE  IInv'
<1> USE DEF IInv
<1> DEFINE last == step[b] = Request[b].last - Request[b].first
<1>0. PICK r \in SlotRows : r = RowOf(b)
  BY CurrentRow
<1>1. /\ pc[b] = "inserting"
      /\ rowLock' = [rowLock EXCEPT ![r] = b]
      /\ written' = [written EXCEPT ![b] = @ \cup {r}]
      /\ pc' = [pc EXCEPT ![b] = IF last THEN "finishing" ELSE "locking"]
      /\ step' = IF last THEN step ELSE [step EXCEPT ![b] = @ + 1]
      /\ UNCHANGED <<advisory, slotOwner>>
  BY <1>0 DEF Insert, AtLastDate
<1>2. /\ r \in SlotsOf(b)
      /\ advisory[Key[<<r[1], r[2]>>]] = b
      /\ r[1] = Request[b].facility /\ r[2] = DateAt(Request[b], step[b]) /\ r[3] = Request[b].slot
      /\ slotOwner[r] = NoBooking
  BY <1>0, <1>1, CurrentRow DEF LocksHeld, RowOf, DayOf
<1>3. step[b] \in Nat /\ step[b] <= Request[b].last - Request[b].first
  BY DEF TypeOK, WrittenSoFar
<1> HIDE DEF last
<1>4. TypeOK'
  <2>1. step' \in [Bookings -> Nat]
    BY <1>1, <1>3 DEF TypeOK
  <2>2. pc' \in [Bookings -> Step]
    BY <1>1 DEF TypeOK, Step
  <2>3. \A a \in Bookings : step'[a] <= Request[a].last - Request[a].first
    <3>1. ASSUME NEW a \in Bookings, a # b PROVE step'[a] = step[a]
      BY <1>1, <3>1 DEF TypeOK
    <3>2. step'[b] = IF last THEN step[b] ELSE step[b] + 1
      BY <1>1 DEF TypeOK
    <3>3. step'[b] <= Request[b].last - Request[b].first
      BY <1>3, <3>2, RequestFacts DEF last
    <3> QED BY <3>1, <3>3 DEF TypeOK
  <2> QED BY <1>1, <2>1, <2>2, <2>3 DEF TypeOK
<1>5. WrittenSoFar'
  <2> SUFFICES ASSUME NEW a \in Bookings
               PROVE  /\ step'[a] <= Request[a].last - Request[a].first
                      /\ written'[a] \subseteq SlotsOf(a)
                      /\ pc'[a] \in {"idle", "locking", "checking", "inserting"} =>
                           \A s \in SlotRows : s \in written'[a] <=> Before(a, s)'
                      /\ pc'[a] = "finishing" => written'[a] = SlotsOf(a)
                      /\ pc'[a] \in {"booked", "rolledBack", "releasing", "released"} =>
                           written'[a] = {}
    BY DEF WrittenSoFar, SlotsOf
  <2>1. CASE a # b
    <3>1. /\ pc'[a] = pc[a] /\ step'[a] = step[a] /\ written'[a] = written[a]
      BY <1>1, <2>1 DEF TypeOK
    <3>2. \A s \in SlotRows : Before(a, s)' <=> Before(a, s)
      BY <3>1 DEF Before
    <3> QED BY <3>1, <3>2 DEF WrittenSoFar
  <2>2. CASE a = b
    <3>1. written'[b] = written[b] \cup {r} /\ written'[b] \subseteq SlotsOf(b)
      BY <1>1, <1>2 DEF TypeOK, WrittenSoFar
    <3>2. \A s \in SlotRows : s \in written[b] <=> Before(b, s)
      BY <1>1 DEF WrittenSoFar
    <3>3. \A s \in SlotRows :
            s \in written'[b] <=> /\ s[1] = Request[b].facility /\ s[3] = Request[b].slot
                                  /\ s[2] \in Request[b].first .. DateAt(Request[b], step[b])
      <4> SUFFICES ASSUME NEW s \in SlotRows
                   PROVE  s \in written'[b] <=>
                            /\ s[1] = Request[b].facility /\ s[3] = Request[b].slot
                            /\ s[2] \in Request[b].first .. DateAt(Request[b], step[b])
        OBVIOUS
      <4>1. s = r <=> s[1] = r[1] /\ s[2] = r[2] /\ s[3] = r[3]
        BY DEF SlotRows
      <4>2. s[2] \in Int
        BY ConstantsAssumption DEF SlotRows, Dates
      <4> QED BY <1>2, <1>3, <3>1, <3>2, <4>1, <4>2, RequestFacts DEF Before, DateAt
    <3>4. CASE last
      <4>1. step'[b] = step[b] /\ pc'[b] = "finishing"
        BY <1>1, <3>4 DEF TypeOK
      <4>2. DateAt(Request[b], step[b]) = Request[b].last
        BY <3>4, RequestFacts DEF DateAt, last
      <4>3. SlotsOf(b) \subseteq written'[b]
        <5> SUFFICES ASSUME NEW s \in SlotsOf(b) PROVE s \in written'[b]
          OBVIOUS
        <5>1. s \in SlotRows
          BY SlotsOfRows
        <5> QED BY <3>3, <4>2, <5>1 DEF SlotsOf
      <4> QED BY <1>3, <2>2, <3>1, <4>1, <4>3
    <3>5. CASE ~last
      <4>1. step'[b] = step[b] + 1 /\ pc'[b] = "locking"
        BY <1>1, <3>5 DEF TypeOK
      <4>2. step'[b] <= Request[b].last - Request[b].first
        BY <1>3, <3>5, <4>1, RequestFacts DEF last
      <4>3. \A s \in SlotRows : s \in written'[b] <=> Before(b, s)'
        <5>1. DateAt(Request[b], step'[b]) - 1 = DateAt(Request[b], step[b])
          BY <1>3, <4>1, RequestFacts DEF DateAt
        <5> QED BY <3>3, <5>1 DEF Before
      <4> QED BY <2>2, <3>1, <4>1, <4>2, <4>3
    <3> QED BY <3>4, <3>5
  <2> QED BY <2>1, <2>2
<1>6. LocksHeld'
  <2>1. ASSUME NEW a \in Bookings, NEW s \in written'[a] PROVE advisory[Key[<<s[1], s[2]>>]] = a
    BY <1>1, <1>2, <2>1 DEF TypeOK, LocksHeld
  <2>2. ASSUME NEW a \in Bookings, pc'[a] \in {"checking", "inserting"}
        PROVE  a # b /\ pc'[a] = pc[a] /\ step'[a] = step[a]
    BY <1>1, <2>2 DEF TypeOK
  <2> QED BY <1>1, <2>1, <2>2 DEF LocksHeld, KeyOf, DayOf
<1>7. CheckStillHolds'
  <2>1. ASSUME NEW a \in Bookings, pc'[a] = "inserting"
        PROVE  a # b /\ pc[a] = "inserting" /\ step'[a] = step[a]
    BY <1>1, <2>1 DEF TypeOK
  <2> QED BY <1>1, <2>1 DEF CheckStillHolds, Clash, DayOf
<1>8. WrittenAreFree'
  <2> SUFFICES ASSUME NEW a \in Bookings, NEW s \in written'[a], NEW t \in SlotRows, Overlap(s, t)
               PROVE  slotOwner[t] = NoBooking
    BY <1>1 DEF WrittenAreFree
  <2>1. CASE s \in written[a]
    BY <2>1 DEF WrittenAreFree
  <2>2. CASE s \notin written[a]
    <3>1. s = r
      BY <1>1, <2>2 DEF TypeOK
    <3>2. t = <<r[1], r[2], t[3]>> /\ t[3] \in SlotTypes
      BY <3>1 DEF Overlap, SlotRows
    <3>3. CASE t[3] = r[3]
      <4>1. t = r
        BY <3>2, <3>3 DEF SlotRows
      <4> QED BY <1>2, <4>1
    <3>4. CASE t[3] # r[3]
      <4>1. ~Clash(b)
        BY <1>1 DEF CheckStillHolds
      <4>2. t[3] = "FULL_DAY" \/ Request[b].slot = "FULL_DAY"
        BY <1>2, <3>1, <3>4 DEF Overlap
      <4>3. t = <<DayOf(b)[1], DayOf(b)[2], t[3]>>
        BY <1>0, <3>2, CurrentRow
      <4> QED BY <3>2, <4>1, <4>2, <4>3 DEF Clash
    <3> QED BY <3>3, <3>4
  <2> QED BY <2>1, <2>2
<1>9. CommittedExclusive'
  BY <1>1 DEF CommittedExclusive
<1>10. CommittedRows'
  <2>1. \A a \in Bookings : pc'[a] \in {"booked", "releasing"} <=> pc[a] \in {"booked", "releasing"}
    BY <1>1 DEF TypeOK
  <2> QED BY <1>1, <2>1 DEF CommittedRows, SlotsOf
<1> QED BY <1>4, <1>5, <1>6, <1>7, <1>8, <1>9, <1>10

--------------------------------------------------------------------------------
(* The end of a transaction *)

\* Locks fall, and only those of b.
LEMMA EndFacts ==
  ASSUME IInv, NEW b \in Bookings, NEW to \in {"booked", "rolledBack", "released"},
         EndTransaction(b), pc' = [pc EXCEPT ![b] = to], UNCHANGED step
  PROVE  /\ advisory' \in [Keys -> Bookings \cup {NoBooking}]
         /\ rowLock' \in [SlotRows -> Bookings \cup {NoBooking}]
         /\ written' \in [Bookings -> SUBSET SlotRows]
         /\ pc' \in [Bookings -> Step]
         /\ WrittenSoFar'
         /\ LocksHeld'
<1> USE DEF IInv
<1>1. /\ advisory' = [k \in Keys |-> IF advisory[k] = b THEN NoBooking ELSE advisory[k]]
      /\ rowLock' = [s \in SlotRows |-> IF rowLock[s] = b THEN NoBooking ELSE rowLock[s]]
      /\ written' = [written EXCEPT ![b] = {}]
  BY DEF EndTransaction
<1>2. /\ advisory' \in [Keys -> Bookings \cup {NoBooking}]
      /\ rowLock' \in [SlotRows -> Bookings \cup {NoBooking}]
      /\ written' \in [Bookings -> SUBSET SlotRows]
      /\ pc' \in [Bookings -> Step]
  BY <1>1 DEF TypeOK, Step
<1>3. ASSUME NEW a \in Bookings, a # b
      PROVE  pc'[a] = pc[a] /\ written'[a] = written[a] /\ step'[a] = step[a]
  BY <1>1, <1>3 DEF TypeOK
<1>4. pc'[b] = to /\ written'[b] = {} /\ step'[b] = step[b]
  BY <1>1 DEF TypeOK
<1>5. WrittenSoFar'
  <2> SUFFICES ASSUME NEW a \in Bookings
               PROVE  /\ step'[a] <= Request[a].last - Request[a].first
                      /\ written'[a] \subseteq SlotsOf(a)
                      /\ pc'[a] \in {"idle", "locking", "checking", "inserting"} =>
                           \A s \in SlotRows : s \in written'[a] <=> Before(a, s)'
                      /\ pc'[a] = "finishing" => written'[a] = SlotsOf(a)
                      /\ pc'[a] \in {"booked", "rolledBack", "releasing", "released"} =>
                           written'[a] = {}
    BY DEF WrittenSoFar, SlotsOf
  <2>1. \A s \in SlotRows : Before(a, s)' <=> Before(a, s)
    BY DEF Before
  <2>2. CASE a = b
    BY <1>4, <2>2 DEF WrittenSoFar
  <2>3. CASE a # b
    BY <1>3, <2>1, <2>3 DEF WrittenSoFar
  <2> QED BY <2>2, <2>3
<1>6. LocksHeld'
  <2>1. ASSUME NEW a \in Bookings, NEW s \in written'[a] PROVE advisory'[Key[<<s[1], s[2]>>]] = a
    <3>1. a # b /\ s \in written[a]
      BY <1>3, <1>4, <2>1
    <3>2. Key[<<s[1], s[2]>>] \in Keys
      BY <3>1, ConstantsAssumption DEF TypeOK, SlotRows
    <3>3. advisory[Key[<<s[1], s[2]>>]] = a
      BY <3>1 DEF LocksHeld
    <3> QED BY <1>1, <3>1, <3>2, <3>3
  <2>2. ASSUME NEW a \in Bookings, pc'[a] \in {"checking", "inserting"}
        PROVE  advisory'[KeyOf(a)'] = a
    <3>1. a # b /\ pc[a] \in {"checking", "inserting"}
      BY <1>3, <1>4, <2>2
    <3>2. KeyOf(a)' = KeyOf(a) /\ KeyOf(a) \in Keys
      BY CurrentRow DEF KeyOf, DayOf
    <3>3. advisory[KeyOf(a)] = a
      BY <3>1 DEF LocksHeld
    <3> QED BY <1>1, <3>1, <3>2, <3>3
  <2> QED BY <2>1, <2>2 DEF LocksHeld, DayOf
<1> QED BY <1>2, <1>5, <1>6

\* Rollback and ConnectionLost: a claim leaves nothing, a release the booking.
LEMMA RollbackStep ==
  ASSUME IInv, NEW b \in Bookings, EndTransaction(b), UNCHANGED <<step, slotOwner>>,
         NEW to \in {"rolledBack", "booked"}, pc' = [pc EXCEPT ![b] = to],
         pc[b] \in {"booked", "releasing"} <=> to = "booked"
  PROVE  IInv'
<1> USE DEF IInv
<1>1. TypeOK' /\ WrittenSoFar' /\ LocksHeld'
  BY EndFacts DEF TypeOK
<1>2. written' = [written EXCEPT ![b] = {}]
  BY DEF EndTransaction
<1>3. CheckStillHolds'
  BY DEF CheckStillHolds, Clash, DayOf, TypeOK
<1>4. WrittenAreFree' /\ CommittedExclusive'
  BY <1>2 DEF WrittenAreFree, CommittedExclusive, TypeOK
<1>5. CommittedRows'
  BY DEF CommittedRows, TypeOK, SlotsOf
<1> QED BY <1>1, <1>3, <1>4, <1>5

LEMMA CommitStep ==
  ASSUME IInv, NEW b \in Bookings, Commit(b)
  PROVE  IInv'
<1> USE DEF IInv
<1>1. /\ pc[b] = "finishing"
      /\ pc' = [pc EXCEPT ![b] = "booked"]
      /\ slotOwner' = [s \in SlotRows |-> IF s \in written[b] THEN b ELSE slotOwner[s]]
      /\ EndTransaction(b)
      /\ UNCHANGED step
  BY DEF Commit, Goto
<1>2. TypeOK' /\ WrittenSoFar' /\ LocksHeld'
  BY <1>1, EndFacts DEF TypeOK
<1>3. written' = [written EXCEPT ![b] = {}]
  BY <1>1 DEF EndTransaction
<1>4. /\ written[b] = SlotsOf(b)
      /\ \A s \in written[b] : advisory[Key[<<s[1], s[2]>>]] = b
      /\ \A s \in written[b] : \A t \in SlotRows : Overlap(s, t) => slotOwner[t] = NoBooking
  BY <1>1 DEF WrittenSoFar, LocksHeld, WrittenAreFree
<1>5. CheckStillHolds'
  <2> SUFFICES ASSUME NEW a \in Bookings, pc'[a] = "inserting", Clash(a)'
               PROVE  FALSE
    BY DEF CheckStillHolds
  <2>1. a # b /\ pc[a] = "inserting"
    BY <1>1 DEF TypeOK
  <2>2. PICK t \in SlotTypes :
          /\ t = "FULL_DAY" \/ Request[a].slot = "FULL_DAY"
          /\ slotOwner'[<<DayOf(a)[1], DayOf(a)[2], t>>] # NoBooking
    BY <1>1 DEF Clash, DayOf
  <2>3. PICK r : r = <<DayOf(a)[1], DayOf(a)[2], t>>
    OBVIOUS
  <2>4. r \in SlotRows /\ <<r[1], r[2]>> = DayOf(a)
    BY <2>3, CurrentRow DEF SlotRows
  <2>5. slotOwner[r] = NoBooking
    BY <2>1, <2>2, <2>3 DEF CheckStillHolds, Clash
  <2>6. r \in written[b]
    BY <1>1, <2>2, <2>3, <2>4, <2>5
  <2>7. advisory[KeyOf(a)] = a
    BY <2>1 DEF LocksHeld
  <2> QED BY <1>4, <2>1, <2>4, <2>6, <2>7 DEF KeyOf
<1>6. WrittenAreFree'
  <2> SUFFICES ASSUME NEW a \in Bookings, NEW s \in written'[a], NEW t \in SlotRows, Overlap(s, t)
               PROVE  slotOwner'[t] = NoBooking
    BY DEF WrittenAreFree
  <2>1. a # b /\ s \in written[a]
    BY <1>3 DEF TypeOK
  <2>2. slotOwner[t] = NoBooking
    BY <2>1 DEF WrittenAreFree
  <2>3. t \notin written[b]
    <3>1. <<s[1], s[2]>> = <<t[1], t[2]>>
      BY DEF Overlap
    <3>2. advisory[Key[<<s[1], s[2]>>]] = a
      BY <2>1 DEF LocksHeld
    <3> QED BY <1>4, <2>1, <3>1, <3>2
  <2> QED BY <1>1, <2>2, <2>3
<1>7. CommittedExclusive'
  <2> SUFFICES ASSUME NEW s \in SlotRows, NEW t \in SlotRows, Overlap(s, t),
                      slotOwner'[s] # NoBooking, slotOwner'[t] # NoBooking
               PROVE  slotOwner'[s] = slotOwner'[t]
    BY DEF CommittedExclusive
  <2>1. Overlap(t, s)
    BY DEF Overlap
  <2>2. CASE s \in written[b] /\ t \in written[b]
    BY <1>1, <2>2
  <2>3. CASE s \in written[b] /\ t \notin written[b]
    BY <1>1, <1>4, <2>3
  <2>4. CASE s \notin written[b] /\ t \in written[b]
    BY <1>1, <1>4, <2>1, <2>4
  <2>5. CASE s \notin written[b] /\ t \notin written[b]
    BY <1>1, <2>5 DEF CommittedExclusive
  <2> QED BY <2>2, <2>3, <2>4, <2>5
<1>8. CommittedRows'
  <2> SUFFICES ASSUME NEW a \in Bookings, NEW s \in SlotRows
               PROVE  slotOwner'[s] = a <=> pc'[a] \in {"booked", "releasing"} /\ s \in SlotsOf(a)
    BY DEF CommittedRows, SlotsOf
  <2>1. CASE a = b
    BY <1>1, <1>4, <2>1 DEF CommittedRows, TypeOK
  <2>2. CASE a # b /\ s \in written[b]
    <3>1. Overlap(s, s)
      BY DEF Overlap
    <3>2. slotOwner[s] # a
      BY <1>4, <2>2, <3>1, RequestFacts
    <3> QED BY <1>1, <2>2, <3>2 DEF CommittedRows, TypeOK
  <2>3. CASE a # b /\ s \notin written[b]
    BY <1>1, <2>3 DEF CommittedRows, TypeOK
  <2> QED BY <2>1, <2>2, <2>3
<1> QED BY <1>2, <1>5, <1>6, <1>7, <1>8

--------------------------------------------------------------------------------
(* The release *)

LEMMA ReleaseStep ==
  ASSUME IInv, NEW b \in Bookings, Release(b)
  PROVE  IInv'
<1> USE DEF IInv
<1>1. /\ pc[b] = "booked"
      /\ pc' = [pc EXCEPT ![b] = "releasing"]
      /\ rowLock' = [s \in SlotRows |-> IF slotOwner[s] = b THEN b ELSE rowLock[s]]
      /\ UNCHANGED <<step, advisory, slotOwner, written>>
  BY DEF Release, Goto
<1>2. TypeOK'
  BY <1>1 DEF TypeOK, Step
<1>3. WrittenSoFar'
  BY <1>1 DEF WrittenSoFar, Before, TypeOK
<1>4. LocksHeld' /\ CheckStillHolds'
  BY <1>1 DEF LocksHeld, CheckStillHolds, Clash, KeyOf, DayOf, TypeOK
<1>5. WrittenAreFree' /\ CommittedExclusive'
  BY <1>1 DEF WrittenAreFree, CommittedExclusive
<1>6. CommittedRows'
  BY <1>1 DEF CommittedRows, TypeOK, SlotsOf
<1> QED BY <1>2, <1>3, <1>4, <1>5, <1>6

LEMMA CommitReleaseStep ==
  ASSUME IInv, NEW b \in Bookings, CommitRelease(b)
  PROVE  IInv'
<1> USE DEF IInv
<1>1. /\ pc[b] = "releasing"
      /\ pc' = [pc EXCEPT ![b] = "released"]
      /\ slotOwner' = [s \in SlotRows |-> IF slotOwner[s] = b THEN NoBooking ELSE slotOwner[s]]
      /\ EndTransaction(b)
      /\ UNCHANGED step
  BY DEF CommitRelease, Goto
<1>2. TypeOK' /\ WrittenSoFar' /\ LocksHeld'
  BY <1>1, EndFacts DEF TypeOK
<1>3. written' = [written EXCEPT ![b] = {}]
  BY <1>1 DEF EndTransaction
<1>4. \A s \in SlotRows : slotOwner[s] = NoBooking => slotOwner'[s] = NoBooking
  BY <1>1
<1>5. CheckStillHolds'
  <2> SUFFICES ASSUME NEW a \in Bookings, pc'[a] = "inserting", Clash(a)'
               PROVE  FALSE
    BY DEF CheckStillHolds
  <2>1. pc[a] = "inserting"
    BY <1>1 DEF TypeOK
  <2>2. PICK t \in SlotTypes :
          /\ t = "FULL_DAY" \/ Request[a].slot = "FULL_DAY"
          /\ slotOwner'[<<DayOf(a)[1], DayOf(a)[2], t>>] # NoBooking
    BY <1>1 DEF Clash, DayOf
  <2>3. slotOwner[<<DayOf(a)[1], DayOf(a)[2], t>>] = NoBooking
    BY <2>1, <2>2 DEF CheckStillHolds, Clash
  <2>4. <<DayOf(a)[1], DayOf(a)[2], t>> \in SlotRows
    BY CurrentRow DEF SlotRows
  <2> QED BY <1>4, <2>2, <2>3, <2>4
<1>6. WrittenAreFree'
  BY <1>3, <1>4 DEF WrittenAreFree, TypeOK
<1>7. CommittedExclusive'
  BY <1>1 DEF CommittedExclusive
<1>8. CommittedRows'
  BY <1>1, RequestFacts DEF CommittedRows, TypeOK, SlotsOf
<1> QED BY <1>2, <1>5, <1>6, <1>7, <1>8

--------------------------------------------------------------------------------
(* The inductive invariant, and what follows from it *)

LEMMA NextStep == IInv /\ [Next]_vars => IInv'
<1> SUFFICES ASSUME IInv, [Next]_vars PROVE IInv'
  OBVIOUS
<1> USE DEF IInv
<1>1. ASSUME NEW b \in Bookings, Begin(b) PROVE IInv'
  BY <1>1, QuietStep DEF Begin, Goto, TypeOK, Step
<1>2. ASSUME NEW b \in Bookings, Lock(b) PROVE IInv'
  <2>1. /\ advisory' \in [Keys -> Bookings \cup {NoBooking}]
        /\ advisory'[KeyOf(b)] = b
        /\ \A k \in Keys : advisory[k] # NoBooking => advisory'[k] = advisory[k]
    BY <1>2, CurrentRow DEF Lock, TypeOK
  <2> QED BY <1>2, <2>1, QuietStep DEF Lock, Goto, TypeOK, Step
<1>3. ASSUME NEW b \in Bookings, Check(b) PROVE IInv'
  <2>1. advisory[KeyOf(b)] = b
    BY <1>3 DEF Check, Goto, LocksHeld
  <2>2. CASE Clash(b)
    BY <1>3, <2>2, QuietStep DEF Check, Goto, TypeOK, Step
  <2>3. CASE ~Clash(b)
    BY <1>3, <2>1, <2>3, QuietStep DEF Check, Goto, TypeOK, Step
  <2> QED BY <2>2, <2>3
<1>4. ASSUME NEW b \in Bookings, Insert(b) PROVE IInv'
  <2>1. CASE slotOwner[RowOf(b)] = NoBooking
    BY <1>4, <2>1, InsertStep
  <2>2. CASE slotOwner[RowOf(b)] # NoBooking
    <3>1. rowLock' \in [SlotRows -> Bookings \cup {NoBooking}]
      BY <1>4 DEF Insert, TypeOK
    <3> QED BY <1>4, <2>2, <3>1, QuietStep DEF Insert, TypeOK, Step
  <2> QED BY <2>1, <2>2
<1>5. ASSUME NEW b \in Bookings, CouponUnavailable(b) PROVE IInv'
  BY <1>5, QuietStep DEF CouponUnavailable, Goto, TypeOK, Step
<1>6. ASSUME NEW b \in Bookings, Rollback(b) \/ ConnectionLost(b) PROVE IInv'
  <2>1. CASE Rollback(b)
    BY <2>1, RollbackStep DEF Rollback, Goto
  <2>2. CASE ConnectionLost(b)
    <3> DEFINE to == IF pc[b] = "releasing" THEN "booked" ELSE "rolledBack"
    <3>1. to \in {"rolledBack", "booked"} /\ (pc[b] \in {"booked", "releasing"} <=> to = "booked")
      BY <2>2 DEF ConnectionLost
    <3>2. /\ pc' = [pc EXCEPT ![b] = to]
          /\ EndTransaction(b) /\ UNCHANGED <<step, slotOwner>>
      BY <2>2 DEF ConnectionLost, TypeOK, IInv
    <3> HIDE DEF to
    <3> QED BY <3>1, <3>2, RollbackStep
  <2> QED BY <1>6, <2>1, <2>2
<1>7. CASE UNCHANGED vars
  <2>1. TypeOK' /\ LocksHeld' /\ CheckStillHolds'
    BY <1>7 DEF vars, TypeOK, LocksHeld, CheckStillHolds, Clash, KeyOf, DayOf
  <2>2. WrittenSoFar'
    BY <1>7 DEF vars, WrittenSoFar, Before, SlotsOf
  <2>3. WrittenAreFree' /\ CommittedExclusive' /\ CommittedRows'
    BY <1>7 DEF vars, WrittenAreFree, CommittedExclusive, CommittedRows, SlotsOf
  <2> QED BY <2>1, <2>2, <2>3
<1> QED
  BY <1>1, <1>2, <1>3, <1>4, <1>5, <1>6, <1>7, CommitStep, ReleaseStep, CommitReleaseStep
     DEF Next, Progress

LEMMA Invariance == Spec => []IInv
BY InitIInv, NextStep, PTL DEF Spec

\* Every variable keeps its type.
THEOREM TypeCorrect == Spec => []TypeOK
<1>1. IInv => TypeOK
  BY DEF IInv
<1> QED BY <1>1, Invariance, PTL

\* Two transactions never hold overlapping claims, committed or not.
THEOREM ClaimsAreExclusive == Spec => []ClaimsExclusive
<1>1. IInv => ClaimsExclusive
  <2> SUFFICES ASSUME IInv, NEW a \in Bookings, NEW b \in Bookings, a # b,
                      NEW s \in ClaimedBy(a), NEW t \in ClaimedBy(b), Overlap(s, t)
               PROVE  FALSE
    BY DEF ClaimsExclusive
  <2> USE DEF IInv
  <2>1. s \in SlotRows /\ t \in SlotRows /\ Overlap(t, s)
    BY DEF ClaimedBy, TypeOK, Overlap
  <2>2. CASE s \in written[a] /\ t \in written[b]
    <3>1. advisory[Key[<<s[1], s[2]>>]] = a /\ advisory[Key[<<t[1], t[2]>>]] = b
      BY <2>2 DEF LocksHeld
    <3>2. <<s[1], s[2]>> = <<t[1], t[2]>>
      BY DEF Overlap
    <3> QED BY <3>1, <3>2
  <2>3. CASE s \in written[a] /\ t \notin written[b]
    BY <2>1, <2>3, RequestFacts DEF ClaimedBy, WrittenAreFree
  <2>4. CASE s \notin written[a] /\ t \in written[b]
    BY <2>1, <2>4, RequestFacts DEF ClaimedBy, WrittenAreFree
  <2>5. CASE s \notin written[a] /\ t \notin written[b]
    BY <2>1, <2>5, RequestFacts DEF ClaimedBy, CommittedExclusive
  <2> QED BY <2>2, <2>3, <2>4, <2>5
<1> QED BY <1>1, Invariance, PTL

\* Every date or none, wherever a claim is interrupted.
THEOREM AllOrNothing == Spec => []AllDatesOrNone
<1>1. IInv => AllDatesOrNone
  BY SlotsOfRows DEF IInv, CommittedRows, AllDatesOrNone
<1> QED BY <1>1, Invariance, PTL

\* Exclusive and whole at every statement of every claim, for any requests and
\* even when lock keys collide.
THEOREM ClaimsAreSound == Spec => []ClaimsSound
BY ClaimsAreExclusive, AllOrNothing, PTL DEF ClaimsSound

--------------------------------------------------------------------------------
(* Refinement *)

LEMMA HalfDayRows ==
  ASSUME NEW h \in HalfDays
  PROVE  /\ h = <<h[1], h[2], h[3]>>
         /\ h[3] \in {"MORNING", "EVENING"}
         /\ h \in SlotRows
         /\ <<h[1], h[2], "FULL_DAY">> \in SlotRows
BY DEF HalfDays, SlotRows, SlotTypes

\* Every half-day has a booking for its owner, or nobody.
LEMMA HoldersAreBookings ==
  ASSUME IInv, NEW h \in HalfDays
  PROVE  Holder(h) \in Bookings \cup {NoBooking}
BY HalfDayRows DEF IInv, TypeOK, Holder

\* The commit takes, in one step, half-days that were all free.
LEMMA CommitTakes ==
  ASSUME IInv, NEW b \in Bookings, Commit(b)
  PROVE  Promise!Next \/ UNCHANGED [h \in HalfDays |-> Holder(h)]
<1> USE DEF IInv
<1> DEFINE full(h) == <<h[1], h[2], "FULL_DAY">>
           wanted == {h \in HalfDays : h \in written[b] \/ full(h) \in written[b]}
<1>1. /\ slotOwner' = [s \in SlotRows |-> IF s \in written[b] THEN b ELSE slotOwner[s]]
      /\ pc[b] = "finishing"
      /\ \A s \in written[b] : \A t \in SlotRows : Overlap(s, t) => slotOwner[t] = NoBooking
  BY DEF Commit, Goto, WrittenAreFree
<1>2. b # NoBooking
  BY RequestFacts
<1>3. ASSUME NEW h \in HalfDays, h \in wanted
      PROVE  Holder(h) = NoBooking /\ Holder(h)' = b
  <2>1. h \in SlotRows /\ full(h) \in SlotRows
    BY HalfDayRows
  <2>2. \A s \in {h, full(h)} : Overlap(s, h) /\ Overlap(s, full(h))
    BY DEF Overlap
  <2>3. slotOwner[h] = NoBooking /\ slotOwner[full(h)] = NoBooking
    BY <1>1, <1>3, <2>1, <2>2
  <2>4. CASE full(h) \in written[b]
    BY <1>1, <1>2, <2>1, <2>3, <2>4 DEF Holder
  <2>5. CASE h \in written[b] /\ full(h) \notin written[b]
    BY <1>1, <1>2, <2>1, <2>3, <2>5 DEF Holder
  <2> QED BY <1>3, <2>4, <2>5
<1>4. ASSUME NEW h \in HalfDays, h \notin wanted PROVE Holder(h)' = Holder(h)
  BY <1>1, <1>4, HalfDayRows DEF Holder
<1>5. \A h \in HalfDays : Holder(h) # b
  BY <1>1, <1>2, HalfDayRows DEF Holder, CommittedRows
<1>6. \A h \in HalfDays : Holder(h)' \in Bookings \cup {NoBooking}
  BY <1>3, <1>4, HoldersAreBookings
<1>7. Promise!Take(b)
  BY <1>3, <1>4, <1>5, <1>6 DEF Promise!Take, Promise!HeldBy, Promise!TypeOK
<1> QED BY <1>7 DEF Promise!Next

LEMMA ReleaseGivesBack ==
  ASSUME IInv, NEW b \in Bookings, CommitRelease(b)
  PROVE  Promise!Next
<1>1. slotOwner' = [s \in SlotRows |-> IF slotOwner[s] = b THEN NoBooking ELSE slotOwner[s]]
  BY DEF CommitRelease
<1>2. ASSUME NEW h \in HalfDays
      PROVE  Holder(h)' = IF Holder(h) = b THEN NoBooking ELSE Holder(h)
  <2> DEFINE full == <<h[1], h[2], "FULL_DAY">>
  <2>1. full \in SlotRows /\ h \in SlotRows /\ Overlap(full, h)
    BY HalfDayRows DEF Overlap
  <2>2. \/ slotOwner[full] = NoBooking
        \/ slotOwner[h] = NoBooking
        \/ slotOwner[full] = slotOwner[h]
    BY <2>1 DEF IInv, CommittedExclusive
  <2>3. b # NoBooking
    BY RequestFacts
  <2> QED BY <1>1, <2>1, <2>2, <2>3 DEF Holder
<1>3. [h \in HalfDays |-> Holder(h)]' =
        [h \in HalfDays |-> IF Holder(h) = b THEN NoBooking ELSE Holder(h)]
  BY <1>2
<1>4. Promise!GiveBack(b)
  BY <1>3 DEF Promise!GiveBack
<1> QED BY <1>4 DEF Promise!Next

\* Statement by statement and in any interleaving, the claims and releases of a
\* venue implement the calendar that takes and gives back in one step: what
\* allows Booking to treat each of them as one step.
THEOREM ImplementsSlotPromise == Spec => SlotPromiseHolds
<1>1. Init => Promise!Init
  BY HalfDayRows DEF Init, Promise!Init, Holder
<1>2. IInv /\ [Next]_vars => [Promise!Next]_[h \in HalfDays |-> Holder(h)]
  <2> SUFFICES ASSUME IInv, [Next]_vars
               PROVE  Promise!Next \/ UNCHANGED [h \in HalfDays |-> Holder(h)]
    OBVIOUS
  <2>1. CASE UNCHANGED slotOwner
    <3>1. \A h \in HalfDays : Holder(h)' = Holder(h)
      BY <2>1 DEF Holder
    <3> QED BY <3>1
  <2> QED
    BY <2>1, CommitTakes, ReleaseGivesBack
       DEF Next, Progress, vars, Begin, Lock, Check, Insert, CouponUnavailable, Rollback,
           ConnectionLost, Release
<1> QED BY <1>1, <1>2, Invariance, PTL DEF Spec, SlotPromiseHolds, Promise!Spec

--------------------------------------------------------------------------------
(* BookingRequest *)

\* What makes the promise to a retry inductive.  Rows, committed or not, are the
\* only ones under their key;
KeyIsUnique ==
  \A c, d \in Calls :
    row[c] # "none" /\ row[d] # "none" /\ IdemKey[c] # NoKey /\ IdemKey[c] = IdemKey[d] => c = d

\* a call that has not inserted its row has none, one that is to announce it has
\* committed it, and the loser of the race on the key lost it to a committed row;
RowsFollowCalls ==
  \A c \in Calls :
    /\ stage[c] \in {"idle", "lookup", "inserting", "relookup"} => row[c] = "none"
    /\ stage[c] \in {"announcing", "answering"} => c \in Committed
    /\ stage[c] = "relookup" => StoredUnder(c) # {}

\* a call that has not ended has told its client nothing, and a booking is told
\* to its maker or to a call with the maker's key and user;
AnswersHaveRows ==
  \A c \in Calls :
    /\ stage[c] # "done" => answer[c] = Nothing
    /\ answer[c] \in Calls =>
         /\ answer[c] \in Committed
         /\ UserOf[answer[c]] = UserOf[c]
         /\ answer[c] = c \/ (IdemKey[c] # NoKey /\ IdemKey[answer[c]] = IdemKey[c])

\* a booking is announced by its call on the way from the commit to the answer;
AnnouncedOnTheWay ==
  \A c \in Calls :
    /\ stage[c] = "answering" => announced[c] = 1
    /\ stage[c] \notin {"answering", "done", "lost"} => announced[c] = 0

\* and only a live booking holds a slot.
OwnersLive == \A s \in Slots : slotHolder[s] \in Calls => row[slotHolder[s]] = "live"

RequestInv ==
  /\ CallsTypeOK
  /\ KeyIsUnique
  /\ RowsFollowCalls
  /\ AnswersHaveRows
  /\ OwnersLive
  /\ NeverDuplicate
  /\ AnnouncedOnce
  /\ AnnouncedOnTheWay

--------------------------------------------------------------------------------
LEMMA RequestInvInit == RequestInit => RequestInv
BY CallsAssumption
   DEF RequestInit, RequestInv, CallsTypeOK, KeyIsUnique, RowsFollowCalls, AnswersHaveRows, OwnersLive,
       NeverDuplicate, AnnouncedOnce, AnnouncedOnTheWay, CallStep, RowState, Answer, Refusals

\* A call moves on and its row stays as it is: the keys and the slots with it.
LEMMA SameRows ==
  ASSUME RequestInv, UNCHANGED <<row, slotHolder>>
  PROVE  /\ KeyIsUnique' /\ OwnersLive'
         /\ UNCHANGED Committed
         /\ \A c \in Calls : UNCHANGED StoredUnder(c)
BY DEF RequestInv, KeyIsUnique, OwnersLive, Committed, StoredUnder

\* A step that announces nothing, and makes nothing an answer of its own call.
LEMMA NothingAnnounced ==
  ASSUME RequestInv, UNCHANGED announced, Committed \subseteq Committed',
         NEW c \in Calls, NEW to \in CallStep \ {"answering"},
         to \in {"done", "lost"} \/ stage[c] \notin {"answering", "done", "lost"},
         stage' = [stage EXCEPT ![c] = to],
         \A d \in Calls : answer'[d] = d => answer[d] = d
  PROVE  AnnouncedOnce' /\ AnnouncedOnTheWay'
<1>1. AnnouncedOnce'
  BY DEF RequestInv, AnnouncedOnce
<1>2. AnnouncedOnTheWay'
  BY DEF RequestInv, AnnouncedOnTheWay, CallsTypeOK
<1> QED BY <1>1, <1>2

\* A call ends with an answer that is not its own booking: a refusal, or the
\* booking its key and user made before.
LEMMA AnswerStep ==
  ASSUME RequestInv, NEW c \in Calls, NEW a \in Answer,
         stage[c] # "done", stage[c] # "claiming", stage' = [stage EXCEPT ![c] = "done"],
         answer' = [answer EXCEPT ![c] = a],
         a \in (Refusals \ {"duplicate"}) \cup StoredUnder(c),
         a \in Calls => UserOf[a] = UserOf[c] /\ row[c] = "none",
         UNCHANGED <<row, slotHolder, announced>>
  PROVE  RequestInv'
<1> USE DEF RequestInv
<1>1. CallsTypeOK'
  BY DEF CallsTypeOK, CallStep
<1>2. RowsFollowCalls'
  BY SameRows DEF RowsFollowCalls, CallsTypeOK
<1>3. a # c
  BY CallsAssumption DEF StoredUnder, Committed
<1>4. AnswersHaveRows'
  <2> SUFFICES ASSUME NEW d \in Calls
               PROVE  /\ stage'[d] # "done" => answer'[d] = Nothing
                      /\ answer'[d] \in Calls =>
                           /\ answer'[d] \in Committed
                           /\ UserOf[answer'[d]] = UserOf[d]
                           /\ answer'[d] = d \/ (IdemKey[d] # NoKey /\ IdemKey[answer'[d]] = IdemKey[d])
    BY SameRows DEF AnswersHaveRows
  <2>1. CASE d = c
    BY <2>1, CallsAssumption DEF CallsTypeOK, StoredUnder
  <2>2. CASE d # c
    BY <2>2 DEF CallsTypeOK, AnswersHaveRows
  <2> QED BY <2>1, <2>2
<1>5. NeverDuplicate'
  BY CallsAssumption DEF NeverDuplicate, CallsTypeOK, StoredUnder, Committed, Refusals
<1>6. AnnouncedOnce' /\ AnnouncedOnTheWay'
  <2>1. \A d \in Calls : answer'[d] = d => answer[d] = d
    BY <1>3 DEF CallsTypeOK
  <2>2. "done" \in CallStep
    BY DEF CallStep
  <2> QED BY <2>1, <2>2, SameRows, NothingAnnounced
<1> QED BY <1>1, <1>2, <1>4, <1>5, <1>6, SameRows

\* A call moves on without an answer, and its row with it.
LEMMA MoveOn ==
  ASSUME RequestInv, NEW c \in Calls, NEW to \in {"lookup", "inserting", "relookup", "lost"},
         stage[c] \notin {"done", "lost", "claiming"}, stage' = [stage EXCEPT ![c] = to],
         to = "lost" \/ row[c] = "none",
         to = "relookup" => StoredUnder(c) # {},
         UNCHANGED <<row, slotHolder, answer, announced>>
  PROVE  RequestInv'
<1> USE DEF RequestInv
<1>1. CallsTypeOK'
  BY DEF CallsTypeOK, CallStep
<1>2. RowsFollowCalls'
  BY SameRows DEF RowsFollowCalls, CallsTypeOK
<1>3. AnswersHaveRows'
  BY SameRows DEF AnswersHaveRows, CallsTypeOK
<1>4. NeverDuplicate'
  BY DEF NeverDuplicate
<1>5. AnnouncedOnce' /\ AnnouncedOnTheWay'
  <2>1. stage[c] = "answering" => to = "lost"
    BY DEF RowsFollowCalls, Committed
  <2>2. to \in CallStep \ {"answering"}
    BY DEF CallStep
  <2> QED BY <2>1, <2>2, SameRows, NothingAnnounced
<1> QED BY <1>1, <1>2, <1>3, <1>4, <1>5, SameRows

--------------------------------------------------------------------------------
(* One lemma per step of a call *)

LEMMA LookupStep == ASSUME RequestInv, NEW c \in Calls, Lookup(c) PROVE RequestInv'
<1>1. row[c] = "none"
  BY DEF Lookup, StageTo, RequestInv, RowsFollowCalls
<1>2. CASE StoredUnder(c) = {}
  BY <1>1, <1>2, MoveOn DEF Lookup, StageTo
<1>3. CASE StoredUnder(c) # {}
  <2>1. PICK b \in StoredUnder(c) : Reply(c, Original(c, b))
    BY <1>3 DEF Lookup
  <2>2. b \in Calls
    BY DEF StoredUnder, Committed
  <2> DEFINE a == Original(c, b)
  <2>3. a \in Answer /\ a \in (Refusals \ {"duplicate"}) \cup StoredUnder(c)
    BY <2>2 DEF Original, Answer, Refusals
  <2>4. a \in Calls => UserOf[a] = UserOf[c]
    BY <2>2, CallsAssumption DEF Original, Refusals
  <2> HIDE DEF a
  <2> QED BY <1>1, <1>3, <2>1, <2>3, <2>4, AnswerStep DEF Lookup, StageTo, Reply, a
<1> QED BY <1>2, <1>3

LEMMA RelookupStep == ASSUME RequestInv, NEW c \in Calls, Relookup(c) PROVE RequestInv'
<1>1. row[c] = "none" /\ StoredUnder(c) # {}
  BY DEF Relookup, StageTo, RequestInv, RowsFollowCalls
<1>2. PICK b \in StoredUnder(c) : Reply(c, Original(c, b))
  BY <1>1 DEF Relookup
<1>3. b \in Calls
  BY DEF StoredUnder, Committed
<1> DEFINE a == Original(c, b)
<1>4. a \in Answer /\ a \in (Refusals \ {"duplicate"}) \cup StoredUnder(c)
  BY <1>3 DEF Original, Answer, Refusals
<1>5. a \in Calls => UserOf[a] = UserOf[c]
  BY <1>3, CallsAssumption DEF Original, Refusals
<1> HIDE DEF a
<1> QED BY <1>1, <1>2, <1>4, <1>5, AnswerStep DEF Relookup, StageTo, Reply, a

\* The index lets a row in when no other has its key.
LEMMA InsertRowStep == ASSUME RequestInv, NEW c \in Calls, InsertRow(c) PROVE RequestInv'
<1> USE DEF RequestInv
<1>1. row[c] = "none" /\ stage[c] = "inserting"
  BY DEF InsertRow, StageTo, RowsFollowCalls
<1>2. CASE StoredUnder(c) # {}
  BY <1>1, <1>2, MoveOn DEF InsertRow, StageTo
<1>3. CASE StoredUnder(c) = {}
  <2>1. /\ stage' = [stage EXCEPT ![c] = "claiming"]
        /\ row' = [row EXCEPT ![c] = "open"]
        /\ UNCHANGED <<slotHolder, answer, announced>>
    BY <1>3 DEF InsertRow, StageTo
  <2>2. CallsTypeOK'
    BY <2>1 DEF CallsTypeOK, CallStep, RowState
  <2>3. \A d \in Calls : IdemKey[c] # NoKey /\ IdemKey[d] = IdemKey[c] => row[d] = "none"
    BY <1>3 DEF InsertRow, OpenUnder, StoredUnder, Committed, CallsTypeOK, RowState
  <2>4. KeyIsUnique'
    BY <2>1, <2>3 DEF KeyIsUnique, CallsTypeOK
  <2>5. Committed' = Committed
    BY <1>1, <2>1 DEF Committed, CallsTypeOK
  <2>6. \A d \in Calls : StoredUnder(d)' = StoredUnder(d)
    BY <2>5 DEF StoredUnder
  <2>7. RowsFollowCalls'
    BY <1>1, <2>1, <2>5, <2>6 DEF RowsFollowCalls, CallsTypeOK
  <2>8. AnswersHaveRows'
    BY <1>1, <2>1, <2>5 DEF AnswersHaveRows, CallsTypeOK
  <2>9. OwnersLive'
    BY <1>1, <2>1 DEF OwnersLive, CallsTypeOK
  <2>10. NeverDuplicate'
    BY <2>1 DEF NeverDuplicate
  <2>11. AnnouncedOnce' /\ AnnouncedOnTheWay'
    <3>1. "claiming" \in CallStep \ {"answering"}
      BY DEF CallStep
    <3> QED BY <1>1, <2>1, <2>5, <3>1, NothingAnnounced
  <2> QED BY <2>2, <2>4, <2>7, <2>8, <2>9, <2>10, <2>11
<1> QED BY <1>2, <1>3

LEMMA ClaimStep == ASSUME RequestInv, NEW c \in Calls, Claim(c) PROVE RequestInv'
<1> USE DEF RequestInv
<1>1. /\ stage[c] = "claiming" /\ row[c] = "open"
      /\ slotHolder[SlotOf[c]] = Nothing
      /\ stage' = [stage EXCEPT ![c] = "announcing"]
      /\ row' = [row EXCEPT ![c] = "live"]
      /\ slotHolder' = [slotHolder EXCEPT ![SlotOf[c]] = c]
      /\ UNCHANGED <<answer, announced>>
  BY DEF Claim, StageTo, CallsTypeOK
<1>2. SlotOf[c] \in Slots
  BY CallsAssumption
<1>3. CallsTypeOK'
  BY <1>1, <1>2 DEF CallsTypeOK, CallStep, RowState
<1>4. KeyIsUnique'
  BY <1>1 DEF KeyIsUnique, CallsTypeOK
<1>5. Committed' = Committed \cup {c}
  BY <1>1 DEF Committed, CallsTypeOK
<1>6. \A d \in Calls : StoredUnder(d) \subseteq StoredUnder(d)'
  BY <1>5 DEF StoredUnder
<1>7. RowsFollowCalls'
  BY <1>1, <1>5, <1>6 DEF RowsFollowCalls, CallsTypeOK
<1>8. AnswersHaveRows'
  BY <1>1, <1>5 DEF AnswersHaveRows, CallsTypeOK
<1>9. OwnersLive'
  BY <1>1, <1>2, CallsAssumption DEF OwnersLive, CallsTypeOK
<1>10. NeverDuplicate'
  BY <1>1 DEF NeverDuplicate
<1>11. AnnouncedOnce' /\ AnnouncedOnTheWay'
  <2>1. "announcing" \in CallStep \ {"answering"}
    BY DEF CallStep
  <2> QED BY <1>1, <1>5, <2>1, NothingAnnounced
<1> QED BY <1>3, <1>4, <1>7, <1>8, <1>9, <1>10, <1>11

\* The row of an open transaction goes, and its call with it.
LEMMA RolledBack ==
  ASSUME RequestInv, NEW c \in Calls, NEW to \in {"done", "lost"}, NEW a \in {Nothing, "slotTaken"},
         stage[c] = "claiming", stage' = [stage EXCEPT ![c] = to], to = "lost" => a = Nothing,
         row' = [row EXCEPT ![c] = "none"], answer' = [answer EXCEPT ![c] = a],
         UNCHANGED <<slotHolder, announced>>
  PROVE  RequestInv'
<1> USE DEF RequestInv
<1>1. row[c] = "open" /\ answer[c] = Nothing
  BY DEF CallsTypeOK, AnswersHaveRows
<1>2. a \notin Calls /\ a \in Answer /\ a # "duplicate"
  BY CallsAssumption DEF Answer, Refusals
<1>3. CallsTypeOK'
  BY <1>2 DEF CallsTypeOK, CallStep, RowState
<1>4. KeyIsUnique'
  BY DEF KeyIsUnique, CallsTypeOK
<1>5. Committed' = Committed
  BY <1>1 DEF Committed, CallsTypeOK
<1>6. \A d \in Calls : StoredUnder(d)' = StoredUnder(d)
  BY <1>5 DEF StoredUnder
<1>7. RowsFollowCalls'
  BY <1>1, <1>5, <1>6 DEF RowsFollowCalls, CallsTypeOK
<1>8. AnswersHaveRows'
  BY <1>1, <1>2, <1>5 DEF AnswersHaveRows, CallsTypeOK
<1>9. OwnersLive'
  BY <1>1 DEF OwnersLive, CallsTypeOK
<1>10. NeverDuplicate'
  BY <1>1, <1>2, CallsAssumption DEF NeverDuplicate, CallsTypeOK
<1>11. AnnouncedOnce' /\ AnnouncedOnTheWay'
  <2>1. \A d \in Calls : answer'[d] = d => answer[d] = d
    BY <1>2 DEF CallsTypeOK
  <2>2. to \in CallStep \ {"answering"}
    BY DEF CallStep
  <2> QED BY <1>5, <2>1, <2>2, NothingAnnounced
<1> QED BY <1>3, <1>4, <1>7, <1>8, <1>9, <1>10, <1>11

LEMMA AnnounceStep == ASSUME RequestInv, NEW c \in Calls, Announce(c) PROVE RequestInv'
<1> USE DEF RequestInv
<1>1. /\ stage[c] = "announcing" /\ c \in Committed /\ answer[c] = Nothing /\ announced[c] = 0
      /\ stage' = [stage EXCEPT ![c] = "answering"]
      /\ announced' = [announced EXCEPT ![c] = @ + 1]
      /\ UNCHANGED <<row, slotHolder, answer>>
  BY DEF Announce, StageTo, RowsFollowCalls, AnswersHaveRows, AnnouncedOnTheWay
<1>2. CallsTypeOK'
  BY <1>1 DEF CallsTypeOK, CallStep
<1>3. RowsFollowCalls'
  BY <1>1, SameRows DEF RowsFollowCalls, CallsTypeOK
<1>4. AnswersHaveRows' /\ NeverDuplicate'
  BY <1>1, SameRows DEF AnswersHaveRows, NeverDuplicate, CallsTypeOK
<1>5. announced'[c] = 1 /\ \A d \in Calls : d # c => announced'[d] = announced[d]
  BY <1>1 DEF CallsTypeOK
<1>6. AnnouncedOnce'
  BY <1>1, <1>5, SameRows DEF AnnouncedOnce
<1>7. AnnouncedOnTheWay'
  BY <1>1, <1>5 DEF AnnouncedOnTheWay, CallsTypeOK
<1> QED BY <1>1, <1>2, <1>3, <1>4, <1>6, <1>7, SameRows

LEMMA AnswerCreatedStep ==
  ASSUME RequestInv, NEW c \in Calls, AnswerCreated(c) PROVE RequestInv'
<1> USE DEF RequestInv
<1>1. /\ stage[c] = "answering" /\ c \in Committed /\ announced[c] = 1
      /\ stage' = [stage EXCEPT ![c] = "done"]
      /\ answer' = [answer EXCEPT ![c] = c]
      /\ UNCHANGED <<row, slotHolder, announced>>
  BY DEF AnswerCreated, StageTo, Reply, RowsFollowCalls, AnnouncedOnTheWay
<1>2. CallsTypeOK'
  BY <1>1 DEF CallsTypeOK, CallStep, Answer
<1>3. RowsFollowCalls'
  BY <1>1, SameRows DEF RowsFollowCalls, CallsTypeOK
<1>4. AnswersHaveRows'
  BY <1>1, SameRows DEF AnswersHaveRows, CallsTypeOK
<1>5. NeverDuplicate'
  BY <1>1, CallsAssumption DEF NeverDuplicate, CallsTypeOK, Refusals
<1>6. AnnouncedOnce'
  BY <1>1, SameRows DEF AnnouncedOnce, CallsTypeOK
<1>7. AnnouncedOnTheWay'
  BY <1>1 DEF AnnouncedOnTheWay, CallsTypeOK
<1> QED BY <1>1, <1>2, <1>3, <1>4, <1>5, <1>6, <1>7, SameRows

LEMMA EndStep == ASSUME RequestInv, NEW c \in Calls, End(c) PROVE RequestInv'
<1> USE DEF RequestInv
<1>1. /\ row[c] = "live"
      /\ row' = [row EXCEPT ![c] = "ended"]
      /\ slotHolder' = [s \in Slots |-> IF slotHolder[s] = c THEN Nothing ELSE slotHolder[s]]
      /\ UNCHANGED <<stage, answer, announced>>
  BY DEF End
<1>2. CallsTypeOK'
  BY <1>1 DEF CallsTypeOK, RowState
<1>3. KeyIsUnique'
  BY <1>1 DEF KeyIsUnique, CallsTypeOK
<1>4. Committed' = Committed
  BY <1>1 DEF Committed, CallsTypeOK
<1>5. \A d \in Calls : StoredUnder(d)' = StoredUnder(d)
  BY <1>4 DEF StoredUnder
<1>6. RowsFollowCalls'
  BY <1>1, <1>4, <1>5 DEF RowsFollowCalls, CallsTypeOK
<1>7. AnswersHaveRows'
  BY <1>1, <1>4 DEF AnswersHaveRows
<1>8. OwnersLive'
  BY <1>1, CallsAssumption DEF OwnersLive, CallsTypeOK
<1>9. NeverDuplicate' /\ AnnouncedOnce' /\ AnnouncedOnTheWay'
  BY <1>1, <1>4 DEF NeverDuplicate, AnnouncedOnce, AnnouncedOnTheWay
<1> QED BY <1>2, <1>3, <1>6, <1>7, <1>8, <1>9

LEMMA RequestNextStep == RequestInv /\ [RequestNext]_requestVars => RequestInv'
<1> SUFFICES ASSUME RequestInv, [RequestNext]_requestVars PROVE RequestInv'
  OBVIOUS
<1>1. ASSUME NEW c \in Calls, Arrive(c) PROVE RequestInv'
  <2>1. row[c] = "none" /\ stage[c] = "idle"
    BY <1>1 DEF Arrive, StageTo, RequestInv, RowsFollowCalls
  <2> QED BY <1>1, <2>1, MoveOn DEF Arrive, StageTo
<1>2. ASSUME NEW c \in Calls, Refuse(c) PROVE RequestInv'
  BY <1>2, AnswerStep, CallsAssumption DEF Refuse, StageTo, Reply, Answer, Refusals
<1>3. ASSUME NEW c \in Calls, SlotTaken(c) PROVE RequestInv'
  BY <1>3, RolledBack DEF SlotTaken, StageTo, Reply
<1>4. ASSUME NEW c \in Calls, Lose(c) PROVE RequestInv'
  <2>1. CASE stage[c] = "claiming"
    <3>1. row[c] = "open" /\ answer[c] = Nothing
      BY <2>1 DEF RequestInv, CallsTypeOK, AnswersHaveRows
    <3>2. row' = [row EXCEPT ![c] = "none"] /\ answer' = [answer EXCEPT ![c] = Nothing]
      BY <1>4, <3>1 DEF Lose, RequestInv, CallsTypeOK
    <3> QED BY <1>4, <2>1, <3>2, RolledBack DEF Lose
  <2>2. CASE stage[c] # "claiming"
    <3>1. UNCHANGED row
      BY <1>4, <2>2 DEF Lose, RequestInv, CallsTypeOK
    <3> QED BY <1>4, <2>2, <3>1, MoveOn DEF Lose
  <2> QED BY <2>1, <2>2
<1>5. CASE UNCHANGED requestVars
  BY <1>5
     DEF requestVars, RequestInv, CallsTypeOK, KeyIsUnique, RowsFollowCalls, AnswersHaveRows, OwnersLive,
         NeverDuplicate, AnnouncedOnce, AnnouncedOnTheWay, Committed, StoredUnder
<1> QED
  BY <1>1, <1>2, <1>3, <1>4, <1>5, LookupStep, RelookupStep, InsertRowStep, ClaimStep, AnnounceStep,
     AnswerCreatedStep, EndStep
     DEF RequestNext, Proceed

LEMMA RequestInvariance == RequestSpec => []RequestInv
BY RequestInvInit, RequestNextStep, PTL DEF RequestSpec

--------------------------------------------------------------------------------
\* CreateVenueBooking: a request and its retries have one booking, which is
\* announced once and told to nobody else, whichever calls die and however they
\* interleave.
THEOREM RetriesAreSafe == RequestSpec => []RetriesSafe
<1>1. RequestInv => AnswersAgree
  <2> SUFFICES ASSUME RequestInv, NEW c \in Calls, answer[c] \in Calls,
                      NEW d \in Calls, SameRequest(c, d), answer[d] \in Calls
               PROVE  answer[c] = answer[d]
    BY DEF AnswersAgree, RequestInv, AnswersHaveRows
  <2>1. /\ IdemKey[answer[c]] = IdemKey[c] /\ IdemKey[answer[d]] = IdemKey[d]
        /\ row[answer[c]] # "none" /\ row[answer[d]] # "none"
    BY DEF RequestInv, AnswersHaveRows, Committed
  <2> QED BY <2>1 DEF RequestInv, KeyIsUnique, SameRequest
<1>2. RequestInv => KeylessIsFresh
  BY DEF RequestInv, AnswersHaveRows, KeylessIsFresh
<1>3. RequestInv => RetriesSafe
  BY <1>1, <1>2 DEF RequestInv, RetriesSafe
<1> QED BY <1>3, RequestInvariance, PTL

\* A retry is never refused for the slot its own first attempt took, because the
\* key is claimed before the dates are.
THEOREM RetryKeepsItsSlot == RequestSpec => NotTakenByItself
<1> DEFINE Kept ==
      \A c \in Calls :
        answer'[c] = "slotTaken" /\ answer[c] # "slotTaken" =>
          \A d \in Calls : slotHolder[SlotOf[c]] = d => ~SameRequest(c, d)
<1>1. RequestInv /\ [RequestNext]_requestVars => [Kept]_requestVars
  <2> SUFFICES ASSUME RequestInv, RequestNext, NEW c \in Calls, answer'[c] = "slotTaken",
                      answer[c] # "slotTaken", NEW d \in Calls, slotHolder[SlotOf[c]] = d
               PROVE  ~SameRequest(c, d)
    OBVIOUS
  <2>1. SlotTaken(c)
    <3>1. ASSUME NEW b \in Calls, NEW a, Reply(b, a) PROVE b = c /\ a = "slotTaken"
      BY <3>1 DEF Reply, RequestInv, CallsTypeOK
    <3>2. \A b \in Calls : StoredUnder(b) \subseteq Calls
      BY DEF StoredUnder, Committed
    <3>3. "slotTaken" \notin Calls
      BY CallsAssumption DEF Refusals
    <3>4. PICK b \in Calls : Arrive(b) \/ Refuse(b) \/ Lose(b) \/ End(b) \/ Proceed(b)
      BY DEF RequestNext
    <3>5. CASE SlotTaken(b)
      BY <3>1, <3>5 DEF SlotTaken
    <3>6. CASE AnswerCreated(b)
      BY <3>1, <3>3, <3>6 DEF AnswerCreated
    <3>7. CASE Lookup(b) \/ Relookup(b)
      BY <3>1, <3>2, <3>3, <3>7 DEF Lookup, Relookup, Original
    <3> QED
      BY <3>1, <3>3, <3>4, <3>5, <3>6, <3>7
         DEF Proceed, Arrive, Refuse, Lose, End, InsertRow, Claim, Announce
  <2>2. row[c] = "open" /\ row[d] = "live"
    BY <2>1, CallsAssumption DEF SlotTaken, StageTo, RequestInv, CallsTypeOK, OwnersLive
  <2> QED BY <2>2 DEF RequestInv, KeyIsUnique, SameRequest
<1> QED BY <1>1, RequestInvariance, PTL DEF RequestSpec, NotTakenByItself
================================================================================
