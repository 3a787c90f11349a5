---------------------------- MODULE OutboxProofs ----------------------------
(***************************************************************************)
(* Proofs about Outbox, for any rows, workers, batch size and number of    *)
(* attempts.                                                               *)
(***************************************************************************)
EXTENDS Outbox, TLAPS

\* What a worker holds it claimed: the row exists, and the claim raised its
\* attempts above the number the worker remembers, up to the bound.
ClaimedBefore ==
  \A w \in Workers : \A c \in batch[w] :
    /\ state[c.row] # "NONE"
    /\ attempts[c.row] > c.attempts \/ attempts[c.row] = MaxAttempts + 1

IInv ==
  /\ TypeOK
  /\ ScheduledIsPending
  /\ ClaimedBefore
  /\ ChasedUntilAnswered

USE RowsAssumption, LimitsAssumption

LEMMA InitIInv == Init => IInv
BY DEF Init, IInv, TypeOK, ScheduledIsPending, ClaimedBefore, ChasedUntilAnswered,
       States, Dues, Counts, Steps

-----------------------------------------------------------------------------
(* The statements *)

\* An insert only touches rows that do not exist.
LEMMA EnqueueStep ==
  ASSUME IInv, NEW S \in SUBSET Rows, Enqueue(S), UNCHANGED <<batch, booking, answered>>,
         todo' \subseteq Steps
  PROVE  IInv'
<1> USE DEF IInv, Enqueue, Fresh
<1>1. TypeOK'
  BY DEF TypeOK, States, Dues
<1>2. ScheduledIsPending'
  BY DEF TypeOK, ScheduledIsPending
<1>3. ClaimedBefore'
  BY DEF TypeOK, ClaimedBefore
<1>4. ChasedUntilAnswered'
  BY DEF TypeOK, ChasedUntilAnswered, Linked, Chased
<1> QED  BY <1>1, <1>2, <1>3, <1>4

\* An answer or a cancellation silences rows for a reason that holds by then.
LEMMA SilenceStep ==
  ASSUME IInv, NEW S \in SUBSET Rows, NEW answer \in States \ {"NONE"},
         state' = [r \in Rows |-> IF r \in S THEN answer ELSE state[r]],
         due' = [r \in Rows |-> IF r \in S THEN "never" ELSE due[r]],
         UNCHANGED <<attempts, told, batch, booking>>,
         todo' \subseteq Steps,
         answered \subseteq answered', answered' \subseteq Bookings \X Roles,
         \A r \in S : \/ <<r.booking, r.role>> \in answered'
                      \/ booking[r.booking] = "ENDED"
  PROVE  IInv'
<1> USE DEF IInv
<1>1. TypeOK'
  BY DEF TypeOK, States, Dues
<1>2. ScheduledIsPending'
  BY DEF TypeOK, ScheduledIsPending
<1>3. ClaimedBefore'
  BY DEF TypeOK, ClaimedBefore
<1>4. ChasedUntilAnswered'
  BY DEF TypeOK, ChasedUntilAnswered, Linked, Chased
<1> QED  BY <1>1, <1>2, <1>3, <1>4

LEMMA ClaimStep ==
  ASSUME IInv, NEW w \in Workers, ClaimDue(w)
  PROVE  IInv'
<1> USE DEF IInv
<1>1. PICK S \in SUBSET Claimable :
        /\ batch' = [batch EXCEPT ![w] = {[row |-> r, attempts |-> attempts[r]] : r \in S}]
        /\ attempts' = [r \in Rows |-> IF r \in S /\ attempts[r] <= MaxAttempts
                                       THEN attempts[r] + 1 ELSE attempts[r]]
        /\ due' = [r \in Rows |-> IF r \in S THEN "later" ELSE due[r]]
  BY DEF ClaimDue, kSubset
<1>2. UNCHANGED <<state, told, booking, todo, answered>>
  BY DEF ClaimDue
<1>3. \A r \in S : r \in Rows /\ state[r] = "PENDING" /\ due[r] = "now"
  BY DEF Claimable
<1>4. TypeOK'
  BY <1>1, <1>2, <1>3 DEF TypeOK, Dues, Counts
<1>5. ScheduledIsPending'
  BY <1>1, <1>2, <1>3 DEF TypeOK, ScheduledIsPending
<1>6. ClaimedBefore'
  <2> SUFFICES ASSUME NEW v \in Workers, NEW c \in batch'[v]
               PROVE  /\ state[c.row] # "NONE"
                      /\ attempts'[c.row] > c.attempts \/ attempts'[c.row] = MaxAttempts + 1
    BY <1>2 DEF ClaimedBefore
  <2>1. CASE v = w
    <3>1. PICK r \in S : c = [row |-> r, attempts |-> attempts[r]]
      BY <1>1, <2>1 DEF TypeOK
    <3> QED  BY <3>1, <1>1, <1>3 DEF TypeOK, Counts
  <2>2. CASE v # w
    <3>1. c \in batch[v] /\ c.row \in Rows /\ c.attempts \in Counts
      BY <1>1, <2>2 DEF TypeOK
    <3> QED  BY <3>1, <1>1 DEF TypeOK, ClaimedBefore, Counts
  <2> QED  BY <2>1, <2>2
<1>7. ChasedUntilAnswered'
  BY <1>1, <1>2, <1>3 DEF TypeOK, ChasedUntilAnswered, Linked, Chased, Counts
<1> QED  BY <1>4, <1>5, <1>6, <1>7

\* However stale the claim, recording its outcome keeps the row's promises.
LEMMA DispatchStep ==
  ASSUME IInv, NEW w \in Workers, NEW c \in batch[w], Dispatch(w, c)
  PROVE  IInv'
<1> USE DEF IInv, Dispatch, Done
<1>1. /\ c.row \in Rows /\ c.attempts \in Counts /\ state[c.row] # "NONE"
      /\ attempts[c.row] > c.attempts \/ attempts[c.row] = MaxAttempts + 1
  BY DEF TypeOK, ClaimedBefore
<1>2. /\ UNCHANGED <<attempts, booking, todo, answered>>
      /\ batch' = [batch EXCEPT ![w] = @ \ {c}]
  BY DEF MarkSent, MarkFailed
<1>3. CASE MarkSent(c.row)
  <2>1. TypeOK'
    BY <1>1, <1>2, <1>3 DEF MarkSent, TypeOK, States, Dues
  <2>2. ScheduledIsPending'
    BY <1>1, <1>2, <1>3 DEF MarkSent, TypeOK, ScheduledIsPending
  <2>3. ClaimedBefore'
    BY <1>1, <1>2, <1>3 DEF MarkSent, TypeOK, ClaimedBefore
  <2>4. ChasedUntilAnswered'
    BY <1>1, <1>2, <1>3 DEF MarkSent, TypeOK, ChasedUntilAnswered, Linked, Chased
  <2> QED  BY <2>1, <2>2, <2>3, <2>4
<1>4. CASE MarkFailed(c.row, c.attempts)
  <2>1. TypeOK'
    BY <1>1, <1>2, <1>4 DEF MarkFailed, TypeOK, States, Dues
  <2>2. ScheduledIsPending'
    BY <1>1, <1>2, <1>4 DEF MarkFailed, TypeOK, ScheduledIsPending
  <2>3. ClaimedBefore'
    BY <1>1, <1>2, <1>4 DEF MarkFailed, TypeOK, ClaimedBefore
  <2>4. Exhausted(c.attempts) => attempts[c.row] > MaxAttempts
    BY <1>1 DEF Exhausted, TypeOK, Counts
  <2>5. ChasedUntilAnswered'
    BY <1>1, <1>2, <1>4, <2>4 DEF MarkFailed, TypeOK, ChasedUntilAnswered, Linked, Chased
  <2> QED  BY <2>1, <2>2, <2>3, <2>5
<1> QED  BY <1>3, <1>4

-----------------------------------------------------------------------------
(* Every step *)

LEMMA NextIInv == IInv /\ [Next]_vars => IInv'
<1> SUFFICES ASSUME IInv, [Next]_vars
             PROVE  IInv'
  OBVIOUS
<1> USE DEF IInv
<1>1. ASSUME NEW r \in Rows, EnqueueBookingCreated(r)
      PROVE  IInv'
  BY <1>1, EnqueueStep DEF EnqueueBookingCreated, TypeOK
<1>2. ASSUME NEW r \in Rows, Tick(r)
      PROVE  IInv'
  BY <1>2 DEF Tick, TypeOK, Dues, ScheduledIsPending, ClaimedBefore, ChasedUntilAnswered
<1>3. ASSUME NEW r \in Rows, Send(r)
      PROVE  IInv'
  BY <1>3, DispatchStep DEF Send
<1>4. ASSUME NEW w \in Workers, ClaimDue(w)
      PROVE  IInv'
  BY <1>4, ClaimStep
<1>5. ASSUME NEW w \in Workers, NEW c \in batch[w], Unrecorded(w, c)
      PROVE  IInv'
  BY <1>5 DEF Unrecorded, Done, rows, TypeOK, ScheduledIsPending, ClaimedBefore,
              ChasedUntilAnswered
<1>6. ASSUME NEW b \in Bookings, Answer(b)
      PROVE  IInv'
  <2>1. ASSUME NEW role \in {"OWNER", "ADMIN"}, Ack(b, role) \/ Decline(b, role)
        PROVE  IInv'
    <3> DEFINE S == Open(Chase(b, {role}))
    <3>1. S \in SUBSET Rows /\ \A r \in S : r.booking = b /\ r.role = role
      BY DEF Open, Chase, RowsOf
    <3>2. answered' = answered \cup {<<b, role>>}
      BY <2>1 DEF Ack, Decline
    <3>3. answered \subseteq answered' /\ answered' \subseteq Bookings \X Roles
      BY <3>2, <2>1 DEF TypeOK, Roles
    <3>4. todo' \subseteq Steps
      BY <2>1 DEF Ack, Decline, TypeOK, Steps
    <3>5. \A r \in S : <<r.booking, r.role>> \in answered'
      BY <3>1, <3>2
    <3>6. PICK answer \in {"ACKED", "DECLINED"} : Stop(Chase(b, {role}), answer)
      BY <2>1 DEF Ack, Decline
    <3>7. UNCHANGED <<batch, booking>>
      BY <2>1 DEF Ack, Decline
    <3> HIDE DEF S
    <3>8. /\ state' = [r \in Rows |-> IF r \in S THEN answer ELSE state[r]]
          /\ due' = [r \in Rows |-> IF r \in S THEN "never" ELSE due[r]]
          /\ UNCHANGED <<attempts, told>>
      BY <3>6 DEF Stop, S
    <3> QED
      BY <3>1, <3>3, <3>4, <3>5, <3>7, <3>8, SilenceStep DEF States
  <2>2. ASSUME NEW verdict \in {"CONFIRMED", "REJECTED"}, Decide(b, verdict)
        PROVE  IInv'
    BY <2>2 DEF Decide, TypeOK, Steps, ScheduledIsPending, ClaimedBefore, ChasedUntilAnswered
  <2>3. ASSUME AckDecided(b)
        PROVE  IInv'
    <3> DEFINE S == Open(Chase(b, {"OWNER", "ADMIN"}))
    <3>1. S \in SUBSET Rows /\ \A r \in S : r.booking = b /\ r.role \in {"OWNER", "ADMIN"}
      BY DEF Open, Chase, RowsOf
    <3>2. todo' \subseteq Steps /\ UNCHANGED <<batch, booking>>
      BY <2>3 DEF AckDecided, TypeOK, Steps
    <3>3. CASE UNCHANGED <<rows, answered>>
      BY <3>2, <3>3 DEF rows, TypeOK, ScheduledIsPending, ClaimedBefore, ChasedUntilAnswered
    <3>4. CASE /\ Stop(Chase(b, {"OWNER", "ADMIN"}), "ACKED")
               /\ answered' = answered \cup {<<b, "OWNER">>, <<b, "ADMIN">>}
      <4>1. answered \subseteq answered' /\ answered' \subseteq Bookings \X Roles
        BY <3>4 DEF TypeOK, Roles
      <4>2. \A r \in S : <<r.booking, r.role>> \in answered'
        BY <3>1, <3>4
      <4> HIDE DEF S
      <4>3. /\ state' = [r \in Rows |-> IF r \in S THEN "ACKED" ELSE state[r]]
            /\ due' = [r \in Rows |-> IF r \in S THEN "never" ELSE due[r]]
            /\ UNCHANGED <<attempts, told>>
        BY <3>4 DEF Stop, S
      <4> QED
        BY <3>1, <3>2, <4>1, <4>2, <4>3, SilenceStep DEF States
    <3> QED  BY <2>3, <3>3, <3>4 DEF AckDecided
  <2>4. ASSUME NotifyUser(b) \/ NotifyAdmins(b)
        PROVE  IInv'
    <3>1. todo' \subseteq Steps
      BY <2>4 DEF NotifyUser, NotifyAdmins, TypeOK
    <3> QED
      BY <2>4, <3>1, EnqueueStep DEF NotifyUser, NotifyAdmins, RowsOf
  <2>5. ASSUME BookingEnds(b)
        PROVE  IInv'
    BY <2>5 DEF BookingEnds, TypeOK, ScheduledIsPending, ClaimedBefore, ChasedUntilAnswered
  <2>6. ASSUME CancelForBooking(b)
        PROVE  IInv'
    <3> DEFINE S == Pending(b)
    <3>1. S \in SUBSET Rows /\ \A r \in S : booking[r.booking] = "ENDED"
      BY <2>6 DEF CancelForBooking, Pending, RowsOf
    <3>2. /\ answered \subseteq answered' /\ answered' \subseteq Bookings \X Roles
          /\ todo' \subseteq Steps
      BY <2>6 DEF CancelForBooking, TypeOK
    <3> HIDE DEF S
    <3>3. /\ state' = [r \in Rows |-> IF r \in S THEN "CANCELLED" ELSE state[r]]
          /\ due' = [r \in Rows |-> IF r \in S THEN "never" ELSE due[r]]
          /\ UNCHANGED <<attempts, told, batch, booking>>
      BY <2>6 DEF CancelForBooking, S
    <3> QED
      BY <3>1, <3>2, <3>3, SilenceStep DEF States
  <2> QED
    BY <1>6, <2>1, <2>2, <2>3, <2>4, <2>5, <2>6 DEF Answer
<1>7. ASSUME NEW t \in todo, HookLost(t)
      PROVE  IInv'
  BY <1>7 DEF HookLost, TypeOK, ScheduledIsPending, ClaimedBefore, ChasedUntilAnswered
<1>8. CASE UNCHANGED vars
  BY <1>8 DEF vars, TypeOK, ScheduledIsPending, ClaimedBefore, ChasedUntilAnswered
<1> QED
  BY <1>1, <1>2, <1>3, <1>4, <1>5, <1>6, <1>7, <1>8 DEF Next

LEMMA Invariance == Spec => []IInv
BY InitIInv, NextIInv, PTL DEF Spec

-----------------------------------------------------------------------------
(* The results *)

\* Every column of every reachable outbox holds one of its values, and workers
\* hold rows they claimed.
THEOREM TypeCorrect == Spec => []TypeOK
BY Invariance, PTL DEF IInv

\* Only PENDING rows are ever scheduled, whatever a slow worker writes late.
THEOREM ScheduleCorrect == Spec => []ScheduledIsPending
BY Invariance, PTL DEF IInv

\* Nobody's chase goes silent without an answer, an ended booking or
\* MaxAttempts failures.
THEOREM ChaseUnbroken == Spec => []ChasedUntilAnswered
BY Invariance, PTL DEF IInv

\* Both together: whatever a slow worker records late, the schedule says who
\* still has to hear and who does not.
THEOREM ScheduleIsSound == Spec => []ScheduleSound
BY Invariance, PTL DEF IInv, ScheduleSound

\* No step puts a silent row back on the schedule.
THEOREM SilenceLasts == Spec => [][SilentForGood]_vars
<1>1. ASSUME TypeOK, [Next]_vars, NEW r \in Rows, state[r] # "NONE", due[r] = "never"
      PROVE  due'[r] = "never"
  <2>1. CASE \E q \in Rows : EnqueueBookingCreated(q)
    BY <1>1, <2>1 DEF EnqueueBookingCreated, Enqueue, Fresh
  <2>2. CASE \E q \in Rows : Tick(q)
    BY <1>1, <2>2 DEF Tick, TypeOK
  <2>3. CASE \E q \in Rows : Send(q)
    BY <1>1, <2>3 DEF Send, Dispatch, MarkSent, MarkFailed, TypeOK
  <2>4. CASE \E w \in Workers : ClaimDue(w)
    <3>1. PICK S \in SUBSET Claimable : due' = [q \in Rows |-> IF q \in S THEN "later" ELSE due[q]]
      BY <2>4 DEF ClaimDue, kSubset
    <3> QED  BY <1>1, <3>1 DEF Claimable
  <2>5. CASE \E w \in Workers : \E c \in batch[w] : Unrecorded(w, c)
    BY <1>1, <2>5 DEF Unrecorded, rows
  <2>6. CASE \E b \in Bookings : Answer(b)
    <3>1. PICK b \in Bookings : Answer(b)
      BY <2>6
    <3> QED
      BY <1>1, <3>1 DEF Answer, Ack, Decline, Decide, AckDecided, NotifyUser, NotifyAdmins,
        BookingEnds, CancelForBooking, Stop, Enqueue, Fresh, rows
  <2>7. CASE \E t \in todo : HookLost(t)
    BY <1>1, <2>7 DEF HookLost
  <2> QED
    BY <1>1, <2>1, <2>2, <2>3, <2>4, <2>5, <2>6, <2>7 DEF Next, vars
<1>2. TypeOK /\ [Next]_vars => [SilentForGood]_vars
  BY <1>1 DEF SilentForGood
<1> QED  BY <1>2, TypeCorrect, PTL DEF Spec

\* A batch grows by a claim only, and a claim takes claimable rows.
LEMMA ClaimedIsClaimable ==
  ASSUME TypeOK, [Next]_vars, NEW r \in Rows, Claimed(r)
  PROVE  r \in Claimable
<1>1. PICK v \in Workers : batch[v] = {} /\ \E c \in batch'[v] : c.row = r
  BY DEF Claimed
<1>2. CASE \E w \in Workers : ClaimDue(w)
  <2>1. PICK w \in Workers, S \in SUBSET Claimable :
          batch' = [batch EXCEPT ![w] = {[row |-> q, attempts |-> attempts[q]] : q \in S}]
    BY <1>2 DEF ClaimDue, kSubset
  <2>2. v = w
    BY <1>1, <2>1 DEF TypeOK
  <2>3. PICK q \in S : [row |-> q, attempts |-> attempts[q]].row = r
    BY <1>1, <2>1, <2>2 DEF TypeOK
  <2> QED  BY <2>3
<1>3. CASE batch' = batch
  BY <1>1, <1>3
<1>4. CASE \E w \in Workers : \E c \in batch[w] : Done(w, c)
  <2>1. \A w \in Workers : batch'[w] \subseteq batch[w]
    BY <1>4 DEF Done, TypeOK
  <2> QED  BY <1>1, <2>1
<1>5. (\E w \in Workers : ClaimDue(w)) \/ batch' = batch
        \/ \E w \in Workers : \E c \in batch[w] : Done(w, c)
  <2>1. ASSUME NEW b \in Bookings, Answer(b) PROVE batch' = batch
    BY <2>1 DEF Answer, Ack, Decline, Decide, AckDecided, NotifyUser, NotifyAdmins,
       BookingEnds, CancelForBooking
  <2>2. ASSUME NEW q \in Rows, EnqueueBookingCreated(q) \/ Tick(q) PROVE batch' = batch
    BY <2>2 DEF EnqueueBookingCreated, Tick
  <2>3. ASSUME NEW t \in todo, HookLost(t) PROVE batch' = batch
    BY <2>3 DEF HookLost
  <2>4. ASSUME NEW q \in Rows, Send(q)
        PROVE  \E w \in Workers : \E c \in batch[w] : Done(w, c)
    BY <2>4 DEF Send, Dispatch
  <2>5. ASSUME NEW w \in Workers, NEW c \in batch[w], Unrecorded(w, c) PROVE Done(w, c)
    BY <2>5 DEF Unrecorded
  <2>6. CASE UNCHANGED vars
    BY <2>6 DEF vars
  <2> QED  BY <2>1, <2>2, <2>3, <2>4, <2>5, <2>6 DEF Next
<1> QED  BY <1>2, <1>3, <1>4, <1>5

\* Nobody picks up a row about a booking that is already dead.
THEOREM DeadIsNotChased == Spec => [][DeadNotChased]_vars
<1>1. TypeOK /\ [Next]_vars => [DeadNotChased]_vars
  BY ClaimedIsClaimable DEF Claimable, DeadNotChased
<1> QED  BY <1>1, TypeCorrect, PTL DEF Spec

\* Both together: silence is kept, whatever order events, decisions, claims and
\* late outcomes come in.
THEOREM SilenceIsKept == Spec => SilenceKept
BY SilenceLasts, DeadIsNotChased, PTL DEF SilenceKept
=============================================================================
