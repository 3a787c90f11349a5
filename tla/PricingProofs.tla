----------------------------- MODULE PricingProofs -----------------------------
(***************************************************************************)
(* Proofs about Coupons and Quote.                                         *)
(*                                                                         *)
(* Coupons, for any rows, venues, drafts, carts and checkouts: what a cart *)
(* comes to follows from the rows' types and from the codes being unique;  *)
(* what a booking holds follows from scopes never changing, deleted venues *)
(* never coming back, and a checkout keeping what it was priced for.       *)
(* Quote, for any people, amounts, dates, keys and number of requests      *)
(* under way.                                                              *)
(***************************************************************************)
EXTENDS Coupons, Quote, SumLemmas, FiniteSetTheorems, SequenceTheorems, TLAPS

--------------------------------------------------------------------------------
(* Coupons: the invariant *)

\* The scope of a row is that of the route that made it: a type for a platform
\* coupon, a venue for the others, whose vendor is nobody for an admin's.
ScopeOK(r) ==
  /\ r.type = None => r.facility # None
  /\ r.type # None => r.facility = None /\ r.vendor = None

\* Some customer can reach a row's minimum.
Reachable(r) == r.min # None => \E amount \in Amounts : amount >= r.min

RowsOK == \A i \in Ids : row[i] # None => ScopeOK(row[i]) /\ Reachable(row[i])

\* uq_coupons_code.
CodesUnique ==
  \A i, j \in Ids : Exists(i) /\ Exists(j) /\ row[i].code = row[j].code => i = j

\* What an admin's write carries passed the checks of its route.
DraftsChecked ==
  \A a \in Admins : write[a] # None => ValidDraft(write[a].draft) /\ write[a].draft.facility = None

\* A checkout prices rows that exist, each once; what is soft-deleted stays.
HeldExist ==
  \A b \in Checkouts : checkout[b].at # "idle" =>
    \A i \in Held(b) : row[i] # None

\* The checkouts that have begun, finitely many at any moment.
Busy == {b \in Checkouts : checkout[b].at # "idle"}

BusyFinite == IsFiniteSet(Busy)

\* The types and drafts, and Relations below.
CouponsInv ==
  /\ CouponsTypeOK /\ RowsOK /\ CodesUnique /\ DraftsChecked
  /\ HeldExist /\ BusyFinite /\ HeldStillApply /\ UsesAreHeld

\* The bookings that hold a coupon, whose number UsesAreHeld counts.
HeldBy(i) == {b \in Checkouts : checkout[b].at \in {"booked", "releasing"} /\ i \in Held(b)}

\* A row as an insert writes it is a coupon.
LEMMA NewRowType ==
  ASSUME NEW d \in Drafts, ValidDraft(d), NEW vendor \in Optional(Vendors),
         NEW facility \in Optional(Venues),
         NEW type \in {None, "MARRIAGE_HALL", "HOTEL", "ALL"}
  PROVE  /\ NewRow(d, vendor, facility, type) \in CouponType
         /\ Reachable(NewRow(d, vendor, facility, type))
<1>1. d \in DraftType
  BY CouponsAssumption
<1>2. /\ Begins(d.from) \in Optional(Int) /\ Ends(d.until) \in Optional(Int)
      /\ d.value \in Nat /\ d.max \in Optional(Nat)
  BY <1>1 DEF DraftType, Optional, Begins, Ends, ValidDraft
<1>3. NewRow(d, vendor, facility, type) \in CouponType
  BY <1>1, <1>2 DEF NewRow, DraftType, CouponType, Optional
<1> QED
  BY <1>3, CouponsAssumption DEF Reachable, NewRow

\* A checkout that has left "idle" has everything pricing gave it, and moving it
\* on changes nothing else.
LEMMA UnderwayType ==
  ASSUME CouponsTypeOK, NEW b \in Checkouts, checkout[b].at # "idle"
  PROVE  checkout[b] \in Underway
BY DEF CouponsTypeOK

\* The same, through a change of state.
LEMMA UnderwayMoves ==
  ASSUME NEW t \in Underway, NEW s \in {"priced", "refused", "booked", "releasing", "ended"}
  PROVE  /\ [t EXCEPT !.at = s] \in Underway
         /\ [t EXCEPT !.at = s].at = s
         /\ [t EXCEPT !.at = s].venue = t.venue
         /\ [t EXCEPT !.at = s].applied = t.applied
BY DEF Underway

\* The same, through the redeeming of one more coupon.
LEMMA UnderwayCounts ==
  ASSUME NEW t \in Underway
  PROVE  /\ [t EXCEPT !.done = t.done + 1] \in Underway
         /\ [t EXCEPT !.done = t.done + 1].at = t.at
         /\ [t EXCEPT !.done = t.done + 1].venue = t.venue
         /\ [t EXCEPT !.done = t.done + 1].applied = t.applied
BY DEF Underway

\* An element of a sequence over S is in S.
LEMMA SeqElement ==
  ASSUME NEW S, NEW s \in Seq(S), NEW k \in DOMAIN s
  PROVE  s[k] \in S
BY ElementOfSeq, LenProperties

\* What a checkout under way names is a venue and coupons.
LEMMA UnderwayHolds ==
  ASSUME NEW t \in Underway
  PROVE  t.venue \in Venues /\ \A k \in DOMAIN t.applied : t.applied[k].id \in Ids
<1>1. t.applied \in Seq([id : Ids, discount : Int])
  BY DEF Underway
<1>2. ASSUME NEW k \in DOMAIN t.applied PROVE t.applied[k] \in [id : Ids, discount : Int]
  BY <1>1, SeqElement, Zenon
<1>3. ASSUME NEW k \in DOMAIN t.applied PROVE t.applied[k].id \in Ids
  BY <1>2
<1> QED
  BY <1>3 DEF Underway

--------------------------------------------------------------------------------
(* Prices *)

\* SetToSeq of a set of at most one element.
LEMMA SeqOfNone == SetToSeq({}) = <<>>
<1>1. Cardinality({}) = 0
  BY FS_EmptySet
<1>2. [1 .. 0 -> {}] = {<<>>}
  <2>1. <<>> \in [1 .. 0 -> {}]
    OBVIOUS
  <2>2. ASSUME NEW f \in [1 .. 0 -> {}] PROVE f = <<>>
    <3>1. f \in Seq({}) /\ Len(f) = 0
      OBVIOUS
    <3> QED
      BY <3>1
  <2> QED
    BY <2>1, <2>2
<1>3. IsInjective(<<>>)
  BY DEF IsInjective
<1> QED
  BY <1>1, <1>2, <1>3 DEF SetToSeq

\* SetToSeq of a singleton.
LEMMA SeqOfOne == ASSUME NEW x PROVE SetToSeq({x}) = <<x>>
<1>1. Cardinality({x}) = 1
  BY FS_Singleton
<1>2. [1 .. 1 -> {x}] = {<<x>>}
  OBVIOUS
<1>3. IsInjective(<<x>>)
  BY DEF IsInjective
<1> QED
  BY <1>1, <1>2, <1>3 DEF SetToSeq

\* Two sequences of one element, one after the other.
LEMMA ConcatOfOnes == ASSUME NEW x, NEW y PROVE <<x>> \o <<y>> = <<x, y>>
<1> DEFINE S == {x, y}
           s == <<x>>
           t == <<y>>
           u == <<x, y>>
<1>1. /\ s \in Seq(S) /\ t \in Seq(S) /\ u \in Seq(S) /\ Len(s) = 1 /\ Len(t) = 1 /\ Len(u) = 2
      /\ s[1] = x /\ t[1] = y /\ u[1] = x /\ u[2] = y
  OBVIOUS
<1> HIDE DEF S, s, t, u
<1>2. s \o t \in Seq(S) /\ Len(s \o t) = 2
  <2>1. s \o t \in Seq(S) /\ Len(s \o t) = Len(s) + Len(t)
    BY <1>1, ConcatProperties
  <2>2. 1 + 1 = 2
    OBVIOUS
  <2> QED
    BY <1>1, <2>1, <2>2, Zenon
<1>3. (s \o t)[1] = x /\ (s \o t)[2] = y
  <2>1. \A k \in 1 .. Len(s) + Len(t) :
          (s \o t)[k] = IF k <= Len(s) THEN s[k] ELSE t[k - Len(s)]
    BY <1>1, ConcatProperties, Zenon
  <2>2. /\ Len(s) + Len(t) = 2 /\ 1 \in 1 .. 2 /\ 2 \in 1 .. 2
        /\ 1 <= Len(s) /\ ~ (2 <= Len(s)) /\ 2 - Len(s) = 1
    <3>1. /\ 1 + 1 = 2 /\ 1 \in 1 .. 2 /\ 2 \in 1 .. 2 /\ 1 <= 1 /\ ~ (2 <= 1) /\ 2 - 1 = 1
      OBVIOUS
    <3> QED
      BY <1>1, <3>1, Zenon
  <2> QED
    BY <1>1, <2>1, <2>2, Zenon
<1>4. s \o t = u
  BY <1>1, <1>2, <1>3
<1> QED
  BY <1>4 DEF s, t, u

\* A discount is at most what it is a discount on.
LEMMA DiscountBounded ==
  ASSUME CouponsTypeOK, NEW i \in Ids, row[i] # None, NEW amount \in Nat
  PROVE  Discount(i, amount) \in 0 .. amount
<1> DEFINE r == row[i]
           percent == (amount * r.value + 50) \div 100
<1>1. r \in CouponType
  BY DEF CouponsTypeOK, Optional
<1>2. r.value \in Nat /\ r.max \in Optional(Nat)
  BY <1>1 DEF CouponType
<1>3. amount * r.value \in Nat
  BY <1>2
<1>4. percent \in Nat
  <2>1. ASSUME NEW p \in Nat PROVE (p + 50) \div 100 \in Nat
    BY <2>1
  <2> QED
    BY <1>3, <2>1
<1> HIDE DEF percent
<1>5. Discount(i, amount) =
        Lesser(IF r.kind = "PERCENT"
               THEN IF r.max = None THEN percent ELSE Lesser(percent, r.max) ELSE r.value, amount)
  BY DEF Discount, percent
<1> QED
  BY <1>2, <1>4, <1>5 DEF Lesser, Optional

\* The coupons a list of codes names.
Named(codes) == UNION {Load(codes[k]) : k \in DOMAIN codes}

\* Pricing in order: the owner's coupon, then the admin's on the rest.
Alone(i, amount) == <<[id |-> i, discount |-> Discount(i, amount)]>>
Both(i, j, amount) ==
  <<[id |-> i, discount |-> Discount(i, amount)],
    [id |-> j, discount |-> Discount(j, amount - Discount(i, amount))]>>

\* A code is that of at most one live coupon.
LEMMA OneLoads ==
  ASSUME CodesUnique, NEW code
  PROVE  /\ \A i \in Load(code) : i \in Ids /\ row[i] # None /\ row[i].code = code
         /\ \A i, j \in Load(code) : i = j
BY DEF Load, CodesUnique, Live, Exists

\* What the codes of a priceable cart come to: nothing, one coupon, or one of
\* each scope; there are as many of them as codes.
LEMMA PricedShape ==
  ASSUME CouponsTypeOK, CodesUnique, NEW codes \in Seq(Codes), NEW v \in Venues,
         NEW amount \in Nat, Priceable(codes, v, amount)
  PROVE  /\ \A i \in Named(codes) : i \in Ids /\ row[i] # None /\ Applies(i, v)
         /\ \/ Len(codes) = 0 /\ Named(codes) = {} /\ Priced(codes, v, amount) = <<>>
            \/ /\ Len(codes) = 1
               /\ \E i : Named(codes) = {i} /\ Priced(codes, v, amount) = Alone(i, amount)
            \/ /\ Len(codes) = 2
               /\ \E i, j : /\ Named(codes) = {i, j} /\ Scope(i) # Scope(j)
                            /\ Priced(codes, v, amount) = Both(i, j, amount)
<1> DEFINE S == Named(codes)
           V == {i \in S : Scope(i) = "VENDOR"}
           A == {i \in S : Scope(i) = "ADMIN"}
<1>1. /\ \A k \in DOMAIN codes : \E i \in Load(codes[k]) : Check(i, v, amount)
      /\ \A i, j \in S : Scope(i) = Scope(j) => i = j
      /\ Len(codes) \in 0 .. 2
      /\ \A k, l \in DOMAIN codes : codes[k] = codes[l] => k = l
  <2>1. /\ Len(codes) <= 2 /\ IsInjective(codes) /\ Len(codes) \in Nat
        /\ \A k \in DOMAIN codes : \E i \in Load(codes[k]) : Check(i, v, amount)
        /\ \A i, j \in S : Scope(i) = Scope(j) => i = j
    BY DEF Priceable, Named
  <2> HIDE DEF S
  <2>2. \A k, l \in DOMAIN codes : codes[k] = codes[l] => k = l
    BY <2>1, Zenon DEF IsInjective
  <2>3. Len(codes) \in 0 .. 2
    <3>1. \A n \in Nat : n <= 2 => n \in 0 .. 2
      OBVIOUS
    <3> QED
      BY <2>1, <3>1, Zenon
  <2> QED
    BY <2>1, <2>2, <2>3, Zenon
<1>2. \A i \in S : i \in Ids /\ row[i] # None /\ Applies(i, v)
  <2>1. SUFFICES ASSUME NEW i \in S PROVE i \in Ids /\ row[i] # None /\ Applies(i, v)
    OBVIOUS
  <2>2. PICK k \in DOMAIN codes : i \in Load(codes[k])
    BY DEF Named
  <2>3. PICK j \in Load(codes[k]) : Check(j, v, amount)
    BY <1>1
  <2> QED
    BY <2>2, <2>3, OneLoads DEF Check
<1>3. \A i : Scope(i) \in {"VENDOR", "ADMIN"}
  BY DEF Scope
<1>4. V = {} \/ \E i : V = {i}
  BY <1>1
<1>5. A = {} \/ \E i : A = {i}
  BY <1>1
<1>6. S = V \cup A
  BY <1>3
<1>7. /\ Len(codes) = 0 => S = {}
      /\ Len(codes) = 1 => \E i : S = {i}
      /\ Len(codes) = 2 => \E i, j : i # j /\ S = {i, j}
  <2>1. DOMAIN codes = 1 .. Len(codes)
    OBVIOUS
  <2>2. CASE Len(codes) = 0
    BY <2>1, <2>2 DEF Named
  <2>3. CASE Len(codes) = 1
    <3>1. S = Load(codes[1])
      BY <2>1, <2>3 DEF Named
    <3> QED
      BY <1>1, <2>1, <2>3, <3>1, OneLoads
  <2>4. CASE Len(codes) = 2
    <3>1. S = Load(codes[1]) \cup Load(codes[2])
      BY <2>1, <2>4 DEF Named
    <3>2. PICK i, j : i \in Load(codes[1]) /\ j \in Load(codes[2])
      BY <1>1, <2>1, <2>4
    <3>3. i # j
      BY <1>1, <2>1, <2>4, <3>2, OneLoads
    <3>4. Load(codes[1]) = {i} /\ Load(codes[2]) = {j}
      BY <3>2, OneLoads
    <3>5. S = {i, j}
      BY <3>1, <3>4
    <3> HIDE DEF S
    <3>6. \E x, y : x # y /\ S = {x, y}
      BY <3>3, <3>5, Zenon
    <3>7. Len(codes) # 0 /\ Len(codes) # 1
      BY <2>4
    <3> QED
      BY <3>6, <3>7, Zenon
  <2> HIDE DEF S
  <2> QED
    BY <2>2, <2>3, <2>4
<1> DEFINE Row(x, off) == [id |-> x, discount |-> off]
           off == IF V = {} THEN 0 ELSE Discount(SetToSeq(V)[1], amount)
           Firsts == [k \in DOMAIN SetToSeq(V) |-> Row(SetToSeq(V)[k], off)]
           Others == [k \in DOMAIN SetToSeq(A) |->
                        Row(SetToSeq(A)[k], Discount(SetToSeq(A)[k], amount - off))]
<1>8. Priced(codes, v, amount) = Firsts \o Others
  <2>1. V = {} <=> SetToSeq(V) = <<>>
    <3> HIDE DEF V
    <3>1. \A x : <<x>> # <<>>
      OBVIOUS
    <3> QED
      BY <1>4, <3>1, SeqOfNone, SeqOfOne
  <2>2. off = IF SetToSeq(V) = <<>> THEN 0 ELSE Discount(SetToSeq(V)[1], amount)
    BY <2>1
  <2> QED
    BY <2>2 DEF Priced, Named
<1> HIDE DEF V, A
<1>9. /\ V = {} => Firsts = <<>> /\ amount - off = amount
      /\ A = {} => Others = <<>>
      /\ \A i : V = {i} => off = Discount(i, amount) /\ Firsts = <<Row(i, off)>>
      /\ \A j : A = {j} => Others = <<Row(j, Discount(j, amount - off))>>
  <2>1. V = {} => Firsts = <<>> /\ amount - off = amount
    BY SeqOfNone
  <2>2. A = {} => Others = <<>>
    BY SeqOfNone
  <2>3. ASSUME NEW i, V = {i} PROVE off = Discount(i, amount) /\ Firsts = <<Row(i, off)>>
    <3>1. SetToSeq(V) = <<i>>
      BY <2>3, SeqOfOne
    <3> HIDE DEF off
    <3>2. Firsts = <<Row(i, off)>>
      BY <3>1
    <3> QED
      BY <2>3, <3>1, <3>2 DEF off
  <2>4. ASSUME NEW j, A = {j} PROVE Others = <<Row(j, Discount(j, amount - off))>>
    <3>1. SetToSeq(A) = <<j>>
      BY <2>4, SeqOfOne
    <3> HIDE DEF off
    <3> QED
      BY <3>1
  <2> QED
    BY <2>1, <2>2, <2>3, <2>4
<1> HIDE DEF S, V, A, Firsts, Others, off
<1>10. CASE V = {} /\ A = {}
  <2>1. S = {} /\ Priced(codes, v, amount) = <<>>
    BY <1>6, <1>8, <1>9, <1>10
  <2> QED
    BY <1>1, <1>2, <1>7, <2>1 DEF S
<1>11. ASSUME NEW i, V = {i}, A = {} PROVE S = {i} /\ Priced(codes, v, amount) = Alone(i, amount)
  <2>1. Firsts = <<Row(i, Discount(i, amount))>> /\ Others = <<>>
    BY <1>9, <1>11
  <2> QED
    BY <1>6, <1>8, <1>11, <2>1 DEF Alone
<1>12. ASSUME NEW j, V = {}, A = {j} PROVE S = {j} /\ Priced(codes, v, amount) = Alone(j, amount)
  <2>1. Others = <<Row(j, Discount(j, amount))>> /\ Firsts = <<>>
    BY <1>9, <1>12
  <2> QED
    BY <1>6, <1>8, <1>12, <2>1 DEF Alone
<1>13. ASSUME NEW i, NEW j, V = {i}, A = {j}
       PROVE  /\ i # j /\ S = {i, j} /\ Scope(i) # Scope(j)
              /\ Priced(codes, v, amount) = Both(i, j, amount)
  <2>1. /\ Firsts = <<Row(i, Discount(i, amount))>>
        /\ Others = <<Row(j, Discount(j, amount - Discount(i, amount)))>>
    BY <1>9, <1>13
  <2>2. Scope(i) = "VENDOR" /\ Scope(j) = "ADMIN"
    BY <1>13 DEF V, A
  <2>3. i # j /\ S = {i, j}
    BY <1>6, <1>13, <2>2
  <2>4. Firsts \o Others =
          <<Row(i, Discount(i, amount)), Row(j, Discount(j, amount - Discount(i, amount)))>>
    <3> DEFINE x == Row(i, Discount(i, amount))
               y == Row(j, Discount(j, amount - Discount(i, amount)))
    <3>1. Firsts = <<x>> /\ Others = <<y>>
      BY <2>1
    <3> HIDE DEF x, y
    <3>2. Firsts \o Others = <<x, y>>
      BY <3>1, ConcatOfOnes, Zenon
    <3> QED
      BY <3>2 DEF x, y
  <2> QED
    BY <1>8, <2>2, <2>3, <2>4 DEF Both
<1>14. S = Named(codes)
  BY DEF S
<1>15. Len(codes) = 0 \/ Len(codes) = 1 \/ Len(codes) = 2
  <2>1. \A n \in 0 .. 2 : n = 0 \/ n = 1 \/ n = 2
    OBVIOUS
  <2> QED
    BY <1>1, <2>1, Zenon
<1>16. \A i, x, y : x # y => {i} # {x, y} /\ {i} # {} /\ {x, y} # {}
  OBVIOUS
<1>17. \A i, j : i # j /\ S = {i, j} => Len(codes) = 2
  <2>1. SUFFICES ASSUME NEW i, NEW j, i # j, S = {i, j} PROVE Len(codes) = 2
    OBVIOUS
  <2>2. Len(codes) # 0 /\ Len(codes) # 1
    BY <1>7, <1>16, <2>1
  <2> QED
    BY <1>15, <2>2, Zenon
<1>18. \A i : S = {i} => Len(codes) = 1
  <2>1. SUFFICES ASSUME NEW i, S = {i} PROVE Len(codes) = 1
    OBVIOUS
  <2>2. Len(codes) # 0 /\ Len(codes) # 2
    BY <1>7, <1>16, <2>1
  <2> QED
    BY <1>15, <2>2, Zenon
<1> QED
  <2>1. CASE V = {} /\ A # {}
    BY <1>2, <1>5, <1>12, <1>14, <1>18, <2>1
  <2>2. CASE V # {} /\ A = {}
    BY <1>2, <1>4, <1>11, <1>14, <1>18, <2>2
  <2>3. CASE V # {} /\ A # {}
    <3>1. PICK i, j : V = {i} /\ A = {j}
      BY <1>4, <1>5, <2>3
    <3> QED
      BY <1>2, <1>13, <1>14, <1>17, <3>1
  <2> QED
    BY <1>2, <1>10, <1>14, <2>1, <2>2, <2>3

\* What is taken off in all: the sum over none, one or two coupons.
LEMMA TotalOfNone == Total(<<>>) = 0
<1>1. DOMAIN [k \in DOMAIN <<>> |-> <<>>[k].discount] = {}
  OBVIOUS
<1> QED
  BY <1>1, SumEmpty DEF Total, SumFunction

\* The sum over one index.
LEMMA SumOfOne == ASSUME NEW f, f[1] \in Int PROVE SumFunctionOnSet(f, {1}) = f[1]
<1>1. IsFiniteSet({1}) /\ {1} \ {1} = {} /\ \A k \in {1} : f[k] \in Int
  BY FS_Singleton
<1>2. SumFunctionOnSet(f, {1}) = f[1] + SumFunctionOnSet(f, {})
  BY <1>1, SumRemove
<1>3. f[1] + 0 = f[1]
  OBVIOUS
<1> QED
  BY <1>2, <1>3, SumEmpty, Zenon

\* What one coupon takes off.
LEMMA TotalOfOne ==
  ASSUME NEW x, x.discount \in Int
  PROVE  Total(<<x>>) = x.discount
<1> DEFINE f == [k \in DOMAIN <<x>> |-> <<x>>[k].discount]
<1>1. DOMAIN f = {1} /\ f[1] = x.discount
  OBVIOUS
<1>2. Total(<<x>>) = SumFunctionOnSet(f, DOMAIN f)
  BY DEF Total, SumFunction
<1> HIDE DEF f
<1> QED
  BY <1>1, <1>2, SumOfOne

\* What two coupons take off.
LEMMA TotalOfTwo ==
  ASSUME NEW x, NEW y, x.discount \in Int, y.discount \in Int
  PROVE  Total(<<x, y>>) = x.discount + y.discount
<1> DEFINE f == [k \in DOMAIN <<x, y>> |-> <<x, y>>[k].discount]
<1>1. DOMAIN f = {1, 2} /\ f[1] = x.discount /\ f[2] = y.discount
  OBVIOUS
<1>2. Total(<<x, y>>) = SumFunctionOnSet(f, DOMAIN f)
  BY DEF Total, SumFunction
<1> HIDE DEF f
<1>3. IsFiniteSet({1, 2}) /\ {1, 2} \ {2} = {1} /\ \A k \in {1, 2} : f[k] \in Int
  <2>1. IsFiniteSet({1} \cup {2})
    BY FS_Singleton, FS_AddElement, Zenon
  <2>2. {1, 2} = {1} \cup {2}
    OBVIOUS
  <2>3. IsFiniteSet({1, 2})
    BY <2>1, <2>2
  <2> QED
    BY <1>1, <2>3
<1>4. SumFunctionOnSet(f, {1, 2}) = f[2] + SumFunctionOnSet(f, {1})
  BY <1>3, SumRemove
<1>5. SumFunctionOnSet(f, {1}) = f[1]
  BY <1>1, SumOfOne
<1> QED
  BY <1>1, <1>2, <1>4, <1>5

\* The order in which the codes are sent does not matter.
LEMMA NamedReversed ==
  ASSUME NEW codes \in Seq(Codes)
  PROVE  Named(Reverse(codes)) = Named(codes)
<1> DEFINE n == Len(codes)
           r == Reverse(codes)
<1>1. n \in Nat /\ DOMAIN codes = 1 .. n
  OBVIOUS
<1>2. r = [k \in 1 .. n |-> codes[n - k + 1]]
  BY DEF Reverse
<1> HIDE DEF n, r
<1>3. ASSUME NEW k \in 1 .. n
      PROVE  n - k + 1 \in 1 .. n /\ r[n - k + 1] = codes[k] /\ r[k] = codes[n - k + 1]
  <2>1. n - k + 1 \in 1 .. n /\ n - (n - k + 1) + 1 = k
    BY <1>1
  <2> QED
    BY <1>2, <2>1
<1>4. DOMAIN r = DOMAIN codes
  BY <1>1, <1>2
<1>5. ASSUME NEW i PROVE i \in Named(r) <=> i \in Named(codes)
  <2>1. ASSUME NEW k \in DOMAIN codes
        PROVE  Load(codes[k]) = Load(r[n - k + 1]) /\ Load(r[k]) = Load(codes[n - k + 1])
    BY <1>1, <1>3, <2>1
  <2> QED
    BY <1>1, <1>3, <1>4, <2>1 DEF Named
<1> QED
  BY <1>5 DEF r, Named

\* PriceCoupons is right for any cart and any rows that have their types and
\* distinct codes.
LEMMA PricingIsSound == CouponsTypeOK /\ CodesUnique => PricingSound
<1> SUFFICES ASSUME CouponsTypeOK, CodesUnique, NEW c \in Carts, NEW amount \in Amounts,
                    Priceable(c.codes, c.venue, amount)
             PROVE  LET applied == Priced(c.codes, c.venue, amount)
                    IN /\ Len(applied) = Len(c.codes)
                       /\ Total(applied) \in 0 .. amount
                       /\ applied = Priced(Reverse(c.codes), c.venue, amount)
  BY DEF PricingSound
<1>1. c.codes \in Seq(Codes) /\ c.venue \in Venues /\ amount \in Nat
  BY CouponsAssumption DEF CartType
<1> DEFINE applied == Priced(c.codes, c.venue, amount)
<1>2. applied = Priced(Reverse(c.codes), c.venue, amount)
  <2>1. Named(Reverse(c.codes)) = Named(c.codes)
    BY <1>1, NamedReversed
  <2> QED
    BY <2>1 DEF Priced, Named
<1>3. ASSUME NEW i \in Named(c.codes) PROVE i \in Ids /\ row[i] # None
  BY <1>1, PricedShape
<1>4. /\ \A i \in Named(c.codes) : i \in Ids /\ row[i] # None
      /\ \/ Len(c.codes) = 0 /\ applied = <<>>
         \/ Len(c.codes) = 1 /\ \E i \in Named(c.codes) : applied = Alone(i, amount)
         \/ Len(c.codes) = 2 /\ \E i, j \in Named(c.codes) : applied = Both(i, j, amount)
  <2> DEFINE Sh(n, a) ==
        \/ n = 0 /\ Named(c.codes) = {} /\ a = <<>>
        \/ n = 1 /\ \E i : Named(c.codes) = {i} /\ a = Alone(i, amount)
        \/ n = 2 /\ \E i, j : /\ Named(c.codes) = {i, j} /\ Scope(i) # Scope(j)
                              /\ a = Both(i, j, amount)
  <2>1. Sh(Len(c.codes), applied)
    BY <1>1, PricedShape, Zenon
  <2> HIDE DEF applied
  <2>2. ASSUME NEW n, NEW a, Sh(n, a)
        PROVE  \/ n = 0 /\ a = <<>>
               \/ n = 1 /\ \E i \in Named(c.codes) : a = Alone(i, amount)
               \/ n = 2 /\ \E i, j \in Named(c.codes) : a = Both(i, j, amount)
    BY <2>2
  <2> HIDE DEF Sh
  <2> QED
    BY <1>3, <2>1, <2>2, Zenon
<1> HIDE DEF applied
<1>5. Len(applied) = Len(c.codes) /\ Total(applied) \in 0 .. amount
  <2>1. CASE Len(c.codes) = 0 /\ applied = <<>>
    BY <1>1, <2>1, TotalOfNone
  <2>2. ASSUME Len(c.codes) = 1, NEW i \in Named(c.codes), applied = Alone(i, amount)
        PROVE  Len(applied) = Len(c.codes) /\ Total(applied) \in 0 .. amount
    <3> DEFINE x == [id |-> i, discount |-> Discount(i, amount)]
    <3>1. x.discount \in 0 .. amount
      BY <1>1, <1>4, DiscountBounded
    <3>2. applied = <<x>>
      BY <2>2 DEF Alone
    <3> HIDE DEF x
    <3>3. Total(applied) = x.discount
      BY <1>1, <3>1, <3>2, TotalOfOne
    <3>4. Len(applied) = 1
      BY <3>2
    <3> QED
      BY <2>2, <3>1, <3>3, <3>4, Zenon
  <2>3. ASSUME Len(c.codes) = 2, NEW i \in Named(c.codes), NEW j \in Named(c.codes),
               applied = Both(i, j, amount)
        PROVE  Len(applied) = Len(c.codes) /\ Total(applied) \in 0 .. amount
    <3> DEFINE x == [id |-> i, discount |-> Discount(i, amount)]
               y == [id |-> j, discount |-> Discount(j, amount - Discount(i, amount))]
    <3>1. x.discount \in 0 .. amount /\ x.discount = Discount(i, amount)
      BY <1>1, <1>4, DiscountBounded
    <3>2. amount - Discount(i, amount) \in Nat
      BY <1>1, <3>1
    <3>3. y.discount \in 0 .. amount - x.discount
      BY <1>4, <3>2, DiscountBounded
    <3>4. applied = <<x, y>>
      BY <2>3 DEF Both
    <3> HIDE DEF x, y
    <3>5. Total(applied) = x.discount + y.discount
      BY <1>1, <3>1, <3>3, <3>4, TotalOfTwo
    <3>6. Len(applied) = 2
      BY <3>4
    <3>7. x.discount + y.discount \in 0 .. amount
      BY <1>1, <3>1, <3>3
    <3> QED
      BY <2>3, <3>5, <3>6, <3>7, Zenon
  <2> QED
    BY <1>4, <2>1, <2>2, <2>3, Zenon
<1> QED
  BY <1>2, <1>5 DEF applied

--------------------------------------------------------------------------------
(* Screens *)

\* What the screens show and what checkout accepts are the same coupons.
LEMMA ScreensDoAgree == CouponsTypeOK /\ RowsOK => ScreensAgree
<1> SUFFICES ASSUME CouponsTypeOK, RowsOK PROVE ScreensAgree
  OBVIOUS
<1>1. ASSUME NEW i \in Ids, row[i] # None
      PROVE  /\ row[i] \in CouponType
             /\ row[i].type = None => row[i].facility \in Venues
             /\ row[i].type # None => row[i].facility = None /\ row[i].vendor = None
             /\ row[i].facility # None => row[i].facility \in Venues
             /\ \E amount \in Amounts : row[i].min # None => amount >= row[i].min
  <2>1. row[i] \in CouponType
    BY <1>1 DEF CouponsTypeOK, Optional
  <2>2. row[i].facility \in Venues \cup {None}
    BY <2>1 DEF CouponType, Optional
  <2>3. ScopeOK(row[i]) /\ Reachable(row[i])
    BY <1>1 DEF RowsOK
  <2>4. \E amount \in Amounts : row[i].min # None => amount >= row[i].min
    BY <2>3, CouponsAssumption DEF Reachable
  <2> QED
    BY <2>1, <2>2, <2>3, <2>4 DEF ScopeOK
<1>2. ASSUME NEW v \in Venues
      PROVE  OffersOfVenue(v) =
               {i \in Ids : Exists(i) /\ \E amount \in Amounts :
                              i \in Load(row[i].code) /\ Check(i, v, amount)}
  <2>1. ASSUME NEW i \in Ids
        PROVE  i \in OffersOfVenue(v) <=>
                 /\ Exists(i)
                 /\ \E amount \in Amounts : i \in Load(row[i].code) /\ Check(i, v, amount)
    <3>1. i \in Load(row[i].code) <=> Live(i)
      BY DEF Load
    <3>2. i \in OffersOfVenue(v) <=> Live(i) /\ UsesLeft(i) /\ Applies(i, v)
      BY DEF OffersOfVenue, Applies
    <3>3. Live(i) => Exists(i) /\ row[i] # None
      BY DEF Live, Exists
    <3>4. \A amount : Check(i, v, amount) <=>
            Applies(i, v) /\ UsesLeft(i) /\ (row[i].min # None => amount >= row[i].min)
      BY DEF Check
    <3> QED
      BY <1>1, <3>1, <3>2, <3>3, <3>4
  <2>2. OffersOfVenue(v) \subseteq Ids
    BY DEF OffersOfVenue
  <2> QED
    BY <2>1, <2>2
<1>3. ASSUME NEW v \in Venues
      PROVE  /\ CardsOfVenue(v) \subseteq OffersOfVenue(v)
             /\ \A c \in Vendors : {i \in OffersOfVenue(v) : row[i].vendor = c} \subseteq Listed(c)
             /\ \A a \in Admins : OffersOfVenue(v) \subseteq Listed(a)
  <2>1. CardsOfVenue(v) \subseteq OffersOfVenue(v)
    BY DEF CardsOfVenue, OffersOfVenue, Applies
  <2>2. \A i \in OffersOfVenue(v) : i \in Ids /\ Exists(i)
    BY DEF OffersOfVenue, Live
  <2> QED
    BY <2>1, <2>2 DEF Listed, Matches
<1>4. ASSUME NEW type \in {"MARRIAGE_HALL", "HOTEL"}
      PROVE  /\ PlatformOffers(type) \subseteq CardsNear(type)
             /\ CardsNear(type) \subseteq
                  PlatformOffers(type) \cup UNION {OffersOfVenue(v) : v \in Venues}
             /\ CardsNear(type) \subseteq CardsNear(None)
  <2>1. type # None /\ None \notin Away /\ None # "ALL"
    BY CouponsAssumption
  <2>2. ASSUME NEW i \in PlatformOffers(type) PROVE i \in CardsNear(type)
    <3>1. i \in Ids /\ Live(i) /\ UsesLeft(i) /\ row[i].type \in {type, "ALL"}
      BY DEF PlatformOffers
    <3>2. row[i].facility = None
      BY <1>1, <2>1, <3>1 DEF Live, Exists
    <3> QED
      BY <2>1, <3>1, <3>2 DEF CardsNear, OfLiveVenue
  <2>3. ASSUME NEW i \in CardsNear(type)
        PROVE  i \in PlatformOffers(type) \cup UNION {OffersOfVenue(v) : v \in Venues}
    <3>1. /\ i \in Ids /\ Live(i) /\ UsesLeft(i) /\ OfLiveVenue(i)
          /\ \/ row[i].type \in {"ALL", type}
             \/ row[i].facility # None
      BY <2>1 DEF CardsNear
    <3>2. CASE row[i].type \in {"ALL", type}
      <4>1. row[i].type \in {type, "ALL"}
        BY <3>2, Zenon
      <4>2. i \in PlatformOffers(type)
        BY <3>1, <4>1, Zenon DEF PlatformOffers
      <4> QED
        BY <4>2
    <3>3. CASE row[i].facility # None
      <4>1. row[i].facility \in Venues
        BY <1>1, <3>1, <3>3 DEF Live, Exists
      <4>2. i \in OffersOfVenue(row[i].facility)
        BY <3>1, <3>3 DEF OffersOfVenue, Applies, OfLiveVenue
      <4> QED
        BY <4>1, <4>2
    <3> QED
      BY <3>1, <3>2, <3>3
  <2>4. CardsNear(type) \subseteq CardsNear(None)
    BY DEF CardsNear
  <2> QED
    BY <2>2, <2>3, <2>4
<1> QED
  BY <1>2, <1>3, <1>4 DEF ScreensAgree

--------------------------------------------------------------------------------
(* Steps *)

\* A row is written by an administrator or an owner: typed as before, of the
\* same scope, with the same count, under a code nobody else has.
RowWritten(i, r) ==
  /\ r \in CouponType /\ ScopeOK(r) /\ Reachable(r)
  /\ ~ r.deleted => CodeFree(r.code, i)
  /\ row[i] = None => r.used = 0
  /\ row[i] # None => /\ r.used = row[i].used /\ r.type = row[i].type
                     /\ r.vendor = row[i].vendor /\ r.facility = row[i].facility
  /\ row' = [row EXCEPT ![i] = r]

Edited == \E i \in Ids : \E r : RowWritten(i, r)

\* What no step changes: a row stays, with its scope; a deleted venue is gone.
ScopesStay ==
  \A i \in Ids : row[i] # None =>
    /\ row'[i] # None
    /\ row'[i].type = row[i].type
    /\ row'[i].vendor = row[i].vendor
    /\ row'[i].facility = row[i].facility

DeletedForGood == \A v \in Venues : venue[v] = "deleted" => venue'[v] = "deleted"

Holding == {"priced", "booked", "releasing"}

\* A checkout holds what it was priced for as long as it holds anything.
PricesStay ==
  \A b \in Checkouts : checkout'[b].at \in Holding =>
    /\ checkout[b].at \in Holding
    /\ checkout'[b].venue = checkout[b].venue
    /\ checkout'[b].applied = checkout[b].applied

\* Nobody begins or ends to hold a coupon.
UsesStay ==
  \A b \in Checkouts :
    checkout'[b].at \in {"booked", "releasing"} <=> checkout[b].at \in {"booked", "releasing"}

\* UsesAreHeld, as a cardinality.
LEMMA UsesCounted ==
  UsesAreHeld <=> \A i \in Ids : row[i] # None => row[i].used = Cardinality(HeldBy(i))
BY DEF UsesAreHeld, Quantify, HeldBy

\* What is held stays held and applicable through any step that keeps scopes,
\* venues and prices.
LEMMA HeldKept ==
  ASSUME CouponsTypeOK, HeldExist, HeldStillApply, ScopesStay, DeletedForGood, PricesStay
  PROVE  HeldStillApply'
<1> SUFFICES ASSUME NEW b \in Checkouts, checkout'[b].at \in Holding
             PROVE  /\ \A i \in Held(b)' : venue'[checkout'[b].venue] # "deleted" =>
                                             Applies(i, checkout[b].venue)'
                    /\ \A k, l \in DOMAIN checkout'[b].applied :
                         Scope(checkout[b].applied[k].id)' = Scope(checkout[b].applied[l].id)'
                           => k = l
  BY DEF HeldStillApply, Holding
<1>1. /\ checkout[b].at \in Holding /\ checkout'[b].venue = checkout[b].venue
      /\ checkout'[b].applied = checkout[b].applied
  BY DEF PricesStay
<1>2. checkout[b] \in Underway
  BY <1>1, UnderwayType DEF Holding
<1>3. /\ checkout[b].venue \in Venues
      /\ \A k \in DOMAIN checkout[b].applied : checkout[b].applied[k].id \in Ids
  BY <1>2, UnderwayHolds
<1>4. \A i \in Held(b) : i \in Ids /\ row[i] # None
  BY <1>1, <1>3 DEF HeldExist, Held, Holding
<1>5. /\ \A i \in Held(b) : venue[checkout[b].venue] # "deleted" => Applies(i, checkout[b].venue)
      /\ \A k, l \in DOMAIN checkout[b].applied :
           Scope(checkout[b].applied[k].id) = Scope(checkout[b].applied[l].id) => k = l
  BY <1>1 DEF HeldStillApply, Holding
<1>6. Held(b)' = Held(b)
  BY <1>1 DEF Held
<1>7. \A i \in Held(b) : /\ row'[i].type = row[i].type /\ row'[i].vendor = row[i].vendor
                         /\ row'[i].facility = row[i].facility
  BY <1>4 DEF ScopesStay
<1>8. venue'[checkout[b].venue] # "deleted" => venue[checkout[b].venue] # "deleted"
  BY <1>3 DEF DeletedForGood
<1>9. ASSUME NEW i \in Held(b)', venue'[checkout'[b].venue] # "deleted"
      PROVE  Applies(i, checkout[b].venue)'
  BY <1>1, <1>5, <1>6, <1>7, <1>8, <1>9 DEF Applies
<1>10. ASSUME NEW k \in DOMAIN checkout'[b].applied, NEW l \in DOMAIN checkout'[b].applied,
              Scope(checkout[b].applied[k].id)' = Scope(checkout[b].applied[l].id)'
       PROVE  k = l
  <2>1. k \in DOMAIN checkout[b].applied /\ l \in DOMAIN checkout[b].applied
    BY <1>1
  <2>2. checkout[b].applied[k].id \in Held(b) /\ checkout[b].applied[l].id \in Held(b)
    BY <2>1 DEF Held
  <2>3. /\ Scope(checkout[b].applied[k].id)' = Scope(checkout[b].applied[k].id)
        /\ Scope(checkout[b].applied[l].id)' = Scope(checkout[b].applied[l].id)
    BY <1>1, <1>7, <2>2 DEF Scope
  <2> QED
    BY <1>5, <1>10, <2>1, <2>3
<1> QED
  BY <1>9, <1>10

\* What the steps below must keep besides their types and drafts.
Relations ==
  RowsOK /\ CodesUnique /\ HeldExist /\ BusyFinite /\ HeldStillApply /\ UsesAreHeld

\* An edit of a row.
LEMMA WrittenKeeps ==
  ASSUME CouponsInv, Edited, UNCHANGED <<venue, checkout>>
  PROVE  row' \in [Ids -> Optional(CouponType)] /\ Relations'
<1>1. PICK i \in Ids : \E r : RowWritten(i, r)
  BY DEF Edited
<1>2. PICK r : RowWritten(i, r)
  BY <1>1
<1>3. /\ r \in CouponType /\ ScopeOK(r) /\ Reachable(r)
      /\ ~ r.deleted => CodeFree(r.code, i)
      /\ row[i] = None => r.used = 0
      /\ row[i] # None => /\ r.used = row[i].used /\ r.type = row[i].type
                         /\ r.vendor = row[i].vendor /\ r.facility = row[i].facility
      /\ row' = [row EXCEPT ![i] = r]
  BY <1>2 DEF RowWritten
<1>4. r # None /\ row \in [Ids -> Optional(CouponType)]
  BY <1>3, CouponsAssumption DEF CouponsInv, CouponsTypeOK
<1>5. \A j \in Ids : row'[j] = IF j = i THEN r ELSE row[j]
  BY <1>3, <1>4
<1>6. row' \in [Ids -> Optional(CouponType)]
  BY <1>3, <1>4 DEF Optional
<1>7. RowsOK'
  <2>1. ASSUME NEW j \in Ids, row'[j] # None PROVE ScopeOK(row'[j]) /\ Reachable(row'[j])
    BY <1>3, <1>5, <2>1 DEF CouponsInv, RowsOK
  <2> QED
    BY <2>1 DEF RowsOK, ScopeOK, Reachable
<1>8. CodesUnique'
  <2> DEFINE Alive(q) == q # None /\ ~ q.deleted
  <2>1. \A j : (Exists(j) <=> Alive(row[j])) /\ (Exists(j)' <=> Alive(row'[j]))
    BY Zenon DEF Exists
  <2>2. Alive(r) => \A j \in Ids \ {i} : Alive(row[j]) => row[j].code # r.code
    BY <1>3, <2>1, Zenon DEF CodeFree
  <2> HIDE DEF Alive
  <2>3. \A j, k \in Ids : Alive(row[j]) /\ Alive(row[k]) /\ row[j].code = row[k].code => j = k
    BY <2>1 DEF CouponsInv, CodesUnique
  <2>4. \A j, k \in Ids : Alive(row'[j]) /\ Alive(row'[k]) /\ row'[j].code = row'[k].code => j = k
    BY <1>5, <2>2, <2>3
  <2> QED
    BY <2>1, <2>4 DEF CodesUnique
<1>9. ScopesStay
  BY <1>3, <1>4, <1>5 DEF ScopesStay
<1>10. DeletedForGood /\ PricesStay
  BY DEF DeletedForGood, PricesStay
<1>11. HeldStillApply'
  BY <1>9, <1>10, HeldKept DEF CouponsInv
<1>12. HeldExist /\ HeldExist' /\ BusyFinite'
  <2>1. \A b \in Checkouts : Held(b)' = Held(b)
    BY DEF Held
  <2>2. ASSUME NEW b \in Checkouts, checkout[b].at # "idle", NEW j \in Held(b)
        PROVE  row'[j] # None
    <3>1. j \in Ids
      BY <2>2, UnderwayType, UnderwayHolds DEF CouponsInv, Held
    <3> QED
      BY <1>4, <1>5, <2>2, <3>1 DEF CouponsInv, HeldExist
  <2>3. HeldExist'
    BY <2>1, <2>2 DEF HeldExist
  <2> QED
    BY <2>3 DEF CouponsInv, BusyFinite, Busy
<1>13. UsesAreHeld'
  <2>1. \A j \in Ids : row[j] # None => row[j].used = Cardinality(HeldBy(j))
    BY UsesCounted DEF CouponsInv
  <2>2. \A j : HeldBy(j)' = HeldBy(j)
    BY DEF HeldBy, Held
  <2>3. ASSUME row[i] = None PROVE HeldBy(i) = {}
    BY <2>3 DEF HeldBy, CouponsInv, HeldExist
  <2>4. \A j \in Ids : row'[j] # None => row'[j].used = Cardinality(HeldBy(j)')
    BY <1>3, <1>5, <2>1, <2>2, <2>3, FS_EmptySet
  <2> QED
    BY <2>4 DEF UsesAreHeld, Quantify, HeldBy
<1> QED
  BY <1>6, <1>7, <1>8, <1>11, <1>12, <1>13 DEF Relations

\* A step that touches neither coupons nor checkouts.
LEMMA OthersKeep ==
  ASSUME CouponsInv, UNCHANGED <<row, checkout>>, DeletedForGood
  PROVE  Relations'
<1>1. ScopesStay /\ PricesStay
  BY DEF ScopesStay, PricesStay
<1>2. HeldStillApply'
  BY <1>1, HeldKept DEF CouponsInv
<1>3. RowsOK' /\ CodesUnique'
  BY DEF CouponsInv, RowsOK, ScopeOK, Reachable, CodesUnique, Exists
<1>4. HeldExist' /\ BusyFinite' /\ UsesAreHeld'
  BY DEF CouponsInv, HeldExist, Held, BusyFinite, Busy, UsesAreHeld, Quantify
<1> QED
  BY <1>2, <1>3, <1>4 DEF Relations

\* A checkout moves on with what it was priced for.
Moves(b, t) ==
  /\ checkout[b].at # "idle" /\ t \in Underway
  /\ t.venue = checkout[b].venue /\ t.applied = checkout[b].applied
  /\ t.at \in Holding => checkout[b].at \in Holding
  /\ checkout' = [checkout EXCEPT ![b] = t]

\* ... and the other checkouts stay as they are.
LEMMA MovesKeep ==
  ASSUME CouponsInv, NEW b \in Checkouts, NEW t, Moves(b, t)
  PROVE  /\ checkout' \in [Checkouts -> {[at |-> "idle"]} \cup Underway]
         /\ checkout'[b] = t /\ \A c \in Checkouts \ {b} : checkout'[c] = checkout[c]
         /\ \A c \in Checkouts : Held(c)' = Held(c)
         /\ PricesStay
         /\ BusyFinite'
         /\ \A c \in Checkouts : checkout'[c].at # "idle" => checkout[c].at # "idle"
<1>1. checkout \in [Checkouts -> {[at |-> "idle"]} \cup Underway]
  BY DEF CouponsInv, CouponsTypeOK
<1>2. /\ checkout[b].at # "idle" /\ t \in Underway
      /\ t.venue = checkout[b].venue /\ t.applied = checkout[b].applied
      /\ t.at \in Holding => checkout[b].at \in Holding
      /\ checkout' = [checkout EXCEPT ![b] = t]
  BY DEF Moves
<1>3. checkout'[b] = t /\ \A c \in Checkouts \ {b} : checkout'[c] = checkout[c]
  BY <1>1, <1>2
<1>4. checkout' \in [Checkouts -> {[at |-> "idle"]} \cup Underway]
  BY <1>1, <1>2
<1>5. \A c \in Checkouts : Held(c)' = Held(c)
  BY <1>2, <1>3 DEF Held
<1>6. PricesStay
  BY <1>2, <1>3 DEF PricesStay
<1>7. \A c \in Checkouts : checkout'[c].at # "idle" => checkout[c].at # "idle"
  BY <1>2, <1>3
<1>8. BusyFinite'
  <2>1. Busy' \subseteq Busy
    BY <1>7 DEF Busy
  <2> QED
    BY <2>1, FS_Subset DEF CouponsInv, BusyFinite
<1> QED
  BY <1>3, <1>4, <1>5, <1>6, <1>7, <1>8

\* ... while coupons and venues stay as they are, and no use is won or lost.
LEMMA MovedKeeps ==
  ASSUME CouponsInv, NEW b \in Checkouts, NEW t, Moves(b, t), UNCHANGED <<row, venue>>, UsesStay
  PROVE  Relations'
<1>1. /\ \A c \in Checkouts : Held(c)' = Held(c)
      /\ PricesStay /\ BusyFinite'
      /\ \A c \in Checkouts : checkout'[c].at # "idle" => checkout[c].at # "idle"
  BY MovesKeep
<1>2. ScopesStay /\ DeletedForGood
  BY DEF ScopesStay, DeletedForGood
<1>3. HeldStillApply'
  BY <1>1, <1>2, HeldKept DEF CouponsInv
<1>4. RowsOK' /\ CodesUnique'
  BY DEF CouponsInv, RowsOK, ScopeOK, Reachable, CodesUnique, Exists
<1>5. HeldExist'
  BY <1>1 DEF CouponsInv, HeldExist
<1>6. UsesAreHeld'
  <2>1. \A i : HeldBy(i)' = HeldBy(i)
    BY <1>1 DEF HeldBy, UsesStay
  <2>2. \A i \in Ids : row[i] # None => row[i].used = Cardinality(HeldBy(i))
    BY UsesCounted DEF CouponsInv
  <2>3. \A i \in Ids : row'[i] # None => row'[i].used = Cardinality(HeldBy(i)')
    BY <2>1, <2>2
  <2> QED
    BY <2>3 DEF UsesAreHeld, Quantify, HeldBy
<1> QED
  BY <1>1, <1>3, <1>4, <1>5, <1>6 DEF Relations

\* Uses are counted up or down on rows that are there, and nothing else of them.
Recounted(ids, n) ==
  /\ ids \subseteq Ids /\ n \in Int
  /\ \A i \in ids : row[i] # None /\ row[i].used + n \in Nat
  /\ row' = Counted(ids, n)

\* ... so the rows stay coupons of the same code, scope and minimum.
LEMMA RecountKeeps ==
  ASSUME CouponsInv, NEW ids, NEW n, Recounted(ids, n)
  PROVE  /\ row' \in [Ids -> Optional(CouponType)]
         /\ RowsOK' /\ CodesUnique' /\ ScopesStay
         /\ \A i \in Ids : row'[i] # None => row[i] # None
         /\ \A i \in Ids : i \notin ids => row'[i] = row[i]
         /\ \A i \in ids : row'[i].used = row[i].used + n
<1>1. row \in [Ids -> Optional(CouponType)]
  BY DEF CouponsInv, CouponsTypeOK
<1>2. /\ ids \subseteq Ids /\ n \in Int
      /\ \A i \in ids : row[i] # None /\ row[i].used + n \in Nat
  BY DEF Recounted
<1>3. row' = [i \in Ids |-> IF i \in ids THEN [row[i] EXCEPT !.used = row[i].used + n] ELSE row[i]]
  BY DEF Recounted, Counted
<1>4. ASSUME NEW r \in CouponType, NEW u \in Nat
      PROVE  LET q == [r EXCEPT !.used = u]
             IN /\ q \in CouponType /\ q.used = u /\ q.type = r.type /\ q.vendor = r.vendor
                /\ q.facility = r.facility /\ q.min = r.min /\ q.code = r.code
                /\ q.deleted = r.deleted
  BY DEF CouponType
<1>5. ASSUME NEW i \in ids
      PROVE  /\ row'[i] \in CouponType /\ row'[i].used = row[i].used + n
             /\ row'[i].type = row[i].type /\ row'[i].vendor = row[i].vendor
             /\ row'[i].facility = row[i].facility /\ row'[i].min = row[i].min
             /\ row'[i].code = row[i].code /\ row'[i].deleted = row[i].deleted
  <2>1. row[i] \in CouponType /\ row[i].used + n \in Nat
    BY <1>1, <1>2 DEF Optional
  <2>2. row'[i] = [row[i] EXCEPT !.used = row[i].used + n]
    BY <1>2, <1>3
  <2> QED
    BY <1>4, <2>1, <2>2
<1>6. \A i \in Ids : i \notin ids => row'[i] = row[i]
  BY <1>3
<1>7. row' \in [Ids -> Optional(CouponType)]
  BY <1>1, <1>3, <1>5, <1>6 DEF Optional
<1>8. \A i \in ids : row'[i] # None /\ row[i] # None
  BY <1>2, <1>5, CouponsAssumption
<1>9. ScopesStay
  BY <1>5, <1>6, <1>8 DEF ScopesStay
<1>10. RowsOK'
  <2>1. ASSUME NEW i \in Ids, row'[i] # None PROVE ScopeOK(row'[i]) /\ Reachable(row'[i])
    BY <1>2, <1>5, <1>6, <2>1 DEF CouponsInv, RowsOK, ScopeOK, Reachable
  <2> QED
    BY <2>1 DEF RowsOK, ScopeOK, Reachable
<1>11. CodesUnique'
  <2>1. ASSUME NEW i \in Ids
        PROVE  (Exists(i)' <=> Exists(i)) /\ (Exists(i) => row'[i].code = row[i].code)
    <3>1. CASE i \in ids
      BY <1>5, <1>8, <3>1, Zenon DEF Exists
    <3>2. CASE i \notin ids
      BY <1>6, <3>2, Zenon DEF Exists
    <3> QED
      BY <3>1, <3>2
  <2> QED
    BY <2>1 DEF CouponsInv, CodesUnique
<1> QED
  BY <1>5, <1>6, <1>7, <1>8, <1>9, <1>10, <1>11

--------------------------------------------------------------------------------
(* The administration of coupons *)

Kept == CouponsTypeOK' /\ DraftsChecked' /\ Relations'

\* POST /coupons.
LEMMA CreateKeeps ==
  ASSUME CouponsInv, NEW caller \in Callers, NEW i \in Ids, NEW d \in Drafts, Create(caller, i, d)
  PROVE  Kept
<1> DEFINE vendor == IF caller \in Admins THEN None ELSE caller
           r == NewRow(d, vendor, d.facility, None)
<1>1. /\ ValidDraft(d) /\ d.facility # None /\ MayScope(caller, d.facility) /\ Insert(i, r)
      /\ announced' \in {announced \cup {i}, announced}
      /\ UNCHANGED <<venue, now, write, checkout, lock>>
  BY DEF Create
<1>2. d.facility \in Optional(Venues) /\ vendor \in Optional(Vendors)
  BY <1>1, CouponsAssumption DEF DraftType, Optional, MayScope
<1>3. r \in CouponType /\ Reachable(r)
  BY <1>1, <1>2, NewRowType DEF Optional
<1>4. r.type = None /\ r.facility # None /\ r.used = 0
  BY <1>1 DEF NewRow
<1> HIDE DEF r
<1>5. RowWritten(i, r)
  BY <1>1, <1>3, <1>4 DEF RowWritten, Insert, ScopeOK
<1>6. row' \in [Ids -> Optional(CouponType)] /\ Relations'
  BY <1>1, <1>5, WrittenKeeps DEF Edited
<1> QED
  BY <1>1, <1>6 DEF Kept, CouponsInv, CouponsTypeOK, DraftsChecked, ValidDraft

\* What an admin's write carries.
LEMMA WriteCarries ==
  ASSUME CouponsInv, NEW a \in Admins, write[a] # None
  PROVE  /\ write[a].op \in {"create", "save"} /\ write[a].id \in Ids /\ write[a].draft \in Drafts
         /\ ValidDraft(write[a].draft) /\ write[a].draft.facility = None
<1>1. write[a] \in WriteType
  BY DEF CouponsInv, CouponsTypeOK, Optional
<1> QED
  BY <1>1 DEF CouponsInv, WriteType, DraftsChecked

\* An admin's write that is done, or refused, leaves nothing behind.
LEMMA WriteDone ==
  ASSUME CouponsInv, NEW a \in Admins, write' = [write EXCEPT ![a] = None]
  PROVE  write' \in [Admins -> Optional(WriteType)] /\ DraftsChecked'
<1>1. write \in [Admins -> Optional(WriteType)]
  BY DEF CouponsInv, CouponsTypeOK
<1>2. \A e \in Admins : write'[e] = IF e = a THEN None ELSE write[e]
  BY <1>1
<1> QED
  BY <1>1, <1>2 DEF CouponsInv, Optional, DraftsChecked, ValidDraft

\* POST /admin/coupons, its INSERT.
LEMMA AdminCreateKeeps ==
  ASSUME CouponsInv, NEW a \in Admins, AdminCreate(a)
  PROVE  Kept
<1> DEFINE i == write[a].id
           d == write[a].draft
           r == NewRow(d, None, None, AdminScope(d.appliesTo))
<1>1. /\ write[a] # None /\ Insert(i, r)
      /\ announced' \in {announced \cup {i}, announced}
      /\ write' = [write EXCEPT ![a] = None]
      /\ UNCHANGED <<venue, now, checkout, lock>>
  BY DEF AdminCreate
<1>2. i \in Ids /\ d \in Drafts /\ ValidDraft(d)
  BY <1>1, WriteCarries
<1>3. AdminScope(d.appliesTo) \in {"MARRIAGE_HALL", "HOTEL", "ALL"}
  BY <1>2, CouponsAssumption DEF DraftType, AdminScope
<1>4. r \in CouponType /\ Reachable(r)
  BY <1>2, <1>3, NewRowType DEF Optional
<1>5. r.type # None /\ r.facility = None /\ r.vendor = None /\ r.used = 0
  BY <1>3, CouponsAssumption DEF NewRow
<1> HIDE DEF r
<1>6. RowWritten(i, r)
  BY <1>1, <1>4, <1>5 DEF RowWritten, Insert, ScopeOK
<1>7. row' \in [Ids -> Optional(CouponType)] /\ Relations'
  BY <1>1, <1>2, <1>6, WrittenKeeps DEF Edited
<1>8. write' \in [Admins -> Optional(WriteType)] /\ DraftsChecked'
  BY <1>1, WriteDone
<1>9. announced' \subseteq Ids
  BY <1>1, <1>2 DEF CouponsInv, CouponsTypeOK
<1> QED
  BY <1>1, <1>7, <1>8, <1>9 DEF Kept, CouponsInv, CouponsTypeOK

\* The UPDATE of either save route.
LEMMA UpdateKeeps ==
  ASSUME CouponsInv, NEW caller, NEW i \in Ids, NEW d \in Drafts, ValidDraft(d), NEW platform,
         Update(caller, i, d, platform), UNCHANGED <<venue, checkout>>
  PROVE  row' \in [Ids -> Optional(CouponType)] /\ Relations'
<1> DEFINE n == NewRow(d, row[i].vendor, row[i].facility, row[i].type)
           r == [n EXCEPT !.used = row[i].used]
<1>1. row[i] # None /\ CodeFree(d.code, i)
  BY DEF Update, Exists
<1>2. row[i] \in CouponType /\ row \in [Ids -> Optional(CouponType)]
  BY <1>1 DEF CouponsInv, CouponsTypeOK, Optional
<1>3. row' = [row EXCEPT ![i] = r]
  BY <1>2 DEF Update, Rewrite
<1>4. n \in CouponType /\ Reachable(n)
  BY <1>2, NewRowType DEF CouponType
<1>5. /\ n.code = d.code /\ n.min = d.min /\ n.vendor = row[i].vendor
      /\ n.facility = row[i].facility /\ n.type = row[i].type
  BY DEF NewRow
<1> HIDE DEF n
<1>6. /\ r \in CouponType /\ r.used = row[i].used /\ r.code = n.code /\ r.min = n.min
      /\ r.vendor = n.vendor /\ r.facility = n.facility /\ r.type = n.type
  BY <1>2, <1>4 DEF CouponType
<1> HIDE DEF r
<1>7. ScopeOK(r) /\ Reachable(r)
  BY <1>1, <1>4, <1>5, <1>6 DEF CouponsInv, RowsOK, ScopeOK, Reachable
<1>8. RowWritten(i, r)
  BY <1>1, <1>3, <1>5, <1>6, <1>7 DEF RowWritten
<1> QED
  BY <1>8, WrittenKeeps DEF Edited

\* PUT /admin/coupons/{id}, its UPDATE.
LEMMA AdminSaveKeeps ==
  ASSUME CouponsInv, NEW a \in Admins, AdminSave(a)
  PROVE  Kept
<1>1. /\ write[a] # None /\ Update(a, write[a].id, write[a].draft, TRUE)
      /\ write' = [write EXCEPT ![a] = None]
      /\ UNCHANGED <<venue, now, checkout, lock, announced>>
  BY DEF AdminSave
<1>2. write[a].id \in Ids /\ write[a].draft \in Drafts /\ ValidDraft(write[a].draft)
  BY <1>1, WriteCarries
<1>3. row' \in [Ids -> Optional(CouponType)] /\ Relations'
  BY <1>1, <1>2, UpdateKeeps
<1>4. write' \in [Admins -> Optional(WriteType)] /\ DraftsChecked'
  BY <1>1, WriteDone
<1> QED
  BY <1>1, <1>3, <1>4 DEF Kept, CouponsInv, CouponsTypeOK

\* PUT /coupons/{id}.
LEMMA SaveKeeps ==
  ASSUME CouponsInv, NEW caller \in Callers, NEW i \in Ids, NEW d \in Drafts, Save(caller, i, d)
  PROVE  Kept
<1>1. /\ ValidDraft(d) /\ Update(caller, i, d, FALSE)
      /\ UNCHANGED <<venue, now, write, checkout, lock, announced>>
  BY DEF Save
<1>2. row' \in [Ids -> Optional(CouponType)] /\ Relations'
  BY <1>1, UpdateKeeps
<1> QED
  BY <1>1, <1>2 DEF Kept, CouponsInv, CouponsTypeOK, DraftsChecked, ValidDraft

\* DELETE on either route.
LEMMA RemoveKeeps ==
  ASSUME CouponsInv, NEW caller \in Callers, NEW i \in Ids, NEW platform \in BOOLEAN,
         RemoveCoupon(caller, i, platform)
  PROVE  Kept
<1> DEFINE r == [row[i] EXCEPT !.deleted = TRUE]
<1>1. /\ row[i] # None /\ row' = [row EXCEPT ![i].deleted = TRUE]
      /\ UNCHANGED <<venue, now, write, checkout, lock, announced>>
  BY DEF RemoveCoupon, Exists
<1>2. row[i] \in CouponType /\ row \in [Ids -> Optional(CouponType)]
  BY <1>1 DEF CouponsInv, CouponsTypeOK, Optional
<1>3. row' = [row EXCEPT ![i] = r]
  BY <1>1, <1>2
<1>4. /\ r \in CouponType /\ r.used = row[i].used /\ r.min = row[i].min /\ r.deleted
      /\ r.vendor = row[i].vendor /\ r.facility = row[i].facility /\ r.type = row[i].type
  BY <1>2 DEF CouponType
<1> HIDE DEF r
<1>5. ScopeOK(r) /\ Reachable(r)
  BY <1>1, <1>4 DEF CouponsInv, RowsOK, ScopeOK, Reachable
<1>6. RowWritten(i, r)
  BY <1>1, <1>3, <1>4, <1>5 DEF RowWritten
<1>7. row' \in [Ids -> Optional(CouponType)] /\ Relations'
  BY <1>1, <1>6, WrittenKeeps DEF Edited
<1> QED
  BY <1>1, <1>7 DEF Kept, CouponsInv, CouponsTypeOK, DraftsChecked, ValidDraft

\* The checks of the admin routes, and the write that fails after its check.
LEMMA ChecksKeep ==
  ASSUME CouponsInv, NEW a \in Admins,
         \/ \E i \in Ids, d \in Drafts : AdminCreateCheck(a, i, d) \/ AdminSaveCheck(a, i, d)
         \/ AdminRefused(a)
  PROVE  Kept
<1>1. CASE AdminRefused(a)
  <2>1. /\ write' = [write EXCEPT ![a] = None]
        /\ UNCHANGED <<row, venue, now, checkout, lock, announced>>
    BY <1>1 DEF AdminRefused
  <2>2. Relations'
    BY <2>1, OthersKeep DEF DeletedForGood
  <2>3. write' \in [Admins -> Optional(WriteType)] /\ DraftsChecked'
    BY <2>1, WriteDone
  <2> QED
    BY <2>1, <2>2, <2>3 DEF Kept, CouponsInv, CouponsTypeOK
<1>2. ASSUME NEW i \in Ids, NEW d \in Drafts, AdminCreateCheck(a, i, d) \/ AdminSaveCheck(a, i, d)
      PROVE  Kept
  <2>1. PICK op \in {"create", "save"} :
          write' = [write EXCEPT ![a] = [op |-> op, id |-> i, draft |-> d]]
    BY <1>2 DEF AdminCreateCheck, AdminSaveCheck
  <2> DEFINE w == [op |-> op, id |-> i, draft |-> d]
  <2>2. /\ ValidDraft(d) /\ d.facility = None
        /\ UNCHANGED <<row, venue, now, checkout, lock, announced>>
    BY <1>2 DEF AdminCreateCheck, AdminSaveCheck
  <2>3. w \in WriteType /\ w.draft = d
    BY DEF WriteType
  <2>4. write \in [Admins -> Optional(WriteType)]
    BY DEF CouponsInv, CouponsTypeOK
  <2>5. write' = [write EXCEPT ![a] = w]
    BY <2>1
  <2> HIDE DEF w
  <2>6. \A e \in Admins : write'[e] = IF e = a THEN w ELSE write[e]
    BY <2>4, <2>5
  <2>7. write' \in [Admins -> Optional(WriteType)]
    BY <2>3, <2>4, <2>5 DEF Optional
  <2>8. DraftsChecked'
    BY <2>2, <2>3, <2>6 DEF CouponsInv, DraftsChecked, ValidDraft
  <2>9. Relations'
    BY <2>2, OthersKeep DEF DeletedForGood
  <2> QED
    BY <2>2, <2>7, <2>8, <2>9 DEF Kept, CouponsInv, CouponsTypeOK
<1> QED
  BY <1>1, <1>2

\* The clock, a venue's status, the wait for a row's lock, and nothing at all.
LEMMA IdleKeeps ==
  ASSUME CouponsInv,
         \/ TimePasses
         \/ \E v \in Venues, s \in {"live", "hidden", "deleted"} : VenueChanges(v, s)
         \/ \E b \in Checkouts, i \in Ids : ReleaseLock(b, i)
         \/ UNCHANGED vars
  PROVE  Kept
<1>1. UNCHANGED <<row, write, checkout, announced>>
  BY DEF TimePasses, VenueChanges, ReleaseLock, vars
<1>2. venue' \in [Venues -> {"live", "hidden", "deleted"}] /\ DeletedForGood
  <2>1. venue \in [Venues -> {"live", "hidden", "deleted"}]
    BY DEF CouponsInv, CouponsTypeOK
  <2>2. ASSUME NEW v \in Venues, NEW s \in {"live", "hidden", "deleted"}, VenueChanges(v, s)
        PROVE  venue' \in [Venues -> {"live", "hidden", "deleted"}] /\ DeletedForGood
    <3>1. venue[v] # "deleted" /\ venue' = [venue EXCEPT ![v] = s]
      BY <2>2 DEF VenueChanges
    <3> QED
      BY <2>1, <3>1 DEF DeletedForGood
  <2>3. UNCHANGED venue => venue' \in [Venues -> {"live", "hidden", "deleted"}] /\ DeletedForGood
    BY <2>1 DEF DeletedForGood
  <2> QED
    BY <2>2, <2>3 DEF TimePasses, ReleaseLock, vars
<1>3. now' \in Int
  BY DEF CouponsInv, CouponsTypeOK, TimePasses, VenueChanges, ReleaseLock, vars
<1>4. lock' \in [Ids -> Optional(Checkouts)]
  BY DEF CouponsInv, CouponsTypeOK, Optional, TimePasses, VenueChanges, ReleaseLock, vars
<1>5. Relations'
  BY <1>1, <1>2, OthersKeep
<1>6. DraftsChecked'
  BY <1>1 DEF CouponsInv, DraftsChecked, ValidDraft
<1> QED
  BY <1>1, <1>2, <1>3, <1>4, <1>5, <1>6 DEF Kept, CouponsInv, CouponsTypeOK

--------------------------------------------------------------------------------
(* Checkouts *)

\* A transaction's locks are taken one by one and given up together.
LEMMA UnlockType ==
  ASSUME CouponsInv, NEW b \in Checkouts, Unlock(b)
  PROVE  lock' \in [Ids -> Optional(Checkouts)]
BY DEF CouponsInv, CouponsTypeOK, Unlock, Optional

\* One coupon redeemed, or the booking refused: nothing is held yet.
LEMMA RedeemKeeps ==
  ASSUME CouponsInv, NEW b \in Checkouts, Redeem(b)
  PROVE  Kept
<1>1. /\ checkout[b].at = "priced"
      /\ UNCHANGED <<row, venue, now, write, announced>>
      /\ \/ /\ lock' = [lock EXCEPT ![NextId(b)] = b]
            /\ checkout' = [checkout EXCEPT ![b].done = @ + 1]
         \/ Unlock(b) /\ checkout' = [checkout EXCEPT ![b].at = "refused"]
  BY DEF Redeem
<1>2. checkout[b] \in Underway /\ checkout \in [Checkouts -> {[at |-> "idle"]} \cup Underway]
  BY <1>1, UnderwayType DEF CouponsInv, CouponsTypeOK
<1>3. lock' \in [Ids -> Optional(Checkouts)]
  BY <1>1, UnlockType DEF CouponsInv, CouponsTypeOK, Optional
<1>4. PICK t : Moves(b, t) /\ t.at \in {"priced", "refused"}
  <2>1. CASE checkout' = [checkout EXCEPT ![b].done = @ + 1]
    <3> DEFINE t == [checkout[b] EXCEPT !.done = checkout[b].done + 1]
    <3>1. checkout' = [checkout EXCEPT ![b] = t]
      BY <1>2, <2>1
    <3>2. /\ t \in Underway /\ t.at = "priced"
          /\ t.venue = checkout[b].venue /\ t.applied = checkout[b].applied
      BY <1>1, <1>2, UnderwayCounts
    <3> HIDE DEF t
    <3> QED
      BY <1>1, <3>1, <3>2 DEF Moves, Holding
  <2>2. CASE checkout' = [checkout EXCEPT ![b].at = "refused"]
    <3> DEFINE t == [checkout[b] EXCEPT !.at = "refused"]
    <3>1. checkout' = [checkout EXCEPT ![b] = t]
      BY <1>2, <2>2
    <3>2. /\ t \in Underway /\ t.at = "refused"
          /\ t.venue = checkout[b].venue /\ t.applied = checkout[b].applied
      BY <1>2, UnderwayMoves
    <3> HIDE DEF t
    <3> QED
      BY <1>1, <3>1, <3>2 DEF Moves, Holding
  <2> QED
    BY <1>1, <2>1, <2>2
<1>5. /\ checkout' \in [Checkouts -> {[at |-> "idle"]} \cup Underway]
      /\ checkout'[b] = t /\ \A c \in Checkouts \ {b} : checkout'[c] = checkout[c]
  BY <1>4, MovesKeep
<1>6. UsesStay
  BY <1>1, <1>4, <1>5 DEF UsesStay
<1>7. Relations'
  BY <1>1, <1>4, <1>6, MovedKeeps
<1> QED
  BY <1>1, <1>3, <1>5, <1>7 DEF Kept, CouponsInv, CouponsTypeOK, DraftsChecked, ValidDraft

\* A checkout whose state alone moves on.
LEMMA StateMoves ==
  ASSUME CouponsInv, NEW b \in Checkouts, checkout[b].at # "idle",
         NEW s \in {"priced", "refused", "booked", "releasing", "ended"},
         s \in Holding => checkout[b].at \in Holding,
         checkout' = [checkout EXCEPT ![b].at = s]
  PROVE  \E t : Moves(b, t) /\ t.at = s
<1> DEFINE t == [checkout[b] EXCEPT !.at = s]
<1>1. checkout[b] \in Underway /\ checkout \in [Checkouts -> {[at |-> "idle"]} \cup Underway]
  BY UnderwayType DEF CouponsInv, CouponsTypeOK
<1>2. checkout' = [checkout EXCEPT ![b] = t]
  BY <1>1
<1>3. t \in Underway /\ t.at = s /\ t.venue = checkout[b].venue /\ t.applied = checkout[b].applied
  BY <1>1, UnderwayMoves
<1> HIDE DEF t
<1> QED
  BY <1>2, <1>3 DEF Moves

\* A release begins, or the detector undoes a transaction: what is held stays.
LEMMA ReleaseBegins ==
  ASSUME CouponsInv, NEW b \in Checkouts, StartRelease(b) \/ DetectDeadlock(b)
  PROVE  Kept
<1>1. PICK s \in {"refused", "booked", "releasing"} :
        /\ checkout' = [checkout EXCEPT ![b].at = s]
        /\ checkout[b].at \in Holding
        /\ s \in {"booked", "releasing"} <=> checkout[b].at \in {"booked", "releasing"}
  <2>1. CASE StartRelease(b)
    BY <2>1 DEF StartRelease, Holding
  <2>2. CASE DetectDeadlock(b)
    <3>1. checkout[b].at \in {"priced", "releasing"}
      BY <2>2 DEF DetectDeadlock, WaitsFor
    <3>2. checkout \in [Checkouts -> {[at |-> "idle"]} \cup Underway]
      BY DEF CouponsInv, CouponsTypeOK
    <3>3. checkout' =
            [checkout EXCEPT ![b].at = IF checkout[b].at = "priced" THEN "refused" ELSE "booked"]
      BY <2>2, <3>2 DEF DetectDeadlock
    <3> QED
      BY <3>1, <3>3 DEF Holding
  <2> QED
    BY <2>1, <2>2
<1>2. PICK t : Moves(b, t) /\ t.at = s
  <2>1. /\ checkout[b].at # "idle" /\ s \in {"priced", "refused", "booked", "releasing", "ended"}
        /\ s \in Holding => checkout[b].at \in Holding
    BY <1>1 DEF Holding
  <2> QED
    BY <1>1, <2>1, StateMoves
<1>3. UNCHANGED <<row, venue, now, write, announced>>
  BY DEF StartRelease, DetectDeadlock
<1>4. lock' \in [Ids -> Optional(Checkouts)]
  BY UnlockType DEF StartRelease, DetectDeadlock, CouponsInv, CouponsTypeOK
<1>5. /\ checkout' \in [Checkouts -> {[at |-> "idle"]} \cup Underway]
      /\ checkout'[b] = t /\ \A c \in Checkouts \ {b} : checkout'[c] = checkout[c]
  BY <1>2, MovesKeep
<1>6. UsesStay
  BY <1>1, <1>2, <1>5 DEF UsesStay
<1>7. Relations'
  BY <1>2, <1>3, <1>6, MovedKeeps
<1> QED
  BY <1>3, <1>4, <1>5, <1>7 DEF Kept, CouponsInv, CouponsTypeOK, DraftsChecked, ValidDraft

\* The bookings that hold a coupon are finitely many.
LEMMA HeldByFinite ==
  ASSUME CouponsInv
  PROVE  \A i \in Ids : /\ IsFiniteSet(HeldBy(i)) /\ Cardinality(HeldBy(i)) \in Nat
                        /\ row[i] # None => row[i].used = Cardinality(HeldBy(i))
<1>1. \A i : HeldBy(i) \subseteq Busy
  BY DEF HeldBy, Busy
<1>2. \A i : IsFiniteSet(HeldBy(i))
  BY <1>1, FS_Subset DEF CouponsInv, BusyFinite
<1> QED
  BY <1>2, UsesCounted, FS_CardinalityType DEF CouponsInv

\* The rows a checkout holds are there.
LEMMA HeldType ==
  ASSUME CouponsInv, NEW b \in Checkouts, checkout[b].at # "idle"
  PROVE  Held(b) \subseteq Ids /\ \A i \in Held(b) : row[i] # None
<1>1. Held(b) \subseteq Ids
  BY UnderwayType, UnderwayHolds DEF CouponsInv, Held
<1> QED
  BY <1>1 DEF CouponsInv, HeldExist

\* What a commit of either kind leaves: b has begun or ended to hold what it
\* holds, and the rows say so.
LEMMA RecountedMove ==
  ASSUME CouponsInv, NEW b \in Checkouts, NEW t, Moves(b, t), NEW n, Recounted(Held(b), n),
         UNCHANGED venue,
         \A i \in Ids : row[i] # None =>
           Cardinality(HeldBy(i)') = Cardinality(HeldBy(i)) + (IF i \in Held(b) THEN n ELSE 0)
  PROVE  row' \in [Ids -> Optional(CouponType)] /\ Relations'
<1>1. /\ row' \in [Ids -> Optional(CouponType)]
      /\ RowsOK' /\ CodesUnique' /\ ScopesStay
      /\ \A i \in Ids : row'[i] # None => row[i] # None
      /\ \A i \in Ids : i \notin Held(b) => row'[i] = row[i]
      /\ \A i \in Held(b) : row'[i].used = row[i].used + n
  BY RecountKeeps
<1>2. /\ \A c \in Checkouts : Held(c)' = Held(c)
      /\ PricesStay /\ BusyFinite'
      /\ \A c \in Checkouts : checkout'[c].at # "idle" => checkout[c].at # "idle"
  BY MovesKeep
<1>3. DeletedForGood
  BY DEF DeletedForGood
<1>4. HeldStillApply'
  BY <1>1, <1>2, <1>3, HeldKept DEF CouponsInv
<1>5. HeldExist'
  <2>1. ASSUME NEW c \in Checkouts, checkout'[c].at # "idle", NEW i \in Held(c) PROVE row'[i] # None
    <3>1. i \in Ids /\ row[i] # None
      BY <1>2, <2>1, HeldType
    <3> QED
      BY <1>1, <3>1 DEF ScopesStay
  <2> QED
    BY <1>2, <2>1 DEF HeldExist
<1>6. \A i \in Ids : row'[i] # None => row'[i].used = Cardinality(HeldBy(i)')
  <2>1. SUFFICES ASSUME NEW i \in Ids, row'[i] # None PROVE row'[i].used = Cardinality(HeldBy(i)')
    OBVIOUS
  <2>2. row[i] # None /\ row[i].used = Cardinality(HeldBy(i)) /\ Cardinality(HeldBy(i)) \in Nat
    BY <1>1, <2>1, HeldByFinite
  <2>3. CASE i \in Held(b)
    BY <1>1, <2>2, <2>3
  <2>4. CASE i \notin Held(b)
    BY <1>1, <2>2, <2>4
  <2> QED
    BY <2>3, <2>4
<1>7. UsesAreHeld'
  BY <1>6 DEF UsesAreHeld, Quantify, HeldBy
<1> QED
  BY <1>1, <1>2, <1>4, <1>5, <1>7 DEF Relations

\* A booking commits: it begins to hold each of its coupons.
LEMMA CommitKeeps ==
  ASSUME CouponsInv, NEW b \in Checkouts, Commit(b)
  PROVE  Kept
<1>1. /\ checkout[b].at = "priced" /\ row' = Counted(Held(b), 1) /\ Unlock(b)
      /\ checkout' = [checkout EXCEPT ![b].at = "booked"]
      /\ UNCHANGED <<venue, now, write, announced>>
  BY DEF Commit
<1>2. PICK t : Moves(b, t) /\ t.at = "booked"
  BY <1>1, StateMoves DEF Holding
<1>3. /\ checkout' \in [Checkouts -> {[at |-> "idle"]} \cup Underway]
      /\ checkout'[b] = t /\ \A c \in Checkouts \ {b} : checkout'[c] = checkout[c]
      /\ \A c \in Checkouts : Held(c)' = Held(c)
  BY <1>2, MovesKeep
<1>4. Held(b) \subseteq Ids /\ \A i \in Held(b) : row[i] # None
  BY <1>1, HeldType
<1>5. Recounted(Held(b), 1)
  <2>1. \A i \in Held(b) : row[i].used \in Nat
    BY <1>4, HeldByFinite
  <2> QED
    BY <1>1, <1>4, <2>1 DEF Recounted
<1>6. ASSUME NEW i \in Ids
      PROVE  Cardinality(HeldBy(i)') = Cardinality(HeldBy(i)) + (IF i \in Held(b) THEN 1 ELSE 0)
  <2>1. IsFiniteSet(HeldBy(i)) /\ Cardinality(HeldBy(i)) \in Nat /\ b \notin HeldBy(i)
    BY <1>1, HeldByFinite DEF HeldBy
  <2>2. CASE i \in Held(b)
    <3>1. HeldBy(i)' = HeldBy(i) \cup {b}
      BY <1>2, <1>3, <2>2 DEF HeldBy
    <3> QED
      BY <2>1, <2>2, <3>1, FS_AddElement
  <2>3. CASE i \notin Held(b)
    <3>1. HeldBy(i)' = HeldBy(i)
      BY <1>3, <2>3 DEF HeldBy
    <3> QED
      BY <2>1, <2>3, <3>1
  <2> QED
    BY <2>2, <2>3
<1>7. row' \in [Ids -> Optional(CouponType)] /\ Relations'
  BY <1>1, <1>2, <1>5, <1>6, RecountedMove
<1>8. lock' \in [Ids -> Optional(Checkouts)]
  BY <1>1, UnlockType
<1> QED
  BY <1>1, <1>3, <1>7, <1>8 DEF Kept, CouponsInv, CouponsTypeOK, DraftsChecked, ValidDraft

\* A booking ends: it gives back each of its coupons, all of which counted it.
LEMMA CommitReleaseKeeps ==
  ASSUME CouponsInv, NEW b \in Checkouts, CommitRelease(b)
  PROVE  Kept
<1>1. /\ checkout[b].at = "releasing" /\ Unlock(b)
      /\ row' = Counted({i \in Held(b) : row[i].used > 0}, -1)
      /\ checkout' = [checkout EXCEPT ![b].at = "ended"]
      /\ UNCHANGED <<venue, now, write, announced>>
  BY DEF CommitRelease, Released
<1>2. PICK t : Moves(b, t) /\ t.at = "ended"
  BY <1>1, StateMoves DEF Holding
<1>3. /\ checkout' \in [Checkouts -> {[at |-> "idle"]} \cup Underway]
      /\ checkout'[b] = t /\ \A c \in Checkouts \ {b} : checkout'[c] = checkout[c]
      /\ \A c \in Checkouts : Held(c)' = Held(c)
  BY <1>2, MovesKeep
<1>4. Held(b) \subseteq Ids /\ \A i \in Held(b) : row[i] # None
  BY <1>1, HeldType
<1>5. ASSUME NEW i \in Ids
      PROVE  /\ Cardinality(HeldBy(i)') = Cardinality(HeldBy(i)) + (IF i \in Held(b) THEN -1 ELSE 0)
             /\ i \in Held(b) => Cardinality(HeldBy(i)) > 0
  <2>1. IsFiniteSet(HeldBy(i)) /\ Cardinality(HeldBy(i)) \in Nat
    BY HeldByFinite
  <2>2. CASE i \in Held(b)
    <3>1. HeldBy(i)' = HeldBy(i) \ {b} /\ b \in HeldBy(i)
      BY <1>1, <1>2, <1>3, <2>2 DEF HeldBy
    <3>2. Cardinality(HeldBy(i) \ {b}) = Cardinality(HeldBy(i)) - 1 /\ IsFiniteSet(HeldBy(i) \ {b})
      BY <2>1, <3>1, FS_RemoveElement
    <3>3. Cardinality(HeldBy(i) \ {b}) \in Nat
      BY <3>2, FS_CardinalityType
    <3> QED
      BY <2>1, <2>2, <3>1, <3>2, <3>3
  <2>3. CASE i \notin Held(b)
    <3>1. HeldBy(i)' = HeldBy(i)
      BY <1>2, <1>3, <2>3 DEF HeldBy
    <3> QED
      BY <2>1, <2>3, <3>1
  <2> QED
    BY <2>2, <2>3
<1>6. ASSUME NEW i \in Held(b) PROVE row[i].used \in Nat /\ row[i].used > 0
  <2>1. i \in Ids /\ row[i] # None
    BY <1>4
  <2>2. row[i].used = Cardinality(HeldBy(i)) /\ Cardinality(HeldBy(i)) \in Nat
    BY <2>1, HeldByFinite
  <2> QED
    BY <1>5, <2>1, <2>2
<1>7. {i \in Held(b) : row[i].used > 0} = Held(b)
  BY <1>6
<1>8. Recounted(Held(b), -1)
  <2>1. \A i \in Held(b) : row[i] # None /\ row[i].used + (-1) \in Nat
    BY <1>4, <1>6
  <2>2. row' = Counted(Held(b), -1)
    BY <1>1, <1>7, Zenon
  <2>3. -1 \in Int
    OBVIOUS
  <2> QED
    BY <1>4, <2>1, <2>2, <2>3, Zenon DEF Recounted
<1>9. row' \in [Ids -> Optional(CouponType)] /\ Relations'
  BY <1>1, <1>2, <1>5, <1>8, RecountedMove
<1>10. lock' \in [Ids -> Optional(Checkouts)]
  BY <1>1, UnlockType
<1> QED
  BY <1>1, <1>3, <1>9, <1>10 DEF Kept, CouponsInv, CouponsTypeOK, DraftsChecked, ValidDraft

\* Coupons that apply at a venue, one of a scope.
Holdable(applied, v) ==
  /\ applied \in Seq([id : Ids, discount : Int])
  /\ \A k \in DOMAIN applied : /\ applied[k].id \in Ids /\ row[applied[k].id] # None
                               /\ Applies(applied[k].id, v)
  /\ \A k, l \in DOMAIN applied : Scope(applied[k].id) = Scope(applied[l].id) => k = l

\* What a checkout comes to hold when it is priced.
LEMMA PricedHolds ==
  ASSUME CouponsTypeOK, CodesUnique, NEW codes \in Seq(Codes), NEW v \in Venues,
         NEW amount \in Nat, Priceable(codes, v, amount)
  PROVE  Holdable(Priced(codes, v, amount), v)
<1> DEFINE applied == Priced(codes, v, amount)
           Good ==
      /\ applied \in Seq([id : Ids, discount : Int])
      /\ \A k \in DOMAIN applied : /\ applied[k].id \in Ids /\ row[applied[k].id] # None
                                   /\ Applies(applied[k].id, v)
      /\ \A k, l \in DOMAIN applied : Scope(applied[k].id) = Scope(applied[l].id) => k = l
<1>1. /\ \A i \in Named(codes) : i \in Ids /\ row[i] # None /\ Applies(i, v)
      /\ \/ Named(codes) = {} /\ applied = <<>>
         \/ \E i : Named(codes) = {i} /\ applied = Alone(i, amount)
         \/ \E i, j : /\ Named(codes) = {i, j} /\ Scope(i) # Scope(j)
                      /\ applied = Both(i, j, amount)
  BY PricedShape, Zenon
<1> HIDE DEF applied
<1>2. ASSUME applied = <<>> PROVE Good
  BY <1>2
<1>3. ASSUME NEW i, Named(codes) = {i}, applied = Alone(i, amount)
      PROVE  Good
  <2> DEFINE x == [id |-> i, discount |-> Discount(i, amount)]
  <2>1. i \in Ids /\ row[i] # None /\ Applies(i, v)
    BY <1>1, <1>3
  <2>2. x \in [id : Ids, discount : Int] /\ x.id = i
    BY <2>1, DiscountBounded
  <2>3. applied = <<x>>
    BY <1>3 DEF Alone
  <2> HIDE DEF x
  <2>4. applied \in Seq([id : Ids, discount : Int]) /\ DOMAIN applied = {1} /\ applied[1] = x
    BY <2>2, <2>3
  <2> QED
    BY <2>1, <2>2, <2>4
<1>4. ASSUME NEW i, NEW j, Named(codes) = {i, j}, Scope(i) # Scope(j),
             applied = Both(i, j, amount)
      PROVE  Good
  <2> DEFINE x == [id |-> i, discount |-> Discount(i, amount)]
             y == [id |-> j, discount |-> Discount(j, amount - Discount(i, amount))]
  <2>1. /\ i \in Ids /\ row[i] # None /\ Applies(i, v)
        /\ j \in Ids /\ row[j] # None /\ Applies(j, v)
    BY <1>1, <1>4
  <2>2. x \in [id : Ids, discount : Int] /\ x.id = i
    BY <2>1, DiscountBounded
  <2>3. y \in [id : Ids, discount : Int] /\ y.id = j
    <3>1. amount - Discount(i, amount) \in Nat
      <4>1. Discount(i, amount) \in 0 .. amount
        BY <2>1, DiscountBounded
      <4> QED
        BY <4>1
    <3> QED
      BY <2>1, <3>1, DiscountBounded
  <2>4. applied = <<x, y>>
    BY <1>4 DEF Both
  <2> HIDE DEF x, y
  <2>5. /\ applied \in Seq([id : Ids, discount : Int]) /\ DOMAIN applied = {1, 2}
        /\ applied[1] = x /\ applied[2] = y
    BY <2>2, <2>3, <2>4
  <2> QED
    BY <1>4, <2>1, <2>2, <2>3, <2>5
<1>5. Good
  <2> HIDE DEF Good
  <2> QED
    BY <1>1, <1>2, <1>3, <1>4
<1> QED
  BY <1>5 DEF Holdable, applied

\* A checkout is priced: what it comes to hold applies, one coupon of a scope.
LEMMA PriceKeeps ==
  ASSUME CouponsInv, NEW b \in Checkouts, NEW c \in Carts, Price(b, c)
  PROVE  Kept
<1> DEFINE applied == Priced(c.codes, c.venue, c.amount)
           t == [at |-> "priced", venue |-> c.venue, amount |-> c.amount,
                 applied |-> applied, done |-> 0]
<1>1. /\ checkout[b].at = "idle" /\ checkout' = [checkout EXCEPT ![b] = t]
      /\ Priceable(c.codes, c.venue, c.amount) /\ AcceptsCart(c)
      /\ UNCHANGED <<row, venue, now, write, lock, announced>>
  BY DEF Price
<1>2. c.codes \in Seq(Codes) /\ c.venue \in Venues /\ c.amount \in Nat
  BY <1>1, CouponsAssumption DEF CartType, AcceptsCart
<1>3. /\ applied \in Seq([id : Ids, discount : Int])
      /\ \A k \in DOMAIN applied : /\ applied[k].id \in Ids /\ row[applied[k].id] # None
                                   /\ Applies(applied[k].id, c.venue)
      /\ \A k, l \in DOMAIN applied : Scope(applied[k].id) = Scope(applied[l].id) => k = l
  <2>1. CouponsTypeOK /\ CodesUnique
    BY DEF CouponsInv
  <2>2. Holdable(applied, c.venue)
    BY <1>1, <1>2, <2>1, PricedHolds
  <2> HIDE DEF applied
  <2> QED
    BY <2>2 DEF Holdable
<1> HIDE DEF applied
<1>4. t \in Underway /\ t.at = "priced" /\ t.venue = c.venue /\ t.applied = applied
  BY <1>2, <1>3 DEF Underway
<1> HIDE DEF t
<1>5. checkout \in [Checkouts -> {[at |-> "idle"]} \cup Underway]
  BY DEF CouponsInv, CouponsTypeOK
<1>6. /\ checkout' \in [Checkouts -> {[at |-> "idle"]} \cup Underway]
      /\ checkout'[b] = t /\ \A e \in Checkouts \ {b} : checkout'[e] = checkout[e]
  BY <1>1, <1>4, <1>5
<1>7. \A e \in Checkouts \ {b} : Held(e)' = Held(e)
  BY <1>6 DEF Held
<1>8. Held(b)' = {applied[k].id : k \in DOMAIN applied}
  BY <1>4, <1>6 DEF Held
<1>9. HeldExist'
  <2>1. ASSUME NEW e \in Checkouts, checkout'[e].at # "idle", NEW i \in Held(e)'
        PROVE  row'[i] # None
    <3>1. CASE e = b
      BY <1>1, <1>3, <1>8, <2>1, <3>1
    <3>2. CASE e # b
      BY <1>1, <1>6, <1>7, <2>1, <3>2 DEF CouponsInv, HeldExist
    <3> QED
      BY <3>1, <3>2
  <2> QED
    BY <2>1 DEF HeldExist
<1>10. HeldStillApply'
  <2>1. \A i, v : Applies(i, v)' = Applies(i, v)
    BY <1>1, Zenon DEF Applies
  <2>2. \A i : Scope(i)' = Scope(i)
    BY <1>1, Zenon DEF Scope
  <2>3. ASSUME NEW e \in Checkouts, checkout'[e].at \in {"priced", "booked", "releasing"}
        PROVE  /\ \A i \in Held(e)' :
                    venue'[checkout'[e].venue] # "deleted" => Applies(i, checkout'[e].venue)
               /\ \A k, l \in DOMAIN checkout'[e].applied :
                    Scope(checkout'[e].applied[k].id) = Scope(checkout'[e].applied[l].id) => k = l
    <3>1. CASE e = b
      BY <1>3, <1>4, <1>6, <1>8, <3>1
    <3>2. CASE e # b
      BY <1>1, <1>6, <1>7, <2>3, <3>2 DEF CouponsInv, HeldStillApply
    <3> QED
      BY <3>1, <3>2
  <2> QED
    BY <2>1, <2>2, <2>3 DEF HeldStillApply
<1>11. BusyFinite'
  <2>1. Busy' \subseteq Busy \cup {b}
    BY <1>6 DEF Busy
  <2>2. IsFiniteSet(Busy \cup {b})
    BY FS_AddElement DEF CouponsInv, BusyFinite
  <2> QED
    BY <2>1, <2>2, FS_Subset DEF BusyFinite
<1>12. UsesAreHeld'
  <2>1. ASSUME NEW i PROVE HeldBy(i)' = HeldBy(i)
    <3>1. ASSUME NEW e \in Checkouts PROVE e \in HeldBy(i)' <=> e \in HeldBy(i)
      <4>1. CASE e = b
        BY <1>1, <1>4, <1>6, <4>1 DEF HeldBy
      <4>2. CASE e # b
        BY <1>6, <1>7, <4>2 DEF HeldBy
      <4> QED
        BY <4>1, <4>2
    <3>2. HeldBy(i) \subseteq Checkouts /\ HeldBy(i)' \subseteq Checkouts
      BY DEF HeldBy
    <3> QED
      BY <3>1, <3>2
  <2>2. \A i \in Ids : row[i] # None => row[i].used = Cardinality(HeldBy(i))
    BY UsesCounted DEF CouponsInv
  <2>3. \A i \in Ids : row'[i] # None => row'[i].used = Cardinality(HeldBy(i)')
    BY <1>1, <2>1, <2>2
  <2> QED
    BY <2>3 DEF UsesAreHeld, Quantify, HeldBy
<1>13. RowsOK' /\ CodesUnique'
  BY <1>1 DEF CouponsInv, RowsOK, ScopeOK, Reachable, CodesUnique, Exists
<1> QED
  BY <1>1, <1>6, <1>9, <1>10, <1>11, <1>12, <1>13
  DEF Kept, Relations, CouponsInv, CouponsTypeOK, DraftsChecked, ValidDraft

--------------------------------------------------------------------------------
(* Coupons: the theorems *)

\* Before the first request there is neither coupon nor checkout.
LEMMA InitCoupons == Init => CouponsInv
<1> SUFFICES ASSUME Init PROVE CouponsInv
  OBVIOUS
<1>1. CouponsTypeOK
  BY CouponsAssumption DEF Init, CouponsTypeOK, Optional
<1>2. RowsOK /\ CodesUnique /\ DraftsChecked /\ UsesAreHeld
  BY DEF Init, RowsOK, CodesUnique, Exists, DraftsChecked, UsesAreHeld
<1>3. HeldExist /\ HeldStillApply
  BY DEF Init, HeldExist, HeldStillApply
<1>4. BusyFinite
  <2>1. Busy = {}
    BY DEF Init, Busy
  <2> QED
    BY <2>1, FS_EmptySet DEF BusyFinite
<1> QED
  BY <1>1, <1>2, <1>3, <1>4 DEF CouponsInv

\* Every step keeps the invariant.
LEMMA NextCoupons == CouponsInv /\ [Next]_vars => CouponsInv'
<1> SUFFICES ASSUME CouponsInv, [Next]_vars PROVE Kept
  BY DEF Kept, Relations, CouponsInv
<1>1. ASSUME NEW caller \in Callers, NEW i \in Ids, NEW d \in Drafts,
             Create(caller, i, d) \/ Save(caller, i, d)
      PROVE  Kept
  BY <1>1, CreateKeeps, SaveKeeps
<1>2. ASSUME NEW a \in Admins, NEW i \in Ids, NEW d \in Drafts,
             AdminCreateCheck(a, i, d) \/ AdminSaveCheck(a, i, d)
      PROVE  Kept
  BY <1>2, ChecksKeep
<1>3. ASSUME NEW a \in Admins, AdminCreate(a) \/ AdminSave(a) \/ AdminRefused(a)
      PROVE  Kept
  BY <1>3, AdminCreateKeeps, AdminSaveKeeps, ChecksKeep
<1>4. ASSUME NEW caller \in Callers, NEW i \in Ids, NEW platform \in BOOLEAN,
             RemoveCoupon(caller, i, platform)
      PROVE  Kept
  BY <1>4, RemoveKeeps
<1>5. ASSUME NEW v \in Venues, NEW s \in {"live", "hidden", "deleted"}, VenueChanges(v, s)
      PROVE  Kept
  BY <1>5, IdleKeeps
<1>6. ASSUME NEW b \in Checkouts, NEW c \in Carts, Price(b, c) PROVE Kept
  BY <1>6, PriceKeeps
<1>7. ASSUME NEW b \in Checkouts,
             Redeem(b) \/ Commit(b) \/ StartRelease(b) \/ CommitRelease(b) \/ DetectDeadlock(b)
      PROVE  Kept
  BY <1>7, RedeemKeeps, CommitKeeps, ReleaseBegins, CommitReleaseKeeps
<1>8. ASSUME NEW b \in Checkouts, NEW i \in Ids, ReleaseLock(b, i) PROVE Kept
  BY <1>8, IdleKeeps
<1>9. CASE TimePasses \/ UNCHANGED vars
  BY <1>9, IdleKeeps
<1> QED
  BY <1>1, <1>2, <1>3, <1>4, <1>5, <1>6, <1>7, <1>8, <1>9 DEF Next

\* What the administration of coupons and the checkouts keep between them.
THEOREM CouponsInvariance == Spec => []CouponsInv
<1> QED
  BY InitCoupons, NextCoupons, PTL DEF Spec

\* Every row, write and checkout has the shape its table or request gives it.
THEOREM CouponsTyped == Spec => []CouponsTypeOK
<1>1. CouponsInv => CouponsTypeOK
  BY DEF CouponsInv
<1> QED
  BY <1>1, CouponsInvariance, PTL

\* PriceCoupons is right for any cart at any moment: as many coupons as codes,
\* never more off than the amount, whatever the order the codes are sent in.
THEOREM PricesAreSound == Spec => []PricingSound
<1>1. CouponsInv => PricingSound
  BY PricingIsSound DEF CouponsInv
<1> QED
  BY <1>1, CouponsInvariance, PTL

\* The offers, the cards and the owners' and admins' lists tell one story, and
\* it is the one checkout goes by.
THEOREM ScreensTellTheSame == Spec => []ScreensAgree
<1>1. CouponsInv => ScreensAgree
  BY ScreensDoAgree DEF CouponsInv
<1> QED
  BY <1>1, CouponsInvariance, PTL

\* Edits, deletions, deadlocks, refusals and releases leave each coupon counting
\* the bookings that hold it, and each booking holding coupons of its venue.
THEOREM HoldsDoMatch == Spec => []HoldsMatch
<1>1. CouponsInv => HoldsMatch
  BY DEF CouponsInv, HoldsMatch
<1> QED
  BY <1>1, CouponsInvariance, PTL

--------------------------------------------------------------------------------
(* Quote: the invariant *)

\* The price on the table is the last version's, and the status says whose.
OfferOnTable ==
  status \in {"REPLIED", "COUNTERED", "ACCEPTED", "CONVERTED"} =>
    /\ versions # <<>> /\ quoted = versions[Len(versions)].total
    /\ status = "REPLIED" => versions[Len(versions)].role = "OWNER"
    /\ status = "COUNTERED" => versions[Len(versions)].role = "CUSTOMER"

\* What a request loaded allowed what it asks for, and for a conversion still
\* holds: an accepted quote does not move.
CallAllowed(c) ==
  pc[c] = "loaded" =>
    /\ call[c].op = "accept" =>
         \/ call[c].status = "REPLIED" /\ call[c].by \in {customer} \cup admins
         \/ call[c].status = "COUNTERED" /\ call[c].by \in {owner} \cup admins
    /\ call[c].op \in {"reject", "cancel"} => call[c].status \in Negotiable
    /\ call[c].op = "convert" =>
         /\ status \in {"ACCEPTED", "CONVERTED"}
         /\ quoted # NoAmount /\ call[c].quoted = quoted
         /\ validUntil = NoDate \/ validUntil >= call[c].day

LoadedAllowed == \A c \in Calls : CallAllowed(c)

\* A booking belongs to an agreed quote and has its price; a conversion about
\* to be recorded, or recorded, has its booking; nothing uses another key.
BookingAgrees ==
  /\ booked[QuoteKey] # NoAmount =>
       status \in {"ACCEPTED", "CONVERTED"} /\ booked[QuoteKey] = quoted
  /\ status = "CONVERTED" => booked[QuoteKey] # NoAmount
  /\ \A c \in Calls : pc[c] = "booked" => booked[QuoteKey] # NoAmount
  /\ \A k \in Keys \ {QuoteKey} : booked[k] = NoAmount

QuoteInv == TypeOK /\ OfferOnTable /\ LoadedAllowed /\ BookingAgrees

USE ConstantsAssumption

\* A quote just asked for.
LEMMA InitQuote == QuoteInit => QuoteInv
BY DEF QuoteInit, QuoteInv, TypeOK, OfferOnTable, LoadedAllowed, CallAllowed, BookingAgrees,
       Negotiable

--------------------------------------------------------------------------------
(* Quote: the requests *)

\* A request loads the quote and checks what it may do.
LEMMA LoadStep ==
  ASSUME QuoteInv, NEW c \in Calls, NEW p \in People, NEW op \in Ops, NEW key \in Keys,
         LoadQuote(c, p, op, key)
  PROVE  QuoteInv'
<1> USE DEF QuoteInv, LoadQuote
<1> DEFINE new == [op |-> op, by |-> p, status |-> status,
                   quoted |-> quoted, day |-> today, key |-> key]
<1>0. /\ new \in Loaded /\ call' = [call EXCEPT ![c] = new]
      /\ UNCHANGED <<status, quoted, validUntil, versions, booked, today>>
  BY DEF TypeOK, Loaded, quote
<1>1. TypeOK'
  <2> HIDE DEF new
  <2> QED  BY <1>0 DEF TypeOK
<1>2. OfferOnTable'
  BY DEF OfferOnTable, quote
<1>3. LoadedAllowed'
  <2> SUFFICES ASSUME NEW d \in Calls PROVE CallAllowed(d)'
    BY DEF LoadedAllowed
  <2>1. CASE d = c
    <3>1. call'[d] = new
      BY <1>0, <2>1 DEF TypeOK
    <3>2. /\ op = "accept" => CanAccept(p)
          /\ op \in {"reject", "cancel"} => status \in Negotiable
          /\ op = "convert" => status = "ACCEPTED" /\ ~Expired /\ quoted # NoAmount
      BY DEF Allowed, Ops
    <3> QED  BY <1>0, <3>1, <3>2 DEF TypeOK, CallAllowed, CanAccept, Expired
  <2>2. CASE d # c
    BY <2>2 DEF TypeOK, LoadedAllowed, CallAllowed, quote
  <2> QED  BY <2>1, <2>2
<1>4. BookingAgrees'
  BY DEF TypeOK, BookingAgrees, quote
<1> QED  BY <1>1, <1>2, <1>3, <1>4

\* A new version comes only while the quote is negotiable, when nothing has
\* been agreed, converted or booked.
LEMMA AddVersionStep ==
  ASSUME QuoteInv, NEW c \in Calls, NEW total \in Totals, NEW until \in Days \cup {NoDate},
         AddVersion(c, total, until)
  PROVE  QuoteInv'
<1> USE DEF QuoteInv, AddVersion, Reaches, Finish, StillNegotiable
<1> DEFINE version == [role |-> IF call[c].op = "reply" THEN "OWNER" ELSE "CUSTOMER",
                       total |-> total]
<1>1. version \in Offers /\ versions' = Append(versions, version)
  BY DEF Offers
<1>2. /\ versions' \in Seq(Offers) /\ Len(versions') = Len(versions) + 1
      /\ versions'[Len(versions')] = version
  BY <1>1 DEF TypeOK
<1>3. status' \in {"REPLIED", "COUNTERED"} /\ status \notin {"ACCEPTED", "CONVERTED"}
  BY DEF Negotiable
<1>4. TypeOK'
  BY <1>2 DEF TypeOK, Negotiable
<1>5. OfferOnTable'
  BY <1>2, <1>3 DEF OfferOnTable, TypeOK
<1>6. LoadedAllowed'
  BY <1>3 DEF TypeOK, LoadedAllowed, CallAllowed
<1>7. BookingAgrees'
  BY <1>3 DEF TypeOK, BookingAgrees
<1> QED  BY <1>4, <1>5, <1>6, <1>7

\* The offer loaded is accepted if it has not moved.
LEMMA AcceptStep ==
  ASSUME QuoteInv, NEW c \in Calls, Accept(c)
  PROVE  QuoteInv'
<1> USE DEF QuoteInv, Accept, Reaches, Finish, Unchanged
<1>1. status \in {"REPLIED", "COUNTERED"}
  BY DEF LoadedAllowed, CallAllowed
<1>2. TypeOK'
  BY DEF TypeOK, Settled
<1>3. OfferOnTable'
  BY <1>1 DEF OfferOnTable
<1>4. LoadedAllowed'
  BY <1>1 DEF TypeOK, LoadedAllowed, CallAllowed
<1>5. BookingAgrees'
  BY <1>1 DEF TypeOK, BookingAgrees
<1> QED  BY <1>2, <1>3, <1>4, <1>5

\* A rejection or a cancellation.
LEMMA SettleStep ==
  ASSUME QuoteInv, NEW c \in Calls, Settle(c)
  PROVE  QuoteInv'
<1> USE DEF QuoteInv, Settle, SettledAs, Reaches, Finish, SameStatus
<1>1. status \in Negotiable /\ status' \in {"REJECTED", "CANCELLED"}
  BY DEF LoadedAllowed, CallAllowed
<1>2. TypeOK'
  BY <1>1 DEF TypeOK, Settled
<1>3. OfferOnTable'
  BY <1>1 DEF OfferOnTable
<1>4. LoadedAllowed'
  BY <1>1 DEF TypeOK, LoadedAllowed, CallAllowed, Negotiable
<1>5. BookingAgrees'
  BY <1>1 DEF TypeOK, BookingAgrees, Negotiable
<1> QED  BY <1>2, <1>3, <1>4, <1>5

\* A conversion books, or finds the booking of the key.
LEMMA BookStep ==
  ASSUME QuoteInv, NEW c \in Calls, Book(c)
  PROVE  QuoteInv'
<1> USE DEF QuoteInv, Book, Reaches, Key
<1>1. /\ status \in {"ACCEPTED", "CONVERTED"}
      /\ quoted # NoAmount /\ call[c].quoted = quoted
  BY DEF LoadedAllowed, CallAllowed
<1>2. TypeOK'
  BY <1>1 DEF TypeOK, quote
<1>3. OfferOnTable'
  BY DEF OfferOnTable, quote
<1>4. LoadedAllowed'
  BY DEF TypeOK, LoadedAllowed, CallAllowed, quote
<1>5. BookingAgrees'
  BY <1>1 DEF TypeOK, BookingAgrees, quote
<1> QED  BY <1>2, <1>3, <1>4, <1>5

\* The quote is marked after the booking.
LEMMA MarkConvertedStep ==
  ASSUME QuoteInv, NEW c \in Calls, MarkConverted(c)
  PROVE  QuoteInv'
<1> USE DEF QuoteInv, MarkConverted, Finish
<1>1. booked[QuoteKey] # NoAmount /\ status \in {"ACCEPTED", "CONVERTED"}
  BY DEF BookingAgrees
<1>2. TypeOK'
  BY <1>1 DEF TypeOK, Settled
<1>3. OfferOnTable'
  BY <1>1 DEF OfferOnTable
<1>4. LoadedAllowed'
  BY <1>1 DEF TypeOK, LoadedAllowed, CallAllowed
<1>5. BookingAgrees'
  BY <1>1 DEF TypeOK, BookingAgrees
<1> QED  BY <1>2, <1>3, <1>4, <1>5

\* A request gives up, a day passes, or nothing happens.
LEMMA OtherSteps ==
  ASSUME QuoteInv, UNCHANGED quoteVars \/ NextDay \/ \E c \in Calls : Abandon(c)
  PROVE  QuoteInv'
<1> USE DEF QuoteInv, TypeOK, OfferOnTable, LoadedAllowed, CallAllowed, BookingAgrees, quote
<1>1. CASE UNCHANGED quoteVars
  BY <1>1 DEF quoteVars
<1>2. CASE NextDay
  BY <1>2 DEF NextDay
<1>3. CASE \E c \in Calls : Abandon(c)
  BY <1>3 DEF Abandon, Finish
<1> QED  BY <1>1, <1>2, <1>3

\* Every step keeps the invariant.
LEMMA NextQuote == QuoteInv /\ [QuoteNext]_quoteVars => QuoteInv'
<1> SUFFICES ASSUME QuoteInv, [QuoteNext]_quoteVars PROVE QuoteInv'
  OBVIOUS
<1> QED
  BY LoadStep, AddVersionStep, AcceptStep, SettleStep, BookStep, MarkConvertedStep,
     OtherSteps DEF QuoteNext, Ops

\* ... so it holds throughout.
LEMMA QuoteInvariance == QuoteSpec => []QuoteInv
BY InitQuote, NextQuote, PTL DEF QuoteSpec

--------------------------------------------------------------------------------
(* Quote: the theorems *)

\* Every variable of the quote, its bookings and its requests keeps its type.
THEOREM QuoteTyped == QuoteSpec => []TypeOK
BY QuoteInvariance, PTL DEF QuoteInv

\* One quote never becomes two bookings, however conversions race, are retried
\* or are cut off half-way (convert() and its key "quote-<id>").
THEOREM BookedOnce == QuoteSpec => []OneBooking
<1>1. ASSUME QuoteInv PROVE OneBooking
  <2> DEFINE used == {k \in Keys : booked[k] # NoAmount}
  <2>1. used \in SUBSET {QuoteKey}
    BY <1>1 DEF QuoteInv, BookingAgrees
  <2>2. IsFiniteSet({QuoteKey}) /\ Cardinality({QuoteKey}) = 1
    BY FS_Singleton
  <2>3. IsFiniteSet(used) /\ Cardinality(used) <= 1
    <3> HIDE DEF used
    <3> QED  BY <2>1, <2>2, FS_Subset
  <2> QED  BY <2>3 DEF OneBooking
<1> QED  BY <1>1, QuoteInvariance, PTL

\* Whoever accepts takes the other side's offer at the amount they were shown,
\* for any interleaving of replies, counters and acceptances (accept()).
THEOREM AcceptanceFair == QuoteSpec => [][AcceptedAsSeen]_quoteVars
<1>1. ASSUME QuoteInv, [QuoteNext]_quoteVars PROVE AcceptedAsSeen
  <2> SUFFICES ASSUME status # "ACCEPTED", status' = "ACCEPTED"
               PROVE  \E c \in Calls : /\ Answered(c)
                                       /\ call[c].quoted = Last(versions).total
                                       /\ call[c].by \in Takers
    BY DEF AcceptedAsSeen
  <2>1. PICK c \in Calls : Accept(c)
    BY <1>1 DEF QuoteNext, quoteVars, quote, LoadQuote, AddVersion, Settle, SettledAs, Book,
                MarkConverted, Abandon, NextDay
  <2>2. Answered(c)
    BY <1>1, <2>1 DEF QuoteInv, TypeOK, Answered, Accept, Reaches, Finish
  <2>3. /\ \/ status = "REPLIED" /\ call[c].by \in {customer} \cup admins
           \/ status = "COUNTERED" /\ call[c].by \in {owner} \cup admins
        /\ call[c].quoted = quoted
    BY <1>1, <2>1 DEF QuoteInv, LoadedAllowed, CallAllowed, Accept, Reaches, Unchanged
  <2>4. call[c].quoted = Last(versions).total /\ call[c].by \in Takers
    BY <1>1, <2>3 DEF QuoteInv, OfferOnTable, Last, Takers
  <2> QED  BY <2>2, <2>4
<1> QED  BY <1>1, QuoteInvariance, PTL DEF QuoteSpec

\* A booking is made only of an offer that had not expired when its conversion
\* was asked for (convert(), expired()).
THEOREM BookingInTime == QuoteSpec => [][BookedInTime]_quoteVars
<1>1. ASSUME QuoteInv, [QuoteNext]_quoteVars PROVE BookedInTime
  <2> SUFFICES ASSUME booked' # booked
               PROVE  \E c \in Calls : /\ pc'[c] = "booked" /\ pc[c] # "booked"
                                       /\ validUntil = NoDate \/ validUntil >= call[c].day
    BY DEF BookedInTime
  <2>1. PICK c \in Calls : Book(c)
    BY <1>1 DEF QuoteNext, quoteVars, quote, LoadQuote, AddVersion, Accept, Settle, MarkConverted,
                Abandon, NextDay
  <2>2. pc'[c] = "booked" /\ pc[c] # "booked"
    BY <1>1, <2>1 DEF QuoteInv, TypeOK, Book, Reaches
  <2>3. validUntil = NoDate \/ validUntil >= call[c].day
    BY <1>1, <2>1 DEF QuoteInv, LoadedAllowed, CallAllowed, Book, Reaches
  <2> QED  BY <2>2, <2>3
<1> QED  BY <1>1, QuoteInvariance, PTL DEF QuoteSpec

\* A rejected, cancelled or converted quote is never settled again (settle(),
\* whose UPDATE asks for the status it loaded).
THEOREM SettlementFinal == QuoteSpec => [][SettledIsFinal]_quoteVars
<1>1. ASSUME QuoteInv, [QuoteNext]_quoteVars
      PROVE  SettledIsFinal
  <2>1. ASSUME NEW c \in Calls, Accept(c) \/ Settle(c)
        PROVE  status \notin Settled \ {"ACCEPTED"}
    BY <1>1, <2>1 DEF QuoteInv, LoadedAllowed, CallAllowed, Accept, Settle, Reaches,
                      Unchanged, SameStatus, Negotiable, Settled
  <2>2. ASSUME NEW c \in Calls, NEW t \in Totals, NEW u \in Days \cup {NoDate},
               AddVersion(c, t, u)
        PROVE  status \notin Settled \ {"ACCEPTED"}
    BY <2>2 DEF AddVersion, StillNegotiable, Negotiable, Settled
  <2> QED
    BY <1>1, <2>1, <2>2 DEF QuoteNext, quoteVars, quote, LoadQuote, Book, MarkConverted, Abandon,
                            NextDay, Settled, SettledIsFinal
<1> QED  BY <1>1, QuoteInvariance, PTL DEF QuoteSpec

\* Agreed as shown, booked in time, settled once, for any number of racing
\* requests.
THEOREM SettlementsFair == QuoteSpec => SettledFairly
BY AcceptanceFair, BookingInTime, SettlementFinal, PTL DEF SettledFairly

\* The quote implements QuotePromise: the price stays once agreed and the one
\* booking has it, though agreement, booking and mark are three transactions.
THEOREM ImplementsPromise == QuoteSpec => PromiseHolds
<1> USE DEF QP!Init, QP!Next, QP!vars, Phase
<1>1. QuoteInit => QP!Init
  BY DEF QuoteInit, Negotiable
<1>2. ASSUME QuoteInv, [QuoteNext]_quoteVars PROVE [QP!Next]_(QP!vars)
  <2> USE <1>2 DEF QuoteInv, TypeOK
  <2>1. ASSUME NEW c \in Calls, NEW t \in Totals, NEW u \in Days \cup {NoDate},
               AddVersion(c, t, u)
        PROVE  QP!Offer
    BY <2>1 DEF AddVersion, StillNegotiable, Negotiable, BookingAgrees, QP!Offer
  <2>2. ASSUME NEW c \in Calls, Accept(c) PROVE QP!Agree
    <3>1. status \in {"REPLIED", "COUNTERED"}
      BY <2>2 DEF Accept, Reaches, Unchanged, LoadedAllowed, CallAllowed
    <3>2. Len(versions) \in 1..Len(versions) /\ quoted = versions[Len(versions)].total
      BY <3>1 DEF OfferOnTable
    <3>3. versions[Len(versions)] \in Offers
      BY <3>2
    <3>4. quoted # NoAmount /\ booked[QuoteKey] = NoAmount
      BY <3>1, <3>2, <3>3 DEF BookingAgrees, Offers
    <3> QED  BY <2>2, <3>1, <3>4 DEF Accept, QP!Agree, Negotiable
  <2>3. ASSUME NEW c \in Calls, Settle(c) PROVE QP!Close
    <3>1. status \in Negotiable /\ booked[QuoteKey] = NoAmount
      BY <2>3 DEF Settle, Reaches, SameStatus, LoadedAllowed, CallAllowed,
                  BookingAgrees, Negotiable
    <3> QED  BY <2>3, <3>1 DEF Settle, SettledAs, QP!Close, Negotiable
  <2>4. ASSUME NEW c \in Calls, Book(c) PROVE QP!Book \/ UNCHANGED QP!vars
    <3>1. /\ status \in {"ACCEPTED", "CONVERTED"} /\ quoted # NoAmount
          /\ call[c].quoted = quoted /\ UNCHANGED <<status, quoted>>
      BY <2>4 DEF Book, Reaches, quote, LoadedAllowed, CallAllowed
    <3>2. CASE booked[QuoteKey] = NoAmount
      <4>1. status = "ACCEPTED" /\ booked'[QuoteKey] = quoted
        BY <2>4, <3>1, <3>2 DEF Book, Key, BookingAgrees
      <4>2. Phase = "agreed" /\ Phase' = "booked"
        BY <3>1, <3>2, <4>1
      <4> QED  BY <3>1, <4>1, <4>2 DEF QP!Book
    <3>3. CASE booked[QuoteKey] # NoAmount
      <4>1. booked'[QuoteKey] = booked[QuoteKey]
        BY <2>4, <3>3 DEF Book, Key
      <4>2. Phase = "booked" /\ Phase' = "booked"
        BY <3>3, <4>1
      <4> QED  BY <3>1, <4>1, <4>2
    <3> QED  BY <3>2, <3>3
  <2>5. ASSUME NEW c \in Calls, MarkConverted(c) PROVE UNCHANGED QP!vars
    <3>1. booked[QuoteKey] # NoAmount /\ UNCHANGED <<quoted, booked>>
      BY <2>5 DEF MarkConverted, BookingAgrees
    <3>2. Phase = "booked" /\ Phase' = "booked"
      BY <3>1
    <3> QED  BY <3>1, <3>2
  <2> QED
    BY <2>1, <2>2, <2>3, <2>4, <2>5
    DEF QuoteNext, quoteVars, quote, LoadQuote, Abandon, NextDay
<1> QED  BY <1>1, <1>2, QuoteInvariance, PTL DEF QuoteSpec, PromiseHolds, QP!Spec
================================================================================
