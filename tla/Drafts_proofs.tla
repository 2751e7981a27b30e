---------------------------- MODULE Drafts_proofs ----------------------------
(* Proofs about Drafts, for any set of versions and any number of requests *)
(* under way.                                                              *)
EXTENDS Drafts, FiniteSetTheorems, SequenceTheorems, WellFoundedInduction, TLAPS

Request == [v : OrNone(Version), at : {"sent", "applied", "lost"}]

-----------------------------------------------------------------------------
(* What the operators on the requests under way do to them.                *)

(* RemoveAt(s, i) is s without its i-th element.                           *)
Before(i, j) == IF j < i THEN j ELSE j + 1

LEMMA Removal ==
  ASSUME NEW S, NEW s \in Seq(S), NEW i \in DOMAIN s
  PROVE  /\ Sq!RemoveAt(s, i) \in Seq(S)
         /\ Len(Sq!RemoveAt(s, i)) = Len(s) - 1
         /\ DOMAIN Sq!RemoveAt(s, i) = 1..Len(s) - 1
         /\ \A j \in 1..Len(s) - 1 : Sq!RemoveAt(s, i)[j] = s[Before(i, j)]
  <1>1. /\ Len(s) \in Nat /\ i \in 1..Len(s)
        /\ \A j \in 1..Len(s) : s[j] \in S
    OBVIOUS
  <1> DEFINE a == SubSeq(s, 1, i - 1)
             b == SubSeq(s, i + 1, Len(s))
  <1>2. /\ a \in Seq(S) /\ Len(a) = i - 1
        /\ \A j \in 1..i - 1 : a[j] = s[j]
    <2>1. \A j \in 1..i - 1 : s[j] \in S
      BY <1>1
    <2>2. 1 \in Int /\ i - 1 \in Int
      BY <1>1
    <2>3. /\ a \in Seq(S) /\ Len(a) = IF 1 <= i - 1 THEN i - 1 - 1 + 1 ELSE 0
          /\ \A j \in 1..(i - 1) - 1 + 1 : a[j] = s[1 + j - 1]
      BY <2>1, <2>2, SubSeqProperties
    <2> QED BY <1>1, <2>3
  <1>3. /\ b \in Seq(S) /\ Len(b) = Len(s) - i
        /\ \A j \in 1..Len(s) - i : b[j] = s[i + j]
    <2>1. \A j \in i + 1..Len(s) : s[j] \in S
      BY <1>1
    <2>2. i + 1 \in Int /\ Len(s) \in Int
      BY <1>1
    <2>3. /\ b \in Seq(S) /\ Len(b) = IF i + 1 <= Len(s) THEN Len(s) - (i + 1) + 1 ELSE 0
          /\ \A j \in 1..Len(s) - (i + 1) + 1 : b[j] = s[(i + 1) + j - 1]
      BY <2>1, <2>2, SubSeqProperties
    <2> QED BY <1>1, <2>3
  <1>4. Sq!RemoveAt(s, i) = a \o b
    BY DEF Sq!RemoveAt
  <1> HIDE DEF a, b
  <1>5. /\ a \o b \in Seq(S) /\ Len(a \o b) = Len(a) + Len(b)
        /\ \A j \in 1..Len(a) + Len(b) : (a \o b)[j] = IF j <= Len(a) THEN a[j] ELSE b[j - Len(a)]
    BY <1>2, <1>3, ConcatProperties
  <1>6. DOMAIN (a \o b) = 1..Len(s) - 1
    BY <1>1, <1>2, <1>3, <1>5
  <1>7. ASSUME NEW j \in 1..Len(s) - 1
        PROVE  (a \o b)[j] = s[Before(i, j)]
    <2>1. CASE j < i
      BY <2>1, <1>1, <1>2, <1>3, <1>5 DEF Before
    <2>2. CASE ~(j < i)
      <3>1. b[j - Len(a)] = s[j + 1]
        BY <2>2, <1>1, <1>2, <1>3
      <3>2. j \in 1..Len(a) + Len(b) /\ ~(j <= Len(a))
        BY <2>2, <1>1, <1>2, <1>3
      <3>3. (a \o b)[j] = b[j - Len(a)]
        BY <3>2, <1>5
      <3> QED BY <2>2, <3>1, <3>3 DEF Before
    <2> QED BY <2>1, <2>2
  <1>8. a \o b \in Seq(S) /\ Len(a \o b) = Len(s) - 1
    BY <1>1, <1>2, <1>3, <1>5
  <1> QED BY <1>4, <1>6, <1>7, <1>8, Zenon

(* A finite set of numbers has an n-th one for each n up to its size: the  *)
(* rank of its elements maps it one to one into 1..size.                   *)
LEMMA NthExists ==
  ASSUME NEW S, S \subseteq Nat, IsFiniteSet(S), NEW n \in 1..Cardinality(S)
  PROVE  Nth(S, n) \in S
  <1> DEFINE upTo(i) == {j \in S : j <= i}
             rank    == [i \in S |-> Cardinality(upTo(i))]
  <1>1. Cardinality(S) \in Nat
    BY FS_CardinalityType
  <1>2. \A i \in S : upTo(i) \in SUBSET S /\ IsFiniteSet(upTo(i))
    BY FS_Subset
  <1>3. \A i \in S : Cardinality(upTo(i)) \in Nat /\ Cardinality(upTo(i)) <= Cardinality(S)
    BY <1>2, FS_Subset, FS_CardinalityType
  <1>4. \A i \in S : Cardinality(upTo(i)) # 0
    <2>1. \A i \in S : i \in upTo(i)
      OBVIOUS
    <2> QED BY <1>2, <2>1, FS_EmptySet
  <1>5. rank \in [S -> 1..Cardinality(S)]
    BY <1>1, <1>3, <1>4
  <1>6. ASSUME NEW i \in S, NEW k \in S, i < k
        PROVE  rank[i] # rank[k]
    <2> i \in Nat /\ k \in Nat
      OBVIOUS
    <2>1. \A j \in upTo(i) : j \in S /\ j \in Nat /\ j <= i
      OBVIOUS
    <2>2. \A j \in upTo(i) : j <= k
      BY <1>6, <2>1
    <2>3. upTo(i) \in SUBSET upTo(k)
      BY <2>1, <2>2
    <2>4. k \in upTo(k) /\ k \notin upTo(i)
      BY <1>6
    <2>5. Cardinality(upTo(k)) = Cardinality(upTo(i)) => upTo(k) = upTo(i)
      BY <1>2, <2>3, FS_Subset
    <2> QED BY <2>4, <2>5
  <1>7. \A i, k \in S : rank[i] = rank[k] => i = k
    <2> SUFFICES ASSUME NEW i \in S, NEW k \in S, rank[i] = rank[k], i # k
                 PROVE  FALSE
      OBVIOUS
    <2>1. i < k \/ k < i
      OBVIOUS
    <2> QED BY <1>6, <2>1
  <1>8. rank \in Injection(S, 1..Cardinality(S))
    BY <1>5, <1>7 DEF Injection, IsInjective
  <1>9. IsFiniteSet(1..Cardinality(S)) /\ Cardinality(1..Cardinality(S)) = Cardinality(S)
    BY <1>1, FS_Interval
  <1>10. rank \in Surjection(S, 1..Cardinality(S))
    BY <1>8, <1>9, FS_Injection
  <1>11. \E i \in S : Cardinality({j \in S : j <= i}) = n
    BY <1>10 DEF Surjection
  <1> QED BY <1>11 DEF Nth

LEMMA Abandonment ==
  ASSUME NEW s \in Seq(Request)
  PROVE  /\ Abandoned(s) \in Seq(Request)
         /\ Len(Abandoned(s)) \in Nat /\ Len(Abandoned(s)) <= Len(s)
         /\ DOMAIN Abandoned(s) = 1..Len(Abandoned(s))
         /\ \A n \in DOMAIN Abandoned(s) : \E i \in Unapplied(s) :
              Abandoned(s)[n] = [v |-> s[i].v, at |-> "lost"]
  <1> DEFINE size == Cardinality(Unapplied(s))
             pick(n) == Nth(Unapplied(s), n)
             at(n) == [s[pick(n)] EXCEPT !.at = "lost"]
  <1>1. /\ Len(s) \in Nat /\ DOMAIN s = 1..Len(s)
        /\ \A i \in 1..Len(s) : s[i] \in Request
    OBVIOUS
  <1>2. IsFiniteSet(1..Len(s)) /\ Cardinality(1..Len(s)) = Len(s)
    <2>1. \A m \in Nat : IsFiniteSet(1..m) /\ Cardinality(1..m) = m
      BY FS_Interval
    <2> QED BY <1>1, <2>1
  <1>3. Unapplied(s) \in SUBSET (1..Len(s)) /\ Unapplied(s) \subseteq Nat
    BY <1>1 DEF Unapplied
  <1>4. IsFiniteSet(Unapplied(s)) /\ size <= Len(s)
    BY <1>2, <1>3, FS_Subset
  <1>5. size \in Nat
    BY <1>4, FS_CardinalityType
  <1>6. \A n \in 1..size : pick(n) \in Unapplied(s)
    BY <1>3, <1>4, NthExists
  <1>7. \A n \in 1..size : s[pick(n)] \in Request
    BY <1>1, <1>3, <1>6
  <1>8. \A n \in 1..size : at(n) \in Request /\ at(n) = [v |-> s[pick(n)].v, at |-> "lost"]
    BY <1>7 DEF Request
  <1>9. Abandoned(s) = [n \in 1..size |-> at(n)]
    BY DEF Abandoned
  <1> HIDE DEF size, pick, at
  <1>10. Abandoned(s) \in Seq(Request) /\ Len(Abandoned(s)) = size
         /\ DOMAIN Abandoned(s) = 1..size
    BY <1>5, <1>8, <1>9
  <1>11. \A n \in 1..size : \E i \in Unapplied(s) :
              Abandoned(s)[n] = [v |-> s[i].v, at |-> "lost"]
    BY <1>6, <1>8, <1>9
  <1> QED BY <1>4, <1>5, <1>10, <1>11 DEF size

(* The four ways the requests under way change.                            *)

LEMMA Typed ==
  ASSUME DraftTypeOK
  PROVE  /\ flights \in Seq(Request) /\ Len(flights) \in Nat /\ Flight = 1..Len(flights)
         /\ \A i \in Flight : flights[i] \in Request
                              /\ flights[i].v \in OrNone(Version)
                              /\ flights[i].at \in {"sent", "applied", "lost"}
  <1>1. flights \in Seq(Request)
    BY DEF DraftTypeOK, Request
  <1>2. Len(flights) \in Nat /\ Flight = 1..Len(flights)
        /\ \A i \in Flight : flights[i] \in Request
    BY <1>1 DEF Flight
  <1> QED BY <1>1, <1>2 DEF Request

LEMMA AfterSend ==
  ASSUME DraftTypeOK, NEW v \in OrNone(Version), Send(v)
  PROVE  /\ flights' \in Seq(Request) /\ Len(flights') = Len(flights) + 1
         /\ Len(flights') <= MaxFlights /\ Flight' = Flight \cup {Len(flights')}
         /\ flights'[Len(flights')] = [v |-> v, at |-> "sent"]
         /\ \A i \in Flight : i < Len(flights') /\ flights'[i] = flights[i]
  <1>1. flights \in Seq(Request) /\ Len(flights) \in Nat /\ Flight = 1..Len(flights)
    BY Typed
  <1>2. [v |-> v, at |-> "sent"] \in Request
    BY DEF Request
  <1>3. flights' = Append(flights, [v |-> v, at |-> "sent"]) /\ Len(flights) < MaxFlights
    BY DEF Send
  <1>4. /\ flights' \in Seq(Request) /\ Len(flights') = Len(flights) + 1
        /\ \A i \in 1..Len(flights) : flights'[i] = flights[i]
        /\ flights'[Len(flights) + 1] = [v |-> v, at |-> "sent"]
    BY <1>1, <1>2, <1>3, AppendProperties
  <1>5. Flight' = 1..Len(flights')
    BY <1>4 DEF Flight
  <1> QED BY <1>1, <1>3, <1>4, <1>5, FlightsAssumption

LEMMA AfterRemoval ==
  ASSUME DraftTypeOK, NEW i \in Flight, flights' = Sq!RemoveAt(flights, i)
  PROVE  /\ flights' \in Seq(Request) /\ Len(flights') = Len(flights) - 1
         /\ Len(flights') \in Nat /\ Flight' = 1..Len(flights')
         /\ \A j \in Flight' : /\ Before(i, j) \in Flight \ {i}
                               /\ flights'[j] = flights[Before(i, j)]
         /\ \A j, k \in Flight' : j < k <=> Before(i, j) < Before(i, k)
         /\ \A k \in Flight \ {i} : \E j \in Flight' : Before(i, j) = k
  <1>1. flights \in Seq(Request) /\ Len(flights) \in Nat /\ Flight = 1..Len(flights)
        /\ i \in DOMAIN flights
    BY Typed DEF Flight
  <1>2. /\ flights' \in Seq(Request) /\ Len(flights') = Len(flights) - 1
        /\ \A j \in 1..Len(flights) - 1 : flights'[j] = flights[Before(i, j)]
    BY <1>1, Removal
  <1>3. Len(flights') \in Nat /\ Flight' = 1..Len(flights) - 1
    BY <1>1, <1>2 DEF Flight
  <1>4. \A j \in Flight' : Before(i, j) \in Flight \ {i}
    BY <1>1, <1>3 DEF Before
  <1>5. \A j, k \in Flight' : j < k <=> Before(i, j) < Before(i, k)
    BY <1>1, <1>3 DEF Before
  <1>6. ASSUME NEW k \in Flight \ {i} PROVE \E j \in Flight' : Before(i, j) = k
    <2>1. CASE k < i
      <3>1. k \in Flight' /\ Before(i, k) = k
        BY <2>1, <1>1, <1>3 DEF Before
      <3> QED BY <3>1
    <2>2. CASE i < k
      <3>1. k - 1 \in Flight' /\ Before(i, k - 1) = k
        BY <2>2, <1>1, <1>3 DEF Before
      <3> QED BY <3>1
    <2> QED BY <2>1, <2>2, <1>1
  <1> QED BY <1>1, <1>2, <1>3, <1>4, <1>5, <1>6

LEMMA AfterMark ==
  ASSUME DraftTypeOK, NEW i \in Flight, NEW a \in {"applied", "lost"},
         flights' = [flights EXCEPT ![i].at = a]
  PROVE  /\ flights' \in Seq(Request) /\ Len(flights') = Len(flights) /\ Flight' = Flight
         /\ flights'[i] = [v |-> flights[i].v, at |-> a]
         /\ \A j \in Flight \ {i} : flights'[j] = flights[j]
  <1>1. flights \in Seq(Request) /\ Len(flights) \in Nat /\ Flight = 1..Len(flights)
        /\ flights[i] \in Request
    BY Typed
  <1>2. [flights[i] EXCEPT !.at = a] \in Request
        /\ [flights[i] EXCEPT !.at = a] = [v |-> flights[i].v, at |-> a]
    BY <1>1 DEF Request
  <1>3. flights' = [flights EXCEPT ![i] = [flights[i] EXCEPT !.at = a]]
    OBVIOUS
  <1>4. /\ flights' \in Seq(Request) /\ Len(flights') = Len(flights)
        /\ \A j \in 1..Len(flights) :
             flights'[j] = IF j = i THEN [flights[i] EXCEPT !.at = a] ELSE flights[j]
    BY <1>1, <1>2, <1>3, ExceptSeq
  <1>5. Flight' = 1..Len(flights')
    BY <1>4 DEF Flight
  <1> QED BY <1>1, <1>2, <1>4, <1>5

LEMMA AfterLeaving ==
  ASSUME DraftTypeOK, flights' = Abandoned(flights)
  PROVE  /\ flights' \in Seq(Request) /\ Len(flights') <= MaxFlights
         /\ \A j \in Flight' : /\ flights'[j].at = "lost"
                               /\ \E i \in Flight : /\ flights[i].at # "applied"
                                                    /\ flights'[j].v = flights[i].v
  <1>1. flights \in Seq(Request) /\ Len(flights) \in Nat /\ Len(flights) <= MaxFlights
    BY Typed DEF DraftTypeOK
  <1>2. /\ flights' \in Seq(Request) /\ Len(flights') \in Nat /\ Len(flights') <= Len(flights)
        /\ \A j \in DOMAIN flights' : \E i \in Unapplied(flights) :
             flights'[j] = [v |-> flights[i].v, at |-> "lost"]
    BY <1>1, Abandonment
  <1>3. Len(flights') <= MaxFlights
    BY <1>1, <1>2, FlightsAssumption
  <1>4. ASSUME NEW j \in Flight'
        PROVE  /\ flights'[j].at = "lost"
               /\ \E i \in Flight : /\ flights[i].at # "applied"
                                    /\ flights'[j].v = flights[i].v
    <2>1. PICK i \in Unapplied(flights) : flights'[j] = [v |-> flights[i].v, at |-> "lost"]
      BY <1>2 DEF Flight
    <2>2. i \in Flight /\ flights[i].at # "applied"
      BY DEF Unapplied, Flight
    <2>3. flights'[j].v = flights[i].v /\ flights'[j].at = "lost"
      BY <2>1
    <2> QED BY <2>2, <2>3
  <1> QED BY <1>2, <1>3, <1>4

-----------------------------------------------------------------------------
(* The invariant, action by action.                                        *)

IInv == DraftTypeOK /\ DraftInv

LEMMA InitInv == DraftInit => IInv
  <1> SUFFICES ASSUME DraftInit PROVE IInv
    OBVIOUS
  <1>1. flights = <<>> /\ Flight = {} /\ Applied = {} /\ draft = NoDraft /\ page = "closed"
    BY DEF DraftInit, Flight, Applied
  <1>2. DraftTypeOK
    <2>1. flights \in Seq([v : OrNone(Version), at : {"sent", "applied", "lost"}])
          /\ Len(flights) <= MaxFlights
      BY <1>1, FlightsAssumption
    <2> QED BY <1>1, <2>1 DEF DraftInit, DraftTypeOK, OrNone, Pages
  <1>3. DraftInv
    BY <1>1 DEF DraftInv, PageAwaits, AppliedInOrder, DeleteIsLast, SentSince, LatestStored,
                Untouched, Alive
  <1> QED BY <1>2, <1>3 DEF IInv

(* Steps of the page that send and receive nothing.                        *)
LEMMA QuietSteps ==
  ASSUME IInv, Open \/ Load \/ Continue \/ (\E v \in Version : Edit(v))
  PROVE  IInv'
  <1> USE DEF Flight
  <1>1. DraftTypeOK'
    BY VersionAssumption DEF IInv, DraftTypeOK, Open, Load, Continue, Edit, Edits, OrNone, Pages
  <1>2. flights' = flights /\ draft' = draft /\ since' = since /\ (muddled => muddled')
    <2>1. flights' = flights /\ draft' = draft /\ since' = since
      BY DEF Open, Load, Continue, Edit
    <2>2. muddled' = muddled \/ muddled' = (muddled \/ flights # <<>>)
      BY DEF Open, Load, Continue, Edit
    <2>3. muddled => muddled'
      BY <2>2, Zenon
    <2> QED BY <2>1, <2>3
  <1>3. PageAwaits'
    BY <1>2 DEF IInv, DraftInv, PageAwaits, Awaited, Open, Load, Continue, Edit, Edits
  <1>4. ASSUME ~muddled' PROVE (AppliedInOrder /\ DeleteIsLast /\ SentSince)'
    BY <1>2, <1>4 DEF IInv, DraftInv, AppliedInOrder, DeleteIsLast, SentSince, Applied, Awaited
  <1>5. ASSUME ~muddled' PROVE LatestStored'
    <2>1. CASE Open
      BY <2>1 DEF Open, LatestStored, Alive
    <2>2. CASE Load
      <3>1. flights = <<>> /\ (Alive' => lastSaved' = NoDraft)
        BY <2>2, <1>5 DEF Load, Alive, Edits
      <3> QED BY <3>1, <1>2 DEF LatestStored, Applied
    <2>3. CASE Continue
      <3>1. flights = <<>> /\ offer = draft /\ lastSaved' = offer
        BY <2>3, <1>2, <1>5 DEF Continue, Edits, IInv, DraftInv, Untouched
      <3> QED BY <3>1, <1>2 DEF LatestStored, Applied
    <2>4. CASE \E v \in Version : Edit(v)
      <3>1. lastSaved' = lastSaved /\ page' = page
        BY <2>4 DEF Edit
      <3>2. LatestStored
        BY <1>2, <1>5 DEF IInv, DraftInv
      <3> QED BY <1>2, <3>1, <3>2 DEF LatestStored, Applied, Alive
    <2> QED BY <2>1, <2>2, <2>3, <2>4
  <1>6. ASSUME ~muddled' PROVE Untouched'
    BY <1>6 DEF Untouched, Open, Load, Continue, Edit, Edits
  <1> QED BY <1>1, <1>3, <1>4, <1>5, <1>6 DEF IInv, DraftInv

LEMMA SendKeepsOrder ==
  ASSUME DraftTypeOK, AppliedInOrder, Applied' = Applied, Flight' = Flight \cup {Len(flights')},
         Len(flights') = Len(flights) + 1
  PROVE  AppliedInOrder'
  <1>1. Flight = 1..Len(flights) /\ Len(flights) \in Nat
    BY Typed
  <1>2. ASSUME NEW i \in Flight', NEW j \in Flight', i < j, j \in Applied
        PROVE  i \in Applied
    <2>1. j \in Flight /\ i \in Flight
      BY <1>1, <1>2 DEF Applied
    <2> QED BY <1>2, <2>1 DEF AppliedInOrder
  <1> QED BY <1>2 DEF AppliedInOrder

(* A DELETE is sent.                                                       *)
LEMMA DeleteSteps ==
  ASSUME IInv, StartOver \/ Reset
  PROVE  IInv'
  <1> DEFINE n == Len(flights')
  <1>1. DraftTypeOK /\ NoDraft \in OrNone(Version) /\ Send(NoDraft)
    BY DEF IInv, OrNone, StartOver, Reset
  <1>2. /\ flights' \in Seq(Request) /\ n = Len(flights) + 1 /\ n <= MaxFlights
        /\ Flight' = Flight \cup {n} /\ flights'[n] = [v |-> NoDraft, at |-> "sent"]
        /\ \A i \in Flight : i < n /\ flights'[i] = flights[i]
    BY <1>1, AfterSend
  <1>3. draft' = draft /\ since' = since /\ lastSaved' = lastSaved /\ muddled' = muddled
    BY DEF StartOver, Reset
  <1>4. DraftTypeOK'
    BY <1>2 DEF IInv, DraftTypeOK, Request, StartOver, Reset, OrNone, Pages
  <1>5. PageAwaits
    BY DEF IInv, DraftInv
  <1>6. \A i \in Flight : Awaited(i) => flights[i].v # NoDraft /\ page = "editing"
    BY <1>5 DEF PageAwaits, StartOver, Reset
  <1>7. PageAwaits'
    <2>1. page' \in {"clearing", "resetting"} /\ (page' = "clearing" => page = "choosing")
      BY DEF StartOver, Reset
    <2>2. \A i \in Flight' : Awaited(i)' => i = n \/ (i \in Flight /\ Awaited(i))
      BY <1>2 DEF Awaited
    <2> QED BY <1>2, <1>6, <2>1, <2>2 DEF PageAwaits
  <1>8. n \notin Applied' /\ Applied' = Applied
    BY <1>2 DEF Applied
  <1>9. ASSUME ~muddled' PROVE (AppliedInOrder /\ DeleteIsLast /\ SentSince)'
    <2>1. AppliedInOrder /\ SentSince
      BY <1>3, <1>9 DEF IInv, DraftInv
    <2>2. AppliedInOrder'
      BY <1>1, <1>2, <1>8, <2>1, SendKeepsOrder
    <2>3. DeleteIsLast'
      BY <1>2, <1>6, <1>8 DEF DeleteIsLast, Awaited
    <2>4. SentSince'
      BY <1>2, <1>3, <1>8, <2>1 DEF SentSince
    <2> QED BY <2>2, <2>3, <2>4
  <1>10. ASSUME ~muddled' PROVE (LatestStored /\ Untouched)'
    <2>1. LatestStored /\ (Alive' => Alive)
      BY <1>3, <1>10 DEF IInv, DraftInv, StartOver, Reset, Alive
    <2>2. LatestStored'
      BY <1>2, <1>3, <1>8, <2>1 DEF LatestStored, Applied
    <2>3. Untouched'
      BY DEF Untouched, StartOver, Reset
    <2> QED BY <2>2, <2>3
  <1> QED BY <1>4, <1>7, <1>9, <1>10 DEF IInv, DraftInv

(* The page is gone, by hand or for a reload.                              *)
LEMMA LeaveStep ==
  ASSUME IInv, Leave
  PROVE  IInv'
  <1>1. /\ flights' \in Seq(Request) /\ Len(flights') <= MaxFlights
        /\ \A j \in Flight' : /\ flights'[j].at = "lost"
                              /\ \E i \in Flight : /\ flights[i].at # "applied"
                                                   /\ flights'[j].v = flights[i].v
    BY AfterLeaving DEF IInv, Leave
  <1>2. /\ page' = "closed" /\ draft' = draft /\ since' = since /\ muddled' = muddled
    BY DEF Leave
  <1>3. DraftTypeOK'
    BY <1>1, <1>2 DEF IInv, DraftTypeOK, Request, Leave, OrNone, Pages
  <1>4. PageAwaits' /\ Applied' = {} /\ \A i \in Flight' : ~Awaited(i)'
    BY <1>1 DEF PageAwaits, Awaited, Applied
  <1>5. ASSUME ~muddled' PROVE SentSince'
    <2>1. SentSince
      BY <1>2, <1>5 DEF IInv, DraftInv
    <2> QED BY <1>1, <1>2, <2>1 DEF SentSince, Applied
  <1>6. (AppliedInOrder /\ DeleteIsLast /\ LatestStored /\ Untouched)'
    BY <1>2, <1>4 DEF AppliedInOrder, DeleteIsLast, LatestStored, Untouched, Alive
  <1> QED BY <1>3, <1>4, <1>5, <1>6 DEF IInv, DraftInv

(* A PUT is sent, if the files changed since the last save.                *)
LEMMA SaveSteps ==
  ASSUME IInv, Fire \/ Checkpoint
  PROVE  IInv'
  <1>1. /\ Persist /\ draft' = draft /\ page' = page /\ files' = files /\ offer' = offer
        /\ page \in {"editing", "resetting"}
    BY DEF Fire, Checkpoint, Alive
  <1>2. lastSaved' = lastSaved
    BY <1>1 DEF Persist
  <1>3. CASE files = lastSaved
    <2>1. flights' = flights /\ since' = since /\ muddled' = muddled
      BY <1>1, <1>3 DEF Persist
    <2>2. DraftTypeOK'
      BY <1>1, <1>2, <1>3, <2>1 DEF IInv, DraftTypeOK, Fire, Checkpoint, Persist
    <2>3. DraftInv'
      BY <1>1, <1>2, <2>1
      DEF IInv, DraftInv, PageAwaits, Awaited, Applied, AppliedInOrder, DeleteIsLast,
          SentSince, LatestStored, Untouched, Flight, Alive
    <2> QED BY <2>2, <2>3 DEF IInv
  <1>4. CASE files # lastSaved
    <2> DEFINE n == Len(flights')
    <2>1. /\ Send(files) /\ since' = since \cup {files} /\ behind' = behind
          /\ muddled' = (muddled \/ Deleting)
      BY <1>1, <1>4 DEF Persist
    <2>2. DraftTypeOK /\ files \in Version /\ files \in OrNone(Version) /\ files # NoDraft
      BY <1>1, VersionAssumption DEF IInv, DraftTypeOK, OrNone
    <2>3. /\ flights' \in Seq(Request) /\ n = Len(flights) + 1 /\ n <= MaxFlights
          /\ Flight' = Flight \cup {n} /\ flights'[n] = [v |-> files, at |-> "sent"]
          /\ \A i \in Flight : i < n /\ flights'[i] = flights[i]
      BY <2>1, <2>2, AfterSend
    <2>4. DraftTypeOK'
      BY <1>1, <1>2, <2>1, <2>2, <2>3 DEF DraftTypeOK, Request, Fire, Checkpoint
    <2>5. PageAwaits'
      <3>1. PageAwaits
        BY DEF IInv, DraftInv
      <3> QED BY <1>1, <2>2, <2>3, <3>1 DEF PageAwaits, Awaited
    <2>6. Applied' = Applied /\ n \notin Applied'
      BY <2>3 DEF Applied
    <2>7. ASSUME ~muddled'
          PROVE  (AppliedInOrder /\ DeleteIsLast /\ SentSince /\ LatestStored /\ Untouched)'
      <3>1. ~muddled /\ \A i \in Flight : flights[i].v # NoDraft
        BY <2>1, <2>7 DEF Deleting
      <3>2. AppliedInOrder /\ SentSince /\ LatestStored
        BY <3>1 DEF IInv, DraftInv
      <3>3. AppliedInOrder'
        BY <2>2, <2>3, <2>6, <3>2, SendKeepsOrder
      <3>4. DeleteIsLast'
        BY <2>2, <2>3, <3>1 DEF DeleteIsLast
      <3>5. SentSince'
        BY <1>1, <2>1, <2>3, <2>6, <3>2 DEF SentSince
      <3>6. LatestStored'
        BY <1>1, <1>2, <2>3, <2>6, <3>2 DEF LatestStored, Applied, Alive
      <3>7. Untouched'
        BY <1>1 DEF Untouched
      <3> QED BY <3>3, <3>4, <3>5, <3>6, <3>7
    <2> QED BY <2>4, <2>5, <2>7 DEF IInv, DraftInv
  <1> QED BY <1>3, <1>4

(* The server applies a request: a lost one leaves, another is marked.     *)
LEMMA ApplyStep ==
  ASSUME IInv, NEW i \in Flight, Apply(i)
  PROVE  IInv'
  <1>1. DraftTypeOK /\ PageAwaits
    BY DEF IInv, DraftInv
  <1>2. /\ Len(flights) \in Nat /\ Flight = 1..Len(flights)
        /\ \A j \in Flight : flights[j].v \in OrNone(Version)
                             /\ flights[j].at \in {"sent", "applied", "lost"}
    BY <1>1, Typed
  <1>3. /\ flights[i].at # "applied" /\ draft' = flights[i].v
        /\ page' = page /\ files' = files /\ offer' = offer /\ lastSaved' = lastSaved
        /\ timer' = timer /\ since' = since /\ behind' = behind
    BY DEF Apply
  <1>4. muddled' = \/ muddled
                   \/ flights[i].at = "lost" /\ page \notin {"closed", "loading", "failed"}
                   \/ \E j \in Flight : j < i /\ flights[j].at # "applied"
    BY DEF Apply
  <1>5. muddled' \in BOOLEAN
    BY <1>1, <1>4 DEF DraftTypeOK
  <1>6. ASSUME ~muddled'
        PROVE  /\ ~muddled /\ (flights[i].at = "lost" => page \in {"closed", "loading", "failed"})
               /\ \A j \in Flight : j < i => flights[j].at = "applied"
    BY <1>4, <1>6, Zenon
  <1>7. ASSUME ~muddled' PROVE AppliedInOrder /\ DeleteIsLast /\ SentSince /\ LatestStored
    BY <1>6, <1>7 DEF IInv, DraftInv
  <1>8. CASE flights[i].at = "lost"
    <2>1. flights' = Sq!RemoveAt(flights, i)
      BY <1>8 DEF Apply
    <2>2. /\ flights' \in Seq(Request) /\ Len(flights') = Len(flights) - 1 /\ Len(flights') \in Nat
          /\ \A j \in Flight' : /\ Before(i, j) \in Flight \ {i}
                                /\ flights'[j] = flights[Before(i, j)]
          /\ \A j, k \in Flight' : j < k <=> Before(i, j) < Before(i, k)
          /\ \A j, k \in Flight' : Before(i, j) = Before(i, k) => j = k
      BY <1>1, <1>2, <2>1, AfterRemoval
    <2>3. DraftTypeOK'
      <3>1. Len(flights') <= MaxFlights
        BY <1>1, <2>2, FlightsAssumption DEF DraftTypeOK
      <3> QED BY <1>1, <1>2, <1>3, <1>5, <2>2, <3>1 DEF DraftTypeOK, Request
    <2>4. PageAwaits'
      BY <1>1, <1>3, <2>2 DEF PageAwaits, Awaited
    <2>5. ASSUME ~muddled'
          PROVE  (AppliedInOrder /\ DeleteIsLast /\ SentSince /\ LatestStored /\ Untouched)'
      <3>1. page' \in {"closed", "loading", "failed"}
        BY <1>3, <1>6, <1>8, <2>5
      <3>2. \A j \in Flight' : ~Awaited(j)'
        BY <2>4, <3>1 DEF PageAwaits
      <3>3. Applied' = {}
        BY <3>2 DEF Applied, Awaited
      <3>4. SentSince'
        <4>1. SentSince
          BY <1>7, <2>5
        <4>2. draft' # NoDraft => draft' \in since'
          BY <1>3, <4>1 DEF SentSince, Applied
        <4>3. \A j \in Flight' : flights'[j].at # "applied" /\ flights[Before(i, j)].at # "applied"
          BY <2>2, <3>3 DEF Applied
        <4>4. \A j \in Flight' : flights'[j].v # NoDraft => flights'[j].v \in since'
          BY <1>3, <2>2, <4>1, <4>3 DEF SentSince, Applied
        <4> QED BY <4>2, <4>4 DEF SentSince
      <3> QED BY <3>1, <3>2, <3>3, <3>4
              DEF AppliedInOrder, DeleteIsLast, LatestStored, Untouched, Alive
    <2> QED BY <2>3, <2>4, <2>5 DEF IInv, DraftInv
  <1>9. CASE flights[i].at # "lost"
    <2>1. flights' = [flights EXCEPT ![i].at = "applied"]
      BY <1>9 DEF Apply
    <2>2. /\ flights' \in Seq(Request) /\ Len(flights') = Len(flights) /\ Flight' = Flight
          /\ flights'[i] = [v |-> flights[i].v, at |-> "applied"]
          /\ \A j \in Flight \ {i} : flights'[j] = flights[j]
      BY <1>1, <2>1, AfterMark
    <2>3. DraftTypeOK'
      BY <1>1, <1>2, <1>3, <1>5, <2>2 DEF DraftTypeOK, Request
    <2>4. \A j \in Flight : (Awaited(j)' <=> Awaited(j)) /\ flights'[j].v = flights[j].v
      BY <1>9, <2>2 DEF Awaited
    <2>5. PageAwaits'
      BY <1>1, <1>3, <2>2, <2>4 DEF PageAwaits
    <2>6. Applied' = Applied \cup {i}
      BY <2>2 DEF Applied
    <2>7. ASSUME ~muddled'
          PROVE  (AppliedInOrder /\ DeleteIsLast /\ SentSince /\ LatestStored /\ Untouched)'
      <3>1. AppliedInOrder /\ DeleteIsLast /\ SentSince
        BY <1>7, <2>7
      <3>2. \A j \in Flight : j < i => j \in Applied
        BY <1>6, <2>7 DEF Applied
      <3>3. AppliedInOrder'
        BY <2>2, <2>6, <3>1, <3>2 DEF AppliedInOrder, Applied
      <3>4. \A j \in Applied : j < i
        <4>1. i \notin Applied /\ Applied \subseteq Flight
          BY <1>3 DEF Applied
        <4> QED BY <1>2, <3>1, <4>1 DEF AppliedInOrder
      <3>5. DeleteIsLast'
        <4>1. ASSUME NEW j \in Flight', Awaited(j)', flights'[j].v = NoDraft
              PROVE  j = Len(flights') /\ (j \in Applied' => draft' = NoDraft)
          <5>1. j \in Flight /\ Awaited(j) /\ flights[j].v = NoDraft
            BY <2>2, <2>4, <4>1
          <5>2. j = Len(flights)
            BY <3>1, <5>1 DEF DeleteIsLast
          <5>3. j \in Applied' => j = i
            BY <1>2, <2>6, <3>4, <5>2
          <5> QED BY <1>3, <2>2, <5>1, <5>2, <5>3
        <4> QED BY <4>1 DEF DeleteIsLast
      <3>6. SentSince'
        BY <1>3, <2>2, <2>4, <2>6, <3>1 DEF SentSince, Applied
      <3>7. LatestStored'
        <4>1. i \in Applied' /\ flights'[i].v = draft'
          BY <1>3, <2>2, <2>6
        <4>2. ASSUME NEW j \in Applied', \A k \in Applied' : k <= j
              PROVE  j = i
          <5>1. j = i \/ j < i
            BY <2>6, <3>4
          <5>2. i <= j /\ j \in Int
            BY <1>2, <2>6, <4>1, <4>2 DEF Applied
          <5> QED BY <1>2, <5>1, <5>2
        <4> QED BY <4>1, <4>2 DEF LatestStored
      <3>8. Untouched'
        BY <1>1, <1>3, <1>9 DEF PageAwaits, Awaited, Untouched
      <3> QED BY <3>3, <3>5, <3>6, <3>7, <3>8
    <2> QED BY <2>3, <2>5, <2>7 DEF IInv, DraftInv
  <1> QED BY <1>8, <1>9

(* A request that is awaited returns or fails and leaves: what the others  *)
(* say of the order and of the delete stays.                               *)
LEMMA RemovalKeeps ==
  ASSUME DraftTypeOK, NEW i \in Flight, flights' = Sq!RemoveAt(flights, i)
  PROVE  /\ \A j \in Flight' : /\ Awaited(j)' <=> Awaited(Before(i, j))
                               /\ j \in Applied' <=> Before(i, j) \in Applied
         /\ AppliedInOrder => AppliedInOrder'
         /\ DeleteIsLast /\ draft' = draft => DeleteIsLast'
         /\ SentSince /\ draft' = draft /\ since' = since => SentSince'
  <1>1. /\ Len(flights') = Len(flights) - 1 /\ Len(flights) \in Nat /\ Flight = 1..Len(flights)
        /\ Flight' = 1..Len(flights')
        /\ \A j \in Flight' : /\ Before(i, j) \in Flight \ {i}
                              /\ flights'[j] = flights[Before(i, j)]
        /\ \A j, k \in Flight' : j < k <=> Before(i, j) < Before(i, k)
    BY AfterRemoval, Typed
  <1>2. \A j \in Flight' : /\ Awaited(j)' <=> Awaited(Before(i, j))
                           /\ j \in Applied' <=> Before(i, j) \in Applied
    BY <1>1 DEF Awaited, Applied
  <1>3. AppliedInOrder => AppliedInOrder'
    BY <1>1, <1>2 DEF AppliedInOrder
  <1>4. ASSUME DeleteIsLast, draft' = draft PROVE DeleteIsLast'
    <2>1. ASSUME NEW j \in Flight', Awaited(j)', flights'[j].v = NoDraft
          PROVE  j = Len(flights') /\ (j \in Applied' => draft' = NoDraft)
      <3>1. Before(i, j) \in Flight \ {i} /\ Awaited(Before(i, j)) /\ flights[Before(i, j)].v = NoDraft
        BY <1>1, <1>2, <2>1
      <3>2. Before(i, j) = Len(flights) /\ (Before(i, j) \in Applied => draft = NoDraft)
        BY <1>4, <3>1 DEF DeleteIsLast
      <3>3. j = Len(flights) - 1
        BY <1>1, <3>1, <3>2 DEF Before
      <3> QED BY <1>1, <1>2, <1>4, <3>2, <3>3
    <2> QED BY <2>1 DEF DeleteIsLast
  <1>5. SentSince /\ draft' = draft /\ since' = since => SentSince'
    BY <1>1, <1>2 DEF SentSince
  <1> QED BY <1>2, <1>3, <1>4, <1>5

(* A PUT returns: it is the first of those awaited, or requests crossed.   *)
LEMMA SavedStep ==
  ASSUME IInv, NEW i \in Flight, Saved(i)
  PROVE  IInv'
  <1>1. DraftTypeOK /\ PageAwaits
    BY DEF IInv, DraftInv
  <1>2. /\ Len(flights) \in Nat /\ Flight = 1..Len(flights)
        /\ \A j \in Flight : flights[j].v \in OrNone(Version)
    BY <1>1, Typed
  <1>3. /\ flights[i].at = "applied" /\ flights[i].v # NoDraft /\ lastSaved' = flights[i].v
        /\ flights' = Sq!RemoveAt(flights, i)
        /\ draft' = draft /\ page' = page /\ files' = files /\ offer' = offer
        /\ timer' = timer /\ since' = since /\ behind' = behind
    BY DEF Saved
  <1>4. muddled' = (muddled \/ \E j \in Flight : j < i /\ flights[j].at # "lost")
    BY DEF Saved
  <1>5. ASSUME ~muddled' PROVE ~muddled /\ \A j \in Flight : j < i => flights[j].at = "lost"
    BY <1>4, <1>5, Zenon
  <1>6. /\ flights' \in Seq(Request) /\ Len(flights') = Len(flights) - 1 /\ Len(flights') \in Nat
        /\ \A j \in Flight' : /\ Before(i, j) \in Flight \ {i}
                              /\ flights'[j] = flights[Before(i, j)]
        /\ \A j, k \in Flight' : j < k <=> Before(i, j) < Before(i, k)
        /\ \A k \in Flight \ {i} : \E j \in Flight' : Before(i, j) = k
    BY <1>1, <1>3, AfterRemoval
  <1>7. /\ \A j \in Flight' : /\ Awaited(j)' <=> Awaited(Before(i, j))
                              /\ j \in Applied' <=> Before(i, j) \in Applied
        /\ AppliedInOrder => AppliedInOrder'
        /\ DeleteIsLast => DeleteIsLast'
        /\ SentSince => SentSince'
    BY <1>1, <1>3, RemovalKeeps
  <1>8. DraftTypeOK'
    <2>1. Len(flights') <= MaxFlights
      BY <1>1, <1>2, <1>6, FlightsAssumption DEF DraftTypeOK
    <2>2. muddled' \in BOOLEAN
      BY <1>1, <1>4 DEF DraftTypeOK
    <2> QED BY <1>1, <1>2, <1>3, <1>6, <2>1, <2>2 DEF DraftTypeOK, Request
  <1>9. PageAwaits'
    <2>1. \A j, k \in Flight' : Before(i, j) = Before(i, k) => j = k
      BY <1>2, <1>6 DEF Before, Flight
    <2> QED BY <1>1, <1>3, <1>6, <1>7, <2>1 DEF PageAwaits
  <1>10. ASSUME ~muddled', Alive' PROVE LatestStored'
    <2>1. LatestStored /\ Alive /\ AppliedInOrder
      BY <1>3, <1>5, <1>10 DEF IInv, DraftInv, Alive
    <2>2. i \in Applied /\ Applied \subseteq Flight /\ \A k \in Applied : k = i \/ i < k
      BY <1>2, <1>3, <1>5, <1>10 DEF Applied
    <2>3. ASSUME NEW j \in Applied', \A k \in Applied' : k <= j
          PROVE  draft' = flights'[j].v
      <3>1. j \in Flight' /\ Before(i, j) \in Applied /\ Before(i, j) # i
        BY <1>6, <1>7 DEF Applied
      <3>2. \A k \in Applied : k <= Before(i, j)
        <4>1. Before(i, j) \in Nat /\ i \in Nat /\ i < Before(i, j)
          <5>1. \A k \in Applied : k \in 1..Len(flights)
            BY <1>2, <2>2
          <5>2. Before(i, j) \in 1..Len(flights) /\ i \in 1..Len(flights)
            BY <2>2, <3>1, <5>1
          <5>3. i < Before(i, j)
            BY <2>2, <3>1
          <5> HIDE DEF Before
          <5> QED BY <1>2, <5>2, <5>3
        <4>2. ASSUME NEW k \in Applied, k # i PROVE k <= Before(i, j)
          <5>1. PICK m \in Flight' : Before(i, m) = k
            BY <1>6, <2>2, <4>2
          <5>2. m \in Applied' /\ m <= j
            BY <1>7, <2>3, <5>1
          <5>3. m = j \/ m < j
            BY <1>6, <3>1, <5>2 DEF Flight
          <5>4. m < j => Before(i, m) < Before(i, j)
            BY <1>6, <3>1
          <5>5. k \in Nat
            BY <1>2, <2>2
          <5> QED BY <4>1, <5>1, <5>3, <5>4, <5>5
        <4> QED BY <4>1, <4>2
      <3> QED BY <1>3, <1>6, <2>1, <3>1, <3>2 DEF LatestStored
    <2>4. ASSUME Applied' = {} PROVE draft' = lastSaved'
      <3>1. \A k \in Applied : k = i
        BY <1>6, <1>7, <2>2, <2>4
      <3>2. \A k \in Applied : k <= i
        BY <1>2, <3>1
      <3> QED BY <1>3, <2>1, <2>2, <3>2 DEF LatestStored
    <2> QED BY <2>3, <2>4 DEF LatestStored
  <1>11. Untouched'
    BY <1>1, <1>3 DEF PageAwaits, Awaited, Untouched
  <1> QED BY <1>5, <1>7, <1>8, <1>9, <1>10, <1>11 DEF IInv, DraftInv, LatestStored

(* A DELETE returns: nothing that was sent before it is left.              *)
LEMMA DeletedStep ==
  ASSUME IInv, NEW i \in Flight, Deleted(i)
  PROVE  IInv'
  <1>1. DraftTypeOK /\ PageAwaits
    BY DEF IInv, DraftInv
  <1>2. /\ flights[i].at = "applied" /\ flights[i].v = NoDraft /\ since' = {}
        /\ draft' = draft /\ muddled' = muddled
    BY DEF Deleted
  <1>3. Len(flights) \in Nat /\ Flight = 1..Len(flights)
    BY <1>1, Typed
  <1>4. i \in Applied /\ Awaited(i)
    BY <1>2 DEF Applied, Awaited
  <1>5. ASSUME ~muddled' PROVE draft = NoDraft /\ Applied = Flight
    <2>1. AppliedInOrder /\ DeleteIsLast
      BY <1>2, <1>5 DEF IInv, DraftInv
    <2>2. i = Len(flights) /\ draft = NoDraft
      BY <1>2, <1>4, <2>1 DEF DeleteIsLast
    <2>3. \A j \in Flight : j \in Applied
      BY <1>3, <1>4, <2>1, <2>2 DEF AppliedInOrder
    <2> QED BY <2>2, <2>3 DEF Applied
  <1>6. CASE page = "clearing"
    <2>1. Edits(Boilerplate, NoDraft) /\ flights' = Sq!RemoveAt(flights, i)
      BY <1>6 DEF Deleted
    <2>2. page' = "editing" /\ lastSaved' = NoDraft
      BY <2>1 DEF Edits
    <2>3. /\ flights' \in Seq(Request) /\ Len(flights') = Len(flights) - 1
          /\ \A j \in Flight' : /\ Before(i, j) \in Flight \ {i}
                                /\ flights'[j] = flights[Before(i, j)]
      BY <1>1, <2>1, AfterRemoval
    <2>4. \A j \in Flight' : Awaited(j)' <=> Awaited(Before(i, j))
      BY <1>1, <2>1, RemovalKeeps
    <2>5. \A j \in Flight' : ~Awaited(j)'
      BY <1>1, <1>2, <1>4, <1>6, <2>3, <2>4 DEF PageAwaits
    <2>6. DraftTypeOK'
      <3>1. Len(flights') <= MaxFlights
        BY <1>1, <1>3, <2>3, FlightsAssumption DEF DraftTypeOK
      <3> QED BY <1>1, <1>2, <2>1, <2>3, <3>1, VersionAssumption
              DEF DraftTypeOK, Request, Edits, OrNone, Pages
    <2>7. PageAwaits' /\ Applied' = {}
      BY <2>5 DEF PageAwaits, Applied, Awaited
    <2>8. ASSUME ~muddled' PROVE SentSince'
      <3>1. \A j \in Flight' : flights'[j].at = "applied"
        BY <1>5, <2>3, <2>8 DEF Applied
      <3> QED BY <1>2, <1>5, <2>8, <3>1 DEF SentSince, Applied
    <2>9. (AppliedInOrder /\ DeleteIsLast /\ LatestStored /\ Untouched)'
      BY <2>2, <2>5, <2>7 DEF AppliedInOrder, DeleteIsLast, LatestStored, Untouched
    <2> QED BY <2>6, <2>7, <2>8, <2>9 DEF IInv, DraftInv
  <1>7. CASE page # "clearing"
    <2>1. /\ page' = "loading" /\ timer' = FALSE /\ flights' = Abandoned(flights)
          /\ files' = files /\ offer' = offer /\ lastSaved' = lastSaved /\ behind' = behind
      BY <1>7 DEF Deleted
    <2>2. /\ flights' \in Seq(Request) /\ Len(flights') <= MaxFlights
          /\ \A j \in Flight' : /\ flights'[j].at = "lost"
                                /\ \E k \in Flight : /\ flights[k].at # "applied"
                                                     /\ flights'[j].v = flights[k].v
      BY <1>1, <2>1, AfterLeaving
    <2>3. DraftTypeOK'
      BY <1>1, <1>2, <2>1, <2>2 DEF DraftTypeOK, Request, Pages
    <2>4. PageAwaits' /\ Applied' = {} /\ \A j \in Flight' : ~Awaited(j)'
      BY <2>2 DEF PageAwaits, Applied, Awaited
    <2>5. ASSUME ~muddled' PROVE SentSince'
      <3>1. Flight' = {}
        BY <1>5, <2>2, <2>5 DEF Applied
      <3> QED BY <1>2, <1>5, <2>5, <3>1 DEF SentSince
    <2>6. (AppliedInOrder /\ DeleteIsLast /\ LatestStored /\ Untouched)'
      BY <2>1, <2>4 DEF AppliedInOrder, DeleteIsLast, LatestStored, Untouched, Alive
    <2> QED BY <2>3, <2>4, <2>5, <2>6 DEF IInv, DraftInv
  <1> QED BY <1>6, <1>7

(* A request fails for the page: it leaves, or goes on unobserved.         *)
LEMMA FailStep ==
  ASSUME IInv, NEW i \in Flight, Fail(i)
  PROVE  IInv'
  <1>1. DraftTypeOK /\ PageAwaits
    BY DEF IInv, DraftInv
  <1>2. /\ Len(flights) \in Nat /\ Flight = 1..Len(flights)
        /\ \A j \in Flight : flights[j].v \in OrNone(Version)
                             /\ flights[j].at \in {"sent", "applied", "lost"}
    BY <1>1, Typed
  <1>3. /\ draft' = draft /\ files' = files /\ offer' = offer /\ lastSaved' = lastSaved
        /\ timer' = timer /\ since' = since /\ behind' = TRUE
        /\ page' = IF flights[i].at = "lost" \/ flights[i].v # NoDraft THEN page
                   ELSE IF page = "clearing" THEN "failed" ELSE "editing"
    BY DEF Fail
  <1>4. muddled' = (muddled \/ (flights[i].at = "applied" /\ Alive))
    BY DEF Fail
  <1>5. muddled' \in BOOLEAN
    BY <1>1, <1>4 DEF DraftTypeOK
  <1>6. ASSUME ~muddled' PROVE ~muddled /\ ~(flights[i].at = "applied" /\ Alive)
    BY <1>4, <1>6, Zenon
  <1>7. page' \in {page, "failed", "editing"} /\ (Alive' => Alive)
    <2>1. Awaited(i) /\ page # "clearing" => page \in {"editing", "resetting"}
      BY <1>1 DEF PageAwaits
    <2>2. page' = page \/ page' = "failed" \/ page' = "editing"
      BY <1>3
    <2>3. page' # page /\ page' = "editing" => page # "clearing" /\ flights[i].at # "lost"
      BY <1>3
    <2> QED BY <2>1, <2>2, <2>3 DEF Awaited, Alive
  <1>8. page' \in Pages /\ (page' \in {"editing", "resetting"} => page \in {"editing", "resetting"})
        /\ (page' = "choosing" => page = "choosing")
    BY <1>1, <1>7 DEF Pages, DraftTypeOK, Alive
  (* who waits for what, among the others *)
  <1>9. ASSUME NEW j \in Flight, j # i, Awaited(j)
        PROVE  /\ page' \in {"clearing", "editing", "resetting"}
               /\ page' = "clearing" => flights[j].v = NoDraft
               /\ page' = "editing" => flights[j].v # NoDraft
    <2>1. /\ page \in {"clearing", "editing", "resetting"}
          /\ page = "clearing" => flights[j].v = NoDraft
          /\ page = "editing" => flights[j].v # NoDraft
      BY <1>1, <1>9 DEF PageAwaits
    <2>2. Awaited(i) /\ flights[i].v = NoDraft => flights[j].v # NoDraft
      BY <1>1, <1>9 DEF PageAwaits
    <2>3. CASE flights[i].at = "lost" \/ flights[i].v # NoDraft
      <3>1. page' = page
        BY <1>3, <2>3
      <3> QED BY <2>1, <3>1
    <2>4. CASE ~(flights[i].at = "lost" \/ flights[i].v # NoDraft)
      <3>1. flights[j].v # NoDraft /\ page # "clearing"
        BY <2>1, <2>2, <2>4 DEF Awaited
      <3>2. page' = "editing"
        BY <1>3, <2>4, <3>1
      <3> QED BY <3>1, <3>2
    <2> QED BY <2>3, <2>4
  <1>10. ASSUME ~muddled' PROVE AppliedInOrder /\ DeleteIsLast /\ SentSince /\ LatestStored /\ Untouched
    BY <1>6, <1>10 DEF IInv, DraftInv
  (* an awaited version was applied only on a page that deletes no more *)
  <1>11. ASSUME ~muddled' PROVE i \in Applied => ~Alive'
    BY <1>6, <1>7, <1>11 DEF Applied
  <1>12. ASSUME ~muddled', page' = "choosing" PROVE FALSE
    <2>1. page = "choosing"
      BY <1>8, <1>12
    <2>2. flights = <<>>
      BY <1>10, <1>12, <2>1 DEF Untouched
    <2> QED BY <1>2, <2>2
  <1>13. CASE flights' = Sq!RemoveAt(flights, i)
    <2>1. /\ flights' \in Seq(Request) /\ Len(flights') = Len(flights) - 1 /\ Len(flights') \in Nat
          /\ \A j \in Flight' : /\ Before(i, j) \in Flight \ {i}
                                /\ flights'[j] = flights[Before(i, j)]
          /\ \A j, k \in Flight' : j < k <=> Before(i, j) < Before(i, k)
          /\ \A k \in Flight \ {i} : \E j \in Flight' : Before(i, j) = k
          /\ Flight' \subseteq Nat
      BY <1>1, <1>13, AfterRemoval
    <2>2. /\ \A j \in Flight' : /\ Awaited(j)' <=> Awaited(Before(i, j))
                                /\ j \in Applied' <=> Before(i, j) \in Applied
          /\ AppliedInOrder => AppliedInOrder'
          /\ DeleteIsLast => DeleteIsLast'
          /\ SentSince => SentSince'
      BY <1>1, <1>3, <1>13, RemovalKeeps
    <2>3. DraftTypeOK'
      <3>1. Len(flights') <= MaxFlights
        BY <1>1, <1>2, <2>1, FlightsAssumption DEF DraftTypeOK
      <3> QED BY <1>1, <1>3, <1>5, <1>8, <2>1, <3>1 DEF DraftTypeOK, Request
    <2>4. PageAwaits'
      <3>1. \A j, k \in Flight' : Before(i, j) = Before(i, k) => j = k
        BY <1>2, <2>1 DEF Before
      <3>2. ASSUME NEW j \in Flight', Awaited(j)'
            PROVE  /\ page' \in {"clearing", "editing", "resetting"}
                   /\ (page' = "clearing" => flights'[j].v = NoDraft)
                   /\ (page' = "editing" => flights'[j].v # NoDraft)
        <4>1. Before(i, j) \in Flight /\ Before(i, j) # i /\ Awaited(Before(i, j))
              /\ flights'[j] = flights[Before(i, j)]
          BY <2>1, <2>2, <3>2
        <4> QED BY <1>9, <4>1
      <3>3. ASSUME NEW j \in Flight', NEW k \in Flight', Awaited(j)', Awaited(k)',
                   flights'[j].v = NoDraft, flights'[k].v = NoDraft
            PROVE  j = k
        BY <1>1, <2>1, <2>2, <3>1, <3>3 DEF PageAwaits
      <3> QED BY <3>2, <3>3 DEF PageAwaits
    <2>5. ASSUME ~muddled', Alive' PROVE LatestStored'
      <3>1. i \notin Applied /\ Applied \subseteq Flight /\ LatestStored /\ Alive
        BY <1>7, <1>10, <1>11, <2>5 DEF Applied
      <3>2. ASSUME NEW j \in Applied', \A k \in Applied' : k <= j
            PROVE  draft' = flights'[j].v
        <4>1. j \in Flight' /\ Before(i, j) \in Applied /\ flights'[j] = flights[Before(i, j)]
          BY <2>1, <2>2 DEF Applied
        <4>2. ASSUME NEW k \in Applied PROVE k <= Before(i, j)
          <5>1. k \in Flight \ {i} /\ k \in Nat /\ Before(i, j) \in Nat
            <6>1. k \in Flight \ {i} /\ Before(i, j) \in Flight
              BY <3>1, <4>1
            <6> QED BY <1>2, <6>1
          <5>2. PICK m \in Flight' : Before(i, m) = k
            BY <2>1, <5>1
          <5>3. m \in Applied' /\ m <= j
            BY <2>2, <3>2, <5>2
          <5>4. m = j \/ m < j
            BY <2>1, <4>1, <5>3
          <5>5. m < j => Before(i, m) < Before(i, j)
            BY <2>1, <4>1
          <5> QED BY <5>1, <5>2, <5>4, <5>5
        <4>3. draft = flights[Before(i, j)].v
          BY <3>1, <4>1, <4>2 DEF LatestStored
        <4> QED BY <1>3, <4>1, <4>3
      <3>3. ASSUME Applied' = {} PROVE Applied = {}
        BY <2>1, <2>2, <3>1, <3>3
      <3> QED BY <1>3, <3>1, <3>2, <3>3 DEF LatestStored
    <2>6. LatestStored' \/ Alive'
      BY DEF LatestStored
    <2> QED BY <1>10, <1>12, <2>2, <2>3, <2>4, <2>5, <2>6 DEF IInv, DraftInv, Untouched
  <1>14. CASE flights[i].at = "sent" /\ flights' = [flights EXCEPT ![i].at = "lost"]
    <2>1. /\ flights' \in Seq(Request) /\ Len(flights') = Len(flights) /\ Flight' = Flight
          /\ flights'[i] = [v |-> flights[i].v, at |-> "lost"]
          /\ \A j \in Flight \ {i} : flights'[j] = flights[j]
      BY <1>1, <1>14, AfterMark
    <2>2. DraftTypeOK'
      BY <1>1, <1>2, <1>3, <1>5, <1>8, <2>1 DEF DraftTypeOK, Request
    <2>3. Applied' = Applied /\ ~Awaited(i)'
          /\ \A j \in Flight : /\ flights'[j].v = flights[j].v
                               /\ Awaited(j)' => j # i /\ Awaited(j)
      <3>1. flights'[i].at = "lost" /\ flights'[i].v = flights[i].v
        BY <2>1
      <3>2. ~Awaited(i)'
        BY <3>1 DEF Awaited
      <3>3. \A j \in Flight : flights'[j].at = "applied" <=> flights[j].at = "applied"
        BY <1>14, <2>1, <3>1
      <3>4. Applied' = Applied
        BY <2>1, <3>3 DEF Applied
      <3>5. \A j \in Flight : Awaited(j)' => j # i /\ Awaited(j)
        BY <2>1, <3>2 DEF Awaited
      <3> QED BY <2>1, <3>1, <3>2, <3>4, <3>5
    <2>4. PageAwaits'
      <3>1. ASSUME NEW j \in Flight', Awaited(j)'
            PROVE  /\ page' \in {"clearing", "editing", "resetting"}
                   /\ (page' = "clearing" => flights'[j].v = NoDraft)
                   /\ (page' = "editing" => flights'[j].v # NoDraft)
        BY <1>9, <2>1, <2>3, <3>1
      <3>2. ASSUME NEW j \in Flight', NEW k \in Flight', Awaited(j)', Awaited(k)',
                   flights'[j].v = NoDraft, flights'[k].v = NoDraft
            PROVE  j = k
        BY <1>1, <2>1, <2>3, <3>2 DEF PageAwaits
      <3> QED BY <3>1, <3>2 DEF PageAwaits
    <2>5. ASSUME ~muddled' PROVE (AppliedInOrder /\ DeleteIsLast /\ SentSince /\ LatestStored)'
      <3>1. AppliedInOrder'
        BY <1>10, <2>1, <2>3, <2>5 DEF AppliedInOrder
      <3>2. DeleteIsLast'
        BY <1>3, <1>10, <2>1, <2>3, <2>5 DEF DeleteIsLast
      <3>3. SentSince'
        BY <1>3, <1>10, <2>1, <2>3, <2>5 DEF SentSince
      <3>4. LatestStored'
        <4>1. \A j \in Applied : j \in Flight
          BY DEF Applied
        <4> QED BY <1>3, <1>7, <1>10, <2>3, <2>5, <4>1 DEF LatestStored
      <3> QED BY <3>1, <3>2, <3>3, <3>4
    <2> QED BY <1>12, <2>2, <2>4, <2>5 DEF IInv, DraftInv, Untouched
  <1> QED BY <1>13, <1>14 DEF Fail

LEMMA NextInv == IInv /\ [DraftNext]_draftVars => IInv'
  <1> SUFFICES ASSUME IInv, [DraftNext]_draftVars PROVE IInv'
    OBVIOUS
  <1>1. CASE UNCHANGED draftVars
    BY <1>1 DEF draftVars, IInv, DraftTypeOK, DraftInv, PageAwaits, Awaited, AppliedInOrder,
                DeleteIsLast, SentSince, LatestStored, Untouched, Applied, Flight, Alive
  <1>2. CASE Open \/ Load \/ Continue \/ (\E v \in Version : Edit(v))
    BY <1>2, QuietSteps
  <1>3. CASE StartOver \/ Reset
    BY <1>3, DeleteSteps
  <1>4. CASE Leave
    BY <1>4, LeaveStep
  <1>5. CASE Fire \/ Checkpoint
    BY <1>5, SaveSteps
  <1>6. CASE \E i \in Flight : Apply(i) \/ Saved(i) \/ Deleted(i) \/ Fail(i)
    BY <1>6, ApplyStep, SavedStep, DeletedStep, FailStep
  <1> QED BY <1>1, <1>2, <1>3, <1>4, <1>5, <1>6 DEF DraftNext

-----------------------------------------------------------------------------
(* The theorems.                                                           *)

(* The page, its requests and the row have the types the code gives them,  *)
(* and no more requests are under way than the bound allows.               *)
THEOREM DraftTypesHold == DraftSpec => []DraftTypeOK
  <1>1. IInv => DraftTypeOK
    BY DEF IInv
  <1> QED BY <1>1, InitInv, NextInv, PTL DEF DraftSpec

(* The inductive invariant: while no requests cross, the server applies    *)
(* them in the order the page sent them, nothing is sent after a DELETE,   *)
(* and the row is the last version applied.                                *)
THEOREM DraftsInOrder == DraftSpec => []DraftInv
  <1>1. IInv => DraftInv
    BY DEF IInv
  <1> QED BY <1>1, InitInv, NextInv, PTL DEF DraftSpec

(* A set of requests has a last one.                                       *)
LEMMA LastApplied ==
  ASSUME DraftTypeOK, Applied # {}
  PROVE  \E i \in Applied : \A j \in Applied : j <= i
  <1>1. Len(flights) \in Nat /\ Applied \subseteq 1..Len(flights)
    BY Typed DEF Applied
  <1> DEFINE fromEnd == {Len(flights) - i : i \in Applied}
  <1>2. fromEnd \subseteq Nat /\ fromEnd # {}
    <2>1. PICK i : i \in Applied
      OBVIOUS
    <2>2. Len(flights) - i \in fromEnd
      BY <2>1
    <2>3. \A j \in Applied : Len(flights) - j \in Nat
      BY <1>1
    <2> QED BY <2>2, <2>3
  <1>3. PICK m \in fromEnd : \A n \in fromEnd : ~(<<n, m>> \in OpToRel(<, Nat))
    BY <1>2, WFMin, NatLessThanWellFounded
  <1>4. \A n \in fromEnd : ~(n < m)
    BY <1>2, <1>3 DEF OpToRel
  <1>5. PICK i \in Applied : m = Len(flights) - i
    OBVIOUS
  <1>6. ASSUME NEW j \in Applied PROVE j <= i
    <2>1. ~(Len(flights) - j < Len(flights) - i)
      BY <1>4, <1>5
    <2> QED BY <1>1, <2>1
  <1> QED BY <1>6

(* What an open page takes for saved is in the row of drafts, or has been  *)
(* replaced there by a save of its own that is still to return.            *)
THEOREM SavedIsStored == DraftSpec => []SavedMeansStored
  <1>1. IInv => SavedMeansStored
    <2> SUFFICES ASSUME IInv, Alive, ~muddled, lastSaved # NoDraft
                 PROVE  draft \in {lastSaved} \cup
                          {flights[i].v : i \in {j \in Flight : flights[j].at = "applied"}}
      BY DEF SavedMeansStored
    <2>1. DraftTypeOK /\ LatestStored
      BY DEF IInv, DraftInv
    <2>2. CASE Applied = {}
      BY <2>1, <2>2 DEF LatestStored
    <2>3. CASE Applied # {}
      <3>1. PICK i \in Applied : \A j \in Applied : j <= i
        BY <2>1, <2>3, LastApplied
      <3>2. draft = flights[i].v
        BY <2>1, <3>1 DEF LatestStored
      <3> QED BY <3>2 DEF Applied
    <2> QED BY <2>2, <2>3
  <1> QED BY <1>1, InitInv, NextInv, PTL DEF DraftSpec

(* Work that was deleted does not come back: what is in the row was sent   *)
(* after the last delete returned.                                         *)
THEOREM DeletedWorkStays == DraftSpec => []DeletedStaysDeleted
  <1>1. IInv => DeletedStaysDeleted
    BY DEF IInv, DraftInv, SentSince, DeletedStaysDeleted
  <1> QED BY <1>1, InitInv, NextInv, PTL DEF DraftSpec
=============================================================================
