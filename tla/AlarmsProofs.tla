---------------------------- MODULE AlarmsProofs ----------------------------
(***************************************************************************)
(* The list of alarms and the timer, for any alarms, intervals and limits:  *)
(* insert_alarm and remove_alarm keep the list ordered and indexed and the  *)
(* timer set for its first alarm, so every interrupt and every call does.   *)
(***************************************************************************)
EXTENDS Alarms, SequenceTheorems, WellFoundedInduction, TLAPS

\* What the timer, and the list with it, may be.
Timers == [en : BOOLEAN, at : Int, raised : BOOLEAN, enabled : BOOLEAN]
Lists == [heap : Seq(Alarms), index : [Alarms -> Int], timer : Timers]

\* An element inserted into a sequence moves those behind it by one place.
LEMMA Inserting ==
  ASSUME NEW s \in Seq(Alarms), NEW i \in 1 .. Len(s) + 1, NEW e \in Alarms
  PROVE  /\ InsertedAt(s, i, e) \in Seq(Alarms)
         /\ Len(InsertedAt(s, i, e)) = Len(s) + 1
         /\ \A j \in 1 .. Len(s) + 1 :
              InsertedAt(s, i, e)[j] = IF j < i THEN s[j] ELSE IF j = i THEN e ELSE s[j - 1]
  <1> DEFINE front == SubSeq(s, 1, i - 1)
             back == SubSeq(s, i, Len(s))
  <1>1. front \in Seq(Alarms) /\ Len(front) = i - 1 /\ \A j \in 1 .. i - 1 : front[j] = s[j]
    BY SubSeqProperties
  <1>2. /\ back \in Seq(Alarms) /\ Len(back) = Len(s) - i + 1
        /\ \A j \in 1 .. Len(s) - i + 1 : back[j] = s[i + j - 1]
    BY SubSeqProperties
  <1> HIDE DEF front, back
  <1>3. /\ front \o <<e>> \in Seq(Alarms) /\ Len(front \o <<e>>) = i
        /\ \A j \in 1 .. i : (front \o <<e>>)[j] = IF j < i THEN s[j] ELSE e
    BY <1>1
  <1>4. InsertedAt(s, i, e) = (front \o <<e>>) \o back
    BY DEF InsertedAt, front, back
  <1>5. /\ InsertedAt(s, i, e) \in Seq(Alarms) /\ Len(InsertedAt(s, i, e)) = Len(s) + 1
        /\ \A j \in 1 .. i : InsertedAt(s, i, e)[j] = (front \o <<e>>)[j]
        /\ \A j \in i + 1 .. Len(s) + 1 : InsertedAt(s, i, e)[j] = back[j - i]
    <2> DEFINE f == front \o <<e>>
    <2>1. f \in Seq(Alarms) /\ Len(f) = i /\ back \in Seq(Alarms) /\ Len(back) = Len(s) - i + 1
      BY <1>2, <1>3
    <2> HIDE DEF f
    <2>2. /\ f \o back \in Seq(Alarms) /\ Len(f \o back) = Len(f) + Len(back)
          /\ \A k \in 1 .. Len(f) + Len(back) :
               (f \o back)[k] = IF k <= Len(f) THEN f[k] ELSE back[k - Len(f)]
      BY <2>1, ConcatProperties, Zenon
    <2>3. InsertedAt(s, i, e) = f \o back
      BY <1>4 DEF f
    <2>4. Len(f) + Len(back) = Len(s) + 1 /\ Len(f) = i
      BY <2>1
    <2>5. (\A j \in 1 .. i : InsertedAt(s, i, e)[j] = f[j])
          /\ \A j \in i + 1 .. Len(s) + 1 : InsertedAt(s, i, e)[j] = back[j - i]
      BY SMTT(30), <2>2, <2>3, <2>4
    <2> QED BY <2>2, <2>3, <2>4, <2>5 DEF f
  <1>6. \A j \in i + 1 .. Len(s) + 1 : back[j - i] = s[j - 1]
    <2> TAKE j \in i + 1 .. Len(s) + 1
    <2>1. j - i \in 1 .. Len(s) - i + 1 /\ i + (j - i) - 1 = j - 1
      OBVIOUS
    <2> QED BY <2>1, <1>2
  <1> QED BY <1>3, <1>5, <1>6

\* An element removed from a sequence moves those behind it by one place.
LEMMA Removing ==
  ASSUME NEW s \in Seq(Alarms), NEW i \in 1 .. Len(s)
  PROVE  /\ RemovedAt(s, i) \in Seq(Alarms)
         /\ Len(RemovedAt(s, i)) = Len(s) - 1
         /\ \A j \in 1 .. Len(s) - 1 : RemovedAt(s, i)[j] = IF j < i THEN s[j] ELSE s[j + 1]
  <1> DEFINE front == SubSeq(s, 1, i - 1)
             back == SubSeq(s, i + 1, Len(s))
  <1>1. front \in Seq(Alarms) /\ Len(front) = i - 1 /\ \A j \in 1 .. i - 1 : front[j] = s[j]
    BY SubSeqProperties
  <1>2. /\ back \in Seq(Alarms) /\ Len(back) = Len(s) - i
        /\ \A j \in 1 .. Len(s) - i : back[j] = s[i + j]
    BY SubSeqProperties
  <1> HIDE DEF front, back
  <1>3. RemovedAt(s, i) = front \o back
    BY DEF RemovedAt, front, back
  <1>4. /\ RemovedAt(s, i) \in Seq(Alarms) /\ Len(RemovedAt(s, i)) = Len(s) - 1
        /\ \A j \in 1 .. i - 1 : RemovedAt(s, i)[j] = front[j]
        /\ \A j \in i .. Len(s) - 1 : RemovedAt(s, i)[j] = back[j - i + 1]
    <2>1. /\ front \o back \in Seq(Alarms) /\ Len(front \o back) = Len(front) + Len(back)
          /\ \A k \in 1 .. Len(front) + Len(back) :
               (front \o back)[k] = IF k <= Len(front) THEN front[k] ELSE back[k - Len(front)]
      BY <1>1, <1>2, ConcatProperties, Zenon
    <2>2. Len(front) + Len(back) = Len(s) - 1 /\ Len(front) = i - 1
      BY <1>1, <1>2
    <2>3. \A j \in i .. Len(s) - 1 : j - (i - 1) = j - i + 1
      OBVIOUS
    <2> QED BY <2>1, <2>2, <2>3, <1>3, SMTT(30)
  <1>5. \A j \in i .. Len(s) - 1 : back[j - i + 1] = s[j + 1]
    <2> TAKE j \in i .. Len(s) - 1
    <2>1. j - i + 1 \in 1 .. Len(s) - i /\ i + (j - i + 1) = j + 1
      OBVIOUS
    <2> QED BY <2>1, <1>2
  <1> QED BY SMTT(30), <1>1, <1>4, <1>5

\* What the parts of a list are after its alarms from a place on are indexed anew.
LEMMA MovedParts ==
  ASSUME NEW lst \in Lists, NEW from \in Nat
  PROVE  /\ Moved(lst, from) \in Lists
         /\ Moved(lst, from).heap = lst.heap
         /\ Moved(lst, from).timer = lst.timer
         /\ \A a \in Alarms :
              \/ /\ \A i \in from .. Len(lst.heap) : lst.heap[i] # a
                 /\ Moved(lst, from).index[a] = lst.index[a]
              \/ \E i \in from .. Len(lst.heap) : lst.heap[i] = a /\ Moved(lst, from).index[a] = i - 1
  <1> DEFINE ix == [a \in Alarms |->
               IF \E i \in from .. Len(lst.heap) : lst.heap[i] = a
                 THEN (CHOOSE i \in from .. Len(lst.heap) : lst.heap[i] = a) - 1
                 ELSE lst.index[a]]
  <1>1. ix \in [Alarms -> Int]
    BY DEF Lists
  <1>2. Moved(lst, from) = [lst EXCEPT !.index = ix]
    BY DEF Moved
  <1>3. ASSUME NEW a \in Alarms
        PROVE  \/ /\ \A i \in from .. Len(lst.heap) : lst.heap[i] # a
                  /\ ix[a] = lst.index[a]
               \/ \E i \in from .. Len(lst.heap) : lst.heap[i] = a /\ ix[a] = i - 1
    <2> DEFINE c == CHOOSE i \in from .. Len(lst.heap) : lst.heap[i] = a
    <2>1. ix[a] = IF \E i \in from .. Len(lst.heap) : lst.heap[i] = a THEN c - 1 ELSE lst.index[a]
      BY Zenon
    <2>2. (\E i \in from .. Len(lst.heap) : lst.heap[i] = a)
            => c \in from .. Len(lst.heap) /\ lst.heap[c] = a
      BY Zenon
    <2> HIDE DEF c, ix
    <2> QED BY <2>1, <2>2
  <1> HIDE DEF ix
  <1>4. /\ Moved(lst, from).heap = lst.heap
        /\ Moved(lst, from).timer = lst.timer
        /\ Moved(lst, from).index = ix
        /\ Moved(lst, from) \in Lists
    BY <1>1, <1>2, Zenon DEF Lists
  <1> QED BY <1>3, <1>4

\* load_next_alarm sets the timer for the first alarm and leaves the list and a raised
\* interrupt alone.
LEMMA LoadParts ==
  ASSUME NEW lst \in Lists, NEW lft \in [Alarms -> Int]
  PROVE  /\ load_next_alarm(lst, lft).heap = lst.heap
         /\ load_next_alarm(lst, lft).index = lst.index
         /\ lst.heap # <<>> => /\ load_next_alarm(lst, lft).timer.en
                              /\ load_next_alarm(lst, lft).timer.at = lft[lst.heap[1]]
         /\ load_next_alarm(lst, lft).timer.raised = lst.timer.raised
         /\ load_next_alarm(lst, lft) \in Lists
  <1>1. \E b \in BOOLEAN, n \in Int :
          /\ load_next_alarm(lst, lft) = [lst EXCEPT !.timer = [@ EXCEPT !.en = b, !.at = n]]
          /\ lst.heap # <<>> => b = TRUE /\ n = lft[lst.heap[1]]
    <2>1. CASE lst.heap = <<>>
      <3>1. load_next_alarm(lst, lft) = [lst EXCEPT !.timer = [@ EXCEPT !.en = FALSE, !.at = 0]]
        BY <2>1, Zenon DEF load_next_alarm
      <3>2. 0 \in Int
        OBVIOUS
      <3> QED BY <2>1, <3>1, <3>2, Zenon
    <2>2. CASE lst.heap # <<>>
      <3>1. load_next_alarm(lst, lft) =
              [lst EXCEPT !.timer = [@ EXCEPT !.en = TRUE, !.at = lft[Head(lst.heap)]]]
        BY <2>2, Zenon DEF load_next_alarm
      <3>2. Head(lst.heap) = lst.heap[1] /\ lft[lst.heap[1]] \in Int
        BY <2>2 DEF Lists
      <3> QED BY <3>1, <3>2, Zenon
    <2> QED BY <2>1, <2>2, Zenon
  <1>2. PICK b \in BOOLEAN, n \in Int :
          /\ load_next_alarm(lst, lft) = [lst EXCEPT !.timer = [@ EXCEPT !.en = b, !.at = n]]
          /\ lst.heap # <<>> => b = TRUE /\ n = lft[lst.heap[1]]
    BY <1>1, Zenon
  <1>3. PICK t \in Timers : t = [lst.timer EXCEPT !.en = b, !.at = n]
    BY Zenon DEF Timers, Lists
  <1>4. t.en = b /\ t.at = n /\ t.raised = lst.timer.raised
    BY <1>3 DEF Timers, Lists
  <1>5. load_next_alarm(lst, lft) = [lst EXCEPT !.timer = t]
    BY <1>2, <1>3
  <1>6. /\ load_next_alarm(lst, lft).heap = lst.heap
        /\ load_next_alarm(lst, lft).index = lst.index
        /\ load_next_alarm(lst, lft).timer = t
        /\ load_next_alarm(lst, lft) \in Lists
    BY <1>5, Zenon DEF Lists
  <1> QED BY <1>2, <1>4, <1>6

-----------------------------------------------------------------------------
\* HeapConsistent and TimerServesFirst, of any list of n alarms and times.
Indexed(n, hp, ix) ==
  /\ \A i \in 1 .. n : ix[hp[i]] = i - 1
  /\ \A a \in Alarms : ix[a] # -1 => ix[a] \in 0 .. n - 1 /\ hp[ix[a] + 1] = a

Ordered(n, hp, lft) == \A i, j \in 1 .. n : i <= j => lft[hp[i]] <= lft[hp[j]]

Serves(lst, lft) ==
  lst.heap # <<>> => lst.timer.raised \/ (lst.timer.en /\ lst.timer.at = lft[lst.heap[1]])

Sound(lst, lft) ==
  /\ lst \in Lists
  /\ Indexed(Len(lst.heap), lst.heap, lst.index)
  /\ Ordered(Len(lst.heap), lst.heap, lft)

\* An index that is right before a place, and what the loops make of it.
IndexedBefore(n, hp, old, from) ==
  /\ \A i, j \in 1 .. n : hp[i] = hp[j] => i = j
  /\ \A k \in 1 .. from - 1 : old[hp[k]] = k - 1
  /\ \A b \in Alarms : (\A k \in 1 .. n : hp[k] # b) => old[b] = -1

IndexedFrom(n, hp, old, new, from) ==
  \A a \in Alarms : \/ (\A i \in from .. n : hp[i] # a) /\ new[a] = old[a]
                    \/ \E i \in from .. n : hp[i] = a /\ new[a] = i - 1

\* The loops over the alarms behind a place restore what the places before it still have.
LEMMA MovedIndexed ==
  ASSUME NEW n \in Nat, NEW hp \in [1 .. n -> Alarms],
         NEW old \in [Alarms -> Int], NEW new \in [Alarms -> Int], NEW from \in 1 .. n + 1,
         IndexedBefore(n, hp, old, from), IndexedFrom(n, hp, old, new, from)
  PROVE  Indexed(n, hp, new)
  <1> USE DEF IndexedBefore, IndexedFrom
  <1>1. ASSUME NEW k \in 1 .. n PROVE new[hp[k]] = k - 1
    <2>1. hp[k] \in Alarms
      OBVIOUS
    <2>2. CASE \E i \in from .. n : hp[i] = hp[k] /\ new[hp[k]] = i - 1
      BY <2>2
    <2>3. CASE (\A i \in from .. n : hp[i] # hp[k]) /\ new[hp[k]] = old[hp[k]]
      <3>1. k \in 1 .. from - 1
        BY <2>3
      <3> QED BY <3>1, <2>3
    <2> QED BY <2>1, <2>2, <2>3
  <1>2. ASSUME NEW a \in Alarms, new[a] # -1
        PROVE  new[a] \in 0 .. n - 1 /\ hp[new[a] + 1] = a
    <2>1. PICK k \in 1 .. n : hp[k] = a
      <3>1. CASE \E i \in from .. n : hp[i] = a
        <4>1. PICK i \in from .. n : hp[i] = a
          BY <3>1
        <4>2. i \in 1 .. n
          OBVIOUS
        <4> QED BY <4>1, <4>2
      <3>2. CASE ~\E i \in from .. n : hp[i] = a
        <4>1. old[a] # -1
          BY <3>2, <1>2
        <4> QED BY <4>1
      <3> QED BY <3>1, <3>2
    <2>2. new[a] = k - 1
      BY <2>1, <1>1
    <2> QED BY <2>1, <2>2
  <1> QED BY <1>1, <1>2 DEF Indexed

\* An alarm that is not on the list has no index.
LEMMA UnlistedHasNone ==
  ASSUME NEW n \in Nat, NEW hp \in [1 .. n -> Alarms], NEW ix \in [Alarms -> Int], Indexed(n, hp, ix),
         NEW b \in Alarms, \A k \in 1 .. n : hp[k] # b
  PROVE  ix[b] = -1
  <1> DEFINE x == ix[b]
  <1>1. x # -1 => x \in 0 .. n - 1 /\ hp[x + 1] = b
    BY DEF Indexed
  <1>2. x \in Int
    OBVIOUS
  <1> HIDE DEF x
  <1>3. x = -1
    BY <1>1, <1>2
  <1> QED BY <1>3 DEF x

\* A list without its p-th alarm: what remains is ordered, and the places before p hold.
LEMMA RemovedFacts ==
  ASSUME NEW n \in Nat, NEW hp \in [1 .. n -> Alarms],
         NEW m \in Nat, NEW nh \in [1 .. m -> Alarms], NEW p \in 1 .. n,
         m = n - 1,
         \A j \in 1 .. n - 1 : nh[j] = IF j < p THEN hp[j] ELSE hp[j + 1],
         NEW ix \in [Alarms -> Int], Indexed(n, hp, ix),
         NEW lft \in [Alarms -> Int], Ordered(n, hp, lft)
  PROVE  /\ \A j \in 1 .. m : nh[j] # hp[p]
         /\ \A i, j \in 1 .. m : nh[i] = nh[j] => i = j
         /\ \A k \in 1 .. p - 1 : nh[k] = hp[k] /\ ix[nh[k]] = k - 1
         /\ \A b \in Alarms : b # hp[p] /\ (\A k \in 1 .. m : nh[k] # b) => ix[b] = -1
         /\ Ordered(m, nh, lft)
  <1> DEFINE Old(j) == IF j < p THEN j ELSE j + 1
  <1>1. \A j \in 1 .. m : Old(j) \in 1 .. n /\ Old(j) # p /\ nh[j] = hp[Old(j)]
    OBVIOUS
  <1>2. \A j, k \in 1 .. m : (Old(j) = Old(k) => j = k) /\ (j <= k => Old(j) <= Old(k))
    BY SMTT(30)
  <1>3. \A j, k \in 1 .. n : hp[j] = hp[k] => j = k
    BY DEF Indexed
  <1>4. ASSUME NEW b \in Alarms, b # hp[p], \A k \in 1 .. m : nh[k] # b
        PROVE  ix[b] = -1
    <2>1. ASSUME ix[b] # -1 PROVE FALSE
      <3>1. PICK q \in 1 .. n : hp[q] = b
        <4>1. ix[b] \in 0 .. n - 1 /\ hp[ix[b] + 1] = b
          BY <2>1 DEF Indexed
        <4> DEFINE x == ix[b]
        <4>2. x \in 0 .. n - 1 /\ hp[x + 1] = b
          BY <4>1
        <4> HIDE DEF x
        <4>3. x + 1 \in 1 .. n
          BY <4>2
        <4> QED BY <4>2, <4>3
      <3>2. CASE q < p
        <4>1. q \in 1 .. m /\ nh[q] = hp[q]
          BY <3>2
        <4> QED BY <4>1, <3>1, <1>4
      <3>3. CASE q > p
        <4>1. q - 1 \in 1 .. m /\ nh[q - 1] = hp[q - 1 + 1] /\ q - 1 + 1 = q
          BY <3>3
        <4> QED BY <4>1, <3>1, <1>4
      <3> QED BY <3>1, <3>2, <3>3, <1>4
    <2> QED BY <2>1
  <1>5. \A k \in 1 .. p - 1 : nh[k] = hp[k] /\ ix[nh[k]] = k - 1
    BY SMTT(30) DEF Indexed
  <1> HIDE DEF Old
  <1>6. \A j \in 1 .. m : nh[j] # hp[p]
    BY <1>1, <1>3
  <1>7. \A i, j \in 1 .. m : nh[i] = nh[j] => i = j
    BY SMTT(30), <1>1, <1>2, <1>3
  <1>8. Ordered(m, nh, lft)
    BY SMTT(30), <1>1, <1>2 DEF Ordered
  <1> QED BY <1>4, <1>5, <1>6, <1>7, <1>8

\* nh is hp with e at place p, and p is before the first alarm that is not earlier than e.
Spread(n, hp, m, nh, p, e) ==
  /\ m = n + 1
  /\ \A j \in 1 .. n + 1 : nh[j] = IF j < p THEN hp[j] ELSE IF j = p THEN e ELSE hp[j - 1]

Fits(n, hp, lft, p, e) ==
  /\ \A j \in 1 .. p - 1 : lft[e] > lft[hp[j]]
  /\ p <= n => lft[e] <= lft[hp[p]]

\* A list with an alarm more where it fits: it is ordered, and the places before hold.
LEMMA InsertedFacts ==
  ASSUME NEW n \in Nat, NEW hp \in [1 .. n -> Alarms],
         NEW m \in Nat, NEW nh \in [1 .. m -> Alarms], NEW p \in 1 .. n + 1,
         NEW e \in Alarms, Spread(n, hp, m, nh, p, e),
         NEW ix \in [Alarms -> Int], Indexed(n, hp, ix), ix[e] = -1,
         NEW lft \in [Alarms -> Int], Ordered(n, hp, lft), Fits(n, hp, lft, p, e)
  PROVE  /\ \A i, j \in 1 .. m : nh[i] = nh[j] => i = j
         /\ \A k \in 1 .. p - 1 : nh[k] = hp[k] /\ ix[nh[k]] = k - 1
         /\ \A b \in Alarms : (\A k \in 1 .. m : nh[k] # b) => ix[b] = -1
         /\ Ordered(m, nh, lft)
  <1> USE DEF Spread, Fits
  <1> DEFINE Old(j) == IF j < p THEN j ELSE j - 1
  <1>0. nh[p] = e /\ p \in 1 .. m
    OBVIOUS
  <1>1. \A j \in 1 .. m : j # p => Old(j) \in 1 .. n /\ nh[j] = hp[Old(j)]
    OBVIOUS
  <1>2. \A j, k \in 1 .. m : j # p /\ k # p => (Old(j) = Old(k) => j = k) /\ (j <= k => Old(j) <= Old(k))
    BY SMTT(30)
  <1>3. /\ \A j, k \in 1 .. n : hp[j] = hp[k] => j = k
        /\ \A j \in 1 .. n : hp[j] # e
    BY SMTT(30) DEF Indexed
  <1>4. \A j \in 1 .. n : j >= p => lft[e] <= lft[hp[j]]
    <2> TAKE j \in 1 .. n
    <2> HAVE j >= p
    <2>1. p \in 1 .. n /\ lft[hp[p]] <= lft[hp[j]] /\ lft[e] <= lft[hp[p]]
      BY SMTT(30) DEF Ordered
    <2>2. lft[e] \in Int /\ lft[hp[p]] \in Int /\ lft[hp[j]] \in Int
      BY <2>1
    <2> QED BY <2>1, <2>2, SMTT(30)
  <1>5. ASSUME NEW b \in Alarms, \A k \in 1 .. m : nh[k] # b
        PROVE  ix[b] = -1
    <2>1. ASSUME ix[b] # -1 PROVE FALSE
      <3>1. PICK q \in 1 .. n : hp[q] = b
        <4>1. ix[b] \in 0 .. n - 1 /\ hp[ix[b] + 1] = b
          BY <2>1 DEF Indexed
        <4> DEFINE x == ix[b]
        <4>2. x \in 0 .. n - 1 /\ hp[x + 1] = b
          BY <4>1
        <4> HIDE DEF x
        <4>3. x + 1 \in 1 .. n
          BY <4>2
        <4> QED BY <4>2, <4>3
      <3>2. CASE q < p
        <4>1. q \in 1 .. m /\ nh[q] = hp[q]
          BY <3>2
        <4> QED BY <4>1, <3>1, <1>5
      <3>3. CASE q >= p
        <4>1. q + 1 \in 1 .. m /\ nh[q + 1] = hp[q + 1 - 1] /\ q + 1 - 1 = q
          BY <3>3
        <4> QED BY <4>1, <3>1, <1>5
      <3> QED BY <3>1, <3>2, <3>3
    <2> QED BY <2>1
  <1>6. \A k \in 1 .. p - 1 : nh[k] = hp[k] /\ ix[nh[k]] = k - 1
    BY SMTT(30) DEF Indexed
  <1>7. \A j \in 1 .. m : (j < p => Old(j) = j) /\ (j > p => Old(j) >= p)
    OBVIOUS
  <1> HIDE DEF Old
  <1>8. \A i, j \in 1 .. m : nh[i] = nh[j] => i = j
    <2> TAKE i, j \in 1 .. m
    <2>1. CASE i = p \/ j = p
      BY <2>1, <1>0, <1>1, <1>3, SMTT(30)
    <2>2. CASE i # p /\ j # p
      BY <2>2, <1>1, <1>2, <1>3
    <2> QED BY <2>1, <2>2
  <1>9. Ordered(m, nh, lft)
    <2> SUFFICES ASSUME NEW j \in 1 .. m, NEW k \in 1 .. m, j <= k
                 PROVE  lft[nh[j]] <= lft[nh[k]]
      BY DEF Ordered
    <2>1. CASE j # p /\ k # p
      BY <2>1, <1>1, <1>2, SMTT(30) DEF Ordered
    <2>2. CASE j = p /\ k # p
      BY <2>2, <1>0, <1>1, <1>4, <1>7
    <2>3. CASE j # p /\ k = p
      <3>1. j \in 1 .. p - 1 /\ nh[j] = hp[j] /\ hp[j] \in Alarms
        BY <2>3, <1>6, SMTT(30)
      <3>2. lft[e] > lft[hp[j]] /\ lft[e] \in Int /\ lft[hp[j]] \in Int
        BY <3>1
      <3> QED BY <3>1, <3>2, <2>3, <1>0
    <2>4. CASE j = p /\ k = p
      BY <2>4, <1>0
    <2> QED BY SMTT(30), <2>1, <2>2, <2>3, <2>4
  <1> QED BY <1>5, <1>6, <1>8, <1>9

\* What remove_alarm leaves is in order, without the alarm, and the timer serves its first.
LEMMA RemoveSound ==
  ASSUME NEW lst, NEW lft \in [Alarms -> Int], Sound(lst, lft), NEW i \in 0 .. Len(lst.heap) - 1
  PROVE  /\ Sound(remove_alarm(lst, lft, i), lft)
         /\ remove_alarm(lst, lft, i).index[lst.heap[i + 1]] = -1
         /\ i = 0 \/ Serves(lst, lft) => Serves(remove_alarm(lst, lft, i), lft)
  <1> DEFINE hp == lst.heap
             ix == lst.index
             a == hp[i + 1]
             nh == RemovedAt(hp, i + 1)
             ni == [ix EXCEPT ![a] = -1]
             cut == [lst EXCEPT !.index = ni, !.heap = nh]
             r == Moved(cut, i + 1)
  <1>0. /\ lst \in Lists /\ Indexed(Len(hp), hp, ix) /\ Ordered(Len(hp), hp, lft)
        /\ hp \in Seq(Alarms) /\ ix \in [Alarms -> Int] /\ i + 1 \in 1 .. Len(hp) /\ a \in Alarms
    BY DEF Sound, Lists
  <1>1. /\ nh \in Seq(Alarms) /\ Len(nh) = Len(hp) - 1
        /\ \A j \in 1 .. Len(hp) - 1 : nh[j] = IF j < i + 1 THEN hp[j] ELSE hp[j + 1]
    BY <1>0, Removing, Zenon
  <1>2. remove_alarm(lst, lft, i) = IF i = 0 THEN load_next_alarm(r, lft) ELSE r
    BY DEF remove_alarm
  <1>3. cut \in Lists /\ cut.heap = nh /\ cut.timer = lst.timer /\ cut.index = ni
    <2>1. ni \in [Alarms -> Int]
      BY <1>0
    <2> HIDE DEF ni, nh
    <2> QED BY <2>1, <1>0, <1>1, Zenon DEF Lists
  <1> HIDE DEF cut, nh, ni
  <1>4. /\ \A j \in 1 .. Len(nh) : nh[j] # a
        /\ \A j, k \in 1 .. Len(nh) : nh[j] = nh[k] => j = k
        /\ \A k \in 1 .. (i + 1) - 1 : nh[k] = hp[k] /\ ix[nh[k]] = k - 1
        /\ \A b \in Alarms : b # a /\ (\A k \in 1 .. Len(nh) : nh[k] # b) => ix[b] = -1
        /\ Ordered(Len(nh), nh, lft)
    <2>1. /\ Len(hp) \in Nat /\ hp \in [1 .. Len(hp) -> Alarms]
          /\ Len(nh) \in Nat /\ nh \in [1 .. Len(nh) -> Alarms]
      BY SMTT(30), <1>0, <1>1
    <2> HIDE DEF hp, ix
    <2> QED BY <2>1, <1>0, <1>1, RemovedFacts, Zenon
  <1>5. /\ r \in Lists /\ r.heap = nh /\ r.timer = lst.timer
        /\ \A b \in Alarms : \/ (\A k \in i + 1 .. Len(nh) : nh[k] # b) /\ r.index[b] = ni[b]
                            \/ \E k \in i + 1 .. Len(nh) : nh[k] = b /\ r.index[b] = k - 1
    <2>1. i + 1 \in Nat
      BY <1>0
    <2> QED BY <2>1, <1>3, MovedParts, ZenonT(30)
  <1> HIDE DEF r
  <1>6. Indexed(Len(nh), nh, r.index)
    <2>1. \A b \in Alarms : ni[b] = IF b = a THEN -1 ELSE ix[b]
      BY <1>0 DEF ni
    <2>2. \A k \in 1 .. (i + 1) - 1 : ni[nh[k]] = k - 1
      <3> TAKE k \in 1 .. (i + 1) - 1
      <3>1. k \in 1 .. Len(nh)
        BY <1>0, <1>1
      <3> HIDE DEF hp
      <3>2. nh[k] \in Alarms
        BY <3>1, <1>1
      <3> QED BY <3>1, <3>2, <2>1, <1>4, Zenon
    <2>3. \A b \in Alarms : (\A k \in 1 .. Len(nh) : nh[k] # b) => ni[b] = -1
      BY <2>1, <1>4
    <2>4. /\ Len(nh) \in Nat /\ nh \in [1 .. Len(nh) -> Alarms] /\ i + 1 \in 1 .. Len(nh) + 1
          /\ ni \in [Alarms -> Int]
      BY <1>0, <1>1 DEF ni
    <2>5. r.index \in [Alarms -> Int]
      BY <1>5 DEF Lists
    <2> DEFINE n == Len(nh)
               new == r.index
               p == i + 1
    <2>6. /\ n \in Nat /\ nh \in [1 .. n -> Alarms] /\ p \in 1 .. n + 1
          /\ ni \in [Alarms -> Int] /\ new \in [Alarms -> Int]
          /\ IndexedBefore(n, nh, ni, p) /\ IndexedFrom(n, nh, ni, new, p)
      BY <2>2, <2>3, <2>4, <2>5, <1>4, <1>5 DEF IndexedBefore, IndexedFrom
    <2> HIDE DEF n, new, p, a, hp, ix
    <2>7. Indexed(n, nh, new)
      BY <2>6, MovedIndexed, Zenon
    <2> QED BY <2>7 DEF n, new
  <1>7. Sound(r, lft)
    BY <1>4, <1>5, <1>6 DEF Sound
  <1>8. r.index[a] = -1
    <2> DEFINE n == Len(nh)
               new == r.index
    <2>1. n \in Nat /\ new \in [Alarms -> Int] /\ Indexed(n, nh, new) /\ \A k \in 1 .. n : nh[k] # a
      BY <1>1, <1>4, <1>5, <1>6 DEF Lists
    <2>2. nh \in [1 .. n -> Alarms] /\ a \in Alarms
      BY SMTT(30), <1>0, <1>1
    <2> HIDE DEF n, new, a, hp
    <2>3. new[a] = -1
      BY <2>1, <2>2, UnlistedHasNone, ZenonT(30)
    <2> QED BY <2>3 DEF new
  <1>9. CASE i = 0
    <2>1. remove_alarm(lst, lft, i) = load_next_alarm(r, lft)
      BY <1>2, <1>9
    <2> QED BY <2>1, <1>5, <1>7, <1>8, LoadParts DEF Sound, Serves
  <1>10. CASE i # 0
    <2>1. remove_alarm(lst, lft, i) = r
      BY <1>2, <1>10
    <2>2. hp # <<>> /\ nh[1] = hp[1]
      BY <1>0, <1>4, <1>10
    <2> QED BY <2>1, <2>2, <1>5, <1>7, <1>8, <1>10 DEF Serves
  <1> QED BY <1>9, <1>10

\* A set of natural numbers has a least one.
LEMMA Least ==
  ASSUME NEW T \in SUBSET Nat, T # {}
  PROVE  \E x \in T : \A y \in T : x <= y
  <1> DEFINE R == {ss \in Nat \X Nat : ss[1] < ss[2]}
  <1>1. IsWellFoundedOn(R, Nat)
    <2>1. R = OpToRel(<, Nat)
      BY Zenon DEF OpToRel
    <2> QED BY <2>1, NatLessThanWellFounded, Zenon
  <1>2. PICK x \in T : \A y \in T : ~(<<y, x>> \in R)
    <2> HIDE DEF R
    <2> QED BY <1>1, WFMin, Zenon
  <1>3. ASSUME NEW y \in T PROVE x <= y
    <2>1. ~(y < x)
      BY <1>2, Zenon
    <2> QED BY <2>1
  <1> QED BY <1>3

\* The loop of insert_alarm ends at a place: before the first alarm that is not earlier, or
\* behind them all.
LEMMA PlaceFound ==
  ASSUME NEW hp \in Seq(Alarms), NEW lft \in [Alarms -> Int], NEW a \in Alarms
  PROVE  /\ Place(hp, lft, a) \in 1 .. Len(hp) + 1
         /\ \A j \in 1 .. Place(hp, lft, a) - 1 : lft[a] > lft[hp[j]]
         /\ Place(hp, lft, a) <= Len(hp) => lft[a] <= lft[hp[Place(hp, lft, a)]]
  <1> DEFINE n == Len(hp)
             T == {i \in 1 .. n + 1 : i <= n => lft[a] <= lft[hp[i]]}
             Fit(i) == /\ \A j \in 1 .. i - 1 : lft[a] > lft[hp[j]]
                       /\ i <= n => lft[a] <= lft[hp[i]]
  <1>1. T \in SUBSET Nat /\ n + 1 \in T
    OBVIOUS
  <1>2. PICK x \in T : \A y \in T : x <= y
    <2> HIDE DEF T
    <2> QED BY <1>1, Least, Zenon
  <1>3. x \in 1 .. n + 1 /\ (x <= n => lft[a] <= lft[hp[x]])
    OBVIOUS
  <1>4. ASSUME NEW j \in 1 .. x - 1 PROVE lft[a] > lft[hp[j]]
    <2>1. j \in 1 .. n /\ j \notin T
      BY <1>2, <1>3
    <2>2. ~(lft[a] <= lft[hp[j]]) /\ lft[a] \in Int /\ lft[hp[j]] \in Int
      BY <2>1
    <2> QED BY <2>2
  <1>5. \E i \in 1 .. n + 1 : Fit(i)
    BY <1>3, <1>4
  <1>6. Place(hp, lft, a) = CHOOSE i \in 1 .. n + 1 : Fit(i)
    BY DEF Place
  <1> HIDE DEF Fit
  <1>7. Place(hp, lft, a) \in 1 .. n + 1 /\ Fit(Place(hp, lft, a))
    BY <1>5, <1>6, Zenon
  <1> QED BY <1>7 DEF Fit

\* What insert_alarm leaves is in order, and the timer serves its first alarm.
LEMMA InsertSound ==
  ASSUME NEW lst, NEW lft \in [Alarms -> Int], Sound(lst, lft), NEW a \in Alarms, lst.index[a] = -1
  PROVE  /\ Sound(insert_alarm(lst, lft, a), lft)
         /\ Serves(lst, lft) => Serves(insert_alarm(lst, lft, a), lft)
  <1> DEFINE hp == lst.heap
             ix == lst.index
             p == Place(hp, lft, a)
             nh == InsertedAt(hp, p, a)
             put == [lst EXCEPT !.heap = nh]
             r == Moved(put, p)
  <1>0. /\ lst \in Lists /\ Indexed(Len(hp), hp, ix) /\ Ordered(Len(hp), hp, lft)
        /\ hp \in Seq(Alarms) /\ ix \in [Alarms -> Int]
    BY DEF Sound, Lists
  <1>1. /\ p \in 1 .. Len(hp) + 1 /\ \A j \in 1 .. p - 1 : lft[a] > lft[hp[j]]
        /\ p <= Len(hp) => lft[a] <= lft[hp[p]]
    <2> HIDE DEF hp
    <2> QED BY <1>0, PlaceFound, Zenon
  <1>2. insert_alarm(lst, lft, a) = IF p = 1 THEN load_next_alarm(r, lft) ELSE r
    BY DEF insert_alarm
  <1> HIDE DEF p
  <1>3. /\ nh \in Seq(Alarms) /\ Len(nh) = Len(hp) + 1
        /\ \A j \in 1 .. Len(hp) + 1 : nh[j] = IF j < p THEN hp[j] ELSE IF j = p THEN a ELSE hp[j - 1]
    <2> HIDE DEF hp
    <2> QED BY <1>0, <1>1, Inserting
  <1> HIDE DEF nh
  <1>4. put \in Lists /\ put.heap = nh /\ put.timer = lst.timer /\ put.index = ix
    BY <1>0, <1>3, Zenon DEF Lists
  <1> HIDE DEF put
  <1>5. /\ r \in Lists /\ r.heap = nh /\ r.timer = lst.timer
        /\ IndexedFrom(Len(nh), nh, ix, r.index, p)
    <2>1. p \in Nat
      BY <1>0, <1>1
    <2> HIDE DEF hp, ix
    <2>2. /\ r \in Lists /\ r.heap = nh /\ r.timer = lst.timer
          /\ \A b \in Alarms : \/ (\A k \in p .. Len(nh) : nh[k] # b) /\ r.index[b] = ix[b]
                              \/ \E k \in p .. Len(nh) : nh[k] = b /\ r.index[b] = k - 1
      BY <2>1, <1>4, MovedParts, ZenonT(30)
    <2> QED BY <2>2, Zenon DEF IndexedFrom
  <1> HIDE DEF r
  <1>6. /\ \A j, k \in 1 .. Len(nh) : nh[j] = nh[k] => j = k
        /\ \A k \in 1 .. p - 1 : nh[k] = hp[k] /\ ix[nh[k]] = k - 1
        /\ \A b \in Alarms : (\A k \in 1 .. Len(nh) : nh[k] # b) => ix[b] = -1
        /\ Ordered(Len(nh), nh, lft)
    <2>1. /\ Len(hp) \in Nat /\ hp \in [1 .. Len(hp) -> Alarms]
          /\ Len(nh) \in Nat /\ nh \in [1 .. Len(nh) -> Alarms]
      BY SMTT(30), <1>0, <1>3
    <2>2. ix[a] = -1
      OBVIOUS
    <2> DEFINE n == Len(hp)
               m == Len(nh)
    <2> HIDE DEF hp, ix
    <2>3. /\ n \in Nat /\ hp \in [1 .. n -> Alarms] /\ m \in Nat /\ nh \in [1 .. m -> Alarms]
          /\ p \in 1 .. n + 1 /\ Indexed(n, hp, ix) /\ Ordered(n, hp, lft)
          /\ Spread(n, hp, m, nh, p, a) /\ Fits(n, hp, lft, p, a)
      BY <2>1, <1>0, <1>1, <1>3 DEF Spread, Fits
    <2> HIDE DEF n, m
    <2> SUFFICES /\ \A j, k \in 1 .. m : nh[j] = nh[k] => j = k
                 /\ \A k \in 1 .. p - 1 : nh[k] = hp[k] /\ ix[nh[k]] = k - 1
                 /\ \A b \in Alarms : (\A k \in 1 .. m : nh[k] # b) => ix[b] = -1
                 /\ Ordered(m, nh, lft)
      BY DEF m
    <2> QED BY <2>2, <2>3, <1>0, InsertedFacts, Zenon
  <1>7. Indexed(Len(nh), nh, r.index)
    <2> DEFINE n == Len(nh)
               new == r.index
    <2>1. /\ n \in Nat /\ nh \in [1 .. n -> Alarms] /\ p \in 1 .. n + 1
          /\ ix \in [Alarms -> Int] /\ new \in [Alarms -> Int]
      BY SMTT(30), <1>0, <1>1, <1>3, <1>5 DEF Lists
    <2>2. IndexedBefore(n, nh, ix, p) /\ IndexedFrom(n, nh, ix, new, p)
      BY <1>5, <1>6 DEF IndexedBefore
    <2> HIDE DEF n, new, hp, ix
    <2>3. Indexed(n, nh, new)
      BY <2>1, <2>2, MovedIndexed, Zenon
    <2> QED BY <2>3 DEF n, new
  <1>8. Sound(r, lft)
    BY SMTT(30), <1>5, <1>6, <1>7 DEF Sound
  <1>9. CASE p = 1
    <2>1. insert_alarm(lst, lft, a) = load_next_alarm(r, lft)
      BY <1>2, <1>9
    <2> QED BY <2>1, <1>5, <1>8, LoadParts DEF Sound, Serves
  <1>10. CASE p # 1
    <2>1. insert_alarm(lst, lft, a) = r
      BY <1>2, <1>10
    <2>2. hp # <<>> /\ nh[1] = hp[1]
      BY <1>0, <1>1, <1>6, <1>10
    <2> QED BY <2>1, <2>2, <1>5, <1>8 DEF Serves
  <1> QED BY <1>9, <1>10

\* The time of an alarm that is not on the list does not matter.
LEMMA UnlistedTime ==
  ASSUME NEW lst, NEW lft \in [Alarms -> Int], Sound(lst, lft), NEW a \in Alarms, lst.index[a] = -1,
         NEW x \in Int
  PROVE  /\ [lft EXCEPT ![a] = x] \in [Alarms -> Int]
         /\ Sound(lst, [lft EXCEPT ![a] = x])
         /\ Serves(lst, lft) => Serves(lst, [lft EXCEPT ![a] = x])
  <1> DEFINE hp == lst.heap
             new == [lft EXCEPT ![a] = x]
  <1>1. hp \in Seq(Alarms) /\ Len(hp) \in Nat /\ lst \in Lists /\ Indexed(Len(hp), hp, lst.index)
    BY DEF Sound, Lists
  <1>2. \A i \in 1 .. Len(hp) : hp[i] # a /\ hp[i] \in Alarms
    BY <1>1 DEF Indexed
  <1>3. \A i \in 1 .. Len(hp) : new[hp[i]] = lft[hp[i]]
    BY <1>2
  <1>4. Ordered(Len(hp), hp, new)
    BY <1>1, <1>3 DEF Ordered, Sound
  <1>5. hp # <<>> => new[hp[1]] = lft[hp[1]]
    BY <1>1, <1>3
  <1> HIDE DEF new
  <1>6. Sound(lst, new) /\ (Serves(lst, lft) => Serves(lst, new))
    BY <1>1, <1>4, <1>5 DEF Sound, Serves
  <1> QED BY <1>6 DEF new

\* An alarm that may be on the list, taken off.
Off(lst, lft, a) == IF lst.index[a] # -1 THEN remove_alarm(lst, lft, lst.index[a]) ELSE lst

\* What is left then is in order, and the timer serves its first alarm.
LEMMA OffSound ==
  ASSUME NEW lst, NEW lft \in [Alarms -> Int], Sound(lst, lft), NEW a \in Alarms
  PROVE  /\ Sound(Off(lst, lft, a), lft)
         /\ Off(lst, lft, a).index[a] = -1
         /\ Serves(lst, lft) => Serves(Off(lst, lft, a), lft)
  <1>1. CASE lst.index[a] = -1
    BY <1>1 DEF Off
  <1>2. CASE lst.index[a] # -1
    <2> DEFINE i == lst.index[a]
    <2>1. i \in 0 .. Len(lst.heap) - 1 /\ lst.heap[i + 1] = a /\ Off(lst, lft, a) = remove_alarm(lst, lft, i)
      BY <1>2 DEF Sound, Indexed, Off
    <2> HIDE DEF i
    <2>2. /\ Sound(remove_alarm(lst, lft, i), lft)
          /\ remove_alarm(lst, lft, i).index[lst.heap[i + 1]] = -1
          /\ i = 0 \/ Serves(lst, lft) => Serves(remove_alarm(lst, lft, i), lft)
      BY <2>1, RemoveSound
    <2> QED BY <2>1, <2>2
  <1> QED BY <1>1, <1>2

-----------------------------------------------------------------------------
\* The list is in order with every index right, and the timer serves its first alarm, also
\* while a soft reset has masked the interrupt.
AlarmInv ==
  /\ left \in [Alarms -> Int]
  /\ op \in Alarms \cup {"no"}
  /\ Sound(List, left)
  /\ Serves(List, left)

\* Become stores a list.
LEMMA Becomes ==
  ASSUME NEW lst \in Lists, Become(lst) PROVE List' = lst
  BY DEF Become, List, Lists

\* machtimer_init0 begins with an empty list.
LEMMA InvInit == Init => AlarmInv
  <1> SUFFICES ASSUME Init PROVE AlarmInv
    OBVIOUS
  <1> USE DEF Init
  <1>1. timer \in Timers
    BY DEF Timers
  <1>2. /\ List \in Lists /\ List.heap = <<>> /\ Len(List.heap) = 0
        /\ List.index = [a \in Alarms |-> -1] /\ left \in [Alarms -> Int]
    BY <1>1 DEF List, Lists
  <1>3. Sound(List, left) /\ Serves(List, left)
    BY <1>2 DEF Sound, Serves, Indexed, Ordered
  <1> QED BY <1>2, <1>3 DEF AlarmInv

\* The counter brings all alarms on the list and the compare value nearer alike.
LEMMA TickInv == AlarmInv /\ Tick => AlarmInv'
  <1> SUFFICES ASSUME AlarmInv, Tick PROVE AlarmInv'
    OBVIOUS
  <1>1. /\ left \in [Alarms -> Int] /\ heap \in Seq(Alarms) /\ index \in [Alarms -> Int] /\ timer \in Timers
        /\ Indexed(Len(heap), heap, index) /\ Ordered(Len(heap), heap, left)
        /\ heap # <<>> => timer.raised \/ (timer.en /\ timer.at = left[heap[1]])
    <2>1. List.heap = heap /\ List.index = index /\ List.timer = timer /\ List \in Lists
      BY DEF AlarmInv, Sound, List
    <2> QED BY <2>1 DEF AlarmInv, Sound, Serves, Lists
  <1>2. /\ heap' = heap /\ index' = index /\ op' = op /\ ~timer.raised
        /\ left' = [a \in Alarms |-> IF index[a] # -1 THEN left[a] - 1 ELSE left[a]]
    BY DEF Tick
  <1>3. PICK n \in Int : timer' = [timer EXCEPT !.at = n] /\ (timer.en => n = timer.at - 1)
    <2>1. timer.at \in Int
      BY <1>1 DEF Timers
    <2>2. CASE timer.en
      <3>1. timer' = [timer EXCEPT !.at = timer.at - 1] /\ timer.at - 1 \in Int
        BY <2>1, <2>2 DEF Tick
      <3> QED BY <3>1, Zenon
    <2>3. CASE ~timer.en
      <3>1. timer' = [timer EXCEPT !.at = timer.at]
        BY <2>3 DEF Tick
      <3> QED BY <3>1, <2>1, <2>3, Zenon
    <2> QED BY <2>2, <2>3
  <1>4. timer' \in Timers /\ timer'.at = n /\ timer'.en = timer.en
    BY <1>1, <1>3, Zenon DEF Timers
  <1>5. \A i \in 1 .. Len(heap) : heap[i] \in Alarms /\ left'[heap[i]] = left[heap[i]] - 1
    BY <1>1, <1>2 DEF Indexed
  <1>6. Ordered(Len(heap), heap, left')
    BY <1>1, <1>5, SMTT(30) DEF Ordered
  <1>7. List' \in Lists /\ List'.heap = heap /\ List'.index = index /\ List'.timer = timer'
    <2>1. List' = [heap |-> heap, index |-> index, timer |-> timer']
      BY <1>2 DEF List
    <2> QED BY <2>1, <1>1, <1>4 DEF Lists
  <1>8. Sound(List', left')
    BY <1>1, <1>6, <1>7 DEF Sound
  <1>9. heap # <<>> => timer'.en /\ timer'.at = left'[heap[1]]
    <2> SUFFICES ASSUME heap # <<>> PROVE timer'.en /\ timer'.at = left'[heap[1]]
      OBVIOUS
    <2>1. timer.en /\ timer.at = left[heap[1]]
      BY <1>1, <1>2, Zenon
    <2>2. left'[heap[1]] = left[heap[1]] - 1
      BY <1>1, <1>5
    <2>3. n = timer.at - 1
      BY <2>1, <1>3, Zenon
    <2>4. timer'.at = left'[heap[1]]
      BY <2>1, <2>2, <2>3, <1>4
    <2> QED BY <2>1, <2>4, <1>4, Zenon
  <1>10. Serves(List', left')
    BY <1>7, <1>9 DEF Serves
  <1>11. left' \in [Alarms -> Int]
    BY <1>1, <1>2
  <1> QED BY <1>2, <1>8, <1>10, <1>11 DEF AlarmInv

\* The parts of the list are the variables.
LEMMA InvParts ==
  ASSUME AlarmInv
  PROVE  /\ List \in Lists /\ List.heap = heap /\ List.index = index /\ List.timer = timer
         /\ heap \in Seq(Alarms) /\ index \in [Alarms -> Int] /\ timer \in Timers
         /\ left \in [Alarms -> Int]
  <1>1. /\ List \in Lists /\ List.heap = heap /\ List.index = index /\ List.timer = timer
        /\ left \in [Alarms -> Int]
    BY DEF AlarmInv, Sound, List
  <1> QED BY <1>1 DEF Lists

\* A step that changes the timer only.
LEMMA TimerOnly ==
  ASSUME AlarmInv, UNCHANGED <<heap, index, left, op>>, timer' \in Timers,
         heap # <<>> => timer'.raised \/ (timer'.en /\ timer'.at = left[heap[1]])
  PROVE  AlarmInv'
  <1>1. List' = [heap |-> heap, index |-> index, timer |-> timer']
    BY DEF List
  <1>2. List' \in Lists /\ List'.heap = heap /\ List'.index = index /\ List'.timer = timer'
    BY <1>1, InvParts DEF Lists
  <1>3. Sound(List', left)
    BY <1>2, InvParts DEF AlarmInv, Sound
  <1>4. Serves(List', left)
    BY <1>2 DEF Serves
  <1> QED BY <1>3, <1>4 DEF AlarmInv

\* The hardware disables the alarm and raises the interrupt together.
LEMMA ExpireInv == AlarmInv /\ Expire => AlarmInv'
  <1> SUFFICES ASSUME AlarmInv, Expire PROVE AlarmInv'
    OBVIOUS
  <1>1. timer' \in Timers /\ timer'.raised
    <2>1. PICK b \in BOOLEAN, n \in Int, c \in BOOLEAN :
            /\ c = TRUE /\ timer \in Timers
            /\ timer' = [timer EXCEPT !.en = b, !.at = n, !.raised = c]
      <3>1. timer' = [timer EXCEPT !.en = FALSE, !.at = 0, !.raised = TRUE] /\ 0 \in Int
        BY DEF Expire
      <3> QED BY <3>1, InvParts, Zenon
    <2>2. timer' \in Timers
      BY <2>1, Zenon DEF Timers
    <2>3. timer'.raised = c
      BY <2>1 DEF Timers
    <2> QED BY <2>1, <2>2, <2>3, Zenon
  <1> QED BY <1>1, TimerOnly DEF Expire

\* A soft reset masks the interrupt ...
LEMMA DeinitInv == AlarmInv /\ machtimer_deinit => AlarmInv'
  <1> SUFFICES ASSUME AlarmInv, machtimer_deinit PROVE AlarmInv'
    OBVIOUS
  <1>1. /\ timer' \in Timers /\ timer'.raised = timer.raised
        /\ timer'.en = timer.en /\ timer'.at = timer.at
    BY InvParts, Zenon DEF machtimer_deinit, Timers
  <1>2. heap # <<>> => timer.raised \/ (timer.en /\ timer.at = left[heap[1]])
    BY InvParts, Zenon DEF AlarmInv, Serves
  <1>3. heap # <<>> => timer'.raised \/ (timer'.en /\ timer'.at = left[heap[1]])
    BY <1>1, <1>2, Zenon
  <1> QED BY <1>1, <1>3, TimerOnly DEF machtimer_deinit

\* ... and then forgets the list.
LEMMA Init0Inv == AlarmInv /\ machtimer_init0 => AlarmInv'
  <1> SUFFICES ASSUME AlarmInv, machtimer_init0 PROVE AlarmInv'
    OBVIOUS
  <1>1. timer' \in Timers /\ left' \in [Alarms -> Int] /\ op' = op
    <2>1. timer' = [timer EXCEPT !.enabled = TRUE] /\ timer \in Timers
      BY InvParts DEF machtimer_init0
    <2>2. timer' \in Timers
      BY <2>1, Zenon DEF Timers
    <2> QED BY <2>2 DEF machtimer_init0
  <1>2. List' = [heap |-> <<>>, index |-> [a \in Alarms |-> -1], timer |-> timer']
    BY DEF machtimer_init0, List
  <1>3. /\ List' \in Lists /\ List'.heap = <<>> /\ Len(List'.heap) = 0
        /\ List'.index = [a \in Alarms |-> -1]
    BY <1>1, <1>2 DEF Lists
  <1>4. Sound(List', left') /\ Serves(List', left')
    BY <1>3 DEF Sound, Serves, Indexed, Ordered
  <1> QED BY <1>1, <1>4 DEF AlarmInv

\* The interrupt: whatever is first on the list is removed, and put back when periodic.
LEMMA IsrInv == AlarmInv /\ timer_alarm_isr => AlarmInv'
  <1> SUFFICES ASSUME AlarmInv, timer_alarm_isr PROVE AlarmInv'
    OBVIOUS
  <1> DEFINE ack == [List EXCEPT !.timer = [@ EXCEPT !.raised = FALSE]]
  <1>1. PICK t \in Timers : t = [List.timer EXCEPT !.raised = FALSE]
    BY InvParts, Zenon DEF Timers
  <1>2. ack \in Lists /\ ack.heap = heap /\ ack.index = index
    <2>1. ack = [List EXCEPT !.timer = t]
      BY <1>1
    <2> QED BY <2>1, InvParts, Zenon DEF Lists
  <1>3. Sound(ack, left)
    BY <1>2, InvParts DEF AlarmInv, Sound
  <1>4. op' = op
    BY DEF timer_alarm_isr
  <1>5. CASE heap = <<>>
    <2>1. Become(ack) /\ left' = left
      BY <1>5 DEF timer_alarm_isr
    <2>2. List' = ack
      BY <2>1, <1>2, Becomes
    <2>3. Serves(List', left')
      BY <2>2, <1>2, <1>5 DEF Serves
    <2> QED BY <2>1, <2>2, <2>3, <1>3, <1>4 DEF AlarmInv
  <1>6. CASE heap # <<>>
    <2> DEFINE a == heap[1]
               removed == remove_alarm(ack, left, 0)
               x == IF a \in Periodic THEN Interval[a] ELSE 0
               new == [left EXCEPT ![a] = x]
    <2>1. left' = new /\ Become(IF a \in Periodic THEN insert_alarm(removed, left', a) ELSE removed)
      BY <1>6 DEF timer_alarm_isr
    <2>2. a \in Alarms /\ x \in Int /\ 0 \in 0 .. Len(heap) - 1 /\ left \in [Alarms -> Int]
      BY <1>6, InvParts, AlarmConstants
    <2> HIDE DEF ack, x
    <2>3. Sound(removed, left) /\ removed.index[a] = -1 /\ Serves(removed, left)
      <3>1. ack.heap[0 + 1] = a
        BY <1>2
      <3> HIDE DEF a
      <3> QED BY <3>1, <2>2, <1>2, <1>3, RemoveSound
    <2> HIDE DEF removed, a
    <2>4. new \in [Alarms -> Int] /\ Sound(removed, new) /\ Serves(removed, new)
      BY <2>2, <2>3, UnlistedTime, Zenon
    <2> HIDE DEF new
    <2>5. Sound(insert_alarm(removed, new, a), new) /\ Serves(insert_alarm(removed, new, a), new)
      BY SMTT(30), <2>2, <2>3, <2>4, InsertSound
    <2>6. CASE a \in Periodic
      <3>1. List' = insert_alarm(removed, new, a)
        BY <2>1, <2>5, <2>6, Becomes DEF Sound
      <3> QED BY <3>1, <2>1, <2>4, <2>5, <1>4 DEF AlarmInv
    <2>7. CASE a \notin Periodic
      <3>1. List' = removed
        BY <2>1, <2>4, <2>7, Becomes DEF Sound
      <3> QED BY <3>1, <2>1, <2>4, <1>4 DEF AlarmInv
    <2> QED BY <2>6, <2>7
  <1> QED BY <1>5, <1>6

\* callback(), inside its section: off the list, and on again with the new time.
LEMMA CallbackInv == AlarmInv /\ set_callback_inside => AlarmInv'
  <1> SUFFICES ASSUME AlarmInv, set_callback_inside PROVE AlarmInv'
    OBVIOUS
  <1> DEFINE a == op
             off == Off(List, left, a)
             h == IF index[a] # -1 THEN "NULL" ELSE handler[a]
             arms == Len(off.heap) < MaxAlarms /\ h # "None"
             x == IF arms THEN Interval[a] ELSE 0
             new == [left EXCEPT ![a] = x]
  <1>1. a \in Alarms /\ left \in [Alarms -> Int] /\ x \in Int /\ op' = "no"
    <2>1. a \in Alarms /\ left \in [Alarms -> Int] /\ op' = "no"
      BY Zenon, InvParts DEF set_callback_inside, AlarmInv
    <2> HIDE DEF arms
    <2>2. x \in Int
      BY <2>1, AlarmConstants
    <2> QED BY <2>1, <2>2
  <1>2. off = IF index[a] # -1 THEN remove_alarm(List, left, index[a]) ELSE List
    BY InvParts DEF Off
  <1>3. left' = new /\ Become(IF arms THEN insert_alarm(off, left', a) ELSE off)
    <2> HIDE DEF off
    <2> QED BY Zenon, <1>2 DEF set_callback_inside
  <1> HIDE DEF arms, x, a
  <1>4. Sound(off, left) /\ off.index[a] = -1 /\ Serves(off, left)
    BY Zenon, <1>1, OffSound DEF AlarmInv
  <1> HIDE DEF off
  <1>5. new \in [Alarms -> Int] /\ Sound(off, new) /\ Serves(off, new)
    BY <1>1, <1>4, UnlistedTime, Zenon
  <1> HIDE DEF new
  <1>6. Sound(insert_alarm(off, new, a), new) /\ Serves(insert_alarm(off, new, a), new)
    BY <1>1, <1>4, <1>5, InsertSound
  <1>7. CASE arms
    <2>1. List' = insert_alarm(off, new, a)
      BY <1>3, <1>6, <1>7, Becomes DEF Sound
    <2> QED BY <2>1, <1>1, <1>3, <1>5, <1>6 DEF AlarmInv
  <1>8. CASE ~arms
    <2>1. List' = off
      BY <1>3, <1>5, <1>8, Becomes DEF Sound
    <2> QED BY <2>1, <1>1, <1>3, <1>5 DEF AlarmInv
  <1> QED BY <1>7, <1>8

\* cancel()
LEMMA DeleteInv == ASSUME NEW a \in Alarms PROVE AlarmInv /\ alarm_delete(a) => AlarmInv'
  <1> SUFFICES ASSUME AlarmInv, alarm_delete(a) PROVE AlarmInv'
    OBVIOUS
  <1> DEFINE off == Off(List, left, a)
             new == [left EXCEPT ![a] = 0]
  <1>1. left \in [Alarms -> Int] /\ left' = new /\ op' = op
    BY InvParts DEF alarm_delete
  <1>2. Become(off)
    <2>1. off = IF index[a] # -1 THEN remove_alarm(List, left, index[a]) ELSE List
      BY InvParts DEF Off
    <2> HIDE DEF off
    <2> QED BY <2>1 DEF alarm_delete
  <1>3. Sound(off, left) /\ off.index[a] = -1 /\ Serves(off, left)
    BY <1>1, OffSound DEF AlarmInv
  <1> HIDE DEF off
  <1>4. new \in [Alarms -> Int] /\ Sound(off, new) /\ Serves(off, new)
    <2>1. 0 \in Int
      OBVIOUS
    <2> QED BY <2>1, <1>1, <1>3, UnlistedTime, Zenon
  <1>5. List' = off
    BY <1>2, <1>3, Becomes DEF Sound
  <1> QED BY <1>1, <1>4, <1>5 DEF AlarmInv

\* Every step keeps the invariant; the others leave the list and the timer alone.
LEMMA InvNext == AlarmInv /\ [Next]_vars => AlarmInv'
  <1> SUFFICES ASSUME AlarmInv, [Next]_vars PROVE AlarmInv'
    OBVIOUS
  <1>1. ASSUME UNCHANGED <<heap, index, left, timer>>, op' \in Alarms \cup {"no"} PROVE AlarmInv'
    <2>1. List' = List
      BY <1>1 DEF List
    <2> QED BY <2>1, <1>1 DEF AlarmInv
  <1>2. op \in Alarms \cup {"no"}
    BY DEF AlarmInv
  <1>3. CASE Hardware
    BY <1>3, ExpireInv, TickInv, IsrInv DEF Hardware
  <1>4. CASE OtherInterrupt
    BY <1>1, <1>2, <1>4 DEF OtherInterrupt
  <1>5. CASE InterruptsTask
    BY <1>1, <1>2, <1>5 DEF InterruptsTask, Receive, OtherHandled, Exit, Call, CallReturns, CallRaises
  <1>6. CASE PythonCalls
    <2>1. PICK a \in Alarms : alarm_delete(a) \/ \E h \in {"None", "fun"} : SetHandler(a, h)
      BY <1>6 DEF PythonCalls
    <2>2. CASE alarm_delete(a)
      BY <2>2, DeleteInv
    <2>3. CASE \E h \in {"None", "fun"} : SetHandler(a, h)
      BY <1>1, <2>3 DEF SetHandler
    <2> QED BY <2>1, <2>2, <2>3
  <1>7. CASE set_callback_inside
    BY <1>7, CallbackInv
  <1>8. CASE machtimer_deinit
    BY <1>8, DeinitInv
  <1>9. CASE SoftReset
    <2>1. CASE machtimer_init0
      BY <2>1, Init0Inv
    <2>2. CASE mp_irq_kill \/ Killed \/ mp_irq_init0
      BY <1>1, <1>2, <2>2 DEF mp_irq_kill, Killed, mp_irq_init0
    <2> QED BY <1>9, <2>1, <2>2 DEF SoftReset
  <1>10. CASE UNCHANGED vars
    BY <1>1, <1>2, <1>10 DEF vars
  <1> QED BY <1>3, <1>4, <1>5, <1>6, <1>7, <1>8, <1>9, <1>10 DEF Next

\* The invariant holds after any interrupts, calls and soft resets.
LEMMA AlwaysInv == Spec => []AlarmInv
  BY InvInit, InvNext, PTL DEF Spec

\* For any alarms, intervals and limits, the list that the interrupt, callback() and
\* cancel() rearrange is ordered by time and holds no alarm twice, and the heap_index that
\* remove_alarm trusts is the place of the alarm.
THEOREM HeapAlwaysConsistent == Spec => []HeapConsistent
  <1>1. AlarmInv => HeapConsistent
    <2> SUFFICES ASSUME AlarmInv PROVE HeapConsistent
      OBVIOUS
    <2>1. /\ Indexed(Len(heap), heap, index) /\ Ordered(Len(heap), heap, left)
          /\ heap \in Seq(Alarms) /\ index \in [Alarms -> Int]
      BY Zenon, InvParts DEF AlarmInv, Sound
    <2> QED BY <2>1 DEF HeapConsistent, Indexed, Ordered
  <1> QED BY <1>1, AlwaysInv, PTL

\* For any alarms, intervals and limits, the one timer is set for the first alarm of the
\* list or its interrupt is raised: no order of interrupts and calls leaves an alarm that
\* nothing will serve.
THEOREM FirstAlwaysServed == Spec => []TimerServesFirst
  <1>1. AlarmInv => TimerServesFirst
    BY InvParts, Zenon DEF AlarmInv, Serves, TimerServesFirst
  <1> QED BY <1>1, AlwaysInv, PTL

-----------------------------------------------------------------------------
\* The invariant behind QueuedIsRooted: whatever is queued, an alarm with a callback is
\* registered, but in the middle of callback() and after one that found the list full.
CallbackRooted ==
  /\ handler \in [Alarms -> {"NULL", "None", "fun"}]
  /\ \A a \in Alarms \ refused : handler[a] = "fun" /\ op # a => a \in irqs

\* callback() registers the alarm it arms, and only unregisters that alarm.
LEMMA SetRooted == AlarmInv /\ CallbackRooted /\ set_callback_inside => CallbackRooted'
  <1> SUFFICES ASSUME AlarmInv, CallbackRooted, set_callback_inside PROVE CallbackRooted'
    OBVIOUS
  <1> DEFINE active == index[op] # -1
             off == IF active THEN remove_alarm(List, left, index[op]) ELSE List
             unregistered == IF active THEN irqs \ {op} ELSE irqs
             h == IF active THEN "NULL" ELSE handler[op]
             room == Len(off.heap) < MaxAlarms
             arms == room /\ h # "None"
  <1>1. op \in Alarms /\ handler \in [Alarms -> {"NULL", "None", "fun"}]
    BY Zenon DEF AlarmInv, CallbackRooted, set_callback_inside
  <1>2. /\ handler' = [handler EXCEPT ![op] = IF h = "None" THEN "NULL" ELSE h]
        /\ irqs' = IF arms THEN unregistered \cup {op} ELSE unregistered
        /\ refused' = IF room THEN refused ELSE refused \cup {op}
        /\ op' = "no"
    BY Zenon DEF set_callback_inside
  <1> HIDE DEF room
  <1>3. h \in {"NULL", "None", "fun"}
    BY <1>1
  <1>4. handler' \in [Alarms -> {"NULL", "None", "fun"}]
    BY <1>1, <1>2, <1>3
  <1>5. ASSUME NEW a \in Alarms \ refused', handler'[a] = "fun" PROVE a \in irqs'
    <2>1. CASE a = op
      <3>1. room /\ h = "fun"
        BY <1>1, <1>2, <1>3, <1>5, <2>1
      <3> QED BY <1>2, <2>1, <3>1
    <2>2. CASE a # op
      <3>1. handler[a] = "fun" /\ a \notin refused
        BY <1>1, <1>2, <1>5, <2>2
      <3>2. a \in irqs
        BY <2>2, <3>1 DEF CallbackRooted
      <3> QED BY <1>2, <2>2, <3>2
    <2> QED BY <2>1, <2>2
  <1> QED BY <1>4, <1>5 DEF CallbackRooted

\* The interrupts task unregisters an alarm only with its callback.
LEMMA TaskRooted == CallbackRooted /\ InterruptsTask => CallbackRooted'
  <1> SUFFICES ASSUME CallbackRooted, InterruptsTask PROVE CallbackRooted'
    OBVIOUS
  <1>1. ASSUME NEW a \in Alarms, HandlerReturns(a), UNCHANGED <<op, refused>> PROVE CallbackRooted'
    BY <1>1 DEF HandlerReturns, CallbackRooted
  <1>2. ASSUME UNCHANGED <<handler, irqs, op, refused>> PROVE CallbackRooted'
    BY <1>2 DEF CallbackRooted
  <1>3. CASE Receive \/ OtherHandled \/ Exit
    BY <1>2, <1>3 DEF Receive, OtherHandled, Exit
  <1>4. ASSUME NEW a \in Alarms, Call(a) \/ CallReturns(a) \/ CallRaises(a) PROVE CallbackRooted'
    BY <1>1, <1>2, <1>4 DEF Call, CallReturns, CallRaises
  <1> QED BY <1>3, <1>4 DEF InterruptsTask

LEMMA NextRooted == AlarmInv /\ CallbackRooted /\ [Next]_vars => CallbackRooted'
  <1> SUFFICES ASSUME AlarmInv, CallbackRooted, [Next]_vars PROVE CallbackRooted'
    OBVIOUS
  <1>1. ASSUME UNCHANGED <<handler, irqs, op, refused>> PROVE CallbackRooted'
    BY <1>1 DEF CallbackRooted
  <1>2. CASE Hardware \/ OtherInterrupt \/ machtimer_deinit
    BY <1>1, <1>2 DEF Hardware, Expire, Tick, timer_alarm_isr, OtherInterrupt, machtimer_deinit
  <1>3. CASE PythonCalls
    <2>1. PICK a \in Alarms : alarm_delete(a) \/ \E h \in {"None", "fun"} : SetHandler(a, h)
      BY <1>3 DEF PythonCalls
    <2>2. CASE alarm_delete(a)
      <3>1. /\ handler' = [handler EXCEPT ![a] = "NULL"] /\ irqs' = irqs \ {a}
            /\ op' = op /\ refused' = refused \ {a}
        BY <2>2 DEF alarm_delete
      <3> QED BY <3>1 DEF CallbackRooted
    <2>3. ASSUME NEW h \in {"None", "fun"}, SetHandler(a, h) PROVE CallbackRooted'
      <3>1. /\ handler' = [handler EXCEPT ![a] = h] /\ irqs' = irqs
            /\ op = "no" /\ op' = a /\ refused' = refused \ {a}
        BY <2>3 DEF SetHandler, Python
      <3> QED BY <3>1, NoIsNoAlarm DEF CallbackRooted
    <2> QED BY <2>1, <2>2, <2>3
  <1>4. CASE mp_irq_init0
    BY <1>4 DEF mp_irq_init0, CallbackRooted
  <1>5. CASE mp_irq_kill \/ Killed \/ machtimer_init0 \/ UNCHANGED vars
    BY <1>1, <1>5 DEF mp_irq_kill, Killed, machtimer_init0, vars
  <1> QED BY <1>2, <1>3, <1>4, <1>5, SetRooted, TaskRooted DEF Next, SoftReset

\* For any alarms and limits, the callback of a queued alarm is reached by the garbage
\* collector through mp_irq_obj_list until the interrupts task gets to it.
THEOREM QueuedAlwaysRooted == Spec => []QueuedIsRooted
  <1>1. Init => CallbackRooted
    BY DEF Init, CallbackRooted
  <1>2. CallbackRooted => QueuedIsRooted
    BY DEF CallbackRooted, QueuedIsRooted
  <1> QED BY <1>1, <1>2, NextRooted, AlwaysInv, PTL DEF Spec
=============================================================================
