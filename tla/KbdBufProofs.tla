---------------------------- MODULE KbdBufProofs ----------------------------
(****************************************************************************)
(* Proofs about KbdBuf, for queues and Kernal buffers of any size and any   *)
(* strings: a held RETURN stays at the head of the queue, and what is fed   *)
(* is read in order and once.  Both rest on what a circular queue holds.    *)
(****************************************************************************)
EXTENDS KbdBuf, SequenceTheorems, WellFoundedInduction, TLAPS

\* The n characters of the circular queue q from h on: Contents, for any head.
Ring(q, h, n) == [i \in 1 .. n |-> q[(h + i - 1) % QUEUE_SIZE]]

----------------------------------------------------------------------------
(* Going round.                                                             *)

LEMMA RemainderIs ==
    ASSUME NEW d \in Nat \ {0}, NEW x \in Int, NEW r \in 0 .. d - 1, NEW k \in Int,
           x = d * k + r
    PROVE  x % d = r
<1>1. x % d \in 0 .. d - 1 /\ x \div d \in Int /\ x = d * (x \div d) + (x % d)
  OBVIOUS
<1>2. PICK m \in Int : m = x \div d
  BY <1>1
<1>3. PICK t \in Int : t = x % d
  BY <1>1
<1>4. d * (k - m) = d * k - d * m /\ d * k \in Int /\ d * m \in Int
  BY <1>2
<1>5. x = d * m + t /\ t \in 0 .. d - 1
  BY <1>1, <1>2, <1>3
<1> DEFINE a == d * k
           b == d * m
           c == d * (k - m)
<1>6. a \in Int /\ b \in Int /\ c = a - b /\ x = a + r /\ x = b + t
  BY <1>4, <1>5
<1> HIDE DEF a, b, c
<1>7. c = t - r /\ c < d /\ c > 0 - d
  BY <1>5, <1>6
<1>8. k - m = 0
  <2>1. \A n \in Int : d * n < d => n <= 0
    OBVIOUS
  <2>2. \A n \in Int : d * n > 0 - d => n >= 0
    OBVIOUS
  <2>3. k - m \in Int /\ k - m <= 0 /\ k - m >= 0
    BY <1>2, <1>7, <2>1, <2>2 DEF c
  <2> QED BY <2>3
<1>9. c = 0
  BY <1>8 DEF c
<1> QED BY <1>3, <1>5, <1>7, <1>9

LEMMA Around ==
    ASSUME NEW x \in Int, 0 - 2 * QUEUE_SIZE <= x, x < 2 * QUEUE_SIZE
    PROVE  x % QUEUE_SIZE = IF x < 0 - QUEUE_SIZE THEN x + 2 * QUEUE_SIZE
                            ELSE IF x < 0 THEN x + QUEUE_SIZE
                            ELSE IF x < QUEUE_SIZE THEN x
                            ELSE x - QUEUE_SIZE
<1> DEFINE d == QUEUE_SIZE
<1>1. d \in Nat \ {0}
  BY SizeAssumption
<1>2. ASSUME NEW k \in Int, NEW r \in 0 .. d - 1, x = d * k + r
      PROVE  x % d = r
  BY <1>1, <1>2, RemainderIs
<1>3. CASE x < 0 - d
  <2>1. x + 2 * d \in 0 .. d - 1 /\ x = d * (0 - 2) + (x + 2 * d)
    BY <1>1, <1>3
  <2> QED BY <1>2, <1>3, <2>1
<1>4. CASE 0 - d <= x /\ x < 0
  <2>1. x + d \in 0 .. d - 1 /\ x = d * (0 - 1) + (x + d) /\ ~ (x < 0 - d)
    BY <1>1, <1>4
  <2> QED BY <1>2, <1>4, <2>1
<1>5. CASE 0 <= x /\ x < d
  <2>1. x \in 0 .. d - 1 /\ x = d * 0 + x /\ ~ (x < 0 - d) /\ ~ (x < 0)
    BY <1>1, <1>5
  <2> QED BY <1>2, <1>5, <2>1
<1>6. CASE d <= x
  <2>1. x - d \in 0 .. d - 1 /\ x = d * 1 + (x - d) /\ ~ (x < 0 - d) /\ ~ (x < 0) /\ ~ (x < d)
    BY <1>1, <1>6
  <2> QED BY <1>2, <1>6, <2>1
<1> QED BY <1>1, <1>3, <1>4, <1>5, <1>6

----------------------------------------------------------------------------
(* What a circular queue holds.                                             *)

LEMMA Places ==
    /\ QUEUE_SIZE \in Nat \ {0} /\ BufferSize \in Nat \ {0}
    /\ Index = 0 .. QUEUE_SIZE - 1
  BY SizeAssumption DEF Index

LEMMA Slot ==
    ASSUME NEW h \in Index, NEW k \in 0 .. QUEUE_SIZE
    PROVE  /\ (h + k) % QUEUE_SIZE \in Index
           /\ (h + k) % QUEUE_SIZE =
                  IF h + k < QUEUE_SIZE THEN h + k ELSE h + k - QUEUE_SIZE
<1>1. h + k \in Int /\ 0 - 2 * QUEUE_SIZE <= h + k /\ h + k < 2 * QUEUE_SIZE
      /\ ~ (h + k < 0) /\ ~ (h + k < 0 - QUEUE_SIZE)
  BY Places
<1>2. (h + k) % QUEUE_SIZE =
          IF h + k < QUEUE_SIZE THEN h + k ELSE h + k - QUEUE_SIZE
  <2>1. PICK x \in Int : x = h + k
    BY <1>1
  <2>2. x % QUEUE_SIZE = IF x < QUEUE_SIZE THEN x ELSE x - QUEUE_SIZE
    BY <1>1, <2>1, Around
  <2>3. (h + k) % QUEUE_SIZE = x % QUEUE_SIZE
    BY <2>1
  <2>4. PICK y : y = x % QUEUE_SIZE
    OBVIOUS
  <2>5. y = IF x < QUEUE_SIZE THEN x ELSE x - QUEUE_SIZE
    BY <2>2, <2>4
  <2>6. y = IF h + k < QUEUE_SIZE THEN h + k ELSE h + k - QUEUE_SIZE
    BY <2>1, <2>5, Places
  <2> QED BY <2>3, <2>4, <2>6
<1> QED BY <1>1, <1>2, Places

LEMMA RingIs ==
    ASSUME NEW q \in [Index -> Char], NEW h \in Index, NEW n \in 0 .. QUEUE_SIZE
    PROVE  /\ Ring(q, h, n) \in Seq(Char) /\ Len(Ring(q, h, n)) = n
           /\ \A i \in 1 .. n :
                  /\ Ring(q, h, n)[i] = q[(h + i - 1) % QUEUE_SIZE]
                  /\ (h + i - 1) % QUEUE_SIZE \in Index
<1>1. ASSUME NEW i \in 1 .. n
      PROVE  (h + i - 1) % QUEUE_SIZE \in Index
  <2>1. i - 1 \in 0 .. QUEUE_SIZE /\ h + (i - 1) = h + i - 1
    BY Places
  <2>2. (h + (i - 1)) % QUEUE_SIZE \in Index
    BY <2>1, Slot
  <2> QED BY <2>1, <2>2
<1>2. \A i \in 1 .. n : q[(h + i - 1) % QUEUE_SIZE] \in Char
  BY <1>1
<1>3. n \in Nat
  BY Places
<1>4. Ring(q, h, n) \in Seq(Char)
  BY <1>2, <1>3 DEF Ring
<1>5. Len(Ring(q, h, n)) = n
  BY <1>3 DEF Ring
<1> QED BY <1>1, <1>4, <1>5 DEF Ring

\* Two ways round lead to the same place.
LEMMA SlotAfter ==
    ASSUME NEW h \in Index, NEW k \in 0 .. QUEUE_SIZE, NEW j \in 0 .. QUEUE_SIZE,
           k + j <= QUEUE_SIZE
    PROVE  (((h + k) % QUEUE_SIZE) + j) % QUEUE_SIZE = (h + (k + j)) % QUEUE_SIZE
<1>1. PICK m \in Index : m = (h + k) % QUEUE_SIZE
  BY Slot
<1>2. m = IF h + k < QUEUE_SIZE THEN h + k ELSE h + k - QUEUE_SIZE
  BY <1>1, Slot
<1>3. PICK t \in 0 .. QUEUE_SIZE : t = k + j
  BY Places
<1>4. (h + t) % QUEUE_SIZE =
          IF h + t < QUEUE_SIZE THEN h + t ELSE h + t - QUEUE_SIZE
  BY Slot
<1>5. (m + j) % QUEUE_SIZE =
          IF m + j < QUEUE_SIZE THEN m + j ELSE m + j - QUEUE_SIZE
  BY Slot
<1>6. (m + j) % QUEUE_SIZE = (h + t) % QUEUE_SIZE
  BY <1>2, <1>3, <1>4, <1>5, Places
<1> QED BY <1>1, <1>3, <1>6

\* What is taken from the head and what is left make up the whole.
LEMMA RingSplit ==
    ASSUME NEW q \in [Index -> Char], NEW h \in Index, NEW n \in 0 .. QUEUE_SIZE,
           NEW k \in 0 .. n
    PROVE  Ring(q, h, k) \o Ring(q, (h + k) % QUEUE_SIZE, n - k) = Ring(q, h, n)
<1> DEFINE a == Ring(q, h, k)
           m == (h + k) % QUEUE_SIZE
           b == Ring(q, m, n - k)
           c == Ring(q, h, n)
<1>1. k \in 0 .. QUEUE_SIZE /\ n - k \in 0 .. QUEUE_SIZE /\ m \in Index
  BY Places, Slot
<1>2. /\ a \in Seq(Char) /\ Len(a) = k
      /\ \A i \in 1 .. k : a[i] = q[(h + i - 1) % QUEUE_SIZE]
  BY <1>1, RingIs
<1>3. /\ c \in Seq(Char) /\ Len(c) = n
      /\ \A i \in 1 .. n : c[i] = q[(h + i - 1) % QUEUE_SIZE]
  BY <1>1, RingIs
<1>4. PICK g \in Index : g = m
  BY <1>1
<1>5. /\ b \in Seq(Char) /\ Len(b) = n - k
      /\ \A i \in 1 .. n - k : b[i] = q[(m + i - 1) % QUEUE_SIZE]
  <2>1. /\ Ring(q, g, n - k) \in Seq(Char) /\ Len(Ring(q, g, n - k)) = n - k
        /\ \A i \in 1 .. n - k : Ring(q, g, n - k)[i] = q[(g + i - 1) % QUEUE_SIZE]
    BY <1>1, RingIs
  <2> QED BY <1>4, <2>1
<1>6. ASSUME NEW i \in 1 .. n - k
      PROVE  b[i] = c[k + i]
  <2>1. i - 1 \in 0 .. QUEUE_SIZE /\ k + (i - 1) <= QUEUE_SIZE /\ k + i \in 1 .. n
        /\ g + (i - 1) = g + i - 1 /\ h + (k + (i - 1)) = h + (k + i) - 1
    BY Places
  <2>2. (((h + k) % QUEUE_SIZE) + (i - 1)) % QUEUE_SIZE = (h + (k + (i - 1))) % QUEUE_SIZE
    BY <1>1, <2>1, SlotAfter
  <2>3. (g + i - 1) % QUEUE_SIZE = (h + (k + i) - 1) % QUEUE_SIZE
    BY <1>4, <2>1, <2>2
  <2> QED BY <1>3, <1>4, <1>5, <2>1, <2>3
<1> HIDE DEF a, b, c, m
<1>7. /\ a \o b \in Seq(Char) /\ Len(a \o b) = n
      /\ \A i \in 1 .. n : (a \o b)[i] = IF i <= k THEN a[i] ELSE b[i - k]
  <2>1. k \in Nat /\ n \in Nat /\ k + (n - k) = n
    BY <1>1, Places
  <2> QED BY <1>2, <1>5, <2>1, ConcatProperties
<1>8. ASSUME NEW i \in 1 .. n
      PROVE  (a \o b)[i] = c[i]
  <2>1. CASE i <= k
    <3>1. i \in 1 .. k
      BY <1>1, <2>1, Places
    <3>2. a[i] = c[i]
      BY <1>2, <1>3, <3>1
    <3> QED BY <1>7, <2>1, <3>2
  <2>2. CASE i > k
    <3>1. i - k \in 1 .. n - k /\ k + (i - k) = i
      BY <1>1, <2>2, Places
    <3> QED BY <1>6, <1>7, <2>2, <3>1, <1>1, Places
  <2>3. i <= k \/ i > k
    BY <1>1, Places
  <2> QED BY <2>1, <2>2, <2>3
<1>9. a \o b = c
  BY <1>3, <1>7, <1>8, SeqEqual
<1> QED BY <1>9 DEF a, b, c, m

\* A string that fits is written behind what the queue holds.
LEMMA QueuedIsAppended ==
    ASSUME queue \in [Index -> Char], head_idx \in Index, num_pending \in 0 .. QUEUE_SIZE,
           NEW s \in Seq(Char), FitsQueue(s)
    PROVE  /\ Queued(s) \in [Index -> Char]
           /\ num_pending + Len(s) \in 0 .. QUEUE_SIZE
           /\ Ring(Queued(s), head_idx, num_pending + Len(s)) =
                  Ring(queue, head_idx, num_pending) \o s
           /\ num_pending > 0 => Queued(s)[head_idx] = queue[head_idx]
<1> DEFINE n == num_pending
           l == Len(s)
           h == head_idx
           q == Queued(s)
           back(p) == (p - h - n) % QUEUE_SIZE
<1>1. l \in Nat /\ n \in 0 .. QUEUE_SIZE /\ n + l \in 0 .. QUEUE_SIZE /\ h \in Index
  BY Places DEF FitsQueue
<1>2. ASSUME NEW p \in Index
      PROVE  back(p) \in 0 .. QUEUE_SIZE - 1
  BY <1>1, Places
<1>3. ASSUME NEW p \in Index
      PROVE  q[p] = IF back(p) < l THEN s[back(p) + 1] ELSE queue[p]
  BY DEF Queued
<1>4. q \in [Index -> Char]
  <2>1. ASSUME NEW p \in Index
        PROVE  (IF back(p) < l THEN s[back(p) + 1] ELSE queue[p]) \in Char
    <3>1. CASE back(p) < l
      <4>1. back(p) + 1 \in 1 .. l
        BY <1>1, <1>2, <3>1
      <4> QED BY <3>1, <4>1, ElementOfSeq
    <3> QED BY <3>1
  <2> QED BY <2>1 DEF Queued
<1>5. ASSUME NEW j \in 0 .. QUEUE_SIZE - 1, j < n + l,
             NEW p \in Index, p = (h + j) % QUEUE_SIZE
      PROVE  q[p] = IF j < n THEN queue[p] ELSE s[j - n + 1]
  <2>1. j \in 0 .. QUEUE_SIZE
    BY Places
  <2>2. p = IF h + j < QUEUE_SIZE THEN h + j ELSE h + j - QUEUE_SIZE
    BY <1>1, <1>5, <2>1, Slot
  <2>3. PICK x \in Int : x = p - h - n
    BY <1>1, Places
  <2>4. x = j - n \/ x = j - n - QUEUE_SIZE
    BY <1>1, <2>2, <2>3, Places
  <2>5. x % QUEUE_SIZE = IF j < n THEN QUEUE_SIZE + j - n ELSE j - n
    <3>1. 0 - 2 * QUEUE_SIZE <= x /\ x < 2 * QUEUE_SIZE
      BY <1>1, <2>4, Places
    <3>2. x % QUEUE_SIZE = IF x < 0 - QUEUE_SIZE THEN x + 2 * QUEUE_SIZE
                           ELSE IF x < 0 THEN x + QUEUE_SIZE
                           ELSE IF x < QUEUE_SIZE THEN x
                           ELSE x - QUEUE_SIZE
      BY <3>1, Around
    <3> QED BY <1>1, <2>4, <3>2, Places
  <2>6. back(p) = IF j < n THEN QUEUE_SIZE + j - n ELSE j - n
    BY <2>3, <2>5
  <2>7. back(p) < l <=> ~ (j < n)
    BY <1>1, <1>5, <2>6, Places
  <2> HIDE DEF back, q
  <2> QED BY <1>3, <2>6, <2>7
<1>6. n > 0 => q[h] = queue[h]
  <2>1. 0 \in 0 .. QUEUE_SIZE /\ 0 \in 0 .. QUEUE_SIZE - 1 /\ h + 0 = h /\ h + 0 < QUEUE_SIZE
    BY <1>1, Places
  <2>2. h = (h + 0) % QUEUE_SIZE
    BY <1>1, <2>1, Slot
  <2> QED BY <1>1, <1>5, <2>1, <2>2
<1> DEFINE a == Ring(queue, h, n)
           b == Ring(q, h, n + l)
<1>7. /\ a \in Seq(Char) /\ Len(a) = n
      /\ \A i \in 1 .. n : a[i] = queue[(h + i - 1) % QUEUE_SIZE]
  BY <1>1, RingIs
<1>8. PICK r \in [Index -> Char] : r = q
  BY <1>4
<1>9. /\ b \in Seq(Char) /\ Len(b) = n + l
      /\ \A i \in 1 .. n + l : /\ b[i] = q[(h + i - 1) % QUEUE_SIZE]
                               /\ (h + i - 1) % QUEUE_SIZE \in Index
  <2> DEFINE m == n + l
  <2>1. m \in 0 .. QUEUE_SIZE
    BY <1>1
  <2> HIDE DEF m
  <2>2. /\ Ring(r, h, m) \in Seq(Char) /\ Len(Ring(r, h, m)) = m
        /\ \A i \in 1 .. m : /\ Ring(r, h, m)[i] = r[(h + i - 1) % QUEUE_SIZE]
                             /\ (h + i - 1) % QUEUE_SIZE \in Index
    BY <1>1, <2>1, RingIs
  <2> QED BY <1>8, <2>2 DEF m
<1>10. ASSUME NEW i \in 1 .. n + l
       PROVE  b[i] = IF i <= n THEN a[i] ELSE s[i - n]
  <2>1. PICK j \in 0 .. QUEUE_SIZE - 1 : j = i - 1
    BY <1>1, Places
  <2>2. j < n + l /\ h + i - 1 = h + j /\ (j < n <=> i <= n) /\ j - n + 1 = i - n
    BY <1>1, <2>1, Places
  <2>3. PICK p \in Index : p = (h + j) % QUEUE_SIZE
    BY <1>9, <2>2
  <2>4. q[p] = IF j < n THEN queue[p] ELSE s[j - n + 1]
    BY <1>5, <2>2, <2>3
  <2>5. b[i] = q[p]
    BY <1>9, <2>2, <2>3
  <2>6. i <= n => i \in 1 .. n /\ a[i] = queue[p]
    BY <1>1, <1>7, <2>2, <2>3
  <2> HIDE DEF a, b, q
  <2> QED BY <2>2, <2>4, <2>5, <2>6
<1> HIDE DEF a, b, q, back
<1>11. /\ a \o s \in Seq(Char) /\ Len(a \o s) = n + l
       /\ \A i \in 1 .. n + l : (a \o s)[i] = IF i <= n THEN a[i] ELSE s[i - n]
  BY <1>1, <1>7, ConcatProperties
<1>12. b = a \o s
  BY <1>9, <1>10, <1>11, SeqEqual
<1> QED BY <1>1, <1>4, <1>6, <1>12 DEF a, b, q

----------------------------------------------------------------------------
(* How much is pushed.                                                      *)

LEMMA LeastIs ==
    ASSUME NEW S, S \subseteq Nat, S # {}
    PROVE  Min(S) \in S /\ \A i \in S : Min(S) <= i
<1>1. PICK m \in S : \A i \in S : ~ (<<i, m>> \in OpToRel(<, Nat))
  BY NatLessThanWellFounded, WFMin
<1>2. ASSUME NEW i \in S
      PROVE  m <= i
  <2>1. i \in Nat /\ m \in Nat
    OBVIOUS
  <2>2. i < m => <<i, m>> \in OpToRel(<, Nat)
    BY <2>1 DEF OpToRel
  <2>3. ~ (i < m)
    BY <1>1, <2>2
  <2> QED BY <2>1, <2>3
<1> QED BY <1>2 DEF Min

LEMMA PushedIs ==
    ASSUME NEW n \in 0 .. QUEUE_SIZE
    PROVE  /\ Pushed(n) \in 0 .. n /\ Pushed(n) <= BufferSize
           /\ n > 0 => Pushed(n) > 0
<1>1. n \in Nat /\ BufferSize \in Nat \ {0}
  BY Places
<1>2. Pushed(n) \in {n, BufferSize} /\ Pushed(n) <= n /\ Pushed(n) <= BufferSize
  BY <1>1, LeastIs DEF Pushed
<1> QED BY <1>1, <1>2

\* The first RETURN that would be pushed.
LEMMA ReturnIs ==
    ASSUME NEW q, NEW n \in 0 .. QUEUE_SIZE, Returns(q, n) # {}
    PROVE  /\ Min(Returns(q, n)) \in 1 .. Pushed(n)
           /\ Contents(q, n)[Min(Returns(q, n))] = RETURN
<1>1. Pushed(n) \in Nat
  BY PushedIs, Places
<1>2. Returns(q, n) \subseteq Nat
  BY <1>1 DEF Returns
<1>3. Min(Returns(q, n)) \in Returns(q, n)
  BY <1>2, LeastIs
<1> QED BY <1>3 DEF Returns

----------------------------------------------------------------------------
(* What a step of the queue does.                                           *)

\* The Kernal has room for no more than its buffer.
InBuffer(k) == k \in Seq(Char) /\ Len(k) <= BufferSize

LEMMA PushMoves ==
    ASSUME NEW q \in [Index -> Char], NEW n \in 0 .. QUEUE_SIZE, NEW k \in 0 .. n,
           k <= BufferSize, head_idx \in Index, kernal = << >>, Push(q, n, k)
    PROVE  /\ head_idx' \in Index /\ num_pending' \in 0 .. n /\ InBuffer(kernal')
           /\ kernal' \o Ring(q, head_idx', num_pending') = kernal \o Ring(q, head_idx, n)
<1>1. k \in Nat /\ k \in 0 .. QUEUE_SIZE /\ n - k \in 0 .. n /\ 0 \in 0 .. QUEUE_SIZE
      /\ BufferSize \in Nat
  BY Places
<1>2. PICK h \in Index : h = (head_idx + k) % QUEUE_SIZE
  BY <1>1, Slot
<1>3. head_idx' = h /\ num_pending' = n - k
  BY <1>2 DEF Push
<1>4. Ring(q, head_idx, n) \in Seq(Char) /\ Ring(q, head_idx, k) \in Seq(Char)
      /\ Len(Ring(q, head_idx, k)) = k
  BY <1>1, RingIs
<1>5. kernal' = Ring(q, head_idx, k)
  <2>1. CASE k = 0
    <3>1. Ring(q, head_idx, k) = << >>
      BY <1>4, <2>1, EmptySeq
    <3> QED BY <2>1, <3>1 DEF Push
  <2>2. CASE k # 0
    BY <2>2 DEF Push, Contents, Ring
  <2> QED BY <2>1, <2>2
<1>6. kernal' \o Ring(q, h, n - k) = Ring(q, head_idx, n)
  BY <1>2, <1>5, RingSplit
<1>7. kernal \o Ring(q, head_idx, n) = Ring(q, head_idx, n)
  BY <1>4, ConcatEmptySeq
<1>8. InBuffer(kernal')
  BY <1>4, <1>5 DEF InBuffer
<1> QED BY <1>1, <1>3, <1>6, <1>7, <1>8

\* kbdbuf_flush moves characters, in order; it sets the alarm only when it has
\* left a RETURN at the head, and does nothing while it is set.
LEMMA FlushMoves ==
    ASSUME NEW q \in [Index -> Char], NEW n \in 0 .. QUEUE_SIZE, NEW hold, NEW t \in Nat,
           NEW alarm, kbdbuf_flush(q, n, hold, t, alarm),
           head_idx \in Index, InBuffer(kernal)
    PROVE  /\ head_idx' \in Index /\ num_pending' \in 0 .. n /\ InBuffer(kernal')
           /\ kernal' \o Ring(q, head_idx', num_pending') = kernal \o Ring(q, head_idx, n)
           /\ \/ flushAlarm' = alarm
              \/ /\ hold /\ flushAlarm' \in {t + 1, t + 2}
                 /\ num_pending' > 0 /\ q[head_idx'] = RETURN
           /\ AlarmPending => /\ flushAlarm' = alarm /\ num_pending' = n
                              /\ head_idx' = head_idx
<1>1. CASE NoFlush(n)
  <2>1. num_pending' = n /\ flushAlarm' = alarm /\ head_idx' = head_idx /\ kernal' = kernal
    BY <1>1 DEF kbdbuf_flush
  <2>2. n \in 0 .. n
    BY Places
  <2> QED BY <2>1, <2>2
<1>2. CASE ~ NoFlush(n)
  <2>1. kernal = << >> /\ ~ AlarmPending
    BY <1>2 DEF NoFlush, kbdbuf_is_empty
  <2>2. CASE hold /\ Returns(q, n) # {}
    <3>1. PICK m \in 1 .. Pushed(n) : m = Min(Returns(q, n)) /\ Contents(q, n)[m] = RETURN
      BY <2>2, ReturnIs
    <3>2. m \in 1 .. n /\ m - 1 \in 0 .. n /\ m - 1 <= BufferSize /\ n - (m - 1) > 0
          /\ head_idx + (m - 1) = head_idx + m - 1
      BY <3>1, PushedIs, Places
    <3>3. Push(q, n, m - 1) /\ flushAlarm' \in {t + 1, t + 2}
      BY <1>2, <2>2, <3>1 DEF kbdbuf_flush
    <3>4. num_pending' = n - (m - 1) /\ head_idx' = (head_idx + (m - 1)) % QUEUE_SIZE
      BY <3>3 DEF Push
    <3>5. q[(head_idx + m - 1) % QUEUE_SIZE] = RETURN
      BY <3>1, <3>2 DEF Contents
    <3>6. num_pending' > 0 /\ q[head_idx'] = RETURN
      BY <3>2, <3>4, <3>5
    <3>7. PICK k \in 0 .. n : k = m - 1
      BY <3>2
    <3>8. Push(q, n, k) /\ k <= BufferSize
      BY <3>2, <3>3, <3>7
    <3> QED BY <2>1, <2>2, <3>3, <3>6, <3>8, PushMoves
  <2>3. CASE ~ (hold /\ Returns(q, n) # {})
    <3>1. Push(q, n, Pushed(n)) /\ flushAlarm' = alarm
      BY <1>2, <2>3 DEF kbdbuf_flush
    <3>2. Pushed(n) \in 0 .. n /\ Pushed(n) <= BufferSize
      BY PushedIs
    <3> QED BY <2>1, <3>1, <3>2, PushMoves
  <2> QED BY <2>2, <2>3
<1> QED BY <1>1, <1>2

----------------------------------------------------------------------------
(* The front of two sequences, one behind the other.                        *)

LEMMA TailOfConcat ==
    ASSUME NEW s \in Seq(Char), s # << >>, NEW t \in Seq(Char)
    PROVE  s \o t # << >> /\ Tail(s \o t) = Tail(s) \o t
<1> DEFINE l == Len(s)
           m == Len(t)
           c == s \o t
           r == Tail(s)
           d == r \o t
<1>1. l \in Nat /\ m \in Nat /\ l # 0
  BY LenProperties, EmptySeq
<1>2. /\ c \in Seq(Char) /\ Len(c) = l + m
      /\ \A i \in 1 .. l + m : c[i] = IF i <= l THEN s[i] ELSE t[i - l]
  BY ConcatProperties
<1>3. c # << >>
  BY <1>1, <1>2, EmptySeq
<1>4. r \in Seq(Char) /\ Len(r) = l - 1 /\ \A i \in 1 .. l - 1 : r[i] = s[i + 1]
  BY HeadTailProperties
<1>5. Tail(c) \in Seq(Char) /\ Len(Tail(c)) = l + m - 1
      /\ \A i \in 1 .. l + m - 1 : Tail(c)[i] = c[i + 1]
  <2> HIDE DEF c
  <2>1. Tail(c) \in Seq(Char) /\ Len(Tail(c)) = Len(c) - 1
        /\ \A i \in 1 .. Len(Tail(c)) : Tail(c)[i] = c[i + 1]
    BY <1>2, <1>3, HeadTailProperties
  <2> QED BY <1>2, <2>1
<1> HIDE DEF r
<1>6. d \in Seq(Char) /\ Len(d) = l - 1 + m
      /\ \A i \in 1 .. l - 1 + m : d[i] = IF i <= l - 1 THEN r[i] ELSE t[i - (l - 1)]
  <2>1. PICK k \in Nat : k = Len(r)
    BY <1>1, <1>4
  <2>2. d \in Seq(Char) /\ Len(d) = k + m
        /\ \A i \in 1 .. k + m : d[i] = IF i <= k THEN r[i] ELSE t[i - k]
    BY <1>4, <2>1, ConcatProperties
  <2>3. k = l - 1
    BY <1>4, <2>1
  <2> QED BY <2>2, <2>3
<1> HIDE DEF c, d, l, m
<1>7. ASSUME NEW i \in 1 .. l + m - 1
      PROVE  Tail(c)[i] = d[i]
  <2>1. i \in 1 .. l - 1 + m /\ i + 1 \in 1 .. l + m /\ (i + 1 <= l <=> i <= l - 1)
        /\ i + 1 - l = i - (l - 1)
    BY <1>1
  <2>2. i <= l - 1 => i \in 1 .. l - 1
    BY <1>1
  <2>3. Tail(c)[i] = IF i <= l - 1 THEN s[i + 1] ELSE t[i - (l - 1)]
    <3>1. Tail(c)[i] = c[i + 1]
      BY <1>5
    <3>2. PICK j \in 1 .. l + m : j = i + 1
      BY <2>1
    <3>3. c[j] = IF j <= l THEN s[j] ELSE t[j - l]
      BY <1>2
    <3>4. CASE i <= l - 1
      BY <2>1, <3>1, <3>2, <3>3, <3>4
    <3>5. CASE ~ (i <= l - 1)
      <4>1. ~ (j <= l) /\ j - l = i - (l - 1)
        BY <1>1, <2>1, <3>2, <3>5
      <4> QED BY <3>1, <3>2, <3>3, <3>5, <4>1
    <3> QED BY <3>4, <3>5
  <2>4. d[i] = IF i <= l - 1 THEN r[i] ELSE t[i - (l - 1)]
    BY <1>6, <2>1
  <2> QED BY <1>4, <2>2, <2>3, <2>4
<1>8. Len(d) = Len(Tail(c)) /\ Len(d) = l + m - 1
  BY <1>1, <1>5, <1>6
<1>9. Tail(c) = d
  BY <1>5, <1>6, <1>7, <1>8, SeqEqual
<1> QED BY <1>3, <1>9 DEF c, d, r

LEMMA RestOfConcat ==
    ASSUME NEW s \in Seq(Char), NEW t \in Seq(Char)
    PROVE  SubSeq(s \o t, Len(s) + 1, Len(s \o t)) = t
<1> DEFINE l == Len(s)
           m == Len(t)
           c == s \o t
           b == SubSeq(c, l + 1, l + m)
<1>1. l \in Nat /\ m \in Nat
  BY LenProperties
<1>2. /\ c \in Seq(Char) /\ Len(c) = l + m
      /\ \A i \in 1 .. l + m : c[i] = IF i <= l THEN s[i] ELSE t[i - l]
  BY ConcatProperties
<1> HIDE DEF c, l, m
<1>3. \A i \in l + 1 .. l + m : c[i] \in Char
  <2>1. ASSUME NEW i \in l + 1 .. l + m
        PROVE  i \in 1 .. Len(c)
    BY <1>1, <1>2
  <2> QED BY <1>2, <2>1, ElementOfSeq
<1>4. b \in Seq(Char) /\ Len(b) = (IF l + 1 <= l + m THEN l + m - (l + 1) + 1 ELSE 0)
      /\ \A i \in 1 .. l + m - (l + 1) + 1 : b[i] = c[l + 1 + i - 1]
  <2>1. PICK x \in Int : x = l + 1
    BY <1>1
  <2>2. PICK y \in Int : y = l + m
    BY <1>1
  <2>3. SubSeq(c, x, y) \in Seq(Char) /\ Len(SubSeq(c, x, y)) = (IF x <= y THEN y - x + 1 ELSE 0)
        /\ \A i \in 1 .. y - x + 1 : SubSeq(c, x, y)[i] = c[x + i - 1]
    BY <1>3, <2>1, <2>2, SubSeqProperties
  <2>4. b = SubSeq(c, x, y)
    BY <2>1, <2>2
  <2> HIDE DEF b
  <2> QED BY <1>1, <2>1, <2>2, <2>3, <2>4
<1> HIDE DEF b
<1>5. Len(b) = m
  BY <1>1, <1>4
<1>6. ASSUME NEW i \in 1 .. m
      PROVE  b[i] = t[i]
  <2>1. i \in 1 .. l + m - (l + 1) + 1 /\ l + 1 + i - 1 = l + i /\ l + i \in 1 .. l + m
        /\ ~ (l + i <= l) /\ l + i - l = i
    BY <1>1
  <2>2. b[i] = c[l + i]
    BY <1>4, <2>1
  <2>3. PICK j \in 1 .. l + m : j = l + i
    BY <2>1
  <2>4. c[j] = IF j <= l THEN s[j] ELSE t[j - l]
    BY <1>2
  <2> QED BY <1>1, <2>1, <2>2, <2>3, <2>4
<1>7. b = t
  BY <1>4, <1>5, <1>6, SeqEqual DEF m
<1> QED BY <1>2, <1>7 DEF b, c, l, m

----------------------------------------------------------------------------
(* What every step preserves.  That a held RETURN stays at the head is      *)
(* inductive only with the types, which keep the ring's places apart, and   *)
(* nothing is held back unless kbdbuf_feed_runcmd is used.                  *)

TypedQueue ==
    queue \in [Index -> Char] /\ head_idx \in Index /\ num_pending \in 0 .. QUEUE_SIZE

TypedRest ==
    /\ kbd_buf_enabled \in BOOLEAN /\ use_kbdbuf_flush_alarm \in BOOLEAN
    /\ flushAlarm \in 0 .. MaxClk + 2 /\ clk \in 0 .. MaxClk
    /\ feeds \in 0 .. MaxFeeds /\ resets \in 0 .. MaxResets
    /\ runCommands \in Autostarts

NothingHeld == runCommands = {} => ~ use_kbdbuf_flush_alarm /\ flushAlarm = 0

BufferInv ==
    TypedQueue /\ TypedRest /\ InBuffer(kernal) /\ HeldReturnAtHead /\ NothingHeld

\* What was fed and not yet read: what the Kernal has, and the queue.
Held == kernal \o Ring(queue, head_idx, num_pending)

\* A step loses what the Kernal had, or there was nothing.
FrontLost ==
    \/ Held' = Held
    \/ \E n \in 1 .. BufferSize : Held' = SubSeq(Held, n + 1, Len(Held))

LEMMA BoundsAre ==
    /\ MaxClk \in Nat /\ GuardClk \in 1 .. MaxClk - 1 /\ MaxFeeds \in Nat /\ MaxResets \in Nat
    /\ RETURN \in Char
    /\ \A s \in Strings : s \in Seq(Char)
    /\ \A run \in Autostarts : \A s \in run : s \in Seq(Char)
<1>1. RETURN \in Char
  <2> DEFINE A == UNION {Range(s) : s \in Strings \union (UNION Autostarts)}
  <2>1. Char = A \union {RETURN}
    BY DEF Char
  <2> HIDE DEF A
  <2> QED BY <2>1
<1> HIDE DEF Char
<1> QED BY <1>1, ClockAssumption, BoundAssumption, StringsAssumption

LEMMA InitKept == Init => BufferInv /\ Held = << >>
<1> SUFFICES ASSUME Init
             PROVE  BufferInv /\ Held = << >>
  OBVIOUS
<1>1. queue \in [Index -> Char] /\ head_idx \in Index /\ num_pending \in 0 .. QUEUE_SIZE
  BY BoundsAre, Places DEF Init
<1>2. TypedQueue
  BY <1>1 DEF TypedQueue
<1>3. 0 \in 0 .. MaxClk + 2 /\ 0 \in 0 .. MaxClk /\ 0 \in 0 .. MaxFeeds /\ 0 \in 0 .. MaxResets
  BY BoundsAre
<1>4. TypedRest
  BY <1>3 DEF Init, TypedRest
<1>5. kernal \in Seq(Char) /\ Len(kernal) = 0 /\ InBuffer(kernal)
  BY Places DEF Init, InBuffer
<1>6. Ring(queue, head_idx, 0) \in Seq(Char) /\ Len(Ring(queue, head_idx, 0)) = 0
  BY <1>1, RingIs, Places
<1>7. Ring(queue, head_idx, 0) = << >>
  BY <1>6, EmptySeq
<1>8. Held = << >>
  BY <1>5, <1>6, <1>7, ConcatEmptySeq DEF Held, Init
<1> QED BY <1>2, <1>4, <1>5, <1>8 DEF BufferInv, Init, HeldReturnAtHead, AlarmPending, NothingHeld

LEMMA HeldIs ==
    ASSUME BufferInv
    PROVE  /\ Ring(queue, head_idx, num_pending) \in Seq(Char)
           /\ kernal \in Seq(Char) /\ Held \in Seq(Char)
  BY RingIs DEF BufferInv, TypedQueue, InBuffer, Held

----------------------------------------------------------------------------
(* Each step in turn, and what it does to what is held.                     *)

LEMMA FeedKeeps ==
    ASSUME BufferInv, NEW s \in Seq(Char), NEW hold \in BOOLEAN, hold => runCommands # {},
           Feed(s, hold)
    PROVE  BufferInv' /\ Held' \in {Held, Held \o s}
<1>1. /\ feeds' \in 0 .. MaxFeeds /\ use_kbdbuf_flush_alarm' = hold
      /\ UNCHANGED <<kbd_buf_enabled, clk, resets, runCommands>>
      /\ clk \in Nat /\ clk \in 0 .. MaxClk
  BY BoundsAre DEF Feed, BufferInv, TypedRest
<1>2. /\ queue \in [Index -> Char] /\ head_idx \in Index /\ num_pending \in 0 .. QUEUE_SIZE
      /\ InBuffer(kernal) /\ flushAlarm \in 0 .. MaxClk + 2
  BY DEF BufferInv, TypedQueue, TypedRest
<1>3. CASE FitsQueue(s) /\ kbd_buf_enabled
  <2>1. PICK q \in [Index -> Char] : q = Queued(s)
    BY <1>2, <1>3, QueuedIsAppended
  <2>2. PICK n \in 0 .. QUEUE_SIZE : n = num_pending + Len(s)
    BY <1>2, <1>3, QueuedIsAppended
  <2>3. /\ Ring(q, head_idx, n) = Ring(queue, head_idx, num_pending) \o s
        /\ num_pending > 0 => q[head_idx] = queue[head_idx]
    BY <1>2, <1>3, <2>1, <2>2, QueuedIsAppended
  <2>4. queue' = q /\ kbdbuf_flush(q, n, hold, clk, flushAlarm)
    BY <1>3, <2>1, <2>2 DEF Feed
  <2>5. /\ head_idx' \in Index /\ num_pending' \in 0 .. n /\ InBuffer(kernal')
        /\ kernal' \o Ring(q, head_idx', num_pending') = kernal \o Ring(q, head_idx, n)
        /\ \/ flushAlarm' = flushAlarm
           \/ /\ hold /\ flushAlarm' \in {clk + 1, clk + 2}
              /\ num_pending' > 0 /\ q[head_idx'] = RETURN
        /\ AlarmPending => /\ flushAlarm' = flushAlarm /\ num_pending' = n
                           /\ head_idx' = head_idx
    BY <1>1, <1>2, <2>4, FlushMoves
  <2>6. Held' = Held \o s
    <3>1. Ring(queue, head_idx, num_pending) \in Seq(Char) /\ kernal \in Seq(Char)
      BY HeldIs
    <3>2. kernal \o (Ring(queue, head_idx, num_pending) \o s) =
              (kernal \o Ring(queue, head_idx, num_pending)) \o s
      BY <3>1, ConcatAssociative, SMTT(30)
    <3> QED BY <2>3, <2>4, <2>5, <3>2 DEF Held
  <2>7. TypedQueue'
    BY <2>4, <2>5, Places DEF TypedQueue
  <2>8. flushAlarm' \in 0 .. MaxClk + 2
    BY <1>1, <1>2, <2>5, BoundsAre
  <2>9. TypedRest'
    BY <1>1, <2>8 DEF BufferInv, TypedRest
  <2>10. HeldReturnAtHead'
    <3>1. CASE AlarmPending
      <4>1. num_pending > 0 /\ queue[head_idx] = RETURN
        BY <3>1 DEF BufferInv, HeldReturnAtHead
      <4>2. num_pending' > 0
        BY <1>2, <2>2, <2>5, <3>1, <4>1, LenProperties, Places
      <4> QED BY <2>3, <2>4, <2>5, <3>1, <4>1, <4>2 DEF HeldReturnAtHead
    <3>2. CASE ~ AlarmPending
      BY <2>4, <2>5, <3>2 DEF HeldReturnAtHead, AlarmPending
    <3> QED BY <3>1, <3>2
  <2>11. NothingHeld'
    BY <1>1, <2>5 DEF BufferInv, NothingHeld
  <2> QED BY <2>5, <2>6, <2>7, <2>9, <2>10, <2>11 DEF BufferInv
<1>4. CASE ~ (FitsQueue(s) /\ kbd_buf_enabled)
  <2>1. UNCHANGED <<queue, head_idx, num_pending, flushAlarm, kernal>>
    BY <1>4 DEF Feed, queueVars
  <2>2. BufferInv'
    BY <1>1, <2>1 DEF BufferInv, TypedQueue, TypedRest, HeldReturnAtHead, AlarmPending,
                      NothingHeld, InBuffer
  <2> QED BY <2>1, <2>2 DEF Held
<1> QED BY <1>3, <1>4

LEMMA FrameEndKeeps ==
    ASSUME BufferInv, FrameEnd
    PROVE  BufferInv' /\ Held' = Held
<1> DEFINE alarm == IF AlarmPending THEN flushAlarm - GuardSub ELSE 0
           t == clk + 1 - GuardSub
<1>1. /\ queue \in [Index -> Char] /\ head_idx \in Index /\ num_pending \in 0 .. QUEUE_SIZE
      /\ InBuffer(kernal) /\ flushAlarm \in 0 .. MaxClk + 2 /\ clk \in 0 .. MaxClk
  BY DEF BufferInv, TypedQueue, TypedRest
<1>2. /\ t \in 0 .. MaxClk
      /\ alarm \in 0 .. MaxClk + 2 /\ (alarm # 0 <=> AlarmPending)
  <2>1. AlarmPending => clk < flushAlarm
    BY DEF FrameEnd
  <2>2. CASE clk = MaxClk
    BY <1>1, <2>1, <2>2, BoundsAre DEF GuardSub, AlarmPending
  <2>3. CASE clk # MaxClk
    BY <1>1, <2>1, <2>3, BoundsAre DEF GuardSub, AlarmPending
  <2> QED BY <2>2, <2>3
<1>3. kbdbuf_flush(queue, num_pending, use_kbdbuf_flush_alarm, t, alarm)
  BY DEF FrameEnd, FrameFlush
<1>4. clk' = t /\ UNCHANGED <<queue, kbd_buf_enabled, use_kbdbuf_flush_alarm, feeds, resets, runCommands>>
  BY DEF FrameEnd, flagVars
<1> HIDE DEF alarm, t
<1>5. /\ head_idx' \in Index /\ num_pending' \in 0 .. num_pending /\ InBuffer(kernal')
      /\ kernal' \o Ring(queue, head_idx', num_pending') = Held
      /\ \/ flushAlarm' = alarm
         \/ /\ use_kbdbuf_flush_alarm /\ flushAlarm' \in {t + 1, t + 2}
            /\ num_pending' > 0 /\ queue[head_idx'] = RETURN
      /\ AlarmPending => /\ flushAlarm' = alarm /\ num_pending' = num_pending
                         /\ head_idx' = head_idx
  <2>1. t \in Nat
    BY <1>2, BoundsAre
  <2> QED BY <1>1, <1>3, <2>1, FlushMoves DEF Held
<1>6. TypedQueue' /\ Held' = Held
  BY <1>1, <1>4, <1>5, Places DEF TypedQueue, Held
<1>7. TypedRest'
  <2>1. flushAlarm' \in 0 .. MaxClk + 2
    BY <1>2, <1>5, BoundsAre
  <2> QED BY <1>2, <1>4, <2>1 DEF BufferInv, TypedRest
<1>8. HeldReturnAtHead'
  BY <1>2, <1>4, <1>5 DEF BufferInv, HeldReturnAtHead, AlarmPending
<1>9. NothingHeld'
  BY <1>2, <1>4, <1>5 DEF BufferInv, NothingHeld, AlarmPending
<1> QED BY <1>5, <1>6, <1>7, <1>8, <1>9 DEF BufferInv

\* The alarm finds a RETURN in the queue, which it takes off the count.
LEMMA AlarmRunsKeeps ==
    ASSUME BufferInv, AlarmRuns
    PROVE  BufferInv' /\ runCommands # {} /\ runCommands' = runCommands
<1>1. /\ AlarmPending /\ flushAlarm' = 0 /\ kernal' = <<RETURN>>
      /\ num_pending' = num_pending - 1
      /\ UNCHANGED <<queue, head_idx, kbd_buf_enabled, use_kbdbuf_flush_alarm, clk, feeds,
                     resets, runCommands>>
  BY DEF AlarmRuns, flagVars
<1>2. num_pending > 0 /\ runCommands # {}
  BY <1>1 DEF BufferInv, HeldReturnAtHead, NothingHeld, AlarmPending
<1>3. TypedQueue' /\ TypedRest'
  BY <1>1, <1>2, Places, BoundsAre DEF BufferInv, TypedQueue, TypedRest
<1>4. InBuffer(kernal')
  BY <1>1, Places, BoundsAre DEF InBuffer
<1> QED BY <1>1, <1>2, <1>3, <1>4 DEF BufferInv, HeldReturnAtHead, AlarmPending, NothingHeld

LEMMA KernalReadsKeeps ==
    ASSUME BufferInv, KernalReads
    PROVE  BufferInv' /\ Held # << >> /\ Held' = Tail(Held)
<1>1. /\ kernal # << >> /\ kernal' = Tail(kernal)
      /\ UNCHANGED <<queue, head_idx, num_pending, kbd_buf_enabled, use_kbdbuf_flush_alarm,
                     flushAlarm, clk, feeds, resets, runCommands>>
  BY DEF KernalReads, queueVars, flagVars
<1> DEFINE c == Ring(queue, head_idx, num_pending)
<1>2. kernal \in Seq(Char) /\ c \in Seq(Char) /\ Len(kernal) <= BufferSize /\ BufferSize \in Nat
  BY HeldIs, Places DEF BufferInv, InBuffer
<1>3. Held = kernal \o c /\ Held' = Tail(kernal) \o c
  BY <1>1 DEF Held
<1> HIDE DEF c
<1>4. Tail(kernal) \in Seq(Char) /\ Len(Tail(kernal)) = Len(kernal) - 1 /\ Len(kernal) \in Nat
  BY <1>1, <1>2, HeadTailProperties
<1>5. InBuffer(kernal')
  BY <1>1, <1>2, <1>4 DEF InBuffer
<1>6. kernal \o c # << >> /\ Tail(kernal \o c) = Tail(kernal) \o c
  BY <1>1, <1>2, TailOfConcat
<1>7. BufferInv'
  BY <1>1, <1>5 DEF BufferInv, TypedQueue, TypedRest, HeldReturnAtHead, AlarmPending, NothingHeld
<1> QED BY <1>3, <1>6, <1>7

\* What a reset, or a move of the Kernal's buffer, takes away.
LEMMA LossIs ==
    ASSUME BufferInv, kernal' = << >>, UNCHANGED <<queue, head_idx, num_pending>>
    PROVE  /\ InBuffer(kernal')
           /\ FrontLost
<1> USE DEF FrontLost
<1> DEFINE c == Ring(queue, head_idx, num_pending)
           n == Len(kernal)
<1>1. kernal \in Seq(Char) /\ c \in Seq(Char) /\ n <= BufferSize /\ BufferSize \in Nat
  BY HeldIs, Places DEF BufferInv, InBuffer
<1>2. Held = kernal \o c /\ Held' = << >> \o c
  BY DEF Held
<1>3. InBuffer(kernal')
  <2>1. << >> \in Seq(Char) /\ Len(<< >>) = 0
    OBVIOUS
  <2> QED BY <1>1, <2>1 DEF InBuffer
<1> HIDE DEF c
<1>4. << >> \o c = c /\ n \in Nat
  BY <1>1, ConcatEmptySeq, LenProperties
<1>5. CASE n = 0
  <2>1. kernal = << >>
    BY <1>1, <1>5, EmptySeq
  <2> QED BY <1>2, <1>3, <2>1
<1>6. CASE n > 0
  <2>1. SubSeq(kernal \o c, n + 1, Len(kernal \o c)) = c
    BY <1>1, RestOfConcat
  <2> QED BY <1>1, <1>2, <1>3, <1>4, <1>6, <2>1
<1> QED BY <1>4, <1>5, <1>6

----------------------------------------------------------------------------
(* The specification.                                                       *)

LEMMA ResetKeeps ==
    ASSUME BufferInv, MachineReset
    PROVE  BufferInv' /\ FrontLost
<1>1. /\ resets' \in 0 .. MaxResets /\ clk' = 0 /\ kernal' = << >>
      /\ UNCHANGED <<queue, head_idx, num_pending, kbd_buf_enabled, use_kbdbuf_flush_alarm,
                     flushAlarm, feeds, runCommands>>
  BY BoundsAre DEF MachineReset, queueVars, flagVars, BufferInv, TypedRest
<1>2. clk' \in 0 .. MaxClk
  BY <1>1, BoundsAre
<1>3. BufferInv'
  BY <1>1, <1>2, LossIs
     DEF BufferInv, TypedQueue, TypedRest, HeldReturnAtHead, AlarmPending, NothingHeld
<1> QED BY <1>1, <1>3, LossIs

LEMMA MoveKeeps ==
    ASSUME BufferInv, NEW known \in BOOLEAN, kbdbuf_reset(known)
    PROVE  BufferInv' /\ FrontLost
<1>1. /\ resets' \in 0 .. MaxResets /\ kernal' = << >> /\ kbd_buf_enabled' \in BOOLEAN
      /\ UNCHANGED <<queue, head_idx, num_pending, use_kbdbuf_flush_alarm, flushAlarm, clk,
                     feeds, runCommands>>
  BY BoundsAre DEF kbdbuf_reset, queueVars, BufferInv, TypedRest
<1>2. BufferInv'
  BY <1>1, LossIs
     DEF BufferInv, TypedQueue, TypedRest, HeldReturnAtHead, AlarmPending, NothingHeld
<1> QED BY <1>1, <1>2, LossIs

\* Every step keeps the invariant and, when nothing is held back, is one of the
\* stream's or unseen by it.
LEMMA NextKeeps ==
    ASSUME BufferInv, [Next]_vars
    PROVE  BufferInv' /\ [Stream!Next]_Unread
<1>1. Unread = (IF runCommands = {} THEN Held ELSE << >>)
      /\ Unread' = (IF runCommands' = {} THEN Held' ELSE << >>)
  BY DEF Unread, Held, Ring, Contents
<1>2. ASSUME runCommands' = runCommands, Held' = Held
      PROVE  [Stream!Next]_Unread
  BY <1>1, <1>2
<1>3. ASSUME runCommands' = runCommands, runCommands # {}
      PROVE  [Stream!Next]_Unread
  BY <1>1, <1>3
<1>4. ASSUME runCommands' = runCommands, FrontLost
      PROVE  [Stream!Next]_Unread
  <2>1. CASE runCommands = {} /\ Held' # Held
    <3>1. PICK n \in 1 .. BufferSize : Held' = SubSeq(Held, n + 1, Len(Held))
      BY <1>4, <2>1 DEF FrontLost
    <3>2. Stream!Lose(n)
      BY <1>1, <1>4, <2>1, <3>1 DEF Stream!Lose
    <3> QED BY <3>2 DEF Stream!Next
  <2> QED BY <1>2, <1>3, <1>4, <2>1 DEF FrontLost
<1>5. ASSUME NEW s \in Strings, Feed(s, FALSE)
      PROVE  BufferInv' /\ [Stream!Next]_Unread
  <2>1. s \in Seq(Char)
    BY BoundsAre
  <2>2. BufferInv' /\ Held' \in {Held, Held \o s}
    BY <1>5, <2>1, FeedKeeps
  <2>3. runCommands' = runCommands
    BY <1>5 DEF Feed
  <2>4. CASE runCommands = {} /\ Held' = Held \o s
    <3>1. Stream!Accept(s)
      BY <1>1, <2>3, <2>4 DEF Stream!Accept
    <3> QED BY <2>2, <3>1 DEF Stream!Next
  <2> QED BY <1>2, <1>3, <2>2, <2>3, <2>4
<1>6. ASSUME NEW s \in runCommands, Feed(s, TRUE)
      PROVE  BufferInv' /\ [Stream!Next]_Unread
  <2>1. s \in Seq(Char) /\ runCommands # {}
    BY BoundsAre DEF BufferInv, TypedRest
  <2>2. BufferInv'
    BY <1>6, <2>1, FeedKeeps
  <2>3. runCommands' = runCommands
    BY <1>6 DEF Feed
  <2> QED BY <1>3, <2>1, <2>2, <2>3
<1>7. CASE FrameEnd
  BY <1>2, <1>7, FrameEndKeeps DEF FrameEnd
<1>8. CASE AlarmRuns
  BY <1>3, <1>8, AlarmRunsKeeps
<1>9. CASE KernalReads
  <2>1. BufferInv' /\ Held # << >> /\ Held' = Tail(Held) /\ runCommands' = runCommands
    BY <1>9, KernalReadsKeeps DEF KernalReads
  <2>2. CASE runCommands = {}
    <3>1. Stream!Read
      BY <1>1, <2>1, <2>2 DEF Stream!Read
    <3> QED BY <2>1, <3>1 DEF Stream!Next
  <2> QED BY <1>3, <2>1, <2>2
<1>10. CASE MachineReset
  BY <1>4, <1>10, ResetKeeps DEF MachineReset
<1>11. ASSUME NEW known \in BOOLEAN, kbdbuf_reset(known)
       PROVE  BufferInv' /\ [Stream!Next]_Unread
  BY <1>4, <1>11, MoveKeeps DEF kbdbuf_reset
<1>12. CASE UNCHANGED vars
  <2>1. UNCHANGED <<queue, head_idx, num_pending, kbd_buf_enabled, use_kbdbuf_flush_alarm,
                    flushAlarm, kernal, clk, feeds, resets, runCommands>>
    BY <1>12 DEF vars, queueVars, flagVars
  <2>2. BufferInv' /\ Held' = Held
    BY <2>1 DEF BufferInv, TypedQueue, TypedRest, InBuffer, HeldReturnAtHead, AlarmPending,
                NothingHeld, Held
  <2> QED BY <1>2, <2>1, <2>2
<1> QED BY <1>5, <1>6, <1>7, <1>8, <1>9, <1>10, <1>11, <1>12 DEF Next

LEMMA Always == Spec => []BufferInv
<1>1. BufferInv /\ [Next]_vars => BufferInv'
  BY NextKeeps
<1> QED BY <1>1, InitKept, PTL DEF Spec

(* Every variable of kbdbuf.c keeps its range: the queue's count never goes *)
(* below zero or beyond its size, and the Kernal is never given more than   *)
(* its buffer takes.                                                        *)
THEOREM TypesHold == Spec => []TypeOK
<1>1. BufferInv => TypeOK
  <2> SUFFICES ASSUME BufferInv
               PROVE  TypeOK
    OBVIOUS
  <2>1. kernal \in Seq(Char) /\ Len(kernal) <= BufferSize
    BY DEF BufferInv, InBuffer
  <2>2. Range(kernal) \subseteq Char
    BY <2>1, ElementOfSeq, LenProperties DEF Range
  <2> QED BY <2>1, <2>2 DEF BufferInv, TypedQueue, TypedRest, TypeOK
<1> QED BY <1>1, Always, PTL

(* Whatever is fed, reset or moved while kbdbuf_flush_alarm_triggered is    *)
(* due, the character it is going to inject is the one at the head.         *)
THEOREM HeldReturnStays == Spec => []HeldReturnAtHead
<1>1. BufferInv => HeldReturnAtHead
  BY DEF BufferInv
<1> QED BY <1>1, Always, PTL

(* Without kbdbuf_feed_runcmd, the running program reads what kbdbuf_feed   *)
(* accepted in order and once: neither the circular queue nor the flushes   *)
(* can be seen.                                                             *)
THEOREM KbdBufIsStream == Spec => ImplementsStream
<1>1. BufferInv /\ [Next]_vars => [Stream!Next]_Unread
  BY NextKeeps
<1>2. Init => Stream!Init
  <2>1. Unread = (IF runCommands = {} THEN Held ELSE << >>)
    BY DEF Unread, Held, Ring, Contents
  <2> QED BY <2>1, InitKept DEF Stream!Init
<1> QED BY <1>1, <1>2, Always, PTL DEF Spec, ImplementsStream, Stream!Spec
=============================================================================
