-------------------------- MODULE AuditChainProofs --------------------------
(***************************************************************************)
(* Proofs about AuditChain, for any scopes, old rows and events, any       *)
(* number of processes and of transactions that run side by side.          *)
(***************************************************************************)
EXTENDS AuditChain, FiniteSetTheorems, SequenceTheorems, TLAPS

-----------------------------------------------------------------------------
(* Sequences of whatever they are made of.                                 *)

LEMMA ListedLength ==
    ASSUME NEW q, Listed(q)
    PROVE  Len(q) \in Nat /\ DOMAIN q = 1 .. Len(q)
  BY DEF Listed

LEMMA ListedWhole ==
    ASSUME NEW q, Listed(q)
    PROVE  q = [i \in 1 .. Len(q) |-> q[i]]
  BY DEF Listed

LEMMA InSeqIsListed ==
    ASSUME NEW S, NEW q \in Seq(S)
    PROVE  Listed(q)
  <1> DEFINE T == {q[i] : i \in DOMAIN q}
  <1>1. Len(q) \in Nat /\ q \in [1 .. Len(q) -> S] /\ DOMAIN q = 1 .. Len(q)
    OBVIOUS
  <1>2. q \in [1 .. Len(q) -> T]
    BY <1>1
  <1>3. q \in Seq(T)
    BY <1>1, <1>2, SeqDef
  <1>4. QED
    BY <1>3 DEF Listed

LEMMA EmptyListed == Listed(<<>>) /\ Len(<<>>) = 0 /\ DOMAIN <<>> = {}
  BY DEF Listed

LEMMA AppendListed ==
    ASSUME NEW q, Listed(q), NEW r
    PROVE  /\ Listed(Append(q, r))
           /\ Len(Append(q, r)) = Len(q) + 1
           /\ \A i \in 1 .. Len(q) : Append(q, r)[i] = q[i]
           /\ Append(q, r)[Len(q) + 1] = r
           /\ Append(q, r) # <<>>
  <1> DEFINE S == {q[i] : i \in DOMAIN q} \cup {r}
  <1>1. q \in Seq(S)
    <2>1. Len(q) \in Nat /\ q \in [1 .. Len(q) -> {q[i] : i \in DOMAIN q}]
      BY DEF Listed
    <2>2. q \in [1 .. Len(q) -> S]
      BY <2>1
    <2>3. QED
      BY <2>1, <2>2, SeqDef
  <1>2. r \in S
    OBVIOUS
  <1> HIDE DEF S
  <1>3. Append(q, r) \in Seq(S)
    BY <1>1, <1>2
  <1>4. Listed(Append(q, r))
    BY <1>3, InSeqIsListed
  <1>5. QED
    BY <1>1, <1>2, <1>4

LEMMA ConcatListed ==
    ASSUME NEW p, NEW q, Listed(p), Listed(q)
    PROVE  /\ Listed(p \o q)
           /\ Len(p \o q) = Len(p) + Len(q)
           /\ \A i \in 1 .. Len(p) : (p \o q)[i] = p[i]
           /\ \A i \in 1 .. Len(q) : (p \o q)[Len(p) + i] = q[i]
           /\ q = <<>> => p \o q = p
  <1> DEFINE S == {p[i] : i \in DOMAIN p} \cup {q[i] : i \in DOMAIN q}
  <1>1. p \in Seq(S)
    <2>1. Len(p) \in Nat /\ p \in [1 .. Len(p) -> {p[i] : i \in DOMAIN p}]
      BY DEF Listed
    <2>2. p \in [1 .. Len(p) -> S]
      BY <2>1
    <2>3. QED
      BY <2>1, <2>2, SeqDef
  <1>2. q \in Seq(S)
    <2>1. Len(q) \in Nat /\ q \in [1 .. Len(q) -> {q[i] : i \in DOMAIN q}]
      BY DEF Listed
    <2>2. q \in [1 .. Len(q) -> S]
      BY <2>1
    <2>3. QED
      BY <2>1, <2>2, SeqDef
  <1> HIDE DEF S
  <1>3. p \o q \in Seq(S)
    BY <1>1, <1>2
  <1>4. Listed(p \o q)
    BY <1>3, InSeqIsListed
  <1>5. /\ Len(p \o q) = Len(p) + Len(q)
        /\ \A i \in 1 .. Len(p) : (p \o q)[i] = p[i]
        /\ \A i \in 1 .. Len(q) : (p \o q)[Len(p) + i] = q[i]
    BY <1>1, <1>2
  <1>6. q = <<>> => p \o q = p
    BY <1>1
  <1>7. QED
    BY <1>4, <1>5, <1>6

LEMMA ListedEqual ==
    ASSUME NEW p, NEW q, Listed(p), Listed(q), Len(p) = Len(q),
           \A i \in 1 .. Len(p) : p[i] = q[i]
    PROVE  p = q
  <1>1. p = [i \in 1 .. Len(p) |-> p[i]] /\ q = [i \in 1 .. Len(q) |-> q[i]]
    BY ListedWhole
  <1>2. [i \in 1 .. Len(p) |-> p[i]] = [i \in 1 .. Len(q) |-> q[i]]
    OBVIOUS
  <1>3. QED
    BY <1>1, <1>2

\* A row appended at the end of the second part is appended to the whole.
LEMMA ConcatAppend ==
    ASSUME NEW p, NEW q, Listed(p), Listed(q), NEW r
    PROVE  p \o Append(q, r) = Append(p \o q, r)
  <1> DEFINE q2 == Append(q, r)
             w == p \o q
             left == p \o q2
             right == Append(w, r)
  <1>1. /\ Listed(q2) /\ Len(q2) = Len(q) + 1 /\ q2[Len(q) + 1] = r
        /\ \A i \in 1 .. Len(q) : q2[i] = q[i]
    BY AppendListed
  <1>2. /\ Listed(w) /\ Len(w) = Len(p) + Len(q)
        /\ \A i \in 1 .. Len(p) : w[i] = p[i]
        /\ \A i \in 1 .. Len(q) : w[Len(p) + i] = q[i]
    BY ConcatListed
  <1> HIDE DEF q2, w
  <1>3. /\ Listed(left) /\ Len(left) = Len(p) + Len(q2)
        /\ \A i \in 1 .. Len(p) : left[i] = p[i]
        /\ \A i \in 1 .. Len(q2) : left[Len(p) + i] = q2[i]
    BY <1>1, ConcatListed
  <1>4. /\ Listed(right) /\ Len(right) = Len(w) + 1 /\ right[Len(w) + 1] = r
        /\ \A i \in 1 .. Len(w) : right[i] = w[i]
    BY <1>2, AppendListed
  <1> HIDE DEF left, right
  <1>5. Len(p) \in Nat /\ Len(q) \in Nat
    BY ListedLength
  <1>6. Len(left) = Len(p) + Len(q) + 1 /\ Len(right) = Len(p) + Len(q) + 1
    BY <1>1, <1>2, <1>3, <1>4, <1>5
  <1>7. ASSUME NEW i \in 1 .. Len(left) PROVE left[i] = right[i]
    <2>1. CASE i \in 1 .. Len(p)
      BY <1>2, <1>3, <1>4, <1>5, <1>6, <2>1
    <2>2. CASE i \notin 1 .. Len(p) /\ i # Len(p) + Len(q) + 1
      <3>1. PICK j \in 1 .. Len(q) : i = Len(p) + j
        <4>1. i - Len(p) \in 1 .. Len(q)
          BY <1>5, <1>6, <2>2
        <4>2. i = Len(p) + (i - Len(p))
          BY <1>5
        <4>3. QED
          BY <4>1, <4>2
      <3>2. left[i] = q[j]
        BY <1>1, <1>3, <1>5, <3>1
      <3>3. right[i] = q[j]
        BY <1>2, <1>4, <1>5, <3>1
      <3>4. QED
        BY <3>2, <3>3
    <2>3. CASE i = Len(p) + Len(q) + 1
      <3>1. i = Len(p) + (Len(q) + 1) /\ Len(q) + 1 \in 1 .. Len(q2)
        BY <1>1, <1>5, <2>3
      <3>2. left[i] = r
        BY <1>1, <1>3, <3>1
      <3>3. right[i] = r
        BY <1>2, <1>4, <2>3
      <3>4. QED
        BY <3>2, <3>3
    <2>4. QED
      BY <2>1, <2>2, <2>3
  <1>8. left = right
    BY <1>3, <1>4, <1>6, <1>7, ListedEqual
  <1>9. QED
    BY <1>8 DEF left, right, q2, w

LEMMA TailOfWork ==
    ASSUME NEW S, NEW q \in Seq(S), q # <<>>
    PROVE  /\ Len(q) \in Nat /\ 1 \in DOMAIN q /\ q[1] \in S
           /\ Tail(q) \in Seq(S) /\ Len(Tail(q)) = Len(q) - 1
           /\ \A i \in DOMAIN Tail(q) : i + 1 \in DOMAIN q /\ Tail(q)[i] = q[i + 1]
           /\ \A j \in DOMAIN q : j # 1 => j - 1 \in DOMAIN Tail(q) /\ Tail(q)[j - 1] = q[j]
  <1>1. Len(q) \in Nat /\ DOMAIN q = 1 .. Len(q) /\ Len(q) # 0
    OBVIOUS
  <1>2. /\ Tail(q) \in Seq(S) /\ Len(Tail(q)) = Len(q) - 1
        /\ \A i \in 1 .. Len(Tail(q)) : Tail(q)[i] = q[i + 1]
    BY HeadTailProperties
  <1>3. DOMAIN Tail(q) = 1 .. Len(q) - 1
    BY <1>2
  <1> DEFINE t == Tail(q)
  <1> HIDE DEF t
  <1>4. \A i \in 1 .. Len(q) - 1 : i + 1 \in DOMAIN q /\ t[i] = q[i + 1]
    BY <1>1, <1>2 DEF t
  <1>5. \A j \in DOMAIN q : j # 1 => j - 1 \in 1 .. Len(q) - 1 /\ t[j - 1] = q[j]
    <2> SUFFICES ASSUME NEW j \in DOMAIN q, j # 1
                 PROVE  j - 1 \in 1 .. Len(q) - 1 /\ t[j - 1] = q[j]
      OBVIOUS
    <2>1. j - 1 \in 1 .. Len(q) - 1 /\ (j - 1) + 1 = j
      BY <1>1
    <2>2. QED
      BY <1>4, <2>1
  <1>6. q[1] \in S /\ 1 \in DOMAIN q
    BY <1>1
  <1>7. QED
    BY <1>1, <1>2, <1>3, <1>4, <1>5, <1>6 DEF t

-----------------------------------------------------------------------------
(* Events, rows and chains.                                                *)

\* What is left of a time in the table is what the signature covers.
LEMMA Microseconds ==
    ASSUME NEW a \in Nat
    PROVE  /\ (a \div Micro) * Micro \in Nat
           /\ ((a \div Micro) * Micro) \div Micro = a \div Micro
  <1>1. Micro \in Nat \ {0}
    BY ChainConstants
  <1>2. a \div Micro \in Nat
    BY <1>1
  <1>3. ASSUME NEW m \in Nat \ {0}, NEW k \in Nat
        PROVE  k * m \in Nat /\ (k * m) \div m = k
    OBVIOUS
  <1>4. QED
    BY <1>1, <1>2, <1>3

LEMMA StoredEvent ==
    ASSUME NEW e \in AuditEvent
    PROVE  /\ Stored(e) \in AuditEvent /\ Id(Stored(e)) = Id(e)
           /\ \A n, h : sign(n, h, Stored(e)) = sign(n, h, e)
           /\ e.scope \in Scopes
  <1>1. /\ e.at \in Nat /\ e.scope \in Scopes
        /\ (e.at \div Micro) * Micro \in Nat
        /\ ((e.at \div Micro) * Micro) \div Micro = e.at \div Micro
    BY Microseconds DEF AuditEvent
  <1> DEFINE at == (e.at \div Micro) * Micro
  <1>2. Stored(e) = [e EXCEPT !.at = at]
    BY DEF Stored
  <1>3. at \in Nat /\ at \div Micro = e.at \div Micro
    BY <1>1
  <1> HIDE DEF at
  <1>4. /\ Stored(e) \in AuditEvent /\ Stored(e).at = at
        /\ Stored(e).source = e.source /\ Stored(e).name = e.name /\ Stored(e).scope = e.scope
    BY <1>2, <1>3 DEF AuditEvent
  <1>5. QED
    BY <1>1, <1>3, <1>4 DEF Id, sign

LEMMA RowFields ==
    ASSUME NEW head, NEW e
    PROVE  /\ RowAfter(head, e).sequence = head.sequence + 1
           /\ RowAfter(head, e).previous_hash = head.hash
           /\ RowAfter(head, e).event_hash = sign(head.sequence + 1, head.hash, e)
           /\ RowAfter(head, e).event = Stored(e)
  BY DEF RowAfter

\* The head that row i of a chain has to follow.
Before(rows, i) ==
    IF i = 1 THEN NoHead
    ELSE [sequence |-> rows[i - 1].sequence, hash |-> rows[i - 1].event_hash]

LEMMA HeadBefore ==
    ASSUME NEW rows, Listed(rows), NEW i \in DOMAIN rows, i # 1
    PROVE  HeadOf(SubSeq(rows, 1, i - 1)) = Before(rows, i)
  <1> DEFINE S == {rows[j] : j \in DOMAIN rows}
             sub == SubSeq(rows, 1, i - 1)
  <1>1. Len(rows) \in Nat /\ DOMAIN rows = 1 .. Len(rows)
    BY ListedLength
  <1>2. i \in Int /\ i - 1 \in Nat /\ i - 1 >= 1 /\ \A j \in 1 .. i - 1 : rows[j] \in S
    BY <1>1
  <1>3. /\ sub \in Seq(S) /\ Len(sub) = i - 1
        /\ \A j \in 1 .. i - 1 : sub[j] = rows[j]
    <2> HIDE DEF S
    <2>1. i - 1 \in Int /\ 1 \in Int
      BY <1>2
    <2>2. /\ sub \in Seq(S) /\ Len(sub) = IF 1 <= i - 1 THEN (i - 1) - 1 + 1 ELSE 0
          /\ \A j \in 1 .. (i - 1) - 1 + 1 : sub[j] = rows[1 + j - 1]
      BY <1>2, <2>1, SubSeqProperties
    <2>3. QED
      BY <1>2, <2>2
  <1> HIDE DEF S, sub
  <1>4. sub # <<>> /\ sub[Len(sub)] = rows[i - 1]
    BY <1>2, <1>3
  <1>5. HeadOf(sub) = Before(rows, i)
    BY <1>4 DEF HeadOf, Before
  <1>6. QED
    BY <1>5 DEF sub

\* verify, said without the part of the chain before a row.
LEMMA VerifyLinks ==
    ASSUME NEW rows, Listed(rows)
    PROVE  verify(rows) <=>
              \A i \in DOMAIN rows :
                  /\ rows[i].sequence = Before(rows, i).sequence + 1
                  /\ rows[i].previous_hash = Before(rows, i).hash
                  /\ rows[i].event_hash =
                        sign(rows[i].sequence, rows[i].previous_hash, rows[i].event)
  <1>1. \A i \in DOMAIN rows :
            (IF i = 1 THEN NoHead ELSE HeadOf(SubSeq(rows, 1, i - 1))) = Before(rows, i)
    BY HeadBefore DEF Before
  <1>2. QED
    BY <1>1 DEF verify

LEMMA EmptySound == Sound(<<>>)
  BY DEF Sound, verify

LEMMA AppendSound ==
    ASSUME NEW rows, RowList(rows), Sound(rows), NEW e \in AuditEvent, Id(e) \notin Ids(rows)
    PROVE  /\ RowList(Append(rows, RowAfter(HeadOf(rows), e)))
           /\ Sound(Append(rows, RowAfter(HeadOf(rows), e)))
  <1> DEFINE h == HeadOf(rows)
             r == RowAfter(h, e)
             n == Len(rows)
             q == Append(rows, r)
  <1>1. Listed(rows) /\ n \in Nat /\ DOMAIN rows = 1 .. n
    BY ListedLength DEF RowList
  <1>2. /\ Listed(q) /\ Len(q) = n + 1 /\ q[n + 1] = r
        /\ \A i \in 1 .. n : q[i] = rows[i]
    BY <1>1, AppendListed
  <1>3. DOMAIN q = 1 .. n + 1
    BY <1>2, ListedLength
  <1>4. /\ r.sequence = h.sequence + 1 /\ r.previous_hash = h.hash
        /\ r.event_hash = sign(h.sequence + 1, h.hash, e) /\ r.event = Stored(e)
    BY RowFields
  <1>5. /\ r.event \in AuditEvent /\ Id(r.event) = Id(e)
        /\ r.event_hash = sign(r.sequence, r.previous_hash, r.event)
    BY <1>4, StoredEvent
  <1> HIDE DEF q, r, n
  <1>6. Before(q, n + 1) = h
    <2>1. CASE n = 0
      <3>1. rows = <<>>
        BY <1>1, <2>1, EmptyListed, ListedEqual DEF n
      <3>2. QED
        BY <2>1, <3>1 DEF Before, HeadOf
    <2>2. CASE n # 0
      <3>1. n + 1 # 1 /\ (n + 1) - 1 = n /\ q[n] = rows[n]
        <4>1. n \in 1 .. n
          BY <1>1, <2>2
        <4>2. QED
          BY <1>1, <1>2, <4>1
      <3>2. rows # <<>>
        BY <2>2, EmptyListed DEF n
      <3>3. QED
        BY <3>1, <3>2 DEF Before, HeadOf, n
    <2>3. QED
      BY <2>1, <2>2
  <1> HIDE DEF h
  <1>7. \A i \in 1 .. n : Before(q, i) = Before(rows, i)
    <2>1. \A i \in 1 .. n : i # 1 => q[i - 1] = rows[i - 1]
      BY <1>1, <1>2
    <2>2. QED
      BY <2>1 DEF Before
  <1>8. verify(q)
    <2>1. \A i \in 1 .. n :
              /\ rows[i].sequence = Before(rows, i).sequence + 1
              /\ rows[i].previous_hash = Before(rows, i).hash
              /\ rows[i].event_hash =
                    sign(rows[i].sequence, rows[i].previous_hash, rows[i].event)
      BY <1>1, VerifyLinks DEF Sound
    <2>2. \A i \in 1 .. n + 1 : i \in 1 .. n \/ i = n + 1
      BY <1>1
    <2>3. \A i \in 1 .. n + 1 :
              /\ q[i].sequence = Before(q, i).sequence + 1
              /\ q[i].previous_hash = Before(q, i).hash
              /\ q[i].event_hash = sign(q[i].sequence, q[i].previous_hash, q[i].event)
      BY <1>2, <1>4, <1>5, <1>6, <1>7, <2>1, <2>2
    <2>4. QED
      BY <1>2, <1>3, <2>3, VerifyLinks
  <1>9. \A i, j \in 1 .. n + 1 : i # j => Id(q[i].event) # Id(q[j].event)
    <2>1. \A i, j \in 1 .. n : i # j => Id(rows[i].event) # Id(rows[j].event)
      BY <1>1 DEF Sound
    <2>2. \A i \in 1 .. n : Id(rows[i].event) # Id(e)
      BY <1>1 DEF Ids
    <2>3. \A i \in 1 .. n + 1 : i \in 1 .. n \/ i = n + 1
      BY <1>1
    <2>4. QED
      BY <1>2, <1>5, <2>1, <2>2, <2>3
  <1>10. \A i \in 1 .. n + 1 : q[i].event \in AuditEvent
    <2>1. \A i \in 1 .. n + 1 : i \in 1 .. n \/ i = n + 1
      BY <1>1
    <2>2. QED
      BY <1>1, <1>2, <1>5, <2>1 DEF RowList
  <1>11. QED
    BY <1>2, <1>3, <1>8, <1>9, <1>10 DEF Sound, RowList, q, r, h

LEMMA IdsAppend ==
    ASSUME NEW rows, Listed(rows), NEW r
    PROVE  Ids(Append(rows, r)) = Ids(rows) \cup {Id(r.event)}
  <1> DEFINE q == Append(rows, r)
             n == Len(rows)
  <1>1. n \in Nat /\ DOMAIN rows = 1 .. n
    BY ListedLength
  <1>2. /\ Listed(q) /\ Len(q) = n + 1 /\ q[n + 1] = r
        /\ \A i \in 1 .. n : q[i] = rows[i]
    BY AppendListed
  <1>3. DOMAIN q = 1 .. n + 1
    BY <1>2, ListedLength
  <1> HIDE DEF q, n
  <1>4. 1 .. n + 1 = 1 .. n \cup {n + 1}
    BY <1>1
  <1>5. Ids(q) = Ids(rows) \cup {Id(r.event)}
    BY <1>1, <1>2, <1>3, <1>4 DEF Ids
  <1>6. QED
    BY <1>5 DEF q

LEMMA IdsConcat ==
    ASSUME NEW p, NEW q, Listed(p), Listed(q)
    PROVE  Ids(p \o q) = Ids(p) \cup Ids(q)
  <1> DEFINE w == p \o q
  <1>1. Len(p) \in Nat /\ DOMAIN p = 1 .. Len(p) /\ Len(q) \in Nat /\ DOMAIN q = 1 .. Len(q)
    BY ListedLength
  <1>2. /\ Listed(w) /\ Len(w) = Len(p) + Len(q)
        /\ \A i \in 1 .. Len(p) : w[i] = p[i]
        /\ \A i \in 1 .. Len(q) : w[Len(p) + i] = q[i]
    BY ConcatListed
  <1>3. DOMAIN w = 1 .. Len(p) + Len(q)
    BY <1>2, ListedLength
  <1> HIDE DEF w
  <1>4. ASSUME NEW k \in DOMAIN w
        PROVE  \/ \E i \in DOMAIN p : w[k] = p[i]
               \/ \E i \in DOMAIN q : w[k] = q[i]
    <2>1. CASE k \in 1 .. Len(p)
      BY <1>1, <1>2, <2>1
    <2>2. CASE k \notin 1 .. Len(p)
      <3>1. k - Len(p) \in 1 .. Len(q) /\ k = Len(p) + (k - Len(p))
        BY <1>1, <1>3, <2>2
      <3>2. QED
        BY <1>1, <1>2, <3>1
    <2>3. QED
      BY <2>1, <2>2
  <1>5. \A i \in DOMAIN p : i \in DOMAIN w /\ w[i] = p[i]
    BY <1>1, <1>2, <1>3
  <1>6. \A i \in DOMAIN q : Len(p) + i \in DOMAIN w /\ w[Len(p) + i] = q[i]
    BY <1>1, <1>2, <1>3
  <1>7. Ids(w) = Ids(p) \cup Ids(q)
    BY <1>4, <1>5, <1>6 DEF Ids
  <1>8. QED
    BY <1>7 DEF w

LEMMA RowListAppend ==
    ASSUME NEW rows, RowList(rows), NEW r, r.event \in AuditEvent
    PROVE  RowList(Append(rows, r))
  <1>1. Listed(rows) /\ Len(rows) \in Nat /\ DOMAIN rows = 1 .. Len(rows)
    BY ListedLength DEF RowList
  <1> DEFINE q == Append(rows, r)
  <1>2. /\ Listed(q) /\ Len(q) = Len(rows) + 1 /\ q[Len(rows) + 1] = r
        /\ \A i \in 1 .. Len(rows) : q[i] = rows[i]
    BY <1>1, AppendListed
  <1>3. DOMAIN q = 1 .. Len(rows) + 1
    BY <1>2, ListedLength
  <1> HIDE DEF q
  <1>4. \A i \in 1 .. Len(rows) + 1 : i \in 1 .. Len(rows) \/ i = Len(rows) + 1
    BY <1>1
  <1>5. \A i \in DOMAIN q : q[i].event \in AuditEvent
    BY <1>1, <1>2, <1>3, <1>4 DEF RowList
  <1>6. QED
    BY <1>2, <1>5 DEF RowList, q

LEMMA RowListConcat ==
    ASSUME NEW p, NEW q, RowList(p), RowList(q)
    PROVE  RowList(p \o q)
  <1>1. Listed(p) /\ Listed(q)
    BY DEF RowList
  <1>2. /\ Len(p) \in Nat /\ DOMAIN p = 1 .. Len(p) /\ Len(q) \in Nat /\ DOMAIN q = 1 .. Len(q)
    BY <1>1, ListedLength
  <1> DEFINE w == p \o q
  <1>3. /\ Listed(w) /\ Len(w) = Len(p) + Len(q)
        /\ \A i \in 1 .. Len(p) : w[i] = p[i]
        /\ \A i \in 1 .. Len(q) : w[Len(p) + i] = q[i]
    BY <1>1, ConcatListed
  <1>4. DOMAIN w = 1 .. Len(p) + Len(q)
    BY <1>3, ListedLength
  <1> HIDE DEF w
  <1>5. ASSUME NEW k \in DOMAIN w PROVE w[k].event \in AuditEvent
    <2>1. CASE k \in 1 .. Len(p)
      BY <1>2, <1>3, <2>1 DEF RowList
    <2>2. CASE k \notin 1 .. Len(p)
      <3>1. k - Len(p) \in 1 .. Len(q) /\ k = Len(p) + (k - Len(p))
        BY <1>2, <1>4, <2>2
      <3>2. QED
        BY <1>2, <1>3, <3>1 DEF RowList
    <2>3. QED
      BY <2>1, <2>2
  <1>6. QED
    BY <1>3, <1>5 DEF RowList, w

-----------------------------------------------------------------------------
(* Transactions.                                                           *)

Transaction(step, work, head, rows, snapshot) ==
    [step |-> step, work |-> work, head |-> head, rows |-> rows, snapshot |-> snapshot]

NoRows == [s \in Scopes |-> <<>>]

LEMMA TransactionIs ==
    ASSUME NEW step \in {"idle", "next", "locked", "insert"}, NEW work \in Seq(AuditEvent),
           NEW head, NEW rows, rows = [s \in Scopes |-> rows[s]],
           \A s \in Scopes : RowList(rows[s]),
           NEW snapshot \in Seq(AuditEvent) \cup {None}
    PROVE  IsTransaction(Transaction(step, work, head, rows, snapshot))
  BY DEF IsTransaction, Transaction

LEMMA TransactionFields ==
    ASSUME NEW step, NEW work, NEW head, NEW rows, NEW snapshot
    PROVE  /\ Transaction(step, work, head, rows, snapshot).step = step
           /\ Transaction(step, work, head, rows, snapshot).work = work
           /\ Transaction(step, work, head, rows, snapshot).head = head
           /\ Transaction(step, work, head, rows, snapshot).rows = rows
           /\ Transaction(step, work, head, rows, snapshot).snapshot = snapshot
  BY DEF Transaction

\* The transactions that the assignments of the steps make.
LEMMA WithBegin ==
    ASSUME NEW t, IsTransaction(t), NEW v, NEW w, NEW t2,
           t2 = [t EXCEPT !.step = "next", !.work = v, !.snapshot = w]
    PROVE  t2 = Transaction("next", v, t.head, t.rows, w)
  BY DEF IsTransaction, Transaction

LEMMA WithWork ==
    ASSUME NEW t, IsTransaction(t), NEW v, NEW t2, t2 = [t EXCEPT !.work = v]
    PROVE  t2 = Transaction(t.step, v, t.head, t.rows, t.snapshot)
  BY DEF IsTransaction, Transaction

LEMMA WithStep ==
    ASSUME NEW t, IsTransaction(t), NEW v, NEW t2, t2 = [t EXCEPT !.step = v]
    PROVE  t2 = Transaction(v, t.work, t.head, t.rows, t.snapshot)
  BY DEF IsTransaction, Transaction

LEMMA WithHead ==
    ASSUME NEW t, IsTransaction(t), NEW v, NEW w, NEW t2,
           t2 = [t EXCEPT !.step = v, !.head = w]
    PROVE  t2 = Transaction(v, t.work, w, t.rows, t.snapshot)
  BY DEF IsTransaction, Transaction

LEMMA WithRow ==
    ASSUME NEW t, IsTransaction(t), NEW s \in Scopes, NEW v, NEW r, NEW t2,
           t2 = [t EXCEPT !.step = "next", !.head = None, !.work = v, !.rows[s] = r]
    PROVE  t2 = Transaction("next", v, None, [t.rows EXCEPT ![s] = r], t.snapshot)
  BY DEF IsTransaction, Transaction

LEMMA NoRowsOk ==
    /\ NoRows = [s \in Scopes |-> NoRows[s]]
    /\ \A s \in Scopes : NoRows[s] = <<>> /\ RowList(NoRows[s])
  BY EmptyListed DEF NoRows, RowList

LEMMA IdleIs ==
    /\ Idle = Transaction("idle", <<>>, None, NoRows, None)
    /\ IsTransaction(Idle) /\ Idle.rows = NoRows /\ Idle.step = "idle" /\ Idle.work = <<>>
    /\ Idle.snapshot = None /\ Idle.head = None
  <1>1. Idle = Transaction("idle", <<>>, None, NoRows, None)
    BY DEF Idle, Transaction, NoRows
  <1>2. <<>> \in Seq(AuditEvent)
    OBVIOUS
  <1>3. IsTransaction(Transaction("idle", <<>>, None, NoRows, None))
    BY <1>2, NoRowsOk, TransactionIs
  <1>4. /\ Idle.rows = NoRows /\ Idle.step = "idle" /\ Idle.work = <<>>
        /\ Idle.snapshot = None /\ Idle.head = None
    BY <1>1, TransactionFields
  <1>5. QED
    BY <1>1, <1>3, <1>4

LEMMA ConstantFacts ==
    /\ None \notin Sessions /\ Writers \subseteq Sessions /\ Starters \subseteq Sessions
    /\ Starters \cap Writers = {} /\ Server \in Starters /\ Sessions = Starters \cup Writers
  BY ChainConstants DEF Sessions

LEMMA Parts ==
    ASSUME ChainsSound
    PROVE  /\ TypeOK /\ \A x \in Sessions : IsTransaction(txn[x]) /\ Exclusive(x)
           /\ \A s \in Scopes : RowList(chain[s]) /\ Sound(chain[s])
           /\ \A x \in Sessions, s \in Scopes : Sound(Seen(x, s)) /\ RowList(txn[x].rows[s])
  BY DEF ChainsSound, TypeOK, IsTransaction

LEMMA SoundNext ==
    ASSUME NEW s, NEW x
    PROVE  /\ Sound(chain[s])' <=> Sound(chain'[s])
           /\ Sound(Seen(x, s))' <=> Sound(Seen(x, s)')
  <1>1. Sound(chain[s])' <=> Sound(chain'[s])
    BY DEF Sound, verify, Id, sign, HeadOf, NoHead
  <1>2. Sound(Seen(x, s))' <=> Sound(Seen(x, s)')
    BY DEF Sound, verify, Id, sign, HeadOf, NoHead
  <1>3. QED
    BY <1>1, <1>2

\* What x sees, if it has no rows of this scope.
LEMMA SeenWithoutRows ==
    ASSUME NEW s, Listed(chain[s]), NEW x, txn[x].rows[s] = <<>>
    PROVE  Seen(x, s) = chain[s]
  BY EmptyListed, ConcatListed DEF Seen

LEMMA SetTransaction ==
    ASSUME txn = [y \in Sessions |-> txn[y]], NEW x \in Sessions, NEW t,
           txn' = [txn EXCEPT ![x] = t]
    PROVE  /\ txn' = [y \in Sessions |-> txn'[y]] /\ txn'[x] = t
           /\ \A y \in Sessions : y # x => txn'[y] = txn[y]
  OBVIOUS

LEMMA WorkHead ==
    ASSUME NEW t, IsTransaction(t), t.work # <<>>
    PROVE  /\ t.work[1] \in AuditEvent /\ t.work[1].scope \in Scopes
           /\ Tail(t.work) \in Seq(AuditEvent)
  <1>1. t.work \in Seq(AuditEvent)
    BY DEF IsTransaction
  <1>2. t.work[1] \in AuditEvent /\ Tail(t.work) \in Seq(AuditEvent)
    BY <1>1, TailOfWork
  <1>3. QED
    BY <1>2, StoredEvent

\* A transaction that stays as it is, and whose chains do.
LEMMA KeptExclusive ==
    ASSUME ChainsSound, NEW y \in Sessions, txn'[y] = txn[y],
           \A s \in Scopes : locks[s] = y => locks'[s] = y /\ chain'[s] = chain[s]
    PROVE  Exclusive(y)'
  <1>1. Exclusive(y) /\ IsTransaction(txn[y])
    BY Parts
  <1>2. \A s \in Scopes : txn'[y].rows[s] # <<>> => locks'[s] = y
    BY <1>1 DEF Exclusive
  <1>3. CASE ~Extending(y)
    BY <1>1, <1>2, <1>3 DEF Exclusive, Extending
  <1>4. CASE Extending(y)
    <2> DEFINE scope == txn[y].work[1].scope
    <2>1. /\ txn[y].work # <<>> /\ locks[scope] = y
          /\ txn[y].step = "insert" => txn[y].head = HeadOf(Seen(y, scope))
      BY <1>1, <1>4 DEF Exclusive
    <2>2. scope \in Scopes
      BY <1>1, <2>1, WorkHead
    <2>3. locks'[scope] = y /\ chain'[scope] = chain[scope]
      BY <2>1, <2>2
    <2>4. HeadOf(Seen(y, txn[y].work[1].scope))' = HeadOf(Seen(y, scope))
      BY <2>3 DEF HeadOf, NoHead, Seen
    <2>5. QED
      BY <1>2, <2>1, <2>3, <2>4 DEF Exclusive, Extending
  <1>5. QED
    BY <1>3, <1>4

LEMMA IdleExclusive ==
    ASSUME NEW y, txn'[y] = Idle
    PROVE  Exclusive(y)'
  <1>1. \A s \in Scopes : txn'[y].rows[s] = <<>>
    BY IdleIs, NoRowsOk
  <1>2. txn'[y].step = "idle"
    BY IdleIs
  <1>3. QED
    BY <1>1, <1>2 DEF Exclusive, Extending

\* A step of x that commits nothing: what it has to establish.
LEMMA OwnStepSound ==
    ASSUME ChainsSound, NEW x \in Sessions, NEW t, IsTransaction(t),
           txn' = [txn EXCEPT ![x] = t], chain' = chain,
           locks' \in [Scopes -> Sessions \cup {None}],
           \A s \in Scopes, y \in Sessions : y # x /\ locks[s] = y => locks'[s] = y,
           started' \subseteq Starters, logs' \in Seq(AuditEvent), refused' \subseteq Sessions,
           Exclusive(x)', \A s \in Scopes : Sound(Seen(x, s))'
    PROVE  ChainsSound'
  <1>1. /\ txn' = [y \in Sessions |-> txn'[y]] /\ txn'[x] = t
        /\ \A y \in Sessions : y # x => txn'[y] = txn[y]
    BY SetTransaction DEF ChainsSound, TypeOK
  <1>2. /\ TypeOK /\ \A y \in Sessions : IsTransaction(txn[y]) /\ Exclusive(y)
        /\ \A s \in Scopes : RowList(chain[s]) /\ Sound(chain[s])
        /\ \A y \in Sessions, s \in Scopes : Sound(Seen(y, s))
    BY Parts
  <1>3. \A y \in Sessions : IsTransaction(txn'[y])
    BY <1>1, <1>2
  <1>4. TypeOK'
    BY <1>1, <1>2, <1>3 DEF TypeOK
  <1>5. \A y \in Sessions, s \in Scopes : y # x => Seen(y, s)' = Seen(y, s)
    BY <1>1 DEF Seen
  <1>6. \A y \in Sessions, s \in Scopes : Sound(Seen(y, s))'
    <2>1. \A y \in Sessions, s \in Scopes : y # x => Sound(Seen(y, s)')
      BY <1>2, <1>5
    <2>2. \A y \in Sessions, s \in Scopes : y # x => Sound(Seen(y, s))'
      BY <2>1, SoundNext
    <2>3. QED
      BY <2>2
  <1>7. ASSUME NEW y \in Sessions, y # x PROVE Exclusive(y)'
    BY <1>1, <1>7, KeptExclusive
  <1>8. \A s \in Scopes : Sound(chain[s])'
    BY <1>2, SoundNext
  <1>9. QED
    BY <1>4, <1>6, <1>7, <1>8 DEF ChainsSound

-----------------------------------------------------------------------------
(* Every step leaves the chains sound.                                     *)

\* A transaction without rows that is between two events.
LEMMA RestingSound ==
    ASSUME ChainsSound, NEW x \in Sessions, NEW t, IsTransaction(t), t.rows = NoRows,
           t.step \in {"idle", "next"}, txn' = [txn EXCEPT ![x] = t], chain' = chain,
           locks' \in [Scopes -> Sessions \cup {None}],
           \A s \in Scopes, y \in Sessions : y # x /\ locks[s] = y => locks'[s] = y,
           started' \subseteq Starters, logs' \in Seq(AuditEvent), refused' \subseteq Sessions
    PROVE  ChainsSound'
  <1>1. txn'[x] = t
    BY SetTransaction DEF ChainsSound, TypeOK
  <1>2. Exclusive(x)'
    BY <1>1, NoRowsOk DEF Exclusive, Extending
  <1>3. ASSUME NEW s \in Scopes PROVE Sound(Seen(x, s))'
    <2>1. Listed(chain[s]) /\ Sound(chain[s])
      BY Parts DEF RowList
    <2>2. Seen(x, s)' = chain[s] \o <<>>
      BY <1>1, NoRowsOk DEF Seen
    <2>3. Seen(x, s)' = chain[s]
      BY <2>1, <2>2, EmptyListed, ConcatListed
    <2>4. QED
      BY <2>1, <2>3, SoundNext
  <1>4. QED
    BY <1>2, <1>3, OwnStepSound

LEMMA BeginSound ==
    ASSUME ChainsSound, NEW x \in Sessions, NEW work \in Seq(AuditEvent),
           NEW snapshot \in Seq(AuditEvent) \cup {None}, Begin(x, work, snapshot),
           UNCHANGED <<chain, locks, started, logs, refused>>
    PROVE  /\ ChainsSound'
           /\ txn' = [txn EXCEPT ![x] = Transaction("next", work, None, NoRows, snapshot)]
  <1> DEFINE t == Transaction("next", work, None, NoRows, snapshot)
  <1>1. txn' = [txn EXCEPT ![x] = t]
    <2> DEFINE t0 == Idle
               t1 == [t0 EXCEPT !.step = "next", !.work = work, !.snapshot = snapshot]
    <2>1. txn' = [txn EXCEPT ![x] = t1]
      BY DEF Begin
    <2>2. t1 = [t0 EXCEPT !.step = "next", !.work = work, !.snapshot = snapshot]
      OBVIOUS
    <2>3. IsTransaction(t0) /\ t0.rows = NoRows /\ t0.head = None
      BY IdleIs
    <2> HIDE DEF t1
    <2> HIDE DEF t0
    <2>4. t1 = t
      BY <2>2, <2>3, WithBegin
    <2>5. QED
      BY <2>1, <2>4
  <1>2. IsTransaction(t) /\ t.rows = NoRows /\ t.step = "next"
    <2>1. "next" \in {"idle", "next", "locked", "insert"}
      OBVIOUS
    <2>2. IsTransaction(t)
      BY <2>1, NoRowsOk, TransactionIs
    <2>3. QED
      BY <2>2, TransactionFields
  <1> HIDE DEF t
  <1>3. /\ locks' \in [Scopes -> Sessions \cup {None}] /\ started' \subseteq Starters
        /\ logs' \in Seq(AuditEvent) /\ refused' \subseteq Sessions
    BY DEF ChainsSound, TypeOK
  <1>4. ChainsSound'
    BY <1>1, <1>2, <1>3, RestingSound
  <1>5. QED
    BY <1>1, <1>4 DEF t

\* The locks that others hold outlast the end of x.
LEMMA ReleasedKeeps ==
    ASSUME ChainsSound, NEW x \in Sessions
    PROVE  /\ Released(x) \in [Scopes -> Sessions \cup {None}]
           /\ \A s \in Scopes, y \in Sessions : y # x /\ locks[s] = y => Released(x)[s] = y
  BY DEF ChainsSound, TypeOK, Released

LEMMA GiveUpSound ==
    ASSUME ChainsSound, NEW x \in Sessions, insert_refused(x) \/ rollback(x)
    PROVE  /\ ChainsSound'
           /\ txn' = [txn EXCEPT ![x] = Idle] /\ UNCHANGED <<chain, started, logs>>
  <1>1. /\ txn' = [txn EXCEPT ![x] = Idle] /\ locks' = Released(x)
        /\ UNCHANGED <<chain, started, logs>>
        /\ refused' \subseteq Sessions
    BY DEF insert_refused, rollback, ChainsSound, TypeOK
  <1>2. IsTransaction(Idle) /\ Idle.rows = NoRows /\ Idle.step \in {"idle", "next"}
    BY IdleIs
  <1>3. /\ locks' \in [Scopes -> Sessions \cup {None}]
        /\ \A s \in Scopes, y \in Sessions : y # x /\ locks[s] = y => locks'[s] = y
    BY <1>1, ReleasedKeeps
  <1>4. started' \subseteq Starters /\ logs' \in Seq(AuditEvent)
    BY <1>1 DEF ChainsSound, TypeOK
  <1>5. QED
    BY <1>1, <1>2, <1>3, <1>4, RestingSound

LEMMA SkipSound ==
    ASSUME ChainsSound, NEW x \in Sessions, skip(x)
    PROVE  /\ ChainsSound'
           /\ txn' = [txn EXCEPT ![x] = Transaction("next", Tail(txn[x].work), txn[x].head,
                                                    txn[x].rows, txn[x].snapshot)]
  <1> DEFINE t0 == txn[x]
             w == Tail(t0.work)
             t == Transaction("next", w, t0.head, t0.rows, t0.snapshot)
  <1>1. IsTransaction(t0) /\ Exclusive(x) /\ t0.work # <<>> /\ t0.step = "next"
    BY Parts DEF skip
  <1>2. UNCHANGED <<chain, locks, started, logs, refused>>
    BY DEF skip
  <1>3. txn = [y \in Sessions |-> txn[y]]
    BY DEF ChainsSound, TypeOK
  <1>4. txn' = [txn EXCEPT ![x] = t]
    <2> DEFINE t1 == [t0 EXCEPT !.work = w]
    <2>1. txn' = [txn EXCEPT ![x] = t1]
      BY <1>1 DEF skip
    <2>2. t1 = [t0 EXCEPT !.work = w]
      OBVIOUS
    <2> HIDE DEF t1
    <2> HIDE DEF w
    <2> HIDE DEF t0
    <2>3. t1 = t
      BY <1>1, <2>2, WithWork
    <2>4. QED
      BY <2>1, <2>3
  <1>5. /\ t.step = "next" /\ t.work = Tail(t0.work) /\ t.rows = t0.rows
        /\ t.snapshot = t0.snapshot
    BY TransactionFields
  <1>6. IsTransaction(t)
    <2>1. Tail(t0.work) \in Seq(AuditEvent)
      BY <1>1, WorkHead
    <2>2. /\ t0.rows = [s \in Scopes |-> t0.rows[s]] /\ \A s \in Scopes : RowList(t0.rows[s])
          /\ t0.snapshot \in Seq(AuditEvent) \cup {None}
      BY <1>1 DEF IsTransaction
    <2>3. "next" \in {"idle", "next", "locked", "insert"}
      OBVIOUS
    <2> HIDE DEF t0
    <2>4. QED
      BY <2>1, <2>2, <2>3, TransactionIs
  <1> HIDE DEF t
  <1>7. txn'[x] = t
    BY <1>3, <1>4, SetTransaction
  <1>8. Exclusive(x)'
    BY <1>1, <1>2, <1>5, <1>7 DEF Exclusive, Extending
  <1>9. ASSUME NEW s \in Scopes PROVE Sound(Seen(x, s))'
    <2>1. Seen(x, s)' = Seen(x, s)
      BY <1>2, <1>5, <1>7 DEF Seen
    <2>2. QED
      BY <2>1, Parts, SoundNext
  <1>10. /\ locks' \in [Scopes -> Sessions \cup {None}] /\ started' \subseteq Starters
         /\ logs' \in Seq(AuditEvent) /\ refused' \subseteq Sessions
    BY <1>2 DEF ChainsSound, TypeOK
  <1>11. ChainsSound'
    BY <1>2, <1>4, <1>6, <1>8, <1>9, <1>10, OwnStepSound
  <1>12. QED
    BY <1>4, <1>11 DEF t

LEMMA LockSound ==
    ASSUME ChainsSound, NEW x \in Sessions, lock(x)
    PROVE  /\ ChainsSound'
           /\ txn' = [txn EXCEPT ![x] = Transaction("locked", txn[x].work, txn[x].head,
                                                    txn[x].rows, txn[x].snapshot)]
  <1> DEFINE t0 == txn[x]
             scope == t0.work[1].scope
             t == Transaction("locked", t0.work, t0.head, t0.rows, t0.snapshot)
  <1>1. /\ IsTransaction(t0) /\ Exclusive(x) /\ t0.work # <<>> /\ t0.step = "next"
        /\ locks[scope] \in {None, x} /\ locks' = [locks EXCEPT ![scope] = x]
    BY Parts DEF lock, LockFree
  <1>2. UNCHANGED <<chain, started, logs, refused>>
    BY DEF lock
  <1>3. /\ txn = [y \in Sessions |-> txn[y]] /\ locks \in [Scopes -> Sessions \cup {None}]
    BY DEF ChainsSound, TypeOK
  <1>4. txn' = [txn EXCEPT ![x] = t]
    <2> DEFINE t1 == [t0 EXCEPT !.step = "locked"]
    <2>1. txn' = [txn EXCEPT ![x] = t1]
      BY <1>1 DEF lock
    <2>2. t1 = [t0 EXCEPT !.step = "locked"]
      OBVIOUS
    <2> HIDE DEF t1
    <2> HIDE DEF t0
    <2>3. t1 = t
      BY <1>1, <2>2, WithStep
    <2>4. QED
      BY <2>1, <2>3
  <1>5. /\ t.step = "locked" /\ t.work = t0.work /\ t.rows = t0.rows
    BY TransactionFields
  <1>6. scope \in Scopes
    BY <1>1, WorkHead
  <1>7. IsTransaction(t)
    <2>1. /\ t0.rows = [s \in Scopes |-> t0.rows[s]] /\ \A s \in Scopes : RowList(t0.rows[s])
          /\ t0.snapshot \in Seq(AuditEvent) \cup {None} /\ t0.work \in Seq(AuditEvent)
      BY <1>1 DEF IsTransaction
    <2>2. "locked" \in {"idle", "next", "locked", "insert"}
      OBVIOUS
    <2> HIDE DEF t0
    <2>3. QED
      BY <2>1, <2>2, TransactionIs
  <1> HIDE DEF t
  <1>8. txn'[x] = t
    BY <1>3, <1>4, SetTransaction
  <1>9. /\ locks' \in [Scopes -> Sessions \cup {None}] /\ locks'[scope] = x
        /\ \A s \in Scopes : s # scope => locks'[s] = locks[s]
    BY <1>1, <1>3, <1>6
  <1>10. \A s \in Scopes, y \in Sessions : y # x /\ locks[s] = y => locks'[s] = y
    BY <1>1, <1>9, ConstantFacts
  <1>11. Exclusive(x)'
    <2>1. \A s \in Scopes : t.rows[s] # <<>> => locks'[s] = x
      BY <1>1, <1>5, <1>9 DEF Exclusive
    <2>2. t.work # <<>> /\ locks'[t.work[1].scope] = x /\ t.step # "insert"
      BY <1>1, <1>5, <1>9
    <2>3. QED
      BY <1>8, <2>1, <2>2 DEF Exclusive, Extending
  <1>12. ASSUME NEW s \in Scopes PROVE Sound(Seen(x, s))'
    <2>1. Seen(x, s)' = Seen(x, s)
      BY <1>2, <1>5, <1>8 DEF Seen
    <2>2. QED
      BY <2>1, Parts, SoundNext
  <1>13. started' \subseteq Starters /\ logs' \in Seq(AuditEvent) /\ refused' \subseteq Sessions
    BY <1>2 DEF ChainsSound, TypeOK
  <1>14. ChainsSound'
    BY <1>2, <1>4, <1>7, <1>9, <1>10, <1>11, <1>12, <1>13, OwnStepSound
  <1>15. QED
    BY <1>4, <1>14 DEF t

LEMMA ReadHeadSound ==
    ASSUME ChainsSound, NEW x \in Sessions, read_head(x)
    PROVE  /\ ChainsSound'
           /\ txn' = [txn EXCEPT ![x] = Transaction("insert", txn[x].work,
                           HeadOf(Seen(x, txn[x].work[1].scope)), txn[x].rows, txn[x].snapshot)]
  <1> DEFINE t0 == txn[x]
             scope == t0.work[1].scope
             head == HeadOf(Seen(x, scope))
             t == Transaction("insert", t0.work, head, t0.rows, t0.snapshot)
  <1>1. IsTransaction(t0) /\ Exclusive(x) /\ t0.step = "locked"
    BY Parts DEF read_head
  <1>2. UNCHANGED <<chain, locks, started, logs, refused>>
    BY DEF read_head
  <1>3. txn = [y \in Sessions |-> txn[y]]
    BY DEF ChainsSound, TypeOK
  <1>4. txn' = [txn EXCEPT ![x] = t]
    <2> DEFINE t1 == [t0 EXCEPT !.step = "insert", !.head = head]
    <2>1. txn' = [txn EXCEPT ![x] = t1]
      BY <1>1 DEF read_head
    <2>2. t1 = [t0 EXCEPT !.step = "insert", !.head = head]
      OBVIOUS
    <2> HIDE DEF t1
    <2> HIDE DEF head
    <2> HIDE DEF t0
    <2>3. t1 = t
      BY <1>1, <2>2, WithHead
    <2>4. QED
      BY <2>1, <2>3
  <1>5. /\ t.step = "insert" /\ t.work = t0.work /\ t.rows = t0.rows /\ t.head = head
    BY TransactionFields
  <1>6. t0.work # <<>> /\ locks[scope] = x
    BY <1>1 DEF Exclusive, Extending
  <1>7. IsTransaction(t)
    <2>1. /\ t0.rows = [s \in Scopes |-> t0.rows[s]] /\ \A s \in Scopes : RowList(t0.rows[s])
          /\ t0.snapshot \in Seq(AuditEvent) \cup {None} /\ t0.work \in Seq(AuditEvent)
      BY <1>1 DEF IsTransaction
    <2>2. "insert" \in {"idle", "next", "locked", "insert"}
      OBVIOUS
    <2> HIDE DEF t0, head
    <2>3. QED
      BY <2>1, <2>2, TransactionIs
  <1> HIDE DEF t
  <1>8. txn'[x] = t
    BY <1>3, <1>4, SetTransaction
  <1>9. \A s : Seen(x, s)' = Seen(x, s)
    BY <1>2, <1>5, <1>8 DEF Seen
  <1>10. Exclusive(x)'
    <2>1. \A s \in Scopes : t.rows[s] # <<>> => locks'[s] = x
      BY <1>1, <1>2, <1>5 DEF Exclusive
    <2>2. t.work # <<>> /\ locks'[t.work[1].scope] = x
      BY <1>2, <1>5, <1>6
    <2>3. HeadOf(Seen(x, txn[x].work[1].scope))' = head
      BY <1>2, <1>5, <1>8 DEF Seen, HeadOf, NoHead
    <2>4. QED
      BY <1>5, <1>8, <2>1, <2>2, <2>3 DEF Exclusive, Extending
  <1>11. \A s \in Scopes : Sound(Seen(x, s))'
    BY <1>9, Parts, SoundNext
  <1>12. /\ locks' \in [Scopes -> Sessions \cup {None}] /\ started' \subseteq Starters
         /\ logs' \in Seq(AuditEvent) /\ refused' \subseteq Sessions
    BY <1>2 DEF ChainsSound, TypeOK
  <1>13. ChainsSound'
    BY <1>2, <1>4, <1>7, <1>10, <1>11, <1>12, OwnStepSound
  <1>14. QED
    BY <1>4, <1>13 DEF t

LEMMA SeenRows ==
    ASSUME ChainsSound, NEW x \in Sessions, NEW s \in Scopes
    PROVE  /\ RowList(Seen(x, s)) /\ Listed(chain[s]) /\ Listed(txn[x].rows[s])
           /\ Ids(Seen(x, s)) = Ids(chain[s]) \cup Ids(txn[x].rows[s])
  <1>1. RowList(chain[s]) /\ RowList(txn[x].rows[s])
    BY Parts
  <1>2. Listed(chain[s]) /\ Listed(txn[x].rows[s])
    BY <1>1 DEF RowList
  <1>3. QED
    BY <1>1, <1>2, RowListConcat, IdsConcat DEF Seen

\* The rows of a transaction after the insert of its next event.
RowsAfter(t) ==
    [t.rows EXCEPT ![t.work[1].scope] =
        Append(t.rows[t.work[1].scope], RowAfter(t.head, t.work[1]))]

LEMMA RowsAfterFields ==
    ASSUME NEW t, IsTransaction(t), t.work # <<>>
    PROVE  /\ RowsAfter(t) = [s \in Scopes |-> RowsAfter(t)[s]]
           /\ \A s \in Scopes : RowList(RowsAfter(t)[s])
           /\ \A s \in Scopes : s # t.work[1].scope => RowsAfter(t)[s] = t.rows[s]
           /\ RowsAfter(t)[t.work[1].scope] =
                Append(t.rows[t.work[1].scope], RowAfter(t.head, t.work[1]))
  <1> DEFINE e == t.work[1]
             scope == e.scope
             r == RowAfter(t.head, e)
             old == t.rows
             q == RowsAfter(t)
             q1 == Append(old[scope], r)
  <1>1. e \in AuditEvent /\ scope \in Scopes
    BY WorkHead
  <1>2. r.event \in AuditEvent
    BY <1>1, RowFields, StoredEvent
  <1>3. old = [s \in Scopes |-> old[s]] /\ \A s \in Scopes : RowList(old[s])
    BY DEF IsTransaction
  <1>4. RowList(q1)
    <2> HIDE DEF r, scope, old
    <2>1. QED
      BY <1>1, <1>2, <1>3, RowListAppend
  <1>5. q = [old EXCEPT ![scope] = q1]
    BY DEF RowsAfter
  <1> HIDE DEF q, q1, old, scope
  <1>6. /\ q = [s \in Scopes |-> q[s]] /\ q[scope] = q1
        /\ \A s \in Scopes : s # scope => q[s] = old[s]
    BY <1>1, <1>3, <1>5
  <1>7. \A s \in Scopes : RowList(q[s])
    BY <1>3, <1>4, <1>6
  <1>8. QED
    BY <1>6, <1>7 DEF q, q1, old, scope

LEMMA InsertSound ==
    ASSUME ChainsSound, NEW x \in Sessions, insert(x)
    PROVE  /\ ChainsSound'
           /\ txn' = [txn EXCEPT ![x] = Transaction("next", Tail(txn[x].work), None,
                                                    RowsAfter(txn[x]), txn[x].snapshot)]
  <1> DEFINE t0 == txn[x]
             w == Tail(t0.work)
             e == t0.work[1]
             scope == e.scope
             rows == RowsAfter(t0)
             t == Transaction("next", w, None, rows, t0.snapshot)
  <1>1. /\ IsTransaction(t0) /\ Exclusive(x) /\ t0.step = "insert" /\ Insertable(x, e)
    BY Parts DEF insert
  <1>2. UNCHANGED <<chain, locks, started, logs, refused>>
    BY DEF insert
  <1>3. txn = [y \in Sessions |-> txn[y]]
    BY DEF ChainsSound, TypeOK
  <1>4. t0.work # <<>> /\ locks[scope] = x /\ t0.head = HeadOf(Seen(x, scope))
    BY <1>1 DEF Exclusive, Extending
  <1>5. e \in AuditEvent /\ scope \in Scopes /\ w \in Seq(AuditEvent)
    BY <1>1, <1>4, WorkHead
  <1>6. txn' = [txn EXCEPT ![x] = t]
    <2> DEFINE q1 == Append(t0.rows[scope], RowAfter(t0.head, e))
               t1 == [t0 EXCEPT !.step = "next", !.head = None, !.work = w,
                                !.rows[scope] = q1]
    <2>1. txn' = [txn EXCEPT ![x] = t1]
      BY DEF insert
    <2>2. t1 = [t0 EXCEPT !.step = "next", !.head = None, !.work = w, !.rows[scope] = q1]
      OBVIOUS
    <2>3. rows = [t0.rows EXCEPT ![scope] = q1]
      BY DEF RowsAfter
    <2> HIDE DEF t1, rows, q1
    <2> HIDE DEF w, scope
    <2> HIDE DEF t0
    <2>4. t1 = t
      BY <1>1, <1>5, <2>2, <2>3, WithRow, ZenonT(60)
    <2>5. QED
      BY <2>1, <2>4
  <1>7. /\ t.step = "next" /\ t.rows = rows
    BY TransactionFields
  <1>8. /\ rows = [s \in Scopes |-> rows[s]] /\ \A s \in Scopes : RowList(rows[s])
        /\ \A s \in Scopes : s # scope => rows[s] = t0.rows[s]
        /\ rows[scope] = Append(t0.rows[scope], RowAfter(t0.head, e))
    BY <1>1, <1>4, RowsAfterFields
  <1>9. IsTransaction(t)
    <2>1. t0.snapshot \in Seq(AuditEvent) \cup {None}
      BY <1>1 DEF IsTransaction
    <2>2. "next" \in {"idle", "next", "locked", "insert"}
      OBVIOUS
    <2> HIDE DEF t0, rows, w
    <2>3. QED
      BY <1>5, <1>8, <2>1, <2>2, TransactionIs
  <1> HIDE DEF t, rows
  <1>10. txn'[x] = t
    BY <1>3, <1>6, SetTransaction
  <1>11. Exclusive(x)'
    <2>1. \A s \in Scopes : t.rows[s] # <<>> => locks'[s] = x
      BY <1>1, <1>2, <1>4, <1>7, <1>8 DEF Exclusive
    <2>2. QED
      BY <1>7, <1>10, <2>1 DEF Exclusive, Extending
  <1>12. ASSUME NEW s \in Scopes PROVE Sound(Seen(x, s))'
    <2>1. Seen(x, s)' = chain[s] \o rows[s]
      BY <1>2, <1>7, <1>10 DEF Seen
    <2>2. CASE s # scope
      <3>1. Seen(x, s)' = Seen(x, s)
        BY <1>8, <2>1, <2>2 DEF Seen
      <3>2. QED
        BY <3>1, Parts, SoundNext
    <2>3. CASE s = scope
      <3> DEFINE seen == Seen(x, s)
                 old == t0.rows[s]
                 row == RowAfter(HeadOf(seen), e)
      <3>1. RowList(seen) /\ Sound(seen) /\ Listed(chain[s]) /\ Listed(old)
        BY SeenRows, Parts
      <3>2. Id(e) \notin Ids(seen)
        BY <1>1 DEF Insertable, SeenIds
      <3>3. rows[s] = Append(old, row)
        BY <1>4, <1>8, <2>3
      <3>4. seen = chain[s] \o old
        BY DEF Seen
      <3> HIDE DEF row, old
      <3>5. Seen(x, s)' = Append(seen, row)
        <4>1. chain[s] \o Append(old, row) = Append(chain[s] \o old, row)
          <5> DEFINE p == chain[s]
          <5>1. Listed(p) /\ Listed(old)
            BY <3>1
          <5> HIDE DEF p
          <5>2. p \o Append(old, row) = Append(p \o old, row)
            BY <5>1, ConcatAppend
          <5>3. QED
            BY <5>2 DEF p
        <4>2. Seen(x, s)' = chain[s] \o Append(old, row)
          BY <2>1, <3>3
        <4>3. QED
          BY <3>4, <4>1, <4>2
      <3>6. Sound(Append(seen, row))
        <4> HIDE DEF seen, e
        <4>1. QED
          BY <1>5, <3>1, <3>2, AppendSound DEF row
      <3>7. QED
        BY <3>5, <3>6, SoundNext
    <2>4. QED
      BY <2>2, <2>3
  <1>13. /\ locks' \in [Scopes -> Sessions \cup {None}] /\ started' \subseteq Starters
         /\ logs' \in Seq(AuditEvent) /\ refused' \subseteq Sessions
    BY <1>2 DEF ChainsSound, TypeOK
  <1>14. ChainsSound'
    BY <1>2, <1>6, <1>9, <1>11, <1>12, <1>13, OwnStepSound
  <1>15. QED
    BY <1>6, <1>14 DEF t, rows

\* Another transaction commits only rows of chains that it has locked.
LEMMA CommitLeavesLocked ==
    ASSUME ChainsSound, NEW x \in Sessions, commit(x), NEW y \in Sessions, y # x,
           NEW s \in Scopes, locks[s] = y
    PROVE  Released(x)[s] = y /\ chain'[s] = chain[s]
  <1>1. Released(x)[s] = y
    BY ReleasedKeeps
  <1>2. txn[x].rows[s] = <<>>
    BY Parts DEF Exclusive
  <1>3. Seen(x, s) = chain[s]
    BY <1>2, SeenRows, SeenWithoutRows
  <1>4. chain'[s] = Seen(x, s)
    BY DEF commit
  <1>5. QED
    BY <1>1, <1>3, <1>4

LEMMA CommitSound ==
    ASSUME ChainsSound, NEW x \in Sessions, commit(x)
    PROVE  ChainsSound'
  <1>1. /\ chain' = [s \in Scopes |-> Seen(x, s)] /\ locks' = Released(x)
        /\ txn' = [txn EXCEPT ![x] = Idle] /\ UNCHANGED <<started, refused>>
        /\ logs' \in {logs, txn[x].snapshot}
        /\ txn[x].snapshot = None => logs' = logs
    BY DEF commit
  <1>2. /\ txn' = [y \in Sessions |-> txn'[y]] /\ txn'[x] = Idle
        /\ \A y \in Sessions : y # x => txn'[y] = txn[y]
    BY <1>1, SetTransaction DEF ChainsSound, TypeOK
  <1>3. \A s \in Scopes : chain'[s] = Seen(x, s) /\ RowList(chain'[s]) /\ Sound(chain'[s])
    BY <1>1, SeenRows, Parts
  <1>4. TypeOK'
    <2>1. chain' = [s \in Scopes |-> chain'[s]]
      BY <1>1
    <2>2. \A y \in Sessions : IsTransaction(txn'[y])
      BY <1>2, IdleIs, Parts
    <2>3. locks' \in [Scopes -> Sessions \cup {None}]
      BY <1>1, ReleasedKeeps
    <2>4. logs' \in Seq(AuditEvent)
      <3>1. txn[x].snapshot \in Seq(AuditEvent) \cup {None} /\ logs \in Seq(AuditEvent)
        BY Parts DEF IsTransaction, TypeOK
      <3>2. QED
        BY <1>1, <3>1
    <2>5. started' \subseteq Starters /\ refused' \subseteq Sessions
      BY <1>1 DEF ChainsSound, TypeOK
    <2>6. QED
      BY <1>2, <1>3, <2>1, <2>2, <2>3, <2>4, <2>5 DEF TypeOK
  <1>5. ASSUME NEW y \in Sessions PROVE Exclusive(y)'
    <2>1. CASE y = x
      BY <1>2, <2>1, IdleExclusive
    <2>2. CASE y # x
      <3>1. \A s \in Scopes : locks[s] = y => locks'[s] = y /\ chain'[s] = chain[s]
        BY <1>1, <2>2, CommitLeavesLocked
      <3>2. QED
        BY <1>2, <2>2, <3>1, KeptExclusive
    <2>3. QED
      BY <2>1, <2>2
  <1>6. ASSUME NEW y \in Sessions, NEW s \in Scopes PROVE Sound(Seen(y, s))'
    <2>1. CASE txn'[y].rows[s] = <<>>
      <3>1. Listed(chain'[s])
        BY <1>3 DEF RowList
      <3>2. Seen(y, s)' = chain'[s] \o <<>>
        BY <2>1 DEF Seen
      <3>3. Seen(y, s)' = chain'[s]
        BY <3>1, <3>2, EmptyListed, ConcatListed
      <3>4. QED
        BY <1>3, <3>3, SoundNext
    <2>2. CASE txn'[y].rows[s] # <<>>
      <3>1. y # x
        BY <1>2, <2>2, IdleIs, NoRowsOk
      <3>2. txn'[y] = txn[y] /\ locks[s] = y
        BY <1>2, <2>2, <3>1, Parts DEF Exclusive
      <3>3. chain'[s] = chain[s]
        BY <3>1, <3>2, CommitLeavesLocked
      <3>4. Seen(y, s)' = Seen(y, s)
        BY <3>2, <3>3 DEF Seen
      <3>5. QED
        BY <3>4, Parts, SoundNext
    <2>3. QED
      BY <2>1, <2>2
  <1>7. \A s \in Scopes : Sound(chain[s])'
    BY <1>3, SoundNext
  <1>8. QED
    BY <1>4, <1>5, <1>6, <1>7 DEF ChainsSound

LEMMA CrashSound ==
    ASSUME ChainsSound, crash
    PROVE  ChainsSound'
  <1>1. /\ locks' = [s \in Scopes |-> IF locks[s] \in Writers THEN None ELSE locks[s]]
        /\ txn' = [x \in Sessions |-> IF x \in Writers THEN Idle ELSE txn[x]]
        /\ started' \subseteq started /\ logs' = <<>> /\ UNCHANGED <<chain, refused>>
    BY DEF crash
  <1>2. \A y \in Sessions : txn'[y] = IF y \in Writers THEN Idle ELSE txn[y]
    BY <1>1
  <1>3. TypeOK'
    <2>1. \A y \in Sessions : IsTransaction(txn'[y])
      BY <1>2, IdleIs, Parts
    <2>2. locks' \in [Scopes -> Sessions \cup {None}]
      BY <1>1 DEF ChainsSound, TypeOK
    <2>3. logs' \in Seq(AuditEvent)
      BY <1>1
    <2>4. txn' = [y \in Sessions |-> txn'[y]]
      BY <1>1
    <2>5. QED
      BY <1>1, <2>1, <2>2, <2>3, <2>4 DEF ChainsSound, TypeOK
  <1>4. ASSUME NEW y \in Sessions PROVE Exclusive(y)'
    <2>1. CASE y \in Writers
      BY <1>2, <2>1, IdleExclusive
    <2>2. CASE y \notin Writers
      <3>1. \A s \in Scopes : locks[s] = y => locks'[s] = y /\ chain'[s] = chain[s]
        BY <1>1, <2>2
      <3>2. QED
        BY <1>2, <2>2, <3>1, KeptExclusive
    <2>3. QED
      BY <2>1, <2>2
  <1>5. ASSUME NEW y \in Sessions, NEW s \in Scopes PROVE Sound(Seen(y, s))'
    <2>1. CASE y \in Writers
      <3>1. Seen(y, s)' = chain[s] \o <<>>
        BY <1>1, <1>2, <2>1, IdleIs, NoRowsOk DEF Seen
      <3>2. Seen(y, s)' = chain[s]
        BY <3>1, SeenRows, EmptyListed, ConcatListed
      <3>3. QED
        BY <3>2, Parts, SoundNext
    <2>2. CASE y \notin Writers
      <3>1. Seen(y, s)' = Seen(y, s)
        BY <1>1, <1>2, <2>2 DEF Seen
      <3>2. QED
        BY <3>1, Parts, SoundNext
    <2>3. QED
      BY <2>1, <2>2
  <1>6. \A s \in Scopes : Sound(chain[s])'
    BY <1>1, Parts, SoundNext
  <1>7. QED
    BY <1>3, <1>4, <1>5, <1>6 DEF ChainsSound

-----------------------------------------------------------------------------
(* What a process finds when it starts, and what it imports.               *)

LEMMA ListedFinite ==
    ASSUME NEW rows, Listed(rows)
    PROVE  IsFiniteSet({rows[i].event : i \in DOMAIN rows})
  <1> DEFINE n == Len(rows)
             T == {rows[i].event : i \in DOMAIN rows}
             f == [i \in 1 .. n |-> rows[i].event]
  <1>1. n \in Nat /\ DOMAIN rows = 1 .. n
    BY ListedLength
  <1>2. f \in [1 .. n -> T] /\ \A e \in T : \E i \in 1 .. n : f[i] = e
    BY <1>1
  <1>3. f \in Surjection(1 .. n, T)
    BY <1>2 DEF Surjection
  <1>4. IsFiniteSet(1 .. n)
    BY <1>1, FS_Interval
  <1> HIDE DEF f, T
  <1>5. IsFiniteSet(T)
    BY <1>3, <1>4, FS_Surjection
  <1>6. QED
    BY <1>5 DEF T

LEMMA LedgerEventsFinite ==
    ASSUME ChainsSound
    PROVE  LedgerEvents \subseteq AuditEvent /\ IsFiniteSet(LedgerEvents)
  <1> DEFINE E(s) == {chain[s][i].event : i \in DOMAIN chain[s]}
             T == {E(s) : s \in Scopes}
             f == [s \in Scopes |-> E(s)]
  <1>1. \A s \in Scopes : RowList(chain[s])
    BY Parts
  <1>2. \A s \in Scopes : IsFiniteSet(E(s)) /\ E(s) \subseteq AuditEvent
    BY <1>1, ListedFinite DEF RowList
  <1>3. f \in Surjection(Scopes, T)
    BY DEF Surjection
  <1>4. IsFiniteSet(T)
    <2> HIDE DEF f, T
    <2>1. QED
      BY <1>3, ChainConstants, FS_Surjection
  <1>5. \A S \in T : IsFiniteSet(S) /\ S \subseteq AuditEvent
    BY <1>2
  <1>6. LedgerEvents \subseteq UNION T
    BY DEF LedgerEvents
  <1> HIDE DEF T
  <1>7. IsFiniteSet(UNION T)
    BY <1>4, <1>5, FS_UNION
  <1>8. IsFiniteSet(LedgerEvents)
    <2>1. LedgerEvents \in SUBSET (UNION T)
      BY <1>6
    <2> HIDE DEF E
    <2>2. QED
      BY <1>7, <2>1, FS_Subset
  <1>9. LedgerEvents \subseteq AuditEvent
    BY <1>5, <1>6
  <1>10. QED
    BY <1>8, <1>9

LEMMA LoadedLogs ==
    ASSUME ChainsSound, NEW q \in load_ledger
    PROVE  q \in Seq(AuditEvent) /\ \A i \in DOMAIN q : q[i] \in LedgerEvents
  <1> DEFINE n == Cardinality(LedgerEvents)
  <1>1. LedgerEvents \subseteq AuditEvent /\ n \in Nat
    BY LedgerEventsFinite, FS_CardinalityType
  <1>2. q \in [1 .. n -> LedgerEvents]
    BY DEF load_ledger, SetToSeqs
  <1> HIDE DEF n
  <1>3. q \in [1 .. n -> AuditEvent]
    BY <1>1, <1>2
  <1>4. q \in Seq(AuditEvent)
    BY <1>1, <1>3, SeqDef
  <1>5. \A i \in DOMAIN q : q[i] \in LedgerEvents
    BY <1>2
  <1>6. QED
    BY <1>4, <1>5

LEMMA LegacyIsWork ==
    ASSUME NEW x \in Starters
    PROVE  LegacyWork(x) \in Seq(AuditEvent)
  <1> DEFINE S == {Cutover(x, s) : s \in LegacyScopes}
             n == Cardinality(S)
  <1>1. LegacyRows \in Seq(AuditEvent)
    BY ChainConstants
  <1>2. LegacyEvents \subseteq AuditEvent
    BY <1>1 DEF LegacyEvents
  <1>3. LegacyScopes \subseteq Scopes
    <2>1. \A e \in LegacyEvents : e.scope \in Scopes
      BY <1>2, StoredEvent
    <2>2. QED
      BY <2>1, ChainConstants DEF LegacyScopes
  <1>4. S \subseteq AuditEvent
    <2>1. x \in Names
      BY DEF Names
    <2>2. \A s \in Scopes : Cutover(x, s) \in AuditEvent
      BY <2>1 DEF Cutover, AuditEvent
    <2>3. QED
      BY <1>3, <2>2
  <1>5. IsFiniteSet(S)
    <2> DEFINE f == [s \in LegacyScopes |-> Cutover(x, s)]
    <2>1. f \in Surjection(LegacyScopes, S)
      BY DEF Surjection
    <2>2. IsFiniteSet(LegacyScopes)
      <3>1. LegacyScopes \in SUBSET Scopes
        BY <1>3
      <3>2. QED
        BY <3>1, ChainConstants, FS_Subset
    <2> HIDE DEF f, S
    <2>3. QED
      BY <2>1, <2>2, FS_Surjection
  <1> HIDE DEF S
  <1>6. n \in Nat /\ ExistsBijection(1 .. n, S)
    BY <1>5, FS_CardinalityType
  <1>7. \E f \in [1 .. n -> S] : IsInjective(f)
    BY <1>6 DEF ExistsBijection, Bijection, Injection
  <1>8. SetToSeq(S) \in [1 .. n -> S]
    BY <1>7 DEF SetToSeq
  <1> HIDE DEF n
  <1>9. SetToSeq(S) \in [1 .. n -> AuditEvent]
    BY <1>4, <1>8
  <1>10. SetToSeq(S) \in Seq(AuditEvent)
    BY <1>6, <1>9, SeqDef
  <1>11. LegacyRows \o SetToSeq(S) \in Seq(AuditEvent)
    <2> DEFINE q == SetToSeq(S)
    <2>1. q \in Seq(AuditEvent)
      BY <1>10
    <2> HIDE DEF q
    <2>2. LegacyRows \o q \in Seq(AuditEvent)
      BY <1>1, <2>1
    <2>3. QED
      BY <2>2 DEF q
  <1>12. QED
    BY <1>11 DEF LegacyWork, S

LEMMA NoneIsNoSnapshot == None \in Seq(AuditEvent) \cup {None}
  OBVIOUS

LEMMA ImportSound ==
    ASSUME ChainsSound, NEW x \in Starters, initialize_legacy(x)
    PROVE  /\ ChainsSound'
           /\ txn' = [txn EXCEPT ![x] = Transaction("next", LegacyWork(x), None, NoRows, None)]
  <1>1. Begin(x, LegacyWork(x), None) /\ UNCHANGED <<chain, locks, started, logs, refused>>
    BY DEF initialize_legacy
  <1>2. x \in Sessions /\ LegacyWork(x) \in Seq(AuditEvent)
    BY LegacyIsWork DEF Sessions
  <1>3. QED
    BY <1>1, <1>2, NoneIsNoSnapshot, BeginSound

LEMMA SecurityEventSound ==
    ASSUME ChainsSound, NEW x \in Writers, NEW e \in SecurityEvents,
           append_security_event(x, e)
    PROVE  /\ ChainsSound'
           /\ txn' = [txn EXCEPT ![x] = Transaction("next", <<e>>, None, NoRows, None)]
  <1>1. Begin(x, <<e>>, None) /\ UNCHANGED <<chain, locks, started, logs, refused>>
    BY DEF append_security_event
  <1>2. x \in Sessions /\ e \in AuditEvent
    BY ChainConstants DEF Sessions
  <1>3. <<e>> \in Seq(AuditEvent)
    BY <1>2
  <1>4. QED
    BY <1>1, <1>2, <1>3, NoneIsNoSnapshot, BeginSound

LEMMA SaveSound ==
    ASSUME ChainsSound, NEW x \in Writers, NEW e \in DomainEvents, save_ledger(x, e)
    PROVE  /\ ChainsSound' /\ Append(logs, e) \in Seq(AuditEvent)
           /\ txn' = [txn EXCEPT ![x] = Transaction("next", Append(logs, e), None, NoRows,
                                                    Append(logs, e))]
  <1> DEFINE q == Append(logs, e)
  <1>1. Begin(x, q, q) /\ UNCHANGED <<chain, locks, started, logs, refused>>
    BY DEF save_ledger
  <1>2. x \in Sessions /\ e \in AuditEvent /\ logs \in Seq(AuditEvent)
    BY ChainConstants DEF Sessions, ChainsSound, TypeOK
  <1>3. q \in Seq(AuditEvent)
    BY <1>2
  <1> HIDE DEF q
  <1>4. q \in Seq(AuditEvent) \cup {None}
    BY <1>3
  <1>5. /\ ChainsSound'
        /\ txn' = [txn EXCEPT ![x] = Transaction("next", q, None, NoRows, q)]
    BY <1>1, <1>2, <1>3, <1>4, BeginSound
  <1>6. QED
    BY <1>3, <1>5 DEF q

LEMMA SoundUnchanged ==
    ASSUME ChainsSound, UNCHANGED <<chain, locks, txn>>,
           started' \subseteq Starters, logs' \in Seq(AuditEvent), refused' = refused
    PROVE  ChainsSound'
  <1>1. TypeOK'
    BY DEF ChainsSound, TypeOK
  <1>2. \A x \in Sessions : Exclusive(x)'
    BY KeptExclusive
  <1>3. \A x \in Sessions, s \in Scopes : Seen(x, s)' = Seen(x, s)
    BY DEF Seen
  <1>4. \A x \in Sessions, s \in Scopes : Sound(Seen(x, s))'
    <2>1. \A x \in Sessions, s \in Scopes : Sound(Seen(x, s)')
      BY <1>3, Parts
    <2>2. QED
      BY <2>1, SoundNext
  <1>5. \A s \in Scopes : Sound(chain[s])'
    BY Parts, SoundNext
  <1>6. QED
    BY <1>1, <1>2, <1>4, <1>5 DEF ChainsSound

LEMMA StartSound ==
    ASSUME ChainsSound, NEW x \in Starters, start(x)
    PROVE  ChainsSound'
  <1>1. /\ started' = started \cup {x} /\ UNCHANGED <<chain, locks, txn, refused>>
        /\ logs' = logs \/ logs' \in load_ledger
    BY DEF start
  <1>2. started' \subseteq Starters /\ logs' \in Seq(AuditEvent)
    BY <1>1, LoadedLogs DEF ChainsSound, TypeOK
  <1>3. QED
    BY <1>1, <1>2, SoundUnchanged

LEMMA StepSound ==
    ASSUME ChainsSound, [Next]_vars
    PROVE  ChainsSound'
  <1>1. ASSUME NEW x \in Starters, initialize_legacy(x) PROVE ChainsSound'
    BY <1>1, ImportSound
  <1>2. ASSUME NEW x \in Starters, start(x) PROVE ChainsSound'
    BY <1>2, StartSound
  <1>3. ASSUME NEW x \in Writers, NEW e \in SecurityEvents, append_security_event(x, e)
        PROVE  ChainsSound'
    BY <1>3, SecurityEventSound
  <1>4. ASSUME NEW x \in Writers, NEW e \in DomainEvents, save_ledger(x, e)
        PROVE  ChainsSound'
    BY <1>4, SaveSound
  <1>5. ASSUME NEW x \in Sessions, Step(x) PROVE ChainsSound'
    <2>1. CASE skip(x)
      BY <2>1, SkipSound
    <2>2. CASE lock(x)
      BY <2>2, LockSound
    <2>3. CASE read_head(x)
      BY <2>3, ReadHeadSound
    <2>4. CASE insert(x)
      BY <2>4, InsertSound
    <2>5. CASE insert_refused(x) \/ rollback(x)
      BY <2>5, GiveUpSound
    <2>6. CASE commit(x)
      BY <2>6, CommitSound
    <2>7. QED
      BY <1>5, <2>1, <2>2, <2>3, <2>4, <2>5, <2>6 DEF Step
  <1>6. ASSUME crash PROVE ChainsSound'
    BY <1>6, CrashSound
  <1>7. ASSUME UNCHANGED vars PROVE ChainsSound'
    BY <1>7, SoundUnchanged DEF vars, ChainsSound, TypeOK
  <1>8. QED
    BY <1>1, <1>2, <1>3, <1>4, <1>5, <1>6, <1>7 DEF Next

LEMMA InitSound ==
    ASSUME Init
    PROVE  ChainsSound
  <1>1. \A x \in Sessions : txn[x] = Idle
    BY DEF Init
  <1>2. \A s \in Scopes : chain[s] = <<>> /\ RowList(chain[s]) /\ Sound(chain[s])
    BY EmptySound, EmptyListed DEF Init, RowList
  <1>3. TypeOK
    <2>1. chain = [s \in Scopes |-> chain[s]] /\ txn = [x \in Sessions |-> txn[x]]
      BY DEF Init
    <2>2. locks \in [Scopes -> Sessions \cup {None}]
      BY DEF Init
    <2>3. \A x \in Sessions : IsTransaction(txn[x])
      BY <1>1, IdleIs
    <2>4. started \subseteq Starters /\ logs \in Seq(AuditEvent) /\ refused \subseteq Sessions
      BY DEF Init
    <2>5. QED
      BY <1>2, <2>1, <2>2, <2>3, <2>4 DEF TypeOK
  <1>4. \A x \in Sessions : Exclusive(x)
    <2>1. \A x \in Sessions : txn[x].step = "idle" /\ \A s \in Scopes : txn[x].rows[s] = <<>>
      BY <1>1, IdleIs, NoRowsOk
    <2>2. QED
      BY <2>1 DEF Exclusive, Extending
  <1>5. \A x \in Sessions, s \in Scopes : Sound(Seen(x, s))
    <2>1. \A x \in Sessions, s \in Scopes : txn[x].rows[s] = <<>>
      BY <1>1, IdleIs, NoRowsOk
    <2>2. \A x \in Sessions, s \in Scopes : Seen(x, s) = chain[s]
      BY <1>2, <2>1, SeenWithoutRows DEF RowList
    <2>3. QED
      BY <1>2, <2>2
  <1>6. QED
    BY <1>2, <1>3, <1>4, <1>5 DEF ChainsSound

(***************************************************************************)
(* However the transactions of the server and of the processes that start  *)
(* run side by side, fail or are cut off: every chain is sound, alone and   *)
(* with the rows of any open transaction behind it (append).               *)
(***************************************************************************)
THEOREM ChainsAlwaysSound == Spec => []ChainsSound
  <1>1. Init => ChainsSound
    BY InitSound
  <1>2. ChainsSound /\ [Next]_vars => ChainsSound'
    BY StepSound
  <1>3. QED
    BY <1>1, <1>2, PTL DEF Spec

(***************************************************************************)
(* audit verify succeeds whenever it is run: the committed chains are      *)
(* numbered, linked and signed as they are stored, without an event twice. *)
(***************************************************************************)
THEOREM ChainsAlwaysVerify == Spec => []ChainsVerify
  <1>1. ChainsSound => ChainsVerify
    BY DEF ChainsSound, ChainsVerify, Sound
  <1>2. QED
    BY <1>1, ChainsAlwaysSound, PTL

-----------------------------------------------------------------------------
(* NothingTwice, said of the values that a step changes.                   *)

StoredIn(c) == UNION {Ids(c[s]) : s \in Scopes}
OwnOf(t) == UNION {Ids(t.rows[s]) : s \in Scopes}
WorkOf(t) == {Id(t.work[i]) : i \in DOMAIN t.work}

\* The ids that a writer must not append.
Taken(x, c, f) ==
    StoredIn(c) \cup (UNION {OwnOf(f[y]) : y \in Sessions})
                \cup (UNION {WorkOf(f[y]) : y \in Sessions \ {x}})

WorkNew(t, stored, taken) ==
    /\ \A i \in DOMAIN t.work :
          \/ t.snapshot # None /\ Id(t.work[i]) \in stored
          \/ i = Len(t.work) /\ Id(t.work[i]) \notin taken
    /\ t.step \in {"locked", "insert"} => Len(t.work) = 1 /\ Id(t.work[1]) \notin taken

SnapshotStored(t, stored) ==
    t.snapshot # None =>
        \A i \in DOMAIN t.snapshot :
            Id(t.snapshot[i]) \in stored \cup OwnOf(t) \cup WorkOf(t)

LEMMA IdSets ==
    ASSUME NEW x
    PROVE  /\ Committed = StoredIn(chain) /\ Committed' = StoredIn(chain')
           /\ OwnIds(x) = OwnOf(txn[x]) /\ OwnIds(x)' = OwnOf(txn'[x])
           /\ WorkIds(x) = WorkOf(txn[x]) /\ WorkIds(x)' = WorkOf(txn'[x])
  <1>1. Committed = StoredIn(chain) /\ OwnIds(x) = OwnOf(txn[x]) /\ WorkIds(x) = WorkOf(txn[x])
    BY DEF Committed, StoredIn, OwnIds, OwnOf, WorkIds, WorkOf
  <1>2. Committed' = StoredIn(chain')
    BY DEF Committed, StoredIn, Ids, Id
  <1>3. OwnIds(x)' = OwnOf(txn'[x])
    BY DEF OwnIds, OwnOf, Ids, Id
  <1>4. WorkIds(x)' = WorkOf(txn'[x])
    BY DEF WorkIds, WorkOf, Id
  <1>5. QED
    BY <1>1, <1>2, <1>3, <1>4

LEMMA NewForIs ==
    ASSUME NEW x, NEW id
    PROVE  /\ NewFor(x, id) <=> id \notin Taken(x, chain, txn)
           /\ NewFor(x, id)' <=> id \notin Taken(x, chain', txn')
  <1>1. NewFor(x, id) <=> id \notin Taken(x, chain, txn)
    BY IdSets DEF NewFor, Taken
  <1>2. NewFor(x, id)' <=> id \notin Taken(x, chain', txn')
    BY IdSets DEF NewFor, Taken
  <1>3. QED
    BY <1>1, <1>2

LEMMA AppendingIs ==
    ASSUME NEW x
    PROVE  /\ Appending(x) <=>
                /\ txn[x] # Idle => Server \in started
                /\ WorkNew(txn[x], StoredIn(chain), Taken(x, chain, txn))
           /\ Appending(x)' <=>
                /\ txn'[x] # Idle => Server \in started'
                /\ WorkNew(txn'[x], StoredIn(chain'), Taken(x, chain', txn'))
  <1>1. Appending(x) <=>
                /\ txn[x] # Idle => Server \in started
                /\ WorkNew(txn[x], StoredIn(chain), Taken(x, chain, txn))
    BY IdSets, NewForIs DEF Appending, WorkNew, Extending
  <1>2. Appending(x)' <=>
                /\ txn'[x] # Idle => Server \in started'
                /\ WorkNew(txn'[x], StoredIn(chain'), Taken(x, chain', txn'))
    BY IdSets, NewForIs DEF Appending, WorkNew, Extending
  <1>3. QED
    BY <1>1, <1>2

LEMMA CarriedIs ==
    ASSUME NEW x
    PROVE  /\ Carried(x) <=> SnapshotStored(txn[x], StoredIn(chain))
           /\ Carried(x)' <=> SnapshotStored(txn'[x], StoredIn(chain'))
  <1>1. Carried(x) <=> SnapshotStored(txn[x], StoredIn(chain))
    BY IdSets DEF Carried, SnapshotStored
  <1>2. Carried(x)' <=> SnapshotStored(txn'[x], StoredIn(chain'))
    BY IdSets DEF Carried, SnapshotStored
  <1>3. QED
    BY <1>1, <1>2

\* What others must not append after a step of x is what they must not before,
\* and the new work of x.
LEMMA TakenByStep ==
    ASSUME NEW x \in Sessions, NEW c, NEW c2, NEW f, NEW f2,
           \A z \in Sessions : z # x => f2[z] = f[z],
           StoredIn(c2) \subseteq StoredIn(c) \cup OwnOf(f[x]),
           OwnOf(f2[x]) \subseteq OwnOf(f[x]) \cup WorkOf(f[x]),
           NEW y \in Sessions, y # x, NEW id, id \notin Taken(y, c, f), id \notin WorkOf(f2[x])
    PROVE  id \notin Taken(y, c2, f2)
  <1>1. /\ id \notin StoredIn(c) /\ \A z \in Sessions : id \notin OwnOf(f[z])
        /\ \A z \in Sessions : z # y => id \notin WorkOf(f[z])
    BY DEF Taken
  <1>2. id \notin StoredIn(c2)
    BY <1>1
  <1>3. \A z \in Sessions : id \notin OwnOf(f2[z])
    BY <1>1
  <1>4. \A z \in Sessions : z # y => id \notin WorkOf(f2[z])
    BY <1>1
  <1>5. QED
    BY <1>2, <1>3, <1>4 DEF Taken

LEMMA WorkStaysNew ==
    ASSUME NEW t, t.work \in Seq(AuditEvent), NEW stored, NEW stored2, stored \subseteq stored2,
           NEW taken, NEW taken2, WorkNew(t, stored, taken),
           \A id \in WorkOf(t) : id \notin taken => id \notin taken2
    PROVE  WorkNew(t, stored2, taken2)
  <1>1. \A i \in DOMAIN t.work : Id(t.work[i]) \in WorkOf(t)
    BY DEF WorkOf
  <1>2. Len(t.work) = 1 => 1 \in DOMAIN t.work
    OBVIOUS
  <1>3. QED
    BY <1>1, <1>2 DEF WorkNew

\* What a step of x has to respect so that the others may go on.
Respects(x, t) ==
    /\ txn' = [txn EXCEPT ![x] = t]
    /\ StoredIn(chain) \subseteq StoredIn(chain')
    /\ StoredIn(chain') \subseteq StoredIn(chain) \cup OwnOf(txn[x])
    /\ OwnOf(t) \subseteq OwnOf(txn[x]) \cup WorkOf(txn[x])
    /\ \A y \in Writers : y # x =>
          \A id \in WorkOf(txn[y]) : id \notin Taken(y, chain, txn) => id \notin WorkOf(t)

LEMMA OthersStay ==
    ASSUME ChainsSound, NothingTwice, NEW x \in Sessions, NEW t, Respects(x, t),
           started' = started
    PROVE  /\ \A y \in Writers : y # x => Appending(y)'
           /\ \A y \in Sessions : y # x => Carried(y)'
  <1>1. /\ txn'[x] = t /\ \A y \in Sessions : y # x => txn'[y] = txn[y]
    BY SetTransaction DEF Respects, ChainsSound, TypeOK
  <1>2. /\ StoredIn(chain) \subseteq StoredIn(chain')
        /\ StoredIn(chain') \subseteq StoredIn(chain) \cup OwnOf(txn[x])
        /\ OwnOf(t) \subseteq OwnOf(txn[x]) \cup WorkOf(txn[x])
        /\ \A y \in Writers : y # x =>
              \A id \in WorkOf(txn[y]) : id \notin Taken(y, chain, txn) => id \notin WorkOf(t)
    BY DEF Respects
  <1>3. ASSUME NEW y \in Writers, y # x PROVE Appending(y)'
    <2>1. y \in Sessions /\ txn'[y] = txn[y] /\ txn[y].work \in Seq(AuditEvent)
      BY <1>1, <1>3, ConstantFacts, Parts DEF IsTransaction
    <2>2. /\ txn[y] # Idle => Server \in started
          /\ WorkNew(txn[y], StoredIn(chain), Taken(y, chain, txn))
      BY AppendingIs DEF NothingTwice
    <2>3. \A id \in WorkOf(txn[y]) :
              id \notin Taken(y, chain, txn) => id \notin Taken(y, chain', txn')
      BY <1>1, <1>2, <1>3, <2>1, TakenByStep
    <2>4. WorkNew(txn[y], StoredIn(chain'), Taken(y, chain', txn'))
      BY <1>2, <2>1, <2>2, <2>3, WorkStaysNew
    <2>5. QED
      BY <2>1, <2>2, <2>4, AppendingIs
  <1>4. ASSUME NEW y \in Sessions, y # x PROVE Carried(y)'
    <2>1. SnapshotStored(txn[y], StoredIn(chain))
      BY CarriedIs DEF NothingTwice
    <2>2. SnapshotStored(txn'[y], StoredIn(chain'))
      BY <1>1, <1>2, <1>4, <2>1 DEF SnapshotStored
    <2>3. QED
      BY <2>2, CarriedIs
  <1>5. QED
    BY <1>3, <1>4

LEMMA StoredSomething ==
    /\ NothingStored => StoredIn(chain) = {}
    /\ StoredIn(chain') # {} => ~NothingStored'
    /\ ChainsSound /\ ~NothingStored => StoredIn(chain) # {}
  <1>1. Ids(<<>>) = {}
    BY DEF Ids
  <1>2. NothingStored => StoredIn(chain) = {}
    BY <1>1 DEF NothingStored, StoredIn
  <1>3. StoredIn(chain') # {} => ~NothingStored'
    BY <1>1 DEF NothingStored, StoredIn
  <1>4. ASSUME ChainsSound, ~NothingStored PROVE StoredIn(chain) # {}
    <2>1. PICK s \in Scopes : chain[s] # <<>>
      BY <1>4 DEF NothingStored
    <2>2. Listed(chain[s])
      BY <1>4, Parts DEF RowList
    <2>3. 1 \in DOMAIN chain[s]
      <3> DEFINE q == chain[s]
      <3>1. Listed(q) /\ q # <<>>
        BY <2>1, <2>2
      <3> HIDE DEF q
      <3>2. Len(q) \in Nat /\ DOMAIN q = 1 .. Len(q)
        BY <3>1, ListedLength
      <3>3. Len(q) # 0
        BY <3>1, <3>2, EmptyListed, ListedEqual
      <3>4. 1 \in DOMAIN q
        BY <3>2, <3>3
      <3>5. QED
        BY <3>4 DEF q
    <2>4. Id(chain[s][1].event) \in StoredIn(chain)
      BY <2>3 DEF StoredIn, Ids
    <2>5. QED
      BY <2>4
  <1>5. QED
    BY <1>2, <1>3, <1>4

\* A step of x: what it has to establish.
LEMMA OwnStepNew ==
    ASSUME ChainsSound, NothingTwice, NEW x \in Sessions, NEW t, Respects(x, t),
           started' = started, refused' \cap Writers = {},
           \A i \in DOMAIN logs' : Id(logs'[i]) \in StoredIn(chain'),
           x \in Writers => /\ t # Idle => Server \in started
                            /\ WorkNew(t, StoredIn(chain'), Taken(x, chain', txn')),
           SnapshotStored(t, StoredIn(chain'))
    PROVE  NothingTwice'
  <1>1. /\ txn'[x] = t /\ StoredIn(chain) \subseteq StoredIn(chain')
    BY SetTransaction DEF Respects, ChainsSound, TypeOK
  <1>2. \A y \in Writers : Appending(y)'
    BY <1>1, OthersStay, AppendingIs
  <1>3. \A y \in Sessions : Carried(y)'
    BY <1>1, OthersStay, CarriedIs
  <1>4. (Server \in started => ~NothingStored)'
    <2>1. Server \in started => StoredIn(chain) # {}
      BY StoredSomething DEF NothingTwice
    <2>2. QED
      BY <1>1, <2>1, StoredSomething
  <1>5. (\A i \in DOMAIN logs : Id(logs[i]) \in Committed)'
    BY IdSets DEF Id
  <1>6. QED
    BY <1>2, <1>3, <1>4, <1>5 DEF NothingTwice, AppendsAccepted

-----------------------------------------------------------------------------
(* Every step leaves what a writer appends new.                            *)

LEMMA RestingNew ==
    ASSUME NEW t, t.rows = NoRows
    PROVE  OwnOf(t) = {}
  <1>1. \A s \in Scopes : Ids(t.rows[s]) = {}
    BY NoRowsOk DEF Ids
  <1>2. QED
    BY <1>1 DEF OwnOf

LEMMA IdleNew ==
    /\ OwnOf(Idle) = {} /\ WorkOf(Idle) = {}
    /\ \A stored, taken : WorkNew(Idle, stored, taken) /\ SnapshotStored(Idle, stored)
  <1>1. OwnOf(Idle) = {}
    BY IdleIs, RestingNew
  <1>2. Idle.work = <<>> /\ Idle.step = "idle" /\ Idle.snapshot = None
    BY IdleIs
  <1>3. WorkOf(Idle) = {}
    BY <1>2 DEF WorkOf
  <1>4. \A stored, taken : WorkNew(Idle, stored, taken) /\ SnapshotStored(Idle, stored)
    BY <1>2 DEF WorkNew, SnapshotStored
  <1>5. QED
    BY <1>1, <1>3, <1>4

LEMMA SeenIdsAre ==
    ASSUME ChainsSound, NEW x \in Sessions
    PROVE  SeenIds(x) = StoredIn(chain) \cup OwnOf(txn[x])
  <1>1. \A s \in Scopes : Ids(Seen(x, s)) = Ids(chain[s]) \cup Ids(txn[x].rows[s])
    BY SeenRows
  <1>2. QED
    BY <1>1 DEF SeenIds, StoredIn, OwnOf

LEMMA RespectsOwn ==
    ASSUME NEW x \in Sessions, NEW t, txn' = [txn EXCEPT ![x] = t], chain' = chain,
           OwnOf(t) \subseteq OwnOf(txn[x]) \cup WorkOf(txn[x]),
           WorkOf(t) \subseteq WorkOf(txn[x])
    PROVE  Respects(x, t)
  <1>1. \A y \in Writers : y # x =>
            \A id \in WorkOf(txn[y]) : id \notin Taken(y, chain, txn) => id \notin WorkOf(t)
    BY DEF Taken
  <1>2. QED
    BY <1>1 DEF Respects

LEMMA TakenOwn ==
    ASSUME TypeOK, NEW x \in Sessions, NEW t, txn' = [txn EXCEPT ![x] = t], chain' = chain,
           OwnOf(t) \subseteq OwnOf(txn[x])
    PROVE  Taken(x, chain', txn') \subseteq Taken(x, chain, txn)
  <1>1. txn'[x] = t /\ \A y \in Sessions : y # x => txn'[y] = txn[y]
    BY SetTransaction DEF TypeOK
  <1>2. QED
    BY <1>1 DEF Taken

\* A writer that is about to insert is not refused.
LEMMA WriterInsertable ==
    ASSUME ChainsSound, NothingTwice, NEW x \in Writers, txn[x].step = "insert"
    PROVE  Insertable(x, txn[x].work[1])
  <1>1. x \in Sessions /\ Exclusive(x)
    BY ConstantFacts, Parts
  <1>2. txn[x].head = HeadOf(Seen(x, txn[x].work[1].scope))
    BY <1>1 DEF Exclusive
  <1>3. Id(txn[x].work[1]) \notin Taken(x, chain, txn)
    BY AppendingIs DEF NothingTwice, WorkNew
  <1>4. Id(txn[x].work[1]) \notin SeenIds(x)
    BY <1>1, <1>3, SeenIdsAre DEF Taken
  <1>5. QED
    BY <1>2, <1>4 DEF Insertable

LEMMA LogsStored ==
    ASSUME NothingTwice
    PROVE  \A i \in DOMAIN logs : Id(logs[i]) \in StoredIn(chain)
  BY IdSets DEF NothingTwice

LEMMA GiveUpNew ==
    ASSUME ChainsSound, NothingTwice, NEW x \in Sessions, insert_refused(x) \/ rollback(x)
    PROVE  NothingTwice'
  <1>1. txn' = [txn EXCEPT ![x] = Idle] /\ UNCHANGED <<chain, started, logs>>
    BY GiveUpSound
  <1>2. Respects(x, Idle)
    BY <1>1, IdleNew, RespectsOwn
  <1>3. refused' \cap Writers = {}
    <2>1. refused \cap Writers = {}
      BY DEF NothingTwice, AppendsAccepted
    <2>2. CASE insert_refused(x)
      BY <2>1, <2>2, WriterInsertable DEF insert_refused
    <2>3. CASE rollback(x)
      BY <2>1, <2>3 DEF rollback
    <2>4. QED
      BY <2>2, <2>3
  <1>4. \A i \in DOMAIN logs' : Id(logs'[i]) \in StoredIn(chain')
    BY <1>1, LogsStored
  <1>5. QED
    BY <1>1, <1>2, <1>3, <1>4, IdleNew, OwnStepNew

LEMMA SkipNew ==
    ASSUME ChainsSound, NothingTwice, NEW x \in Sessions, skip(x)
    PROVE  NothingTwice'
  <1> DEFINE t0 == txn[x]
             t == Transaction("next", Tail(t0.work), t0.head, t0.rows, t0.snapshot)
             first == Id(t0.work[1])
  <1>1. txn' = [txn EXCEPT ![x] = t]
    BY SkipSound
  <1>2. /\ t0.work # <<>> /\ AlreadyThere(x, t0.work[1])
        /\ UNCHANGED <<chain, started, logs, refused>>
    BY DEF skip
  <1>3. /\ t.step = "next" /\ t.work = Tail(t0.work) /\ t.rows = t0.rows
        /\ t.snapshot = t0.snapshot
    BY TransactionFields
  <1> HIDE DEF t
  <1>4. t0.work \in Seq(AuditEvent) /\ TypeOK
    BY Parts DEF IsTransaction
  <1>5. /\ Len(t0.work) \in Nat /\ 1 \in DOMAIN t0.work
        /\ t.work \in Seq(AuditEvent) /\ Len(t.work) = Len(t0.work) - 1
        /\ \A i \in DOMAIN t.work : i + 1 \in DOMAIN t0.work /\ t.work[i] = t0.work[i + 1]
        /\ \A j \in DOMAIN t0.work : j # 1 => j - 1 \in DOMAIN t.work
                                              /\ t.work[j - 1] = t0.work[j]
    BY <1>2, <1>3, <1>4, TailOfWork
  <1>6. OwnOf(t) = OwnOf(t0)
    BY <1>3 DEF OwnOf
  <1>7. WorkOf(t) \subseteq WorkOf(t0) /\ WorkOf(t0) \subseteq WorkOf(t) \cup {first}
    <2>1. WorkOf(t) \subseteq WorkOf(t0)
      BY <1>5 DEF WorkOf
    <2>2. \A j \in DOMAIN t0.work : Id(t0.work[j]) \in WorkOf(t) \cup {first}
      BY <1>5 DEF WorkOf
    <2>3. WorkOf(t0) \subseteq WorkOf(t) \cup {first}
      BY <2>2 DEF WorkOf
    <2>4. QED
      BY <2>1, <2>3
  <1>8. Respects(x, t)
    BY <1>1, <1>2, <1>6, <1>7, RespectsOwn
  <1>9. Taken(x, chain', txn') \subseteq Taken(x, chain, txn)
    BY <1>1, <1>2, <1>4, <1>6, TakenOwn
  <1>10. ASSUME x \in Writers
         PROVE  /\ t # Idle => Server \in started
                /\ WorkNew(t, StoredIn(chain'), Taken(x, chain', txn'))
    <2>1. /\ t0 # Idle => Server \in started
          /\ WorkNew(t0, StoredIn(chain), Taken(x, chain, txn))
      BY <1>10, AppendingIs DEF NothingTwice
    <2>2. t0 # Idle
      BY <1>2, IdleIs
    <2>3. ASSUME NEW i \in DOMAIN t.work
          PROVE  \/ t.snapshot # None /\ Id(t.work[i]) \in StoredIn(chain')
                 \/ i = Len(t.work) /\ Id(t.work[i]) \notin Taken(x, chain', txn')
      <3>1. i + 1 \in DOMAIN t0.work /\ t.work[i] = t0.work[i + 1] /\ i \in Nat
        BY <1>5
      <3>2. \/ t0.snapshot # None /\ Id(t.work[i]) \in StoredIn(chain)
            \/ i + 1 = Len(t0.work) /\ Id(t.work[i]) \notin Taken(x, chain, txn)
        BY <2>1, <3>1 DEF WorkNew
      <3>3. i + 1 = Len(t0.work) => i = Len(t.work)
        <4>1. Len(t0.work) \in Nat /\ Len(t.work) = Len(t0.work) - 1 /\ i \in Nat
          BY <1>5, <3>1
        <4>2. QED
          BY <4>1
      <3>4. QED
        BY <1>2, <1>3, <1>9, <3>2, <3>3
    <2>4. QED
      BY <1>3, <2>1, <2>2, <2>3 DEF WorkNew
  <1>11. SnapshotStored(t, StoredIn(chain'))
    <2>1. SnapshotStored(t0, StoredIn(chain))
      BY CarriedIs DEF NothingTwice
    <2>2. first \in StoredIn(chain) \cup OwnOf(t0)
      BY <1>2, SeenIdsAre DEF AlreadyThere
    <2>3. QED
      BY <1>2, <1>3, <1>6, <1>7, <2>1, <2>2 DEF SnapshotStored
  <1>12. /\ refused' \cap Writers = {}
         /\ \A i \in DOMAIN logs' : Id(logs'[i]) \in StoredIn(chain')
    BY <1>2, LogsStored DEF NothingTwice, AppendsAccepted
  <1>13. QED
    BY <1>2, <1>8, <1>10, <1>11, <1>12, OwnStepNew

\* A step of an append that leaves the work as it is.
LEMMA SameWorkNew ==
    ASSUME ChainsSound, NothingTwice, NEW x \in Sessions, txn[x] # Idle,
           NEW t, txn' = [txn EXCEPT ![x] = t], UNCHANGED <<chain, started, logs, refused>>,
           t.work = txn[x].work, t.rows = txn[x].rows, t.snapshot = txn[x].snapshot,
           x \in Writers => /\ Len(txn[x].work) = 1
                            /\ Id(txn[x].work[1]) \notin Taken(x, chain, txn)
    PROVE  NothingTwice'
  <1>1. OwnOf(t) = OwnOf(txn[x]) /\ WorkOf(t) = WorkOf(txn[x])
    BY DEF OwnOf, WorkOf
  <1>2. Respects(x, t)
    BY <1>1, RespectsOwn
  <1>3. Taken(x, chain', txn') \subseteq Taken(x, chain, txn)
    BY <1>1, TakenOwn DEF ChainsSound
  <1>4. ASSUME x \in Writers
        PROVE  /\ t # Idle => Server \in started
               /\ WorkNew(t, StoredIn(chain'), Taken(x, chain', txn'))
    <2>1. /\ Server \in started
          /\ WorkNew(txn[x], StoredIn(chain), Taken(x, chain, txn))
      BY <1>4, AppendingIs DEF NothingTwice
    <2>2. QED
      BY <1>3, <1>4, <2>1 DEF WorkNew
  <1>5. SnapshotStored(t, StoredIn(chain'))
    <2>1. SnapshotStored(txn[x], StoredIn(chain))
      BY CarriedIs DEF NothingTwice
    <2>2. QED
      BY <1>1, <2>1 DEF SnapshotStored
  <1>6. /\ refused' \cap Writers = {}
        /\ \A i \in DOMAIN logs' : Id(logs'[i]) \in StoredIn(chain')
    BY LogsStored DEF NothingTwice, AppendsAccepted
  <1>7. QED
    BY <1>2, <1>4, <1>5, <1>6, OwnStepNew

LEMMA LockNew ==
    ASSUME ChainsSound, NothingTwice, NEW x \in Sessions, lock(x)
    PROVE  NothingTwice'
  <1> DEFINE t0 == txn[x]
             t == Transaction("locked", t0.work, t0.head, t0.rows, t0.snapshot)
  <1>1. txn' = [txn EXCEPT ![x] = t]
    BY LockSound
  <1>2. /\ t0.step = "next" /\ t0.work # <<>> /\ ~AlreadyThere(x, t0.work[1])
        /\ UNCHANGED <<chain, started, logs, refused>>
    BY DEF lock
  <1>3. t.work = t0.work /\ t.rows = t0.rows /\ t.snapshot = t0.snapshot
    BY TransactionFields
  <1> HIDE DEF t
  <1>4. ASSUME x \in Writers
        PROVE  Len(t0.work) = 1 /\ Id(t0.work[1]) \notin Taken(x, chain, txn)
    <2>1. WorkNew(t0, StoredIn(chain), Taken(x, chain, txn))
      BY <1>4, AppendingIs DEF NothingTwice
    <2>2. 1 \in DOMAIN t0.work
      BY <1>2, Parts, TailOfWork DEF IsTransaction
    <2>3. t0.snapshot # None => Id(t0.work[1]) \notin StoredIn(chain)
      BY <1>2, SeenIdsAre DEF AlreadyThere
    <2>4. QED
      BY <2>1, <2>2, <2>3 DEF WorkNew
  <1>5. t0 # Idle
    BY <1>2, IdleIs
  <1>6. QED
    BY <1>1, <1>2, <1>3, <1>4, <1>5, SameWorkNew

LEMMA ReadHeadNew ==
    ASSUME ChainsSound, NothingTwice, NEW x \in Sessions, read_head(x)
    PROVE  NothingTwice'
  <1> DEFINE t0 == txn[x]
             t == Transaction("insert", t0.work, HeadOf(Seen(x, t0.work[1].scope)),
                              t0.rows, t0.snapshot)
  <1>1. txn' = [txn EXCEPT ![x] = t]
    BY ReadHeadSound
  <1>2. t0.step = "locked" /\ UNCHANGED <<chain, started, logs, refused>>
    BY DEF read_head
  <1>3. t.work = t0.work /\ t.rows = t0.rows /\ t.snapshot = t0.snapshot
    BY TransactionFields
  <1> HIDE DEF t
  <1>4. x \in Writers => Len(t0.work) = 1 /\ Id(t0.work[1]) \notin Taken(x, chain, txn)
    BY <1>2, AppendingIs DEF NothingTwice, WorkNew
  <1>5. t0 # Idle
    BY <1>2, IdleIs
  <1>6. QED
    BY <1>1, <1>2, <1>3, <1>4, <1>5, SameWorkNew

LEMMA InsertNew ==
    ASSUME ChainsSound, NothingTwice, NEW x \in Sessions, insert(x)
    PROVE  NothingTwice'
  <1> DEFINE t0 == txn[x]
             e == t0.work[1]
             scope == e.scope
             t == Transaction("next", Tail(t0.work), None, RowsAfter(t0), t0.snapshot)
  <1>1. txn' = [txn EXCEPT ![x] = t]
    BY InsertSound
  <1>2. t0.step = "insert" /\ UNCHANGED <<chain, started, logs, refused>>
    BY DEF insert
  <1>3. /\ t.step = "next" /\ t.work = Tail(t0.work) /\ t.rows = RowsAfter(t0)
        /\ t.snapshot = t0.snapshot
    BY TransactionFields
  <1> HIDE DEF t
  <1>4. IsTransaction(t0) /\ Exclusive(x) /\ t0.work \in Seq(AuditEvent)
    BY Parts DEF IsTransaction
  <1>5. t0.work # <<>>
    BY <1>2, <1>4 DEF Exclusive, Extending
  <1>6. /\ Len(t0.work) \in Nat /\ 1 \in DOMAIN t0.work
        /\ Len(t.work) = Len(t0.work) - 1 /\ t.work \in Seq(AuditEvent)
        /\ \A i \in DOMAIN t.work : i + 1 \in DOMAIN t0.work /\ t.work[i] = t0.work[i + 1]
        /\ \A j \in DOMAIN t0.work : j # 1 => j - 1 \in DOMAIN t.work
                                              /\ t.work[j - 1] = t0.work[j]
    BY <1>3, <1>4, <1>5, TailOfWork
  <1>7. e \in AuditEvent /\ scope \in Scopes
    BY <1>4, <1>5, WorkHead
  <1>8. OwnOf(t) = OwnOf(t0) \cup {Id(e)}
    <2>1. /\ \A s \in Scopes : s # scope => t.rows[s] = t0.rows[s]
          /\ t.rows[scope] = Append(t0.rows[scope], RowAfter(t0.head, e))
      BY <1>3, <1>4, <1>5, RowsAfterFields, ZenonT(60)
    <2>2. Listed(t0.rows[scope])
      BY <1>7, SeenRows
    <2>3. Id(RowAfter(t0.head, e).event) = Id(e)
      BY <1>7, RowFields, StoredEvent
    <2>4. Ids(t.rows[scope]) = Ids(t0.rows[scope]) \cup {Id(e)}
      <3> DEFINE q == t0.rows[scope]
                 r == RowAfter(t0.head, e)
      <3>1. Listed(q) /\ Id(r.event) = Id(e)
        BY <2>2, <2>3
      <3> HIDE DEF q, r
      <3>2. Ids(Append(q, r)) = Ids(q) \cup {Id(r.event)}
        BY <3>1, IdsAppend
      <3>3. QED
        BY <2>1, <3>1, <3>2 DEF q, r
    <2>5. QED
      BY <1>7, <2>1, <2>4, ZenonT(60) DEF OwnOf
  <1>9. Id(e) \in WorkOf(t0) /\ WorkOf(t) \subseteq WorkOf(t0)
        /\ WorkOf(t0) \subseteq WorkOf(t) \cup {Id(e)}
    <2>1. Id(e) \in WorkOf(t0) /\ WorkOf(t) \subseteq WorkOf(t0)
      BY <1>6 DEF WorkOf
    <2>2. \A j \in DOMAIN t0.work : Id(t0.work[j]) \in WorkOf(t) \cup {Id(e)}
      BY <1>6 DEF WorkOf
    <2>3. WorkOf(t0) \subseteq WorkOf(t) \cup {Id(e)}
      BY <2>2 DEF WorkOf
    <2>4. QED
      BY <2>1, <2>3
  <1>10. Respects(x, t)
    BY <1>1, <1>2, <1>8, <1>9, RespectsOwn
  <1>11. ASSUME x \in Writers
         PROVE  /\ t # Idle => Server \in started
                /\ WorkNew(t, StoredIn(chain'), Taken(x, chain', txn'))
    <2>1. /\ t0 # Idle => Server \in started
          /\ WorkNew(t0, StoredIn(chain), Taken(x, chain, txn))
      BY <1>11, AppendingIs DEF NothingTwice
    <2>2. t0 # Idle
      BY <1>2, IdleIs
    <2>3. Len(t.work) = 0
      BY <1>2, <1>6, <2>1 DEF WorkNew
    <2>4. DOMAIN t.work = {}
      BY <1>6, <2>3
    <2>5. QED
      BY <1>3, <2>1, <2>2, <2>4 DEF WorkNew
  <1>12. SnapshotStored(t, StoredIn(chain'))
    <2>1. SnapshotStored(t0, StoredIn(chain))
      BY CarriedIs DEF NothingTwice
    <2>2. QED
      BY <1>2, <1>3, <1>8, <1>9, <2>1 DEF SnapshotStored
  <1>13. /\ refused' \cap Writers = {}
         /\ \A i \in DOMAIN logs' : Id(logs'[i]) \in StoredIn(chain')
    BY <1>2, LogsStored DEF NothingTwice, AppendsAccepted
  <1>14. QED
    BY <1>2, <1>10, <1>11, <1>12, <1>13, OwnStepNew

LEMMA CommitNew ==
    ASSUME ChainsSound, NothingTwice, NEW x \in Sessions, commit(x)
    PROVE  NothingTwice'
  <1> DEFINE t0 == txn[x]
  <1>1. /\ chain' = [s \in Scopes |-> Seen(x, s)] /\ txn' = [txn EXCEPT ![x] = Idle]
        /\ UNCHANGED <<started, refused>> /\ t0.work = <<>>
        /\ logs' = logs \/ (t0.snapshot # None /\ logs' = t0.snapshot)
    BY DEF commit
  <1>2. StoredIn(chain') = StoredIn(chain) \cup OwnOf(t0)
    <2>1. \A s \in Scopes : Ids(chain'[s]) = Ids(chain[s]) \cup Ids(t0.rows[s])
      BY <1>1, SeenRows
    <2>2. QED
      BY <2>1 DEF StoredIn, OwnOf
  <1>3. Respects(x, Idle)
    BY <1>1, <1>2, IdleNew DEF Respects
  <1>4. \A i \in DOMAIN logs' : Id(logs'[i]) \in StoredIn(chain')
    <2>1. CASE logs' = logs
      BY <1>2, <2>1, LogsStored
    <2>2. CASE t0.snapshot # None /\ logs' = t0.snapshot
      <3>1. SnapshotStored(t0, StoredIn(chain))
        BY CarriedIs DEF NothingTwice
      <3>2. WorkOf(t0) = {}
        BY <1>1 DEF WorkOf
      <3>3. QED
        BY <1>2, <2>2, <3>1, <3>2 DEF SnapshotStored
    <2>3. QED
      BY <1>1, <2>1, <2>2
  <1>5. refused' \cap Writers = {}
    BY <1>1 DEF NothingTwice, AppendsAccepted
  <1>6. QED
    BY <1>1, <1>3, <1>4, <1>5, IdleNew, OwnStepNew

LEMMA FreshId ==
    ASSUME ChainsSound, NEW e, Fresh(e)
    PROVE  /\ Id(e) \notin StoredIn(chain)
           /\ \A y \in Sessions : Id(e) \notin OwnOf(txn[y]) /\ Id(e) \notin WorkOf(txn[y])
  <1>1. Id(e) \notin StoredIn(chain)
    BY DEF Fresh, StoredIn
  <1>2. ASSUME NEW y \in Sessions
        PROVE  Id(e) \notin OwnOf(txn[y]) /\ Id(e) \notin WorkOf(txn[y])
    <2>1. CASE txn[y] = Idle
      BY <2>1, IdleNew
    <2>2. CASE txn[y] # Idle
      <3>1. Id(e) \notin SeenIds(y) /\ \A i \in DOMAIN txn[y].work : Id(e) # Id(txn[y].work[i])
        BY <2>2 DEF Fresh
      <3>2. QED
        BY <3>1, SeenIdsAre DEF WorkOf
    <2>3. QED
      BY <2>1, <2>2
  <1>3. QED
    BY <1>1, <1>2

LEMMA FreshNotTaken ==
    ASSUME ChainsSound, NEW e, Fresh(e), NEW x \in Sessions, NEW t, OwnOf(t) = {},
           txn' = [txn EXCEPT ![x] = t], chain' = chain
    PROVE  Id(e) \notin Taken(x, chain', txn')
  <1>1. txn'[x] = t /\ \A y \in Sessions : y # x => txn'[y] = txn[y]
    BY SetTransaction DEF ChainsSound, TypeOK
  <1>2. QED
    BY <1>1, FreshId DEF Taken

LEMMA ImportNew ==
    ASSUME ChainsSound, NothingTwice, NEW x \in Starters, initialize_legacy(x)
    PROVE  NothingTwice'
  <1> DEFINE t == Transaction("next", LegacyWork(x), None, NoRows, None)
  <1>1. txn' = [txn EXCEPT ![x] = t]
    BY ImportSound
  <1>2. NothingStored /\ UNCHANGED <<chain, started, logs, refused>>
    BY DEF initialize_legacy
  <1>3. t.rows = NoRows /\ t.snapshot = None
    BY TransactionFields
  <1> HIDE DEF t
  <1>4. \A y \in Writers : WorkOf(txn[y]) = {}
    BY <1>2, AppendingIs, IdleNew DEF NothingTwice
  <1>5. OwnOf(t) = {}
    BY <1>3, RestingNew
  <1>6. Respects(x, t)
    BY <1>1, <1>2, <1>4, <1>5 DEF Respects
  <1>7. SnapshotStored(t, StoredIn(chain'))
    BY <1>3 DEF SnapshotStored
  <1>8. /\ refused' \cap Writers = {}
        /\ \A i \in DOMAIN logs' : Id(logs'[i]) \in StoredIn(chain')
    BY <1>2, LogsStored DEF NothingTwice, AppendsAccepted
  <1>9. x \in Sessions /\ x \notin Writers
    BY ConstantFacts
  <1>10. QED
    BY <1>2, <1>6, <1>7, <1>8, <1>9, OwnStepNew

LEMMA SecurityEventNew ==
    ASSUME ChainsSound, NothingTwice, NEW x \in Writers, NEW e \in SecurityEvents,
           append_security_event(x, e)
    PROVE  NothingTwice'
  <1> DEFINE t == Transaction("next", <<e>>, None, NoRows, None)
  <1>1. txn' = [txn EXCEPT ![x] = t]
    BY SecurityEventSound
  <1>2. Server \in started /\ Fresh(e) /\ UNCHANGED <<chain, started, logs, refused>>
    BY DEF append_security_event
  <1>3. t.step = "next" /\ t.work = <<e>> /\ t.rows = NoRows /\ t.snapshot = None
    BY TransactionFields
  <1> HIDE DEF t
  <1>4. OwnOf(t) = {} /\ x \in Sessions
    BY <1>3, RestingNew, ConstantFacts
  <1>5. WorkOf(t) = {Id(e)}
    BY <1>3 DEF WorkOf
  <1>6. Respects(x, t)
    <2>1. \A y \in Writers : Id(e) \notin WorkOf(txn[y])
      BY <1>2, FreshId, ConstantFacts
    <2>2. QED
      BY <1>1, <1>2, <1>4, <1>5, <2>1 DEF Respects
  <1>7. WorkNew(t, StoredIn(chain'), Taken(x, chain', txn'))
    <2>1. Id(e) \notin Taken(x, chain', txn')
      BY <1>1, <1>2, <1>4, FreshNotTaken
    <2>2. Len(t.work) = 1 /\ \A i \in DOMAIN t.work : i = 1 /\ t.work[i] = e
      BY <1>3
    <2>3. QED
      BY <1>3, <2>1, <2>2 DEF WorkNew
  <1>8. SnapshotStored(t, StoredIn(chain'))
    BY <1>3 DEF SnapshotStored
  <1>9. /\ refused' \cap Writers = {}
        /\ \A i \in DOMAIN logs' : Id(logs'[i]) \in StoredIn(chain')
    BY <1>2, LogsStored DEF NothingTwice, AppendsAccepted
  <1>10. QED
    BY <1>2, <1>4, <1>6, <1>7, <1>8, <1>9, OwnStepNew

LEMMA SaveNew ==
    ASSUME ChainsSound, NothingTwice, NEW x \in Writers, NEW e \in DomainEvents,
           save_ledger(x, e)
    PROVE  NothingTwice'
  <1> DEFINE q == Append(logs, e)
             t == Transaction("next", q, None, NoRows, q)
  <1>1. txn' = [txn EXCEPT ![x] = t] /\ q \in Seq(AuditEvent)
    BY SaveSound
  <1>2. Server \in started /\ Fresh(e) /\ UNCHANGED <<chain, started, logs, refused>>
    BY DEF save_ledger
  <1> HIDE DEF q
  <1>3. t.step = "next" /\ t.work = q /\ t.rows = NoRows /\ t.snapshot = q
    BY TransactionFields
  <1> HIDE DEF t
  <1>4. OwnOf(t) = {} /\ x \in Sessions
    BY <1>3, RestingNew, ConstantFacts
  <1>5. /\ Len(q) = Len(logs) + 1 /\ DOMAIN q = 1 .. Len(logs) + 1
        /\ q[Len(logs) + 1] = e /\ Len(logs) \in Nat /\ DOMAIN logs = 1 .. Len(logs)
        /\ \A i \in 1 .. Len(logs) : q[i] = logs[i]
    <2>1. logs \in Seq(AuditEvent) /\ e \in AuditEvent
      BY ChainConstants DEF ChainsSound, TypeOK
    <2>2. QED
      BY <2>1 DEF q
  <1>6. \A i \in DOMAIN q : \/ i \in DOMAIN logs /\ Id(q[i]) \in StoredIn(chain)
                            \/ i = Len(q) /\ q[i] = e
    BY <1>5, LogsStored
  <1>7. WorkOf(t) \subseteq StoredIn(chain) \cup {Id(e)}
    BY <1>3, <1>6 DEF WorkOf
  <1>8. Respects(x, t)
    <2>1. \A y \in Writers : Id(e) \notin WorkOf(txn[y])
      BY <1>2, FreshId, ConstantFacts
    <2>2. \A y \in Writers : y # x =>
              \A id \in WorkOf(txn[y]) : id \notin Taken(y, chain, txn) => id \notin WorkOf(t)
      BY <1>7, <2>1 DEF Taken
    <2>3. QED
      BY <1>1, <1>2, <1>4, <2>2 DEF Respects
  <1>9. WorkNew(t, StoredIn(chain'), Taken(x, chain', txn'))
    <2>1. Id(e) \notin Taken(x, chain', txn')
      BY <1>1, <1>2, <1>4, FreshNotTaken
    <2>2. q # None
      BY <1>1, ChainConstants
    <2>3. QED
      BY <1>2, <1>3, <1>6, <2>1, <2>2 DEF WorkNew
  <1>10. SnapshotStored(t, StoredIn(chain'))
    BY <1>3 DEF SnapshotStored, WorkOf
  <1>11. /\ refused' \cap Writers = {}
         /\ \A i \in DOMAIN logs' : Id(logs'[i]) \in StoredIn(chain')
    BY <1>2, LogsStored DEF NothingTwice, AppendsAccepted
  <1>12. QED
    BY <1>2, <1>4, <1>8, <1>9, <1>10, <1>11, OwnStepNew

LEMMA StartNew ==
    ASSUME ChainsSound, NothingTwice, NEW x \in Starters, start(x)
    PROVE  NothingTwice'
  <1>1. /\ ~NothingStored /\ started \subseteq started'
        /\ UNCHANGED <<chain, txn, refused>> /\ (logs' = logs \/ logs' \in load_ledger)
    BY DEF start
  <1>2. \A y \in Writers : Appending(y)'
    BY <1>1, AppendingIs DEF NothingTwice
  <1>3. \A y \in Sessions : Carried(y)'
    BY <1>1, CarriedIs DEF NothingTwice
  <1>4. \A i \in DOMAIN logs' : Id(logs'[i]) \in StoredIn(chain)
    <2>1. CASE logs' = logs
      BY <2>1, LogsStored
    <2>2. CASE logs' \in load_ledger
      <3>1. \A i \in DOMAIN logs' : logs'[i] \in LedgerEvents
        BY <2>2, LoadedLogs
      <3>2. \A e \in LedgerEvents : Id(e) \in StoredIn(chain)
        BY DEF LedgerEvents, StoredIn, Ids
      <3>3. QED
        BY <3>1, <3>2
    <2>3. QED
      BY <1>1, <2>1, <2>2
  <1>5. (\A i \in DOMAIN logs : Id(logs[i]) \in Committed)'
    BY <1>1, <1>4, IdSets DEF Id
  <1>6. (Server \in started => ~NothingStored)'
    BY <1>1 DEF NothingStored
  <1>7. QED
    BY <1>1, <1>2, <1>3, <1>5, <1>6 DEF NothingTwice, AppendsAccepted

LEMMA CrashNew ==
    ASSUME ChainsSound, NothingTwice, crash
    PROVE  NothingTwice'
  <1>1. /\ \A y \in Sessions : txn'[y] = IF y \in Writers THEN Idle ELSE txn[y]
        /\ started' = started \ {Server} /\ logs' = <<>> /\ UNCHANGED <<chain, refused>>
    BY DEF crash
  <1>2. \A y \in Writers : Appending(y)'
    BY <1>1, ConstantFacts, IdleNew, AppendingIs
  <1>3. ASSUME NEW y \in Sessions PROVE Carried(y)'
    <2>1. SnapshotStored(txn[y], StoredIn(chain))
      BY CarriedIs DEF NothingTwice
    <2>2. SnapshotStored(txn'[y], StoredIn(chain'))
      BY <1>1, <2>1, IdleNew
    <2>3. QED
      BY <2>2, CarriedIs
  <1>4. (\A i \in DOMAIN logs : Id(logs[i]) \in Committed)'
    BY <1>1
  <1>5. QED
    BY <1>1, <1>2, <1>3, <1>4 DEF NothingTwice, AppendsAccepted

LEMMA StepNew ==
    ASSUME ChainsSound, NothingTwice, [Next]_vars
    PROVE  NothingTwice'
  <1>1. ASSUME NEW x \in Starters, initialize_legacy(x) \/ start(x) PROVE NothingTwice'
    BY <1>1, ImportNew, StartNew
  <1>2. ASSUME NEW x \in Writers, NEW e \in SecurityEvents, append_security_event(x, e)
        PROVE  NothingTwice'
    BY <1>2, SecurityEventNew
  <1>3. ASSUME NEW x \in Writers, NEW e \in DomainEvents, save_ledger(x, e)
        PROVE  NothingTwice'
    BY <1>3, SaveNew
  <1>4. ASSUME NEW x \in Sessions, Step(x) PROVE NothingTwice'
    <2>1. CASE skip(x)
      BY <2>1, SkipNew
    <2>2. CASE lock(x)
      BY <2>2, LockNew
    <2>3. CASE read_head(x)
      BY <2>3, ReadHeadNew
    <2>4. CASE insert(x)
      BY <2>4, InsertNew
    <2>5. CASE insert_refused(x) \/ rollback(x)
      BY <2>5, GiveUpNew
    <2>6. CASE commit(x)
      BY <2>6, CommitNew
    <2>7. QED
      BY <1>4, <2>1, <2>2, <2>3, <2>4, <2>5, <2>6 DEF Step
  <1>5. ASSUME crash PROVE NothingTwice'
    BY <1>5, CrashNew
  <1>6. ASSUME UNCHANGED vars PROVE NothingTwice'
    <2>1. UNCHANGED <<chain, txn, started, logs, refused>>
      BY <1>6 DEF vars
    <2>2. \A y \in Writers : Appending(y)'
      BY <2>1, AppendingIs DEF NothingTwice
    <2>3. \A y \in Sessions : Carried(y)'
      BY <2>1, CarriedIs DEF NothingTwice
    <2>4. (\A i \in DOMAIN logs : Id(logs[i]) \in Committed)'
      BY <2>1, LogsStored, IdSets DEF Id
    <2>5. QED
      BY <2>1, <2>2, <2>3, <2>4 DEF NothingTwice, NothingStored, AppendsAccepted
  <1>7. QED
    BY <1>1, <1>2, <1>3, <1>4, <1>5, <1>6 DEF Next

LEMMA InitNew ==
    ASSUME Init
    PROVE  NothingTwice
  <1>1. /\ \A x \in Sessions : txn[x] = Idle
        /\ started = {} /\ logs = <<>> /\ refused = {}
    BY DEF Init
  <1>2. \A x \in Writers : Appending(x)
    BY <1>1, ConstantFacts, IdleNew, AppendingIs
  <1>3. \A x \in Sessions : Carried(x)
    BY <1>1, IdleNew, CarriedIs
  <1>4. QED
    BY <1>1, <1>2, <1>3 DEF NothingTwice, AppendsAccepted

(***************************************************************************)
(* The audit logs in memory are stored, and a writer appends one event     *)
(* that nobody else appends (save_ledger, append_domain_logs).             *)
(***************************************************************************)
THEOREM NeverAppendedTwice == Spec => [](ChainsSound /\ NothingTwice)
  <1>1. Init => ChainsSound /\ NothingTwice
    BY InitSound, InitNew
  <1>2. ChainsSound /\ NothingTwice /\ [Next]_vars => (ChainsSound /\ NothingTwice)'
    BY StepSound, StepNew
  <1>3. QED
    BY <1>1, <1>2, PTL DEF Spec

(***************************************************************************)
(* No operation of the server fails because of the trail that it writes:   *)
(* neither the trigger nor an index refuses its insert.                    *)
(***************************************************************************)
THEOREM AppendsAlwaysAccepted == Spec => []AppendsAccepted
  <1>1. NothingTwice => AppendsAccepted
    BY DEF NothingTwice
  <1>2. QED
    BY <1>1, NeverAppendedTwice, PTL

-----------------------------------------------------------------------------
(* What an import appends.                                                 *)

\* The old rows in their order, and then a mark for each of their scopes.
WorkIs(x, W) ==
    /\ Len(W) \in Nat /\ DOMAIN W = 1 .. Len(W) /\ Len(LegacyRows) \in Nat
    /\ Len(LegacyRows) <= Len(W)
    /\ DOMAIN LegacyRows = 1 .. Len(LegacyRows)
    /\ \A j \in 1 .. Len(LegacyRows) :
          W[j] = LegacyRows[j] /\ W[j].source = "legacy" /\ W[j].scope \in Scopes
    /\ \A j \in Len(LegacyRows) + 1 .. Len(W) : \E s \in LegacyScopes : W[j] = Cutover(x, s)
    /\ \A s \in LegacyScopes : \E j \in Len(LegacyRows) + 1 .. Len(W) : W[j] = Cutover(x, s)

LEMMA LegacyWorkIs ==
    ASSUME NEW x \in Starters
    PROVE  WorkIs(x, LegacyWork(x))
  <1> DEFINE S == {Cutover(x, s) : s \in LegacyScopes}
             n == Cardinality(S)
             q == SetToSeq(S)
             m == Len(LegacyRows)
             W == LegacyRows \o q
  <1>1. LegacyRows \in Seq(AuditEvent)
    BY ChainConstants
  <1>2. /\ m \in Nat /\ DOMAIN LegacyRows = 1 .. m
        /\ \A j \in 1 .. m : LegacyRows[j].source = "legacy" /\ LegacyRows[j].scope \in Scopes
    <2>1. LegacyRows \in Seq({e \in AuditEvent : e.source = "legacy"})
      BY ChainConstants
    <2>2. \A j \in 1 .. m : LegacyRows[j] \in {e \in AuditEvent : e.source = "legacy"}
      BY <2>1
    <2>3. QED
      BY <1>1, <2>2, StoredEvent
  <1>3. IsFiniteSet(S)
    <2> DEFINE f == [s \in LegacyScopes |-> Cutover(x, s)]
    <2>1. f \in Surjection(LegacyScopes, S)
      BY DEF Surjection
    <2>2. LegacyEvents \subseteq AuditEvent
      BY <1>1 DEF LegacyEvents
    <2>3. \A e \in LegacyEvents : e.scope \in Scopes
      BY <2>2, StoredEvent
    <2>4. LegacyScopes \in SUBSET Scopes
      BY <2>3, ChainConstants DEF LegacyScopes
    <2>5. IsFiniteSet(LegacyScopes)
      BY <2>4, ChainConstants, FS_Subset
    <2> HIDE DEF f, S
    <2>6. QED
      BY <2>1, <2>5, FS_Surjection
  <1> HIDE DEF S
  <1>4. n \in Nat /\ ExistsBijection(1 .. n, S)
    BY <1>3, FS_CardinalityType
  <1>5. \E f \in [1 .. n -> S] : IsInjective(f)
    BY <1>4 DEF ExistsBijection, Bijection, Injection
  <1>6. q \in [1 .. n -> S] /\ IsInjective(q)
    BY <1>5 DEF SetToSeq
  <1> HIDE DEF q, n
  <1>7. q \in Seq(S) /\ Len(q) = n /\ DOMAIN q = 1 .. n
    BY <1>4, <1>6, SeqDef
  <1>8. \A c \in S : \E j \in 1 .. n : q[j] = c
    <2>1. q \in Injection(1 .. n, S)
      BY <1>6 DEF Injection
    <2>2. IsFiniteSet(1 .. n) /\ Cardinality(1 .. n) = n
      BY <1>4, FS_Interval
    <2>3. q \in Surjection(1 .. n, S)
      BY <1>3, <2>1, <2>2, FS_Injection DEF n
    <2>4. QED
      BY <2>3 DEF Surjection
  <1>9. /\ Listed(W) /\ Len(W) = m + n
        /\ \A j \in 1 .. m : W[j] = LegacyRows[j]
        /\ \A j \in 1 .. n : W[m + j] = q[j]
    <2>1. Listed(LegacyRows) /\ Listed(q)
      BY <1>1, <1>7, InSeqIsListed
    <2>2. QED
      BY <1>7, <2>1, ConcatListed
  <1> HIDE DEF m, W
  <1>10. DOMAIN W = 1 .. m + n /\ m <= m + n /\ m + n \in Nat
    BY <1>2, <1>4, <1>9, ListedLength
  <1>11. ASSUME NEW j \in m + 1 .. m + n
         PROVE  \E s \in LegacyScopes : W[j] = Cutover(x, s)
    <2>1. j - m \in 1 .. n /\ j = m + (j - m)
      BY <1>2, <1>4
    <2>2. W[j] = q[j - m] /\ q[j - m] \in S
      BY <1>6, <1>9, <2>1
    <2>3. QED
      BY <2>2 DEF S
  <1>12. ASSUME NEW s \in LegacyScopes
         PROVE  \E j \in m + 1 .. m + n : W[j] = Cutover(x, s)
    <2>1. Cutover(x, s) \in S
      BY DEF S
    <2>2. PICK i \in 1 .. n : q[i] = Cutover(x, s)
      BY <1>8, <2>1
    <2>3. m + i \in m + 1 .. m + n
      BY <1>2, <1>4
    <2>4. QED
      BY <1>9, <2>2, <2>3
  <1>13. W = LegacyWork(x)
    BY DEF W, LegacyWork, S, q
  <1>14. QED
    BY <1>2, <1>9, <1>10, <1>11, <1>12, <1>13 DEF WorkIs, m

LEMMA MadeOfSame ==
    ASSUME NEW row, NEW e, MadeOf(row, e)
    PROVE  row.event.source = e.source /\ row.event.scope = e.scope
  BY DEF MadeOf, Id

\* A finished import has written the old rows of each scope and its mark.
LEMMA ImportedAll ==
    ASSUME NEW x \in Starters, NEW s \in Scopes, NEW rows, Listed(rows),
           ImportedTo(x, Len(LegacyWork(x)), rows, s)
    PROVE  LegacyFirst(rows, s)
  <1> DEFINE W == LegacyWork(x)
             n == Len(W)
             m == Len(LegacyRows)
             done == {j \in 1 .. n : W[j].scope = s}
  <1>1. WorkIs(x, W)
    BY LegacyWorkIs
  <1>2. /\ \A i \in DOMAIN rows : \E j \in done : MadeOf(rows[i], W[j])
        /\ \A j \in done : \E i \in DOMAIN rows : MadeOf(rows[i], W[j])
        /\ \A h, i \in DOMAIN rows : \A j, k \in done :
              MadeOf(rows[h], W[j]) /\ MadeOf(rows[i], W[k]) => (h < i <=> j < k)
    BY DEF ImportedTo
  <1> HIDE DEF W
  <1>3. /\ n \in Nat /\ m \in Nat /\ m <= n /\ DOMAIN LegacyRows = 1 .. m
        /\ \A j \in 1 .. m : W[j] = LegacyRows[j] /\ W[j].source = "legacy"
        /\ \A j \in m + 1 .. n : \E z \in LegacyScopes : W[j] = Cutover(x, z)
        /\ \A z \in LegacyScopes : \E j \in m + 1 .. n : W[j] = Cutover(x, z)
    BY <1>1 DEF WorkIs
  <1> HIDE DEF n, m
  <1> SUFFICES ASSUME OldRows(s) # {} PROVE LegacyFirst(rows, s)
    BY DEF LegacyFirst
  <1>4. s \in LegacyScopes
    <2>1. PICK j \in DOMAIN LegacyRows : LegacyRows[j].scope = s
      BY DEF OldRows
    <2>2. LegacyRows[j] \in LegacyEvents
      BY DEF LegacyEvents
    <2>3. QED
      BY <2>1, <2>2 DEF LegacyScopes
  <1>5. PICK c \in m + 1 .. n : W[c] = Cutover(x, s)
    BY <1>3, <1>4
  <1>6. c \in done /\ W[c].source = "cutover"
    BY <1>3, <1>5 DEF Cutover
  <1>7. PICK mark \in DOMAIN rows : MadeOf(rows[mark], W[c])
    BY <1>2, <1>6
  <1>8. \A j \in OldRows(s) : j \in done /\ j \in 1 .. m /\ W[j] = LegacyRows[j] /\ j < c
    BY <1>3, <1>5 DEF OldRows
  <1>9. ASSUME NEW i \in DOMAIN rows, rows[i].event.source = "cutover" PROVE i = mark
    <2>1. PICK j \in done : MadeOf(rows[i], W[j])
      BY <1>2
    <2>2. W[j].source = "cutover" /\ W[j].scope = s
      BY <1>9, <2>1, MadeOfSame
    <2>3. j \in m + 1 .. n
      BY <1>3, <2>2
    <2>4. PICK z \in LegacyScopes : W[j] = Cutover(x, z)
      BY <1>3, <2>3
    <2>5. MadeOf(rows[i], W[c])
      <3>1. z = s
        BY <2>2, <2>4 DEF Cutover
      <3>2. QED
        BY <1>5, <2>1, <2>4, <3>1
    <2>6. (i < mark <=> c < c) /\ (mark < i <=> c < c)
      BY <1>2, <1>6, <1>7, <2>5
    <2>7. i \in Int /\ mark \in Int /\ c \in Int
      BY <1>3, ListedLength
    <2>8. QED
      BY <2>6, <2>7
  <1>10. rows[mark].event.source = "cutover"
    BY <1>6, <1>7, MadeOfSame
  <1>11. ASSUME NEW i \in DOMAIN rows, i < mark
         PROVE  \E j \in OldRows(s) : MadeOf(rows[i], LegacyRows[j])
    <2>1. PICK j \in done : MadeOf(rows[i], W[j])
      BY <1>2
    <2>2. W[j].source # "cutover"
      <3>1. i # mark
        BY <1>11, ListedLength
      <3>2. QED
        BY <1>9, <2>1, <3>1, MadeOfSame
    <2>3. j \in 1 .. m
      <3>1. ASSUME j \in m + 1 .. n PROVE W[j].source = "cutover"
        <4>1. PICK z \in LegacyScopes : W[j] = Cutover(x, z)
          BY <1>3, <3>1
        <4>2. QED
          BY <4>1 DEF Cutover
      <3>2. QED
        BY <1>3, <2>2, <3>1
    <2>4. j \in OldRows(s) /\ W[j] = LegacyRows[j]
      BY <1>3, <2>3 DEF OldRows
    <2>5. QED
      BY <2>1, <2>4
  <1>12. ASSUME NEW j \in OldRows(s)
         PROVE  \E i \in DOMAIN rows : i < mark /\ MadeOf(rows[i], LegacyRows[j])
    <2>1. PICK i \in DOMAIN rows : MadeOf(rows[i], W[j])
      BY <1>2, <1>8
    <2>2. i < mark
      BY <1>2, <1>6, <1>7, <1>8, <2>1
    <2>3. QED
      BY <1>8, <2>1, <2>2
  <1>13. ASSUME NEW h \in DOMAIN rows, NEW i \in DOMAIN rows,
                NEW j \in OldRows(s), NEW k \in OldRows(s),
                MadeOf(rows[h], LegacyRows[j]), MadeOf(rows[i], LegacyRows[k])
         PROVE  h < i <=> j < k
    BY <1>2, <1>8, <1>13, SMTT(30)
  <1>14. QED
    BY <1>9, <1>10, <1>11, <1>12, <1>13 DEF LegacyFirst

\* What is appended behind them changes nothing: it has no mark and no old row.
LEMMA LegacyFirstAppended ==
    ASSUME NEW p, NEW q, Listed(p), Listed(q), NEW s, LegacyFirst(p, s), UnmarkedRows(q),
           Sound(p \o q)
    PROVE  LegacyFirst(p \o q, s)
  <1> DEFINE w == p \o q
  <1>1. Len(p) \in Nat /\ DOMAIN p = 1 .. Len(p) /\ Len(q) \in Nat /\ DOMAIN q = 1 .. Len(q)
    BY ListedLength
  <1>2. /\ Listed(w) /\ Len(w) = Len(p) + Len(q)
        /\ \A i \in 1 .. Len(p) : w[i] = p[i]
        /\ \A i \in 1 .. Len(q) : w[Len(p) + i] = q[i]
    BY ConcatListed
  <1>3. DOMAIN w = 1 .. Len(p) + Len(q)
    BY <1>2, ListedLength
  <1>4. \A h, i \in DOMAIN w : h # i => Id(w[h].event) # Id(w[i].event)
    BY DEF Sound
  <1> HIDE DEF w
  <1>5. \A i \in DOMAIN p : i \in DOMAIN w /\ w[i] = p[i]
    BY <1>1, <1>2, <1>3
  <1>6. ASSUME NEW i \in DOMAIN w, i \notin DOMAIN p
        PROVE  w[i].event.source # "cutover" /\ i > Len(p)
    <2>1. i - Len(p) \in 1 .. Len(q) /\ i = Len(p) + (i - Len(p)) /\ i > Len(p)
      BY <1>1, <1>3, <1>6
    <2>2. w[i] = q[i - Len(p)]
      BY <1>2, <2>1
    <2>3. QED
      BY <1>1, <2>1, <2>2 DEF UnmarkedRows
  <1> SUFFICES ASSUME OldRows(s) # {} PROVE LegacyFirst(w, s)
    BY DEF LegacyFirst, w
  <1>7. PICK mark \in DOMAIN p :
           /\ \A i \in DOMAIN p : p[i].event.source = "cutover" <=> i = mark
           /\ \A i \in DOMAIN p : i < mark => \E j \in OldRows(s) : MadeOf(p[i], LegacyRows[j])
           /\ \A j \in OldRows(s) : \E i \in DOMAIN p : i < mark /\ MadeOf(p[i], LegacyRows[j])
           /\ \A h, i \in DOMAIN p : \A j, k \in OldRows(s) :
                 MadeOf(p[h], LegacyRows[j]) /\ MadeOf(p[i], LegacyRows[k])
                    => (h < i <=> j < k)
    BY DEF LegacyFirst
  <1>8. mark \in DOMAIN w /\ mark <= Len(p)
    BY <1>1, <1>5
  <1>9. \A i \in DOMAIN w : w[i].event.source = "cutover" <=> i = mark
    BY <1>5, <1>6, <1>7
  <1>10. \A i \in DOMAIN w : i < mark => \E j \in OldRows(s) : MadeOf(w[i], LegacyRows[j])
    <2> SUFFICES ASSUME NEW i \in DOMAIN w, i < mark
                 PROVE  \E j \in OldRows(s) : MadeOf(w[i], LegacyRows[j])
      OBVIOUS
    <2>1. i \in DOMAIN p
      BY <1>1, <1>3, <1>8
    <2>2. QED
      BY <1>5, <1>7, <2>1
  <1>11. \A j \in OldRows(s) : \E i \in DOMAIN w : i < mark /\ MadeOf(w[i], LegacyRows[j])
    BY <1>5, <1>7
  <1>12. ASSUME NEW i \in DOMAIN w, NEW j \in OldRows(s), MadeOf(w[i], LegacyRows[j])
         PROVE  i \in DOMAIN p
    <2>1. PICK h \in DOMAIN p : MadeOf(p[h], LegacyRows[j])
      BY <1>7
    <2>2. h \in DOMAIN w /\ Id(w[h].event) = Id(w[i].event)
      BY <1>5, <1>12, <2>1 DEF MadeOf
    <2>3. QED
      BY <1>4, <2>1, <2>2
  <1>13. \A h, i \in DOMAIN w : \A j, k \in OldRows(s) :
            MadeOf(w[h], LegacyRows[j]) /\ MadeOf(w[i], LegacyRows[k]) => (h < i <=> j < k)
    BY <1>5, <1>7, <1>12
  <1>14. QED
    BY <1>8, <1>9, <1>10, <1>11, <1>13 DEF LegacyFirst

LEMMA NothingImported ==
    ASSUME NEW x, NEW s
    PROVE  ImportedTo(x, 0, <<>>, s)
  <1>1. 1 .. 0 = {} /\ DOMAIN <<>> = {}
    BY EmptyListed
  <1>2. QED
    BY <1>1 DEF ImportedTo

\* One event more, in a chain that it does not concern or at the end of its own.
LEMMA ImportedElsewhere ==
    ASSUME NEW x, NEW n \in Nat, NEW s, NEW rows, ImportedTo(x, n, rows, s),
           LegacyWork(x)[n + 1].scope # s
    PROVE  ImportedTo(x, n + 1, rows, s)
  <1> DEFINE W == LegacyWork(x)
             A == {j \in 1 .. n : W[j].scope = s}
             B == {j \in 1 .. n + 1 : W[j].scope = s}
  <1>1. A = B
    <2> HIDE DEF W
    <2>1. 1 .. n + 1 = 1 .. n \cup {n + 1}
      OBVIOUS
    <2>2. W[n + 1].scope # s
      BY DEF W
    <2>3. QED
      BY <2>1, <2>2
  <1>2. QED
    BY <1>1 DEF ImportedTo

LEMMA ImportedFurther ==
    ASSUME NEW x, NEW n \in Nat, NEW s, NEW rows, Listed(rows), ImportedTo(x, n, rows, s),
           NEW r, MadeOf(r, LegacyWork(x)[n + 1]), LegacyWork(x)[n + 1].scope = s,
           Id(r.event) \notin Ids(rows)
    PROVE  ImportedTo(x, n + 1, Append(rows, r), s)
  <1> DEFINE W == LegacyWork(x)
             A == {j \in 1 .. n : W[j].scope = s}
             B == {j \in 1 .. n + 1 : W[j].scope = s}
             q == Append(rows, r)
             m == Len(rows)
  <1>1. m \in Nat /\ DOMAIN rows = 1 .. m
    BY ListedLength
  <1>2. /\ Listed(q) /\ Len(q) = m + 1 /\ q[m + 1] = r
        /\ \A i \in 1 .. m : q[i] = rows[i]
    BY AppendListed
  <1>3. DOMAIN q = 1 .. m + 1
    BY <1>2, ListedLength
  <1>4. /\ \A i \in 1 .. m : \E j \in A : MadeOf(rows[i], W[j])
        /\ \A j \in A : \E i \in 1 .. m : MadeOf(rows[i], W[j])
        /\ \A h, i \in 1 .. m : \A j, k \in A :
              MadeOf(rows[h], W[j]) /\ MadeOf(rows[i], W[k]) => (h < i <=> j < k)
    BY <1>1 DEF ImportedTo
  <1>5. MadeOf(r, W[n + 1]) /\ W[n + 1].scope = s
    OBVIOUS
  <1> HIDE DEF W, q, m
  <1>6. 1 .. n + 1 = 1 .. n \cup {n + 1} /\ 1 .. m + 1 = 1 .. m \cup {m + 1}
    BY <1>1
  <1>7. B = A \cup {n + 1} /\ n + 1 \notin A
    BY <1>5, <1>6
  <1>8. A \subseteq 1 .. n
    OBVIOUS
  <1> HIDE DEF A, B
  <1>9. ASSUME NEW i \in 1 .. m + 1, NEW j \in B, MadeOf(q[i], W[j])
        PROVE  i = m + 1 <=> j = n + 1
    <2>1. ASSUME i = m + 1, j # n + 1 PROVE FALSE
      <3>1. PICK h \in 1 .. m : MadeOf(rows[h], W[j])
        BY <1>4, <1>7, <2>1
      <3>2. Id(r.event) = Id(rows[h].event)
        BY <1>2, <1>9, <2>1, <3>1 DEF MadeOf
      <3>3. QED
        BY <1>1, <3>1, <3>2 DEF Ids
    <2>2. ASSUME i # m + 1, j = n + 1 PROVE FALSE
      <3>1. i \in 1 .. m /\ q[i] = rows[i]
        BY <1>2, <1>6, <2>2
      <3>2. Id(rows[i].event) = Id(r.event)
        BY <1>5, <1>9, <2>2, <3>1 DEF MadeOf
      <3>3. QED
        BY <1>1, <3>1, <3>2 DEF Ids
    <2>3. QED
      BY <2>1, <2>2
  <1>10. \A i \in 1 .. m + 1 : \E j \in B : MadeOf(q[i], W[j])
    BY <1>2, <1>4, <1>5, <1>6, <1>7
  <1>11. \A j \in B : \E i \in 1 .. m + 1 : MadeOf(q[i], W[j])
    BY <1>2, <1>4, <1>5, <1>6, <1>7
  <1>12. ASSUME NEW h \in 1 .. m + 1, NEW i \in 1 .. m + 1, NEW j \in B, NEW k \in B,
                MadeOf(q[h], W[j]), MadeOf(q[i], W[k])
         PROVE  h < i <=> j < k
    <2>1. (h = m + 1 <=> j = n + 1) /\ (i = m + 1 <=> k = n + 1)
      BY <1>9, <1>12
    <2>2. CASE h = m + 1
      <3>1. i <= m + 1 /\ k <= n + 1 /\ j = n + 1
        BY <1>1, <1>7, <1>8, <2>1, <2>2
      <3>2. i \in Int /\ k \in Int
        BY <1>1, <1>7, <1>8
      <3>3. QED
        BY <1>1, <2>2, <3>1, <3>2
    <2>3. CASE h # m + 1 /\ i = m + 1
      <3>1. h \in 1 .. m /\ j \in 1 .. n /\ k = n + 1
        BY <1>6, <1>7, <1>8, <2>1, <2>3
      <3>2. QED
        BY <1>1, <2>3, <3>1
    <2>4. CASE h # m + 1 /\ i # m + 1
      <3>1. h \in 1 .. m /\ i \in 1 .. m /\ j \in A /\ k \in A
        BY <1>6, <1>7, <2>1, <2>4
      <3>2. QED
        BY <1>2, <1>4, <1>12, <3>1
    <2>5. QED
      BY <2>2, <2>3, <2>4
  <1>13. /\ \A i \in DOMAIN q : \E j \in B : MadeOf(q[i], W[j])
         /\ \A j \in B : \E i \in DOMAIN q : MadeOf(q[i], W[j])
         /\ \A h, i \in DOMAIN q : \A j, k \in B :
              MadeOf(q[h], W[j]) /\ MadeOf(q[i], W[k]) => (h < i <=> j < k)
    BY <1>3, <1>10, <1>11, <1>12
  <1>14. QED
    BY <1>13 DEF ImportedTo, B, W, q

-----------------------------------------------------------------------------
(* The invariant after a step.                                             *)

LEMMA OnceNext ==
    ASSUME Unmarked(logs'), \A x \in Writers : WritesNoMark(txn'[x]),
           \A x \in Starters : Imports(x, txn'[x]),
           LegacyRows # <<>> =>
              /\ \A x \in Starters : HasRows(txn'[x]) => NothingStored'
              /\ NothingStored' \/ \A s \in Scopes : LegacyFirst(chain'[s], s)
    PROVE  ImportedOnce'
  <1>1. Unmarked(logs)'
    BY DEF Unmarked
  <1>2. \A x \in Writers : WritesNoMark(txn[x])'
    BY DEF WritesNoMark, Unmarked, UnmarkedRows
  <1>3. ASSUME NEW x \in Starters
        PROVE  Imports(x, txn[x])' /\ (LegacyRows # <<>> => (HasRows(txn[x]) => NothingStored)')
    <2>1. Imports(x, txn[x])'
      BY <1>3 DEF Imports, ImportedTo, MadeOf, Id, LegacyWork, LegacyScopes, LegacyEvents,
                  Cutover, SetToSeq, IsInjective, Idle
    <2>2. LegacyRows # <<>> => (HasRows(txn[x]) => NothingStored)'
      BY <1>3 DEF HasRows
    <2>3. QED
      BY <2>1, <2>2
  <1>4. ASSUME LegacyRows # <<>>, NEW s \in Scopes
        PROVE  (~NothingStored => LegacyFirst(chain[s], s))'
    BY <1>4 DEF LegacyFirst, OldRows, MadeOf, Id
  <1>5. QED
    BY <1>1, <1>2, <1>3, <1>4 DEF ImportedOnce

LEMMA OnceParts ==
    ASSUME ImportedOnce
    PROVE  /\ Unmarked(logs) /\ \A x \in Writers : WritesNoMark(txn[x])
           /\ \A x \in Starters : Imports(x, txn[x])
           /\ LegacyRows # <<>> =>
                 /\ \A x \in Starters : HasRows(txn[x]) => NothingStored
                 /\ NothingStored \/ \A s \in Scopes : LegacyFirst(chain[s], s)
  BY DEF ImportedOnce

\* A step of x that commits nothing.
LEMMA OwnStepOnce ==
    ASSUME ChainsSound, ImportedOnce, NEW x \in Sessions, NEW t, txn' = [txn EXCEPT ![x] = t],
           chain' = chain, Unmarked(logs'),
           x \in Writers => WritesNoMark(t),
           x \in Starters =>
               Imports(x, t) /\ (LegacyRows # <<>> => (HasRows(t) => NothingStored))
    PROVE  ImportedOnce'
  <1>1. txn'[x] = t /\ \A y \in Sessions : y # x => txn'[y] = txn[y]
    BY SetTransaction DEF ChainsSound, TypeOK
  <1>2. NothingStored' <=> NothingStored
    BY DEF NothingStored
  <1>3. \A y \in Writers : WritesNoMark(txn'[y])
    BY <1>1, ConstantFacts, OnceParts
  <1>4. ASSUME NEW y \in Starters
        PROVE  /\ Imports(y, txn'[y])
               /\ LegacyRows # <<>> => (HasRows(txn'[y]) => NothingStored')
    <2>1. CASE y = x
      BY <1>1, <1>2, <2>1
    <2>2. CASE y # x
      <3>1. Imports(y, txn[y]) /\ (LegacyRows # <<>> => (HasRows(txn[y]) => NothingStored))
        BY OnceParts
      <3>2. txn'[y] = txn[y]
        BY <1>1, <2>2, ConstantFacts
      <3>3. QED
        BY <1>2, <3>1, <3>2
    <2>3. QED
      BY <2>1, <2>2
  <1>5. ASSUME LegacyRows # <<>> PROVE NothingStored' \/ \A s \in Scopes : LegacyFirst(chain'[s], s)
    BY <1>2, <1>5, OnceParts
  <1>6. QED
    BY <1>3, <1>4, <1>5, OnceNext

LEMMA IdleOnce ==
    ASSUME NEW x
    PROVE  WritesNoMark(Idle) /\ Imports(x, Idle) /\ ~HasRows(Idle)
  <1>1. /\ Idle.step = "idle" /\ Idle.work = <<>> /\ Idle.snapshot = None
        /\ \A s \in Scopes : Idle.rows[s] = <<>>
    BY IdleIs, NoRowsOk
  <1>2. Unmarked(<<>>) /\ UnmarkedRows(<<>>)
    BY EmptyListed DEF Unmarked, UnmarkedRows
  <1>3. WritesNoMark(Idle)
    BY <1>1, <1>2 DEF WritesNoMark
  <1>4. Imports(x, Idle)
    BY <1>1 DEF Imports
  <1>5. ~HasRows(Idle)
    BY <1>1 DEF HasRows
  <1>6. QED
    BY <1>3, <1>4, <1>5

\* A transaction whose work, rows and snapshot stay as they are.
LEMMA SameOnce ==
    ASSUME ChainsSound, ImportedOnce, NEW x \in Sessions, NEW t, txn' = [txn EXCEPT ![x] = t],
           UNCHANGED <<chain, logs>>, t.work = txn[x].work, t.rows = txn[x].rows,
           t.snapshot = txn[x].snapshot, t.step # "idle", txn[x].step # "idle"
    PROVE  ImportedOnce'
  <1>1. Unmarked(logs')
    BY OnceParts
  <1>2. x \in Writers => WritesNoMark(t)
    BY OnceParts DEF WritesNoMark
  <1>3. ASSUME x \in Starters
        PROVE  Imports(x, t) /\ (LegacyRows # <<>> => (HasRows(t) => NothingStored))
    <2>1. Imports(x, txn[x]) /\ (LegacyRows # <<>> => (HasRows(txn[x]) => NothingStored))
      BY <1>3, OnceParts
    <2>2. Imports(x, t)
      BY <2>1 DEF Imports
    <2>3. HasRows(t) => HasRows(txn[x])
      BY DEF HasRows
    <2>4. QED
      BY <2>1, <2>2, <2>3
  <1>4. QED
    BY <1>1, <1>2, <1>3, OwnStepOnce

LEMMA GiveUpOnce ==
    ASSUME ChainsSound, ImportedOnce, NEW x \in Sessions, insert_refused(x) \/ rollback(x)
    PROVE  ImportedOnce'
  <1>1. txn' = [txn EXCEPT ![x] = Idle] /\ UNCHANGED <<chain, started, logs>>
    BY GiveUpSound
  <1>2. Unmarked(logs')
    BY <1>1, OnceParts
  <1>3. QED
    BY <1>1, <1>2, IdleOnce, OwnStepOnce

LEMMA LockOnce ==
    ASSUME ChainsSound, ImportedOnce, NEW x \in Sessions, lock(x)
    PROVE  ImportedOnce'
  <1> DEFINE t0 == txn[x]
             t == Transaction("locked", t0.work, t0.head, t0.rows, t0.snapshot)
  <1>1. txn' = [txn EXCEPT ![x] = t]
    BY LockSound
  <1>2. UNCHANGED <<chain, logs>> /\ t0.step = "next"
    BY DEF lock
  <1>3. t.step = "locked" /\ t.work = t0.work /\ t.rows = t0.rows /\ t.snapshot = t0.snapshot
    BY TransactionFields
  <1> HIDE DEF t
  <1>4. QED
    BY <1>1, <1>2, <1>3, SameOnce

LEMMA ReadHeadOnce ==
    ASSUME ChainsSound, ImportedOnce, NEW x \in Sessions, read_head(x)
    PROVE  ImportedOnce'
  <1> DEFINE t0 == txn[x]
             head == HeadOf(Seen(x, t0.work[1].scope))
             t == Transaction("insert", t0.work, head, t0.rows, t0.snapshot)
  <1>1. txn' = [txn EXCEPT ![x] = t]
    BY ReadHeadSound
  <1>2. UNCHANGED <<chain, logs>> /\ t0.step = "locked"
    BY DEF read_head
  <1>3. t.step = "insert" /\ t.work = t0.work /\ t.rows = t0.rows /\ t.snapshot = t0.snapshot
    BY TransactionFields
  <1> HIDE DEF t
  <1>4. QED
    BY <1>1, <1>2, <1>3, SameOnce

LEMMA UnmarkedTail ==
    ASSUME NEW q \in Seq(AuditEvent), q # <<>>, Unmarked(q)
    PROVE  Unmarked(Tail(q)) /\ q[1].source # "cutover"
  <1>1. /\ 1 \in DOMAIN q
        /\ \A i \in DOMAIN Tail(q) : i + 1 \in DOMAIN q /\ Tail(q)[i] = q[i + 1]
    BY TailOfWork
  <1>2. QED
    BY <1>1 DEF Unmarked

LEMMA SkipOnce ==
    ASSUME ChainsSound, ImportedOnce, NEW x \in Sessions, skip(x)
    PROVE  ImportedOnce'
  <1> DEFINE t0 == txn[x]
             t == Transaction("next", Tail(t0.work), t0.head, t0.rows, t0.snapshot)
  <1>1. txn' = [txn EXCEPT ![x] = t]
    BY SkipSound
  <1>2. /\ UNCHANGED <<chain, logs>> /\ t0.step = "next" /\ t0.work # <<>>
        /\ t0.snapshot # None
    BY DEF skip, AlreadyThere
  <1>3. /\ t.step = "next" /\ t.work = Tail(t0.work) /\ t.rows = t0.rows
        /\ t.snapshot = t0.snapshot
    BY TransactionFields
  <1> HIDE DEF t
  <1>4. Unmarked(logs')
    BY <1>2, OnceParts
  <1>5. ASSUME x \in Writers PROVE WritesNoMark(t)
    <2>1. WritesNoMark(t0) /\ t0.work \in Seq(AuditEvent)
      BY <1>5, OnceParts, Parts DEF IsTransaction
    <2>2. Unmarked(Tail(t0.work))
      BY <1>2, <2>1, UnmarkedTail DEF WritesNoMark
    <2>3. QED
      BY <1>3, <2>1, <2>2 DEF WritesNoMark
  <1>6. x \notin Starters
    BY <1>2, OnceParts DEF Imports
  <1>7. QED
    BY <1>1, <1>2, <1>4, <1>5, <1>6, OwnStepOnce

LEMMA UnmarkedAppend ==
    ASSUME NEW rows, Listed(rows), UnmarkedRows(rows), NEW r, r.event.source # "cutover"
    PROVE  UnmarkedRows(Append(rows, r))
  <1> DEFINE q == Append(rows, r)
             m == Len(rows)
  <1>1. m \in Nat /\ DOMAIN rows = 1 .. m
    BY ListedLength
  <1>2. /\ Listed(q) /\ Len(q) = m + 1 /\ q[m + 1] = r
        /\ \A i \in 1 .. m : q[i] = rows[i]
    BY AppendListed
  <1>3. DOMAIN q = 1 .. m + 1
    BY <1>2, ListedLength
  <1> HIDE DEF q, m
  <1>4. 1 .. m + 1 = 1 .. m \cup {m + 1}
    BY <1>1
  <1>5. UnmarkedRows(q)
    BY <1>1, <1>2, <1>3, <1>4 DEF UnmarkedRows
  <1>6. QED
    BY <1>5 DEF q

\* The import of x after n of its events.
ImportedUpTo(x, n, t) ==
    /\ Len(t.work) = Len(LegacyWork(x)) - n
    /\ \A i \in 1 .. Len(t.work) : t.work[i] = LegacyWork(x)[n + i]
    /\ \A s \in Scopes : ImportedTo(x, n, t.rows[s], s)

LEMMA ImportsIs ==
    ASSUME NEW x \in Starters, NEW t, t.step # "idle"
    PROVE  Imports(x, t) <=>
              /\ t.snapshot = None
              /\ \E n \in 0 .. Len(LegacyWork(x)) : ImportedUpTo(x, n, t)
  BY DEF Imports, ImportedUpTo

LEMMA LegacyWorkLength ==
    ASSUME NEW x \in Starters
    PROVE  /\ Len(LegacyWork(x)) \in Nat
           /\ LegacyRows # <<>> =>
                 /\ Len(LegacyWork(x)) >= 1 /\ LegacyWork(x)[1] = LegacyRows[1]
                 /\ LegacyRows[1].scope \in Scopes /\ 1 \in OldRows(LegacyRows[1].scope)
  <1> DEFINE W == LegacyWork(x)
  <1>1. WorkIs(x, W)
    BY LegacyWorkIs
  <1> HIDE DEF W
  <1>2. LegacyRows # <<>> => Len(LegacyRows) >= 1
    BY ChainConstants
  <1>3. /\ Len(W) \in Nat
        /\ LegacyRows # <<>> =>
              /\ Len(W) >= 1 /\ W[1] = LegacyRows[1]
              /\ LegacyRows[1].scope \in Scopes /\ 1 \in DOMAIN LegacyRows
    BY <1>1, <1>2 DEF WorkIs
  <1>4. QED
    BY <1>3 DEF W, OldRows

\* An import has rows exactly when it has appended something.
LEMMA HasRowsIs ==
    ASSUME NEW x \in Starters, LegacyRows # <<>>, NEW n \in 0 .. Len(LegacyWork(x)), NEW t,
           \A s \in Scopes : Listed(t.rows[s]), ImportedUpTo(x, n, t)
    PROVE  /\ n > 0 => HasRows(t) /\ t.rows[LegacyRows[1].scope] # <<>>
           /\ HasRows(t) => n > 0
  <1> DEFINE scope == LegacyRows[1].scope
             W == LegacyWork(x)
  <1>1. Len(W) \in Nat /\ Len(W) >= 1 /\ W[1].scope = scope /\ scope \in Scopes
    BY LegacyWorkLength
  <1>2. \A s \in Scopes :
           LET done == {j \in 1 .. n : W[j].scope = s}
           IN  /\ \A i \in DOMAIN t.rows[s] : \E j \in done : MadeOf(t.rows[s][i], W[j])
               /\ \A j \in done : \E i \in DOMAIN t.rows[s] : MadeOf(t.rows[s][i], W[j])
    BY DEF ImportedUpTo, ImportedTo
  <1> HIDE DEF W, scope
  <1>3. ASSUME n > 0 PROVE t.rows[scope] # <<>>
    <2>1. 1 \in {j \in 1 .. n : W[j].scope = scope}
      BY <1>1, <1>3
    <2>2. \E i \in DOMAIN t.rows[scope] : TRUE
      BY <1>1, <1>2, <2>1
    <2>3. QED
      BY <2>2, EmptyListed
  <1>4. ASSUME HasRows(t), ~(n > 0) PROVE FALSE
    <2>1. PICK s \in Scopes : t.rows[s] # <<>>
      BY <1>4 DEF HasRows
    <2>2. 1 .. n = {}
      BY <1>4
    <2>3. DOMAIN t.rows[s] = {}
      BY <1>2, <2>2
    <2>4. Len(t.rows[s]) = 0
      <3>1. Len(t.rows[s]) \in Nat /\ DOMAIN t.rows[s] = 1 .. Len(t.rows[s])
        BY ListedLength
      <3>2. ASSUME Len(t.rows[s]) # 0 PROVE 1 \in DOMAIN t.rows[s]
        BY <3>1, <3>2
      <3>3. QED
        BY <2>3, <3>2
    <2>5. t.rows[s] = <<>>
      <3> DEFINE q == t.rows[s]
      <3>1. Listed(q) /\ Len(q) = 0
        BY <2>4
      <3> HIDE DEF q
      <3>2. q = <<>>
        BY <3>1, EmptyListed, ListedEqual
      <3>3. QED
        BY <3>2 DEF q
    <2>6. QED
      BY <2>1, <2>5
  <1>5. QED
    BY <1>1, <1>3, <1>4 DEF HasRows, scope

LEMMA InsertOnce ==
    ASSUME ChainsSound, ImportedOnce, NEW x \in Sessions, insert(x)
    PROVE  ImportedOnce'
  <1> DEFINE t0 == txn[x]
             e == t0.work[1]
             scope == e.scope
             r == RowAfter(t0.head, e)
             t == Transaction("next", Tail(t0.work), None, RowsAfter(t0), t0.snapshot)
  <1>1. txn' = [txn EXCEPT ![x] = t]
    BY InsertSound
  <1>2. UNCHANGED <<chain, logs>> /\ t0.step = "insert" /\ Id(e) \notin SeenIds(x)
    BY DEF insert, Insertable
  <1>3. /\ t.step = "next" /\ t.work = Tail(t0.work) /\ t.rows = RowsAfter(t0)
        /\ t.snapshot = t0.snapshot
    BY TransactionFields
  <1> HIDE DEF t
  <1>4. IsTransaction(t0) /\ Exclusive(x) /\ t0.work \in Seq(AuditEvent)
    BY Parts DEF IsTransaction
  <1>5. t0.work # <<>>
    BY <1>2, <1>4 DEF Exclusive, Extending
  <1>6. /\ e \in AuditEvent /\ scope \in Scopes /\ MadeOf(r, e)
        /\ r.event.source = e.source /\ Id(r.event) = Id(e)
    <2>1. e \in AuditEvent /\ scope \in Scopes
      BY <1>4, <1>5, WorkHead
    <2>2. Id(r.event) = Id(e)
      BY <2>1, RowFields, StoredEvent
    <2>3. QED
      BY <2>1, <2>2 DEF MadeOf, Id
  <1>7. /\ \A s \in Scopes : s # scope => t.rows[s] = t0.rows[s]
        /\ t.rows[scope] = Append(t0.rows[scope], r)
        /\ \A s \in Scopes : Listed(t0.rows[s]) /\ Listed(t.rows[s])
    BY <1>3, <1>4, <1>5, RowsAfterFields, SeenRows, ZenonT(60) DEF RowList
  <1>8. Unmarked(logs')
    BY <1>2, OnceParts
  <1>9. \A s \in Scopes : Id(e) \notin Ids(t0.rows[s]) /\ Id(e) \notin Ids(chain[s])
    BY <1>2, SeenRows DEF SeenIds
  <1>10. ASSUME x \in Writers PROVE WritesNoMark(t)
    <2>1. WritesNoMark(t0)
      BY <1>10, OnceParts
    <2>2. Unmarked(Tail(t0.work)) /\ e.source # "cutover"
      BY <1>4, <1>5, <2>1, UnmarkedTail DEF WritesNoMark
    <2>3. UnmarkedRows(t.rows[scope])
      <3> DEFINE q == t0.rows[scope]
      <3>1. Listed(q) /\ UnmarkedRows(q) /\ r.event.source # "cutover"
        BY <1>6, <1>7, <2>1, <2>2 DEF WritesNoMark
      <3> HIDE DEF q, r
      <3>2. UnmarkedRows(Append(q, r))
        BY <3>1, UnmarkedAppend
      <3>3. QED
        BY <1>7, <3>2 DEF q
    <2>4. QED
      BY <1>3, <1>7, <2>1, <2>2, <2>3 DEF WritesNoMark
  <1>11. ASSUME x \in Starters
         PROVE  Imports(x, t) /\ (LegacyRows # <<>> => (HasRows(t) => NothingStored))
    <2> DEFINE W == LegacyWork(x)
    <2>1. Imports(x, t0) /\ (LegacyRows # <<>> => (HasRows(t0) => NothingStored))
      BY <1>11, OnceParts
    <2>2. PICK n \in 0 .. Len(W) : ImportedUpTo(x, n, t0)
      BY <1>2, <1>11, <2>1, ImportsIs
    <2>3. /\ Len(t0.work) = Len(W) - n
          /\ \A i \in 1 .. Len(t0.work) : t0.work[i] = W[n + i]
          /\ \A s \in Scopes : ImportedTo(x, n, t0.rows[s], s)
      BY <2>2 DEF ImportedUpTo
    <2>4. /\ Len(t0.work) \in Nat /\ Len(t0.work) >= 1
          /\ Len(t.work) = Len(t0.work) - 1
          /\ DOMAIN t0.work = 1 .. Len(t0.work) /\ DOMAIN t.work = 1 .. Len(t.work)
          /\ \A i \in DOMAIN t.work : i + 1 \in DOMAIN t0.work /\ t.work[i] = t0.work[i + 1]
      <3>1. /\ Len(t0.work) \in Nat /\ 1 \in DOMAIN t0.work
            /\ Tail(t0.work) \in Seq(AuditEvent) /\ Len(Tail(t0.work)) = Len(t0.work) - 1
            /\ \A i \in DOMAIN Tail(t0.work) :
                  i + 1 \in DOMAIN t0.work /\ Tail(t0.work)[i] = t0.work[i + 1]
        BY <1>4, <1>5, TailOfWork
      <3>2. DOMAIN t0.work = 1 .. Len(t0.work)
        BY <1>4
      <3>3. DOMAIN t.work = 1 .. Len(t.work)
        BY <1>3, <3>1
      <3>4. QED
        BY <1>3, <3>1, <3>2, <3>3
    <2>5. /\ Len(W) \in Nat
          /\ LegacyRows # <<>> =>
                /\ Len(W) >= 1 /\ W[1] = LegacyRows[1]
                /\ LegacyRows[1].scope \in Scopes /\ 1 \in OldRows(LegacyRows[1].scope)
      BY <1>11, LegacyWorkLength
    <2>6. e = W[n + 1] /\ n \in Nat /\ n + 1 \in 0 .. Len(W)
      <3>1. n \in Nat /\ n + 1 \in 0 .. Len(W) /\ 1 \in 1 .. Len(t0.work)
        BY <2>3, <2>4, <2>5
      <3>2. \A i \in 1 .. Len(t0.work) : t0.work[i] = W[n + i]
        BY <2>3
      <3> HIDE DEF W
      <3>3. t0.work[1] = W[n + 1]
        BY <3>1, <3>2
      <3>4. QED
        BY <3>1, <3>3
    <2>7. Len(t.work) = Len(W) - (n + 1)
      BY <2>3, <2>4, <2>5, <2>6
    <2>8. ASSUME NEW i \in 1 .. Len(t.work) PROVE t.work[i] = W[(n + 1) + i]
      <3>1. i + 1 \in 1 .. Len(t0.work) /\ t.work[i] = t0.work[i + 1]
        BY <2>4
      <3>2. n + (i + 1) = (n + 1) + i
        BY <2>4, <2>6
      <3>3. QED
        BY <2>3, <3>1, <3>2
    <2>9. ASSUME NEW s \in Scopes PROVE ImportedTo(x, n + 1, t.rows[s], s)
      <3>1. CASE s # scope
        BY <1>7, <2>3, <2>6, <3>1, ImportedElsewhere
      <3>2. CASE s = scope
        <4> DEFINE q == t0.rows[s]
        <4>1. /\ Listed(q) /\ ImportedTo(x, n, q, s) /\ Id(r.event) \notin Ids(q)
              /\ MadeOf(r, W[n + 1]) /\ W[n + 1].scope = s
          BY <1>6, <1>7, <1>9, <2>3, <2>6, <3>2
        <4> HIDE DEF q, r, e
        <4>2. ImportedTo(x, n + 1, Append(q, r), s)
          BY <2>6, <4>1, ImportedFurther
        <4>3. QED
          BY <1>7, <3>2, <4>2 DEF q
      <3>3. QED
        BY <3>1, <3>2
    <2>10. ImportedUpTo(x, n + 1, t)
      BY <2>7, <2>8, <2>9 DEF ImportedUpTo
    <2>11. Imports(x, t)
      <3>1. t.snapshot = None /\ t.step # "idle"
        BY <1>3, <2>1 DEF Imports
      <3>2. QED
        BY <1>11, <2>6, <2>10, <3>1, ImportsIs
    <2>12. ASSUME LegacyRows # <<>> PROVE NothingStored
      <3>1. CASE n > 0
        BY <1>7, <1>11, <2>1, <2>2, <2>12, <3>1, HasRowsIs
      <3>2. CASE n = 0
        <4> DEFINE s1 == LegacyRows[1].scope
        <4>1. e = LegacyRows[1]
          BY <2>5, <2>6, <2>12, <3>2
        <4>2. ASSUME ~NothingStored PROVE FALSE
          <5>1. LegacyFirst(chain[s1], s1)
            BY <2>5, <2>12, <4>2, OnceParts
          <5>2. \E i \in DOMAIN chain[s1] : MadeOf(chain[s1][i], LegacyRows[1])
            BY <2>5, <2>12, <5>1 DEF LegacyFirst
          <5>3. Id(e) \in Ids(chain[s1])
            BY <4>1, <5>2 DEF MadeOf, Ids
          <5>4. QED
            BY <1>9, <2>5, <2>12, <5>3
        <4>3. QED
          BY <4>2
      <3>3. QED
        BY <2>6, <3>1, <3>2
    <2>13. QED
      BY <2>11, <2>12
  <1>12. QED
    BY <1>1, <1>2, <1>8, <1>10, <1>11, OwnStepOnce

LEMMA ImportOnce ==
    ASSUME ChainsSound, ImportedOnce, NEW x \in Starters, initialize_legacy(x)
    PROVE  ImportedOnce'
  <1> DEFINE W == LegacyWork(x)
             t == Transaction("next", W, None, NoRows, None)
  <1>1. txn' = [txn EXCEPT ![x] = t]
    BY ImportSound
  <1>2. UNCHANGED <<chain, logs>>
    BY DEF initialize_legacy
  <1>3. t.step = "next" /\ t.work = W /\ t.rows = NoRows /\ t.snapshot = None
    BY TransactionFields
  <1> HIDE DEF t
  <1>4. Unmarked(logs')
    BY <1>2, OnceParts
  <1>5. ImportedUpTo(x, 0, t)
    <2>1. \A s \in Scopes : ImportedTo(x, 0, t.rows[s], s)
      BY <1>3, NoRowsOk, NothingImported
    <2>2. Len(W) \in Nat /\ \A i \in 1 .. Len(W) : W[i] = W[0 + i]
      BY LegacyWorkLength
    <2>3. QED
      BY <1>3, <2>1, <2>2 DEF ImportedUpTo
  <1>6. Imports(x, t)
    <2>1. 0 \in 0 .. Len(W)
      BY LegacyWorkLength
    <2>2. QED
      BY <1>3, <1>5, <2>1, ImportsIs
  <1>7. ~HasRows(t)
    BY <1>3, NoRowsOk DEF HasRows
  <1>8. x \in Sessions /\ x \notin Writers
    BY ConstantFacts
  <1>9. QED
    BY <1>1, <1>2, <1>4, <1>6, <1>7, <1>8, OwnStepOnce

LEMMA UnmarkedNoRows == \A s \in Scopes : UnmarkedRows(NoRows[s])
  BY NoRowsOk, EmptyListed DEF UnmarkedRows

LEMMA SecurityEventOnce ==
    ASSUME ChainsSound, ImportedOnce, NEW x \in Writers, NEW e \in SecurityEvents,
           append_security_event(x, e)
    PROVE  ImportedOnce'
  <1> DEFINE t == Transaction("next", <<e>>, None, NoRows, None)
  <1>1. txn' = [txn EXCEPT ![x] = t]
    BY SecurityEventSound
  <1>2. UNCHANGED <<chain, logs>>
    BY DEF append_security_event
  <1>3. t.step = "next" /\ t.work = <<e>> /\ t.rows = NoRows /\ t.snapshot = None
    BY TransactionFields
  <1> HIDE DEF t
  <1>4. Unmarked(logs')
    BY <1>2, OnceParts
  <1>5. Unmarked(t.work)
    <2>1. e.source = "security"
      BY ChainConstants
    <2>2. \A i \in DOMAIN t.work : t.work[i] = e
      BY <1>3
    <2>3. QED
      BY <2>1, <2>2 DEF Unmarked
  <1>6. WritesNoMark(t)
    BY <1>3, <1>5, UnmarkedNoRows DEF WritesNoMark
  <1>7. x \in Sessions /\ x \notin Starters
    BY ConstantFacts
  <1>8. QED
    BY <1>1, <1>2, <1>4, <1>6, <1>7, OwnStepOnce

LEMMA SaveOnce ==
    ASSUME ChainsSound, ImportedOnce, NEW x \in Writers, NEW e \in DomainEvents,
           save_ledger(x, e)
    PROVE  ImportedOnce'
  <1> DEFINE q == Append(logs, e)
             t == Transaction("next", q, None, NoRows, q)
  <1>1. txn' = [txn EXCEPT ![x] = t]
    BY SaveSound
  <1>2. UNCHANGED <<chain, logs>>
    BY DEF save_ledger
  <1>3. Unmarked(logs) /\ Unmarked(logs')
    BY <1>2, OnceParts
  <1>4. Unmarked(q)
    <2>1. logs \in Seq(AuditEvent) /\ e \in AuditEvent /\ e.source = "domain"
      BY ChainConstants DEF ChainsSound, TypeOK
    <2>2. \A i \in DOMAIN q : (i \in DOMAIN logs /\ q[i] = logs[i]) \/ q[i] = e
      BY <2>1
    <2>3. QED
      BY <1>3, <2>1, <2>2 DEF Unmarked
  <1> HIDE DEF q
  <1>5. t.step = "next" /\ t.work = q /\ t.rows = NoRows /\ t.snapshot = q
    BY TransactionFields
  <1> HIDE DEF t
  <1>6. WritesNoMark(t)
    BY <1>4, <1>5, UnmarkedNoRows DEF WritesNoMark
  <1>7. x \in Sessions /\ x \notin Starters
    BY ConstantFacts
  <1>8. QED
    BY <1>1, <1>2, <1>3, <1>6, <1>7, OwnStepOnce

LEMMA StartOnce ==
    ASSUME ChainsSound, ImportedOnce, NEW x \in Starters, start(x)
    PROVE  ImportedOnce'
  <1>1. UNCHANGED <<chain, txn>> /\ (logs' = logs \/ logs' \in load_ledger)
    BY DEF start
  <1>2. Unmarked(logs')
    <2>1. CASE logs' = logs
      BY <2>1, OnceParts
    <2>2. CASE logs' \in load_ledger
      <3>1. \A i \in DOMAIN logs' : logs'[i] \in LedgerEvents
        BY <2>2, LoadedLogs
      <3>2. \A e \in LedgerEvents : e.source # "cutover"
        BY DEF LedgerEvents
      <3>3. QED
        BY <3>1, <3>2 DEF Unmarked
    <2>3. QED
      BY <1>1, <2>1, <2>2
  <1>3. NothingStored' <=> NothingStored
    BY <1>1 DEF NothingStored
  <1>4. QED
    BY <1>1, <1>2, <1>3, OnceParts, OnceNext

LEMMA CrashOnce ==
    ASSUME ChainsSound, ImportedOnce, crash
    PROVE  ImportedOnce'
  <1>1. /\ \A y \in Sessions : txn'[y] = IF y \in Writers THEN Idle ELSE txn[y]
        /\ logs' = <<>> /\ UNCHANGED chain
    BY DEF crash
  <1>2. Unmarked(logs')
    BY <1>1, EmptyListed DEF Unmarked
  <1>3. NothingStored' <=> NothingStored
    BY <1>1 DEF NothingStored
  <1>4. \A y \in Writers : WritesNoMark(txn'[y])
    BY <1>1, ConstantFacts, IdleOnce
  <1>5. \A y \in Starters : txn'[y] = txn[y]
    BY <1>1, ConstantFacts
  <1>6. QED
    BY <1>1, <1>2, <1>3, <1>4, <1>5, OnceParts, OnceNext

\* The only import that commits finds nothing stored and no other with rows.
LEMMA ImportCommits ==
    ASSUME ChainsSound, ImportedOnce, LegacyRows # <<>>, NEW x \in Starters, commit(x)
    PROVE  /\ \A s \in Scopes : LegacyFirst(chain'[s], s)
           /\ \A y \in Starters : y # x => ~HasRows(txn[y])
  <1> DEFINE t0 == txn[x]
             W == LegacyWork(x)
             s1 == LegacyRows[1].scope
  <1>1. /\ t0.step = "next" /\ t0.work = <<>>
        /\ \A s \in Scopes : chain'[s] = Seen(x, s)
    BY DEF commit
  <1>2. Imports(x, t0) /\ (HasRows(t0) => NothingStored) /\ x \in Sessions
    BY OnceParts, ConstantFacts
  <1>3. PICK n \in 0 .. Len(W) : ImportedUpTo(x, n, t0)
    BY <1>1, <1>2, ImportsIs
  <1>4. Len(W) \in Nat /\ Len(W) >= 1 /\ s1 \in Scopes
    BY LegacyWorkLength
  <1>5. n = Len(W)
    <2>1. Len(t0.work) = Len(W) - n /\ Len(t0.work) = 0
      BY <1>1, <1>3, EmptyListed DEF ImportedUpTo
    <2>2. QED
      BY <1>4, <2>1
  <1>6. \A y \in Sessions, s \in Scopes : Listed(txn[y].rows[s])
    BY SeenRows
  <1>7. HasRows(t0) /\ t0.rows[s1] # <<>>
    BY <1>2, <1>3, <1>4, <1>5, <1>6, HasRowsIs
  <1>8. ASSUME NEW s \in Scopes PROVE LegacyFirst(chain'[s], s)
    <2> DEFINE q == t0.rows[s]
    <2>1. chain[s] = <<>>
      BY <1>2, <1>7 DEF NothingStored
    <2>2. chain'[s] = <<>> \o q
      BY <1>1, <2>1 DEF Seen
    <2>3. Listed(q) /\ ImportedTo(x, Len(LegacyWork(x)), q, s)
      BY <1>2, <1>3, <1>5, <1>6 DEF ImportedUpTo
    <2> HIDE DEF q
    <2>4. <<>> \o q = q
      <3> DEFINE w == <<>> \o q
      <3>1. /\ Listed(w) /\ Len(w) = 0 + Len(q)
            /\ \A i \in 1 .. Len(q) : w[0 + i] = q[i]
        BY <2>3, EmptyListed, ConcatListed
      <3> HIDE DEF w
      <3>2. Len(q) \in Nat
        BY <2>3, ListedLength
      <3>3. Len(w) = Len(q) /\ \A i \in 1 .. Len(w) : w[i] = q[i]
        BY <3>1, <3>2
      <3>4. w = q
        BY <2>3, <3>1, <3>3, ListedEqual
      <3>5. QED
        BY <3>4 DEF w
    <2>5. LegacyFirst(q, s)
      BY <2>3, ImportedAll
    <2>6. QED
      BY <2>2, <2>4, <2>5
  <1>9. ASSUME NEW y \in Starters, y # x, HasRows(txn[y]) PROVE FALSE
    <2>1. y \in Sessions /\ Imports(y, txn[y])
      BY OnceParts, ConstantFacts
    <2>2. txn[y].step # "idle"
      BY <1>9, <2>1, IdleOnce DEF Imports
    <2>3. PICK k \in 0 .. Len(LegacyWork(y)) : ImportedUpTo(y, k, txn[y])
      BY <2>1, <2>2, ImportsIs
    <2>4. txn[y].rows[s1] # <<>>
      <3> DEFINE ty == txn[y]
      <3>1. (\A s \in Scopes : Listed(ty.rows[s])) /\ ImportedUpTo(y, k, ty) /\ HasRows(ty)
        BY <1>6, <1>9, <2>1, <2>3
      <3> HIDE DEF ty
      <3>2. k > 0 /\ (k > 0 => ty.rows[LegacyRows[1].scope] # <<>>)
        BY <3>1, HasRowsIs
      <3>3. QED
        BY <3>2 DEF ty
    <2>5. locks[s1] = y /\ locks[s1] = x
      BY <1>2, <1>4, <1>7, <2>1, <2>4, Parts DEF Exclusive
    <2>6. QED
      BY <1>9, <2>5
  <1>10. QED
    BY <1>8, <1>9

LEMMA CommitOnce ==
    ASSUME ChainsSound, NothingTwice, ImportedOnce, NEW x \in Sessions, commit(x)
    PROVE  ImportedOnce'
  <1> DEFINE t0 == txn[x]
  <1>1. /\ txn' = [txn EXCEPT ![x] = Idle] /\ t0.step = "next"
        /\ \A s \in Scopes : chain'[s] = Seen(x, s)
        /\ logs' = logs \/ (t0.snapshot # None /\ logs' = t0.snapshot)
    BY DEF commit
  <1>2. txn'[x] = Idle /\ \A y \in Sessions : y # x => txn'[y] = txn[y]
    BY <1>1, SetTransaction DEF ChainsSound, TypeOK
  <1>3. \A y \in Writers : WritesNoMark(txn'[y])
    BY <1>2, ConstantFacts, OnceParts, IdleOnce
  <1>4. \A y \in Starters : Imports(y, txn'[y])
    BY <1>2, ConstantFacts, OnceParts, IdleOnce
  <1>5. CASE x \in Writers
    <2>1. Unmarked(logs')
      BY <1>1, <1>5, OnceParts DEF WritesNoMark
    <2>2. ~NothingStored
      <3>1. t0 # Idle
        BY <1>1, IdleIs
      <3>2. QED
        BY <1>5, <3>1, AppendingIs DEF NothingTwice
    <2>3. ASSUME LegacyRows # <<>>, NEW y \in Starters PROVE ~HasRows(txn'[y])
      BY <1>2, <2>2, <2>3, ConstantFacts, OnceParts, IdleOnce
    <2>4. ASSUME LegacyRows # <<>>, NEW s \in Scopes PROVE LegacyFirst(chain'[s], s)
      <3> DEFINE p == chain[s]
                 q == t0.rows[s]
      <3>1. Listed(p) /\ Listed(q) /\ LegacyFirst(p, s) /\ UnmarkedRows(q) /\ Sound(p \o q)
        <4>1. Sound(Seen(x, s)) /\ Seen(x, s) = p \o q
          BY Parts DEF Seen
        <4>2. UnmarkedRows(q)
          BY <1>5, OnceParts DEF WritesNoMark
        <4>3. LegacyFirst(p, s)
          BY <2>2, <2>4, OnceParts
        <4>4. QED
          BY <4>1, <4>2, <4>3, SeenRows
      <3>2. chain'[s] = p \o q
        BY <1>1 DEF Seen
      <3> HIDE DEF p, q
      <3>3. LegacyFirst(p \o q, s)
        BY <3>1, LegacyFirstAppended
      <3>4. QED
        BY <3>2, <3>3
    <2>5. QED
      BY <1>3, <1>4, <2>1, <2>3, <2>4, OnceNext
  <1>6. CASE x \in Starters /\ LegacyRows # <<>>
    <2>1. Unmarked(logs')
      BY <1>1, <1>6, OnceParts DEF Imports
    <2>2. \A s \in Scopes : LegacyFirst(chain'[s], s)
      BY <1>6, ImportCommits
    <2>3. \A y \in Starters : ~HasRows(txn'[y])
      BY <1>2, <1>6, ImportCommits, ConstantFacts, IdleOnce
    <2>4. QED
      BY <1>3, <1>4, <2>1, <2>2, <2>3, OnceNext
  <1>7. CASE x \in Starters /\ LegacyRows = <<>>
    <2>1. Unmarked(logs')
      BY <1>1, <1>7, OnceParts DEF Imports
    <2>2. QED
      BY <1>3, <1>4, <1>7, <2>1, OnceNext
  <1>8. QED
    BY <1>5, <1>6, <1>7, ConstantFacts

LEMMA StepOnce ==
    ASSUME ChainsSound, NothingTwice, ImportedOnce, [Next]_vars
    PROVE  ImportedOnce'
  <1>1. ASSUME NEW x \in Starters, initialize_legacy(x) \/ start(x) PROVE ImportedOnce'
    BY <1>1, ImportOnce, StartOnce
  <1>2. ASSUME NEW x \in Writers, NEW e \in SecurityEvents, append_security_event(x, e)
        PROVE  ImportedOnce'
    BY <1>2, SecurityEventOnce
  <1>3. ASSUME NEW x \in Writers, NEW e \in DomainEvents, save_ledger(x, e)
        PROVE  ImportedOnce'
    BY <1>3, SaveOnce
  <1>4. ASSUME NEW x \in Sessions, Step(x) PROVE ImportedOnce'
    <2>1. CASE skip(x)
      BY <2>1, SkipOnce
    <2>2. CASE lock(x)
      BY <2>2, LockOnce
    <2>3. CASE read_head(x)
      BY <2>3, ReadHeadOnce
    <2>4. CASE insert(x)
      BY <2>4, InsertOnce
    <2>5. CASE insert_refused(x) \/ rollback(x)
      BY <2>5, GiveUpOnce
    <2>6. CASE commit(x)
      BY <2>6, CommitOnce
    <2>7. QED
      BY <1>4, <2>1, <2>2, <2>3, <2>4, <2>5, <2>6 DEF Step
  <1>5. ASSUME crash PROVE ImportedOnce'
    BY <1>5, CrashOnce
  <1>6. ASSUME UNCHANGED vars PROVE ImportedOnce'
    <2>1. UNCHANGED <<chain, txn, logs>>
      BY <1>6 DEF vars
    <2>2. NothingStored' <=> NothingStored
      BY <2>1 DEF NothingStored
    <2>3. QED
      BY <2>1, <2>2, OnceParts, OnceNext
  <1>7. QED
    BY <1>1, <1>2, <1>3, <1>4, <1>5, <1>6 DEF Next

LEMMA InitOnce ==
    ASSUME Init
    PROVE  ImportedOnce
  <1>1. /\ \A x \in Sessions : txn[x] = Idle
        /\ logs = <<>> /\ \A s \in Scopes : chain[s] = <<>>
    BY DEF Init
  <1>2. Unmarked(logs) /\ NothingStored
    BY <1>1, EmptyListed DEF Unmarked, NothingStored
  <1>3. /\ \A x \in Writers : WritesNoMark(txn[x])
        /\ \A x \in Starters : Imports(x, txn[x])
    BY <1>1, ConstantFacts, IdleOnce
  <1>4. QED
    BY <1>2, <1>3 DEF ImportedOnce

(***************************************************************************)
(* The old rows are imported in their order, followed by the mark, before  *)
(* anything else (initialize_legacy), by one process only, however many    *)
(* start side by side, fail or are cut off.                                *)
(***************************************************************************)
THEOREM LegacyAlwaysComesFirst == Spec => []LegacyComesFirst
  <1>1. Init => ChainsSound /\ NothingTwice /\ ImportedOnce
    BY InitSound, InitNew, InitOnce
  <1>2. ChainsSound /\ NothingTwice /\ ImportedOnce /\ [Next]_vars
            => (ChainsSound /\ NothingTwice /\ ImportedOnce)'
    BY StepSound, StepNew, StepOnce
  <1>3. ImportedOnce => LegacyComesFirst
    <2> SUFFICES ASSUME ImportedOnce, NEW s \in Scopes, chain[s] # <<>>
                 PROVE  LegacyFirst(chain[s], s)
      BY DEF LegacyComesFirst
    <2>1. CASE LegacyRows # <<>>
      BY <2>1, OnceParts DEF NothingStored
    <2>2. CASE LegacyRows = <<>>
      BY <2>2, EmptyListed DEF LegacyFirst, OldRows
    <2>3. QED
      BY <2>1, <2>2
  <1>4. QED
    BY <1>1, <1>2, <1>3, PTL DEF Spec
=============================================================================
