-------------------------- MODULE HeaderScanProofs --------------------------
(***************************************************************************)
(* The chunked search of `read_header` is a search of the whole entry, for *)
(* any key, any entry, any limit and any cut of it into reads.             *)
(***************************************************************************)
EXTENDS HeaderScan, TLAPS

(* What a TypeOK state says of the numbers the search computes with. *)
LEMMA Numbers ==
  ASSUME TypeOK
  PROVE  /\ Len(Key) \in Nat /\ Len(Key) > 0
         /\ Len(file) \in Nat
         /\ Readable \in Nat /\ Readable <= Len(file)
         /\ length \in Nat /\ length <= Readable
  BY KeyAssumption DEF TypeOK, Readable, Least

(* A key that lies within n bytes lies within the first b, or starts where *)
(* the search of the bytes after b starts.                                 *)
LEMMA OverlapCovers ==
  ASSUME NEW b \in Nat, NEW n \in Nat, b <= n, NEW i \in Starts(0, n)
  PROVE  i \in Starts(0, b) \/ i \in Starts(Overlap(b), n)
<1>1. Len(Key) \in Nat /\ Len(Key) > 0
  BY KeyAssumption
<1>2. i \in Nat /\ 1 <= i /\ i <= n /\ i + Len(Key) <= n + 1
  BY DEF Starts
<1>3. CASE i <= Overlap(b)
  BY <1>1, <1>2, <1>3 DEF Overlap, Starts
<1>4. CASE i > Overlap(b)
  BY <1>1, <1>2, <1>4 DEF Overlap, Starts
<1>5. Overlap(b) \in Nat
  BY <1>1 DEF Overlap
<1>6. QED
  BY <1>2, <1>3, <1>4, <1>5

(* The search of a chunk looks at starts within the bytes read. *)
LEMMA OverlapStays ==
  ASSUME NEW b \in Nat, NEW n \in Nat
  PROVE  Starts(Overlap(b), n) \subseteq Starts(0, n)
  BY KeyAssumption DEF Starts, Overlap

(* Before the first read. *)
LEMMA InitInv == Init => IInv
<1> SUFFICES ASSUME Init PROVE IInv
  OBVIOUS
<1>1. file \in Seq(Bytes) /\ limit \in Nat
  <2>1. PICK n \in 0..MaxLen : file \in [1..n -> Bytes]
    BY DEF Init
  <2>2. QED
    BY <2>1, BufAssumption DEF Init
<1>2. Readable \in Nat
  BY <1>1 DEF Readable, Least
<1>3. TypeOK
  BY <1>1, <1>2 DEF Init, TypeOK
<1>4. Starts(0, length) = {}
  BY DEF Init, Starts
<1>5. NothingMissed /\ ScanIsExact
  BY <1>4 DEF Init, NothingMissed, ScanIsExact
<1>6. QED
  BY <1>3, <1>5 DEF IInv

(* A chunk in which the search finds nothing: still nothing was missed. *)
LEMMA FillMore ==
  ASSUME IInv, state = "scanning", NEW k \in Nat, length + k <= Readable,
         \A i \in Starts(Overlap(length), length + k) : ~Window(i)
  PROVE  \A i \in Starts(0, length + k) : ~Window(i)
<1>1. length \in Nat
  BY Numbers DEF IInv
<1>2. TAKE i \in Starts(0, length + k)
<1>3. i \in Starts(0, length) \/ i \in Starts(Overlap(length), length + k)
  BY <1>1, OverlapCovers
<1>4. QED
  BY <1>3 DEF IInv, NothingMissed

(* A chunk in which it finds a key: the first of them is the first of the  *)
(* entry, in what was read before and in what was not read.                *)
LEMMA FillFound ==
  ASSUME IInv, state = "scanning", NEW k \in Nat, length + k <= Readable,
         NEW i \in Starts(Overlap(length), length + k), Window(i),
         \A h \in Starts(Overlap(length), length + k) : Window(h) => i <= h
  PROVE  /\ i \in Starts(0, Readable)
         /\ \A h \in Starts(0, Readable) : Window(h) => i <= h
<1> DEFINE n == length + k
<1>1. /\ length \in Nat /\ n \in Nat /\ Readable \in Nat
      /\ Len(Key) \in Nat /\ n <= Readable
  BY Numbers DEF IInv
<1>2. i \in Starts(0, n)
  BY <1>1, OverlapStays
<1>3. i \in Nat /\ 1 <= i /\ i <= n /\ i + Len(Key) <= n + 1
  BY <1>2 DEF Starts
<1>4. i \in Starts(0, Readable)
  BY <1>1, <1>3 DEF Starts
<1>5. ASSUME NEW h \in Starts(0, Readable), Window(h) PROVE i <= h
  <2>1. h \in Nat /\ 1 <= h /\ h <= Readable
    BY <1>1 DEF Starts
  <2>2. CASE h \in Starts(0, n)
    <3>1. h \notin Starts(0, length)
      BY <1>5 DEF IInv, NothingMissed
    <3>2. h \in Starts(Overlap(length), n)
      BY <1>1, <2>2, <3>1, OverlapCovers
    <3>3. QED
      BY <1>5, <3>2
  <2>3. CASE h \notin Starts(0, n)
    <3>1. ~(h <= n /\ h + Len(Key) <= n + 1)
      BY <1>1, <2>1, <2>3 DEF Starts
    <3>2. QED
      BY <1>1, <1>3, <2>1, <3>1
  <2>4. QED
    BY <2>2, <2>3
<1>6. QED
  BY <1>4, <1>5

(* Every read, and the end, preserve the invariant. *)
LEMMA NextInv == IInv /\ [Next]_vars => IInv'
<1> SUFFICES ASSUME IInv, [Next]_vars PROVE IInv'
  OBVIOUS
<1>0. ASSUME file' = file, limit' = limit
      PROVE  /\ Readable' = Readable
             /\ \A i : Window(i)' <=> Window(i)
             /\ \A b, n : Starts(b, n)' = Starts(b, n)
  BY <1>0 DEF Readable, Window, Starts
<1>1. CASE Fill
  <2>1. PICK k \in 1..Least(BufSize, Readable - length) :
          LET n == length + k
              hits == {i \in Starts(Overlap(length), n) : Window(i)}
          IN  /\ length' = n
              /\ \/ /\ hits = {}
                    /\ UNCHANGED <<state, header>>
                 \/ /\ state' = "found"
                    /\ \E i \in hits :
                         /\ \A h \in hits : i <= h
                         /\ header' = i - 1
    BY <1>1 DEF Fill
  <2>2. state = "scanning" /\ file' = file /\ limit' = limit
    BY <1>1 DEF Fill
  <2>3. k \in Nat /\ length + k \in Nat /\ length + k <= Readable
    BY <2>1, Numbers, BufAssumption DEF IInv, Least
  <2>4. CASE /\ \A i \in Starts(Overlap(length), length + k) : ~Window(i)
             /\ UNCHANGED <<state, header>>
    <3>1. TypeOK'
      BY <1>0, <2>1, <2>2, <2>3, <2>4, Numbers DEF IInv, TypeOK
    <3>2. \A i \in Starts(0, length + k) : ~Window(i)
      BY <2>2, <2>3, <2>4, FillMore
    <3>3. NothingMissed'
      BY <1>0, <2>1, <2>2, <3>2 DEF NothingMissed
    <3>4. ScanIsExact'
      BY <2>2, <2>4 DEF ScanIsExact
    <3>5. QED
      BY <3>1, <3>3, <3>4 DEF IInv
  <2>5. ASSUME NEW i \in Starts(Overlap(length), length + k), Window(i),
               \A h \in Starts(Overlap(length), length + k) :
                 Window(h) => i <= h,
               state' = "found", header' = i - 1
        PROVE  IInv'
    <3>1. /\ i \in Starts(0, Readable)
          /\ \A h \in Starts(0, Readable) : Window(h) => i <= h
      BY <2>2, <2>3, <2>5, FillFound
    <3>2. header' \in Nat /\ header' + 1 = i
      BY <2>5, <3>1, Numbers DEF Starts, IInv
    <3>3. TypeOK'
      BY <1>0, <2>1, <2>2, <2>3, <2>5, <3>2, Numbers DEF IInv, TypeOK
    <3>4. NothingMissed'
      BY <2>5 DEF NothingMissed
    <3>5. ScanIsExact'
      BY <1>0, <2>2, <2>5, <3>1, <3>2 DEF ScanIsExact
    <3>6. QED
      BY <3>3, <3>4, <3>5 DEF IInv
  <2>6. QED
    BY <2>1, <2>4, <2>5
<1>2. CASE End
  BY <1>0, <1>2 DEF End, IInv, TypeOK, NothingMissed, ScanIsExact
<1>3. CASE UNCHANGED vars
  BY <1>0, <1>3 DEF vars, IInv, TypeOK, NothingMissed, ScanIsExact
<1>4. CASE ReadFails
  BY <1>0, <1>4 DEF ReadFails, IInv, TypeOK, NothingMissed, ScanIsExact
<1>5. QED
  BY <1>1, <1>2, <1>3, <1>4 DEF Next
-----------------------------------------------------------------------------
(* While `read_header` reads, no key is in what it has read. *)
THEOREM Inductive == Spec => []IInv
<1>1. Init => IInv
  BY InitInv
<1>2. IInv /\ [Next]_vars => IInv'
  BY NextInv
<1>3. QED
  BY <1>1, <1>2, PTL DEF Spec

(* `read_header` returns the bytes before the first key, or None when      *)
(* there is no key or a read fails, however `fill_buf` cuts the entry.     *)
THEOREM Exact == Spec => []ScanIsExact
<1>1. IInv => ScanIsExact
  BY DEF IInv
<1>2. QED
  BY <1>1, Inductive, PTL
=============================================================================
