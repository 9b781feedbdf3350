----------------------------- MODULE HeaderScan -----------------------------
(***************************************************************************)
(* `read_header` of crates/unixd-cache/src/cache.rs: an entry is read in   *)
(* chunks, at most `limit` bytes of it, up to the first `,"value":`, and   *)
(* only the bytes that could hold a new occurrence are searched.  What is  *)
(* before it is the header that prune judges the entry by, with `live`; an *)
(* entry without one is removed.                                           *)
(*                                                                         *)
(* External: `fill_buf` gives any number of bytes up to its buffer's.      *)
(***************************************************************************)
EXTENDS Naturals, Sequences

CONSTANTS
  Bytes,
  Key,        \* VALUE_KEY
  BufSize,
  MaxLen      \* bound on an entry's length

ASSUME KeyAssumption == Key \in Seq(Bytes) /\ Len(Key) > 0
ASSUME BufAssumption == BufSize \in Nat \ {0} /\ MaxLen \in Nat

VARIABLES
  file, limit,
  length,      \* of `prefix`, the bytes of the file read so far
  state,       \* "scanning", "found", "none" or "failed", both None
  header       \* the header's length, when found

vars == <<file, limit, length, state, header>>

Least(a, b) == IF a < b THEN a ELSE b

(* What `take` lets through. *)
Readable == Least(limit, Len(file))

(* The window of the file that starts at i is the key. *)
Window(i) == \A j \in 1..Len(Key) : file[i + j - 1] = Key[j]

(* Where the key's windows can start in n bytes, from the byte after b on. *)
Starts(b, n) == {i \in (b + 1)..n : i + Len(Key) <= n + 1}

Init ==
  /\ file \in UNION {[1..n -> Bytes] : n \in 0..MaxLen}
  /\ limit \in 0..MaxLen
  /\ length = 0
  /\ state = "scanning"
  /\ header = 0

OverlapTwoLess(n) == IF n > Len(Key) - 2 THEN n - (Len(Key) - 2) ELSE 0   \* mutant of Overlap

(* The start of the search: a key may begin Len(Key) - 1 bytes back. *)
Overlap(n) == IF n > Len(Key) - 1 THEN n - (Len(Key) - 1) ELSE 0

(* A chunk of k bytes, and the search. *)
Fill ==
  /\ state = "scanning"
  /\ \E k \in 1..Least(BufSize, Readable - length) :
       LET n == length + k
           hits == {i \in Starts(Overlap(length), n) : Window(i)}
       IN  /\ length' = n
           /\ \/ /\ hits = {}
                 /\ UNCHANGED <<state, header>>
              \/ /\ state' = "found"
                 /\ \E i \in hits :
                      /\ \A h \in hits : i <= h
                      /\ header' = i - 1
  /\ UNCHANGED <<file, limit>>

(* The end of the file, or the limit. *)
End ==
  /\ state = "scanning" /\ length = Readable
  /\ state' = "none"
  /\ UNCHANGED <<file, limit, length, header>>

(* The open or a read fails: None, whatever the file holds. *)
ReadFails ==
  /\ state = "scanning"
  /\ state' = "failed"
  /\ UNCHANGED <<file, limit, length, header>>

Next == Fill \/ End \/ ReadFails

Spec == Init /\ [][Next]_vars
-----------------------------------------------------------------------------
TypeOK ==
  /\ file \in Seq(Bytes) /\ limit \in Nat
  /\ length \in 0..Readable
  /\ state \in {"scanning", "found", "none", "failed"}
  /\ header \in Nat

(* While it scans, no key is in what it has read. *)
NothingMissed == state = "scanning" => \A i \in Starts(0, length) : ~Window(i)

(* However the reads cut the entry, the key included, the header ends at   *)
(* the first key of the readable bytes.  It is missing only when there is  *)
(* no key in them, or a read failed.                                       *)
ScanIsExact ==
  /\ state = "found" =>
       /\ header + 1 \in Starts(0, Readable) /\ Window(header + 1)
       /\ \A i \in Starts(0, Readable) : Window(i) => header + 1 <= i
  /\ state = "none" => \A i \in Starts(0, Readable) : ~Window(i)

IInv == TypeOK /\ NothingMissed /\ ScanIsExact
=============================================================================
