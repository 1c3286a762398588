--------------------------- MODULE TrafficLogProofs ---------------------------
(***************************************************************************)
(* Proofs about the traffic log, for any drafts, caps, page size, readers  *)
(* and bounds: its caps hold, no body outlives its entry, a stored body is *)
(* found, and a walk through the pages is complete.                        *)
(***************************************************************************)
EXTENDS TrafficLog, FiniteSetTheorems, WellFoundedInduction, TLAPS

(* Entries are in the order they were added. *)
InOrder(log) == \A i, j \in DOMAIN log : i < j => log[i].id < log[j].id

BodiesOf(log) == UNION {Bodies(e) : e \in ToSet(log)}

Due(op, body, queue) == [op |-> op, body |-> body] \in ToSet(queue)

(* What the chain will leave behind: a body on disk, or about to be written, *)
(* that is not stored any more is yet to be deleted, after it was written.   *)
CleansUp(queue, stored) ==
  /\ \A body \in files :
       body \in stored \/ body \in failed \/ Due("unlink", body, queue)
  /\ \A i \in DOMAIN queue :
       queue[i].op = "write" =>
         \/ queue[i].body \in stored
         \/ \E j \in DOMAIN queue :
              i < j /\ queue[j] = [op |-> "unlink", body |-> queue[i].body]

(* What the chain keeps: it deletes no body that is stored, and each that is *)
(* stored is on disk, failed or yet to be written.                           *)
KeepsBodies(queue, stored) ==
  /\ \A i \in DOMAIN queue : queue[i].op = "unlink" => queue[i].body \notin stored
  /\ \A body \in stored \ failed : body \in files \/ Due("write", body, queue)

(* A reader still waits for the write of the body it is about to read. *)
ReadersWait(queue, stored) ==
  \A r \in Readers :
    LET body == reading[r].body IN
      body # Nil /\ body \in stored \ failed =>
        \/ body \in files
        \/ \E i \in DOMAIN queue :
             i <= reading[r].ahead /\ queue[i] = [op |-> "write", body |-> body]

(* Where a client's walk stands: what it was shown is not behind its cursor, *)
(* what it is owed is, and if the cursor's entry is gone so are all behind.  *)
WalkStands(w, log) ==
  w.on =>
    /\ \A id \in w.owed : \E i \in DOMAIN log : log[i].id = id /\ log[i].shown
    /\ w.cursor = Nil => w.listed = {}
    /\ w.cursor # Nil =>
         /\ \A id \in w.listed : w.cursor <= id
         /\ \A id \in w.owed : id < w.cursor
         /\ \/ \E i \in DOMAIN log : log[i].id = w.cursor
            \/ \A i \in DOMAIN log : w.cursor < log[i].id

LogInv ==
  /\ TypeOK
  /\ InOrder(entries)
  /\ CapsHold
  /\ CleansUp(pending, BodiesOf(entries))
  /\ KeepsBodies(pending, BodiesOf(entries))
  /\ ReadersWait(pending, BodiesOf(entries))
  /\ WalkStands(walk, entries)

----------------------------------------------------------------------------
(* The least number principle, in place of induction. *)
LEMMA FirstOf ==
  ASSUME NEW T \in SUBSET Nat, T # {}
  PROVE  \E n \in T : \A m \in T : n <= m
<1> DEFINE Less == OpToRel(<, Nat)
<1>1. IsWellFoundedOn(Less, Nat)  BY NatLessThanWellFounded
<1>2. \A m, n \in Nat : m < n => <<m, n>> \in Less  BY DEF OpToRel
<1> HIDE DEF Less
<1>3. PICK n \in T : \A m \in T : ~ (<<m, n>> \in Less)  BY <1>1, WFMin, Zenon
<1>4. \A m \in T : ~ (m < n)  BY <1>2, <1>3
<1> QED  BY <1>4

(* The running sum of BytesOf() is a function. *)
SumsTo(n, log, sum) ==
  sum = [m \in 0 .. n |-> IF m = 0 THEN 0 ELSE sum[m - 1] + log[m].bytes]

Sums(log, sum) == SumsTo(Len(log), log, sum)

Sized(log) == \A i \in DOMAIN log : log[i].bytes \in Nat

LEMMA SumExists ==
  ASSUME NEW log, NEW len \in Nat
  PROVE  \E sum : SumsTo(len, log, sum)
<1> DEFINE Bad == {n \in 0 .. len : ~ \E sum : SumsTo(n, log, sum)}
<1>1. SUFFICES ASSUME Bad # {} PROVE FALSE  OBVIOUS
<1>2. PICK n \in Bad : \A m \in Bad : n <= m
  <2>1. Bad \in SUBSET Nat  OBVIOUS
  <2> HIDE DEF Bad
  <2> QED  BY <1>1, <2>1, FirstOf
<1>3. CASE n = 0
  <2>1. SumsTo(0, log, [m \in 0 .. 0 |-> 0])  BY DEF SumsTo
  <2> QED  BY <1>3, <2>1
<1>4. CASE n # 0
  <2>1. n \in 1 .. len /\ n - 1 \in 0 .. len /\ n - 1 \notin Bad  BY <1>2, <1>4
  <2>2. PICK sum : SumsTo(n - 1, log, sum)  BY <2>1
  <2>3. \A m \in 0 .. n - 1 : sum[m] = IF m = 0 THEN 0 ELSE sum[m - 1] + log[m].bytes
    BY <2>2 DEF SumsTo
  <2> DEFINE more == [m \in 0 .. n |-> IF m = n THEN sum[n - 1] + log[n].bytes ELSE sum[m]]
  <2>4. \A m \in 0 .. n : more[m] = IF m = n THEN sum[n - 1] + log[n].bytes ELSE sum[m]
    OBVIOUS
  <2>5. more = [m \in 0 .. n |-> more[m]]  OBVIOUS
  <2> HIDE DEF more, Bad
  <2>6. \A m \in 0 .. n : more[m] = IF m = 0 THEN 0 ELSE more[m - 1] + log[m].bytes
    <3>1. TAKE m \in 0 .. n
    <3>2. CASE m = n
      <4>1. n - 1 \in 0 .. n /\ n - 1 # n  BY <2>1
      <4>2. more[n - 1] = sum[n - 1]  BY <2>4, <4>1
      <4> QED  BY <1>4, <2>4, <3>2, <4>2
    <3>3. CASE m # n
      <4>1. m \in 0 .. n - 1 /\ (m # 0 => m - 1 \in 0 .. n /\ m - 1 # n)  BY <2>1, <3>3
      <4>2. more[m] = sum[m] /\ (m # 0 => more[m - 1] = sum[m - 1])  BY <2>4, <3>3, <4>1
      <4> QED  BY <2>3, <4>1, <4>2
    <3> QED  BY <3>2, <3>3
  <2>7. SumsTo(n, log, more)  BY <2>5, <2>6, Zenon DEF SumsTo
  <2> QED  BY <2>7 DEF Bad
<1> QED  BY <1>3, <1>4

LEMMA SumIsBytes ==
  ASSUME NEW log, Len(log) \in Nat
  PROVE  \E sum : Sums(log, sum) /\ BytesOf(log) = sum[Len(log)]
<1> DEFINE sum == CHOOSE s : Sums(log, s)
<1>1. Sums(log, sum)  BY SumExists DEF Sums
<1>2. BytesOf(log) = sum[Len(log)]  BY DEF BytesOf, Sums, SumsTo
<1> QED  BY <1>1, <1>2

(* part is the stretch of log behind its first n entries. *)
Stretch(part, log, n) ==
  /\ n + Len(part) <= Len(log)
  /\ \A i \in 1 .. Len(part) : part[i] = log[n + i]

(* The running sums of a log and of a stretch of it run in parallel. *)
LEMMA SumsRunInParallel ==
  ASSUME NEW S, NEW log \in Seq(S), NEW part \in Seq(S), NEW n \in Nat,
         Stretch(part, log, n), Sized(log),
         NEW sum, Sums(log, sum), NEW psum, Sums(part, psum)
  PROVE  \A m \in 0 .. Len(part) : psum[m] \in Nat /\ sum[n] \in Nat /\ sum[n + m] = sum[n] + psum[m]
<1> USE DEF Stretch
<1>1. \A i \in 0 .. Len(log) : sum[i] = IF i = 0 THEN 0 ELSE sum[i - 1] + log[i].bytes
  BY DEF Sums, SumsTo
<1>2. \A i \in 0 .. Len(part) : psum[i] = IF i = 0 THEN 0 ELSE psum[i - 1] + part[i].bytes
  BY DEF Sums, SumsTo
<1>3. \A i \in 1 .. Len(log) : log[i].bytes \in Nat  BY DEF Sized
<1>4. sum[n] \in Nat
  <2> DEFINE Bad == {i \in 0 .. Len(log) : sum[i] \notin Nat}
  <2>1. SUFFICES Bad = {}  OBVIOUS
  <2>2. SUFFICES ASSUME Bad # {} PROVE FALSE  OBVIOUS
  <2>3. PICK i \in Bad : \A j \in Bad : i <= j
    <3>1. Bad \in SUBSET Nat  OBVIOUS
    <3> HIDE DEF Bad
    <3> QED  BY <2>2, <3>1, FirstOf
  <2>4. i # 0  BY <1>1
  <2>5. i - 1 \in 0 .. Len(log) /\ i - 1 \notin Bad  BY <2>3, <2>4
  <2>6. sum[i] = sum[i - 1] + log[i].bytes  BY <1>1, <2>4
  <2>7. sum[i - 1] \in Nat /\ log[i].bytes \in Nat  BY <1>3, <2>4, <2>5
  <2> QED  BY <2>6, <2>7
<1> DEFINE Bad == {m \in 0 .. Len(part) : ~ (psum[m] \in Nat /\ sum[n + m] = sum[n] + psum[m])}
<1>5. SUFFICES Bad = {}  BY <1>4
<1>6. SUFFICES ASSUME Bad # {} PROVE FALSE  OBVIOUS
<1>7. PICK m \in Bad : \A j \in Bad : m <= j
  <2>1. Bad \in SUBSET Nat  OBVIOUS
  <2> HIDE DEF Bad
  <2> QED  BY <1>6, <2>1, FirstOf
<1>8. m # 0  BY <1>2, <1>4
<1>9. m - 1 \in 0 .. Len(part) /\ m - 1 \notin Bad  BY <1>7, <1>8
<1>10. psum[m] = psum[m - 1] + part[m].bytes /\ part[m] = log[n + m]  BY <1>2, <1>8
<1>11. sum[n + m] = sum[n + m - 1] + log[n + m].bytes /\ log[n + m].bytes \in Nat
  BY <1>1, <1>3, <1>8
<1>12. sum[n + (m - 1)] = sum[n] + psum[m - 1] /\ psum[m - 1] \in Nat  BY <1>9
<1>13. n + (m - 1) = n + m - 1 /\ sum[n + m - 1] = sum[n + (m - 1)]  BY <1>8
<1>14. psum[m] \in Nat  BY <1>10, <1>11, <1>12
<1>15. sum[n + m] = sum[n] + psum[m]  BY <1>4, <1>10, <1>11, <1>12, <1>13
<1> QED  BY <1>14, <1>15

(* What is left after removing the n oldest, and what is removed. *)
LEMMA Parts ==
  ASSUME NEW S, NEW log \in Seq(S), NEW n \in 0 .. Len(log)
  PROVE  /\ Rest(log, n) \in Seq(S)
         /\ Len(Rest(log, n)) = Len(log) - n
         /\ \A i \in 1 .. Len(log) - n : Rest(log, n)[i] = log[n + i]
         /\ Prefix(log, n) \in Seq(S)
         /\ Len(Prefix(log, n)) = n
         /\ \A i \in 1 .. n : Prefix(log, n)[i] = log[i]
  BY DEF Rest, Prefix

(* The bytes of a log are those of what is removed and those of what is left. *)
LEMMA BytesOfParts ==
  ASSUME NEW S, NEW log \in Seq(S), Sized(log), NEW n \in 0 .. Len(log)
  PROVE  /\ BytesOf(Rest(log, n)) \in Nat
         /\ BytesOf(Prefix(log, n)) \in Nat
         /\ BytesOf(log) = BytesOf(Prefix(log, n)) + BytesOf(Rest(log, n))
<1> DEFINE rest == Rest(log, n)
           first == Prefix(log, n)
<1>1. /\ rest \in Seq(S) /\ Len(rest) = Len(log) - n
      /\ \A i \in 1 .. Len(log) - n : rest[i] = log[n + i]
      /\ first \in Seq(S) /\ Len(first) = n
      /\ \A i \in 1 .. n : first[i] = log[i]
  BY Parts
<1> HIDE DEF rest, first
<1>2. PICK sum : Sums(log, sum) /\ BytesOf(log) = sum[Len(log)]  BY SumIsBytes
<1>3. PICK rsum : Sums(rest, rsum) /\ BytesOf(rest) = rsum[Len(rest)]  BY <1>1, SumIsBytes
<1>4. PICK fsum : Sums(first, fsum) /\ BytesOf(first) = fsum[Len(first)]  BY <1>1, SumIsBytes
<1>5. rsum[Len(rest)] \in Nat /\ sum[n + Len(rest)] = sum[n] + rsum[Len(rest)]
  <2>1. n + Len(rest) <= Len(log) /\ Len(rest) \in 0 .. Len(rest) /\ n \in Nat  BY <1>1
  <2>2. Stretch(rest, log, n)  BY <1>1 DEF Stretch
  <2>3. \A m \in 0 .. Len(rest) : rsum[m] \in Nat /\ sum[n + m] = sum[n] + rsum[m]
    <3>1. /\ rest \in Seq(S) /\ n \in Nat /\ Stretch(rest, log, n) /\ Sized(log)
          /\ Sums(log, sum) /\ Sums(rest, rsum)
      BY <1>1, <1>2, <1>3, <2>1, <2>2
    <3> HIDE DEF Sums, Stretch, Sized
    <3> QED  BY ONLY <3>1, log \in Seq(S), SumsRunInParallel
  <2> QED  BY <2>1, <2>3
<1>6. fsum[Len(first)] \in Nat /\ sum[0 + Len(first)] = sum[0] + fsum[Len(first)]
  <2>1. 0 + Len(first) <= Len(log) /\ Len(first) \in 0 .. Len(first)  BY <1>1
  <2>2. Stretch(first, log, 0)  BY <1>1 DEF Stretch
  <2>3. \A m \in 0 .. Len(first) : fsum[m] \in Nat /\ sum[0 + m] = sum[0] + fsum[m]
    BY <1>1, <1>2, <1>4, <2>1, <2>2, SumsRunInParallel
  <2> QED  BY <2>1, <2>3
<1>7. sum[0] = 0  BY <1>2 DEF Sums, SumsTo
<1>8. BytesOf(log) = BytesOf(first) + BytesOf(rest)
  BY <1>1, <1>2, <1>3, <1>4, <1>5, <1>6, <1>7
<1> QED  BY <1>1, <1>3, <1>4, <1>5, <1>6, <1>8 DEF rest, first

LEMMA BytesOfNone == BytesOf(<<>>) = 0
<1>1. PICK sum : Sums(<<>>, sum) /\ BytesOf(<<>>) = sum[Len(<<>>)]  BY SumIsBytes
<1> QED  BY <1>1 DEF Sums, SumsTo

LEMMA BytesOfAppend ==
  ASSUME NEW S, NEW log \in Seq(S), Sized(log), NEW e \in S, e.bytes \in Nat
  PROVE  /\ BytesOf(log) \in Nat
         /\ BytesOf(Append(log, e)) = BytesOf(log) + e.bytes
<1> DEFINE more == Append(log, e)
<1>1. /\ more \in Seq(S) /\ Len(more) = Len(log) + 1 /\ more[Len(log) + 1] = e
      /\ \A i \in 1 .. Len(log) : log[i] = more[0 + i]
  OBVIOUS
<1> HIDE DEF more
<1>2. Sized(more)  BY <1>1 DEF Sized
<1>3. PICK sum : Sums(log, sum) /\ BytesOf(log) = sum[Len(log)]  BY SumIsBytes
<1>4. PICK msum : Sums(more, msum) /\ BytesOf(more) = msum[Len(more)]  BY <1>1, SumIsBytes
<1>5. Stretch(log, more, 0) /\ Len(log) \in 0 .. Len(log)  BY <1>1 DEF Stretch
<1>6. \A m \in 0 .. Len(log) : sum[m] \in Nat /\ msum[0 + m] = msum[0] + sum[m]
  BY <1>1, <1>2, <1>3, <1>4, <1>5, SumsRunInParallel
<1>7. msum[0] = 0 /\ msum[Len(log) + 1] = msum[Len(log)] + e.bytes
  BY <1>1, <1>4 DEF Sums, SumsTo
<1>8. BytesOf(more) = BytesOf(log) + e.bytes  BY <1>1, <1>3, <1>4, <1>5, <1>6, <1>7
<1> QED  BY <1>3, <1>5, <1>6, <1>8 DEF more

----------------------------------------------------------------------------
(* Two sequences in a row have the elements of both. *)
LEMMA ConcatElements ==
  ASSUME NEW S, NEW s \in Seq(S), NEW t \in Seq(S), NEW x
  PROVE  x \in ToSet(s \o t) <=> x \in ToSet(s) \/ x \in ToSet(t)
<1> DEFINE u == s \o t
<1>1. /\ u \in Seq(S) /\ Len(u) = Len(s) + Len(t)
      /\ \A i \in 1 .. Len(s) : u[i] = s[i]
      /\ \A i \in 1 .. Len(t) : u[Len(s) + i] = t[i]
  OBVIOUS
<1> HIDE DEF u
<1>2. ASSUME x \in ToSet(u) PROVE x \in ToSet(s) \/ x \in ToSet(t)
  <2>1. PICK i \in 1 .. Len(u) : u[i] = x  BY <1>1, <1>2 DEF ToSet
  <2>2. CASE i <= Len(s)  BY <1>1, <2>1, <2>2 DEF ToSet
  <2>3. CASE i > Len(s)
    <3>1. i - Len(s) \in 1 .. Len(t) /\ Len(s) + (i - Len(s)) = i  BY <1>1, <2>3
    <3>2. t[i - Len(s)] = x  BY <1>1, <2>1, <3>1
    <3> QED  BY <3>1, <3>2 DEF ToSet
  <2> QED  BY <1>1, <2>1, <2>2, <2>3
<1>3. ASSUME x \in ToSet(s) PROVE x \in ToSet(u)
  <2>1. PICK i \in 1 .. Len(s) : s[i] = x  BY <1>3 DEF ToSet
  <2>2. i \in DOMAIN u /\ u[i] = x  BY <1>1, <2>1
  <2> QED  BY <2>2 DEF ToSet
<1>4. ASSUME x \in ToSet(t) PROVE x \in ToSet(u)
  <2>1. PICK i \in 1 .. Len(t) : t[i] = x  BY <1>4 DEF ToSet
  <2>2. Len(s) + i \in DOMAIN u /\ u[Len(s) + i] = x  BY <1>1, <2>1
  <2> QED  BY <2>2 DEF ToSet
<1> QED  BY <1>2, <1>3, <1>4 DEF u

(* The flattening of FlattenSeq() is a function. *)
Flattened(parts, n, flat) ==
  flat = [i \in 1 .. n |-> IF i = 1 THEN parts[i] ELSE flat[i - 1] \o parts[i]]

LEMMA FlatteningExists ==
  ASSUME NEW parts, NEW len \in Nat
  PROVE  \E flat : Flattened(parts, len, flat)
<1> DEFINE Bad == {n \in 0 .. len : ~ \E flat : Flattened(parts, n, flat)}
<1>1. SUFFICES ASSUME Bad # {} PROVE FALSE  OBVIOUS
<1>2. PICK n \in Bad : \A m \in Bad : n <= m
  <2>1. Bad \in SUBSET Nat  OBVIOUS
  <2> HIDE DEF Bad
  <2> QED  BY <1>1, <2>1, FirstOf
<1>3. CASE n = 0
  <2>1. Flattened(parts, 0, [i \in 1 .. 0 |-> 0])  BY DEF Flattened
  <2> QED  BY <1>3, <2>1
<1>4. CASE n # 0
  <2>1. n \in 1 .. len /\ n - 1 \in 0 .. len /\ n - 1 \notin Bad  BY <1>2, <1>4
  <2>2. PICK flat : Flattened(parts, n - 1, flat)  BY <2>1
  <2>3. \A j \in 1 .. n - 1 : flat[j] = IF j = 1 THEN parts[j] ELSE flat[j - 1] \o parts[j]
    BY <2>2 DEF Flattened
  <2> DEFINE last == IF n = 1 THEN parts[1] ELSE flat[n - 1] \o parts[n]
             more == [i \in 1 .. n |-> IF i = n THEN last ELSE flat[i]]
  <2>4. \A i \in 1 .. n : more[i] = IF i = n THEN last ELSE flat[i]  OBVIOUS
  <2>5. more = [i \in 1 .. n |-> more[i]]  OBVIOUS
  <2>6. last = IF n = 1 THEN parts[1] ELSE flat[n - 1] \o parts[n]  OBVIOUS
  <2> HIDE DEF more, last, Bad
  <2>7. \A i \in 1 .. n : more[i] = IF i = 1 THEN parts[i] ELSE more[i - 1] \o parts[i]
    <3>1. TAKE i \in 1 .. n
    <3>2. CASE i = n
      <4>1. n # 1 => n - 1 \in 1 .. n /\ n - 1 # n  BY <2>1
      <4>2. n # 1 => more[n - 1] = flat[n - 1]  BY <2>4, <4>1
      <4> QED  BY <2>4, <2>6, <3>2, <4>2
    <3>3. CASE i # n
      <4>1. i \in 1 .. n - 1 /\ (i # 1 => i - 1 \in 1 .. n /\ i - 1 # n)  BY <2>1, <3>3
      <4>2. more[i] = flat[i] /\ (i # 1 => more[i - 1] = flat[i - 1])  BY <2>4, <3>3, <4>1
      <4> QED  BY <2>3, <4>1, <4>2
    <3> QED  BY <3>2, <3>3
  <2>8. Flattened(parts, n, more)  BY <2>5, <2>7, Zenon DEF Flattened
  <2> QED  BY <2>8 DEF Bad
<1> QED  BY <1>3, <1>4

(* A flattened sequence has the elements of its parts. *)
LEMMA FlattenSeqElements ==
  ASSUME NEW S, NEW parts \in Seq(Seq(S))
  PROVE  /\ FlattenSeq(parts) \in Seq(S)
         /\ \A x : x \in ToSet(FlattenSeq(parts)) <=>
                     \E i \in DOMAIN parts : x \in ToSet(parts[i])
<1>1. CASE Len(parts) = 0
  <2>1. FlattenSeq(parts) = parts  BY <1>1, Zenon DEF FlattenSeq
  <2>2. parts = <<>>  BY <1>1
  <2>3. ToSet(<<>>) = {} /\ <<>> \in Seq(S) /\ DOMAIN <<>> = {}  BY DEF ToSet
  <2> QED  BY <2>1, <2>2, <2>3, Zenon
<1>2. CASE Len(parts) # 0
  <2> DEFINE flat == CHOOSE f : Flattened(parts, Len(parts), f)
  <2>1. Flattened(parts, Len(parts), flat)
    <3>1. Len(parts) \in Nat  OBVIOUS
    <3> QED  BY <3>1, FlatteningExists, Zenon
  <2>2. FlattenSeq(parts) = flat[Len(parts)]  BY <1>2 DEF FlattenSeq, Flattened
  <2> HIDE DEF flat
  <2>3. \A i \in 1 .. Len(parts) : flat[i] = IF i = 1 THEN parts[i] ELSE flat[i - 1] \o parts[i]
    BY <2>1 DEF Flattened
  <2> HIDE DEF Flattened
  <2> DEFINE Holds(n) == /\ flat[n] \in Seq(S)
                         /\ \A x : x \in ToSet(flat[n]) <=>
                                     \E i \in 1 .. n : x \in ToSet(parts[i])
             Bad == {n \in 1 .. Len(parts) : ~Holds(n)}
  <2>4. Bad = {}
    <3>1. SUFFICES ASSUME Bad # {} PROVE FALSE  OBVIOUS
    <3>2. PICK n \in Bad : \A m \in Bad : n <= m
      <4>1. Bad \in SUBSET Nat  OBVIOUS
      <4> HIDE DEF Bad
      <4> QED  BY <3>1, <4>1, FirstOf
    <3>3. parts[n] \in Seq(S)  OBVIOUS
    <3>4. CASE n = 1
      <4>1. flat[1] = parts[1]  BY <2>3, <3>4
      <4>2. \A i : i \in 1 .. 1 <=> i = 1  OBVIOUS
      <4>3. Holds(1)  BY <3>3, <3>4, <4>1, <4>2, Zenon
      <4> QED  BY <3>4, <4>3
    <3>5. CASE n # 1
      <4>1. n - 1 \in 1 .. Len(parts) /\ n - 1 \notin Bad
        <5> HIDE DEF Holds
        <5> QED  BY <3>2, <3>5
      <4>2. Holds(n - 1)  BY <4>1
      <4>3. flat[n] = flat[n - 1] \o parts[n]  BY <2>3, <3>5
      <4>4. \A x : x \in ToSet(flat[n - 1] \o parts[n]) <=>
                     x \in ToSet(flat[n - 1]) \/ x \in ToSet(parts[n])
        <5>1. \A s, t \in Seq(S) : \A x : x \in ToSet(s \o t) <=> x \in ToSet(s) \/ x \in ToSet(t)
          BY ConcatElements
        <5> QED  BY <3>3, <4>2, <5>1
      <4>5. Holds(n)
        <5>1. flat[n] \in Seq(S)  BY <3>3, <4>2, <4>3
        <5>2. \A x : (\E i \in 1 .. n : x \in ToSet(parts[i])) <=>
                       (\E i \in 1 .. n - 1 : x \in ToSet(parts[i])) \/ x \in ToSet(parts[n])
          <6>1. \A i : i \in 1 .. n <=> i \in 1 .. n - 1 \/ i = n  OBVIOUS
          <6> QED  BY <6>1, Zenon
        <5>3. \A x : x \in ToSet(flat[n]) <=> \E i \in 1 .. n : x \in ToSet(parts[i])
          BY <4>2, <4>3, <4>4, <5>2, Zenon
        <5> QED  BY <5>1, <5>3
      <4> QED  BY <4>5
    <3> QED  BY <3>4, <3>5
  <2>5. Holds(Len(parts))
    <3>1. Len(parts) \in 1 .. Len(parts)  BY <1>2
    <3> HIDE DEF Holds
    <3> QED  BY <2>4, <3>1
  <2>6. DOMAIN parts = 1 .. Len(parts)  OBVIOUS
  <2> QED  BY <2>2, <2>5, <2>6, Zenon
<1> QED  BY <1>1, <1>2

(* SetToSeq() of a finite set is a sequence of its elements. *)
LEMMA SetToSeqElements ==
  ASSUME NEW S, IsFiniteSet(S)
  PROVE  SetToSeq(S) \in Seq(S) /\ ToSet(SetToSeq(S)) = S
<1> DEFINE n == Cardinality(S)
           f == SetToSeq(S)
<1>1. n \in Nat /\ ExistsBijection(1 .. n, S)  BY FS_CardinalityType
<1>2. \E g \in [1 .. n -> S] : IsInjective(g)
  BY <1>1 DEF ExistsBijection, Bijection, Injection, IsInjective
<1>3. f \in [1 .. n -> S] /\ IsInjective(f)  BY <1>2 DEF SetToSeq
<1> HIDE DEF f
<1>4. f \in Surjection(1 .. n, S)
  <2>1. f \in Injection(1 .. n, S)  BY <1>3 DEF Injection, IsInjective
  <2>2. IsFiniteSet(1 .. n) /\ Cardinality(1 .. n) = n  BY <1>1, FS_Interval
  <2> QED  BY <2>1, <2>2, FS_Injection
<1>5. \A x \in S : \E i \in 1 .. n : f[i] = x  BY <1>4 DEF Surjection
<1>6. f \in Seq(S) /\ DOMAIN f = 1 .. n  BY <1>1, <1>3
<1> QED  BY <1>3, <1>5, <1>6 DEF f, ToSet

----------------------------------------------------------------------------
(* OnBodies(): one operation for each body of the log. *)
LEMMA OnBodiesElements ==
  ASSUME NEW op, NEW log, Len(log) \in Nat, DOMAIN log = 1 .. Len(log),
         \A i \in DOMAIN log : log[i].kinds \subseteq Kinds
  PROVE  LET ops == {[op |-> op, body |-> body] : body \in BodiesOf(log)}
         IN  OnBodies(op, log) \in Seq(ops) /\ ToSet(OnBodies(op, log)) = ops
<1> DEFINE ops == {[op |-> op, body |-> body] : body \in BodiesOf(log)}
           OpsOf(e) == {[op |-> op, body |-> b] : b \in Bodies(e)}
           parts == [i \in DOMAIN log |-> SetToSeq(OpsOf(log[i]))]
<1>1. OnBodies(op, log) = FlattenSeq(parts)  BY DEF OnBodies
<1>2. \A i \in DOMAIN log : IsFiniteSet(OpsOf(log[i]))
  <2>1. TAKE i \in DOMAIN log
  <2> DEFINE kinds == log[i].kinds
             f == [kind \in kinds |-> [op |-> op, body |-> Body(log[i].id, kind)]]
  <2>2. IsFiniteSet(kinds)  BY LogConstants, FS_Subset DEF LogConstants
  <2>3. f \in Surjection(kinds, OpsOf(log[i]))  BY DEF Surjection, Bodies
  <2> HIDE DEF f, kinds, OpsOf
  <2> QED  BY <2>2, <2>3, FS_Surjection
<1>3. \A i \in DOMAIN log : OpsOf(log[i]) \subseteq ops  BY DEF BodiesOf, ToSet
<1>4. \A x : x \in ops <=> \E i \in DOMAIN log : x \in OpsOf(log[i])  BY DEF BodiesOf, ToSet
<1> HIDE DEF ops, OpsOf
<1>5. \A i \in DOMAIN log : /\ SetToSeq(OpsOf(log[i])) \in Seq(ops)
                            /\ ToSet(SetToSeq(OpsOf(log[i]))) = OpsOf(log[i])
  <2>1. TAKE i \in DOMAIN log
  <2>2. /\ SetToSeq(OpsOf(log[i])) \in Seq(OpsOf(log[i]))
        /\ ToSet(SetToSeq(OpsOf(log[i]))) = OpsOf(log[i])
    BY <1>2, SetToSeqElements
  <2> QED  BY <1>3, <2>2
<1>6. parts \in Seq(Seq(ops)) /\ DOMAIN parts = DOMAIN log
  BY <1>5
<1>7. \A i \in DOMAIN log : ToSet(parts[i]) = OpsOf(log[i])  BY <1>5
<1> HIDE DEF parts
<1>8. /\ FlattenSeq(parts) \in Seq(ops)
      /\ \A x : x \in ToSet(FlattenSeq(parts)) <=> \E i \in DOMAIN log : x \in ToSet(parts[i])
  BY <1>6, FlattenSeqElements
<1>9. \A x : x \in ToSet(FlattenSeq(parts)) <=> x \in ops  BY <1>4, <1>7, <1>8
<1>10. ToSet(FlattenSeq(parts)) = ops  BY <1>9
<1> QED  BY <1>1, <1>8, <1>10 DEF ops

(* The bodies of what is removed and of what is left. *)
LEMMA BodiesOfParts ==
  ASSUME NEW S, NEW log \in Seq(S), InOrder(log), NEW n \in 0 .. Len(log),
         \A i \in DOMAIN log : log[i].id \in Nat
  PROVE  /\ BodiesOf(log) \subseteq BodiesOf(Rest(log, n)) \cup BodiesOf(Prefix(log, n))
         /\ BodiesOf(Rest(log, n)) \subseteq BodiesOf(log)
         /\ BodiesOf(Rest(log, n)) \cap BodiesOf(Prefix(log, n)) = {}
<1> DEFINE rest == Rest(log, n)
           first == Prefix(log, n)
<1>1. /\ rest \in Seq(S) /\ Len(rest) = Len(log) - n
      /\ \A i \in 1 .. Len(log) - n : rest[i] = log[n + i]
      /\ first \in Seq(S) /\ Len(first) = n
      /\ \A i \in 1 .. n : first[i] = log[i]
  BY Parts
<1> HIDE DEF rest, first
<1>2. DOMAIN log = 1 .. Len(log) /\ DOMAIN rest = 1 .. Len(log) - n /\ DOMAIN first = 1 .. n
  BY <1>1
<1>3. \A l, b : b \in BodiesOf(l) <=> \E i \in DOMAIN l : b \in Bodies(l[i])
  BY DEF BodiesOf, ToSet
<1>4. ASSUME NEW b \in BodiesOf(log) PROVE b \in BodiesOf(rest) \/ b \in BodiesOf(first)
  <2>1. PICK i \in DOMAIN log : b \in Bodies(log[i])  BY <1>3, <1>4
  <2>2. CASE i <= n
    <3>1. i \in DOMAIN first /\ first[i] = log[i]  BY <1>1, <1>2, <2>2
    <3> QED  BY <1>3, <2>1, <3>1
  <2>3. CASE i > n
    <3>1. i - n \in DOMAIN rest /\ rest[i - n] = log[i]  BY <1>1, <1>2, <2>3
    <3> QED  BY <1>3, <2>1, <3>1
  <2> QED  BY <1>2, <2>2, <2>3
<1>5. ASSUME NEW b \in BodiesOf(rest) PROVE b \in BodiesOf(log) /\ b \notin BodiesOf(first)
  <2>1. PICK i \in DOMAIN rest : b \in Bodies(rest[i])  BY <1>3, <1>5
  <2>2. n + i \in DOMAIN log /\ rest[i] = log[n + i]  BY <1>1, <1>2
  <2>3. b.id = log[n + i].id  BY <2>1, <2>2 DEF Bodies, Body
  <2>4. ASSUME NEW j \in DOMAIN first, b \in Bodies(first[j]) PROVE FALSE
    <3>1. j \in DOMAIN log /\ j < n + i /\ first[j] = log[j]  BY <1>1, <1>2
    <3>2. b.id = log[j].id  BY <2>4, <3>1 DEF Bodies, Body
    <3>3. log[j].id < log[n + i].id  BY <2>2, <3>1 DEF InOrder
    <3> QED  BY <2>2, <2>3, <3>1, <3>2, <3>3
  <2> QED  BY <1>3, <2>1, <2>2, <2>4
<1> QED  BY <1>4, <1>5 DEF rest, first

----------------------------------------------------------------------------
(* What is queued behind the chain. *)
ChainInv(queue, stored) ==
  CleansUp(queue, stored) /\ KeepsBodies(queue, stored) /\ ReadersWait(queue, stored)

Behalf(op, bodies) == {[op |-> op, body |-> body] : body \in bodies}

LEMMA QueueGrows ==
  ASSUME NEW S, NEW queue \in Seq(S), NEW more \in Seq(S)
  PROVE  /\ queue \o more \in Seq(S)
         /\ \A i \in DOMAIN queue : i \in DOMAIN (queue \o more) /\ (queue \o more)[i] = queue[i]
         /\ \A x \in ToSet(more) : \E i \in DOMAIN (queue \o more) :
              (queue \o more)[i] = x /\ \A j \in DOMAIN queue : j < i
         /\ \A i \in DOMAIN (queue \o more) :
              i \in DOMAIN queue \/ (queue \o more)[i] \in ToSet(more)
<1> DEFINE all == queue \o more
<1>1. /\ all \in Seq(S) /\ Len(all) = Len(queue) + Len(more)
      /\ \A i \in 1 .. Len(queue) : all[i] = queue[i]
      /\ \A i \in 1 .. Len(more) : all[Len(queue) + i] = more[i]
      /\ Len(queue) \in Nat /\ Len(more) \in Nat
      /\ DOMAIN all = 1 .. Len(all) /\ DOMAIN queue = 1 .. Len(queue)
      /\ DOMAIN more = 1 .. Len(more)
  OBVIOUS
<1> HIDE DEF all
<1>2. \A i \in DOMAIN queue : i \in DOMAIN all /\ all[i] = queue[i]  BY <1>1
<1>3. ASSUME NEW x \in ToSet(more)
      PROVE  \E i \in DOMAIN all : all[i] = x /\ \A j \in DOMAIN queue : j < i
  <2>1. PICK i \in DOMAIN more : more[i] = x  BY <1>3 DEF ToSet
  <2>2. Len(queue) + i \in DOMAIN all /\ all[Len(queue) + i] = x  BY <1>1, <2>1
  <2>3. \A j \in DOMAIN queue : j < Len(queue) + i  BY <1>1
  <2> QED  BY <2>2, <2>3
<1>4. ASSUME NEW i \in DOMAIN all, i \notin DOMAIN queue PROVE all[i] \in ToSet(more)
  <2>1. i - Len(queue) \in DOMAIN more /\ Len(queue) + (i - Len(queue)) = i  BY <1>1, <1>4
  <2>2. all[i] = more[i - Len(queue)]  BY <1>1, <2>1
  <2> QED  BY <2>1, <2>2 DEF ToSet
<1> QED  BY <1>1, <1>2, <1>3, <1>4 DEF all

(* Writes of bodies just stored, which the queue does not name. *)
LEMMA WritesQueued ==
  ASSUME NEW S, NEW queue \in Seq(S), NEW more \in Seq(S), NEW stored, NEW new,
         ToSet(more) = Behalf("write", new),
         ChainInv(queue, stored),
         \A i \in DOMAIN queue : queue[i].body \notin new,
         \A r \in Readers : reading[r].body = Nil \/ reading[r].body \notin new
  PROVE  ChainInv(queue \o more, stored \cup new)
<1> DEFINE all == queue \o more
<1>1. /\ \A i \in DOMAIN queue : i \in DOMAIN all /\ all[i] = queue[i]
      /\ \A x \in ToSet(more) : \E i \in DOMAIN all : all[i] = x /\ \A j \in DOMAIN queue : j < i
      /\ \A i \in DOMAIN all : i \in DOMAIN queue \/ all[i] \in ToSet(more)
  BY QueueGrows
<1> HIDE DEF all
<1>2. \A op, body : Due(op, body, queue) => Due(op, body, all)  BY <1>1 DEF Due, ToSet
<1>3. \A i \in DOMAIN all : i \in DOMAIN queue \/ (all[i].op = "write" /\ all[i].body \in new)
  BY <1>1 DEF Behalf
<1>4. CleansUp(all, stored \cup new)
  <2>1. \A body \in files : body \in stored \cup new \/ body \in failed \/ Due("unlink", body, all)
    BY <1>2 DEF ChainInv, CleansUp
  <2>2. ASSUME NEW i \in DOMAIN all, all[i].op = "write"
        PROVE  \/ all[i].body \in stored \cup new
               \/ \E j \in DOMAIN all : i < j /\ all[j] = [op |-> "unlink", body |-> all[i].body]
    <3>1. CASE i \notin DOMAIN queue  BY <1>3, <3>1
    <3>2. CASE i \in DOMAIN queue
      <4>1. \/ queue[i].body \in stored
            \/ \E j \in DOMAIN queue : i < j /\ queue[j] = [op |-> "unlink", body |-> queue[i].body]
        BY <1>1, <2>2, <3>2 DEF ChainInv, CleansUp
      <4> QED  BY <1>1, <3>2, <4>1
    <3> QED  BY <3>1, <3>2
  <2> QED  BY <2>1, <2>2 DEF CleansUp
<1>5. KeepsBodies(all, stored \cup new)
  <2>1. ASSUME NEW i \in DOMAIN all, all[i].op = "unlink" PROVE all[i].body \notin stored \cup new
    BY <1>1, <1>3, <2>1 DEF ChainInv, KeepsBodies
  <2>2. ASSUME NEW body \in (stored \cup new) \ failed
        PROVE  body \in files \/ Due("write", body, all)
    <3>1. CASE body \in stored  BY <1>2, <2>2, <3>1 DEF ChainInv, KeepsBodies
    <3>2. CASE body \in new
      <4>1. [op |-> "write", body |-> body] \in ToSet(more)  BY <3>2 DEF Behalf
      <4> QED  BY <1>1, <4>1 DEF Due, ToSet
    <3> QED  BY <2>2, <3>1, <3>2
  <2> QED  BY <2>1, <2>2 DEF KeepsBodies
<1>6. ReadersWait(all, stored \cup new)  BY <1>1 DEF ChainInv, ReadersWait
<1> QED  BY <1>4, <1>5, <1>6 DEF ChainInv, all

(* Deletions of the bodies that are stored no more. *)
LEMMA UnlinksQueued ==
  ASSUME NEW S, NEW queue \in Seq(S), NEW more \in Seq(S), NEW stored, NEW left, NEW gone,
         ToSet(more) = Behalf("unlink", gone),
         ChainInv(queue, stored),
         stored \subseteq left \cup gone, left \subseteq stored, left \cap gone = {}
  PROVE  ChainInv(queue \o more, left)
<1> DEFINE all == queue \o more
<1>1. /\ \A i \in DOMAIN queue : i \in DOMAIN all /\ all[i] = queue[i]
      /\ \A x \in ToSet(more) : \E i \in DOMAIN all : all[i] = x /\ \A j \in DOMAIN queue : j < i
      /\ \A i \in DOMAIN all : i \in DOMAIN queue \/ all[i] \in ToSet(more)
  BY QueueGrows
<1> HIDE DEF all
<1>2. \A op, body : Due(op, body, queue) => Due(op, body, all)  BY <1>1 DEF Due, ToSet
<1>3. \A i \in DOMAIN all : i \in DOMAIN queue \/ (all[i].op = "unlink" /\ all[i].body \in gone)
  BY <1>1 DEF Behalf
<1>4. \A body \in gone : \E i \in DOMAIN all :
        all[i] = [op |-> "unlink", body |-> body] /\ \A j \in DOMAIN queue : j < i
  BY <1>1 DEF Behalf
<1>5. CleansUp(all, left)
  <2>1. ASSUME NEW body \in files
        PROVE  body \in left \/ body \in failed \/ Due("unlink", body, all)
    <3>1. CASE body \in gone  BY <1>4, <3>1 DEF Due, ToSet
    <3>2. CASE body \notin gone  BY <1>2, <3>2 DEF ChainInv, CleansUp
    <3> QED  BY <3>1, <3>2
  <2>2. ASSUME NEW i \in DOMAIN all, all[i].op = "write"
        PROVE  \/ all[i].body \in left
               \/ \E j \in DOMAIN all : i < j /\ all[j] = [op |-> "unlink", body |-> all[i].body]
    <3>1. i \in DOMAIN queue /\ all[i] = queue[i]  BY <1>1, <1>3, <2>2
    <3>2. \/ queue[i].body \in stored
          \/ \E j \in DOMAIN queue : i < j /\ queue[j] = [op |-> "unlink", body |-> queue[i].body]
      BY <2>2, <3>1 DEF ChainInv, CleansUp
    <3>3. CASE all[i].body \in gone  BY <1>4, <3>1, <3>3
    <3>4. CASE all[i].body \notin gone  BY <1>1, <3>1, <3>2, <3>4
    <3> QED  BY <3>3, <3>4
  <2> QED  BY <2>1, <2>2 DEF CleansUp
<1>6. KeepsBodies(all, left)
  <2>1. ASSUME NEW i \in DOMAIN all, all[i].op = "unlink" PROVE all[i].body \notin left
    BY <1>1, <1>3, <2>1 DEF ChainInv, KeepsBodies
  <2>2. ASSUME NEW body \in left \ failed PROVE body \in files \/ Due("write", body, all)
    BY <1>2, <2>2 DEF ChainInv, KeepsBodies
  <2> QED  BY <2>1, <2>2 DEF KeepsBodies
<1>7. ReadersWait(all, left)  BY <1>1 DEF ChainInv, ReadersWait
<1> QED  BY <1>5, <1>6, <1>7 DEF ChainInv, all

----------------------------------------------------------------------------
(* What the lemmas on removal need to know of the entries. *)
Proper(log) ==
  \A i \in DOMAIN log :
    log[i].id \in Nat /\ log[i].bytes \in Nat /\ log[i].kinds \subseteq Kinds

(* removeStored(), n times: order, bytes and what is queued stay right. *)
LEMMA OldestRemoved ==
  ASSUME NEW S, NEW T, NEW log \in Seq(S), NEW queue \in Seq(T), NEW n \in 0 .. Len(log),
         Proper(log), InOrder(log), Behalf("unlink", BodiesOf(log)) \subseteq T,
         ChainInv(queue, BodiesOf(log))
  PROVE  LET rest == Rest(log, n)
             all == queue \o OnBodies("unlink", Prefix(log, n))
         IN  /\ rest \in Seq(S) /\ Len(rest) = Len(log) - n
             /\ InOrder(rest)
             /\ BytesOf(rest) \in Nat
             /\ BytesOf(log) - BytesOf(Prefix(log, n)) = BytesOf(rest)
             /\ BytesOf(rest) <= BytesOf(log)
             /\ all \in Seq(T)
             /\ ChainInv(all, BodiesOf(rest))
<1> DEFINE rest == Rest(log, n)
           first == Prefix(log, n)
           more == OnBodies("unlink", first)
<1>1. /\ rest \in Seq(S) /\ Len(rest) = Len(log) - n
      /\ \A i \in 1 .. Len(log) - n : rest[i] = log[n + i]
      /\ first \in Seq(S) /\ Len(first) = n
      /\ \A i \in 1 .. n : first[i] = log[i]
  BY Parts
<1>2. Sized(log)  BY DEF Proper, Sized
<1>3. /\ BytesOf(rest) \in Nat /\ BytesOf(first) \in Nat
      /\ BytesOf(log) = BytesOf(first) + BytesOf(rest)
  BY <1>2, BytesOfParts
<1>4. \A i \in DOMAIN log : log[i].id \in Nat  BY DEF Proper
<1>5. /\ BodiesOf(log) \subseteq BodiesOf(rest) \cup BodiesOf(first)
      /\ BodiesOf(rest) \subseteq BodiesOf(log)
      /\ BodiesOf(rest) \cap BodiesOf(first) = {}
  BY <1>4, BodiesOfParts
<1> HIDE DEF rest, first
<1>6. InOrder(rest)
  <2>1. SUFFICES ASSUME NEW i \in DOMAIN rest, NEW j \in DOMAIN rest, i < j
                 PROVE  rest[i].id < rest[j].id
    BY DEF InOrder
  <2>2. DOMAIN log = 1 .. Len(log) /\ DOMAIN rest = 1 .. Len(log) - n  BY <1>1
  <2>3. \A k \in DOMAIN rest : n + k \in DOMAIN log /\ rest[k] = log[n + k]
    BY <1>1, <2>2
  <2>4. i \in Int /\ j \in Int /\ n + i < n + j  BY <2>1, <2>2
  <2> QED  BY <2>1, <2>3, <2>4 DEF InOrder
<1>7. \A i \in 1 .. n : first[i].kinds \subseteq Kinds  BY <1>1 DEF Proper
<1>8. more \in Seq(Behalf("unlink", BodiesOf(first))) /\ ToSet(more) = Behalf("unlink", BodiesOf(first))
  <2>1. Len(first) \in Nat /\ DOMAIN first = 1 .. Len(first) /\ DOMAIN first = 1 .. n  BY <1>1
  <2> QED  BY <1>7, <2>1, OnBodiesElements DEF Behalf
<1>9. BodiesOf(first) \subseteq BodiesOf(log)
  <2>1. \A i \in DOMAIN first : i \in DOMAIN log /\ first[i] = log[i]  BY <1>1
  <2> QED  BY <2>1 DEF BodiesOf, ToSet
<1>10. Behalf("unlink", BodiesOf(first)) \subseteq T  BY <1>9 DEF Behalf
<1> HIDE DEF more
<1>11. more \in Seq(T)  BY <1>8, <1>10
<1>12. ChainInv(queue \o more, BodiesOf(rest))  BY <1>5, <1>8, <1>11, UnlinksQueued
<1>13. queue \o more \in Seq(T)  BY <1>11
<1>14. BytesOf(log) - BytesOf(first) = BytesOf(rest) /\ BytesOf(rest) <= BytesOf(log)  BY <1>3
<1> QED  BY <1>1, <1>3, <1>6, <1>12, <1>13, <1>14 DEF rest, first, more

(* A walk stands when the oldest entries go and no longer are owed ... *)
LEMMA WalkOutlivesRemoval ==
  ASSUME NEW S, NEW log \in Seq(S), NEW n \in 0 .. Len(log), Proper(log), InOrder(log),
         NEW w, WalkStands(w, log), w.cursor # Nil => w.cursor \in Nat,
         NEW v, v.on = w.on, v.cursor = w.cursor, v.listed = w.listed,
         v.owed = w.owed \ {log[i].id : i \in 1 .. n}
  PROVE  WalkStands(v, Rest(log, n))
<1> DEFINE rest == Rest(log, n)
<1>1. /\ rest \in Seq(S) /\ Len(rest) = Len(log) - n
      /\ \A i \in 1 .. Len(log) - n : rest[i] = log[n + i]
  BY ONLY log \in Seq(S), n \in 0 .. Len(log), Parts
<1>2. DOMAIN log = 1 .. Len(log) /\ DOMAIN rest = 1 .. Len(log) - n  BY <1>1
<1> HIDE DEF rest
<1>3. SUFFICES ASSUME w.on PROVE WalkStands(v, rest)  BY DEF WalkStands, rest
<1>4. ASSUME NEW id \in v.owed
      PROVE  \E i \in DOMAIN rest : rest[i].id = id /\ rest[i].shown
  <2>1. PICK i \in DOMAIN log : log[i].id = id /\ log[i].shown
    BY <1>3, <1>4 DEF WalkStands
  <2>2. i > n  BY <1>2, <1>4, <2>1
  <2>3. i - n \in DOMAIN rest /\ rest[i - n] = log[i]  BY <1>1, <1>2, <2>1, <2>2
  <2> QED  BY <2>1, <2>3
<1>5. ASSUME w.cursor # Nil
      PROVE  \/ \E i \in DOMAIN rest : rest[i].id = w.cursor
             \/ \A i \in DOMAIN rest : w.cursor < rest[i].id
  <2>1. \A i \in DOMAIN rest : n + i \in DOMAIN log /\ rest[i] = log[n + i]  BY <1>1, <1>2
  <2>2. CASE \A i \in DOMAIN log : w.cursor < log[i].id  BY <2>1, <2>2
  <2>3. CASE \E i \in DOMAIN log : log[i].id = w.cursor
    <3>1. PICK i \in DOMAIN log : log[i].id = w.cursor  BY <2>3
    <3>2. CASE i > n
      <4>1. i - n \in DOMAIN rest /\ rest[i - n] = log[i]  BY <1>1, <1>2, <3>2
      <4> QED  BY <3>1, <4>1
    <3>3. CASE i <= n
      <4>1. \A j \in DOMAIN rest : i < n + j  BY <1>2, <3>3
      <4> QED  BY <2>1, <3>1, <4>1 DEF InOrder
    <3> QED  BY <1>2, <3>2, <3>3
  <2> QED  BY <1>3, <1>5, <2>2, <2>3 DEF WalkStands
<1> QED  BY <1>3, <1>4, <1>5 DEF WalkStands

(* ... and when one is added. *)
LEMMA WalkOutlivesAdding ==
  ASSUME NEW S, NEW log \in Seq(S), NEW e,
         NEW w, WalkStands(w, log), w.cursor # Nil => w.cursor < e.id
  PROVE  WalkStands(w, Append(log, e))
<1> DEFINE more == Append(log, e)
<1>1. /\ DOMAIN more = 1 .. Len(log) + 1 /\ DOMAIN log = 1 .. Len(log) /\ Len(log) \in Nat
      /\ more[Len(log) + 1] = e
      /\ \A i \in DOMAIN log : more[i] = log[i]
  OBVIOUS
<1> HIDE DEF more
<1>2. \A i \in DOMAIN log : i \in DOMAIN more /\ more[i] = log[i]  BY <1>1
<1>3. \A i \in DOMAIN more : i \in DOMAIN log \/ more[i] = e  BY <1>1
<1> QED  BY <1>2, <1>3 DEF WalkStands, more

----------------------------------------------------------------------------
(* The inductive invariant, step by step. *)
LEMMA LogStarts == Init => LogInv
<1> SUFFICES ASSUME Init PROVE LogInv  OBVIOUS
<1> USE LogConstants DEF Init, LogConstants
<1>1. TypeOK  BY DEF TypeOK, NotReading, NotWalking
<1>2. entries = <<>> /\ DOMAIN entries = {}  OBVIOUS
<1>3. InOrder(entries)  BY <1>2 DEF InOrder
<1>4. BytesOf(entries) = 0  BY BytesOfNone
<1>5. CapsHold  BY <1>4 DEF CapsHold
<1>6. BodiesOf(entries) = {}  BY <1>2 DEF BodiesOf, ToSet
<1>7. DOMAIN pending = {}  OBVIOUS
<1>8. ChainInv(pending, BodiesOf(entries))
  BY <1>6, <1>7 DEF ChainInv, CleansUp, KeepsBodies, ReadersWait
<1>9. WalkStands(walk, entries)  BY DEF WalkStands, NotWalking
<1> QED  BY <1>1, <1>3, <1>5, <1>8, <1>9 DEF LogInv, ChainInv

LEMMA TypesGrow ==
  ASSUME seq \in Nat, now \in Nat, seq' \in Nat, now' \in Nat, seq <= seq', now <= now'
  PROVE  /\ AnEntry \subseteq AnEntry' /\ ABody \subseteq ABody'
         /\ Operation \subseteq Operation' /\ 1 .. seq \subseteq 1 .. seq'
<1>1. 1 .. seq \subseteq 1 .. seq' /\ 0 .. now \subseteq 0 .. now'  OBVIOUS
<1> QED  BY <1>1 DEF AnEntry, ABody, Operation

LEMMA EntriesAreProper ==
  ASSUME TypeOK
  PROVE  /\ Proper(entries) /\ Sized(entries)
         /\ BodiesOf(entries) \subseteq ABody
         /\ \A i \in DOMAIN entries : entries[i].id \in 1 .. seq
<1>1. \A i \in DOMAIN entries : entries[i] \in AnEntry  BY DEF TypeOK
<1>2. seq \in Nat  BY LogConstants DEF TypeOK, LogConstants
<1>3. Proper(entries) /\ Sized(entries)  BY <1>1, <1>2 DEF Proper, Sized, AnEntry
<1>4. BodiesOf(entries) \subseteq ABody
  BY <1>1 DEF BodiesOf, ToSet, Bodies, Body, ABody, AnEntry
<1> QED  BY <1>1, <1>3, <1>4 DEF AnEntry

(* The removal of the n oldest entries of log, which add() has added to. *)
LEMMA Dropping ==
  ASSUME NEW S, NEW T, NEW log \in Seq(S), NEW queue \in Seq(T), NEW n \in 0 .. Len(log),
         NEW bytes, bytes = BytesOf(log),
         Proper(log), InOrder(log), Behalf("unlink", BodiesOf(log)) \subseteq T,
         ChainInv(queue, BodiesOf(log)), WalkStands(walk, log),
         walk.cursor # Nil => walk.cursor \in Nat,
         walk = [on |-> walk.on, cursor |-> walk.cursor,
                 listed |-> walk.listed, owed |-> walk.owed],
         DropOldest(log, bytes, n, queue), UNCHANGED <<files, failed, reading>>
  PROVE  /\ entries' \in Seq(S) /\ Len(entries') = Len(log) - n
         /\ InOrder(entries)'
         /\ totalBodyBytes' \in Nat
         /\ (totalBodyBytes = BytesOf(entries))'
         /\ totalBodyBytes' <= bytes
         /\ totalBodyBytes' = bytes - BytesOf(Prefix(log, n))
         /\ pending' \in Seq(T)
         /\ ChainInv(pending, BodiesOf(entries))'
         /\ WalkStands(walk, entries)'
         /\ walk' = [walk EXCEPT !.owed = @ \ {log[i].id : i \in 1 .. n}]
<1> DEFINE rest == Rest(log, n)
           all == queue \o OnBodies("unlink", Prefix(log, n))
<1>1. /\ entries' = rest /\ totalBodyBytes' = bytes - BytesOf(Prefix(log, n))
      /\ pending' = all
      /\ walk' = [walk EXCEPT !.owed = @ \ {log[i].id : i \in 1 .. n}]
  BY DEF DropOldest
<1>2. /\ rest \in Seq(S) /\ Len(rest) = Len(log) - n
      /\ InOrder(rest)
      /\ BytesOf(rest) \in Nat
      /\ BytesOf(log) - BytesOf(Prefix(log, n)) = BytesOf(rest)
      /\ BytesOf(rest) <= BytesOf(log)
      /\ all \in Seq(T)
      /\ ChainInv(all, BodiesOf(rest))
  BY OldestRemoved
<1>3. WalkStands(walk', rest)
  <2>1. /\ walk'.on = walk.on /\ walk'.cursor = walk.cursor /\ walk'.listed = walk.listed
        /\ walk'.owed = walk.owed \ {log[i].id : i \in 1 .. n}
    BY <1>1
  <2> HIDE DEF rest, all
  <2>2. WalkStands(walk', Rest(log, n))  BY <2>1, WalkOutlivesRemoval
  <2> QED  BY <2>2 DEF rest
<1> HIDE DEF rest, all
<1>4. ChainInv(pending, BodiesOf(entries))'
  BY <1>1, <1>2 DEF ChainInv, CleansUp, KeepsBodies, ReadersWait
<1>5. InOrder(entries)' /\ WalkStands(walk, entries)' /\ (totalBodyBytes = BytesOf(entries))'
  BY <1>1, <1>2, <1>3
<1> QED  BY <1>1, <1>2, <1>4, <1>5

LEMMA AddStep ==
  ASSUME LogInv, NEW draft \in Drafts, NEW startedAt \in 0 .. now, Add(draft, startedAt)
  PROVE  LogInv'
<1> DEFINE e == [id |-> seq + 1, startedAt |-> startedAt, kinds |-> draft.kinds,
                 bytes |-> draft.bytes, shown |-> draft.shown]
           log == Append(entries, e)
           bytes == totalBodyBytes + draft.bytes
           writes == OnBodies("write", <<e>>)
           queue == pending \o writes
           new == BodiesOf(<<e>>)
<1>1. /\ seq < MaxAdds /\ seq' = seq + 1
      /\ EnforceCaps(log, bytes, queue)
      /\ UNCHANGED <<now, directory, files, failed, reading>>
  BY DEF Add
<1>2. TypeOK /\ seq \in Nat /\ now \in Nat /\ MaxAdds \in Nat
  BY LogConstants DEF LogInv, TypeOK, LogConstants
<1>3. /\ AnEntry \subseteq AnEntry' /\ ABody \subseteq ABody'
      /\ Operation \subseteq Operation' /\ 1 .. seq \subseteq 1 .. seq'
  BY <1>1, <1>2, TypesGrow
<1>4. /\ Proper(entries) /\ Sized(entries) /\ BodiesOf(entries) \subseteq ABody
      /\ \A i \in DOMAIN entries : entries[i].id \in 1 .. seq
  BY <1>2, EntriesAreProper
<1>5. draft.kinds \subseteq Kinds /\ draft.bytes \in Nat /\ draft.shown \in BOOLEAN
  BY LogConstants DEF LogConstants
<1>6. /\ e \in AnEntry' /\ e.id = seq + 1 /\ e.bytes = draft.bytes /\ e.kinds = draft.kinds
  BY <1>1, <1>2, <1>5 DEF AnEntry
<1>7. new = Bodies(e)  BY DEF BodiesOf, ToSet
<1>8. new \subseteq ABody' /\ \A body \in new : body.id = seq + 1
  <2>1. seq + 1 \in 1 .. seq'  BY <1>1, <1>2
  <2> QED  BY <1>5, <1>6, <1>7, <2>1 DEF Bodies, Body, ABody
<1> HIDE DEF e
<1>9. /\ writes \in Seq(Behalf("write", new)) /\ ToSet(writes) = Behalf("write", new)
  <2>1. Len(<<e>>) \in Nat /\ DOMAIN <<e>> = 1 .. Len(<<e>>)  OBVIOUS
  <2>2. \A i \in DOMAIN <<e>> : <<e>>[i].kinds \subseteq Kinds  BY <1>5, <1>6
  <2> QED  BY <2>1, <2>2, OnBodiesElements DEF Behalf
<1>10. entries \in Seq(AnEntry') /\ pending \in Seq(Operation') /\ pending \in Seq(Operation)
  BY <1>2, <1>3 DEF TypeOK
<1>11. writes \in Seq(Operation')
  <2>1. Behalf("write", new) \subseteq Operation'  BY <1>8 DEF Behalf, Operation
  <2> QED  BY <1>9, <2>1
<1>12. BodiesOf(log) = BodiesOf(entries) \cup new
  <2>1. /\ DOMAIN log = 1 .. Len(entries) + 1 /\ DOMAIN entries = 1 .. Len(entries)
        /\ Len(entries) \in Nat /\ log[Len(entries) + 1] = e
        /\ \A i \in DOMAIN entries : log[i] = entries[i]
    BY <1>10
  <2> HIDE DEF log, new
  <2>2. \A i : i \in DOMAIN log <=> i \in DOMAIN entries \/ i = Len(entries) + 1  BY <2>1
  <2>3. \A b : b \in BodiesOf(log) <=> \E i \in DOMAIN log : b \in Bodies(log[i])
    BY DEF BodiesOf, ToSet
  <2>4. \A b : b \in BodiesOf(entries) <=> \E i \in DOMAIN entries : b \in Bodies(entries[i])
    BY DEF BodiesOf, ToSet
  <2>5. \A b : b \in BodiesOf(log) <=> b \in BodiesOf(entries) \/ b \in new
    BY <1>7, <2>1, <2>2, <2>3, <2>4
  <2> QED  BY <2>5
<1> HIDE DEF writes, new
<1>13. queue \in Seq(Operation')  BY <1>10, <1>11
<1>14. ChainInv(queue, BodiesOf(log))
  <2>1. \A i \in DOMAIN pending : pending[i].body \in ABody
    <3>1. \A i \in DOMAIN pending : pending[i] \in Operation  BY <1>2 DEF TypeOK
    <3> QED  BY <3>1 DEF Operation
  <2>2. \A body \in ABody : body.id # seq + 1  BY <1>2 DEF ABody
  <2>3. \A i \in DOMAIN pending : pending[i].body \notin new  BY <1>8, <2>1, <2>2
  <2>4. \A r \in Readers : reading[r].body = Nil \/ reading[r].body \notin new
    BY <1>2, <1>8, <2>2 DEF TypeOK
  <2>5. ChainInv(pending, BodiesOf(entries))  BY DEF LogInv, ChainInv
  <2> QED  BY <1>9, <1>10, <1>11, <1>12, <2>3, <2>4, <2>5, WritesQueued
<1>15. log \in Seq(AnEntry') /\ Len(log) = Len(entries) + 1 /\ Len(entries) \in Nat
  BY <1>6, <1>10
<1>16. /\ \A i \in DOMAIN log : i \in DOMAIN entries \/ i = Len(entries) + 1
       /\ \A i \in DOMAIN entries : log[i] = entries[i] /\ i <= Len(entries)
       /\ log[Len(entries) + 1] = e
  BY <1>10
<1>17. Proper(log)  BY <1>2, <1>4, <1>5, <1>6, <1>16 DEF Proper
<1>18. InOrder(log)
  <2>1. SUFFICES ASSUME NEW i \in DOMAIN log, NEW j \in DOMAIN log, i < j
                 PROVE  log[i].id < log[j].id
    BY DEF InOrder
  <2>2. i \in DOMAIN entries  BY <1>15, <1>16, <2>1
  <2>3. CASE j \in DOMAIN entries  BY <1>16, <2>1, <2>2, <2>3 DEF LogInv, InOrder
  <2>4. CASE j = Len(entries) + 1  BY <1>2, <1>4, <1>6, <1>16, <2>2, <2>4
  <2> QED  BY <1>16, <2>1, <2>3, <2>4
<1>19. bytes = BytesOf(log)
  <2>1. BytesOf(log) = BytesOf(entries) + e.bytes  BY <1>4, <1>5, <1>6, <1>10, BytesOfAppend
  <2> QED  BY <1>6, <2>1 DEF LogInv, CapsHold
<1>20. /\ walk.cursor # Nil => walk.cursor \in Nat /\ walk.cursor < e.id
       /\ walk = [on |-> walk.on, cursor |-> walk.cursor,
                  listed |-> walk.listed, owed |-> walk.owed]
  BY <1>2, <1>6 DEF TypeOK
<1>21. WalkStands(walk, log)  BY <1>10, <1>20, WalkOutlivesAdding DEF LogInv
<1>22. Behalf("unlink", BodiesOf(log)) \subseteq Operation'
  BY <1>3, <1>4, <1>8, <1>12 DEF Behalf, Operation
<1> HIDE DEF log, queue, bytes
<1>23. PICK n \in 0 .. Len(log) : WithinCaps(log, bytes, n) /\ DropOldest(log, bytes, n, queue)
  BY <1>1 DEF EnforceCaps
<1>24. /\ entries' \in Seq(AnEntry') /\ Len(entries') = Len(log) - n
       /\ InOrder(entries)'
       /\ totalBodyBytes' \in Nat
       /\ (totalBodyBytes = BytesOf(entries))'
       /\ totalBodyBytes' = bytes - BytesOf(Prefix(log, n))
       /\ pending' \in Seq(Operation')
       /\ ChainInv(pending, BodiesOf(entries))'
       /\ WalkStands(walk, entries)'
       /\ walk' = [walk EXCEPT !.owed = @ \ {log[i].id : i \in 1 .. n}]
  BY <1>1, <1>13, <1>14, <1>15, <1>17, <1>18, <1>19, <1>20, <1>21, <1>22, <1>23, Dropping
<1>25. CapsHold'
  <2>1. Len(entries') <= MaxEntries  BY <1>23, <1>24 DEF WithinCaps
  <2>2. CASE bytes - BytesOf(Prefix(log, n)) <= MaxBytes  BY <1>24, <2>1, <2>2 DEF CapsHold
  <2>3. CASE n = Len(log)
    <3>1. entries' = <<>>  BY <1>15, <1>24, <2>3
    <3>2. BytesOf(entries') = 0  BY <3>1, BytesOfNone
    <3>3. totalBodyBytes' = BytesOf(entries')  BY <1>24
    <3>4. totalBodyBytes' <= MaxBytes  BY <3>2, <3>3, LogConstants DEF LogConstants
    <3> QED  BY <2>1, <3>3, <3>4 DEF CapsHold
  <2> QED  BY <1>23, <2>2, <2>3 DEF WithinCaps
<1>26. TypeOK'
  <2>1. seq' \in 0 .. MaxAdds /\ (now \in 0 .. MaxNow)'  BY <1>1, <1>2 DEF TypeOK
  <2>2. /\ (files \subseteq ABody)' /\ (failed \subseteq ABody)'
        /\ (directory \in {"unknown", "ready", "unusable"})'
    BY <1>1, <1>2, <1>3 DEF TypeOK
  <2>3. (reading \in [Readers -> [body : ABody \cup {Nil}, ahead : Nat]])'
    <3>1. [body : ABody \cup {Nil}, ahead : Nat] \subseteq [body : ABody' \cup {Nil}, ahead : Nat]
      BY <1>3
    <3> QED  BY <1>1, <1>2, <3>1 DEF TypeOK
  <2>4. (walk \in [on : BOOLEAN, cursor : 1 .. seq \cup {Nil},
                   listed : SUBSET (1 .. seq), owed : SUBSET (1 .. seq)])'
    BY <1>2, <1>3, <1>24 DEF TypeOK
  <2> QED  BY <1>24, <2>1, <2>2, <2>3, <2>4 DEF TypeOK
<1> QED  BY <1>24, <1>25, <1>26 DEF LogInv, ChainInv

(* applyRetention() and clear() remove some of the oldest entries. *)
LEMMA RemovalStep ==
  ASSUME LogInv, NEW n \in 0 .. Len(entries),
         DropOldest(entries, totalBodyBytes, n, pending),
         UNCHANGED <<seq, now, directory, files, failed, reading>>
  PROVE  LogInv'
<1>1. TypeOK /\ seq \in Nat /\ now \in Nat
  BY LogConstants DEF LogInv, TypeOK, LogConstants
<1>2. /\ Proper(entries) /\ BodiesOf(entries) \subseteq ABody
  BY <1>1, EntriesAreProper
<1>3. /\ AnEntry' = AnEntry /\ ABody' = ABody /\ Operation' = Operation
  BY DEF AnEntry, ABody, Operation
<1>4. Behalf("unlink", BodiesOf(entries)) \subseteq Operation  BY <1>2 DEF Behalf, Operation
<1>5. /\ walk.cursor # Nil => walk.cursor \in Nat
      /\ walk = [on |-> walk.on, cursor |-> walk.cursor,
                 listed |-> walk.listed, owed |-> walk.owed]
  BY <1>1 DEF TypeOK
<1>6. /\ entries \in Seq(AnEntry) /\ pending \in Seq(Operation)
      /\ InOrder(entries) /\ CapsHold
      /\ ChainInv(pending, BodiesOf(entries)) /\ WalkStands(walk, entries)
  BY <1>1 DEF LogInv, TypeOK, ChainInv
<1>7. totalBodyBytes = BytesOf(entries)  BY <1>6 DEF CapsHold
<1>8. /\ entries' \in Seq(AnEntry) /\ Len(entries') = Len(entries) - n
      /\ InOrder(entries)'
      /\ totalBodyBytes' \in Nat
      /\ (totalBodyBytes = BytesOf(entries))'
      /\ totalBodyBytes' <= totalBodyBytes
      /\ pending' \in Seq(Operation)
      /\ ChainInv(pending, BodiesOf(entries))'
      /\ WalkStands(walk, entries)'
      /\ walk' = [walk EXCEPT !.owed = @ \ {entries[i].id : i \in 1 .. n}]
  BY <1>2, <1>4, <1>5, <1>6, <1>7, Dropping
<1>9. CapsHold'
  <2>1. Len(entries) <= MaxEntries /\ totalBodyBytes <= MaxBytes  BY <1>6 DEF CapsHold
  <2>2. totalBodyBytes \in Nat /\ Len(entries) \in Nat /\ MaxEntries \in Nat /\ MaxBytes \in Nat
    BY <1>1, <1>6, LogConstants DEF TypeOK, LogConstants
  <2> QED  BY <1>8, <2>1, <2>2 DEF CapsHold
<1>10. TypeOK'
  <2>1. (walk \in [on : BOOLEAN, cursor : 1 .. seq \cup {Nil},
                   listed : SUBSET (1 .. seq), owed : SUBSET (1 .. seq)])'
    BY <1>1, <1>8 DEF TypeOK
  <2> QED  BY <1>1, <1>3, <1>8, <2>1 DEF TypeOK
<1> QED  BY <1>8, <1>9, <1>10 DEF LogInv, ChainInv

LEMMA TickStep ==
  ASSUME LogInv, Tick
  PROVE  LogInv'
<1>1. /\ now < MaxNow /\ now' = now + 1
      /\ UNCHANGED <<entries, totalBodyBytes, seq, pending, directory, files, failed, reading, walk>>
  BY DEF Tick, logVars
<1>2. TypeOK /\ seq \in Nat /\ now \in Nat /\ MaxNow \in Nat
  BY LogConstants DEF LogInv, TypeOK, LogConstants
<1>3. /\ AnEntry \subseteq AnEntry' /\ ABody' = ABody /\ Operation' = Operation
  BY <1>1, <1>2, TypesGrow DEF ABody, Operation
<1>4. TypeOK'
  <2>1. entries' \in Seq(AnEntry')  BY <1>1, <1>2, <1>3 DEF TypeOK
  <2> QED  BY <1>1, <1>2, <1>3, <2>1 DEF TypeOK
<1> QED
  BY <1>1, <1>4 DEF LogInv, InOrder, CapsHold, CleansUp, KeepsBodies, ReadersWait, WalkStands, Due

(* The chain's next operation is done: what it named is as it left it, and   *)
(* whatever waits behind it moves up by one.                                 *)
LEMMA TailOfQueue ==
  ASSUME NEW S, NEW queue \in Seq(S), queue # <<>>
  PROVE  /\ Tail(queue) \in Seq(S) /\ Head(queue) \in S
         /\ 1 \in DOMAIN queue /\ Head(queue) = queue[1]
         /\ \A i \in DOMAIN queue : i \in Nat /\ i >= 1
         /\ \A i \in DOMAIN queue : i # 1 =>
              i - 1 \in DOMAIN Tail(queue) /\ Tail(queue)[i - 1] = queue[i]
         /\ \A i \in DOMAIN Tail(queue) :
              i \in Nat /\ i + 1 \in DOMAIN queue /\ Tail(queue)[i] = queue[i + 1]
  OBVIOUS

LEMMA OperationStep ==
  ASSUME LogInv, Write \/ Unlink
  PROVE  LogInv'
<1> DEFINE stored == BodiesOf(entries)
           body == Head(pending).body
           op == Head(pending).op
           tail == Tail(pending)
<1>1. /\ pending # <<>> /\ pending' = tail
      /\ reading' = [r \in Readers |-> [reading[r] EXCEPT !.ahead = IF @ > 0 THEN @ - 1 ELSE 0]]
      /\ UNCHANGED <<entries, totalBodyBytes, seq, now, walk>>
  BY DEF Write, Unlink, NextOperation, logVars
<1>2. TypeOK /\ pending \in Seq(Operation)  BY DEF LogInv, TypeOK
<1>3. /\ tail \in Seq(Operation) /\ Head(pending) \in Operation
      /\ 1 \in DOMAIN pending /\ Head(pending) = pending[1]
      /\ \A i \in DOMAIN pending : i \in Nat /\ i >= 1
      /\ \A i \in DOMAIN pending : i # 1 => i - 1 \in DOMAIN tail /\ tail[i - 1] = pending[i]
      /\ \A i \in DOMAIN tail : i \in Nat /\ i + 1 \in DOMAIN pending /\ tail[i] = pending[i + 1]
  BY <1>1, <1>2, TailOfQueue
<1>4. body \in ABody /\ op \in {"write", "unlink"} /\ Head(pending) = [op |-> op, body |-> body]
  BY <1>3 DEF Operation
<1>5. \/ /\ op = "write" /\ files' = files \cup {body} /\ failed' = failed
      \/ /\ op = "unlink" /\ files' = files \ {body} /\ failed' = failed
      \/ /\ files' = files /\ failed' = failed \cup {body}
  BY <1>1 DEF Write, Unlink
<1>6. directory' \in {"unknown", "ready", "unusable"}
  BY <1>2 DEF TypeOK, Write, Unlink
<1>7. CleansUp(pending, stored) /\ KeepsBodies(pending, stored) /\ ReadersWait(pending, stored)
  BY DEF LogInv
<1> HIDE DEF stored, body, op, tail
<1>8. \A o, b : Due(o, b, pending) => Due(o, b, tail) \/ (o = op /\ b = body)
  <2>1. SUFFICES ASSUME NEW o, NEW b, Due(o, b, pending), ~ (o = op /\ b = body)
                 PROVE  Due(o, b, tail)
    OBVIOUS
  <2>2. PICK i \in DOMAIN pending : pending[i] = [op |-> o, body |-> b]
    BY <2>1 DEF Due, ToSet
  <2>3. i # 1  BY <1>3, <1>4, <2>1, <2>2
  <2>4. i - 1 \in DOMAIN tail /\ tail[i - 1] = [op |-> o, body |-> b]  BY <1>3, <2>2, <2>3
  <2> QED  BY <2>4 DEF Due, ToSet
<1>9. (CleansUp(pending, BodiesOf(entries)))'
  <2>1. ASSUME NEW b \in files'
        PROVE  b \in stored \/ b \in failed' \/ Due("unlink", b, tail)
    <3>1. CASE b = body /\ op = "write"
      <4>1. \/ body \in stored
            \/ \E j \in DOMAIN pending : 1 < j /\ pending[j] = [op |-> "unlink", body |-> body]
        BY <1>3, <1>4, <1>7, <3>1 DEF CleansUp
      <4>2. ASSUME NEW j \in DOMAIN pending, 1 < j, pending[j] = [op |-> "unlink", body |-> body]
            PROVE  Due("unlink", body, tail)
        <5>1. j - 1 \in DOMAIN tail /\ tail[j - 1] = [op |-> "unlink", body |-> body]
          BY <1>3, <4>2
        <5> QED  BY <5>1 DEF Due, ToSet
      <4> QED  BY <3>1, <4>1, <4>2
    <3>2. CASE ~ (b = body /\ op = "write")
      <4>1. b \in files  BY <1>5, <2>1, <3>2
      <4>2. b \in stored \/ b \in failed \/ Due("unlink", b, pending)
        BY <1>7, <4>1 DEF CleansUp
      <4>3. b = body /\ op = "unlink" => b \in failed'  BY <1>5, <2>1
      <4>4. failed \subseteq failed'  BY <1>5
      <4> QED  BY <1>8, <4>2, <4>3, <4>4
    <3> QED  BY <3>1, <3>2
  <2>2. ASSUME NEW i \in DOMAIN tail, tail[i].op = "write"
        PROVE  \/ tail[i].body \in stored
               \/ \E j \in DOMAIN tail : i < j /\ tail[j] = [op |-> "unlink", body |-> tail[i].body]
    <3>1. i + 1 \in DOMAIN pending /\ tail[i] = pending[i + 1] /\ i \in Nat  BY <1>3
    <3>2. \/ tail[i].body \in stored
          \/ \E j \in DOMAIN pending :
               i + 1 < j /\ pending[j] = [op |-> "unlink", body |-> tail[i].body]
      BY <1>7, <2>2, <3>1 DEF CleansUp
    <3>3. ASSUME NEW j \in DOMAIN pending, i + 1 < j
          PROVE  j - 1 \in DOMAIN tail /\ i < j - 1 /\ tail[j - 1] = pending[j]
      BY <1>3, <3>1, <3>3
    <3> QED  BY <3>2, <3>3
  <2> QED  BY <1>1, <2>1, <2>2 DEF CleansUp, stored
<1>10. failed \subseteq failed'  BY <1>5
<1>11. (KeepsBodies(pending, BodiesOf(entries)))'
  <2>1. ASSUME NEW i \in DOMAIN tail, tail[i].op = "unlink" PROVE tail[i].body \notin stored
    BY <1>3, <1>7, <2>1 DEF KeepsBodies
  <2>2. ASSUME NEW b \in stored \ failed' PROVE b \in files' \/ Due("write", b, tail)
    <3>1. b \in files \/ Due("write", b, pending)  BY <1>7, <1>10, <2>2 DEF KeepsBodies
    <3>2. b = body => op # "unlink"  BY <1>3, <1>7, <2>2 DEF KeepsBodies, op, body
    <3>3. b = body /\ op = "write" => b \in files'  BY <1>5, <2>2
    <3>4. b \in files => b \in files'  BY <1>5, <3>2
    <3> QED  BY <1>8, <3>1, <3>3, <3>4
  <2> QED  BY <1>1, <2>1, <2>2 DEF KeepsBodies, stored
<1>12. (ReadersWait(pending, BodiesOf(entries)))'
  <2>1. ASSUME NEW r \in Readers, reading'[r].body # Nil, reading'[r].body \in stored \ failed'
        PROVE  \/ reading'[r].body \in files'
               \/ \E i \in DOMAIN tail :
                    i <= reading'[r].ahead /\ tail[i] = [op |-> "write", body |-> reading'[r].body]
    <3> DEFINE b == reading[r].body
               ahead == reading[r].ahead
    <3>1. /\ reading'[r].body = b /\ ahead \in Nat
          /\ reading'[r].ahead = IF ahead > 0 THEN ahead - 1 ELSE 0
      BY <1>1, <1>2 DEF TypeOK
    <3>2. b # Nil /\ b \in stored \ failed'  BY <2>1, <3>1
    <3> HIDE DEF b, ahead
    <3>3. \/ b \in files
          \/ \E i \in DOMAIN pending : i <= ahead /\ pending[i] = [op |-> "write", body |-> b]
      BY <1>7, <1>10, <3>2 DEF ReadersWait, b, ahead
    <3>4. b = body => op # "unlink"  BY <1>3, <1>7, <3>2 DEF KeepsBodies, op, body
    <3>5. b \in files => b \in files'  BY <1>5, <3>4
    <3>6. ASSUME NEW i \in DOMAIN pending, i <= ahead, pending[i] = [op |-> "write", body |-> b]
          PROVE  \/ b \in files'
                 \/ \E k \in DOMAIN tail :
                      k <= reading'[r].ahead /\ tail[k] = [op |-> "write", body |-> b]
      <4>1. CASE i = 1
        <5>1. b = body /\ op = "write"  BY <1>3, <3>6, <4>1 DEF body, op
        <5> QED  BY <1>5, <3>2, <5>1
      <4>2. CASE i # 1
        <5>1. i - 1 \in DOMAIN tail /\ tail[i - 1] = pending[i]  BY <1>3, <4>2
        <5>2. i - 1 <= reading'[r].ahead  BY <1>3, <3>1, <3>6, <4>2
        <5> QED  BY <3>6, <5>1, <5>2
      <4> QED  BY <4>1, <4>2
    <3> QED  BY <3>1, <3>3, <3>5, <3>6
  <2> QED  BY <1>1, <2>1 DEF ReadersWait, stored
<1>13. TypeOK'
  <2>1. /\ AnEntry' = AnEntry /\ ABody' = ABody /\ Operation' = Operation
    BY <1>1 DEF AnEntry, ABody, Operation
  <2>2. files' \subseteq ABody /\ failed' \subseteq ABody  BY <1>2, <1>4, <1>5 DEF TypeOK
  <2>3. reading' \in [Readers -> [body : ABody \cup {Nil}, ahead : Nat]]
    <3>1. ASSUME NEW r \in Readers
          PROVE  [reading[r] EXCEPT !.ahead = IF @ > 0 THEN @ - 1 ELSE 0]
                   \in [body : ABody \cup {Nil}, ahead : Nat]
      <4>1. PICK reads \in [body : ABody \cup {Nil}, ahead : Nat] : reading[r] = reads
        BY <1>2 DEF TypeOK
      <4>2. [reads EXCEPT !.ahead = IF @ > 0 THEN @ - 1 ELSE 0]
              \in [body : ABody \cup {Nil}, ahead : Nat]
        OBVIOUS
      <4> QED  BY <4>1, <4>2, Zenon
    <3> QED  BY <1>1, <3>1
  <2> QED  BY <1>1, <1>2, <1>3, <1>6, <2>1, <2>2, <2>3 DEF TypeOK
<1>14. InOrder(entries)' /\ CapsHold' /\ WalkStands(walk, entries)'
  BY <1>1 DEF LogInv, InOrder, CapsHold, WalkStands
<1> QED  BY <1>9, <1>11, <1>12, <1>13, <1>14 DEF LogInv

LEMMA StartReadStep ==
  ASSUME LogInv, NEW r \in Readers, NEW body \in StoredBodies, StartRead(r, body)
  PROVE  LogInv'
<1>1. /\ reading' = [reading EXCEPT ![r] = [body |-> body, ahead |-> Len(pending)]]
      /\ UNCHANGED <<entries, totalBodyBytes, seq, now, pending, directory, files, failed, walk>>
  BY DEF StartRead, logVars
<1>2. TypeOK /\ pending \in Seq(Operation)  BY DEF LogInv, TypeOK
<1>3. body \in BodiesOf(entries) /\ body \in ABody
  BY <1>2, EntriesAreProper DEF StoredBodies, BodiesOf
<1>4. AnEntry' = AnEntry /\ ABody' = ABody /\ Operation' = Operation
  BY <1>1 DEF AnEntry, ABody, Operation
<1>5. TypeOK'
  <2>1. reading' \in [Readers -> [body : ABody \cup {Nil}, ahead : Nat]]
    BY <1>1, <1>2, <1>3 DEF TypeOK
  <2> QED  BY <1>1, <1>2, <1>4, <2>1 DEF TypeOK
<1>6. (ReadersWait(pending, BodiesOf(entries)))'
  <2>1. ASSUME NEW q \in Readers, reading'[q].body # Nil,
               reading'[q].body \in BodiesOf(entries) \ failed
        PROVE  \/ reading'[q].body \in files
               \/ \E i \in DOMAIN pending : /\ i <= reading'[q].ahead
                                            /\ pending[i] = [op |-> "write", body |-> reading'[q].body]
    <3>1. CASE q # r
      <4>1. reading'[q] = reading[q]  BY <1>1, <1>2, <3>1 DEF TypeOK
      <4> QED  BY <2>1, <4>1 DEF LogInv, ReadersWait
    <3>2. CASE q = r
      <4>1. reading'[q] = [body |-> body, ahead |-> Len(pending)]
        BY <1>1, <1>2, <3>2 DEF TypeOK
      <4>2. body \in files \/ Due("write", body, pending)
        BY <1>3, <2>1, <4>1 DEF LogInv, KeepsBodies
      <4>3. \A i \in DOMAIN pending : i <= Len(pending)  BY <1>2
      <4> QED  BY <4>1, <4>2, <4>3 DEF Due, ToSet
    <3> QED  BY <3>1, <3>2
  <2> QED  BY <1>1, <2>1 DEF ReadersWait
<1> QED
  BY <1>1, <1>5, <1>6 DEF LogInv, InOrder, CapsHold, CleansUp, KeepsBodies, WalkStands, Due

LEMMA FinishReadStep ==
  ASSUME LogInv, NEW r \in Readers, FinishRead(r)
  PROVE  LogInv'
<1>1. /\ reading' = [reading EXCEPT ![r] = NotReading]
      /\ UNCHANGED <<entries, totalBodyBytes, seq, now, pending, directory, files, failed, walk>>
  BY DEF FinishRead, logVars
<1>2. TypeOK  BY DEF LogInv
<1>3. AnEntry' = AnEntry /\ ABody' = ABody /\ Operation' = Operation
  BY <1>1 DEF AnEntry, ABody, Operation
<1>4. TypeOK'
  <2>1. reading' \in [Readers -> [body : ABody \cup {Nil}, ahead : Nat]]
    BY <1>1, <1>2 DEF TypeOK, NotReading
  <2> QED  BY <1>1, <1>2, <1>3, <2>1 DEF TypeOK
<1>5. (ReadersWait(pending, BodiesOf(entries)))'
  <2>1. \A q \in Readers : reading'[q] = reading[q] \/ reading'[q].body = Nil
    BY <1>1, <1>2 DEF TypeOK, NotReading
  <2> QED  BY <1>1, <2>1 DEF LogInv, ReadersWait
<1> QED
  BY <1>1, <1>4, <1>5 DEF LogInv, InOrder, CapsHold, CleansUp, KeepsBodies, WalkStands, Due

----------------------------------------------------------------------------
(* The pages of a walk. *)

(* Every candidate lies behind the cursor, and all that is owed is one. *)
LEMMA CandidatesFound ==
  ASSUME LogInv, walk.on
  PROVE  LET candidates == Candidates(walk.cursor) IN
         /\ candidates \subseteq 1 .. Len(entries)
         /\ \A i \in candidates : /\ entries[i].shown
                                  /\ walk.cursor # Nil => entries[i].id < walk.cursor
         /\ \A id \in walk.owed : \E i \in candidates : entries[i].id = id
<1> DEFINE cursor == walk.cursor
           candidates == Candidates(cursor)
<1>1. TypeOK /\ InOrder(entries) /\ WalkStands(walk, entries)  BY DEF LogInv
<1>2. /\ DOMAIN entries = 1 .. Len(entries) /\ Len(entries) \in Nat
      /\ \A i \in DOMAIN entries : entries[i].id \in Nat
      /\ cursor # Nil => cursor \in Nat
  BY <1>1, EntriesAreProper DEF TypeOK, Proper
<1>3. \A id \in walk.owed : \E i \in DOMAIN entries : entries[i].id = id /\ entries[i].shown
  BY <1>1 DEF WalkStands
<1>4. CASE cursor = Nil
  <2>1. candidates = {i \in 1 .. Len(entries) : entries[i].shown}
    BY <1>4 DEF Candidates, Behind
  <2> QED  BY <1>2, <1>3, <1>4, <2>1
<1>5. CASE cursor # Nil /\ cursor \in Ids
  <2> DEFINE k == CHOOSE i \in DOMAIN entries : entries[i].id = cursor
  <2>1. k \in DOMAIN entries /\ entries[k].id = cursor  BY <1>5 DEF Ids
  <2>2. candidates = {i \in 1 .. k - 1 : entries[i].shown}
    BY <1>5 DEF Candidates, Behind
  <2> HIDE DEF k, candidates, cursor
  <2>3. \A i \in 1 .. k - 1 : i \in DOMAIN entries /\ i < k  BY <1>2, <2>1
  <2>4. \A i \in candidates : entries[i].shown /\ entries[i].id < cursor
    BY <1>1, <2>1, <2>2, <2>3 DEF InOrder
  <2>5. ASSUME NEW id \in walk.owed PROVE \E i \in candidates : entries[i].id = id
    <3>1. PICK i \in DOMAIN entries : entries[i].id = id /\ entries[i].shown  BY <1>3, <2>5
    <3>2. id < cursor  BY <1>1, <1>5, <2>5 DEF WalkStands, cursor
    <3>3. ~ (k < i) /\ k # i
      BY <1>1, <1>2, <2>1, <3>1, <3>2 DEF InOrder
    <3>4. i \in 1 .. k - 1  BY <1>2, <2>1, <3>3
    <3> QED  BY <2>2, <3>1, <3>4
  <2>6. candidates \subseteq 1 .. Len(entries)  BY <1>2, <2>2, <2>3
  <2> QED  BY <2>4, <2>5, <2>6 DEF candidates, cursor
<1>6. CASE cursor # Nil /\ cursor \notin Ids
  <2>1. candidates = {}  BY <1>6 DEF Candidates, Behind
  <2>2. \A i \in DOMAIN entries : cursor < entries[i].id
    BY <1>1, <1>6 DEF WalkStands, Ids
  <2>3. walk.owed = {}
    <3>1. SUFFICES ASSUME NEW id \in walk.owed PROVE FALSE  OBVIOUS
    <3>2. PICK i \in DOMAIN entries : entries[i].id = id  BY <1>3
    <3>3. id < cursor  BY <1>1, <1>6 DEF WalkStands
    <3> QED  BY <1>2, <1>6, <2>2, <3>2, <3>3
  <2> QED  BY <2>1, <2>3
<1> QED  BY <1>4, <1>5, <1>6

(* A set of positions that has a member has a first and a last one. *)
LEMMA EndsOf ==
  ASSUME NEW n \in Nat, NEW P \in SUBSET (1 .. n), P # {}
  PROVE  /\ \E i \in P : \A j \in P : i <= j
         /\ \E i \in P : \A j \in P : j <= i
<1>1. P \in SUBSET Nat /\ \A i \in P : i \in Int /\ n - i \in Nat  OBVIOUS
<1>2. \E i \in P : \A j \in P : i <= j  BY <1>1, FirstOf
<1> DEFINE M == {n - i : i \in P}
<1>3. M \in SUBSET Nat /\ M # {}  BY <1>1
<1>4. PICK m \in M : \A k \in M : m <= k
  <2> HIDE DEF M
  <2> QED  BY <1>3, FirstOf
<1>5. PICK i \in P : m = n - i  OBVIOUS
<1>6. \A j \in P : j <= i
  <2>1. TAKE j \in P
  <2>2. n - j \in M /\ i \in Int /\ j \in Int  BY <1>1
  <2>3. n - i <= n - j  BY <1>4, <1>5, <2>2
  <2> HIDE DEF M
  <2> QED  BY <2>2, <2>3
<1> QED  BY <1>2, <1>6

(* A page is taken from the front of the candidates, and it is empty only if *)
(* there are none.                                                           *)
LEMMA PageIsFront ==
  ASSUME NEW cursor, Len(entries) \in Nat,
         Candidates(cursor) \subseteq 1 .. Len(entries)
  PROVE  LET candidates == Candidates(cursor)
             page == PageOf(cursor)
         IN  /\ page \subseteq candidates
             /\ \A i \in page, j \in candidates \ page : j < i
             /\ candidates # {} => page # {}
<1> DEFINE candidates == Candidates(cursor)
           page == PageOf(cursor)
           Newer(i) == {j \in candidates : j > i}
<1>1. page = {i \in candidates : Cardinality(Newer(i)) < PageSize}  BY DEF PageOf
<1>2. IsFiniteSet(candidates)
  <2>1. IsFiniteSet(1 .. Len(entries))  BY FS_Interval
  <2> QED  BY <2>1, FS_Subset
<1> HIDE DEF candidates, page
<1>3. \A i : IsFiniteSet(Newer(i)) /\ Cardinality(Newer(i)) \in Nat
  <2>1. TAKE i
  <2>2. Newer(i) \in SUBSET candidates  OBVIOUS
  <2> HIDE DEF Newer
  <2>3. IsFiniteSet(Newer(i))  BY <1>2, <2>2, FS_Subset
  <2> QED  BY <2>3, FS_CardinalityType
<1>4. PageSize \in Nat /\ PageSize > 0  BY LogConstants DEF LogConstants
<1>5. ASSUME NEW i \in page, NEW j \in candidates \ page PROVE j < i
  <2>1. i \in candidates /\ i \in Nat /\ j \in Nat  BY <1>1, <1>5 DEF candidates
  <2>2. SUFFICES ASSUME i <= j PROVE FALSE  BY <2>1
  <2>3. Newer(j) \in SUBSET Newer(i)  BY <2>1, <2>2 DEF candidates
  <2> HIDE DEF Newer
  <2>4. Cardinality(Newer(j)) <= Cardinality(Newer(i))  BY <1>3, <2>3, FS_Subset
  <2>5. Cardinality(Newer(i)) < PageSize  BY <1>1, <1>5
  <2>6. Cardinality(Newer(j)) < PageSize  BY <1>3, <1>4, <2>4, <2>5
  <2> QED  BY <1>1, <1>5, <2>6
<1>6. ASSUME candidates # {} PROVE page # {}
  <2>1. PICK i \in candidates : \A j \in candidates : j <= i
    BY <1>6, EndsOf DEF candidates
  <2>2. Newer(i) = {}  BY <2>1 DEF candidates
  <2> HIDE DEF Newer
  <2>3. Cardinality(Newer(i)) = 0  BY <2>2, FS_EmptySet
  <2> QED  BY <1>1, <1>4, <2>1, <2>3
<1> QED  BY <1>1, <1>5, <1>6 DEF candidates, page

(* One page of a walk: it lists what was not listed before, the walk still   *)
(* stands, and it ends only when nothing is owed.                            *)
LEMMA PageListed ==
  ASSUME LogInv, List
  PROVE  /\ Listed(PageOf(walk.cursor)) \cap walk.listed = {}
         /\ ~walk'.on => walk'.owed = {}
         /\ WalkStands(walk', entries)
         /\ walk' \in [on : BOOLEAN, cursor : 1 .. seq \cup {Nil},
                       listed : SUBSET (1 .. seq), owed : SUBSET (1 .. seq)]
<1> DEFINE cursor == walk.cursor
           page == PageOf(cursor)
           candidates == Candidates(cursor)
           next == NextCursor(page, candidates)
<1>1. /\ walk.on
      /\ walk' = [walk EXCEPT !.on = next # Nil, !.cursor = next,
                              !.listed = @ \cup Listed(page), !.owed = @ \ Listed(page)]
  BY DEF List
<1>2. TypeOK /\ InOrder(entries) /\ WalkStands(walk, entries)  BY DEF LogInv
<1>3. /\ DOMAIN entries = 1 .. Len(entries) /\ Len(entries) \in Nat
      /\ \A i \in DOMAIN entries : entries[i].id \in 1 .. seq
      /\ seq \in Nat
      /\ cursor # Nil => cursor \in Nat
  BY <1>2, EntriesAreProper, LogConstants DEF TypeOK, LogConstants
<1>4. /\ walk = [on |-> walk.on, cursor |-> walk.cursor,
                 listed |-> walk.listed, owed |-> walk.owed]
      /\ walk.listed \in SUBSET (1 .. seq) /\ walk.owed \in SUBSET (1 .. seq)
  BY <1>2 DEF TypeOK
<1>5. /\ candidates \subseteq 1 .. Len(entries)
      /\ \A i \in candidates : /\ entries[i].shown
                               /\ cursor # Nil => entries[i].id < cursor
      /\ \A id \in walk.owed : \E i \in candidates : entries[i].id = id
  BY <1>1, CandidatesFound
<1>6. /\ page \subseteq candidates
      /\ \A i \in page, j \in candidates \ page : j < i
      /\ candidates # {} => page # {}
  BY <1>3, <1>5, PageIsFront
<1>7. /\ walk'.on = (next # Nil) /\ walk'.cursor = next
      /\ walk'.listed = walk.listed \cup Listed(page)
      /\ walk'.owed = walk.owed \ Listed(page)
      /\ walk' = [on |-> walk'.on, cursor |-> walk'.cursor,
                  listed |-> walk'.listed, owed |-> walk'.owed]
  BY <1>1, <1>4
<1>8. next = IF page = candidates THEN Nil
             ELSE entries[CHOOSE i \in page : \A j \in page : i <= j].id
  BY DEF NextCursor
<1> HIDE DEF page, candidates, next, cursor
<1>9. \A id : id \in Listed(page) <=> \E i \in page : entries[i].id = id  BY DEF Listed
<1>10. Listed(page) \cap walk.listed = {}
  <2>1. SUFFICES ASSUME NEW i \in page, entries[i].id \in walk.listed PROVE FALSE
    BY <1>9
  <2>2. cursor # Nil  BY <1>1, <1>2, <2>1 DEF WalkStands, cursor
  <2>3. cursor <= entries[i].id  BY <1>1, <1>2, <2>1, <2>2 DEF WalkStands, cursor
  <2>4. entries[i].id < cursor /\ entries[i].id \in Nat
    BY <1>3, <1>5, <1>6, <2>2
  <2> QED  BY <1>3, <2>2, <2>3, <2>4
<1>11. Listed(page) \in SUBSET (1 .. seq)  BY <1>3, <1>5, <1>6, <1>9
<1>12. CASE page = candidates
  <2>1. next = Nil  BY <1>8, <1>12
  <2>2. walk'.owed = {}  BY <1>5, <1>7, <1>9, <1>12
  <2>3. walk'.on = FALSE  BY <1>7, <2>1
  <2>4. WalkStands(walk', entries)  BY <2>3 DEF WalkStands
  <2>5. walk' \in [on : BOOLEAN, cursor : 1 .. seq \cup {Nil},
                   listed : SUBSET (1 .. seq), owed : SUBSET (1 .. seq)]
    BY <1>4, <1>7, <1>11, <2>1
  <2> QED  BY <1>10, <2>2, <2>4, <2>5 DEF page, cursor
<1>13. CASE page # candidates
  <2>1. page # {} /\ page \subseteq 1 .. Len(entries)  BY <1>5, <1>6, <1>13
  <2>2. \E i \in page : \A j \in page : i <= j  BY <1>3, <2>1, EndsOf
  <2> DEFINE k == CHOOSE i \in page : \A j \in page : i <= j
  <2>3. k \in page /\ \A j \in page : k <= j  BY <2>2
  <2>4. next = entries[k].id  BY <1>8, <1>13
  <2> HIDE DEF k
  <2>5. k \in DOMAIN entries /\ k \in candidates  BY <1>3, <1>6, <2>1, <2>3
  <2>6. next \in 1 .. seq /\ next # Nil
    BY <1>3, <2>4, <2>5, LogConstants DEF LogConstants
  <2>7. walk'.on = TRUE  BY <1>7, <2>6
  <2>8. ASSUME NEW id \in walk'.owed
        PROVE  id < next /\ \E i \in DOMAIN entries : entries[i].id = id /\ entries[i].shown
    <3>1. PICK i \in candidates : entries[i].id = id  BY <1>5, <1>7, <2>8
    <3>2. i \notin page  BY <1>7, <1>9, <2>8, <3>1
    <3>3. i < k /\ i \in DOMAIN entries /\ entries[i].shown
      BY <1>3, <1>5, <1>6, <2>3, <3>1, <3>2
    <3>4. entries[i].id < entries[k].id  BY <1>2, <2>5, <3>3 DEF InOrder
    <3> QED  BY <2>4, <3>1, <3>3, <3>4
  <2>9. ASSUME NEW id \in walk'.listed PROVE next <= id
    <3>1. CASE id \in walk.listed
      <4>1. cursor # Nil /\ cursor <= id  BY <1>1, <1>2, <3>1 DEF WalkStands, cursor
      <4>2. next < cursor  BY <1>5, <2>4, <2>5, <4>1
      <4> QED  BY <1>3, <1>4, <2>6, <3>1, <4>1, <4>2
    <3>2. CASE id \in Listed(page)
      <4>1. PICK i \in page : entries[i].id = id  BY <1>9, <3>2
      <4>2. k <= i /\ i \in DOMAIN entries  BY <1>3, <2>1, <2>3
      <4>3. CASE k = i  BY <2>4, <2>6, <4>1, <4>3
      <4>4. CASE k < i
        <5>1. entries[k].id < entries[i].id  BY <1>2, <2>5, <4>2, <4>4 DEF InOrder
        <5> QED  BY <1>3, <2>4, <2>5, <4>1, <4>2, <5>1
      <4> QED  BY <1>3, <2>5, <4>2, <4>3, <4>4
    <3> QED  BY <1>7, <2>9, <3>1, <3>2
  <2>10. WalkStands(walk', entries)
    BY <1>7, <2>4, <2>5, <2>6, <2>8, <2>9 DEF WalkStands
  <2>11. walk' \in [on : BOOLEAN, cursor : 1 .. seq \cup {Nil},
                    listed : SUBSET (1 .. seq), owed : SUBSET (1 .. seq)]
    BY <1>4, <1>7, <1>11, <2>6
  <2> QED  BY <1>10, <2>7, <2>10, <2>11 DEF page, cursor
<1> QED  BY <1>12, <1>13

LEMMA ListStep ==
  ASSUME LogInv, List
  PROVE  LogInv'
<1>1. UNCHANGED <<entries, totalBodyBytes, seq, now, pending, directory, files, failed, reading>>
  BY DEF List, logVars
<1>2. /\ WalkStands(walk', entries)
      /\ walk' \in [on : BOOLEAN, cursor : 1 .. seq \cup {Nil},
                    listed : SUBSET (1 .. seq), owed : SUBSET (1 .. seq)]
  BY PageListed
<1>3. AnEntry' = AnEntry /\ ABody' = ABody /\ Operation' = Operation
  BY <1>1 DEF AnEntry, ABody, Operation
<1>4. TypeOK'  BY <1>1, <1>2, <1>3 DEF LogInv, TypeOK
<1> QED
  BY <1>1, <1>2, <1>4
  DEF LogInv, InOrder, CapsHold, CleansUp, KeepsBodies, ReadersWait, WalkStands, Due

LEMMA StartWalkStep ==
  ASSUME LogInv, StartWalk
  PROVE  LogInv'
<1>1. /\ UNCHANGED <<entries, totalBodyBytes, seq, now, pending, directory, files, failed, reading>>
      /\ walk' = [on |-> TRUE, cursor |-> Nil, listed |-> {},
                  owed |-> {e.id : e \in {x \in ToSet(entries) : x.shown}}]
  BY DEF StartWalk, logVars
<1>2. TypeOK  BY DEF LogInv
<1>3. AnEntry' = AnEntry /\ ABody' = ABody /\ Operation' = Operation
  BY <1>1 DEF AnEntry, ABody, Operation
<1>4. \A id \in walk'.owed : \E i \in DOMAIN entries : entries[i].id = id /\ entries[i].shown
  BY <1>1 DEF ToSet
<1>5. WalkStands(walk', entries)  BY <1>1, <1>4 DEF WalkStands
<1>6. TypeOK'
  <2>1. walk'.owed \in SUBSET (1 .. seq)  BY <1>2, <1>4, EntriesAreProper
  <2>2. walk' \in [on : BOOLEAN, cursor : 1 .. seq \cup {Nil},
                   listed : SUBSET (1 .. seq), owed : SUBSET (1 .. seq)]
    BY <1>1, <2>1
  <2> QED  BY <1>1, <1>2, <1>3, <2>2 DEF TypeOK
<1> QED
  BY <1>1, <1>5, <1>6
  DEF LogInv, InOrder, CapsHold, CleansUp, KeepsBodies, ReadersWait, WalkStands, Due

----------------------------------------------------------------------------
LEMMA LogStep == LogInv /\ [Next]_vars => LogInv'
<1> SUFFICES ASSUME LogInv, [Next]_vars PROVE LogInv'  OBVIOUS
<1>1. CASE UNCHANGED vars
  BY <1>1 DEF vars, logVars, LogInv, TypeOK, AnEntry, ABody, Operation, InOrder, CapsHold,
              CleansUp, KeepsBodies, ReadersWait, WalkStands, Due
<1>2. CASE \E draft \in Drafts, startedAt \in 0 .. now : Add(draft, startedAt)
  BY <1>2, AddStep
<1>3. CASE ApplyRetention
  <2>1. PICK n \in 1 .. Len(entries) : DropOldest(entries, totalBodyBytes, n, pending)
    BY <1>3 DEF ApplyRetention
  <2>2. n \in 0 .. Len(entries) /\ UNCHANGED <<seq, now, directory, files, failed, reading>>
    BY <1>3 DEF ApplyRetention
  <2> QED  BY <2>1, <2>2, RemovalStep
<1>4. CASE Clear
  <2>1. Len(entries) \in 0 .. Len(entries)  BY DEF LogInv, TypeOK
  <2> QED  BY <1>4, <2>1, RemovalStep DEF Clear
<1>5. CASE Tick  BY <1>5, TickStep
<1>6. CASE Write \/ Unlink  BY <1>6, OperationStep
<1>7. CASE \E r \in Readers : (\E body \in StoredBodies : StartRead(r, body)) \/ FinishRead(r)
  BY <1>7, StartReadStep, FinishReadStep
<1>8. CASE StartWalk  BY <1>8, StartWalkStep
<1>9. CASE List  BY <1>9, ListStep
<1> QED  BY <1>1, <1>2, <1>3, <1>4, <1>5, <1>6, <1>7, <1>8, <1>9 DEF Next

(* The inductive invariant holds. *)
THEOREM LogInvariant == Spec => []LogInv
<1>1. Init => LogInv  BY LogStarts
<1>2. LogInv /\ [Next]_vars => LogInv'  BY LogStep
<1> QED  BY <1>1, <1>2, PTL DEF Spec

(* The traffic log keeps its types through every interleaving of its methods *)
(* with the file operations they queue.                                      *)
THEOREM LogTypesCorrect == Spec => []TypeOK
<1>1. LogInv => TypeOK  BY DEF LogInv
<1> QED  BY <1>1, LogInvariant, PTL

(* However entries of any size come and go, their number and the bytes of    *)
(* their bodies stay within the caps, and totalBodyBytes, which enforceCaps() *)
(* goes by and which is only ever added to and taken from, is those bytes.   *)
THEOREM LogKeepsItsCaps == Spec => []CapsHold
<1>1. LogInv => CapsHold  BY DEF LogInv
<1> QED  BY <1>1, LogInvariant, PTL

(* Once the chain has run dry, a body on disk belongs to an entry, or an     *)
(* operation on it failed - also when the entry was evicted with its writes  *)
(* still queued.                                                             *)
THEOREM RemovedBodiesAreDeleted == Spec => []NoBodyOutlivesItsEntry
<1>1. LogInv => NoBodyOutlivesItsEntry
  <2> SUFFICES ASSUME LogInv, pending = <<>> PROVE files \subseteq StoredBodies \cup failed
    BY DEF NoBodyOutlivesItsEntry
  <2>1. \A body \in files : ~Due("unlink", body, pending)  BY DEF Due, ToSet
  <2>2. BodiesOf(entries) = StoredBodies  BY DEF BodiesOf, StoredBodies
  <2> QED  BY <2>1, <2>2 DEF LogInv, CleansUp
<1> QED  BY <1>1, LogInvariant, PTL

(* readBody() finds what it was asked for, unless the entry was removed      *)
(* meanwhile or writing the file failed.                                     *)
THEOREM ReadsFindTheirBody == Spec => StoredBodyIsFound
<1>1. LogInv /\ [Next]_vars =>
        [\A r \in Readers :
           FinishRead(r) => Finds(r) \/ reading[r].body \notin StoredBodies \ failed]_vars
  <2> SUFFICES ASSUME LogInv, NEW r \in Readers, FinishRead(r),
                      reading[r].body \in StoredBodies \ failed
               PROVE  Finds(r)
    OBVIOUS
  <2>1. BodiesOf(entries) = StoredBodies  BY DEF BodiesOf, StoredBodies
  <2>2. reading[r].body # Nil /\ reading[r].ahead = 0  BY DEF FinishRead
  <2>3. \A i \in DOMAIN pending : ~ (i <= 0)  BY DEF LogInv, TypeOK
  <2> QED  BY <2>1, <2>2, <2>3 DEF LogInv, ReadersWait, Finds
<1> QED  BY <1>1, LogInvariant, PTL DEF Spec, StoredBodyIsFound

(* A client that follows nextCursor is shown no entry twice and, by the end, *)
(* each one that was there when it began and is there still, whatever was    *)
(* added and removed between its pages.                                      *)
THEOREM WalksAreComplete == Spec => WalkIsComplete
<1>1. LogInv /\ [Next]_vars =>
        [List => /\ Listed(PageOf(walk.cursor)) \cap walk.listed = {}
                 /\ ~walk'.on => walk'.owed = {}]_vars
  BY PageListed
<1> QED  BY <1>1, LogInvariant, PTL DEF Spec, WalkIsComplete

=============================================================================
