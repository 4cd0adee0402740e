---------------------------- MODULE Typing_proofs ----------------------------
(***************************************************************************)
(* The log keeps what it shows, in order and within bounds, and credits    *)
(* whom it should, for any members, messages and sizes.                    *)
(***************************************************************************)
EXTENDS Typing, SequenceTheorems, FiniteSetTheorems, WellFoundedInduction, TLAPS

-----------------------------------------------------------------------------
(* The inductive invariant of the journal.                                 *)

File == [lines : Seq(Entry), junk : Nat, tail : {"none", "entry", "junk"}]

\* Entries in the order they were added, of the first a that were.
Ordered(s, a) ==
    /\ s \in Seq(Entry)
    /\ \A i \in 1..Len(s) : s[i].n <= a
    /\ Increasing(s)

\* A last line that has no newline is a line that parses or one that does not.
Ended(d) ==
    /\ d.tail = "entry" => Len(d.lines) > 0
    /\ d.tail = "junk" => d.junk > 0

\* What the history counters count.
Counted ==
    /\ cuts <= added /\ untrimmed <= added
    /\ disk.tail = "entry" => cuts >= 1

\* What the file may hold once u compactions have failed.
Room(u) == (1 + u) * Keep

Size(d) == Len(d.lines) + d.junk

Sized == Size(disk) <= IF open THEN Room(untrimmed) + appended ELSE Room(untrimmed + 1)

\* The i-th entry of s is a line of d no further from the end than in s.
Found(s, d, i) ==
    \E j \in 1..Len(d.lines) :
        d.lines[j] = s[i] /\ Len(d.lines) - j <= Len(s) - i

\* The entries in s are those that d reads back, but for two if c > 0.
ShownIn(s, d, c) ==
    /\ d.tail # "junk"
    /\ d.tail = "entry" => s = ReadBack(d)
    /\ c = 0 => \A i \in 1..Len(s) : Found(s, d, i)
    /\ c > 0 => \E p, q \in Entry : \A i \in 1..Len(s) : Found(s, d, i) \/ s[i] \in {p, q}

Shown == open => ShownIn(entries, disk, cuts)

JournalInv ==
    /\ JournalTypeOK
    /\ Counted /\ Ended(disk)
    /\ Ordered(entries, added) /\ Ordered(disk.lines, added)
    /\ Sized
    /\ Shown

-----------------------------------------------------------------------------
(* The inductive invariant of the line begun.                              *)

\* A line that is left has someone's keys in it, its beginner's first, and is
\* mixed exactly if there were others'.
Line ==
    /\ held.size = 0 => held = NoLine /\ touched = {}
    /\ held.size > 0 => held.who \in touched /\ (held.mixed <=> touched # {held.who})
    /\ IsFiniteSet(touched)

IInv == TypeOK /\ JournalInv /\ Line

-----------------------------------------------------------------------------
(* Sequences of entries.                                                   *)

\* LastOf keeps the entries by their distance from the end.
LEMMA LastOfFacts ==
  ASSUME NEW T, NEW s \in Seq(T)
  PROVE  /\ LastOf(s) \in Seq(T)
         /\ Len(LastOf(s)) = IF Len(s) > Keep THEN Keep ELSE Len(s)
         /\ \A i \in 1..Len(LastOf(s)) : LastOf(s)[i] = s[i + (Len(s) - Len(LastOf(s)))]
<1> DEFINE m == IF Len(s) > Keep THEN Len(s) - Keep + 1 ELSE 1
<1>1. Keep \in Nat \ {0} /\ Len(s) \in Nat
  BY KeepAssumption
<1>2. m \in 1..(Len(s) + 1)
  BY <1>1
<1>3. LastOf(s) = SubSeq(s, m, Len(s))
  BY DEF LastOf
<1>4. Len(s) - m + 1 = IF Len(s) > Keep THEN Keep ELSE Len(s)
  BY <1>1
<1> HIDE DEF m
<1>5. /\ SubSeq(s, m, Len(s)) \in Seq(T)
      /\ Len(SubSeq(s, m, Len(s))) = Len(s) - m + 1
      /\ \A i \in 1..(Len(s) - m + 1) : SubSeq(s, m, Len(s))[i] = s[m + i - 1]
  <2>1. CASE m <= Len(s)
    BY <1>1, <1>2, <2>1, SubSeqProperties
  <2>2. CASE m = Len(s) + 1
    BY <1>1, <2>2
  <2> QED
    BY <1>1, <1>2, <2>1, <2>2
<1>6. \A i \in 1..(Len(s) - m + 1) : m + i - 1 = i + (Len(s) - (Len(s) - m + 1))
  BY <1>1, <1>2
<1> QED
  BY <1>3, <1>4, <1>5, <1>6

\* The file loses the last line by its front.
LEMMA FrontFacts ==
  ASSUME NEW T, NEW s \in Seq(T)
  PROVE  /\ SubSeq(s, 1, Len(s) - 1) \in Seq(T)
         /\ Len(SubSeq(s, 1, Len(s) - 1)) = IF Len(s) = 0 THEN 0 ELSE Len(s) - 1
         /\ \A i \in 1..Len(SubSeq(s, 1, Len(s) - 1)) : SubSeq(s, 1, Len(s) - 1)[i] = s[i]
<1>1. CASE Len(s) = 0
  BY <1>1
<1>2. CASE Len(s) # 0
  <2> DEFINE k == Len(s) - 1
  <2>1. k \in Nat /\ k <= Len(s)
    BY <1>2
  <2>2. \A i \in 1..k : s[i] \in T
    BY <2>1
  <2> HIDE DEF k
  <2>3. /\ SubSeq(s, 1, k) \in Seq(T)
        /\ Len(SubSeq(s, 1, k)) = IF 1 <= k THEN k - 1 + 1 ELSE 0
        /\ \A i \in 1..(k - 1 + 1) : SubSeq(s, 1, k)[i] = s[1 + i - 1]
    <3>1. 1 \in Int /\ k \in Int
      BY <2>1
    <3> QED
      BY <2>2, <3>1, SubSeqProperties
  <2>4. Len(SubSeq(s, 1, k)) = k
    BY <2>1, <2>3
  <2>5. \A i \in 1..k : 1 + i - 1 = i /\ i \in 1..(k - 1 + 1)
    BY <2>1
  <2>6. \A i \in 1..k : SubSeq(s, 1, k)[i] = s[i]
    BY <2>3, <2>5
  <2> QED
    BY <1>2, <2>3, <2>4, <2>6 DEF k
<1> QED
  BY <1>1, <1>2

LEMMA OrderedEmpty ==
  ASSUME NEW a
  PROVE  Ordered(<<>>, a)
BY DEF Ordered, Increasing

LEMMA OrderedMore ==
  ASSUME NEW a \in Nat, NEW b \in Nat, a <= b, NEW s, Ordered(s, a)
  PROVE  Ordered(s, b)
<1>1. \A i \in 1..Len(s) : s[i].n \in Nat
  <2>1. \A i \in 1..Len(s) : s[i] \in Entry
    BY DEF Ordered
  <2> QED
    BY <2>1 DEF Entry
<1> QED
  BY <1>1 DEF Ordered

\* An entry that is added goes after all others.
LEMMA OrderedAppend ==
  ASSUME NEW a \in Nat, NEW s, Ordered(s, a), NEW e \in Entry, e.n = a + 1
  PROVE  Ordered(Append(s, e), a + 1)
<1> DEFINE t == Append(s, e)
<1>1. s \in Seq(Entry) /\ Len(s) \in Nat
  BY DEF Ordered
<1>2. t \in Seq(Entry) /\ Len(t) = Len(s) + 1
  BY <1>1
<1>3. \A i \in 1..Len(t) : (i \in 1..Len(s) /\ t[i] = s[i]) \/ (i = Len(s) + 1 /\ t[i] = e)
  BY <1>1
<1>4. \A i \in 1..Len(s) : s[i].n \in Nat /\ s[i].n <= a
  <2>1. \A i \in 1..Len(s) : s[i] \in Entry
    BY <1>1
  <2> QED
    BY <2>1 DEF Ordered, Entry
<1>5. \A i, j \in 1..Len(s) : i < j => s[i].n < s[j].n
  BY DEF Ordered, Increasing
<1> HIDE DEF t
<1>6. \A i \in 1..Len(t) : t[i].n <= a + 1
  BY <1>3, <1>4
<1>7. \A i, j \in 1..Len(t) : i < j => t[i].n < t[j].n
  <2> SUFFICES ASSUME NEW i \in 1..Len(t), NEW j \in 1..Len(t), i < j
               PROVE  t[i].n < t[j].n
    OBVIOUS
  <2>1. i \in 1..Len(s) /\ t[i] = s[i]
    BY <1>1, <1>2, <1>3
  <2>2. CASE t[j] = e
    BY <1>4, <2>1, <2>2
  <2>3. CASE j \in 1..Len(s) /\ t[j] = s[j]
    BY <1>5, <2>1, <2>3
  <2> QED
    BY <1>3, <2>2, <2>3
<1>8. Ordered(t, a + 1)
  BY <1>2, <1>6, <1>7 DEF Ordered, Increasing
<1> QED
  BY <1>8 DEF t

\* A part of an ordered sequence is ordered.
LEMMA OrderedPart ==
  ASSUME NEW a, NEW s, Ordered(s, a), NEW t \in Seq(Entry), NEW k \in Nat,
         \A i \in 1..Len(t) : i + k \in 1..Len(s) /\ t[i] = s[i + k]
  PROVE  Ordered(t, a)
<1>1. \A i \in 1..Len(t) : t[i].n <= a
  BY DEF Ordered
<1>2. \A i, j \in 1..Len(t) : i < j => t[i].n < t[j].n
  <2> SUFFICES ASSUME NEW i \in 1..Len(t), NEW j \in 1..Len(t), i < j
               PROVE  t[i].n < t[j].n
    OBVIOUS
  <2>1. i + k < j + k /\ i + k \in 1..Len(s) /\ j + k \in 1..Len(s)
    OBVIOUS
  <2> QED
    BY <2>1 DEF Ordered, Increasing
<1> QED
  BY <1>1, <1>2 DEF Ordered, Increasing

LEMMA OrderedLastOf ==
  ASSUME NEW a, NEW s, Ordered(s, a)
  PROVE  Ordered(LastOf(s), a)
<1> DEFINE t == LastOf(s)
           k == Len(s) - Len(t)
<1>1. s \in Seq(Entry) /\ Len(s) \in Nat /\ Keep \in Nat
  BY KeepAssumption DEF Ordered
<1>2. /\ t \in Seq(Entry) /\ Len(t) = IF Len(s) > Keep THEN Keep ELSE Len(s)
      /\ \A i \in 1..Len(t) : t[i] = s[i + k]
  BY <1>1, LastOfFacts
<1> HIDE DEF t
<1>3. k \in Nat /\ \A i \in 1..Len(t) : i + k \in 1..Len(s)
  BY <1>1, <1>2
<1> HIDE DEF k
<1>4. Ordered(t, a)
  BY <1>2, <1>3, OrderedPart
<1> QED
  BY <1>4 DEF t

LEMMA OrderedFront ==
  ASSUME NEW a, NEW s, Ordered(s, a)
  PROVE  Ordered(SubSeq(s, 1, Len(s) - 1), a)
<1> DEFINE t == SubSeq(s, 1, Len(s) - 1)
<1>1. s \in Seq(Entry) /\ Len(s) \in Nat
  BY DEF Ordered
<1>2. /\ t \in Seq(Entry) /\ Len(t) = IF Len(s) = 0 THEN 0 ELSE Len(s) - 1
      /\ \A i \in 1..Len(t) : t[i] = s[i]
  BY <1>1, FrontFacts
<1> HIDE DEF t
<1>3. \A i \in 1..Len(t) : i + 0 \in 1..Len(s) /\ t[i] = s[i + 0]
  BY <1>1, <1>2
<1>4. Ordered(t, a)
  BY <1>2, <1>3, OrderedPart
<1> QED
  BY <1>4 DEF t

-----------------------------------------------------------------------------
(* The file.                                                               *)

\* A last line that is continued no longer parses.
LEMMA SpoiltFacts ==
  ASSUME NEW d \in File
  PROVE  /\ Spoilt(d) \in File
         /\ d.tail = "entry" => Spoilt(d) = [lines |-> SubSeq(d.lines, 1, Len(d.lines) - 1),
                                             junk |-> d.junk + 1, tail |-> "entry"]
         /\ d.tail # "entry" => Spoilt(d) = d
<1>1. d = [lines |-> d.lines, junk |-> d.junk, tail |-> d.tail]
  BY DEF File
<1>2. d.lines \in Seq(Entry) /\ d.junk \in Nat /\ d.junk + 1 \in Nat
  BY DEF File
<1>3. SubSeq(d.lines, 1, Len(d.lines) - 1) \in Seq(Entry)
  BY <1>2, FrontFacts
<1>4. d.tail = "entry" => Spoilt(d) = [lines |-> SubSeq(d.lines, 1, Len(d.lines) - 1),
                                       junk |-> d.junk + 1, tail |-> "entry"]
  BY <1>1 DEF Spoilt
<1>5. d.tail # "entry" => Spoilt(d) = d
  BY DEF Spoilt
<1> QED
  BY <1>2, <1>3, <1>4, <1>5 DEF File

\* What a write that succeeds leaves.
LEMMA WrittenFacts ==
  ASSUME NEW d \in File, NEW e \in Entry
  PROVE  /\ Written(d, e) \in File /\ Written(d, e).tail = "none"
         /\ d.tail = "none" => /\ Written(d, e).lines = Append(d.lines, e)
                               /\ Written(d, e).junk = d.junk
         /\ d.tail # "none" => /\ Written(d, e).lines = Spoilt(d).lines
                               /\ Written(d, e).junk = Spoilt(d).junk
<1>1. Spoilt(d) \in File
  BY SpoiltFacts
<1>2. Append(d.lines, e) \in Seq(Entry)
  BY DEF File
<1> QED
  BY <1>1, <1>2 DEF Written, File

\* What a write that fails leaves.
LEMMA HalfWrittenFacts ==
  ASSUME NEW d \in File, NEW e \in Entry, NEW w \in HalfWritten(d, e), w # d
  PROVE  /\ w \in File
         /\ \/ /\ d.tail = "none" /\ w.tail = "junk"
               /\ w.lines = d.lines /\ w.junk = d.junk + 1
            \/ /\ d.tail = "none" /\ w.tail = "entry"
               /\ w.lines = Append(d.lines, e) /\ w.junk = d.junk
            \/ /\ d.tail # "none" /\ w.tail = "junk"
               /\ w.lines = Spoilt(d).lines /\ w.junk = Spoilt(d).junk
<1>1. Spoilt(d) \in File
  BY SpoiltFacts
<1>2. Append(d.lines, e) \in Seq(Entry)
  BY DEF File
<1>3. CASE w = Torn(d)
  <2>1. d.junk + 1 \in Nat /\ d.lines \in Seq(Entry)
    BY DEF File
  <2>2. CASE d.tail = "none"
    <3>1. w = [d EXCEPT !.junk = d.junk + 1, !.tail = "junk"]
      BY <1>3, <2>2 DEF Torn
    <3> QED
      BY <2>1, <2>2, <3>1 DEF File
  <2>3. CASE d.tail # "none"
    BY <1>1, <1>3, <2>3 DEF Torn, File
  <2> QED
    BY <2>2, <2>3
<1>4. CASE w = AllButNewline(d, e)
  BY <1>1, <1>2, <1>4 DEF AllButNewline, File
<1> QED
  BY <1>3, <1>4 DEF HalfWritten

\* Whatever a write does, the file grows by at most a line and stays in order.
LEMMA WriteGrows ==
  ASSUME NEW d \in File, Ended(d), NEW a \in Nat, Ordered(d.lines, a),
         NEW e \in Entry, e.n = a + 1, NEW w \in {Written(d, e)} \cup HalfWritten(d, e)
  PROVE  /\ w \in File
         /\ Ended(w)
         /\ Ordered(w.lines, a + 1)
         /\ Size(w) <= Size(d) + 1
<1>1. d.lines \in Seq(Entry) /\ d.junk \in Nat /\ Len(d.lines) \in Nat
      /\ d.tail \in {"none", "entry", "junk"}
  BY DEF File
<1>2. Ordered(d.lines, a + 1)
  BY OrderedMore
<1>3. /\ Append(d.lines, e) \in Seq(Entry) /\ Len(Append(d.lines, e)) = Len(d.lines) + 1
      /\ Ordered(Append(d.lines, e), a + 1)
  BY <1>1, OrderedAppend
<1>4. /\ Spoilt(d) \in File
      /\ Ordered(Spoilt(d).lines, a + 1)
      /\ Len(Spoilt(d).lines) + Spoilt(d).junk <= Len(d.lines) + d.junk + 1
      /\ d.tail # "none" => Spoilt(d).junk > 0
  <2>1. CASE d.tail = "entry"
    <3>1. /\ Spoilt(d).lines = SubSeq(d.lines, 1, Len(d.lines) - 1)
          /\ Spoilt(d).junk = d.junk + 1 /\ Spoilt(d) \in File
      BY <2>1, SpoiltFacts
    <3>2. Len(SubSeq(d.lines, 1, Len(d.lines) - 1)) = Len(d.lines) - 1
      BY <1>1, <2>1, FrontFacts DEF Ended
    <3>3. Ordered(SubSeq(d.lines, 1, Len(d.lines) - 1), a + 1)
      BY <1>2, OrderedFront
    <3> QED
      BY <1>1, <3>1, <3>2, <3>3
  <2>2. CASE d.tail # "entry"
    <3>1. Spoilt(d) = d
      BY <2>2, SpoiltFacts
    <3> QED
      BY <1>1, <1>2, <2>2, <3>1 DEF Ended
  <2> QED
    BY <2>1, <2>2
<1>5. CASE w = Written(d, e)
  <2>1. CASE d.tail = "none"
    <3>1. w \in File /\ w.tail = "none" /\ w.lines = Append(d.lines, e) /\ w.junk = d.junk
      BY <1>5, <2>1, WrittenFacts
    <3> QED
      BY <1>1, <1>3, <3>1 DEF Size, Ended
  <2>2. CASE d.tail # "none"
    <3>1. w \in File /\ w.tail = "none" /\ w.lines = Spoilt(d).lines /\ w.junk = Spoilt(d).junk
      BY <1>5, <2>2, WrittenFacts
    <3> QED
      BY <1>1, <1>4, <3>1 DEF Size, Ended
  <2> QED
    BY <2>1, <2>2
<1>6. CASE w = d
  BY <1>1, <1>2, <1>6 DEF Size
<1>7. CASE w \in HalfWritten(d, e) /\ w # d
  <2>1. w \in File
    BY <1>7, HalfWrittenFacts
  <2>2. CASE d.tail = "none" /\ w.tail = "junk" /\ w.lines = d.lines /\ w.junk = d.junk + 1
    BY <1>1, <1>2, <2>1, <2>2 DEF Size, Ended
  <2>3. CASE d.tail = "none" /\ w.tail = "entry" /\ w.lines = Append(d.lines, e) /\ w.junk = d.junk
    BY <1>1, <1>3, <2>1, <2>3 DEF Size, Ended
  <2>4. CASE d.tail # "none" /\ w.tail = "junk" /\ w.lines = Spoilt(d).lines /\ w.junk = Spoilt(d).junk
    BY <1>1, <1>4, <2>1, <2>4 DEF Size, Ended
  <2> QED
    BY <1>7, <2>2, <2>3, <2>4, HalfWrittenFacts
<1> QED
  BY <1>5, <1>6, <1>7

\* A compacted file is all lines.
LEMMA LinesFacts ==
  ASSUME NEW s \in Seq(Entry)
  PROVE  /\ Lines(s) \in File /\ Lines(s).lines = s
         /\ Lines(s).junk = 0 /\ Lines(s).tail = "none"
         /\ Ended(Lines(s)) /\ Size(Lines(s)) = Len(s)
BY DEF Lines, File, Ended, Size

-----------------------------------------------------------------------------
(* What is shown and what is read back.                                    *)

LEMMA LastOfShort ==
  ASSUME NEW s \in Seq(Entry), Len(s) <= Keep
  PROVE  LastOf(s) = s
<1>1. Len(s) \in Nat /\ Keep \in Nat
  BY KeepAssumption
<1>2. LastOf(s) = SubSeq(s, 1, Len(s))
  <2>1. ~ (Len(s) > Keep)
    BY <1>1
  <2> QED
    BY <2>1 DEF LastOf
<1> QED
  BY <1>2, SubSeqFull

\* t ends in e, and before it are the last entries of s.
Extends(t, s, e) ==
    /\ t \in Seq(Entry) /\ Len(t) \in 1..Keep
    /\ t[Len(t)] = e
    /\ \A i \in 1..(Len(t) - 1) : \E h \in 1..Len(s) :
          t[i] = s[h] /\ Len(s) - h = Len(t) - i - 1

\* What is remembered after one more entry.
LEMMA RememberedIs ==
  ASSUME NEW s \in Seq(Entry), NEW e \in Entry
  PROVE  Extends(LastOf(Append(s, e)), s, e)
<1> DEFINE r == Append(s, e)
           t == LastOf(r)
<1>1. /\ r \in Seq(Entry) /\ Len(r) = Len(s) + 1 /\ Len(s) \in Nat
      /\ \A i \in 1..Len(s) : r[i] = s[i]
      /\ r[Len(s) + 1] = e
  OBVIOUS
<1> HIDE DEF r
<1>3. /\ t \in Seq(Entry)
      /\ Len(t) = IF Len(r) > Keep THEN Keep ELSE Len(r)
      /\ \A i \in 1..Len(t) : t[i] = r[i + (Len(r) - Len(t))]
  BY <1>1, LastOfFacts
<1> HIDE DEF t
<1>4. Keep \in Nat \ {0}
  BY KeepAssumption
<1>5. Len(t) \in 1..Keep /\ Len(t) <= Len(r)
  BY <1>1, <1>3, <1>4
<1>6. t[Len(t)] = e
  <2>1. Len(t) + (Len(r) - Len(t)) = Len(s) + 1
    BY <1>1, <1>5, <1>4
  <2>2. Len(t) \in 1..Len(t)
    BY <1>4, <1>5
  <2> QED
    BY <1>1, <1>3, <2>1, <2>2
<1>7. \A i \in 1..(Len(t) - 1) : \E h \in 1..Len(s) :
         t[i] = s[h] /\ Len(s) - h = Len(t) - i - 1
  <2> SUFFICES ASSUME NEW i \in 1..(Len(t) - 1)
               PROVE  \E h \in 1..Len(s) : t[i] = s[h] /\ Len(s) - h = Len(t) - i - 1
    OBVIOUS
  <2>0. i \in 1..Len(t)
    BY <1>4, <1>5
  <2>1. t[i] = r[i + (Len(r) - Len(t))]
    BY <1>3, <2>0
  <2>2. i + (Len(r) - Len(t)) \in 1..Len(s)
    BY <1>1, <1>4, <1>5
  <2>3. Len(s) - (i + (Len(r) - Len(t))) = Len(t) - i - 1
    BY <1>1, <1>4, <1>5
  <2> QED
    BY <1>1, <2>1, <2>2, <2>3
<1>8. Extends(t, s, e)
  BY <1>3, <1>5, <1>6, <1>7 DEF Extends
<1> QED
  BY <1>8 DEF t, r

\* All of what was read back is found in what it was read from.
LEMMA ReadIsFound ==
  ASSUME NEW d \in File, NEW s, s = ReadBack(d), NEW i \in 1..Len(s)
  PROVE  Found(s, d, i)
<1> DEFINE n == Len(d.lines)
           k == Len(s)
<1>1. d.lines \in Seq(Entry) /\ n \in Nat /\ Keep \in Nat
  BY KeepAssumption DEF File
<1>2. /\ k = IF n > Keep THEN Keep ELSE n
      /\ s[i] = d.lines[i + (n - k)]
  BY <1>1, LastOfFacts DEF ReadBack
<1>3. i \in 1..k
  OBVIOUS
<1> HIDE DEF n, k
<1>4. i + (n - k) \in 1..n
  BY <1>1, <1>2, <1>3
<1>5. n - (i + (n - k)) <= k - i
  BY <1>1, <1>2, <1>3
<1> QED
  BY <1>2, <1>4, <1>5 DEF Found, n, k

LEMMA ShownWhole ==
  ASSUME NEW d \in File, d.tail # "junk", NEW s, s = ReadBack(d), NEW c \in Nat,
         c > 0 => Entry # {}
  PROVE  ShownIn(s, d, c)
<1>1. \A i \in 1..Len(s) : Found(s, d, i)
  BY ReadIsFound
<1>2. c > 0 => \E p, q \in Entry : \A i \in 1..Len(s) : Found(s, d, i) \/ s[i] \in {p, q}
  BY <1>1
<1> QED
  BY <1>1, <1>2 DEF ShownIn

LEMMA ShownAppended ==
  ASSUME NEW d \in File, Ended(d), NEW s \in Seq(Entry), NEW e \in Entry, NEW c \in Nat,
         d.tail = "entry" => c >= 1, ShownIn(s, d, c), NEW t, t = LastOf(Append(s, e))
  PROVE  ShownIn(t, Written(d, e), c)
<1> DEFINE w == Written(d, e)
<1>1. /\ t \in Seq(Entry) /\ Len(t) \in 1..Keep
      /\ t[Len(t)] = e
      /\ \A i \in 1..(Len(t) - 1) : \E h \in 1..Len(s) :
            t[i] = s[h] /\ Len(s) - h = Len(t) - i - 1
  BY RememberedIs DEF Extends
<1>2. d.lines \in Seq(Entry) /\ Len(d.lines) \in Nat /\ Len(s) \in Nat /\ Len(t) \in Nat /\ Keep \in Nat
  BY <1>1, KeepAssumption DEF File
<1>3. w \in File /\ w.tail = "none"
  BY WrittenFacts
<1>4. d.tail \in {"none", "entry"}
  BY DEF ShownIn, File
<1>5. CASE d.tail = "none"
  <2>1. w.lines = Append(d.lines, e)
    BY <1>5, WrittenFacts
  <2> HIDE DEF w
  <2>2. /\ Len(w.lines) = Len(d.lines) + 1
        /\ w.lines[Len(d.lines) + 1] = e
        /\ \A j \in 1..Len(d.lines) : w.lines[j] = d.lines[j]
    BY <1>2, <2>1
  <2>3. Found(t, w, Len(t))
    <3>1. Len(d.lines) + 1 \in 1..Len(w.lines)
      BY <1>2, <2>2
    <3>2. Len(w.lines) - (Len(d.lines) + 1) <= Len(t) - Len(t)
      BY <1>2, <2>2
    <3> QED
      BY <1>1, <2>2, <3>1, <3>2 DEF Found
  <2>4. \A i \in 1..(Len(t) - 1), h \in 1..Len(s) :
           t[i] = s[h] /\ Len(s) - h = Len(t) - i - 1 /\ Found(s, d, h) => Found(t, w, i)
    <3> SUFFICES ASSUME NEW i \in 1..(Len(t) - 1), NEW h \in 1..Len(s),
                        t[i] = s[h], Len(s) - h = Len(t) - i - 1, Found(s, d, h)
                 PROVE  Found(t, w, i)
      OBVIOUS
    <3>1. PICK j \in 1..Len(d.lines) : d.lines[j] = s[h] /\ Len(d.lines) - j <= Len(s) - h
      BY DEF Found
    <3>2. j \in 1..Len(w.lines) /\ w.lines[j] = t[i]
      BY <1>2, <2>2, <3>1
    <3>3. Len(w.lines) - j <= Len(t) - i
      BY <1>2, <2>2, <3>1
    <3> QED
      BY <3>2, <3>3 DEF Found
  <2>5. \A i \in 1..Len(t) : i = Len(t) \/ i \in 1..(Len(t) - 1)
    BY <1>2
  <2>6. ASSUME c = 0 PROVE \A i \in 1..Len(t) : Found(t, w, i)
    <3>1. \A h \in 1..Len(s) : Found(s, d, h)
      BY <2>6 DEF ShownIn
    <3> QED
      BY <1>1, <2>3, <2>4, <2>5, <3>1
  <2>7. ASSUME c > 0
        PROVE  \E p, q \in Entry : \A i \in 1..Len(t) : Found(t, w, i) \/ t[i] \in {p, q}
    <3>1. PICK p \in Entry, q \in Entry :
             \A h \in 1..Len(s) : Found(s, d, h) \/ s[h] \in {p, q}
      BY <2>7 DEF ShownIn
    <3>2. \A i \in 1..Len(t) : Found(t, w, i) \/ t[i] \in {p, q}
      BY <1>1, <2>3, <2>4, <2>5, <3>1
    <3> QED
      BY <3>2
  <2>8. ShownIn(t, w, c)
    BY <1>3, <2>6, <2>7 DEF ShownIn
  <2> QED
    BY <2>8 DEF w
<1>6. CASE d.tail = "entry"
  <2> DEFINE p == d.lines[Len(d.lines)]
  <2>1. s = ReadBack(d) /\ c >= 1 /\ Len(d.lines) > 0
    BY <1>6 DEF ShownIn, Ended
  <2>2. w.lines = SubSeq(d.lines, 1, Len(d.lines) - 1)
    BY <1>6, WrittenFacts, SpoiltFacts
  <2>3. p \in Entry
    <3>1. Len(d.lines) \in 1..Len(d.lines)
      BY <1>2, <2>1
    <3> QED
      BY <1>2, <3>1
  <2> HIDE DEF w
  <2>4. /\ Len(w.lines) = Len(d.lines) - 1
        /\ \A j \in 1..(Len(d.lines) - 1) : w.lines[j] = d.lines[j]
    BY <1>2, <2>1, <2>2, FrontFacts
  <2>5. \A i \in 1..Len(t) : Found(t, w, i) \/ t[i] \in {p, e}
    <3> SUFFICES ASSUME NEW i \in 1..Len(t), t[i] # e, t[i] # p PROVE Found(t, w, i)
      OBVIOUS
    <3>1. i \in 1..(Len(t) - 1)
      BY <1>1, <1>2
    <3>2. PICK h \in 1..Len(s) : t[i] = s[h] /\ Len(s) - h = Len(t) - i - 1
      BY <1>1, <3>1
    <3>3. Found(s, d, h)
      BY <2>1, ReadIsFound
    <3>4. PICK j \in 1..Len(d.lines) : d.lines[j] = s[h] /\ Len(d.lines) - j <= Len(s) - h
      BY <3>3 DEF Found
    <3>5. j # Len(d.lines)
      BY <3>2, <3>4
    <3>6. j \in 1..Len(w.lines) /\ w.lines[j] = t[i]
      BY <1>2, <2>4, <3>2, <3>4, <3>5
    <3>7. Len(w.lines) - j <= Len(t) - i
      BY <1>2, <2>4, <3>2, <3>4
    <3> QED
      BY <3>6, <3>7 DEF Found
  <2> HIDE DEF p
  <2>6. c > 0 => \E x, y \in Entry : \A i \in 1..Len(t) : Found(t, w, i) \/ t[i] \in {x, y}
    BY <2>3, <2>5
  <2>7. w.tail # "junk" /\ (w.tail = "entry" => t = ReadBack(w))
    BY <1>3
  <2>8. c # 0
    BY <2>1
  <2>9. ShownIn(t, w, c)
    BY <2>6, <2>7, <2>8 DEF ShownIn
  <2> QED
    BY <2>9 DEF w
<1> QED
  BY <1>4, <1>5, <1>6

-----------------------------------------------------------------------------
(* The steps of the journal.                                               *)

LEMMA JournalTypes ==
  ASSUME JournalInv
  PROVE  /\ up \in BOOLEAN /\ open \in BOOLEAN
         /\ entries \in Seq(Entry) /\ Len(entries) <= Keep /\ Len(entries) \in Nat
         /\ appended \in Nat /\ appended <= Keep - 1
         /\ disk \in File /\ Size(disk) \in Nat
         /\ added \in Nat /\ cuts \in Nat /\ untrimmed \in Nat
         /\ added <= MaxEntries /\ cuts <= added /\ untrimmed <= added
         /\ Keep \in Nat \ {0} /\ MaxEntries \in Nat
<1>1. JournalTypeOK /\ cuts <= added /\ untrimmed <= added
  BY DEF JournalInv, Counted
<1>2. Keep \in Nat \ {0} /\ MaxEntries \in Nat
  BY KeepAssumption
<1>3. disk \in File
  BY <1>1 DEF JournalTypeOK, File
<1>4. Size(disk) \in Nat
  BY <1>3 DEF File, Size
<1> QED
  BY <1>1, <1>2, <1>3, <1>4 DEF JournalTypeOK

\* The same facts, put together after a step.
LEMMA JournalTypesAfter ==
  ASSUME up' \in BOOLEAN, open' \in BOOLEAN,
         entries' \in Seq(Entry), Len(entries') <= Keep,
         appended' \in Nat, appended' <= Keep - 1,
         disk' \in File,
         added' \in Nat, cuts' \in Nat, untrimmed' \in Nat,
         added' <= MaxEntries, cuts' <= added', untrimmed' <= added'
  PROVE  JournalTypeOK'
<1>1. Keep \in Nat \ {0} /\ MaxEntries \in Nat
  BY KeepAssumption
<1> QED
  BY <1>1 DEF JournalTypeOK, File

LEMMA RoomFacts ==
  ASSUME NEW u \in Nat
  PROVE  /\ Room(u) \in Nat /\ Room(u) >= Keep
         /\ Room(u + 1) = Room(u) + Keep /\ Room(u + 1) = (2 + u) * Keep
<1>1. Keep \in Nat
  BY KeepAssumption
<1>2. u * Keep \in Nat
  BY <1>1
<1>3. (1 + u) * Keep = Keep + u * Keep
  BY <1>1
<1>4. (1 + (u + 1)) * Keep = Keep + Keep + u * Keep
  BY <1>1
<1>5. (2 + u) * Keep = Keep + Keep + u * Keep
  BY <1>1
<1> QED
  BY <1>1, <1>2, <1>3, <1>4, <1>5 DEF Room

LEMMA OneMore ==
  ASSUME NEW x \in Nat, NEW y \in Nat, NEW r \in Nat, NEW a \in Nat, NEW k \in Nat,
         x <= y + 1, y <= r + a, a <= k - 1
  PROVE  x <= r + (a + 1) /\ x <= r + k
OBVIOUS

LEMMA NewEntryFacts ==
  ASSUME JournalInv, added < MaxEntries, NEW who \in Members \cup {Nobody}
  PROVE  NewEntry(who) \in Entry /\ NewEntry(who).n = added + 1
<1>1. added + 1 \in 1..MaxEntries
  BY JournalTypes
<1> QED
  BY <1>1 DEF NewEntry, Entry

\* What is in memory once an entry is remembered.
LEMMA RememberFacts ==
  ASSUME JournalInv, NEW e \in Entry, e.n = added + 1, added < MaxEntries, Remember(e)
  PROVE  /\ entries' \in Seq(Entry) /\ Len(entries') <= Keep
         /\ entries' = LastOf(Append(entries, e))
         /\ added' = added + 1 /\ added' \in Nat /\ added' <= MaxEntries
         /\ Ordered(entries', added')
<1>1. entries' = LastOf(Append(entries, e)) /\ added' = added + 1
  BY DEF Remember
<1>2. Ordered(LastOf(Append(entries, e)), added + 1)
  <2>1. Ordered(Append(entries, e), added + 1)
    BY JournalTypes, OrderedAppend DEF JournalInv
  <2> QED
    BY <2>1, OrderedLastOf
<1>3. LastOf(Append(entries, e)) \in Seq(Entry) /\ Len(LastOf(Append(entries, e))) <= Keep
  <2>1. Extends(LastOf(Append(entries, e)), entries, e)
    BY JournalTypes, RememberedIs
  <2> QED
    BY <2>1, JournalTypes DEF Extends
<1> QED
  BY <1>1, <1>2, <1>3, JournalTypes

LEMMA AddUnwrittenKeeps ==
  ASSUME JournalInv, NEW e \in Entry, e.n = added + 1, added < MaxEntries, AddUnwritten(e)
  PROVE  JournalInv'
<1>1. /\ ~open /\ Remember(e)
      /\ up' = up /\ open' = open /\ appended' = appended /\ disk' = disk
      /\ cuts' = cuts /\ untrimmed' = untrimmed
  BY DEF AddUnwritten
<1>2. /\ entries' \in Seq(Entry) /\ Len(entries') <= Keep
      /\ added' = added + 1 /\ added' \in Nat /\ added' <= MaxEntries
      /\ Ordered(entries', added')
  BY <1>1, RememberFacts
<1>3. JournalTypeOK'
  BY <1>1, <1>2, JournalTypes, JournalTypesAfter
<1>4. Counted' /\ Ended(disk')
  BY <1>1, <1>2, JournalTypes DEF JournalInv, Counted
<1>5. Ordered(disk'.lines, added')
  BY <1>1, <1>2, JournalTypes, OrderedMore DEF JournalInv
<1>6. Sized'
  BY <1>1 DEF JournalInv, Sized
<1>7. Shown'
  BY <1>1 DEF Shown
<1> QED
  BY <1>2, <1>3, <1>4, <1>5, <1>6, <1>7 DEF JournalInv

LEMMA AddWrittenKeeps ==
  ASSUME JournalInv, NEW e \in Entry, e.n = added + 1, added < MaxEntries, AddWritten(e)
  PROVE  JournalInv'
<1> DEFINE w == Written(disk, e)
           compacting == appended + 1 >= Keep
<1>1. open /\ Remember(e) /\ up' = up /\ cuts' = cuts
  BY DEF AddWritten
<1>2. /\ entries' \in Seq(Entry) /\ Len(entries') <= Keep
      /\ entries' = LastOf(Append(entries, e))
      /\ added' = added + 1 /\ added' \in Nat /\ added' <= MaxEntries
      /\ Ordered(entries', added')
  BY <1>1, RememberFacts
<1>3. /\ w \in File /\ w.tail = "none" /\ Ended(w)
      /\ Ordered(w.lines, added + 1)
      /\ Size(w) <= Size(disk) + 1 /\ Size(w) \in Nat
  <2>1. w \in File /\ Ended(w) /\ Ordered(w.lines, added + 1) /\ Size(w) <= Size(disk) + 1
    BY JournalTypes, WriteGrows DEF JournalInv
  <2>2. w.tail = "none"
    BY JournalTypes, WrittenFacts
  <2> HIDE DEF w
  <2>3. Size(w) \in Nat
    BY <2>1 DEF Size, File
  <2> QED
    BY <2>1, <2>2, <2>3
<1>4. ShownIn(entries', w, cuts)
  <2>1. ShownIn(entries, disk, cuts) /\ Ended(disk) /\ (disk.tail = "entry" => cuts >= 1)
    BY <1>1 DEF JournalInv, Shown, Counted
  <2>2. ShownIn(LastOf(Append(entries, e)), w, cuts)
    BY <2>1, JournalTypes, ShownAppended
  <2> QED
    BY <1>2, <2>2
<1>5. \/ /\ ~compacting /\ appended' = appended + 1 /\ disk' = w
         /\ open' = open /\ untrimmed' = untrimmed
      \/ /\ compacting /\ appended' = 0 /\ disk' = w
         /\ open' = open /\ untrimmed' = untrimmed + 1
      \/ /\ appended' = 0 /\ disk' = Lines(entries')
         /\ open' \in BOOLEAN /\ untrimmed' = untrimmed
  BY JournalTypes DEF AddWritten, Compact
<1> HIDE DEF w, compacting
<1>6. Size(disk) <= Room(untrimmed) + appended
  BY <1>1 DEF JournalInv, Sized
<1>7. /\ Room(untrimmed) \in Nat /\ Room(untrimmed) >= Keep
      /\ Room(untrimmed + 1) = Room(untrimmed) + Keep
      /\ Room(untrimmed + 2) = Room(untrimmed) + Keep + Keep
  <2>1. untrimmed \in Nat /\ untrimmed + 1 \in Nat /\ (untrimmed + 1) + 1 = untrimmed + 2
    BY JournalTypes
  <2>2. /\ Room(untrimmed) \in Nat /\ Room(untrimmed) >= Keep
        /\ Room(untrimmed + 1) = Room(untrimmed) + Keep
    BY <2>1, RoomFacts
  <2>3. Room((untrimmed + 1) + 1) = Room(untrimmed + 1) + Keep
    BY <2>1, RoomFacts
  <2> QED
    BY <2>1, <2>2, <2>3
<1>8. CASE /\ ~compacting /\ appended' = appended + 1 /\ disk' = w
           /\ open' = open /\ untrimmed' = untrimmed
  <2>1. appended + 1 \in Nat /\ appended + 1 <= Keep - 1
    BY <1>8, JournalTypes DEF compacting
  <2>2. JournalTypeOK'
    BY <1>1, <1>2, <1>3, <1>8, <2>1, JournalTypes, JournalTypesAfter
  <2>3. Counted' /\ Ended(disk')
    BY <1>1, <1>2, <1>3, <1>8, JournalTypes DEF Counted
  <2>4. Sized'
    <3>1. Size(disk') <= Room(untrimmed) + (appended + 1)
      BY <1>3, <1>6, <1>7, <1>8, JournalTypes, OneMore
    <3> QED
      BY <1>1, <1>8, <3>1 DEF Sized
  <2>5. Shown'
    BY <1>1, <1>4, <1>8 DEF Shown
  <2> QED
    BY <1>2, <1>3, <1>8, <2>2, <2>3, <2>4, <2>5 DEF JournalInv
<1>9. CASE /\ compacting /\ appended' = 0 /\ disk' = w
           /\ open' = open /\ untrimmed' = untrimmed + 1
  <2>1. JournalTypeOK'
    BY <1>1, <1>2, <1>3, <1>9, JournalTypes, JournalTypesAfter
  <2>2. Counted' /\ Ended(disk')
    BY <1>1, <1>2, <1>3, <1>9, JournalTypes DEF Counted
  <2>3. Sized'
    <3>1. Size(w) <= Room(untrimmed) + Keep
      BY <1>3, <1>6, <1>7, JournalTypes, OneMore
    <3>2. Size(disk') <= Room(untrimmed + 1) + 0
      BY <1>3, <1>7, <1>9, <3>1, JournalTypes
    <3> QED
      BY <1>1, <1>9, <3>2 DEF Sized
  <2>4. Shown'
    BY <1>1, <1>4, <1>9 DEF Shown
  <2> QED
    BY <1>2, <1>3, <1>9, <2>1, <2>2, <2>3, <2>4 DEF JournalInv
<1>10. CASE /\ appended' = 0 /\ disk' = Lines(entries')
            /\ open' \in BOOLEAN /\ untrimmed' = untrimmed
  <2>1. /\ disk' \in File /\ disk'.lines = entries' /\ disk'.tail = "none"
        /\ Ended(disk') /\ Size(disk') = Len(entries')
    BY <1>2, <1>10, LinesFacts
  <2>2. JournalTypeOK'
    BY <1>1, <1>2, <1>10, <2>1, JournalTypes, JournalTypesAfter
  <2>3. Counted'
    BY <1>1, <1>2, <1>10, <2>1, JournalTypes DEF Counted
  <2>4. Sized'
    BY <1>2, <1>7, <1>10, <2>1, JournalTypes DEF Sized
  <2>5. ShownIn(entries', disk', cuts')
    <3>1. ReadBack(disk') = entries'
      BY <1>2, <2>1, LastOfShort DEF ReadBack
    <3> QED
      BY <1>1, <2>1, <3>1, JournalTypes, ShownWhole
  <2>6. Shown'
    BY <2>5 DEF Shown
  <2> QED
    BY <1>2, <2>1, <2>2, <2>3, <2>4, <2>6 DEF JournalInv
<1> QED
  BY <1>5, <1>8, <1>9, <1>10

LEMMA CutsFacts ==
  ASSUME NEW d \in File, NEW w \in File
  PROVE  /\ Cuts(d, w) \in {0, 1}
         /\ w.tail = "entry" => d.tail = "entry" \/ d.tail = "junk" \/ Cuts(d, w) = 1
BY DEF Cuts, File

\* What a write that was not the last line's whole leaves, counted.
LEMMA HalfWrittenCounted ==
  ASSUME JournalInv, NEW e \in Entry, e.n = added + 1, NEW w \in HalfWritten(disk, e)
  PROVE  /\ w \in File /\ Ended(w) /\ Ordered(w.lines, added + 1)
         /\ Size(w) \in Nat /\ Size(w) <= Size(disk) + 1
         /\ Cuts(disk, w) \in {0, 1}
         /\ w.tail = "entry" => cuts + Cuts(disk, w) >= 1
<1>1. w \in File /\ Ended(w) /\ Ordered(w.lines, added + 1) /\ Size(w) <= Size(disk) + 1
  BY JournalTypes, WriteGrows DEF JournalInv
<1>2. Size(w) \in Nat
  BY <1>1 DEF Size, File
<1>3. /\ Cuts(disk, w) \in {0, 1}
      /\ w.tail = "entry" => disk.tail = "entry" \/ disk.tail = "junk" \/ Cuts(disk, w) = 1
  BY <1>1, JournalTypes, CutsFacts
<1>4. w.tail = "entry" => disk.tail # "junk"
  <2>1. w # disk => ~ (disk.tail = "junk" /\ w.tail = "entry")
    BY JournalTypes, HalfWrittenFacts
  <2> QED
    BY <2>1
<1>5. disk.tail = "entry" => cuts >= 1
  BY DEF JournalInv, Counted
<1> QED
  BY <1>1, <1>2, <1>3, <1>4, <1>5, JournalTypes

LEMMA AddFailsKeeps ==
  ASSUME JournalInv, NEW e \in Entry, e.n = added + 1, added < MaxEntries, AddFails(e)
  PROVE  JournalInv'
<1>1. /\ open /\ Remember(e) /\ open' = FALSE /\ up' = up /\ untrimmed' = untrimmed
      /\ appended' = (IF appended + 1 >= Keep THEN 0 ELSE appended + 1)
      /\ cuts' = cuts + Cuts(disk, disk')
      /\ disk' \in HalfWritten(disk, e)
  BY DEF AddFails
<1>2. /\ entries' \in Seq(Entry) /\ Len(entries') <= Keep
      /\ added' = added + 1 /\ added' \in Nat /\ added' <= MaxEntries
      /\ Ordered(entries', added')
  BY <1>1, RememberFacts
<1>3. /\ disk' \in File /\ Ended(disk') /\ Ordered(disk'.lines, added + 1)
      /\ Size(disk') \in Nat /\ Size(disk') <= Size(disk) + 1
      /\ Cuts(disk, disk') \in {0, 1}
      /\ disk'.tail = "entry" => cuts + Cuts(disk, disk') >= 1
  BY <1>1, HalfWrittenCounted
<1>4. JournalTypeOK'
  <2>1. appended' \in Nat /\ appended' <= Keep - 1
    BY <1>1, JournalTypes
  <2>2. cuts' \in Nat /\ cuts' <= added'
    BY <1>1, <1>2, <1>3, JournalTypes
  <2>3. up' \in BOOLEAN /\ open' \in BOOLEAN /\ untrimmed' \in Nat /\ untrimmed' <= added'
    <3>1. untrimmed' \in Nat /\ untrimmed' <= added'
      BY <1>1, <1>2, JournalTypes
    <3> QED
      BY <1>1, <3>1, JournalTypes
  <2> QED
    BY <1>2, <1>3, <2>1, <2>2, <2>3, JournalTypesAfter
<1>5. Counted'
  BY <1>1, <1>2, <1>3, JournalTypes DEF Counted
<1>6. Sized'
  <2>1. Size(disk) <= Room(untrimmed) + appended
    BY <1>1 DEF JournalInv, Sized
  <2>2. Room(untrimmed) \in Nat /\ Room(untrimmed + 1) = Room(untrimmed) + Keep
    BY JournalTypes, RoomFacts
  <2>3. Size(disk') <= Room(untrimmed + 1)
    BY <1>3, <2>1, <2>2, JournalTypes
  <2> QED
    BY <1>1, <2>3 DEF Sized
<1>7. Shown'
  BY <1>1 DEF Shown
<1> QED
  BY <1>2, <1>3, <1>4, <1>5, <1>6, <1>7 DEF JournalInv

LEMMA HubEndsKeeps ==
  ASSUME JournalInv, HubEnds
  PROVE  JournalInv'
<1>1. /\ up' = FALSE /\ open' = FALSE /\ entries' = <<>> /\ appended' = 0
      /\ untrimmed' = untrimmed
  BY DEF HubEnds
<1>2. /\ entries' \in Seq(Entry) /\ Len(entries') <= Keep /\ Ordered(entries', added')
      /\ appended' \in Nat /\ appended' <= Keep - 1
      /\ up' \in BOOLEAN /\ open' \in BOOLEAN /\ untrimmed' \in Nat
  <2>1. <<>> \in Seq(Entry) /\ Len(<<>>) <= Keep /\ 0 <= Keep - 1
    BY JournalTypes
  <2>2. Ordered(<<>>, added')
    BY OrderedEmpty
  <2> QED
    BY <1>1, <2>1, <2>2, JournalTypes
<1>3. Shown'
  BY <1>1 DEF Shown
<1>4. /\ Room(untrimmed) \in Nat /\ Room(untrimmed) >= Keep
      /\ Room(untrimmed + 1) = Room(untrimmed) + Keep
  BY JournalTypes, RoomFacts
<1>5. ASSUME disk' \in File, Ended(disk'), Ordered(disk'.lines, added'),
             Size(disk') <= Room(untrimmed + 1),
             added' \in Nat, added' <= MaxEntries, added' >= added,
             cuts' \in Nat, cuts' <= added', disk'.tail = "entry" => cuts' >= 1
      PROVE  JournalInv'
  <2>1. untrimmed' <= added'
    BY <1>1, <1>5, JournalTypes
  <2>2. JournalTypeOK'
    BY <1>2, <1>5, <2>1, JournalTypesAfter
  <2>3. Counted'
    BY <1>5, <2>1 DEF Counted
  <2>4. Sized'
    BY <1>1, <1>5 DEF Sized
  <2> QED
    BY <1>2, <1>3, <1>5, <2>2, <2>3, <2>4 DEF JournalInv
<1>6. CASE UNCHANGED <<disk, added, cuts>>
  <2>1. Size(disk) <= Room(untrimmed + 1)
    BY <1>4, JournalTypes DEF JournalInv, Sized
  <2> QED
    BY <1>5, <1>6, <2>1, JournalTypes DEF JournalInv, Counted
<1>7. CASE /\ open /\ added < MaxEntries /\ added' = added + 1
           /\ LET e == NewEntry(Nobody) IN
              \/ /\ disk' \in HalfWritten(disk, e)
                 /\ cuts' = cuts + Cuts(disk, disk')
              \/ /\ disk' \in {Written(disk, e)} \cup
                              IF appended + 1 >= Keep
                              THEN {Lines(LastOf(Append(entries, e)))} ELSE {}
                 /\ UNCHANGED cuts
  <2> DEFINE e == NewEntry(Nobody)
  <2>1. e \in Entry /\ e.n = added + 1
    BY <1>7, NewEntryFacts
  <2>2. \/ disk' \in HalfWritten(disk, e) /\ cuts' = cuts + Cuts(disk, disk')
        \/ disk' = Written(disk, e) /\ cuts' = cuts
        \/ disk' = Lines(LastOf(Append(entries, e))) /\ cuts' = cuts
    BY <1>7
  <2> HIDE DEF e
  <2>3. added' \in Nat /\ added' <= MaxEntries /\ added' >= added
    BY <1>7, JournalTypes
  <2>4. Size(disk) + 1 <= Room(untrimmed + 1)
    <3>1. Size(disk) <= Room(untrimmed) + appended
      BY <1>7 DEF JournalInv, Sized
    <3> QED
      BY <1>4, <3>1, JournalTypes
  <2>5. CASE disk' \in HalfWritten(disk, e) /\ cuts' = cuts + Cuts(disk, disk')
    <3>1. /\ disk' \in File /\ Ended(disk') /\ Ordered(disk'.lines, added + 1)
          /\ Size(disk') \in Nat /\ Size(disk') <= Size(disk) + 1
          /\ Cuts(disk, disk') \in {0, 1}
          /\ disk'.tail = "entry" => cuts + Cuts(disk, disk') >= 1
      BY <2>1, <2>5, HalfWrittenCounted
    <3>2. cuts' \in Nat /\ cuts' <= added'
      BY <1>7, <2>5, <3>1, JournalTypes
    <3>3. Size(disk') <= Room(untrimmed + 1)
      BY <1>4, <2>4, <3>1, JournalTypes
    <3> QED
      BY <1>5, <1>7, <2>3, <2>5, <3>1, <3>2, <3>3
  <2>6. CASE disk' = Written(disk, e) /\ cuts' = cuts
    <3>1. disk' \in File /\ Ended(disk') /\ Ordered(disk'.lines, added + 1) /\ Size(disk') <= Size(disk) + 1
      BY <2>1, <2>6, JournalTypes, WriteGrows DEF JournalInv
    <3>2. disk'.tail = "none"
      BY <2>1, <2>6, JournalTypes, WrittenFacts
    <3>3. cuts' \in Nat /\ cuts' <= added'
      BY <1>7, <2>6, JournalTypes
    <3>4. Size(disk') \in Nat
      BY <3>1 DEF Size, File
    <3>5. Size(disk') <= Room(untrimmed + 1)
      BY <1>4, <2>4, <3>1, <3>4, JournalTypes
    <3> QED
      BY <1>5, <1>7, <2>3, <3>1, <3>2, <3>3, <3>5
  <2>7. CASE disk' = Lines(LastOf(Append(entries, e))) /\ cuts' = cuts
    <3> DEFINE t == LastOf(Append(entries, e))
    <3>1. t \in Seq(Entry) /\ Len(t) <= Keep
      <4>1. Extends(t, entries, e)
        BY <2>1, JournalTypes, RememberedIs
      <4> HIDE DEF t
      <4> QED
        BY <4>1, JournalTypes DEF Extends
    <3>2. Ordered(t, added + 1)
      <4>1. Ordered(Append(entries, e), added + 1)
        BY <2>1, JournalTypes, OrderedAppend DEF JournalInv
      <4> QED
        BY <4>1, OrderedLastOf
    <3>3. disk' = Lines(t)
      BY <2>7
    <3> HIDE DEF t
    <3>4. /\ disk' \in File /\ disk'.lines = t /\ disk'.tail = "none"
          /\ Ended(disk') /\ Size(disk') = Len(t)
      BY <3>1, <3>3, LinesFacts
    <3>5. cuts' \in Nat /\ cuts' <= added'
      BY <1>7, <2>7, JournalTypes
    <3>6. Size(disk') <= Room(untrimmed + 1)
      BY <1>4, <3>1, <3>4, JournalTypes
    <3> QED
      BY <1>5, <1>7, <2>3, <3>2, <3>4, <3>5, <3>6
  <2> QED
    BY <2>2, <2>5, <2>6, <2>7
<1> QED
  BY <1>6, <1>7 DEF HubEnds

\* The file without its oldest lines is in order, and the same if there are none.
LEMMA YoungerFacts ==
  ASSUME NEW d \in File, NEW a, Ordered(d.lines, a), NEW old \in 0..Len(d.lines)
  PROVE  /\ Younger(d, old) \in File /\ Younger(d, old).junk = d.junk
         /\ Ordered(Younger(d, old).lines, a)
         /\ old = 0 => Younger(d, old) = d
<1> DEFINE n == Len(d.lines)
           t == SubSeq(d.lines, old + 1, n)
<1>1. d.lines \in Seq(Entry) /\ n \in Nat /\ old \in 0..n
  BY DEF File
<1>2. Younger(d, old) = [d EXCEPT !.lines = t]
  BY DEF Younger
<1>3. t \in Seq(Entry) /\ Len(t) = n - old /\ \A i \in 1..(n - old) : t[i] = d.lines[i + old]
  <2>1. CASE old = n
    <3>1. t = <<>>
      BY <1>1, <2>1
    <3> HIDE DEF t, n
    <3> QED
      BY <1>1, <2>1, <3>1
  <2>2. CASE old < n
    <3>1. old + 1 \in 1..(n + 1) /\ \A i \in (old + 1)..n : d.lines[i] \in Entry
      BY <1>1
    <3> HIDE DEF n
    <3>2. /\ t \in Seq(Entry)
          /\ Len(t) = IF old + 1 <= n THEN n - (old + 1) + 1 ELSE 0
          /\ \A i \in 1..(n - (old + 1) + 1) : t[i] = d.lines[(old + 1) + i - 1]
      <4>1. old + 1 \in Int /\ n \in Int
        BY <1>1
      <4> QED
        BY <3>1, <4>1, SubSeqProperties
    <3> HIDE DEF t
    <3>3. n - (old + 1) + 1 = n - old /\ old + 1 <= n
      BY <1>1, <2>2
    <3>4. \A i \in 1..(n - old) : (old + 1) + i - 1 = i + old
      BY <1>1
    <3> QED
      BY <3>2, <3>3, <3>4
  <2> QED
    BY <1>1, <2>1, <2>2
<1>4. old = 0 => t = d.lines
  BY <1>1, SubSeqFull
<1>5. Ordered(t, a)
  <2>1. \A i \in 1..(n - old) : i + old \in 1..n
    BY <1>1
  <2> HIDE DEF t
  <2>2. old \in Nat
    BY <1>1
  <2>3. \A i \in 1..Len(t) : i + old \in 1..Len(d.lines) /\ t[i] = d.lines[i + old]
    BY <1>3, <2>1
  <2> QED
    BY <1>3, <2>2, <2>3, OrderedPart
<1> HIDE DEF t
<1>6. old = 0 => [d EXCEPT !.lines = t] = d
  BY <1>4 DEF File
<1> QED
  BY <1>2, <1>3, <1>5, <1>6 DEF File

LEMMA OpenJournalKeeps ==
  ASSUME JournalInv, OpenJournal
  PROVE  JournalInv'
<1>1. /\ up' = TRUE /\ appended' = 0
      /\ added' = added /\ cuts' = cuts /\ untrimmed' = untrimmed
  BY DEF OpenJournal
<1>2. Entry # {} \/ cuts = 0
  <2>1. CASE cuts > 0
    <3>1. 1 \in 1..MaxEntries
      BY <2>1, JournalTypes
    <3>2. [n |-> 1, who |-> Nobody] \in Entry
      BY <3>1 DEF Entry
    <3> QED
      BY <3>2
  <2> QED
    BY <2>1, JournalTypes
<1>3. /\ Room(untrimmed) \in Nat /\ Room(untrimmed) >= Keep
      /\ Room(untrimmed + 1) = Room(untrimmed) + Keep
  BY JournalTypes, RoomFacts
<1>4. ASSUME entries' \in Seq(Entry), Len(entries') <= Keep, Ordered(entries', added),
             disk' \in File, Ended(disk'), Ordered(disk'.lines, added),
             open' \in BOOLEAN, disk'.tail = "entry" => cuts >= 1,
             Size(disk') <= (IF open' THEN Room(untrimmed) ELSE Room(untrimmed + 1)),
             open' => disk'.tail # "junk" /\ entries' = ReadBack(disk')
      PROVE  JournalInv'
  <2>1. JournalTypeOK'
    <3>1. up' \in BOOLEAN /\ appended' \in Nat /\ appended' <= Keep - 1
      BY <1>1, JournalTypes
    <3> QED
      BY <1>1, <1>4, <3>1, JournalTypes, JournalTypesAfter
  <2>2. Counted'
    BY <1>1, <1>4, JournalTypes DEF Counted
  <2>3. Sized'
    <3>1. Room(untrimmed) + 0 = Room(untrimmed)
      BY <1>3
    <3> QED
      BY <1>1, <1>4, <3>1 DEF Sized
  <2>4. open' => ShownIn(entries', disk', cuts')
    BY <1>1, <1>2, <1>4, JournalTypes, ShownWhole
  <2> QED
    BY <1>1, <1>4, <2>1, <2>2, <2>3, <2>4 DEF JournalInv, Shown
<1>5. ASSUME disk' = disk
      PROVE  /\ disk' \in File /\ Ended(disk') /\ Ordered(disk'.lines, added)
             /\ disk'.tail = "entry" => cuts >= 1
             /\ Size(disk') <= Room(untrimmed + 1)
  <2>1. Size(disk) <= Room(untrimmed + 1)
    BY <1>3, JournalTypes DEF JournalInv, Sized
  <2> QED
    BY <1>5, <2>1, JournalTypes DEF JournalInv, Counted
<1>6. CASE entries' = <<>> /\ open' = FALSE /\ UNCHANGED disk
  <2>1. <<>> \in Seq(Entry) /\ Len(<<>>) <= Keep /\ Ordered(<<>>, added)
    BY JournalTypes, OrderedEmpty
  <2> QED
    BY <1>4, <1>5, <1>6, <2>1
<1>7. ASSUME NEW old \in 0..Len(disk.lines), NEW young, young = Younger(disk, old),
             NEW trimmed, trimmed = (old > 0 \/ Trimmed(young)),
             entries' = ReadBack(young),
             \/ /\ disk' = IF trimmed THEN Lines(ReadBack(young)) ELSE disk
                /\ open' \in BOOLEAN
             \/ trimmed /\ open' = FALSE /\ UNCHANGED disk
      PROVE  JournalInv'
  <2> DEFINE s == ReadBack(young)
  <2>1. /\ young \in File /\ young.junk = disk.junk /\ Ordered(young.lines, added)
        /\ old = 0 => young = disk
    BY <1>7, JournalTypes, YoungerFacts DEF JournalInv
  <2>2. s \in Seq(Entry) /\ Len(s) <= Keep /\ Ordered(s, added)
    <3>1. young.lines \in Seq(Entry) /\ Len(young.lines) \in Nat /\ Keep \in Nat
      BY <2>1, JournalTypes DEF File
    <3>2. /\ s \in Seq(Entry)
          /\ Len(s) = IF Len(young.lines) > Keep THEN Keep ELSE Len(young.lines)
      BY <3>1, LastOfFacts DEF ReadBack
    <3>3. Ordered(s, added)
      BY <2>1, OrderedLastOf DEF ReadBack
    <3> HIDE DEF s
    <3> QED
      BY <3>1, <3>2, <3>3
  <2>3. entries' = s
    BY <1>7
  <2> HIDE DEF s
  <2>4. CASE disk' = Lines(s) /\ open' \in BOOLEAN
    <3>1. /\ disk' \in File /\ disk'.lines = s /\ disk'.tail = "none"
          /\ Ended(disk') /\ Size(disk') = Len(s)
      BY <2>2, <2>4, LinesFacts
    <3>2. ReadBack(disk') = s
      BY <2>2, <3>1, LastOfShort DEF ReadBack
    <3>3. Size(disk') <= Room(untrimmed) /\ Size(disk') <= Room(untrimmed + 1)
      BY <1>3, <2>2, <3>1, JournalTypes
    <3> QED
      BY <1>4, <2>2, <2>3, <2>4, <3>1, <3>2, <3>3
  <2>5. CASE disk' = disk /\ open' = FALSE
    BY <1>4, <1>5, <2>2, <2>3, <2>5
  <2>6. CASE ~trimmed /\ disk' = disk /\ open' \in BOOLEAN
    <3>1. old = 0 /\ young = disk /\ ~Trimmed(disk)
      <4>1. ~ (old > 0) /\ ~Trimmed(young)
        BY <1>7, <2>6, Zenon
      <4>2. old \in Nat
        BY JournalTypes DEF File
      <4>3. old = 0
        BY <4>1, <4>2
      <4> QED
        BY <2>1, <4>1, <4>3
    <3>2. disk.lines \in Seq(Entry) /\ Len(disk.lines) \in Nat /\ disk.junk \in Nat
      BY JournalTypes DEF File
    <3>3. disk.junk = 0 /\ Len(disk.lines) <= Keep
      BY <3>1, <3>2, JournalTypes DEF Trimmed
    <3>4. disk.tail # "junk"
      BY <3>3 DEF JournalInv, Ended
    <3>5. Size(disk) <= Room(untrimmed)
      BY <1>3, <3>2, <3>3, JournalTypes DEF Size
    <3>6. entries' = ReadBack(disk')
      BY <2>3, <2>6, <3>1 DEF s
    <3> QED
      BY <1>4, <1>5, <2>2, <2>3, <2>6, <3>4, <3>5, <3>6
  <2> QED
    BY <1>7, <2>4, <2>5, <2>6 DEF s
<1> QED
  <2>1. \/ \E old \in 0..Len(disk.lines) :
              LET young   == Younger(disk, old)
                  trimmed == old > 0 \/ Trimmed(young)
              IN /\ entries' = ReadBack(young)
                 /\ \/ /\ disk' = IF trimmed THEN Lines(ReadBack(young)) ELSE disk
                       /\ open' \in BOOLEAN
                    \/ trimmed /\ open' = FALSE /\ UNCHANGED disk
        \/ entries' = <<>> /\ open' = FALSE /\ UNCHANGED disk
    BY DEF OpenJournal
  <2> QED
    BY <1>6, <1>7, <2>1

-----------------------------------------------------------------------------
(* The loop of typed.  What it computes is a function of the number of     *)
(* keys taken, defined by recursion; that there is one is proved here, by  *)
(* the least number of keys there would be none for.                       *)

\* A set of natural numbers has a least element.
LEMMA LeastOf ==
  ASSUME NEW S \in SUBSET Nat, S # {}
  PROVE  \E n \in S : \A k \in S : n <= k
<1> DEFINE Below == OpToRel(<, Nat)
<1>1. IsWellFoundedOn(Below, Nat)
  BY NatLessThanWellFounded
<1>2. \A x, y \in Nat : <<x, y>> \in Below <=> x < y
  BY DEF OpToRel
<1> HIDE DEF Below
<1>3. PICK n \in S : \A k \in S : ~ (<<k, n>> \in Below)
  BY <1>1, WFMin
<1>4. ASSUME NEW k \in S PROVE n <= k
  <2>1. ~ (k < n)
    BY <1>2, <1>3
  <2> QED
    BY <2>1
<1> QED
  BY <1>4

\* g is what the loop has after each of the first n keys.
Loop(g, n, line, m, keys) ==
    g = [i \in 0..n |->
            IF i = 0 THEN [line |-> Joined(line, m, keys), said |-> <<>>]
            ELSE Pressed(g[i - 1], keys[i], m)]

LEMMA LoopExists ==
  ASSUME NEW line, NEW m, NEW keys, NEW n \in Nat
  PROVE  \E g : Loop(g, n, line, m, keys)
<1> DEFINE first == [line |-> Joined(line, m, keys), said |-> <<>>]
           S == {k \in Nat : ~ \E g : Loop(g, k, line, m, keys)}
<1>1. SUFFICES ASSUME S # {} PROVE FALSE
  OBVIOUS
<1>2. PICK k \in S : \A h \in S : k <= h
  <2>1. S \in SUBSET Nat
    OBVIOUS
  <2> HIDE DEF S
  <2> QED
    BY <1>1, <2>1, LeastOf
<1>3. k \in Nat /\ ~ \E g : Loop(g, k, line, m, keys)
  OBVIOUS
<1>4. CASE k = 0
  <2> DEFINE g == [i \in 0..k |-> first]
  <2>1. \A i \in 0..k : i = 0
    BY <1>4
  <2>2. g = [i \in 0..k |-> IF i = 0 THEN first ELSE Pressed(g[i - 1], keys[i], m)]
    <3>1. \A i \in 0..k : first = IF i = 0 THEN first ELSE Pressed(g[i - 1], keys[i], m)
      BY <2>1
    <3> HIDE DEF first
    <3> QED
      BY <3>1
  <2>3. Loop(g, k, line, m, keys)
    BY <2>2 DEF Loop
  <2> QED
    BY <1>3, <2>3
<1>5. CASE k > 0
  <2>1. k - 1 \in Nat /\ ~ (k <= k - 1)
    BY <1>3, <1>5
  <2>2. k - 1 \notin S
    BY <1>2, <2>1
  <2>3. PICK h : Loop(h, k - 1, line, m, keys)
    BY <2>1, <2>2
  <2>4. h = [i \in 0..(k - 1) |-> IF i = 0 THEN first ELSE Pressed(h[i - 1], keys[i], m)]
    BY <2>3 DEF Loop
  <2> DEFINE g == [i \in 0..k |-> IF i < k THEN h[i] ELSE Pressed(h[i - 1], keys[i], m)]
  <2> HIDE DEF first
  <2>5. \A i \in 0..k : g[i] = IF i = 0 THEN first ELSE Pressed(g[i - 1], keys[i], m)
    <3> SUFFICES ASSUME NEW i \in 0..k
                 PROVE  g[i] = IF i = 0 THEN first ELSE Pressed(g[i - 1], keys[i], m)
      OBVIOUS
    <3>1. CASE i = 0
      <4>1. g[i] = h[i] /\ i \in 0..(k - 1)
        BY <1>3, <1>5, <3>1
      <4>2. h[i] = first
        BY <2>4, <3>1, <4>1
      <4> QED
        BY <3>1, <4>1, <4>2
    <3>2. CASE i > 0
      <4>1. i - 1 \in 0..k /\ i - 1 < k
        BY <1>3, <3>2
      <4>2. g[i - 1] = h[i - 1]
        BY <4>1
      <4>3. CASE i < k
        <5>1. i \in 0..(k - 1) /\ i # 0
          BY <1>3, <3>2, <4>3
        <5>2. h[i] = Pressed(h[i - 1], keys[i], m)
          BY <2>4, <5>1
        <5> QED
          BY <4>2, <4>3, <5>1, <5>2
      <4>4. CASE ~ (i < k)
        BY <3>2, <4>2, <4>4
      <4> QED
        BY <4>3, <4>4
    <3> QED
      BY <1>3, <3>1, <3>2
  <2>6. g = [i \in 0..k |-> IF i = 0 THEN first ELSE Pressed(g[i - 1], keys[i], m)]
    <3>1. g = [i \in 0..k |-> g[i]]
      OBVIOUS
    <3> HIDE DEF g
    <3> QED
      BY <2>5, <3>1
  <2>7. Loop(g, k, line, m, keys)
    BY <2>6 DEF Loop, first
  <2> QED
    BY <1>3, <2>7
<1> QED
  BY <1>3, <1>4, <1>5

\* AfterKeys is what the loop has after all keys.
LEMMA AfterKeysLoops ==
  ASSUME NEW line, NEW m, NEW keys \in Seq(Keys)
  PROVE  \E g : /\ g[0] = [line |-> Joined(line, m, keys), said |-> <<>>]
                /\ \A i \in 1..Len(keys) : g[i] = Pressed(g[i - 1], keys[i], m)
                /\ AfterKeys(line, m, keys) = g[Len(keys)]
<1> DEFINE n == Len(keys)
           g == CHOOSE f : Loop(f, n, line, m, keys)
<1>1. n \in Nat
  OBVIOUS
<1>2. AfterKeys(line, m, keys) = g[n]
  BY DEF AfterKeys, Loop
<1> HIDE DEF n
<1>3. Loop(g, n, line, m, keys)
  <2>1. \E f : Loop(f, n, line, m, keys)
    BY <1>1, LoopExists
  <2> QED
    BY <2>1
<1> HIDE DEF g
<1>4. /\ g[0] = [line |-> Joined(line, m, keys), said |-> <<>>]
      /\ \A i \in 1..n : g[i] = Pressed(g[i - 1], keys[i], m)
  <2>1. g = [i \in 0..n |-> IF i = 0 THEN [line |-> Joined(line, m, keys), said |-> <<>>]
                            ELSE Pressed(g[i - 1], keys[i], m)]
    BY <1>3 DEF Loop
  <2> DEFINE first == [line |-> Joined(line, m, keys), said |-> <<>>]
  <2> HIDE DEF first
  <2>2. \A i \in 0..n : g[i] = IF i = 0 THEN first ELSE Pressed(g[i - 1], keys[i], m)
    BY <2>1 DEF first
  <2>3. 0 \in 0..n /\ \A i \in 1..n : i \in 0..n /\ i # 0
    BY <1>1
  <2>4. g[0] = first /\ \A i \in 1..n : g[i] = Pressed(g[i - 1], keys[i], m)
    BY <2>2, <2>3
  <2> QED
    BY <2>4 DEF first
<1> QED
  BY <1>2, <1>4 DEF n

-----------------------------------------------------------------------------
(* What the loop keeps true: before the Enter and after it.                *)

Credits == Members \cup {Nobody}
LineType == [who : Credits, size : 0..MaxSaid, mixed : BOOLEAN]
LoopType == [line : LineType, said : Seq(Credits)]

\* Whom the line j is, or will be, begun by.
Beginner(j, m) == IF j.who = Nobody THEN m ELSE j.who

Before(x, j, m) ==
    /\ x \in LoopType
    /\ x.said = <<>>
    /\ x.line.mixed = j.mixed
    /\ x.line.who \in {j.who, Beginner(j, m)}
    /\ x.line.size > 0 => x.line.who = Beginner(j, m)

AfterEnter(x, j, m) ==
    /\ x \in LoopType
    /\ x.said = <<>> \/ x.said = <<IF j.mixed THEN Nobody ELSE Beginner(j, m)>>
    /\ ~x.line.mixed
    /\ x.line.who \in {Nobody, m}
    /\ x.line.size > 0 => x.line.who = m

LEMMA MaxSaidFacts == MaxSaid \in Nat /\ Nobody \notin Members
BY TypingAssumption

\* What each key does.
LEMMA EraseFacts ==
  ASSUME NEW x \in LoopType, NEW m, NEW y, y = Pressed(x, "erase", m)
  PROVE  /\ y \in LoopType /\ y.said = x.said
         /\ y.line.who = x.line.who /\ y.line.mixed = x.line.mixed
         /\ y.line.size > 0 => x.line.size > 0
<1>1. y = [x EXCEPT !.line.size = IF x.line.size = 0 THEN 0 ELSE x.line.size - 1]
  BY DEF Pressed
<1>2. x.line \in LineType /\ x.said \in Seq(Credits)
  BY DEF LoopType
<1> DEFINE n == IF x.line.size = 0 THEN 0 ELSE x.line.size - 1
<1>3. n \in 0..MaxSaid /\ (n > 0 => x.line.size > 0)
  BY <1>2, MaxSaidFacts DEF LineType
<1> HIDE DEF n
<1>4. y = [x EXCEPT !.line = [x.line EXCEPT !.size = n]]
  BY <1>1 DEF n
<1>5. /\ [x.line EXCEPT !.size = n] \in LineType
      /\ [x.line EXCEPT !.size = n].size = n
      /\ [x.line EXCEPT !.size = n].who = x.line.who
      /\ [x.line EXCEPT !.size = n].mixed = x.line.mixed
  BY <1>2, <1>3 DEF LineType
<1>6. y.line = [x.line EXCEPT !.size = n] /\ y.said = x.said /\ y \in LoopType
  BY <1>2, <1>4, <1>5 DEF LoopType
<1> QED
  BY <1>3, <1>5, <1>6

LEMMA CharFacts ==
  ASSUME NEW x \in LoopType, NEW m \in Members, NEW y, y = Pressed(x, "char", m)
  PROVE  /\ y \in LoopType /\ y.said = x.said
         /\ y.line.who = (IF x.line.who = Nobody THEN m ELSE x.line.who)
         /\ y.line.mixed = x.line.mixed
<1> DEFINE n == IF x.line.size < MaxSaid THEN x.line.size + 1 ELSE x.line.size
           w == IF x.line.who = Nobody THEN m ELSE x.line.who
<1>1. y = [x EXCEPT !.line.who = w, !.line.size = n]
  BY DEF Pressed
<1>2. x.line \in LineType /\ x.said \in Seq(Credits)
  BY DEF LoopType
<1>3. n \in 0..MaxSaid
  BY <1>2, MaxSaidFacts DEF LineType
<1>4. w \in Credits
  BY <1>2 DEF LineType, Credits
<1> HIDE DEF n, w
<1> DEFINE l == [x.line EXCEPT !.who = w, !.size = n]
<1>5. y = [x EXCEPT !.line = l]
  BY <1>1, <1>2 DEF LoopType
<1>6. l \in LineType /\ l.who = w /\ l.mixed = x.line.mixed
  BY <1>2, <1>3, <1>4 DEF LineType
<1> HIDE DEF l
<1>7. y.line = l /\ y.said = x.said /\ y \in LoopType
  BY <1>2, <1>5, <1>6 DEF LoopType
<1> QED
  BY <1>6, <1>7 DEF w

LEMMA NoLineFacts == NoLine \in LineType /\ NoLine.who = Nobody /\ NoLine.size = 0 /\ ~NoLine.mixed
BY MaxSaidFacts DEF NoLine, LineType, Credits

\* A key that is not Enter keeps what is true before the Enter, and after it.
LEMMA BeforeStays ==
  ASSUME NEW j \in LineType, NEW m \in Members, NEW x, Before(x, j, m),
         NEW key \in {"char", "erase"}
  PROVE  Before(Pressed(x, key, m), j, m)
<1> DEFINE y == Pressed(x, key, m)
<1>1. x \in LoopType
  BY DEF Before
<1>2. CASE key = "erase"
  <2>1. /\ y \in LoopType /\ y.said = x.said
        /\ y.line.who = x.line.who /\ y.line.mixed = x.line.mixed
        /\ y.line.size > 0 => x.line.size > 0
    BY <1>1, <1>2, EraseFacts
  <2> HIDE DEF y
  <2>2. Before(y, j, m)
    BY <2>1 DEF Before
  <2> QED
    BY <2>2 DEF y
<1>3. CASE key = "char"
  <2>1. /\ y \in LoopType /\ y.said = x.said
        /\ y.line.who = (IF x.line.who = Nobody THEN m ELSE x.line.who)
        /\ y.line.mixed = x.line.mixed
    BY <1>1, <1>3, CharFacts
  <2> HIDE DEF y
  <2>2. x.line.who \in {j.who, Beginner(j, m)} /\ x.said = <<>> /\ x.line.mixed = j.mixed
    BY DEF Before
  <2>3. y.line.who = Beginner(j, m)
    BY <2>1, <2>2 DEF Beginner
  <2>4. Before(y, j, m)
    BY <2>1, <2>2, <2>3 DEF Before
  <2> QED
    BY <2>4 DEF y
<1> QED
  BY <1>2, <1>3

LEMMA AfterStays ==
  ASSUME NEW j \in LineType, NEW m \in Members, NEW x, AfterEnter(x, j, m),
         NEW key \in {"char", "erase"}
  PROVE  AfterEnter(Pressed(x, key, m), j, m)
<1> DEFINE y == Pressed(x, key, m)
<1>1. x \in LoopType
  BY DEF AfterEnter
<1>2. CASE key = "erase"
  <2>1. /\ y \in LoopType /\ y.said = x.said
        /\ y.line.who = x.line.who /\ y.line.mixed = x.line.mixed
        /\ y.line.size > 0 => x.line.size > 0
    BY <1>1, <1>2, EraseFacts
  <2> HIDE DEF y
  <2>2. AfterEnter(y, j, m)
    BY <2>1 DEF AfterEnter
  <2> QED
    BY <2>2 DEF y
<1>3. CASE key = "char"
  <2>1. /\ y \in LoopType /\ y.said = x.said
        /\ y.line.who = (IF x.line.who = Nobody THEN m ELSE x.line.who)
        /\ y.line.mixed = x.line.mixed
    BY <1>1, <1>3, CharFacts
  <2> HIDE DEF y
  <2>2. y.line.who = m
    BY <2>1 DEF AfterEnter
  <2>3. AfterEnter(y, j, m)
    BY <2>1, <2>2 DEF AfterEnter
  <2> QED
    BY <2>3 DEF y
<1> QED
  BY <1>2, <1>3

\* The Enter says the line, credited to its beginner unless it is mixed.
LEMMA EnterSays ==
  ASSUME NEW j \in LineType, NEW m \in Members, NEW x, Before(x, j, m)
  PROVE  AfterEnter(Pressed(x, "enter", m), j, m)
<1> DEFINE y == Pressed(x, "enter", m)
           c == IF x.line.mixed THEN Nobody ELSE x.line.who
<1>1. x \in LoopType /\ x.said = <<>> /\ x.line \in LineType /\ x.line.who \in Credits
  BY DEF Before, LoopType, LineType
<1>2. y = [line |-> NoLine, said |-> IF x.line.size = 0 THEN x.said ELSE <<c>>]
  BY DEF Pressed
<1>3. y.line = NoLine /\ (y.said = <<>> \/ (x.line.size # 0 /\ y.said = <<c>>))
  BY <1>1, <1>2
<1>4. c \in Credits
  BY <1>1 DEF Credits
<1>5. x.line.size # 0 => c = IF j.mixed THEN Nobody ELSE Beginner(j, m)
  <2>1. x.line.size # 0 => x.line.size > 0
    BY <1>1, MaxSaidFacts DEF LineType
  <2> QED
    BY <2>1 DEF Before
<1>6. y.said \in Seq(Credits)
  <2>1. <<>> \in Seq(Credits) /\ <<c>> \in Seq(Credits)
    BY <1>4
  <2> QED
    BY <1>3, <2>1
<1> HIDE DEF c
<1>7. y \in LoopType
  BY <1>2, <1>3, <1>6, NoLineFacts DEF LoopType
<1> HIDE DEF y
<1>8. AfterEnter(y, j, m)
  BY <1>3, <1>5, <1>7, NoLineFacts DEF AfterEnter
<1> QED
  BY <1>8 DEF y

\* There is an Enter among the first n keys.
Entered(keys, n) == \E i \in 1..n : keys[i] = "enter"

\* A line that may be held: one with nothing in it is no line.
Holdable == {l \in LineType : IF l.size = 0 THEN l = NoLine ELSE l.who \in Members}

LEMMA JoinedFacts ==
  ASSUME NEW line \in Holdable, NEW m \in Members, NEW keys
  PROVE  LET j == Joined(line, m, keys)
             x == [line |-> j, said |-> <<>>]
         IN  /\ j \in LineType /\ j.who = line.who
             /\ j.mixed <=> line.mixed \/ (line.size > 0 /\ line.who # m)
             /\ Before(x, j, m)
<1> DEFINE j == Joined(line, m, keys)
           x == [line |-> j, said |-> <<>>]
<1>1. line \in LineType /\ line.size \in Nat /\ (line.size > 0 => line.who \in Members)
  BY MaxSaidFacts DEF Holdable, LineType
<1>2. j \in LineType /\ j.who = line.who /\ j.size = line.size
      /\ (j.mixed <=> line.mixed \/ (line.size > 0 /\ line.who # m))
  <2>1. CASE line.size > 0 /\ line.who \notin {Nobody, m}
    <3>1. j = [line EXCEPT !.mixed = TRUE]
      BY <2>1 DEF Joined
    <3> HIDE DEF j
    <3> QED
      BY <1>1, <2>1, <3>1 DEF LineType
  <2>2. CASE ~ (line.size > 0 /\ line.who \notin {Nobody, m})
    <3>1. j = line
      BY <2>2 DEF Joined
    <3>2. ~ (line.size > 0 /\ line.who # m)
      BY <1>1, <2>2, MaxSaidFacts
    <3> HIDE DEF j
    <3> QED
      BY <1>1, <3>1, <3>2 DEF LineType
  <2> QED
    BY <2>1, <2>2
<1>3. j.size > 0 => j.who = Beginner(j, m)
  BY <1>1, <1>2, MaxSaidFacts DEF Beginner
<1> HIDE DEF j
<1>4. x \in LoopType /\ x.line = j /\ x.said = <<>>
  BY <1>2 DEF LoopType
<1> HIDE DEF x
<1>5. Before(x, j, m)
  BY <1>2, <1>3, <1>4 DEF Before
<1> QED
  BY <1>2, <1>5 DEF j, x

\* What the loop leaves of a line that may be held, and what it says.
LEMMA AfterKeysIs ==
  ASSUME NEW line \in Holdable, NEW m \in Members, NEW keys \in Messages
  PROVE  LET j == Joined(line, m, keys)
         IN  IF Entered(keys, Len(keys))
             THEN AfterEnter(AfterKeys(line, m, keys), j, m)
             ELSE Before(AfterKeys(line, m, keys), j, m)
<1> DEFINE j == Joined(line, m, keys)
           n == Len(keys)
<1>1. keys \in Seq(Keys) /\ n \in Nat
  BY MessagesAssumption
<1>2. \A i \in 1..n : keys[i] \in {"char", "erase", "enter"}
  BY <1>1 DEF Keys
<1>3. \A i, k \in 1..n : keys[i] = "enter" /\ keys[k] = "enter" => i = k
  BY MessagesAssumption
<1>4. j \in LineType /\ Before([line |-> j, said |-> <<>>], j, m)
  BY JoinedFacts
<1>5. PICK g : /\ g[0] = [line |-> j, said |-> <<>>]
               /\ \A i \in 1..n : g[i] = Pressed(g[i - 1], keys[i], m)
               /\ AfterKeys(line, m, keys) = g[n]
  BY <1>1, AfterKeysLoops
<1> HIDE DEF j, n
<1> DEFINE Right(i) == IF Entered(keys, i) THEN AfterEnter(g[i], j, m) ELSE Before(g[i], j, m)
           S == {i \in 0..n : ~Right(i)}
<1>6. Right(0)
  <2>1. ~Entered(keys, 0)
    BY DEF Entered
  <2> QED
    BY <1>4, <1>5, <2>1
<1>7. ASSUME NEW i \in 1..n, Right(i - 1) PROVE Right(i)
  <2>1. g[i] = Pressed(g[i - 1], keys[i], m)
    BY <1>5
  <2>2. Entered(keys, i) <=> Entered(keys, i - 1) \/ keys[i] = "enter"
    <3>1. \A k \in 1..i : k \in 1..(i - 1) \/ k = i
      OBVIOUS
    <3>2. i \in 1..i /\ \A k \in 1..(i - 1) : k \in 1..i
      OBVIOUS
    <3> QED
      BY <3>1, <3>2 DEF Entered
  <2>3. CASE keys[i] = "enter"
    <3>1. ~Entered(keys, i - 1)
      <4>1. \A k \in 1..(i - 1) : k \in 1..n /\ k # i
        BY <1>1
      <4> QED
        BY <1>3, <2>3, <4>1 DEF Entered
    <3>2. Before(g[i - 1], j, m)
      BY <1>7, <3>1
    <3>3. AfterEnter(g[i], j, m)
      BY <1>4, <2>1, <2>3, <3>2, EnterSays
    <3> QED
      BY <2>2, <2>3, <3>3
  <2>4. CASE keys[i] # "enter"
    <3>1. keys[i] \in {"char", "erase"}
      BY <1>2, <2>4
    <3>2. CASE Entered(keys, i - 1)
      <4>1. AfterEnter(g[i], j, m)
        BY <1>4, <1>7, <2>1, <3>1, <3>2, AfterStays
      <4> QED
        BY <2>2, <3>2, <4>1
    <3>3. CASE ~Entered(keys, i - 1)
      <4>1. Before(g[i], j, m)
        BY <1>4, <1>7, <2>1, <3>1, <3>3, BeforeStays
      <4> QED
        BY <2>2, <2>4, <3>3, <4>1
    <3> QED
      BY <3>2, <3>3
  <2> QED
    BY <2>3, <2>4
<1> HIDE DEF Right
<1>8. S = {}
  <2> SUFFICES ASSUME S # {} PROVE FALSE
    OBVIOUS
  <2>1. PICK k \in S : \A h \in S : k <= h
    <3>1. S \in SUBSET Nat
      BY <1>1 DEF n
    <3> HIDE DEF S
    <3> QED
      BY <3>1, LeastOf
  <2>2. k \in 0..n /\ k # 0 /\ ~Right(k)
    BY <1>6
  <2>3. k \in 1..n /\ k - 1 \in 0..n /\ ~ (k <= k - 1)
    BY <1>1, <2>2
  <2>4. Right(k - 1)
    BY <2>1, <2>3
  <2> QED
    BY <1>7, <2>2, <2>3, <2>4
<1>9. Right(n)
  <2>1. n \in 0..n
    BY <1>1
  <2> QED
    BY <1>8, <2>1
<1> QED
  BY <1>5, <1>9 DEF Right, j, n

-----------------------------------------------------------------------------
(* The line begun, and whom it is credited to.                             *)

LEMMA LineFacts ==
  ASSUME TypeOK, Line
  PROVE  /\ held \in Holdable /\ held \in LineType
         /\ touched \subseteq Members /\ IsFiniteSet(touched)
         /\ IF held.size = 0 THEN held = NoLine /\ touched = {}
            ELSE held.who \in touched /\ (held.mixed <=> touched # {held.who})
<1>1. held \in LineType /\ touched \subseteq Members
  BY DEF TypeOK, LineType, Credits
<1>2. held.size \in Nat
  BY <1>1, MaxSaidFacts DEF LineType
<1>3. IF held.size = 0 THEN held = NoLine /\ touched = {}
      ELSE held.who \in touched /\ (held.mixed <=> touched # {held.who})
  BY <1>2 DEF Line
<1>4. held \in Holdable
  BY <1>1, <1>3 DEF Holdable
<1> QED
  BY <1>1, <1>3, <1>4 DEF Line

\* Whose keys are in the line once m's are: mixed says whether they are others',
\* and else m began it.
LEMMA JoinedCredit ==
  ASSUME TypeOK, Line, NEW m \in Members, NEW keys, NEW j, j = Joined(held, m, keys)
  PROVE  /\ j.mixed <=> touched \cup {m} # {Beginner(j, m)}
         /\ j.mixed <=> touched \cup {m} # {m}
         /\ Beginner(j, m) \in touched \cup {m}
<1>1. /\ j \in LineType /\ j.who = held.who
      /\ j.mixed <=> held.mixed \/ (held.size > 0 /\ held.who # m)
  BY LineFacts, JoinedFacts
<1>2. CASE held.size = 0
  <2>1. touched = {} /\ held.who = Nobody /\ ~held.mixed
    BY <1>2, LineFacts, NoLineFacts
  <2>2. ~ (held.size > 0)
    BY <1>2
  <2> QED
    BY <1>1, <2>1, <2>2 DEF Beginner
<1>3. CASE held.size # 0
  <2>1. held.size > 0
    BY <1>3, LineFacts, MaxSaidFacts DEF LineType
  <2>2. /\ held.who \in touched /\ held.who # Nobody
        /\ held.mixed <=> touched # {held.who}
    BY <1>3, LineFacts, MaxSaidFacts
  <2>3. Beginner(j, m) = held.who
    BY <1>1, <2>2 DEF Beginner
  <2>4. j.mixed <=> touched # {held.who} \/ held.who # m
    BY <1>1, <2>1, <2>2
  <2> QED
    BY <2>2, <2>3, <2>4
<1> QED
  BY <1>2, <1>3

\* Record says a line only for whom it is by, and leaves a line as Line has it.
LEMMA RecordFacts ==
  ASSUME TypeOK, Line, NEW m \in Members, NEW keys \in Messages,
         NEW after, after = AfterKeys(held, m, keys), NEW left, left = Kept(after.line),
         NEW t, t = TouchedAfter(m, keys, left)
  PROVE  /\ \/ after.said = <<>>
            \/ after.said = <<IF touched \cup {m} = {m} THEN m ELSE Nobody>>
         /\ left \in LineType
         /\ t \subseteq Members /\ IsFiniteSet(t)
         /\ left.size = 0 => left = NoLine /\ t = {}
         /\ left.size > 0 => left.who \in t /\ (left.mixed <=> t # {left.who})
<1> DEFINE j == Joined(held, m, keys)
<1>1. held \in Holdable /\ touched \subseteq Members /\ IsFiniteSet(touched)
  BY LineFacts
<1>2. IF Entered(keys, Len(keys)) THEN AfterEnter(after, j, m) ELSE Before(after, j, m)
  BY <1>1, AfterKeysIs
<1>3. /\ j.mixed <=> touched \cup {m} # {Beginner(j, m)}
      /\ j.mixed <=> touched \cup {m} # {m}
      /\ Beginner(j, m) \in touched \cup {m}
  BY JoinedCredit
<1>4. Entered(keys, Len(keys)) <=> "enter" \in Range(keys)
  <2>1. keys \in Seq(Keys)
    BY MessagesAssumption
  <2>2. DOMAIN keys = 1..Len(keys)
    BY <2>1
  <2> QED
    BY <2>2 DEF Entered, Range
<1>5. j.who = held.who
  BY <1>1, JoinedFacts
<1> HIDE DEF j
<1>6. after \in LoopType /\ after.line \in LineType /\ after.line.size \in Nat
  <2>1. after \in LoopType
    BY <1>2 DEF AfterEnter, Before
  <2> QED
    BY <2>1, MaxSaidFacts DEF LoopType, LineType
<1>7. \/ after.said = <<>>
      \/ after.said = <<IF touched \cup {m} = {m} THEN m ELSE Nobody>>
  <2>1. (IF j.mixed THEN Nobody ELSE Beginner(j, m)) = IF touched \cup {m} = {m} THEN m ELSE Nobody
    BY <1>3
  <2> QED
    BY <1>2, <2>1 DEF AfterEnter, Before
<1>8. CASE after.line.size = 0
  <2>1. left = NoLine /\ t = {}
    BY <1>8 DEF Kept, TouchedAfter
  <2>2. t \subseteq Members /\ IsFiniteSet(t)
    BY <2>1, FS_EmptySet
  <2>3. left \in LineType /\ ~ (left.size > 0)
    BY <2>1, NoLineFacts
  <2> QED
    BY <1>7, <2>1, <2>2, <2>3, Zenon
<1>9. CASE after.line.size > 0
  <2>1. left = after.line /\ left # NoLine
    BY <1>9, NoLineFacts DEF Kept
  <2>2. t = {m} \cup IF "enter" \in Range(keys) THEN {} ELSE touched
    BY <2>1 DEF TouchedAfter
  <2>3. IsFiniteSet({m}) /\ IsFiniteSet({m} \cup touched)
    BY <1>1, FS_Singleton, FS_Union
  <2>4. CASE Entered(keys, Len(keys))
    <3>1. t = {m}
      BY <1>4, <2>2, <2>4
    <3>2. ~left.mixed /\ left.who = m
      BY <1>2, <1>9, <2>1, <2>4 DEF AfterEnter
    <3>3. left.size # 0 /\ left \in LineType
      BY <1>6, <1>9, <2>1
    <3>4. left.who \in t /\ (left.mixed <=> t # {left.who})
      BY <3>1, <3>2
    <3>5. t \subseteq Members /\ IsFiniteSet(t)
      BY <2>3, <3>1
    <3> QED
      BY <1>7, <3>3, <3>4, <3>5, Zenon
  <2>5. CASE ~Entered(keys, Len(keys))
    <3>1. t = {m} \cup touched
      BY <1>4, <2>2, <2>5
    <3>2. (left.mixed <=> j.mixed) /\ left.who = Beginner(j, m)
      BY <1>2, <1>9, <2>1, <2>5 DEF Before
    <3>3. left.size # 0 /\ left \in LineType
      BY <1>6, <1>9, <2>1
    <3>4. left.who \in t /\ (left.mixed <=> t # {left.who})
      <4>1. t = touched \cup {m}
        BY <3>1
      <4> QED
        BY <1>3, <3>2, <4>1, Zenon
    <3>5. t \subseteq Members /\ IsFiniteSet(t)
      BY <1>1, <2>3, <3>1
    <3> QED
      BY <1>7, <3>3, <3>4, <3>5, Zenon
  <2> QED
    BY <2>4, <2>5
<1> QED
  BY <1>6, <1>8, <1>9

-----------------------------------------------------------------------------
(* The invariant.                                                          *)

LEMMA InitInv ==
  ASSUME Init
  PROVE  IInv
<1>1. /\ up = TRUE /\ entries = <<>> /\ open \in BOOLEAN /\ appended = 0
      /\ disk = Lines(<<>>) /\ added = 0 /\ cuts = 0 /\ untrimmed = 0
  BY DEF Init, JournalInit
<1>2. Keep \in Nat \ {0} /\ MaxEntries \in Nat /\ <<>> \in Seq(Entry) /\ Len(<<>>) = 0
  BY KeepAssumption
<1>3. /\ disk \in File /\ disk.lines = <<>> /\ disk.junk = 0 /\ disk.tail = "none"
      /\ Ended(disk) /\ Size(disk) = 0
  BY <1>1, <1>2, LinesFacts
<1>4. JournalTypeOK
  BY <1>1, <1>2, <1>3 DEF JournalTypeOK, File
<1>5. Counted
  BY <1>1, <1>3 DEF Counted
<1>6. Ordered(entries, added) /\ Ordered(disk.lines, added)
  BY <1>1, <1>3, OrderedEmpty
<1>7. Sized
  <2>1. Room(untrimmed) \in Nat /\ Room(untrimmed + 1) \in Nat
    BY <1>1, <1>2, RoomFacts
  <2> QED
    BY <1>1, <1>3, <2>1 DEF Sized
<1>8. Shown
  BY <1>1, <1>2, <1>3 DEF Shown, ShownIn
<1>9. JournalInv
  BY <1>3, <1>4, <1>5, <1>6, <1>7, <1>8 DEF JournalInv
<1>10. taking \in [Members -> Taking]
  BY DEF Init, Waiting, Taking
<1>11. held = NoLine /\ touched = {} /\ sent = 0
  BY DEF Init
<1>12. TypeOK
  BY <1>4, <1>10, <1>11, NoLineFacts, TypingAssumption DEF TypeOK, LineType, Credits
<1>13. Line
  BY <1>11, NoLineFacts, FS_EmptySet DEF Line
<1> QED
  BY <1>9, <1>12, <1>13 DEF IInv

LEMMA AddKeeps ==
  ASSUME JournalInv, NEW who \in Credits, Add(who)
  PROVE  JournalInv'
<1>1. PICK e : e = NewEntry(who)
  OBVIOUS
<1>2. added < MaxEntries /\ (AddUnwritten(e) \/ AddWritten(e) \/ AddFails(e))
  BY <1>1 DEF Add
<1>3. e \in Entry /\ e.n = added + 1
  BY <1>1, <1>2, NewEntryFacts DEF Credits
<1> QED
  BY <1>2, <1>3, AddUnwrittenKeeps, AddWrittenKeeps, AddFailsKeeps

LEMMA JournalStutters ==
  ASSUME JournalInv, UNCHANGED journalVars
  PROVE  JournalInv'
BY DEF JournalInv, journalVars, JournalTypeOK, Counted, Ended, Sized, Shown, Ordered,
       ShownIn, Found, Size, Increasing, ReadBack

\* What each step of Typing is to the journal and to the line.
LEMMA StepKinds ==
  ASSUME IInv, [Next]_vars
  PROVE  \/ /\ UNCHANGED <<journalVars, held, touched>>
            /\ taking' \in [Members -> Taking] /\ sent' \in 0..MaxMessages
         \/ \E m \in Members : Record(m)
         \/ /\ \E m \in Members : Add(m)
            /\ taking' \in [Members -> Taking] /\ sent' = sent
            /\ UNCHANGED <<held, touched>>
         \/ /\ UNCHANGED journalVars \/ HubEnds
            /\ taking' \in [Members -> Taking] /\ sent' = sent
            /\ held' = NoLine /\ touched' = {}
         \/ OpenJournal /\ UNCHANGED typingVars
<1> DEFINE Plain == /\ UNCHANGED <<journalVars, held, touched>>
                    /\ taking' \in [Members -> Taking] /\ sent' \in 0..MaxMessages
           Cleared == /\ UNCHANGED journalVars \/ HubEnds
                      /\ taking' \in [Members -> Taking] /\ sent' = sent
                      /\ held' = NoLine /\ touched' = {}
           Acted == /\ \E m \in Members : Add(m)
                    /\ taking' \in [Members -> Taking] /\ sent' = sent
                    /\ UNCHANGED <<held, touched>>
<1>1. taking \in [Members -> Taking] /\ sent \in 0..MaxMessages /\ MaxMessages \in Nat
  BY TypingAssumption DEF IInv, TypeOK
<1>2. Waiting \in Taking
  BY DEF Waiting, Taking
<1>3. ASSUME NEW m \in Members, NEW at \in {"sending", "recording", "forgetting"},
             taking[m].at # "reading", Goes(m, at)
      PROVE  taking' \in [Members -> Taking]
  <2>0. taking[m] \in Taking /\ taking[m] # Waiting
    BY <1>1, <1>3 DEF Waiting
  <2>1. [taking[m] EXCEPT !.at = at] \in Taking
    BY <2>0 DEF Taking
  <2>2. taking' = [taking EXCEPT ![m] = [taking[m] EXCEPT !.at = at]]
    BY <1>3 DEF Goes
  <2> QED
    BY <1>1, <2>1, <2>2
<1>4. ASSUME NEW m \in Members, taking' = [taking EXCEPT ![m] = Waiting]
      PROVE  taking' \in [Members -> Taking]
  BY <1>1, <1>2, <1>4
<1>5. ASSUME NEW m \in Members, Read(m) PROVE Plain
  <2>1. PICK keys \in Messages \cup {Action} :
           taking' = [taking EXCEPT ![m] = [at |-> "sending", message |-> keys]]
    BY <1>5 DEF Read
  <2>2. [at |-> "sending", message |-> keys] \in Taking
    BY DEF Taking
  <2>3. taking' \in [Members -> Taking]
    BY <1>1, <2>1, <2>2
  <2>4. sent' \in 0..MaxMessages /\ UNCHANGED <<journalVars, held, touched>>
    BY <1>1, <1>5 DEF Read
  <2> QED
    BY <2>3, <2>4
<1>6. ASSUME NEW m \in Members, Send(m) PROVE Plain
  <2>1. taking' \in [Members -> Taking]
    BY <1>3, <1>4, <1>6 DEF Send
  <2>2. sent' \in 0..MaxMessages /\ UNCHANGED <<journalVars, held, touched>>
    BY <1>1, <1>6 DEF Send
  <2> QED
    BY <2>1, <2>2
<1>7. ASSUME NEW m \in Members, RecordAction(m) PROVE Acted
  <2>1. taking' \in [Members -> Taking]
    BY <1>3, <1>7 DEF RecordAction
  <2>2. Add(m) /\ sent' = sent /\ UNCHANGED <<held, touched>>
    BY <1>7 DEF RecordAction
  <2> QED
    BY <2>1, <2>2
<1>8. ASSUME NEW m \in Members, Forget(m) PROVE Cleared
  <2>1. taking' \in [Members -> Taking]
    BY <1>4, <1>8 DEF Forget
  <2>2. UNCHANGED journalVars /\ sent' = sent /\ held' = NoLine /\ touched' = {}
    BY <1>8 DEF Forget
  <2> QED
    BY <2>1, <2>2
<1>9. ASSUME Ends PROVE Cleared
  <2>1. taking' \in [Members -> Taking]
    BY <1>2, <1>9 DEF Ends
  <2>2. HubEnds /\ sent' = sent /\ held' = NoLine /\ touched' = {}
    BY <1>9 DEF Ends
  <2> QED
    BY <2>1, <2>2
<1>10. ASSUME UNCHANGED vars PROVE Plain
  BY <1>1, <1>10 DEF vars, typingVars
<1> HIDE DEF Plain, Cleared, Acted
<1>11. Plain \/ Cleared \/ Acted \/ (\E m \in Members : Record(m))
       \/ (OpenJournal /\ UNCHANGED typingVars)
  BY <1>5, <1>6, <1>7, <1>8, <1>9, <1>10 DEF Next, Starts
<1> QED
  BY <1>11 DEF Plain, Cleared, Acted

\* What Record does: who is credited, and the line that is left.
LEMMA RecordStep ==
  ASSUME IInv, NEW m \in Members, Record(m)
  PROVE  /\ \/ UNCHANGED journalVars
            \/ Add(IF touched \cup {m} = {m} THEN m ELSE Nobody)
         /\ taking' \in [Members -> Taking] /\ sent' = sent
         /\ held' \in LineType
         /\ touched' \subseteq Members /\ IsFiniteSet(touched')
         /\ held'.size = 0 => held' = NoLine /\ touched' = {}
         /\ held'.size > 0 => held'.who \in touched' /\ (held'.mixed <=> touched' # {held'.who})
<1>1. taking \in [Members -> Taking]
  BY DEF IInv, TypeOK
<1>2. PICK keys : keys = taking[m].message
  OBVIOUS
<1>3. PICK after : after = AfterKeys(held, m, keys)
  OBVIOUS
<1>4. PICK left : left = Kept(after.line)
  OBVIOUS
<1>5. PICK t : t = TouchedAfter(m, keys, left)
  OBVIOUS
<1>6. /\ keys # Action
      /\ IF after.said = <<>> THEN UNCHANGED journalVars ELSE Add(after.said[1])
      /\ held' = left /\ touched' = t
      /\ taking' = [taking EXCEPT ![m] = Waiting] /\ sent' = sent
      /\ taking[m].at = "recording"
  BY <1>2, <1>3, <1>4, <1>5 DEF Record
<1>7. taking' \in [Members -> Taking]
  <2>1. Waiting \in Taking
    BY DEF Waiting, Taking
  <2> QED
    BY <1>1, <1>6, <2>1
<1>8. CASE keys \in Messages
  <2>1. /\ \/ after.said = <<>>
           \/ after.said = <<IF touched \cup {m} = {m} THEN m ELSE Nobody>>
        /\ left \in LineType
        /\ t \subseteq Members /\ IsFiniteSet(t)
        /\ left.size = 0 => left = NoLine /\ t = {}
        /\ left.size > 0 => left.who \in t /\ (left.mixed <=> t # {left.who})
    BY <1>3, <1>4, <1>5, <1>8, RecordFacts DEF IInv
  <2>2. UNCHANGED journalVars \/ Add(IF touched \cup {m} = {m} THEN m ELSE Nobody)
    <3> DEFINE c == IF touched \cup {m} = {m} THEN m ELSE Nobody
    <3>1. after.said = <<>> \/ after.said = <<c>>
      BY <2>1
    <3> HIDE DEF c
    <3>2. <<c>>[1] = c /\ <<c>> # <<>>
      OBVIOUS
    <3>3. UNCHANGED journalVars \/ Add(c)
      BY <1>6, <3>1, <3>2
    <3> QED
      BY <3>3 DEF c
  <2> QED
    BY <1>6, <1>7, <2>1, <2>2, Zenon
<1>9. CASE keys \notin Messages
  <2>1. taking[m] \in Taking /\ taking[m] # Waiting
    BY <1>1, <1>6 DEF Waiting
  <2>2. keys \in Messages \cup {Action}
    BY <1>2, <2>1 DEF Taking
  <2> QED
    BY <1>6, <1>9, <2>2
<1> QED
  BY <1>8, <1>9

LEMMA TypeOKAfter ==
  ASSUME JournalTypeOK', taking' \in [Members -> Taking], held' \in LineType,
         touched' \subseteq Members, sent' \in 0..MaxMessages
  PROVE  TypeOK'
BY DEF TypeOK, LineType, Credits

LEMMA LineAfter ==
  ASSUME held' \in LineType, IsFiniteSet(touched'),
         held'.size = 0 => held' = NoLine /\ touched' = {},
         held'.size > 0 => held'.who \in touched' /\ (held'.mixed <=> touched' # {held'.who})
  PROVE  Line'
BY Zenon DEF Line

\* Every step keeps the invariant.
LEMMA StepInv ==
  ASSUME IInv, [Next]_vars
  PROVE  IInv'
<1>1. JournalInv /\ Line /\ TypeOK
  BY DEF IInv
<1>2. sent \in 0..MaxMessages /\ held \in LineType /\ touched \subseteq Members
  BY <1>1, LineFacts DEF TypeOK
<1>3. ASSUME JournalInv', taking' \in [Members -> Taking], sent' \in 0..MaxMessages,
             held' = held, touched' = touched
      PROVE  IInv'
  <2>1. TypeOK'
    BY <1>2, <1>3, TypeOKAfter DEF JournalInv
  <2>2. Line'
    BY <1>1, <1>3 DEF Line
  <2> QED
    BY <1>3, <2>1, <2>2 DEF IInv
<1>4. ASSUME JournalInv', taking' \in [Members -> Taking], sent' = sent,
             held' = NoLine, touched' = {}
      PROVE  IInv'
  <2>1. TypeOK'
    <3>1. held' \in LineType /\ touched' \subseteq Members
      BY <1>4, NoLineFacts
    <3> QED
      BY <1>2, <1>4, <3>1, TypeOKAfter DEF JournalInv
  <2>2. Line'
    BY <1>4, NoLineFacts, FS_EmptySet DEF Line
  <2> QED
    BY <1>4, <2>1, <2>2 DEF IInv
<1>5. CASE /\ UNCHANGED <<journalVars, held, touched>>
           /\ taking' \in [Members -> Taking] /\ sent' \in 0..MaxMessages
  BY <1>1, <1>3, <1>5, JournalStutters
<1>6. ASSUME NEW m \in Members, Record(m) PROVE IInv'
  <2>1. /\ \/ UNCHANGED journalVars
           \/ Add(IF touched \cup {m} = {m} THEN m ELSE Nobody)
        /\ taking' \in [Members -> Taking] /\ sent' = sent
        /\ held' \in LineType
        /\ touched' \subseteq Members /\ IsFiniteSet(touched')
        /\ held'.size = 0 => held' = NoLine /\ touched' = {}
        /\ held'.size > 0 => held'.who \in touched' /\ (held'.mixed <=> touched' # {held'.who})
    BY <1>6, RecordStep
  <2>2. (IF touched \cup {m} = {m} THEN m ELSE Nobody) \in Credits
    BY DEF Credits
  <2>3. JournalInv'
    BY <1>1, <2>1, <2>2, AddKeeps, JournalStutters
  <2>4. TypeOK'
    BY <1>2, <2>1, <2>3, TypeOKAfter DEF JournalInv
  <2>5. Line'
    BY <2>1, LineAfter
  <2> QED
    BY <2>3, <2>4, <2>5 DEF IInv
<1>7. CASE /\ \E m \in Members : Add(m)
           /\ taking' \in [Members -> Taking] /\ sent' = sent
           /\ UNCHANGED <<held, touched>>
  <2>1. PICK m \in Members : Add(m)
    BY <1>7
  <2>2. m \in Credits
    BY DEF Credits
  <2>3. JournalInv'
    BY <1>1, <2>1, <2>2, AddKeeps
  <2> QED
    BY <1>2, <1>3, <1>7, <2>3
<1>8. CASE /\ UNCHANGED journalVars \/ HubEnds
           /\ taking' \in [Members -> Taking] /\ sent' = sent
           /\ held' = NoLine /\ touched' = {}
  BY <1>1, <1>4, <1>8, HubEndsKeeps, JournalStutters
<1>9. CASE OpenJournal /\ UNCHANGED typingVars
  <2>1. taking' = taking /\ sent' = sent /\ held' = held /\ touched' = touched
    BY <1>9 DEF typingVars
  <2>2. taking' \in [Members -> Taking]
    BY <1>1, <2>1 DEF TypeOK
  <2> QED
    BY <1>1, <1>2, <1>3, <1>9, <2>1, <2>2, OpenJournalKeeps
<1> QED
  BY <1>5, <1>6, <1>7, <1>8, <1>9, StepKinds

\* The invariant holds throughout.
LEMMA Invariant == Spec => []IInv
<1>1. Init => IInv
  BY InitInv
<1>2. IInv /\ [Next]_vars => IInv'
  BY StepInv
<1> QED
  BY <1>1, <1>2, PTL DEF Spec

-----------------------------------------------------------------------------
(* The results.                                                            *)

\* The journal, the line begun and each member's message have their types, and
\* the log in memory never has more than keepEntries (journal.go:147).
THEOREM TypeCorrect == Spec => []TypeOK
<1>1. IInv => TypeOK
  BY DEF IInv
<1> QED
  BY <1>1, Invariant, PTL

\* Whatever fails, and wherever the hub ends, the log in memory and the lines of
\* the file are in the order they were added, none twice (compactLocked,
\* journal.go:100; openJournal, journal.go:74).
THEOREM OrderKept == Spec => []OrderIsKept
<1>1. IInv => OrderIsKept
  BY DEF IInv, JournalInv, OrderIsKept, Ordered
<1> QED
  BY <1>1, Invariant, PTL

\* The file stays within twice what is kept, plus as much again for each
\* compaction that failed (addLocked, journal.go:161).
THEOREM FileBounded == Spec => []FileIsBounded
<1>1. ASSUME IInv PROVE FileIsBounded
  <2>1. JournalInv
    BY <1>1 DEF IInv
  <2>2. /\ Room(untrimmed) \in Nat /\ Room(untrimmed + 1) = Room(untrimmed) + Keep
        /\ Room(untrimmed + 1) = (2 + untrimmed) * Keep
    BY <2>1, JournalTypes, RoomFacts
  <2>3. Size(disk) <= Room(untrimmed + 1)
    <3>1. Size(disk) <= IF open THEN Room(untrimmed) + appended ELSE Room(untrimmed + 1)
      BY <2>1 DEF JournalInv, Sized
    <3>2. Room(untrimmed) + appended <= Room(untrimmed + 1)
      BY <2>1, <2>2, JournalTypes
    <3>3. Size(disk) \in Nat /\ appended \in Nat /\ Keep \in Nat
      BY <2>1, JournalTypes
    <3>4. CASE open
      <4>1. Size(disk) <= Room(untrimmed) + appended
        BY <3>1, <3>4
      <4> QED
        BY <2>2, <3>2, <3>3, <4>1
    <3> QED
      BY <3>1, <3>4
  <2> QED
    BY <2>2, <2>3 DEF FileIsBounded, Size
<1> QED
  BY <1>1, Invariant, PTL

\* What is found in the file is within what is read back of it.
LEMMA FoundIsRead ==
  ASSUME NEW s \in Seq(Entry), Len(s) <= Keep, NEW d \in File, NEW i \in 1..Len(s), Found(s, d, i)
  PROVE  s[i] \in Range(ReadBack(d))
<1> DEFINE r == ReadBack(d)
           n == Len(d.lines)
           k == Len(r)
<1>1. d.lines \in Seq(Entry) /\ n \in Nat /\ Keep \in Nat /\ Len(s) \in Nat
  BY KeepAssumption DEF File
<1>2. /\ r \in Seq(Entry) /\ k = (IF n > Keep THEN Keep ELSE n)
      /\ \A h \in 1..k : r[h] = d.lines[h + (n - k)]
  BY <1>1, LastOfFacts DEF ReadBack
<1>3. PICK j \in 1..n : d.lines[j] = s[i] /\ n - j <= Len(s) - i
  BY DEF Found
<1>4. DOMAIN r = 1..k
  BY <1>2
<1> HIDE DEF r, n, k
<1>5. j - (n - k) \in 1..k /\ (j - (n - k)) + (n - k) = j
  BY <1>1, <1>2, <1>3
<1>6. r[j - (n - k)] = s[i]
  BY <1>2, <1>3, <1>5
<1>7. s[i] \in Range(r)
  BY <1>4, <1>5, <1>6 DEF Range
<1> QED
  BY <1>7 DEF r

\* While the hub writes, every entry the log shows is one the next hub will
\* read, but for two if a line has ever lost its newline alone (readJournal,
\* journal.go:195).
THEOREM ShownKept == Spec => []ShownIsKept
<1> DEFINE Lost == Range(entries) \ Range(ReadBack(disk))
<1>1. ASSUME IInv, open PROVE Cardinality(Lost) <= 2 * cuts
  <2>1. JournalInv /\ ShownIn(entries, disk, cuts)
    BY <1>1 DEF IInv, JournalInv, Shown
  <2>2. entries \in Seq(Entry) /\ Len(entries) <= Keep /\ disk \in File /\ cuts \in Nat
    BY <2>1, JournalTypes
  <2>3. \A i \in 1..Len(entries) : Found(entries, disk, i) => entries[i] \in Range(ReadBack(disk))
    BY <2>2, FoundIsRead
  <2>4. \A x \in Lost : \E i \in 1..Len(entries) : x = entries[i] /\ ~Found(entries, disk, i)
    <3>1. Range(entries) = {entries[i] : i \in 1..Len(entries)}
      BY <2>2 DEF Range
    <3> QED
      BY <2>3, <3>1
  <2> HIDE DEF Lost
  <2>5. CASE cuts = 0
    <3>1. Lost = {}
      BY <2>1, <2>4, <2>5 DEF ShownIn
    <3>2. Cardinality({}) = 0
      BY FS_EmptySet
    <3> QED
      BY <2>5, <3>1, <3>2
  <2>6. CASE cuts > 0
    <3>1. PICK p \in Entry, q \in Entry :
             \A i \in 1..Len(entries) : Found(entries, disk, i) \/ entries[i] \in {p, q}
      BY <2>1, <2>6 DEF ShownIn
    <3>2. Lost \subseteq {p, q}
      BY <2>4, <3>1
    <3>3. IsFiniteSet({p, q}) /\ Cardinality({p, q}) <= 2
      <4>1. IsFiniteSet({p}) /\ Cardinality({p}) = 1
        BY FS_Singleton
      <4>2. IsFiniteSet({p} \cup {q}) /\ Cardinality({p} \cup {q}) \in {1, 2}
        BY <4>1, FS_AddElement
      <4>3. {p, q} = {p} \cup {q}
        OBVIOUS
      <4> QED
        BY <4>2, <4>3
    <3>4. Cardinality(Lost) <= Cardinality({p, q}) /\ Cardinality(Lost) \in Nat
          /\ Cardinality({p, q}) \in Nat
      BY <3>2, <3>3, FS_Subset, FS_CardinalityType
    <3> QED
      BY <2>2, <2>6, <3>3, <3>4
  <2> QED
    BY <2>2, <2>5, <2>6
<1>2. IInv => ShownIsKept
  BY <1>1 DEF ShownIsKept
<1> QED
  BY <1>2, Invariant, PTL

\* The entry that Add adds is the last in memory.
LEMMA AddShows ==
  ASSUME JournalInv, NEW who \in Credits, Add(who)
  PROVE  entries'[Len(entries')].who = who
<1>1. PICK e : e = NewEntry(who)
  OBVIOUS
<1>2. added < MaxEntries /\ (AddUnwritten(e) \/ AddWritten(e) \/ AddFails(e))
  BY <1>1 DEF Add
<1>3. e \in Entry /\ e.who = who
  BY <1>1, <1>2, NewEntryFacts DEF Credits, NewEntry
<1>4. entries' = LastOf(Append(entries, e))
  BY <1>2 DEF AddUnwritten, AddWritten, AddFails, Remember
<1>5. Extends(LastOf(Append(entries, e)), entries, e)
  BY <1>3, JournalTypes, RememberedIs
<1> QED
  BY <1>3, <1>4, <1>5 DEF Extends

\* A line that is said is credited to the member who ends it if no one else's
\* keys went into it, and to nobody if someone's did (typed, journal.go:249;
\* docs/reference.md:270).
THEOREM CreditEarned == Spec => CreditIsEarned
<1> DEFINE Earned ==
        \A m \in Members :
            Record(m) /\ added' # added =>
                LET all    == touched \cup {m}
                    credit == entries'[Len(entries')].who
                IN IF Cardinality(all) = 1 THEN credit = m ELSE credit = Nobody
<1>1. ASSUME IInv, NEW m \in Members, Record(m), added' # added
      PROVE  IF Cardinality(touched \cup {m}) = 1
             THEN entries'[Len(entries')].who = m
             ELSE entries'[Len(entries')].who = Nobody
  <2> DEFINE all == touched \cup {m}
             c == IF all = {m} THEN m ELSE Nobody
  <2>1. UNCHANGED journalVars \/ Add(c)
    BY <1>1, RecordStep
  <2>2. Add(c) /\ c \in Credits /\ JournalInv
    BY <1>1, <2>1 DEF journalVars, Credits, IInv
  <2>3. entries'[Len(entries')].who = c
    <3> HIDE DEF c
    <3> QED
      BY <2>2, AddShows
  <2>4. Cardinality(all) = 1 <=> all = {m}
    <3>1. IsFiniteSet(touched)
      BY <1>1 DEF IInv, Line
    <3>2. Cardinality({m}) = 1 /\ IsFiniteSet({m})
      BY FS_Singleton
    <3>3. IsFiniteSet(all)
      BY <3>1, <3>2, FS_Union
    <3>4. ASSUME Cardinality(all) = 1 PROVE all = {m}
      <4>1. {m} \subseteq all
        OBVIOUS
      <4> HIDE DEF all
      <4> QED
        BY <3>2, <3>3, <3>4, <4>1, FS_Subset
    <3> QED
      BY <3>2, <3>4
  <2> QED
    BY <2>3, <2>4
<1>2. IInv => Earned
  BY <1>1
<1> QED
  BY <1>2, Invariant, PTL DEF Spec, CreditIsEarned

=============================================================================
