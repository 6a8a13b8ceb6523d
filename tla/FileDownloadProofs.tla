------------------------- MODULE FileDownloadProofs -------------------------
(***************************************************************************)
(* The safety properties of FileDownload and the refinement of             *)
(* FileTransfer, for streams, blocks and headers of any length and however *)
(* the reads are cut.                                                      *)
(***************************************************************************)
EXTENDS FileDownload, SequenceTheorems, TLAPS

\* What of the file is on its way or on the disk.
Got == disk \o buffered

PipeOpen == writer \in {"create", "loop"}
Sending  == reader \in {"write", "writeTail"}
Ended    == writer \in {"flush", "finish", "close", "done"}

\* The header, if there is one, has been stripped.
Sought == headDeal \/ ~src.head

\* Nothing that downloadFile cannot tell.
Untroubled == faults \cap {"disk", "timeout"} = {}

\* Positions from + 1, from + 2, ...
Cut(from, length) == [i \in 1 .. length |-> from + i]

\* Where the two goroutines can be at the same time.
StagesOK ==
  /\ reader = "idle" <=> writer = "idle"
  /\ src.secret = "malformed" => reader = "idle"
  /\ reader = "idle" => ~headDeal /\ ~complete /\ pos = 0 /\ waitBuffer = <<>>
  /\ reader \in {"loop", "write"} => ~complete
  /\ reader = "write" => headDeal
  /\ writer \in {"idle", "create"} => disk = <<>> /\ buffered = <<>>
  /\ writer \in {"finish", "close", "done"} => buffered = <<>>

\* Until the header has been looked for, nothing but the cache is filled.
HeadOK ==
  ~headDeal =>
    /\ pos < HeadLen /\ waitBuffer = Cut(0, pos)
    /\ reader \in {"idle", "loop"} => disk = <<>> /\ buffered = <<>>

\* k blocks have been taken from the cache, and it holds what follows them.
CacheAt(k) ==
  /\ pos = offset + k * bufLen + Len(waitBuffer)
  /\ waitBuffer = Cut(offset + k * bufLen, Len(waitBuffer))

\* Their text has gone into the pipe, or its last part is about to.
CacheOK ==
  Sought =>
    \E k \in 0 .. MaxSize :
      /\ CacheAt(k)
      /\ PipeOpen =>
           /\ reader \in {"loop", "tail"} => Len(Got) = k * BlockLen
           /\ reader = "write" => Len(Got) + Len(content) = k * BlockLen

\* Whatever has gone into the pipe is a beginning of the text.
TextOK ==
  (Sought /\ reader # "idle") =>
    /\ IsPrefix(Got, Expected)
    /\ (PipeOpen /\ Sending) => IsPrefix(Got \o content, Expected)

\* Once the end of the stream has been seen, all of it gets to the disk.
EndOK ==
  /\ complete => pos = src.size
  /\ (Ended /\ Untroubled) => reader = "done"
  /\ (complete /\ Untroubled /\ src.secret # "wrong") =>
       /\ (PipeOpen /\ reader = "writeTail") => Len(Got) + Len(content) = Len(Expected)
       /\ reader = "done" => Len(Got) = Len(Expected)

\* Not to see the end has a reason.
AnswerOK ==
  /\ (reader \in {"tail", "writeTail", "done"} /\ ~complete
        /\ src.secret \in {"none", "right"}) => faults # {}
  /\ ErrorMeansFault
  /\ result = "nil" => complete
  /\ result # "none" => writer \in {"close", "done"} \/ src.secret = "malformed"

IInv ==
  /\ TypeOK /\ WellFormed
  /\ StagesOK /\ HeadOK /\ CacheOK /\ TextOK /\ EndOK /\ AnswerOK

-----------------------------------------------------------------------------
(* Arithmetic.                                                             *)

\* What the multiples of a length are used for.
LEMMA Multiples ==
  ASSUME NEW k \in Nat, NEW q \in Nat, NEW b \in Nat \ {0}
  PROVE  /\ k * b \in Nat /\ k <= k * b
         /\ (k + 1) * b = k * b + b
         /\ k <= q => k * b <= q * b
         /\ k * b < q * b => k < q
OBVIOUS

\* Every length is that of some blocks and a rest.
LEMMA Division ==
  ASSUME NEW n \in Nat, NEW b \in Nat \ {0}
  PROVE  \E q \in Nat, r \in 0 .. b - 1 : n = q * b + r
<1>1. /\ n \div b \in Nat /\ n % b \in 0 .. b - 1
      /\ n = (n \div b) * b + (n % b)
  OBVIOUS
<1>2. QED BY <1>1

\* The blocks and the rest are unique.
LEMMA DivMod ==
  ASSUME NEW b \in Nat \ {0}, NEW k \in Nat, NEW r \in 0 .. b - 1,
         NEW n \in Int, n = k * b + r
  PROVE  n \div b = k /\ n % b = r
OBVIOUS

LEMMA Position ==
  ASSUME NEW b \in Nat \ {0}, NEW k \in Nat, NEW m \in 1 .. b,
         NEW j \in Nat, j = k * b + m
  PROVE  (j - 1) \div b = k /\ (j - 1) % b = m - 1
<1>1. PICK r \in 0 .. b - 1 : m = r + 1
  OBVIOUS
<1>2. j - 1 \in Int /\ j - 1 = k * b + r
  BY <1>1
<1>3. QED BY <1>1, <1>2, DivMod

\* How many blocks there are, and how long the last one is.
LEMMA Blocks ==
  ASSUME NEW b \in Nat \ {0}, NEW k \in Nat, NEW w \in 0 .. b - 1,
         NEW n \in Nat, n = k * b + w
  PROVE  /\ (n + b - 1) \div b = IF w = 0 THEN k ELSE k + 1
         /\ w # 0 => (n - 1) % b = w - 1
<1>1. w = 0 => (n + b - 1) \div b = k
  OBVIOUS
<1>2. w # 0 => (n - 1) % b = w - 1
  OBVIOUS
<1>3. w # 0 => (n + b - 1) \div b = k + 1
  <2> SUFFICES ASSUME w # 0 PROVE (n + b - 1) \div b = k + 1
    OBVIOUS
  <2>1. PICK r \in 0 .. b - 1 : w = r + 1
    OBVIOUS
  <2>2. n + b - 1 \in Int /\ n + b - 1 = (k + 1) * b + r /\ k + 1 \in Nat
    BY <2>1
  <2>3. QED BY <2>2, DivMod
<1>4. QED BY <1>1, <1>2, <1>3

LEMMA MinOfTwo ==
  ASSUME NEW a \in Int, NEW b \in Int
  PROVE  Min({a, b}) = IF a <= b THEN a ELSE b
BY DEF Min

-----------------------------------------------------------------------------
(* What the file is to hold.                                               *)

LEMMA Lengths ==
  ASSUME src \in Sources
  PROVE  /\ HeadLen \in Nat \ {0} /\ BlockLen \in Nat \ {0} /\ HeadLen < BlockLen
         /\ src.size \in 0 .. MaxSize /\ src.head \in BOOLEAN /\ src.secret \in Secrets
         /\ MaxSize \in Nat /\ Unflushed \in Nat
         /\ added \in Nat /\ bufLen \in Nat \ {0} /\ bufLen = BlockLen + added
         /\ offset \in Nat /\ offset <= src.size
         /\ Stored \in Seq(1 .. src.size) /\ Len(Stored) = src.size - offset
         /\ \A i \in 1 .. Len(Stored) : Stored[i] = offset + i
<1>1. /\ HeadLen \in Nat \ {0} /\ BlockLen \in Nat \ {0} /\ HeadLen < BlockLen
      /\ MaxSize \in Nat /\ Unflushed \in Nat /\ Overhead \in Nat
  BY DownloadAssumption
<1>2. /\ src.size \in 0 .. MaxSize /\ src.head \in BOOLEAN /\ src.secret \in Secrets
      /\ src.head => src.size >= HeadLen
  BY DEF Sources
<1>3. /\ added \in Nat /\ bufLen \in Nat \ {0} /\ bufLen = BlockLen + added
      /\ offset \in Nat /\ offset <= src.size
  BY <1>1, <1>2 DEF added, bufLen, offset
<1>4. /\ Stored \in Seq(1 .. src.size) /\ Len(Stored) = src.size - offset
      /\ \A i \in 1 .. Len(Stored) : Stored[i] = offset + i
  <2>1. src.size - offset \in Nat /\ src.size \in Nat
    BY <1>1, <1>2, <1>3
  <2>2. \A i \in 1 .. src.size - offset : offset + i \in 1 .. src.size
    BY <1>3, <2>1
  <2>3. QED BY <2>1, <2>2 DEF Stored
<1>5. QED BY <1>1, <1>2, <1>3, <1>4

\* The length of the text of some blocks and a rest.
LEMMA ExpectedLength ==
  ASSUME NEW k \in Nat, NEW w \in Nat
  PROVE  (/\ src \in Sources /\ WellFormed /\ src.secret # "malformed"
          /\ w < bufLen /\ Len(Stored) = k * bufLen + w)
         => /\ w # 0 => w > added
            /\ TextLen = k * BlockLen + (IF w = 0 THEN 0 ELSE w - added)
            /\ Len(Expected) = TextLen
<1>1. SUFFICES ASSUME src \in Sources, WellFormed, src.secret # "malformed",
                      w < bufLen, Len(Stored) = k * bufLen + w
               PROVE  /\ w # 0 => w > added
                      /\ TextLen = k * BlockLen + (IF w = 0 THEN 0 ELSE w - added)
                      /\ Len(Expected) = TextLen
  OBVIOUS
<1>2. PICK b \in Nat \ {0}, n \in Nat, extra \in Nat, text \in Nat \ {0} :
        /\ b = bufLen /\ n = Len(Stored) /\ extra = added /\ text = BlockLen
        /\ b = text + extra
  BY <1>1, Lengths
<1>3. n = k * b + w /\ w \in 0 .. b - 1
  BY <1>1, <1>2
<1>4. /\ (n + b - 1) \div b = IF w = 0 THEN k ELSE k + 1
      /\ w # 0 => (n - 1) % b = w - 1
  BY <1>3, Blocks
<1>5. w # 0 => w > extra
  <2> SUFFICES ASSUME w # 0 PROVE w > extra
    OBVIOUS
  <2>1. CASE src.secret = "none"
    BY <1>2, <2>1 DEF added
  <2>2. CASE src.secret # "none"
    <3>1. n # 0
      BY <1>3, Multiples
    <3>2. (n - 1) % b >= extra
      BY <1>1, <1>2, <2>2, <3>1 DEF WellFormed, added
    <3>3. QED BY <1>3, <1>4, <3>2
  <2>3. QED BY <2>1, <2>2
<1>6. TextLen = n - extra * ((n + b - 1) \div b)
  BY <1>2 DEF TextLen
<1>7. k * b = k * text + extra * k /\ extra * (k + 1) = extra * k + extra
  BY <1>2
<1>8. TextLen = k * text + (IF w = 0 THEN 0 ELSE w - extra)
  BY <1>3, <1>4, <1>6, <1>7
<1>9. TextLen \in Nat
  BY <1>5, <1>8, Multiples
<1>10. Len(Expected) = TextLen
  BY <1>9 DEF Expected
<1>11. QED BY <1>2, <1>5, <1>8, <1>10

\* Byte m of the text of a block.
LEMMA ExpectedAt ==
  ASSUME NEW k \in Nat, NEW m \in Nat \ {0}
  PROVE  (/\ src \in Sources /\ WellFormed /\ src.secret # "malformed"
          /\ m <= BlockLen /\ k * bufLen + added + m <= Len(Stored))
         => /\ k * BlockLen + m <= Len(Expected)
            /\ Expected[k * BlockLen + m] = offset + k * bufLen + added + m
<1>1. SUFFICES ASSUME src \in Sources, WellFormed, src.secret # "malformed",
                      m <= BlockLen, k * bufLen + added + m <= Len(Stored)
               PROVE  /\ k * BlockLen + m <= Len(Expected)
                      /\ Expected[k * BlockLen + m] = offset + k * bufLen + added + m
  OBVIOUS
<1>2. PICK b \in Nat \ {0}, n \in Nat, extra \in Nat, text \in Nat \ {0} :
        /\ b = bufLen /\ n = Len(Stored) /\ extra = added /\ text = BlockLen
        /\ b = text + extra
  BY <1>1, Lengths
<1>3. k * b + extra + m <= n /\ m <= text
  BY <1>1, <1>2
<1>4. PICK q \in Nat, r \in 0 .. b - 1 : n = q * b + r
  BY Division
<1>5. /\ r # 0 => r > extra
      /\ Len(Expected) = q * text + (IF r = 0 THEN 0 ELSE r - extra)
      /\ Len(Expected) = TextLen
  BY <1>1, <1>2, <1>4, ExpectedLength
<1>6. k <= q
  <2>1. k * b < (q + 1) * b
    BY <1>3, <1>4, Multiples
  <2>2. q + 1 \in Nat
    OBVIOUS
  <2>3. k < q + 1
    BY <2>1, <2>2, Multiples
  <2>4. QED BY <2>3
<1>7. k * text + m <= Len(Expected)
  <2>1. CASE k = q
    BY <1>2, <1>3, <1>4, <1>5, <2>1
  <2>2. CASE k < q
    <3>1. (k + 1) * text <= q * text /\ (k + 1) * text = k * text + text
      BY <2>2, Multiples
    <3>2. QED BY <1>3, <1>5, <3>1, Multiples
  <2>3. QED BY <1>6, <2>1, <2>2
<1>8. Expected[k * text + m] = Stored[k * b + extra + m]
  <2>1. PICK j \in Nat : j = k * text + m
    BY Multiples
  <2>2. j \in 1 .. TextLen /\ j - 1 \in Int /\ j - 1 = k * text + (m - 1)
    BY <1>5, <1>7, <2>1, Multiples
  <2>3. m \in 1 .. text
    BY <1>3
  <2>4. (j - 1) \div text = k /\ (j - 1) % text = m - 1
    BY <2>1, <2>3, Position
  <2>5. Expected[j] = Stored[((j - 1) \div text) * b + extra + ((j - 1) % text) + 1]
    BY <1>2, <2>2 DEF Expected
  <2>6. QED BY <2>1, <2>4, <2>5
<1>9. Stored[k * b + extra + m] = offset + k * b + extra + m
  <2>1. PICK i \in Nat, from \in Nat : i = k * b + extra + m /\ from = offset
    <3>1. k * b \in Nat
      OBVIOUS
    <3>2. k * b + extra + m \in Nat
      BY <3>1
    <3>3. offset \in Nat
      BY <1>1, Lengths
    <3>4. QED BY <3>2, <3>3
  <2>2. i \in 1 .. Len(Stored)
    BY <1>2, <1>3, <2>1, Multiples
  <2>3. Stored[i] = from + i
    BY <1>1, <2>1, <2>2, Lengths
  <2>4. from + i = from + k * b + extra + m
    BY <2>1, Multiples
  <2>5. QED BY <2>1, <2>3, <2>4
<1>10. k * text = k * BlockLen /\ k * b = k * bufLen
  BY <1>2
<1>11. k * BlockLen + m <= Len(Expected)
  BY <1>7, <1>10
<1>12. Expected[k * BlockLen + m] = offset + k * bufLen + added + m
  BY <1>2, <1>8, <1>9, <1>10
<1>13. QED BY <1>11, <1>12

-----------------------------------------------------------------------------
(* Beginnings of a sequence.                                               *)

LEMMA PrefixByPosition ==
  ASSUME NEW S, NEW s \in Seq(S), NEW t \in Seq(S)
  PROVE  IsPrefix(s, t) <=> Len(s) <= Len(t) /\ \A i \in 1 .. Len(s) : s[i] = t[i]
<1>1. ASSUME Len(s) <= Len(t)
      PROVE  /\ SubSeq(t, 1, Len(s)) \in Seq(S) /\ Len(SubSeq(t, 1, Len(s))) = Len(s)
             /\ \A i \in 1 .. Len(s) : SubSeq(t, 1, Len(s))[i] = t[i]
  BY <1>1
<1>2. SubSeq(s, 1, Len(s)) = s
  BY SubSeqFull
<1>3. ASSUME IsPrefix(s, t), NEW i \in 1 .. Len(s) PROVE s[i] = t[i]
  BY <1>1, <1>2, <1>3 DEF IsPrefix
<1>4. ASSUME Len(s) <= Len(t), \A i \in 1 .. Len(s) : s[i] = t[i]
      PROVE  IsPrefix(s, t)
  <2>1. SubSeq(t, 1, Len(s)) = s
    BY <1>1, <1>4, SeqEqual
  <2>2. QED BY <1>2, <1>4, <2>1 DEF IsPrefix
<1>5. QED BY <1>3, <1>4 DEF IsPrefix

LEMMA EmptyPrefix ==
  ASSUME NEW S, NEW t \in Seq(S)
  PROVE  IsPrefix(<<>>, t)
<1>1. <<>> \in Seq(S) /\ Len(<<>>) = 0
  OBVIOUS
<1>2. ASSUME NEW e \in Seq(S), Len(e) = 0 PROVE IsPrefix(e, t)
  <2>1. Len(t) >= 0 /\ 1 .. Len(e) = {}
    BY <1>2
  <2>2. QED BY <1>2, <2>1, PrefixByPosition
<1>3. QED BY <1>1, <1>2

LEMMA WholePrefix ==
  ASSUME NEW S, NEW s \in Seq(S), NEW t \in Seq(S), IsPrefix(s, t), Len(s) = Len(t)
  PROVE  s = t
<1>1. \A i \in 1 .. Len(s) : s[i] = t[i]
  BY PrefixByPosition
<1>2. QED BY <1>1, SeqEqual

LEMMA PrefixOfPrefix ==
  ASSUME NEW S, NEW s \in Seq(S), NEW t \in Seq(S), IsPrefix(s, t),
         NEW n \in 0 .. Len(s)
  PROVE  /\ SubSeq(s, 1, n) \in Seq(S) /\ Len(SubSeq(s, 1, n)) = n
         /\ IsPrefix(SubSeq(s, 1, n), t)
<1>1. /\ SubSeq(s, 1, n) \in Seq(S) /\ Len(SubSeq(s, 1, n)) = n
      /\ \A i \in 1 .. n : SubSeq(s, 1, n)[i] = s[i]
  OBVIOUS
<1>2. Len(s) <= Len(t) /\ \A i \in 1 .. Len(s) : s[i] = t[i]
  BY PrefixByPosition
<1> DEFINE a == SubSeq(s, 1, n)
<1>3. a \in Seq(S) /\ Len(a) <= Len(t) /\ \A i \in 1 .. Len(a) : a[i] = t[i]
  BY <1>1, <1>2
<1> HIDE DEF a
<1>4. IsPrefix(a, t)
  BY <1>3, PrefixByPosition
<1>5. QED BY <1>1, <1>4 DEF a

LEMMA SplitAnywhere ==
  ASSUME NEW S, NEW s \in Seq(S), NEW n \in 0 .. Len(s)
  PROVE  /\ SubSeq(s, 1, n) \in Seq(S) /\ SubSeq(s, n + 1, Len(s)) \in Seq(S)
         /\ Len(SubSeq(s, 1, n)) = n
         /\ SubSeq(s, 1, n) \o SubSeq(s, n + 1, Len(s)) = s
<1>1. /\ SubSeq(s, 1, n) \in Seq(S) /\ SubSeq(s, n + 1, Len(s)) \in Seq(S)
      /\ Len(SubSeq(s, 1, n)) = n
  OBVIOUS
<1>2. /\ \A i \in 1 .. n : SubSeq(s, 1, n)[i] = s[i]
      /\ Len(SubSeq(s, n + 1, Len(s))) = Len(s) - n
      /\ \A i \in 1 .. Len(s) - n : SubSeq(s, n + 1, Len(s))[i] = s[n + i]
  OBVIOUS
<1> DEFINE a == SubSeq(s, 1, n)
           b == SubSeq(s, n + 1, Len(s))
<1> HIDE DEF a, b
<1>3. a \in Seq(S) /\ b \in Seq(S) /\ Len(a) = n /\ Len(b) = Len(s) - n
  BY <1>1, <1>2 DEF a, b
<1>4. a \o b \in Seq(S) /\ Len(a \o b) = Len(s)
  BY <1>3
<1>5. \A i \in 1 .. Len(s) : (a \o b)[i] = s[i]
  <2> SUFFICES ASSUME NEW i \in 1 .. Len(s) PROVE (a \o b)[i] = s[i]
    OBVIOUS
  <2>1. (a \o b)[i] = IF i <= n THEN a[i] ELSE b[i - n]
    BY <1>3
  <2>2. CASE i <= n
    BY <1>2, <2>1, <2>2 DEF a
  <2>3. CASE i > n
    <3>1. i - n \in 1 .. Len(s) - n /\ n + (i - n) = i
      BY <2>3
    <3>2. b[i - n] = s[i]
      BY <1>2, <3>1 DEF b
    <3>3. QED BY <2>1, <2>3, <3>2
  <2>4. i <= n \/ i > n
    BY LenProperties
  <2>5. QED BY <2>2, <2>3, <2>4
<1>6. a \o b = s
  BY <1>4, <1>5, SeqEqual
<1>7. QED BY <1>1, <1>6 DEF a, b

\* A set that all sequences of a behaviour and the text are over.
Bytes == (1 .. src.size) \cup {Expected[i] : i \in 1 .. TextLen}

LEMMA ExpectedIsSequence ==
  ASSUME src \in Sources, WellFormed, src.secret # "malformed"
  PROVE  Expected \in Seq(Bytes) /\ Len(Expected) = TextLen /\ TextLen \in Nat
<1>1. Len(Stored) \in Nat /\ bufLen \in Nat \ {0}
  BY Lengths
<1>2. PICK k \in Nat, w \in 0 .. bufLen - 1 : Len(Stored) = k * bufLen + w
  BY <1>1, Division
<1>3. w \in Nat /\ w < bufLen
  BY <1>1
<1>4. Len(Expected) = TextLen
  BY <1>2, <1>3, ExpectedLength
<1>5. TextLen \in Nat
  <2>1. /\ w # 0 => w > added
        /\ TextLen = k * BlockLen + (IF w = 0 THEN 0 ELSE w - added)
    BY <1>2, <1>3, ExpectedLength
  <2>2. k * BlockLen \in Nat /\ added \in Nat
    BY Lengths
  <2>3. QED BY <1>3, <2>1, <2>2
<1>6. Expected \in [1 .. TextLen -> Bytes]
  BY DEF Expected, Bytes
<1>7. QED BY <1>4, <1>5, <1>6

LEMMA BytesSequence ==
  ASSUME NEW s \in Seq(1 .. src.size)
  PROVE  s \in Seq(Bytes)
BY SeqMonotonic DEF Bytes

\* Of some bytes the text.
LEMMA PlainIs ==
  ASSUME NEW w \in Seq(1 .. src.size), src \in Sources
  PROVE  /\ Plain(w) \in Seq(1 .. src.size)
         /\ Len(Plain(w)) = IF Len(w) > added THEN Len(w) - added ELSE 0
         /\ \A m \in 1 .. Len(Plain(w)) : Plain(w)[m] = w[added + m]
<1>1. PICK extra \in Nat, n \in Nat : extra = added /\ n = Len(w)
  BY Lengths
<1>2. Plain(w) = SubSeq(w, extra + 1, n)
  BY <1>1 DEF Plain
<1>3. ASSUME NEW i \in extra + 1 .. n PROVE w[i] \in 1 .. src.size
  <2>1. i \in 1 .. Len(w)
    BY <1>1
  <2>2. QED BY <2>1, ElementOfSeq
<1>4. /\ SubSeq(w, extra + 1, n) \in Seq(1 .. src.size)
      /\ Len(SubSeq(w, extra + 1, n)) = IF extra + 1 <= n THEN n - extra ELSE 0
      /\ \A i \in 1 .. n - extra : SubSeq(w, extra + 1, n)[i] = w[extra + i]
  BY <1>3
<1>5. QED BY <1>1, <1>2, <1>4

\* The text of a block, or of a part of it, continues that of those before it.
LEMMA BlockContinues ==
  ASSUME NEW k \in Nat, NEW g \in Seq(1 .. src.size), NEW w \in Seq(1 .. src.size)
  PROVE  (/\ src \in Sources /\ WellFormed /\ src.secret # "malformed"
          /\ IsPrefix(g, Expected) /\ Len(g) = k * BlockLen
          /\ w = Cut(offset + k * bufLen, Len(w)) /\ Len(w) <= bufLen
          /\ k * bufLen + Len(w) <= Len(Stored))
         => IsPrefix(g \o Plain(w), Expected)
<1>1. SUFFICES ASSUME src \in Sources, WellFormed, src.secret # "malformed",
                      IsPrefix(g, Expected), Len(g) = k * BlockLen,
                      w = Cut(offset + k * bufLen, Len(w)), Len(w) <= bufLen,
                      k * bufLen + Len(w) <= Len(Stored)
               PROVE  IsPrefix(g \o Plain(w), Expected)
  OBVIOUS
<1>2. /\ Expected \in Seq(Bytes) /\ g \in Seq(Bytes) /\ Len(Expected) \in Nat
  BY <1>1, ExpectedIsSequence, BytesSequence
<1>3. Len(g) <= Len(Expected) /\ \A i \in 1 .. Len(g) : g[i] = Expected[i]
  BY <1>1, <1>2, PrefixByPosition
<1> DEFINE c == Plain(w)
<1>4. /\ c \in Seq(1 .. src.size) /\ c \in Seq(Bytes)
      /\ Len(c) = IF Len(w) > added THEN Len(w) - added ELSE 0
      /\ \A m \in 1 .. Len(c) : c[m] = w[added + m]
  <2>1. Plain(w) \in Seq(1 .. src.size)
    BY <1>1, PlainIs
  <2>2. QED BY <1>1, <2>1, PlainIs, BytesSequence
<1> HIDE DEF c
<1>5. ASSUME NEW m \in 1 .. Len(c)
      PROVE  /\ Len(g) + m <= Len(Expected)
             /\ Expected[Len(g) + m] = c[m]
  <2>1. /\ m \in Nat \ {0} /\ added \in Nat /\ Len(w) \in Nat /\ bufLen \in Nat
        /\ bufLen = BlockLen + added
        /\ Len(Stored) \in Nat /\ offset \in Nat /\ BlockLen \in Nat
    <3>1. m \in Nat \ {0} /\ Len(w) \in Nat
      BY <1>4, LenProperties
    <3>2. /\ added \in Nat /\ bufLen \in Nat /\ bufLen = BlockLen + added
          /\ Len(Stored) \in Nat /\ offset \in Nat /\ BlockLen \in Nat
      BY <1>1, Lengths
    <3>3. QED BY <3>1, <3>2
  <2>2. added + m <= Len(w) /\ m <= BlockLen
    BY <1>1, <1>4, <2>1
  <2>3. k * bufLen \in Nat
    BY <2>1
  <2>4. k * bufLen + added + m <= Len(Stored)
    BY <1>1, <2>1, <2>2, <2>3
  <2>5. /\ k * BlockLen + m <= Len(Expected)
        /\ Expected[k * BlockLen + m] = offset + k * bufLen + added + m
    BY <1>1, <2>1, <2>2, <2>4, ExpectedAt
  <2>6. w[added + m] = offset + k * bufLen + added + m
    <3>1. added + m \in 1 .. Len(w)
      BY <2>1, <2>2
    <3>2. w[added + m] = offset + k * bufLen + (added + m)
      BY <1>1, <3>1, Zenon DEF Cut
    <3>3. QED BY <2>1, <2>3, <3>2
  <2>7. QED BY <1>1, <1>4, <2>5, <2>6
<1>6. g \o c \in Seq(Bytes) /\ Len(g \o c) = Len(g) + Len(c)
  BY <1>2, <1>4
<1>7. Len(g \o c) <= Len(Expected)
  <2>1. CASE Len(c) = 0
    BY <1>2, <1>3, <1>6, <2>1
  <2>2. CASE Len(c) # 0
    <3>1. Len(c) \in 1 .. Len(c)
      BY <1>4, <2>2
    <3>2. QED BY <1>5, <1>6, <3>1
  <2>3. QED BY <2>1, <2>2
<1>8. ASSUME NEW i \in 1 .. Len(g \o c) PROVE (g \o c)[i] = Expected[i]
  <2>1. CASE i <= Len(g)
    BY <1>2, <1>3, <1>4, <1>6, <2>1
  <2>2. CASE i > Len(g)
    <3>1. PICK m \in 1 .. Len(c) : i = Len(g) + m
      <4>1. i - Len(g) \in 1 .. Len(c) /\ i = Len(g) + (i - Len(g))
        BY <1>2, <1>4, <1>6, <2>2
      <4>2. QED BY <4>1
    <3>2. (g \o c)[i] = c[m]
      BY <1>2, <1>4, <1>6, <2>2, <3>1
    <3>3. QED BY <1>5, <3>1, <3>2
  <2>3. QED BY <1>2, <1>6, <2>1, <2>2
<1>9. QED BY <1>2, <1>6, <1>7, <1>8, PrefixByPosition DEF c

\* The key that fits opens every block, the shorter last one included.
LEMMA BlockDecrypts ==
  ASSUME NEW k \in Nat, NEW w \in Seq(1 .. src.size)
  PROVE  (/\ src \in Sources /\ WellFormed /\ src.secret \in {"none", "right"}
          /\ w = Cut(offset + k * bufLen, Len(w)) /\ Len(w) # 0
          /\ \/ Len(w) = bufLen /\ k * bufLen + Len(w) <= Len(Stored)
             \/ Len(w) < bufLen /\ k * bufLen + Len(w) = Len(Stored))
         => Decrypts(w)
<1>1. SUFFICES ASSUME src \in Sources, WellFormed, src.secret = "right",
                      w = Cut(offset + k * bufLen, Len(w)), Len(w) # 0,
                      \/ Len(w) = bufLen /\ k * bufLen + Len(w) <= Len(Stored)
                      \/ Len(w) < bufLen /\ k * bufLen + Len(w) = Len(Stored)
               PROVE  IsCipherBlock(w)
  BY DEF Decrypts
<1>2. PICK b \in Nat \ {0}, n \in Nat, l \in Nat, from \in Nat :
        b = bufLen /\ n = Len(Stored) /\ l = Len(w) /\ from = offset
  BY <1>1, Lengths
<1>3. /\ l # 0 /\ l <= b /\ k * b + l <= n
      /\ \/ l = b
         \/ l < b /\ k * b + l = n
  BY <1>1, <1>2
<1>4. PICK last \in Nat : last = k * b + l
  <2>1. k * b + l \in Nat
    OBVIOUS
  <2>2. QED BY <2>1
<1>5. Min({(k + 1) * bufLen, Len(Stored)}) = last
  <2>1. PICK next \in Nat : next = (k + 1) * b /\ next = k * b + b
    <3>1. (k + 1) * b \in Nat /\ (k + 1) * b = k * b + b
      OBVIOUS
    <3>2. QED BY <3>1
  <2>2. last = IF next <= n THEN next ELSE n
    BY <1>3, <1>4, <2>1
  <2>3. Min({next, n}) = last
    BY <2>2, MinOfTwo
  <2>4. QED BY <1>2, <2>1, <2>3
<1>6. k \in 0 .. MaxSize
  <2>1. PICK kb \in Nat : kb = k * b /\ k <= kb
    <3>1. k * b \in Nat
      OBVIOUS
    <3>2. QED BY <3>1, Multiples
  <2>2. kb + l <= n
    BY <1>3, <2>1
  <2>3. /\ src.size \in 0 .. MaxSize /\ MaxSize \in Nat
        /\ offset \in Nat /\ Len(Stored) = src.size - offset
    BY <1>1, Lengths
  <2>4. n <= MaxSize
    BY <1>2, <2>3
  <2>5. k <= MaxSize
    BY <2>1, <2>2, <2>3, <2>4
  <2>6. QED BY <2>3, <2>5
<1>7. l > Overhead
  <2>1. Overhead = added /\ Overhead \in Nat
    BY <1>1, DownloadAssumption DEF added
  <2>2. CASE l = b
    <3>1. BlockLen \in Nat \ {0} /\ bufLen = BlockLen + added
      BY <1>1, Lengths
    <3>2. QED BY <1>2, <2>1, <2>2, <3>1
  <2>3. CASE l < b /\ k * b + l = n
    <3>1. l # 0 => l > added
      BY <1>1, <1>2, <2>3, ExpectedLength
    <3>2. QED BY <1>3, <2>1, <3>1
  <2>4. QED BY <1>3, <2>2, <2>3
<1>8. last - k * bufLen > Overhead
  <2>1. last - k * b = l
    BY <1>4
  <2>2. QED BY <1>2, <1>7, <2>1
<1>9. w = SubSeq(Stored, k * bufLen + 1, last)
  <2>1. PICK m \in Nat : m = k * b
    <3>1. k * b \in Nat
      OBVIOUS
    <3>2. QED BY <3>1
  <2>2. /\ Stored \in Seq(1 .. src.size) /\ m + 1 \in Int /\ last <= n
        /\ \A i \in 1 .. n : Stored[i] = from + i
    BY <1>1, <1>2, <1>3, <1>4, <2>1, Lengths
  <2>3. \A i \in m + 1 .. last : Stored[i] \in 1 .. src.size
    <3> SUFFICES ASSUME NEW i \in m + 1 .. last PROVE Stored[i] \in 1 .. src.size
      OBVIOUS
    <3>1. i \in 1 .. Len(Stored)
      BY <1>2, <2>2
    <3>2. QED BY <2>2, <3>1, ElementOfSeq
  <2>4. /\ SubSeq(Stored, m + 1, last) \in Seq(1 .. src.size)
        /\ Len(SubSeq(Stored, m + 1, last)) = l
        /\ \A i \in 1 .. l : SubSeq(Stored, m + 1, last)[i] = Stored[m + i]
    BY <1>3, <1>4, <2>1, <2>2, <2>3
  <2>5. \A i \in 1 .. l : Stored[m + i] = from + m + i
    <3> SUFFICES ASSUME NEW i \in 1 .. l PROVE Stored[m + i] = from + m + i
      OBVIOUS
    <3>1. m + i \in 1 .. n
      BY <1>3, <2>1
    <3>2. QED BY <2>2, <3>1
  <2>6. \A i \in 1 .. l : w[i] = from + m + i
    BY <1>1, <1>2, <2>1 DEF Cut
  <2>7. w = SubSeq(Stored, m + 1, last)
    BY <1>2, <2>4, <2>5, <2>6, SeqEqual
  <2>8. QED BY <1>2, <2>1, <2>7
<1>10. QED BY <1>5, <1>6, <1>8, <1>9 DEF IsCipherBlock

-----------------------------------------------------------------------------
(* The cache.                                                              *)

LEMMA CutIs ==
  ASSUME NEW from \in Nat, NEW l \in Nat
  PROVE  /\ Cut(from, l) \in Seq(Nat) /\ Len(Cut(from, l)) = l
         /\ \A i \in 1 .. l : Cut(from, l)[i] = from + i
BY DEF Cut

LEMMA CutInRange ==
  ASSUME NEW from \in Nat, NEW l \in Nat, NEW size \in Nat, from + l <= size
  PROVE  Cut(from, l) \in Seq(1 .. size)
<1>1. \A i \in 1 .. l : from + i \in 1 .. size
  OBVIOUS
<1>2. QED BY <1>1 DEF Cut

\* Two pieces of the stream that follow each other are one.
LEMMA CutJoin ==
  ASSUME NEW from \in Nat, NEW l \in Nat, NEW m \in Nat
  PROVE  Cut(from, l) \o Cut(from + l, m) = Cut(from, l + m)
<1> DEFINE a == Cut(from, l)
           b == Cut(from + l, m)
           c == Cut(from, l + m)
<1>1. /\ a \in Seq(Nat) /\ Len(a) = l
      /\ \A i \in 1 .. l : a[i] = from + i
  BY CutIs
<1>2. /\ b \in Seq(Nat) /\ Len(b) = m
      /\ \A i \in 1 .. m : b[i] = from + l + i
  <2>1. from + l \in Nat
    OBVIOUS
  <2>2. QED BY <2>1, CutIs
<1>3. /\ c \in Seq(Nat) /\ Len(c) = l + m
      /\ \A i \in 1 .. l + m : c[i] = from + i
  BY CutIs
<1> HIDE DEF a, b, c
<1>4. a \o b \in Seq(Nat) /\ Len(a \o b) = l + m
  BY <1>1, <1>2, ConcatProperties
<1>5. ASSUME NEW i \in 1 .. l + m PROVE (a \o b)[i] = c[i]
  <2>1. (a \o b)[i] = IF i <= l THEN a[i] ELSE b[i - l]
    BY <1>1, <1>2, ConcatProperties
  <2>2. CASE i <= l
    BY <1>1, <1>3, <2>1, <2>2
  <2>3. CASE i > l
    <3>1. i - l \in 1 .. m /\ from + l + (i - l) = from + i
      BY <2>3
    <3>2. b[i - l] = from + i
      BY <1>2, <3>1
    <3>3. QED BY <1>3, <2>1, <2>3, <3>2
  <2>4. i <= l \/ i > l
    OBVIOUS
  <2>5. QED BY <2>2, <2>3, <2>4
<1>6. a \o b = c
  BY <1>3, <1>4, <1>5, SeqEqual
<1>7. QED BY <1>6 DEF a, b, c

\* A piece of the stream that is divided.
LEMMA CutParts ==
  ASSUME NEW from \in Nat, NEW l \in Nat, NEW m \in 0 .. l
  PROVE  /\ SubSeq(Cut(from, l), 1, m) = Cut(from, m)
         /\ SubSeq(Cut(from, l), m + 1, l) = Cut(from + m, l - m)
<1> DEFINE a == Cut(from, l)
           b == Cut(from + m, l - m)
           c == Cut(from, m)
<1>1. /\ a \in Seq(Nat) /\ Len(a) = l
      /\ \A i \in 1 .. l : a[i] = from + i
  BY CutIs
<1>2. /\ b \in Seq(Nat) /\ Len(b) = l - m
      /\ \A i \in 1 .. l - m : b[i] = from + m + i
  <2>1. from + m \in Nat /\ l - m \in Nat
    OBVIOUS
  <2>2. QED BY <2>1, CutIs
<1>3. /\ c \in Seq(Nat) /\ Len(c) = m
      /\ \A i \in 1 .. m : c[i] = from + i
  BY CutIs
<1> HIDE DEF a, b, c
<1>4. SubSeq(a, 1, m) = c
  <2>1. /\ SubSeq(a, 1, m) \in Seq(Nat) /\ Len(SubSeq(a, 1, m)) = m
        /\ \A i \in 1 .. m : SubSeq(a, 1, m)[i] = a[i]
    BY <1>1
  <2>2. QED BY <1>1, <1>3, <2>1, SeqEqual
<1>5. SubSeq(a, m + 1, l) = b
  <2>1. /\ SubSeq(a, m + 1, l) \in Seq(Nat)
        /\ Len(SubSeq(a, m + 1, l)) = l - m
        /\ \A i \in 1 .. l - m : SubSeq(a, m + 1, l)[i] = a[m + i]
    BY <1>1
  <2>2. \A i \in 1 .. l - m : a[m + i] = from + m + i
    BY <1>1
  <2> DEFINE d == SubSeq(a, m + 1, l)
  <2>3. d \in Seq(Nat) /\ Len(d) = Len(b) /\ \A i \in 1 .. Len(d) : d[i] = b[i]
    BY <1>2, <2>1, <2>2
  <2> HIDE DEF d
  <2>4. d = b
    BY <1>2, <2>3, SeqEqual
  <2>5. QED BY <2>4 DEF d
<1>6. QED BY <1>4, <1>5 DEF a, b, c

\* What a read appends to the cache.
LEMMA ReceivedIs ==
  ASSUME NEW size \in Nat, size = src.size, NEW p \in Nat, p = pos,
         NEW n \in Nat, p + n <= size
  PROVE  Received(n) = Cut(p, n)
<1> DEFINE a == Cut(0, size)
           c == Cut(p, n)
<1>1. /\ a \in Seq(Nat) /\ Len(a) = size /\ a = [i \in 1 .. size |-> i]
      /\ \A i \in 1 .. size : a[i] = i
  BY DEF Cut
<1>2. /\ c \in Seq(Nat) /\ Len(c) = n
      /\ \A i \in 1 .. n : c[i] = p + i
  BY CutIs
<1> HIDE DEF a, c
<1>3. /\ SubSeq(a, p + 1, p + n) \in Seq(Nat)
      /\ Len(SubSeq(a, p + 1, p + n)) = n
      /\ \A i \in 1 .. n : SubSeq(a, p + 1, p + n)[i] = a[p + i]
  BY <1>1
<1>4. SubSeq(a, p + 1, p + n) = c
  BY <1>1, <1>2, <1>3, SeqEqual
<1>5. QED BY <1>1, <1>4 DEF Received, c

-----------------------------------------------------------------------------
(* The invariant.                                                          *)

\* What depends on what is asked for alone.
LEMMA Fixed ==
  ASSUME src' = src
  PROVE  /\ added' = added /\ bufLen' = bufLen /\ offset' = offset
         /\ Stored' = Stored /\ TextLen' = TextLen /\ Expected' = Expected
         /\ WellFormed' = WellFormed
BY DEF added, bufLen, offset, Stored, TextLen, Expected, WellFormed

LEMMA InitOK == Init => IInv
<1> SUFFICES ASSUME Init PROVE IInv
  OBVIOUS
<1>1. /\ src \in Sources /\ WellFormed /\ src.size \in Nat /\ HeadLen \in Nat \ {0}
      /\ bufLen \in Nat \ {0} /\ MaxSize \in Nat
  <2>1. src \in Sources /\ WellFormed
    BY DEF Init
  <2>2. QED BY <2>1, Lengths
<1>2. TypeOK
  <2>1. /\ <<>> \in Seq(1 .. src.size) /\ Len(<<>>) = 0 /\ 0 \in 0 .. src.size
        /\ 0 < bufLen
    BY <1>1
  <2>2. QED BY <1>1, <2>1 DEF Init, TypeOK
<1>3. StagesOK /\ EndOK /\ AnswerOK
  BY DEF Init, StagesOK, EndOK, AnswerOK, ErrorMeansFault, Ended, PipeOpen
<1>4. HeadOK
  BY <1>1 DEF Init, HeadOK, Cut
<1>5. CacheOK
  <2> SUFFICES ASSUME Sought
               PROVE  \E k \in 0 .. MaxSize : CacheAt(k)
    BY DEF Init, CacheOK, PipeOpen
  <2>1. offset = 0
    BY DEF Init, Sought, offset
  <2>2. CacheAt(0)
    BY <1>1, <2>1 DEF Init, CacheAt, Cut
  <2>3. QED BY <1>1, <2>2
<1>6. TextOK
  BY DEF Init, TextOK
<1>7. QED BY <1>1, <1>2, <1>3, <1>4, <1>5, <1>6 DEF IInv

\* A step that moves nothing: at most one of the two goroutines goes on.
LEMMA NothingMoves ==
  ASSUME IInv,
         UNCHANGED <<src, pos, waitBuffer, headDeal, content, disk, buffered>>,
         PipeOpen' => PipeOpen,
         \/ reader' = reader
         \/ reader = "loop" /\ reader' = "tail"
         \/ reader # "idle" /\ reader' = "done"
  PROVE  WellFormed' /\ HeadOK' /\ CacheOK' /\ TextOK'
<1>1. /\ bufLen' = bufLen /\ offset' = offset /\ Expected' = Expected
      /\ WellFormed' = WellFormed /\ Got' = Got /\ Sought' = Sought
  BY Fixed DEF Got, Sought
<1>2. WellFormed'
  BY <1>1 DEF IInv
<1>3. HeadOK'
  BY DEF IInv, HeadOK
<1>4. CacheOK'
  <2> SUFFICES ASSUME Sought'
               PROVE  \E k \in 0 .. MaxSize :
                        /\ CacheAt(k)'
                        /\ PipeOpen' =>
                             /\ reader' \in {"loop", "tail"} => Len(Got)' = k * BlockLen
                             /\ reader' = "write" => Len(Got)' + Len(content)' = k * BlockLen
    BY DEF CacheOK
  <2>1. PICK k \in 0 .. MaxSize :
          /\ CacheAt(k)
          /\ PipeOpen =>
               /\ reader \in {"loop", "tail"} => Len(Got) = k * BlockLen
               /\ reader = "write" => Len(Got) + Len(content) = k * BlockLen
    BY <1>1 DEF IInv, CacheOK
  <2>2. CacheAt(k)'
    BY <1>1, <2>1 DEF CacheAt
  <2>3. QED BY <1>1, <2>1, <2>2
<1>5. TextOK'
  BY <1>1 DEF IInv, TextOK, Sending
<1>6. QED BY <1>2, <1>3, <1>4, <1>5

\* What has to be shown of such a step.
LEMMA OnlyControl ==
  ASSUME IInv,
         UNCHANGED <<src, pos, waitBuffer, headDeal, content, disk, buffered>>,
         PipeOpen' => PipeOpen,
         \/ reader' = reader
         \/ reader = "loop" /\ reader' = "tail"
         \/ reader # "idle" /\ reader' = "done",
         TypeOK', StagesOK', EndOK', AnswerOK'
  PROVE  IInv'
BY NothingMoves DEF IInv

\* The caller, and what the goroutines do without a byte being moved.
ControlStep ==
  \/ Return \/ Timeout
  \/ ReaderCancelled \/ ReadEof \/ ReadFails \/ PipeClosed
  \/ CreateFile \/ WriterCancelled \/ PipeEof \/ Finish \/ ClosePipe

LEMMA ControlKeeps == IInv /\ ControlStep => IInv'
<1> SUFFICES ASSUME IInv, ControlStep PROVE IInv'
  OBVIOUS
<1> USE DEF ControlStep, Return, Timeout, ReaderCancelled, ReadEof, ReadFails, PipeClosed,
            CreateFile, WriterCancelled, PipeEof, Finish, ClosePipe,
            Reading, Fault, readerVars, writerVars
<1>1. /\ UNCHANGED <<src, pos, waitBuffer, headDeal, content, disk, buffered>>
      /\ PipeOpen' => PipeOpen
      /\ \/ reader' = reader
         \/ reader = "loop" /\ reader' = "tail"
         \/ reader # "idle" /\ reader' = "done"
  BY DEF PipeOpen
<1>2. bufLen' = bufLen /\ Got' = Got /\ Expected' = Expected
  BY <1>1, Fixed DEF Got
<1>3. TypeOK'
  <2>1. TypeOK
    BY DEF IInv
  <2>2. /\ reader' \in {reader, "tail", "done"}
        /\ writer' \in {writer, "loop", "flush", "finish", "close", "done"}
        /\ report' \in {report, "success", "fail"} /\ result' \in {result, "nil", "error"}
        /\ complete' \in {complete, TRUE} /\ faults' \subseteq faults \cup FaultKinds
    OBVIOUS
  <2> USE DEF TypeOK
  <2>3. reader' \in {"idle", "loop", "write", "tail", "writeTail", "done"}
    BY ONLY <2>1, <2>2
  <2>4. writer' \in {"idle", "create", "loop", "flush", "finish", "close", "done"}
    BY ONLY <2>1, <2>2
  <2>5. /\ report' \in {"none", "success", "fail"} /\ result' \in {"none", "nil", "error"}
        /\ complete' \in BOOLEAN /\ faults' \subseteq FaultKinds
    BY ONLY <2>1, <2>2
  <2>6. QED BY ONLY <1>1, <1>2, <2>1, <2>3, <2>4, <2>5
<1>4. StagesOK'
  BY <1>1 DEF IInv, StagesOK
<1>5. EndOK'
  BY <1>1, <1>2 DEF IInv, StagesOK, EndOK, PipeOpen, Ended, Untroubled, Sending
<1>6. AnswerOK'
  BY <1>1 DEF IInv, StagesOK, EndOK, AnswerOK, ErrorMeansFault, Ended, Untroubled, TypeOK
<1>7. QED BY <1>1, <1>3, <1>4, <1>5, <1>6, OnlyControl

LEMMA BeginKeeps == IInv /\ Begin => IInv'
<1> SUFFICES ASSUME IInv, Begin PROVE IInv'
  OBVIOUS
<1>1. CASE src.secret = "malformed"
  <2>1. UNCHANGED <<src, pos, waitBuffer, headDeal, reader, content, writer, buffered,
                    disk, complete, report, faults>> /\ result' = "error"
    BY <1>1 DEF Begin
  <2>2. bufLen' = bufLen /\ Got' = Got /\ Expected' = Expected
    BY <2>1, Fixed DEF Got
  <2>3. TypeOK'
    BY <2>1, <2>2 DEF IInv, TypeOK
  <2>4. StagesOK' /\ EndOK' /\ AnswerOK'
    BY <1>1, <2>1, <2>2
    DEF IInv, StagesOK, EndOK, AnswerOK, ErrorMeansFault, PipeOpen, Ended, Untroubled
  <2>5. PipeOpen' => PipeOpen
    BY <2>1 DEF PipeOpen
  <2>6. QED BY <2>1, <2>3, <2>4, <2>5, OnlyControl
<1>2. CASE src.secret # "malformed"
  <2>1. /\ reader = "idle" /\ result = "none" /\ reader' = "loop" /\ writer' = "create"
        /\ UNCHANGED <<src, pos, waitBuffer, headDeal, content, buffered, disk,
                       complete, report, result, faults>>
    BY <1>2 DEF Begin
  <2>2. /\ bufLen' = bufLen /\ offset' = offset /\ Expected' = Expected
        /\ WellFormed' = WellFormed
    BY <2>1, Fixed
  <2>3. /\ ~headDeal /\ ~complete /\ pos = 0 /\ waitBuffer = <<>>
        /\ disk = <<>> /\ buffered = <<>> /\ src \in Sources /\ WellFormed
    BY <2>1 DEF IInv, TypeOK, StagesOK
  <2>4. Got' = <<>> /\ Len(<<>>) = 0
    BY <2>1, <2>3 DEF Got
  <2>5. TypeOK'
    BY <2>1, <2>2 DEF IInv, TypeOK
  <2>6. StagesOK' /\ EndOK' /\ AnswerOK'
    BY <1>2, <2>1, <2>3
    DEF IInv, StagesOK, EndOK, AnswerOK, ErrorMeansFault, PipeOpen, Ended, Untroubled
  <2>7. HeadOK'
    BY <2>1 DEF IInv, HeadOK, StagesOK
  <2>8. CacheOK'
    <3> SUFFICES ASSUME Sought'
                 PROVE  \E k \in 0 .. MaxSize : CacheAt(k)' /\ Len(Got)' = k * BlockLen
      BY <2>1 DEF CacheOK
    <3>1. offset = 0 /\ bufLen \in Nat /\ MaxSize \in Nat /\ BlockLen \in Nat
      BY <2>1, <2>3, Lengths DEF Sought, offset
    <3>2. CacheAt(0)' /\ Len(Got)' = 0 * BlockLen
      BY <2>1, <2>2, <2>3, <2>4, <3>1 DEF CacheAt, Cut
    <3>3. QED BY <3>1, <3>2
  <2>9. TextOK'
    <3>1. Expected \in Seq(Bytes)
      BY <1>2, <2>3, ExpectedIsSequence
    <3>2. IsPrefix(<<>>, Expected)
      BY <3>1, EmptyPrefix
    <3>3. QED BY <2>1, <2>2, <2>4, <3>2 DEF TextOK, Sending
  <2>10. QED BY <2>2, <2>3, <2>5, <2>6, <2>7, <2>8, <2>9 DEF IInv
<1>3. QED BY <1>1, <1>2

LEMMA FlushKeeps == IInv /\ Flush => IInv'
<1> SUFFICES ASSUME IInv, Flush PROVE IInv'
  OBVIOUS
<1>1. /\ writer = "flush" /\ writer' = "finish" /\ buffered' = <<>>
      /\ \/ disk' = disk \o buffered /\ faults' = faults
         \/ disk' = disk /\ faults' = faults \cup {"disk"} /\ "disk" \in FaultKinds
      /\ UNCHANGED <<src, pos, waitBuffer, headDeal, reader, content, complete,
                     report, result>>
  BY DEF Flush, Fault, readerVars
<1>2. /\ bufLen' = bufLen /\ offset' = offset /\ Expected' = Expected
      /\ WellFormed' = WellFormed /\ Sought' = Sought
  BY <1>1, Fixed DEF Sought
<1>3. /\ disk \in Seq(1 .. src.size) /\ buffered \in Seq(1 .. src.size)
      /\ Got \in Seq(1 .. src.size) /\ disk' \in Seq(1 .. src.size)
      /\ src \in Sources /\ WellFormed
  <2>1. /\ disk \in Seq(1 .. src.size) /\ buffered \in Seq(1 .. src.size)
        /\ src \in Sources /\ WellFormed
    BY DEF IInv, TypeOK
  <2>2. Got \in Seq(1 .. src.size)
    BY <2>1 DEF Got
  <2>3. QED BY <1>1, <2>1, <2>2 DEF Got
<1>4. Got' = disk'
  BY <1>1, <1>3 DEF Got
<1>5. disk' = Got \/ (disk' = SubSeq(Got, 1, Len(disk)) /\ "disk" \in faults')
  <2>1. SubSeq(disk \o buffered, 1, Len(disk)) = disk
    BY <1>3
  <2>2. QED BY <1>1, <2>1 DEF Got
<1>6. TypeOK'
  BY <1>1, <1>2, <1>3 DEF IInv, TypeOK
<1>7. StagesOK'
  BY <1>1 DEF IInv, StagesOK
<1>8. HeadOK'
  BY <1>1, <1>3 DEF IInv, HeadOK
<1>9. CacheOK'
  BY <1>1, <1>2 DEF IInv, CacheOK, CacheAt, PipeOpen
<1>10. TextOK'
  <2> SUFFICES ASSUME Sought, reader # "idle" PROVE IsPrefix(disk', Expected)
    BY <1>1, <1>2, <1>4 DEF TextOK, PipeOpen
  <2>1. IsPrefix(Got, Expected) /\ src.secret # "malformed"
    BY DEF IInv, TextOK, StagesOK
  <2>2. Expected \in Seq(Bytes) /\ Got \in Seq(Bytes)
    BY <1>3, <2>1, ExpectedIsSequence, BytesSequence
  <2>3. Len(disk) \in 0 .. Len(Got)
    BY <1>3 DEF Got
  <2>4. IsPrefix(SubSeq(Got, 1, Len(disk)), Expected)
    BY <2>1, <2>2, <2>3, PrefixOfPrefix
  <2>5. QED BY <1>5, <2>1, <2>4
<1>11. EndOK'
  BY <1>1, <1>2, <1>4, <1>5 DEF IInv, EndOK, PipeOpen, Ended, Untroubled
<1>12. AnswerOK'
  BY <1>1 DEF IInv, AnswerOK, ErrorMeansFault, TypeOK
<1>13. QED BY <1>2, <1>3, <1>6, <1>7, <1>8, <1>9, <1>10, <1>11, <1>12 DEF IInv

LEMMA ReadHeadKeeps == IInv /\ ReadHead => IInv'
<1> SUFFICES ASSUME IInv, ReadHead PROVE IInv'
  OBVIOUS
<1>1. /\ reader = "loop" /\ ~headDeal /\ ~complete /\ src.secret # "malformed"
      /\ src \in Sources /\ WellFormed /\ pos \in 0 .. src.size /\ pos < HeadLen
      /\ waitBuffer = Cut(0, pos) /\ disk = <<>> /\ buffered = <<>>
  BY DEF ReadHead, IInv, TypeOK, StagesOK, HeadOK
<1>2. PICK size \in Nat, p \in Nat, h \in Nat :
        size = src.size /\ p = pos /\ h = HeadLen /\ p < h /\ p <= size
  <2>1. src.size \in Nat /\ HeadLen \in Nat
    BY <1>1, Lengths
  <2>2. QED BY <1>1, <2>1
<1>3. waitBuffer \in Seq(Nat) /\ Len(waitBuffer) = p
  BY <1>1, <1>2, CutIs
<1>4. \E n \in Chunks(h - p) :
        /\ pos' = p + n
        /\ headDeal' = (Len(waitBuffer \o Received(n)) = h)
        /\ waitBuffer' = IF headDeal' /\ src.head THEN <<>>
                          ELSE waitBuffer \o Received(n)
  BY <1>2, <1>3 DEF ReadHead
<1>5. PICK n \in Nat :
        /\ p + n <= h /\ p + n <= size /\ pos' = p + n
        /\ headDeal' = (Len(waitBuffer \o Received(n)) = h)
        /\ waitBuffer' = IF headDeal' /\ src.head THEN <<>>
                          ELSE waitBuffer \o Received(n)
  <2>1. Chunks(h - p) = 1 .. IF h - p <= size - p THEN h - p ELSE size - p
    BY <1>2, MinOfTwo DEF Chunks
  <2>2. \A n \in Chunks(h - p) : n \in Nat /\ p + n <= h /\ p + n <= size
    BY <1>2, <2>1
  <2>3. QED BY <1>4, <2>2
<1>6. PICK q \in Nat : q = p + n /\ q <= h /\ q <= size
  BY <1>5
<1>7. waitBuffer \o Received(n) = Cut(0, q) /\ Len(Cut(0, q)) = q
  <2>1. Received(n) = Cut(p, n)
    BY <1>2, <1>5, ReceivedIs
  <2>2. PICK zero \in Nat : zero = 0 /\ zero + p = p
    OBVIOUS
  <2>3. Cut(zero, p) \o Cut(zero + p, n) = Cut(zero, p + n)
    BY CutJoin
  <2>4. /\ waitBuffer = Cut(zero, p) /\ Cut(zero + p, n) = Cut(p, n)
        /\ Cut(zero, p + n) = Cut(0, q)
    BY <1>1, <1>2, <1>6, <2>2
  <2>5. Len(Cut(0, q)) = q
    BY CutIs
  <2>6. QED BY <2>1, <2>3, <2>4, <2>5
<1>8. /\ pos' = q /\ headDeal' = (q = h)
      /\ waitBuffer' = IF q = h /\ src.head THEN <<>> ELSE Cut(0, q)
  BY <1>5, <1>6, <1>7
<1>9. UNCHANGED <<src, reader, content, writer, buffered, disk, complete, report,
                  result, faults>>
  BY DEF ReadHead, Reading, writerVars
<1>10. /\ bufLen' = bufLen /\ offset' = offset /\ Expected' = Expected
       /\ WellFormed' = WellFormed
  BY <1>9, Fixed
<1>11. bufLen \in Nat /\ q < bufLen /\ BlockLen \in Nat /\ MaxSize \in Nat
  BY <1>1, <1>2, <1>6, Lengths
<1>12. TypeOK'
  <2>1. /\ <<>> \in Seq(1 .. src.size) /\ Len(<<>>) = 0 /\ 0 < bufLen
        /\ Cut(0, q) \in Seq(1 .. src.size)
    <3>1. 0 \in Nat /\ 0 + q <= size
      BY <1>6
    <3>2. Cut(0, q) \in Seq(1 .. src.size)
      BY <1>2, <3>1, CutInRange
    <3>3. 0 < bufLen /\ <<>> \in Seq(1 .. src.size) /\ Len(<<>>) = 0
      BY <1>11
    <3>4. QED BY <3>2, <3>3
  <2>2. waitBuffer' \in Seq(1 .. src.size) /\ Len(waitBuffer') < bufLen
    BY <1>7, <1>8, <1>11, <2>1
  <2>3. pos' \in 0 .. src.size /\ headDeal' \in BOOLEAN
    BY <1>2, <1>6, <1>8
  <2>4. QED BY <1>9, <1>10, <2>2, <2>3 DEF IInv, TypeOK
<1>13. StagesOK'
  BY <1>1, <1>9 DEF IInv, StagesOK
<1>14. HeadOK'
  <2> SUFFICES ASSUME ~headDeal' PROVE pos' < HeadLen /\ waitBuffer' = Cut(0, q)
    BY <1>1, <1>8, <1>9 DEF HeadOK, Cut
  <2>1. q # h
    BY <1>8
  <2>2. QED BY <1>2, <1>6, <1>8, <2>1
<1>15. Got' = <<>> /\ Len(<<>>) = 0
  BY <1>1, <1>9 DEF Got
<1>16. CacheOK'
  <2> SUFFICES ASSUME Sought'
               PROVE  \E k \in 0 .. MaxSize : CacheAt(k)' /\ Len(Got)' = k * BlockLen
    BY <1>1, <1>9 DEF CacheOK
  <2>1. CacheAt(0)'
    <3>1. PICK b \in Nat : b = bufLen
      BY <1>11
    <3>2. CASE q = h /\ src.head
      <4>1. offset = q /\ waitBuffer' = <<>> /\ Len(<<>>) = 0
        BY <1>2, <1>8, <3>2 DEF offset
      <4>2. Cut(q + 0 * b, 0) = <<>> /\ q = q + 0 * b + 0
        BY <3>1 DEF Cut
      <4>3. QED BY <1>8, <1>10, <3>1, <4>1, <4>2 DEF CacheAt
    <3>3. CASE ~(q = h /\ src.head)
      <4>1. offset = 0 /\ waitBuffer' = Cut(0, q)
        BY <1>8, <1>9, <3>3 DEF offset, Sought
      <4>2. 0 + 0 * b = 0
        BY <3>1
      <4>3. QED BY <1>7, <1>8, <1>10, <3>1, <4>1, <4>2 DEF CacheAt, Cut
    <3>4. QED BY <3>2, <3>3
  <2>2. QED BY <1>11, <1>15, <2>1
<1>17. TextOK'
  <2>1. IsPrefix(<<>>, Expected)
    BY <1>1, ExpectedIsSequence, EmptyPrefix
  <2>2. QED BY <1>1, <1>9, <1>10, <1>15, <2>1 DEF TextOK, Sending
<1>18. EndOK'
  BY <1>1, <1>9 DEF IInv, EndOK, Ended, Untroubled
<1>19. AnswerOK'
  BY <1>9 DEF IInv, AnswerOK, ErrorMeansFault
<1>20. QED BY <1>10, <1>12, <1>13, <1>14, <1>16, <1>17, <1>18, <1>19 DEF IInv

LEMMA ReadBlockKeeps == IInv /\ ReadBlock => IInv'
<1> SUFFICES ASSUME IInv, ReadBlock PROVE IInv'
  OBVIOUS
<1>1. /\ reader = "loop" /\ headDeal /\ ~complete /\ src.secret # "malformed"
      /\ src \in Sources /\ WellFormed /\ Sought
  BY DEF ReadBlock, ReadBlockFrom, IInv, TypeOK, StagesOK, Sought
<1>2. /\ waitBuffer \in Seq(1 .. src.size) /\ Len(waitBuffer) < bufLen
      /\ disk \in Seq(1 .. src.size) /\ buffered \in Seq(1 .. src.size)
      /\ content \in Seq(1 .. src.size) /\ pos \in 0 .. src.size
  BY DEF IInv, TypeOK
<1>3. /\ UNCHANGED <<src, headDeal, complete, writer, buffered, disk, report, result, faults>>
      /\ Got' = Got
  BY DEF ReadBlock, ReadBlockFrom, Reading, writerVars, Got
<1>4. /\ bufLen' = bufLen /\ offset' = offset /\ Expected' = Expected
      /\ WellFormed' = WellFormed /\ Sought' /\ PipeOpen' = PipeOpen
  BY <1>1, <1>3, Fixed DEF Sought, PipeOpen
<1>5. /\ bufLen \in Nat \ {0} /\ BlockLen \in Nat /\ added \in Nat
      /\ bufLen = BlockLen + added /\ MaxSize \in Nat /\ src.size \in 0 .. MaxSize
      /\ offset \in Nat /\ Len(Stored) = src.size - offset
  BY <1>1, Lengths
<1>6. PICK k \in Nat : CacheAt(k) /\ (PipeOpen => Len(Got) = k * BlockLen)
  <2>1. 0 .. MaxSize \subseteq Nat
    BY <1>5
  <2>2. QED BY <1>1, <2>1 DEF IInv, CacheOK
<1>7. PICK b \in Nat, w \in Nat, p \in Nat, size \in Nat, kb \in Nat, from \in Nat :
        /\ b # 0 /\ b = bufLen /\ w = Len(waitBuffer) /\ p = pos /\ size = src.size
        /\ kb = k * bufLen /\ from = offset + kb
        /\ w < b /\ p = from + w /\ waitBuffer = Cut(from, w) /\ p <= size
  <2>1. k * bufLen \in Nat
    BY <1>5, Multiples
  <2>2. PICK kb \in Nat : kb = k * bufLen
    BY <2>1
  <2>3. PICK from \in Nat : from = offset + kb
    BY <1>5
  <2>4. Len(waitBuffer) \in Nat /\ pos \in Nat /\ src.size \in Nat /\ pos <= src.size
    BY <1>2, <1>5
  <2>5. pos = from + Len(waitBuffer) /\ waitBuffer = Cut(from, Len(waitBuffer))
    BY <1>6, <2>2, <2>3 DEF CacheAt
  <2>6. QED BY <1>2, <1>5, <2>2, <2>3, <2>4, <2>5
<1>8. b # 0 /\ w < b /\ p = from + w /\ p <= size /\ from = offset + kb
  BY <1>7
<1>9. size <= MaxSize /\ from <= size /\ kb <= size /\ Len(Stored) = size - offset
  BY <1>5, <1>7, <1>8
<1>10. PICK n \in Nat :
        /\ n # 0 /\ n <= b /\ p + n <= size /\ pos' = p + n
        /\ LET buffer == Cut(from, w + n)
               block  == SubSeq(buffer, 1, b)
           IN  IF w + n < b
                 THEN waitBuffer' = buffer /\ UNCHANGED <<reader, content>>
                 ELSE /\ waitBuffer' = SubSeq(buffer, b + 1, w + n)
                      /\ reader' = IF Decrypts(block) THEN "write" ELSE "done"
                      /\ content' = IF Decrypts(block) THEN Plain(block) ELSE content
  <2>1. PICK top \in Int : Chunks(b) = 1 .. top /\ top <= b /\ top <= size - p
    <3>1. Chunks(b) = 1 .. Min({b, size - p})
      BY <1>7 DEF Chunks
    <3>2. Min({b, size - p}) = IF b <= size - p THEN b ELSE size - p
      BY MinOfTwo
    <3>3. QED BY <3>1, <3>2
  <2>2. \A n \in Chunks(b) : n \in Nat /\ n # 0 /\ n <= b /\ p + n <= size
    BY <1>8, <2>1, SMTT(30)
  <2>3. ASSUME NEW n \in Nat, p + n <= size
        PROVE  /\ waitBuffer \o Received(n) = Cut(from, w + n)
               /\ Len(Cut(from, w + n)) = w + n
    <3>1. Received(n) = Cut(p, n)
      BY <1>7, <2>3, ReceivedIs, SMTT(30)
    <3>2. Cut(from, w) \o Cut(p, n) = Cut(from, w + n)
      <4>1. Cut(from, w) \o Cut(from + w, n) = Cut(from, w + n)
        BY CutJoin
      <4>2. QED BY <1>8, <4>1
    <3>3. w + n \in Nat
      OBVIOUS
    <3>4. QED BY <1>7, <3>1, <3>2, <3>3, CutIs
  <2>4. \E n \in Chunks(b) :
          LET buffer == waitBuffer \o Received(n)
              block  == SubSeq(buffer, 1, b)
          IN  /\ pos' = p + n
              /\ IF Len(buffer) < b
                   THEN waitBuffer' = buffer /\ UNCHANGED <<reader, content>>
                   ELSE /\ waitBuffer' = SubSeq(buffer, b + 1, Len(buffer))
                        /\ reader' = IF Decrypts(block) THEN "write" ELSE "done"
                        /\ content' = IF Decrypts(block) THEN Plain(block) ELSE content
    BY <1>7 DEF ReadBlock, ReadBlockFrom
  <2>5. QED BY <2>2, <2>3, <2>4
<1>11. HeadOK' /\ EndOK'
  BY <1>1, <1>3 DEF IInv, HeadOK, EndOK, Ended, Untroubled
<1>12. CASE w + n < b
  <2>1. PICK l \in Nat : l = w + n /\ l < b /\ from + l = p + n /\ from + l <= size
    <3>1. n <= b /\ p + n <= size
      BY <1>10
    <3>2. QED BY <1>8, <1>12, <3>1
  <2>2. waitBuffer' = Cut(from, l) /\ reader' = reader /\ content' = content /\ pos' = from + l
    BY <1>10, <1>12, <2>1
  <2>3. Len(Cut(from, l)) = l /\ Cut(from, l) \in Seq(1 .. size)
    BY <2>1, CutIs, CutInRange
  <2>4. TypeOK'
    <3>1. pos' \in 0 .. size /\ waitBuffer' \in Seq(1 .. size) /\ Len(waitBuffer') < b
      BY <2>1, <2>2, <2>3
    <3>2. QED BY <1>3, <1>4, <1>7, <2>2, <3>1 DEF IInv, TypeOK
  <2>5. StagesOK' /\ AnswerOK'
    BY <1>1, <1>3, <2>2 DEF IInv, StagesOK, AnswerOK, ErrorMeansFault
  <2>6. CacheOK'
    <3> SUFFICES \E j \in 0 .. MaxSize : CacheAt(j)' /\ (PipeOpen => Len(Got) = j * BlockLen)
      BY <1>1, <1>3, <1>4, <2>2 DEF CacheOK
    <3>1. CacheAt(k)'
      BY <1>4, <1>7, <2>2, <2>3 DEF CacheAt, Cut
    <3>2. k \in 0 .. MaxSize
      <4>1. k <= kb
        BY <1>5, <1>7, Multiples
      <4>2. QED BY <1>5, <1>9, <4>1
    <3>3. QED BY <1>6, <3>1, <3>2
  <2>7. TextOK'
    BY <1>1, <1>3, <1>4, <2>2 DEF IInv, TextOK, Sending
  <2>8. QED BY <1>4, <1>11, <2>4, <2>5, <2>6, <2>7 DEF IInv
<1>13. CASE w + n >= b
  <2>1. PICK l \in Nat, next \in Nat :
          /\ l = w + n - b /\ l < b /\ next = from + b
          /\ next + l = p + n /\ next + l <= size /\ from + b <= size
    <3>1. n <= b /\ p + n <= size
      BY <1>10
    <3>2. /\ w + n - b \in Nat /\ w + n - b < b /\ from + b \in Nat
          /\ from + b + (w + n - b) = p + n /\ from + b <= size
      BY <1>8, <1>13, <3>1
    <3>3. QED BY <3>1, <3>2
  <2>2. PICK block \in Seq(1 .. size) : block = Cut(from, b) /\ Len(block) = b
    BY <1>7, <2>1, CutIs, CutInRange
  <2>3. /\ waitBuffer' = Cut(next, l) /\ pos' = next + l
        /\ reader' = IF Decrypts(block) THEN "write" ELSE "done"
        /\ content' = IF Decrypts(block) THEN Plain(block) ELSE content
    <3>1. /\ SubSeq(Cut(from, w + n), 1, b) = block
          /\ SubSeq(Cut(from, w + n), b + 1, w + n) = Cut(next, l)
      <4>1. /\ SubSeq(Cut(from, w + n), 1, b) = Cut(from, b)
            /\ SubSeq(Cut(from, w + n), b + 1, w + n) = Cut(from + b, w + n - b)
        <5>1. PICK whole \in Nat : whole = w + n
          OBVIOUS
        <5>2. b \in 0 .. whole
          BY <1>13, <5>1
        <5>3. ASSUME NEW m \in 0 .. whole
              PROVE  /\ SubSeq(Cut(from, whole), 1, m) = Cut(from, m)
                     /\ SubSeq(Cut(from, whole), m + 1, whole) = Cut(from + m, whole - m)
          BY ONLY CutParts, ZenonT(60)
        <5>4. /\ SubSeq(Cut(from, whole), 1, b) = Cut(from, b)
              /\ SubSeq(Cut(from, whole), b + 1, whole) = Cut(from + b, whole - b)
          BY ONLY <5>2, <5>3, Zenon
        <5>5. QED BY <5>1, <5>4
      <4>2. QED BY <2>1, <2>2, <4>1
    <3>2. ~(w + n < b)
      BY <1>13
    <3>3. QED BY <1>10, <2>1, <3>1, <3>2
  <2>4. Len(Cut(next, l)) = l /\ Cut(next, l) \in Seq(1 .. size)
    BY <2>1, CutIs, CutInRange
  <2>5. /\ Plain(block) \in Seq(1 .. src.size) /\ Len(Plain(block)) = BlockLen
    <3>1. /\ Plain(block) \in Seq(1 .. src.size)
          /\ Len(Plain(block)) = IF Len(block) > added THEN Len(block) - added ELSE 0
      BY <1>1, <1>7, PlainIs
    <3>2. Len(block) = BlockLen + added
      BY <1>5, <1>7, <2>2
    <3>3. QED BY <1>5, <3>1, <3>2
  <2>6. TypeOK'
    <3>1. pos' \in 0 .. size /\ waitBuffer' \in Seq(1 .. size) /\ Len(waitBuffer') < b
      <4>1. next + l \in 0 .. size
        BY <2>1
      <4>2. QED BY <2>1, <2>3, <2>4, <4>1
    <3>2. content' \in Seq(1 .. src.size)
      BY <1>2, <2>3, <2>5
    <3>3. QED BY <1>3, <1>4, <1>7, <2>3, <3>1, <3>2 DEF IInv, TypeOK
  <2>7. StagesOK'
    BY <1>1, <1>3, <2>3 DEF IInv, StagesOK
  <2>8. kb + b <= Len(Stored) /\ kb + b <= size
    BY <1>5, <1>8, <1>9, <2>1
  <2>9. AnswerOK'
    <3>1. ASSUME src.secret \in {"none", "right"} PROVE Decrypts(block)
      BY <1>1, <1>7, <2>2, <2>8, <3>1, BlockDecrypts
    <3>2. QED BY <1>1, <1>3, <2>3, <3>1 DEF IInv, AnswerOK, ErrorMeansFault
  <2>10. CacheOK'
    <3> SUFFICES \E j \in 0 .. MaxSize :
                   /\ CacheAt(j)'
                   /\ (PipeOpen /\ reader' = "write") => Len(Got) + Len(content') = j * BlockLen
      BY <1>3, <1>4, <2>3 DEF CacheOK
    <3>1. (k + 1) * b = kb + b /\ k <= kb /\ (k + 1) * BlockLen = k * BlockLen + BlockLen
      BY <1>5, <1>7, Multiples
    <3>2. CacheAt(k + 1)'
      <4>1. offset + (k + 1) * bufLen = next
        BY <1>5, <1>7, <2>1, <3>1
      <4>2. QED BY <1>4, <2>3, <2>4, <4>1 DEF CacheAt, Cut
    <3>3. k + 1 \in 0 .. MaxSize
      <4>1. b >= 1
        BY <1>8
      <4>2. k + 1 <= MaxSize
        BY <1>5, <1>9, <2>8, <3>1, <4>1
      <4>3. QED BY <1>5, <4>2
    <3>4. (PipeOpen /\ reader' = "write") => Len(Got) + Len(content') = (k + 1) * BlockLen
      BY <1>6, <2>3, <2>5, <3>1
    <3>5. QED BY <3>2, <3>3, <3>4
  <2>11. TextOK'
    <3> SUFFICES ASSUME PipeOpen
                 PROVE  IsPrefix(Got \o Plain(block), Expected)
      BY <1>1, <1>3, <1>4, <2>3 DEF IInv, TextOK, Sending
    <3>1. Got \in Seq(1 .. src.size) /\ IsPrefix(Got, Expected) /\ Len(Got) = k * BlockLen
      BY <1>1, <1>2, <1>6 DEF IInv, TextOK, Got
    <3>2. /\ block \in Seq(1 .. src.size) /\ block = Cut(offset + k * bufLen, Len(block))
          /\ Len(block) <= bufLen /\ k * bufLen + Len(block) <= Len(Stored)
      BY <1>7, <2>2, <2>8
    <3>3. QED BY <1>1, <3>1, <3>2, BlockContinues
  <2>12. QED BY <1>4, <1>11, <2>6, <2>7, <2>9, <2>10, <2>11 DEF IInv
<1>14. QED BY <1>12, <1>13

LEMMA ReadTailKeeps == IInv /\ ReadTail => IInv'
<1> SUFFICES ASSUME IInv, ReadTail PROVE IInv'
  OBVIOUS
<1>1. /\ reader = "tail" /\ src.secret # "malformed" /\ src \in Sources /\ WellFormed
      /\ waitBuffer \in Seq(1 .. src.size) /\ Len(waitBuffer) < bufLen
      /\ disk \in Seq(1 .. src.size) /\ buffered \in Seq(1 .. src.size)
      /\ pos \in 0 .. src.size
  BY DEF ReadTail, IInv, TypeOK, StagesOK
<1>2. /\ UNCHANGED <<src, pos, waitBuffer, headDeal, complete, writer, buffered, disk,
                     report, result, faults>>
      /\ Got' = Got
  BY DEF ReadTail, Reading, writerVars, Got
<1>3. \/ /\ waitBuffer # <<>> /\ Decrypts(waitBuffer)
         /\ reader' = "writeTail" /\ content' = Plain(waitBuffer)
      \/ /\ ~(waitBuffer # <<>> /\ Decrypts(waitBuffer))
         /\ reader' = "done" /\ content' = content
  BY DEF ReadTail
<1>4. /\ bufLen' = bufLen /\ offset' = offset /\ Expected' = Expected
      /\ WellFormed' = WellFormed /\ Sought' = Sought /\ PipeOpen' = PipeOpen
      /\ Ended' = Ended /\ Untroubled' = Untroubled
  BY <1>2, Fixed DEF Sought, PipeOpen, Ended, Untroubled
<1>5. /\ bufLen \in Nat \ {0} /\ BlockLen \in Nat /\ added \in Nat
      /\ MaxSize \in Nat /\ src.size \in Nat /\ HeadLen \in Nat
      /\ offset \in Nat /\ Len(Stored) = src.size - offset
  BY <1>1, Lengths
<1>6. /\ Plain(waitBuffer) \in Seq(1 .. src.size)
      /\ Len(Plain(waitBuffer)) = IF Len(waitBuffer) > added THEN Len(waitBuffer) - added ELSE 0
  BY <1>1, PlainIs
<1>7. TypeOK'
  <2>1. content' \in Seq(1 .. src.size)
    BY <1>3, <1>6 DEF IInv, TypeOK
  <2>2. reader' \in {"writeTail", "done"}
    BY <1>3
  <2>3. QED BY <1>2, <1>4, <2>1, <2>2 DEF IInv, TypeOK
<1>8. StagesOK' /\ HeadOK' /\ AnswerOK'
  BY <1>1, <1>2, <1>3 DEF IInv, StagesOK, HeadOK, AnswerOK, ErrorMeansFault
<1>9. ASSUME Sought
      PROVE  \E k \in Nat :
               /\ k \in 0 .. MaxSize /\ CacheAt(k) /\ (PipeOpen => Len(Got) = k * BlockLen)
               /\ waitBuffer = Cut(offset + k * bufLen, Len(waitBuffer))
               /\ k * bufLen + Len(waitBuffer) = pos - offset
  <2>1. PICK k \in 0 .. MaxSize : CacheAt(k) /\ (PipeOpen => Len(Got) = k * BlockLen)
    BY <1>1, <1>9 DEF IInv, CacheOK
  <2>2. k \in Nat /\ Len(waitBuffer) \in Nat
    BY <1>1, <1>5
  <2>3. PICK kb \in Nat : kb = k * bufLen
    BY <1>5, <2>2, Multiples
  <2>4. pos - offset = kb + Len(waitBuffer)
    BY <1>1, <1>5, <2>1, <2>2, <2>3 DEF CacheAt
  <2>5. QED BY <2>1, <2>2, <2>3, <2>4 DEF CacheAt
<1>10. CacheOK'
  BY <1>2, <1>3, <1>4, <1>9 DEF CacheOK, CacheAt, Cut
<1>11. TextOK'
  <2> SUFFICES ASSUME Sought, PipeOpen PROVE IsPrefix(Got \o Plain(waitBuffer), Expected)
    BY <1>1, <1>2, <1>3, <1>4 DEF IInv, TextOK, Sending
  <2>1. PICK k \in Nat :
          /\ Len(Got) = k * BlockLen
          /\ waitBuffer = Cut(offset + k * bufLen, Len(waitBuffer))
          /\ k * bufLen + Len(waitBuffer) = pos - offset
    BY <1>9
  <2>2. k * bufLen + Len(waitBuffer) <= Len(Stored) /\ Len(waitBuffer) <= bufLen
    BY <1>1, <1>5, <2>1
  <2>3. IsPrefix(Got, Expected) /\ Got \in Seq(1 .. src.size)
    BY <1>1 DEF IInv, TextOK, Got
  <2>4. QED BY <1>1, <2>1, <2>2, <2>3, BlockContinues
<1>12. EndOK'
  <2>1. (Ended /\ Untroubled) => reader' = "done"
    BY <1>1 DEF IInv, EndOK
  <2>2. ASSUME complete, Untroubled, src.secret # "wrong"
        PROVE  /\ reader' = "writeTail" => Len(Got) + Len(content') = Len(Expected)
               /\ reader' = "done" => Len(Got) = Len(Expected)
    <3>1. pos = src.size /\ PipeOpen /\ src.secret \in {"none", "right"}
      BY <1>1, <2>2
      DEF IInv, TypeOK, EndOK, StagesOK, Ended, PipeOpen, Sources, Secrets
    <3>2. Sought
      <4> SUFFICES ASSUME ~headDeal, src.head PROVE FALSE
        BY DEF Sought
      <4>1. pos < HeadLen /\ src.size >= HeadLen
        BY <1>1 DEF IInv, HeadOK, Sources
      <4>2. QED BY <1>5, <3>1, <4>1
    <3>3. PICK k \in Nat :
            /\ Len(Got) = k * BlockLen
            /\ waitBuffer = Cut(offset + k * bufLen, Len(waitBuffer))
            /\ k * bufLen + Len(waitBuffer) = pos - offset
      BY <1>9, <3>1, <3>2
    <3>4. PICK w \in Nat : w = Len(waitBuffer) /\ w < bufLen
      BY <1>1
    <3>5. Len(Stored) = k * bufLen + w
      BY <1>5, <3>1, <3>3, <3>4
    <3>6. /\ w # 0 => w > added
          /\ Len(Expected) = k * BlockLen + (IF w = 0 THEN 0 ELSE w - added)
      BY <1>1, <3>4, <3>5, ExpectedLength, ExpectedIsSequence
    <3>7. w # 0 <=> waitBuffer # <<>>
      BY <1>1, <3>4
    <3>8. w # 0 => Decrypts(waitBuffer)
      BY <1>1, <3>1, <3>3, <3>4, <3>5, BlockDecrypts
    <3>9. reader' = "writeTail" => w # 0 /\ content' = Plain(waitBuffer)
      BY <1>3, <3>7
    <3>10. reader' = "done" => w = 0
      BY <1>3, <3>7, <3>8
    <3>11. PICK kl \in Nat, extra \in Nat : kl = k * BlockLen /\ extra = added
      BY <1>5
    <3>12. Len(Got) = kl /\ (w = 0 => Len(Expected) = kl)
      BY <3>3, <3>6, <3>11
    <3>13. w # 0 => w > extra /\ Len(Expected) = kl + (w - extra)
      BY <3>3, <3>6, <3>11
    <3>14. w # 0 => Len(Plain(waitBuffer)) = w - extra
      BY <1>6, <3>4, <3>11, <3>13
    <3>15. w # 0 => Len(Got) + Len(Plain(waitBuffer)) = Len(Expected)
      BY <3>12, <3>13, <3>14
    <3>16. QED BY <3>9, <3>10, <3>12, <3>15
  <2>3. complete' => pos' = src'.size
    BY <1>2 DEF IInv, EndOK
  <2>4. QED BY <1>2, <1>4, <2>1, <2>2, <2>3 DEF EndOK
<1>13. QED BY <1>4, <1>7, <1>8, <1>10, <1>11, <1>12 DEF IInv

LEMMA TransferKeeps == IInv /\ Transfer => IInv'
<1> SUFFICES ASSUME IInv, Transfer PROVE IInv'
  OBVIOUS
<1> DEFINE all == Got \o content
<1>1. /\ writer = "loop" /\ src.secret # "malformed" /\ src \in Sources /\ WellFormed
      /\ \/ reader = "write" /\ reader' = "loop" /\ headDeal /\ ~complete
         \/ reader = "writeTail" /\ reader' = "done"
      /\ disk \in Seq(1 .. src.size) /\ buffered \in Seq(1 .. src.size)
      /\ content \in Seq(1 .. src.size)
  BY DEF Transfer, IInv, TypeOK, StagesOK
<1>2. UNCHANGED <<src, pos, waitBuffer, headDeal, content, complete, report, result>>
  BY DEF Transfer
<1>3. /\ bufLen' = bufLen /\ offset' = offset /\ Expected' = Expected
      /\ WellFormed' = WellFormed /\ Sought' = Sought
  BY <1>2, Fixed DEF Sought
<1>4. /\ Got \in Seq(1 .. src.size) /\ all \in Seq(1 .. src.size)
      /\ Len(all) = Len(Got) + Len(content) /\ Len(disk) <= Len(all)
  BY <1>1 DEF Got
<1>5. \/ /\ \E held \in 0 .. Min({Unflushed, Len(all) - Len(disk)}) :
              /\ disk' = SubSeq(all, 1, Len(all) - held)
              /\ buffered' = SubSeq(all, Len(all) - held + 1, Len(all))
         /\ writer' = writer /\ faults' = faults
      \/ /\ \E n \in Len(disk) .. Len(all) - 1 : disk' = SubSeq(all, 1, n)
         /\ buffered' = <<>> /\ writer' = "finish"
         /\ "disk" \in FaultKinds /\ faults' = faults \cup {"disk"}
  BY DEF Transfer, Got, Fault
<1>6. \E n \in 0 .. Len(all) :
        /\ disk' = SubSeq(all, 1, n)
        /\ \/ /\ buffered' = SubSeq(all, n + 1, Len(all))
              /\ writer' = "loop" /\ faults' = faults
           \/ /\ buffered' = <<>> /\ writer' = "finish"
              /\ "disk" \in FaultKinds /\ faults' = faults \cup {"disk"}
  <2>1. PICK l \in Nat, d \in Nat, u \in Nat :
          l = Len(all) /\ d = Len(disk) /\ u = Unflushed /\ d <= l
    <3>1. Unflushed \in Nat
      BY <1>1, Lengths
    <3>2. QED BY <1>1, <1>4, <3>1
  <2>2. \A held \in 0 .. Min({u, l - d}) : l - held \in 0 .. l
    <3>1. Min({u, l - d}) = IF u <= l - d THEN u ELSE l - d
      BY MinOfTwo
    <3>2. Min({u, l - d}) \in Int /\ Min({u, l - d}) <= l
      BY <2>1, <3>1
    <3>3. QED BY <3>2
  <2>3. \A n \in d .. l - 1 : n \in 0 .. l
    OBVIOUS
  <2>4. QED BY <1>1, <1>5, <2>1, <2>2, <2>3
<1>7. PICK n \in Nat :
        /\ n \in 0 .. Len(all) /\ disk' = SubSeq(all, 1, n)
        /\ \/ /\ buffered' = SubSeq(all, n + 1, Len(all))
              /\ writer' = "loop" /\ faults' = faults
           \/ /\ buffered' = <<>> /\ writer' = "finish"
              /\ "disk" \in FaultKinds /\ faults' = faults \cup {"disk"}
  BY <1>6
<1>8. /\ disk' \in Seq(1 .. src.size) /\ buffered' \in Seq(1 .. src.size)
      /\ disk' \o <<>> = disk'
      /\ SubSeq(all, 1, n) \o SubSeq(all, n + 1, Len(all)) = all
  <2>1. /\ SubSeq(all, 1, n) \in Seq(1 .. src.size)
        /\ SubSeq(all, n + 1, Len(all)) \in Seq(1 .. src.size)
        /\ SubSeq(all, 1, n) \o SubSeq(all, n + 1, Len(all)) = all
    BY <1>4, <1>7, SplitAnywhere
  <2>2. <<>> \in Seq(1 .. src.size)
    OBVIOUS
  <2>3. disk' \in Seq(1 .. src.size) /\ buffered' \in Seq(1 .. src.size)
    BY <1>7, <2>1, <2>2
  <2>4. disk' \o <<>> = disk'
    BY <2>3, ConcatEmptySeq
  <2>5. QED BY <2>1, <2>3, <2>4
<1> HIDE DEF all
<1>9. \/ Got' = all /\ writer' = "loop" /\ faults' = faults
      \/ /\ Got' = SubSeq(all, 1, n) /\ buffered' = <<>> /\ writer' = "finish"
         /\ "disk" \in FaultKinds /\ faults' = faults \cup {"disk"}
  BY <1>7, <1>8 DEF Got
<1>10. TypeOK'
  <2>1. /\ reader' \in {"loop", "done"} /\ writer' \in {"loop", "finish"}
        /\ faults' \subseteq faults \cup FaultKinds
    BY <1>1, <1>9
  <2>2. QED BY <1>2, <1>3, <1>8, <2>1 DEF IInv, TypeOK
<1>11. StagesOK' /\ HeadOK' /\ AnswerOK'
  BY <1>1, <1>2, <1>9 DEF IInv, StagesOK, HeadOK, AnswerOK, ErrorMeansFault
<1>12. PipeOpen
  BY <1>1 DEF PipeOpen
<1>13. PipeOpen' => Got' = all
  BY <1>9 DEF PipeOpen
<1>14. CacheOK'
  <2> SUFFICES ASSUME Sought
               PROVE  \E k \in 0 .. MaxSize :
                        CacheAt(k)' /\ ((PipeOpen' /\ reader' = "loop") => Len(Got') = k * BlockLen)
    BY <1>1, <1>3 DEF CacheOK
  <2>1. PICK k \in 0 .. MaxSize :
          CacheAt(k) /\ (reader = "write" => Len(Got) + Len(content) = k * BlockLen)
    BY <1>12 DEF IInv, CacheOK
  <2>2. CacheAt(k)'
    BY <1>2, <1>3, <2>1 DEF CacheAt, Cut
  <2>3. (PipeOpen' /\ reader' = "loop") => Len(Got') = k * BlockLen
    BY <1>1, <1>4, <1>13, <2>1
  <2>4. QED BY <2>2, <2>3
<1>15. TextOK'
  <2> SUFFICES ASSUME Sought PROVE IsPrefix(Got', Expected)
    BY <1>1, <1>3 DEF TextOK, Sending
  <2>1. IsPrefix(all, Expected)
    BY <1>1, <1>12 DEF IInv, TextOK, Sending, all
  <2>2. Expected \in Seq(Bytes) /\ all \in Seq(Bytes)
    BY <1>1, <1>4, ExpectedIsSequence, BytesSequence
  <2>3. IsPrefix(SubSeq(all, 1, n), Expected)
    BY <1>7, <2>1, <2>2, PrefixOfPrefix
  <2>4. QED BY <1>9, <2>1, <2>3
<1>16. EndOK'
  <2>1. CASE Got' = all /\ writer' = "loop" /\ faults' = faults
    BY <1>1, <1>2, <1>3, <1>4, <1>12, <2>1 DEF IInv, EndOK, Ended, Untroubled
  <2>2. CASE faults' = faults \cup {"disk"}
    BY <1>1, <1>2, <2>2 DEF IInv, EndOK, Untroubled
  <2>3. QED BY <1>9, <2>1, <2>2
<1>17. QED BY <1>3, <1>10, <1>11, <1>14, <1>15, <1>16 DEF IInv

LEMMA StutterKeeps == IInv /\ UNCHANGED vars => IInv'
<1> SUFFICES ASSUME IInv, UNCHANGED vars PROVE IInv'
  OBVIOUS
<1>1. /\ UNCHANGED <<src, pos, waitBuffer, headDeal, reader, content, writer, buffered,
                     disk, complete, report, result, faults>>
  BY DEF vars
<1>2. /\ bufLen' = bufLen /\ Got' = Got /\ Expected' = Expected /\ PipeOpen' = PipeOpen
  BY <1>1, Fixed DEF Got, PipeOpen
<1>3. TypeOK' /\ StagesOK' /\ EndOK' /\ AnswerOK'
  BY <1>1, <1>2
  DEF IInv, TypeOK, StagesOK, EndOK, AnswerOK, ErrorMeansFault, Ended, Untroubled
<1>4. QED BY <1>1, <1>2, <1>3, OnlyControl

\* What the invariant says when the file is asked about.
LEMMA InvariantMeans ==
  IInv => TypeOK /\ ErrorMeansFault /\ FileIsPrefix /\ NilMeansComplete
<1>1. IInv => TypeOK /\ ErrorMeansFault
  BY DEF IInv, AnswerOK
<1>2. IInv => FileIsPrefix
  BY DEF IInv, FileIsPrefix, TextOK, StagesOK, Sought, Got
<1>3. IInv => NilMeansComplete
  <2> SUFFICES ASSUME IInv, result = "nil", src.secret # "wrong", faults \subseteq {"read"}
               PROVE  disk = Expected
    BY DEF NilMeansComplete
  <2>1. complete /\ Untroubled /\ src.secret # "malformed" /\ Ended /\ reader = "done"
    BY DEF IInv, AnswerOK, StagesOK, EndOK, Untroubled, Ended
  <2>2. /\ disk \in Seq(1 .. src.size) /\ buffered = <<>> /\ Got = disk
        /\ src \in Sources /\ WellFormed /\ pos = src.size
    BY <2>1 DEF IInv, TypeOK, AnswerOK, StagesOK, EndOK, Got
  <2>3. Len(disk) = Len(Expected)
    BY <2>1, <2>2 DEF IInv, EndOK
  <2>4. Sought
    <3> SUFFICES ASSUME ~headDeal, src.head PROVE FALSE
      BY DEF Sought
    <3>1. pos < HeadLen /\ src.size >= HeadLen /\ src.size \in Nat /\ HeadLen \in Nat
      BY <2>2, Lengths DEF IInv, HeadOK, Sources
    <3>2. QED BY <2>2, <3>1
  <2>5. IsPrefix(disk, Expected) /\ disk \in Seq(Bytes) /\ Expected \in Seq(Bytes)
    BY <2>1, <2>2, <2>4, ExpectedIsSequence, BytesSequence DEF IInv, TextOK
  <2>6. QED BY <2>3, <2>5, WholePrefix
<1>4. QED BY <1>1, <1>2, <1>3

-----------------------------------------------------------------------------
(* The theorems.                                                           *)

\* Every state is one that the reader, the cache and the pipe can be in: the
\* invariant that the others follow from.
THEOREM DownloadInvariant == Spec => []IInv
<1>1. ASSUME IInv, [Next]_vars PROVE IInv'
  <2>1. CASE Next
    BY <1>1, <2>1, ControlKeeps, BeginKeeps, FlushKeeps, ReadHeadKeeps, ReadBlockKeeps,
       ReadTailKeeps, TransferKeeps
    DEF Next, ReaderStep, WriterStep, ControlStep
  <2>2. CASE UNCHANGED vars
    BY <1>1, <2>2, StutterKeeps
  <2>3. QED BY <1>1, <2>1, <2>2
<1>2. QED BY InitOK, <1>1, PTL DEF Spec

\* The cache of the reading goroutine never holds a whole block, and no byte
\* that IPFS has not delivered is ever in the pipe or on the disk.
THEOREM DownloadTypes == Spec => []TypeOK
BY DownloadInvariant, InvariantMeans, PTL

\* However the reads are cut, a download with the right key fails only if
\* something else has failed.
THEOREM ErrorsMeanFaults == Spec => []ErrorMeansFault
BY DownloadInvariant, InvariantMeans, PTL

\* What has reached the disk is a beginning of the text, whatever fails.
THEOREM FileHoldsPrefix == Spec => []FileIsPrefix
BY DownloadInvariant, InvariantMeans, PTL

\* An answer without an error means that the file is whole.
THEOREM NilIsComplete == Spec => []NilMeansComplete
BY DownloadInvariant, InvariantMeans, PTL

\* What the callers of downloadFile rely on: until it answers the file may
\* change, afterwards it does not, and the answer means something.
THEOREM DownloadImplementsTransfer == Spec => FileTransferSpec
<1> USE DEF FT!Secrets, Secrets
<1>1. Init => FT!TransferInit
  BY DEF Init, Sources, FT!TransferInit
<1>2. ASSUME IInv, ErrorMeansFault', NilMeansComplete', [Next]_vars
      PROVE  [FT!TransferNext]_(FT!transferVars)
  <2>1. CASE UNCHANGED vars
    <3>1. Expected' = Expected
      BY <2>1, Fixed DEF vars
    <3>2. QED BY <2>1, <3>1 DEF vars, FT!transferVars
  <2>2. CASE Next
    <3>1. /\ src' = src /\ faults \subseteq faults' /\ faults' \subseteq faults \cup FaultKinds
          /\ result' = result \/ (Begin /\ src.secret = "malformed") \/ Return
      BY <2>2
      DEF Next, Begin, Return, Timeout, ReaderStep, WriterStep, ReaderCancelled, ReadHead,
          ReadBlock, ReadBlockFrom, ReadEof, ReadFails, ReadTail, PipeClosed, CreateFile,
          WriterCancelled, Transfer, PipeEof, Flush, Finish, ClosePipe, Reading, Fault
    <3>2. /\ Expected' = Expected /\ src.secret \in Secrets
          /\ faults' \subseteq {"read", "disk", "timeout"}
      BY <1>2, <3>1, Fixed, DownloadAssumption DEF IInv, TypeOK, Sources
    <3>3. result # "none" => disk' = disk
      <4>1. result # "none" => writer \in {"close", "done", "idle"}
        BY <1>2 DEF IInv, AnswerOK, StagesOK
      <4>2. writer \in {"close", "done", "idle"} => disk' = disk
        BY <2>2
        DEF Next, Begin, Return, Timeout, ReaderStep, WriterStep, ReaderCancelled, ReadHead,
            ReadBlock, ReadBlockFrom, ReadEof, ReadFails, ReadTail, PipeClosed, CreateFile,
            WriterCancelled, Transfer, PipeEof, Flush, Finish, ClosePipe, Reading,
            readerVars, writerVars
      <4>3. QED BY <4>1, <4>2
    <3>4. CASE result' = result /\ result = "none"
      BY <3>1, <3>2, <3>4 DEF FT!TransferNext, FT!Proceed, FT!Trouble, FT!TransferTroubles
    <3>5. CASE result' = result /\ result # "none"
      BY <3>1, <3>2, <3>3, <3>5
      DEF FT!TransferNext, FT!Afterwards, FT!Trouble, FT!TransferTroubles
    <3>6. CASE Begin /\ src.secret = "malformed"
      BY <3>1, <3>2, <3>6 DEF Begin, FT!TransferNext, FT!Fail
    <3>7. CASE Return
      <4>1. /\ result = "none" /\ UNCHANGED <<src, disk, faults>>
            /\ result' = IF complete THEN "nil" ELSE "error"
        BY <3>7 DEF Return, writerVars
      <4>2. ErrorMeansFault' /\ NilMeansComplete'
        BY <1>2
      <4>3. CASE complete
        BY <3>2, <4>1, <4>2, <4>3 DEF NilMeansComplete, FT!TransferNext, FT!Succeed
      <4>4. CASE ~complete
        BY <3>2, <4>1, <4>2, <4>4 DEF ErrorMeansFault, FT!TransferNext, FT!Fail
      <4>5. QED BY <4>3, <4>4
    <3>8. QED BY <3>1, <3>4, <3>5, <3>6, <3>7
  <2>3. QED BY <1>2, <2>1, <2>2
<1>3. QED BY <1>1, <1>2, DownloadInvariant, ErrorsMeanFaults, NilIsComplete, PTL
          DEF Spec, FileTransferSpec, FT!TransferSpec

\* A read that does not fail delivers something.
LEMMA ReadsDeliver ==
  ASSUME IInv, IInv', ReadHead \/ ReadBlock
  PROVE  /\ UNCHANGED <<src, writer, result, faults>>
         /\ pos' > pos
         /\ reader = "loop" /\ reader' \in {"loop", "write", "done"}
<1>1. PICK p \in Nat, size \in Nat, h \in Nat, b \in Nat, w \in Nat :
        /\ p = pos /\ size = src.size /\ h = HeadLen /\ b = bufLen /\ w = Len(waitBuffer)
  <2>1. src \in Sources /\ pos \in 0 .. src.size /\ waitBuffer \in Seq(1 .. src.size)
    BY DEF IInv, TypeOK
  <2>2. /\ pos \in Nat /\ src.size \in Nat /\ HeadLen \in Nat /\ bufLen \in Nat
        /\ Len(waitBuffer) \in Nat
    BY <2>1, Lengths
  <2>3. QED BY <2>2
<1>2. /\ h - w \in Int /\ b \in Int /\ size - p \in Int
  OBVIOUS
<1>3. ASSUME NEW l \in Int PROVE \A n \in Chunks(l) : n \in Nat /\ p + n > p
  <2>1. Chunks(l) = 1 .. IF l <= size - p THEN l ELSE size - p
    BY <1>1, <1>2, MinOfTwo DEF Chunks
  <2>2. QED BY <2>1
<1>4. CASE ReadHead
  <2>1. \E n \in Chunks(h - w) : pos' = p + n
    BY <1>1, <1>4 DEF ReadHead
  <2>2. pos' > p
    BY <1>2, <1>3, <2>1
  <2>3. QED BY <1>1, <1>4, <2>2 DEF ReadHead, Reading, writerVars
<1>5. CASE ReadBlock
  <2>1. \E n \in Chunks(b) : pos' = p + n
    BY <1>1, <1>5 DEF ReadBlock, ReadBlockFrom
  <2>2. pos' > p
    BY <1>2, <1>3, <2>1
  <2>3. QED BY <1>1, <1>5, <2>2 DEF ReadBlock, ReadBlockFrom, Reading, writerVars
<1>6. QED BY <1>4, <1>5

LEMMA WorkIs ==
  /\ ReaderWork["idle"] = 6 /\ ReaderWork["write"] = 5 /\ ReaderWork["loop"] = 4
  /\ ReaderWork["tail"] = 3 /\ ReaderWork["writeTail"] = 2 /\ ReaderWork["done"] = 0
  /\ WriterWork["idle"] = 6 /\ WriterWork["create"] = 5 /\ WriterWork["loop"] = 4
  /\ WriterWork["flush"] = 3 /\ WriterWork["finish"] = 2 /\ WriterWork["close"] = 1
  /\ WriterWork["done"] = 0
BY DEF ReaderWork, WriterWork

\* downloadFile makes finitely many steps, for a stream of any length: each
\* takes something from what is left of its work, which is never less than
\* nothing.
THEOREM DownloadRunsOut == Spec => WorkRunsOut
<1>1. ASSUME IInv, IInv', Next PROVE Left' \in 0 .. Left - 1
  <2>1. /\ src \in Sources /\ src' = src
        /\ src.size \in Nat /\ pos \in 0 .. src.size /\ pos' \in 0 .. src.size
    <3>1. src' = src
      BY <1>1
      DEF Next, Begin, Return, Timeout, ReaderStep, WriterStep, ReaderCancelled, ReadHead,
          ReadBlock, ReadBlockFrom, ReadEof, ReadFails, ReadTail, PipeClosed, CreateFile,
          WriterCancelled, Transfer, PipeEof, Flush, Finish, ClosePipe, Reading
    <3>2. src \in Sources /\ pos \in 0 .. src.size /\ pos' \in 0 .. src'.size
      BY <1>1 DEF IInv, TypeOK
    <3>3. src.size \in Nat
      BY <3>2, Lengths
    <3>4. QED BY <3>1, <3>2, <3>3
  <2>2. PICK u \in Nat, u1 \in Nat, r \in Nat, r1 \in Nat, w \in Nat, w1 \in Nat,
             c \in Nat, c1 \in Nat :
          /\ u = src.size - pos /\ u1 = src.size - pos'
          /\ r = ReaderWork[reader] /\ r1 = ReaderWork[reader']
          /\ w = WriterWork[writer] /\ w1 = WriterWork[writer']
          /\ c = CallerWork /\ c1 = CallerWork'
    <3>1. src.size - pos \in Nat /\ src.size - pos' \in Nat
      BY <2>1
    <3>2. ReaderWork[reader] \in Nat /\ ReaderWork[reader'] \in Nat
      <4>1. /\ reader \in {"idle", "loop", "write", "tail", "writeTail", "done"}
            /\ reader' \in {"idle", "loop", "write", "tail", "writeTail", "done"}
        BY <1>1 DEF IInv, TypeOK
      <4>2. QED BY ONLY <4>1, WorkIs
    <3>3. WriterWork[writer] \in Nat /\ WriterWork[writer'] \in Nat
      <4>1. /\ writer \in {"idle", "create", "loop", "flush", "finish", "close", "done"}
            /\ writer' \in {"idle", "create", "loop", "flush", "finish", "close", "done"}
        BY <1>1 DEF IInv, TypeOK
      <4>2. QED BY ONLY <4>1, WorkIs
    <3>4. CallerWork \in Nat /\ CallerWork' \in Nat
      BY DEF CallerWork
    <3>5. QED BY <3>1, <3>2, <3>3, <3>4
  <2>3. Left = 2 * u + r + w + c /\ Left' = 2 * u1 + r1 + w1 + c1
    <3>1. ReaderWork' = ReaderWork /\ WriterWork' = WriterWork
      BY DEF ReaderWork, WriterWork
    <3>2. QED BY <2>1, <2>2, <3>1 DEF Left
  <2>4. CASE Begin \/ Return \/ Timeout
    <3>1. u1 = u
      BY <2>1, <2>2, <2>4 DEF Begin, Return, Timeout, readerVars
    <3>2. \/ r1 < r /\ w1 < w /\ c1 = c
          \/ r1 = r /\ w1 = w /\ c1 < c
      <4>1. CASE Begin
        <5>1. CASE src.secret = "malformed"
          BY <2>2, <4>1, <5>1 DEF Begin, CallerWork
        <5>2. CASE src.secret # "malformed"
          BY <1>1, <2>2, <4>1, <5>2, WorkIs DEF Begin, CallerWork, IInv, StagesOK
        <5>3. QED BY <5>1, <5>2
      <4>2. CASE Return
        BY <2>2, <4>2 DEF Return, CallerWork, readerVars, writerVars
      <4>3. CASE Timeout
        BY <2>2, <4>3 DEF Timeout, Fault, CallerWork, readerVars, writerVars
      <4>4. QED BY <2>4, <4>1, <4>2, <4>3
    <3>3. QED BY <2>3, <3>1, <3>2
  <2>5. CASE ReadHead \/ ReadBlock
    <3>1. u1 < u
      BY <1>1, <2>1, <2>2, <2>5, ReadsDeliver
    <3>2. r1 <= r + 1 /\ w1 = w /\ c1 = c
      BY <1>1, <2>2, <2>5, ReadsDeliver, WorkIs DEF CallerWork
    <3>3. QED BY <2>3, <3>1, <3>2
  <2>6. CASE ReaderCancelled \/ ReadEof \/ ReadFails \/ ReadTail \/ PipeClosed
    <3>1. u1 = u
      BY <2>1, <2>2, <2>6 DEF ReaderCancelled, ReadEof, ReadFails, ReadTail, PipeClosed
    <3>2. r1 < r
      BY <2>2, <2>6, WorkIs DEF ReaderCancelled, ReadEof, ReadFails, ReadTail, PipeClosed
    <3>3. w1 = w
      BY <2>2, <2>6 DEF ReaderCancelled, ReadEof, ReadFails, ReadTail, PipeClosed,
         Reading, writerVars
    <3>4. c1 <= c
      BY <2>2, <2>6 DEF ReaderCancelled, ReadEof, ReadFails, ReadTail, PipeClosed,
         Reading, Fault, CallerWork
    <3>5. QED BY <2>3, <3>1, <3>2, <3>3, <3>4
  <2>7. CASE WriterStep
    <3> USE DEF WriterStep, CreateFile, WriterCancelled, Transfer, PipeEof, Flush, Finish,
                ClosePipe, readerVars
    <3>1. u1 = u
      BY <2>1, <2>2, <2>7
    <3>2. /\ \/ reader' = reader
             \/ reader = "write" /\ reader' = "loop"
             \/ reader = "writeTail" /\ reader' = "done"
          /\ \/ writer = "create" /\ writer' \in {"loop", "finish"}
             \/ writer = "loop" /\ writer' \in {"loop", "flush", "finish"}
             \/ writer = "flush" /\ writer' = "finish"
             \/ writer = "finish" /\ writer' = "close"
             \/ writer = "close" /\ writer' = "done"
          /\ reader' = reader => writer' # writer
      BY <2>7
    <3>3. r1 <= r /\ w1 <= w /\ (r1 < r \/ w1 < w)
      BY ONLY <2>2, <3>2, WorkIs
    <3>4. c1 <= c
      BY <2>2, <2>7 DEF Fault, CallerWork
    <3>5. QED BY <2>3, <3>1, <3>3, <3>4
  <2>8. QED BY <1>1, <2>4, <2>5, <2>6, <2>7 DEF Next, ReaderStep
<1>2. QED BY <1>1, DownloadInvariant, PTL DEF Spec, WorkRunsOut
=============================================================================
