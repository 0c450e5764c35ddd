--------------------------- MODULE UartFrameProof ---------------------------
(***************************************************************************)
(* The parser of UartFrame for every alphabet, length of the buffer and    *)
(* line: types, that only frames are carried out, that none is open while  *)
(* a transfer runs, and that what is carried out is what the line says.    *)
(* The recursive functions of the model get their meaning from induction   *)
(* over the natural numbers (Induction, RecursionExists).                  *)
(***************************************************************************)
EXTENDS UartFrame, SequenceTheorems, WellFoundedInduction, TLAPS

(* The open frame in the buffer is the end of the line. *)
BufferIsLine ==
  /\ rd_index <= Len(input)
  /\ \A i \in 0 .. rd_index - 1 : rd_data[i] = input[Len(input) - rd_index + 1 + i]

(* What is open starts as a frame does and is not longer than one. *)
OpenFrame ==
  /\ rd_index > 0 => rd_data[0] = SYNC0
  /\ rd_index > 1 => rd_data[1] = SYNC1
  /\ rd_index > 2 => rd_index <= rd_data[2] + 4

FrameInv == TypeOK /\ BufferIsLine /\ OpenFrame /\ NoFrameAcrossTransfer

-----------------------------------------------------------------------------
(* Induction over numbers, and the recursive functions it gives sense to.  *)

(* A set that has 0 and with every number the next one has them all. *)
LEMMA Induction ==
  ASSUME NEW T, 0 \in T, \A n \in Nat : n \in T => n + 1 \in T
  PROVE  Nat \subseteq T
  <1> DEFINE R == OpToRel(<, Nat)
             M == Nat \ T
  <1>1. SUFFICES ASSUME M # {} PROVE FALSE
    OBVIOUS
  <1>2. IsWellFoundedOn(R, Nat) /\ M \subseteq Nat
    BY NatLessThanWellFounded
  <1>3. \A x, y \in Nat : x < y => <<x, y>> \in R
    BY DEF OpToRel
  <1> HIDE DEF R, M
  <1>4. PICK m \in M : \A y \in M : ~(<<y, m>> \in R)
    BY <1>1, <1>2, WFMin, Zenon
  <1>5. m \in Nat /\ m \notin T /\ m # 0
    BY DEF M
  <1>6. m - 1 \in Nat /\ (m - 1) + 1 = m /\ m - 1 < m
    BY <1>5
  <1>7. m - 1 \notin M
    BY <1>3, <1>4, <1>5, <1>6
  <1>8. QED  BY <1>5, <1>6, <1>7 DEF M

(* Recursion over 0 .. n, whose step i turns v into step[i][v]. *)
Steps(S, n) == [1 .. n -> [S -> S]]

Recursive(f, S, n, c, step) ==
  f \in [0 .. n -> S] /\ f[0] = c /\ \A i \in 1 .. n : f[i] = step[i][f[i - 1]]

(* Such a function exists, *)
LEMMA RecursionExists ==
  ASSUME NEW S, NEW c \in S, NEW n \in Nat, NEW step \in Steps(S, n)
  PROVE  \E f : Recursive(f, S, n, c, step)
  <1> USE DEF Steps
  <1> DEFINE Solves(f, m) == f[0] = c /\ \A i \in 1 .. m : f[i] = step[i][f[i - 1]]
             T == {m \in Nat : m =< n => \E f \in [0 .. n -> S] : Solves(f, m)}
  <1>1. 0 \in T
    <2>1. [i \in 0 .. n |-> c] \in [0 .. n -> S]
      OBVIOUS
    <2>2. Solves([i \in 0 .. n |-> c], 0)
      OBVIOUS
    <2>3. QED  BY <2>1, <2>2, Zenon
  <1>2. ASSUME NEW m \in Nat, m \in T PROVE m + 1 \in T
    <2>1. SUFFICES ASSUME m + 1 =< n PROVE \E f \in [0 .. n -> S] : Solves(f, m + 1)
      OBVIOUS
    <2>2. PICK f \in [0 .. n -> S] : Solves(f, m)
      BY <1>2, <2>1
    <2> DEFINE g == [f EXCEPT ![m + 1] = step[m + 1][f[m]]]
    <2>3. m \in 0 .. n /\ m + 1 \in 1 .. n /\ m + 1 \in 0 .. n
      BY <2>1
    <2>4. step[m + 1][f[m]] \in S
      BY <2>3
    <2>5. g \in [0 .. n -> S]
      BY <2>4
    <2>6. g[0] = c
      BY <2>2, <2>3
    <2>7. ASSUME NEW i \in 1 .. m + 1 PROVE g[i] = step[i][g[i - 1]]
      <3>1. i \in 0 .. n /\ i - 1 \in 0 .. n /\ i - 1 # m + 1
        BY <2>1
      <3>2. CASE i = m + 1
        BY <2>3, <3>1, <3>2
      <3>3. CASE i # m + 1
        <4>1. i \in 1 .. m
          BY <3>3
        <4>2. QED  BY <2>2, <3>1, <3>3, <4>1
      <3>4. QED  BY <3>2, <3>3
    <2>8. Solves(g, m + 1)
      BY <2>6, <2>7
    <2> HIDE DEF g, Solves
    <2>9. QED  BY <2>5, <2>8
  <1>3. n \in T
    <2> HIDE DEF T
    <2>1. Nat \subseteq T
      BY <1>1, <1>2, Induction
    <2>2. QED  BY <2>1
  <1>4. QED  BY <1>3 DEF Recursive

(* and two that start alike and step alike have the same values. *)
StepAlike(f, g, n) ==
  f[0] = g[0] /\ \A i \in 1 .. n : f[i - 1] = g[i - 1] => f[i] = g[i]

LEMMA RecursionUnique ==
  ASSUME NEW n \in Nat, NEW f, NEW g, StepAlike(f, g, n)
  PROVE  \A i \in 0 .. n : f[i] = g[i]
  <1> USE DEF StepAlike
  <1> DEFINE T == {m \in Nat : m =< n => f[m] = g[m]}
  <1>1. 0 \in T
    OBVIOUS
  <1>2. ASSUME NEW m \in Nat, m \in T PROVE m + 1 \in T
    <2>1. SUFFICES ASSUME m + 1 =< n PROVE f[m + 1] = g[m + 1]
      OBVIOUS
    <2>2. m + 1 \in 1 .. n /\ (m + 1) - 1 = m /\ f[m] = g[m]
      BY <1>2, <2>1
    <2>3. QED  BY <2>2
  <1> HIDE DEF T
  <1>3. Nat \subseteq T
    BY <1>1, <1>2, Induction
  <1>4. QED  BY <1>3 DEF T

(* Recursion towards the end: what comes after p starts at next[p]. *)
Ahead(next, m, n) == m =< n /\ \A p \in 1 .. m : next[p] \in p + 1 .. n

Forward(f, S, n, m, c, next, step) ==
  /\ f \in [1 .. n -> S]
  /\ \A p \in 1 .. n : f[p] = IF p > m THEN c ELSE step[p][f[next[p]]]

LEMMA RecursionForward ==
  ASSUME NEW S, NEW c \in S, NEW n \in Nat, NEW m \in Nat,
         NEW next, Ahead(next, m, n), NEW step \in Steps(S, m)
  PROVE  \E f : Forward(f, S, n, m, c, next, step)
  <1> USE DEF Steps, Ahead
  <1> DEFINE Solves(f, k) ==
               \A p \in 1 .. n : p > m - k => f[p] = IF p > m THEN c ELSE step[p][f[next[p]]]
             T == {k \in Nat : k =< m => \E f \in [1 .. n -> S] : Solves(f, k)}
  <1>1. 0 \in T
    <2>1. [p \in 1 .. n |-> c] \in [1 .. n -> S]
      OBVIOUS
    <2>2. Solves([p \in 1 .. n |-> c], 0)
      OBVIOUS
    <2>3. QED  BY <2>1, <2>2, Zenon
  <1>2. ASSUME NEW k \in Nat, k \in T PROVE k + 1 \in T
    <2>1. SUFFICES ASSUME k + 1 =< m PROVE \E f \in [1 .. n -> S] : Solves(f, k + 1)
      OBVIOUS
    <2>2. PICK f \in [1 .. n -> S] : Solves(f, k)
      BY <1>2, <2>1
    <2> DEFINE q == m - k
               g == [f EXCEPT ![q] = step[q][f[next[q]]]]
    <2>3. q \in 1 .. m /\ q \in 1 .. n /\ next[q] \in 1 .. n
      BY <2>1
    <2>4. step[q][f[next[q]]] \in S
      BY <2>3
    <2> HIDE DEF q
    <2>5. g \in [1 .. n -> S]
      BY <2>4
    <2>6. ASSUME NEW p \in 1 .. n, p >= q
          PROVE  g[p] = IF p > m THEN c ELSE step[p][g[next[p]]]
      <3>1. CASE p = q
        <4>1. next[p] \in 1 .. n /\ next[p] # q
          BY <2>3, <3>1
        <4>2. g[p] = step[q][f[next[q]]] /\ g[next[p]] = f[next[p]]
          BY <2>3, <3>1, <4>1
        <4>3. QED  BY <2>3, <3>1, <4>2
      <3>2. CASE p # q
        <4>1. p > m - k
          BY <2>1, <2>6, <3>2 DEF q
        <4>2. f[p] = IF p > m THEN c ELSE step[p][f[next[p]]]
          BY <2>2, <4>1
        <4>3. g[p] = f[p]
          BY <3>2
        <4>4. p \in 1 .. m => next[p] \in 1 .. n /\ next[p] # q
          BY <2>3, <2>6
        <4>5. p \in 1 .. m => g[next[p]] = f[next[p]]
          BY <4>4
        <4>6. QED  BY <4>2, <4>3, <4>5
      <3>3. QED  BY <3>1, <3>2
    <2>7. Solves(g, k + 1)
      <3>1. \A p \in 1 .. n : p > m - (k + 1) => p >= q
        BY <2>1 DEF q
      <3>2. QED  BY <2>6, <3>1
    <2> HIDE DEF g, Solves
    <2>8. QED  BY <2>5, <2>7
  <1>3. m \in T
    <2> HIDE DEF T
    <2>1. Nat \subseteq T
      BY <1>1, <1>2, Induction
    <2>2. QED  BY <2>1
  <1>4. QED  BY <1>3 DEF Forward

(* The numbers among the constants. *)
LEMMA Sizes ==
  /\ BYTE_MOD \in Nat /\ BYTE_MOD > 1
  /\ MAX_LENGTH \in Nat /\ MAX_LENGTH > 4
  /\ VALUE_BYTES \in 0 .. 4
  BY FrameAssumption

(* Adding bytes in one: what comes out, and what it takes to reach zero. *)
LEMMA ModAdd ==
  ASSUME NEW m \in Nat, m > 1, NEW v \in 0 .. m - 1, NEW b \in 0 .. m - 1
  PROVE  /\ (v + b) % m \in 0 .. m - 1
         /\ (0 - v) % m \in 0 .. m - 1
         /\ (v + b) % m = 0 <=> b = (0 - v) % m
  <1>1. CASE v + b < m
    <2>1. v + b \in 0 .. m - 1
      BY <1>1
    <2>2. (v + b) % m = v + b
      BY <2>1
    <2>3. CASE v = 0
      <3>1. (0 - v) % m = 0
        BY <2>3
      <3>2. QED  BY <2>2, <2>3, <3>1
    <2>4. CASE v # 0
      <3>1. 0 - v = 0 - m + (m - v) /\ m - v \in 0 .. m - 1
        BY <2>4
      <3>2. (0 - v) % m = m - v
        BY <3>1
      <3>3. QED  BY <1>1, <2>2, <2>4, <3>2
    <2>5. QED  BY <2>3, <2>4
  <1>2. CASE v + b >= m
    <2>1. v + b = m + (v + b - m) /\ v + b - m \in 0 .. m - 1
      BY <1>2
    <2>2. (v + b) % m = v + b - m
      BY <2>1
    <2>3. 0 - v = 0 - m + (m - v) /\ m - v \in 0 .. m - 1
      BY <1>2
    <2>4. (0 - v) % m = m - v
      BY <2>3
    <2>5. QED  BY <1>2, <2>2, <2>3, <2>4
  <1>3. QED  BY <1>1, <1>2
-----------------------------------------------------------------------------
(* Bytes are numbers. *)
LEMMA ByteIsInt == \A b \in Byte : b \in Int /\ b >= 0
  BY Sizes DEF Byte

(* A part of a sequence, member by member. *)
LEMMA SubSeqOf ==
  ASSUME NEW S, NEW s \in Seq(S), NEW m \in Int, NEW n \in Int,
         m >= 1, m <= n, n <= Len(s)
  PROVE  /\ SubSeq(s, m, n) \in Seq(S)
         /\ Len(SubSeq(s, m, n)) = n - m + 1
         /\ \A i \in 1 .. n - m + 1 : SubSeq(s, m, n)[i] = s[m + i - 1]
  OBVIOUS

-----------------------------------------------------------------------------
(* Checksums. *)

(* The running sums of a sequence, of which SumOf is the last. *)
Sums(s) ==
  CHOOSE sum : sum = [n \in 0 .. Len(s) |-> IF n = 0 THEN 0 ELSE (sum[n - 1] + s[n]) % BYTE_MOD]

(* Sums adds one byte after the other. *)
LEMMA SumsStep ==
  ASSUME NEW s \in Seq(Byte)
  PROVE  /\ SumOf(s) = Sums(s)[Len(s)]
         /\ Sums(s) \in [0 .. Len(s) -> Byte]
         /\ Sums(s)[0] = 0
         /\ \A n \in 1 .. Len(s) : Sums(s)[n] = (Sums(s)[n - 1] + s[n]) % BYTE_MOD
  <1> DEFINE step == [n \in 1 .. Len(s) |-> [v \in Byte |-> (v + s[n]) % BYTE_MOD]]
             Eq(sum) == sum = [n \in 0 .. Len(s) |-> IF n = 0 THEN 0
                                                      ELSE (sum[n - 1] + s[n]) % BYTE_MOD]
  <1>1. Len(s) \in Nat /\ \A n \in 1 .. Len(s) : s[n] \in Byte
    OBVIOUS
  <1>2. ASSUME NEW v \in Byte, NEW b \in Byte PROVE (v + b) % BYTE_MOD \in Byte
    BY Sizes, ModAdd DEF Byte
  <1>3. step \in Steps(Byte, Len(s))
    BY <1>1, <1>2 DEF Steps
  <1>4. 0 \in Byte
    BY Sizes DEF Byte
  <1> HIDE DEF step
  <1>50. PICK f : Recursive(f, Byte, Len(s), 0, step)
    BY <1>1, <1>3, <1>4, RecursionExists, Zenon
  <1>5. /\ f \in [0 .. Len(s) -> Byte] /\ f[0] = 0
        /\ \A n \in 1 .. Len(s) : f[n] = step[n][f[n - 1]]
    BY <1>50 DEF Recursive
  <1>6. ASSUME NEW n \in 1 .. Len(s) PROVE f[n] = (f[n - 1] + s[n]) % BYTE_MOD
    <2>1. n - 1 \in 0 .. Len(s)
      BY <1>1
    <2>2. f[n - 1] \in Byte
      BY <1>5, <2>1
    <2>3. QED  BY <1>5, <2>2 DEF step
  <1>7. Eq(f)
    <2>1. ASSUME NEW n \in 0 .. Len(s)
          PROVE  f[n] = IF n = 0 THEN 0 ELSE (f[n - 1] + s[n]) % BYTE_MOD
      <3>1. n # 0 => n \in 1 .. Len(s)
        BY <1>1
      <3>2. QED  BY <1>5, <1>6, <3>1
    <2>2. QED  BY <1>5, <2>1
  <1>8. Eq(Sums(s))
    <2>1. Sums(s) = CHOOSE sum : Eq(sum)
      BY DEF Sums
    <2> HIDE DEF Eq
    <2>2. QED  BY <1>7, <2>1, Zenon
  <1>9. Sums(s)[0] = 0 /\ DOMAIN Sums(s) = 0 .. Len(s)
    BY <1>1, <1>8
  <1>10. ASSUME NEW n \in 1 .. Len(s)
         PROVE  Sums(s)[n] = (Sums(s)[n - 1] + s[n]) % BYTE_MOD
    <2>1. n \in 0 .. Len(s) /\ n # 0
      BY <1>1
    <2> HIDE DEF Eq
    <2>2. Sums(s)[n] = IF n = 0 THEN 0 ELSE (Sums(s)[n - 1] + s[n]) % BYTE_MOD
      BY <1>8, <2>1, Zenon DEF Eq
    <2>3. QED  BY <2>1, <2>2
  <1>11. \A n \in 0 .. Len(s) : Sums(s)[n] = f[n]
    <2> DEFINE g == Sums(s)
    <2>1. g[0] = f[0]
      BY <1>5, <1>9
    <2>2. \A n \in 1 .. Len(s) : g[n - 1] = f[n - 1] => g[n] = f[n]
      <3>1. \A n \in 1 .. Len(s) : n \in 0 .. Len(s) /\ n # 0
        BY <1>1
      <3>2. QED  BY <1>5, <1>6, <1>10, <3>1
    <2> HIDE DEF g
    <2>3. StepAlike(g, f, Len(s))
      BY <2>1, <2>2 DEF StepAlike
    <2>4. \A n \in 0 .. Len(s) : g[n] = f[n]
      BY <1>1, <2>3, RecursionUnique, Zenon
    <2>5. QED  BY <2>4 DEF g
  <1>12. Sums(s) \in [0 .. Len(s) -> Byte]
    BY <1>5, <1>8, <1>11
  <1>13. SumOf(s) = Sums(s)[Len(s)]
    BY DEF SumOf, Sums
  <1>14. QED  BY <1>9, <1>10, <1>12, <1>13

(* A checksum is a byte. *)
LEMMA CheckSumType ==
  ASSUME NEW s \in Seq(Byte)
  PROVE  SumOf(s) \in Byte /\ check_sum(s) \in Byte
  <1>1. SumOf(s) \in Byte
    <2>1. Len(s) \in 0 .. Len(s)
      OBVIOUS
    <2>2. QED  BY <2>1, SumsStep
  <1>2. QED  BY <1>1, Sizes, ModAdd DEF check_sum, Byte

(* The bytes of a frame add up to zero exactly when the last one is the    *)
(* checksum of the others.                                                 *)
LEMMA CheckSumEndsFrame ==
  ASSUME NEW s \in Seq(Byte), NEW t \in Seq(Byte), Len(t) = Len(s) + 1,
         \A i \in 1 .. Len(s) : t[i] = s[i]
  PROVE  SumOf(t) = 0 <=> t[Len(t)] = check_sum(s)
  <1> DEFINE n == Len(s)
             f == Sums(s)
             g == Sums(t)
  <1>1. n \in Nat /\ Len(t) = n + 1 /\ n + 1 \in 1 .. Len(t) /\ t[n + 1] \in Byte
    OBVIOUS
  <1>2. \A i \in 0 .. n : f[i] = g[i]
    <2>1. f[0] = g[0]
      BY SumsStep
    <2>2. ASSUME NEW i \in 1 .. n, f[i - 1] = g[i - 1] PROVE f[i] = g[i]
      <3>1. i \in 1 .. Len(t)
        BY <1>1
      <3>2. f[i] = (f[i - 1] + s[i]) % BYTE_MOD /\ g[i] = (g[i - 1] + t[i]) % BYTE_MOD
        BY <3>1, SumsStep
      <3>3. QED  BY <2>2, <3>2
    <2> HIDE DEF n, f, g
    <2>3. StepAlike(f, g, n)
      BY <1>1, <2>1, <2>2 DEF StepAlike
    <2>4. n \in Nat
      BY <1>1
    <2>5. QED  BY <2>3, <2>4, RecursionUnique
  <1>3. /\ SumOf(s) = f[n] /\ SumOf(s) \in Byte
        /\ SumOf(t) = g[n + 1]
        /\ g[n + 1] = (g[n] + t[n + 1]) % BYTE_MOD
    <2>1. (n + 1) - 1 = n
      BY <1>1
    <2>2. QED  BY <1>1, <2>1, SumsStep, CheckSumType
  <1>4. SumOf(t) = (SumOf(s) + t[n + 1]) % BYTE_MOD
    BY <1>1, <1>2, <1>3
  <1>5. ASSUME NEW v \in Byte, NEW b \in Byte
        PROVE  (v + b) % BYTE_MOD = 0 <=> b = (0 - v) % BYTE_MOD
    BY Sizes, ModAdd DEF Byte
  <1>6. QED  BY <1>1, <1>3, <1>4, <1>5 DEF check_sum

-----------------------------------------------------------------------------
(* Types. *)

Commands == [cmd : Known, value : Nat]

ReplyOK ==
  /\ tx_data \in Seq(Byte) /\ Len(tx_data) = 4
  /\ sent \in Seq(Byte)

(* Bytes that a reply is made of. *)
LEMMA ReplyBytes ==
  /\ 0 \in Byte /\ 1 \in Byte
  /\ SYNC0 \in Byte /\ SYNC1 \in Byte
  /\ R_SUCCESS \in Byte /\ CHECKDATA_ERROR \in Byte
  /\ LEN_ERROR \in Byte /\ CMD_NOT_SUPPORT \in Byte
  <1>1. 0 \in Byte /\ 1 \in Byte
    BY Sizes DEF Byte
  <1>2. QED  BY <1>1, FrameAssumption

(* A reply is bytes, and the first four stay in tx_data. *)
LEMMA ReplyType ==
  ASSUME NEW bytes \in Seq(Byte), Len(bytes) >= 3, SendReply(bytes)
  PROVE  ReplyOK'
  <1> DEFINE reply == Append(bytes, check_sum(bytes))
  <1>1. check_sum(bytes) \in Byte
    BY CheckSumType
  <1>2. reply \in Seq(Byte) /\ Len(reply) >= 4 /\ Len(reply) \in Nat
    BY <1>1
  <1>3. sent' = reply /\ tx_data' = SubSeq(reply, 1, 4)
    BY DEF SendReply
  <1> HIDE DEF reply
  <1>4. SubSeq(reply, 1, 4) \in Seq(Byte) /\ Len(SubSeq(reply, 1, 4)) = 4
    BY <1>2, SubSeqOf
  <1>5. QED  BY <1>2, <1>3, <1>4 DEF ReplyOK

(* So is the acknowledgement of a command, *)
LEMMA AckType ==
  ASSUME NEW code \in Byte, Ack(code)
  PROVE  ReplyOK'
  <1> DEFINE bytes == <<SYNC0, SYNC1, 0, code>>
  <1>1. bytes \in Seq(Byte) /\ Len(bytes) >= 3
    BY ReplyBytes
  <1>2. SendReply(bytes)
    BY DEF Ack
  <1> HIDE DEF bytes
  <1>3. QED  BY <1>1, <1>2, ReplyType

(* the complaint about its length, *)
LEMMA LenErrorType ==
  ASSUME ReplyOK, len_error
  PROVE  ReplyOK'
  <1>1. check_sum(tx_data) \in Byte
    BY CheckSumType DEF ReplyOK
  <1>2. QED  BY <1>1, ReplyBytes DEF ReplyOK, len_error

(* and silence. *)
LEMMA NoReplyType ==
  ASSUME ReplyOK, NoReply
  PROVE  ReplyOK'
  BY DEF ReplyOK, NoReply

(* The value of a frame that is in the buffer as a whole. *)
LEMMA ValueType ==
  ASSUME NEW d \in Buffer, NEW n \in Nat, n + 4 < MAX_LENGTH
  PROVE  Value(d, n) \in Nat
  <1>1. \A i \in 0 .. MAX_LENGTH : d[i] \in Nat
    BY Sizes DEF Buffer, Byte
  <1>2. ASSUME NEW v \in Nat, NEW b \in Nat PROVE v * BYTE_MOD + b \in Nat
    BY Sizes
  <1>3. CASE n = 1
    <2>1. d[4] \in Nat
      BY <1>1, Sizes
    <2>2. QED  BY <1>3, <2>1 DEF Value
  <1>4. CASE n = 2
    <2>1. d[4] \in Nat /\ d[5] \in Nat
      BY <1>1, <1>4, Sizes
    <2>2. d[4] * BYTE_MOD + d[5] \in Nat
      BY <1>2, <2>1
    <2>3. Value(d, n) = d[4] * BYTE_MOD + d[5]
      BY <1>4 DEF Value
    <2>4. QED  BY <2>2, <2>3
  <1>5. CASE n = 3
    <2>1. d[4] \in Nat /\ d[5] \in Nat /\ d[6] \in Nat
      BY <1>1, <1>5, Sizes
    <2>2. (d[4] * BYTE_MOD + d[5]) * BYTE_MOD + d[6] \in Nat
      BY <1>2, <2>1
    <2>3. Value(d, n) = (d[4] * BYTE_MOD + d[5]) * BYTE_MOD + d[6]
      BY <1>5 DEF Value
    <2>4. QED  BY <2>2, <2>3
  <1>6. CASE n = 4
    <2>1. d[4] \in Nat /\ d[5] \in Nat /\ d[6] \in Nat /\ d[7] \in Nat
      BY <1>1, <1>6, Sizes
    <2>2. (d[4] * BYTE_MOD + d[5]) * BYTE_MOD + d[6] \in Nat
      BY <1>2, <2>1
    <2>3. ((d[4] * BYTE_MOD + d[5]) * BYTE_MOD + d[6]) * BYTE_MOD + d[7] \in Nat
      BY <1>2, <2>1, <2>2
    <2>4. Value(d, n) = ((d[4] * BYTE_MOD + d[5]) * BYTE_MOD + d[6]) * BYTE_MOD + d[7]
      BY <1>6 DEF Value
    <2>5. QED  BY <2>3, <2>4
  <1>7. CASE n \notin {1, 2, 3, 4}
    BY <1>7 DEF Value
  <1>8. QED  BY <1>3, <1>4, <1>5, <1>6, <1>7

(* A command carried out is a known one, with a number. *)
LEMMA ExecuteType ==
  ASSUME executed \in Seq(Commands), NEW cmd \in Known, NEW value \in Nat, Execute(cmd, value)
  PROVE  executed' \in Seq(Commands)
  <1> DEFINE e == [cmd |-> cmd, value |-> value]
  <1>1. e \in Commands
    BY DEF Commands
  <1>2. executed' = Append(executed, e)
    BY DEF Execute
  <1> HIDE DEF e
  <1>3. QED  BY <1>1, <1>2

(* What the answer to a frame in the buffer leaves behind. *)
AnswerOK ==
  /\ flag \in {NORMAL_MODE, UPGRADE_MODE}
  /\ cmd_rd \in {0, 1}
  /\ ReplyOK
  /\ executed \in Seq(Commands)

(* The switch answers a frame. *)
LEMMA CommandType ==
  ASSUME AnswerOK, NEW d \in Buffer, d[2] \in Nat, d[2] + 4 < MAX_LENGTH, Command(d)
  PROVE  AnswerOK'
  <1> USE DEF AnswerOK
  <1>1. CASE SetValue(d)
    <2>1. d[3] \in Known /\ flag' = flag /\ cmd_rd' = cmd_rd
      BY <1>1 DEF SetValue, Known
    <2>2. CASE len_error /\ executed' = executed
      BY <2>1, <2>2, LenErrorType
    <2>3. CASE /\ \E result \in Results : SendReply(<<SYNC0, SYNC1, result>>)
               /\ Execute(d[3], Value(d, d[2]))
      <3>1. PICK result \in Results : SendReply(<<SYNC0, SYNC1, result>>)
        BY <2>3
      <3>2. /\ <<SYNC0, SYNC1, result>> \in Seq(Byte)
            /\ Len(<<SYNC0, SYNC1, result>>) >= 3
        BY ReplyBytes, FrameAssumption
      <3>3. ReplyOK'
        BY <3>1, <3>2, ReplyType, Zenon
      <3>4. Value(d, d[2]) \in Nat
        BY ValueType
      <3>5. executed' \in Seq(Commands)
        BY <2>1, <2>3, <3>4, ExecuteType
      <3>6. QED  BY <2>1, <3>3, <3>5
    <2>4. QED  BY <1>1, <2>2, <2>3, Zenon DEF SetValue
  <1>2. CASE GetDevStatus(d)
    <2>1. PICK s \in Statuses :
            SendReply(<<SYNC0, SYNC1, (Len(s) + 5) % BYTE_MOD, R_SUCCESS>> \o s)
      BY <1>2 DEF GetDevStatus
    <2> DEFINE head == <<SYNC0, SYNC1, (Len(s) + 5) % BYTE_MOD, R_SUCCESS>>
    <2>2. s \in Seq(Byte) /\ Len(s) \in Nat
      BY FrameAssumption
    <2>3. (Len(s) + 5) % BYTE_MOD \in Byte
      BY <2>2, Sizes DEF Byte
    <2>4. head \in Seq(Byte) /\ Len(head) = 4
      BY <2>3, ReplyBytes
    <2>5. SendReply(head \o s)
      BY <2>1
    <2> HIDE DEF head
    <2>60. head \o s \in Seq(Byte) /\ Len(head \o s) = Len(head) + Len(s)
      BY <2>2, <2>4, ConcatProperties, Zenon
    <2>6. head \o s \in Seq(Byte) /\ Len(head \o s) >= 3
      BY <2>2, <2>4, <2>60
    <2>7. ReplyOK'
      BY <2>5, <2>6, ReplyType, Zenon
    <2>8. d[3] \in Known /\ 0 \in Nat
      BY <1>2 DEF GetDevStatus, Known, Others
    <2>9. executed' \in Seq(Commands)
      BY <1>2, <2>8, ExecuteType DEF GetDevStatus
    <2>10. QED  BY <1>2, <2>7, <2>9 DEF GetDevStatus
  <1>3. CASE GetCommandStatus(d)
    <2> DEFINE bytes == <<SYNC0, SYNC1, 1, R_SUCCESS, cmd_rd>>
    <2>1. cmd_rd \in Byte
      BY ReplyBytes
    <2>2. bytes \in Seq(Byte) /\ Len(bytes) >= 3
      BY <2>1, ReplyBytes
    <2>3. SendReply(bytes)
      BY <1>3 DEF GetCommandStatus
    <2> HIDE DEF bytes
    <2>4. ReplyOK'
      BY <2>2, <2>3, ReplyType
    <2>5. d[3] \in Known /\ 0 \in Nat
      BY <1>3 DEF GetCommandStatus, Known, Others
    <2>6. executed' \in Seq(Commands)
      BY <1>3, <2>5, ExecuteType DEF GetCommandStatus
    <2>7. QED  BY <1>3, <2>4, <2>6 DEF GetCommandStatus
  <1>4. CASE GetType(d)
    <2>1. PICK unit \in {0, 1} : SendReply(<<SYNC0, SYNC1, 1, R_SUCCESS, unit>>)
      BY <1>4 DEF GetType
    <2> DEFINE bytes == <<SYNC0, SYNC1, 1, R_SUCCESS, unit>>
    <2>2. unit \in Byte
      BY ReplyBytes
    <2>3. bytes \in Seq(Byte) /\ Len(bytes) >= 3
      BY <2>2, ReplyBytes
    <2>4. SendReply(bytes)
      BY <2>1
    <2> HIDE DEF bytes
    <2>5. ReplyOK'
      BY <2>3, <2>4, ReplyType
    <2>6. d[3] \in Known /\ 0 \in Nat
      BY <1>4 DEF GetType, Known, Others
    <2>7. executed' \in Seq(Commands)
      BY <1>4, <2>6, ExecuteType DEF GetType
    <2>8. QED  BY <1>4, <2>5, <2>7 DEF GetType
  <1>5. CASE Erase(d)
    <2>1. d[3] \in Known /\ 0 \in Nat
      BY <1>5 DEF Erase, Known, Others, FlashErase
    <2>2. ReplyOK'
      BY <1>5, AckType, NoReplyType, ReplyBytes DEF Erase
    <2>3. executed' \in Seq(Commands)
      BY <1>5, <2>1, ExecuteType DEF Erase
    <2>4. QED  BY <1>5, <2>2, <2>3 DEF Erase
  <1>6. CASE Prog(d)
    <2>1. d[3] \in Known /\ 0 \in Nat
      BY <1>6 DEF Prog, Known, Others, FlashProg
    <2>2. ReplyOK'
      BY <1>6, AckType, NoReplyType, ReplyBytes DEF Prog
    <2>3. executed' \in Seq(Commands)
      BY <1>6, <2>1, ExecuteType DEF Prog
    <2>4. QED  BY <1>6, <2>2, <2>3 DEF Prog
  <1>7. CASE NotSupported(d)
    <2>1. ReplyOK'
      BY <1>7, AckType, ReplyBytes DEF NotSupported
    <2>2. QED  BY <1>7, <2>1 DEF NotSupported
  <1>8. QED
    BY <1>1, <1>2, <1>3, <1>4, <1>5, <1>6, <1>7, Zenon DEF Command

(* The byte in its place, and where the next one goes. *)
LEMMA ReadType ==
  ASSUME TypeOK, NEW b \in Byte, Read(b)
  PROVE  /\ rd_data' \in Buffer /\ rd_data' = Stored(b)
         /\ input' \in Seq(Byte)
         /\ Kept(Stored(b), rd_index + 1) \in 0 .. MAX_LENGTH
         /\ Stored(b)[2] \in Nat
         /\ Complete(Stored(b), Kept(Stored(b), rd_index + 1)) =>
              Stored(b)[2] + 4 < MAX_LENGTH
  <1>1. Stored(b) \in Buffer
    BY DEF TypeOK, Stored, Buffer
  <1>2. input' \in Seq(Byte) /\ rd_data' = Stored(b)
    BY DEF TypeOK, Read
  <1>3. rd_index \in 0 .. MAX_LENGTH
    BY DEF TypeOK
  <1>4. Stored(b)[2] \in Nat
    BY <1>1, Sizes DEF Buffer, Byte
  <1>5. Kept(Stored(b), rd_index + 1) \in 0 .. MAX_LENGTH
    BY <1>3, Sizes DEF Kept
  <1>6. Complete(Stored(b), Kept(Stored(b), rd_index + 1)) => Stored(b)[2] + 4 < MAX_LENGTH
    BY <1>4, <1>5, Sizes DEF Complete
  <1>7. QED  BY <1>1, <1>2, <1>4, <1>5, <1>6

(* Every step keeps the types. *)
LEMMA TypeStep ==
  ASSUME TypeOK, [Next]_vars
  PROVE  TypeOK'
  <1>1. AnswerOK
    BY DEF TypeOK, AnswerOK, ReplyOK, Commands
  <1>2. SUFFICES ASSUME rd_index' \in 0 .. MAX_LENGTH, rd_data' \in Buffer,
                        input' \in Seq(Byte), AnswerOK'
                 PROVE  TypeOK'
    <2>1. ASSUME NEW b \in Byte, Collect(b)
          PROVE  /\ rd_index' \in 0 .. MAX_LENGTH /\ rd_data' \in Buffer
                 /\ input' \in Seq(Byte) /\ AnswerOK'
      <3>1. Read(b) /\ NoReply /\ UNCHANGED <<flag, cmd_rd, executed>>
        BY <2>1 DEF Collect
      <3>2. rd_index' = Kept(Stored(b), rd_index + 1)
        BY <2>1 DEF Collect
      <3>3. ReplyOK'
        BY <1>1, <3>1, NoReplyType DEF AnswerOK
      <3>4. AnswerOK'
        BY <1>1, <3>1, <3>3 DEF AnswerOK
      <3>5. QED  BY <3>1, <3>2, <3>4, ReadType
    <2>2. ASSUME NEW b \in Byte, Dispatch(b)
          PROVE  /\ rd_index' \in 0 .. MAX_LENGTH /\ rd_data' \in Buffer
                 /\ input' \in Seq(Byte) /\ AnswerOK'
      <3>1. /\ Read(b) /\ rd_index' = 0
            /\ Complete(Stored(b), Kept(Stored(b), rd_index + 1))
            /\ \/ ChecksumError(Stored(b))
               \/ Command(Stored(b))
        BY <2>2, Zenon DEF Dispatch
      <3>2. /\ rd_data' \in Buffer /\ input' \in Seq(Byte) /\ Stored(b) \in Buffer
            /\ Stored(b)[2] \in Nat /\ Stored(b)[2] + 4 < MAX_LENGTH
        BY <3>1, ReadType
      <3>3. CASE ChecksumError(Stored(b))
        <4>1. Ack(CHECKDATA_ERROR) /\ UNCHANGED <<flag, cmd_rd, executed>>
          BY <3>3 DEF ChecksumError
        <4>2. ReplyOK'
          BY <4>1, AckType, ReplyBytes
        <4>3. AnswerOK'
          BY <1>1, <4>1, <4>2 DEF AnswerOK
        <4>4. QED  BY <3>1, <3>2, <4>3, Sizes
      <3>4. CASE Command(Stored(b))
        <4>1. AnswerOK'
          BY <1>1, <3>2, <3>4, CommandType
        <4>2. QED  BY <3>1, <3>2, <4>1, Sizes
      <3>5. QED  BY <3>1, <3>3, <3>4
    <2>3. CASE TransferEnds
      <3>1. ReplyOK'
        BY <1>1, <2>3, NoReplyType DEF AnswerOK, TransferEnds
      <3>2. QED  BY <1>1, <2>3, <3>1 DEF AnswerOK, TransferEnds, TypeOK
    <2>4. CASE UNCHANGED vars
      BY <1>1, <2>4 DEF vars, TypeOK, AnswerOK, ReplyOK
    <2>5. QED  BY <1>2, <2>1, <2>2, <2>3, <2>4, Zenon DEF Next
  <1>3. QED  BY <1>2 DEF TypeOK, AnswerOK, ReplyOK, Commands

(* The types hold at the start. *)
LEMMA InitialType == Init => TypeOK
  <1> SUFFICES ASSUME Init PROVE TypeOK
    OBVIOUS
  <1>1. 0 \in Byte
    BY ReplyBytes
  <1>2. tx_data \in Seq(Byte) /\ Len(tx_data) = 4
    BY <1>1 DEF Init
  <1>3. rd_data \in Buffer /\ rd_index \in 0 .. MAX_LENGTH
    BY <1>1, Sizes DEF Init, Buffer
  <1>4. QED  BY <1>2, <1>3 DEF Init, TypeOK

(* Every variable keeps its type: replies and tx_data hold bytes, what is  *)
(* carried out is a known command with a number.                           *)
THEOREM FrameTypes == Spec => []TypeOK
  <1>1. TypeOK /\ [Next]_vars => TypeOK'
    BY TypeStep
  <1>2. QED  BY <1>1, InitialType, PTL DEF Spec

-----------------------------------------------------------------------------
(* Frames. *)

(* The byte in its place, and on the line. *)
LEMMA StoredByte ==
  ASSUME FrameInv, NEW b \in Byte, input' = Append(input, b)
  PROVE  /\ Stored(b) \in Buffer
         /\ Stored(b)[rd_index] = b
         /\ \A i \in 0 .. MAX_LENGTH : i # rd_index => Stored(b)[i] = rd_data[i]
         /\ input' \in Seq(Byte)
         /\ Len(input') = Len(input) + 1
         /\ \A i \in 0 .. rd_index :
              Stored(b)[i] = input'[Len(input') - rd_index + i]
  <1>1. /\ rd_index \in 0 .. MAX_LENGTH /\ rd_data \in Buffer
        /\ input \in Seq(Byte) /\ rd_index <= Len(input)
    BY DEF FrameInv, TypeOK, BufferIsLine
  <1>2. /\ Stored(b) \in Buffer
        /\ Stored(b)[rd_index] = b
        /\ \A i \in 0 .. MAX_LENGTH : i # rd_index => Stored(b)[i] = rd_data[i]
    BY <1>1 DEF Stored, Buffer
  <1>3. /\ input' \in Seq(Byte)
        /\ Len(input') = Len(input) + 1
        /\ input'[Len(input) + 1] = b
        /\ \A j \in 1 .. Len(input) : input'[j] = input[j]
    BY <1>1
  <1>4. ASSUME NEW i \in 0 .. rd_index
        PROVE  Stored(b)[i] = input'[Len(input') - rd_index + i]
    <2>1. CASE i = rd_index
      BY <1>1, <1>2, <1>3, <2>1
    <2>2. CASE i # rd_index
      <3>1. i \in 0 .. rd_index - 1 /\ i \in 0 .. MAX_LENGTH
        BY Sizes, <1>1, <2>2
      <3>2. Stored(b)[i] = input[Len(input) - rd_index + 1 + i]
        BY <1>2, <2>2, <3>1 DEF FrameInv, BufferIsLine
      <3>3. /\ Len(input) - rd_index + 1 + i \in 1 .. Len(input)
            /\ Len(input) - rd_index + 1 + i = Len(input') - rd_index + i
        BY <1>1, <1>3, <3>1
      <3>4. QED  BY <1>3, <3>2, <3>3
    <2>3. QED  BY <2>1, <2>2
  <1>5. QED  BY <1>2, <1>3, <1>4

(* A frame completes at the byte its length announces, and not before the  *)
(* buffer holds all of it.                                                 *)
LEMMA CompleteFrame ==
  ASSUME FrameInv, NEW b \in Byte, input' = Append(input, b),
         Complete(Stored(b), Kept(Stored(b), rd_index + 1))
  PROVE  /\ rd_index \in 4 .. MAX_LENGTH - 1
         /\ Stored(b)[2] \in Int
         /\ Stored(b)[0] = SYNC0 /\ Stored(b)[1] = SYNC1
         /\ rd_index = Stored(b)[2] + 4
  <1> DEFINE d == Stored(b)
  <1>1. /\ rd_index \in 0 .. MAX_LENGTH
        /\ OpenFrame
    BY DEF FrameInv, TypeOK
  <1>2. /\ d \in Buffer
        /\ \A i \in 0 .. MAX_LENGTH : i # rd_index => d[i] = rd_data[i]
    BY StoredByte
  <1>3. d[2] \in Int /\ d[2] >= 0
    BY Sizes, <1>2, ByteIsInt DEF Buffer
  <1> HIDE DEF d
  <1>4. Complete(d, Kept(d, rd_index + 1))
    BY DEF d
  <1>5. /\ Kept(d, rd_index + 1) = rd_index + 1
        /\ rd_index + 1 <= MAX_LENGTH /\ d[0] = SYNC0
        /\ rd_index + 1 > 1 => d[1] = SYNC1
    BY <1>1, <1>3, <1>4 DEF Complete, Kept
  <1>6. rd_index + 1 > d[2] + 4
    BY <1>4, <1>5 DEF Complete
  <1>7. rd_index >= 4
    BY <1>1, <1>3, <1>6
  <1>8. d[2] = rd_data[2] /\ rd_index <= rd_data[2] + 4
    BY Sizes, <1>1, <1>2, <1>7 DEF OpenFrame
  <1>9. rd_index = d[2] + 4
    BY <1>1, <1>3, <1>6, <1>8
  <1>10. QED  BY Sizes, <1>1, <1>3, <1>5, <1>7, <1>9 DEF d

(* A frame whose checksum is right is a whole frame at the end of the line. *)
LEMMA DispatchedFrame ==
  ASSUME FrameInv, NEW b \in Byte, input' = Append(input, b),
         Complete(Stored(b), Kept(Stored(b), rd_index + 1)),
         ~ChecksumFails(Stored(b))
  PROVE  \E p \in 1 .. Len(input') :
           WholeFrame(input', p) /\ input'[p + 3] = Stored(b)[3]
  <1> DEFINE d == Stored(b)
             p == Len(input') - rd_index
  <1>1. /\ rd_index \in 4 .. MAX_LENGTH - 1
        /\ d[0] = SYNC0 /\ d[1] = SYNC1
        /\ rd_index = d[2] + 4 /\ d[2] \in Int
    BY CompleteFrame
  <1>2. /\ input' \in Seq(Byte) /\ Len(input') = Len(input) + 1
        /\ \A i \in 0 .. rd_index : d[i] = input'[p + i]
    BY StoredByte
  <1>3. rd_index <= Len(input) /\ Len(input) \in Nat
    BY DEF FrameInv, TypeOK, BufferIsLine
  <1>4. d[rd_index] = check_sum(First(d, rd_index))
    BY <1>1 DEF ChecksumFails
  <1> HIDE DEF d
  <1>5. /\ p \in 1 .. Len(input') /\ p + 4 <= Len(input')
        /\ p + rd_index = Len(input') /\ Len(input') \in Nat
    BY <1>1, <1>2, <1>3
  <1> HIDE DEF p
  <1>6. First(d, rd_index) = SubSeq(input', p, Len(input') - 1)
    <2>0. p \in Int /\ rd_index \in Int /\ p + rd_index = Len(input')
      BY <1>1, <1>5
    <2>1. Len(input') - 1 = p + rd_index - 1
      BY <2>0
    <2>2. \A i \in 1 .. rd_index : d[i - 1] = input'[p + i - 1]
      <3>1. SUFFICES ASSUME NEW i \in 1 .. rd_index
                     PROVE  d[i - 1] = input'[p + i - 1]
        OBVIOUS
      <3>2. i - 1 \in 0 .. rd_index /\ p + (i - 1) = p + i - 1
        BY <1>1, <1>5
      <3>3. d[i - 1] = input'[p + (i - 1)]
        BY <1>2, <3>2
      <3>4. QED  BY <3>2, <3>3
    <2> DEFINE q == p + rd_index - 1
               frame == SubSeq(input', p, q)
    <2>3. p >= 1 /\ p <= q /\ q <= Len(input') /\ p \in Int /\ q \in Int
      BY Sizes, <1>1, <1>5
    <2>4. q - p + 1 = rd_index
      BY <2>0
    <2>8. Len(input') - 1 = q
      BY <2>1
    <2> HIDE DEF q
    <2>5. /\ frame \in Seq(Byte)
          /\ Len(frame) = rd_index
          /\ \A i \in 1 .. rd_index : frame[i] = input'[p + i - 1]
      <3>1. /\ frame \in Seq(Byte)
            /\ Len(frame) = q - p + 1
            /\ \A i \in 1 .. q - p + 1 : frame[i] = input'[p + i - 1]
        BY <1>2, <2>3, SubSeqOf
      <3>2. QED  BY <2>4, <3>1, Zenon
    <2> HIDE DEF frame
    <2>6. frame = [i \in 1 .. rd_index |-> frame[i]]
      BY <2>5
    <2>7. [i \in 1 .. rd_index |-> frame[i]] = First(d, rd_index)
      BY <2>2, <2>5 DEF First
    <2>9. QED  BY <2>8, <2>6, <2>7 DEF frame
  <1>7. /\ input'[p] = d[0] /\ input'[p + 1] = d[1]
        /\ input'[p + 2] = d[2] /\ input'[p + 3] = d[3]
        /\ input'[Len(input')] = d[rd_index]
    <2>1. /\ 0 \in 0 .. rd_index /\ 1 \in 0 .. rd_index
          /\ 2 \in 0 .. rd_index /\ 3 \in 0 .. rd_index
          /\ rd_index \in 0 .. rd_index
      BY <1>1
    <2>2. /\ d[0] = input'[p + 0] /\ d[1] = input'[p + 1]
          /\ d[2] = input'[p + 2] /\ d[3] = input'[p + 3]
          /\ d[rd_index] = input'[p + rd_index]
      BY <1>2, <2>1
    <2>3. p + 0 = p
      BY <1>5
    <2>4. QED  BY <1>5, <2>2, <2>3
  <1>8. d[2] = Len(input') - p - 4
    BY <1>1, <1>5
  <1>9. WholeFrame(input', p)
    BY <1>1, <1>4, <1>5, <1>6, <1>7, <1>8 DEF WholeFrame
  <1>10. QED  BY <1>5, <1>7, <1>9 DEF d

(* What every step that reads a byte leaves behind: nothing, or one byte   *)
(* more of an open frame.                                                  *)
LEMMA ReadKeeps ==
  ASSUME FrameInv, NEW b \in Byte, Read(b),
         \/ rd_index' = 0
         \/ /\ rd_index' = Kept(Stored(b), rd_index + 1)
            /\ ~Complete(Stored(b), rd_index')
  PROVE  /\ rd_index' \in 0 .. MAX_LENGTH /\ rd_data' \in Buffer
         /\ input' \in Seq(Byte)
         /\ BufferIsLine' /\ OpenFrame'
  <1>1. /\ rd_data' = Stored(b)
        /\ input' = Append(input, b)
    BY DEF Read
  <1>2. /\ rd_data' \in Buffer /\ input' \in Seq(Byte)
        /\ Len(input') = Len(input) + 1
        /\ \A i \in 0 .. rd_index :
              rd_data'[i] = input'[Len(input') - rd_index + i]
    BY <1>1, StoredByte
  <1>3. /\ rd_index \in 0 .. MAX_LENGTH
        /\ rd_index <= Len(input) /\ Len(input) \in Nat
    BY DEF FrameInv, TypeOK, BufferIsLine
  <1>4. CASE rd_index' = 0
    BY Sizes, <1>2, <1>3, <1>4 DEF BufferIsLine, OpenFrame
  <1>5. CASE rd_index' # 0
    <2>1. /\ rd_index' = Kept(rd_data', rd_index + 1)
          /\ ~Complete(rd_data', rd_index')
      BY <1>1, <1>5
    <2>2. /\ rd_index' = rd_index + 1
          /\ rd_index + 1 <= MAX_LENGTH /\ rd_data'[0] = SYNC0
          /\ rd_index + 1 > 1 => rd_data'[1] = SYNC1
      BY <1>5, <2>1 DEF Kept
    <2>3. rd_data'[2] \in Int
      BY Sizes, <1>2, ByteIsInt DEF Buffer
    <2>4. rd_index' <= rd_data'[2] + 4
      BY <1>3, <2>1, <2>2, <2>3 DEF Complete
    <2>5. OpenFrame'
      BY <2>2, <2>4 DEF OpenFrame
    <2>6. BufferIsLine'
      BY <1>2, <1>3, <2>2 DEF BufferIsLine
    <2>7. QED  BY <1>2, <1>3, <2>2, <2>5, <2>6
  <1>6. QED  BY <1>4, <1>5

(* A command joins executed as the command of the frame in the buffer.     *)
LEMMA CommandExecutes ==
  ASSUME FrameInv, NEW d, Command(d)
  PROVE  \/ executed' = executed
         \/ \E v : executed' = Append(executed, [cmd |-> d[3], value |-> v])
  BY Zenon DEF Command, SetValue, GetDevStatus, GetCommandStatus, GetType,
               Erase, Prog, NotSupported, Execute

(* The last member of a line that has grown by one. *)
LEMMA LastOfAppend ==
  ASSUME NEW S, NEW s \in Seq(S), NEW e
  PROVE  /\ Last(Append(s, e)) = e
         /\ Append(s, e) \in Seq(S \cup {e})
  <1>1. s \in Seq(S \cup {e})
    BY SeqMonotonic
  <1>2. QED  BY <1>1 DEF Last
-----------------------------------------------------------------------------
(* Every step keeps the invariant, and a command it carries out is a frame. *)
LEMMA FrameStep ==
  ASSUME FrameInv, [Next]_vars
  PROVE  /\ FrameInv'
         /\ executed' # executed =>
              \E p \in 1 .. Len(input') :
                 WholeFrame(input', p) /\ Last(executed').cmd = input'[p + 3]
  <1> DEFINE Framed ==
        executed' # executed =>
          \E p \in 1 .. Len(input') :
             WholeFrame(input', p) /\ Last(executed').cmd = input'[p + 3]
  <1>0. TypeOK'
    BY TypeStep DEF FrameInv
  <1>1. ASSUME NEW b \in Byte, Collect(b)
        PROVE  FrameInv' /\ Framed
    <2>1. /\ Read(b)
          /\ rd_index' = Kept(Stored(b), rd_index + 1)
          /\ ~Complete(Stored(b), rd_index')
          /\ flag' = flag /\ executed' = executed /\ flag = NORMAL_MODE
      BY <1>1 DEF Collect, Read
    <2>2. QED
      BY <1>0, <2>1, ReadKeeps
         DEF FrameInv, NoFrameAcrossTransfer, NORMAL_MODE, UPGRADE_MODE
  <1>2. ASSUME NEW b \in Byte, Dispatch(b)
        PROVE  FrameInv' /\ Framed
    <2>1. /\ Read(b) /\ rd_index' = 0
          /\ Complete(Stored(b), Kept(Stored(b), rd_index + 1))
          /\ \/ ChecksumError(Stored(b))
             \/ ~ChecksumFails(Stored(b)) /\ Command(Stored(b))
      BY <1>2, Zenon DEF Dispatch
    <2>2. /\ input' = Append(input, b) /\ flag = NORMAL_MODE
      BY <2>1 DEF Read
    <2>3. /\ rd_index' \in 0 .. MAX_LENGTH /\ rd_data' \in Buffer
          /\ input' \in Seq(Byte) /\ BufferIsLine' /\ OpenFrame'
      BY <2>1, ReadKeeps
    <2>4. \/ executed' = executed
          \/ \E v : executed' = Append(executed, [cmd |-> Stored(b)[3], value |-> v])
      BY <2>1, CommandExecutes, Zenon DEF ChecksumError
    <2>5. executed \in Seq(Commands)
      BY DEF FrameInv, TypeOK, Commands
    <2>7. FrameInv'
      BY <1>0, <2>1, <2>3 DEF FrameInv, NoFrameAcrossTransfer
    <2>8. CASE executed' = executed
      BY <2>7, <2>8
    <2>9. CASE executed' # executed
      <3>1. ~ChecksumFails(Stored(b))
        BY <2>1, <2>9, Zenon DEF ChecksumError
      <3>2. PICK p \in 1 .. Len(input') :
              WholeFrame(input', p) /\ input'[p + 3] = Stored(b)[3]
        BY <2>1, <2>2, <3>1, DispatchedFrame
      <3>3. Last(executed').cmd = Stored(b)[3]
        <4>1. PICK v : executed' = Append(executed, [cmd |-> Stored(b)[3], value |-> v])
          BY <2>4, <2>9
        <4>2. Last(executed') = [cmd |-> Stored(b)[3], value |-> v]
          BY <2>5, <4>1, LastOfAppend, Zenon
        <4>3. QED  BY <4>2
      <3>4. QED  BY <2>7, <3>2, <3>3
    <2>10. QED  BY <2>8, <2>9
  <1>3. CASE TransferEnds
    BY <1>0, <1>3 DEF TransferEnds, FrameInv, BufferIsLine, OpenFrame,
                NoFrameAcrossTransfer, NORMAL_MODE, UPGRADE_MODE
  <1>4. CASE UNCHANGED vars
    BY <1>0, <1>4 DEF vars, FrameInv, BufferIsLine, OpenFrame,
                NoFrameAcrossTransfer
  <1>5. QED
    BY <1>1, <1>2, <1>3, <1>4, Zenon DEF Next

(* It holds at the start. *)
LEMMA InitialFrame == Init => FrameInv
  BY InitialType DEF Init, FrameInv, BufferIsLine, OpenFrame, NoFrameAcrossTransfer, NORMAL_MODE, UPGRADE_MODE

(* Every command carried out is one frame of the line, read to its end in  *)
(* this step, whatever came before it, for every alphabet and length of    *)
(* the buffer.                                                             *)
THEOREM OnlyFramesExecute == Spec => CommandsAreFrames
  <1>1. FrameInv /\ [Next]_vars => FrameInv'
    BY FrameStep
  <1>2. FrameInv /\ [Next]_vars
          => [executed' # executed =>
                \E p \in 1 .. Len(input') :
                  /\ WholeFrame(input', p)
                  /\ Last(executed').cmd = input'[p + 3]]_vars
    BY FrameStep
  <1>3. QED  BY <1>1, <1>2, InitialFrame, PTL DEF Spec, CommandsAreFrames

(* No frame is open while a transfer runs. *)
THEOREM TransferSeparates == Spec => []NoFrameAcrossTransfer
  <1>1. FrameInv /\ [Next]_vars => FrameInv'
    BY FrameStep
  <1>2. FrameInv => NoFrameAcrossTransfer
    BY DEF FrameInv
  <1>3. QED  BY <1>1, <1>2, InitialFrame, PTL DEF Spec

-----------------------------------------------------------------------------
(* The value in the data of a frame. *)

(* The values of the beginnings of a sequence, of which BigEndian is the last. *)
Values(s) ==
  CHOOSE value :
    value = [n \in 0 .. Len(s) |-> IF n = 0 THEN 0 ELSE value[n - 1] * BYTE_MOD + s[n]]

(* Values goes on by one byte at a time. *)
LEMMA ValuesStep ==
  ASSUME NEW s \in Seq(Byte)
  PROVE  /\ BigEndian(s) = Values(s)[Len(s)]
         /\ Values(s) \in [0 .. Len(s) -> Nat]
         /\ Values(s)[0] = 0
         /\ \A n \in 1 .. Len(s) : Values(s)[n] = Values(s)[n - 1] * BYTE_MOD + s[n]
  <1> DEFINE step == [n \in 1 .. Len(s) |-> [v \in Nat |-> v * BYTE_MOD + s[n]]]
             Eq(value) == value = [n \in 0 .. Len(s) |-> IF n = 0 THEN 0
                                                         ELSE value[n - 1] * BYTE_MOD + s[n]]
  <1>1. Len(s) \in Nat /\ \A n \in 1 .. Len(s) : s[n] \in Nat
    BY Sizes DEF Byte
  <1>2. ASSUME NEW v \in Nat, NEW b \in Nat PROVE v * BYTE_MOD + b \in Nat
    BY Sizes
  <1>3. step \in Steps(Nat, Len(s))
    BY <1>1, <1>2 DEF Steps
  <1>4. 0 \in Nat
    OBVIOUS
  <1> HIDE DEF step
  <1>5. PICK f : Recursive(f, Nat, Len(s), 0, step)
    BY <1>1, <1>3, <1>4, RecursionExists, Zenon
  <1>6. /\ f \in [0 .. Len(s) -> Nat] /\ f[0] = 0
        /\ \A n \in 1 .. Len(s) : f[n] = step[n][f[n - 1]]
    BY <1>5 DEF Recursive
  <1>7. ASSUME NEW n \in 1 .. Len(s) PROVE f[n] = f[n - 1] * BYTE_MOD + s[n]
    <2>1. n - 1 \in 0 .. Len(s)
      BY <1>1
    <2>2. f[n - 1] \in Nat
      BY <1>6, <2>1
    <2>3. QED  BY <1>6, <2>2 DEF step
  <1>8. Eq(f)
    <2>1. ASSUME NEW n \in 0 .. Len(s)
          PROVE  f[n] = IF n = 0 THEN 0 ELSE f[n - 1] * BYTE_MOD + s[n]
      <3>1. n # 0 => n \in 1 .. Len(s)
        BY <1>1
      <3>2. QED  BY <1>6, <1>7, <3>1
    <2>2. QED  BY <1>6, <2>1
  <1>9. Eq(Values(s))
    <2>1. Values(s) = CHOOSE value : Eq(value)
      BY DEF Values
    <2> HIDE DEF Eq
    <2>2. QED  BY <1>8, <2>1, Zenon
  <1>10. Values(s)[0] = 0 /\ DOMAIN Values(s) = 0 .. Len(s)
    BY <1>1, <1>9
  <1>11. ASSUME NEW n \in 1 .. Len(s)
         PROVE  Values(s)[n] = Values(s)[n - 1] * BYTE_MOD + s[n]
    <2>1. n \in 0 .. Len(s) /\ n # 0
      BY <1>1
    <2> HIDE DEF Eq
    <2>2. Values(s)[n] = IF n = 0 THEN 0 ELSE Values(s)[n - 1] * BYTE_MOD + s[n]
      BY <1>9, <2>1, Zenon DEF Eq
    <2>3. QED  BY <2>1, <2>2
  <1>12. \A n \in 0 .. Len(s) : Values(s)[n] = f[n]
    <2> DEFINE g == Values(s)
    <2>1. g[0] = f[0]
      BY <1>6, <1>10
    <2>2. \A n \in 1 .. Len(s) : g[n - 1] = f[n - 1] => g[n] = f[n]
      BY <1>7, <1>11
    <2> HIDE DEF g
    <2>3. StepAlike(g, f, Len(s))
      BY <2>1, <2>2 DEF StepAlike
    <2>4. \A n \in 0 .. Len(s) : g[n] = f[n]
      BY <1>1, <2>3, RecursionUnique, Zenon
    <2>5. QED  BY <2>4 DEF g
  <1>13. Values(s) \in [0 .. Len(s) -> Nat]
    BY <1>6, <1>9, <1>12
  <1>14. BigEndian(s) = Values(s)[Len(s)]
    BY DEF BigEndian, Values
  <1>15. QED  BY <1>10, <1>11, <1>13, <1>14

(* The value of bytes is a number. *)
LEMMA BigEndianType ==
  ASSUME NEW s \in Seq(Byte)
  PROVE  BigEndian(s) \in Nat
  <1>1. Len(s) \in 0 .. Len(s)
    OBVIOUS
  <1>2. QED  BY <1>1, ValuesStep

(* The parser takes the same value from the data as they lie in the buffer. *)
LEMMA ValueIsBigEndian ==
  ASSUME NEW d \in Buffer, NEW s \in Seq(Byte), NEW n \in 0 .. 4, Len(s) = n,
         \A i \in 1 .. n : s[i] = d[3 + i]
  PROVE  Value(d, n) = BigEndian(s)
  <1> DEFINE v == Values(s)
  <1>1. /\ BigEndian(s) = v[n] /\ v[0] = 0
        /\ \A i \in 1 .. n : v[i] = v[i - 1] * BYTE_MOD + s[i]
    BY ValuesStep
  <1>2. \A i \in 1 .. n : s[i] \in Nat
    BY Sizes DEF Byte
  <1> HIDE DEF v
  <1>3. 1 <= n => v[1] = d[4]
    <2>1. SUFFICES ASSUME 1 <= n PROVE v[1] = d[4]
      OBVIOUS
    <2>2. 1 \in 1 .. n /\ 1 - 1 = 0 /\ 3 + 1 = 4
      BY <2>1
    <2>3. v[1] = 0 * BYTE_MOD + s[1] /\ s[1] = d[4] /\ s[1] \in Nat
      BY <1>1, <1>2, <2>2
    <2>4. QED  BY <2>3, Sizes
  <1>4. 2 <= n => v[2] = d[4] * BYTE_MOD + d[5]
    <2>1. SUFFICES ASSUME 2 <= n PROVE v[2] = d[4] * BYTE_MOD + d[5]
      OBVIOUS
    <2>2. 2 \in 1 .. n /\ 2 - 1 = 1 /\ 3 + 2 = 5
      BY <2>1
    <2>3. v[2] = v[1] * BYTE_MOD + s[2] /\ s[2] = d[5]
      BY <1>1, <2>2
    <2>4. QED  BY <1>3, <2>1, <2>3
  <1>5. 3 <= n => v[3] = (d[4] * BYTE_MOD + d[5]) * BYTE_MOD + d[6]
    <2>1. SUFFICES ASSUME 3 <= n
                   PROVE  v[3] = (d[4] * BYTE_MOD + d[5]) * BYTE_MOD + d[6]
      OBVIOUS
    <2>2. 3 \in 1 .. n /\ 3 - 1 = 2 /\ 3 + 3 = 6
      BY <2>1
    <2>3. v[3] = v[2] * BYTE_MOD + s[3] /\ s[3] = d[6]
      BY <1>1, <2>2
    <2>4. QED  BY <1>4, <2>1, <2>3
  <1>6. 4 <= n => v[4] = ((d[4] * BYTE_MOD + d[5]) * BYTE_MOD + d[6]) * BYTE_MOD + d[7]
    <2>1. SUFFICES ASSUME 4 <= n
                   PROVE  v[4] = ((d[4] * BYTE_MOD + d[5]) * BYTE_MOD + d[6]) * BYTE_MOD + d[7]
      OBVIOUS
    <2>2. 4 \in 1 .. n /\ 4 - 1 = 3 /\ 3 + 4 = 7
      BY <2>1
    <2>3. v[4] = v[3] * BYTE_MOD + s[4] /\ s[4] = d[7]
      BY <1>1, <2>2
    <2>4. QED  BY <1>5, <2>1, <2>3
  <1>7. n \in {0, 1, 2, 3, 4}
    OBVIOUS
  <1>8. CASE n = 0
    BY <1>1, <1>8 DEF Value
  <1>9. CASE n = 1
    BY <1>1, <1>3, <1>9 DEF Value
  <1>10. CASE n = 2
    BY <1>1, <1>4, <1>10 DEF Value
  <1>11. CASE n = 3
    BY <1>1, <1>5, <1>11 DEF Value
  <1>12. CASE n = 4
    BY <1>1, <1>6, <1>12 DEF Value
  <1>13. QED  BY <1>7, <1>8, <1>9, <1>10, <1>11, <1>12

-----------------------------------------------------------------------------
(* The framing read off the line. *)

(* What the line holds from every position on, of which CommandsIn is the first. *)
From(s) ==
  CHOOSE from :
    from = [p \in 1 .. Len(s) + MAX_LENGTH + 1 |->
              IF p > Len(s) THEN <<>> ELSE CommandsAt(s, p) \o from[p + Taken(s, p)]]

Places(s) == 1 .. Len(s) + MAX_LENGTH + 1

(* A byte at least is taken, and the frame that the buffer can hold at most. *)
LEMMA TakenRange ==
  ASSUME NEW s \in Seq(Byte), NEW p \in 1 .. Len(s)
  PROVE  Taken(s, p) \in 1 .. MAX_LENGTH + 1
  <1>1. CASE s[p] # SYNC0
    BY <1>1, Sizes DEF Taken
  <1>2. CASE s[p] = SYNC0 /\ p + 1 > Len(s)
    BY <1>2, Sizes DEF Taken
  <1>3. CASE s[p] = SYNC0 /\ ~(p + 1 > Len(s))
    <2>1. Taken(s, p) = IF s[p + 1] # SYNC1 \/ p + 2 > Len(s) THEN 2
                        ELSE IF s[p + 2] + 5 > MAX_LENGTH THEN MAX_LENGTH + 1
                        ELSE s[p + 2] + 5
      BY <1>3 DEF Taken
    <2>2. CASE s[p + 1] # SYNC1 \/ p + 2 > Len(s)
      BY <2>1, <2>2, Sizes
    <2>3. CASE ~(s[p + 1] # SYNC1 \/ p + 2 > Len(s))
      <3>1. p + 2 \in 1 .. Len(s)
        BY <2>3
      <3>2. s[p + 2] \in Byte
        BY <3>1
      <3>3. s[p + 2] \in Nat
        BY <3>2, Sizes DEF Byte
      <3>4. QED  BY <2>1, <2>3, <3>3, Sizes
    <2>4. QED  BY <2>2, <2>3
  <1>4. QED  BY <1>1, <1>2, <1>3

(* What is found at a position are commands. *)
LEMMA CommandsAtType ==
  ASSUME NEW s \in Seq(Byte), NEW p \in 1 .. Len(s)
  PROVE  CommandsAt(s, p) \in Seq(Commands)
  <1> DEFINE q == p + Taken(s, p) - 1
  <1>1. q \in Int /\ p \in Int /\ Len(s) \in Nat
    BY TakenRange, Sizes
  <1>2. CASE IsCommand(s, p, q)
    <2> DEFINE data == SubSeq(s, p + 4, q - 1)
               e == CommandOf(s, p, q)
    <2>1. q <= Len(s) /\ s[p + 3] \in Known
      BY <1>2 DEF IsCommand
    <2> HIDE DEF q
    <2>2. \A i \in p + 4 .. q - 1 : i \in 1 .. Len(s)
      BY <1>1, <2>1
    <2>3. \A i \in p + 4 .. q - 1 : s[i] \in Byte
      BY <2>2
    <2>4. data \in Seq(Byte)
      BY <1>1, <2>3, SubSeqProperties
    <2>5. BigEndian(data) \in Nat
      BY <2>4, BigEndianType
    <2>6. e \in Commands
      BY <2>1, <2>5 DEF Commands, CommandOf
    <2> HIDE DEF e
    <2>7. <<e>> \in Seq(Commands)
      BY <2>6
    <2>8. CommandsAt(s, p) = <<e>>
      BY <1>2 DEF CommandsAt, q, e
    <2>9. QED  BY <2>7, <2>8
  <1>3. CASE ~IsCommand(s, p, q)
    <2>1. CommandsAt(s, p) = <<>>
      BY <1>3 DEF CommandsAt
    <2>2. QED  BY <2>1
  <1>4. QED  BY <1>2, <1>3

(* The commands from a position on are those found there and those from    *)
(* where the next frame may start.                                         *)
LEMMA FromStep ==
  ASSUME NEW s \in Seq(Byte)
  PROVE  /\ CommandsIn(s) = From(s)[1]
         /\ \A p \in Places(s) : From(s)[p] \in Seq(Commands)
         /\ \A p \in 1 .. Len(s) :
              From(s)[p] = CommandsAt(s, p) \o From(s)[p + Taken(s, p)]
         /\ \A p \in Places(s) : p > Len(s) => From(s)[p] = <<>>
  <1> DEFINE n == Len(s) + MAX_LENGTH + 1
             m == Len(s)
             S == Seq(Commands)
             next == [p \in 1 .. m |-> p + Taken(s, p)]
             step == [p \in 1 .. m |-> [v \in S |-> CommandsAt(s, p) \o v]]
             Eq(from) == from = [p \in 1 .. n |-> IF p > m THEN <<>>
                                                  ELSE CommandsAt(s, p) \o from[p + Taken(s, p)]]
  <1>1. m \in Nat /\ n \in Nat /\ m < n
    BY Sizes
  <1>2. \A p \in 1 .. m : p + Taken(s, p) \in p + 1 .. n
    BY <1>1, TakenRange, Sizes
  <1>3. <<>> \in S
    OBVIOUS
  <1>4. \A p \in 1 .. m : CommandsAt(s, p) \in S
    BY CommandsAtType
  <1>5. \A v, w \in S : v \o w \in S
    BY ConcatProperties
  <1> HIDE DEF S, n
  <1>6. Ahead(next, m, n)
    BY <1>1, <1>2 DEF Ahead
  <1>7. step \in Steps(S, m)
    BY <1>4, <1>5 DEF Steps
  <1> HIDE DEF step, next, m
  <1>8. PICK f : Forward(f, S, n, m, <<>>, next, step)
    BY <1>1, <1>3, <1>6, <1>7, RecursionForward, Zenon
  <1>9. /\ f \in [1 .. n -> S]
        /\ \A p \in 1 .. n : f[p] = IF p > m THEN <<>> ELSE step[p][f[next[p]]]
    BY <1>8 DEF Forward
  <1>10. ASSUME NEW p \in 1 .. m
         PROVE  p \in 1 .. n /\ ~(p > m) /\ next[p] = p + Taken(s, p) /\ next[p] \in 1 .. n
    BY <1>1, <1>2 DEF next
  <1>11. ASSUME NEW p \in 1 .. m
         PROVE  f[p] = CommandsAt(s, p) \o f[p + Taken(s, p)]
    <2>1. f[p] = step[p][f[next[p]]] /\ f[next[p]] \in S
      BY <1>9, <1>10
    <2>2. step[p][f[next[p]]] = CommandsAt(s, p) \o f[next[p]]
      BY <2>1 DEF step
    <2>3. QED  BY <1>10, <2>1, <2>2
  <1>12. Eq(f)
    <2>1. ASSUME NEW p \in 1 .. n
          PROVE  f[p] = IF p > m THEN <<>> ELSE CommandsAt(s, p) \o f[p + Taken(s, p)]
      <3>1. ~(p > m) => p \in 1 .. m
        BY <1>1
      <3>2. CASE p > m
        BY <1>9, <3>2
      <3>3. CASE ~(p > m)
        BY <1>11, <3>1, <3>3
      <3>4. QED  BY <3>2, <3>3
    <2>2. f = [p \in 1 .. n |-> f[p]]
      BY <1>9
    <2>3. QED  BY <2>1, <2>2
  <1>13. Eq(From(s))
    <2>1. From(s) = CHOOSE from : Eq(from)
      BY DEF From, n, m
    <2> HIDE DEF Eq
    <2>2. QED  BY <1>12, <2>1, Zenon
  <1> DEFINE g == From(s)
  <1>14. \A p \in 1 .. n :
           g[p] = IF p > m THEN <<>> ELSE CommandsAt(s, p) \o g[p + Taken(s, p)]
    <2> HIDE DEF g
    <2>1. Eq(g)
      BY <1>13 DEF g
    <2>2. QED  BY <2>1
  <1> HIDE DEF Eq, g
  <1>15. \A p \in 1 .. m : g[p] = CommandsAt(s, p) \o g[next[p]]
    BY <1>10, <1>14
  <1>16. ASSUME NEW p \in 1 .. n PROVE g[p] \in S
    <2> DEFINE T == {k \in Nat : k <= m => \A i \in 1 .. n : i > m - k => g[i] \in S}
    <2>1. 0 \in T
      BY <1>1, <1>3, <1>14
    <2>2. ASSUME NEW k \in Nat, k \in T PROVE k + 1 \in T
      <3>1. SUFFICES ASSUME k + 1 <= m, NEW i \in 1 .. n, i > m - (k + 1)
                     PROVE  g[i] \in S
        OBVIOUS
      <3>2. \A j \in 1 .. n : j > m - k => g[j] \in S
        BY <1>1, <2>2, <3>1
      <3>3. CASE i > m - k
        BY <3>2, <3>3
      <3>4. CASE ~(i > m - k)
        <4>1. i = m - k /\ i \in 1 .. m
          BY <1>1, <3>1, <3>4
        <4>2. next[i] \in 1 .. n /\ next[i] > m - k
          BY <1>1, <1>2, <1>10, <4>1
        <4>3. g[next[i]] \in S
          BY <3>2, <4>2
        <4>4. g[i] = CommandsAt(s, i) \o g[next[i]]
          BY <1>15, <4>1
        <4>5. CommandsAt(s, i) \in S
          BY <1>4, <4>1
        <4>6. QED  BY <1>5, <4>3, <4>4, <4>5
      <3>5. QED  BY <3>3, <3>4
    <2> HIDE DEF T
    <2>3. Nat \subseteq T
      BY <2>1, <2>2, Induction
    <2>4. m \in T
      BY <1>1, <2>3
    <2>5. QED  BY <1>1, <2>4 DEF T
  <1>17. CommandsIn(s) = g[1]
    BY DEF CommandsIn, From, g
  <1>18. Places(s) = 1 .. n
    BY DEF Places, n
  <1>19. \A p \in 1 .. m : g[p] = CommandsAt(s, p) \o g[p + Taken(s, p)]
    BY <1>10, <1>15
  <1>20. \A p \in 1 .. n : p > m => g[p] = <<>>
    BY <1>14
  <1>21. QED  BY <1>16, <1>17, <1>18, <1>19, <1>20 DEF g, m, S

-----------------------------------------------------------------------------
(* What is carried out is what the line says. *)

(* The frame that may be open began here. *)
Opened == Len(input) - rd_index + 1

(* However the line goes on, its commands are those carried out and those  *)
(* from the open frame on.                                                 *)
LineInv ==
  \A t \in Seq(Byte) : From(input \o t)[1] = executed \o From(input \o t)[Opened]

(* Bytes joined to bytes. *)
LEMMA ConcatBytes ==
  ASSUME NEW u \in Seq(Byte), NEW v \in Seq(Byte)
  PROVE  /\ u \o v \in Seq(Byte)
         /\ Len(u \o v) = Len(u) + Len(v)
         /\ \A i \in 1 .. Len(u) + Len(v) :
              (u \o v)[i] = IF i <= Len(u) THEN u[i] ELSE v[i - Len(u)]
  BY ConcatProperties, Zenon

(* A byte at the end of the one is a byte at the start of the other. *)
LEMMA ConcatOneMore ==
  ASSUME NEW u \in Seq(Byte), NEW v \in Seq(Byte), NEW b \in Byte
  PROVE  Append(u, b) \o v = u \o (<<b>> \o v) /\ <<b>> \o v \in Seq(Byte)
  <1> DEFINE w == <<b>>
  <1>1. w \in Seq(Byte)
    OBVIOUS
  <1>2. Append(u, b) = u \o w
    OBVIOUS
  <1> HIDE DEF w
  <1>3. u \in Seq(Byte) /\ v \in Seq(Byte) /\ w \in Seq(Byte)
    BY <1>1
  <1>4. (u \o w) \o v = u \o (w \o v)
    BY <1>3, ConcatAssociative
  <1>5. w \o v \in Seq(Byte)
    BY <1>1, ConcatBytes
  <1>6. QED  BY <1>2, <1>4, <1>5 DEF w

(* A byte that is read is the next one on the line. *)
LEMMA NextOnLine ==
  ASSUME FrameInv, NEW b \in Byte, input' = Append(input, b), NEW t \in Seq(Byte),
         NEW s, s = input' \o t
  PROVE  /\ s \in Seq(Byte)
         /\ <<b>> \o t \in Seq(Byte) /\ s = input \o (<<b>> \o t)
         /\ Opened \in 1 .. Len(s) /\ Opened + rd_index \in 1 .. Len(s)
         /\ Opened + rd_index = Len(input')
         /\ \A i \in 0 .. rd_index : s[Opened + i] = Stored(b)[i]
  <1>1. /\ input \in Seq(Byte) /\ rd_index \in 0 .. MAX_LENGTH
        /\ rd_index <= Len(input) /\ Len(input) \in Nat
    BY DEF FrameInv, TypeOK, BufferIsLine
  <1>2. /\ input' \in Seq(Byte) /\ Len(input') = Len(input) + 1
        /\ \A i \in 0 .. rd_index : Stored(b)[i] = input'[Len(input') - rd_index + i]
    BY StoredByte
  <1>3. /\ s \in Seq(Byte) /\ Len(s) = Len(input') + Len(t)
        /\ \A i \in 1 .. Len(input') + Len(t) :
             s[i] = IF i <= Len(input') THEN input'[i] ELSE t[i - Len(input')]
    BY <1>2, ConcatBytes
  <1>5. <<b>> \o t \in Seq(Byte) /\ s = input \o (<<b>> \o t)
    BY <1>1, ConcatOneMore
  <1>8. Len(t) \in Nat
    OBVIOUS
  <1>9. /\ Opened \in 1 .. Len(s) /\ Opened + rd_index \in 1 .. Len(s)
        /\ Opened + rd_index = Len(input') /\ Opened = Len(input') - rd_index
    BY <1>1, <1>2, <1>3, <1>8, Sizes DEF Opened
  <1>10. ASSUME NEW i \in 0 .. rd_index PROVE s[Opened + i] = Stored(b)[i]
    <2>1. Opened + i \in 1 .. Len(input') /\ Opened + i = Len(input') - rd_index + i
      BY <1>1, <1>2, <1>9 DEF Opened
    <2>2. s[Opened + i] = input'[Opened + i]
      BY <1>2, <1>3, <1>8, <2>1
    <2>3. QED  BY <1>2, <2>1, <2>2
  <1>11. QED  BY <1>3, <1>5, <1>9, <1>10

(* What the parser drops is taken from the line together, and is no command. *)
LEMMA DroppedIsTaken ==
  ASSUME FrameInv, NEW b \in Byte, input' = Append(input, b), NEW t \in Seq(Byte),
         NEW s, s = input' \o t,
         Kept(Stored(b), rd_index + 1) = 0
  PROVE  /\ Taken(s, Opened) = rd_index + 1
         /\ CommandsAt(s, Opened) = <<>>
  <1> DEFINE d == Stored(b)
             p == Opened
             r == rd_index
  <1>1. /\ s \in Seq(Byte)
        /\ p \in 1 .. Len(s) /\ p + r \in 1 .. Len(s)
        /\ \A i \in 0 .. r : s[p + i] = d[i]
    BY NextOnLine
  <1>2. /\ d \in Buffer /\ \A i \in 0 .. MAX_LENGTH : i # r => d[i] = rd_data[i]
    BY StoredByte
  <1>3. /\ r \in 0 .. MAX_LENGTH
        /\ r > 0 => rd_data[0] = SYNC0
        /\ r > 1 => rd_data[1] = SYNC1
        /\ r > 2 => r <= rd_data[2] + 4
    BY DEF FrameInv, TypeOK, OpenFrame
  <1>4. ~(r + 1 <= MAX_LENGTH /\ d[0] = SYNC0 /\ (r + 1 > 1 => d[1] = SYNC1))
    BY <1>3 DEF Kept
  <1> HIDE DEF d, p, r
  <1>5. 0 \in 0 .. MAX_LENGTH /\ 1 \in 0 .. MAX_LENGTH /\ 2 \in 0 .. MAX_LENGTH
    BY Sizes
  <1>6. d[2] \in Nat
    BY <1>2, <1>5, Sizes DEF Buffer, Byte
  <1>7. s[p] = d[0]
    <2>1. 0 \in 0 .. r /\ p + 0 = p
      BY <1>1, <1>3
    <2>2. QED  BY <1>1, <2>1
  <1>8. Taken(s, p) = r + 1 /\ ~IsCommand(s, p, p + r)
    <2>1. CASE r = 0
      <3>1. s[p] # SYNC0
        BY <1>4, <1>7, <2>1, Sizes
      <3>2. ~IsCommand(s, p, p + r)
        BY <1>1, <2>1 DEF IsCommand
      <3>3. Taken(s, p) = 1
        BY <3>1 DEF Taken
      <3>4. QED  BY <2>1, <3>2, <3>3
    <2>2. CASE r = 1
      <3>1. d[0] = SYNC0
        BY <1>2, <1>3, <1>5, <2>2
      <3>2. s[p + 1] = d[1] /\ p + 1 <= Len(s)
        BY <1>1, <2>2
      <3>3. d[1] # SYNC1
        BY <1>4, <2>2, <3>1, Sizes
      <3>4. Taken(s, p) = 2
        BY <1>1, <1>7, <3>1, <3>2, <3>3 DEF Taken
      <3>5. ~IsCommand(s, p, p + r)
        BY <1>1, <2>2 DEF IsCommand
      <3>6. QED  BY <2>2, <3>4, <3>5
    <2>3. CASE r >= 2
      <3>1. d[0] = SYNC0 /\ d[1] = SYNC1
        BY <1>2, <1>3, <1>5, <2>3
      <3>2. r = MAX_LENGTH
        BY <1>3, <1>4, <3>1, Sizes
      <3>3. d[2] = rd_data[2] /\ r <= rd_data[2] + 4
        BY <1>2, <1>3, <1>5, <3>2, Sizes
      <3>4. /\ 1 \in 0 .. r /\ 2 \in 0 .. r
            /\ p + 1 <= Len(s) /\ p + 2 <= Len(s)
        BY <1>1, <1>3, <2>3
      <3>5. s[p + 1] = SYNC1 /\ s[p + 2] = d[2]
        BY <1>1, <3>1, <3>4
      <3>6. d[2] + 5 > MAX_LENGTH
        BY <1>6, <3>2, <3>3, Sizes
      <3>7. Taken(s, p) = MAX_LENGTH + 1
        BY <1>1, <1>7, <3>1, <3>4, <3>5, <3>6 DEF Taken
      <3>8. ~IsCommand(s, p, p + r)
        BY <1>1, <3>2, Sizes DEF IsCommand
      <3>9. QED  BY <3>2, <3>7, <3>8
    <2>4. r \in Nat
      BY <1>3, Sizes
    <2>5. r = 0 \/ r = 1 \/ r >= 2
      BY <2>4
    <2>6. QED  BY <2>1, <2>2, <2>3, <2>5
  <1>9. p + Taken(s, p) - 1 = p + r
    BY <1>1, <1>3, <1>8
  <1>10. CommandsAt(s, p) = <<>>
    BY <1>8, <1>9 DEF CommandsAt
  <1>11. QED  BY <1>8, <1>10 DEF p, r

(* A frame that is complete is taken from the line as a whole. *)
LEMMA CompleteIsTaken ==
  ASSUME FrameInv, NEW b \in Byte, input' = Append(input, b), NEW t \in Seq(Byte),
         NEW s, s = input' \o t,
         Complete(Stored(b), Kept(Stored(b), rd_index + 1))
  PROVE  Taken(s, Opened) = rd_index + 1
  <1> DEFINE d == Stored(b)
             p == Opened
             r == rd_index
  <1>1. /\ s \in Seq(Byte)
        /\ p \in 1 .. Len(s) /\ p + r \in 1 .. Len(s)
        /\ \A i \in 0 .. r : s[p + i] = d[i]
    BY NextOnLine
  <1>2. /\ r \in 4 .. MAX_LENGTH - 1 /\ d[2] \in Int
        /\ d[0] = SYNC0 /\ d[1] = SYNC1 /\ r = d[2] + 4
    BY CompleteFrame
  <1> HIDE DEF d, p, r
  <1>30. p \in Int /\ r \in Int /\ r >= 4 /\ p + r <= Len(s) /\ Len(s) \in Nat
    BY <1>1, <1>2, Sizes
  <1>3. /\ 0 \in 0 .. r /\ 1 \in 0 .. r /\ 2 \in 0 .. r
        /\ p + 0 = p /\ p + 1 <= Len(s) /\ p + 2 <= Len(s)
    BY <1>30
  <1>4. s[p] = SYNC0 /\ s[p + 1] = SYNC1 /\ s[p + 2] = d[2]
    BY <1>1, <1>2, <1>3
  <1>5. d[2] + 5 = r + 1 /\ ~(d[2] + 5 > MAX_LENGTH)
    BY <1>2, Sizes
  <1>6. Taken(s, p) = d[2] + 5
    BY <1>1, <1>3, <1>4, <1>5 DEF Taken
  <1>7. QED  BY <1>5, <1>6 DEF p, r

(* A frame the switch carries out: a known command, with data it can take. *)
Carried(d) == d[3] \in Known /\ (d[3] \in SetCommands => d[2] <= VALUE_BYTES)

ValueOf(d) == IF d[3] \in SetCommands THEN Value(d, d[2]) ELSE 0

(* The switch carries out just these, with the value of their data. *)
LEMMA CommandEffect ==
  ASSUME NEW d, d[2] \in Nat, Command(d)
  PROVE  executed' = IF Carried(d) THEN Append(executed, [cmd |-> d[3], value |-> ValueOf(d)])
                     ELSE executed
  <1> USE DEF Execute
  <1>1. CASE SetValue(d)
    <2>1. d[3] \in SetCommands /\ d[3] \in Known
      BY <1>1 DEF SetValue, Known
    <2>2. CASE d[2] > VALUE_BYTES /\ executed' = executed
      <3>1. ~(d[2] <= VALUE_BYTES)
        BY <2>2, Sizes
      <3>2. ~Carried(d)
        BY <2>1, <3>1 DEF Carried
      <3>3. QED  BY <2>2, <3>2
    <2>3. CASE d[2] <= VALUE_BYTES /\ Execute(d[3], Value(d, d[2]))
      <3>1. Carried(d) /\ ValueOf(d) = Value(d, d[2])
        BY <2>1, <2>3 DEF Carried, ValueOf
      <3>2. QED  BY <2>3, <3>1
    <2>4. QED  BY <1>1, <2>2, <2>3, Zenon DEF SetValue
  <1>2. ASSUME d[3] \in Others, Execute(d[3], 0)
        PROVE  executed' = IF Carried(d) THEN Append(executed, [cmd |-> d[3], value |-> ValueOf(d)])
                           ELSE executed
    <2>1. d[3] \notin SetCommands /\ d[3] \in Known
      BY <1>2, FrameAssumption DEF Known
    <2>2. Carried(d) /\ ValueOf(d) = 0
      BY <2>1 DEF Carried, ValueOf
    <2>3. QED  BY <1>2, <2>2
  <1>3. CASE GetDevStatus(d)
    BY <1>2, <1>3 DEF GetDevStatus, Others
  <1>4. CASE GetCommandStatus(d)
    BY <1>2, <1>4 DEF GetCommandStatus, Others
  <1>5. CASE GetType(d)
    BY <1>2, <1>5 DEF GetType, Others
  <1>6. CASE Erase(d)
    BY <1>2, <1>6 DEF Erase, Others, FlashErase
  <1>7. CASE Prog(d)
    BY <1>2, <1>7 DEF Prog, Others, FlashProg
  <1>8. CASE NotSupported(d)
    BY <1>8 DEF NotSupported, Carried
  <1>9. QED
    BY <1>1, <1>3, <1>4, <1>5, <1>6, <1>7, <1>8, Zenon DEF Command

(* A part of the line that lies in the buffer. *)
LEMMA PartInBuffer ==
  ASSUME NEW s \in Seq(Byte), NEW d \in Buffer, NEW p \in 1 .. Len(s), NEW r \in 0 .. MAX_LENGTH,
         p + r <= Len(s), \A i \in 0 .. r : s[p + i] = d[i],
         NEW m \in 0 .. r, NEW k \in m - 1 .. r
  PROVE  /\ SubSeq(s, p + m, p + k) \in Seq(Byte)
         /\ Len(SubSeq(s, p + m, p + k)) = k - m + 1
         /\ \A i \in 1 .. k - m + 1 : SubSeq(s, p + m, p + k)[i] = d[m + i - 1]
  <1> DEFINE a == p + m
             e == p + k
  <1>1. /\ a \in Int /\ e \in Int /\ e - a + 1 = k - m + 1 /\ k - m + 1 \in Nat
        /\ r \in Int /\ m \in Int /\ k \in Int /\ p \in Int /\ Len(s) \in Nat
    BY Sizes
  <1>2. ASSUME NEW i \in a .. e PROVE s[i] \in Byte
    <2>1. i \in 1 .. Len(s)
      BY <1>1
    <2>2. QED  BY <2>1
  <1>3. ASSUME NEW i \in 1 .. k - m + 1 PROVE s[a + i - 1] = d[m + i - 1]
    <2>1. m + i - 1 \in 0 .. r /\ a + i - 1 = p + (m + i - 1)
      BY <1>1
    <2>2. QED  BY <2>1
  <1> HIDE DEF a, e
  <1>4. /\ SubSeq(s, a, e) \in Seq(Byte)
        /\ Len(SubSeq(s, a, e)) = IF a <= e THEN e - a + 1 ELSE 0
        /\ \A i \in 1 .. e - a + 1 : SubSeq(s, a, e)[i] = s[a + i - 1]
    BY <1>1, <1>2, SubSeqProperties
  <1>5. Len(SubSeq(s, a, e)) = k - m + 1
    BY <1>1, <1>4
  <1>6. \A i \in 1 .. k - m + 1 : SubSeq(s, a, e)[i] = d[m + i - 1]
    BY <1>1, <1>3, <1>4
  <1>7. QED  BY <1>4, <1>5, <1>6 DEF a, e

(* The beginning of the buffer as a sequence. *)
LEMMA FirstType ==
  ASSUME NEW d \in Buffer, NEW n \in 0 .. MAX_LENGTH
  PROVE  /\ First(d, n) \in Seq(Byte) /\ Len(First(d, n)) = n
         /\ \A i \in 1 .. n : First(d, n)[i] = d[i - 1]
  <1>1. n \in Nat
    BY Sizes
  <1>2. \A i \in 1 .. n : d[i - 1] \in Byte
    BY <1>1, Sizes DEF Buffer
  <1>3. QED  BY <1>1, <1>2 DEF First

(* The answer to a complete frame carries out what the line has there. *)
LEMMA DispatchExecutes ==
  ASSUME FrameInv, NEW b \in Byte, input' = Append(input, b), NEW t \in Seq(Byte),
         NEW s, s = input' \o t,
         Complete(Stored(b), Kept(Stored(b), rd_index + 1)),
         \/ ChecksumError(Stored(b))
         \/ ~ChecksumFails(Stored(b)) /\ Command(Stored(b))
  PROVE  executed' = executed \o CommandsAt(s, Opened)
  <1> DEFINE d == Stored(b)
             p == Opened
             r == rd_index
             frame == SubSeq(s, p, p + r)
             data == SubSeq(s, p + 4, (p + r) - 1)
  <1>1. /\ s \in Seq(Byte)
        /\ p \in 1 .. Len(s) /\ p + r \in 1 .. Len(s)
        /\ \A i \in 0 .. r : s[p + i] = d[i]
    BY NextOnLine
  <1>2. /\ r \in 4 .. MAX_LENGTH - 1 /\ d[2] \in Int
        /\ d[0] = SYNC0 /\ d[1] = SYNC1 /\ r = d[2] + 4
    BY CompleteFrame
  <1>3. d \in Buffer
    BY StoredByte
  <1>4. Taken(s, p) = r + 1
    BY CompleteIsTaken
  <1>5. executed \in Seq(Commands)
    BY DEF FrameInv, TypeOK, Commands
  <1>6. \/ ChecksumFails(d) /\ executed' = executed
        \/ ~ChecksumFails(d) /\ Command(d)
    BY Zenon DEF ChecksumError
  <1> HIDE DEF d, p, r, frame, data
  <1>7. /\ p \in Int /\ r \in Int /\ r >= 4 /\ r < MAX_LENGTH
        /\ p + r <= Len(s) /\ Len(s) \in Nat
        /\ d[2] = r - 4 /\ d[2] \in Nat
        /\ r \in 0 .. MAX_LENGTH /\ p \in 1 .. Len(s)
    <2>1. r \in Int /\ r >= 4 /\ r < MAX_LENGTH /\ r \in 0 .. MAX_LENGTH
      BY <1>2, Sizes
    <2>2. d[2] = r - 4 /\ d[2] \in Nat
      <3>1. PICK x \in Int : x = d[2]
        BY <1>2
      <3>2. r = x + 4
        BY <1>2, <3>1
      <3>3. x = r - 4 /\ x \in Nat
        BY <2>1, <3>2
      <3>4. QED  BY <3>1, <3>3
    <2>3. p \in Int /\ p + r <= Len(s) /\ Len(s) \in Nat
      BY <1>1, <2>1
    <2>4. QED  BY <1>1, <2>1, <2>2, <2>3
  <1>8. s[p] = SYNC0 /\ s[p + 1] = SYNC1 /\ s[p + 2] = d[2] /\ s[p + 3] = d[3]
    <2>1. 0 \in 0 .. r /\ 1 \in 0 .. r /\ 2 \in 0 .. r /\ 3 \in 0 .. r /\ p + 0 = p
      BY <1>7
    <2>2. s[p + 0] = d[0] /\ s[p + 1] = d[1] /\ s[p + 2] = d[2] /\ s[p + 3] = d[3]
      BY <1>1, <2>1
    <2>3. QED  BY <1>2, <2>1, <2>2
  <1>9. /\ frame \in Seq(Byte) /\ Len(frame) = r + 1
        /\ \A i \in 1 .. r + 1 : frame[i] = d[i - 1]
    <2>1. 0 \in 0 .. r /\ r \in 0 - 1 .. r
      BY <1>7
    <2>2. /\ SubSeq(s, p + 0, p + r) \in Seq(Byte)
          /\ Len(SubSeq(s, p + 0, p + r)) = r - 0 + 1
          /\ \A i \in 1 .. r - 0 + 1 : SubSeq(s, p + 0, p + r)[i] = d[0 + i - 1]
      BY <1>1, <1>3, <1>7, <2>1, PartInBuffer
    <2>3. p + 0 = p /\ r - 0 + 1 = r + 1 /\ \A i \in 1 .. r + 1 : 0 + i - 1 = i - 1
      BY <1>7
    <2>4. QED  BY <2>2, <2>3 DEF frame
  <1>10. SumOf(frame) = 0 <=> ~ChecksumFails(d)
    <2> DEFINE head == First(d, r)
    <2>1. /\ head \in Seq(Byte) /\ Len(head) = r
          /\ \A i \in 1 .. r : head[i] = d[i - 1]
      BY <1>3, <1>7, FirstType
    <2>2. ChecksumFails(d) <=> d[r] # check_sum(head)
      <3>1. d[2] + 4 = r
        BY <1>7
      <3>2. QED  BY <3>1 DEF ChecksumFails
    <2> HIDE DEF head
    <2>3. \A i \in 1 .. r : frame[i] = head[i]
      <3>1. \A i \in 1 .. r : i \in 1 .. r + 1
        BY <1>7
      <3>2. QED  BY <1>9, <2>1, <3>1
    <2>4. frame[r + 1] = d[r]
      <3>1. r + 1 \in 1 .. r + 1 /\ (r + 1) - 1 = r
        BY <1>7
      <3>2. QED  BY <1>9, <3>1
    <2>5. Len(frame) = Len(head) + 1 /\ \A i \in 1 .. Len(head) : frame[i] = head[i]
      BY <1>9, <2>1, <2>3
    <2>6. SumOf(frame) = 0 <=> frame[Len(frame)] = check_sum(head)
      BY <1>9, <2>1, <2>5, CheckSumEndsFrame
    <2>7. QED  BY <1>9, <2>2, <2>4, <2>6
  <1>11. p + Taken(s, p) - 1 = p + r
    BY <1>4, <1>7
  <1>12. IsCommand(s, p, p + r) <=> ~ChecksumFails(d) /\ Carried(d)
    <2>1. /\ (p + r) - p >= 4 /\ p + r <= Len(s)
          /\ s[p + 2] = (p + r) - p - 4
          /\ (p + r) - p < MAX_LENGTH
      BY <1>7, <1>8, Sizes
    <2>2. IsCommand(s, p, p + r) <=>
            /\ SumOf(frame) = 0 /\ s[p + 3] \in Known
            /\ s[p + 3] \in SetCommands => s[p + 2] <= VALUE_BYTES
      BY <1>8, <2>1 DEF IsCommand, frame
    <2>3. QED  BY <1>8, <1>10, <2>2 DEF Carried
  <1>13. Carried(d) => CommandOf(s, p, p + r) = [cmd |-> d[3], value |-> ValueOf(d)]
    <2>1. SUFFICES ASSUME Carried(d)
                   PROVE  CommandOf(s, p, p + r) = [cmd |-> d[3], value |-> ValueOf(d)]
      OBVIOUS
    <2>2. CASE d[3] \notin SetCommands
      BY <1>8, <2>2 DEF CommandOf, ValueOf
    <2>3. CASE d[3] \in SetCommands
      <3>1. d[2] \in 0 .. 4
        BY <1>7, <2>1, <2>3, Sizes DEF Carried
      <3>2. /\ data \in Seq(Byte) /\ Len(data) = d[2]
            /\ \A i \in 1 .. d[2] : data[i] = d[3 + i]
        <4>1. 4 \in 0 .. r /\ r - 1 \in 4 - 1 .. r
          BY <1>7
        <4>2. /\ SubSeq(s, p + 4, p + (r - 1)) \in Seq(Byte)
              /\ Len(SubSeq(s, p + 4, p + (r - 1))) = (r - 1) - 4 + 1
              /\ \A i \in 1 .. (r - 1) - 4 + 1 :
                   SubSeq(s, p + 4, p + (r - 1))[i] = d[4 + i - 1]
          BY <1>1, <1>3, <1>7, <4>1, PartInBuffer
        <4>3. /\ p + (r - 1) = (p + r) - 1 /\ (r - 1) - 4 + 1 = d[2]
              /\ \A i \in 1 .. d[2] : 4 + i - 1 = 3 + i
          BY <1>7
        <4>4. QED  BY <4>2, <4>3 DEF data
      <3>3. Value(d, d[2]) = BigEndian(data)
        BY <1>3, <3>1, <3>2, ValueIsBigEndian
      <3>4. CommandOf(s, p, p + r) =
              [cmd |-> s[p + 3],
               value |-> IF s[p + 3] \in SetCommands THEN BigEndian(data) ELSE 0]
        <4>1. data = SubSeq(s, p + 4, (p + r) - 1)
          BY DEF data
        <4>2. CommandOf(s, p, p + r) =
                [cmd |-> s[p + 3],
                 value |-> IF s[p + 3] \in SetCommands
                           THEN BigEndian(SubSeq(s, p + 4, (p + r) - 1)) ELSE 0]
          BY DEF CommandOf
        <4>3. QED  BY <4>1, <4>2
      <3>5. CommandOf(s, p, p + r) = [cmd |-> d[3], value |-> BigEndian(data)]
        BY <1>8, <2>3, <3>4
      <3>6. QED  BY <2>3, <3>3, <3>5 DEF ValueOf
    <2>4. QED  BY <2>2, <2>3
  <1>14. CASE ChecksumFails(d)
    <2>1. CommandsAt(s, p) = <<>>
      BY <1>11, <1>12, <1>14 DEF CommandsAt
    <2>2. executed' = executed
      BY <1>6, <1>14
    <2>3. executed \o <<>> = executed
      BY <1>5, ConcatEmptySeq
    <2>4. QED  BY <2>1, <2>2, <2>3 DEF p
  <1>15. CASE ~ChecksumFails(d)
    <2>1. executed' = IF Carried(d) THEN Append(executed, [cmd |-> d[3], value |-> ValueOf(d)])
                      ELSE executed
      BY <1>6, <1>7, <1>15, CommandEffect
    <2>2. CASE Carried(d)
      <3> DEFINE e == [cmd |-> d[3], value |-> ValueOf(d)]
      <3>1. CommandsAt(s, p) = <<e>>
        BY <1>11, <1>12, <1>13, <1>15, <2>2 DEF CommandsAt
      <3>2. executed' = Append(executed, e)
        BY <2>1, <2>2
      <3> HIDE DEF e
      <3>3. Append(executed, e) = executed \o <<e>>
        BY <1>5
      <3>4. QED  BY <3>1, <3>2, <3>3 DEF p
    <2>3. CASE ~Carried(d)
      <3>1. CommandsAt(s, p) = <<>>
        BY <1>11, <1>12, <2>3 DEF CommandsAt
      <3>2. executed \o <<>> = executed
        BY <1>5, ConcatEmptySeq
      <3>3. QED  BY <2>1, <2>3, <3>1, <3>2 DEF p
    <2>4. QED  BY <2>2, <2>3
  <1>16. QED  BY <1>14, <1>15

(* Every step keeps what is open and what was carried out in line. *)
LEMMA LineStep ==
  ASSUME FrameInv, LineInv, [Next]_vars
  PROVE  LineInv'
  <1>1. executed \in Seq(Commands)
    BY DEF FrameInv, TypeOK, Commands
  <1>2. ASSUME NEW b \in Byte, Collect(b)
        PROVE  LineInv'
    <2>1. /\ input' = Append(input, b) /\ executed' = executed
          /\ rd_index' = Kept(Stored(b), rd_index + 1)
      BY <1>2 DEF Collect, Read
    <2>2. SUFFICES ASSUME NEW t \in Seq(Byte)
                   PROVE  From(input' \o t)[1] = executed' \o From(input' \o t)[Opened']
      BY DEF LineInv
    <2> DEFINE s == input' \o t
               p == Opened
               r == rd_index
    <2>3. /\ s \in Seq(Byte) /\ <<b>> \o t \in Seq(Byte) /\ s = input \o (<<b>> \o t)
          /\ p \in 1 .. Len(s) /\ p + r \in 1 .. Len(s) /\ p + r = Len(input')
      BY <2>1, NextOnLine
    <2>4. From(s)[1] = executed \o From(s)[p]
      <3>1. From(input \o (<<b>> \o t))[1] = executed \o From(input \o (<<b>> \o t))[p]
        BY <2>3 DEF LineInv
      <3>2. QED  BY <2>3, <3>1
    <2>5. Kept(Stored(b), r + 1) \in {0, r + 1} /\ r \in Nat
      BY Sizes DEF Kept, FrameInv, TypeOK
    <2>6. CASE Kept(Stored(b), r + 1) = r + 1
      <3>1. Opened' = p
        BY <2>1, <2>3, <2>5, <2>6 DEF Opened
      <3>2. QED  BY <2>1, <2>4, <3>1
    <2>7. CASE Kept(Stored(b), r + 1) = 0
      <3>1. Taken(s, p) = r + 1 /\ CommandsAt(s, p) = <<>>
        BY <2>1, <2>7, DroppedIsTaken
      <3>2. Opened' = p + (r + 1)
        BY <2>1, <2>3, <2>5, <2>7 DEF Opened
      <3> HIDE DEF s, p, r
      <3>3. From(s)[p] = <<>> \o From(s)[p + (r + 1)]
        BY <2>3, <3>1, FromStep
      <3>4. p + (r + 1) \in Places(s)
        BY <2>3, <2>5, Sizes DEF Places
      <3>5. From(s)[p + (r + 1)] \in Seq(Commands)
        BY <2>3, <3>4, FromStep
      <3>6. From(s)[p] = From(s)[p + (r + 1)]
        BY <3>3, <3>5, ConcatEmptySeq
      <3>7. From(s)[1] = executed' \o From(s)[Opened']
        BY <2>1, <2>4, <3>2, <3>6
      <3>8. QED  BY <3>7 DEF s
    <2>8. QED  BY <2>5, <2>6, <2>7
  <1>3. ASSUME NEW b \in Byte, Dispatch(b)
        PROVE  LineInv'
    <2>1. /\ input' = Append(input, b) /\ rd_index' = 0
          /\ Complete(Stored(b), Kept(Stored(b), rd_index + 1))
          /\ \/ ChecksumError(Stored(b))
             \/ ~ChecksumFails(Stored(b)) /\ Command(Stored(b))
      BY <1>3, Zenon DEF Dispatch, Read
    <2>2. SUFFICES ASSUME NEW t \in Seq(Byte)
                   PROVE  From(input' \o t)[1] = executed' \o From(input' \o t)[Opened']
      BY DEF LineInv
    <2> DEFINE s == input' \o t
               p == Opened
               r == rd_index
    <2>3. /\ s \in Seq(Byte) /\ <<b>> \o t \in Seq(Byte) /\ s = input \o (<<b>> \o t)
          /\ p \in 1 .. Len(s) /\ p + r \in 1 .. Len(s) /\ p + r = Len(input')
      BY <2>1, NextOnLine
    <2>4. From(s)[1] = executed \o From(s)[p]
      <3>1. From(input \o (<<b>> \o t))[1] = executed \o From(input \o (<<b>> \o t))[p]
        BY <2>3 DEF LineInv
      <3>2. QED  BY <2>3, <3>1
    <2>5. Taken(s, p) = r + 1
      BY <2>1, CompleteIsTaken
    <2>6. executed' = executed \o CommandsAt(s, p)
      BY <2>1, DispatchExecutes
    <2>7. r \in Nat
      BY Sizes DEF FrameInv, TypeOK
    <2>8. Opened' = p + (r + 1)
      BY <2>1, <2>3, <2>7 DEF Opened
    <2> HIDE DEF s, p, r
    <2> DEFINE u == CommandsAt(s, p)
               v == From(s)[p + (r + 1)]
    <2>9. From(s)[p] = u \o v
      BY <2>3, <2>5, FromStep
    <2>10. p + (r + 1) \in Places(s)
      BY <2>3, <2>7, Sizes DEF Places
    <2>11. v \in Seq(Commands) /\ u \in Seq(Commands)
      BY <2>3, <2>10, FromStep, CommandsAtType
    <2> HIDE DEF u, v
    <2>12. (executed \o u) \o v = executed \o (u \o v)
      BY <1>1, <2>11, ConcatAssociative
    <2>13. From(s)[1] = executed' \o v
      BY <2>4, <2>6, <2>9, <2>12 DEF u
    <2>14. QED  BY <2>8, <2>13 DEF s, v
  <1>4. CASE TransferEnds
    BY <1>4 DEF TransferEnds, LineInv, Opened
  <1>5. CASE UNCHANGED vars
    BY <1>5 DEF vars, LineInv, Opened
  <1>6. QED  BY <1>2, <1>3, <1>4, <1>5, Zenon DEF Next

(* Nothing is in front of the first position. *)
LEMMA InitialLine == Init => LineInv
  <1> SUFFICES ASSUME Init, NEW t \in Seq(Byte)
               PROVE  From(input \o t)[1] = executed \o From(input \o t)[Opened]
    BY DEF LineInv
  <1>1. input = <<>> /\ executed = <<>> /\ rd_index = 0
    BY DEF Init
  <1>2. <<>> \o t = t
    BY ConcatEmptySeq
  <1>3. Opened = 1
    BY <1>1 DEF Opened
  <1>4. 1 \in Places(t)
    BY Sizes DEF Places
  <1> DEFINE v == From(t)[1]
  <1>5. v \in Seq(Commands)
    BY <1>4, FromStep
  <1> HIDE DEF v
  <1>6. <<>> \o v = v
    BY <1>5, ConcatEmptySeq
  <1>7. QED  BY <1>1, <1>2, <1>3, <1>6 DEF v

(* A frame that is still open has no command on the line. *)
LEMMA OpenHasNone ==
  ASSUME FrameInv
  PROVE  From(input)[Opened] = <<>>
  <1> DEFINE s == input
             p == Opened
             r == rd_index
             q == p + Taken(s, p) - 1
  <1>1. /\ s \in Seq(Byte) /\ r \in 0 .. MAX_LENGTH /\ r <= Len(s) /\ Len(s) \in Nat
        /\ \A i \in 0 .. r - 1 : rd_data[i] = s[p + i]
        /\ r > 0 => rd_data[0] = SYNC0
        /\ r > 1 => rd_data[1] = SYNC1
        /\ r > 2 => r <= rd_data[2] + 4
        /\ rd_data \in Buffer
    BY DEF FrameInv, TypeOK, BufferIsLine, OpenFrame, Opened
  <1>2. p = Len(s) - r + 1 /\ r \in Nat /\ p \in Int /\ p \in Places(s)
    BY <1>1, Sizes DEF Opened, Places
  <1> HIDE DEF s, p, r
  <1>3. CASE r = 0
    <2>1. p > Len(s)
      BY <1>1, <1>2, <1>3
    <2>2. From(s)[p] = <<>>
      BY <1>1, <1>2, <2>1, FromStep
    <2>3. QED  BY <2>2 DEF s, p
  <1>4. CASE r > 0
    <2>1. p \in 1 .. Len(s)
      BY <1>1, <1>2, <1>4
    <2>2. s[p] = SYNC0
      <3>1. 0 \in 0 .. r - 1 /\ p + 0 = p
        BY <1>2, <1>4
      <3>2. QED  BY <1>1, <1>4, <3>1
    <2>3. r > 1 => s[p + 1] = SYNC1
      <3>1. r > 1 => 1 \in 0 .. r - 1
        BY <1>2
      <3>2. QED  BY <1>1, <3>1
    <2>4. r > 2 => s[p + 2] \in Nat /\ r <= s[p + 2] + 4
      <3>1. r > 2 => 2 \in 0 .. r - 1 /\ p + 2 \in 1 .. Len(s)
        BY <1>1, <1>2
      <3>2. r > 2 => s[p + 2] \in Byte
        BY <1>1, <3>1
      <3>3. QED  BY <1>1, <3>1, <3>2, Sizes DEF Byte
    <2>5. Taken(s, p) \in Int /\ p + Taken(s, p) > Len(s) /\ ~IsCommand(s, p, q)
      <3>1. CASE r = 1
        <4>1. p + 1 > Len(s)
          BY <1>1, <1>2, <3>1
        <4>2. Taken(s, p) = 2
          BY <2>2, <4>1 DEF Taken
        <4>3. q - p = 1
          BY <1>2, <4>2
        <4>4. ~IsCommand(s, p, q)
          BY <4>3 DEF IsCommand
        <4>5. QED  BY <1>2, <4>1, <4>2, <4>4
      <3>2. CASE r = 2
        <4>1. p + 2 > Len(s) /\ ~(p + 1 > Len(s))
          BY <1>1, <1>2, <3>2
        <4>2. Taken(s, p) = 2
          BY <2>2, <4>1 DEF Taken
        <4>3. q - p = 1
          BY <1>2, <4>2
        <4>4. ~IsCommand(s, p, q)
          BY <4>3 DEF IsCommand
        <4>5. QED  BY <1>2, <4>1, <4>2, <4>4
      <3>3. CASE r > 2
        <4>1. ~(p + 2 > Len(s)) /\ ~(p + 1 > Len(s)) /\ p + r = Len(s) + 1
          BY <1>1, <1>2, <3>3
        <4>2. s[p + 1] = SYNC1 /\ s[p + 2] \in Nat /\ r <= s[p + 2] + 4
          BY <1>2, <2>3, <2>4, <3>3
        <4>3. Taken(s, p) = IF s[p + 2] + 5 > MAX_LENGTH THEN MAX_LENGTH + 1
                            ELSE s[p + 2] + 5
          BY <2>2, <4>1, <4>2 DEF Taken
        <4>4. Taken(s, p) \in Int /\ Taken(s, p) >= r + 1
          BY <1>1, <4>2, <4>3, Sizes
        <4>5. p + Taken(s, p) > Len(s) + 1
          BY <1>1, <1>2, <4>1, <4>4
        <4>6. q > Len(s) /\ q \in Int
          BY <1>1, <1>2, <4>4, <4>5
        <4>7. ~IsCommand(s, p, q)
          BY <1>1, <4>6 DEF IsCommand
        <4>8. QED  BY <1>1, <1>2, <4>4, <4>5, <4>7
      <3>4. r = 1 \/ r = 2 \/ r > 2
        BY <1>2, <1>4
      <3>5. QED  BY <3>1, <3>2, <3>3, <3>4
    <2>6. CommandsAt(s, p) = <<>>
      BY <2>5 DEF CommandsAt
    <2>7. p + Taken(s, p) \in Places(s)
      BY <1>1, <2>1, TakenRange, Sizes DEF Places
    <2>8. From(s)[p + Taken(s, p)] = <<>>
      BY <1>1, <2>5, <2>7, FromStep
    <2>9. From(s)[p] = CommandsAt(s, p) \o From(s)[p + Taken(s, p)]
      BY <1>1, <2>1, FromStep
    <2>10. <<>> \o <<>> = <<>>
      BY ConcatEmptySeq
    <2>11. QED  BY <2>6, <2>8, <2>9, <2>10 DEF s, p
  <1>5. QED  BY <1>2, <1>3, <1>4

(* What the line says is carried out, each command once and in order, for  *)
(* every alphabet, length of the buffer and line.                          *)
THEOREM LineIsExecuted == Spec => []ExecutedAreFrames
  <1>1. FrameInv /\ LineInv /\ [Next]_vars => FrameInv' /\ LineInv'
    BY FrameStep, LineStep
  <1>2. FrameInv /\ LineInv => ExecutedAreFrames
    <2> SUFFICES ASSUME FrameInv, LineInv PROVE executed = CommandsIn(input)
      BY DEF ExecutedAreFrames
    <2>1. input \in Seq(Byte) /\ executed \in Seq(Commands)
      BY DEF FrameInv, TypeOK, Commands
    <2>2. <<>> \in Seq(Byte)
      OBVIOUS
    <2>3. input \o <<>> = input
      BY <2>1, ConcatEmptySeq
    <2>4. From(input \o <<>>)[1] = executed \o From(input \o <<>>)[Opened]
      BY <2>2 DEF LineInv
    <2>5. From(input)[1] = executed \o <<>>
      BY <2>3, <2>4, OpenHasNone
    <2>6. executed \o <<>> = executed
      BY <2>1, ConcatEmptySeq
    <2>7. CommandsIn(input) = From(input)[1]
      BY <2>1, FromStep
    <2>8. QED  BY <2>5, <2>6, <2>7
  <1>3. QED  BY <1>1, <1>2, InitialFrame, InitialLine, PTL DEF Spec
=============================================================================
