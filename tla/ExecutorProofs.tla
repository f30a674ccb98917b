--------------------------- MODULE ExecutorProofs ---------------------------
(***************************************************************************)
(* EQL and its executors.  First the parser, for payloads of any length:   *)
(* no text a caller sends is lost or altered between the words of a        *)
(* statement and the payload it writes (TextIsKept).  Then the executors,  *)
(* for any number of them on one redb store, with crashes between any two  *)
(* steps: ExecutorIInv is preserved by every step, the vector index and    *)
(* its file are accounted for by the audit log, and the executors together *)
(* implement AuditedStore.                                                 *)
(***************************************************************************)
EXTENDS Executor, RedbStoreProofs

-----------------------------------------------------------------------------
(* The parser.                                                             *)

(* A finite set of numbers that is not empty has a least and a greatest.   *)
LEMMA Extremes ==
    ASSUME NEW K \in SUBSET Nat, IsFiniteSet(K), K # {}
    PROVE  /\ Min(K) \in K /\ \A n \in K : Min(K) <= n
           /\ Max(K) \in K /\ \A n \in K : n <= Max(K)
<1> DEFINE p == InOrder(K)
           c == Cardinality(K)
<1>1. /\ c \in Nat /\ p \in [1..c -> K]
      /\ \A i, j \in 1..c : i < j => p[i] < p[j]
      /\ \A a \in K : \E i \in 1..c : p[i] = a
  BY InOrderLists
<1>2. c # 0
  BY FS_EmptySet
<1> HIDE DEF p, c
<1>3. p[1] \in K /\ p[c] \in K
  BY <1>1, <1>2
<1>4. ASSUME NEW n \in K
      PROVE  p[1] <= n /\ n <= p[c]
  <2>1. PICK i \in 1..c : p[i] = n
    BY <1>1
  <2>2. /\ 1 < i => p[1] < n
        /\ i < c => n < p[c]
    BY <1>1, <1>2, <2>1
  <2>3. p[1] \in Nat /\ p[c] \in Nat /\ n \in Nat
    BY <1>3
  <2>4. (i = 1 \/ 1 < i) /\ (i = c \/ i < c)
    BY <1>1
  <2>5. QED
    BY <2>1, <2>2, <2>3, <2>4
<1>5. /\ \E x \in K : \A n \in K : x <= n
      /\ \E x \in K : \A n \in K : x >= n
  <2>1. \A n \in K : n \in Nat
    OBVIOUS
  <2>2. \A n \in K : p[c] >= n
    BY <1>3, <1>4, <2>1
  <2>3. QED
    BY <1>3, <1>4, <2>2
<1>6. Min(K) \in K /\ \A n \in K : Min(K) <= n
  BY <1>5 DEF Min
<1>7. Max(K) \in K /\ \A n \in K : Max(K) >= n
  BY <1>5 DEF Max
<1>8. \A n \in K : Max(K) >= n => n <= Max(K)
  BY <1>7
<1>9. QED
  BY <1>6, <1>7, <1>8

(* The extremes are the ones that are found.                               *)
LEMMA ExtremesAre ==
    ASSUME NEW K \in SUBSET Nat, IsFiniteSet(K)
    PROVE  /\ \A a \in K : (\A n \in K : a <= n) => Min(K) = a
           /\ \A a \in K : (\A n \in K : n <= a) => Max(K) = a
<1> SUFFICES ASSUME NEW a \in K
             PROVE  /\ (\A n \in K : a <= n) => Min(K) = a
                    /\ (\A n \in K : n <= a) => Max(K) = a
  OBVIOUS
<1>1. /\ Min(K) \in K /\ Max(K) \in K
      /\ Min(K) <= a /\ a <= Max(K)
  BY Extremes
<1>2. a \in Nat /\ Min(K) \in Nat /\ Max(K) \in Nat
  BY <1>1
<1>3. QED
  BY <1>1, <1>2

(* trim() cuts a text that begins with a word after its last word.         *)
LEMMA TrimCuts ==
    ASSUME NEW S, NEW text \in Seq(S), NEW m \in 1..Len(text),
           text[1] \notin Spaces, text[m] \notin Spaces,
           \A n \in 1..Len(text) : n > m => text[n] \in Spaces
    PROVE  trim(text) = SubSeq(text, 1, m)
<1> DEFINE K == {n \in 1..Len(text) : text[n] \notin Spaces}
<1>1. Len(text) \in Nat
  OBVIOUS
<1>2. K \in SUBSET Nat /\ IsFiniteSet(K)
  <2>1. K \in SUBSET (1..Len(text))
    OBVIOUS
  <2>2. IsFiniteSet(K)
    BY <1>1, <2>1, PlacesFinite
  <2>3. QED
    BY <1>1, <2>2
<1>3. 1 \in K /\ \A n \in K : 1 <= n
  BY <1>1
<1>4. m \in K /\ \A n \in K : n <= m
  BY <1>1
<1>5. trim(text) = IF K = {} THEN <<>> ELSE SubSeq(text, Min(K), Max(K))
  BY DEF trim
<1> HIDE DEF K
<1>6. Min(K) = 1 /\ Max(K) = m
  BY <1>2, <1>3, <1>4, ExtremesAre
<1>7. QED
  BY <1>3, <1>5, <1>6

(* What Places and Words of a text are, by the places of its words.        *)
LEMMA WordsAre ==
    ASSUME NEW S, NEW text \in Seq(S)
    PROVE  LET K == {n \in 1..Len(text) : text[n] # Blank} IN
           /\ K \in SUBSET Nat /\ IsFiniteSet(K) /\ Cardinality(K) \in Nat
           /\ Places(text) = InOrder(K)
           /\ Words(text) \in Seq(S)
           /\ Len(Words(text)) = Cardinality(K)
           /\ \A n \in 1..Cardinality(K) :
                 /\ InOrder(K)[n] \in K
                 /\ Words(text)[n] = text[InOrder(K)[n]]
<1> DEFINE K == {n \in 1..Len(text) : text[n] # Blank}
           c == Cardinality(K)
<1>1. Len(text) \in Nat /\ K \in SUBSET (1..Len(text)) /\ K \in SUBSET Nat
  OBVIOUS
<1>2. IsFiniteSet(K) /\ c \in Nat
  BY <1>1, PlacesFinite
<1>3. InOrder(K) \in [1..c -> K]
  BY <1>1, <1>2, InOrderLists
<1>4. Places(text) = InOrder(K)
  BY DEF Places
<1>5. \A n \in K : text[n] \in S
  BY <1>1
<1> HIDE DEF K, c
<1>6. Words(text) = [n \in 1..c |-> text[InOrder(K)[n]]]
  BY <1>3, <1>4 DEF Words
<1>7. \A n \in 1..c : InOrder(K)[n] \in K /\ text[InOrder(K)[n]] \in S
  BY <1>3, <1>5
<1>8. Words(text) \in [1..c -> S]
  BY <1>6, <1>7
<1>9. Words(text) \in Seq(S) /\ Len(Words(text)) = c
  BY <1>2, <1>8
<1>10. QED
  BY <1>1, <1>2, <1>4, <1>6, <1>7, <1>9 DEF K, c

(* A text with exactly two words.                                          *)
LEMMA TwoWords ==
    ASSUME NEW S, NEW text \in Seq(S), NEW b \in 2..Len(text),
           text[1] # Blank, text[b] # Blank,
           \A n \in 2..Len(text) : n # b => text[n] = Blank
    PROVE  Words(text) = <<text[1], text[b]>>
<1> DEFINE K == {n \in 1..Len(text) : text[n] # Blank}
           w == Words(text)
<1>1. /\ K \in SUBSET Nat /\ IsFiniteSet(K) /\ Cardinality(K) \in Nat
      /\ w \in Seq(S) /\ Len(w) = Cardinality(K)
      /\ \A n \in 1..Cardinality(K) : w[n] = text[InOrder(K)[n]]
  <2>1. /\ K \in SUBSET (1..Len(text)) /\ Len(text) \in Nat
    OBVIOUS
  <2>2. /\ w \in Seq(S) /\ Len(w) = Cardinality(K)
        /\ \A n \in 1..Cardinality(K) : w[n] = text[InOrder(K)[n]]
    BY WordsAre
  <2> HIDE DEF K, w
  <2>3. IsFiniteSet(K) /\ Cardinality(K) \in Nat /\ K \in SUBSET Nat
    BY <2>1, PlacesFinite
  <2>4. QED
    BY <2>2, <2>3
<1>2. Len(text) \in Nat
  OBVIOUS
<1>3. /\ 1 \in K /\ b \in K /\ b > 1
      /\ \A n \in K : 1 <= n /\ n <= b
      /\ \A n \in K : n > 1 => b <= n
  BY <1>2
<1> HIDE DEF K, w
<1>4. Cardinality(K) >= 1 /\ InOrder(K)[1] = 1
  BY <1>1, <1>3, InOrderFirst
<1>5. Cardinality(K) >= 2 /\ InOrder(K)[2] = b
  BY <1>1, <1>3, <1>4, InOrderNext
<1>6. Cardinality(K) = 2
  <2>1. 2 \in 1..Cardinality(K)
    BY <1>1, <1>5
  <2>2. \A n \in K : n <= InOrder(K)[2]
    BY <1>3, <1>5
  <2>3. QED
    BY <1>1, <2>1, <2>2, InOrderLast
<1>7. Len(w) = 2 /\ w[1] = text[1] /\ w[2] = text[b]
  BY <1>1, <1>4, <1>5, <1>6
<1>8. w = <<text[1], text[b]>>
  BY <1>1, <1>7
<1>9. QED
  BY <1>8 DEF w

(* An id argument: one word with spaces around it.                         *)
IdArgument(id, word, p) ==
    /\ p \in 1..Len(id)
    /\ id[p] = word
    /\ \A n \in 1..Len(id) : n # p => id[n] \in Spaces

LEMMA AroundId ==
    ASSUME NEW word, NEW before \in Around, NEW after \in Around
    PROVE  LET id == before \o <<word>> \o after IN
           /\ id \in Seq({word} \cup Spaces)
           /\ \E p \in Nat : IdArgument(id, word, p)
<1> DEFINE S == {word} \cup Spaces
           id == before \o <<word>> \o after
<1>1. before \in Seq(S) /\ after \in Seq(S) /\ <<word>> \in Seq(S)
  <2>1. Blank \in S /\ NewLine \in S /\ word \in S
    BY DEF Spaces
  <2>2. \A x \in S : <<x>> \in Seq(S)
    OBVIOUS
  <2>3. <<>> \in Seq(S)
    OBVIOUS
  <2> HIDE DEF S
  <2>4. QED
    BY <2>1, <2>2, <2>3 DEF Around
<1>2. id \in Seq(S)
  BY <1>1
<1>3. /\ Len(before) \in 0..1
      /\ \A n \in 1..Len(before) : before[n] \in Spaces
      /\ Len(after) \in 0..1
      /\ \A n \in 1..Len(after) : after[n] \in Spaces
  BY DEF Around, Spaces
<1>4. /\ Len(id) = Len(before) + 1 + Len(after)
      /\ \A n \in 1..Len(id) :
            id[n] = IF n <= Len(before) THEN before[n]
                    ELSE IF n = Len(before) + 1 THEN word
                    ELSE after[n - Len(before) - 1]
  BY <1>1
<1> DEFINE p == Len(before) + 1
<1>5. p \in 1..Len(id) /\ id[p] = word
  BY <1>3, <1>4
<1>6. ASSUME NEW n \in 1..Len(id), n # p
      PROVE  id[n] \in Spaces
  <2>1. CASE n <= Len(before)
    BY <1>3, <1>4, <2>1
  <2>2. CASE n > Len(before) + 1
    <3>1. n - Len(before) - 1 \in 1..Len(after)
      BY <1>3, <1>4, <2>2
    <3>2. id[n] = after[n - Len(before) - 1]
      BY <1>3, <1>4, <2>2
    <3>3. QED
      BY <1>3, <3>1, <3>2
  <2>3. QED
    BY <1>3, <1>4, <1>6, <2>1, <2>2
<1> HIDE DEF id
<1>7. p \in Nat /\ IdArgument(id, word, p)
  BY <1>3, <1>5, <1>6 DEF IdArgument
<1>8. QED
  BY <1>2, <1>7 DEF id

(* What sdk.rs formats for an id is parsed to the keyword and the id.      *)
LEMMA KeywordAndId ==
    ASSUME NEW S, NEW kw \in Keywords, NEW word \in id_words,
           NEW id \in Seq(S), NEW p \in Nat,
           IdArgument(id, word, p), ~Broken(id)
    PROVE  Words(trim(<<kw, Blank>> \o id)) = <<kw, word>>
<1> DEFINE T == S \cup {kw, Blank}
           text == <<kw, Blank>> \o id
           m == p + 2
           cut == SubSeq(text, 1, m)
<1>1. <<kw, Blank>> \in Seq(T) /\ id \in Seq(T)
  OBVIOUS
<1>2. /\ text \in Seq(T) /\ Len(text) = Len(id) + 2
      /\ text[1] = kw /\ text[2] = Blank
      /\ \A n \in 1..Len(id) : text[n + 2] = id[n]
  BY <1>1
<1>3. /\ Len(id) \in Nat /\ p \in 1..Len(id) /\ id[p] = word
      /\ \A n \in 1..Len(id) : n # p => id[n] = Blank
  BY DEF IdArgument, Broken, Spaces
<1>4. /\ kw \notin Spaces /\ word \notin Spaces
      /\ Blank \in Spaces
  BY WordsAssumption DEF AllWords, id_words, Spaces
<1> HIDE DEF text
<1>5. \A n \in 1..Len(text) :
        text[n] = IF n = 1 THEN kw ELSE IF n = m THEN word ELSE Blank
  <2>1. ASSUME NEW n \in 1..Len(text), n > 2
        PROVE  text[n] = IF n = m THEN word ELSE Blank
    <3>1. n - 2 \in 1..Len(id) /\ n = (n - 2) + 2
      BY <1>2, <1>3, <2>1
    <3>2. text[n] = id[n - 2]
      BY <1>2, <3>1
    <3>3. QED
      BY <1>3, <3>1, <3>2
  <2>2. QED
    BY <1>2, <1>3, <2>1
<1>6. trim(text) = cut
  <2>1. m \in 1..Len(text) /\ m # 1
    BY <1>2, <1>3
  <2>2. text[1] \notin Spaces /\ text[m] \notin Spaces
    BY <1>2, <1>4, <1>5, <2>1
  <2>3. \A n \in 1..Len(text) : n > m => text[n] \in Spaces
    BY <1>3, <1>4, <1>5
  <2> HIDE DEF m
  <2>4. QED
    BY <1>2, <2>1, <2>2, <2>3, TrimCuts
<1>7. /\ cut \in Seq(T) /\ Len(cut) = m
      /\ \A n \in 1..m : cut[n] = text[n]
  BY <1>2, <1>3
<1> HIDE DEF cut
<1>8. Words(cut) = <<cut[1], cut[m]>>
  <2>1. m \in 2..Len(cut) /\ cut[1] # Blank /\ cut[m] # Blank
    BY <1>2, <1>3, <1>4, <1>5, <1>7
  <2>2. \A n \in 2..Len(cut) : n # m => cut[n] = Blank
    BY <1>2, <1>3, <1>5, <1>7
  <2> HIDE DEF m
  <2>3. QED
    BY <1>7, <2>1, <2>2, TwoWords
<1>9. cut[1] = kw /\ cut[m] = word
  BY <1>2, <1>3, <1>5, <1>7
<1>10. QED
  BY <1>6, <1>8, <1>9 DEF text

-----------------------------------------------------------------------------
(* Which rules fit.                                                        *)

(* A statement that begins with WRITE is a write or nothing.               *)
LEMMA OnlyWrites ==
    ASSUME NEW text, Words(text)[1] = "WRITE"
    PROVE  statements(text) = write_stmt(text, Words(text))
<1> DEFINE w == Words(text)
<1> HIDE DEF w
<1>0. w[1] = "WRITE"
  BY DEF w
<1>1. id_stmt("Read", "READ", w) = {}
  BY <1>0 DEF id_stmt, Fits
<1>2. id_stmt("Delete", "DELETE", w) = {}
  BY <1>0 DEF id_stmt, Fits
<1>3. list_stmt(w) = {}
  BY <1>0 DEF list_stmt, Fits
<1>4. audit_stmt(w) = {}
  BY <1>0 DEF audit_stmt, Fits
<1>5. embed_stmt(w) = {}
  BY <1>0 DEF embed_stmt, Fits
<1>6. search_stmt(w) = {}
  BY <1>0 DEF search_stmt, Fits
<1>7. auto_embed_stmt(w) = {}
  BY <1>0 DEF auto_embed_stmt, Fits
<1>8. QED
  BY <1>1, <1>2, <1>3, <1>4, <1>5, <1>6, <1>7 DEF statements, w

(* READ or DELETE with an id is that statement and no other.               *)
LEMMA ParsesIdStatement ==
    ASSUME NEW text, NEW word \in id_words
    PROVE  /\ Words(trim(text)) = <<"READ", word>> =>
                 parse(text) = [stmt |-> "Read", id |-> word]
           /\ Words(trim(text)) = <<"DELETE", word>> =>
                 parse(text) = [stmt |-> "Delete", id |-> word]
<1> DEFINE x == trim(text)
           w == Words(x)
<1> HIDE DEF x, w
<1>1. ASSUME Len(w) = 2, w[1] \in {"READ", "DELETE"}
      PROVE  /\ write_stmt(x, w) = {} /\ list_stmt(w) = {}
             /\ audit_stmt(w) = {} /\ embed_stmt(w) = {}
             /\ search_stmt(w) = {} /\ auto_embed_stmt(w) = {}
  <2>1. write_stmt(x, w) = {}
    BY <1>1 DEF write_stmt
  <2>2. list_stmt(w) = {}
    BY <1>1 DEF list_stmt, Fits
  <2>3. audit_stmt(w) = {}
    BY <1>1 DEF audit_stmt, Fits
  <2>4. embed_stmt(w) = {}
    BY <1>1 DEF embed_stmt, Fits
  <2>5. search_stmt(w) = {}
    BY <1>1 DEF search_stmt, Fits
  <2>6. auto_embed_stmt(w) = {}
    BY <1>1 DEF auto_embed_stmt, Fits
  <2>7. QED
    BY <2>1, <2>2, <2>3, <2>4, <2>5, <2>6
<1>2. statements(x) = UNION {write_stmt(x, w), id_stmt("Read", "READ", w),
               list_stmt(w), id_stmt("Delete", "DELETE", w),
               audit_stmt(w), embed_stmt(w), search_stmt(w),
               auto_embed_stmt(w)}
  BY DEF statements, w
<1>3. parse(text) = IF statements(x) = {} THEN Refused
                    ELSE CHOOSE statement \in statements(x) : TRUE
  BY DEF parse, x
<1>4. ASSUME w = <<"READ", word>>
      PROVE  parse(text) = [stmt |-> "Read", id |-> word]
  <2>1. id_stmt("Read", "READ", w) = {[stmt |-> "Read", id |-> word]}
    BY <1>4 DEF id_stmt, Fits
  <2>2. id_stmt("Delete", "DELETE", w) = {}
    BY <1>4 DEF id_stmt, Fits
  <2>3. statements(x) = {[stmt |-> "Read", id |-> word]}
    BY <1>1, <1>2, <1>4, <2>1, <2>2
  <2>4. QED
    BY <1>3, <2>3
<1>5. ASSUME w = <<"DELETE", word>>
      PROVE  parse(text) = [stmt |-> "Delete", id |-> word]
  <2>1. id_stmt("Delete", "DELETE", w) = {[stmt |-> "Delete", id |-> word]}
    BY <1>5 DEF id_stmt, Fits
  <2>2. id_stmt("Read", "READ", w) = {}
    BY <1>5 DEF id_stmt, Fits
  <2>3. statements(x) = {[stmt |-> "Delete", id |-> word]}
    BY <1>1, <1>2, <1>5, <2>1, <2>2
  <2>4. QED
    BY <1>3, <2>3
<1>6. QED
  BY <1>4, <1>5 DEF w, x

(* read() and delete() name the record they are given.                     *)
LEMMA SdkIdCalls ==
    ASSUME NEW S, NEW word \in id_words, NEW id \in Seq(S), NEW p \in Nat,
           IdArgument(id, word, p), ~Broken(id)
    PROVE  /\ parse(sdk_read(id)) = [stmt |-> "Read", id |-> word]
           /\ parse(sdk_delete(id)) = [stmt |-> "Delete", id |-> word]
<1>1. "READ" \in Keywords /\ "DELETE" \in Keywords
  BY DEF Keywords
<1>2. /\ Words(trim(sdk_read(id))) = <<"READ", word>>
      /\ Words(trim(sdk_delete(id))) = <<"DELETE", word>>
  BY <1>1, KeywordAndId DEF sdk_read, sdk_delete
<1>3. QED
  BY <1>2, ParsesIdStatement

(* What is left of a payload argument.                                     *)
LEMMA StrippedIs ==
    ASSUME NEW S, NEW payload \in Seq(S)
    PROVE  \/ /\ \A n \in 1..Len(payload) : payload[n] \in Spaces
              /\ Stripped(payload) = <<>>
           \/ \E a, b \in 1..Len(payload) :
                 /\ a <= b
                 /\ payload[a] # Blank /\ payload[b] \notin Spaces
                 /\ \A n \in 1..Len(payload) :
                       /\ n < a => payload[n] = Blank
                       /\ n > b => payload[n] \in Spaces
                 /\ Stripped(payload) = SubSeq(payload, a, b)
<1> DEFINE starts == {n \in 1..Len(payload) : payload[n] # Blank}
           ends == {n \in 1..Len(payload) : payload[n] \notin Spaces}
<1>1. Stripped(payload) = IF ends = {} THEN <<>>
                          ELSE SubSeq(payload, Min(starts), Max(ends))
  BY DEF Stripped
<1>2. CASE ends = {}
  BY <1>1, <1>2
<1>3. CASE ends # {}
  <2>1. /\ starts \in SUBSET (1..Len(payload))
        /\ ends \in SUBSET (1..Len(payload))
        /\ starts \in SUBSET Nat /\ ends \in SUBSET Nat
        /\ Len(payload) \in Nat
    OBVIOUS
  <2>2. IsFiniteSet(starts) /\ IsFiniteSet(ends)
    BY <2>1, PlacesFinite
  <2>3. ends \subseteq starts
    BY DEF Spaces
  <2> DEFINE a == Min(starts)
             b == Max(ends)
  <2>4. /\ a \in starts /\ \A n \in starts : a <= n
        /\ b \in ends /\ \A n \in ends : n <= b
    <3>1. starts # {}
      BY <1>3, <2>3
    <3> HIDE DEF starts, ends
    <3>2. QED
      BY <1>3, <2>1, <2>2, <3>1, Extremes
  <2> HIDE DEF a, b
  <2>5. /\ a \in 1..Len(payload) /\ b \in 1..Len(payload)
        /\ payload[a] # Blank /\ payload[b] \notin Spaces
    BY <2>4
  <2>6. a <= b
    BY <2>3, <2>4
  <2>7. ASSUME NEW n \in 1..Len(payload)
        PROVE  /\ n < a => payload[n] = Blank
               /\ n > b => payload[n] \in Spaces
    BY <2>4, <2>5
  <2>8. Stripped(payload) = SubSeq(payload, a, b)
    BY <1>1, <1>3 DEF a, b
  <2>9. QED
    BY <2>5, <2>6, <2>7, <2>8
<1>4. QED
  BY <1>2, <1>3

-----------------------------------------------------------------------------
(* The text that write() formats.                                          *)

LEMMA ConcatFacts ==
    ASSUME NEW S, NEW a \in Seq(S), NEW b \in Seq(S)
    PROVE  /\ a \o b \in Seq(S)
           /\ Len(a) \in Nat /\ Len(b) \in Nat
           /\ Len(a \o b) = Len(a) + Len(b)
           /\ \A n \in 1..Len(a) : (a \o b)[n] = a[n]
           /\ \A n \in 1..Len(b) : (a \o b)[n + Len(a)] = b[n]
OBVIOUS

LEMMA PieceFacts ==
    ASSUME NEW S, NEW s \in Seq(S), NEW i \in Nat, NEW j \in Nat,
           1 <= i, i <= j, j <= Len(s)
    PROVE  /\ SubSeq(s, i, j) \in Seq(S)
           /\ Len(SubSeq(s, i, j)) = j - i + 1
           /\ \A n \in 1..(j - i + 1) : SubSeq(s, i, j)[n] = s[i + n - 1]
OBVIOUS

(* Where everything is in it.                                              *)
Layout(text, id, tier, payload) ==
    LET l == Len(id) IN
    /\ l \in Nat /\ Len(payload) \in Nat
    /\ Len(text) = l + 7 + Len(payload)
    /\ text[1] = "WRITE" /\ text[2] = Blank
    /\ \A n \in 1..l : text[n + 2] = id[n]
    /\ text[l + 3] = Blank /\ text[l + 4] = "TIER"
    /\ text[l + 5] = Blank /\ text[l + 6] = tier
    /\ text[l + 7] = Blank
    /\ \A n \in 1..Len(payload) : text[n + (l + 7)] = payload[n]

LEMMA WriteText ==
    ASSUME NEW S, NEW id \in Seq(S), NEW tier, NEW payload \in Seq(S)
    PROVE  /\ sdk_write(id, tier, payload)
                 \in Seq(S \cup {"WRITE", "TIER", tier, Blank})
           /\ Layout(sdk_write(id, tier, payload), id, tier, payload)
<1> DEFINE T == S \cup {"WRITE", "TIER", tier, Blank}
           a == <<"WRITE", Blank>>
           b == <<Blank, "TIER", Blank, tier, Blank>>
<1>1. a \in Seq(T) /\ b \in Seq(T) /\ id \in Seq(T) /\ payload \in Seq(T)
  OBVIOUS
<1>2. /\ Len(a) = 2 /\ a[1] = "WRITE" /\ a[2] = Blank
      /\ Len(b) = 5 /\ b[1] = Blank /\ b[2] = "TIER" /\ b[3] = Blank
      /\ b[4] = tier /\ b[5] = Blank
  OBVIOUS
<1>3. sdk_write(id, tier, payload) = a \o id \o b \o payload
  BY DEF sdk_write
<1> HIDE DEF T, a, b
<1> DEFINE ai == a \o id
           aib == ai \o b
           text == aib \o payload
<1>4. /\ ai \in Seq(T) /\ Len(ai) = Len(id) + 2 /\ Len(id) \in Nat
      /\ ai[1] = "WRITE" /\ ai[2] = Blank
      /\ \A n \in 1..Len(id) : ai[n + 2] = id[n]
  <2>1. /\ ai \in Seq(T) /\ Len(ai) = Len(a) + Len(id) /\ Len(id) \in Nat
        /\ \A n \in 1..Len(a) : ai[n] = a[n]
        /\ \A n \in 1..Len(id) : ai[n + Len(a)] = id[n]
    BY <1>1, ConcatFacts
  <2> HIDE DEF ai
  <2>2. QED
    BY <1>2, <2>1
<1> HIDE DEF ai
<1>5. /\ aib \in Seq(T) /\ Len(aib) = Len(id) + 7
      /\ \A n \in 1..Len(ai) : aib[n] = ai[n]
      /\ \A n \in 1..5 : aib[n + (Len(id) + 2)] = b[n]
  <2>1. /\ aib \in Seq(T) /\ Len(aib) = Len(ai) + Len(b)
        /\ \A n \in 1..Len(ai) : aib[n] = ai[n]
        /\ \A n \in 1..Len(b) : aib[n + Len(ai)] = b[n]
    <3>1. ai \in Seq(T) /\ b \in Seq(T)
      BY <1>1, <1>4
    <3>2. QED
      BY <3>1, ConcatFacts
  <2> HIDE DEF aib
  <2>2. QED
    BY <1>2, <1>4, <2>1
<1> HIDE DEF aib
<1>6. /\ text \in Seq(T) /\ Len(text) = Len(id) + 7 + Len(payload)
      /\ Len(payload) \in Nat
      /\ \A n \in 1..Len(aib) : text[n] = aib[n]
      /\ \A n \in 1..Len(payload) : text[n + (Len(id) + 7)] = payload[n]
  <2>1. /\ text \in Seq(T) /\ Len(text) = Len(aib) + Len(payload)
        /\ Len(payload) \in Nat
        /\ \A n \in 1..Len(aib) : text[n] = aib[n]
        /\ \A n \in 1..Len(payload) : text[n + Len(aib)] = payload[n]
    <3>1. aib \in Seq(T) /\ payload \in Seq(T)
      BY <1>1, <1>5
    <3>2. QED
      BY <3>1, ConcatFacts
  <2> HIDE DEF text
  <2>2. QED
    BY <1>4, <1>5, <2>1
<1> HIDE DEF text
<1>7. text[1] = "WRITE" /\ text[2] = Blank
  BY <1>4, <1>5, <1>6
<1>8. ASSUME NEW n \in 1..Len(id)
      PROVE  text[n + 2] = id[n]
  <2>1. n + 2 \in 1..Len(ai) /\ n + 2 \in 1..Len(aib)
    BY <1>4, <1>5
  <2>2. QED
    BY <1>4, <1>5, <1>6, <2>1
<1>9. ASSUME NEW n \in 1..5
      PROVE  text[n + (Len(id) + 2)] = b[n]
  <2>1. n + (Len(id) + 2) \in 1..Len(aib)
    BY <1>4, <1>5
  <2>2. QED
    BY <1>5, <1>6, <2>1
<1>10. /\ text[Len(id) + 3] = Blank /\ text[Len(id) + 4] = "TIER"
       /\ text[Len(id) + 5] = Blank /\ text[Len(id) + 6] = tier
       /\ text[Len(id) + 7] = Blank
  <2>1. /\ text[1 + (Len(id) + 2)] = b[1] /\ text[2 + (Len(id) + 2)] = b[2]
        /\ text[3 + (Len(id) + 2)] = b[3] /\ text[4 + (Len(id) + 2)] = b[4]
        /\ text[5 + (Len(id) + 2)] = b[5]
    BY <1>9
  <2>2. QED
    BY <1>2, <1>4, <2>1
<1>11. text = sdk_write(id, tier, payload)
  BY <1>3 DEF ai, aib, text
<1>12. Layout(text, id, tier, payload)
  BY <1>4, <1>6, <1>7, <1>8, <1>10 DEF Layout
<1>13. QED
  BY <1>6, <1>11, <1>12 DEF T

(* The first words of a cut of it that ends with the tier or in the        *)
(* payload, for an id without line breaks.                                 *)
LEMMA FourWords ==
    ASSUME NEW S, NEW cut \in Seq(S), NEW l \in Nat, NEW p \in 1..l,
           Len(cut) >= l + 6,
           cut[1] # Blank, cut[p + 2] # Blank, cut[l + 4] # Blank,
           cut[l + 6] # Blank,
           \A n \in 2..(l + 5) : n \notin {p + 2, l + 4} => cut[n] = Blank
    PROVE  LET w == Words(cut)
               q == Places(cut)
               K == {n \in 1..Len(cut) : cut[n] # Blank}
           IN  /\ Len(w) >= 4
               /\ w[1] = cut[1] /\ w[2] = cut[p + 2] /\ w[3] = cut[l + 4]
               /\ w[4] = cut[l + 6]
               /\ InOrder(K)[4] = l + 6 /\ q = InOrder(K)
<1> DEFINE K == {n \in 1..Len(cut) : cut[n] # Blank}
           w == Words(cut)
<1>0. K \in SUBSET Nat /\ IsFiniteSet(K) /\ Cardinality(K) \in Nat
  <2>1. K \in SUBSET (1..Len(cut)) /\ Len(cut) \in Nat
    OBVIOUS
  <2> HIDE DEF K
  <2>2. QED
    BY <2>1, PlacesFinite
<1>1. /\ w \in Seq(S) /\ Len(w) = Cardinality(K)
      /\ Places(cut) = InOrder(K)
      /\ \A n \in 1..Cardinality(K) : w[n] = cut[InOrder(K)[n]]
  BY WordsAre
<1>2. Len(cut) \in Nat
  OBVIOUS
<1>3. 1 \in K /\ p + 2 \in K /\ l + 4 \in K /\ l + 6 \in K
  <2>1. \A n \in {1, p + 2, l + 4, l + 6} : n \in 1..Len(cut) /\ cut[n] # Blank
    BY <1>2
  <2>2. QED
    BY <2>1
<1>4. ASSUME NEW n \in K
      PROVE  n \in Nat /\ (n = 1 \/ n = p + 2 \/ n = l + 4 \/ n >= l + 6)
  <2>1. n \in 1..Len(cut) /\ cut[n] # Blank
    OBVIOUS
  <2>2. n \in 2..(l + 5) => n \in {p + 2, l + 4}
    BY <2>1
  <2>3. n \in Nat /\ (n = 1 \/ n \in 2..(l + 5) \/ n >= l + 6)
    BY <1>2, <2>1
  <2>4. QED
    BY <2>2, <2>3
<1>5. p \in Nat /\ p >= 1 /\ p + 2 < l + 4
  OBVIOUS
<1> HIDE DEF K, w
<1>6. Cardinality(K) >= 1 /\ InOrder(K)[1] = 1
  <2>1. \A n \in K : 1 <= n
    BY <1>4, <1>5
  <2>2. QED
    BY <1>0, <1>3, <2>1, InOrderFirst
<1>7. Cardinality(K) >= 2 /\ InOrder(K)[2] = p + 2
  <2>1. p + 2 > 1 /\ \A n \in K : n > 1 => p + 2 <= n
    BY <1>4, <1>5
  <2>2. QED
    BY <1>0, <1>3, <1>6, <2>1, InOrderNext
<1>8. Cardinality(K) >= 3 /\ InOrder(K)[3] = l + 4
  <2>1. p + 2 \in Nat /\ l + 4 > p + 2 /\ l + 4 <= l + 6
    BY <1>5
  <2>2. ASSUME NEW n \in K, n > p + 2
        PROVE  l + 4 <= n
    <3>1. n \in Nat /\ (n = l + 4 \/ n >= l + 6)
      BY <1>4, <1>5, <2>2
    <3>2. QED
      BY <3>1
  <2>3. /\ 2 \in 1..Cardinality(K) /\ InOrder(K)[2] < l + 4
        /\ \A n \in K : n > InOrder(K)[2] => l + 4 <= n
    BY <1>0, <1>7, <2>1, <2>2
  <2>4. QED
    BY <1>0, <1>3, <2>3, InOrderNext
<1>9. Cardinality(K) >= 4 /\ InOrder(K)[4] = l + 6
  <2>1. l + 6 > l + 4 /\ 4 \in Nat
    OBVIOUS
  <2>2. \A n \in K : n > l + 4 => l + 6 <= n
    BY <1>4, <1>5
  <2>3. QED
    BY <1>0, <1>3, <1>8, <2>1, <2>2, InOrderNext
<1>10. {1, 2, 3, 4} \subseteq 1..Cardinality(K)
  BY <1>0, <1>9
<1>11. /\ w[1] = cut[1] /\ w[2] = cut[p + 2] /\ w[3] = cut[l + 4]
       /\ w[4] = cut[l + 6]
  BY <1>1, <1>6, <1>7, <1>8, <1>9, <1>10
<1>12. QED
  BY <1>1, <1>9, <1>11 DEF K, w

(* What parse() refuses: a line break in the id.                           *)
LEMMA BrokenIdFitsNothing ==
    ASSUME NEW S, NEW cut \in Seq(S), NEW l \in Nat, NEW p \in Nat,
           Len(cut) >= l + 6, cut[1] = "WRITE", cut[2] = Blank,
           \A k \in 1..l : k # p => cut[k + 2] \in Spaces,
           NEW k \in 1..l, cut[k + 2] = NewLine
    PROVE  write_stmt(cut, Words(cut)) = {}
<1> DEFINE K == {n \in 1..Len(cut) : cut[n] # Blank}
           q == InOrder(K)
           c == Cardinality(K)
           w == Words(cut)
           rule == <<{"WRITE"}, id_words, {"TIER"}, TierWords>>
<1> SUFFICES ASSUME Len(w) > 4, Fits(SubSeq(w, 1, 4), rule)
             PROVE  FALSE
  BY DEF write_stmt
<1>1. K \in SUBSET Nat /\ IsFiniteSet(K)
  <2>1. K \in SUBSET (1..Len(cut)) /\ Len(cut) \in Nat
    OBVIOUS
  <2> HIDE DEF K
  <2>2. QED
    BY <2>1, PlacesFinite
<1>2. /\ w \in Seq(S) /\ Len(w) = c
      /\ \A n \in 1..c : q[n] \in K /\ w[n] = cut[q[n]]
  <2>1. w \in Seq(S) /\ Len(w) = c
    BY WordsAre
  <2>2. \A n \in 1..c : q[n] \in K /\ w[n] = cut[q[n]]
    BY WordsAre
  <2>3. QED
    BY <2>1, <2>2
<1>3. /\ c \in Nat
      /\ \A i, j \in 1..c : i < j => q[i] < q[j]
      /\ \A a \in K : \E i \in 1..c : q[i] = a
  BY <1>1, InOrderLists
<1>4. w[2] \in id_words /\ w[3] = "TIER"
  <2>1. Len(rule) = 4 /\ rule[2] = id_words /\ rule[3] = {"TIER"}
    OBVIOUS
  <2> HIDE DEF rule, w
  <2>2. /\ SubSeq(w, 1, 4)[2] \in rule[2]
        /\ SubSeq(w, 1, 4)[3] \in rule[3]
    BY <2>1 DEF Fits
  <2>3. SubSeq(w, 1, 4)[2] = w[2] /\ SubSeq(w, 1, 4)[3] = w[3]
    BY <1>2
  <2>4. QED
    BY <2>1, <2>2, <2>3
<1>5. /\ w[2] \notin Spaces /\ w[3] \notin Spaces
      /\ Blank \in Spaces /\ NewLine \in Spaces /\ "WRITE" \notin Spaces
  BY <1>4, WordsAssumption DEF AllWords, id_words, Keywords, Spaces
<1>6. Len(cut) \in Nat /\ \A n \in K : n \in 1..Len(cut) /\ cut[n] # Blank
  OBVIOUS
<1>7. 1 \in K /\ k + 2 \in K
  <2>1. k + 2 \in 1..Len(cut) /\ 1 \in 1..Len(cut)
    BY <1>6
  <2>2. cut[k + 2] # Blank
    <3>1. Blank # NewLine
      BY WordsAssumption
    <3>2. QED
      BY <3>1
  <2>3. QED
    BY <1>5, <2>1, <2>2
<1> HIDE DEF K, q, c, w
<1>8. PICK i \in 1..c : q[i] = k + 2
  BY <1>3, <1>7
<1>9. 1 \in 1..c /\ 2 \in 1..c /\ 3 \in 1..c
  BY <1>2, <1>3
<1>10. q[1] = 1
  <2>1. \A n \in K : 1 <= n
    BY <1>6
  <2>2. QED
    BY <1>1, <1>7, <2>1, InOrderFirst DEF q
<1>11. /\ q[2] \in K /\ q[3] \in K /\ w[2] = cut[q[2]] /\ w[3] = cut[q[3]]
       /\ q[1] < q[2] /\ q[2] < q[3] /\ w[i] = NewLine
  BY <1>2, <1>3, <1>8, <1>9
<1>12. i # 1 /\ i # 2 /\ i # 3
  BY <1>5, <1>8, <1>10, <1>11
<1>13. q[3] < k + 2
  <2>1. 3 < i
    BY <1>3, <1>12
  <2>2. QED
    BY <1>3, <1>8, <1>9, <2>1
<1>14. ASSUME NEW n \in {q[2], q[3]}
       PROVE  n = p + 2
  <2>0. /\ n \in K /\ 1 < n /\ n < k + 2
        /\ cut[n] = w[2] \/ cut[n] = w[3]
    <3>1. q[2] \in Nat /\ q[3] \in Nat /\ k + 2 \in Nat
      BY <1>6, <1>11
    <3>2. CASE n = q[2]
      BY <1>10, <1>11, <1>13, <3>1, <3>2
    <3>3. CASE n = q[3]
      BY <1>10, <1>11, <1>13, <3>1, <3>3
    <3>4. QED
      BY <3>2, <3>3
  <2>1. n \in 1..Len(cut) /\ cut[n] # Blank /\ cut[n] \notin Spaces
    BY <1>5, <1>6, <2>0
  <2>2. 1 < n /\ n < l + 2
    BY <2>0, <2>1
  <2>3. n - 2 \in 1..l /\ n = (n - 2) + 2
    BY <2>1, <2>2
  <2>4. n - 2 # p => cut[(n - 2) + 2] \in Spaces
    BY <2>3
  <2>5. QED
    BY <2>1, <2>3, <2>4
<1>15. q[2] # q[3]
  BY <1>6, <1>11
<1>16. QED
  BY <1>14, <1>15

(* What trim() leaves of the text of a write.                              *)
LEMMA WriteTrims ==
    ASSUME NEW S, NEW id \in Seq(S), NEW tier \in TierWords,
           NEW payload \in Seq(S)
    PROVE  LET text == sdk_write(id, tier, payload)
               l == Len(id)
           IN  /\ (\A n \in 1..Len(payload) : payload[n] \in Spaces) =>
                      trim(text) = SubSeq(text, 1, l + 6)
               /\ \A b \in 1..Len(payload) :
                    (/\ payload[b] \notin Spaces
                     /\ \A n \in 1..Len(payload) :
                            n > b => payload[n] \in Spaces)
                    => trim(text) = SubSeq(text, 1, l + 7 + b)
<1> DEFINE T == S \cup {"WRITE", "TIER", tier, Blank}
           text == sdk_write(id, tier, payload)
           l == Len(id)
<1>0. text \in Seq(T) /\ Layout(text, id, tier, payload)
  BY WriteText
<1> HIDE DEF text, T
<1>1. /\ l \in Nat /\ Len(payload) \in Nat
      /\ Len(text) = l + 7 + Len(payload)
      /\ text[1] = "WRITE" /\ text[l + 6] = tier /\ text[l + 7] = Blank
      /\ \A n \in 1..Len(payload) : text[n + (l + 7)] = payload[n]
  BY <1>0 DEF Layout
<1> HIDE DEF l
<1>2. "WRITE" \notin Spaces /\ tier \notin Spaces /\ Blank \in Spaces
  BY WordsAssumption DEF AllWords, id_words, Keywords, Spaces
<1>3. ASSUME NEW n \in 1..Len(text), n > l + 7
      PROVE  n - (l + 7) \in 1..Len(payload)
             /\ text[n] = payload[n - (l + 7)]
  <2>1. n - (l + 7) \in 1..Len(payload) /\ n = (n - (l + 7)) + (l + 7)
    BY <1>1, <1>3
  <2>2. QED
    BY <1>1, <2>1
<1>4. ASSUME \A n \in 1..Len(payload) : payload[n] \in Spaces
      PROVE  trim(text) = SubSeq(text, 1, l + 6)
  <2>1. ASSUME NEW n \in 1..Len(text), n > l + 6
        PROVE  text[n] \in Spaces
    <3>1. CASE n = l + 7
      BY <1>1, <1>2, <3>1
    <3>2. CASE n > l + 7
      BY <1>3, <1>4, <3>2
    <3>3. QED
      BY <1>1, <2>1, <3>1, <3>2
  <2>2. l + 6 \in 1..Len(text)
    BY <1>1
  <2>3. QED
    BY <1>0, <1>1, <1>2, <2>1, <2>2, TrimCuts
<1>5. ASSUME NEW b \in 1..Len(payload), payload[b] \notin Spaces,
             \A n \in 1..Len(payload) : n > b => payload[n] \in Spaces
      PROVE  trim(text) = SubSeq(text, 1, l + 7 + b)
  <2> DEFINE m == l + 7 + b
  <2>1. m \in 1..Len(text) /\ m > l + 7 /\ m - (l + 7) = b
    BY <1>1
  <2> HIDE DEF m
  <2>2. text[m] = payload[b]
    BY <1>3, <2>1
  <2>3. ASSUME NEW n \in 1..Len(text), n > m
        PROVE  text[n] \in Spaces
    <3>1. n > l + 7 /\ n - (l + 7) > b
      BY <1>1, <2>1, <2>3
    <3>2. n - (l + 7) \in 1..Len(payload) /\ text[n] = payload[n - (l + 7)]
      BY <1>3, <3>1
    <3>3. QED
      BY <1>5, <3>1, <3>2
  <2>4. trim(text) = SubSeq(text, 1, m)
    BY <1>0, <1>1, <1>2, <1>5, <2>1, <2>2, <2>3, TrimCuts
  <2>5. QED
    BY <2>4 DEF m
<1>6. QED
  BY <1>4, <1>5 DEF text, l

(* What write_stmt makes of a cut with its five or more words in place.    *)
WriteOf(cut, l, word, tier) ==
    /\ Len(cut) = l + 6 => write_stmt(cut, Words(cut)) = {}
    /\ \A a \in 1..(Len(cut) - (l + 7)) :
          (/\ cut[a + (l + 7)] # Blank
           /\ \A n \in (l + 7)..(a + (l + 6)) : cut[n] = Blank)
          => LET line == SubSeq(cut, a + (l + 7), Len(cut)) IN
             write_stmt(cut, Words(cut)) =
               IF \A n \in 1..Len(line) : line[n] # NewLine
               THEN {[stmt |-> "Write", id |-> word, tier |-> tier,
                      payload |-> line, auto_embed |-> FALSE]}
               ELSE {}

LEMMA WriteFits ==
    ASSUME NEW S, NEW cut \in Seq(S), NEW l \in Nat, NEW p \in 1..l,
           NEW word \in id_words, NEW tier \in TierWords,
           Len(cut) >= l + 6,
           cut[1] = "WRITE", cut[p + 2] = word, cut[l + 4] = "TIER",
           cut[l + 6] = tier,
           \A n \in 2..(l + 5) : n \notin {p + 2, l + 4} => cut[n] = Blank
    PROVE  WriteOf(cut, l, word, tier)
<1> DEFINE K == {n \in 1..Len(cut) : cut[n] # Blank}
           w == Words(cut)
           rule == <<{"WRITE"}, id_words, {"TIER"}, TierWords>>
<1>1. "WRITE" # Blank /\ word # Blank /\ "TIER" # Blank /\ tier # Blank
  BY WordsAssumption DEF AllWords, id_words, Keywords, Spaces
<1>2. /\ Len(w) >= 4
      /\ w[1] = "WRITE" /\ w[2] = word /\ w[3] = "TIER" /\ w[4] = tier
      /\ InOrder(K)[4] = l + 6 /\ Places(cut) = InOrder(K)
  BY <1>1, FourWords
<1>3. K \in SUBSET Nat /\ IsFiniteSet(K) /\ Cardinality(K) \in Nat
  BY WordsAre
<1>4. w \in Seq(S) /\ Len(w) = Cardinality(K)
  BY WordsAre
<1>5. Len(cut) \in Nat
  OBVIOUS
<1>6. \A n \in K : n \in 1..Len(cut) /\ cut[n] # Blank
  OBVIOUS
<1>7. Fits(SubSeq(w, 1, 4), rule)
  <2>1. /\ Len(rule) = 4 /\ rule[1] = {"WRITE"} /\ rule[2] = id_words
        /\ rule[3] = {"TIER"} /\ rule[4] = TierWords
    OBVIOUS
  <2>2. /\ Len(SubSeq(w, 1, 4)) = 4
        /\ \A n \in 1..4 : SubSeq(w, 1, 4)[n] = w[n]
    BY <1>2, <1>4
  <2> HIDE DEF rule, w
  <2>3. ASSUME NEW n \in 1..4
        PROVE  SubSeq(w, 1, 4)[n] \in rule[n]
    <3>1. n = 1 \/ n = 2 \/ n = 3 \/ n = 4
      OBVIOUS
    <3>2. QED
      BY <1>2, <2>1, <2>2, <3>1
  <2>4. QED
    BY <2>1, <2>2, <2>3 DEF Fits
<1>8. write_stmt(cut, w) =
        LET line == SubSeq(cut, InOrder(K)[5], Len(cut)) IN
        IF Len(w) > 4 /\ \A n \in 1..Len(line) : line[n] # NewLine
        THEN {[stmt |-> "Write", id |-> word, tier |-> tier,
               payload |-> line, auto_embed |-> FALSE]}
        ELSE {}
  BY <1>2, <1>7 DEF write_stmt
<1> HIDE DEF K, w
<1>9. ASSUME Len(cut) = l + 6
      PROVE  write_stmt(cut, w) = {}
  <2>1. 4 \in 1..Cardinality(K)
    BY <1>2, <1>3, <1>4
  <2>2. \A n \in K : n <= InOrder(K)[4]
    BY <1>2, <1>6, <1>9
  <2>3. Len(w) = 4
    BY <1>3, <1>4, <2>1, <2>2, InOrderLast
  <2>4. QED
    BY <1>8, <2>3
<1>10. ASSUME NEW a \in 1..(Len(cut) - (l + 7)),
              cut[a + (l + 7)] # Blank,
              \A n \in (l + 7)..(a + (l + 6)) : cut[n] = Blank
       PROVE  Len(w) > 4 /\ InOrder(K)[5] = a + (l + 7)
  <2> DEFINE m == a + (l + 7)
  <2>1. m \in 1..Len(cut) /\ m > l + 6 /\ m - 1 = a + (l + 6)
    BY <1>5
  <2>2. m \in K
    BY <1>10, <2>1 DEF K
  <2>3. ASSUME NEW n \in K, n > l + 6
        PROVE  m <= n
    <3>1. n \in Nat /\ m \in Nat /\ l + 6 \in Nat
      BY <1>6, <2>1
    <3>2. n \notin (l + 7)..(a + (l + 6))
      BY <1>6, <1>10
    <3> HIDE DEF m
    <3>3. QED
      BY <2>1, <2>3, <3>1, <3>2
  <2> HIDE DEF m
  <2>4. 4 <= Cardinality(K)
    BY <1>2, <1>4
  <2>5. Cardinality(K) >= 5 /\ InOrder(K)[5] = m
    <3>1. InOrder(K)[4] = l + 6
      BY <1>2
    <3>2. m > InOrder(K)[4] /\ \A n \in K : n > InOrder(K)[4] => m <= n
      BY <2>1, <2>3, <3>1
    <3>3. 4 \in 1..Cardinality(K)
      BY <1>3, <2>4
    <3>4. Cardinality(K) >= 4 + 1 /\ InOrder(K)[4 + 1] = m
      BY <1>3, <2>2, <3>2, <3>3, InOrderNext
    <3>5. QED
      BY <3>4
  <2>6. QED
    BY <1>3, <1>4, <2>5 DEF m
<1>11. QED
  BY <1>8, <1>9, <1>10 DEF w, WriteOf

(* What is left of the text of a write after trim(): the text up to its    *)
(* tier or up to a place in its payload.                                   *)
CutOf(cut, id, tier, payload, m) ==
    /\ Len(cut) = m /\ m >= Len(id) + 6
    /\ cut[1] = "WRITE" /\ cut[2] = Blank
    /\ \A n \in 1..Len(id) : cut[n + 2] = id[n]
    /\ cut[Len(id) + 3] = Blank /\ cut[Len(id) + 4] = "TIER"
    /\ cut[Len(id) + 5] = Blank /\ cut[Len(id) + 6] = tier
    /\ m > Len(id) + 6 => cut[Len(id) + 7] = Blank
    /\ \A n \in 1..(m - (Len(id) + 7)) :
          cut[n + (Len(id) + 7)] = payload[n]

LEMMA CutIs ==
    ASSUME NEW S, NEW id \in Seq(S), NEW tier \in TierWords,
           NEW payload \in Seq(S),
           NEW m \in (Len(id) + 6)..(Len(id) + 7 + Len(payload))
    PROVE  LET T == S \cup {"WRITE", "TIER", tier, Blank}
               cut == SubSeq(sdk_write(id, tier, payload), 1, m)
           IN  cut \in Seq(T) /\ CutOf(cut, id, tier, payload, m)
<1> DEFINE T == S \cup {"WRITE", "TIER", tier, Blank}
           text == sdk_write(id, tier, payload)
           cut == SubSeq(text, 1, m)
           l == Len(id)
<1>1. text \in Seq(T) /\ Layout(text, id, tier, payload)
  BY WriteText
<1>2. l \in Nat /\ Len(payload) \in Nat /\ m \in Nat /\ m >= l + 6
      /\ m <= l + 7 + Len(payload)
  OBVIOUS
<1> HIDE DEF T, text
<1>3. Len(text) = l + 7 + Len(payload)
  BY <1>1 DEF Layout
<1>4. cut \in Seq(T) /\ Len(cut) = m /\ \A n \in 1..m : cut[n] = text[n]
  BY <1>1, <1>2, <1>3
<1> HIDE DEF cut
<1>5. /\ text[1] = "WRITE" /\ text[2] = Blank
      /\ \A n \in 1..l : text[n + 2] = id[n]
      /\ text[l + 3] = Blank /\ text[l + 4] = "TIER"
      /\ text[l + 5] = Blank /\ text[l + 6] = tier
      /\ text[l + 7] = Blank
      /\ \A n \in 1..Len(payload) : text[n + (l + 7)] = payload[n]
  BY <1>1 DEF Layout
<1> HIDE DEF l
<1>6. \A n \in {1, 2, l + 3, l + 4, l + 5, l + 6} : n \in 1..m
  BY <1>2
<1>7. \A n \in 1..l : cut[n + 2] = id[n]
  <2>1. \A n \in 1..l : n + 2 \in 1..m
    BY <1>2
  <2>2. QED
    BY <1>4, <1>5, <2>1
<1>8. m > l + 6 => cut[l + 7] = Blank
  BY <1>2, <1>4, <1>5
<1>9. \A n \in 1..(m - (l + 7)) : cut[n + (l + 7)] = payload[n]
  <2>1. \A n \in 1..(m - (l + 7)) :
           n + (l + 7) \in 1..m /\ n \in 1..Len(payload)
    BY <1>2
  <2>2. QED
    BY <1>4, <1>5, <2>1
<1>10. CutOf(cut, id, tier, payload, m)
  <2>1. /\ cut[1] = "WRITE" /\ cut[2] = Blank /\ cut[l + 3] = Blank
        /\ cut[l + 4] = "TIER" /\ cut[l + 5] = Blank /\ cut[l + 6] = tier
    BY <1>4, <1>5, <1>6
  <2>2. QED
    BY <1>2, <1>4, <1>7, <1>8, <1>9, <2>1 DEF CutOf, l
<1>11. QED
  BY <1>4, <1>10 DEF cut, text, T

(* Such a cut is a write statement or nothing.                             *)
LEMMA CutIsWrite ==
    ASSUME NEW S, NEW cut \in Seq(S), NEW id, NEW tier, NEW payload, NEW m,
           CutOf(cut, id, tier, payload, m), Len(id) \in Nat
    PROVE  statements(cut) = write_stmt(cut, Words(cut))
<1> DEFINE K == {n \in 1..Len(cut) : cut[n] # Blank}
<1>1. cut[1] = "WRITE" /\ Len(cut) >= 1 /\ Len(cut) \in Nat
  BY DEF CutOf
<1>2. "WRITE" # Blank
  BY WordsAssumption DEF AllWords, id_words, Keywords, Spaces
<1>3. 1 \in K /\ \A n \in K : 1 <= n
  BY <1>1, <1>2
<1>4. /\ K \in SUBSET Nat /\ IsFiniteSet(K)
      /\ \A n \in 1..Cardinality(K) : Words(cut)[n] = cut[InOrder(K)[n]]
  BY WordsAre
<1> HIDE DEF K
<1>5. Cardinality(K) >= 1 /\ InOrder(K)[1] = 1 /\ Cardinality(K) \in Nat
  <2>1. Cardinality(K) \in Nat
    BY <1>4, FS_CardinalityType
  <2>2. QED
    BY <1>3, <1>4, <2>1, InOrderFirst
<1>6. Words(cut)[1] = "WRITE"
  <2>1. 1 \in 1..Cardinality(K)
    BY <1>5
  <2>2. QED
    BY <1>1, <1>4, <1>5, <2>1
<1>7. QED
  BY <1>6, OnlyWrites

(* parse() of the text of a write, for every payload and every id argument *)
(* of one word.                                                            *)
LEMMA WriteParses ==
    ASSUME NEW S, NEW word \in id_words, NEW id \in Seq(S), NEW p \in Nat,
           IdArgument(id, word, p),
           NEW tier \in TierWords, NEW payload \in Seq(S)
    PROVE  parse(sdk_write(id, tier, payload)) =
               IF Broken(id) \/ ~OneLine(Stripped(payload))
               THEN Refused
               ELSE [stmt |-> "Write", id |-> word, tier |-> tier,
                     payload |-> Stripped(payload), auto_embed |-> FALSE]
<1> DEFINE T == S \cup {"WRITE", "TIER", tier, Blank}
           text == sdk_write(id, tier, payload)
           cut == trim(text)
           l == Len(id)
           kept == Stripped(payload)
           found == write_stmt(cut, Words(cut))
<1>1. /\ l \in Nat /\ Len(payload) \in Nat /\ p \in 1..l /\ id[p] = word
      /\ \A n \in 1..l : n # p => id[n] \in Spaces
  BY DEF IdArgument
<1> HIDE DEF T, text, cut, l, kept
<1>2. PICK m \in (l + 6)..(l + 7 + Len(payload)) :
        /\ cut = SubSeq(text, 1, m)
        /\ \/ m = l + 6 /\ kept = <<>>
           \/ \E a, b \in 1..Len(payload) :
                 /\ m = l + 7 + b
                 /\ a <= b /\ payload[a] # Blank
                 /\ \A n \in 1..Len(payload) : n < a => payload[n] = Blank
                 /\ kept = SubSeq(payload, a, b)
  <2>1. CASE /\ \A n \in 1..Len(payload) : payload[n] \in Spaces
             /\ kept = <<>>
    <3>1. cut = SubSeq(text, 1, l + 6)
      BY <2>1, WriteTrims DEF cut, text, l
    <3>2. l + 6 \in (l + 6)..(l + 7 + Len(payload))
      BY <1>1
    <3>3. QED
      BY <2>1, <3>1, <3>2
  <2>2. ASSUME NEW a \in 1..Len(payload), NEW b \in 1..Len(payload),
               a <= b, payload[a] # Blank, payload[b] \notin Spaces,
               \A n \in 1..Len(payload) :
                  /\ n < a => payload[n] = Blank
                  /\ n > b => payload[n] \in Spaces,
               kept = SubSeq(payload, a, b)
        PROVE  /\ l + 7 + b \in (l + 6)..(l + 7 + Len(payload))
               /\ cut = SubSeq(text, 1, l + 7 + b)
    <3>1. l + 7 + b \in (l + 6)..(l + 7 + Len(payload))
      BY <1>1
    <3>2. cut = SubSeq(text, 1, l + 7 + b)
      BY <2>2, WriteTrims DEF cut, text, l
    <3>3. QED
      BY <3>1, <3>2
  <2>3. \/ /\ \A n \in 1..Len(payload) : payload[n] \in Spaces
           /\ kept = <<>>
        \/ \E a, b \in 1..Len(payload) :
              /\ a <= b
              /\ payload[a] # Blank /\ payload[b] \notin Spaces
              /\ \A n \in 1..Len(payload) :
                    /\ n < a => payload[n] = Blank
                    /\ n > b => payload[n] \in Spaces
              /\ kept = SubSeq(payload, a, b)
    BY StrippedIs DEF kept
  <2>4. QED
    BY <2>1, <2>2, <2>3
<1>3. cut \in Seq(T) /\ CutOf(cut, id, tier, payload, m)
  BY <1>2, CutIs DEF cut, text, l, T
<1>4. /\ Len(cut) = m /\ m >= l + 6 /\ m \in Nat
      /\ cut[1] = "WRITE" /\ cut[2] = Blank
      /\ \A n \in 1..l : cut[n + 2] = id[n]
      /\ cut[l + 3] = Blank /\ cut[l + 4] = "TIER"
      /\ cut[l + 5] = Blank /\ cut[l + 6] = tier
      /\ m > l + 6 => cut[l + 7] = Blank
      /\ \A n \in 1..(m - (l + 7)) : cut[n + (l + 7)] = payload[n]
  <2>1. m \in Nat
    BY <1>1
  <2>2. QED
    BY <1>3, <2>1 DEF CutOf, l
<1>5. statements(cut) = found
  BY <1>1, <1>3, CutIsWrite DEF l
<1>6. parse(text) = IF found = {} THEN Refused
                    ELSE CHOOSE statement \in found : TRUE
  BY <1>5 DEF parse, cut
<1>7. CASE Broken(id)
  <2>1. PICK k \in 1..l : id[k] = NewLine
    BY <1>7 DEF Broken, l
  <2>2. cut[k + 2] = NewLine
    BY <1>4, <2>1
  <2>3. \A n \in 1..l : n # p => cut[n + 2] \in Spaces
    BY <1>1, <1>4
  <2>4. found = {}
    BY <1>1, <1>3, <1>4, <2>2, <2>3, BrokenIdFitsNothing
  <2>5. QED
    BY <1>6, <1>7, <2>4 DEF text
<1>8. CASE ~Broken(id)
  <2>1. \A n \in 1..l : n # p => id[n] = Blank
    BY <1>1, <1>8 DEF Broken, l, Spaces
  <2>2. \A n \in 2..(l + 5) : n \notin {p + 2, l + 4} => cut[n] = Blank
    <3>1. SUFFICES ASSUME NEW n \in 2..(l + 5), n # p + 2, n # l + 4
                   PROVE  cut[n] = Blank
      OBVIOUS
    <3>2. n = 2 \/ n = l + 3 \/ n = l + 5 \/ n - 2 \in 1..l
      BY <1>1, <3>1
    <3>3. ASSUME n - 2 \in 1..l
          PROVE  cut[n] = Blank
      <4>1. n - 2 # p /\ n = (n - 2) + 2
        BY <1>1, <3>1
      <4>2. QED
        BY <1>4, <2>1, <3>3, <4>1
    <3>4. QED
      BY <1>4, <3>2, <3>3
  <2>3. cut[p + 2] = word
    BY <1>1, <1>4
  <2>4. WriteOf(cut, l, word, tier)
    <3>1. /\ cut \in Seq(T) /\ l \in Nat /\ p \in 1..l /\ Len(cut) >= l + 6
          /\ cut[1] = "WRITE" /\ cut[p + 2] = word /\ cut[l + 4] = "TIER"
          /\ cut[l + 6] = tier
      BY <1>1, <1>3, <1>4, <2>3
    <3>2. QED
      BY <2>2, <3>1, WriteFits
  <2>5. CASE m = l + 6 /\ kept = <<>>
    <3>1. found = {}
      BY <1>4, <2>5, <2>4 DEF WriteOf
    <3>2. QED
      BY <1>6, <2>5, <3>1 DEF OneLine, text, kept
  <2>6. ASSUME NEW a \in 1..Len(payload), NEW b \in 1..Len(payload),
               m = l + 7 + b, a <= b, payload[a] # Blank,
               \A n \in 1..Len(payload) : n < a => payload[n] = Blank,
               kept = SubSeq(payload, a, b)
        PROVE  parse(text) =
                 IF ~OneLine(kept) THEN Refused
                 ELSE [stmt |-> "Write", id |-> word, tier |-> tier,
                       payload |-> kept, auto_embed |-> FALSE]
    <3> DEFINE line == SubSeq(cut, a + (l + 7), Len(cut))
    <3>1. a \in 1..(Len(cut) - (l + 7)) /\ m > l + 6
      BY <1>1, <1>4, <2>6
    <3>2. cut[a + (l + 7)] # Blank
      BY <1>4, <2>6, <3>1
    <3>3. ASSUME NEW n \in (l + 7)..(a + (l + 6))
          PROVE  cut[n] = Blank
      <4>1. CASE n = l + 7
        BY <1>4, <3>1, <4>1
      <4>2. CASE n > l + 7
        <5>1. /\ n - (l + 7) \in 1..(m - (l + 7))
              /\ n - (l + 7) \in 1..Len(payload) /\ n - (l + 7) < a
              /\ n = (n - (l + 7)) + (l + 7)
          BY <1>1, <2>6, <4>2
        <5>2. QED
          BY <1>4, <2>6, <5>1
      <4>3. QED
        BY <1>1, <4>1, <4>2
    <3>4. line = kept
      <4>1. kept \in Seq(S) /\ Len(kept) = b - a + 1
            /\ \A n \in 1..(b - a + 1) : kept[n] = payload[a + n - 1]
        BY <1>1, <2>6
      <4>2. /\ line \in Seq(T) /\ Len(line) = b - a + 1
            /\ \A n \in 1..(b - a + 1) : line[n] = cut[a + (l + 7) + n - 1]
        <5>1. PICK i \in Nat : i = a + (l + 7)
          BY <1>1
        <5>2. /\ cut \in Seq(T) /\ Len(cut) = m
              /\ m \in Nat /\ 1 <= i /\ i <= m
          BY <1>1, <1>3, <1>4, <2>6, <5>1
        <5>3. m - i + 1 = b - a + 1
          BY <1>1, <2>6, <5>1
        <5> DEFINE piece == SubSeq(cut, i, m)
        <5>4. /\ piece \in Seq(T) /\ Len(piece) = m - i + 1
              /\ \A n \in 1..(m - i + 1) : piece[n] = cut[i + n - 1]
          BY <5>2, PieceFacts
        <5>5. line = piece
          BY <5>1, <5>2
        <5> HIDE DEF piece, line
        <5>6. QED
          BY <5>1, <5>3, <5>4, <5>5
      <4>5. kept \in Seq(T)
        BY <4>1 DEF T
      <4> HIDE DEF line
      <4>3. ASSUME NEW n \in 1..(b - a + 1)
            PROVE  line[n] = kept[n]
        <5>1. a + n - 1 \in 1..(m - (l + 7))
              /\ a + (l + 7) + n - 1 = (a + n - 1) + (l + 7)
          BY <1>1, <2>6
        <5>2. line[n] = cut[(a + n - 1) + (l + 7)]
          BY <4>2, <5>1
        <5>3. line[n] = payload[a + n - 1]
          BY <1>4, <5>1, <5>2
        <5>4. QED
          BY <4>1, <5>3
      <4>4. QED
        BY <4>1, <4>2, <4>3, <4>5, SeqEqual
    <3>5. found = IF \A n \in 1..Len(line) : line[n] # NewLine
                  THEN {[stmt |-> "Write", id |-> word, tier |-> tier,
                         payload |-> line, auto_embed |-> FALSE]}
                  ELSE {}
      BY <2>4, <3>1, <3>2, <3>3 DEF WriteOf
    <3>6. kept # <<>>
      <4>1. Len(kept) = b - a + 1
        BY <1>1, <2>6
      <4>2. Len(kept) > 0
        BY <2>6, <4>1
      <4>3. QED
        BY <4>2
    <3> HIDE DEF line, found
    <3>7. QED
      BY <1>6, <3>4, <3>5, <3>6 DEF OneLine, Broken
  <2>7. QED
    BY <1>2, <1>8, <2>5, <2>6 DEF text, kept
<1>9. QED
  BY <1>7, <1>8

(* write(), read() and delete() mean what their arguments say, however     *)
(* long the payload is.                                                    *)
LEMMA TextIsKept == StatementsKeepText
<1> SUFFICES ASSUME NEW word \in IdWords \cup {"TIER"},
                    NEW before \in Around, NEW after \in Around
             PROVE  LET id == before \o <<word>> \o after IN
                    /\ \A tier \in TierWords,
                         payload \in BoundedSeq(PayloadWords, MaxPayload) :
                          LET kept == Stripped(payload) IN
                          parse(sdk_write(id, tier, payload)) =
                              IF Broken(id) \/ ~OneLine(kept)
                              THEN Refused
                              ELSE [stmt |-> "Write", id |-> word,
                                    tier |-> tier, payload |-> kept,
                                    auto_embed |-> FALSE]
                    /\ ~Broken(id) =>
                          /\ parse(sdk_read(id)) =
                                 [stmt |-> "Read", id |-> word]
                          /\ parse(sdk_delete(id)) =
                                 [stmt |-> "Delete", id |-> word]
  BY DEF StatementsKeepText
<1> DEFINE id == before \o <<word>> \o after
           S == {word} \cup Spaces \cup PayloadWords
<1>1. word \in id_words
  BY DEF id_words, Keywords
<1>2. id \in Seq({word} \cup Spaces) /\ \E p \in Nat : IdArgument(id, word, p)
  BY AroundId
<1> HIDE DEF id
<1>3. id \in Seq(S)
  BY <1>2
<1>4. PICK p \in Nat : IdArgument(id, word, p)
  BY <1>2
<1>5. ASSUME NEW tier \in TierWords,
             NEW payload \in BoundedSeq(PayloadWords, MaxPayload)
      PROVE  parse(sdk_write(id, tier, payload)) =
               IF Broken(id) \/ ~OneLine(Stripped(payload))
               THEN Refused
               ELSE [stmt |-> "Write", id |-> word, tier |-> tier,
                     payload |-> Stripped(payload), auto_embed |-> FALSE]
  <2>1. payload \in Seq(PayloadWords)
    <3>1. PICK n \in 0..MaxPayload : payload \in [1..n -> PayloadWords]
      BY DEF BoundedSeq, SeqOf
    <3>2. QED
      BY <3>1, WordsAssumption
  <2>2. payload \in Seq(S)
    BY <2>1
  <2> HIDE DEF S
  <2>3. QED
    BY <1>1, <1>3, <1>4, <2>2, WriteParses
<1>6. ~Broken(id) =>
          /\ parse(sdk_read(id)) = [stmt |-> "Read", id |-> word]
          /\ parse(sdk_delete(id)) = [stmt |-> "Delete", id |-> word]
  <2> HIDE DEF S
  <2>1. QED
    BY <1>1, <1>3, <1>4, SdkIdCalls
<1>7. QED
  BY <1>5, <1>6 DEF id

-----------------------------------------------------------------------------
(* The vector index.                                                       *)

(* Entries after an insert are those before it, without the one of the id, *)
(* and the new one.                                                        *)
LEMMA InsertedIs ==
    ASSUME NEW index \in Seq(Entry), NEW id \in VectorIds, NEW point \in Points
    PROVE  /\ Inserted(index, id, point) \in Seq(Entry)
           /\ \A j \in 1..Len(Inserted(index, id, point)) :
                 \/ Inserted(index, id, point)[j] =
                        [id |-> id, point |-> point]
                 \/ /\ j \in 1..Len(index) /\ index[j].id # id
                    /\ Inserted(index, id, point)[j] = index[j]
           /\ \E j \in 1..Len(Inserted(index, id, point)) :
                 Inserted(index, id, point)[j].id = id
           /\ \A j \in 1..Len(index) :
                 /\ j \in 1..Len(Inserted(index, id, point))
                 /\ Inserted(index, id, point)[j].id = index[j].id
           /\ (\E i \in 1..Len(index) : index[i].id = id) =>
                 Len(Inserted(index, id, point)) = Len(index)
           /\ (\A i \in 1..Len(index) : index[i].id # id) =>
                 Len(Inserted(index, id, point)) = Len(index) + 1
<1> DEFINE new == Inserted(index, id, point)
           entry == [id |-> id, point |-> point]
<1>1. Len(index) \in Nat /\ \A i \in 1..Len(index) : index[i] \in Entry
  OBVIOUS
<1>2. entry \in Entry /\ entry.id = id
  BY DEF Entry
<1>3. CASE \E i \in 1..Len(index) : index[i].id = id
  <2>1. new = [i \in 1..Len(index) |->
                  IF index[i].id = id THEN [index[i] EXCEPT !.point = point]
                  ELSE index[i]]
    BY <1>3 DEF Inserted
  <2>2. \A i \in 1..Len(index) :
           index[i].id = id => [index[i] EXCEPT !.point = point] = entry
    BY <1>1 DEF Entry
  <2>3. \A i \in 1..Len(index) :
           new[i] = IF index[i].id = id THEN entry ELSE index[i]
    BY <2>1, <2>2
  <2>4. new \in [1..Len(index) -> Entry]
    BY <1>1, <1>2, <2>1, <2>2
  <2> HIDE DEF new, entry
  <2>5. new \in Seq(Entry) /\ Len(new) = Len(index)
    BY <1>1, <2>4
  <2>6. QED
    BY <1>2, <1>3, <2>3, <2>5 DEF new, entry
<1>4. CASE \A i \in 1..Len(index) : index[i].id # id
  <2>1. new = Append(index, entry)
    BY <1>4 DEF Inserted
  <2> HIDE DEF new, entry
  <2>2. /\ new \in Seq(Entry) /\ Len(new) = Len(index) + 1
        /\ \A i \in 1..Len(index) : new[i] = index[i]
        /\ new[Len(index) + 1] = entry
    BY <1>2, <2>1
  <2>3. Len(index) + 1 \in 1..Len(new)
    BY <1>1, <2>2
  <2>4. \A j \in 1..Len(new) : j \in 1..Len(index) \/ j = Len(index) + 1
    BY <1>1, <2>2
  <2>5. \A j \in 1..Len(index) : j \in 1..Len(new)
    BY <1>1, <2>2
  <2>6. QED
    BY <1>2, <1>4, <2>2, <2>3, <2>4, <2>5 DEF new, entry
<1>5. QED
  BY <1>3, <1>4

(* An index with one entry per id is a map, and an insert updates it.      *)
LEMMA EntryOf ==
    ASSUME NEW index \in Seq(Entry), OneEntryPerId(index), NEW id \in VectorIds
    PROVE  /\ \A i \in 1..Len(index) :
                 index[i].id = id => MapOf(index)[id] = index[i].point
           /\ (\A i \in 1..Len(index) : index[i].id # id) =>
                 MapOf(index)[id] = Absent
<1>1. ASSUME NEW i \in 1..Len(index), index[i].id = id
      PROVE  MapOf(index)[id] = index[i].point
  <2> DEFINE j == CHOOSE j \in 1..Len(index) : index[j].id = id
  <2>1. j \in 1..Len(index) /\ index[j].id = id
    BY <1>1
  <2>2. j = i
    BY <1>1, <2>1 DEF OneEntryPerId
  <2>3. MapOf(index)[id] = index[j].point
    BY <1>1 DEF MapOf
  <2>4. QED
    BY <2>2, <2>3
<1>2. ASSUME \A i \in 1..Len(index) : index[i].id # id
      PROVE  MapOf(index)[id] = Absent
  BY <1>2 DEF MapOf
<1>3. QED
  BY <1>1, <1>2

LEMMA MapOfType ==
    ASSUME NEW index
    PROVE  /\ MapOf(index) = [id \in VectorIds |-> MapOf(index)[id]]
           /\ DOMAIN MapOf(index) = VectorIds
BY DEF MapOf

LEMMA InsertIntoMap ==
    ASSUME NEW index \in Seq(Entry), OneEntryPerId(index),
           NEW id \in VectorIds, NEW point \in Points
    PROVE  /\ OneEntryPerId(Inserted(index, id, point))
           /\ MapOf(Inserted(index, id, point)) =
                  [MapOf(index) EXCEPT ![id] = point]
<1> DEFINE new == Inserted(index, id, point)
<1>1. /\ new \in Seq(Entry)
      /\ \A j \in 1..Len(new) :
            \/ new[j] = [id |-> id, point |-> point]
            \/ /\ j \in 1..Len(index) /\ index[j].id # id
               /\ new[j] = index[j]
      /\ \E j \in 1..Len(new) : new[j].id = id
      /\ \A j \in 1..Len(index) :
            j \in 1..Len(new) /\ new[j].id = index[j].id
      /\ (\E i \in 1..Len(index) : index[i].id = id) => Len(new) = Len(index)
      /\ (\A i \in 1..Len(index) : index[i].id # id) =>
            Len(new) = Len(index) + 1
  BY InsertedIs
<1>2. Len(index) \in Nat
  OBVIOUS
<1> HIDE DEF new
<1>3. OneEntryPerId(new)
  <2> SUFFICES ASSUME NEW i \in 1..Len(new), NEW j \in 1..Len(new),
                      i # j, new[i].id = new[j].id
               PROVE  FALSE
    BY DEF OneEntryPerId
  <2>1. CASE \E k \in 1..Len(index) : index[k].id = id
    <3>1. i \in 1..Len(index) /\ j \in 1..Len(index)
      BY <1>1, <2>1
    <3>2. index[i].id = index[j].id
      BY <1>1, <3>1
    <3>3. QED
      BY <3>1, <3>2 DEF OneEntryPerId
  <2>2. CASE \A k \in 1..Len(index) : index[k].id # id
    <3>1. \A k \in 1..Len(new) : k \notin 1..Len(index) => k = Len(index) + 1
      BY <1>1, <1>2, <2>2
    <3>2. \A k \in 1..Len(new) : k \notin 1..Len(index) => new[k].id = id
      BY <1>1
    <3>3. \A k \in 1..Len(index) : new[k].id # id
      BY <1>1, <2>2
    <3>4. i \in 1..Len(index) /\ j \in 1..Len(index)
      BY <3>1, <3>2, <3>3
    <3>5. index[i].id = index[j].id
      BY <1>1, <3>4
    <3>6. QED
      BY <3>4, <3>5 DEF OneEntryPerId
  <2>3. QED
    BY <2>1, <2>2
<1>4. ASSUME NEW w \in VectorIds
      PROVE  MapOf(new)[w] = [MapOf(index) EXCEPT ![id] = point][w]
  <2>1. [MapOf(index) EXCEPT ![id] = point][w] =
            IF w = id THEN point ELSE MapOf(index)[w]
    BY MapOfType
  <2>2. CASE w = id
    <3>1. PICK j \in 1..Len(new) : new[j].id = id
      BY <1>1
    <3>2. new[j].point = point
      BY <1>1, <3>1
    <3>3. MapOf(new)[w] = point
      BY <1>1, <1>3, <2>2, <3>1, <3>2, EntryOf
    <3>4. QED
      BY <2>1, <2>2, <3>3
  <2>3. CASE w # id
    <3>1. CASE \E i \in 1..Len(index) : index[i].id = w
      <4>1. PICK i \in 1..Len(index) : index[i].id = w
        BY <3>1
      <4>2. i \in 1..Len(new) /\ new[i].id = w
        BY <1>1, <4>1
      <4>3. new[i] = index[i]
        BY <1>1, <2>3, <4>2
      <4>4. MapOf(new)[w] = new[i].point
        BY <1>1, <1>3, <4>2, EntryOf
      <4>5. MapOf(index)[w] = index[i].point
        BY <4>1, EntryOf
      <4>6. QED
        BY <2>1, <2>3, <4>3, <4>4, <4>5
    <3>2. CASE \A i \in 1..Len(index) : index[i].id # w
      <4>1. \A j \in 1..Len(new) : new[j].id # w
        BY <1>1, <2>3, <3>2
      <4>2. MapOf(new)[w] = Absent
        BY <1>1, <1>3, <4>1, EntryOf
      <4>3. MapOf(index)[w] = Absent
        BY <3>2, EntryOf
      <4>4. QED
        BY <2>1, <2>3, <4>2, <4>3
    <3>3. QED
      BY <3>1, <3>2
  <2>4. QED
    BY <2>2, <2>3
<1>5. MapOf(new) = [MapOf(index) EXCEPT ![id] = point]
  <2> DEFINE m == [MapOf(index) EXCEPT ![id] = point]
  <2>1. m = [w \in VectorIds |-> m[w]]
    BY MapOfType
  <2>2. MapOf(new) = [w \in VectorIds |-> MapOf(new)[w]]
    BY MapOfType
  <2> HIDE DEF m
  <2>3. QED
    BY <1>4, <2>1, <2>2 DEF m
<1>6. QED
  BY <1>3, <1>5 DEF new

LEMMA NothingLoaded ==
    /\ MapOf(<<>>) = NoVectors
    /\ OneEntryPerId(<<>>)
    /\ <<>> \in Seq(Entry)
    /\ NoVectors \in VectorMap
<1>1. \A i \in 1..Len(<<>>) : FALSE
  OBVIOUS
<1>2. QED
  BY <1>1 DEF MapOf, NoVectors, OneEntryPerId, VectorMap

(* A log that grows accounts for what it accounted for.                    *)
LEMMA StillAccounted ==
    ASSUME NEW log \in Seq(AuditEntry), NEW longer \in Seq(AuditEntry),
           Extends(longer, log), NEW entry, Accounted(entry, log)
    PROVE  Accounted(entry, longer)
<1>1. \A n \in 1..Len(log) : n \in 1..Len(longer) /\ longer[n] = log[n]
  <2>1. Len(log) \in Nat /\ Len(longer) \in Nat /\ Len(log) <= Len(longer)
    BY DEF Extends
  <2>2. QED
    BY <2>1 DEF Extends
<1>2. QED
  BY <1>1 DEF Accounted

-----------------------------------------------------------------------------
(* Statements.                                                             *)

(* What the SDK's texts parse to: statements about ids, tiers and payloads *)
(* of the store.                                                           *)
LEMMA StatementsAre ==
    ASSUME NEW st \in Statements
    PROVE  /\ st.id \in Ids
           /\ \/ /\ st.stmt = "Write"
                 /\ to_data_tier[st.tier] \in Tiers /\ st.payload \in Payloads
              \/ st.stmt = "Read" \/ st.stmt = "Delete"
<1> DEFINE S == AllWords \cup Spaces
<1>1. ASSUME NEW id \in Ids
      PROVE  /\ id \in id_words /\ <<id>> \in Seq(S)
             /\ IdArgument(<<id>>, id, 1) /\ ~Broken(<<id>>)
  <2>1. id \in id_words
    BY ExecutorAssumption DEF id_words
  <2>2. id \in AllWords /\ id # NewLine
    BY <2>1, WordsAssumption DEF AllWords, Spaces
  <2>3. QED
    BY <2>1, <2>2 DEF IdArgument, Broken
<1> HIDE DEF S
<1>2. ASSUME NEW id \in Ids, st = parse(sdk_read(<<id>>))
      PROVE  st = [stmt |-> "Read", id |-> id]
  BY <1>1, <1>2, SdkIdCalls
<1>3. ASSUME NEW id \in Ids, st = parse(sdk_delete(<<id>>))
      PROVE  st = [stmt |-> "Delete", id |-> id]
  BY <1>1, <1>3, SdkIdCalls
<1>4. ASSUME NEW id \in Ids, NEW payload \in Arguments,
             NEW tier \in TierWords, to_data_tier[tier] \in Tiers,
             st = parse(sdk_write(<<id>>, tier, payload))
      PROVE  /\ st = [stmt |-> "Write", id |-> id, tier |-> tier,
                      payload |-> Stripped(payload), auto_embed |-> FALSE]
             /\ Stripped(payload) \in Payloads
  <2>1. payload \in Seq(S)
    BY ExecutorAssumption DEF S
  <2>2. st = IF Broken(<<id>>) \/ ~OneLine(Stripped(payload))
             THEN Refused
             ELSE [stmt |-> "Write", id |-> id, tier |-> tier,
                   payload |-> Stripped(payload), auto_embed |-> FALSE]
    BY <1>1, <1>4, <2>1, WriteParses
  <2>3. st # Refused
    BY DEF Statements
  <2>4. OneLine(Stripped(payload))
    BY <2>2, <2>3
  <2>5. QED
    BY <1>1, <2>2, <2>4, ExecutorAssumption
<1>5. PICK text \in SdkTexts : st = parse(text)
  BY DEF Statements
<1>6. \/ \E id \in Ids : text = sdk_read(<<id>>)
      \/ \E id \in Ids : text = sdk_delete(<<id>>)
      \/ \E id \in Ids, payload \in Arguments, tier \in TierWords :
            to_data_tier[tier] \in Tiers
            /\ text = sdk_write(<<id>>, tier, payload)
  BY <1>5 DEF SdkTexts
<1>7. CASE \E id \in Ids : text = sdk_read(<<id>>)
  <2>1. PICK id \in Ids : st = [stmt |-> "Read", id |-> id]
    BY <1>2, <1>5, <1>7
  <2>2. QED
    BY <2>1
<1>8. CASE \E id \in Ids : text = sdk_delete(<<id>>)
  <2>1. PICK id \in Ids : st = [stmt |-> "Delete", id |-> id]
    BY <1>3, <1>5, <1>8
  <2>2. QED
    BY <2>1
<1>9. CASE \E id \in Ids, payload \in Arguments, tier \in TierWords :
              to_data_tier[tier] \in Tiers
              /\ text = sdk_write(<<id>>, tier, payload)
  <2>1. PICK id \in Ids, payload \in Arguments, tier \in TierWords :
           to_data_tier[tier] \in Tiers
           /\ text = sdk_write(<<id>>, tier, payload)
    BY <1>9
  <2>2. /\ st = [stmt |-> "Write", id |-> id, tier |-> tier,
                 payload |-> Stripped(payload), auto_embed |-> FALSE]
        /\ Stripped(payload) \in Payloads
    BY <1>4, <1>5, <2>1
  <2>3. st.id = id /\ st.stmt = "Write" /\ st.tier = tier
        /\ st.payload = Stripped(payload)
    BY <2>2
  <2>4. QED
    BY <2>1, <2>2, <2>3
<1>10. QED
  BY <1>6, <1>7, <1>8, <1>9

-----------------------------------------------------------------------------
(* The store below: every step of an executor is a step of RedbStore,      *)
(* leaves it alone, or drops a reply.                                      *)

LEMMA ExecuteIsNext ==
    ASSUME NEW s \in Sessions, NEW st \in Statements,
           NEW created_at \in Times, NEW t \in Times,
           Execute(s, st, created_at, t)
    PROVE  Next
<1>1. /\ st.id \in Ids
      /\ st.stmt = "Write" => /\ to_data_tier[st.tier] \in Tiers
                              /\ st.payload \in Payloads
  BY StatementsAre
<1>2. CASE ExecWrite(s, st.id, to_data_tier[st.tier], st.payload,
                     created_at, t) /\ st.stmt = "Write"
  BY <1>1, <1>2 DEF Next
<1>3. CASE ExecRead(s, st.id, t) \/ SaveOnly(s) \/ ExecDelete(s, st.id, t)
  BY <1>1, <1>3 DEF Next
<1>4. QED
  BY <1>2, <1>3 DEF Execute

LEMMA VectorsFailStep ==
    ASSUME ExecutorIInv, NEW s \in Sessions, VectorsFail(s)
    PROVE  IInv'
<1>1. IInv /\ TypeOK
  BY DEF ExecutorIInv, IInv
<1>2. /\ pc[s] = "replying" /\ pc' = [pc EXCEPT ![s] = "ready"]
      /\ request' = [request EXCEPT ![s] = Absent]
      /\ UNCHANGED <<file_exists, disk_records, disk_audit, checkpoint,
                     memory, replies>>
  BY DEF VectorsFail, StoreSaved, disk
<1>3. /\ file_exists' \in BOOLEAN
      /\ request' \in [Sessions -> Request \cup {Absent}]
      /\ \A q \in Sessions \ {s} : request'[q] = request[q]
  BY <1>1, <1>2 DEF TypeOK
<1>4. QED
  BY <1>1, <1>2, <1>3, MemoryKept

LEMMA StoreStep ==
    ASSUME ExecutorIInv, [ExecutorNext]_executorVars
    PROVE  IInv' /\ Extends(disk_audit', disk_audit)
<1>1. IInv /\ disk_audit \in Seq(AuditEntry)
  BY DEF ExecutorIInv, IInv, TypeOK
<1>2. ASSUME [Next]_vars
      PROVE  IInv' /\ Extends(disk_audit', disk_audit)
  BY <1>1, <1>2, StepIInv, StepAppends
<1>3. ASSUME NEW s \in Sessions, VectorsFail(s)
      PROVE  IInv' /\ Extends(disk_audit', disk_audit)
  BY <1>1, <1>3, VectorsFailStep, ExtendsReflexive DEF VectorsFail, disk
<1>4. CASE UNCHANGED executorVars
  BY <1>2, <1>4 DEF executorVars
<1>5. CASE ExecutorNext
  <2> PICK s \in Sessions :
        \/ /\ \/ \E o \in Owners, mode \in Modes : Open(s, o, mode)
              \/ LoadRejected(s) \/ CreateRejected(s)
           /\ UNCHANGED vectorVars
        \/ OpenStore(s) \/ LoadVectors(s)
        \/ \E id \in VectorIds, point \in Vectors : Embed(s, id, point)
        \/ \E id \in Ids, t \in Times : AutoEmbed(s, id, t)
        \/ Statement(s) \/ Finish(s)
        \/ Persist(s) \/ SaveStore(s) \/ SaveStoreFails(s)
        \/ CreateVectors(s) \/ WriteVectors(s) \/ VectorsFail(s)
        \/ Close(s)
    BY <1>5 DEF ExecutorNext
  <2>1. CASE \/ \E o \in Owners, mode \in Modes : Open(s, o, mode)
             \/ LoadRejected(s) \/ CreateRejected(s)
    BY <1>2, <2>1 DEF Next
  <2>2. CASE OpenStore(s)
    BY <1>2, <2>2 DEF OpenStore, Next
  <2>3. CASE \/ LoadVectors(s) \/ CreateVectors(s) \/ WriteVectors(s)
             \/ \E id \in VectorIds, point \in Vectors : Embed(s, id, point)
    BY <1>2, <2>3 DEF LoadVectors, CreateVectors, WriteVectors, Embed
  <2>4. CASE \E id \in Ids, t \in Times : AutoEmbed(s, id, t)
    BY <1>2, <2>4 DEF AutoEmbed, Next
  <2>5. CASE Statement(s)
    BY <1>2, <2>5, ExecuteIsNext DEF Statement
  <2>6. CASE Finish(s) \/ Persist(s) \/ SaveStore(s) \/ SaveStoreFails(s)
             \/ Close(s)
    BY <1>2, <2>6 DEF Finish, Persist, SaveStore, SaveStoreFails, Close, Next
  <2>7. CASE VectorsFail(s)
    BY <1>3, <2>7
  <2>8. QED
    BY <2>1, <2>2, <2>3, <2>4, <2>5, <2>6, <2>7
<1>6. QED
  BY <1>4, <1>5

-----------------------------------------------------------------------------
(* Frames: what a step of session s leaves of the other sessions, and of   *)
(* the vectors.                                                            *)

OnlyMoves(s) ==
    \A q \in Sessions \ {s} :
        /\ pc'[q] = pc[q] /\ audit_log'[q] = audit_log[q]
        /\ request'[q] = request[q]

LEMMA OtherVectors ==
    ASSUME IInv, IInv', Extends(disk_audit', disk_audit),
           NEW s \in Sessions, OnlyMoves(s), NEW q \in Sessions \ {s},
           SessionVectors(q),
           stage'[q] = stage[q], vector_index'[q] = vector_index[q],
           vector_file # Absent => vector_file' # Absent
    PROVE  SessionVectors(q)'
<1>1. disk_audit \in Seq(AuditEntry) /\ disk_audit' \in Seq(AuditEntry)
  BY DEF IInv, TypeOK
<1>2. /\ pc'[q] = pc[q] /\ audit_log'[q] = audit_log[q]
      /\ request'[q] = request[q]
  BY DEF OnlyMoves
<1>3. \A entry : Accounted(entry, disk_audit) => Accounted(entry, disk_audit')
  BY <1>1, StillAccounted
<1>4. QED
  BY <1>2, <1>3 DEF SessionVectors, Wrote, Accounted

(* The properties of the file and the indexes, while both stay.            *)
LEMMA VectorsKept ==
    ASSUME ExecutorIInv, IInv', Extends(disk_audit', disk_audit),
           UNCHANGED <<vector_index, vector_file, persisted, latest, outdated,
                       disturbed>>,
           \A q \in Sessions : stage'[q] = "writing" => stage[q] = "writing"
    PROVE  (VectorsAreAccountedFor /\ PersistedVectorsReturn
            /\ FileIsPersisted)'
<1>1. disk_audit \in Seq(AuditEntry) /\ disk_audit' \in Seq(AuditEntry)
  BY DEF ExecutorIInv, IInv, TypeOK
<1>2. VectorsAreAccountedFor'
  <2>1. \A entry :
           Accounted(entry, disk_audit) => Accounted(entry, disk_audit')
    BY <1>1, StillAccounted
  <2>2. QED
    BY <2>1 DEF ExecutorIInv, VectorsAreAccountedFor, IsFile
<1>3. PersistedVectorsReturn'
  <2>1. PersistedVectorsReturn
    BY DEF ExecutorIInv
  <2>2. /\ IsFile(vector_file)' <=> IsFile(vector_file)
        /\ Complete(vector_file)' <=> Complete(vector_file)
        /\ MapOf(vector_file.image)' = MapOf(vector_file.image)
        /\ OneEntryPerId(vector_file.image)'
               <=> OneEntryPerId(vector_file.image)
    BY DEF IsFile, Complete, MapOf, OneEntryPerId
  <2>3. \A q : /\ MapOf(vector_index[q])' = MapOf(vector_index[q])
               /\ OneEntryPerId(vector_index[q])'
                      <=> OneEntryPerId(vector_index[q])
    BY DEF MapOf, OneEntryPerId
  <2>4. /\ disturbed' = disturbed /\ persisted' = persisted
        /\ latest' = latest /\ outdated' = outdated
    OBVIOUS
  <2>5. QED
    BY <2>1, <2>2, <2>3, <2>4 DEF PersistedVectorsReturn
<1>4. FileIsPersisted'
  <2>1. FileIsPersisted
    BY DEF ExecutorIInv
  <2>2. /\ (vector_file # Garbled)' <=> vector_file # Garbled
        /\ IsFile(vector_file)' <=> IsFile(vector_file)
        /\ MapOf(vector_file.image)' = MapOf(vector_file.image)
    BY DEF IsFile, MapOf
  <2>3. (\E q \in Sessions : stage[q] = "writing")' =>
            \E q \in Sessions : stage[q] = "writing"
    OBVIOUS
  <2>4. /\ disturbed' = disturbed /\ persisted' = persisted
        /\ (vector_file = Absent)' <=> vector_file = Absent
    OBVIOUS
  <2>5. QED
    BY <2>1, <2>2, <2>3, <2>4 DEF FileIsPersisted
<1>5. QED
  BY <1>2, <1>3, <1>4

(* A step of session s that moves it and leaves the vectors.               *)
LEMMA StageStep ==
    ASSUME ExecutorIInv, IInv', Extends(disk_audit', disk_audit),
           NEW s \in Sessions, OnlyMoves(s),
           UNCHANGED <<vector_index, vector_file, persisted, latest, outdated,
                       disturbed>>,
           vector_ops' \in 0..MaxVectorOps,
           NEW to \in {"closed", "opening"} \cup Opened,
           stage' = [stage EXCEPT ![s] = to],
           to # "closed" => pc'[s] \in {"ready", "saving", "replying"},
           to = "opening" => pc'[s] = "ready",
           to = "due" => pc'[s] \in {"saving", "replying"},
           to = "writing" => stage[s] = "writing" /\ pc'[s] = "replying",
           to \in {"closed", "opening"} => vector_index[s] = <<>>,
           \/ vector_index[s] = <<>>
           \/ Extends(audit_log'[s], audit_log[s]),
           (pc'[s] \in {"saving", "replying"} /\ Wrote(s)') =>
               request'[s].record \in Record
    PROVE  ExecutorIInv'
<1>1. /\ IInv /\ ExecutorOK /\ \A q \in Sessions : SessionVectors(q)
      /\ stage'[s] = to /\ \A q \in Sessions \ {s} : stage'[q] = stage[q]
  BY DEF ExecutorIInv, ExecutorOK
<1>2. ExecutorOK'
  <2>1. TypeOK' /\ OnlyMoves(s)
    BY DEF IInv
  <2>2. stage' \in [Sessions -> {"closed", "opening"} \cup Opened]
    BY <1>1 DEF ExecutorOK
  <2>3. \A q \in Sessions :
            /\ stage'[q] = "due" => pc'[q] \in {"saving", "replying"}
            /\ stage'[q] = "writing" => pc'[q] = "replying"
    BY <1>1, <2>1 DEF ExecutorOK, OnlyMoves
  <2>4. QED
    BY <1>1, <2>1, <2>2, <2>3 DEF ExecutorOK
<1>3. SessionVectors(s)'
  <2>1. \A i \in 1..Len(vector_index[s]) :
           \/ Accounted(vector_index[s][i], audit_log'[s])
           \/ Accounted(vector_index[s][i], disk_audit')
    <3>1. CASE vector_index[s] = <<>>
      BY <3>1
    <3>2. CASE Extends(audit_log'[s], audit_log[s])
      <4>1. /\ audit_log[s] \in Seq(AuditEntry)
            /\ audit_log'[s] \in Seq(AuditEntry)
            /\ disk_audit \in Seq(AuditEntry)
            /\ disk_audit' \in Seq(AuditEntry)
        BY <1>1 DEF IInv, TypeOK
      <4>2. QED
        BY <1>1, <3>2, <4>1, StillAccounted DEF SessionVectors
    <3>3. QED
      BY <3>1, <3>2
  <2>2. to = "writing" => vector_file # Absent
    BY <1>1 DEF SessionVectors
  <2>3. QED
    BY <1>1, <2>1, <2>2 DEF SessionVectors
<1>4. \A q \in Sessions \ {s} : SessionVectors(q)'
  BY <1>1, OtherVectors
<1>5. (VectorsAreAccountedFor /\ PersistedVectorsReturn /\ FileIsPersisted)'
  BY <1>1, VectorsKept
<1>6. QED
  BY <1>2, <1>3, <1>4, <1>5 DEF ExecutorIInv

(* A step of session s that puts the vector of a point into its index.     *)
LEMMA InsertStep ==
    ASSUME ExecutorIInv, IInv', Extends(disk_audit', disk_audit),
           NEW s \in Sessions, OnlyMoves(s),
           NEW id \in VectorIds, NEW point \in Points,
           stage[s] = "open", Insert(s, id, point),
           pc'[s] = "ready",
           audit_log'[s] = audit_log[s] \/ Extends(audit_log'[s], audit_log[s]),
           Accounted([id |-> id, point |-> point], audit_log'[s])
    PROVE  ExecutorIInv'
<1> DEFINE index == vector_index[s]
           new == Inserted(index, id, point)
<1>1. /\ IInv /\ ExecutorOK /\ \A q \in Sessions : SessionVectors(q)
      /\ index \in Seq(Entry) /\ latest[s] \in VectorMap
  BY DEF ExecutorIInv, ExecutorOK
<1>2. /\ vector_index' = [vector_index EXCEPT ![s] = new]
      /\ latest' = [latest EXCEPT ![s] = [latest[s] EXCEPT ![id] = point]]
      /\ vector_ops < MaxVectorOps /\ vector_ops' = vector_ops + 1
      /\ UNCHANGED <<vector_file, stage, persisted, outdated, disturbed>>
  BY DEF Insert, Count
<1>3. new \in Seq(Entry)
  BY <1>1, InsertedIs
<1> HIDE DEF new
<1>4. vector_index'[s] = new /\ latest'[s] = [latest[s] EXCEPT ![id] = point]
  BY <1>1, <1>2 DEF ExecutorOK
<1>5. \A q \in Sessions \ {s} :
         vector_index'[q] = vector_index[q] /\ latest'[q] = latest[q]
  BY <1>1, <1>2 DEF ExecutorOK
<1>6. ExecutorOK'
  <2>1. TypeOK'
    BY DEF IInv
  <2>2. vector_index' \in [Sessions -> Seq(Entry)]
    BY <1>1, <1>2, <1>3 DEF ExecutorOK
  <2>3. latest' \in [Sessions -> VectorMap]
    <3>1. [latest[s] EXCEPT ![id] = point] \in VectorMap
      BY <1>1 DEF VectorMap
    <3>2. QED
      BY <1>1, <1>2, <3>1 DEF ExecutorOK
  <2>4. vector_ops' \in 0..MaxVectorOps
    BY <1>1, <1>2, ExecutorAssumption DEF ExecutorOK
  <2>5. \A q \in Sessions :
            /\ stage'[q] = "due" => pc'[q] \in {"saving", "replying"}
            /\ stage'[q] = "writing" => pc'[q] = "replying"
    BY <1>1, <1>2 DEF ExecutorOK, OnlyMoves
  <2>6. QED
    BY <1>1, <1>2, <2>1, <2>2, <2>3, <2>4, <2>5 DEF ExecutorOK
<1>7. SessionVectors(s)'
  <2>1. /\ audit_log[s] \in Seq(AuditEntry)
        /\ audit_log'[s] \in Seq(AuditEntry)
        /\ disk_audit \in Seq(AuditEntry) /\ disk_audit' \in Seq(AuditEntry)
    BY <1>1 DEF IInv, TypeOK
  <2>2. \A e : /\ Accounted(e, audit_log[s]) => Accounted(e, audit_log'[s])
               /\ Accounted(e, disk_audit) => Accounted(e, disk_audit')
    BY <2>1, StillAccounted
  <2>3. ASSUME NEW i \in 1..Len(new)
        PROVE  Accounted(new[i], audit_log'[s])
               \/ Accounted(new[i], disk_audit')
    <3>1. \/ new[i] = [id |-> id, point |-> point]
          \/ i \in 1..Len(index) /\ new[i] = index[i]
      BY <1>1, InsertedIs DEF new
    <3>2. QED
      BY <1>1, <2>2, <3>1 DEF SessionVectors
  <2>4. QED
    BY <1>2, <1>4, <2>3 DEF SessionVectors
<1>8. \A q \in Sessions \ {s} : SessionVectors(q)'
  BY <1>1, <1>2, <1>5, OtherVectors
<1>9. VectorsAreAccountedFor'
  <2>1. disk_audit \in Seq(AuditEntry) /\ disk_audit' \in Seq(AuditEntry)
    BY <1>1 DEF IInv, TypeOK
  <2>2. \A e : Accounted(e, disk_audit) => Accounted(e, disk_audit')
    BY <2>1, StillAccounted
  <2>3. QED
    BY <1>2, <2>2 DEF ExecutorIInv, VectorsAreAccountedFor, IsFile
<1>10. PersistedVectorsReturn'
  <2> SUFFICES ASSUME ~disturbed
               PROVE  PersistedVectorsReturn'
    BY <1>2 DEF PersistedVectorsReturn
  <2>1. /\ \A q \in Sessions : OneEntryPerId(vector_index[q])
        /\ \A q \in Sessions : q \notin outdated =>
              MapOf(vector_index[q]) = latest[q]
        /\ IsFile(vector_file) => OneEntryPerId(vector_file.image)
        /\ (IsFile(vector_file) /\ Complete(vector_file)) =>
              MapOf(vector_file.image) = persisted
    BY DEF ExecutorIInv, PersistedVectorsReturn
  <2>2. /\ OneEntryPerId(new)
        /\ MapOf(new) = [MapOf(index) EXCEPT ![id] = point]
    BY <1>1, <2>1, InsertIntoMap DEF new
  <2>3. \A q \in Sessions : OneEntryPerId(vector_index'[q])
    BY <1>4, <1>5, <2>1, <2>2
  <2>4. \A q \in Sessions : q \notin outdated =>
           MapOf(vector_index'[q]) = latest'[q]
    BY <1>4, <1>5, <2>1, <2>2
  <2>5. (IsFile(vector_file) => OneEntryPerId(vector_file.image))'
    BY <1>2, <2>1 DEF IsFile, OneEntryPerId
  <2>6. ((IsFile(vector_file) /\ Complete(vector_file)) =>
              MapOf(vector_file.image) = persisted)'
    BY <1>2, <2>1 DEF IsFile, Complete, MapOf
  <2>7. QED
    BY <1>2, <2>3, <2>4, <2>5, <2>6 DEF PersistedVectorsReturn, OneEntryPerId,
                                        MapOf
<1>11. FileIsPersisted'
  BY <1>2 DEF ExecutorIInv, FileIsPersisted, IsFile, MapOf
<1>12. QED
  BY <1>6, <1>7, <1>8, <1>9, <1>10, <1>11 DEF ExecutorIInv

-----------------------------------------------------------------------------
(* Opening and closing.                                                    *)

LEMMA BackendOpens ==
    ASSUME ExecutorIInv, IInv', Extends(disk_audit', disk_audit),
           NEW s \in Sessions, UNCHANGED vectorVars,
           \/ \E o \in Owners, mode \in Modes : Open(s, o, mode)
           \/ LoadRejected(s) \/ CreateRejected(s)
    PROVE  ExecutorIInv'
<1>1. /\ TypeOK /\ ExecutorOK /\ SessionVectors(s)
      /\ stage \in [Sessions -> {"closed", "opening"} \cup Opened]
  BY DEF ExecutorIInv, IInv, ExecutorOK
<1>2. /\ UNCHANGED <<vector_index, vector_file, persisted, latest, outdated,
                     disturbed, vector_ops, stage>>
  BY DEF vectorVars
<1>3. /\ pc[s] \in {"closed", "loading", "creating"}
      /\ pc'[s] \notin {"saving", "replying"}
      /\ OnlyMoves(s)
  <2>1. CASE \E o \in Owners, mode \in Modes : Open(s, o, mode)
    BY <1>1, <2>1 DEF Open, Goto, OnlyMoves, TypeOK
  <2>2. CASE LoadRejected(s) \/ CreateRejected(s)
    BY <1>1, <2>2 DEF LoadRejected, CreateRejected, Forget, Goto, OnlyMoves,
                      TypeOK
  <2>3. QED
    BY <2>1, <2>2
<1>4. stage[s] = "closed" /\ vector_index[s] = <<>>
  BY <1>1, <1>3 DEF SessionVectors
<1>5. stage' = [stage EXCEPT ![s] = "closed"]
  BY <1>1, <1>2, <1>4
<1>6. vector_ops' \in 0..MaxVectorOps
  BY <1>1, <1>2 DEF ExecutorOK
<1>7. QED
  BY <1>2, <1>3, <1>4, <1>5, <1>6, StageStep

LEMMA OpenStoreStep ==
    ASSUME ExecutorIInv, IInv', Extends(disk_audit', disk_audit),
           NEW s \in Sessions, OpenStore(s)
    PROVE  ExecutorIInv'
<1>1. TypeOK /\ ExecutorOK /\ SessionVectors(s)
  BY DEF ExecutorIInv, IInv
<1>2. /\ stage[s] = "closed" /\ stage' = [stage EXCEPT ![s] = "opening"]
      /\ UNCHANGED <<vector_index, vector_file, persisted, latest, outdated,
                     disturbed, vector_ops>>
  BY DEF OpenStore, Move
<1>3. pc'[s] = "ready" /\ OnlyMoves(s)
  BY <1>1 DEF OpenStore, Load, Create, Goto, memory, OnlyMoves, TypeOK
<1>4. vector_index[s] = <<>>
  BY <1>1, <1>2 DEF SessionVectors
<1>5. vector_ops' \in 0..MaxVectorOps
  BY <1>1, <1>2 DEF ExecutorOK
<1>6. QED
  BY <1>2, <1>3, <1>4, <1>5, StageStep DEF Opened

(* Dropping a session, or its death, loses its index and nothing else.     *)
LEMMA CloseStep ==
    ASSUME ExecutorIInv, IInv', Extends(disk_audit', disk_audit),
           NEW s \in Sessions, Close(s)
    PROVE  ExecutorIInv'
<1>1. /\ TypeOK /\ ExecutorOK /\ \A q \in Sessions : SessionVectors(q)
      /\ IInv
  BY DEF ExecutorIInv, IInv
<1>2. /\ stage' = [stage EXCEPT ![s] = "closed"]
      /\ vector_index' = [vector_index EXCEPT ![s] = <<>>]
      /\ latest' = [latest EXCEPT ![s] = NoVectors]
      /\ outdated' = outdated \ {s}
      /\ UNCHANGED <<vector_file, vector_ops, persisted, disturbed>>
  BY DEF Close
<1>3. pc'[s] = "closed" /\ OnlyMoves(s)
  BY <1>1 DEF Close, CloseOrCrash, Forget, OnlyMoves, TypeOK
<1>4. /\ stage'[s] = "closed" /\ vector_index'[s] = <<>>
      /\ latest'[s] = NoVectors
      /\ \A q \in Sessions \ {s} :
            /\ stage'[q] = stage[q] /\ vector_index'[q] = vector_index[q]
            /\ latest'[q] = latest[q]
  BY <1>1, <1>2 DEF ExecutorOK
<1>5. ExecutorOK'
  <2>1. TypeOK'
    BY DEF IInv
  <2>2. /\ stage' \in [Sessions -> {"closed", "opening"} \cup Opened]
        /\ vector_index' \in [Sessions -> Seq(Entry)]
        /\ latest' \in [Sessions -> VectorMap]
    BY <1>1, <1>2, NothingLoaded DEF ExecutorOK
  <2>3. \A q \in Sessions :
            /\ stage'[q] = "due" => pc'[q] \in {"saving", "replying"}
            /\ stage'[q] = "writing" => pc'[q] = "replying"
    BY <1>1, <1>3, <1>4 DEF ExecutorOK, OnlyMoves
  <2>4. QED
    BY <1>1, <1>2, <2>1, <2>2, <2>3 DEF ExecutorOK
<1>6. SessionVectors(s)'
  <2>1. \A i \in 1..Len(<<>>) : FALSE
    OBVIOUS
  <2>2. QED
    BY <1>3, <1>4, <2>1 DEF SessionVectors
<1>7. \A q \in Sessions \ {s} : SessionVectors(q)'
  BY <1>1, <1>2, <1>3, <1>4, OtherVectors
<1>8. VectorsAreAccountedFor'
  <2>1. disk_audit \in Seq(AuditEntry) /\ disk_audit' \in Seq(AuditEntry)
    BY <1>1 DEF IInv, TypeOK
  <2>2. \A e : Accounted(e, disk_audit) => Accounted(e, disk_audit')
    BY <2>1, StillAccounted
  <2>3. QED
    BY <1>2, <2>2 DEF ExecutorIInv, VectorsAreAccountedFor, IsFile
<1>9. PersistedVectorsReturn'
  <2> SUFFICES ASSUME ~disturbed
               PROVE  PersistedVectorsReturn'
    BY <1>2 DEF PersistedVectorsReturn
  <2>1. /\ \A q \in Sessions : OneEntryPerId(vector_index[q])
        /\ \A q \in Sessions : q \notin outdated =>
              MapOf(vector_index[q]) = latest[q]
        /\ IsFile(vector_file) => OneEntryPerId(vector_file.image)
        /\ (IsFile(vector_file) /\ Complete(vector_file)) =>
              MapOf(vector_file.image) = persisted
    BY DEF ExecutorIInv, PersistedVectorsReturn
  <2>2. \A q \in Sessions : OneEntryPerId(vector_index'[q])
    BY <1>4, <2>1, NothingLoaded
  <2>3. \A q \in Sessions : q \notin outdated' =>
           MapOf(vector_index'[q]) = latest'[q]
    BY <1>2, <1>4, <2>1, NothingLoaded
  <2>4. (IsFile(vector_file) => OneEntryPerId(vector_file.image))'
    BY <1>2, <2>1 DEF IsFile, OneEntryPerId
  <2>5. ((IsFile(vector_file) /\ Complete(vector_file)) =>
              MapOf(vector_file.image) = persisted)'
    BY <1>2, <2>1 DEF IsFile, Complete, MapOf
  <2>6. QED
    BY <1>2, <2>2, <2>3, <2>4, <2>5 DEF PersistedVectorsReturn, OneEntryPerId,
                                        MapOf
<1>10. FileIsPersisted'
  <2>1. \A q \in Sessions : stage'[q] = "writing" => stage[q] = "writing"
    BY <1>4
  <2>2. QED
    BY <1>2, <2>1 DEF ExecutorIInv, FileIsPersisted, IsFile, MapOf
<1>11. QED
  BY <1>5, <1>6, <1>7, <1>8, <1>9, <1>10 DEF ExecutorIInv

-----------------------------------------------------------------------------
(* Statements.                                                             *)

(* Of the statements only a write logs one, and its reply carries what it  *)
(* wrote.                                                                  *)
LEMMA ExecuteMoves ==
    ASSUME ExecutorIInv, NEW s \in Sessions, NEW st \in Statements,
           NEW created_at \in Times, NEW t \in Times,
           Execute(s, st, created_at, t)
    PROVE  /\ OnlyMoves(s) /\ pc'[s] = "saving"
           /\ Extends(audit_log'[s], audit_log[s])
           /\ Wrote(s)' => request'[s].record \in Record
<1>1. /\ IInv /\ TypeOK /\ SessionInv(s)
      /\ audit_log[s] \in Seq(AuditEntry)
  BY DEF ExecutorIInv, IInv, TypeOK
<1>2. /\ st.id \in Ids
      /\ st.stmt = "Write" => /\ to_data_tier[st.tier] \in Tiers
                              /\ st.payload \in Payloads
  BY StatementsAre
<1> DEFINE n == Len(audit_log[s]) + 1
<1>3. ASSUME NEW action \in AuditAction, NEW rec,
             pc[s] = "ready", pc' = [pc EXCEPT ![s] = "saving"],
             LogEntry(s, st.id, action, t), Await(s, n, rec)
      PROVE  /\ OnlyMoves(s) /\ pc'[s] = "saving"
             /\ Extends(audit_log'[s], audit_log[s])
             /\ request'[s].index = n /\ request'[s].record = rec
             /\ audit_log'[s][n].action = action
  <2>1. owner_id[s] \in Owners
    BY <1>1, <1>3 DEF SessionInv
  <2> DEFINE g == append_audit(audit_log[s], st.id, owner_id[s], action, t)
             e == NewAuditEntry(st.id, owner_id[s], action, t,
                                last_chain_hash(audit_log[s]))
  <2>2. /\ g \in Seq(AuditEntry) /\ Len(g) = n
        /\ \A i \in 1..Len(audit_log[s]) : g[i] = audit_log[s][i]
        /\ g[n] = e
    <3>1. g = Append(audit_log[s], e)
      BY DEF append_audit
    <3>2. g \in Seq(AuditEntry)
      BY <1>1, <1>2, <2>1, AppendAuditType
    <3> HIDE DEF g, e
    <3>3. /\ Len(g) = n /\ g[n] = e
          /\ \A i \in 1..Len(audit_log[s]) : g[i] = audit_log[s][i]
      BY <1>1, <3>1
    <3>4. QED
      BY <3>2, <3>3
  <2>3. e.action = action
    BY DEF NewAuditEntry
  <2> HIDE DEF e
  <2>4. audit_log'[s] = g /\ \A q \in Sessions \ {s} :
                                audit_log'[q] = audit_log[q]
    BY <1>1, <1>3 DEF LogEntry, TypeOK
  <2> HIDE DEF g
  <2>5. Extends(g, audit_log[s])
    BY <1>1, <2>2 DEF Extends
  <2>6. /\ request'[s] = [index |-> n, record |-> rec]
        /\ \A q \in Sessions \ {s} : request'[q] = request[q]
    BY <1>1, <1>3 DEF Await, TypeOK
  <2>7. pc'[s] = "saving" /\ \A q \in Sessions \ {s} : pc'[q] = pc[q]
    BY <1>1, <1>3 DEF TypeOK
  <2>8. QED
    BY <2>2, <2>3, <2>4, <2>5, <2>6, <2>7 DEF OnlyMoves
<1> HIDE DEF n
<1>4. CASE /\ st.stmt = "Write"
           /\ ExecWrite(s, st.id, to_data_tier[st.tier], st.payload,
                        created_at, t)
  <2> DEFINE rec == [tier |-> to_data_tier[st.tier], owner_id |-> owner_id[s],
                     payload |-> st.payload, created_at |-> created_at]
  <2>1. /\ pc[s] = "ready" /\ pc' = [pc EXCEPT ![s] = "saving"]
        /\ LogEntry(s, st.id, "Write", t) /\ Await(s, n, rec)
    BY <1>4 DEF ExecWrite, Goto, StoreWrite, n
  <2>2. rec \in Record
    BY <1>1, <1>2, <1>4, <2>1 DEF SessionInv, Record
  <2> HIDE DEF rec
  <2>3. QED
    BY <1>3, <2>1, <2>2 DEF AuditAction
<1>5. ASSUME NEW action \in AuditAction \ {"Write"}, NEW rec,
             pc[s] = "ready", pc' = [pc EXCEPT ![s] = "saving"],
             LogEntry(s, st.id, action, t), Await(s, n, rec)
      PROVE  /\ OnlyMoves(s) /\ pc'[s] = "saving"
             /\ Extends(audit_log'[s], audit_log[s])
             /\ ~Wrote(s)'
  BY <1>3, <1>5 DEF Wrote
<1>6. CASE ExecRead(s, st.id, t)
  BY <1>5, <1>6 DEF ExecRead, Goto, StoreRead, ReadAction, AuditAction, n
<1>7. CASE ExecDelete(s, st.id, t)
  BY <1>5, <1>7 DEF ExecDelete, Goto, StoreDelete, AuditAction, n
<1>8. CASE SaveOnly(s)
  <2>1. /\ pc'[s] = "saving" /\ OnlyMoves(s)
        /\ audit_log'[s] = audit_log[s] /\ request'[s].index = 0
    BY <1>1, <1>8 DEF SaveOnly, Goto, Await, memory, OnlyMoves, TypeOK
  <2>2. QED
    BY <1>1, <2>1, ExtendsReflexive DEF Wrote
<1>9. QED
  BY <1>4, <1>6, <1>7, <1>8 DEF Execute

LEMMA StatementKeeps ==
    ASSUME ExecutorIInv, IInv', Extends(disk_audit', disk_audit),
           NEW s \in Sessions, Statement(s)
    PROVE  ExecutorIInv'
<1>1. ExecutorOK /\ stage \in [Sessions -> {"closed", "opening"} \cup Opened]
  BY DEF ExecutorIInv, ExecutorOK
<1>2. /\ stage[s] = "open"
      /\ UNCHANGED <<vector_index, vector_file, persisted, latest, outdated,
                     disturbed, vector_ops, stage>>
  BY DEF Statement, Ready, vectorVars
<1>3. stage' = [stage EXCEPT ![s] = "open"] /\ vector_ops' \in 0..MaxVectorOps
  BY <1>1, <1>2 DEF ExecutorOK
<1>4. PICK st \in Statements, created_at \in Times, t \in Times :
         Execute(s, st, created_at, t)
  BY DEF Statement
<1>5. /\ OnlyMoves(s) /\ pc'[s] = "saving"
      /\ Extends(audit_log'[s], audit_log[s])
      /\ Wrote(s)' => request'[s].record \in Record
  BY <1>4, ExecuteMoves
<1>6. QED
  BY <1>2, <1>3, <1>5, StageStep DEF Opened

LEMMA EmbedStep ==
    ASSUME ExecutorIInv, IInv', Extends(disk_audit', disk_audit),
           NEW s \in Sessions, NEW id \in VectorIds, NEW point \in Vectors,
           Embed(s, id, point)
    PROVE  ExecutorIInv'
<1>1. /\ stage[s] = "open" /\ pc[s] = "ready" /\ Insert(s, id, point)
      /\ UNCHANGED vars
  BY DEF Embed, Ready
<1>2. pc'[s] = "ready" /\ audit_log'[s] = audit_log[s] /\ OnlyMoves(s)
  BY <1>1 DEF vars, memory, OnlyMoves
<1>3. point \in Points /\ point \notin Payloads
  BY ExecutorAssumption DEF Points
<1>4. Accounted([id |-> id, point |-> point], audit_log'[s])
  BY <1>3 DEF Accounted
<1>5. QED
  BY <1>1, <1>2, <1>3, <1>4, InsertStep

LEMMA AutoEmbedStep ==
    ASSUME ExecutorIInv, IInv', Extends(disk_audit', disk_audit),
           NEW s \in Sessions, NEW id \in Ids, NEW t \in Times,
           AutoEmbed(s, id, t)
    PROVE  ExecutorIInv'
<1>1. /\ IInv /\ TypeOK /\ SessionInv(s) /\ ExecutorOK
      /\ stage \in [Sessions -> {"closed", "opening"} \cup Opened]
      /\ audit_log[s] \in Seq(AuditEntry) /\ records[s] \in RecordMap
  BY DEF ExecutorIInv, IInv, TypeOK, ExecutorOK
<1>2. /\ stage[s] = "open" /\ pc[s] = "ready"
      /\ records[s][id] # Absent
      /\ LogEntry(s, id, ReadAction(s, id), t)
      /\ UNCHANGED <<pc, request>>
  BY DEF AutoEmbed, Ready, ExecAutoEmbed, StoreRead
<1> DEFINE n == Len(audit_log[s]) + 1
           e == NewAuditEntry(id, owner_id[s], ReadAction(s, id), t,
                              last_chain_hash(audit_log[s]))
<1>3. /\ audit_log'[s] = Append(audit_log[s], e)
      /\ \A q \in Sessions \ {s} : audit_log'[q] = audit_log[q]
  BY <1>1, <1>2 DEF LogEntry, append_audit, TypeOK
<1>4. e.action = ReadAction(s, id) /\ e.record_id = id
  BY DEF NewAuditEntry
<1> HIDE DEF e
<1>5. audit_log'[s] \in Seq(AuditEntry)
  BY DEF IInv, TypeOK
<1>6. /\ Extends(audit_log'[s], audit_log[s])
      /\ n \in 1..Len(audit_log'[s]) /\ audit_log'[s][n] = e
  BY <1>1, <1>3 DEF Extends
<1>7. OnlyMoves(s) /\ pc'[s] = "ready"
  BY <1>2, <1>3 DEF OnlyMoves
<1>8. CASE /\ ReadResult(s, id) # Absent
           /\ Insert(s, id, records[s][id].payload)
  <2>1. id \in VectorIds
    BY ExecutorAssumption
  <2>2. records[s][id].payload \in Points
    BY <1>1, <1>2 DEF RecordMap, Record, Points
  <2>3. e.action = "ReadGranted"
    BY <1>4, <1>8 DEF ReadResult
  <2>4. Accounted([id |-> id, point |-> records[s][id].payload],
                  audit_log'[s])
    BY <1>4, <1>6, <2>3 DEF Accounted
  <2>5. QED
    BY <1>2, <1>6, <1>7, <1>8, <2>1, <2>2, <2>4, InsertStep
<1>9. CASE UNCHANGED vectorVars
  <2>1. /\ UNCHANGED <<vector_index, vector_file, persisted, latest, outdated,
                       disturbed, vector_ops, stage>>
    BY <1>9 DEF vectorVars
  <2>2. /\ stage' = [stage EXCEPT ![s] = "open"]
        /\ vector_ops' \in 0..MaxVectorOps
    BY <1>1, <1>2, <2>1 DEF ExecutorOK
  <2>3. QED
    BY <1>2, <1>6, <1>7, <2>1, <2>2, StageStep DEF Opened
<1>10. QED
  BY <1>8, <1>9 DEF AutoEmbed

(* A reply to a write embeds the payload that the logged write carries.    *)
LEMMA FinishStep ==
    ASSUME ExecutorIInv, IInv', Extends(disk_audit', disk_audit),
           NEW s \in Sessions, Finish(s)
    PROVE  ExecutorIInv'
<1>1. /\ IInv /\ TypeOK /\ SessionInv(s) /\ SessionVectors(s) /\ ExecutorOK
      /\ stage \in [Sessions -> {"closed", "opening"} \cup Opened]
      /\ audit_log[s] \in Seq(AuditEntry)
  BY DEF ExecutorIInv, IInv, TypeOK, ExecutorOK
<1>2. /\ stage[s] = "open" /\ pc[s] = "replying"
      /\ pc' = [pc EXCEPT ![s] = "ready"]
      /\ request' = [request EXCEPT ![s] = Absent]
      /\ UNCHANGED audit_log
  BY DEF Finish, Ready, SendReply, Goto, memory
<1>3. OnlyMoves(s) /\ pc'[s] = "ready" /\ audit_log'[s] = audit_log[s]
  BY <1>1, <1>2 DEF OnlyMoves, TypeOK
<1>4. ASSUME Wrote(s),
             Insert(s, audit_log[s][request[s].index].record_id,
                    request[s].record.payload)
      PROVE  ExecutorIInv'
  <2> DEFINE n == request[s].index
             id == audit_log[s][n].record_id
             point == request[s].record.payload
  <2>1. n \in 1..Len(audit_log[s])
    <3>1. n \in Nat /\ n <= Len(audit_log[s]) /\ n # 0
      BY <1>1, <1>2, <1>4 DEF SessionInv, Request, Wrote
    <3>2. QED
      BY <1>1, <3>1
  <2>2. /\ audit_log[s][n] \in AuditEntry
        /\ audit_log[s][n].action = "Write"
    BY <1>1, <1>4, <2>1 DEF Wrote
  <2>3. id \in VectorIds
    BY <2>2, ExecutorAssumption DEF AuditEntry
  <2>4. point \in Points
    BY <1>1, <1>2, <1>4 DEF SessionVectors, Record, Points
  <2>5. Accounted([id |-> id, point |-> point], audit_log'[s])
    BY <1>3, <2>1, <2>2 DEF Accounted
  <2> HIDE DEF id, point
  <2>6. QED
    BY <1>2, <1>3, <1>4, <2>3, <2>4, <2>5, InsertStep DEF id, point
<1>5. CASE UNCHANGED vectorVars
  <2>1. /\ UNCHANGED <<vector_index, vector_file, persisted, latest, outdated,
                       disturbed, vector_ops, stage>>
    BY <1>5 DEF vectorVars
  <2>2. /\ stage' = [stage EXCEPT ![s] = "open"]
        /\ vector_ops' \in 0..MaxVectorOps
    BY <1>1, <1>2, <2>1 DEF ExecutorOK
  <2>3. Extends(audit_log'[s], audit_log[s])
    BY <1>1, <1>3, ExtendsReflexive
  <2>4. QED
    BY <1>2, <1>3, <2>1, <2>2, <2>3, StageStep DEF Opened
<1>6. QED
  BY <1>4, <1>5 DEF Finish

-----------------------------------------------------------------------------
(* Saving the store.                                                       *)

LEMMA PersistStep ==
    ASSUME ExecutorIInv, IInv', Extends(disk_audit', disk_audit),
           NEW s \in Sessions, Persist(s)
    PROVE  ExecutorIInv'
<1>1. /\ TypeOK /\ ExecutorOK /\ audit_log[s] \in Seq(AuditEntry)
  BY DEF ExecutorIInv, IInv, TypeOK
<1>2. /\ stage' = [stage EXCEPT ![s] = "due"]
      /\ vector_ops < MaxVectorOps /\ vector_ops' = vector_ops + 1
      /\ UNCHANGED <<vector_index, vector_file, persisted, latest, outdated,
                     disturbed>>
  BY DEF Persist, Move, Count
<1>3. /\ OnlyMoves(s) /\ pc'[s] = "saving" /\ audit_log'[s] = audit_log[s]
      /\ request'[s].index = 0
  BY <1>1 DEF Persist, SaveOnly, Goto, Await, memory, OnlyMoves, TypeOK
<1>4. vector_ops' \in 0..MaxVectorOps
  BY <1>1, <1>2, ExecutorAssumption DEF ExecutorOK
<1>5. Extends(audit_log'[s], audit_log[s]) /\ ~Wrote(s)'
  BY <1>1, <1>3, ExtendsReflexive DEF Wrote
<1>6. QED
  BY <1>2, <1>3, <1>4, <1>5, StageStep DEF Opened

LEMMA SaveStoreStep ==
    ASSUME ExecutorIInv, IInv', Extends(disk_audit', disk_audit),
           NEW s \in Sessions, SaveStore(s)
    PROVE  ExecutorIInv'
<1>1. /\ TypeOK /\ ExecutorOK /\ SessionVectors(s)
      /\ stage \in [Sessions -> {"closed", "opening"} \cup Opened]
      /\ audit_log[s] \in Seq(AuditEntry)
  BY DEF ExecutorIInv, IInv, TypeOK, ExecutorOK
<1>2. /\ UNCHANGED <<vector_index, vector_file, persisted, latest, outdated,
                     disturbed, vector_ops, stage>>
  BY DEF SaveStore, vectorVars
<1>3. /\ OnlyMoves(s) /\ pc[s] = "saving" /\ pc'[s] = "replying"
      /\ audit_log'[s] = audit_log[s] /\ request'[s] = request[s]
  BY <1>1 DEF SaveStore, SaveCommit, Goto, memory, OnlyMoves, TypeOK
<1>4. stage[s] \in {"closed", "open", "due"}
      /\ (stage[s] = "closed" => vector_index[s] = <<>>)
  BY <1>1, <1>3 DEF SessionVectors, ExecutorOK, Opened
<1>5. stage' = [stage EXCEPT ![s] = stage[s]] /\ vector_ops' \in 0..MaxVectorOps
  BY <1>1, <1>2 DEF ExecutorOK
<1>6. Extends(audit_log'[s], audit_log[s])
  BY <1>1, <1>3, ExtendsReflexive
<1>7. Wrote(s)' => request'[s].record \in Record
  BY <1>1, <1>3 DEF SessionVectors, Wrote
<1>8. QED
  BY <1>2, <1>3, <1>4, <1>5, <1>6, <1>7, StageStep DEF Opened

LEMMA SaveStoreFailsStep ==
    ASSUME ExecutorIInv, IInv', Extends(disk_audit', disk_audit),
           NEW s \in Sessions, SaveStoreFails(s) \/ VectorsFail(s)
    PROVE  ExecutorIInv'
<1>1. TypeOK /\ ExecutorOK /\ audit_log[s] \in Seq(AuditEntry)
  BY DEF ExecutorIInv, IInv, TypeOK
<1>2. /\ stage' = [stage EXCEPT ![s] = "open"]
      /\ UNCHANGED <<vector_index, vector_file, persisted, latest, outdated,
                     disturbed, vector_ops>>
  BY DEF SaveStoreFails, VectorsFail
<1>3. OnlyMoves(s) /\ pc'[s] = "ready" /\ audit_log'[s] = audit_log[s]
  <2>1. CASE SaveStoreFails(s)
    BY <1>1, <2>1 DEF SaveStoreFails, SaveRejected, SaveFails,
                      SaveInDoubt, Goto, memory, OnlyMoves, TypeOK
  <2>2. CASE VectorsFail(s)
    BY <1>1, <2>2 DEF VectorsFail, memory, OnlyMoves, TypeOK
  <2>3. QED
    BY <2>1, <2>2
<1>4. Extends(audit_log'[s], audit_log[s]) /\ vector_ops' \in 0..MaxVectorOps
  BY <1>1, <1>2, <1>3, ExtendsReflexive DEF ExecutorOK
<1>5. QED
  BY <1>2, <1>3, <1>4, StageStep DEF Opened

-----------------------------------------------------------------------------
(* The file of vectors.                                                    *)

LEMMA LoadVectorsStep ==
    ASSUME ExecutorIInv, IInv', Extends(disk_audit', disk_audit),
           NEW s \in Sessions, LoadVectors(s)
    PROVE  ExecutorIInv'
<1> DEFINE refused == IsFile(vector_file) /\ ~Complete(vector_file)
           others == Others(s, {"writing"})
           what == IF refused THEN NoVectors ELSE persisted
<1>1. /\ IInv /\ ExecutorOK /\ \A q \in Sessions : SessionVectors(q)
      /\ VectorsAreAccountedFor
  BY DEF ExecutorIInv
<1>2. PICK index :
         /\ index \in Loaded(vector_file)
         /\ vector_index' = [vector_index EXCEPT ![s] = index]
  BY DEF LoadVectors
<1>3. /\ stage[s] = "opening" /\ stage' = [stage EXCEPT ![s] = "open"]
      /\ latest' = [latest EXCEPT ![s] = what]
      /\ persisted' = IF others = {} THEN what ELSE persisted
      /\ others # {} => outdated' = outdated \cup {s}
      /\ (others = {} /\ refused) =>
            outdated' = outdated \cup Others(s, Opened)
      /\ (others = {} /\ ~refused) => outdated' = outdated
      /\ UNCHANGED <<vars, vector_file, vector_ops, disturbed>>
  BY DEF LoadVectors, Move
<1>4. index \in Seq(Entry)
      /\ \A i \in 1..Len(index) : Accounted(index[i], disk_audit)
  <2>1. <<>> \in Seq(Entry) /\ \A i \in 1..Len(<<>>) : FALSE
    OBVIOUS
  <2>2. /\ Mixed \in Entry /\ Mixed.point \notin Payloads
    BY ExecutorAssumption DEF Mixed, Entry, Points
  <2>3. /\ <<Mixed, Mixed>> \in Seq(Entry)
        /\ \A i \in 1..Len(<<Mixed, Mixed>>) :
              Accounted(<<Mixed, Mixed>>[i], disk_audit)
    BY <2>2 DEF Accounted
  <2>4. IsFile(vector_file) =>
           /\ vector_file.image \in Seq(Entry)
           /\ \A i \in 1..Len(vector_file.image) :
                 Accounted(vector_file.image[i], disk_audit)
    BY <1>1 DEF ExecutorOK, VectorFile, IsFile, VectorsAreAccountedFor
  <2>5. \/ index = <<>> \/ index = <<Mixed, Mixed>>
        \/ IsFile(vector_file) /\ index = vector_file.image
    BY <1>2 DEF Loaded
  <2>6. QED
    BY <2>1, <2>3, <2>4, <2>5
<1> HIDE DEF refused, others, what
<1>5. what \in VectorMap
  BY <1>1, NothingLoaded DEF what, ExecutorOK
<1>6. /\ stage'[s] = "open" /\ vector_index'[s] = index /\ latest'[s] = what
      /\ \A q \in Sessions \ {s} :
            /\ stage'[q] = stage[q] /\ vector_index'[q] = vector_index[q]
            /\ latest'[q] = latest[q]
  BY <1>1, <1>2, <1>3 DEF ExecutorOK
<1>7. /\ UNCHANGED <<pc, audit_log, request, disk_audit>>
      /\ OnlyMoves(s)
  BY <1>3 DEF vars, disk, memory, OnlyMoves
<1>8. ExecutorOK'
  <2>1. TypeOK'
    BY DEF IInv
  <2>2. /\ stage' \in [Sessions -> {"closed", "opening"} \cup Opened]
        /\ vector_index' \in [Sessions -> Seq(Entry)]
        /\ latest' \in [Sessions -> VectorMap]
    BY <1>1, <1>2, <1>3, <1>4, <1>5 DEF ExecutorOK, Opened
  <2>3. persisted' \in VectorMap /\ outdated' \subseteq Sessions
    BY <1>1, <1>3, <1>5 DEF ExecutorOK, Others
  <2>4. \A q \in Sessions :
            /\ stage'[q] = "due" => pc'[q] \in {"saving", "replying"}
            /\ stage'[q] = "writing" => pc'[q] = "replying"
    BY <1>1, <1>6, <1>7 DEF ExecutorOK
  <2>5. QED
    BY <1>1, <1>3, <2>1, <2>2, <2>3, <2>4 DEF ExecutorOK
<1>9. SessionVectors(s)'
  BY <1>1, <1>3, <1>4, <1>6, <1>7 DEF SessionVectors, Accounted
<1>10. \A q \in Sessions \ {s} : SessionVectors(q)'
  BY <1>1, <1>3, <1>6, <1>7, OtherVectors
<1>11. VectorsAreAccountedFor'
  BY <1>1, <1>3, <1>7 DEF VectorsAreAccountedFor, IsFile, Accounted
<1>12. (PersistedVectorsReturn /\ FileIsPersisted)'
  <2> SUFFICES ASSUME ~disturbed
               PROVE  (PersistedVectorsReturn /\ FileIsPersisted)'
    BY <1>3 DEF PersistedVectorsReturn, FileIsPersisted
  <2>1. /\ \A q \in Sessions : OneEntryPerId(vector_index[q])
        /\ \A q \in Sessions : q \notin outdated =>
              MapOf(vector_index[q]) = latest[q]
        /\ IsFile(vector_file) => OneEntryPerId(vector_file.image)
        /\ (IsFile(vector_file) /\ Complete(vector_file)) =>
              MapOf(vector_file.image) = persisted
        /\ vector_file # Garbled
        /\ vector_file = Absent => persisted = NoVectors
        /\ (IsFile(vector_file)
            /\ \E q \in Sessions : stage[q] = "writing") =>
               MapOf(vector_file.image) = persisted
    BY DEF ExecutorIInv, PersistedVectorsReturn, FileIsPersisted
  <2>2. \/ index = <<>> /\ (vector_file = Absent \/ refused)
        \/ /\ IsFile(vector_file) /\ Complete(vector_file) /\ ~refused
           /\ index = vector_file.image
    BY <1>2, <2>1 DEF Loaded, refused, IsFile
  <2>3. OneEntryPerId(index) /\ MapOf(index) = what
    <3>1. CASE index = <<>> /\ refused
      BY <3>1, NothingLoaded DEF what
    <3>2. CASE index = <<>> /\ vector_file = Absent
      BY <2>1, <3>2, NothingLoaded DEF what
    <3>3. CASE /\ IsFile(vector_file) /\ Complete(vector_file) /\ ~refused
               /\ index = vector_file.image
      BY <2>1, <3>3 DEF what
    <3>4. QED
      BY <2>2, <3>1, <3>2, <3>3
  <2>4. \A q \in Sessions : OneEntryPerId(vector_index'[q])
    BY <1>6, <2>1, <2>3
  <2>5. \A q \in Sessions : q \notin outdated' =>
           MapOf(vector_index'[q]) = latest'[q]
    <3>1. \A q \in Sessions : q \notin outdated' => q \notin outdated
      BY <1>3
    <3>2. QED
      BY <1>6, <2>1, <2>3, <3>1
  <2>6. refused => ~Complete(vector_file)
    BY DEF refused
  <2>7. persisted' = persisted \/ (refused /\ others = {})
    <3>1. CASE others = {} /\ ~refused
      BY <1>3, <3>1 DEF what
    <3>2. CASE others # {}
      BY <1>3, <3>2
    <3>3. QED
      BY <3>1, <3>2
  <2>8. others = {} => \A q \in Sessions : stage'[q] # "writing"
    BY <1>6 DEF others, Others
  <2>9. vector_file = Absent => ~refused
    BY DEF refused, IsFile
  <2>10. \A q \in Sessions : stage'[q] = "writing" => stage[q] = "writing"
    BY <1>6
  <2>11. PersistedVectorsReturn'
    <3>1. (IsFile(vector_file) => OneEntryPerId(vector_file.image))'
      BY <1>3, <2>1 DEF IsFile, OneEntryPerId
    <3>2. (IsFile(vector_file) /\ Complete(vector_file)) =>
              MapOf(vector_file.image) = persisted'
      BY <2>1, <2>6, <2>7
    <3>3. ((IsFile(vector_file) /\ Complete(vector_file)) =>
              MapOf(vector_file.image) = persisted)'
      BY <1>3, <3>2 DEF IsFile, Complete, MapOf
    <3>4. (\A q \in Sessions : OneEntryPerId(vector_index[q]))'
      BY <2>4 DEF OneEntryPerId
    <3>5. (\A q \in Sessions : q \notin outdated =>
              MapOf(vector_index[q]) = latest[q])'
      BY <2>5 DEF MapOf
    <3>6. QED
      BY <3>1, <3>3, <3>4, <3>5 DEF PersistedVectorsReturn
  <2>12. FileIsPersisted'
    <3>1. (IsFile(vector_file) /\ \E q \in Sessions : stage'[q] = "writing")
             => MapOf(vector_file.image) = persisted'
      BY <2>1, <2>7, <2>8, <2>10
    <3>2. vector_file = Absent => persisted' = NoVectors
      BY <2>1, <2>7, <2>9
    <3>3. vector_file' = vector_file
      BY <1>3
    <3>4. ((IsFile(vector_file) /\ \E q \in Sessions : stage[q] = "writing")
             => MapOf(vector_file.image) = persisted)'
      BY <3>1, <3>3 DEF IsFile, MapOf
    <3>5. (vector_file = Absent => persisted = NoVectors)'
      BY <3>2, <3>3 DEF NoVectors
    <3>6. vector_file' # Garbled
      BY <2>1, <3>3
    <3>7. QED
      BY <3>4, <3>5, <3>6 DEF FileIsPersisted
  <2>13. QED
    BY <2>11, <2>12
<1>13. QED
  BY <1>8, <1>9, <1>10, <1>11, <1>12 DEF ExecutorIInv

LEMMA CreateVectorsStep ==
    ASSUME ExecutorIInv, IInv', Extends(disk_audit', disk_audit),
           NEW s \in Sessions, CreateVectors(s)
    PROVE  ExecutorIInv'
<1> DEFINE alone == Others(s, {"writing"}) = {}
           file == [image |-> vector_index[s], written |-> 0]
<1>1. /\ IInv /\ ExecutorOK /\ \A q \in Sessions : SessionVectors(q)
      /\ SessionInv(s)
      /\ audit_log[s] \in Seq(AuditEntry) /\ disk_audit \in Seq(AuditEntry)
  BY DEF ExecutorIInv, IInv, TypeOK
<1>2. /\ pc[s] = "replying"
      /\ stage[s] = "due" /\ stage' = [stage EXCEPT ![s] = "writing"]
      /\ vector_file' = IF alone THEN file ELSE Garbled
      /\ persisted' = latest[s]
      /\ outdated' = (outdated \ {s}) \cup Others(s, Opened)
      /\ disturbed' = (disturbed \/ ~alone \/ s \in outdated)
      /\ UNCHANGED <<vars, vector_index, vector_ops, latest>>
  BY DEF CreateVectors, StoreSaved, Move
<1>3. /\ file \in VectorFile /\ file.image = vector_index[s]
  BY <1>1 DEF VectorFile, ExecutorOK
<1>4. file # Absent /\ file # Garbled /\ Garbled # Absent
  BY <1>3, ExecutorAssumption
<1> HIDE DEF alone, file
<1>5. /\ stage'[s] = "writing"
      /\ \A q \in Sessions \ {s} : stage'[q] = stage[q]
  BY <1>1, <1>2 DEF ExecutorOK
<1>6. /\ UNCHANGED <<pc, audit_log, request, disk_audit>>
      /\ OnlyMoves(s)
  BY <1>2 DEF vars, disk, memory, OnlyMoves
<1>7. vector_file' # Absent
  BY <1>2, <1>4
<1>8. ExecutorOK'
  <2>1. TypeOK'
    BY DEF IInv
  <2>2. stage' \in [Sessions -> {"closed", "opening"} \cup Opened]
    BY <1>1, <1>2 DEF ExecutorOK, Opened
  <2>3. persisted' \in VectorMap /\ outdated' \subseteq Sessions
        /\ disturbed' \in BOOLEAN
    BY <1>1, <1>2 DEF ExecutorOK, Others
  <2>4. vector_file' \in VectorFile \cup {Absent, Garbled}
    BY <1>2, <1>3
  <2>5. \A q \in Sessions :
            /\ stage'[q] = "due" => pc'[q] \in {"saving", "replying"}
            /\ stage'[q] = "writing" => pc'[q] = "replying"
    BY <1>1, <1>2, <1>5, <1>6 DEF ExecutorOK
  <2>6. QED
    BY <1>1, <1>2, <2>1, <2>2, <2>3, <2>4, <2>5 DEF ExecutorOK
<1>9. SessionVectors(s)'
  BY <1>1, <1>2, <1>5, <1>6, <1>7 DEF SessionVectors, Wrote, Accounted
<1>10. \A q \in Sessions \ {s} : SessionVectors(q)'
  BY <1>1, <1>2, <1>5, <1>6, <1>7, OtherVectors
<1>11. VectorsAreAccountedFor'
  <2>1. \A e : Accounted(e, audit_log[s]) => Accounted(e, disk_audit)
    BY <1>1, <1>2, StillAccounted DEF SessionInv
  <2>2. \A i \in 1..Len(vector_index[s]) :
           Accounted(vector_index[s][i], disk_audit)
    BY <1>1, <2>1 DEF SessionVectors
  <2>3. IsFile(vector_file)' => vector_file'.image = vector_index[s]
    BY <1>2, <1>3 DEF IsFile
  <2>4. QED
    BY <1>6, <2>2, <2>3 DEF VectorsAreAccountedFor, IsFile, Accounted
<1>12. (PersistedVectorsReturn /\ FileIsPersisted)'
  <2> SUFFICES ASSUME ~disturbed, alone, s \notin outdated
               PROVE  (PersistedVectorsReturn /\ FileIsPersisted)'
    BY <1>2 DEF PersistedVectorsReturn, FileIsPersisted
  <2>1. /\ \A q \in Sessions : OneEntryPerId(vector_index[q])
        /\ \A q \in Sessions : q \notin outdated =>
              MapOf(vector_index[q]) = latest[q]
    BY DEF ExecutorIInv, PersistedVectorsReturn
  <2>2. vector_file' = file
    BY <1>2
  <2>3. OneEntryPerId(file.image) /\ MapOf(file.image) = persisted'
    BY <1>2, <1>3, <2>1
  <2>4. \A q \in Sessions : q \notin outdated' => q \notin outdated
    BY <1>2
  <2>5. PersistedVectorsReturn'
    <3>1. (IsFile(vector_file) => OneEntryPerId(vector_file.image))'
      BY <2>2, <2>3 DEF OneEntryPerId
    <3>2. ((IsFile(vector_file) /\ Complete(vector_file)) =>
              MapOf(vector_file.image) = persisted)'
      BY <2>2, <2>3 DEF MapOf
    <3>3. (\A q \in Sessions : OneEntryPerId(vector_index[q]))'
      BY <1>2, <2>1 DEF OneEntryPerId
    <3>4. (\A q \in Sessions : q \notin outdated =>
              MapOf(vector_index[q]) = latest[q])'
      <4>1. \A q : MapOf(vector_index[q])' = MapOf(vector_index[q])
        BY <1>2 DEF MapOf
      <4>2. latest' = latest
        BY <1>2
      <4>3. QED
        BY <2>1, <2>4, <4>1, <4>2
    <3>5. QED
      BY <3>1, <3>2, <3>3, <3>4 DEF PersistedVectorsReturn
  <2>6. FileIsPersisted'
    BY <1>4, <2>2, <2>3 DEF FileIsPersisted, IsFile, MapOf
  <2>7. QED
    BY <2>5, <2>6
<1>13. QED
  BY <1>8, <1>9, <1>10, <1>11, <1>12 DEF ExecutorIInv

LEMMA WriteVectorsStep ==
    ASSUME ExecutorIInv, IInv', Extends(disk_audit', disk_audit),
           NEW s \in Sessions, WriteVectors(s)
    PROVE  ExecutorIInv'
<1>1. /\ IInv /\ ExecutorOK /\ \A q \in Sessions : SessionVectors(q)
      /\ stage \in [Sessions -> {"closed", "opening"} \cup Opened]
      /\ vector_file \in VectorFile \cup {Absent, Garbled}
  BY DEF ExecutorIInv, ExecutorOK
<1>2. /\ stage[s] = "writing"
      /\ UNCHANGED <<vars, vector_index, vector_ops, persisted, latest,
                     outdated, disturbed>>
  BY DEF WriteVectors
<1>3. vector_file # Absent
  BY <1>1, <1>2 DEF SessionVectors
<1>4. PICK to \in {"writing", "open"} : stage' = [stage EXCEPT ![s] = to]
  <2>1. \/ stage' = [stage EXCEPT ![s] = "open"] \/ stage' = stage
    BY DEF WriteVectors, Move
  <2>2. stage = [stage EXCEPT ![s] = "writing"]
    BY <1>1, <1>2
  <2>3. QED
    BY <2>1, <2>2
<1>5. \/ vector_file = Garbled /\ vector_file' = Garbled
      \/ /\ vector_file \in VectorFile /\ vector_file' \in VectorFile
         /\ vector_file'.image = vector_file.image
  <2>1. CASE vector_file = Garbled
    BY <2>1 DEF WriteVectors
  <2>2. CASE vector_file # Garbled
    <3>1. vector_file \in VectorFile
      BY <1>1, <1>3, <2>2
    <3>2. vector_file' = [vector_file EXCEPT !.written =
                             vector_file.written + 1]
      BY <2>2 DEF WriteVectors
    <3>3. QED
      BY <3>1, <3>2 DEF VectorFile
  <2>3. QED
    BY <2>1, <2>2
<1>6. /\ stage'[s] = to /\ \A q \in Sessions \ {s} : stage'[q] = stage[q]
  BY <1>1, <1>4
<1>7. /\ UNCHANGED <<pc, audit_log, request, disk_audit>>
      /\ OnlyMoves(s)
  BY <1>2 DEF vars, disk, memory, OnlyMoves
<1>8. vector_file' # Absent /\ (IsFile(vector_file)' => IsFile(vector_file))
  BY <1>5, ExecutorAssumption DEF IsFile
<1>9. ExecutorOK'
  <2>1. TypeOK'
    BY DEF IInv
  <2>2. stage' \in [Sessions -> {"closed", "opening"} \cup Opened]
    BY <1>1, <1>4 DEF Opened
  <2>3. \A q \in Sessions :
            /\ stage'[q] = "due" => pc'[q] \in {"saving", "replying"}
            /\ stage'[q] = "writing" => pc'[q] = "replying"
    BY <1>1, <1>2, <1>6, <1>7 DEF ExecutorOK
  <2>4. QED
    BY <1>1, <1>2, <1>5, <2>1, <2>2, <2>3 DEF ExecutorOK
<1>10. SessionVectors(s)'
  BY <1>1, <1>2, <1>6, <1>7, <1>8 DEF SessionVectors, Wrote, Accounted,
                                      ExecutorOK
<1>11. \A q \in Sessions \ {s} : SessionVectors(q)'
  BY <1>1, <1>2, <1>6, <1>7, <1>8, OtherVectors
<1>12. VectorsAreAccountedFor'
  <2>1. ASSUME IsFile(vector_file)'
        PROVE  /\ IsFile(vector_file)
               /\ vector_file'.image = vector_file.image
    BY <1>5, <1>8, <2>1 DEF IsFile
  <2>2. QED
    BY <1>7, <2>1 DEF ExecutorIInv, VectorsAreAccountedFor, Accounted
<1>13. (PersistedVectorsReturn /\ FileIsPersisted)'
  <2> SUFFICES ASSUME ~disturbed
               PROVE  (PersistedVectorsReturn /\ FileIsPersisted)'
    BY <1>2 DEF PersistedVectorsReturn, FileIsPersisted
  <2>1. /\ \A q \in Sessions : OneEntryPerId(vector_index[q])
        /\ \A q \in Sessions : q \notin outdated =>
              MapOf(vector_index[q]) = latest[q]
        /\ IsFile(vector_file) => OneEntryPerId(vector_file.image)
        /\ vector_file # Garbled
        /\ (IsFile(vector_file)
            /\ \E q \in Sessions : stage[q] = "writing") =>
               MapOf(vector_file.image) = persisted
    BY DEF ExecutorIInv, PersistedVectorsReturn, FileIsPersisted
  <2>2. /\ vector_file' # Garbled /\ vector_file'.image = vector_file.image
        /\ IsFile(vector_file)
    BY <1>3, <1>5, <2>1, ExecutorAssumption DEF IsFile
  <2>3. OneEntryPerId(vector_file'.image)
        /\ MapOf(vector_file'.image) = persisted
    BY <1>2, <2>1, <2>2
  <2>4. PersistedVectorsReturn'
    <3>1. (OneEntryPerId(vector_file.image))'
      BY <2>3 DEF OneEntryPerId
    <3>2. (MapOf(vector_file.image) = persisted)'
      BY <1>2, <2>3 DEF MapOf
    <3>3. (\A q \in Sessions : OneEntryPerId(vector_index[q]))'
      BY <1>2, <2>1 DEF OneEntryPerId
    <3>4. (\A q \in Sessions : q \notin outdated =>
              MapOf(vector_index[q]) = latest[q])'
      BY <1>2, <2>1 DEF MapOf
    <3>5. QED
      BY <3>1, <3>2, <3>3, <3>4 DEF PersistedVectorsReturn
  <2>5. FileIsPersisted'
    BY <1>2, <1>8, <2>2, <2>3 DEF FileIsPersisted, MapOf
  <2>6. QED
    BY <2>4, <2>5
<1>14. QED
  BY <1>9, <1>10, <1>11, <1>12, <1>13 DEF ExecutorIInv

-----------------------------------------------------------------------------
(* The whole step.                                                         *)

LEMMA ExecutorStarts == ExecutorInit => ExecutorIInv
<1> SUFFICES ASSUME ExecutorInit
             PROVE  ExecutorIInv
  OBVIOUS
<1>1. IInv /\ TypeOK
  BY InitIInv DEF ExecutorInit, IInv
<1>2. /\ vector_index = [s \in Sessions |-> <<>>]
      /\ vector_file = Absent /\ stage = [s \in Sessions |-> "closed"]
      /\ vector_ops = 0 /\ persisted = NoVectors
      /\ latest = [s \in Sessions |-> NoVectors]
      /\ outdated = {} /\ disturbed = FALSE
      /\ pc = [s \in Sessions |-> "closed"]
  BY DEF ExecutorInit, Init
<1>3. ExecutorOK
  <2>1. 0 \in 0..MaxVectorOps
    BY ExecutorAssumption
  <2>2. \A s \in Sessions : stage[s] = "closed"
    BY <1>2
  <2>3. vector_index \in [Sessions -> Seq(Entry)]
        /\ latest \in [Sessions -> VectorMap] /\ persisted \in VectorMap
    BY <1>2, NothingLoaded
  <2>4. QED
    BY <1>1, <1>2, <2>1, <2>2, <2>3 DEF ExecutorOK
<1>4. \A s \in Sessions : SessionVectors(s)
  <2>1. \A i \in 1..Len(<<>>) : FALSE
    OBVIOUS
  <2>2. QED
    BY <1>2, <2>1 DEF SessionVectors
<1>5. VectorsAreAccountedFor
  BY <1>2 DEF VectorsAreAccountedFor, IsFile
<1>6. PersistedVectorsReturn
  BY <1>2, NothingLoaded DEF PersistedVectorsReturn, IsFile
<1>7. FileIsPersisted
  BY <1>2, ExecutorAssumption DEF FileIsPersisted, IsFile
<1>8. QED
  BY <1>1, <1>3, <1>4, <1>5, <1>6, <1>7 DEF ExecutorIInv

LEMMA ExecutorStutters ==
    ASSUME ExecutorIInv, IInv', Extends(disk_audit', disk_audit),
           UNCHANGED executorVars
    PROVE  ExecutorIInv'
<1>1. UNCHANGED <<vector_index, vector_file, stage, vector_ops, persisted,
                  latest, outdated, disturbed, pc, audit_log, request,
                  disk_audit>>
  BY DEF executorVars, vectorVars, vars, disk, memory
<1>2. ExecutorOK'
  BY <1>1 DEF ExecutorIInv, ExecutorOK, IInv
<1>3. (\A s \in Sessions : SessionVectors(s))'
  BY <1>1 DEF ExecutorIInv, SessionVectors, Wrote, Accounted
<1>4. (VectorsAreAccountedFor /\ PersistedVectorsReturn /\ FileIsPersisted)'
  BY <1>1, VectorsKept
<1>5. QED
  BY <1>2, <1>3, <1>4 DEF ExecutorIInv

LEMMA ExecutorSteps ==
    ASSUME ExecutorIInv, [ExecutorNext]_executorVars
    PROVE  ExecutorIInv'
<1>1. IInv' /\ Extends(disk_audit', disk_audit)
  BY StoreStep
<1>2. CASE UNCHANGED executorVars
  BY <1>1, <1>2, ExecutorStutters
<1>3. CASE ExecutorNext
  <2> PICK s \in Sessions :
        \/ /\ \/ \E o \in Owners, mode \in Modes : Open(s, o, mode)
              \/ LoadRejected(s) \/ CreateRejected(s)
           /\ UNCHANGED vectorVars
        \/ OpenStore(s) \/ LoadVectors(s)
        \/ \E id \in VectorIds, point \in Vectors : Embed(s, id, point)
        \/ \E id \in Ids, t \in Times : AutoEmbed(s, id, t)
        \/ Statement(s) \/ Finish(s)
        \/ Persist(s) \/ SaveStore(s) \/ SaveStoreFails(s)
        \/ CreateVectors(s) \/ WriteVectors(s) \/ VectorsFail(s)
        \/ Close(s)
    BY <1>3 DEF ExecutorNext
  <2>1. CASE /\ \/ \E o \in Owners, mode \in Modes : Open(s, o, mode)
                \/ LoadRejected(s) \/ CreateRejected(s)
             /\ UNCHANGED vectorVars
    BY <1>1, <2>1, BackendOpens
  <2>2. CASE OpenStore(s)
    BY <1>1, <2>2, OpenStoreStep
  <2>3. CASE LoadVectors(s)
    BY <1>1, <2>3, LoadVectorsStep
  <2>4. CASE \E id \in VectorIds, point \in Vectors : Embed(s, id, point)
    BY <1>1, <2>4, EmbedStep
  <2>5. CASE \E id \in Ids, t \in Times : AutoEmbed(s, id, t)
    BY <1>1, <2>5, AutoEmbedStep
  <2>6. CASE Statement(s)
    BY <1>1, <2>6, StatementKeeps
  <2>7. CASE Finish(s)
    BY <1>1, <2>7, FinishStep
  <2>8. CASE Persist(s)
    BY <1>1, <2>8, PersistStep
  <2>9. CASE SaveStore(s)
    BY <1>1, <2>9, SaveStoreStep
  <2>10. CASE SaveStoreFails(s) \/ VectorsFail(s)
    BY <1>1, <2>10, SaveStoreFailsStep
  <2>11. CASE CreateVectors(s)
    BY <1>1, <2>11, CreateVectorsStep
  <2>12. CASE WriteVectors(s)
    BY <1>1, <2>12, WriteVectorsStep
  <2>13. CASE Close(s)
    BY <1>1, <2>13, CloseStep
  <2>14. QED
    BY <2>1, <2>2, <2>3, <2>4, <2>5, <2>6, <2>7, <2>8, <2>9, <2>10, <2>11,
       <2>12, <2>13
<1>4. QED
  BY <1>2, <1>3

-----------------------------------------------------------------------------
(* The theorems.                                                           *)

(* The inductive invariant of the executors on one file.                   *)
THEOREM ExecutorInvariance == ExecutorSpec => []ExecutorIInv
<1>1. ExecutorInit => ExecutorIInv
  BY ExecutorStarts
<1>2. ExecutorIInv /\ [ExecutorNext]_executorVars => ExecutorIInv'
  BY ExecutorSteps
<1>3. QED
  BY <1>1, <1>2, PTL DEF ExecutorSpec

(* Every variable of an executor keeps its type, and vectors are written   *)
(* only between the commit of the store and the answer.                    *)
THEOREM ExecutorTypeCorrect == ExecutorSpec => []ExecutorOK
<1>1. ExecutorIInv => ExecutorOK
  BY DEF ExecutorIInv
<1>2. QED
  BY <1>1, ExecutorInvariance, PTL

(* The file of vectors never holds the vector of a payload whose read or   *)
(* write is not in the durable log.                                        *)
THEOREM VectorsAlwaysAccountedFor == ExecutorSpec => []VectorsAreAccountedFor
<1>1. ExecutorIInv => VectorsAreAccountedFor
  BY DEF ExecutorIInv
<1>2. QED
  BY <1>1, ExecutorInvariance, PTL

(* While no outdated index is saved, a file that opens holds exactly the   *)
(* vectors that were persisted, and an index what its session put into it. *)
THEOREM PersistedVectorsAlwaysReturn ==
    ExecutorSpec => []PersistedVectorsReturn
<1>1. ExecutorIInv => PersistedVectorsReturn
  BY DEF ExecutorIInv
<1>2. QED
  BY <1>1, ExecutorInvariance, PTL

(* write(), read() and delete() mean what their arguments say, for every   *)
(* payload and however long it is.                                         *)
THEOREM CallsAlwaysMeanWhatTheySay == ExecutorSpec => []CallsMeanWhatTheySay
<1>1. ExecutorInit => CallsMeanWhatTheySay
  BY TextIsKept DEF CallsMeanWhatTheySay
<1>2. CallsMeanWhatTheySay'
  BY TextIsKept DEF CallsMeanWhatTheySay
<1>3. QED
  BY <1>1, <1>2, PTL DEF ExecutorSpec

(* The shared file still implements the abstract audited store when every  *)
(* session carries vectors, and some fail between the store and its file.  *)
THEOREM ExecutorRefinement == ExecutorSpec => AbstractSpec
<1>1. ExecutorInit => Abstract!Init
  BY AbstractInit DEF ExecutorInit
<1>2. /\ ExecutorIInv /\ ExecutorIInv' /\ [ExecutorNext]_executorVars
      => [Abstract!Next]_(Abstract!storeVars)
  BY StoreStep, AbstractStep DEF ExecutorIInv
<1>3. QED
  BY <1>1, <1>2, ExecutorInvariance, PTL DEF ExecutorSpec, AbstractSpec,
                                             Abstract!Spec
=============================================================================
