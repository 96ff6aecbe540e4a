------------------------- MODULE ConversationLogProofs -------------------------
(***************************************************************************)
(* ConversationLog: types, that the projection is sound, that memory holds *)
(* the log while nothing was compacted, that a compression evicts only     *)
(* what was answered, that a rewrite of the projection meets no message    *)
(* without its row, and that every group of the log stays whole; for every *)
(* number of turns and resumes.                                            *)
(***************************************************************************)
EXTENDS ConversationLog, ConversationRowsProofs

InTurn == {"begun", "open", "denied"}

MessageSet == [kind : Kinds, turn : Nat, id : CallId, row : Nat, label : Nat,
               consumed : SUBSET CallId, omitted : BOOLEAN]

Typed ==
    /\ pc \in {"idle", "begun", "open", "denied", "refused", "closed"}
    /\ turn \in 0 .. MaxTurns /\ resumes \in 0 .. MaxResumes
    /\ rows \in Seq(RowSet) /\ refs \in Seq(Nat) /\ checkpoint \in Seq(Nat)
    /\ mem \in Seq(MessageSet) /\ retained \in Seq(MessageSet)
    /\ batch \in Seq(BatchSet) /\ Len(batch) <= 1 /\ optimized \in BOOLEAN
    /\ cause \subseteq Causes /\ evicted \subseteq 0 .. Len(rows)
    /\ pc \in InTurn => turn # 0

\* A projection of a log: rows of it, each once but for summaries.
Sound(projection, log) ==
    /\ \A i \in DOMAIN projection : projection[i] \in 1 .. Len(log)
    /\ \A i, j \in DOMAIN projection : i # j /\ projection[i] = projection[j] =>
          log[projection[i]].kind = "context_summary"

\* Only a final answer has consumed calls, all of them of no later turn and none its
\* own; a summary is no call.
Shaped(m) ==
    /\ m.consumed # {} => m.id.turn # 0 /\ m.id = Final(m.id.turn)
    /\ \A id \in m.consumed : id.turn <= m.id.turn /\ id # m.id
    /\ m.kind = "context_summary" => m.id = NoCall

\* A message stands for a row of the log, and ids are of turns up to b, the consumed
\* ones up to c.
Stands(m, log, b, c) ==
    /\ m.label <= Len(log) /\ m.row <= Len(log)
    /\ m.row # 0 => log[m.row].id = m.id
    /\ m.id.turn <= b
    /\ \A id \in m.consumed : id.turn <= c
    /\ Shaped(m)
LabelsSound(ms, log) ==
    \A i, j \in DOMAIN ms : i # j /\ ms[i].label = ms[j].label /\ ms[i].label # 0 =>
       log[ms[i].label].kind = "context_summary"
\* There is an answer after row n.
AnswerAfter(log, n) == \E j \in n + 1 .. Len(log) : log[j].kind = "assistant_output"
Answered(ms, log) ==
    \A i \in DOMAIN ms : ms[i].id.turn # 0 /\ ms[i].id \in Consumed(ms) =>
       AnswerAfter(log, ms[i].row)
Fits(ms, log, b, c) ==
    /\ \A i \in DOMAIN ms : Stands(ms[i], log, b, c)
    /\ LabelsSound(ms, log) /\ Answered(ms, log)

\* The turn of the messages in memory: while a turn is on, they are of earlier ones.
Past == IF pc \in InTurn THEN turn - 1 ELSE turn
MessagesFit ==
    /\ Sound(refs, rows) /\ Sound(checkpoint, rows)
    /\ Fits(mem, rows, Past, Past)
    /\ pc \in InTurn => Fits(retained, rows, Past, Past)

\* Rows with a call of a turn bear its name; inputs and summaries have no call.
NamedRow(r) ==
    /\ r.id.turn # 0 => r.id.turn = r.turn /\ r.turn \in 1 .. MaxTurns /\ r.kind # "user_input"
    /\ r.kind = "user_input" => r.turn \in 1 .. MaxTurns
    /\ r.kind = "context_summary" => r.id = NoCall
LogNamed(log) == \A i \in DOMAIN log : NamedRow(log[i])
InputOf(log, n) == \E i \in DOMAIN log : log[i].kind = "user_input" /\ log[i].turn = n
BatchNamed(bs, n) == \A i \in DOMAIN bs : bs[i].id.turn \in {0, n} /\ bs[i].id.call = 1 /\ n # 0
RowsNamed ==
    /\ LogNamed(rows) /\ BatchNamed(batch, turn)
    /\ pc \in {"open", "denied"} => InputOf(rows, turn)

\* Without a compaction the projection is the whole log, and the turn's input its only
\* row of this turn.
Identity(n) == [i \in 1 .. n |-> i]
Inputs(log, n) == \A i \in DOMAIN log : log[i].kind = "user_input" => log[i].turn <= n
InputLast(log, n) ==
    /\ Len(log) # 0 /\ log[Len(log)].kind = "user_input" /\ log[Len(log)].turn = n
    /\ \A i \in 1 .. Len(log) - 1 : log[i].kind = "user_input" => log[i].turn < n
NeverCompacted ==
    "compaction" \notin cause =>
        /\ refs = Identity(Len(rows)) /\ (pc = "closed" => checkpoint = refs)
        /\ ~optimized
        /\ pc \notin {"open", "denied"} => Inputs(rows, Past)
        /\ pc \in {"open", "denied"} => InputLast(rows, turn)

\* Memory is the log up to the current turn.
Mirror(ms, n) == Len(ms) = n /\ \A k \in 1 .. n : ms[k].row = k /\ ms[k].label = k
MemoryMirrors ==
    cause = {} =>
        /\ pc \in {"idle", "begun"} => Mirror(mem, Len(rows))
        /\ pc \in {"open", "denied"} => Mirror(mem, Len(rows) - 1)

\* Messages that lack a label are seen as a drift when the next turn begins.  Within a
\* turn that can still evict, every message has one; the list is apart from the turn's
\* last row as long as it was not optimized, and longer than the projection afterwards,
\* so that an abort leaves a drift, too.
Known(ms) == \A k \in DOMAIN ms : ms[k].label # 0
Apart(ms, v) == \A k \in DOMAIN ms : ms[k].label # v
LabelsKnown ==
    /\ pc = "idle" => Known(mem) \/ ~Aligned
    /\ pc = "begun" => Known(retained) /\ ~optimized
    /\ pc \in {"open", "denied"} =>
          /\ Known(retained) \/ Evictable(retained) = {}
          /\ ~optimized => Len(rows) \in ToSet(refs) /\ Apart(retained, Len(rows))
          /\ optimized /\ Evictable(retained) # {} => Len(refs) < Len(retained)

LogInv == Typed /\ MessagesFit /\ RowsNamed /\ NeverCompacted /\ MemoryMirrors
          /\ EvictedWasAnswered /\ LabelsKnown
-----------------------------------------------------------------------------
(* The numbers of a set, ascending. *)

Below(S, i) == {j \in S : j < i}

LEMMA BelowFinite ==
  ASSUME NEW S \in SUBSET Nat, IsFiniteSet(S), NEW i \in Nat
  PROVE  IsFiniteSet(Below(S, i)) /\ Cardinality(Below(S, i)) \in Nat
<1>1. Below(S, i) \in SUBSET S BY DEF Below
<1> QED BY <1>1, FS_Subset, FS_CardinalityType

\* For every p below the size of S, an element of S has exactly p below it.
LEMMA PlaceExists ==
  ASSUME NEW S \in SUBSET Nat, IsFiniteSet(S), NEW n \in Nat, \A i \in S : i <= n,
         NEW p \in Nat, p < Cardinality(S)
  PROVE  \E i \in S : Cardinality(Below(S, i)) = p
<1>0. \A j \in S : j \in Nat OBVIOUS
<1>1. PICK T : T = {i \in Nat : Cardinality(Below(S, i)) > p} OBVIOUS
<1>2. n + 1 \in T
  <2>1. \A i \in S : i < n + 1 OBVIOUS
  <2>2. Below(S, n + 1) = S BY <2>1 DEF Below
  <2> QED BY <1>1, <2>2
<1>3. T \subseteq Nat /\ T # {} BY <1>1, <1>2
<1>4. PICK i \in T : \A k \in T : i <= k BY <1>3, Least
<1>5. i \in Nat /\ Cardinality(Below(S, i)) > p BY <1>1
<1>6. i # 0
  <2>1. Below(S, 0) = {}
    <3>1. ASSUME NEW j \in Below(S, 0) PROVE FALSE
      <4>1. j \in Nat /\ j < 0 BY <1>0 DEF Below
      <4> QED BY <4>1
    <3> QED BY <3>1
  <2>2. Cardinality(Below(S, 0)) = 0 BY <2>1, FS_EmptySet
  <2> QED BY <1>5, <2>2
<1>7. PICK m \in Nat : i = m + 1
  <2>1. i - 1 \in Nat /\ i = (i - 1) + 1 BY <1>5, <1>6
  <2> QED BY <2>1
<1>8. ~(Cardinality(Below(S, m)) > p)
  <2>1. ~(i <= m) BY <1>7
  <2>2. m \notin T BY <1>4, <2>1
  <2> QED BY <1>1, <2>2
<1>9. IsFiniteSet(Below(S, m)) /\ Cardinality(Below(S, m)) \in Nat BY BelowFinite
<1>10. m \in S
  <2>1. SUFFICES ASSUME m \notin S PROVE FALSE OBVIOUS
  <2>2. \A j \in S : j < i <=> j < m BY <1>0, <1>7, <2>1
  <2>3. Below(S, i) = Below(S, m) BY <2>2 DEF Below
  <2> QED BY <1>5, <1>8, <2>3
<1>11. Below(S, i) = Below(S, m) \cup {m} /\ m \notin Below(S, m)
  <2>1. \A j \in S : j < i <=> j < m \/ j = m BY <1>0, <1>7
  <2>2. ~(m < m) OBVIOUS
  <2> QED BY <1>10, <2>1, <2>2 DEF Below
<1>12. Cardinality(Below(S, i)) = Cardinality(Below(S, m)) + 1 BY <1>9, <1>11, FS_AddElement
<1>13. Cardinality(Below(S, m)) = p
  <2>1. PICK a : a = Cardinality(Below(S, m)) OBVIOUS
  <2>2. a \in Nat /\ ~(a > p) /\ a + 1 > p BY <1>5, <1>8, <1>9, <1>12, <2>1
  <2> QED BY <2>1, <2>2
<1> QED BY <1>10, <1>13

\* The places of Ascending(S) hold elements of S, each once.
Enumerates(f, S) ==
    /\ \A k \in DOMAIN f : f[k] \in S
    /\ \A k, l \in DOMAIN f : k # l => f[k] # f[l]

LEMMA AscendingEnumerates ==
  ASSUME NEW n \in Nat, NEW S \in SUBSET (1 .. n)
  PROVE  /\ Ascending(S) \in Seq(S) /\ Enumerates(Ascending(S), S)
<1>1. S \in SUBSET Nat /\ IsFiniteSet(S) /\ \A i \in S : i <= n
  <2>1. IsFiniteSet(1 .. n) BY FS_Interval
  <2>2. IsFiniteSet(S) BY <2>1, FS_Subset
  <2>3. \A i \in S : i \in Nat /\ i <= n OBVIOUS
  <2> QED BY <2>2, <2>3
<1>2. PICK m \in Nat : m = Cardinality(S) BY <1>1, FS_CardinalityType
<1> DEFINE F(k) == CHOOSE i \in S : Cardinality(Below(S, i)) = k - 1
<1>3. ASSUME NEW k \in 1 .. m
      PROVE  F(k) \in S /\ Cardinality(Below(S, F(k))) = k - 1
  <2>1. PICK p \in Nat : p = k - 1 /\ p < m
    <3>1. k - 1 \in Nat /\ k - 1 < m BY <1>2
    <3> QED BY <3>1
  <2>2. \E i \in S : Cardinality(Below(S, i)) = p BY <1>1, <1>2, <2>1, PlaceExists
  <2>3. F(k) = CHOOSE i \in S : Cardinality(Below(S, i)) = p BY <2>1
  <2> HIDE DEF F
  <2> QED BY <2>1, <2>2, <2>3
<1>4. Ascending(S) = [k \in 1 .. m |-> F(k)] BY <1>2 DEF Ascending, Below
<1> HIDE DEF F
<1>5. Ascending(S) \in Seq(S) BY <1>2, <1>3, <1>4
<1>6. DOMAIN Ascending(S) = 1 .. m /\ \A k \in 1 .. m : Ascending(S)[k] = F(k) BY <1>4
<1>7. ASSUME NEW k \in 1 .. m, NEW l \in 1 .. m, F(k) = F(l) PROVE k = l
  <2>1. k - 1 = l - 1 BY <1>3, <1>7
  <2> QED BY <1>2, <2>1
<1> QED BY <1>3, <1>5, <1>6, <1>7 DEF Enumerates

LEMMA BelowGrows ==
  ASSUME NEW S \in SUBSET Nat, IsFiniteSet(S), NEW i \in S, NEW j \in S, i < j
  PROVE  Cardinality(Below(S, i)) < Cardinality(Below(S, j))
<1>1. i \in Nat /\ j \in Nat OBVIOUS
<1>2. PICK A, B : A = Below(S, i) /\ B = Below(S, j) OBVIOUS
<1>3. /\ IsFiniteSet(A) /\ Cardinality(A) \in Nat
      /\ IsFiniteSet(B) /\ Cardinality(B) \in Nat
  BY <1>1, <1>2, BelowFinite
<1>4. i \notin A /\ i \in B BY <1>1, <1>2 DEF Below
<1>5. A \subseteq B
  <2>1. \A k \in S : k < i => k < j BY <1>1
  <2> QED BY <1>2, <2>1 DEF Below
<1>6. Cardinality(A \cup {i}) = Cardinality(A) + 1 BY <1>3, <1>4, FS_AddElement
<1>7. A \cup {i} \subseteq B BY <1>4, <1>5
<1>8. Cardinality(A \cup {i}) <= Cardinality(B) BY <1>3, <1>7, FS_Subset
<1> QED BY <1>2, <1>3, <1>6, <1>8

\* The elements are in their order, and none is left out.
Orders(f, S) ==
    /\ \A k, l \in DOMAIN f : k < l => f[k] < f[l]
    /\ \A i \in S : \E k \in DOMAIN f : f[k] = i

LEMMA AscendingOrders ==
  ASSUME NEW n \in Nat, NEW S \in SUBSET (1 .. n)
  PROVE  Orders(Ascending(S), S)
<1>1. S \in SUBSET Nat /\ IsFiniteSet(S) /\ \A i \in S : i \in Nat /\ i <= n
  <2>1. IsFiniteSet(1 .. n) BY FS_Interval
  <2>2. IsFiniteSet(S) BY <2>1, FS_Subset
  <2>3. \A i \in S : i \in Nat /\ i <= n OBVIOUS
  <2> QED BY <2>2, <2>3
<1>2. PICK m \in Nat : m = Cardinality(S) BY <1>1, FS_CardinalityType
<1>3. PICK f : f = Ascending(S) OBVIOUS
<1>4. DOMAIN f = 1 .. m /\ \A k \in 1 .. m : f[k] \in S
  <2>1. DOMAIN f = 1 .. m BY <1>2, <1>3 DEF Ascending
  <2> QED BY <1>3, <2>1, AscendingEnumerates DEF Enumerates
<1>5. ASSUME NEW k \in 1 .. m PROVE Cardinality(Below(S, f[k])) = k - 1
  <2>1. PICK p \in Nat : p = k - 1 /\ p < m
    <3>1. k - 1 \in Nat /\ k - 1 < m BY <1>2
    <3> QED BY <3>1
  <2>2. \E i \in S : Cardinality(Below(S, i)) = p BY <1>1, <1>2, <2>1, PlaceExists
  <2>3. f[k] = CHOOSE i \in S : Cardinality(Below(S, i)) = p
    BY <1>2, <1>3, <2>1 DEF Ascending, Below
  <2> QED BY <2>1, <2>2, <2>3
<1>6. ASSUME NEW k \in 1 .. m, NEW l \in 1 .. m, k < l PROVE f[k] < f[l]
  <2>1. f[k] \in S /\ f[l] \in S /\ f[k] \in Nat /\ f[l] \in Nat BY <1>1, <1>4
  <2>2. ~(f[l] < f[k])
    <3>1. SUFFICES ASSUME f[l] < f[k] PROVE FALSE OBVIOUS
    <3>2. Cardinality(Below(S, f[l])) < Cardinality(Below(S, f[k]))
      BY <1>1, <2>1, <3>1, BelowGrows
    <3>3. l - 1 < k - 1 BY <1>5, <3>2
    <3> QED BY <1>6, <3>3
  <2>3. f[l] # f[k]
    <3>1. SUFFICES ASSUME f[l] = f[k] PROVE FALSE OBVIOUS
    <3>2. l - 1 = k - 1 BY <1>5, <3>1
    <3> QED BY <1>6, <3>2
  <2> QED BY <2>1, <2>2, <2>3
<1>7. ASSUME NEW i \in S PROVE \E k \in 1 .. m : f[k] = i
  <2>1. i \in Nat BY <1>1
  <2>2. PICK c \in Nat : c = Cardinality(Below(S, i)) BY <1>1, <2>1, BelowFinite
  <2>3. IsFiniteSet(Below(S, i)) BY <1>1, <2>1, BelowFinite
  <2>4. c + 1 <= m
    <3>1. i \notin Below(S, i) BY <2>1 DEF Below
    <3>2. Cardinality(Below(S, i) \cup {i}) = c + 1 BY <2>2, <2>3, <3>1, FS_AddElement
    <3>3. Below(S, i) \cup {i} \subseteq S BY DEF Below
    <3>4. Cardinality(Below(S, i) \cup {i}) <= Cardinality(S) BY <1>1, <3>3, FS_Subset
    <3> QED BY <1>2, <3>2, <3>4
  <2>5. PICK k \in 1 .. m : k - 1 = c
    <3>1. c + 1 \in 1 .. m /\ (c + 1) - 1 = c BY <2>4
    <3> QED BY <3>1
  <2>6. Cardinality(Below(S, f[k])) = c BY <1>5, <2>5
  <2>7. f[k] \in S /\ f[k] \in Nat BY <1>1, <1>4
  <2>8. ~(f[k] < i) /\ ~(i < f[k])
    <3>1. f[k] < i => c < c BY <1>1, <2>2, <2>6, <2>7, BelowGrows
    <3>2. i < f[k] => c < c BY <1>1, <2>2, <2>6, <2>7, BelowGrows
    <3> QED BY <3>1, <3>2
  <2>9. f[k] = i BY <2>1, <2>7, <2>8
  <2> QED BY <2>9
<1> QED BY <1>3, <1>4, <1>6, <1>7 DEF Orders

LEMMA SeqIs ==
  ASSUME NEW X, NEW n \in Nat, NEW f, f = [k \in 1 .. n |-> f[k]], \A k \in 1 .. n : f[k] \in X
  PROVE  f \in Seq(X)
OBVIOUS

LEMMA AscendingNat ==
  ASSUME NEW n \in Nat, NEW S \in SUBSET (1 .. n)
  PROVE  Ascending(S) \in Seq(Nat)
<1>1. PICK f : f = Ascending(S) OBVIOUS
<1>2. f \in Seq(S) /\ Enumerates(f, S) BY <1>1, AscendingEnumerates
<1>3. PICK m \in Nat : m = Len(f) BY <1>2, LenProperties
<1>4. DOMAIN f = 1 .. m /\ f = [k \in 1 .. m |-> f[k]] BY <1>2, <1>3, LenProperties
<1>5. ASSUME NEW k \in 1 .. m PROVE f[k] \in Nat
  <2>1. f[k] \in 1 .. n BY <1>2, <1>4 DEF Enumerates
  <2> QED BY <2>1
<1> QED BY <1>1, <1>4, <1>5, SeqIs

\* An interval is enumerated in its order.
LEMMA AscendingInterval ==
  ASSUME NEW m \in Nat, NEW n \in Nat, m <= n
  PROVE  Ascending(m + 1 .. n) = [k \in 1 .. n - m |-> m + k]
<1>1. PICK S : S = m + 1 .. n OBVIOUS
<1>2. S \in SUBSET (1 .. n) /\ Cardinality(S) = n - m
  <2>1. Cardinality(m + 1 .. n) = IF m + 1 > n THEN 0 ELSE n - (m + 1) + 1 BY FS_Interval
  <2> QED BY <1>1, <2>1
<1>3. PICK f : f = Ascending(S) OBVIOUS
<1>4. ASSUME NEW i \in S PROVE Cardinality(Below(S, i)) = i - (m + 1)
  <2>1. i \in Nat /\ m + 1 <= i /\ i <= n BY <1>1
  <2>2. Below(S, i) = m + 1 .. i - 1 BY <1>1, <2>1 DEF Below
  <2>3. Cardinality(m + 1 .. i - 1) = IF m + 1 > i - 1 THEN 0 ELSE (i - 1) - (m + 1) + 1
    BY <2>1, FS_Interval
  <2> QED BY <2>1, <2>2, <2>3
<1>5. ASSUME NEW k \in 1 .. n - m PROVE f[k] = m + k
  <2>1. f[k] = CHOOSE i \in S : Cardinality(Below(S, i)) = k - 1
    BY <1>2, <1>3 DEF Ascending, Below
  <2>2. m + k \in S /\ (m + k) - (m + 1) = k - 1 BY <1>1
  <2>3. Cardinality(Below(S, m + k)) = k - 1 BY <1>4, <2>2
  <2>4. \A i \in S : Cardinality(Below(S, i)) = k - 1 => i = m + k
    BY <1>1, <1>4
  <2> QED BY <2>1, <2>2, <2>3, <2>4
<1>6. f = [k \in 1 .. n - m |-> f[k]]
  <2> DEFINE F(k) == CHOOSE i \in S : Cardinality({j \in S : j < i}) = k - 1
  <2>1. f = [k \in 1 .. n - m |-> F(k)] BY <1>2, <1>3 DEF Ascending
  <2> HIDE DEF F
  <2> QED BY <2>1
<1> QED BY <1>1, <1>3, <1>5, <1>6

\* The entries of a sequence at the places of a set.
LEMMA Picked ==
  ASSUME NEW X, NEW s \in Seq(X), NEW S \in SUBSET (DOMAIN s)
  PROVE  LET f == Ascending(S)
         IN  /\ Pick(s, S) \in Seq(X) /\ DOMAIN Pick(s, S) = DOMAIN f /\ f \in Seq(S)
             /\ Enumerates(f, S) /\ \A k \in DOMAIN f : Pick(s, S)[k] = s[f[k]]
<1>1. PICK n \in Nat : n = Len(s) BY LenProperties
<1>2. DOMAIN s = 1 .. n BY <1>1, LenProperties
<1>3. PICK f : f = Ascending(S) OBVIOUS
<1>4. f \in Seq(S) /\ Enumerates(f, S) BY <1>2, <1>3, AscendingEnumerates
<1>5. PICK m \in Nat : m = Len(f) BY <1>4, LenProperties
<1>6. DOMAIN f = 1 .. m BY <1>4, <1>5, LenProperties
<1> DEFINE F(k) == s[f[k]]
<1>7. Pick(s, S) = [k \in 1 .. m |-> F(k)] BY <1>3, <1>6 DEF Pick
<1>8. ASSUME NEW k \in 1 .. m PROVE F(k) \in X
  <2>1. f[k] \in 1 .. n BY <1>2, <1>4, <1>6 DEF Enumerates
  <2> QED BY <1>1, <2>1, ElementOfSeq
<1>9. \A k \in DOMAIN f : Pick(s, S)[k] = s[f[k]] BY <1>6, <1>7
<1> HIDE DEF F
<1>10. Pick(s, S) \in Seq(X) /\ DOMAIN Pick(s, S) = DOMAIN f BY <1>6, <1>7, <1>8
<1> QED BY <1>3, <1>4, <1>9, <1>10

-----------------------------------------------------------------------------
(* Messages that fit the log. *)

\* A message and its copy in another list.
Copies(m, o) ==
    /\ m.kind = o.kind /\ m.id = o.id /\ m.row = o.row /\ m.label = o.label
    /\ m.consumed = o.consumed

\* A new message has consumed nothing and is of a turn that none has consumed.
Fresh(m, log, b, c) ==
    /\ m.label = 0 /\ m.consumed = {} /\ m.row <= Len(log)
    /\ m.row # 0 => log[m.row].id = m.id
    /\ m.id.turn <= b
    /\ m.id.turn # 0 => m.id.turn > c
    /\ m.kind = "context_summary" => m.id = NoCall

\* Each message of a list is a copy of another one of the old list, or new.
Derived(f, new, old, log, b, c) ==
    /\ \A k \in DOMAIN new : \/ f[k] \in DOMAIN old /\ Copies(new[k], old[f[k]])
                             \/ f[k] = 0 /\ Fresh(new[k], log, b, c)
    /\ \A k, l \in DOMAIN new : k # l /\ f[k] = f[l] => f[k] = 0

LEMMA DerivedFits ==
  ASSUME NEW old \in Seq(MessageSet), NEW new \in Seq(MessageSet), NEW log \in Seq(RowSet), NEW b \in Nat,
         NEW c \in Nat, Fits(old, log, b, c), NEW f, Derived(f, new, old, log, b, c)
  PROVE  Fits(new, log, b, c)
<1>1. 0 \notin DOMAIN old
  <2>1. DOMAIN old = 1 .. Len(old) /\ Len(old) \in Nat BY LenProperties
  <2> QED BY <2>1
<1>2. ASSUME NEW k \in DOMAIN new
      PROVE  \/ f[k] \in DOMAIN old /\ Copies(new[k], old[f[k]])
             \/ f[k] = 0 /\ Fresh(new[k], log, b, c)
  BY DEF Derived
<1>3. ASSUME NEW id \in Consumed(new) PROVE id \in Consumed(old)
  <2>1. PICK k \in DOMAIN new : id \in new[k].consumed BY DEF Consumed
  <2>2. CASE f[k] \in DOMAIN old /\ Copies(new[k], old[f[k]])
    BY <2>1, <2>2 DEF Copies, Consumed
  <2>3. CASE f[k] = 0 /\ Fresh(new[k], log, b, c) BY <2>1, <2>3 DEF Fresh
  <2> QED BY <1>2, <2>2, <2>3
<1>4. ASSUME NEW k \in DOMAIN new PROVE Stands(new[k], log, b, c)
  <2>1. CASE f[k] \in DOMAIN old /\ Copies(new[k], old[f[k]])
    <3>1. Stands(old[f[k]], log, b, c) BY <2>1 DEF Fits
    <3> QED BY <2>1, <3>1 DEF Copies, Stands, Shaped
  <2>2. CASE Fresh(new[k], log, b, c)
    <3>1. Len(log) \in Nat BY LenProperties
    <3> QED BY <2>2, <3>1 DEF Fresh, Stands, Shaped
  <2> QED BY <1>2, <2>1, <2>2
<1>5. LabelsSound(new, log)
  <2>1. SUFFICES ASSUME NEW i \in DOMAIN new, NEW j \in DOMAIN new, i # j,
                        new[i].label = new[j].label, new[i].label # 0
                 PROVE  log[new[i].label].kind = "context_summary"
    BY DEF LabelsSound
  <2>2. /\ f[i] \in DOMAIN old /\ Copies(new[i], old[f[i]])
        /\ f[j] \in DOMAIN old /\ Copies(new[j], old[f[j]])
    BY <1>2, <2>1 DEF Fresh
  <2>3. f[i] # f[j] BY <1>1, <2>1, <2>2 DEF Derived
  <2>4. /\ old[f[i]].label = new[i].label /\ old[f[j]].label = new[i].label
    BY <2>1, <2>2 DEF Copies
  <2>5. LabelsSound(old, log) BY DEF Fits
  <2> QED BY <2>1, <2>2, <2>3, <2>4, <2>5 DEF LabelsSound
<1>6. Answered(new, log)
  <2>1. SUFFICES ASSUME NEW i \in DOMAIN new, new[i].id.turn # 0, new[i].id \in Consumed(new)
                 PROVE  AnswerAfter(log, new[i].row)
    BY DEF Answered
  <2>2. PICK id : id = new[i].id OBVIOUS
  <2>3. id \in Consumed(old) BY <1>3, <2>1, <2>2
  <2>4. CASE f[i] \in DOMAIN old /\ Copies(new[i], old[f[i]])
    <3>1. old[f[i]].id = id /\ old[f[i]].row = new[i].row BY <2>2, <2>4 DEF Copies
    <3> QED BY <2>1, <2>2, <2>3, <2>4, <3>1 DEF Fits, Answered
  <2>5. CASE Fresh(new[i], log, b, c)
    <3>1. id.turn > c BY <2>1, <2>2, <2>5 DEF Fresh
    <3>2. PICK k \in DOMAIN old : id \in old[k].consumed BY <2>3 DEF Consumed
    <3>3. id.turn <= c BY <3>2 DEF Fits, Stands
    <3>4. id.turn \in Nat
      <4>1. new[i] \in MessageSet BY ElementOfSeq, LenProperties
      <4> QED BY <2>2, <4>1 DEF MessageSet, CallId
    <3> QED BY <3>1, <3>3, <3>4
  <2> QED BY <1>2, <2>4, <2>5
<1> QED BY <1>4, <1>5, <1>6 DEF Fits

\* What a message is made of.
LEMMA MessageFields ==
  ASSUME NEW kind \in Kinds, NEW n \in Nat, NEW id \in CallId, NEW row \in Nat
  PROVE  LET m == Message(kind, n, id, row)
         IN  /\ m \in MessageSet /\ m.kind = kind /\ m.turn = n /\ m.id = id /\ m.row = row
             /\ m.label = 0 /\ m.consumed = {}
BY DEF Message, MessageSet

LEMMA NoCallIs == NoCall \in CallId /\ NoCall.turn = 0
BY DEF NoCall, CallId

\* An omission changes no more than its mark.
LEMMA OmitFits ==
  ASSUME NEW ms \in Seq(MessageSet), NEW log \in Seq(RowSet), NEW b \in Nat, NEW c \in Nat,
         Fits(ms, log, b, c)
  PROVE  /\ Omit(ms) \in Seq(MessageSet) /\ DOMAIN Omit(ms) = DOMAIN ms
         /\ \A i \in DOMAIN ms : Copies(Omit(ms)[i], ms[i])
         /\ Fits(Omit(ms), log, b, c)
<1>1. PICK n \in Nat : n = Len(ms) BY LenProperties
<1>2. DOMAIN ms = 1 .. n BY <1>1, LenProperties
<1>3. PICK new : new = Omit(ms) OBVIOUS
<1>4. DOMAIN new = 1 .. n BY <1>2, <1>3 DEF Omit
<1>5. ASSUME NEW i \in 1 .. n PROVE new[i] \in MessageSet /\ Copies(new[i], ms[i])
  <2>1. ms[i] \in MessageSet BY <1>1, ElementOfSeq
  <2>2. new[i] = IF i \in Omittable(ms) THEN [ms[i] EXCEPT !.omitted = TRUE] ELSE ms[i]
    BY <1>2, <1>3 DEF Omit
  <2> QED BY <2>1, <2>2 DEF MessageSet, Copies
<1>6. new \in Seq(MessageSet)
  <2> DEFINE F(i) == new[i]
  <2>1. new = [i \in 1 .. n |-> F(i)] BY <1>2, <1>3 DEF Omit
  <2>2. \A i \in 1 .. n : F(i) \in MessageSet BY <1>5
  <2> HIDE DEF F
  <2> QED BY <2>1, <2>2
<1>7. PICK f : f = [i \in 1 .. n |-> i] OBVIOUS
<1>8. Derived(f, new, ms, log, b, c)
  <2>1. \A i \in 1 .. n : f[i] = i BY <1>7
  <2> QED BY <1>2, <1>4, <1>5, <2>1 DEF Derived
<1>9. Fits(new, log, b, c) BY <1>6, <1>8, DerivedFits
<1> QED BY <1>2, <1>3, <1>4, <1>5, <1>6, <1>9

\* A part of the messages fits.
LEMMA PickFits ==
  ASSUME NEW ms \in Seq(MessageSet), NEW log \in Seq(RowSet), NEW b \in Nat, NEW c \in Nat,
         Fits(ms, log, b, c), NEW S \in SUBSET (DOMAIN ms)
  PROVE  Pick(ms, S) \in Seq(MessageSet) /\ Fits(Pick(ms, S), log, b, c)
<1>1. PICK f, new : f = Ascending(S) /\ new = Pick(ms, S) OBVIOUS
<1>2. /\ new \in Seq(MessageSet) /\ DOMAIN new = DOMAIN f
      /\ Enumerates(f, S) /\ \A k \in DOMAIN f : new[k] = ms[f[k]]
  BY <1>1, Picked
<1>3. Derived(f, new, ms, log, b, c) BY <1>2 DEF Derived, Enumerates, Copies
<1> QED BY <1>1, <1>2, <1>3, DerivedFits

\* New messages at the end fit.
LEMMA ExtendedFits ==
  ASSUME NEW ms \in Seq(MessageSet), NEW log \in Seq(RowSet), NEW b \in Nat, NEW c \in Nat,
         Fits(ms, log, b, c), NEW more \in Seq(MessageSet),
         \A k \in DOMAIN more : Fresh(more[k], log, b, c)
  PROVE  ms \o more \in Seq(MessageSet) /\ Fits(ms \o more, log, b, c)
<1>1. PICK n \in Nat, m \in Nat : n = Len(ms) /\ m = Len(more) BY LenProperties
<1>2. DOMAIN ms = 1 .. n /\ DOMAIN more = 1 .. m BY <1>1, LenProperties
<1>3. PICK new : new = ms \o more /\ n = Len(ms) BY <1>1
<1>4. new \in Seq(MessageSet) /\ Joined(ms, more, new, n)
  BY <1>3, ConcatProperties, ConcatPlaces
<1>5. DOMAIN new = 1 .. n + m BY <1>1, <1>3, <1>4, ConcatProperties, LenProperties
<1>6. PICK f : f = [k \in 1 .. n + m |-> IF k <= n THEN k ELSE 0] OBVIOUS
<1>7. Derived(f, new, ms, log, b, c)
  <2>1. ASSUME NEW k \in DOMAIN new
        PROVE  \/ f[k] \in DOMAIN ms /\ Copies(new[k], ms[f[k]])
               \/ f[k] = 0 /\ Fresh(new[k], log, b, c)
    <3>1. CASE k \in DOMAIN ms
      <4>1. f[k] = k /\ new[k] = ms[k] BY <1>2, <1>4, <1>5, <1>6, <3>1 DEF Joined
      <4> QED BY <3>1, <4>1 DEF Copies
    <3>2. CASE k \notin DOMAIN ms
      <4>1. PICK j \in DOMAIN more : k = n + j BY <1>4, <3>2 DEF Joined
      <4>2. new[k] = more[j] BY <1>4, <4>1 DEF Joined
      <4>3. f[k] = 0 BY <1>2, <1>5, <1>6, <3>2
      <4> QED BY <4>2, <4>3
    <3> QED BY <3>1, <3>2
  <2>2. ASSUME NEW k \in DOMAIN new, NEW l \in DOMAIN new, k # l, f[k] = f[l] PROVE f[k] = 0
    BY <1>5, <1>6, <2>2
  <2> QED BY <2>1, <2>2 DEF Derived
<1> QED BY <1>3, <1>4, <1>7, DerivedFits

\* What may be evicted is the id of a message, and consumed; where it is.
LEMMA EvictableIs ==
  ASSUME NEW ms
  PROVE  /\ Evictable(ms) \subseteq Consumed(ms)
         /\ Gone(ms) \subseteq DOMAIN ms
         /\ Evictable(ms) # {} => Gone(ms) # {}
<1>1. \A id \in Evictable(ms) : id \in Consumed(ms) /\ \E i \in DOMAIN ms : ms[i].id = id
  BY DEF Evictable, Ids
<1> QED BY <1>1 DEF Gone

\* After a compression: copies of messages, and the summary.
Shortened(f, new, ms, row) ==
    /\ \A k \in DOMAIN new :
          \/ f[k] \in DOMAIN ms /\ new[k] = ms[f[k]]
          \/ f[k] = 0 /\ new[k] = Message("context_summary", 0, NoCall, row)
    /\ \A k, l \in DOMAIN new : k # l /\ f[k] = f[l] => f[k] = 0

\* The copies keep their order; only evicted messages and summaries have none.
InOrder(f, new, ms) ==
    /\ \A k, l \in DOMAIN new : k < l /\ f[k] # 0 /\ f[l] # 0 => f[k] < f[l]
    /\ \A k \in DOMAIN new : f[k] \notin Gone(ms)
    /\ \A i \in DOMAIN ms : \/ i \in Gone(ms) \/ ms[i].kind = "context_summary"
                            \/ \E k \in DOMAIN new : f[k] = i

LEMMA CompressShortens ==
  ASSUME NEW ms \in Seq(MessageSet), Evictable(ms) # {}, NEW row \in Nat
  PROVE  /\ Compress(ms, row) \in Seq(MessageSet)
         /\ \E f : Shortened(f, Compress(ms, row), ms, row) /\ InOrder(f, Compress(ms, row), ms)
<1>1. PICK n \in Nat : n = Len(ms) BY LenProperties
<1>2. DOMAIN ms = 1 .. n BY <1>1, LenProperties
<1>3. PICK at : at = CHOOSE i \in Gone(ms) : \A j \in Gone(ms) : i <= j OBVIOUS
<1>4. at \in Nat
  <2>1. Gone(ms) \subseteq Nat /\ Gone(ms) # {} BY <1>2, EvictableIs
  <2>2. \E i \in Gone(ms) : \A j \in Gone(ms) : i <= j BY <2>1, Least
  <2> QED BY <1>3, <2>1, <2>2
<1>5. PICK latest : latest = {i \in DOMAIN ms : /\ ms[i].kind = "context_summary"
                                /\ \A j \in i + 1 .. Len(ms) : ms[j].kind # "context_summary"}
  OBVIOUS
<1>6. PICK kept : kept = DOMAIN ms \ (Gone(ms) \cup latest) OBVIOUS
<1>7. PICK S, T : S = {i \in kept : i < at} /\ T = {i \in kept : i > at} OBVIOUS
<1>8. PICK m : m = Message("context_summary", 0, NoCall, row) OBVIOUS
<1>9. PICK s, t, mid : s = Pick(ms, S) /\ t = Pick(ms, T) /\ mid = <<m>> OBVIOUS
<1>10. Compress(ms, row) = s \o mid \o t
  BY <1>3, <1>5, <1>6, <1>7, <1>8, <1>9 DEF Compress
<1>11. S \in SUBSET (DOMAIN ms) /\ T \in SUBSET (DOMAIN ms) BY <1>6, <1>7
<1>12. \A i \in S : i \notin T
  <2>1. ASSUME NEW i \in S PROVE i \notin T
    <3>1. i \in Nat /\ i < at BY <1>2, <1>6, <1>7
    <3>2. ~(i > at) BY <1>4, <3>1
    <3> QED BY <1>7, <3>2
  <2> QED BY <2>1
<1>13. PICK g, h : g = Ascending(S) /\ h = Ascending(T) OBVIOUS
<1>14. /\ s \in Seq(MessageSet) /\ DOMAIN s = DOMAIN g /\ Enumerates(g, S)
       /\ \A k \in DOMAIN g : s[k] = ms[g[k]]
  BY <1>9, <1>11, <1>13, Picked
<1>15. /\ t \in Seq(MessageSet) /\ DOMAIN t = DOMAIN h /\ Enumerates(h, T)
       /\ \A k \in DOMAIN h : t[k] = ms[h[k]]
  BY <1>9, <1>11, <1>13, Picked
<1>16. m \in MessageSet
  <2>1. "context_summary" \in Kinds BY DEF Kinds
  <2> QED BY <1>8, <2>1, NoCallIs, MessageFields
<1>17. mid \in Seq(MessageSet) /\ DOMAIN mid = {1} /\ mid[1] = m BY <1>9, <1>16
<1>18. PICK u, p : u = s \o mid /\ p = Len(s) OBVIOUS
<1>19. u \in Seq(MessageSet) /\ Joined(s, mid, u, p) BY <1>14, <1>17, <1>18, ConcatProperties, ConcatPlaces
<1>20. PICK v, q : v = u \o t /\ q = Len(u) OBVIOUS
<1>21. v \in Seq(MessageSet) /\ Joined(u, t, v, q) BY <1>15, <1>19, <1>20, ConcatProperties, ConcatPlaces
<1>22. /\ p \in Nat /\ DOMAIN s = 1 .. p /\ q = p + 1 /\ DOMAIN u = 1 .. q
  <2>1. Len(mid) = 1 BY <1>9
  <2>2. p \in Nat /\ DOMAIN s = 1 .. p BY <1>14, <1>18, LenProperties
  <2>3. Len(u) = Len(s) + Len(mid) BY <1>14, <1>17, <1>18, ConcatProperties
  <2>4. q = p + 1 BY <1>18, <1>20, <2>1, <2>3
  <2>5. DOMAIN u = 1 .. q BY <1>19, <1>20, LenProperties
  <2> QED BY <2>2, <2>4, <2>5
<1>23. PICK r \in Nat : r = Len(t) /\ DOMAIN t = 1 .. r BY <1>15, LenProperties
<1>24. DOMAIN v = 1 .. q + r /\ q \in Nat
  <2>1. Len(v) = q + r BY <1>15, <1>19, <1>20, <1>23, ConcatProperties
  <2>2. DOMAIN v = 1 .. Len(v) BY <1>21, LenProperties
  <2> QED BY <1>22, <2>1, <2>2
<1>25. PICK f : f = [k \in 1 .. q + r |-> IF k <= p THEN g[k] ELSE IF k = q THEN 0 ELSE h[k - q]]
  OBVIOUS
<1>26. ASSUME NEW k \in DOMAIN v
       PROVE  \/ k \in 1 .. p /\ f[k] = g[k] /\ g[k] \in S /\ v[k] = ms[g[k]]
              \/ k = q /\ f[k] = 0 /\ v[k] = m
              \/ \E j \in 1 .. r : k = q + j /\ f[k] = h[j] /\ h[j] \in T /\ v[k] = ms[h[j]]
  <2>1. CASE k \in 1 .. p
    <3>1. k \in DOMAIN u /\ k \in DOMAIN s BY <1>22, <2>1
    <3>2. v[k] = u[k] BY <1>21, <3>1 DEF Joined
    <3>3. u[k] = s[k] BY <1>19, <3>1 DEF Joined
    <3>4. s[k] = ms[g[k]] /\ g[k] \in S BY <1>14, <3>1 DEF Enumerates
    <3>5. f[k] = g[k] BY <1>24, <1>25, <2>1
    <3> QED BY <2>1, <3>2, <3>3, <3>4, <3>5
  <2>2. CASE k = q
    <3>1. k \in DOMAIN u /\ 1 \in DOMAIN mid /\ k = p + 1 BY <1>17, <1>22, <2>2
    <3>2. v[k] = u[k] BY <1>21, <3>1 DEF Joined
    <3>3. u[k] = mid[1] BY <1>19, <3>1 DEF Joined
    <3>4. f[k] = 0 BY <1>22, <1>24, <1>25, <2>2
    <3> QED BY <1>17, <2>2, <3>2, <3>3, <3>4
  <2>3. CASE k \notin 1 .. p /\ k # q
    <3>1. PICK j \in 1 .. r : k = q + j
      <4>1. k \notin DOMAIN u BY <1>22, <1>24, <2>3
      <4> QED BY <1>21, <1>23, <4>1 DEF Joined
    <3>2. j \in DOMAIN t BY <1>23
    <3>3. v[k] = t[j] BY <1>21, <3>1, <3>2 DEF Joined
    <3>4. t[j] = ms[h[j]] /\ h[j] \in T BY <1>15, <3>2 DEF Enumerates
    <3>5. f[k] = h[j]
      <4>1. ~(k <= p) /\ k # q /\ k - q = j /\ k \in 1 .. q + r BY <1>22, <1>24, <3>1
      <4>2. f[k] = h[k - q] BY <1>25, <4>1
      <4> QED BY <4>1, <4>2
    <3> QED BY <3>1, <3>3, <3>4, <3>5
  <2> QED BY <2>1, <2>2, <2>3
<1>27. \A i \in S : i \in DOMAIN ms /\ i # 0 BY <1>2, <1>11
<1>28. \A i \in T : i \in DOMAIN ms /\ i # 0 BY <1>2, <1>11
<1>29. ASSUME NEW k \in DOMAIN v
       PROVE  \/ f[k] \in DOMAIN ms /\ v[k] = ms[f[k]]
              \/ f[k] = 0 /\ v[k] = m
  <2>1. CASE k \in 1 .. p /\ f[k] = g[k] /\ g[k] \in S /\ v[k] = ms[g[k]] BY <1>27, <2>1
  <2>2. CASE \E j \in 1 .. r : k = q + j /\ f[k] = h[j] /\ h[j] \in T /\ v[k] = ms[h[j]]
    BY <1>28, <2>2
  <2> QED BY <1>26, <2>1, <2>2
<1>30. ASSUME NEW k \in DOMAIN v, NEW l \in DOMAIN v, f[k] = f[l], f[k] # 0 PROVE k = l
  <2>1. CASE f[k] \in S
    <3>1. f[k] \notin T /\ f[l] \notin T BY <1>12, <1>30, <2>1
    <3>2. k \in 1 .. p /\ f[k] = g[k] BY <1>26, <1>30, <3>1
    <3>3. l \in 1 .. p /\ f[l] = g[l] BY <1>26, <1>30, <3>1
    <3>4. k \in DOMAIN g /\ l \in DOMAIN g BY <1>14, <1>22, <3>2, <3>3
    <3> QED BY <1>14, <1>30, <3>2, <3>3, <3>4 DEF Enumerates
  <2>2. CASE f[k] \notin S
    <3>1. PICK j \in 1 .. r : k = q + j /\ f[k] = h[j] BY <1>26, <1>30, <2>2
    <3>2. PICK i \in 1 .. r : l = q + i /\ f[l] = h[i] BY <1>26, <1>30, <2>2
    <3>3. j \in DOMAIN h /\ i \in DOMAIN h BY <1>15, <1>23
    <3>4. i = j BY <1>15, <1>30, <3>1, <3>2, <3>3 DEF Enumerates
    <3> QED BY <3>1, <3>2, <3>4
  <2> QED BY <2>1, <2>2
<1>31. Shortened(f, v, ms, row) BY <1>8, <1>29, <1>30 DEF Shortened
<1>32. Orders(g, S) /\ Orders(h, T) BY <1>2, <1>11, <1>13, AscendingOrders
<1>33. \A i \in S : i \in Nat /\ i < at BY <1>2, <1>7, <1>11
<1>34. \A i \in T : i \in Nat /\ i > at BY <1>2, <1>7, <1>11
<1>35. ASSUME NEW k \in DOMAIN v, NEW l \in DOMAIN v, k < l, f[k] # 0, f[l] # 0
       PROVE  f[k] < f[l]
  <2>1. CASE k \in 1 .. p /\ f[k] = g[k] /\ g[k] \in S
    <3>1. CASE l \in 1 .. p /\ f[l] = g[l]
      <4>1. k \in DOMAIN g /\ l \in DOMAIN g BY <1>14, <1>22, <2>1, <3>1
      <4> QED BY <1>32, <1>35, <2>1, <3>1, <4>1 DEF Orders
    <3>2. CASE \E j \in 1 .. r : f[l] = h[j] /\ h[j] \in T
      <4>1. f[l] \in T BY <3>2
      <4>2. f[k] \in Nat /\ f[l] \in Nat /\ f[k] < at /\ f[l] > at BY <1>33, <1>34, <2>1, <4>1
      <4> QED BY <1>4, <4>2
    <3> QED BY <1>26, <1>35, <3>1, <3>2
  <2>2. CASE \E j \in 1 .. r : k = q + j /\ f[k] = h[j]
    <3>1. PICK i \in 1 .. r : k = q + i /\ f[k] = h[i] BY <2>2
    <3>2. ~(l \in 1 .. p) BY <1>22, <1>35, <3>1
    <3>3. PICK j \in 1 .. r : l = q + j /\ f[l] = h[j] BY <1>26, <1>35, <3>2
    <3>4. i < j BY <1>22, <1>35, <3>1, <3>3
    <3>5. i \in DOMAIN h /\ j \in DOMAIN h BY <1>15, <1>23
    <3> QED BY <1>32, <3>1, <3>3, <3>4, <3>5 DEF Orders
  <2> QED BY <1>26, <1>35, <2>1, <2>2
<1>36. ASSUME NEW k \in DOMAIN v PROVE f[k] \notin Gone(ms)
  <2>1. CASE f[k] = 0 BY <1>2, <2>1, EvictableIs
  <2>2. CASE f[k] # 0
    <3>1. f[k] \in S \/ f[k] \in T BY <1>26, <2>2
    <3> QED BY <1>6, <1>7, <3>1
  <2> QED BY <2>1, <2>2
<1>37. ASSUME NEW i \in DOMAIN ms, i \notin Gone(ms), ms[i].kind # "context_summary"
       PROVE  \E k \in DOMAIN v : f[k] = i
  <2>1. i \in kept BY <1>5, <1>6, <1>37
  <2>2. at \in Gone(ms)
    <3>1. Gone(ms) \subseteq Nat /\ Gone(ms) # {} BY <1>2, EvictableIs
    <3>2. \E j \in Gone(ms) : \A l \in Gone(ms) : j <= l BY <3>1, Least
    <3> QED BY <1>3, <3>2
  <2>3. i < at \/ i > at BY <1>2, <1>4, <1>37, <2>2
  <2>4. CASE i < at
    <3>1. i \in S BY <1>7, <2>1, <2>4
    <3>2. PICK k \in DOMAIN g : g[k] = i BY <1>32, <3>1 DEF Orders
    <3>3. k \in 1 .. p BY <1>14, <1>22, <3>2
    <3>4. k \in 1 .. q + r /\ k <= p BY <1>22, <3>3
    <3>5. f[k] = g[k] BY <1>25, <3>4
    <3> QED BY <1>24, <3>2, <3>4, <3>5
  <2>5. CASE i > at
    <3>1. i \in T BY <1>7, <2>1, <2>5
    <3>2. PICK j \in DOMAIN h : h[j] = i BY <1>32, <3>1 DEF Orders
    <3>3. j \in 1 .. r BY <1>15, <1>23, <3>2
    <3>4. PICK k : k = q + j OBVIOUS
    <3>5. k \in 1 .. q + r /\ ~(k <= p) /\ k # q /\ k - q = j BY <1>22, <3>3, <3>4
    <3>6. f[k] = h[k - q] BY <1>25, <3>5
    <3> QED BY <1>24, <3>2, <3>5, <3>6
  <2> QED BY <2>3, <2>4, <2>5
<1>38. InOrder(f, v, ms) BY <1>35, <1>36, <1>37 DEF InOrder
<1>39. Compress(ms, row) = v BY <1>10, <1>18, <1>20
<1> QED BY <1>21, <1>31, <1>38, <1>39

LEMMA Greatest ==
  ASSUME NEW N \in Nat, NEW T \in SUBSET (1 .. N), T # {}
  PROVE  \E n \in T : \A k \in T : k <= n
<1>1. PICK S : S = {N - k : k \in T} OBVIOUS
<1>2. ASSUME NEW k \in T PROVE k \in Nat /\ N - k \in Nat
  <2>1. k \in 1 .. N OBVIOUS
  <2> QED BY <2>1
<1>3. \A s \in S : s \in Nat BY <1>1, <1>2
<1>4. S \subseteq Nat /\ S # {}
  <2>1. PICK k : k \in T OBVIOUS
  <2>2. N - k \in S BY <1>1, <2>1
  <2> QED BY <1>3, <2>2
<1>5. PICK s \in S : \A r \in S : s <= r BY <1>4, Least
<1>6. PICK n \in T : s = N - n BY <1>1
<1>7. ASSUME NEW k \in T PROVE k <= n
  <2>1. N - n <= N - k BY <1>1, <1>5, <1>6
  <2> QED BY <1>2, <2>1
<1> QED BY <1>7

\* Where the messages of a call begin.
LEMMA StartIs ==
  ASSUME NEW ms \in Seq(MessageSet), NEW id \in Ids(ms)
  PROVE  /\ Start(ms, id) \in DOMAIN ms /\ ms[Start(ms, id)].id = id
         /\ \A j \in DOMAIN ms : j < Start(ms, id) => ms[j].id # id
<1>1. PICK n \in Nat : n = Len(ms) BY LenProperties
<1>2. DOMAIN ms = 1 .. n BY <1>1, LenProperties
<1>3. PICK T : T = {i \in 1 .. n : ms[i].id = id} OBVIOUS
<1>4. T \subseteq Nat /\ T # {} BY <1>2, <1>3 DEF Ids
<1>5. PICK i \in T : \A j \in T : i <= j BY <1>4, Least
<1>6. i \in DOMAIN ms /\ ms[i].id = id /\ \A j \in 1 .. i - 1 : ms[j].id # id
  <2>1. ASSUME NEW j \in 1 .. i - 1, ms[j].id = id PROVE FALSE
    <3>1. i \in 1 .. n BY <1>3
    <3>2. j \in 1 .. n /\ ~(i <= j) BY <3>1
    <3> QED BY <1>3, <1>5, <2>1, <3>2
  <2> QED BY <1>2, <1>3, <2>1
<1>7. PICK s : s = Start(ms, id) OBVIOUS
<1>8. s \in DOMAIN ms /\ ms[s].id = id /\ \A j \in 1 .. s - 1 : ms[j].id # id
  BY <1>6, <1>7 DEF Start
<1>9. ASSUME NEW j \in DOMAIN ms, j < s PROVE ms[j].id # id
  <2>1. j \in 1 .. s - 1 BY <1>2, <1>8, <1>9
  <2> QED BY <1>8, <2>1
<1> QED BY <1>7, <1>8, <1>9

LEMMA IdsFinite == ASSUME NEW ms \in Seq(MessageSet) PROVE IsFiniteSet(Ids(ms))
<1>1. PICK n \in Nat : n = Len(ms) BY LenProperties
<1>2. DOMAIN ms = 1 .. n BY <1>1, LenProperties
<1>3. PICK f : f = [i \in 1 .. n |-> ms[i].id] OBVIOUS
<1>4. PICK T : T = {ms[i].id : i \in 1 .. n} OBVIOUS
<1>5. f \in Surjection(1 .. n, T) BY <1>3, <1>4 DEF Surjection
<1>6. IsFiniteSet(1 .. n) BY <1>1, FS_Interval
<1>7. IsFiniteSet(T) BY <1>5, <1>6, FS_Surjection
<1>8. Ids(ms) \in SUBSET T BY <1>2, <1>4 DEF Ids
<1> QED BY <1>7, <1>8, FS_Subset

\* A compression leaves nothing to evict.
LEMMA CompressExhausts ==
  ASSUME NEW ms \in Seq(MessageSet), \A i \in DOMAIN ms : Shaped(ms[i]),
         NEW row \in Nat, NEW new \in Seq(MessageSet), NEW f,
         Shortened(f, new, ms, row), InOrder(f, new, ms)
  PROVE  Evictable(new) = {}
<1>1. PICK m : m = Message("context_summary", 0, NoCall, row) OBVIOUS
<1>2. m.id = NoCall /\ m.consumed = {}
  <2>1. "context_summary" \in Kinds /\ 0 \in Nat BY DEF Kinds
  <2> QED BY <1>1, <2>1, NoCallIs, MessageFields
<1>3. /\ 0 \notin DOMAIN ms /\ \A i \in DOMAIN ms : i \in Nat
      /\ 0 \notin DOMAIN new /\ \A i \in DOMAIN new : i \in Nat
  <2>1. DOMAIN ms = 1 .. Len(ms) /\ Len(ms) \in Nat BY LenProperties
  <2>2. DOMAIN new = 1 .. Len(new) /\ Len(new) \in Nat BY LenProperties
  <2> QED BY <2>1, <2>2
<1>4. ASSUME NEW k \in DOMAIN new
      PROVE  (f[k] \in DOMAIN ms /\ f[k] # 0 /\ new[k] = ms[f[k]]) \/ new[k] = m
  BY <1>1, <1>3 DEF Shortened
<1>5. ASSUME NEW k \in DOMAIN new, new[k].id # NoCall
      PROVE  /\ f[k] \in DOMAIN ms /\ f[k] # 0 /\ new[k] = ms[f[k]]
             /\ new[k].id \in Ids(ms) /\ new[k].id \notin Evictable(ms)
  <2>1. f[k] \in DOMAIN ms /\ f[k] # 0 /\ new[k] = ms[f[k]] BY <1>2, <1>4, <1>5
  <2>2. f[k] \notin Gone(ms) BY DEF InOrder
  <2> QED BY <1>5, <2>1, <2>2 DEF Ids, Gone
<1>6. \A id \in Ids(new) : id \in Ids(ms) /\ id \notin Evictable(ms) /\ id # NoCall
  BY <1>5 DEF Ids
<1>7. ASSUME NEW id \in Consumed(new) PROVE id \in Consumed(ms)
  <2>1. PICK k \in DOMAIN new : id \in new[k].consumed BY DEF Consumed
  <2>2. f[k] \in DOMAIN ms /\ new[k] = ms[f[k]] BY <1>2, <1>4, <2>1
  <2> QED BY <2>1, <2>2 DEF Consumed
<1>8. ASSUME NEW id \in Ids(new) PROVE Start(ms, id) = f[Start(new, id)]
  <2>1. PICK s : s = Start(new, id) OBVIOUS
  <2>2. s \in DOMAIN new /\ new[s].id = id /\ \A j \in DOMAIN new : j < s => new[j].id # id
    BY <2>1, StartIs
  <2>3. PICK a : a = Start(ms, id) OBVIOUS
  <2>4. a \in DOMAIN ms /\ ms[a].id = id /\ \A j \in DOMAIN ms : j < a => ms[j].id # id
    BY <1>6, <2>3, StartIs
  <2>5. a \notin Gone(ms) /\ ms[a].kind # "context_summary"
    <3>1. Shaped(ms[a]) BY <2>4
    <3> QED BY <1>6, <2>4, <3>1 DEF Shaped, Gone
  <2>6. PICK k \in DOMAIN new : f[k] = a BY <2>4, <2>5 DEF InOrder
  <2>7. f[k] # 0 /\ new[k] = ms[a] BY <1>3, <2>4, <2>6 DEF Shortened
  <2>8. f[s] \in DOMAIN ms /\ f[s] # 0 /\ new[s] = ms[f[s]] BY <1>5, <1>6, <2>2
  <2>9. ~(k < s) BY <2>2, <2>4, <2>7
  <2>10. ~(s < k)
    <3>1. SUFFICES ASSUME s < k PROVE FALSE OBVIOUS
    <3>2. f[s] < a BY <2>2, <2>6, <2>7, <2>8, <3>1 DEF InOrder
    <3> QED BY <2>2, <2>4, <2>8, <3>2
  <2>11. s = k BY <1>3, <2>2, <2>9, <2>10
  <2> QED BY <2>1, <2>3, <2>6, <2>11
<1>9. ASSUME NEW i \in Ids(new), NEW j \in Ids(new), Start(new, j) > Start(new, i)
      PROVE  Start(ms, j) > Start(ms, i)
  <2>1. PICK a, b : a = Start(new, i) /\ b = Start(new, j) OBVIOUS
  <2>2. a \in DOMAIN new /\ b \in DOMAIN new /\ new[a].id = i /\ new[b].id = j
    BY <2>1, StartIs
  <2>3. f[a] # 0 /\ f[b] # 0 /\ f[a] \in DOMAIN ms /\ f[b] \in DOMAIN ms
    BY <1>5, <1>6, <2>2
  <2>4. a < b BY <1>3, <1>9, <2>1, <2>2
  <2>5. f[a] < f[b] BY <2>2, <2>3, <2>4 DEF InOrder
  <2>6. f[b] > f[a] BY <1>3, <2>3, <2>5
  <2> QED BY <1>8, <2>1, <2>6
<1>10. ASSUME NEW id \in Ids(new), id \in Recent(ms) PROVE id \in Recent(new)
  <2>1. PICK A, B : /\ A = {j \in Ids(new) : Start(new, j) > Start(new, id)}
                    /\ B = {j \in Ids(ms) : Start(ms, j) > Start(ms, id)}
    OBVIOUS
  <2>2. A \in SUBSET B BY <1>6, <1>9, <2>1
  <2>3. B \in SUBSET Ids(ms) BY <2>1
  <2>4. IsFiniteSet(B) BY <2>3, IdsFinite, FS_Subset
  <2>5. /\ Cardinality(A) <= Cardinality(B)
        /\ Cardinality(A) \in Nat /\ Cardinality(B) \in Nat
    BY <2>2, <2>4, FS_Subset, FS_CardinalityType
  <2>6. Cardinality(B) < Retain BY <1>10, <2>1 DEF Recent
  <2>7. Cardinality(A) < Retain BY <2>5, <2>6, LogAssumption
  <2> QED BY <2>1, <2>7 DEF Recent
<1>11. ASSUME NEW id \in Evictable(new) PROVE FALSE
  <2>1. id \in Ids(new) /\ id \in Consumed(new) /\ id \notin Recent(new) BY DEF Evictable
  <2>2. id \in Ids(ms) /\ id \in Consumed(ms) /\ id \notin Evictable(ms) BY <1>6, <1>7, <2>1
  <2>3. id \in Recent(ms) BY <2>2 DEF Evictable
  <2> QED BY <1>10, <2>1, <2>3
<1> QED BY <1>11

\* What may be evicted was consumed by an answer, which is a call of its own that none
\* has consumed.
LEMMA ConsumerStays ==
  ASSUME NEW ms \in Seq(MessageSet), Evictable(ms) # {}, NEW b \in Nat,
         \A i \in DOMAIN ms : Shaped(ms[i]) /\ ms[i].id.turn <= b
  PROVE  \E i \in DOMAIN ms : ms[i].id # NoCall /\ ms[i].id \notin Evictable(ms)
<1>1. PICK T : T = {i \in DOMAIN ms : ms[i].consumed # {}} OBVIOUS
<1>2. PICK U : U = {ms[i].id.turn : i \in T} OBVIOUS
<1>3. ASSUME NEW i \in DOMAIN ms PROVE ms[i].id \in CallId /\ ms[i].id.turn \in Nat
  <2>1. ms[i] \in MessageSet BY ElementOfSeq, LenProperties
  <2> QED BY <2>1 DEF MessageSet, CallId
<1>4. U # {} /\ U \in SUBSET (1 .. b)
  <2>1. PICK id : id \in Evictable(ms) OBVIOUS
  <2>2. PICK i \in DOMAIN ms : id \in ms[i].consumed BY <2>1 DEF Evictable, Consumed
  <2>3. \A u \in U : u \in 1 .. b BY <1>1, <1>2, <1>3 DEF Shaped
  <2> QED BY <1>1, <1>2, <2>2, <2>3
<1>5. PICK t \in U : \A u \in U : u <= t BY <1>4, Greatest
<1>6. PICK i \in T : ms[i].id.turn = t BY <1>2
<1>7. ms[i].id = Final(t) /\ t # 0 /\ i \in DOMAIN ms BY <1>1, <1>6 DEF Shaped
<1>8. ms[i].id # NoCall BY <1>6, <1>7, NoCallIs
<1>9. ASSUME NEW k \in DOMAIN ms, ms[i].id \in ms[k].consumed PROVE FALSE
  <2>1. k \in T BY <1>1, <1>9
  <2>2. ms[k].id.turn \in U BY <1>2, <2>1
  <2>3. ms[k].id = Final(ms[k].id.turn) BY <1>9 DEF Shaped
  <2>4. t <= ms[k].id.turn /\ ms[i].id # ms[k].id BY <1>6, <1>9 DEF Shaped
  <2>5. ms[k].id.turn <= t BY <1>5, <2>2
  <2>6. ms[k].id.turn = t BY <1>3, <1>6, <1>7, <2>4, <2>5
  <2> QED BY <1>7, <2>3, <2>4, <2>6
<1>10. ms[i].id \notin Evictable(ms) BY <1>9 DEF Evictable, Consumed
<1> QED BY <1>7, <1>8, <1>10

-----------------------------------------------------------------------------
(* The log grows. *)

Extends(log2, log) ==
    /\ Len(log) <= Len(log2) /\ Len(log) \in Nat /\ Len(log2) \in Nat
    /\ DOMAIN log = 1 .. Len(log) /\ DOMAIN log2 = 1 .. Len(log2)
    /\ \A i \in 1 .. Len(log) : i \in 1 .. Len(log2) /\ log2[i] = log[i]

LEMMA LogExtends ==
  ASSUME NEW log \in Seq(RowSet), NEW more \in Seq(RowSet)
  PROVE  /\ log \o more \in Seq(RowSet) /\ Extends(log \o more, log)
         /\ Len(log \o more) = Len(log) + Len(more) /\ Len(more) \in Nat
<1>1. PICK n \in Nat, m \in Nat : n = Len(log) /\ m = Len(more) BY LenProperties
<1>2. PICK u : u = log \o more /\ n = Len(log) /\ m = Len(more) BY <1>1
<1>3. u \in Seq(RowSet) /\ Joined(log, more, u, n) /\ Len(u) = n + m
  BY <1>2, ConcatProperties, ConcatPlaces
<1>4. DOMAIN log = 1 .. n /\ DOMAIN u = 1 .. n + m BY <1>2, <1>3, LenProperties
<1>5. n <= n + m /\ n + m \in Nat OBVIOUS
<1>6. Extends(u, log) BY <1>2, <1>3, <1>4, <1>5 DEF Extends, Joined
<1> QED BY <1>1, <1>2, <1>3, <1>6

LEMMA ExtendsItself == ASSUME NEW log \in Seq(RowSet) PROVE Extends(log, log)
<1>1. Len(log) \in Nat /\ DOMAIN log = 1 .. Len(log) BY LenProperties
<1> QED BY <1>1 DEF Extends

LEMMA AnswerStays ==
  ASSUME NEW log, NEW log2, Extends(log2, log), NEW n \in Nat, AnswerAfter(log, n)
  PROVE  AnswerAfter(log2, n)
<1>1. PICK j \in n + 1 .. Len(log) : log[j].kind = "assistant_output" BY DEF AnswerAfter
<1>2. j \in 1 .. Len(log) BY DEF Extends
<1>3. log2[j] = log[j] /\ j \in n + 1 .. Len(log2) BY <1>2 DEF Extends
<1> QED BY <1>1, <1>3 DEF AnswerAfter

\* What fitted goes on fitting.
LEMMA FitsStays ==
  ASSUME NEW ms \in Seq(MessageSet), NEW log, NEW log2, Extends(log2, log),
         NEW b \in Nat, NEW c \in Nat, NEW b2 \in Nat, NEW c2 \in Nat, b <= b2, c <= c2,
         Fits(ms, log, b, c)
  PROVE  Fits(ms, log2, b2, c2)
<1>1. ASSUME NEW i \in DOMAIN ms PROVE ms[i] \in MessageSet
  BY ElementOfSeq, LenProperties
<1>2. ASSUME NEW i \in DOMAIN ms PROVE Stands(ms[i], log2, b2, c2)
  <2>1. PICK m \in MessageSet : m = ms[i] BY <1>1
  <2>2. Stands(m, log, b, c) BY <2>1 DEF Fits
  <2>3. m.label \in Nat /\ m.row \in Nat /\ m.id.turn \in Nat /\ \A id \in m.consumed : id.turn \in Nat
    BY DEF MessageSet, CallId
  <2>4. m.row # 0 => log2[m.row] = log[m.row] BY <2>2, <2>3 DEF Stands, Extends
  <2>5. Len(log) \in Nat /\ Len(log2) \in Nat /\ Len(log) <= Len(log2) BY DEF Extends
  <2>6. m.label <= Len(log2) /\ m.row <= Len(log2) BY <2>2, <2>3, <2>5 DEF Stands
  <2>7. m.id.turn <= b2 BY <2>2, <2>3 DEF Stands
  <2>8. ASSUME NEW id \in m.consumed PROVE id.turn <= c2
    <3>1. id.turn <= c /\ id.turn \in Nat BY <2>2, <2>3 DEF Stands
    <3> QED BY <3>1
  <2>9. Shaped(m) BY <2>2 DEF Stands
  <2> QED BY <2>1, <2>2, <2>4, <2>6, <2>7, <2>8, <2>9 DEF Stands
<1>3. LabelsSound(ms, log2)
  <2>1. SUFFICES ASSUME NEW i \in DOMAIN ms, NEW j \in DOMAIN ms, i # j,
                        ms[i].label = ms[j].label, ms[i].label # 0
                 PROVE  log2[ms[i].label].kind = "context_summary"
    BY DEF LabelsSound
  <2>2. PICK k : k = ms[i].label OBVIOUS
  <2>3. log[k].kind = "context_summary" BY <2>1, <2>2 DEF Fits, LabelsSound
  <2>4. k \in Nat /\ k # 0 BY <1>1, <2>1, <2>2 DEF MessageSet
  <2>5. k <= Len(log) BY <2>2 DEF Fits, Stands
  <2>6. k \in 1 .. Len(log) BY <2>4, <2>5 DEF Extends
  <2> QED BY <2>2, <2>3, <2>6 DEF Extends
<1>4. Answered(ms, log2)
  <2>1. SUFFICES ASSUME NEW i \in DOMAIN ms, ms[i].id.turn # 0, ms[i].id \in Consumed(ms)
                 PROVE  AnswerAfter(log2, ms[i].row)
    BY DEF Answered
  <2>2. AnswerAfter(log, ms[i].row) BY <2>1 DEF Fits, Answered
  <2>3. ms[i].row \in Nat BY <1>1 DEF MessageSet
  <2> QED BY <2>2, <2>3, AnswerStays
<1> QED BY <1>2, <1>3, <1>4 DEF Fits

LEMMA SoundStays ==
  ASSUME NEW projection \in Seq(Nat), NEW log, NEW log2, Extends(log2, log), Sound(projection, log)
  PROVE  Sound(projection, log2)
<1>1. ASSUME NEW i \in DOMAIN projection
      PROVE  projection[i] \in 1 .. Len(log2) /\ log2[projection[i]] = log[projection[i]]
  BY DEF Sound, Extends
<1> QED BY <1>1 DEF Sound

\* Labels from a sound projection.
LEMMA SyncedFits ==
  ASSUME NEW ms \in Seq(MessageSet), NEW log \in Seq(RowSet), NEW b, NEW c, Fits(ms, log, b, c),
         NEW projection \in Seq(Nat), Sound(projection, log)
  PROVE  Synced(ms, projection) \in Seq(MessageSet) /\ Fits(Synced(ms, projection), log, b, c)
<1>1. CASE Len(ms) # Len(projection) BY <1>1 DEF Synced
<1>2. CASE Len(ms) = Len(projection)
  <2>1. PICK n \in Nat : n = Len(ms) BY LenProperties
  <2>2. DOMAIN ms = 1 .. n /\ DOMAIN projection = 1 .. n BY <1>2, <2>1, LenProperties
  <2>3. PICK new : new = Synced(ms, projection) OBVIOUS
  <2> DEFINE F(k) == [ms[k] EXCEPT !.label = projection[k]]
  <2>4. new = [k \in 1 .. n |-> F(k)] BY <1>2, <2>2, <2>3 DEF Synced
  <2>5. ASSUME NEW k \in 1 .. n
        PROVE  /\ F(k) \in MessageSet /\ F(k).label = projection[k] /\ F(k).id = ms[k].id
               /\ F(k).row = ms[k].row /\ F(k).consumed = ms[k].consumed
               /\ F(k).kind = ms[k].kind
    <3>1. ms[k] \in MessageSet /\ projection[k] \in Nat BY <1>2, <2>1, ElementOfSeq
    <3> QED BY <3>1 DEF MessageSet
  <2>6. ASSUME NEW k \in 1 .. n PROVE new[k] = F(k) BY <2>4
  <2> HIDE DEF F
  <2>7. new \in Seq(MessageSet) /\ DOMAIN new = 1 .. n BY <2>4, <2>5
  <2>8. ASSUME NEW k \in 1 .. n
        PROVE  /\ new[k].label = projection[k] /\ new[k].id = ms[k].id
               /\ new[k].row = ms[k].row /\ new[k].consumed = ms[k].consumed
               /\ new[k].kind = ms[k].kind
    BY <2>5, <2>6
  <2>9. Consumed(new) = Consumed(ms) BY <2>2, <2>7, <2>8 DEF Consumed
  <2>10. ASSUME NEW k \in 1 .. n PROVE Stands(new[k], log, b, c)
    <3>1. projection[k] \in 1 .. Len(log) BY <2>2 DEF Sound
    <3>2. Len(log) \in Nat BY LenProperties
    <3>3. projection[k] <= Len(log) BY <3>1, <3>2
    <3>4. Stands(ms[k], log, b, c) BY <2>2 DEF Fits
    <3> QED BY <2>8, <3>3, <3>4 DEF Stands, Shaped
  <2>11. LabelsSound(new, log) BY <2>2, <2>7, <2>8 DEF LabelsSound, Sound
  <2>12. Answered(new, log) BY <2>2, <2>7, <2>8, <2>9 DEF Answered, Fits
  <2>13. Fits(new, log, b, c) BY <2>7, <2>10, <2>11, <2>12 DEF Fits
  <2> QED BY <2>3, <2>7, <2>13
<1> QED BY <1>1, <1>2

\* The compressed messages fit a log that holds the summary.
LEMMA CompressFits ==
  ASSUME NEW ms \in Seq(MessageSet), NEW log \in Seq(RowSet), NEW b \in Nat, NEW c \in Nat,
         Fits(ms, log, b, c), NEW f, NEW new \in Seq(MessageSet), NEW row \in Nat,
         row <= Len(log), log[row].id = NoCall, Shortened(f, new, ms, row)
  PROVE  Fits(new, log, b, c)
<1>1. PICK m : m = Message("context_summary", 0, NoCall, row) OBVIOUS
<1>2. m.label = 0 /\ m.consumed = {} /\ m.row = row /\ m.id = NoCall
  <2>1. "context_summary" \in Kinds /\ 0 \in Nat BY DEF Kinds
  <2> QED BY <1>1, <2>1, NoCallIs, MessageFields
<1>3. Fresh(m, log, b, c)
  <2>1. NoCall.turn <= b BY NoCallIs
  <2> QED BY <1>2, <2>1, NoCallIs DEF Fresh
<1>4. Derived(f, new, ms, log, b, c) BY <1>1, <1>3 DEF Shortened, Derived, Copies
<1> QED BY <1>4, DerivedFits

-----------------------------------------------------------------------------
(* Messages without a label. *)

\* The messages of base, and more without a label.
Continues(new, base) ==
    /\ \A k \in DOMAIN base : k \in DOMAIN new /\ new[k].label = base[k].label
    /\ \A k \in DOMAIN new : k \in DOMAIN base \/ new[k].label = 0

LEMMA ContinuesItself == ASSUME NEW ms PROVE Continues(ms, ms)
BY DEF Continues

LEMMA ContinuesJoin ==
  ASSUME NEW ms \in Seq(MessageSet), NEW more \in Seq(MessageSet), NEW base, Continues(ms, base),
         \A k \in DOMAIN more : more[k].label = 0
  PROVE  Continues(ms \o more, base)
<1>1. PICK u, n : u = ms \o more /\ n = Len(ms) OBVIOUS
<1>2. Joined(ms, more, u, n) BY <1>1, ConcatPlaces
<1>3. ASSUME NEW k \in DOMAIN base PROVE k \in DOMAIN u /\ u[k].label = base[k].label
  <2>1. k \in DOMAIN ms /\ ms[k].label = base[k].label BY DEF Continues
  <2> QED BY <1>2, <2>1 DEF Joined
<1>4. ASSUME NEW k \in DOMAIN u PROVE k \in DOMAIN base \/ u[k].label = 0
  <2>1. CASE k \in DOMAIN ms
    <3>1. u[k] = ms[k] BY <1>2, <2>1 DEF Joined
    <3> QED BY <2>1, <3>1 DEF Continues
  <2>2. CASE k \notin DOMAIN ms
    <3>1. PICK j \in DOMAIN more : k = n + j BY <1>2, <2>2 DEF Joined
    <3>2. u[k] = more[j] BY <1>2, <3>1 DEF Joined
    <3> QED BY <3>2
  <2> QED BY <2>1, <2>2
<1> QED BY <1>1, <1>3, <1>4 DEF Continues

LEMMA ContinuesAppend ==
  ASSUME NEW ms \in Seq(MessageSet), NEW base, Continues(ms, base), NEW m \in MessageSet, m.label = 0
  PROVE  Continues(Append(ms, m), base)
<1>1. PICK n \in Nat : n = Len(ms) BY LenProperties
<1>2. PICK u : u = Append(ms, m) OBVIOUS
<1>3. DOMAIN ms = 1 .. n /\ DOMAIN u = 1 .. n + 1 /\ u[n + 1] = m /\ \A k \in 1 .. n : u[k] = ms[k]
  BY <1>1, <1>2, AppendProperties, LenProperties
<1>4. ASSUME NEW k \in DOMAIN base PROVE k \in DOMAIN u /\ u[k].label = base[k].label
  <2>1. k \in 1 .. n /\ ms[k].label = base[k].label BY <1>3 DEF Continues
  <2> QED BY <1>3, <2>1
<1>5. ASSUME NEW k \in DOMAIN u PROVE k \in DOMAIN base \/ u[k].label = 0
  <2>1. CASE k \in 1 .. n BY <1>3, <2>1 DEF Continues
  <2>2. CASE k \notin 1 .. n
    <3>1. k = n + 1 BY <1>3, <2>2
    <3> QED BY <1>3, <3>1
  <2> QED BY <2>1, <2>2
<1> QED BY <1>2, <1>4, <1>5 DEF Continues

\* The labels of a list are those of its messages, one for each that has one.
LEMMA LabelsAre ==
  ASSUME NEW ms \in Seq(MessageSet)
  PROVE  /\ \A k \in DOMAIN Labels(ms) : \E i \in DOMAIN ms : Labels(ms)[k] = ms[i].label
         /\ DOMAIN Labels(ms) = 1 .. Cardinality({i \in DOMAIN ms : ms[i].label # 0})
<1>1. PICK S : S = {i \in DOMAIN ms : ms[i].label # 0} OBVIOUS
<1>2. PICK f, q : f = Ascending(S) /\ q = Pick(ms, S) OBVIOUS
<1>3. S \in SUBSET (DOMAIN ms) BY <1>1
<1>4. DOMAIN q = DOMAIN f /\ Enumerates(f, S) /\ \A k \in DOMAIN f : q[k] = ms[f[k]]
  BY <1>2, <1>3, Picked
<1>5. Labels(ms) = [k \in DOMAIN q |-> q[k].label] BY <1>1, <1>2 DEF Labels
<1>6. ASSUME NEW k \in DOMAIN Labels(ms) PROVE \E i \in DOMAIN ms : Labels(ms)[k] = ms[i].label
  <2>1. k \in DOMAIN f BY <1>4, <1>5
  <2>2. f[k] \in DOMAIN ms BY <1>1, <1>4, <2>1 DEF Enumerates
  <2>3. Labels(ms)[k] = ms[f[k]].label BY <1>4, <1>5, <2>1
  <2> QED BY <2>2, <2>3
<1>7. DOMAIN f = 1 .. Cardinality(S) BY <1>2 DEF Ascending
<1> QED BY <1>1, <1>4, <1>5, <1>6, <1>7

LEMMA CountTo ==
  ASSUME NEW n \in Nat
  PROVE  IsFiniteSet(1 .. n) /\ Cardinality(1 .. n) = n
<1>1. Cardinality(1 .. n) = IF 1 > n THEN 0 ELSE n - 1 + 1 BY FS_Interval
<1>2. IsFiniteSet(1 .. n) BY FS_Interval
<1> QED BY <1>1, <1>2

\* A part is shorter than the whole.
LEMMA PickShorter ==
  ASSUME NEW ms \in Seq(MessageSet), NEW S \in SUBSET (DOMAIN ms), NEW i \in DOMAIN ms, i \notin S
  PROVE  Len(Pick(ms, S)) < Len(ms)
<1>1. PICK n \in Nat : n = Len(ms) BY LenProperties
<1>2. DOMAIN ms = 1 .. n BY <1>1, LenProperties
<1>3. IsFiniteSet(1 .. n) /\ Cardinality(1 .. n) = n
  BY <1>1, CountTo
<1>4. IsFiniteSet(S) /\ Cardinality(S) \in Nat BY <1>2, <1>3, FS_Subset, FS_CardinalityType
<1>5. Cardinality(S \cup {i}) = Cardinality(S) + 1 BY <1>4, FS_AddElement
<1>6. S \cup {i} \in SUBSET (1 .. n) BY <1>2
<1>7. Cardinality(S \cup {i}) <= n BY <1>3, <1>6, FS_Subset
<1>8. PICK f, q : f = Ascending(S) /\ q = Pick(ms, S) OBVIOUS
<1>9. DOMAIN f = 1 .. Cardinality(S) BY <1>8 DEF Ascending
<1>10. q \in Seq(MessageSet) /\ DOMAIN q = DOMAIN f BY <1>8, Picked
<1>11. Len(q) = Cardinality(S)
  <2>1. PICK c \in Nat : c = Cardinality(S) BY <1>4
  <2>2. DOMAIN q = 1 .. c BY <1>9, <1>10, <2>1
  <2> QED BY <1>10, <2>1, <2>2, LenProperties
<1> QED BY <1>1, <1>4, <1>5, <1>7, <1>8, <1>11

\* Labels by position leave no message without one.
LEMMA SyncedKnown ==
  ASSUME NEW ms \in Seq(MessageSet), NEW projection \in Seq(Nat), NEW log, Sound(projection, log),
         Len(ms) = Len(projection)
  PROVE  Known(Synced(ms, projection))
<1>1. PICK n \in Nat : n = Len(ms) BY LenProperties
<1>2. DOMAIN ms = 1 .. n /\ DOMAIN projection = 1 .. n BY <1>1, LenProperties
<1>3. PICK new : new = Synced(ms, projection) OBVIOUS
<1>4. new = [k \in 1 .. n |-> [ms[k] EXCEPT !.label = projection[k]]] BY <1>2, <1>3 DEF Synced
<1>5. ASSUME NEW k \in 1 .. n PROVE new[k].label # 0
  <2>1. ms[k] \in MessageSet BY <1>1, ElementOfSeq
  <2>2. new[k] = [ms[k] EXCEPT !.label = projection[k]] BY <1>4
  <2>3. new[k].label = projection[k] BY <2>1, <2>2 DEF MessageSet
  <2>4. projection[k] # 0 BY <1>2 DEF Sound
  <2> QED BY <2>3, <2>4
<1>6. DOMAIN new = 1 .. n BY <1>4
<1> QED BY <1>3, <1>5, <1>6 DEF Known

\* A list whose messages miss a row of the projection gets its labels, or is seen to
\* have drifted from it.
LEMMA DriftSeen ==
  ASSUME NEW ms \in Seq(MessageSet), NEW projection \in Seq(Nat), NEW log, Sound(projection, log),
         NEW v \in ToSet(projection), Apart(ms, v)
  PROVE  Known(Synced(ms, projection)) \/ Labels(Synced(ms, projection)) # projection
<1>1. CASE Len(ms) = Len(projection) BY <1>1, SyncedKnown
<1>2. CASE Len(ms) # Len(projection)
  <2>1. Synced(ms, projection) = ms BY <1>2 DEF Synced
  <2>2. SUFFICES ASSUME Labels(ms) = projection PROVE FALSE BY <2>1
  <2>3. PICK k \in DOMAIN projection : projection[k] = v BY DEF ToSet
  <2>4. PICK i \in DOMAIN ms : Labels(ms)[k] = ms[i].label BY <2>2, <2>3, LabelsAre
  <2> QED BY <2>2, <2>3, <2>4 DEF Apart
<1> QED BY <1>1, <1>2

\* So is one that continues more messages than the projection has rows.
LEMMA LongDriftSeen ==
  ASSUME NEW ms \in Seq(MessageSet), NEW projection \in Seq(Nat), NEW log, Sound(projection, log),
         NEW base \in Seq(MessageSet), Continues(ms, base), Known(base), Len(projection) < Len(base)
  PROVE  Known(Synced(ms, projection)) \/ Labels(Synced(ms, projection)) # projection
<1>1. CASE Len(ms) = Len(projection) BY <1>1, SyncedKnown
<1>2. CASE Len(ms) # Len(projection)
  <2>1. Synced(ms, projection) = ms BY <1>2 DEF Synced
  <2>2. SUFFICES ASSUME Labels(ms) = projection PROVE FALSE BY <2>1
  <2>3. PICK S : S = {i \in DOMAIN ms : ms[i].label # 0} OBVIOUS
  <2>4. PICK n \in Nat, m \in Nat, c \in Nat : n = Len(base) /\ m = Len(ms) /\ c = Len(projection)
    BY LenProperties
  <2>5. DOMAIN base = 1 .. n /\ DOMAIN ms = 1 .. m /\ DOMAIN projection = 1 .. c
    BY <2>4, LenProperties
  <2>6. \A k \in 1 .. n : k \in S BY <2>3, <2>5 DEF Continues, Known
  <2>7. IsFiniteSet(S) /\ Cardinality(S) \in Nat
    <3>1. IsFiniteSet(1 .. m) BY <2>4, FS_Interval
    <3>2. S \in SUBSET (1 .. m) BY <2>3, <2>5
    <3>3. IsFiniteSet(S) BY <3>1, <3>2, FS_Subset
    <3> QED BY <3>3, FS_CardinalityType
  <2>8. Cardinality(1 .. n) = n BY <2>4, CountTo
  <2>9. n <= Cardinality(S)
    <3>1. 1 .. n \in SUBSET S BY <2>6
    <3> QED BY <2>7, <2>8, <3>1, FS_Subset
  <2>10. 1 .. Cardinality(S) = 1 .. c BY <2>2, <2>3, <2>5, LabelsAre
  <2>11. n \in 1 .. Cardinality(S)
    <3>1. n # 0 BY <2>4
    <3> QED BY <2>7, <2>9, <3>1
  <2>12. n \in 1 .. c /\ c < n BY <2>4, <2>10, <2>11
  <2> QED BY <2>4, <2>12
<1> QED BY <1>1, <1>2

\* A list that fits a log is apart from what comes behind it.
LEMMA BehindApart ==
  ASSUME NEW base \in Seq(MessageSet), NEW log \in Seq(RowSet), NEW b, NEW c, Fits(base, log, b, c),
         NEW v \in Nat, v > Len(log), NEW ms, Continues(ms, base)
  PROVE  Apart(ms, v)
<1>1. Len(log) \in Nat BY LenProperties
<1>2. ASSUME NEW k \in DOMAIN ms PROVE ms[k].label # v
  <2>1. CASE k \in DOMAIN base
    <3>1. base[k].label <= Len(log) /\ ms[k].label = base[k].label
      BY <2>1 DEF Fits, Stands, Continues
    <3>2. base[k].label \in Nat
      <4>1. base[k] \in MessageSet BY <2>1, ElementOfSeq, LenProperties
      <4> QED BY <4>1 DEF MessageSet
    <3> QED BY <1>1, <3>1, <3>2
  <2>2. CASE k \notin DOMAIN base BY <1>1, <2>2 DEF Continues
  <2> QED BY <2>1, <2>2
<1> QED BY <1>2 DEF Apart

\* Every row of the log is in a projection that was appended to.
LEMMA AppendedHas ==
  ASSUME NEW projection \in Seq(Nat), NEW n \in Nat, NEW v \in 1 .. n
  PROVE  v \in ToSet(Appended(projection, n))
<1>1. PICK S : S = (1 .. n) \ ToSet(projection) OBVIOUS
<1>2. PICK f : f = Ascending(S) OBVIOUS
<1>3. S \in SUBSET (1 .. n) BY <1>1
<1>4. f \in Seq(Nat) BY <1>2, <1>3, AscendingNat
<1>5. PICK p, q : p = projection \o f /\ q = Len(projection) OBVIOUS
<1>6. Joined(projection, f, p, q) BY <1>4, <1>5, ConcatPlaces
<1>7. p = Appended(projection, n) BY <1>1, <1>2, <1>5 DEF Appended
<1>8. \E k \in DOMAIN p : p[k] = v
  <2>1. CASE v \in ToSet(projection)
    <3>1. PICK k \in DOMAIN projection : projection[k] = v BY <2>1 DEF ToSet
    <3> QED BY <1>6, <3>1 DEF Joined
  <2>2. CASE v \notin ToSet(projection)
    <3>1. v \in S BY <1>1, <2>2
    <3>2. PICK k \in DOMAIN f : f[k] = v BY <1>2, <1>3, <3>1, AscendingOrders DEF Orders
    <3> QED BY <1>6, <3>2 DEF Joined
  <2> QED BY <2>1, <2>2
<1> QED BY <1>7, <1>8 DEF ToSet

-----------------------------------------------------------------------------
(* The projection stays sound. *)

\* Rewritten from messages that all have their row.
LEMMA OverwrittenSound ==
  ASSUME NEW ms \in Seq(MessageSet), NEW log \in Seq(RowSet), LabelsSound(ms, log),
         \A i \in DOMAIN ms : ms[i].label \in 1 .. Len(log)
  PROVE  Overwritten(ms, 0) \in Seq(Nat) /\ Sound(Overwritten(ms, 0), log)
<1>1. PICK n \in Nat : n = Len(ms) BY LenProperties
<1>2. DOMAIN ms = 1 .. n BY <1>1, LenProperties
<1>3. PICK p : p = Overwritten(ms, 0) OBVIOUS
<1>4. p = [k \in 1 .. n |-> ms[k].label] BY <1>2, <1>3 DEF Overwritten
<1>5. \A k \in 1 .. n : ms[k].label \in 1 .. Len(log) /\ ms[k].label # 0 BY <1>2
<1>6. p \in Seq(Nat) /\ DOMAIN p = 1 .. n
  <2> DEFINE F(k) == ms[k].label
  <2>1. p = [k \in 1 .. n |-> F(k)] /\ \A k \in 1 .. n : F(k) \in Nat BY <1>4, <1>5
  <2> HIDE DEF F
  <2> QED BY <2>1
<1>7. Sound(p, log) BY <1>2, <1>4, <1>5, <1>6 DEF Sound, LabelsSound
<1> QED BY <1>3, <1>6, <1>7

\* Rewritten with the new summary, the last row of the log.
LEMMA CompressedSound ==
  ASSUME NEW ms \in Seq(MessageSet), NEW log \in Seq(RowSet), LabelsSound(ms, log),
         NEW row \in Nat, row # 0, row = Len(log), log[row].kind = "context_summary",
         \A i \in DOMAIN ms : ms[i].label \in 1 .. row - 1,
         NEW f, NEW new \in Seq(MessageSet), Shortened(f, new, ms, row)
  PROVE  Overwritten(new, row) \in Seq(Nat) /\ Sound(Overwritten(new, row), log)
<1>1. PICK n \in Nat : n = Len(new) BY LenProperties
<1>2. DOMAIN new = 1 .. n BY <1>1, LenProperties
<1>3. PICK p : p = Overwritten(new, row) OBVIOUS
<1> DEFINE F(k) == IF new[k].kind = "context_summary" THEN row ELSE new[k].label
<1>4. p = [k \in 1 .. n |-> F(k)] BY <1>2, <1>3 DEF Overwritten
<1>5. ASSUME NEW k \in 1 .. n
      PROVE  \/ F(k) = row
             \/ /\ f[k] \in DOMAIN ms /\ F(k) = ms[f[k]].label /\ F(k) \in 1 .. row - 1
                /\ new[k] = ms[f[k]] /\ f[k] # 0
  <2>1. CASE new[k].kind = "context_summary" BY <2>1
  <2>2. CASE new[k].kind # "context_summary"
    <3>1. Message("context_summary", 0, NoCall, row).kind = "context_summary" BY DEF Message
    <3>2. f[k] \in DOMAIN ms /\ new[k] = ms[f[k]] BY <1>2, <2>2, <3>1 DEF Shortened
    <3>3. f[k] # 0
      <4>1. DOMAIN ms = 1 .. Len(ms) /\ Len(ms) \in Nat BY LenProperties
      <4> QED BY <3>2, <4>1
    <3>4. F(k) = ms[f[k]].label BY <2>2, <3>2
    <3> QED BY <3>2, <3>3, <3>4
  <2> QED BY <2>1, <2>2
<1>6. ASSUME NEW k \in 1 .. n PROVE F(k) \in 1 .. row
  BY <1>5
<1>7. ASSUME NEW k \in 1 .. n, NEW l \in 1 .. n, k # l, F(k) = F(l)
      PROVE  log[F(k)].kind = "context_summary"
  <2>1. CASE F(k) = row BY <2>1
  <2>2. CASE F(k) # row
    <3>1. /\ f[k] \in DOMAIN ms /\ F(k) = ms[f[k]].label /\ F(k) \in 1 .. row - 1 /\ f[k] # 0
          /\ f[l] \in DOMAIN ms /\ F(l) = ms[f[l]].label /\ f[l] # 0
      BY <1>5, <1>7, <2>2
    <3>2. f[k] # f[l] BY <1>2, <1>7, <3>1 DEF Shortened
    <3>3. F(k) # 0 BY <3>1
    <3> HIDE DEF F
    <3>4. ms[f[k]].label = ms[f[l]].label /\ ms[f[k]].label # 0 BY <1>7, <3>1, <3>3
    <3>5. log[ms[f[k]].label].kind = "context_summary" BY <3>1, <3>2, <3>4 DEF LabelsSound
    <3> QED BY <3>1, <3>5
  <2> QED BY <2>1, <2>2
<1> HIDE DEF F
<1>8. p \in Seq(Nat) /\ DOMAIN p = 1 .. n /\ \A k \in 1 .. n : p[k] = F(k)
  <2>1. \A k \in 1 .. n : F(k) \in Nat BY <1>6
  <2> QED BY <1>4, <2>1
<1>9. Sound(p, log)
  <2>1. \A i \in DOMAIN p : p[i] \in 1 .. Len(log) BY <1>6, <1>8
  <2>2. ASSUME NEW i \in DOMAIN p, NEW j \in DOMAIN p, i # j, p[i] = p[j]
        PROVE  log[p[i]].kind = "context_summary"
    BY <1>7, <1>8, <2>2
  <2> QED BY <2>1, <2>2 DEF Sound
<1> QED BY <1>3, <1>8, <1>9

\* The rows the projection lacks are added.
LEMMA AppendedSound ==
  ASSUME NEW projection \in Seq(Nat), NEW log \in Seq(RowSet), Sound(projection, log)
  PROVE  /\ Appended(projection, Len(log)) \in Seq(Nat)
         /\ Sound(Appended(projection, Len(log)), log)
<1>1. PICK n \in Nat : n = Len(log) BY LenProperties
<1>2. PICK S : S = (1 .. n) \ ToSet(projection) OBVIOUS
<1>3. PICK f : f = Ascending(S) OBVIOUS
<1>4. S \in SUBSET (1 .. n) BY <1>2
<1>5. f \in Seq(S) /\ Enumerates(f, S) BY <1>3, <1>4, AscendingEnumerates
<1>6. f \in Seq(Nat) BY <1>3, <1>4, AscendingNat
<1>7. PICK p, q : p = projection \o f /\ q = Len(projection) OBVIOUS
<1>8. p \in Seq(Nat) /\ Joined(projection, f, p, q) BY <1>6, <1>7, ConcatProperties, ConcatPlaces
<1>9. p = Appended(projection, Len(log)) BY <1>1, <1>2, <1>3, <1>7 DEF Appended
<1>10. ASSUME NEW i \in DOMAIN projection PROVE projection[i] \in 1 .. n /\ projection[i] \notin S
  <2>1. projection[i] \in ToSet(projection) BY DEF ToSet
  <2> QED BY <1>1, <1>2, <2>1 DEF Sound
<1>11. ASSUME NEW i \in DOMAIN f PROVE f[i] \in 1 .. n /\ f[i] \in S
  BY <1>4, <1>5 DEF Enumerates
<1>12. ASSUME NEW i \in DOMAIN p
       PROVE  \/ i \in DOMAIN projection /\ p[i] = projection[i]
              \/ \E j \in DOMAIN f : i = q + j /\ p[i] = f[j]
  BY <1>8 DEF Joined
<1>13. ASSUME NEW i \in DOMAIN p PROVE p[i] \in 1 .. Len(log) BY <1>1, <1>10, <1>11, <1>12
<1>14. ASSUME NEW i \in DOMAIN p, NEW j \in DOMAIN p, i # j, p[i] = p[j]
       PROVE  log[p[i]].kind = "context_summary"
  <2>1. CASE p[i] \in S
    <3>1. PICK k \in DOMAIN f : i = q + k /\ p[i] = f[k] BY <1>10, <1>12, <2>1
    <3>2. PICK l \in DOMAIN f : j = q + l /\ p[j] = f[l] BY <1>10, <1>12, <1>14, <2>1
    <3>3. k # l BY <1>14, <3>1, <3>2
    <3> QED BY <1>5, <1>14, <3>1, <3>2, <3>3 DEF Enumerates
  <2>2. CASE p[i] \notin S
    <3>1. i \in DOMAIN projection /\ p[i] = projection[i] BY <1>11, <1>12, <2>2
    <3>2. j \in DOMAIN projection /\ p[j] = projection[j] BY <1>11, <1>12, <1>14, <2>2
    <3> QED BY <1>14, <3>1, <3>2 DEF Sound
  <2> QED BY <2>1, <2>2
<1>15. Sound(p, log) BY <1>13, <1>14 DEF Sound
<1> QED BY <1>8, <1>9, <1>15

\* A projection that is the whole log stays the whole log.
LEMMA AppendedIdentity ==
  ASSUME NEW m \in Nat, NEW n \in Nat, m <= n
  PROVE  Appended(Identity(m), n) = Identity(n)
<1>1. PICK p : p = Identity(m) OBVIOUS
<1>2. p \in Seq(Nat) /\ DOMAIN p = 1 .. m /\ Len(p) = m /\ \A k \in 1 .. m : p[k] = k
  BY <1>1 DEF Identity
<1>3. ToSet(p) = 1 .. m BY <1>2 DEF ToSet
<1>4. (1 .. n) \ ToSet(p) = m + 1 .. n BY <1>3
<1>5. PICK f : f = [k \in 1 .. n - m |-> m + k] OBVIOUS
<1>6. n - m \in Nat OBVIOUS
<1>7. f \in Seq(Nat) /\ DOMAIN f = 1 .. n - m /\ Len(f) = n - m /\ \A k \in 1 .. n - m : f[k] = m + k
  BY <1>5, <1>6
<1>8. PICK u : u = p \o f OBVIOUS
<1>9. u \in Seq(Nat) /\ Joined(p, f, u, m) /\ Len(u) = n
  <2>1. u \in Seq(Nat) /\ Len(u) = Len(p) + Len(f) BY <1>2, <1>7, <1>8, ConcatProperties
  <2>2. Joined(p, f, u, Len(p)) BY <1>2, <1>7, <1>8, ConcatPlaces
  <2> QED BY <1>2, <1>7, <2>1, <2>2
<1>10. DOMAIN u = 1 .. n BY <1>9, LenProperties
<1>11. ASSUME NEW k \in 1 .. n PROVE u[k] = k
  <2>1. CASE k \in DOMAIN p BY <1>2, <1>9, <2>1 DEF Joined
  <2>2. CASE k \notin DOMAIN p
    <3>1. PICK j \in DOMAIN f : k = m + j BY <1>9, <1>10, <2>2 DEF Joined
    <3>2. u[m + j] = f[j] BY <1>9 DEF Joined
    <3> QED BY <1>7, <3>1, <3>2
  <2> QED BY <2>1, <2>2
<1>12. u = Identity(n)
  <2>1. u = [k \in 1 .. n |-> u[k]] BY <1>9, <1>10
  <2> QED BY <1>11, <2>1 DEF Identity
<1>13. Appended(p, n) = u BY <1>4, <1>5, <1>8, AscendingInterval DEF Appended
<1> QED BY <1>1, <1>12, <1>13

-----------------------------------------------------------------------------
(* The rows and the messages of a turn. *)

LEMMA NamedGrows ==
  ASSUME NEW log \in Seq(RowSet), NEW more \in Seq(RowSet), LogNamed(log), LogNamed(more)
  PROVE  LogNamed(log \o more)
<1>1. PICK u, n : u = log \o more /\ n = Len(log) OBVIOUS
<1>2. Joined(log, more, u, n) BY <1>1, ConcatPlaces
<1>3. ASSUME NEW i \in DOMAIN u PROVE NamedRow(u[i])
  <2>1. CASE i \in DOMAIN log BY <1>2, <2>1 DEF Joined, LogNamed
  <2>2. CASE i \notin DOMAIN log BY <1>2, <2>2 DEF Joined, LogNamed
  <2> QED BY <2>1, <2>2
<1> QED BY <1>1, <1>3 DEF LogNamed

LEMMA InputsGrow ==
  ASSUME NEW log \in Seq(RowSet), NEW more \in Seq(RowSet), NEW n, Inputs(log, n), Inputs(more, n)
  PROVE  Inputs(log \o more, n)
<1>1. PICK u, m : u = log \o more /\ m = Len(log) OBVIOUS
<1>2. Joined(log, more, u, m) BY <1>1, ConcatPlaces
<1>3. ASSUME NEW i \in DOMAIN u, u[i].kind = "user_input" PROVE u[i].turn <= n
  <2>1. CASE i \in DOMAIN log BY <1>2, <1>3, <2>1 DEF Joined, Inputs
  <2>2. CASE i \notin DOMAIN log BY <1>2, <1>3, <2>2 DEF Joined, Inputs
  <2> QED BY <2>1, <2>2
<1> QED BY <1>1, <1>3 DEF Inputs

LEMMA InputStays ==
  ASSUME NEW log, NEW log2, Extends(log2, log), NEW n, InputOf(log, n)
  PROVE  InputOf(log2, n)
BY DEF InputOf, Extends

\* The rows of the tools of a turn.
LEMMA ToolRows ==
  ASSUME NEW n \in 0 .. MaxTurns, NEW bs \in Seq(BatchSet), BatchNamed(bs, n)
  PROVE  LET tools == ToolLoopRows(n, bs)
         IN  /\ tools \in Seq(RowSet) /\ LogNamed(tools)
             /\ \A i \in DOMAIN tools :
                   /\ tools[i].kind \in {"assistant_tool_call", "tool_result"}
                   /\ tools[i].id.turn \in {0, n} /\ tools[i].id.call = 1
<1>0. MaxTurns \in Nat BY LogAssumption
<1>1. PICK tools, C : /\ tools = ToolLoopRows(n, bs)
                      /\ C = {id \in CallId : id.turn \in {0, n} /\ id.call = 1}
  OBVIOUS
<1>2. \A i \in DOMAIN bs : bs[i].id \in C
  <2>1. ASSUME NEW i \in DOMAIN bs PROVE bs[i].id \in CallId
    <3>1. bs[i] \in BatchSet BY ElementOfSeq, LenProperties
    <3> QED BY <3>1 DEF BatchSet
  <2> QED BY <1>1, <2>1 DEF BatchNamed
<1>3. AllWithout(bs, {}) BY DEF AllWithout, Without
<1>4. n \in Nat BY <1>0
<1>5. tools \in Seq(Allowed({}, n, C)) BY <1>1, <1>2, <1>3, <1>4, ToolLoopAllowed
<1>6. tools \in Seq(RowSet) /\ \A i \in DOMAIN tools : tools[i] \in Allowed({}, n, C)
  BY <1>5, AllowedRows
<1>7. ASSUME NEW i \in DOMAIN tools
      PROVE  /\ tools[i].kind \in {"assistant_tool_call", "tool_result"} /\ tools[i].turn = n
             /\ tools[i].id.turn \in {0, n} /\ tools[i].id.call = 1
  BY <1>1, <1>6 DEF Allowed
<1>8. LogNamed(tools)
  <2>1. ASSUME NEW i \in DOMAIN tools PROVE NamedRow(tools[i])
    <3>1. n # 0 => n \in 1 .. MaxTurns BY <1>4
    <3> QED BY <1>7, <3>1 DEF NamedRow
  <2> QED BY <2>1 DEF LogNamed
<1> QED BY <1>1, <1>6, <1>7, <1>8

\* A group of one row without a call.
LEMMA SingleRow ==
  ASSUME NEW n \in Nat, NEW kind \in Kinds, NEW id \in CallId,
         NEW x, x = Grouped(<<Row(n, kind, id, 0, "none")>>)
  PROVE  /\ x \in Seq(RowSet) /\ Len(x) = 1 /\ DOMAIN x = {1} /\ x[1] \in RowSet
         /\ x[1].kind = kind /\ x[1].turn = n /\ x[1].id = id
         /\ (id.turn # 0 => id.turn = n /\ n <= MaxTurns /\ kind # "user_input")
              /\ (kind = "user_input" => n \in 1 .. MaxTurns)
              /\ (kind = "context_summary" => id = NoCall) => LogNamed(x)
         /\ \A m : kind # "user_input" => Inputs(x, m)
<1>1. /\ x \in Seq(RowSet) /\ Len(x) = 1 /\ DOMAIN x = {1}
      /\ x[1].kind = kind /\ x[1].turn = n /\ x[1].id = id
  BY OneRow
<1>2. x[1] \in RowSet BY <1>1, ElementOfSeq
<1>3. MaxTurns \in Nat BY LogAssumption
<1>4. (/\ id.turn # 0 => id.turn = n /\ n <= MaxTurns /\ kind # "user_input"
       /\ kind = "user_input" => n \in 1 .. MaxTurns
       /\ kind = "context_summary" => id = NoCall) => NamedRow(x[1])
  BY <1>1, <1>3 DEF NamedRow
<1>5. \A m : kind # "user_input" => Inputs(x, m) BY <1>1 DEF Inputs
<1> QED BY <1>1, <1>2, <1>4, <1>5 DEF LogNamed

\* The messages of n rows.
NewFor(ms, log, first, n) ==
    /\ ms \in Seq(MessageSet) /\ Len(ms) = n /\ DOMAIN ms = 1 .. n
    /\ \A k \in 1 .. n : /\ first + k - 1 \in DOMAIN log
                         /\ ms[k].row = first + k - 1 /\ ms[k].id = log[first + k - 1].id
                         /\ ms[k].label = 0 /\ ms[k].consumed = {}
                         /\ ms[k].kind = log[first + k - 1].kind

LEMMA MessagesAre ==
  ASSUME NEW log \in Seq(RowSet), NEW first \in Nat, first # 0, NEW n \in Nat,
         first + n <= Len(log) + 1, NEW last, last = first + n - 1
  PROVE  NewFor(Messages(log, first, last), log, first, n)
<1>1. PICK len \in Nat : len = Len(log) BY LenProperties
<1>2. DOMAIN log = 1 .. len BY <1>1, LenProperties
<1>3. PICK ms : ms = Messages(log, first, last) OBVIOUS
<1> DEFINE F(k) == Message(log[first + k - 1].kind, log[first + k - 1].turn,
                           log[first + k - 1].id, first + k - 1)
<1>4. last - first + 1 = n OBVIOUS
<1>5. ms = [k \in 1 .. n |-> F(k)] BY <1>3, <1>4 DEF Messages
<1>6. ASSUME NEW k \in 1 .. n
      PROVE  /\ first + k - 1 \in 1 .. len /\ F(k) \in MessageSet
             /\ F(k).row = first + k - 1 /\ F(k).id = log[first + k - 1].id
             /\ F(k).label = 0 /\ F(k).consumed = {} /\ F(k).kind = log[first + k - 1].kind
  <2>1. PICK i \in 1 .. len : i = first + k - 1
    <3>1. first + k - 1 \in 1 .. len BY <1>1
    <3> QED BY <3>1
  <2>2. PICK r \in RowSet : r = log[i] BY <1>1, ElementOfSeq
  <2>3. r.kind \in Kinds /\ r.turn \in Nat /\ r.id \in CallId /\ i \in Nat BY DEF RowSet
  <2>4. F(k) = Message(r.kind, r.turn, r.id, i) BY <2>1, <2>2
  <2> HIDE DEF F
  <2> QED BY <2>1, <2>2, <2>3, <2>4, MessageFields
<1> HIDE DEF F
<1>7. ms \in Seq(MessageSet) /\ Len(ms) = n /\ DOMAIN ms = 1 .. n /\ \A k \in 1 .. n : ms[k] = F(k)
  <2>1. DOMAIN ms = 1 .. n /\ \A k \in 1 .. n : ms[k] = F(k) BY <1>5
  <2>2. ms = [k \in 1 .. n |-> ms[k]] BY <1>5, <2>1
  <2>3. \A k \in 1 .. n : ms[k] \in MessageSet BY <1>6, <2>1
  <2>4. ms \in Seq(MessageSet) BY <2>2, <2>3, SeqIs
  <2>5. Len(ms) = n BY <2>1, <2>4, LenProperties
  <2> QED BY <2>1, <2>4, <2>5
<1> QED BY <1>2, <1>3, <1>6, <1>7 DEF NewFor

\* A closing fact is a new message; the final answer has consumed what is in front.
LEMMA ClosedFits ==
  ASSUME NEW ms \in Seq(MessageSet), NEW log \in Seq(RowSet), NEW n \in Nat, n # 0,
         Fits(ms, log, n, n - 1), NEW last \in MessageSet, last.label = 0,
         last.kind # "context_summary",
         last.row \in DOMAIN log, log[last.row].id = last.id,
         \/ last.id.turn = 0 /\ last.consumed = {}
         \/ /\ last.id = Final(n) /\ last.consumed = Ids(ms)
            /\ log[last.row].kind = "assistant_output"
            /\ \A k \in DOMAIN ms : ms[k].row < last.row /\ ms[k].id # Final(n)
  PROVE  Append(ms, last) \in Seq(MessageSet) /\ Fits(Append(ms, last), log, n, n)
<1>1. PICK m \in Nat : m = Len(ms) BY LenProperties
<1>2. PICK new : new = Append(ms, last) OBVIOUS
<1>3. DOMAIN ms = 1 .. m BY <1>1, LenProperties
<1>4. /\ new \in Seq(MessageSet) /\ DOMAIN new = 1 .. m + 1 /\ new[m + 1] = last
      /\ \A k \in 1 .. m : new[k] = ms[k]
  BY <1>1, <1>2, AppendProperties, LenProperties
<1>5. n - 1 \in Nat /\ n - 1 <= n OBVIOUS
<1>6. Len(log) \in Nat /\ last.row <= Len(log) BY LenProperties
<1>7. Consumed(new) = Consumed(ms) \cup last.consumed
  <2>1. \A k \in 1 .. m + 1 : k \in 1 .. m \/ k = m + 1 OBVIOUS
  <2>2. \A k \in 1 .. m : k \in 1 .. m + 1 OBVIOUS
  <2>3. m + 1 \in 1 .. m + 1 OBVIOUS
  <2> QED BY <1>3, <1>4, <2>1, <2>2, <2>3 DEF Consumed
<1>8. ASSUME NEW k \in 1 .. m
      PROVE  ms[k].id.turn <= n /\ ms[k].id.turn \in Nat /\ Stands(ms[k], log, n, n)
  <2>1. Stands(ms[k], log, n, n - 1) BY <1>3 DEF Fits
  <2>2. ms[k] \in MessageSet BY <1>1, ElementOfSeq
  <2>3. \A id \in ms[k].consumed : id.turn \in Nat BY <2>2 DEF MessageSet, CallId
  <2>4. \A id \in ms[k].consumed : id.turn <= n BY <1>5, <2>1, <2>3 DEF Stands
  <2>5. ms[k].id.turn \in Nat BY <2>2 DEF MessageSet, CallId
  <2> QED BY <2>1, <2>4, <2>5 DEF Stands
<1>9. Stands(last, log, n, n)
  <2>1. last.label <= Len(log) BY <1>6
  <2>2. last.id.turn <= n BY DEF Final
  <2>3. ASSUME NEW id \in last.consumed PROVE id.turn <= n
    <3>1. id \in Ids(ms) BY <2>3
    <3>2. PICK k \in 1 .. m : id = ms[k].id BY <1>3, <3>1 DEF Ids
    <3> QED BY <1>8, <3>2
  <2>4. Shaped(last)
    <3>1. CASE last.consumed = {} BY <3>1 DEF Shaped
    <3>2. CASE last.consumed # {}
      <4>1. last.id = Final(n) /\ last.id.turn = n BY <3>2 DEF Final
      <4>2. ASSUME NEW id \in last.consumed PROVE id # last.id
        <5>1. id \in Ids(ms) BY <3>2, <4>2
        <5>2. PICK k \in DOMAIN ms : id = ms[k].id BY <5>1 DEF Ids
        <5> QED BY <3>2, <4>1, <5>2
      <4> QED BY <2>3, <4>1, <4>2 DEF Shaped
    <3> QED BY <3>1, <3>2
  <2> QED BY <1>6, <2>1, <2>2, <2>3, <2>4 DEF Stands
<1>10. ASSUME NEW k \in DOMAIN new
       PROVE  \/ k \in 1 .. m /\ new[k] = ms[k]
              \/ k = m + 1 /\ new[k] = last
  BY <1>1, <1>4
<1>11. ASSUME NEW k \in DOMAIN new PROVE Stands(new[k], log, n, n)
  BY <1>8, <1>9, <1>10
<1>12. LabelsSound(new, log)
  <2>1. SUFFICES ASSUME NEW i \in DOMAIN new, NEW j \in DOMAIN new, i # j,
                        new[i].label = new[j].label, new[i].label # 0
                 PROVE  log[new[i].label].kind = "context_summary"
    BY DEF LabelsSound
  <2>2. i \in 1 .. m /\ new[i] = ms[i] /\ j \in 1 .. m /\ new[j] = ms[j] BY <1>10, <2>1
  <2>3. LabelsSound(ms, log) BY DEF Fits
  <2> QED BY <1>3, <2>1, <2>2, <2>3 DEF LabelsSound
<1>13. Answered(new, log)
  <2>1. SUFFICES ASSUME NEW i \in DOMAIN new, new[i].id.turn # 0, new[i].id \in Consumed(new)
                 PROVE  AnswerAfter(log, new[i].row)
    BY DEF Answered
  <2>2. CASE new[i].id \in Consumed(ms)
    <3>1. CASE i \in 1 .. m /\ new[i] = ms[i]
      BY <1>3, <2>1, <2>2, <3>1 DEF Fits, Answered
    <3>2. CASE new[i] = last
      <4>1. last.id = Final(n) BY <2>1, <3>2
      <4>2. PICK k \in DOMAIN ms : Final(n) \in ms[k].consumed BY <2>2, <3>2, <4>1 DEF Consumed
      <4>3. Final(n).turn <= n - 1 BY <4>2 DEF Fits, Stands
      <4> QED BY <4>3 DEF Final
    <3> QED BY <1>10, <3>1, <3>2
  <2>3. CASE new[i].id \notin Consumed(ms)
    <3>1. new[i].id \in Ids(ms) BY <1>7, <2>1, <2>3
    <3>2. /\ last.id = Final(n) /\ log[last.row].kind = "assistant_output"
          /\ \A k \in DOMAIN ms : ms[k].row < last.row /\ ms[k].id # Final(n)
      BY <1>7, <2>1, <2>3
    <3>3. PICK k \in DOMAIN ms : new[i].id = ms[k].id BY <3>1 DEF Ids
    <3>4. i \in 1 .. m /\ new[i] = ms[i] BY <1>10, <3>2, <3>3
    <3>5. new[i].row < last.row BY <1>3, <3>2, <3>4
    <3>6. new[i].row \in Nat /\ last.row \in Nat
      <4>1. new[i] \in MessageSet BY <1>4, ElementOfSeq, LenProperties
      <4> QED BY <4>1 DEF MessageSet
    <3>7. last.row \in new[i].row + 1 .. Len(log) BY <1>6, <3>5, <3>6
    <3> QED BY <3>2, <3>7 DEF AnswerAfter
  <2> QED BY <2>2, <2>3
<1>14. Fits(new, log, n, n) BY <1>11, <1>12, <1>13 DEF Fits
<1> QED BY <1>2, <1>4, <1>14

\* Messages that stand for the rows of the log, in its order.
RowsAre(ms, n) == Len(ms) = n /\ \A k \in 1 .. n : ms[k].row = k

LEMMA RowsJoin ==
  ASSUME NEW ms \in Seq(MessageSet), NEW more \in Seq(MessageSet), NEW n \in Nat, NEW m \in Nat,
         RowsAre(ms, n), Len(more) = m, \A k \in 1 .. m : more[k].row = n + k
  PROVE  RowsAre(ms \o more, n + m)
<1>1. PICK u : u = ms \o more OBVIOUS
<1>2. Len(u) = n + m /\ u \in Seq(MessageSet) BY <1>1, ConcatProperties DEF RowsAre
<1>3. Joined(ms, more, u, n) BY <1>1, ConcatPlaces DEF RowsAre
<1>4. DOMAIN ms = 1 .. n /\ DOMAIN more = 1 .. m /\ DOMAIN u = 1 .. n + m
  BY <1>2, LenProperties DEF RowsAre
<1>5. ASSUME NEW k \in 1 .. n + m PROVE u[k].row = k
  <2>1. CASE k \in DOMAIN ms BY <1>3, <1>4, <2>1 DEF Joined, RowsAre
  <2>2. CASE k \notin DOMAIN ms
    <3>1. PICK j \in DOMAIN more : k = n + j BY <1>3, <1>4, <2>2 DEF Joined
    <3>2. u[k] = more[j] BY <1>3, <3>1 DEF Joined
    <3> QED BY <1>4, <3>1, <3>2
  <2> QED BY <2>1, <2>2
<1> QED BY <1>1, <1>2, <1>5 DEF RowsAre

LEMMA RowsAppend ==
  ASSUME NEW ms \in Seq(MessageSet), NEW last \in MessageSet, NEW n \in Nat,
         RowsAre(ms, n), last.row = n + 1
  PROVE  RowsAre(Append(ms, last), n + 1)
<1>1. PICK u : u = Append(ms, last) OBVIOUS
<1>2. /\ Len(u) = n + 1 /\ u[n + 1] = last /\ \A k \in 1 .. n : u[k] = ms[k]
  BY <1>1, AppendProperties DEF RowsAre
<1> QED BY <1>1, <1>2 DEF RowsAre

LEMMA SyncedMirrors ==
  ASSUME NEW ms \in Seq(MessageSet), NEW n \in Nat, RowsAre(ms, n)
  PROVE  Mirror(Synced(ms, Identity(n)), n)
<1>1. DOMAIN ms = 1 .. n /\ Len(ms) = n BY LenProperties DEF RowsAre
<1>2. PICK p : p = Identity(n) OBVIOUS
<1>3. Len(p) = n /\ \A k \in 1 .. n : p[k] = k BY <1>2 DEF Identity
<1>4. PICK new : new = Synced(ms, p) OBVIOUS
<1>5. new = [k \in 1 .. n |-> [ms[k] EXCEPT !.label = p[k]]] BY <1>1, <1>3, <1>4 DEF Synced
<1>6. ASSUME NEW k \in 1 .. n PROVE new[k].row = k /\ new[k].label = k
  <2>1. PICK m \in MessageSet : m = ms[k] BY <1>1, ElementOfSeq
  <2>2. m.row = k /\ p[k] = k BY <1>3, <2>1 DEF RowsAre
  <2>3. new[k] = [m EXCEPT !.label = k] BY <1>5, <2>1, <2>2
  <2> QED BY <2>2, <2>3 DEF MessageSet
<1>7. Len(new) = n BY <1>5
<1> QED BY <1>2, <1>4, <1>6, <1>7 DEF Mirror

LEMMA ExtendsTwice ==
  ASSUME NEW log, NEW log1, NEW log2, Extends(log1, log), Extends(log2, log1)
  PROVE  Extends(log2, log)
<1>1. /\ Len(log) \in Nat /\ Len(log1) \in Nat /\ Len(log2) \in Nat
      /\ Len(log) <= Len(log1) /\ Len(log1) <= Len(log2)
      /\ DOMAIN log = 1 .. Len(log) /\ DOMAIN log2 = 1 .. Len(log2)
  BY DEF Extends
<1>2. ASSUME NEW i \in 1 .. Len(log) PROVE i \in 1 .. Len(log2) /\ log2[i] = log[i]
  <2>1. i \in 1 .. Len(log1) /\ log1[i] = log[i] BY DEF Extends
  <2>2. i \in 1 .. Len(log2) /\ log2[i] = log1[i] BY <2>1 DEF Extends
  <2> QED BY <2>1, <2>2
<1>3. Len(log) <= Len(log2) BY <1>1
<1> QED BY <1>1, <1>2, <1>3 DEF Extends

\* The messages a turn adds are of rows up to place len, none of them its final answer.
AllBefore(ms, n, len) == \A k \in DOMAIN ms : ms[k].row <= len /\ ms[k].id # Final(n)

LEMMA BeforeJoin ==
  ASSUME NEW s \in Seq(MessageSet), NEW t \in Seq(MessageSet), NEW n, NEW len,
         AllBefore(s, n, len), AllBefore(t, n, len)
  PROVE  AllBefore(s \o t, n, len)
<1>1. PICK u, m : u = s \o t /\ m = Len(s) OBVIOUS
<1>2. Joined(s, t, u, m) BY <1>1, ConcatPlaces
<1>3. ASSUME NEW i \in DOMAIN u PROVE u[i].row <= len /\ u[i].id # Final(n)
  <2>1. CASE i \in DOMAIN s BY <1>2, <2>1 DEF Joined, AllBefore
  <2>2. CASE i \notin DOMAIN s BY <1>2, <2>2 DEF Joined, AllBefore
  <2> QED BY <2>1, <2>2
<1> QED BY <1>1, <1>3 DEF AllBefore

\* The last message is new, no summary, and not to be evicted.
LastNew(ms) ==
    /\ ms \in Seq(MessageSet) /\ ms # <<>> /\ ms[Len(ms)].label = 0
    /\ ms[Len(ms)].kind # "context_summary" /\ ms[Len(ms)].id \notin Evictable(ms)

LEMMA AppendedLast ==
  ASSUME NEW ms \in Seq(MessageSet), NEW m \in MessageSet, m.label = 0, m.kind # "context_summary",
         m.id = NoCall \/ m.id \notin Consumed(Append(ms, m))
  PROVE  LastNew(Append(ms, m))
<1>1. PICK u : u = Append(ms, m) OBVIOUS
<1>2. u \in Seq(MessageSet) /\ Len(u) = Len(ms) + 1 /\ u[Len(u)] = m /\ u # <<>>
  BY <1>1, AppendProperties
<1>3. m.id \notin Evictable(u) BY <1>1 DEF Evictable, Ids
<1> QED BY <1>1, <1>2, <1>3 DEF LastNew

LEMMA JoinedLast ==
  ASSUME NEW ms \in Seq(MessageSet), NEW more \in Seq(MessageSet), Len(more) = 1,
         more[1].label = 0, more[1].kind # "context_summary", more[1].id = NoCall
  PROVE  LastNew(ms \o more)
<1>1. PICK m \in MessageSet : m = more[1] BY ElementOfSeq
<1>2. more = <<m>>
  <2>1. DOMAIN more = 1 .. 1 BY LenProperties
  <2>2. more = [k \in 1 .. 1 |-> more[k]] BY <2>1, LenProperties
  <2>3. \A k \in 1 .. 1 : k = 1 OBVIOUS
  <2>4. more = [k \in 1 .. 1 |-> m] BY <1>1, <2>2, <2>3
  <2> QED BY <2>4
<1>3. ms \o more = Append(ms, m) BY <1>2, AppendIsConcat
<1> QED BY <1>1, <1>3, AppendedLast

\* What a turn adds in front of its closing message.
LEMMA SaidFits ==
  ASSUME NEW base \in Seq(MessageSet), NEW log \in Seq(RowSet), NEW n \in Nat, n # 0,
         Fits(base, log, n - 1, n - 1),
         NEW u \in DOMAIN log, log[u].id.turn = 0, log[u].kind = "user_input",
         NEW tools \in Seq(RowSet),
         \A i \in DOMAIN tools : /\ tools[i].id.turn \in {0, n} /\ tools[i].id.call = 1
                                 /\ tools[i].kind # "context_summary",
         NEW log2 \in Seq(RowSet), Extends(log2, log \o tools)
  PROVE  LET said == base \o Messages(log, u, u)
                          \o Messages(log \o tools, Len(log) + 1, Len(log) + Len(tools))
         IN  /\ said \in Seq(MessageSet) /\ Fits(said, log2, n, n - 1)
             /\ AllBefore(said, n, Len(log) + Len(tools)) /\ Continues(said, base)
             /\ RowsAre(base, Len(log) - 1) /\ u = Len(log) =>
                   RowsAre(said, Len(log) + Len(tools))
<1>1. PICK l \in Nat, t \in Nat : l = Len(log) /\ t = Len(tools) BY LenProperties
<1>2. PICK log1 : log1 = log \o tools /\ l = Len(log) /\ t = Len(tools) BY <1>1
<1>3. log1 \in Seq(RowSet) /\ Extends(log1, log) /\ Len(log1) = l + t BY <1>2, LogExtends
<1>4. Extends(log2, log1) /\ Extends(log2, log) BY <1>2, <1>3, ExtendsTwice
<1>5. /\ DOMAIN log = 1 .. l /\ DOMAIN log1 = 1 .. l + t /\ DOMAIN tools = 1 .. t
      /\ Len(log2) \in Nat /\ l + t <= Len(log2)
  BY <1>2, <1>3, <1>4, LenProperties DEF Extends
<1>6. ASSUME NEW i \in 1 .. l + t PROVE log2[i] = log1[i]
  BY <1>3, <1>4 DEF Extends
<1>7. ASSUME NEW i \in 1 .. l PROVE log2[i] = log[i]
  BY <1>2, <1>4 DEF Extends
<1>8. Joined(log, tools, log1, l) BY <1>2, ConcatPlaces
<1>9. n - 1 \in Nat /\ n - 1 <= n /\ n > n - 1 OBVIOUS
<1>10. Fits(base, log2, n, n - 1) BY <1>4, <1>9, FitsStays
<1>11. PICK s : s = Messages(log, u, u) OBVIOUS
<1>12. /\ s \in Seq(MessageSet) /\ Len(s) = 1 /\ DOMAIN s = 1 .. 1
       /\ s[1].row = u /\ s[1].id = log[u].id /\ s[1].label = 0 /\ s[1].consumed = {}
       /\ s[1].kind = log[u].kind
  <2>1. u \in Nat /\ u # 0 /\ u + 1 <= Len(log) + 1 /\ u + 1 - 1 = u BY <1>2, <1>5
  <2>2. PICK x \in Nat : x = 1 OBVIOUS
  <2>3. u + x <= Len(log) + 1 /\ u + x - 1 = u BY <2>1, <2>2
  <2>4. /\ s \in Seq(MessageSet) /\ Len(s) = x /\ DOMAIN s = 1 .. x
        /\ \A k \in 1 .. x : /\ s[k].row = u + k - 1 /\ s[k].id = log[u + k - 1].id
                             /\ s[k].label = 0 /\ s[k].consumed = {}
                             /\ s[k].kind = log[u + k - 1].kind
    <3>1. NewFor(s, log, u, x) BY <1>11, <2>1, <2>3, MessagesAre
    <3> QED BY <3>1 DEF NewFor
  <2>5. 1 \in 1 .. x BY <2>2
  <2> QED BY <2>1, <2>2, <2>4, <2>5
<1>13. PICK r : r = Messages(log1, l + 1, l + t) OBVIOUS
<1>14. /\ r \in Seq(MessageSet) /\ Len(r) = t /\ DOMAIN r = 1 .. t
       /\ \A k \in 1 .. t : /\ r[k].row = l + k /\ r[k].id = log1[l + k].id
                            /\ r[k].label = 0 /\ r[k].consumed = {}
                            /\ r[k].kind = log1[l + k].kind
  <2>1. PICK first \in Nat : first = l + 1 OBVIOUS
  <2>2. first # 0 /\ first + t <= Len(log1) + 1 /\ first + t - 1 = l + t BY <1>3, <2>1
  <2>3. /\ r \in Seq(MessageSet) /\ Len(r) = t /\ DOMAIN r = 1 .. t
        /\ \A k \in 1 .. t : /\ r[k].row = first + k - 1 /\ r[k].id = log1[first + k - 1].id
                             /\ r[k].label = 0 /\ r[k].consumed = {}
                             /\ r[k].kind = log1[first + k - 1].kind
    <3>1. PICK last : last = l + t /\ last = first + t - 1 BY <2>2
    <3>2. NewFor(Messages(log1, first, last), log1, first, t) BY <1>3, <2>2, <3>1, MessagesAre
    <3>3. r = Messages(log1, first, last) BY <1>13, <2>1, <3>1
    <3> QED BY <3>2, <3>3 DEF NewFor
  <2>4. ASSUME NEW k \in 1 .. t
        PROVE  /\ r[k].row = l + k /\ r[k].id = log1[l + k].id
               /\ r[k].label = 0 /\ r[k].consumed = {}
               /\ r[k].kind = log1[l + k].kind
    <3>1. first + k - 1 = l + k BY <2>1
    <3> QED BY <2>3, <3>1
  <2> QED BY <2>3, <2>4
<1>15. ASSUME NEW k \in 1 .. t
       PROVE  /\ l + k \in 1 .. l + t /\ r[k].id.turn \in {0, n} /\ r[k].id.call = 1
              /\ r[k].id = log2[l + k].id /\ r[k].kind # "context_summary"
  <2>1. l + k \in 1 .. l + t OBVIOUS
  <2>2. log1[l + k] = tools[k] BY <1>5, <1>8 DEF Joined
  <2>3. r[k].id = log1[l + k].id /\ r[k].kind = log1[l + k].kind BY <1>14
  <2> QED BY <1>5, <1>6, <2>1, <2>2, <2>3
<1>16. \A k \in DOMAIN s : Fresh(s[k], log2, n, n - 1)
  <2>1. u \in 1 .. l /\ u <= Len(log2) BY <1>5
  <2>2. log2[u] = log[u] BY <1>7, <2>1
  <2>3. Fresh(s[1], log2, n, n - 1) BY <1>12, <2>1, <2>2 DEF Fresh
  <2>4. \A k \in DOMAIN s : k = 1 BY <1>12
  <2> QED BY <2>3, <2>4
<1>17. ASSUME NEW k \in DOMAIN r PROVE Fresh(r[k], log2, n, n - 1)
  <2>1. k \in 1 .. t BY <1>14
  <2>2. r[k].row = l + k /\ r[k].label = 0 /\ r[k].consumed = {} BY <1>14, <2>1
  <2>3. l + k <= Len(log2) BY <1>5, <2>1
  <2> QED BY <1>9, <1>15, <2>1, <2>2, <2>3 DEF Fresh
<1>18. PICK v : v = base \o s OBVIOUS
<1>19. v \in Seq(MessageSet) /\ Fits(v, log2, n, n - 1)
  BY <1>9, <1>10, <1>12, <1>16, <1>18, ExtendedFits
<1>20. PICK w : w = v \o r OBVIOUS
<1>21. w \in Seq(MessageSet) /\ Fits(w, log2, n, n - 1)
  BY <1>9, <1>14, <1>17, <1>19, <1>20, ExtendedFits
<1>22. Final(n).turn = n /\ Final(n).call = 0 BY DEF Final
<1>23. AllBefore(base, n, l + t)
  <2>1. ASSUME NEW k \in DOMAIN base PROVE base[k].row <= l + t /\ base[k].id # Final(n)
    <3>1. base[k] \in MessageSet BY ElementOfSeq, LenProperties
    <3>2. base[k].row \in Nat /\ base[k].id.turn \in Nat BY <3>1 DEF MessageSet, CallId
    <3>3. base[k].row <= l /\ base[k].id.turn <= n - 1 BY <1>2 DEF Fits, Stands
    <3> QED BY <1>22, <3>2, <3>3
  <2> QED BY <2>1 DEF AllBefore
<1>24. AllBefore(s, n, l + t)
  <2>1. s[1].row <= l + t /\ s[1].id # Final(n) BY <1>5, <1>12, <1>22
  <2>2. \A k \in DOMAIN s : k = 1 BY <1>12
  <2> QED BY <2>1, <2>2 DEF AllBefore
<1>25. AllBefore(r, n, l + t)
  <2>1. ASSUME NEW k \in DOMAIN r PROVE r[k].row <= l + t /\ r[k].id # Final(n)
    <3>1. k \in 1 .. t BY <1>14
    <3>2. r[k].row = l + k /\ l + k <= l + t /\ r[k].id.call = 1 BY <1>14, <1>15, <3>1
    <3> QED BY <1>22, <3>2
  <2> QED BY <2>1 DEF AllBefore
<1>26. AllBefore(w, n, l + t)
  <2>1. AllBefore(v, n, l + t) BY <1>12, <1>18, <1>23, <1>24, BeforeJoin
  <2> QED BY <1>14, <1>19, <1>20, <1>25, <2>1, BeforeJoin
<1>27. ASSUME RowsAre(base, l - 1), u = l PROVE RowsAre(w, l + t)
  <2>1. PICK p \in Nat : p = l - 1 /\ l = p + 1
    <3>1. l - 1 \in Nat /\ l = (l - 1) + 1 BY <1>5, <1>27
    <3> QED BY <3>1
  <2>2. RowsAre(base, p) BY <1>27, <2>1
  <2>3. PICK x \in Nat : x = 1 OBVIOUS
  <2>4. Len(s) = x /\ \A k \in 1 .. x : s[k].row = p + k
    <3>1. \A k \in 1 .. x : k = 1 BY <2>3
    <3> QED BY <1>12, <1>27, <2>1, <2>3, <3>1
  <2>5. RowsAre(v, p + x) BY <1>12, <1>18, <2>2, <2>4, RowsJoin
  <2>6. p + x = l BY <2>1, <2>3
  <2>7. RowsAre(v, l) BY <2>5, <2>6
  <2> QED BY <1>14, <1>19, <1>20, <2>7, RowsJoin
<1>28. w = base \o Messages(log, u, u)
                \o Messages(log \o tools, Len(log) + 1, Len(log) + Len(tools))
  BY <1>2, <1>11, <1>13, <1>18, <1>20
<1>29. Continues(w, base)
  <2>1. \A k \in DOMAIN s : k = 1 BY <1>12
  <2>2. \A k \in DOMAIN s : s[k].label = 0 BY <1>12, <2>1
  <2>3. Continues(v, base) BY <1>12, <1>18, <2>2, ContinuesItself, ContinuesJoin
  <2>4. \A k \in DOMAIN r : r[k].label = 0 BY <1>14
  <2> QED BY <1>14, <1>19, <1>20, <2>3, <2>4, ContinuesJoin
<1> QED BY <1>2, <1>21, <1>26, <1>27, <1>28, <1>29

-----------------------------------------------------------------------------
(* The invariant is preserved. *)

\* What was evicted stays answered as the log grows.
LEMMA EvictedStays ==
  ASSUME Typed, EvictedWasAnswered, NEW log \in Seq(RowSet), Extends(log, rows),
         rows' = log, evicted' = evicted
  PROVE  EvictedWasAnswered'
<1>1. ASSUME NEW i \in evicted \ {0}, rows'[i].id.turn # 0
      PROVE  \E j \in i + 1 .. Len(rows') : rows'[j].kind = "assistant_output"
  <2>1. i \in 1 .. Len(rows) /\ i \in Nat BY DEF Typed, Extends
  <2>2. log[i] = rows[i] BY <2>1 DEF Extends
  <2>3. rows[i].id.turn # 0 BY <1>1, <2>2
  <2>4. AnswerAfter(rows, i) BY <1>1, <2>3 DEF EvictedWasAnswered, AnswerAfter
  <2>5. AnswerAfter(log, i) BY <2>1, <2>4, AnswerStays
  <2> QED BY <2>5 DEF AnswerAfter
<1> QED BY <1>1 DEF EvictedWasAnswered

\* The row of the turn's input.
LEMMA UserRowIs ==
  ASSUME LogInv, pc \in {"open", "denied"}
  PROVE  /\ UserRow \in DOMAIN rows /\ rows[UserRow].kind = "user_input"
         /\ rows[UserRow].turn = turn /\ rows[UserRow].id.turn = 0
         /\ "compaction" \notin cause => UserRow = Len(rows)
<1>1. \E i \in DOMAIN rows : rows[i].kind = "user_input" /\ rows[i].turn = turn
  BY DEF LogInv, RowsNamed, InputOf
<1>2. PICK u : u = CHOOSE i \in DOMAIN rows : rows[i].kind = "user_input" /\ rows[i].turn = turn
  OBVIOUS
<1>3. u \in DOMAIN rows /\ rows[u].kind = "user_input" /\ rows[u].turn = turn BY <1>1, <1>2
<1>4. rows[u].id.turn = 0 BY <1>3 DEF LogInv, RowsNamed, LogNamed, NamedRow
<1>5. ASSUME "compaction" \notin cause PROVE u = Len(rows)
  <2>1. InputLast(rows, turn) BY <1>5 DEF LogInv, NeverCompacted
  <2>2. DOMAIN rows = 1 .. Len(rows) /\ Len(rows) \in Nat
    BY LenProperties DEF LogInv, Typed
  <2>3. u \in 1 .. Len(rows) - 1 => rows[u].turn < turn BY <1>3, <2>1 DEF InputLast
  <2>4. turn \in Nat BY LogAssumption DEF LogInv, Typed
  <2>5. ~(u \in 1 .. Len(rows) - 1) BY <1>3, <2>3, <2>4
  <2> QED BY <1>3, <2>2, <2>5
<1>6. UserRow = u BY <1>2 DEF UserRow
<1> QED BY <1>3, <1>4, <1>5, <1>6

\* The messages a turn extends are of earlier turns.
LEMMA BaseFits ==
  ASSUME LogInv, pc \in {"open", "denied"}, NEW base \in {Base, mem}
  PROVE  /\ base \in Seq(MessageSet) /\ Fits(base, rows, turn - 1, turn - 1)
         /\ turn \in Nat /\ turn # 0 /\ turn \in 0 .. MaxTurns
         /\ cause = {} => base = mem /\ RowsAre(base, Len(rows) - 1)
<1>1. pc \in InTurn BY DEF InTurn
<1>2. Past = turn - 1 BY <1>1 DEF Past
<1>3. Fits(mem, rows, turn - 1, turn - 1) /\ Fits(retained, rows, turn - 1, turn - 1)
  BY <1>1, <1>2 DEF LogInv, MessagesFit
<1>4. mem \in Seq(MessageSet) /\ retained \in Seq(MessageSet) BY DEF LogInv, Typed
<1>5. base = mem \/ base = retained BY DEF Base
<1>6. base \in Seq(MessageSet) /\ Fits(base, rows, turn - 1, turn - 1) BY <1>3, <1>4, <1>5
<1>7. turn \in Nat /\ turn # 0 /\ turn \in 0 .. MaxTurns
  BY <1>1, LogAssumption DEF LogInv, Typed
<1>8. ASSUME cause = {} PROVE base = mem /\ RowsAre(base, Len(rows) - 1)
  <2>1. ~optimized BY <1>8 DEF LogInv, NeverCompacted
  <2>2. base = mem BY <2>1 DEF Base
  <2>3. Mirror(mem, Len(rows) - 1) BY <1>8 DEF LogInv, MemoryMirrors
  <2> QED BY <2>2, <2>3 DEF Mirror, RowsAre
<1> QED BY <1>6, <1>7, <1>8

\* A turn that ends with its rows written.
LEMMA EndKept ==
  ASSUME LogInv, pc \in {"open", "denied"},
         NEW kind \in {"assistant_output", "failure_fact", "cancellation_fact"},
         NEW id, id = IF kind = "assistant_output" THEN Final(turn) ELSE NoCall,
         NEW closing, closing = <<Row(turn, kind, id, 0, "none")>>,
         NEW base \in {Base, mem}, EndTurn(base, closing)
  PROVE  LogInv' /\ \E ms : LastNew(ms) /\ mem' = Synced(ms, refs')
<1>1. /\ turn \in Nat /\ turn # 0 /\ turn \in 0 .. MaxTurns /\ MaxTurns \in Nat
      /\ base \in Seq(MessageSet) /\ Fits(base, rows, turn - 1, turn - 1)
  BY BaseFits, LogAssumption
<1>2. PICK u : u = UserRow OBVIOUS
<1>3. /\ u \in DOMAIN rows /\ rows[u].id.turn = 0 /\ rows[u].kind = "user_input"
      /\ "compaction" \notin cause => u = Len(rows)
  BY <1>2, UserRowIs
<1>4. rows \in Seq(RowSet) /\ batch \in Seq(BatchSet) /\ refs \in Seq(Nat) BY DEF LogInv, Typed
<1>5. BatchNamed(batch, turn) /\ LogNamed(rows) BY DEF LogInv, RowsNamed
<1>6. PICK tools : tools = ToolLoopRows(turn, batch) OBVIOUS
<1>7. /\ tools \in Seq(RowSet) /\ LogNamed(tools)
      /\ \A i \in DOMAIN tools :
            /\ tools[i].kind \in {"assistant_tool_call", "tool_result"}
            /\ tools[i].id.turn \in {0, turn} /\ tools[i].id.call = 1
  BY <1>1, <1>4, <1>5, <1>6, ToolRows
<1>8. kind \in Kinds /\ kind \notin {"user_input", "context_summary"} BY DEF Kinds
<1>9. id \in CallId /\ (id.turn # 0 => id.turn = turn) BY <1>1, NoCallIs DEF CallId, Final
<1>10. PICK x : x = Grouped(closing) OBVIOUS
<1>11. /\ x \in Seq(RowSet) /\ Len(x) = 1 /\ DOMAIN x = {1} /\ x[1].kind = kind /\ x[1].id = id
       /\ LogNamed(x) /\ Inputs(x, turn)
  <2>1. x = Grouped(<<Row(turn, kind, id, 0, "none")>>) BY <1>10
  <2>2. /\ x \in Seq(RowSet) /\ Len(x) = 1 /\ DOMAIN x = {1} /\ x[1].kind = kind /\ x[1].id = id
        /\ (id.turn # 0 => id.turn = turn /\ turn <= MaxTurns /\ kind # "user_input")
              /\ (kind = "user_input" => turn \in 1 .. MaxTurns)
              /\ (kind = "context_summary" => id = NoCall) => LogNamed(x)
        /\ \A m : kind # "user_input" => Inputs(x, m)
    BY <1>1, <1>8, <1>9, <2>1, SingleRow
  <2> QED BY <1>1, <1>8, <1>9, <2>2
<1>12. PICK l \in Nat, t \in Nat : l = Len(rows) /\ t = Len(tools) BY <1>4, <1>7, LenProperties
<1>13. PICK log1, log2 : log1 = rows \o tools /\ log2 = log1 \o x OBVIOUS
<1>14. log1 \in Seq(RowSet) /\ Extends(log1, rows) /\ Len(log1) = l + t
  <2>1. Len(rows \o tools) = Len(rows) + Len(tools) /\ rows \o tools \in Seq(RowSet)
    BY <1>4, <1>7, LogExtends
  <2>2. Extends(rows \o tools, rows) BY <1>4, <1>7, LogExtends
  <2> QED BY <1>12, <1>13, <2>1, <2>2
<1>15. log2 \in Seq(RowSet) /\ Extends(log2, log1) /\ Len(log2) = l + t + 1
  BY <1>11, <1>13, <1>14, LogExtends
<1>16. Extends(log2, rows) BY <1>14, <1>15, ExtendsTwice
<1>17. log2[l + t + 1] = x[1] /\ l + t + 1 \in DOMAIN log2 /\ DOMAIN log2 = 1 .. l + t + 1
  <2>1. Joined(log1, x, log2, l + t) BY <1>11, <1>13, <1>14, ConcatPlaces
  <2>2. 1 \in DOMAIN x BY <1>11
  <2> QED BY <1>15, <2>1, <2>2, LenProperties DEF Joined
<1>18. rows' = log2 BY <1>6, <1>10, <1>13 DEF EndTurn
<1>19. refs' = Appended(refs, Len(log2)) BY <1>18 DEF EndTurn
<1>20. Sound(refs, log2) /\ Sound(checkpoint, log2)
  BY <1>16, SoundStays DEF LogInv, Typed, MessagesFit
<1>21. refs' \in Seq(Nat) /\ Sound(refs', log2) BY <1>4, <1>15, <1>19, <1>20, AppendedSound
<1>22. PICK said : said = base \o Messages(rows, UserRow, UserRow)
                            \o Messages(rows \o tools, Len(rows) + 1, Len(rows) + Len(tools))
  OBVIOUS
<1>23. /\ said \in Seq(MessageSet) /\ Fits(said, log2, turn, turn - 1)
       /\ AllBefore(said, turn, l + t) /\ Continues(said, base)
       /\ RowsAre(base, Len(rows) - 1) /\ u = Len(rows) => RowsAre(said, l + t)
  <2>1. \A i \in DOMAIN tools : /\ tools[i].id.turn \in {0, turn} /\ tools[i].id.call = 1
                                /\ tools[i].kind # "context_summary"
    BY <1>7
  <2> QED BY <1>1, <1>2, <1>3, <1>4, <1>7, <1>12, <1>13, <1>15, <1>22, <2>1, SaidFits
<1>24. PICK C : C = IF kind = "assistant_output" THEN Ids(said) ELSE {} OBVIOUS
<1>25. C \in SUBSET CallId
  <2>1. ASSUME NEW k \in DOMAIN said PROVE said[k].id \in CallId
    <3>1. said[k] \in MessageSet BY <1>23, ElementOfSeq, LenProperties
    <3> QED BY <3>1 DEF MessageSet
  <2> QED BY <1>24, <2>1 DEF Ids
<1>26. PICK last : last = [Message(kind, turn, id, l + t + 1) EXCEPT !.consumed = C] OBVIOUS
<1>27. /\ last \in MessageSet /\ last.label = 0 /\ last.row = l + t + 1 /\ last.id = id
       /\ last.consumed = C /\ last.kind = kind
  <2>1. l + t + 1 \in Nat OBVIOUS
  <2>2. last = [kind |-> kind, turn |-> turn, id |-> id, row |-> l + t + 1, label |-> 0,
                consumed |-> C, omitted |-> FALSE]
    BY <1>26 DEF Message
  <2> QED BY <1>1, <1>8, <1>9, <1>25, <2>1, <2>2 DEF MessageSet
<1>28. PICK new : new = Append(said, last) OBVIOUS
<1>29. new \in Seq(MessageSet) /\ Fits(new, log2, turn, turn)
  <2>1. /\ log2[last.row].id = last.id /\ last.row \in DOMAIN log2
        /\ last.kind # "context_summary"
    BY <1>8, <1>11, <1>17, <1>27
  <2>2. CASE kind = "assistant_output"
    <3>1. last.id = Final(turn) /\ last.consumed = Ids(said) BY <1>24, <1>27, <2>2
    <3>2. log2[last.row].kind = "assistant_output" BY <1>11, <1>17, <1>27, <2>2
    <3>3. ASSUME NEW k \in DOMAIN said PROVE said[k].row < last.row /\ said[k].id # Final(turn)
      <4>1. said[k] \in MessageSet BY <1>23, ElementOfSeq, LenProperties
      <4>2. said[k].row \in Nat BY <4>1 DEF MessageSet
      <4>3. said[k].row <= l + t /\ said[k].id # Final(turn) BY <1>23 DEF AllBefore
      <4> QED BY <1>27, <4>2, <4>3
    <3> QED BY <1>1, <1>15, <1>23, <1>27, <1>28, <2>1, <3>1, <3>2, <3>3, ClosedFits
  <2>3. CASE kind # "assistant_output"
    <3>1. last.id.turn = 0 /\ last.consumed = {} BY <1>24, <1>27, <2>3, NoCallIs
    <3> QED BY <1>1, <1>15, <1>23, <1>27, <1>28, <2>1, <3>1, ClosedFits
  <2> QED BY <2>2, <2>3
<1>30. mem' = Synced(new, refs')
  <2>1. closing[1].kind = kind /\ closing[1].id = id BY DEF Row
  <2>2. closing = FinalRows(turn) <=> kind = "assistant_output"
    <3>1. FinalRows(turn)[1].kind = "assistant_output" BY DEF FinalRows, Row
    <3>2. kind = "assistant_output" => closing = FinalRows(turn) BY DEF FinalRows
    <3> QED BY <2>1, <3>1, <3>2
  <2>3. C = IF closing = FinalRows(turn) THEN Ids(said) ELSE {} BY <1>24, <2>2
  <2>4. last = [Message(closing[1].kind, turn, closing[1].id, Len(rows) + Len(tools) + 1)
                   EXCEPT !.consumed = IF closing = FinalRows(turn) THEN Ids(said) ELSE {}]
    BY <1>12, <1>26, <2>1, <2>3
  <2> QED BY <1>6, <1>22, <1>28, <2>4 DEF EndTurn
<1>31. mem' \in Seq(MessageSet) /\ Fits(mem', log2, turn, turn)
  BY <1>15, <1>21, <1>29, <1>30, SyncedFits
<1>32. /\ pc' = "idle"
       /\ UNCHANGED <<turn, retained, optimized, batch, checkpoint, resumes, cause, evicted>>
  BY DEF EndTurn
<1>33. "idle" \notin InTurn BY DEF InTurn
<1>34. Typed'
  <2>1. evicted \subseteq 0 .. Len(log2)
    <3>1. ASSUME NEW i \in evicted PROVE i \in 0 .. Len(log2)
      <4>1. i \in 0 .. l BY <1>12 DEF LogInv, Typed
      <4> QED BY <1>15, <4>1
    <3> QED BY <3>1
  <2> QED BY <1>15, <1>18, <1>21, <1>31, <1>32, <1>33, <2>1 DEF LogInv, Typed
<1>35. MessagesFit'
  <2>1. Past' = turn BY <1>32, <1>33 DEF Past
  <2> QED BY <1>18, <1>20, <1>21, <1>31, <1>32, <1>33, <2>1 DEF MessagesFit
<1>36. RowsNamed'
  <2>1. LogNamed(log1) BY <1>4, <1>5, <1>7, <1>13, NamedGrows
  <2>2. LogNamed(log2) BY <1>11, <1>13, <1>14, <2>1, NamedGrows
  <2> QED BY <1>5, <1>18, <1>32, <2>2 DEF RowsNamed
<1>37. NeverCompacted'
  <2>1. SUFFICES ASSUME "compaction" \notin cause
                 PROVE  refs' = Identity(Len(log2)) /\ ~optimized /\ Inputs(log2, turn)
    <3>1. Past' = turn BY <1>32, <1>33 DEF Past
    <3> QED BY <1>18, <1>32, <2>1, <3>1 DEF NeverCompacted
  <2>2. refs = Identity(l) /\ ~optimized /\ InputLast(rows, turn)
    BY <1>12, <2>1 DEF LogInv, NeverCompacted
  <2>3. refs' = Identity(Len(log2)) BY <1>15, <1>19, <2>2, AppendedIdentity
  <2>4. Inputs(rows, turn)
    <3>1. ASSUME NEW i \in DOMAIN rows, rows[i].kind = "user_input" PROVE rows[i].turn <= turn
      <4>1. i \in 1 .. l BY <1>4, <1>12, LenProperties
      <4>2. CASE i = l BY <1>1, <1>12, <2>2, <4>2 DEF InputLast
      <4>3. CASE i # l
        <5>1. i \in 1 .. Len(rows) - 1 BY <1>12, <4>1, <4>3
        <5>2. rows[i].turn < turn BY <2>2, <3>1, <5>1 DEF InputLast
        <5>3. rows[i].turn \in Nat
          <6>1. rows[i] \in RowSet BY <1>4, ElementOfSeq, LenProperties
          <6> QED BY <6>1 DEF RowSet
        <5> QED BY <1>1, <5>2, <5>3
      <4> QED BY <4>2, <4>3
    <3> QED BY <3>1 DEF Inputs
  <2>5. Inputs(tools, turn) BY <1>7 DEF Inputs
  <2>6. Inputs(log2, turn) BY <1>4, <1>7, <1>11, <1>13, <1>14, <2>4, <2>5, InputsGrow
  <2> QED BY <2>2, <2>3, <2>6
<1>38. MemoryMirrors'
  <2>1. SUFFICES ASSUME cause = {} PROVE Mirror(mem', Len(log2))
    BY <1>18, <1>32 DEF MemoryMirrors
  <2>2. RowsAre(said, l + t) BY <1>3, <1>23, <2>1, BaseFits
  <2>3. RowsAre(new, l + t + 1) BY <1>23, <1>27, <1>28, <2>2, RowsAppend
  <2>4. refs' = Identity(l + t + 1)
    <3>1. NeverCompacted' /\ "compaction" \notin cause BY <1>37, <2>1
    <3> QED BY <1>15, <1>18, <1>32, <3>1 DEF NeverCompacted
  <2> QED BY <1>15, <1>29, <1>30, <2>3, <2>4, SyncedMirrors
<1>39. EvictedWasAnswered' BY <1>15, <1>16, <1>18, <1>32, EvictedStays DEF LogInv
<1>40. LabelsKnown'
  <2>1. Continues(new, base) BY <1>23, <1>27, <1>28, ContinuesAppend
  <2>2. PICK v \in Nat : v = Len(log2) /\ v \in 1 .. Len(log2) /\ v > Len(rows)
    <3>1. l + t + 1 \in 1 .. l + t + 1 /\ l + t + 1 > l OBVIOUS
    <3> QED BY <1>12, <1>15, <3>1
  <2>3. Apart(new, v) BY <1>1, <1>4, <2>1, <2>2, BehindApart
  <2>4. v \in ToSet(refs') BY <1>4, <1>19, <2>2, AppendedHas
  <2>5. PICK projection : projection = refs' OBVIOUS
  <2>6. Known(Synced(new, projection)) \/ Labels(Synced(new, projection)) # projection
    BY <1>21, <1>29, <2>3, <2>4, <2>5, DriftSeen
  <2>7. Known(mem') \/ Labels(mem') # refs' BY <1>30, <2>5, <2>6
  <2> QED BY <1>32, <2>7 DEF LabelsKnown, Aligned
<1>41. LastNew(new)
  <2>1. last.kind # "context_summary" BY <1>8, <1>27
  <2>2. CASE kind = "assistant_output"
    <3>1. last.id = Final(turn) /\ last.id.turn = turn /\ C = Ids(said)
      BY <1>24, <1>27, <2>2 DEF Final
    <3>2. ASSUME NEW k \in DOMAIN new, last.id \in new[k].consumed PROVE FALSE
      <4>1. /\ DOMAIN said = 1 .. Len(said) /\ Len(said) \in Nat
            /\ DOMAIN new = 1 .. Len(said) + 1 /\ new[Len(said) + 1] = last
            /\ \A j \in 1 .. Len(said) : new[j] = said[j]
        BY <1>23, <1>27, <1>28, <1>29, AppendProperties, LenProperties
      <4>2. CASE k \in DOMAIN said
        <5>1. new[k] = said[k] BY <4>1, <4>2
        <5>2. last.id.turn <= turn - 1 BY <1>23, <3>2, <4>2, <5>1 DEF Fits, Stands
        <5> QED BY <1>1, <3>1, <5>2
      <4>3. CASE k \notin DOMAIN said
        <5>1. k = Len(said) + 1 BY <4>1, <4>3
        <5>2. last.id \in Ids(said) BY <1>27, <3>1, <3>2, <4>1, <5>1
        <5> QED BY <1>23, <3>1, <5>2 DEF AllBefore, Ids
      <4> QED BY <4>2, <4>3
    <3>3. last.id \notin Consumed(new) BY <3>2 DEF Consumed
    <3> QED BY <1>23, <1>27, <1>28, <2>1, <3>3, AppendedLast
  <2>3. CASE kind # "assistant_output"
    <3>1. last.id = NoCall BY <1>27, <2>3
    <3> QED BY <1>23, <1>27, <1>28, <2>1, <3>1, AppendedLast
  <2> QED BY <2>2, <2>3
<1>42. LogInv' BY <1>34, <1>35, <1>36, <1>37, <1>38, <1>39, <1>40 DEF LogInv
<1> QED BY <1>30, <1>41, <1>42

\* The first state.
LEMMA InitLogInv == Init => LogInv
<1> SUFFICES ASSUME Init PROVE LogInv OBVIOUS
<1>1. MaxTurns \in Nat /\ MaxResumes \in Nat BY LogAssumption
<1>2. /\ pc = "idle" /\ turn = 0 /\ rows = <<>> /\ refs = <<>> /\ mem = <<>> /\ retained = <<>>
      /\ optimized = FALSE /\ batch = <<>> /\ checkpoint = <<>> /\ resumes = 0
      /\ cause = {} /\ evicted = {}
  BY DEF Init
<1>3. "idle" \notin InTurn BY DEF InTurn
<1>4. Len(<<>>) = 0 /\ DOMAIN <<>> = {} /\ <<>> = [i \in 1 .. 0 |-> i] OBVIOUS
<1>5. Typed
  <2>1. /\ <<>> \in Seq(RowSet) /\ <<>> \in Seq(Nat) /\ <<>> \in Seq(MessageSet)
        /\ <<>> \in Seq(BatchSet)
    OBVIOUS
  <2>2. 0 \in 0 .. MaxTurns /\ 0 \in 0 .. MaxResumes BY <1>1
  <2>3. rows \in Seq(RowSet) /\ refs \in Seq(Nat) /\ checkpoint \in Seq(Nat) BY <1>2, <2>1
  <2>4. mem \in Seq(MessageSet) /\ retained \in Seq(MessageSet) BY <1>2, <2>1
  <2>5. batch \in Seq(BatchSet) /\ Len(batch) <= 1 BY <1>2, <1>4, <2>1
  <2>6. turn \in 0 .. MaxTurns /\ resumes \in 0 .. MaxResumes /\ optimized \in BOOLEAN
    BY <1>2, <2>2
  <2>7. cause \subseteq Causes /\ evicted \subseteq 0 .. Len(rows) BY <1>2
  <2>8. pc \in {"idle", "begun", "open", "denied", "refused", "closed"} /\ pc \notin InTurn
    BY <1>2, <1>3
  <2> QED BY <2>3, <2>4, <2>5, <2>6, <2>7, <2>8 DEF Typed
<1>6. MessagesFit
  <2>1. Sound(<<>>, <<>>) BY <1>4 DEF Sound
  <2>2. ASSUME NEW b PROVE Fits(<<>>, <<>>, b, b)
    BY <1>4 DEF Fits, LabelsSound, Answered
  <2> QED BY <1>2, <1>3, <2>1, <2>2 DEF MessagesFit
<1>7. RowsNamed BY <1>2, <1>4 DEF RowsNamed, LogNamed, BatchNamed
<1>8. NeverCompacted BY <1>2, <1>4 DEF NeverCompacted, Identity, Inputs
<1>9. MemoryMirrors BY <1>2, <1>4 DEF MemoryMirrors, Mirror
<1>10. EvictedWasAnswered BY <1>2 DEF EvictedWasAnswered
<1>11. LabelsKnown BY <1>2, <1>4 DEF LabelsKnown, Known
<1> QED BY <1>5, <1>6, <1>7, <1>8, <1>9, <1>10, <1>11 DEF LogInv

\* A turn begins, or is refused.
LEMMA BeginKept == LogInv /\ BeginTurn => LogInv'
<1> SUFFICES ASSUME LogInv, BeginTurn PROVE LogInv' OBVIOUS
<1>1. /\ pc = "idle" /\ turn \in Nat /\ turn < MaxTurns /\ MaxTurns \in Nat /\ turn' = turn + 1
      /\ pc' \in {"begun", "refused"} /\ retained' = mem /\ optimized' = FALSE /\ batch' = <<>>
      /\ UNCHANGED <<rows, refs, mem, checkpoint, resumes, cause, evicted>>
  BY LogAssumption DEF BeginTurn, LogInv, Typed
<1>2. pc \notin InTurn /\ Past = turn /\ turn' # 0 BY <1>1 DEF InTurn, Past
<1>3. Past' = IF pc' = "begun" THEN turn ELSE turn + 1 BY <1>1 DEF Past, InTurn
<1>4. rows \in Seq(RowSet) /\ mem \in Seq(MessageSet) BY DEF LogInv, Typed
<1>5. Typed'
  <2>1. <<>> \in Seq(BatchSet) /\ Len(<<>>) = 0 /\ turn + 1 \in 0 .. MaxTurns BY <1>1
  <2>2. Typed BY DEF LogInv
  <2>3. pc' \in {"idle", "begun", "open", "denied", "refused", "closed"} BY <1>1
  <2>4. batch' \in Seq(BatchSet) /\ Len(batch') <= 1 /\ optimized' \in BOOLEAN
    <3>1. batch' = <<>> /\ optimized' = FALSE BY <1>1
    <3>2. Len(batch') <= 1 BY <2>1, <3>1
    <3>3. batch' \in Seq(BatchSet) BY <2>1, <3>1
    <3> QED BY <3>1, <3>2, <3>3
  <2>5. turn' \in 0 .. MaxTurns BY <1>1, <2>1
  <2>6. /\ rows' = rows /\ refs' = refs /\ mem' = mem /\ retained' = mem /\ resumes' = resumes
        /\ checkpoint' = checkpoint /\ cause' = cause /\ evicted' = evicted
    BY <1>1
  <2> QED BY <1>2, <2>2, <2>3, <2>4, <2>5, <2>6 DEF Typed
<1>6. MessagesFit'
  <2>1. Fits(mem, rows, turn, turn) BY <1>2 DEF LogInv, MessagesFit
  <2>2. turn + 1 \in Nat /\ turn <= turn + 1 BY <1>1
  <2>3. Fits(mem, rows, turn + 1, turn + 1) BY <1>1, <1>4, <2>1, <2>2, ExtendsItself, FitsStays
  <2>4. Fits(mem, rows, Past', Past') BY <1>3, <2>1, <2>3
  <2> QED BY <1>1, <2>4 DEF LogInv, MessagesFit
<1>7. RowsNamed'
  <2>1. BatchNamed(<<>>, turn') BY DEF BatchNamed
  <2> QED BY <1>1, <2>1 DEF LogInv, RowsNamed
<1>8. NeverCompacted'
  <2>1. SUFFICES ASSUME "compaction" \notin cause PROVE Inputs(rows, Past')
    BY <1>1, <2>1 DEF LogInv, NeverCompacted
  <2>2. Inputs(rows, turn) BY <1>1, <1>2, <2>1 DEF LogInv, NeverCompacted
  <2>3. \A i \in DOMAIN rows : rows[i].turn \in Nat
    <3>1. ASSUME NEW i \in DOMAIN rows PROVE rows[i].turn \in Nat
      <4>1. rows[i] \in RowSet BY <1>4, ElementOfSeq, LenProperties
      <4> QED BY <4>1 DEF RowSet
    <3> QED BY <3>1
  <2> QED BY <1>1, <1>3, <2>2, <2>3 DEF Inputs
<1>9. MemoryMirrors' BY <1>1 DEF LogInv, MemoryMirrors
<1>10. EvictedWasAnswered' BY <1>1 DEF LogInv, EvictedWasAnswered
<1>11. LabelsKnown'
  <2>1. pc' = "begun" => Aligned BY DEF BeginTurn
  <2>2. pc' = "begun" => Known(mem) BY <1>1, <2>1 DEF LogInv, LabelsKnown
  <2> QED BY <1>1, <2>2 DEF LabelsKnown
<1> QED BY <1>5, <1>6, <1>7, <1>8, <1>9, <1>10, <1>11 DEF LogInv

\* The turn's input.
LEMMA AppendUserKept == LogInv /\ AppendUser => LogInv'
<1> SUFFICES ASSUME LogInv, AppendUser PROVE LogInv' OBVIOUS
<1>1. PICK x, log : x = Grouped(UserRows(turn)) /\ log = rows \o x OBVIOUS
<1>2. /\ pc = "begun" /\ rows' = log /\ refs' = Appended(refs, Len(log)) /\ pc' = "open"
      /\ UNCHANGED <<turn, mem, retained, optimized, batch, checkpoint, resumes, cause, evicted>>
  BY <1>1 DEF AppendUser
<1>3. "begun" \in InTurn /\ "open" \in InTurn BY DEF InTurn
<1>4. turn \in Nat /\ turn \in 1 .. MaxTurns /\ MaxTurns \in Nat
  BY <1>2, <1>3, LogAssumption DEF LogInv, Typed
<1>5. Past = turn - 1 /\ Past' = turn - 1 BY <1>2, <1>3 DEF Past
<1>6. /\ x \in Seq(RowSet) /\ Len(x) = 1 /\ DOMAIN x = {1} /\ x[1].kind = "user_input"
      /\ x[1].turn = turn /\ LogNamed(x)
  <2>1. x = Grouped(<<Row(turn, "user_input", NoCall, 0, "none")>>) BY <1>1 DEF UserRows
  <2>2. "user_input" \in Kinds BY DEF Kinds
  <2> QED BY <1>4, <2>1, <2>2, NoCallIs, SingleRow
<1>7. rows \in Seq(RowSet) /\ refs \in Seq(Nat) /\ checkpoint \in Seq(Nat)
      /\ mem \in Seq(MessageSet) /\ retained \in Seq(MessageSet)
  BY DEF LogInv, Typed
<1>8. PICK l \in Nat : l = Len(rows) BY <1>7, LenProperties
<1>9. log \in Seq(RowSet) /\ Extends(log, rows) /\ Len(log) = l + 1
  BY <1>1, <1>6, <1>7, <1>8, LogExtends
<1>10. log[l + 1] = x[1] /\ DOMAIN log = 1 .. l + 1 /\ \A i \in 1 .. l : log[i] = rows[i]
  <2>1. Joined(rows, x, log, l) BY <1>1, <1>6, <1>7, <1>8, ConcatPlaces
  <2>2. 1 \in DOMAIN x BY <1>6
  <2> QED BY <1>8, <1>9, <2>1, <2>2, LenProperties DEF Joined, Extends
<1>11. Sound(refs, log) /\ Sound(checkpoint, log)
  BY <1>7, <1>9, SoundStays DEF LogInv, MessagesFit
<1>12. refs' \in Seq(Nat) /\ Sound(refs', log) BY <1>2, <1>7, <1>9, <1>11, AppendedSound
<1>13. Typed'
  <2>1. evicted \subseteq 0 .. Len(log)
    <3>1. ASSUME NEW i \in evicted PROVE i \in 0 .. Len(log)
      <4>1. i \in 0 .. l BY <1>8 DEF LogInv, Typed
      <4> QED BY <1>9, <4>1
    <3> QED BY <3>1
  <2> QED BY <1>2, <1>4, <1>9, <1>12, <2>1 DEF LogInv, Typed
<1>14. MessagesFit'
  <2>1. Fits(mem, rows, turn - 1, turn - 1) /\ Fits(retained, rows, turn - 1, turn - 1)
    BY <1>2, <1>3, <1>5 DEF LogInv, MessagesFit
  <2>2. turn - 1 \in Nat BY <1>4
  <2>3. Fits(mem, log, turn - 1, turn - 1) /\ Fits(retained, log, turn - 1, turn - 1)
    BY <1>7, <1>9, <2>1, <2>2, FitsStays
  <2> QED BY <1>2, <1>5, <1>11, <1>12, <2>3 DEF MessagesFit
<1>15. RowsNamed'
  <2>1. LogNamed(log) BY <1>1, <1>6, <1>7, NamedGrows DEF LogInv, RowsNamed
  <2>2. InputOf(log, turn)
    <3>1. l + 1 \in DOMAIN log BY <1>10
    <3> QED BY <1>6, <1>10, <3>1 DEF InputOf
  <2> QED BY <1>2, <2>1, <2>2 DEF LogInv, RowsNamed
<1>16. NeverCompacted'
  <2>1. SUFFICES ASSUME "compaction" \notin cause
                 PROVE  refs' = Identity(Len(log)) /\ ~optimized /\ InputLast(log, turn)
    BY <1>2, <2>1 DEF NeverCompacted
  <2>2. refs = Identity(l) /\ ~optimized /\ Inputs(rows, turn - 1)
    BY <1>2, <1>5, <1>8, <2>1 DEF LogInv, NeverCompacted
  <2>3. refs' = Identity(Len(log)) BY <1>2, <1>9, <2>2, AppendedIdentity
  <2>4. ASSUME NEW i \in 1 .. Len(log) - 1, log[i].kind = "user_input" PROVE log[i].turn < turn
    <3>1. i \in 1 .. l BY <1>9
    <3>2. i \in DOMAIN rows BY <1>7, <1>8, <3>1, LenProperties
    <3>3. rows[i] = log[i] BY <1>10, <3>1
    <3>4. rows[i].turn <= turn - 1 BY <2>2, <2>4, <3>2, <3>3 DEF Inputs
    <3>5. rows[i].turn \in Nat
      <4>1. rows[i] \in RowSet BY <1>7, <3>2, ElementOfSeq, LenProperties
      <4> QED BY <4>1 DEF RowSet
    <3> QED BY <1>4, <3>3, <3>4, <3>5
  <2>5. InputLast(log, turn) BY <1>6, <1>9, <1>10, <2>4 DEF InputLast
  <2> QED BY <2>2, <2>3, <2>5
<1>17. MemoryMirrors' BY <1>2, <1>8, <1>9 DEF LogInv, MemoryMirrors
<1>18. EvictedWasAnswered' BY <1>2, <1>9, EvictedStays DEF LogInv
<1>19. LabelsKnown'
  <2>1. Known(retained) /\ ~optimized BY <1>2 DEF LogInv, LabelsKnown
  <2>2. PICK v \in Nat : v = Len(log) /\ v \in 1 .. Len(log) /\ v > Len(rows)
    <3>1. l + 1 \in 1 .. l + 1 /\ l + 1 > l OBVIOUS
    <3> QED BY <1>8, <1>9, <3>1
  <2>3. v \in ToSet(refs') BY <1>2, <1>7, <2>2, AppendedHas
  <2>4. Fits(retained, rows, turn - 1, turn - 1)
    BY <1>2, <1>3, <1>5 DEF LogInv, MessagesFit
  <2>5. Apart(retained, v) BY <1>7, <2>2, <2>4, ContinuesItself, BehindApart
  <2> QED BY <1>2, <2>1, <2>2, <2>3, <2>5 DEF LabelsKnown
<1> QED BY <1>13, <1>14, <1>15, <1>16, <1>17, <1>18, <1>19 DEF LogInv

\* A summary is accepted.
LEMMA SummaryLog ==
  ASSUME LogInv, NEW n \in Nat, NEW log, log = rows \o Grouped(SummaryRows(n))
  PROVE  /\ log \in Seq(RowSet) /\ Extends(log, rows) /\ LogNamed(log)
         /\ Len(log) = Len(rows) + 1 /\ Len(rows) \in Nat
         /\ log[Len(log)].kind = "context_summary" /\ log[Len(log)].id = NoCall
         /\ Sound(refs, log) /\ Sound(checkpoint, log)
<1>1. PICK x : x = Grouped(SummaryRows(n)) OBVIOUS
<1>2. /\ x \in Seq(RowSet) /\ Len(x) = 1 /\ DOMAIN x = {1} /\ x[1].kind = "context_summary"
      /\ x[1].id = NoCall /\ LogNamed(x)
  <2>1. x = Grouped(<<Row(n, "context_summary", NoCall, 0, "none")>>) BY <1>1 DEF SummaryRows
  <2>2. "context_summary" \in Kinds BY DEF Kinds
  <2> QED BY <2>1, <2>2, NoCallIs, SingleRow
<1>3. /\ rows \in Seq(RowSet) /\ refs \in Seq(Nat) /\ checkpoint \in Seq(Nat)
      /\ LogNamed(rows) /\ Sound(refs, rows) /\ Sound(checkpoint, rows)
  BY DEF LogInv, Typed, RowsNamed, MessagesFit
<1>4. PICK l \in Nat : l = Len(rows) BY <1>3, LenProperties
<1>5. log \in Seq(RowSet) /\ Extends(log, rows) /\ Len(log) = l + 1
  BY <1>1, <1>2, <1>3, <1>4, LogExtends
<1>6. log[l + 1] = x[1]
  <2>1. Joined(rows, x, log, l) BY <1>1, <1>2, <1>3, <1>4, ConcatPlaces
  <2>2. 1 \in DOMAIN x BY <1>2
  <2> QED BY <2>1, <2>2 DEF Joined
<1>7. LogNamed(log) BY <1>1, <1>2, <1>3, NamedGrows
<1>8. Sound(refs, log) /\ Sound(checkpoint, log) BY <1>3, <1>5, SoundStays
<1> QED BY <1>2, <1>4, <1>5, <1>6, <1>7, <1>8

EvictedAnswered(log, ev) == \A i \in ev \ {0} : log[i].id.turn # 0 => AnswerAfter(log, i)

\* A compression evicts what was answered.
LEMMA CompressionKept ==
  ASSUME LogInv, NEW ms \in Seq(MessageSet), NEW b \in Nat, Fits(ms, rows, b, b),
         Evictable(ms) # {}, KnowsRows(ms), NEW n \in Nat,
         NEW log, log = rows \o Grouped(SummaryRows(n)),
         NEW new, new = Compress(ms, Len(log)),
         NEW ev, ev = evicted \cup {ms[i].row : i \in Gone(ms)}
  PROVE  /\ new \in Seq(MessageSet) /\ Fits(new, log, b, b)
         /\ Overwritten(new, Len(log)) \in Seq(Nat) /\ Sound(Overwritten(new, Len(log)), log)
         /\ ev \subseteq 0 .. Len(log) /\ EvictedAnswered(log, ev)
         /\ Evictable(new) = {}
<1>1. /\ log \in Seq(RowSet) /\ Extends(log, rows)
      /\ Len(log) = Len(rows) + 1 /\ Len(rows) \in Nat
      /\ log[Len(log)].kind = "context_summary" /\ log[Len(log)].id = NoCall
  BY SummaryLog
<1>2. PICK l \in Nat : l = Len(rows) BY <1>1
<1>3. PICK row \in Nat : row = Len(log) /\ row = l + 1 BY <1>1, <1>2
<1>4. new \in Seq(MessageSet) /\ \E f : Shortened(f, new, ms, row) /\ InOrder(f, new, ms)
  BY <1>3, CompressShortens
<1>5. PICK f : Shortened(f, new, ms, row) /\ InOrder(f, new, ms) BY <1>4
<1>6. Fits(ms, log, b, b) BY <1>1, FitsStays
<1>7. Fits(new, log, b, b)
  <2>1. row <= Len(log) /\ log[row].id = NoCall BY <1>1, <1>3
  <2> QED BY <1>1, <1>4, <1>5, <1>6, <2>1, CompressFits
<1>8. Overwritten(new, row) \in Seq(Nat) /\ Sound(Overwritten(new, row), log)
  <2>1. \A i \in DOMAIN ms : ms[i].label \in 1 .. row - 1
    <3>1. row - 1 = Len(rows) BY <1>2, <1>3
    <3> QED BY <3>1 DEF KnowsRows
  <2>2. row # 0 /\ log[row].kind = "context_summary" BY <1>1, <1>3
  <2>3. LabelsSound(ms, log) BY <1>6 DEF Fits
  <2> QED BY <1>1, <1>3, <1>4, <1>5, <2>1, <2>2, <2>3, CompressedSound
<1>9. ASSUME NEW i \in Gone(ms)
      PROVE  /\ ms[i].row \in 0 .. l
             /\ (ms[i].row # 0 /\ log[ms[i].row].id.turn # 0) => AnswerAfter(log, ms[i].row)
  <2>1. i \in DOMAIN ms /\ ms[i].id \in Consumed(ms) BY EvictableIs DEF Gone
  <2>2. Stands(ms[i], log, b, b) /\ Answered(ms, log) BY <1>6, <2>1 DEF Fits
  <2>3. ms[i].row <= l BY <1>2, <2>1 DEF Fits, Stands
  <2>4. ms[i].row \in Nat
    <3>1. ms[i] \in MessageSet BY <2>1, ElementOfSeq, LenProperties
    <3> QED BY <3>1 DEF MessageSet
  <2>5. ASSUME ms[i].row # 0, log[ms[i].row].id.turn # 0 PROVE AnswerAfter(log, ms[i].row)
    <3>1. log[ms[i].row].id = ms[i].id BY <2>2, <2>5 DEF Stands
    <3>2. ms[i].id.turn # 0 BY <2>5, <3>1
    <3> QED BY <2>1, <2>2, <3>2 DEF Answered
  <2>6. ms[i].row \in 0 .. l BY <2>3, <2>4
  <2> QED BY <2>5, <2>6
<1>10. ASSUME NEW r \in ev
       PROVE  r \in 0 .. l /\ (r # 0 /\ log[r].id.turn # 0 => AnswerAfter(log, r))
  <2>1. CASE r \in evicted
    <3>1. r \in 0 .. l BY <1>2, <2>1 DEF LogInv, Typed
    <3>2. ASSUME r # 0, log[r].id.turn # 0 PROVE AnswerAfter(log, r)
      <4>1. r \in 1 .. Len(rows) /\ r \in Nat BY <1>2, <3>1, <3>2
      <4>2. log[r] = rows[r] BY <1>1, <4>1 DEF Extends
      <4>3. AnswerAfter(rows, r)
        BY <2>1, <3>2, <4>2 DEF LogInv, EvictedWasAnswered, AnswerAfter
      <4> QED BY <1>1, <4>1, <4>3, AnswerStays
    <3> QED BY <3>1, <3>2
  <2>2. CASE r \notin evicted
    <3>1. PICK i \in Gone(ms) : r = ms[i].row BY <2>2
    <3> QED BY <1>9, <3>1
  <2> QED BY <2>1, <2>2
<1>11. ASSUME NEW r \in ev PROVE r \in 0 .. Len(log)
  <2>1. r \in 0 .. l BY <1>10
  <2> QED BY <1>3, <2>1
<1>12. EvictedAnswered(log, ev) BY <1>10 DEF EvictedAnswered
<1>13. Evictable(new) = {}
  <2>1. \A i \in DOMAIN ms : Shaped(ms[i]) BY DEF Fits, Stands
  <2> QED BY <1>3, <1>4, <1>5, <2>1, CompressExhausts
<1> QED BY <1>3, <1>4, <1>7, <1>8, <1>11, <1>12, <1>13

\* A compression in a turn.
LEMMA CompressKept == LogInv /\ CompressInTurn => LogInv'
<1> SUFFICES ASSUME LogInv, CompressInTurn PROVE LogInv' OBVIOUS
<1>1. PICK log, new, ev : /\ log = rows \o Grouped(SummaryRows(turn))
                          /\ new = Compress(retained, Len(log))
                          /\ ev = evicted \cup {retained[i].row : i \in Gone(retained)}
  OBVIOUS
<1>2. /\ pc = "open" /\ Evictable(retained) # {} /\ KnowsRows(retained)
      /\ rows' = log /\ retained' = new /\ refs' = Overwritten(new, Len(log)) /\ evicted' = ev
      /\ optimized' = TRUE /\ cause' = cause \cup {"compaction"}
      /\ UNCHANGED <<pc, turn, mem, batch, checkpoint, resumes>>
  BY <1>1 DEF CompressInTurn
<1>3. "open" \in InTurn BY DEF InTurn
<1>4. turn \in Nat /\ turn - 1 \in Nat BY <1>2, <1>3, LogAssumption DEF LogInv, Typed
<1>5. Past = turn - 1 /\ Past' = turn - 1 BY <1>2, <1>3 DEF Past
<1>6. retained \in Seq(MessageSet) /\ mem \in Seq(MessageSet) BY DEF LogInv, Typed
<1>7. Fits(retained, rows, turn - 1, turn - 1) /\ Fits(mem, rows, turn - 1, turn - 1)
  BY <1>2, <1>3, <1>5 DEF LogInv, MessagesFit
<1>8. /\ log \in Seq(RowSet) /\ Extends(log, rows) /\ LogNamed(log) /\ Sound(checkpoint, log)
  BY <1>1, <1>4, SummaryLog
<1>9. /\ new \in Seq(MessageSet) /\ Fits(new, log, turn - 1, turn - 1)
      /\ refs' \in Seq(Nat) /\ Sound(refs', log)
      /\ ev \subseteq 0 .. Len(log) /\ EvictedAnswered(log, ev)
      /\ Evictable(new) = {}
  BY <1>1, <1>2, <1>4, <1>6, <1>7, CompressionKept
<1>10. Typed'
  <2>1. cause' \subseteq Causes BY <1>2 DEF LogInv, Typed, Causes
  <2>2. Typed BY DEF LogInv
  <2> QED BY <1>2, <1>8, <1>9, <2>1, <2>2 DEF Typed
<1>11. MessagesFit'
  <2>1. Fits(mem, log, turn - 1, turn - 1) BY <1>4, <1>6, <1>7, <1>8, FitsStays
  <2> QED BY <1>2, <1>5, <1>8, <1>9, <2>1 DEF MessagesFit
<1>12. RowsNamed'
  <2>1. InputOf(log, turn) BY <1>2, <1>8, InputStays DEF LogInv, RowsNamed
  <2> QED BY <1>2, <1>8, <2>1 DEF LogInv, RowsNamed
<1>13. NeverCompacted' BY <1>2 DEF NeverCompacted
<1>14. MemoryMirrors' BY <1>2 DEF MemoryMirrors
<1>15. EvictedWasAnswered'
  <2>1. \A i \in ev \ {0} : log[i].id.turn # 0 =>
           \E j \in i + 1 .. Len(log) : log[j].kind = "assistant_output"
    BY <1>9 DEF EvictedAnswered, AnswerAfter
  <2> QED BY <1>2, <2>1 DEF EvictedWasAnswered
<1>16. LabelsKnown' BY <1>2, <1>9 DEF LabelsKnown
<1> QED BY <1>10, <1>11, <1>12, <1>13, <1>14, <1>15, <1>16 DEF LogInv

\* An omission in a turn.
LEMMA OmitKept == LogInv /\ OmitInTurn => LogInv'
<1> SUFFICES ASSUME LogInv, OmitInTurn PROVE LogInv' OBVIOUS
<1>1. PICK S : S = {i \in DOMAIN retained : retained[i].id = NoCall \/ retained[i].id \in Evictable(retained)}
  OBVIOUS
<1>2. PICK new, part : new = Omit(retained) /\ part = Pick(Omit(retained), S) OBVIOUS
<1>3. /\ pc = "open" /\ KnowsRows(retained) /\ Omittable(retained) # {}
      /\ refs' = Overwritten(part, 0) /\ retained' = new
      /\ optimized' = TRUE /\ cause' = cause \cup {"compaction"}
      /\ UNCHANGED <<pc, turn, rows, mem, batch, checkpoint, resumes, evicted>>
  BY <1>1, <1>2 DEF OmitInTurn, OmissionSnapshot
<1>4. "open" \in InTurn BY DEF InTurn
<1>5. turn \in Nat /\ turn - 1 \in Nat BY <1>3, <1>4, LogAssumption DEF LogInv, Typed
<1>6. Past = turn - 1 /\ Past' = turn - 1 BY <1>3, <1>4 DEF Past
<1>7. retained \in Seq(MessageSet) /\ rows \in Seq(RowSet) BY DEF LogInv, Typed
<1>8. Fits(retained, rows, turn - 1, turn - 1) BY <1>3, <1>4, <1>6 DEF LogInv, MessagesFit
<1>9. /\ new \in Seq(MessageSet) /\ DOMAIN new = DOMAIN retained
      /\ \A i \in DOMAIN retained : Copies(new[i], retained[i])
      /\ Fits(new, rows, turn - 1, turn - 1)
  BY <1>2, <1>5, <1>7, <1>8, OmitFits
<1>10. S \in SUBSET (DOMAIN new) BY <1>1, <1>9
<1>11. part \in Seq(MessageSet) /\ Fits(part, rows, turn - 1, turn - 1)
  BY <1>2, <1>5, <1>7, <1>9, <1>10, PickFits
<1>12. ASSUME NEW k \in DOMAIN part PROVE part[k].label \in 1 .. Len(rows)
  <2>1. PICK f : f = Ascending(S) OBVIOUS
  <2>2. DOMAIN part = DOMAIN f /\ f[k] \in S /\ part[k] = new[f[k]]
    BY <1>2, <1>9, <1>10, <2>1, Picked DEF Enumerates
  <2>3. f[k] \in DOMAIN retained BY <1>1, <2>2
  <2>4. new[f[k]].label = retained[f[k]].label BY <1>9, <2>3 DEF Copies
  <2> QED BY <1>3, <2>2, <2>3, <2>4 DEF KnowsRows
<1>13. refs' \in Seq(Nat) /\ Sound(refs', rows)
  BY <1>3, <1>7, <1>11, <1>12, OverwrittenSound DEF Fits
<1>14. Typed'
  <2>1. cause' \subseteq Causes BY <1>3 DEF LogInv, Typed, Causes
  <2>2. Typed BY DEF LogInv
  <2> QED BY <1>3, <1>9, <1>13, <2>1, <2>2 DEF Typed
<1>15. MessagesFit' BY <1>3, <1>6, <1>9, <1>13 DEF LogInv, MessagesFit
<1>16. RowsNamed' BY <1>3 DEF LogInv, RowsNamed
<1>17. NeverCompacted' BY <1>3 DEF NeverCompacted
<1>18. MemoryMirrors' BY <1>3 DEF MemoryMirrors
<1>19. EvictedWasAnswered' BY <1>3 DEF LogInv, EvictedWasAnswered
<1>20. LabelsKnown'
  <2>1. Evictable(retained) # {} BY <1>3 DEF Omittable
  <2>2. Known(retained) BY <1>3, <2>1 DEF LogInv, LabelsKnown
  <2>3. Known(new) BY <1>9, <2>2 DEF Known, Copies
  <2>4. Len(refs') < Len(new)
    <3>1. \A i \in DOMAIN retained : Shaped(retained[i]) /\ retained[i].id.turn <= turn - 1
      BY <1>8 DEF Fits, Stands
    <3>2. PICK i \in DOMAIN retained : retained[i].id # NoCall /\ retained[i].id \notin Evictable(retained)
      BY <1>5, <1>7, <2>1, <3>1, ConsumerStays
    <3>3. i \notin S BY <1>1, <3>2
    <3>4. Len(part) < Len(new) BY <1>2, <1>9, <1>10, <3>2, <3>3, PickShorter
    <3>5. Len(refs') = Len(part)
      <4>1. DOMAIN refs' = DOMAIN part BY <1>3 DEF Overwritten
      <4> QED BY <1>11, <1>13, <4>1, LenProperties
    <3> QED BY <3>4, <3>5
  <2> QED BY <1>3, <2>3, <2>4 DEF LabelsKnown
<1> QED BY <1>14, <1>15, <1>16, <1>17, <1>18, <1>19, <1>20 DEF LogInv

\* A batch of tools runs, or is denied.
LEMMA RunToolKept == LogInv /\ RunTool => LogInv'
<1> SUFFICES ASSUME LogInv, RunTool PROVE LogInv' OBVIOUS
<1>1. PICK status \in {"ok", "denied"} :
         /\ batch' = <<[id |-> [turn |-> IF status = "ok" THEN turn ELSE 0, call |-> 1],
                        tools |-> <<status>>]>>
         /\ pc' = IF status = "ok" THEN "open" ELSE "denied"
  BY DEF RunTool
<1>2. /\ pc = "open"
      /\ UNCHANGED <<turn, rows, refs, mem, retained, optimized, checkpoint, resumes, cause, evicted>>
  BY DEF RunTool
<1>3. "open" \in InTurn /\ "denied" \in InTurn BY DEF InTurn
<1>4. pc' \in {"open", "denied"} BY <1>1
<1>5. Past' = Past BY <1>2, <1>3, <1>4 DEF Past
<1>6. turn \in Nat /\ turn # 0 BY <1>2, <1>3, LogAssumption DEF LogInv, Typed
<1>7. PICK t \in Nat : t = IF status = "ok" THEN turn ELSE 0 BY <1>6
<1>8. PICK one : one = [id |-> [turn |-> t, call |-> 1], tools |-> <<status>>] OBVIOUS
<1>9. one \in BatchSet /\ one.id.turn \in {0, turn} /\ one.id.call = 1
  <2>1. <<status>> \in Seq(ToolStatuses) BY DEF ToolStatuses
  <2> QED BY <1>7, <1>8, <2>1 DEF BatchSet, CallId
<1>10. batch' = <<one>> BY <1>1, <1>7, <1>8
<1>11. batch' \in Seq(BatchSet) /\ Len(batch') = 1 /\ BatchNamed(batch', turn)
  <2>1. DOMAIN <<one>> = {1} /\ <<one>>[1] = one /\ Len(<<one>>) = 1 OBVIOUS
  <2> QED BY <1>6, <1>9, <1>10, <2>1 DEF BatchNamed
<1>12. Typed'
  <2>1. Typed BY DEF LogInv
  <2> QED BY <1>2, <1>4, <1>6, <1>11, <2>1 DEF Typed
<1>13. MessagesFit' BY <1>2, <1>3, <1>4, <1>5 DEF LogInv, MessagesFit
<1>14. RowsNamed' BY <1>2, <1>11 DEF LogInv, RowsNamed
<1>15. NeverCompacted' BY <1>2, <1>4 DEF LogInv, NeverCompacted
<1>16. MemoryMirrors' BY <1>2, <1>4 DEF LogInv, MemoryMirrors
<1>17. EvictedWasAnswered' BY <1>2 DEF LogInv, EvictedWasAnswered
<1>18. LabelsKnown' BY <1>2, <1>4 DEF LogInv, LabelsKnown
<1> QED BY <1>12, <1>13, <1>14, <1>15, <1>16, <1>17, <1>18 DEF LogInv

\* /compress
LEMMA ManualCompressKept == LogInv /\ ManualCompress => LogInv'
<1> SUFFICES ASSUME LogInv, ManualCompress PROVE LogInv' OBVIOUS
<1>1. PICK log, new, ev : /\ log = rows \o Grouped(SummaryRows(MaxTurns + turn))
                          /\ new = Compress(mem, Len(log))
                          /\ ev = evicted \cup {mem[i].row : i \in Gone(mem)}
  OBVIOUS
<1>2. /\ pc = "idle" /\ Evictable(mem) # {} /\ rows' = log
      /\ \/ /\ KnowsRows(mem) /\ refs' = Overwritten(new, Len(log))
            /\ mem' = Synced(new, refs') /\ evicted' = ev /\ pc' = "idle"
         \/ /\ refs' = Appended(refs, Len(log)) /\ pc' = "refused"
            /\ mem' = mem /\ evicted' = evicted
      /\ cause' = cause \cup {"compaction"}
      /\ UNCHANGED <<turn, retained, optimized, batch, checkpoint, resumes>>
  BY <1>1 DEF ManualCompress
<1>3. pc \notin InTurn /\ pc' \notin InTurn /\ pc' \in {"idle", "refused"} BY <1>2 DEF InTurn
<1>4. turn \in Nat /\ MaxTurns + turn \in Nat BY LogAssumption DEF LogInv, Typed
<1>5. Past = turn /\ Past' = turn BY <1>2, <1>3 DEF Past
<1>6. mem \in Seq(MessageSet) /\ refs \in Seq(Nat) BY DEF LogInv, Typed
<1>7. Fits(mem, rows, turn, turn) BY <1>5 DEF LogInv, MessagesFit
<1>8. /\ log \in Seq(RowSet) /\ Extends(log, rows) /\ LogNamed(log)
      /\ Sound(refs, log) /\ Sound(checkpoint, log)
  BY <1>1, <1>4, SummaryLog
<1>9. /\ refs' \in Seq(Nat) /\ Sound(refs', log)
      /\ mem' \in Seq(MessageSet) /\ Fits(mem', log, turn, turn)
      /\ evicted' \subseteq 0 .. Len(log) /\ EvictedAnswered(log, evicted')
  <2>1. CASE /\ KnowsRows(mem) /\ refs' = Overwritten(new, Len(log))
             /\ mem' = Synced(new, refs') /\ evicted' = ev
    <3>1. /\ new \in Seq(MessageSet) /\ Fits(new, log, turn, turn)
          /\ Overwritten(new, Len(log)) \in Seq(Nat) /\ Sound(Overwritten(new, Len(log)), log)
          /\ ev \subseteq 0 .. Len(log) /\ EvictedAnswered(log, ev)
      <4>1. PICK n \in Nat : n = MaxTurns + turn BY <1>4
      <4>2. log = rows \o Grouped(SummaryRows(n)) BY <1>1, <4>1
      <4>3. Evictable(mem) # {} /\ KnowsRows(mem) BY <1>2, <2>1
      <4> QED BY <1>1, <1>4, <1>6, <1>7, <4>2, <4>3, CompressionKept
    <3>2. refs' \in Seq(Nat) /\ Sound(refs', log) BY <2>1, <3>1
    <3>3. mem' \in Seq(MessageSet) /\ Fits(mem', log, turn, turn)
      BY <1>8, <2>1, <3>1, <3>2, SyncedFits
    <3> QED BY <2>1, <3>1, <3>2, <3>3
  <2>2. CASE refs' = Appended(refs, Len(log)) /\ mem' = mem /\ evicted' = evicted
    <3>1. refs' \in Seq(Nat) /\ Sound(refs', log) BY <1>6, <1>8, <2>2, AppendedSound
    <3>2. Fits(mem, log, turn, turn) BY <1>4, <1>6, <1>7, <1>8, FitsStays
    <3>3. EvictedWasAnswered' BY <1>2, <1>8, <2>2, EvictedStays DEF LogInv
    <3>4. EvictedAnswered(log, evicted)
      BY <1>2, <2>2, <3>3 DEF EvictedWasAnswered, EvictedAnswered, AnswerAfter
    <3>5. ASSUME NEW i \in evicted PROVE i \in 0 .. Len(log)
      <4>1. i \in 0 .. Len(rows) BY DEF LogInv, Typed
      <4> QED BY <1>8, <4>1 DEF Extends
    <3> QED BY <1>6, <2>2, <3>1, <3>2, <3>4, <3>5
  <2> QED BY <1>2, <2>1, <2>2
<1>10. Typed'
  <2>1. cause' \subseteq Causes BY <1>2 DEF LogInv, Typed, Causes
  <2>2. Typed BY DEF LogInv
  <2> QED BY <1>2, <1>3, <1>8, <1>9, <2>1, <2>2 DEF Typed
<1>11. MessagesFit' BY <1>2, <1>3, <1>5, <1>8, <1>9 DEF MessagesFit
<1>12. RowsNamed' BY <1>2, <1>3, <1>8 DEF LogInv, RowsNamed
<1>13. NeverCompacted' BY <1>2 DEF NeverCompacted
<1>14. MemoryMirrors' BY <1>2 DEF MemoryMirrors
<1>15. EvictedWasAnswered'
  <2>1. \A i \in evicted' \ {0} : log[i].id.turn # 0 =>
           \E j \in i + 1 .. Len(log) : log[j].kind = "assistant_output"
    BY <1>9 DEF EvictedAnswered, AnswerAfter
  <2> QED BY <1>2, <2>1 DEF EvictedWasAnswered
<1>16. LabelsKnown'
  <2>1. CASE KnowsRows(mem) /\ refs' = Overwritten(new, Len(log)) /\ mem' = Synced(new, refs')
    <3>1. PICK n \in Nat : n = MaxTurns + turn BY <1>4
    <3>2. log = rows \o Grouped(SummaryRows(n)) BY <1>1, <3>1
    <3>3. Evictable(mem) # {} /\ KnowsRows(mem) BY <1>2, <2>1
    <3>4. new \in Seq(MessageSet) BY <1>1, <1>4, <1>6, <1>7, <3>2, <3>3, CompressionKept
    <3>5. PICK projection : projection = refs' OBVIOUS
    <3>6. Len(projection) = Len(new)
      <4>1. DOMAIN projection = DOMAIN new BY <2>1, <3>5 DEF Overwritten
      <4> QED BY <1>9, <3>4, <3>5, <4>1, LenProperties
    <3>7. Known(Synced(new, projection)) BY <1>9, <3>4, <3>5, <3>6, SyncedKnown
    <3>8. Known(mem') BY <2>1, <3>5, <3>7
    <3> QED BY <1>2, <1>3, <3>8 DEF LabelsKnown, InTurn
  <2>2. CASE pc' = "refused" BY <2>2 DEF LabelsKnown
  <2> QED BY <1>2, <2>1, <2>2
<1> QED BY <1>10, <1>11, <1>12, <1>13, <1>14, <1>15, <1>16 DEF LogInv

\* The checkpoint freezes the projection.
LEMMA TerminalizeKept == LogInv /\ Terminalize => LogInv'
<1> SUFFICES ASSUME LogInv, Terminalize PROVE LogInv' OBVIOUS
<1>1. /\ pc \in {"idle", "refused"} /\ checkpoint' = refs /\ pc' = "closed"
      /\ UNCHANGED <<turn, rows, refs, mem, retained, optimized, batch, resumes, cause, evicted>>
  BY DEF Terminalize
<1>2. pc \notin InTurn /\ pc' \notin InTurn BY <1>1 DEF InTurn
<1>3. Past' = Past BY <1>1, <1>2 DEF Past
<1>4. Typed' BY <1>1, <1>2 DEF LogInv, Typed
<1>5. MessagesFit' BY <1>1, <1>2, <1>3 DEF LogInv, MessagesFit
<1>6. RowsNamed' BY <1>1 DEF LogInv, RowsNamed
<1>7. NeverCompacted' BY <1>1, <1>3 DEF LogInv, NeverCompacted
<1>8. MemoryMirrors' BY <1>1 DEF MemoryMirrors
<1>9. EvictedWasAnswered' BY <1>1 DEF LogInv, EvictedWasAnswered
<1>10. LabelsKnown' BY <1>1 DEF LabelsKnown
<1> QED BY <1>4, <1>5, <1>6, <1>7, <1>8, <1>9, <1>10 DEF LogInv

\* The turn's input is of the turn.
LEMMA LastIsInput ==
  ASSUME NEW log \in Seq(RowSet), NEW n \in Nat, InputLast(log, n)
  PROVE  Inputs(log, n)
<1>1. PICK l \in Nat : l = Len(log) BY LenProperties
<1>2. ASSUME NEW i \in DOMAIN log, log[i].kind = "user_input" PROVE log[i].turn <= n
  <2>1. i \in 1 .. l BY <1>1, LenProperties
  <2>2. CASE i = l BY <1>1, <2>2 DEF InputLast
  <2>3. CASE i # l
    <3>1. i \in 1 .. Len(log) - 1 BY <1>1, <2>1, <2>3
    <3>2. log[i].turn < n BY <1>2, <3>1 DEF InputLast
    <3>3. log[i] \in RowSet BY ElementOfSeq, LenProperties
    <3>4. log[i].turn \in Nat BY <3>3 DEF RowSet
    <3> QED BY <3>2, <3>4
  <2> QED BY <2>2, <2>3
<1> QED BY <1>2 DEF Inputs

\* The message of one row.
LEMMA OneMessage ==
  ASSUME NEW log \in Seq(RowSet), NEW u \in DOMAIN log
  PROVE  NewFor(Messages(log, u, u), log, u, 1)
<1>1. PICK l \in Nat : l = Len(log) BY LenProperties
<1>2. u \in 1 .. l BY <1>1, LenProperties
<1>3. PICK x \in Nat : x = 1 OBVIOUS
<1>4. u \in Nat /\ u # 0 /\ u + x <= Len(log) + 1 /\ u = u + x - 1 BY <1>1, <1>2, <1>3
<1>5. NewFor(Messages(log, u, u), log, u, x) BY <1>4, MessagesAre
<1> QED BY <1>3, <1>5

LEMMA OneFresh ==
  ASSUME NEW log \in Seq(RowSet), NEW u \in DOMAIN log, log[u].id.turn = 0,
         log[u].kind = "context_summary" => log[u].id = NoCall,
         NEW log2 \in Seq(RowSet), Extends(log2, log), NEW b \in Nat, NEW c \in Nat
  PROVE  /\ Messages(log, u, u) \in Seq(MessageSet)
         /\ \A k \in DOMAIN Messages(log, u, u) : Fresh(Messages(log, u, u)[k], log2, b, c)
<1>1. PICK s : s = Messages(log, u, u) OBVIOUS
<1>2. NewFor(s, log, u, 1) BY <1>1, OneMessage
<1>3. u \in 1 .. Len(log) /\ log2[u] = log[u] /\ u <= Len(log2) BY DEF Extends
<1>4. s \in Seq(MessageSet) /\ DOMAIN s = 1 .. 1 BY <1>2 DEF NewFor
<1>5. /\ s[1].row = u /\ s[1].id = log[u].id /\ s[1].label = 0 /\ s[1].consumed = {}
      /\ s[1].kind = log[u].kind
  <2>1. 1 \in 1 .. 1 /\ u + 1 - 1 = u BY <1>3
  <2>2. /\ s[1].row = u + 1 - 1 /\ s[1].id = log[u + 1 - 1].id
        /\ s[1].label = 0 /\ s[1].consumed = {} /\ s[1].kind = log[u + 1 - 1].kind
    BY <1>2, <2>1 DEF NewFor
  <2> QED BY <2>1, <2>2
<1>6. Fresh(s[1], log2, b, c) BY <1>3, <1>5 DEF Fresh
<1>7. \A k \in DOMAIN s : k = 1 BY <1>4
<1> QED BY <1>1, <1>4, <1>6, <1>7

\* A message that stands for no row.
LEMMA RowlessFresh ==
  ASSUME NEW kind \in Kinds, NEW n \in Nat, NEW id \in CallId, NEW log \in Seq(RowSet),
         NEW b \in Nat, NEW c \in Nat, id.turn <= b, id.turn # 0 => id.turn > c,
         kind # "context_summary"
  PROVE  Message(kind, n, id, 0) \in MessageSet /\ Fresh(Message(kind, n, id, 0), log, b, c)
<1>1. PICK m : m = Message(kind, n, id, 0) OBVIOUS
<1>2. /\ m \in MessageSet /\ m.id = id /\ m.row = 0 /\ m.label = 0 /\ m.consumed = {}
      /\ m.kind = kind
  <2>1. 0 \in Nat OBVIOUS
  <2>2. LET o == Message(kind, n, id, 0)
        IN  /\ o \in MessageSet /\ o.kind = kind /\ o.turn = n /\ o.id = id /\ o.row = 0
            /\ o.label = 0 /\ o.consumed = {}
    BY <2>1, MessageFields
  <2> QED BY <1>1, <2>2
<1>3. Len(log) \in Nat BY LenProperties
<1> QED BY <1>1, <1>2, <1>3 DEF Fresh

\* What memory gets from a turn that the log does not get.
LEMMA UnwrittenFits ==
  ASSUME NEW ms \in Seq(MessageSet), NEW log \in Seq(RowSet), NEW n \in Nat, n # 0,
         Fits(ms, log, n - 1, n - 1), NEW u \in DOMAIN log, log[u].id.turn = 0,
         log[u].kind = "user_input", NEW tools \in Seq(RowSet),
         \A i \in DOMAIN tools : tools[i].id.turn \in {0, n} /\ tools[i].kind # "context_summary",
         NEW said, said = [k \in DOMAIN tools |-> Message(tools[k].kind, n, tools[k].id, 0)],
         NEW end, end = <<Message("failure_fact", n, NoCall, 0)>>
  PROVE  LET new == ms \o Messages(log, u, u) \o said \o end
         IN  new \in Seq(MessageSet) /\ Fits(new, log, n, n) /\ Continues(new, ms) /\ LastNew(new)
<1>1. n - 1 \in Nat /\ n - 1 <= n /\ n > n - 1 OBVIOUS
<1>2. Extends(log, log) BY ExtendsItself
<1>3. Fits(ms, log, n, n - 1) BY <1>1, <1>2, FitsStays
<1>4. PICK s : s = Messages(log, u, u) OBVIOUS
<1>5. s \in Seq(MessageSet) /\ \A k \in DOMAIN s : Fresh(s[k], log, n, n - 1)
  BY <1>1, <1>2, <1>4, OneFresh
<1>6. PICK t \in Nat : t = Len(tools) BY LenProperties
<1>7. DOMAIN tools = 1 .. t BY <1>6, LenProperties
<1> DEFINE F(k) == Message(tools[k].kind, n, tools[k].id, 0)
<1>8. said = [k \in 1 .. t |-> F(k)] BY <1>7
<1>9. ASSUME NEW k \in 1 .. t PROVE F(k) \in MessageSet /\ Fresh(F(k), log, n, n - 1)
  <2>1. PICK r : r = tools[k] OBVIOUS
  <2>2. r \in RowSet BY <1>6, <2>1, ElementOfSeq
  <2>3. /\ r.kind \in Kinds /\ r.id \in CallId /\ r.id.turn \in {0, n}
        /\ r.kind # "context_summary"
    BY <1>7, <2>1, <2>2 DEF RowSet
  <2>4. r.id.turn <= n /\ (r.id.turn # 0 => r.id.turn > n - 1) BY <1>1, <2>3
  <2>5. F(k) = Message(r.kind, n, r.id, 0) BY <2>1
  <2> HIDE DEF F
  <2> QED BY <1>1, <2>3, <2>4, <2>5, RowlessFresh
<1> HIDE DEF F
<1>10. said \in Seq(MessageSet) /\ \A k \in DOMAIN said : Fresh(said[k], log, n, n - 1)
  <2>1. t \in Nat /\ \A k \in 1 .. t : F(k) \in MessageSet BY <1>6, <1>9
  <2>2. DOMAIN said = 1 .. t /\ \A k \in 1 .. t : said[k] = F(k) BY <1>8
  <2>3. said = [k \in 1 .. t |-> said[k]] BY <1>8, <2>2
  <2>4. \A k \in 1 .. t : said[k] \in MessageSet BY <2>1, <2>2
  <2>5. said \in Seq(MessageSet) BY <2>1, <2>3, <2>4, SeqIs, Zenon
  <2> QED BY <1>9, <2>2, <2>5
<1>11. end \in Seq(MessageSet) /\ \A k \in DOMAIN end : Fresh(end[k], log, n, n - 1)
  <2>1. PICK m : m = Message("failure_fact", n, NoCall, 0) OBVIOUS
  <2>2. "failure_fact" \in Kinds BY DEF Kinds
  <2>3. m \in MessageSet /\ Fresh(m, log, n, n - 1)
    BY <1>1, <2>1, <2>2, NoCallIs, RowlessFresh
  <2>4. end = <<m>> BY <2>1
  <2> QED BY <2>3, <2>4
<1>12. PICK v : v = ms \o s OBVIOUS
<1>13. v \in Seq(MessageSet) /\ Fits(v, log, n, n - 1) BY <1>1, <1>3, <1>5, <1>12, ExtendedFits
<1>14. PICK w : w = v \o said OBVIOUS
<1>15. w \in Seq(MessageSet) /\ Fits(w, log, n, n - 1) BY <1>1, <1>10, <1>13, <1>14, ExtendedFits
<1>16. PICK z : z = w \o end OBVIOUS
<1>17. z \in Seq(MessageSet) /\ Fits(z, log, n, n - 1) BY <1>1, <1>11, <1>15, <1>16, ExtendedFits
<1>18. Fits(z, log, n, n) BY <1>1, <1>2, <1>17, FitsStays
<1>19. Continues(z, ms)
  <2>1. \A k \in DOMAIN s : s[k].label = 0 BY <1>5 DEF Fresh
  <2>2. \A k \in DOMAIN said : said[k].label = 0 BY <1>10 DEF Fresh
  <2>3. \A k \in DOMAIN end : end[k].label = 0 BY <1>11 DEF Fresh
  <2>4. Continues(v, ms) BY <1>5, <1>12, <2>1, ContinuesItself, ContinuesJoin
  <2>5. Continues(w, ms) BY <1>10, <1>13, <1>14, <2>2, <2>4, ContinuesJoin
  <2> QED BY <1>11, <1>15, <1>16, <2>3, <2>5, ContinuesJoin
<1>20. LastNew(z)
  <2>1. PICK m : m = Message("failure_fact", n, NoCall, 0) OBVIOUS
  <2>2. end = <<m>> /\ Len(end) = 1 /\ end[1] = m BY <2>1
  <2>3. m.label = 0 /\ m.kind # "context_summary" /\ m.id = NoCall BY <2>1 DEF Message
  <2> QED BY <1>11, <1>15, <1>16, <2>2, <2>3, JoinedLast
<1> QED BY <1>4, <1>12, <1>14, <1>16, <1>17, <1>18, <1>19, <1>20

\* A compression in the turn fails.
LEMMA AbortKept ==
  ASSUME LogInv, AbortTurn
  PROVE  LogInv' /\ \E ms : LastNew(ms) /\ mem' = Synced(ms, refs)
<1>1. /\ pc = "open" /\ pc' = "idle" /\ cause' = cause \cup {"abort"} /\ Evictable(retained) # {}
      /\ UNCHANGED <<turn, rows, refs, retained, optimized, batch, checkpoint, resumes, evicted>>
  BY DEF AbortTurn, Unwritten
<1>2. pc \in InTurn /\ pc' \notin InTurn BY <1>1 DEF InTurn
<1>3. Past = turn - 1 /\ Past' = turn BY <1>1, <1>2 DEF Past
<1>4. /\ turn \in Nat /\ turn # 0 /\ turn \in 0 .. MaxTurns
      /\ rows \in Seq(RowSet) /\ refs \in Seq(Nat) /\ retained \in Seq(MessageSet)
      /\ batch \in Seq(BatchSet)
  BY <1>2, LogAssumption DEF LogInv, Typed
<1>5. Fits(retained, rows, turn - 1, turn - 1) /\ Sound(refs, rows)
  BY <1>2, <1>3 DEF LogInv, MessagesFit
<1>6. PICK u, tools : u = UserRow /\ tools = ToolLoopRows(turn, batch) OBVIOUS
<1>7. u \in DOMAIN rows /\ rows[u].id.turn = 0 /\ rows[u].kind = "user_input"
  BY <1>1, <1>6, UserRowIs
<1>8. /\ tools \in Seq(RowSet)
      /\ \A i \in DOMAIN tools : tools[i].id.turn \in {0, turn} /\ tools[i].kind # "context_summary"
  <2>1. BatchNamed(batch, turn) BY DEF LogInv, RowsNamed
  <2> QED BY <1>4, <1>6, <2>1, ToolRows
<1>9. PICK said, end : /\ said = [k \in DOMAIN tools |-> Message(tools[k].kind, turn, tools[k].id, 0)]
                       /\ end = <<Message("failure_fact", turn, NoCall, 0)>>
  OBVIOUS
<1>10. PICK new : new = retained \o Messages(rows, u, u) \o said \o end OBVIOUS
<1>11. /\ new \in Seq(MessageSet) /\ Fits(new, rows, turn, turn) /\ Continues(new, retained)
       /\ LastNew(new)
  BY <1>4, <1>5, <1>7, <1>8, <1>9, <1>10, UnwrittenFits
<1>12. mem' = Synced(new, refs) BY <1>6, <1>9, <1>10 DEF AbortTurn, Unwritten
<1>13. mem' \in Seq(MessageSet) /\ Fits(mem', rows, turn, turn)
  BY <1>4, <1>5, <1>11, <1>12, SyncedFits
<1>14. Typed'
  <2>1. cause' \subseteq Causes BY <1>1 DEF LogInv, Typed, Causes
  <2>2. Typed BY DEF LogInv
  <2> QED BY <1>1, <1>2, <1>13, <2>1, <2>2 DEF Typed
<1>15. MessagesFit' BY <1>1, <1>2, <1>3, <1>13 DEF LogInv, MessagesFit
<1>16. RowsNamed' BY <1>1 DEF LogInv, RowsNamed
<1>17. NeverCompacted'
  <2>1. SUFFICES ASSUME "compaction" \notin cause
                 PROVE  refs = Identity(Len(rows)) /\ ~optimized /\ Inputs(rows, turn)
    BY <1>1, <1>3, <2>1 DEF NeverCompacted
  <2>2. refs = Identity(Len(rows)) /\ ~optimized /\ InputLast(rows, turn)
    BY <1>1, <2>1 DEF LogInv, NeverCompacted
  <2> QED BY <1>4, <2>2, LastIsInput
<1>18. MemoryMirrors' BY <1>1 DEF MemoryMirrors
<1>19. EvictedWasAnswered' BY <1>1 DEF LogInv, EvictedWasAnswered
<1>20. LabelsKnown'
  <2>1. Known(retained) BY <1>1 DEF LogInv, LabelsKnown
  <2>2. Known(Synced(new, refs)) \/ Labels(Synced(new, refs)) # refs
    <3>1. CASE optimized
      <4>1. Len(refs) < Len(retained) BY <1>1, <3>1 DEF LogInv, LabelsKnown
      <4> QED BY <1>4, <1>5, <1>11, <2>1, <4>1, LongDriftSeen
    <3>2. CASE ~optimized
      <4>1. PICK v : v = Len(rows) OBVIOUS
      <4>2. v \in ToSet(refs) /\ Apart(retained, v)
        BY <1>1, <3>2, <4>1 DEF LogInv, LabelsKnown
      <4>3. v # 0
        <5>1. PICK k \in DOMAIN refs : refs[k] = v BY <4>2 DEF ToSet
        <5> QED BY <1>5, <5>1 DEF Sound
      <4>4. Apart(new, v) BY <1>11, <4>2, <4>3 DEF Apart, Continues
      <4> QED BY <1>4, <1>5, <1>11, <4>2, <4>4, DriftSeen
    <3> QED BY <3>1, <3>2
  <2>3. Known(mem') \/ Labels(mem') # refs' BY <1>1, <1>12, <2>2
  <2> QED BY <1>1, <2>3 DEF LabelsKnown, Aligned
<1>21. LogInv' BY <1>14, <1>15, <1>16, <1>17, <1>18, <1>19, <1>20 DEF LogInv
<1> QED BY <1>11, <1>12, <1>21

\* However much of the turn was written, the fact comes behind none or all of its tools.
Continued(log, written, x) ==
    log \o written \o (IF written # <<>> /\ Last(written).kind = "cancellation_fact"
                       THEN <<>> ELSE x)

NoFact(w) ==
    /\ w \in Seq(RowSet)
    /\ \A i \in DOMAIN w : w[i].kind # "cancellation_fact"
OneFact(x) == x \in Seq(RowSet) /\ Len(x) = 1 /\ x[1].kind = "cancellation_fact"

Closing(log, w, x) == log \o w \o x

LEMMA InterruptRows ==
  ASSUME NEW log \in Seq(RowSet), NEW w, NoFact(w), NEW x, OneFact(x),
         NEW written, written = w \/ written = w \o x,
         NEW log2, log2 = Continued(log, written, x)
  PROVE  log2 = Closing(log, w, x)
<1>0. /\ w \in Seq(RowSet) /\ \A i \in DOMAIN w : w[i].kind # "cancellation_fact"
      /\ x \in Seq(RowSet) /\ Len(x) = 1 /\ x[1].kind = "cancellation_fact"
  BY DEF NoFact, OneFact
<1>1. CASE written = w /\ w = <<>> BY <1>1 DEF Continued, Closing
<1>2. CASE written = w /\ w # <<>>
  <2>1. Len(w) \in DOMAIN w
    <3>1. DOMAIN w = 1 .. Len(w) /\ Len(w) \in Nat \ {0} BY <1>0, <1>2, EmptySeq, LenProperties
    <3> QED BY <3>1
  <2>2. Last(written).kind # "cancellation_fact" BY <1>0, <1>2, <2>1 DEF Last
  <2> QED BY <1>2, <2>2 DEF Continued, Closing
<1>3. CASE written = w \o x
  <2>1. PICK u, n : u = w \o x /\ n = Len(w) OBVIOUS
  <2>2. Joined(w, x, u, n) /\ Len(u) = n + 1
    <3>1. Joined(w, x, u, n) BY <1>0, <2>1, ConcatPlaces
    <3>2. Len(w \o x) = Len(w) + Len(x) BY <1>0, ConcatProperties
    <3> QED BY <1>0, <2>1, <3>1, <3>2
  <2>3. 1 \in DOMAIN x BY <1>0, LenProperties
  <2>4. u[n + 1] = x[1] /\ n + 1 \in DOMAIN u BY <2>2, <2>3 DEF Joined
  <2>5. u # <<>> BY <2>4
  <2>6. Last(u).kind = "cancellation_fact" BY <1>0, <2>2, <2>4 DEF Last
  <2>7. log2 = log \o u \o <<>> BY <1>3, <2>1, <2>5, <2>6 DEF Continued
  <2>8. u \in Seq(RowSet) /\ log \o u \in Seq(RowSet) BY <1>0, <2>1, ConcatProperties
  <2>9. log2 = log \o u BY <2>7, <2>8, ConcatEmptySeq
  <2>10. log \o u = log \o w \o x
    <3>1. w \in Seq(RowSet) /\ x \in Seq(RowSet) BY <1>0
    <3>2. (log \o w) \o x = log \o (w \o x) BY <3>1, ConcatAssociative
    <3> QED BY <2>1, <3>2
  <2> QED BY <2>9, <2>10 DEF Closing
<1> QED BY <1>1, <1>2, <1>3

\* What an interrupted executor may have written before any cancellation fact: nothing, its
\* tools, or its tools and another closing row.
Before ==
    LET tools == ToolLoopRows(turn, batch)
    IN {<<>>, tools, tools \o Grouped(FinalRows(turn)),
        tools \o Grouped(FactRows(turn, "failure_fact"))}

LEMMA WrittenBefore ==
  ASSUME NEW written \in Written
  PROVE  \E w \in Before : written = w \/ written = w \o Grouped(FactRows(turn, "cancellation_fact"))
<1>1. PICK tools : tools = ToolLoopRows(turn, batch) OBVIOUS
<1>2. CASE written \in {<<>>, tools} BY <1>1, <1>2 DEF Before
<1>3. CASE written \notin {<<>>, tools}
  <2>1. PICK closing : /\ written = tools \o Grouped(closing)
                       /\ \/ closing = FinalRows(turn)
                          \/ \E kind \in Facts : closing = FactRows(turn, kind)
    BY <1>1, <1>3 DEF Written
  <2>2. CASE closing = FinalRows(turn) BY <1>1, <2>1, <2>2 DEF Before
  <2>3. CASE closing = FactRows(turn, "failure_fact") BY <1>1, <2>1, <2>3 DEF Before
  <2>4. CASE closing = FactRows(turn, "cancellation_fact") BY <1>1, <2>1, <2>4 DEF Before
  <2> QED BY <2>1, <2>2, <2>3, <2>4 DEF Facts
<1> QED BY <1>2, <1>3

\* None of it is a cancellation fact, and its rows are named for the turn.
LEMMA BeforeNamed ==
  ASSUME LogInv, pc \in InTurn, NEW w \in Before
  PROVE  NoFact(w) /\ LogNamed(w) /\ Inputs(w, turn)
<1>1. turn \in Nat /\ turn # 0 /\ turn \in 0 .. MaxTurns /\ turn <= MaxTurns
  BY LogAssumption DEF LogInv, Typed
<1>2. PICK tools : tools = ToolLoopRows(turn, batch) OBVIOUS
<1>3. NoFact(tools) /\ LogNamed(tools) /\ Inputs(tools, turn)
  <2>1. batch \in Seq(BatchSet) /\ BatchNamed(batch, turn) BY DEF LogInv, Typed, RowsNamed
  <2>2. /\ tools \in Seq(RowSet) /\ LogNamed(tools)
        /\ \A i \in DOMAIN tools : tools[i].kind \in {"assistant_tool_call", "tool_result"}
    BY <1>1, <1>2, <2>1, ToolRows
  <2> QED BY <2>2 DEF NoFact, Inputs
<1>4. CASE w = <<>> BY <1>4 DEF NoFact, LogNamed, Inputs
<1>5. CASE w = tools BY <1>3, <1>5
<1>6. ASSUME NEW kind \in {"assistant_output", "failure_fact"},
             NEW id, id = IF kind = "assistant_output" THEN Final(turn) ELSE NoCall,
             NEW y, y = Grouped(<<Row(turn, kind, id, 0, "none")>>), w = tools \o y
      PROVE  NoFact(w) /\ LogNamed(w) /\ Inputs(w, turn)
  <2>1. kind \in Kinds /\ kind \notin {"user_input", "context_summary", "cancellation_fact"}
    BY DEF Kinds
  <2>2. id \in CallId /\ (id.turn # 0 => id.turn = turn)
    BY <1>1, <1>6, NoCallIs DEF CallId, Final
  <2>3. /\ y \in Seq(RowSet) /\ DOMAIN y = {1} /\ y[1].kind = kind
        /\ LogNamed(y) /\ Inputs(y, turn)
    BY <1>1, <1>6, <2>1, <2>2, SingleRow
  <2>4. tools \in Seq(RowSet) /\ \A i \in DOMAIN tools : tools[i].kind # "cancellation_fact"
    BY <1>3 DEF NoFact
  <2>5. w \in Seq(RowSet) /\ Joined(tools, y, w, Len(tools))
    BY <1>6, <2>3, <2>4, ConcatProperties, ConcatPlaces
  <2>6. ASSUME NEW i \in DOMAIN w PROVE w[i].kind # "cancellation_fact"
    BY <2>1, <2>3, <2>4, <2>5 DEF Joined
  <2>7. LogNamed(w) BY <1>3, <1>6, <2>3, <2>4, NamedGrows
  <2>8. Inputs(w, turn) BY <1>3, <1>6, <2>3, <2>4, InputsGrow
  <2> QED BY <2>5, <2>6, <2>7, <2>8 DEF NoFact
<1>7. CASE w = tools \o Grouped(FinalRows(turn))
  <2>1. PICK kind, id : kind = "assistant_output" /\ id = Final(turn) OBVIOUS
  <2>2. FinalRows(turn) = <<Row(turn, kind, id, 0, "none")>> BY <2>1 DEF FinalRows
  <2> QED BY <1>6, <1>7, <2>1, <2>2
<1>8. CASE w = tools \o Grouped(FactRows(turn, "failure_fact"))
  <2>1. PICK kind, id : kind = "failure_fact" /\ id = NoCall OBVIOUS
  <2>2. FactRows(turn, "failure_fact") = <<Row(turn, kind, id, 0, "none")>>
    BY <2>1 DEF FactRows
  <2> QED BY <1>6, <1>8, <2>1, <2>2
<1> QED BY <1>2, <1>4, <1>5, <1>7, <1>8 DEF Before

\* The messages of an interrupted turn: its input and the fact.
LEMMA InterruptedFits ==
  ASSUME NEW ms \in Seq(MessageSet), NEW log \in Seq(RowSet), NEW n \in Nat, n # 0,
         Fits(ms, log, n - 1, n - 1), NEW log2 \in Seq(RowSet), Extends(log2, log),
         NEW input \in Seq(MessageSet), \A k \in DOMAIN input : Fresh(input[k], log2, n, n - 1),
         NEW z \in DOMAIN log2, log2[z].id = NoCall, log2[z].kind # "context_summary",
         NEW new, new = ms \o input \o Messages(log2, z, z)
  PROVE  new \in Seq(MessageSet) /\ Fits(new, log2, n, n) /\ Continues(new, ms) /\ LastNew(new)
<1>1. PICK c \in Nat : c = n - 1 /\ c <= n /\ n <= n
  <2>1. n - 1 \in Nat /\ n - 1 <= n OBVIOUS
  <2> QED BY <2>1
<1>2. Fits(ms, log2, n, c) BY <1>1, FitsStays
<1>3. PICK v : v = ms \o input OBVIOUS
<1>4. v \in Seq(MessageSet) /\ Fits(v, log2, n, c) BY <1>1, <1>2, <1>3, ExtendedFits
<1>5. PICK s : s = Messages(log2, z, z) OBVIOUS
<1>6. Extends(log2, log2) BY ExtendsItself
<1>7. s \in Seq(MessageSet) /\ \A k \in DOMAIN s : Fresh(s[k], log2, n, c)
  BY <1>1, <1>5, <1>6, NoCallIs, OneFresh
<1>8. PICK w : w = v \o s OBVIOUS
<1>9. w \in Seq(MessageSet) /\ Fits(w, log2, n, c) BY <1>4, <1>7, <1>8, ExtendedFits
<1>10. Fits(w, log2, n, n) BY <1>1, <1>6, <1>9, FitsStays
<1>11. Continues(w, ms)
  <2>1. \A k \in DOMAIN input : input[k].label = 0 BY DEF Fresh
  <2>2. \A k \in DOMAIN s : s[k].label = 0 BY <1>7 DEF Fresh
  <2>3. Continues(v, ms) BY <1>3, <2>1, ContinuesItself, ContinuesJoin
  <2> QED BY <1>4, <1>7, <1>8, <2>2, <2>3, ContinuesJoin
<1>12. LastNew(w)
  <2>1. NewFor(s, log2, z, 1) BY <1>5, OneMessage
  <2>2. z \in Nat
    <3>1. z \in 1 .. Len(log2) BY LenProperties
    <3> QED BY <3>1
  <2>3. 1 \in 1 .. 1 /\ z + 1 - 1 = z BY <2>2
  <2>4. Len(s) = 1 /\ s[1].label = 0 /\ s[1].kind = log2[z].kind /\ s[1].id = log2[z].id
    BY <2>1, <2>3 DEF NewFor
  <2> QED BY <1>4, <1>7, <1>8, <2>4, JoinedLast
<1> QED BY <1>3, <1>5, <1>8, <1>9, <1>10, <1>11, <1>12

LEMMA LastBehind ==
  ASSUME NEW l \in Nat, NEW t \in Nat, NEW m, m = l + t + 1
  PROVE  m \in Nat /\ m \in 1 .. m /\ m > l
OBVIOUS

\* The runtime's own closing of an interrupted turn.
LEMMA InterruptedKept ==
  ASSUME LogInv, pc \in InTurn, NEW w \in Seq(RowSet), LogNamed(w), Inputs(w, turn),
         NEW x, x = Grouped(FactRows(turn, "cancellation_fact")),
         NEW log, log = rows \o w \o x, NEW input \in Seq(MessageSet),
         Extends(log, rows) => \A k \in DOMAIN input : Fresh(input[k], log, turn, turn - 1),
         rows' = log, refs' = Appended(refs, Len(log)),
         mem' = Synced(mem \o input \o Messages(log, Len(log), Len(log)), refs'),
         cause' = cause \cup {"interrupt"}, pc' = "idle",
         UNCHANGED <<turn, retained, optimized, batch, checkpoint, resumes, evicted>>
  PROVE  LogInv' /\ \E ms : LastNew(ms) /\ mem' = Synced(ms, refs')
<1>1. pc' \notin InTurn /\ Past = turn - 1 /\ Past' = turn BY DEF InTurn, Past
<1>2. turn \in Nat /\ turn # 0 /\ turn - 1 \in Nat BY LogAssumption DEF LogInv, Typed
<1>3. rows \in Seq(RowSet) /\ refs \in Seq(Nat) /\ checkpoint \in Seq(Nat) /\ mem \in Seq(MessageSet)
  BY DEF LogInv, Typed
<1>4. /\ x \in Seq(RowSet) /\ Len(x) = 1 /\ DOMAIN x = {1} /\ x[1].id = NoCall
      /\ x[1].kind = "cancellation_fact"
      /\ LogNamed(x) /\ Inputs(x, turn)
  <2>1. x = Grouped(<<Row(turn, "cancellation_fact", NoCall, 0, "none")>>) BY DEF FactRows
  <2>2. "cancellation_fact" \in Kinds BY DEF Kinds
  <2> QED BY <1>2, <2>1, <2>2, NoCallIs, SingleRow
<1>5. PICK l \in Nat, t \in Nat : l = Len(rows) /\ t = Len(w) BY <1>3, LenProperties
<1>6. PICK log1 : log1 = rows \o w OBVIOUS
<1>7. log1 \in Seq(RowSet) /\ Extends(log1, rows) /\ Len(log1) = l + t
  BY <1>3, <1>5, <1>6, LogExtends
<1>8. log = log1 \o x BY <1>6
<1>9. log \in Seq(RowSet) /\ Extends(log, log1) /\ Len(log) = l + t + 1
  BY <1>4, <1>7, <1>8, LogExtends
<1>10. Extends(log, rows) BY <1>7, <1>9, ExtendsTwice
<1>11. PICK z : z = l + t + 1 OBVIOUS
<1>12. z \in DOMAIN log /\ log[z] = x[1] /\ z = Len(log)
  <2>1. Joined(log1, x, log, l + t) BY <1>4, <1>7, <1>8, ConcatPlaces
  <2>2. 1 \in DOMAIN x BY <1>4
  <2> QED BY <1>9, <1>11, <2>1, <2>2 DEF Joined
<1>13. Sound(refs, log) /\ Sound(checkpoint, log)
  BY <1>3, <1>10, SoundStays DEF LogInv, MessagesFit
<1>14. refs' \in Seq(Nat) /\ Sound(refs', log) BY <1>3, <1>9, <1>13, AppendedSound
<1>15. Fits(mem, rows, turn - 1, turn - 1) BY <1>1 DEF LogInv, MessagesFit
<1>20. PICK new : new = mem \o input \o Messages(log, z, z) OBVIOUS
<1>21. /\ new \in Seq(MessageSet) /\ Fits(new, log, turn, turn) /\ Continues(new, mem)
       /\ LastNew(new)
  <2>1. log[z].id = NoCall /\ log[z].kind # "context_summary" BY <1>4, <1>12
  <2> QED BY <1>2, <1>3, <1>9, <1>10, <1>12, <1>15, <1>20, <2>1, InterruptedFits
<1>22. mem' = Synced(new, refs') BY <1>12, <1>20
<1>23. mem' \in Seq(MessageSet) /\ Fits(mem', log, turn, turn)
  <2>1. PICK projection : projection = refs' OBVIOUS
  <2>2. projection \in Seq(Nat) /\ Sound(projection, log) BY <1>14, <2>1
  <2>3. mem' = Synced(new, projection) BY <1>22, <2>1
  <2> QED BY <1>9, <1>21, <2>2, <2>3, SyncedFits
<1>24. Typed'
  <2>1. cause' \subseteq Causes BY DEF LogInv, Typed, Causes
  <2>2. ASSUME NEW i \in evicted PROVE i \in 0 .. Len(log)
    <3>1. i \in 0 .. l BY <1>5 DEF LogInv, Typed
    <3> QED BY <1>9, <3>1
  <2>3. Typed BY DEF LogInv
  <2>4. evicted \subseteq 0 .. Len(log) BY <2>2
  <2> QED BY <1>1, <1>9, <1>14, <1>23, <2>1, <2>3, <2>4 DEF Typed
<1>25. MessagesFit' BY <1>1, <1>13, <1>14, <1>23 DEF MessagesFit
<1>26. RowsNamed'
  <2>1. LogNamed(rows) /\ BatchNamed(batch, turn) BY DEF LogInv, RowsNamed
  <2>2. LogNamed(log1) BY <1>3, <1>6, <2>1, NamedGrows
  <2>3. LogNamed(log) BY <1>4, <1>7, <1>8, <2>2, NamedGrows
  <2> QED BY <2>1, <2>3 DEF RowsNamed
<1>27. NeverCompacted'
  <2>1. SUFFICES ASSUME "compaction" \notin cause
                 PROVE  refs' = Identity(Len(log)) /\ ~optimized /\ Inputs(log, turn)
    BY <1>1, <2>1 DEF NeverCompacted
  <2>2. refs = Identity(l) /\ ~optimized BY <1>5, <2>1 DEF LogInv, NeverCompacted
  <2>3. refs' = Identity(Len(log)) BY <1>9, <2>2, AppendedIdentity
  <2>4. Inputs(rows, turn)
    <3>1. CASE pc \in {"open", "denied"}
      BY <1>2, <1>3, <2>1, <3>1, LastIsInput DEF LogInv, NeverCompacted
    <3>2. CASE pc \notin {"open", "denied"}
      <4>1. Inputs(rows, turn - 1) BY <1>1, <2>1, <3>2 DEF LogInv, NeverCompacted
      <4>2. ASSUME NEW i \in DOMAIN rows PROVE rows[i].turn \in Nat
        <5>1. rows[i] \in RowSet BY <1>3, ElementOfSeq, LenProperties
        <5> QED BY <5>1 DEF RowSet
      <4> QED BY <1>2, <4>1, <4>2 DEF Inputs
    <3> QED BY <3>1, <3>2
  <2>5. Inputs(log1, turn) BY <1>3, <1>6, <2>4, InputsGrow
  <2>6. Inputs(log, turn) BY <1>4, <1>7, <1>8, <2>5, InputsGrow
  <2> QED BY <2>2, <2>3, <2>6
<1>28. MemoryMirrors' BY DEF MemoryMirrors
<1>29. EvictedWasAnswered' BY <1>9, <1>10, EvictedStays DEF LogInv
<1>30. LabelsKnown'
  <2>1. PICK v \in Nat : v = Len(log) /\ v \in 1 .. v /\ v > Len(rows)
    <3>1. Len(log) \in Nat /\ Len(log) \in 1 .. Len(log) /\ Len(log) > Len(rows)
      BY <1>5, <1>9, LastBehind
    <3> QED BY <3>1
  <2>2. Apart(new, v) BY <1>3, <1>15, <1>21, <2>1, BehindApart
  <2>3. PICK projection : projection = refs' OBVIOUS
  <2>4. projection = Appended(refs, v) BY <2>1, <2>3
  <2>5. v \in ToSet(projection) BY <1>3, <2>1, <2>4, AppendedHas
  <2>6. Known(Synced(new, projection)) \/ Labels(Synced(new, projection)) # projection
    BY <1>14, <1>21, <2>2, <2>3, <2>5, DriftSeen
  <2>7. Known(mem') \/ Labels(mem') # refs' BY <1>22, <2>3, <2>6
  <2> QED BY <2>7 DEF LabelsKnown, Aligned
<1>31. LogInv' BY <1>24, <1>25, <1>26, <1>27, <1>28, <1>29, <1>30 DEF LogInv
<1> QED BY <1>21, <1>22, <1>31

\* KeyboardInterrupt
LEMMA InterruptKept ==
  ASSUME LogInv, InterruptTurn
  PROVE  /\ LogInv'
         /\ \E ms : LastNew(ms) /\ mem' = Synced(ms, refs')
         /\ \E w \in Before :
               rows' = rows \o w \o Grouped(FactRows(turn, "cancellation_fact"))
<1>1. PICK x : x = Grouped(FactRows(turn, "cancellation_fact")) OBVIOUS
<1>2. /\ pc \in {"begun", "open", "denied"} /\ pc' = "idle" /\ cause' = cause \cup {"interrupt"}
      /\ UNCHANGED <<turn, retained, optimized, batch, checkpoint, resumes, evicted>>
  BY DEF InterruptTurn
<1>3. pc \in InTurn BY <1>2 DEF InTurn
<1>4. turn \in Nat /\ turn # 0 /\ turn \in 0 .. MaxTurns /\ turn - 1 \in Nat
  BY <1>3, LogAssumption DEF LogInv, Typed
<1>5. rows \in Seq(RowSet) BY DEF LogInv, Typed
<1>6. PICK written \in Written :
         /\ rows' = rows \o written
                         \o (IF written # <<>> /\ Last(written).kind = "cancellation_fact"
                             THEN <<>> ELSE x)
         /\ refs' = Appended(refs, Len(rows'))
         /\ mem' = Synced(mem \o (IF pc = "begun" THEN <<Message("user_input", turn, NoCall, 0)>>
                                  ELSE Messages(rows, UserRow, UserRow))
                              \o Messages(rows', Len(rows'), Len(rows')), refs')
  BY <1>1 DEF InterruptTurn
<1>7. PICK log, input : /\ log = rows'
                        /\ input = IF pc = "begun" THEN <<Message("user_input", turn, NoCall, 0)>>
                                   ELSE Messages(rows, UserRow, UserRow)
  OBVIOUS
<1>9. x \in Seq(RowSet) /\ Len(x) = 1 /\ x[1].kind = "cancellation_fact"
  <2>1. x = Grouped(<<Row(turn, "cancellation_fact", NoCall, 0, "none")>>) BY <1>1 DEF FactRows
  <2>2. "cancellation_fact" \in Kinds BY DEF Kinds
  <2> QED BY <1>4, <2>1, <2>2, NoCallIs, SingleRow
<1>8. PICK w \in Before : written = w \/ written = w \o x BY <1>1, WrittenBefore
<1>10. NoFact(w) /\ LogNamed(w) /\ Inputs(w, turn) BY <1>3, BeforeNamed
<1>11. w \in Seq(RowSet) /\ log = rows \o w \o x
  <2>1. OneFact(x) BY <1>9 DEF OneFact
  <2>2. log = Continued(rows, written, x) BY <1>6, <1>7 DEF Continued
  <2>3. log = Closing(rows, w, x) BY <1>5, <1>8, <1>10, <2>1, <2>2, InterruptRows
  <2> QED BY <1>10, <2>3 DEF Closing, NoFact
<1>12. log \in Seq(RowSet)
  <2>1. rows \o w \in Seq(RowSet) BY <1>5, <1>11, ConcatProperties
  <2> QED BY <1>9, <1>11, <2>1, ConcatProperties
<1>13. input \in Seq(MessageSet) /\
       (Extends(log, rows) => \A k \in DOMAIN input : Fresh(input[k], log, turn, turn - 1))
  <2>1. CASE pc = "begun"
    <3>1. PICK m : m = Message("user_input", turn, NoCall, 0) OBVIOUS
    <3>2. "user_input" \in Kinds /\ NoCall.turn <= turn BY <1>4, NoCallIs DEF Kinds
    <3>3. m \in MessageSet /\ Fresh(m, log, turn, turn - 1)
      BY <1>4, <1>12, <3>1, <3>2, NoCallIs, RowlessFresh
    <3>4. input = <<m>> BY <1>7, <2>1, <3>1
    <3> QED BY <3>3, <3>4
  <2>2. CASE pc # "begun"
    <3>1. PICK u : u = UserRow OBVIOUS
    <3>2. u \in DOMAIN rows /\ rows[u].id.turn = 0 /\ rows[u].kind = "user_input"
      BY <1>2, <2>2, <3>1, UserRowIs
    <3>3. input = Messages(rows, u, u) BY <1>7, <2>2, <3>1
    <3>4. Extends(rows, rows) BY <1>5, ExtendsItself
    <3>5. input \in Seq(MessageSet) BY <1>4, <1>5, <3>2, <3>3, <3>4, OneFresh
    <3>6. Extends(log, rows) => \A k \in DOMAIN input : Fresh(input[k], log, turn, turn - 1)
      BY <1>4, <1>5, <1>12, <3>2, <3>3, OneFresh
    <3> QED BY <3>5, <3>6
  <2> QED BY <2>1, <2>2
<1>14. /\ rows' = log /\ refs' = Appended(refs, Len(log))
       /\ mem' = Synced(mem \o input \o Messages(log, Len(log), Len(log)), refs')
  BY <1>6, <1>7
<1>15. LogInv' /\ \E ms : LastNew(ms) /\ mem' = Synced(ms, refs')
  BY <1>1, <1>2, <1>3, <1>11, <1>10, <1>13, <1>14, InterruptedKept
<1>16. \E v \in Before :
          rows' = rows \o v \o Grouped(FactRows(turn, "cancellation_fact"))
  BY <1>1, <1>7, <1>8, <1>11
<1> QED BY <1>15, <1>16

\* The counter of a resumed session is the latest turn of its messages.
LEMMA CounterIs ==
  ASSUME NEW ms
  PROVE  /\ Counter(ms) \in 0 .. MaxTurns
         /\ \A i \in DOMAIN ms : ms[i].turn \in 1 .. MaxTurns => ms[i].turn <= Counter(ms)
         /\ Counter(ms) = 0 \/ \E i \in DOMAIN ms : ms[i].turn = Counter(ms)
<1>1. MaxTurns \in Nat BY LogAssumption
<1>2. PICK T : T = {ms[i].turn : i \in DOMAIN ms} \cap 1 .. MaxTurns OBVIOUS
<1>3. T \in SUBSET (1 .. MaxTurns) BY <1>2
<1>4. \A i \in DOMAIN ms : ms[i].turn \in 1 .. MaxTurns => ms[i].turn \in T BY <1>2
<1>5. PICK c : c = Counter(ms) OBVIOUS
<1>6. c = IF T = {} THEN 0 ELSE CHOOSE n \in T : \A k \in T : k <= n BY <1>2, <1>5 DEF Counter
<1>7. CASE T = {}
  <2>1. c = 0 BY <1>6, <1>7
  <2>2. c \in 0 .. MaxTurns BY <1>1, <2>1
  <2> QED BY <1>4, <1>5, <1>7, <2>1, <2>2
<1>8. CASE T # {}
  <2>1. \E n \in T : \A k \in T : k <= n BY <1>1, <1>3, <1>8, Greatest
  <2>2. c = CHOOSE n \in T : \A k \in T : k <= n BY <1>6, <1>8
  <2>3. c \in T /\ \A k \in T : k <= c BY <2>1, <2>2
  <2>4. c \in 1 .. MaxTurns BY <1>3, <2>3
  <2>5. c \in 0 .. MaxTurns BY <1>1, <2>4
  <2>6. \E i \in DOMAIN ms : ms[i].turn = c BY <1>2, <2>3
  <2> QED BY <1>4, <1>5, <2>3, <2>5, <2>6
<1> QED BY <1>7, <1>8

\* A message that a resume makes of row i.
Restored(m, log, i) ==
    /\ m \in MessageSet /\ m.row = i /\ m.label = i /\ m.consumed = {}
    /\ m.id = log[i].id /\ m.turn = log[i].turn /\ m.kind = log[i].kind
RestoredFrom(log, i) == [Messages(log, i, i)[1] EXCEPT !.label = i]

LEMMA RestoredOne ==
  ASSUME NEW log \in Seq(RowSet), NEW i \in DOMAIN log
  PROVE  Restored(RestoredFrom(log, i), log, i)
<1>1. i \in Nat /\ log[i] \in RowSet
  <2>1. i \in 1 .. Len(log) BY LenProperties
  <2> QED BY <2>1, ElementOfSeq
<1>2. PICK r : r = log[i] OBVIOUS
<1>3. r.kind \in Kinds /\ r.turn \in Nat /\ r.id \in CallId BY <1>1, <1>2 DEF RowSet
<1>4. PICK m : m = Message(r.kind, r.turn, r.id, i) OBVIOUS
<1>5. /\ m \in MessageSet /\ m.turn = r.turn /\ m.id = r.id /\ m.row = i /\ m.consumed = {}
      /\ m.kind = r.kind
  BY <1>1, <1>3, <1>4, MessageFields
<1>6. Messages(log, i, i)[1] = m
  <2>1. i - i + 1 = 1 /\ i + 1 - 1 = i /\ 1 \in 1 .. 1 BY <1>1
  <2>2. Messages(log, i, i)[1] = Message(log[i + 1 - 1].kind, log[i + 1 - 1].turn,
                                         log[i + 1 - 1].id, i + 1 - 1)
    BY <2>1 DEF Messages
  <2> QED BY <1>2, <1>4, <2>1, <2>2
<1>7. RestoredFrom(log, i) = [m EXCEPT !.label = i] BY <1>6 DEF RestoredFrom
<1> QED BY <1>1, <1>2, <1>5, <1>7 DEF Restored, MessageSet

LEMMA RestoredAll ==
  ASSUME NEW log \in Seq(RowSet), NEW projection \in Seq(Nat), Sound(projection, log),
         NEW ms, ms = [k \in DOMAIN projection |-> RestoredFrom(log, projection[k])]
  PROVE  /\ ms \in Seq(MessageSet) /\ Len(ms) = Len(projection) /\ DOMAIN ms = DOMAIN projection
         /\ \A k \in DOMAIN ms : Restored(ms[k], log, projection[k])
<1>1. PICK n \in Nat : n = Len(projection) BY LenProperties
<1>2. DOMAIN projection = 1 .. n BY <1>1, LenProperties
<1>3. DOMAIN ms = 1 .. n /\ ms = [k \in 1 .. n |-> ms[k]] BY <1>2
<1>4. ASSUME NEW k \in 1 .. n PROVE Restored(ms[k], log, projection[k])
  <2>1. projection[k] \in 1 .. Len(log) BY <1>2 DEF Sound
  <2>2. projection[k] \in DOMAIN log BY <2>1, LenProperties
  <2>3. ms[k] = RestoredFrom(log, projection[k]) BY <1>2
  <2> QED BY <2>2, <2>3, RestoredOne
<1>5. \A k \in 1 .. n : ms[k] \in MessageSet BY <1>4 DEF Restored
<1>6. ms \in Seq(MessageSet) BY <1>3, <1>5, SeqIs
<1>7. Len(ms) = n BY <1>3, <1>6, LenProperties
<1> QED BY <1>1, <1>2, <1>3, <1>4, <1>6, <1>7

LEMMA RestoredFits ==
  ASSUME NEW log \in Seq(RowSet), LogNamed(log), NEW projection \in Seq(Nat), Sound(projection, log),
         NEW ms, ms = [k \in DOMAIN projection |-> RestoredFrom(log, projection[k])],
         NEW n, n = Counter(ms)
  PROVE  Fits(ms, log, n, n)
<1>1. /\ ms \in Seq(MessageSet) /\ DOMAIN ms = DOMAIN projection
      /\ \A k \in DOMAIN ms : Restored(ms[k], log, projection[k])
  BY RestoredAll
<1>2. /\ n \in 0 .. MaxTurns /\ MaxTurns \in Nat
      /\ \A i \in DOMAIN ms : ms[i].turn \in 1 .. MaxTurns => ms[i].turn <= n
  BY CounterIs, LogAssumption
<1>3. ASSUME NEW k \in DOMAIN ms PROVE Stands(ms[k], log, n, n)
  <2>1. PICK i : i = projection[k] OBVIOUS
  <2>2. i \in 1 .. Len(log) /\ Len(log) \in Nat BY <1>1, <2>1, LenProperties DEF Sound
  <2>3. NamedRow(log[i]) BY <2>2, LenProperties DEF LogNamed
  <2>4. PICK m \in MessageSet : m = ms[k] /\ Restored(m, log, i) BY <1>1, <2>1 DEF Restored
  <2>5. m.id = log[i].id /\ m.turn = log[i].turn /\ m.row = i /\ m.label = i /\ m.consumed = {}
    BY <2>4 DEF Restored
  <2>6. m.id.turn # 0 => m.id.turn = m.turn /\ m.turn \in 1 .. MaxTurns
    BY <2>3, <2>5 DEF NamedRow
  <2>7. m.id.turn <= n
    <3>1. CASE m.id.turn = 0 BY <1>2, <3>1
    <3>2. CASE m.id.turn # 0 BY <1>2, <2>4, <2>6, <3>2
    <3> QED BY <3>1, <3>2
  <2>8. m.label <= Len(log) /\ m.row <= Len(log) BY <2>2, <2>5
  <2>9. Shaped(m) BY <2>3, <2>4, <2>5 DEF Shaped, NamedRow, Restored
  <2> QED BY <2>4, <2>5, <2>7, <2>8, <2>9 DEF Stands
<1>4. LabelsSound(ms, log)
  <2>1. \A k \in DOMAIN ms : ms[k].label = projection[k] BY <1>1 DEF Restored
  <2> QED BY <1>1, <2>1 DEF LabelsSound, Sound
<1>5. Answered(ms, log)
  <2>1. \A k \in DOMAIN ms : ms[k].consumed = {} BY <1>1 DEF Restored
  <2>2. Consumed(ms) = {} BY <2>1 DEF Consumed
  <2> QED BY <2>2 DEF Answered
<1> QED BY <1>3, <1>4, <1>5 DEF Fits

\* The conversation of a resumed session.
LEMMA ResumeKept == LogInv /\ Resume => LogInv'
<1> SUFFICES ASSUME LogInv, Resume PROVE LogInv' OBVIOUS
<1>1. PICK ms, n : /\ ms = [k \in DOMAIN checkpoint |-> RestoredFrom(rows, checkpoint[k])]
                   /\ n = Counter(ms)
  OBVIOUS
<1>2. /\ pc = "closed" /\ resumes < MaxResumes /\ resumes' = resumes + 1
      /\ mem' = ms /\ turn' = n /\ pc' = "idle"
      /\ cause' = (IF "compaction" \in cause THEN cause ELSE {})
      /\ retained' = <<>> /\ optimized' = FALSE /\ batch' = <<>>
      /\ UNCHANGED <<rows, refs, checkpoint, evicted>>
  <2>1. mem' = ms BY <1>1 DEF Resume, RestoredFrom
  <2>2. turn' = n BY <1>1, <2>1 DEF Resume
  <2> QED BY <2>1, <2>2 DEF Resume
<1>3. pc' \notin InTurn /\ Past' = n BY <1>2 DEF InTurn, Past
<1>4. /\ rows \in Seq(RowSet) /\ checkpoint \in Seq(Nat) /\ Sound(checkpoint, rows) /\ LogNamed(rows)
  BY DEF LogInv, Typed, MessagesFit, RowsNamed
<1>5. /\ ms \in Seq(MessageSet) /\ Len(ms) = Len(checkpoint) /\ DOMAIN ms = DOMAIN checkpoint
      /\ \A k \in DOMAIN ms : Restored(ms[k], rows, checkpoint[k])
  BY <1>1, <1>4, RestoredAll
<1>6. Fits(ms, rows, n, n) BY <1>1, <1>4, RestoredFits
<1>7. /\ n \in 0 .. MaxTurns
      /\ \A i \in DOMAIN ms : ms[i].turn \in 1 .. MaxTurns => ms[i].turn <= n
  BY <1>1, CounterIs
<1>8. Typed'
  <2>1. resumes' \in 0 .. MaxResumes BY <1>2, LogAssumption DEF LogInv, Typed
  <2>2. <<>> \in Seq(BatchSet) /\ <<>> \in Seq(MessageSet) /\ Len(<<>>) = 0 OBVIOUS
  <2>3. batch' \in Seq(BatchSet) /\ Len(batch') <= 1
    <3>1. Len(batch') <= 1 BY <1>2, <2>2
    <3>2. batch' \in Seq(BatchSet) BY <1>2, <2>2
    <3> QED BY <3>1, <3>2
  <2>4. retained' \in Seq(MessageSet) BY <1>2, <2>2
  <2>5. cause' \subseteq Causes BY <1>2 DEF LogInv, Typed
  <2>6. Typed BY DEF LogInv
  <2>7. pc' = "idle" /\ turn' \in 0 .. MaxTurns /\ optimized' \in BOOLEAN /\ mem' \in Seq(MessageSet)
    BY <1>2, <1>5, <1>7
  <2> QED BY <1>2, <1>3, <2>1, <2>3, <2>4, <2>5, <2>6, <2>7 DEF Typed
<1>9. MessagesFit' BY <1>2, <1>3, <1>6 DEF LogInv, MessagesFit
<1>10. RowsNamed'
  <2>1. BatchNamed(<<>>, n) BY DEF BatchNamed
  <2> QED BY <1>2, <2>1 DEF LogInv, RowsNamed
<1>11. ASSUME "compaction" \notin cause
       PROVE  /\ refs = Identity(Len(rows)) /\ Len(ms) = Len(rows) /\ DOMAIN ms = 1 .. Len(rows)
              /\ \A k \in 1 .. Len(rows) : Restored(ms[k], rows, k)
  <2>1. PICK l \in Nat : l = Len(rows) BY <1>4, LenProperties
  <2>2. refs = Identity(l) /\ checkpoint = Identity(l)
    BY <1>2, <1>11, <2>1 DEF LogInv, NeverCompacted
  <2>3. /\ DOMAIN checkpoint = 1 .. l /\ Len(checkpoint) = l
        /\ \A k \in 1 .. l : checkpoint[k] = k
    BY <2>1, <2>2 DEF Identity
  <2> QED BY <1>5, <2>1, <2>2, <2>3
<1>12. NeverCompacted'
  <2>1. SUFFICES ASSUME "compaction" \notin cause
                 PROVE  refs = Identity(Len(rows)) /\ Inputs(rows, n)
    BY <1>2, <1>3, <2>1 DEF NeverCompacted
  <2>2. ASSUME NEW i \in DOMAIN rows, rows[i].kind = "user_input" PROVE rows[i].turn <= n
    <3>1. i \in 1 .. Len(rows) BY <1>4, LenProperties
    <3>2. Restored(ms[i], rows, i) /\ i \in DOMAIN ms BY <1>11, <2>1, <3>1
    <3>3. ms[i].turn = rows[i].turn BY <3>2 DEF Restored
    <3>4. rows[i].turn \in 1 .. MaxTurns BY <1>4, <2>2 DEF LogNamed, NamedRow
    <3> QED BY <1>7, <3>2, <3>3, <3>4
  <2> QED BY <1>11, <2>1, <2>2 DEF Inputs
<1>13. MemoryMirrors'
  <2>1. SUFFICES ASSUME cause' = {} PROVE Mirror(ms, Len(rows))
    BY <1>2 DEF MemoryMirrors
  <2>2. "compaction" \notin cause BY <1>2, <2>1
  <2> QED BY <1>11, <2>2 DEF Mirror, Restored
<1>14. EvictedWasAnswered' BY <1>2 DEF LogInv, EvictedWasAnswered
<1>15. LabelsKnown'
  <2>1. ASSUME NEW k \in DOMAIN ms PROVE ms[k].label # 0
    <3>1. ms[k].label = checkpoint[k] BY <1>5 DEF Restored
    <3>2. checkpoint[k] \in 1 .. Len(rows) BY <1>4, <1>5 DEF Sound
    <3> QED BY <3>1, <3>2
  <2>2. Known(mem') BY <1>2, <2>1 DEF Known
  <2> QED BY <1>2, <2>2 DEF LabelsKnown
<1> QED BY <1>8, <1>9, <1>10, <1>12, <1>13, <1>14, <1>15 DEF LogInv

\* Every step keeps the invariant.
LEMMA LogStep == LogInv /\ [Next]_vars => LogInv'
<1> SUFFICES ASSUME LogInv, [Next]_vars PROVE LogInv' OBVIOUS
<1>1. CASE BeginTurn BY <1>1, BeginKept
<1>2. CASE AppendUser BY <1>2, AppendUserKept
<1>3. CASE OmitInTurn BY <1>3, OmitKept
<1>4. CASE CompressInTurn BY <1>4, CompressKept
<1>5. CASE RunTool BY <1>5, RunToolKept
<1>6. CASE Complete
  <2>1. PICK closing : closing = FinalRows(turn) OBVIOUS
  <2>2. pc \in {"open", "denied"} /\ EndTurn(Base, closing) BY <1>6, <2>1 DEF Complete
  <2>3. closing = <<Row(turn, "assistant_output", Final(turn), 0, "none")>>
    BY <2>1 DEF FinalRows
  <2> QED BY <2>2, <2>3, EndKept
<1>7. CASE Fail
  <2>1. PICK closing : closing = FactRows(turn, "failure_fact") OBVIOUS
  <2>2. pc \in {"open", "denied"} /\ EndTurn(Base, closing) BY <1>7, <2>1 DEF Fail
  <2>3. closing = <<Row(turn, "failure_fact", NoCall, 0, "none")>> BY <2>1 DEF FactRows
  <2> QED BY <2>2, <2>3, EndKept
<1>8. CASE CancelTurn
  <2>1. PICK closing : closing = FactRows(turn, "cancellation_fact") OBVIOUS
  <2>2. pc \in {"open", "denied"} /\ EndTurn(Base, closing) BY <1>8, <2>1 DEF CancelTurn
  <2>3. closing = <<Row(turn, "cancellation_fact", NoCall, 0, "none")>> BY <2>1 DEF FactRows
  <2> QED BY <2>2, <2>3, EndKept
<1>9. CASE AbortTurn BY <1>9, AbortKept
<1>10. CASE InterruptTurn BY <1>10, InterruptKept
<1>11. CASE ManualCompress BY <1>11, ManualCompressKept
<1>12. CASE Terminalize BY <1>12, TerminalizeKept
<1>13. CASE Resume BY <1>13, ResumeKept
<1>14. CASE LimitTurn
  <2>1. PICK closing : closing = FactRows(turn, "failure_fact") OBVIOUS
  <2>2. pc \in {"open", "denied"} /\ EndTurn(mem, closing) BY <1>14, <2>1 DEF LimitTurn
  <2>3. closing = <<Row(turn, "failure_fact", NoCall, 0, "none")>> BY <2>1 DEF FactRows
  <2> QED BY <2>2, <2>3, EndKept
<1>15. CASE UNCHANGED vars
  <2>1. Past' = Past BY <1>15 DEF vars, Past
  <2>2. Typed' BY <1>15 DEF vars, LogInv, Typed
  <2>3. MessagesFit' BY <1>15, <2>1 DEF vars, LogInv, MessagesFit
  <2>4. RowsNamed' BY <1>15 DEF vars, LogInv, RowsNamed
  <2>5. NeverCompacted' BY <1>15, <2>1 DEF vars, LogInv, NeverCompacted
  <2>6. MemoryMirrors' BY <1>15 DEF vars, LogInv, MemoryMirrors
  <2>7. EvictedWasAnswered' BY <1>15 DEF vars, LogInv, EvictedWasAnswered
  <2>8. LabelsKnown' BY <1>15 DEF vars, LogInv, LabelsKnown, Aligned
  <2> QED BY <2>2, <2>3, <2>4, <2>5, <2>6, <2>7, <2>8 DEF LogInv
<1> QED
  BY <1>1, <1>2, <1>3, <1>4, <1>5, <1>6, <1>7, <1>8, <1>9, <1>10, <1>11, <1>12, <1>13, <1>14,
     <1>15
  DEF Next

-----------------------------------------------------------------------------
(* What the invariant says. *)

\* The projection, the memory and the rows fit together in every reachable state:
\* however omissions, compressions, interrupts and resumes follow on each other.
THEOREM LogInvariance == Spec => []LogInv
<1>1. Init => LogInv BY InitLogInv
<1>2. LogInv /\ [Next]_vars => LogInv' BY LogStep
<1> QED BY <1>1, <1>2, PTL DEF Spec

\* Every variable keeps its type; a label or a row that a message names exists.
THEOREM LogTypes == Spec => []TypeOK
<1>1. LogInv => TypeOK
  <2> SUFFICES ASSUME LogInv PROVE TypeOK OBVIOUS
  <2>1. ASSUME NEW i \in DOMAIN mem
        PROVE  mem[i].label \in 0 .. Len(rows) /\ mem[i].row \in 0 .. Len(rows)
    <3>1. mem[i] \in MessageSet
      <4>1. mem \in Seq(MessageSet) BY DEF LogInv, Typed
      <4> QED BY <4>1, ElementOfSeq, LenProperties
    <3>2. mem[i].label \in Nat /\ mem[i].row \in Nat BY <3>1 DEF MessageSet
    <3>3. mem[i].label <= Len(rows) /\ mem[i].row <= Len(rows)
      BY DEF LogInv, MessagesFit, Fits, Stands
    <3>4. Len(rows) \in Nat
      <4>1. rows \in Seq(RowSet) BY DEF LogInv, Typed
      <4> QED BY <4>1, LenProperties
    <3> QED BY <3>2, <3>3, <3>4
  <2>2. Typed BY DEF LogInv
  <2> QED BY <2>1, <2>2 DEF Typed, TypeOK
<1> QED BY <1>1, LogInvariance, PTL

\* A checkpoint can always be restored: the rows of the projection exist, each once
\* but for summaries.
THEOREM ProjectionKept == Spec => []ProjectionSound
<1>1. LogInv => ProjectionSound
  <2> SUFFICES ASSUME LogInv PROVE ProjectionSound OBVIOUS
  <2>1. Sound(refs, rows) BY DEF LogInv, MessagesFit
  <2>2. ToSet(refs) \subseteq 1 .. Len(rows) BY <2>1 DEF Sound, ToSet
  <2> QED BY <2>1, <2>2 DEF Sound, ProjectionSound
<1> QED BY <1>1, LogInvariance, PTL

\* Labels of a mirror.
LEMMA MirrorLabels ==
  ASSUME NEW ms \in Seq(MessageSet), NEW n \in Nat, Mirror(ms, n)
  PROVE  Labels(ms) = Identity(n)
<1>1. DOMAIN ms = 1 .. n /\ \A k \in 1 .. n : ms[k].label = k BY LenProperties DEF Mirror
<1>2. PICK S : S = {i \in DOMAIN ms : ms[i].label # 0} OBVIOUS
<1>3. S = 1 .. n BY <1>1, <1>2
<1>4. Ascending(1 .. n) = [k \in 1 .. n |-> k]
  <2>1. PICK m \in Nat : m = 0 /\ m <= n OBVIOUS
  <2>2. Ascending(m + 1 .. n) = [k \in 1 .. n - m |-> m + k] BY <2>1, AscendingInterval
  <2>3. m + 1 = 1 /\ n - m = n /\ \A k \in 1 .. n : m + k = k BY <2>1
  <2> QED BY <2>2, <2>3
<1>5. PICK f : f = Ascending(S) OBVIOUS
<1>6. DOMAIN f = 1 .. n /\ \A k \in 1 .. n : f[k] = k BY <1>3, <1>4, <1>5
<1>7. PICK p : p = Pick(ms, S) OBVIOUS
<1>8. p = [k \in DOMAIN f |-> ms[f[k]]] BY <1>5, <1>7 DEF Pick
<1>9. DOMAIN p = 1 .. n /\ \A k \in 1 .. n : p[k].label = k BY <1>1, <1>6, <1>8
<1>10. Labels(ms) = [k \in DOMAIN p |-> p[k].label] BY <1>2, <1>7 DEF Labels
<1> QED BY <1>9, <1>10 DEF Identity

\* Without a compaction, an abort or an interrupt the process's messages, the
\* projection and the log are the same list, so that the next turn is not refused.
THEOREM LogMirrored == Spec => []MemoryHoldsLog
<1>1. LogInv => MemoryHoldsLog
  <2> SUFFICES ASSUME LogInv, pc = "idle", cause = {}
               PROVE  /\ Aligned /\ refs = [i \in DOMAIN rows |-> i]
                      /\ [i \in DOMAIN mem |-> mem[i].row] = refs
    BY DEF MemoryHoldsLog
  <2>1. rows \in Seq(RowSet) /\ mem \in Seq(MessageSet) BY DEF LogInv, Typed
  <2>2. PICK n \in Nat : n = Len(rows) /\ DOMAIN rows = 1 .. n
    <3>1. Len(rows) \in Nat /\ DOMAIN rows = 1 .. Len(rows) BY <2>1, LenProperties
    <3> QED BY <3>1
  <2>3. refs = Identity(n) BY <2>2 DEF LogInv, NeverCompacted
  <2>4. Mirror(mem, n) BY <2>2 DEF LogInv, MemoryMirrors
  <2>5. Aligned BY <2>1, <2>3, <2>4, MirrorLabels DEF Aligned
  <2>6. DOMAIN mem = 1 .. n /\ \A k \in 1 .. n : mem[k].row = k
    BY <2>1, <2>4, LenProperties DEF Mirror
  <2>7. refs = [i \in 1 .. n |-> i] BY <2>3 DEF Identity
  <2>8. [i \in DOMAIN mem |-> mem[i].row] = refs BY <2>6, <2>7
  <2> QED BY <2>2, <2>5, <2>7, <2>8
<1> QED BY <1>1, LogInvariance, PTL

\* A compression summarizes only calls and answers that a later answer of the log has
\* taken into account.
THEOREM EvictionAnswered == Spec => []EvictedWasAnswered
<1>1. LogInv => EvictedWasAnswered BY DEF LogInv
<1> QED BY <1>1, LogInvariance, PTL
\* An omission or a compression in a turn never meets a message without its row: a list
\* with such a message has drifted from the projection, and its turn was refused; what a
\* turn adds comes to memory only when it ends, and a compression leaves nothing to evict.
THEOREM OverwritesKnowRows == Spec => []OverwriteKnowsRows
<1>1. LogInv => OverwriteKnowsRows
  <2> SUFFICES ASSUME LogInv, pc = "open", Evictable(retained) # {}
               PROVE  KnowsRows(retained)
    BY DEF OverwriteKnowsRows
  <2>1. Known(retained) BY DEF LogInv, LabelsKnown
  <2>2. Fits(retained, rows, Past, Past) /\ retained \in Seq(MessageSet) /\ rows \in Seq(RowSet)
    BY DEF LogInv, MessagesFit, Typed, InTurn
  <2>3. ASSUME NEW i \in DOMAIN retained PROVE retained[i].label \in 1 .. Len(rows)
    <3>1. retained[i].label <= Len(rows) BY <2>2 DEF Fits, Stands
    <3>2. retained[i] \in MessageSet BY <2>2, ElementOfSeq, LenProperties
    <3>3. retained[i].label \in Nat /\ retained[i].label # 0 BY <2>1, <3>2 DEF MessageSet, Known
    <3>4. Len(rows) \in Nat BY <2>2, LenProperties
    <3> QED BY <3>1, <3>3, <3>4
  <2> QED BY <2>3 DEF KnowsRows
<1> QED BY <1>1, LogInvariance, PTL

-----------------------------------------------------------------------------
(* Every group of the log stays whole. *)

\* After these causes the name of a turn may come back.
Lost == {"compaction", "abort"} \subseteq cause

\* The names of a log are of turns up to n and of manual compressions up to m.
Name(r, n, m) == r \in 1 .. n \/ r \in MaxTurns + 1 .. MaxTurns + m
NamesTo(log, n, m) == \A i \in DOMAIN log : Name(log[i].turn, n, m)

\* A projection holds a row of turn n, so that a resume counts on from it.
Holds(projection, log, n) ==
    n = 0 \/ \E k \in DOMAIN projection : log[projection[k]].turn = n

\* The rows of the current turn are its input and, once nothing is left to evict, a summary.
Opened(log, n, ms) ==
    \A i \in DOMAIN log : log[i].turn = n =>
       \/ log[i].group = "user_input"
       \/ log[i].group = "context_summary" /\ Evictable(ms) = {}

\* The last message stands for the last row, of turn n, and outlives a compression.
LastStays(ms, log, n) ==
    /\ ms # <<>> /\ log # <<>> /\ log[Len(log)].turn = n
    /\ ms[Len(ms)].label = Len(log) /\ ms[Len(ms)].kind # "context_summary"
    /\ ms[Len(ms)].id \notin Evictable(ms)

SingleTools(bs) == \A i \in DOMAIN bs : Len(bs[i].tools) = 1

CutIdle ==
    /\ NamesTo(rows, turn, turn) /\ Holds(refs, rows, turn)
    /\ Evictable(mem) # {} => NamesTo(rows, turn, turn - 1)
                              /\ (Known(mem) => LastStays(mem, rows, turn))
CutOpen == NamesTo(rows, turn, turn - 1) /\ Opened(rows, turn, retained)
CutOver == \E n \in 0 .. MaxTurns : NamesTo(rows, n, n) /\ Holds(refs, rows, n)

CutKept ==
    /\ CutValid(rows) /\ SingleTools(batch)
    /\ pc = "idle" => CutIdle
    /\ pc = "begun" => NamesTo(rows, turn - 1, turn - 1)
    /\ pc \in {"open", "denied"} => CutOpen
    /\ pc \in {"refused", "closed"} => CutOver
    /\ pc = "closed" => checkpoint = refs

CutInv == Lost \/ CutKept

(* Names. *)

LEMMA NamesWider ==
  ASSUME NEW log, NEW n \in Nat, NEW n2 \in Nat, NEW m \in Int, NEW m2 \in Int, n <= n2, m <= m2,
         NamesTo(log, n, m)
  PROVE  NamesTo(log, n2, m2)
<1>1. MaxTurns \in Nat BY LogAssumption
<1>2. ASSUME NEW r, Name(r, n, m) PROVE Name(r, n2, m2) BY <1>1, <1>2 DEF Name
<1> QED BY <1>2 DEF NamesTo

LEMMA NamesGrow ==
  ASSUME NEW log \in Seq(RowSet), NEW more \in Seq(RowSet), NEW n \in Nat, NEW n2 \in Nat,
         NEW m \in Int, NEW m2 \in Int, n <= n2, m <= m2, NamesTo(log, n, m),
         NEW t, NEW g, OfGroup(more, t, g), Name(t, n2, m2)
  PROVE  NamesTo(log \o more, n2, m2)
<1>1. PICK u, l : u = log \o more /\ l = Len(log) OBVIOUS
<1>2. Joined(log, more, u, l) BY <1>1, ConcatPlaces
<1>3. NamesTo(log, n2, m2) BY NamesWider
<1>4. ASSUME NEW i \in DOMAIN u PROVE Name(u[i].turn, n2, m2)
  <2>1. CASE i \in DOMAIN log
    <3>1. u[i] = log[i] BY <1>2, <2>1 DEF Joined
    <3> QED BY <1>3, <2>1, <3>1 DEF NamesTo
  <2>2. CASE i \notin DOMAIN log
    <3>1. PICK j \in DOMAIN more : i = l + j BY <1>2, <2>2 DEF Joined
    <3>2. u[i] = more[j] BY <1>2, <3>1 DEF Joined
    <3> QED BY <3>2 DEF OfGroup
  <2> QED BY <2>1, <2>2
<1> QED BY <1>1, <1>4 DEF NamesTo

\* A name that a log does not have makes a new group.
LEMMA NamesNew ==
  ASSUME NEW log, NEW n, NEW m, NamesTo(log, n, m), NEW t, ~Name(t, n, m), NEW g
  PROVE  NewGroup(log, t, g)
BY DEF NamesTo, NewGroup

\* Appending to a projection gives it every row.
LEMMA HoldsAppended ==
  ASSUME NEW projection \in Seq(Nat), NEW log \in Seq(RowSet), NEW i \in DOMAIN log,
         NEW n, log[i].turn = n
  PROVE  Holds(Appended(projection, Len(log)), log, n)
<1>1. PICK l \in Nat : l = Len(log) BY LenProperties
<1>2. i \in 1 .. l BY <1>1, LenProperties
<1>3. PICK p : p = Appended(projection, l) OBVIOUS
<1>4. i \in ToSet(p) BY <1>2, <1>3, AppendedHas
<1>5. PICK k \in DOMAIN p : p[k] = i BY <1>4 DEF ToSet
<1> QED BY <1>1, <1>3, <1>5 DEF Holds

\* What is appended comes last.
LEMMA AppendedEnds ==
  ASSUME NEW projection \in Seq(Nat), NEW n \in Nat, n # 0, n \notin ToSet(projection),
         NEW p, p = Appended(projection, n)
  PROVE  p \in Seq(Nat) /\ p # <<>> /\ p[Len(p)] = n
<1>1. PICK S : S = (1 .. n) \ ToSet(projection) OBVIOUS
<1>2. PICK f : f = Ascending(S) OBVIOUS
<1>3. S \in SUBSET (1 .. n) /\ n \in S BY <1>1
<1>4. f \in Seq(Nat) BY <1>2, <1>3, AscendingNat
<1>5. f \in Seq(S) BY <1>2, <1>3, AscendingEnumerates
<1>6. Orders(f, S) BY <1>2, <1>3, AscendingOrders
<1>7. PICK q \in Nat, l \in Nat : q = Len(projection) /\ l = Len(f) BY <1>4, LenProperties
<1>8. DOMAIN f = 1 .. l BY <1>4, <1>7, LenProperties
<1>9. PICK k \in 1 .. l : f[k] = n BY <1>3, <1>6, <1>8 DEF Orders
<1>10. l \in 1 .. l /\ f[l] \in S
  <2>1. l \in 1 .. l BY <1>7, <1>9
  <2> QED BY <1>5, <1>7, <2>1, ElementOfSeq
<1>11. f[l] = n
  <2>1. CASE k = l BY <1>9, <2>1
  <2>2. CASE k # l
    <3>1. k < l BY <1>7, <1>9, <2>2
    <3>2. n < f[l] BY <1>6, <1>8, <1>9, <1>10, <3>1 DEF Orders
    <3>3. f[l] \in 1 .. n BY <1>3, <1>10
    <3> QED BY <3>2, <3>3
  <2> QED BY <2>1, <2>2
<1>12. p = projection \o f BY <1>1, <1>2 DEF Appended
<1>13. p \in Seq(Nat) /\ Len(p) = q + l BY <1>4, <1>7, <1>12, ConcatProperties
<1>14. Joined(projection, f, p, q) BY <1>4, <1>7, <1>12, ConcatPlaces
<1>15. q + l \in DOMAIN p /\ p[q + l] = f[l] BY <1>8, <1>10, <1>14 DEF Joined
<1>16. p # <<>> BY <1>15
<1> QED BY <1>11, <1>13, <1>15, <1>16

(* What may be evicted does not depend on labels. *)

LEMMA EvictableAlike ==
  ASSUME NEW ms \in Seq(MessageSet), NEW new \in Seq(MessageSet), Len(new) = Len(ms),
         \A k \in DOMAIN ms : new[k].id = ms[k].id /\ new[k].consumed = ms[k].consumed
  PROVE  Evictable(new) = Evictable(ms)
<1>1. PICK n \in Nat : n = Len(ms) BY LenProperties
<1>2. DOMAIN ms = 1 .. n /\ DOMAIN new = 1 .. n BY <1>1, LenProperties
<1>3. Ids(new) = Ids(ms) BY <1>2 DEF Ids
<1>4. Consumed(new) = Consumed(ms) BY <1>2 DEF Consumed
<1>5. ASSUME NEW id \in Ids(ms) PROVE Start(new, id) = Start(ms, id)
  <2>1. PICK a, b : a = Start(new, id) /\ b = Start(ms, id) OBVIOUS
  <2>2. /\ b \in 1 .. n /\ ms[b].id = id
        /\ \A j \in 1 .. n : j < b => ms[j].id # id
    BY <1>2, <2>1, StartIs
  <2>3. /\ a \in 1 .. n /\ new[a].id = id
        /\ \A j \in 1 .. n : j < a => new[j].id # id
    <3>1. id \in Ids(new) BY <1>3
    <3> QED BY <1>2, <2>1, <3>1, StartIs
  <2>4. ms[a].id = id /\ new[b].id = id BY <1>2, <2>2, <2>3
  <2>5. ~(a < b) /\ ~(b < a) BY <2>2, <2>3, <2>4
  <2>6. a = b BY <2>2, <2>3, <2>5
  <2> QED BY <2>1, <2>6
<1>6. Recent(new) = Recent(ms)
  <2>1. ASSUME NEW id \in Ids(ms)
        PROVE  {j \in Ids(new) : Start(new, j) > Start(new, id)}
                 = {j \in Ids(ms) : Start(ms, j) > Start(ms, id)}
    BY <1>3, <1>5
  <2> QED BY <1>3, <2>1 DEF Recent
<1> QED BY <1>3, <1>4, <1>6 DEF Evictable

\* A synchronization changes labels only.
LEMMA SyncedSame ==
  ASSUME NEW ms \in Seq(MessageSet), NEW projection \in Seq(Nat),
         NEW new, new = Synced(ms, projection)
  PROVE  /\ new \in Seq(MessageSet) /\ Len(new) = Len(ms) /\ DOMAIN new = DOMAIN ms
         /\ \A k \in DOMAIN ms : new[k].id = ms[k].id /\ new[k].kind = ms[k].kind
         /\ Evictable(new) = Evictable(ms)
<1>1. CASE Len(ms) # Len(projection) BY <1>1 DEF Synced
<1>2. CASE Len(ms) = Len(projection)
  <2>1. PICK n \in Nat : n = Len(ms) BY LenProperties
  <2>2. DOMAIN ms = 1 .. n BY <2>1, LenProperties
  <2> DEFINE F(k) == [ms[k] EXCEPT !.label = projection[k]]
  <2>3. new = [k \in 1 .. n |-> F(k)] BY <1>2, <2>2 DEF Synced
  <2>4. ASSUME NEW k \in 1 .. n
        PROVE  /\ F(k) \in MessageSet /\ F(k).id = ms[k].id /\ F(k).kind = ms[k].kind
               /\ F(k).consumed = ms[k].consumed
    <3>1. ms[k] \in MessageSet /\ projection[k] \in Nat BY <1>2, <2>1, ElementOfSeq
    <3> QED BY <3>1 DEF MessageSet
  <2>5. ASSUME NEW k \in 1 .. n PROVE new[k] = F(k) BY <2>3
  <2> HIDE DEF F
  <2>6. new \in Seq(MessageSet) /\ DOMAIN new = 1 .. n BY <2>3, <2>4
  <2>7. \A k \in 1 .. n : /\ new[k].id = ms[k].id /\ new[k].kind = ms[k].kind
                          /\ new[k].consumed = ms[k].consumed
    BY <2>4, <2>5
  <2>8. Len(new) = n BY <2>6, LenProperties
  <2>9. Evictable(new) = Evictable(ms) BY <2>1, <2>2, <2>6, <2>7, <2>8, EvictableAlike
  <2> QED BY <2>1, <2>2, <2>6, <2>7, <2>8, <2>9
<1> QED BY <1>1, <1>2

\* If it labels a new last message, then with the last row of the projection.
LEMMA SyncedLast ==
  ASSUME NEW ms, LastNew(ms), NEW projection \in Seq(Nat), NEW log \in Seq(RowSet), NEW n,
         log # <<>>, log[Len(log)].turn = n, projection # <<>>,
         projection[Len(projection)] = Len(log),
         NEW new, new = Synced(ms, projection), Known(new)
  PROVE  LastStays(new, log, n)
<1>1. /\ ms \in Seq(MessageSet) /\ ms # <<>> /\ ms[Len(ms)].label = 0
      /\ ms[Len(ms)].kind # "context_summary" /\ ms[Len(ms)].id \notin Evictable(ms)
  BY DEF LastNew
<1>2. PICK l \in Nat : l = Len(ms) /\ l # 0 /\ DOMAIN ms = 1 .. l
  <2>1. Len(ms) \in Nat /\ Len(ms) # 0 /\ DOMAIN ms = 1 .. Len(ms)
    BY <1>1, EmptySeq, LenProperties
  <2> QED BY <2>1
<1>3. l \in 1 .. l BY <1>2
<1>4. /\ new \in Seq(MessageSet) /\ Len(new) = l /\ DOMAIN new = 1 .. l
      /\ new[l].id = ms[l].id /\ new[l].kind = ms[l].kind
      /\ Evictable(new) = Evictable(ms)
  BY <1>1, <1>2, <1>3, SyncedSame
<1>5. Len(ms) = Len(projection)
  <2>1. ASSUME Len(ms) # Len(projection) PROVE FALSE
    <3>1. new = ms BY <2>1 DEF Synced
    <3>2. new[l].label = 0 BY <1>1, <1>2, <3>1
    <3> QED BY <1>3, <1>4, <3>2 DEF Known
  <2> QED BY <2>1
<1>6. new[l].label = Len(log)
  <2>1. new[l] = [ms[l] EXCEPT !.label = projection[l]] BY <1>2, <1>3, <1>5 DEF Synced
  <2>2. ms[l] \in MessageSet BY <1>1, <1>2, <1>3, ElementOfSeq
  <2>3. new[l].label = projection[l] BY <2>1, <2>2 DEF MessageSet
  <2> QED BY <1>2, <1>5, <2>3
<1>7. new # <<>> BY <1>3, <1>4
<1> QED BY <1>1, <1>2, <1>4, <1>6, <1>7 DEF LastStays

(* Every step keeps it. *)

LEMMA TurnIs ==
  ASSUME LogInv
  PROVE  /\ turn \in Nat /\ turn \in Int /\ turn - 1 \in Int /\ turn - 1 <= turn /\ turn <= turn
         /\ turn <= MaxTurns /\ MaxTurns \in Nat /\ turn \in 0 .. MaxTurns
         /\ pc \in InTurn => turn # 0 /\ turn - 1 \in Nat
         /\ rows \in Seq(RowSet) /\ refs \in Seq(Nat) /\ batch \in Seq(BatchSet) /\ Len(batch) <= 1
         /\ mem \in Seq(MessageSet)
<1>1. MaxTurns \in Nat BY LogAssumption
<1>2. turn \in 0 .. MaxTurns /\ (pc \in InTurn => turn # 0) BY DEF LogInv, Typed
<1>3. turn \in Nat /\ turn <= MaxTurns BY <1>1, <1>2
<1>4. pc \in InTurn => turn # 0 /\ turn - 1 \in Nat BY <1>2, <1>3
<1>5. turn \in Int /\ turn - 1 \in Int /\ turn - 1 <= turn /\ turn <= turn BY <1>3
<1> QED BY <1>1, <1>2, <1>3, <1>4, <1>5 DEF LogInv, Typed

\* In a turn its name is the last one, and no other group of it but input and summary is there.
LEMMA TurnNew ==
  ASSUME LogInv, CutKept, pc \in InTurn
  PROVE  /\ NamesTo(rows, turn, turn - 1)
         /\ \A g : g \notin {"user_input", "context_summary"} => NewGroup(rows, turn, g)
<1>1. /\ turn \in Nat /\ turn - 1 \in Nat /\ turn - 1 \in Int /\ turn # 0 /\ turn - 1 <= turn
      /\ turn <= MaxTurns /\ MaxTurns \in Nat
  BY TurnIs
<1>2. CASE pc = "begun"
  <2>1. NamesTo(rows, turn - 1, turn - 1) BY <1>2 DEF CutKept
  <2>2. turn - 1 <= turn - 1 BY <1>1
  <2>3. NamesTo(rows, turn, turn - 1) BY <1>1, <2>1, <2>2, NamesWider
  <2>4. ~Name(turn, turn - 1, turn - 1) BY <1>1 DEF Name
  <2>5. \A g : NewGroup(rows, turn, g) BY <2>1, <2>4, NamesNew
  <2> QED BY <2>3, <2>5
<1>3. CASE pc # "begun"
  <2>1. CutOpen BY <1>3 DEF CutKept, InTurn
  <2> QED BY <2>1 DEF CutOpen, Opened, NewGroup
<1> QED BY <1>2, <1>3

LEMMA BeginCut ==
  ASSUME LogInv, CutKept, BeginTurn PROVE CutKept'
<1>1. /\ pc = "idle" /\ turn' = turn + 1 /\ pc' \in {"begun", "refused"} /\ batch' = <<>>
      /\ UNCHANGED <<rows, refs, mem, checkpoint, resumes, cause, evicted>>
  BY DEF BeginTurn
<1>2. turn \in Nat /\ turn \in 0 .. MaxTurns /\ turn' - 1 = turn BY <1>1, TurnIs
<1>3. NamesTo(rows, turn, turn) /\ Holds(refs, rows, turn) BY <1>1 DEF CutKept, CutIdle
<1>4. NamesTo(rows', turn' - 1, turn' - 1) BY <1>1, <1>2, <1>3
<1>5. CutOver' BY <1>1, <1>2, <1>3 DEF CutOver
<1>6. SingleTools(batch') BY <1>1 DEF SingleTools
<1> QED BY <1>1, <1>4, <1>5, <1>6 DEF CutKept

LEMMA AppendUserCut ==
  ASSUME LogInv, CutKept, AppendUser PROVE CutKept'
<1>1. PICK x : x = Grouped(<<Row(turn, "user_input", NoCall, 0, "none")>>) OBVIOUS
<1>2. /\ pc = "begun" /\ rows' = rows \o x /\ pc' = "open"
      /\ UNCHANGED <<turn, mem, retained, optimized, batch, checkpoint, resumes, cause, evicted>>
  BY <1>1 DEF AppendUser, UserRows
<1>3. pc \in InTurn BY <1>2 DEF InTurn
<1>4. /\ turn \in Nat /\ turn - 1 \in Nat /\ turn - 1 \in Int /\ turn # 0 /\ turn - 1 <= turn
      /\ turn <= MaxTurns /\ MaxTurns \in Nat /\ rows \in Seq(RowSet)
  BY <1>3, TurnIs
<1>5. x \in Seq(RowSet) /\ CutValid(x) /\ OfGroup(x, turn, "user_input")
  <2>1. "user_input" \in Kinds BY DEF Kinds
  <2> QED BY <1>1, <1>4, <2>1, NoCallIs, OneRowCut
<1>6. NamesTo(rows, turn - 1, turn - 1) /\ CutValid(rows) BY <1>2 DEF CutKept
<1>7. \A g : NewGroup(rows, turn, g)
  <2>1. ~Name(turn, turn - 1, turn - 1) BY <1>4 DEF Name
  <2> QED BY <1>6, <2>1, NamesNew
<1>8. /\ CutValid(rows \o x)
      /\ \A h : h # "user_input" => NewGroup(rows \o x, turn, h)
  BY <1>4, <1>5, <1>6, <1>7, GroupAdded
<1>9. NamesTo(rows \o x, turn, turn - 1)
  <2>1. Name(turn, turn, turn - 1) /\ turn - 1 <= turn - 1 BY <1>4 DEF Name
  <2> QED BY <1>4, <1>5, <1>6, <2>1, NamesGrow
<1>10. Opened(rows', turn, retained')
  <2>1. \A i \in DOMAIN rows' : rows'[i].turn = turn => rows'[i].group = "user_input"
    BY <1>2, <1>8 DEF NewGroup
  <2> QED BY <2>1 DEF Opened
<1>11. CutOpen' BY <1>2, <1>9, <1>10 DEF CutOpen
<1>12. CutValid(rows') BY <1>2, <1>8
<1> QED BY <1>2, <1>11, <1>12 DEF CutKept

LEMMA OmitCut ==
  ASSUME LogInv, CutKept, OmitInTurn PROVE CutKept'
<1>1. /\ pc = "open" /\ pc' = "open" /\ Omittable(retained) # {}
      /\ UNCHANGED <<turn, rows, mem, batch, checkpoint, resumes, evicted>>
  BY DEF OmitInTurn
<1>2. Evictable(retained) # {} BY <1>1 DEF Omittable
<1>3. NamesTo(rows, turn, turn - 1) /\ Opened(rows, turn, retained)
  BY <1>1 DEF CutKept, CutOpen
<1>4. Opened(rows', turn', retained') BY <1>1, <1>2, <1>3 DEF Opened
<1>5. CutOpen' BY <1>1, <1>3, <1>4 DEF CutOpen
<1> QED BY <1>1, <1>5 DEF CutKept

LEMMA CompressCut ==
  ASSUME LogInv, CutKept, CompressInTurn PROVE CutKept'
<1>1. PICK x, log, new : /\ x = Grouped(<<Row(turn, "context_summary", NoCall, 0, "none")>>)
                         /\ log = rows \o x /\ new = Compress(retained, Len(log))
  OBVIOUS
<1>2. /\ pc = "open" /\ pc' = "open" /\ rows' = log /\ retained' = new
      /\ Evictable(retained) # {} /\ KnowsRows(retained)
      /\ UNCHANGED <<turn, mem, batch, checkpoint, resumes>>
  BY <1>1 DEF CompressInTurn, SummaryRows
<1>3. pc \in InTurn BY <1>2 DEF InTurn
<1>4. /\ turn \in Nat /\ turn - 1 \in Nat /\ turn - 1 \in Int /\ turn # 0 /\ turn <= turn
      /\ turn <= MaxTurns /\ MaxTurns \in Nat /\ rows \in Seq(RowSet)
  BY <1>3, TurnIs
<1>5. x \in Seq(RowSet) /\ CutValid(x) /\ OfGroup(x, turn, "context_summary")
  <2>1. "context_summary" \in Kinds BY DEF Kinds
  <2> QED BY <1>1, <1>4, <2>1, NoCallIs, OneRowCut
<1>6. /\ NamesTo(rows, turn, turn - 1) /\ CutValid(rows)
      /\ \A i \in DOMAIN rows : rows[i].turn = turn => rows[i].group = "user_input"
  BY <1>2 DEF CutKept, CutOpen, Opened
<1>7. \A g : g # "user_input" => NewGroup(rows, turn, g) BY <1>6 DEF NewGroup
<1>8. /\ CutValid(log)
      /\ \A h : h \notin {"context_summary", "user_input"} => NewGroup(log, turn, h)
  BY <1>1, <1>4, <1>5, <1>6, <1>7, GroupAdded
<1>9. NamesTo(log, turn, turn - 1)
  <2>1. Name(turn, turn, turn - 1) /\ turn - 1 <= turn - 1 BY <1>4 DEF Name
  <2> QED BY <1>1, <1>4, <1>5, <1>6, <2>1, NamesGrow
<1>10. Evictable(new) = {}
  <2>1. Past = turn - 1 BY <1>3 DEF Past
  <2>2. retained \in Seq(MessageSet) /\ Fits(retained, rows, turn - 1, turn - 1)
    BY <1>3, <2>1 DEF LogInv, Typed, MessagesFit
  <2>3. log = rows \o Grouped(SummaryRows(turn)) BY <1>1 DEF SummaryRows
  <2> QED BY <1>1, <1>2, <1>4, <2>2, <2>3, CompressionKept
<1>11. Opened(log, turn, new) BY <1>8, <1>10 DEF Opened, NewGroup
<1>12. CutOpen' BY <1>2, <1>9, <1>11 DEF CutOpen
<1> QED BY <1>2, <1>8, <1>12 DEF CutKept

LEMMA RunToolCut ==
  ASSUME LogInv, CutKept, RunTool PROVE CutKept'
<1>1. /\ pc = "open" /\ pc' \in {"open", "denied"}
      /\ UNCHANGED <<turn, rows, refs, mem, retained, optimized, checkpoint, resumes, cause, evicted>>
  BY DEF RunTool
<1>2. PICK status \in {"ok", "denied"} :
         batch' = <<[id |-> [turn |-> IF status = "ok" THEN turn ELSE 0, call |-> 1],
                     tools |-> <<status>>]>>
  BY DEF RunTool
<1>3. SingleTools(batch')
  <2>1. PICK b : b = [id |-> [turn |-> IF status = "ok" THEN turn ELSE 0, call |-> 1],
                      tools |-> <<status>>]
    OBVIOUS
  <2>2. Len(b.tools) = 1 BY <2>1
  <2>3. batch' = <<b>> BY <1>2, <2>1
  <2> QED BY <2>2, <2>3 DEF SingleTools
<1>4. CutOpen' BY <1>1 DEF CutKept, CutOpen
<1> QED BY <1>1, <1>3, <1>4 DEF CutKept

\* The tools of a turn are a new group of it.
LEMMA ToolsCut ==
  ASSUME LogInv, CutKept, pc \in InTurn, NEW tools, tools = ToolLoopRows(turn, batch),
         NEW w \in {<<>>, tools}, NEW log, log = rows \o w
  PROVE  /\ log \in Seq(RowSet) /\ Extends(log, rows) /\ CutValid(log)
         /\ NamesTo(log, turn, turn - 1)
         /\ \A g : g \notin {"user_input", "context_summary", "tool-loop"} =>
               NewGroup(log, turn, g)
<1>1. /\ turn \in Nat /\ turn - 1 \in Int /\ turn # 0 /\ turn <= turn /\ turn <= MaxTurns
      /\ rows \in Seq(RowSet) /\ batch \in Seq(BatchSet) /\ Len(batch) <= 1
      /\ turn \in 0 .. MaxTurns
  BY TurnIs
<1>2. /\ CutValid(rows) /\ NamesTo(rows, turn, turn - 1)
      /\ \A g : g \notin {"user_input", "context_summary"} => NewGroup(rows, turn, g)
  BY TurnNew DEF CutKept
<1>3. CASE w = <<>>
  <2>1. log = rows BY <1>1, <1>3, ConcatEmptySeq
  <2> QED BY <1>1, <1>2, <2>1, ExtendsItself
<1>4. CASE w = tools
  <2>1. tools \in Seq(RowSet)
    <3>1. BatchNamed(batch, turn) BY DEF LogInv, RowsNamed
    <3> QED BY <1>1, <3>1, ToolRows
  <2>2. CutValid(tools) /\ OfGroup(tools, turn, "tool-loop")
    <3>1. AdaptedSingly(batch) BY DEF AdaptedSingly, CutKept, SingleTools
    <3> QED BY <1>1, <3>1, LoopCut
  <2>3. NewGroup(rows, turn, "tool-loop") BY <1>2
  <2>4. /\ CutValid(log)
        /\ \A h : h # "tool-loop" /\ NewGroup(rows, turn, h) => NewGroup(log, turn, h)
    BY <1>1, <1>2, <1>4, <2>1, <2>2, <2>3, GroupAdded
  <2>5. NamesTo(log, turn, turn - 1)
    <3>1. Name(turn, turn, turn - 1) /\ turn - 1 <= turn - 1 BY <1>1 DEF Name
    <3> QED BY <1>1, <1>2, <1>4, <2>1, <2>2, <3>1, NamesGrow
  <2>6. log \in Seq(RowSet) /\ Extends(log, rows) BY <1>1, <1>4, <2>1, LogExtends
  <2> QED BY <1>2, <2>4, <2>5, <2>6
<1> QED BY <1>3, <1>4

\* The closing row of a turn is another one; it is the last of the log, of the projection
\* and of memory.
LEMMA ClosedCut ==
  ASSUME LogInv, LogInv', CutKept, pc \in InTurn, NEW log \in Seq(RowSet), Extends(log, rows),
         CutValid(log), NamesTo(log, turn, turn - 1),
         NEW kind \in {"assistant_output", "failure_fact", "cancellation_fact"},
         NewGroup(log, turn, kind), NEW id \in CallId,
         NEW x, x = Grouped(<<Row(turn, kind, id, 0, "none")>>),
         rows' = log \o x, refs' = Appended(refs, Len(rows')),
         NEW ms, LastNew(ms), mem' = Synced(ms, refs'),
         pc' = "idle", UNCHANGED <<turn, batch>>
  PROVE  CutKept'
<1>1. /\ turn \in Nat /\ turn - 1 \in Int /\ turn # 0 /\ turn <= turn /\ turn <= MaxTurns
      /\ turn - 1 <= turn /\ rows \in Seq(RowSet) /\ refs \in Seq(Nat)
  BY TurnIs
<1>2. x \in Seq(RowSet) /\ Len(x) = 1 /\ CutValid(x) /\ OfGroup(x, turn, kind)
  <2>1. kind \in Kinds /\ kind \notin {"assistant_tool_call", "tool_result"} BY DEF Kinds
  <2> QED BY <1>1, <2>1, OneRowCut
<1>3. PICK log2 : log2 = log \o x OBVIOUS
<1>4. PICK l \in Nat : l = Len(log) /\ Len(rows) <= l
  <2>1. Len(log) \in Nat /\ Len(rows) <= Len(log) BY DEF Extends
  <2> QED BY <2>1
<1>5. log2 \in Seq(RowSet) /\ Len(log2) = l + 1 /\ log2[l + 1] = x[1] /\ l + 1 \in DOMAIN log2
  <2>1. log2 \in Seq(RowSet) /\ Len(log2) = l + 1 BY <1>2, <1>3, <1>4, LogExtends
  <2>2. Joined(log, x, log2, l) BY <1>2, <1>3, <1>4, ConcatPlaces
  <2>3. 1 \in DOMAIN x BY <1>2, LenProperties
  <2> QED BY <2>1, <2>2, <2>3 DEF Joined
<1>6. log2[l + 1].turn = turn
  <2>1. 1 \in DOMAIN x BY <1>2, LenProperties
  <2> QED BY <1>2, <1>5, <2>1 DEF OfGroup
<1>7. CutValid(log2) BY <1>2, <1>3, GroupAdded
<1>8. NamesTo(log2, turn, turn - 1)
  <2>1. Name(turn, turn, turn - 1) /\ turn - 1 <= turn - 1 BY <1>1 DEF Name
  <2> QED BY <1>1, <1>2, <1>3, <2>1, NamesGrow
<1>9. NamesTo(log2, turn, turn) BY <1>1, <1>8, NamesWider
<1>10. PICK projection : projection = refs' OBVIOUS
<1>11. projection = Appended(refs, Len(log2)) BY <1>3, <1>10
<1>12. Holds(projection, log2, turn) BY <1>1, <1>5, <1>6, <1>11, HoldsAppended
<1>13. projection \in Seq(Nat) /\ projection # <<>> /\ projection[Len(projection)] = Len(log2)
  <2>1. Sound(refs, rows) BY DEF LogInv, MessagesFit
  <2>2. \A v \in ToSet(refs) : v \in 1 .. Len(rows) BY <2>1 DEF Sound, ToSet
  <2>3. Len(rows) \in Nat BY <1>1, LenProperties
  <2>4. l + 1 \notin 1 .. Len(rows) /\ l + 1 \in Nat /\ l + 1 # 0 BY <1>4, <2>3
  <2>5. Len(log2) \notin ToSet(refs) /\ Len(log2) \in Nat /\ Len(log2) # 0 BY <1>5, <2>2, <2>4
  <2> QED BY <1>1, <1>11, <2>5, AppendedEnds
<1>14. PICK new : new = mem' OBVIOUS
<1>15. Known(new) => LastStays(new, log2, turn)
  <2>1. new = Synced(ms, projection) BY <1>10, <1>14
  <2>2. log2 # <<>> BY <1>5
  <2> QED BY <1>5, <1>6, <1>13, <2>1, <2>2, SyncedLast
<1>16. CutIdle' BY <1>3, <1>8, <1>9, <1>10, <1>12, <1>14, <1>15 DEF CutIdle
<1>17. SingleTools(batch') BY DEF CutKept
<1> QED BY <1>3, <1>7, <1>16, <1>17 DEF CutKept

LEMMA EndCut ==
  ASSUME LogInv, LogInv', CutKept, pc \in {"open", "denied"},
         NEW kind \in {"assistant_output", "failure_fact", "cancellation_fact"},
         NEW id, id = IF kind = "assistant_output" THEN Final(turn) ELSE NoCall,
         NEW closing, closing = <<Row(turn, kind, id, 0, "none")>>,
         NEW base \in {Base, mem}, EndTurn(base, closing)
  PROVE  CutKept'
<1>1. pc \in InTurn BY DEF InTurn
<1>2. PICK tools, log, x : /\ tools = ToolLoopRows(turn, batch) /\ log = rows \o tools
                           /\ x = Grouped(closing)
  OBVIOUS
<1>3. /\ log \in Seq(RowSet) /\ Extends(log, rows) /\ CutValid(log)
      /\ NamesTo(log, turn, turn - 1)
      /\ \A g : g \notin {"user_input", "context_summary", "tool-loop"} => NewGroup(log, turn, g)
  <2>1. PICK w \in {<<>>, tools} : w = tools OBVIOUS
  <2>2. log = rows \o w BY <1>2, <2>1
  <2> QED BY <1>1, <1>2, <2>2, ToolsCut
<1>4. NewGroup(log, turn, kind) BY <1>3
<1>5. id \in CallId
  <2>1. turn \in Nat BY TurnIs
  <2> QED BY <2>1, NoCallIs DEF Final, CallId
<1>6. /\ rows' = log \o x /\ refs' = Appended(refs, Len(rows')) /\ pc' = "idle"
      /\ UNCHANGED <<turn, batch>>
  BY <1>2 DEF EndTurn
<1>7. PICK ms : LastNew(ms) /\ mem' = Synced(ms, refs') BY EndKept
<1>8. x = Grouped(<<Row(turn, kind, id, 0, "none")>>) BY <1>2
<1> QED BY <1>1, <1>3, <1>4, <1>5, <1>6, <1>7, <1>8, ClosedCut

\* So does the executor's own closing row, before an interrupt.
LEMMA BeforeCut ==
  ASSUME LogInv, CutKept, pc \in InTurn, NEW w \in Before, NEW log, log = rows \o w
  PROVE  /\ log \in Seq(RowSet) /\ Extends(log, rows) /\ CutValid(log)
         /\ NamesTo(log, turn, turn - 1) /\ NewGroup(log, turn, "cancellation_fact")
<1>1. /\ turn \in Nat /\ turn - 1 \in Int /\ turn # 0 /\ turn <= turn /\ turn <= MaxTurns
      /\ rows \in Seq(RowSet)
  BY TurnIs
<1>2. PICK tools : tools = ToolLoopRows(turn, batch) OBVIOUS
<1>3. CASE w \in {<<>>, tools} BY <1>2, <1>3, ToolsCut
<1>4. ASSUME NEW kind \in {"assistant_output", "failure_fact"}, NEW id \in CallId,
             NEW y, y = Grouped(<<Row(turn, kind, id, 0, "none")>>), w = tools \o y
      PROVE  /\ log \in Seq(RowSet) /\ Extends(log, rows) /\ CutValid(log)
             /\ NamesTo(log, turn, turn - 1) /\ NewGroup(log, turn, "cancellation_fact")
  <2>1. PICK log1 : log1 = rows \o tools OBVIOUS
  <2>2. /\ log1 \in Seq(RowSet) /\ Extends(log1, rows) /\ CutValid(log1)
        /\ NamesTo(log1, turn, turn - 1)
        /\ \A g : g \notin {"user_input", "context_summary", "tool-loop"} =>
              NewGroup(log1, turn, g)
    <3>1. PICK v \in {<<>>, tools} : v = tools OBVIOUS
    <3>2. log1 = rows \o v BY <2>1, <3>1
    <3> QED BY <1>2, <3>2, ToolsCut
  <2>3. y \in Seq(RowSet) /\ CutValid(y) /\ OfGroup(y, turn, kind)
    <3>1. kind \in Kinds /\ kind \notin {"assistant_tool_call", "tool_result"} BY DEF Kinds
    <3> QED BY <1>1, <1>4, <3>1, OneRowCut
  <2>4. tools \in Seq(RowSet)
    <3>1. tools \in Before BY <1>2 DEF Before
    <3> QED BY <3>1, BeforeNamed DEF NoFact
  <2>5. log = log1 \o y
    <3>1. (rows \o tools) \o y = rows \o (tools \o y) BY <1>1, <2>3, <2>4, ConcatAssociative
    <3> QED BY <1>4, <2>1, <3>1
  <2>6. log \in Seq(RowSet) /\ Extends(log, log1) BY <2>2, <2>3, <2>5, LogExtends
  <2>7. Extends(log, rows) BY <2>2, <2>6, ExtendsTwice
  <2>8. NewGroup(log1, turn, kind) /\ NewGroup(log1, turn, "cancellation_fact") BY <2>2
  <2>9. CutValid(log) /\ NewGroup(log, turn, "cancellation_fact")
    BY <1>1, <2>2, <2>3, <2>5, <2>8, GroupAdded
  <2>10. NamesTo(log, turn, turn - 1)
    <3>1. Name(turn, turn, turn - 1) /\ turn - 1 <= turn - 1 BY <1>1 DEF Name
    <3> QED BY <1>1, <2>2, <2>3, <2>5, <3>1, NamesGrow
  <2> QED BY <2>6, <2>7, <2>9, <2>10
<1>5. Final(turn) \in CallId /\ NoCall \in CallId BY <1>1, NoCallIs DEF Final, CallId
<1>6. CASE w = tools \o Grouped(FinalRows(turn))
  <2>1. PICK kind, id : kind = "assistant_output" /\ id = Final(turn) OBVIOUS
  <2>2. FinalRows(turn) = <<Row(turn, kind, id, 0, "none")>> BY <2>1 DEF FinalRows
  <2> QED BY <1>4, <1>5, <1>6, <2>1, <2>2
<1>7. CASE w = tools \o Grouped(FactRows(turn, "failure_fact"))
  <2>1. PICK kind, id : kind = "failure_fact" /\ id = NoCall OBVIOUS
  <2>2. FactRows(turn, "failure_fact") = <<Row(turn, kind, id, 0, "none")>>
    BY <2>1 DEF FactRows
  <2> QED BY <1>4, <1>5, <1>7, <2>1, <2>2
<1> QED BY <1>2, <1>3, <1>6, <1>7 DEF Before

LEMMA InterruptCut ==
  ASSUME LogInv, CutKept, InterruptTurn PROVE CutKept'
<1>1. pc \in InTurn /\ pc' = "idle" /\ UNCHANGED <<turn, batch>> BY DEF InterruptTurn, InTurn
<1>2. PICK x : x = Grouped(FactRows(turn, "cancellation_fact")) OBVIOUS
<1>3. PICK w \in Before : rows' = rows \o w \o x BY <1>2, InterruptKept
<1>4. PICK ms : LastNew(ms) /\ mem' = Synced(ms, refs') BY InterruptKept
<1>5. LogInv' BY InterruptKept
<1>6. PICK log : log = rows \o w OBVIOUS
<1>7. /\ log \in Seq(RowSet) /\ Extends(log, rows) /\ CutValid(log)
      /\ NamesTo(log, turn, turn - 1) /\ NewGroup(log, turn, "cancellation_fact")
  BY <1>1, <1>6, BeforeCut
<1>8. refs' = Appended(refs, Len(rows')) BY DEF InterruptTurn
<1>9. x = Grouped(<<Row(turn, "cancellation_fact", NoCall, 0, "none")>>) BY <1>2 DEF FactRows
<1>10. rows' = log \o x BY <1>3, <1>6
<1>11. PICK kind : kind = "cancellation_fact" OBVIOUS
<1>12. /\ kind \in {"assistant_output", "failure_fact", "cancellation_fact"}
       /\ NewGroup(log, turn, kind) /\ x = Grouped(<<Row(turn, kind, NoCall, 0, "none")>>)
  BY <1>7, <1>9, <1>11
<1> QED BY <1>1, <1>4, <1>5, <1>7, <1>8, <1>10, <1>12, NoCallIs, ClosedCut

\* An aborted turn that was not compacted leaves its input as the last row of all.
LEMMA AbortCut ==
  ASSUME LogInv, CutKept, AbortTurn, "compaction" \notin cause PROVE CutKept'
<1>1. /\ pc = "open" /\ pc' = "idle" /\ Evictable(retained) # {}
      /\ UNCHANGED <<turn, rows, refs, batch>>
  BY DEF AbortTurn, Unwritten
<1>2. pc \in InTurn BY <1>1 DEF InTurn
<1>3. /\ turn \in Nat /\ turn - 1 \in Int /\ turn # 0 /\ turn <= turn /\ turn - 1 <= turn
      /\ rows \in Seq(RowSet) /\ refs \in Seq(Nat)
  BY <1>2, TurnIs
<1>4. CutValid(rows) /\ SingleTools(batch) /\ NamesTo(rows, turn, turn - 1)
  BY <1>1 DEF CutKept, CutOpen
<1>5. NamesTo(rows, turn, turn) BY <1>3, <1>4, NamesWider
<1>6. refs = Identity(Len(rows)) /\ InputLast(rows, turn)
  BY <1>1 DEF LogInv, NeverCompacted
<1>7. PICK l \in Nat : l = Len(rows) /\ l # 0 /\ l \in 1 .. l /\ rows[l].turn = turn /\ rows # <<>>
  <2>1. Len(rows) \in Nat /\ Len(rows) # 0 /\ rows[Len(rows)].turn = turn
    BY <1>3, <1>6, LenProperties DEF InputLast
  <2>2. Len(rows) \in 1 .. Len(rows) BY <2>1
  <2>3. rows # <<>> BY <2>1
  <2> QED BY <2>1, <2>2, <2>3
<1>8. DOMAIN refs = 1 .. l /\ Len(refs) = l /\ refs[l] = l /\ refs # <<>>
  <2>1. refs = [i \in 1 .. l |-> i] BY <1>6, <1>7 DEF Identity
  <2>2. DOMAIN refs = 1 .. l /\ refs[l] = l BY <1>7, <2>1
  <2>3. Len(refs) = l BY <1>3, <2>2, LenProperties
  <2>4. refs # <<>> BY <1>7, <2>2
  <2> QED BY <2>2, <2>3, <2>4
<1>9. Holds(refs, rows, turn) BY <1>7, <1>8 DEF Holds
<1>10. PICK ms : LastNew(ms) /\ mem' = Synced(ms, refs) BY AbortKept
<1>11. PICK new : new = mem' OBVIOUS
<1>12. Known(new) => LastStays(new, rows, turn)
  BY <1>3, <1>7, <1>8, <1>10, <1>11, SyncedLast
<1>13. CutIdle' BY <1>1, <1>4, <1>5, <1>9, <1>11, <1>12 DEF CutIdle
<1> QED BY <1>1, <1>4, <1>13 DEF CutKept

\* The name of a manual compression is new.
LEMMA ManualNames ==
  ASSUME LogInv, turn # 0, CutValid(rows), NamesTo(rows, turn, turn - 1),
         NEW log, log = rows \o Grouped(SummaryRows(MaxTurns + turn))
  PROVE  CutValid(log) /\ NamesTo(log, turn, turn)
<1>1. /\ turn \in Nat /\ turn - 1 \in Int /\ turn \in Int /\ turn - 1 <= turn /\ turn <= turn
      /\ turn <= MaxTurns /\ MaxTurns \in Nat /\ rows \in Seq(RowSet)
  BY TurnIs
<1>2. PICK n \in Nat : n = MaxTurns + turn BY <1>1
<1>3. PICK x : x = Grouped(<<Row(n, "context_summary", NoCall, 0, "none")>>) OBVIOUS
<1>4. log = rows \o x BY <1>2, <1>3 DEF SummaryRows
<1>5. x \in Seq(RowSet) /\ CutValid(x) /\ OfGroup(x, n, "context_summary")
  <2>1. "context_summary" \in Kinds BY DEF Kinds
  <2> QED BY <1>3, <2>1, NoCallIs, OneRowCut
<1>6. ~Name(n, turn, turn - 1) /\ Name(n, turn, turn) BY <1>1, <1>2 DEF Name
<1>7. NewGroup(rows, n, "context_summary") BY <1>6, NamesNew
<1>8. CutValid(log) BY <1>1, <1>4, <1>5, <1>7, GroupAdded
<1>9. NamesTo(log, turn, turn) BY <1>1, <1>4, <1>5, <1>6, NamesGrow
<1> QED BY <1>8, <1>9

\* The last message outlives a compression, and with it the name of its turn.
LEMMA CompressHolds ==
  ASSUME NEW ms \in Seq(MessageSet), Evictable(ms) # {}, NEW log \in Seq(RowSet), NEW n,
         LastStays(ms, log, n), NEW row \in Nat, NEW log2, Extends(log2, log)
  PROVE  Holds(Overwritten(Compress(ms, row), row), log2, n)
<1>1. PICK new : new = Compress(ms, row) OBVIOUS
<1>2. PICK f : Shortened(f, new, ms, row) /\ InOrder(f, new, ms) BY <1>1, CompressShortens
<1>3. PICK l : l = Len(ms) /\ l \in DOMAIN ms /\ l # 0
  <2>1. Len(ms) \in Nat /\ Len(ms) # 0 /\ DOMAIN ms = 1 .. Len(ms)
    BY EmptySeq, LenProperties DEF LastStays
  <2>2. Len(ms) \in 1 .. Len(ms) BY <2>1
  <2> QED BY <2>1, <2>2
<1>4. /\ ms[l].label = Len(log) /\ ms[l].kind # "context_summary" /\ l \notin Gone(ms)
      /\ log[Len(log)].turn = n
  BY <1>3 DEF LastStays, Gone
<1>5. PICK k \in DOMAIN new : f[k] = l BY <1>2, <1>3, <1>4 DEF InOrder
<1>6. new[k] = ms[l] BY <1>2, <1>3, <1>5 DEF Shortened
<1>7. PICK p : p = Overwritten(new, row) OBVIOUS
<1>8. k \in DOMAIN p /\ p[k] = Len(log) BY <1>4, <1>6, <1>7 DEF Overwritten
<1>9. log2[Len(log)] = log[Len(log)]
  <2>1. Len(log) # 0 /\ Len(log) \in Nat BY EmptySeq, LenProperties DEF LastStays
  <2>2. Len(log) \in 1 .. Len(log) BY <2>1
  <2> QED BY <2>2 DEF Extends
<1> QED BY <1>1, <1>4, <1>7, <1>8, <1>9 DEF Holds

LEMMA ManualCut ==
  ASSUME LogInv, LogInv', CutKept, ManualCompress PROVE CutKept'
<1>1. PICK log, new : /\ log = rows \o Grouped(SummaryRows(MaxTurns + turn))
                      /\ new = Compress(mem, Len(log))
  OBVIOUS
<1>2. /\ pc = "idle" /\ Evictable(mem) # {} /\ rows' = log
      /\ \/ /\ KnowsRows(mem) /\ refs' = Overwritten(new, Len(log))
            /\ mem' = Synced(new, refs') /\ pc' = "idle"
         \/ refs' = Appended(refs, Len(log)) /\ pc' = "refused"
      /\ UNCHANGED <<turn, batch>>
  BY <1>1 DEF ManualCompress
<1>3. /\ turn \in Nat /\ turn \in 0 .. MaxTurns /\ MaxTurns + turn \in Nat
      /\ rows \in Seq(RowSet) /\ refs \in Seq(Nat) /\ mem \in Seq(MessageSet)
  BY TurnIs, LogAssumption
<1>4. Fits(mem, rows, turn, turn)
  <2>1. Past = turn BY <1>2 DEF Past, InTurn
  <2> QED BY <2>1 DEF LogInv, MessagesFit
<1>5. turn # 0
  <2>1. \A i \in DOMAIN mem : Shaped(mem[i]) /\ mem[i].id.turn <= turn
    BY <1>4 DEF Fits, Stands
  <2>2. PICK id : id \in Evictable(mem) BY <1>2
  <2>3. PICK i \in DOMAIN mem : id \in mem[i].consumed BY <2>2 DEF Evictable, Consumed
  <2>4. mem[i].id.turn # 0 /\ mem[i].id.turn <= turn BY <2>1, <2>3 DEF Shaped
  <2>5. mem[i].id.turn \in Nat
    <3>1. mem[i] \in MessageSet BY <1>3, ElementOfSeq, LenProperties
    <3> QED BY <3>1 DEF MessageSet, CallId
  <2> QED BY <1>3, <2>4, <2>5
<1>6. /\ CutValid(rows) /\ SingleTools(batch) /\ NamesTo(rows, turn, turn - 1)
      /\ Holds(refs, rows, turn) /\ (Known(mem) => LastStays(mem, rows, turn))
  BY <1>2 DEF CutKept, CutIdle
<1>7. CutValid(log) /\ NamesTo(log, turn, turn) BY <1>1, <1>5, <1>6, ManualNames
<1>8. log \in Seq(RowSet) /\ Extends(log, rows) /\ Len(log) \in Nat
  <2>1. PICK n \in Nat : n = MaxTurns + turn BY <1>3
  <2>2. log = rows \o Grouped(SummaryRows(n)) BY <1>1, <2>1
  <2>3. log \in Seq(RowSet) /\ Extends(log, rows) BY <2>2, SummaryLog
  <2> QED BY <2>3, LenProperties
<1>9. CASE /\ KnowsRows(mem) /\ refs' = Overwritten(new, Len(log))
           /\ mem' = Synced(new, refs') /\ pc' = "idle"
  <2>1. Known(mem)
    <3>1. \A i \in DOMAIN mem : mem[i].label \in 1 .. Len(rows) BY <1>9 DEF KnowsRows
    <3>2. Len(rows) \in Nat BY <1>3, LenProperties
    <3> QED BY <3>1, <3>2 DEF Known
  <2>2. Holds(refs', log, turn)
    BY <1>1, <1>2, <1>3, <1>6, <1>8, <1>9, <2>1, CompressHolds
  <2>3. new \in Seq(MessageSet) /\ Evictable(new) = {} /\ Overwritten(new, Len(log)) \in Seq(Nat)
    <3>1. PICK n \in Nat : n = MaxTurns + turn BY <1>3
    <3>2. log = rows \o Grouped(SummaryRows(n)) BY <1>1, <3>1
    <3> QED BY <1>1, <1>2, <1>3, <1>4, <1>9, <3>2, CompressionKept
  <2>4. Evictable(mem') = {} BY <1>9, <2>3, SyncedSame
  <2>5. CutIdle' BY <1>2, <1>7, <2>2, <2>4 DEF CutIdle
  <2>6. SingleTools(batch') BY <1>2, <1>6
  <2> QED BY <1>2, <1>7, <1>9, <2>5, <2>6 DEF CutKept
<1>10. CASE refs' = Appended(refs, Len(log)) /\ pc' = "refused"
  <2>1. PICK k \in DOMAIN refs : rows[refs[k]].turn = turn BY <1>5, <1>6 DEF Holds
  <2>2. refs[k] \in 1 .. Len(rows) BY DEF LogInv, MessagesFit, Sound
  <2>3. PICK i \in DOMAIN log : i = refs[k] /\ log[i].turn = turn
    BY <1>8, <2>1, <2>2 DEF Extends
  <2>4. Holds(refs', log, turn) BY <1>3, <1>8, <1>10, <2>3, HoldsAppended
  <2>5. CutOver' BY <1>2, <1>3, <1>7, <2>4 DEF CutOver
  <2>6. SingleTools(batch') BY <1>2, <1>6
  <2> QED BY <1>2, <1>7, <1>10, <2>5, <2>6 DEF CutKept
<1> QED BY <1>2, <1>9, <1>10

LEMMA TerminalizeCut ==
  ASSUME LogInv, CutKept, Terminalize PROVE CutKept'
<1>1. /\ pc \in {"idle", "refused"} /\ checkpoint' = refs /\ pc' = "closed"
      /\ UNCHANGED <<turn, rows, refs, mem, batch>>
  BY DEF Terminalize
<1>2. CutOver
  <2>1. CASE pc = "idle"
    <3>1. turn \in 0 .. MaxTurns BY TurnIs
    <3>2. NamesTo(rows, turn, turn) /\ Holds(refs, rows, turn) BY <2>1 DEF CutKept, CutIdle
    <3> QED BY <3>1, <3>2 DEF CutOver
  <2>2. CASE pc = "refused" BY <2>2 DEF CutKept
  <2> QED BY <1>1, <2>1, <2>2
<1>3. CutOver' BY <1>1, <1>2 DEF CutOver
<1> QED BY <1>1, <1>3 DEF CutKept

\* Counted from a projection that holds a row of the last turn, the turns go on.
LEMMA ResumeCut ==
  ASSUME LogInv, CutKept, Resume PROVE CutKept'
<1>1. PICK ms, c : /\ ms = [k \in DOMAIN checkpoint |-> RestoredFrom(rows, checkpoint[k])]
                   /\ c = Counter(ms)
  OBVIOUS
<1>2. /\ pc = "closed" /\ mem' = ms /\ turn' = c /\ pc' = "idle" /\ batch' = <<>>
      /\ UNCHANGED <<rows, refs, checkpoint>>
  <2>1. mem' = ms BY <1>1 DEF Resume, RestoredFrom
  <2>2. turn' = c BY <1>1, <2>1 DEF Resume
  <2> QED BY <2>1, <2>2 DEF Resume
<1>3. /\ CutValid(rows) /\ checkpoint = refs
      /\ \E n \in 0 .. MaxTurns : NamesTo(rows, n, n) /\ Holds(refs, rows, n)
  BY <1>2 DEF CutKept, CutOver
<1>4. PICK n \in 0 .. MaxTurns : NamesTo(rows, n, n) /\ Holds(refs, rows, n) BY <1>3
<1>5. /\ ms \in Seq(MessageSet) /\ DOMAIN ms = DOMAIN refs
      /\ \A k \in DOMAIN ms : Restored(ms[k], rows, refs[k])
  <2>1. rows \in Seq(RowSet) /\ checkpoint \in Seq(Nat) /\ Sound(checkpoint, rows)
    BY DEF LogInv, Typed, MessagesFit
  <2> QED BY <1>1, <1>3, <2>1, RestoredAll
<1>6. /\ c \in 0 .. MaxTurns
      /\ \A k \in DOMAIN ms : ms[k].turn \in 1 .. MaxTurns => ms[k].turn <= c
      /\ c = 0 \/ \E k \in DOMAIN ms : ms[k].turn = c
  BY <1>1, CounterIs
<1>7. ASSUME NEW k \in DOMAIN ms PROVE ms[k].turn = rows[refs[k]].turn
  BY <1>5 DEF Restored
<1>8. MaxTurns \in Nat /\ n \in Nat /\ c \in Nat BY <1>4, <1>6, LogAssumption
<1>9. n <= c
  <2>1. CASE n = 0 BY <1>8, <2>1
  <2>2. CASE n # 0
    <3>1. PICK k \in DOMAIN refs : rows[refs[k]].turn = n BY <1>4, <2>2 DEF Holds
    <3>2. k \in DOMAIN ms /\ ms[k].turn = n BY <1>5, <1>7, <3>1
    <3>3. n \in 1 .. MaxTurns BY <1>4, <1>8, <2>2
    <3> QED BY <1>6, <3>2, <3>3
  <2> QED BY <2>1, <2>2
<1>10. c <= n
  <2>1. CASE c = 0 BY <1>8, <2>1
  <2>2. CASE c # 0
    <3>1. PICK k \in DOMAIN ms : ms[k].turn = c BY <1>6, <2>2
    <3>2. rows[refs[k]].turn = c /\ refs[k] \in DOMAIN rows
      <4>1. refs[k] \in 1 .. Len(rows) BY <1>5 DEF LogInv, MessagesFit, Sound
      <4>2. rows \in Seq(RowSet) BY DEF LogInv, Typed
      <4> QED BY <1>7, <3>1, <4>1, <4>2, LenProperties
    <3>3. Name(c, n, n) BY <1>4, <3>2 DEF NamesTo
    <3> QED BY <1>6, <1>8, <3>3 DEF Name
  <2> QED BY <2>1, <2>2
<1>11. c = n BY <1>8, <1>9, <1>10
<1>12. Evictable(ms) = {}
  <2>1. \A k \in DOMAIN ms : ms[k].consumed = {} BY <1>5 DEF Restored
  <2> QED BY <2>1 DEF Evictable, Consumed
<1>13. CutIdle' BY <1>2, <1>4, <1>11, <1>12 DEF CutIdle
<1>14. SingleTools(batch') BY <1>2 DEF SingleTools
<1> QED BY <1>2, <1>3, <1>13, <1>14 DEF CutKept

LEMMA InitCut == Init => CutInv
<1> SUFFICES ASSUME Init PROVE CutKept BY DEF CutInv
<1>1. /\ pc = "idle" /\ turn = 0 /\ rows = <<>> /\ refs = <<>> /\ mem = <<>> /\ batch = <<>>
  BY DEF Init
<1>2. CutValid(rows)
  <2>1. DOMAIN rows = {} BY <1>1
  <2>2. Paired(rows) BY <2>1 DEF Paired
  <2> QED BY <2>1, <2>2 DEF CutValid
<1>3. SingleTools(batch) BY <1>1 DEF SingleTools
<1>4. Evictable(mem) = {}
  <2>1. DOMAIN mem = {} BY <1>1
  <2>2. Consumed(mem) = {} BY <2>1 DEF Consumed
  <2> QED BY <2>2 DEF Evictable
<1>5. NamesTo(rows, turn, turn) BY <1>1 DEF NamesTo
<1>6. Holds(refs, rows, turn) BY <1>1 DEF Holds
<1>7. CutIdle BY <1>4, <1>5, <1>6 DEF CutIdle
<1> QED BY <1>1, <1>2, <1>3, <1>7 DEF CutKept

LEMMA CutStep == LogInv /\ LogInv' /\ CutInv /\ [Next]_vars => CutInv'
<1> SUFFICES ASSUME LogInv, LogInv', CutInv, [Next]_vars, ~Lost' PROVE CutKept' BY DEF CutInv
<1>1. CASE Lost
  <2>1. cause \subseteq cause'
    <3>1. CASE Resume BY <1>1, <3>1 DEF Resume, Lost
    <3>2. CASE ~Resume
      BY <3>2 DEF Next, vars, BeginTurn, AppendUser, OmitInTurn, CompressInTurn, RunTool, Complete,
                  Fail, CancelTurn, LimitTurn, EndTurn, AbortTurn, InterruptTurn, ManualCompress, Terminalize
    <3> QED BY <3>1, <3>2
  <2> QED BY <1>1, <2>1 DEF Lost
<1>2. CASE CutKept
  <2>1. CASE BeginTurn BY <1>2, <2>1, BeginCut
  <2>2. CASE AppendUser BY <1>2, <2>2, AppendUserCut
  <2>3. CASE OmitInTurn BY <1>2, <2>3, OmitCut
  <2>4. CASE CompressInTurn BY <1>2, <2>4, CompressCut
  <2>5. CASE RunTool BY <1>2, <2>5, RunToolCut
  <2>6. CASE Complete
    <3>1. PICK kind, id, closing : /\ kind = "assistant_output" /\ id = Final(turn)
                                   /\ closing = FinalRows(turn)
      OBVIOUS
    <3>2. pc \in {"open", "denied"} /\ EndTurn(Base, closing) BY <2>6, <3>1 DEF Complete
    <3>3. closing = <<Row(turn, kind, id, 0, "none")>> BY <3>1 DEF FinalRows
    <3> QED BY <1>2, <3>1, <3>2, <3>3, EndCut
  <2>7. CASE Fail
    <3>1. PICK kind, closing : kind = "failure_fact" /\ closing = FactRows(turn, kind) OBVIOUS
    <3>2. pc \in {"open", "denied"} /\ EndTurn(Base, closing) BY <2>7, <3>1 DEF Fail
    <3>3. closing = <<Row(turn, kind, NoCall, 0, "none")>> BY <3>1 DEF FactRows
    <3> QED BY <1>2, <3>1, <3>2, <3>3, EndCut
  <2>8. CASE CancelTurn
    <3>1. PICK kind, closing : kind = "cancellation_fact" /\ closing = FactRows(turn, kind) OBVIOUS
    <3>2. pc \in {"open", "denied"} /\ EndTurn(Base, closing) BY <2>8, <3>1 DEF CancelTurn
    <3>3. closing = <<Row(turn, kind, NoCall, 0, "none")>> BY <3>1 DEF FactRows
    <3> QED BY <1>2, <3>1, <3>2, <3>3, EndCut
  <2>9. CASE AbortTurn
    <3>1. "compaction" \notin cause BY <2>9 DEF AbortTurn, Lost
    <3> QED BY <1>2, <2>9, <3>1, AbortCut
  <2>10. CASE InterruptTurn BY <1>2, <2>10, InterruptCut
  <2>11. CASE ManualCompress BY <1>2, <2>11, ManualCut
  <2>12. CASE Terminalize BY <1>2, <2>12, TerminalizeCut
  <2>13. CASE Resume BY <1>2, <2>13, ResumeCut
  <2>14. CASE LimitTurn
    <3>1. PICK kind, closing : kind = "failure_fact" /\ closing = FactRows(turn, kind) OBVIOUS
    <3>2. pc \in {"open", "denied"} /\ EndTurn(mem, closing) BY <2>14, <3>1 DEF LimitTurn
    <3>3. closing = <<Row(turn, kind, NoCall, 0, "none")>> BY <3>1 DEF FactRows
    <3> QED BY <1>2, <3>1, <3>2, <3>3, EndCut
  <2>15. CASE UNCHANGED vars
    BY <1>2, <2>15 DEF vars, CutKept, CutIdle, CutOpen, CutOver
  <2> QED
    BY <2>1, <2>2, <2>3, <2>4, <2>5, <2>6, <2>7, <2>8, <2>9, <2>10, <2>11, <2>12, <2>13, <2>14,
       <2>15
    DEF Next
<1> QED BY <1>1, <1>2 DEF CutInv

\* Every group of the accepted log stays whole and its calls keep their results, so that
\* a terminal checkpoint can be made (_validate_rows): no name of a turn comes back, since
\* the projection that is frozen always holds a row of the last turn, which a resume
\* counts on from, and a manual compression is named once for the turn before it.
\* Excepted is a compression aborted after a compaction.
THEOREM LogStaysWhole == Spec => []LogCutValid
<1>1. Init => CutInv BY InitCut
<1>2. LogInv /\ LogInv' /\ CutInv /\ [Next]_vars => CutInv' BY CutStep
<1>3. CutInv => LogCutValid BY DEF CutInv, CutKept, Lost, LogCutValid
<1> QED BY <1>1, <1>2, <1>3, LogInvariance, PTL DEF Spec
=============================================================================
