------------------------- MODULE ConversationRowsProofs -------------------------
(***************************************************************************)
(* Lemmas about the rows of a turn, for any number of batches and tools:   *)
(* what a sequence of batches flattens to, that the rows of several        *)
(* batches pair calls with results and tell the tools that ran, and that   *)
(* whole groups put together are a valid cut.  Inductive arguments take a  *)
(* least counterexample (Least).                                           *)
(***************************************************************************)
EXTENDS ConversationRows, SequenceTheorems, FiniteSetTheorems, FunctionTheorems,
        NaturalsInduction, WellFoundedInduction, TLAPS

(* Flattening. *)

\* A set of naturals has a least element.
LEMMA Least ==
  ASSUME NEW T, T \subseteq Nat, T # {}
  PROVE  \E n \in T : \A k \in T : n <= k
<1>1. PICK R : R = OpToRel(<, Nat) OBVIOUS
<1>2. R = {ss \in Nat \X Nat : ss[1] < ss[2]} BY <1>1, Zenon DEF OpToRel
<1>3. IsWellFoundedOn(R, Nat) BY <1>1, NatLessThanWellFounded, Zenon
<1>4. PICK n \in T : \A k \in T : ~(<<k, n>> \in R) BY <1>3, WFMin
<1>5. ASSUME NEW k \in T, ~(n <= k) PROVE FALSE
  <2>1. k \in Nat /\ n \in Nat /\ k < n BY <1>5
  <2>2. <<k, n>> \in R BY <1>2, <2>1
  <2> QED BY <1>4, <2>2
<1> QED BY <1>5

Glue(f, s, n) == f = [i \in 1 .. n |-> IF i = 1 THEN s[i] ELSE f[i - 1] \o s[i]]

LEMMA Flat ==
  ASSUME NEW s, Len(s) # 0
  PROVE  FlattenSeq(s) = (CHOOSE f : Glue(f, s, Len(s)))[Len(s)]
BY DEF FlattenSeq, Glue

\* The glued prefixes of a sequence of sequences: they exist, and are unique.
LEMMA Glued ==
  ASSUME NEW s
  PROVE  \A n \in Nat : \E f : Glue(f, s, n)
<1> SUFFICES ASSUME NEW m \in Nat, ~\E f : Glue(f, s, m) PROVE FALSE OBVIOUS
<1>1. PICK T : T = {k \in Nat : ~\E f : Glue(f, s, k)} OBVIOUS
<1>2. T \subseteq Nat /\ T # {} BY <1>1
<1>3. PICK n \in T : \A k \in T : n <= k BY <1>2, Least
<1>4. n \in Nat /\ ~\E f : Glue(f, s, n) BY <1>1
<1>5. CASE n = 0
  <2>1. PICK f : f = [i \in 1 .. 0 |-> i] OBVIOUS
  <2>2. Glue(f, s, 0) BY <2>1 DEF Glue
  <2> QED BY <1>4, <1>5, <2>2
<1>6. CASE n # 0
  <2>1. n - 1 \in Nat /\ ~(n <= n - 1) BY <1>4, <1>6
  <2>2. n - 1 \notin T BY <1>3, <2>1
  <2>3. PICK f : Glue(f, s, n - 1) BY <1>1, <2>1, <2>2
  <2>4. PICK g : g = [i \in 1 .. n |-> IF i = 1 THEN s[i] ELSE f[i - 1] \o s[i]] OBVIOUS
  <2>5. ASSUME NEW i \in 1 .. n - 1 PROVE g[i] = f[i]
    <3>1. i \in 1 .. n BY <1>4
    <3>2. g[i] = IF i = 1 THEN s[i] ELSE f[i - 1] \o s[i] BY <2>4, <3>1
    <3>3. f[i] = IF i = 1 THEN s[i] ELSE f[i - 1] \o s[i] BY <2>3 DEF Glue
    <3> QED BY <3>2, <3>3
  <2>6. \A i \in 1 .. n : i # 1 => i - 1 \in 1 .. n - 1 BY <1>4
  <2>7. g = [i \in 1 .. n |-> IF i = 1 THEN s[i] ELSE g[i - 1] \o s[i]] BY <2>4, <2>5, <2>6
  <2> QED BY <1>4, <2>7 DEF Glue
<1> QED BY <1>5, <1>6

Alike(s, t, m) == \A i \in 1 .. m : s[i] = t[i]

LEMMA GluedAlike ==
  ASSUME NEW s, NEW t, NEW m \in Nat, NEW n \in Nat, m <= n, Alike(s, t, m),
         NEW f, Glue(f, s, m), NEW g, Glue(g, t, n)
  PROVE  Alike(f, g, m)
<1> USE DEF Alike
<1> SUFFICES ASSUME NEW j \in 1 .. m, f[j] # g[j] PROVE FALSE OBVIOUS
<1>1. PICK T : T = {k \in 1 .. m : f[k] # g[k]} OBVIOUS
<1>2. T \subseteq Nat /\ T # {} BY <1>1
<1>3. PICK k \in T : \A i \in T : k <= i BY <1>2, Least
<1>4. k \in 1 .. m /\ k \in 1 .. n /\ f[k] # g[k] BY <1>1
<1>5. CASE k = 1
  <2>1. f[k] = s[k] /\ g[k] = t[k] BY <1>4, <1>5 DEF Glue
  <2> QED BY <1>4, <2>1
<1>6. CASE k # 1
  <2>1. k - 1 \in 1 .. m /\ ~(k <= k - 1) BY <1>4, <1>6
  <2>2. f[k - 1] = g[k - 1] BY <1>1, <1>3, <2>1
  <2>3. f[k] = f[k - 1] \o s[k] /\ g[k] = g[k - 1] \o t[k] BY <1>4, <1>6 DEF Glue
  <2> QED BY <1>4, <2>2, <2>3
<1> QED BY <1>5, <1>6

\* What a nonempty sequence of sequences flattens to.
LEMMA FlatIs ==
  ASSUME NEW s, NEW n \in Nat, n = Len(s), n # 0, NEW f, Glue(f, s, n)
  PROVE  FlattenSeq(s) = f[n]
<1>1. PICK g : g = CHOOSE h : Glue(h, s, n) OBVIOUS
<1>2. Glue(g, s, n) BY <1>1
<1>3. FlattenSeq(s) = g[n] BY <1>1, Flat
<1>4. Alike(s, s, n) /\ n <= n BY DEF Alike
<1>5. Alike(f, g, n) BY <1>2, <1>4, GluedAlike
<1>6. f[n] = g[n] BY <1>5 DEF Alike
<1> QED BY <1>3, <1>6

LEMMA FlatEmpty == FlattenSeq(<<>>) = <<>>
BY DEF FlattenSeq

LEMMA FlatOne ==
  ASSUME NEW S, NEW s \in Seq(S), Len(s) = 1
  PROVE  FlattenSeq(s) = s[1]
<1>1. PICK n \in Nat : n = 1 /\ n = Len(s) /\ n # 0 OBVIOUS
<1>2. PICK f : Glue(f, s, n) BY Glued
<1>3. FlattenSeq(s) = f[n] BY <1>1, <1>2, FlatIs
<1>4. f[n] = s[1] BY <1>1, <1>2 DEF Glue
<1> QED BY <1>3, <1>4

LEMMA FlatAppend ==
  ASSUME NEW S, NEW s \in Seq(Seq(S)), NEW x \in Seq(S)
  PROVE  FlattenSeq(Append(s, x)) = FlattenSeq(s) \o x
<1>1. PICK t : t = Append(s, x) OBVIOUS
<1>2. PICK n \in Nat : n = Len(s) BY LenProperties
<1>3. /\ t \in Seq(Seq(S)) /\ Len(t) = n + 1 /\ t[n + 1] = x /\ \A i \in 1 .. n : t[i] = s[i]
  BY <1>1, <1>2, AppendProperties
<1>4. CASE n = 0
  <2>1. s = <<>> BY <1>2, <1>4, EmptySeq
  <2>2. FlattenSeq(t) = x BY <1>3, <1>4, FlatOne
  <2>3. <<>> \o x = x BY ConcatEmptySeq
  <2> QED BY <1>1, <2>1, <2>2, <2>3, FlatEmpty
<1>5. CASE n # 0
  <2>1. PICK f : Glue(f, s, n) BY Glued
  <2>2. PICK m \in Nat : m = n + 1 /\ m # 0 /\ n <= m BY <1>2
  <2>3. PICK g : Glue(g, t, m) BY Glued
  <2>4. FlattenSeq(s) = f[n] BY <1>2, <1>5, <2>1, FlatIs
  <2>5. FlattenSeq(t) = g[m] BY <1>3, <2>2, <2>3, FlatIs
  <2>6. Alike(s, t, n) BY <1>3 DEF Alike
  <2>7. Alike(f, g, n) BY <2>1, <2>2, <2>3, <2>6, GluedAlike
  <2>8. f[n] = g[n] BY <1>2, <1>5, <2>7 DEF Alike
  <2>9. g[m] = g[n] \o t[m]
    <3>1. m \in 1 .. m /\ m # 1 /\ m - 1 = n BY <1>2, <1>5, <2>2
    <3>2. g[m] = g[m - 1] \o t[m] BY <2>3, <3>1 DEF Glue
    <3> QED BY <3>1, <3>2
  <2>10. t[m] = x BY <1>3, <2>2
  <2>11. g[m] = f[n] \o x BY <2>8, <2>9, <2>10
  <2> QED BY <1>1, <2>4, <2>5, <2>11
<1> QED BY <1>4, <1>5

LEMMA FlatTyped ==
  ASSUME NEW S, NEW s \in Seq(Seq(S))
  PROVE  FlattenSeq(s) \in Seq(S)
<1>1. PICK m \in Nat : m = Len(s) BY LenProperties
<1>2. CASE m = 0
  <2>1. s = <<>> BY <1>1, <1>2, EmptySeq
  <2> QED BY <2>1, FlatEmpty, EmptySeq
<1>3. CASE m # 0
  <2>1. PICK f : Glue(f, s, m) BY Glued
  <2>2. FlattenSeq(s) = f[m] BY <1>1, <1>3, <2>1, FlatIs
  <2>3. ASSUME f[m] \notin Seq(S) PROVE FALSE
    <3>1. PICK T : T = {k \in 1 .. m : f[k] \notin Seq(S)} OBVIOUS
    <3>2. T \subseteq Nat /\ T # {} BY <1>1, <1>3, <2>3, <3>1
    <3>3. PICK k \in T : \A i \in T : k <= i BY <3>2, Least
    <3>4. k \in 1 .. m /\ f[k] \notin Seq(S) /\ s[k] \in Seq(S)
      BY <1>1, <3>1, ElementOfSeq
    <3>5. CASE k = 1
      <4>1. f[k] = s[k] BY <2>1, <3>4, <3>5 DEF Glue
      <4> QED BY <3>4, <4>1
    <3>6. CASE k # 1
      <4>1. k - 1 \in 1 .. m /\ ~(k <= k - 1) BY <3>4, <3>6
      <4>2. f[k - 1] \in Seq(S) BY <3>1, <3>3, <4>1
      <4>3. f[k] = f[k - 1] \o s[k] BY <2>1, <3>4, <3>6 DEF Glue
      <4> QED BY <3>4, <4>2, <4>3, ConcatProperties
    <3> QED BY <3>5, <3>6
  <2> QED BY <2>2, <2>3
<1> QED BY <1>2, <1>3

-----------------------------------------------------------------------------
(* Counting results. *)

\* The results up to a place are finitely many.
LEMMA ResultsFinite ==
  ASSUME NEW s, NEW n \in Nat
  PROVE  IsFiniteSet(Results(s, n)) /\ Cardinality(Results(s, n)) \in Nat
<1>1. IsFiniteSet(1 .. n) /\ Results(s, n) \in SUBSET (1 .. n) BY FS_Interval DEF Results
<1> QED BY <1>1, FS_Subset, FS_CardinalityType

\* A result is one of the first n: its number is between 1 and how many there are.
LEMMA ResultNumber ==
  ASSUME NEW s, NEW n \in Nat, NEW i \in Results(s, n)
  PROVE  Cardinality(Results(s, i)) \in 1 .. Cardinality(Results(s, n))
<1>1. i \in 1 .. n /\ i \in Nat /\ i \in Results(s, i) /\ Results(s, i) \in SUBSET Results(s, n)
  BY DEF Results
<1>2. /\ IsFiniteSet(Results(s, n)) /\ IsFiniteSet(Results(s, i))
      /\ Cardinality(Results(s, n)) \in Nat /\ Cardinality(Results(s, i)) \in Nat
  BY <1>1, ResultsFinite
<1>3. Cardinality(Results(s, i)) # 0 BY <1>1, <1>2, FS_EmptySet
<1>4. Cardinality(Results(s, i)) <= Cardinality(Results(s, n)) BY <1>1, <1>2, FS_Subset
<1> QED BY <1>2, <1>3, <1>4

\* A finite set of naturals, moved up.
LEMMA Moved ==
  ASSUME NEW T, T \subseteq Nat, IsFiniteSet(T), NEW n \in Nat
  PROVE  /\ IsFiniteSet({n + j : j \in T}) /\ Cardinality({n + j : j \in T}) = Cardinality(T)
<1>1. PICK f, U : f = [j \in T |-> n + j] /\ U = {n + j : j \in T} OBVIOUS
<1>2. f \in [T -> U] BY <1>1
<1>3. \A a, b \in T : f[a] = f[b] => a = b BY <1>1
<1>4. \A u \in U : \E j \in T : f[j] = u BY <1>1
<1>5. f \in Bijection(T, U) BY <1>2, <1>3, <1>4, Fun_IsBij
<1>6. ExistsBijection(T, U) BY <1>5 DEF ExistsBijection
<1> QED BY <1>1, <1>6, FS_Bijection

\* The results of two sequences, one after the other.
LEMMA ResultsFirst ==
  ASSUME NEW S, NEW s \in Seq(S), NEW t \in Seq(S), NEW n \in 0 .. Len(s)
  PROVE  Results(s \o t, n) = Results(s, n)
<1>1. Len(s) \in Nat /\ Len(t) \in Nat BY LenProperties
<1>2. ASSUME NEW i \in 1 .. n PROVE (s \o t)[i] = s[i]
  <2>1. i \in 1 .. Len(s) + Len(t) /\ i <= Len(s) BY <1>1
  <2> QED BY <2>1, ConcatProperties
<1> QED BY <1>2 DEF Results

LEMMA ResultsSecond ==
  ASSUME NEW S, NEW s \in Seq(S), NEW t \in Seq(S), NEW n \in 0 .. Len(t)
  PROVE  /\ Len(s) + n \in Nat
         /\ Cardinality(Results(s \o t, Len(s) + n))
              = Cardinality(Results(s, Len(s))) + Cardinality(Results(t, n))
<1>1. PICK m \in Nat : m = Len(s) BY LenProperties
<1>2. Len(t) \in Nat /\ n \in Nat BY LenProperties
<1>3. PICK U, u : U = {m + j : j \in Results(t, n)} /\ u = s \o t OBVIOUS
<1>4. ASSUME NEW i \in 1 .. m PROVE u[i] = s[i]
  <2>1. i \in 1 .. Len(s) + Len(t) /\ i <= Len(s) BY <1>1, <1>2
  <2> QED BY <1>3, <2>1, ConcatProperties
<1>5. ASSUME NEW j \in 1 .. n PROVE u[m + j] = t[j]
  <2>1. /\ m + j \in 1 .. Len(s) + Len(t) /\ ~(m + j <= Len(s)) /\ m + j - Len(s) = j
    BY <1>1, <1>2
  <2> QED BY <1>3, <2>1, ConcatProperties
<1>6. Results(u, m + n) = Results(s, m) \cup U
  <2>1. ASSUME NEW i \in Results(u, m + n) PROVE i \in Results(s, m) \cup U
    <3>1. i \in 1 .. m + n /\ u[i].kind = "tool_result" BY DEF Results
    <3>2. CASE i <= m BY <1>4, <3>1, <3>2 DEF Results
    <3>3. CASE ~(i <= m)
      <4>1. PICK j \in 1 .. n : i = m + j
        <5>1. i - m \in 1 .. n /\ i = m + (i - m) BY <1>2, <3>1, <3>3
        <5> QED BY <5>1
      <4>2. j \in Results(t, n) BY <1>5, <3>1, <4>1 DEF Results
      <4> QED BY <1>3, <4>1, <4>2
    <3> QED BY <3>2, <3>3
  <2>2. ASSUME NEW i \in Results(s, m) PROVE i \in Results(u, m + n)
    <3>1. i \in 1 .. m /\ s[i].kind = "tool_result" BY DEF Results
    <3>2. i \in 1 .. m + n BY <1>2, <3>1
    <3> QED BY <1>4, <3>1, <3>2 DEF Results
  <2>3. ASSUME NEW j \in Results(t, n) PROVE m + j \in Results(u, m + n)
    <3>1. j \in 1 .. n /\ t[j].kind = "tool_result" BY DEF Results
    <3>2. m + j \in 1 .. m + n BY <1>2, <3>1
    <3> QED BY <1>5, <3>1, <3>2 DEF Results
  <2> QED BY <1>3, <2>1, <2>2, <2>3
<1>7. Results(s, m) \cap U = {}
  <2>1. ASSUME NEW j \in Results(t, n) PROVE m + j \notin Results(s, m)
    <3>1. j \in 1 .. n BY DEF Results
    <3>2. ~(m + j <= m) BY <1>2, <3>1
    <3> QED BY <3>2 DEF Results
  <2> QED BY <1>3, <2>1
<1>8. /\ IsFiniteSet(Results(t, n)) /\ Cardinality(Results(t, n)) \in Nat
      /\ IsFiniteSet(Results(s, m)) /\ Cardinality(Results(s, m)) \in Nat
  BY <1>2, ResultsFinite
<1>9. Results(t, n) \subseteq Nat BY DEF Results
<1>10. IsFiniteSet(U) /\ Cardinality(U) = Cardinality(Results(t, n))
  BY <1>3, <1>8, <1>9, Moved
<1>11. Cardinality(Results(s, m) \cap U) = 0 BY <1>7, FS_EmptySet
<1>12. Cardinality(Results(s, m) \cup U)
         = Cardinality(Results(s, m)) + Cardinality(U) - Cardinality(Results(s, m) \cap U)
  BY <1>8, <1>10, FS_Union
<1>13. Cardinality(Results(u, m + n)) = Cardinality(Results(s, m)) + Cardinality(Results(t, n))
  <2>1. PICK a, b, c : /\ a = Cardinality(Results(s, m)) /\ b = Cardinality(Results(t, n))
                       /\ c = Cardinality(Results(u, m + n))
    OBVIOUS
  <2>2. a \in Nat /\ b \in Nat BY <1>8, <2>1
  <2>3. c = a + b - 0 BY <1>6, <1>10, <1>11, <1>12, <2>1
  <2>4. c = a + b BY <2>2, <2>3
  <2> QED BY <2>1, <2>4
<1> QED BY <1>1, <1>2, <1>3, <1>13

-----------------------------------------------------------------------------
(* The rows of batches. *)

StatusSet == ToolStatuses \cup {"none"}
CallId == [turn : Nat, call : Nat]
Kinds == {"user_input", "assistant_tool_call", "tool_result", "assistant_output",
          "failure_fact", "cancellation_fact", "context_summary"}
RowSet == [turn : Nat, kind : Kinds, id : CallId, tool : Nat, status : StatusSet,
           group : Kinds \cup {"tool-loop"}, pos : Nat, size : Nat]
BatchSet == [id : CallId, tools : Seq(ToolStatuses)]

\* A row and its fields.
LEMMA RowFields ==
  ASSUME NEW turn \in Nat, NEW kind \in Kinds, NEW id \in CallId, NEW tool \in Nat,
         NEW status \in StatusSet
  PROVE  /\ Row(turn, kind, id, tool, status) \in RowSet
         /\ Row(turn, kind, id, tool, status).turn = turn
         /\ Row(turn, kind, id, tool, status).kind = kind
         /\ Row(turn, kind, id, tool, status).id = id
         /\ Row(turn, kind, id, tool, status).tool = tool
         /\ Row(turn, kind, id, tool, status).status = status
         /\ Row(turn, kind, id, tool, status).group
              = IF kind \in {"assistant_tool_call", "tool_result"} THEN "tool-loop" ELSE kind
<1>1. PICK g : g = IF kind \in {"assistant_tool_call", "tool_result"} THEN "tool-loop"
                  ELSE kind
  OBVIOUS
<1>2. g \in Kinds \cup {"tool-loop"} BY <1>1
<1>3. Row(turn, kind, id, tool, status)
        = [turn |-> turn, kind |-> kind, id |-> id, tool |-> tool, status |-> status,
           group |-> g, pos |-> 0, size |-> 1]
  BY <1>1 DEF Row
<1> QED BY <1>1, <1>2, <1>3 DEF RowSet

\* Numbering the rows of a group leaves what they say.
Said(s, t) ==
    /\ Len(t) = Len(s)
    /\ \A i \in DOMAIN s : /\ t[i].kind = s[i].kind /\ t[i].id = s[i].id
                           /\ t[i].tool = s[i].tool /\ t[i].status = s[i].status
                           /\ t[i].turn = s[i].turn /\ t[i].group = s[i].group

LEMMA GroupedSays ==
  ASSUME NEW s \in Seq(RowSet)
  PROVE  Grouped(s) \in Seq(RowSet) /\ Said(s, Grouped(s))
<1>1. PICK n \in Nat : n = Len(s) BY LenProperties
<1>2. ASSUME NEW i \in 1 .. n
      PROVE  /\ Grouped(s)[i] \in RowSet
             /\ Grouped(s)[i].kind = s[i].kind /\ Grouped(s)[i].id = s[i].id
             /\ Grouped(s)[i].tool = s[i].tool /\ Grouped(s)[i].status = s[i].status
             /\ Grouped(s)[i].turn = s[i].turn /\ Grouped(s)[i].group = s[i].group
  <2>1. PICK r \in RowSet : r = s[i] BY <1>1, ElementOfSeq
  <2>2. PICK p \in Nat : p = i - 1 BY <1>1
  <2>3. i \in DOMAIN s BY <1>1
  <2>4. Grouped(s)[i] = [r EXCEPT !.pos = p, !.size = n]
    BY <1>1, <2>1, <2>2, <2>3 DEF Grouped
  <2>5. [r EXCEPT !.pos = p, !.size = n] \in RowSet BY <1>1, <2>1, <2>2 DEF RowSet
  <2> QED BY <2>1, <2>4, <2>5 DEF RowSet
<1>3. Grouped(s) = [i \in 1 .. n |-> Grouped(s)[i]] /\ DOMAIN s = 1 .. n
  BY <1>1 DEF Grouped
<1>4. Grouped(s) \in Seq(RowSet) /\ Len(Grouped(s)) = n
  <2> DEFINE F(i) == Grouped(s)[i]
  <2>1. \A i \in 1 .. n : F(i) \in RowSet BY <1>2
  <2>2. Grouped(s) = [i \in 1 .. n |-> F(i)] BY <1>3
  <2> HIDE DEF F
  <2> QED BY <1>1, <2>1, <2>2
<1> QED BY <1>1, <1>2, <1>3, <1>4 DEF Said

-----------------------------------------------------------------------------
(* Rows that pair calls with results and tell what ran. *)

IdsOf(s, kind) ==
    {<<s[i].id, s[i].tool>> : i \in {i \in DOMAIN s : s[i].kind = kind /\ s[i].tool # 0}}

LEMMA PairedIs ==
  ASSUME NEW s
  PROVE  Paired(s) <=> IdsOf(s, "assistant_tool_call") = IdsOf(s, "tool_result")
BY DEF Paired, IdsOf

\* An element of a concatenation is one of the first or of the second sequence.
Joined(s, t, u, m) ==
    /\ \A i \in DOMAIN s : i \in DOMAIN u /\ u[i] = s[i]
    /\ \A j \in DOMAIN t : m + j \in DOMAIN u /\ u[m + j] = t[j]
    /\ \A i \in DOMAIN u : i \in DOMAIN s \/ \E j \in DOMAIN t : i = m + j

LEMMA ConcatPlaces ==
  ASSUME NEW S, NEW s \in Seq(S), NEW t \in Seq(S)
  PROVE  Joined(s, t, s \o t, Len(s))
<1>1. PICK m \in Nat, n \in Nat : m = Len(s) /\ n = Len(t) BY LenProperties
<1>2. PICK u : u = s \o t /\ m = Len(s) /\ n = Len(t) BY <1>1
<1>3. DOMAIN s = 1 .. m /\ DOMAIN t = 1 .. n /\ DOMAIN u = 1 .. m + n
  BY <1>2, ConcatProperties, LenProperties
<1>4. ASSUME NEW i \in 1 .. m PROVE i \in 1 .. m + n /\ u[i] = s[i]
  <2>1. i \in 1 .. Len(s) + Len(t) /\ i <= Len(s) BY <1>2
  <2> QED BY <1>2, <2>1, ConcatProperties
<1>5. ASSUME NEW j \in 1 .. n PROVE m + j \in 1 .. m + n /\ u[m + j] = t[j]
  <2>1. m + j \in 1 .. Len(s) + Len(t) /\ ~(m + j <= Len(s)) /\ m + j - Len(s) = j
    BY <1>2
  <2> QED BY <1>2, <2>1, ConcatProperties
<1>6. ASSUME NEW i \in 1 .. m + n PROVE i \in 1 .. m \/ \E j \in 1 .. n : i = m + j
  <2>1. CASE i <= m BY <2>1
  <2>2. CASE ~(i <= m)
    <3>1. i - m \in 1 .. n /\ i = m + (i - m) BY <2>2
    <3> QED BY <3>1
  <2> QED BY <2>1, <2>2
<1>7. Joined(s, t, u, m) BY <1>3, <1>4, <1>5, <1>6 DEF Joined
<1> QED BY <1>2, <1>7

LEMMA IdsConcat ==
  ASSUME NEW S, NEW s \in Seq(S), NEW t \in Seq(S), NEW kind
  PROVE  IdsOf(s \o t, kind) = IdsOf(s, kind) \cup IdsOf(t, kind)
<1>1. PICK u, m : u = s \o t /\ m = Len(s) OBVIOUS
<1>2. Joined(s, t, u, m) BY <1>1, ConcatPlaces
<1>3. /\ \A i \in DOMAIN s : i \in DOMAIN u /\ u[i] = s[i]
      /\ \A j \in DOMAIN t : m + j \in DOMAIN u /\ u[m + j] = t[j]
      /\ \A i \in DOMAIN u : i \in DOMAIN s \/ \E j \in DOMAIN t : i = m + j
  BY <1>2 DEF Joined
<1>4. ASSUME NEW i \in DOMAIN u, u[i].kind = kind, u[i].tool # 0
      PROVE  <<u[i].id, u[i].tool>> \in IdsOf(s, kind) \cup IdsOf(t, kind)
  BY <1>3, <1>4 DEF IdsOf
<1>5. ASSUME NEW i \in DOMAIN s, s[i].kind = kind, s[i].tool # 0
      PROVE  <<s[i].id, s[i].tool>> \in IdsOf(u, kind)
  BY <1>3, <1>5 DEF IdsOf
<1>6. ASSUME NEW j \in DOMAIN t, t[j].kind = kind, t[j].tool # 0
      PROVE  <<t[j].id, t[j].tool>> \in IdsOf(u, kind)
  <2>1. PICK i : i = m + j OBVIOUS
  <2>2. i \in DOMAIN u /\ u[i] = t[j] BY <1>3, <2>1
  <2> QED BY <1>6, <2>2 DEF IdsOf
<1>7. \A x \in IdsOf(u, kind) : x \in IdsOf(s, kind) \cup IdsOf(t, kind)
  BY <1>4 DEF IdsOf
<1>8. \A x \in IdsOf(s, kind) : x \in IdsOf(u, kind) BY <1>5 DEF IdsOf
<1>9. \A x \in IdsOf(t, kind) : x \in IdsOf(u, kind) BY <1>6 DEF IdsOf
<1> QED BY <1>1, <1>7, <1>8, <1>9

Whole(s, statuses) == Paired(s) /\ Tells(s, statuses)

\* Rows without calls and results tell of nothing.
LEMMA WholeQuiet ==
  ASSUME NEW S, NEW s \in Seq(S),
         \A i \in DOMAIN s : s[i].kind \notin {"assistant_tool_call", "tool_result"}
  PROVE  Whole(s, <<>>)
<1>1. PICK n \in Nat : n = Len(s) BY LenProperties
<1>2. DOMAIN s = 1 .. n BY <1>1, LenProperties
<1>3. Results(s, n) = {} BY <1>2 DEF Results
<1>4. Cardinality(Results(s, n)) = 0 /\ Len(<<>>) = 0 BY <1>3, FS_EmptySet
<1>5. Tells(s, <<>>) BY <1>1, <1>3, <1>4 DEF Tells
<1>6. IdsOf(s, "assistant_tool_call") = {} BY DEF IdsOf
<1>7. IdsOf(s, "tool_result") = {} BY DEF IdsOf
<1> QED BY <1>5, <1>6, <1>7, PairedIs DEF Whole

\* What rows tell does not depend on their numbers.
LEMMA WholeSaid ==
  ASSUME NEW s \in Seq(RowSet), NEW t \in Seq(RowSet), Said(s, t), NEW w, Whole(s, w)
  PROVE  Whole(t, w)
<1>1. PICK n \in Nat : n = Len(s) BY LenProperties
<1>2. Len(t) = n /\ DOMAIN s = 1 .. n /\ DOMAIN t = 1 .. n
  BY <1>1, LenProperties DEF Said
<1>3. \A i \in 1 .. n : /\ t[i].kind = s[i].kind /\ t[i].id = s[i].id
                        /\ t[i].tool = s[i].tool /\ t[i].status = s[i].status
  BY <1>2 DEF Said
<1>4. ASSUME NEW k \in 1 .. n PROVE Results(t, k) = Results(s, k)
  <2>1. \A i \in 1 .. k : i \in 1 .. n BY <1>1
  <2> QED BY <1>3, <2>1 DEF Results
<1>5. Results(t, n) = Results(s, n) BY <1>3 DEF Results
<1>6. Tells(t, w)
  <2>1. Cardinality(Results(t, n)) = Len(w) BY <1>1, <1>5 DEF Whole, Tells
  <2>2. ASSUME NEW i \in Results(t, n) PROVE t[i].status = w[Cardinality(Results(t, i))]
    <3>1. i \in Results(s, n) /\ i \in 1 .. n BY <1>5 DEF Results
    <3>2. s[i].status = w[Cardinality(Results(s, i))] BY <1>1, <3>1 DEF Whole, Tells
    <3> QED BY <1>3, <1>4, <3>1, <3>2
  <2> QED BY <1>2, <2>1, <2>2 DEF Tells
<1>7. ASSUME NEW kind PROVE IdsOf(t, kind) = IdsOf(s, kind) BY <1>2, <1>3 DEF IdsOf
<1>8. Paired(t) BY <1>7, PairedIs DEF Whole
<1> QED BY <1>6, <1>8 DEF Whole

\* Two sequences of rows, one after the other, tell what both tell.
LEMMA TellsConcat ==
  ASSUME NEW s \in Seq(RowSet), NEW t \in Seq(RowSet),
         NEW v \in Seq(ToolStatuses), NEW w \in Seq(ToolStatuses), Tells(s, v), Tells(t, w)
  PROVE  Tells(s \o t, v \o w)
<1>1. PICK u, x, m, n, a, b : /\ u = s \o t /\ x = v \o w /\ m = Len(s) /\ n = Len(t)
                              /\ a = Len(v) /\ b = Len(w)
  OBVIOUS
<1>2. m \in Nat /\ n \in Nat /\ a \in Nat /\ b \in Nat BY <1>1, LenProperties
<1>3. /\ DOMAIN s = 1 .. m /\ DOMAIN t = 1 .. n /\ DOMAIN v = 1 .. a /\ DOMAIN w = 1 .. b
      /\ Len(u) = m + n /\ Len(x) = a + b /\ DOMAIN u = 1 .. m + n
  BY <1>1, <1>2, LenProperties, ConcatProperties
<1>4. Joined(s, t, u, m) /\ Joined(v, w, x, a) BY <1>1, ConcatPlaces
<1>5. Cardinality(Results(s, m)) = a /\ Cardinality(Results(t, n)) = b BY <1>1 DEF Tells
<1>6. Cardinality(Results(u, m + n)) = a + b
  <2>1. PICK k \in 0 .. Len(t) : k = n BY <1>1, <1>2
  <2>2. Cardinality(Results(u, m + k)) = a + Cardinality(Results(t, k))
    BY <1>1, <1>5, ResultsSecond
  <2> QED BY <1>5, <2>1, <2>2
<1>7. ASSUME NEW i \in Results(u, m + n) PROVE u[i].status = x[Cardinality(Results(u, i))]
  <2>1. i \in DOMAIN u /\ i \in 1 .. m + n /\ u[i].kind = "tool_result"
    BY <1>3 DEF Results
  <2>2. CASE i \in DOMAIN s
    <3>1. u[i] = s[i] /\ i \in 1 .. m BY <1>3, <1>4, <2>2 DEF Joined
    <3>2. i \in Results(s, m) BY <2>1, <3>1 DEF Results
    <3>3. PICK c : c = Cardinality(Results(s, i)) OBVIOUS
    <3>4. c \in DOMAIN v BY <1>2, <1>3, <1>5, <3>2, <3>3, ResultNumber
    <3>5. s[i].status = v[c] BY <1>1, <3>2, <3>3 DEF Tells
    <3>6. x[c] = v[c] BY <1>4, <3>4 DEF Joined
    <3>7. i \in 0 .. Len(s) BY <1>1, <3>1
    <3>8. Results(u, i) = Results(s, i) BY <1>1, <3>7, ResultsFirst
    <3> QED BY <3>1, <3>3, <3>5, <3>6, <3>8
  <2>3. CASE i \notin DOMAIN s
    <3>1. PICK j \in DOMAIN t : i = m + j BY <1>4, <2>1, <2>3 DEF Joined
    <3>2. u[i] = t[j] /\ j \in 1 .. n BY <1>3, <1>4, <3>1 DEF Joined
    <3>3. j \in Results(t, n) BY <2>1, <3>2 DEF Results
    <3>4. PICK c : c = Cardinality(Results(t, j)) OBVIOUS
    <3>5. c \in DOMAIN w BY <1>2, <1>3, <1>5, <3>3, <3>4, ResultNumber
    <3>6. t[j].status = w[c] BY <1>1, <3>3, <3>4 DEF Tells
    <3>7. x[a + c] = w[c] BY <1>4, <3>5 DEF Joined
    <3>8. j \in 0 .. Len(t) BY <1>1, <3>2
    <3>9. Cardinality(Results(u, m + j)) = a + c BY <1>1, <1>5, <3>4, <3>8, ResultsSecond
    <3> QED BY <3>1, <3>2, <3>6, <3>7, <3>9
  <2> QED BY <2>2, <2>3
<1>8. Tells(u, x) BY <1>3, <1>6, <1>7 DEF Tells
<1> QED BY <1>1, <1>8

LEMMA WholeConcat ==
  ASSUME NEW s \in Seq(RowSet), NEW t \in Seq(RowSet),
         NEW v \in Seq(ToolStatuses), NEW w \in Seq(ToolStatuses), Whole(s, v), Whole(t, w)
  PROVE  Whole(s \o t, v \o w)
<1>1. Tells(s \o t, v \o w) BY TellsConcat DEF Whole
<1>2. ASSUME NEW kind PROVE IdsOf(s \o t, kind) = IdsOf(s, kind) \cup IdsOf(t, kind)
  BY IdsConcat
<1>3. /\ IdsOf(s, "assistant_tool_call") = IdsOf(s, "tool_result")
      /\ IdsOf(t, "assistant_tool_call") = IdsOf(t, "tool_result")
  BY PairedIs DEF Whole
<1>4. Paired(s \o t) BY <1>2, <1>3, PairedIs
<1> QED BY <1>1, <1>4 DEF Whole

-----------------------------------------------------------------------------
(* The rows of one batch. *)

Calls(turn, batch) ==
    [k \in DOMAIN batch.tools |-> Row(turn, "assistant_tool_call", batch.id, k, "none")]
Answers(turn, batch) ==
    [k \in DOMAIN batch.tools |-> Row(turn, "tool_result", batch.id, k, batch.tools[k])]

\* The call and the result of each tool of a batch.
LEMMA BatchRow ==
  ASSUME NEW turn \in Nat, NEW batch \in BatchSet, NEW n \in Nat, n = Len(batch.tools),
         NEW k \in 1 .. n
  PROVE  /\ Calls(turn, batch)[k] \in RowSet /\ Answers(turn, batch)[k] \in RowSet
         /\ Calls(turn, batch)[k].kind = "assistant_tool_call"
         /\ Answers(turn, batch)[k].kind = "tool_result"
         /\ Calls(turn, batch)[k].id = batch.id /\ Answers(turn, batch)[k].id = batch.id
         /\ Calls(turn, batch)[k].tool = k /\ Answers(turn, batch)[k].tool = k
         /\ Calls(turn, batch)[k].turn = turn /\ Answers(turn, batch)[k].turn = turn
         /\ Calls(turn, batch)[k].group = "tool-loop"
         /\ Answers(turn, batch)[k].group = "tool-loop"
         /\ Calls(turn, batch)[k].status = "none"
         /\ Answers(turn, batch)[k].status = batch.tools[k]
<1>1. batch.id \in CallId /\ batch.tools \in Seq(ToolStatuses) BY DEF BatchSet
<1>2. DOMAIN batch.tools = 1 .. n BY <1>1, LenProperties
<1>3. batch.tools[k] \in ToolStatuses BY <1>1, ElementOfSeq
<1>4. /\ batch.tools[k] \in StatusSet /\ "none" \in StatusSet /\ k \in Nat
      /\ "assistant_tool_call" \in Kinds /\ "tool_result" \in Kinds
  BY <1>3 DEF StatusSet, Kinds
<1>5. /\ Calls(turn, batch)[k] = Row(turn, "assistant_tool_call", batch.id, k, "none")
      /\ Answers(turn, batch)[k] = Row(turn, "tool_result", batch.id, k, batch.tools[k])
  BY <1>2 DEF Calls, Answers
<1> QED BY <1>1, <1>4, <1>5, RowFields

LEMMA BatchRows ==
  ASSUME NEW turn \in Nat, NEW batch \in BatchSet, NEW n \in Nat, n = Len(batch.tools)
  PROVE  /\ Calls(turn, batch) \in Seq(RowSet) /\ Answers(turn, batch) \in Seq(RowSet)
         /\ Len(Calls(turn, batch)) = n /\ Len(Answers(turn, batch)) = n
<1>1. batch.tools \in Seq(ToolStatuses) BY DEF BatchSet
<1>2. DOMAIN batch.tools = 1 .. n BY <1>1, LenProperties
<1> DEFINE C(k) == Calls(turn, batch)[k]
           A(k) == Answers(turn, batch)[k]
<1>3. ASSUME NEW k \in 1 .. n PROVE C(k) \in RowSet /\ A(k) \in RowSet BY BatchRow
<1>4. Calls(turn, batch) = [k \in 1 .. n |-> C(k)] BY <1>2 DEF Calls
<1>5. Answers(turn, batch) = [k \in 1 .. n |-> A(k)] BY <1>2 DEF Answers
<1> HIDE DEF C, A
<1> QED BY <1>3, <1>4, <1>5

\* One call and one result for each tool, in the order of the tools.
LEMMA ScopedWhole ==
  ASSUME NEW turn \in Nat, NEW batch \in BatchSet
  PROVE  /\ ScopedRows(turn, batch) \in Seq(RowSet)
         /\ Whole(ScopedRows(turn, batch), batch.tools)
<1>1. batch.tools \in Seq(ToolStatuses) BY DEF BatchSet
<1>2. PICK n \in Nat : n = Len(batch.tools) BY <1>1, LenProperties
<1>3. PICK c, r : c = Calls(turn, batch) /\ r = Answers(turn, batch) /\ n = Len(batch.tools)
  BY <1>2
<1>4. c \in Seq(RowSet) /\ r \in Seq(RowSet) /\ Len(c) = n /\ Len(r) = n BY <1>3, BatchRows
<1>5. ASSUME NEW k \in 1 .. n
      PROVE  /\ c[k].kind = "assistant_tool_call" /\ r[k].kind = "tool_result"
             /\ c[k].id = batch.id /\ r[k].id = batch.id
             /\ c[k].tool = k /\ r[k].tool = k /\ r[k].status = batch.tools[k]
  BY <1>3, BatchRow
<1>6. DOMAIN c = 1 .. n /\ DOMAIN r = 1 .. n BY <1>4, LenProperties
<1>7. ScopedRows(turn, batch) = c \o r BY <1>3 DEF ScopedRows, Calls, Answers
<1>8. Tells(c, <<>>)
  <2>1. Results(c, n) = {} BY <1>5 DEF Results
  <2>2. Cardinality(Results(c, n)) = 0 /\ Len(<<>>) = 0 BY <2>1, FS_EmptySet
  <2> QED BY <1>4, <2>1, <2>2 DEF Tells
<1>9. Tells(r, batch.tools)
  <2>1. ASSUME NEW k \in 0 .. n PROVE Cardinality(Results(r, k)) = k
    <3>1. Results(r, k) = 1 .. k BY <1>5 DEF Results
    <3>2. Cardinality(1 .. k) = k BY FS_Interval
    <3> QED BY <3>1, <3>2
  <2>2. Cardinality(Results(r, n)) = Len(batch.tools) BY <1>3, <2>1
  <2>3. ASSUME NEW i \in Results(r, n)
        PROVE  r[i].status = batch.tools[Cardinality(Results(r, i))]
    <3>1. i \in 1 .. n /\ i \in 0 .. n BY DEF Results
    <3>2. Cardinality(Results(r, i)) = i BY <2>1, <3>1
    <3> QED BY <1>5, <3>1, <3>2
  <2> QED BY <1>4, <2>2, <2>3 DEF Tells
<1>10. <<>> \in Seq(ToolStatuses) OBVIOUS
<1>11. Tells(c \o r, <<>> \o batch.tools) BY <1>1, <1>4, <1>8, <1>9, <1>10, TellsConcat
<1>12. <<>> \o batch.tools = batch.tools BY <1>1, ConcatEmptySeq
<1>13. Paired(c \o r)
  <2>1. IdsOf(c, "assistant_tool_call") = {<<batch.id, k>> : k \in 1 .. n}
    BY <1>5, <1>6 DEF IdsOf
  <2>2. IdsOf(r, "tool_result") = {<<batch.id, k>> : k \in 1 .. n} BY <1>5, <1>6 DEF IdsOf
  <2>3. IdsOf(c, "tool_result") = {} BY <1>5, <1>6 DEF IdsOf
  <2>4. IdsOf(r, "assistant_tool_call") = {} BY <1>5, <1>6 DEF IdsOf
  <2>5. IdsOf(c \o r, "assistant_tool_call") = IdsOf(c \o r, "tool_result")
    <3>1. ASSUME NEW kind PROVE IdsOf(c \o r, kind) = IdsOf(c, kind) \cup IdsOf(r, kind)
      BY <1>4, IdsConcat
    <3> QED BY <2>1, <2>2, <2>3, <2>4, <3>1
  <2> QED BY <2>5, PairedIs
<1>14. c \o r \in Seq(RowSet) BY <1>4, ConcatProperties
<1> QED BY <1>7, <1>11, <1>12, <1>13, <1>14 DEF Whole

-----------------------------------------------------------------------------
(* The rows of a tool-loop group. *)

\* Calls and results of a turn, of model calls in C, none of them with a status of D.
Allowed(D, turn, C) ==
    {r \in RowSet : /\ r.kind \in {"assistant_tool_call", "tool_result"}
                    /\ r.status \notin D /\ r.turn = turn /\ r.id \in C
                    /\ r.group = "tool-loop"}
Without(batch, D) == \A k \in DOMAIN batch.tools : batch.tools[k] \notin D
AllWithout(batches, D) == \A i \in DOMAIN batches : Without(batches[i], D)

\* A sequence of allowed rows.
LEMMA AllowedSeq ==
  ASSUME NEW D, NEW turn, NEW C, NEW s \in Seq(RowSet),
         \A i \in DOMAIN s : s[i] \in Allowed(D, turn, C)
  PROVE  s \in Seq(Allowed(D, turn, C))
<1>1. PICK n \in Nat : n = Len(s) BY LenProperties
<1>2. DOMAIN s = 1 .. n /\ s = [i \in 1 .. n |-> s[i]] BY <1>1, LenProperties
<1> DEFINE F(i) == s[i]
<1>3. \A i \in 1 .. n : F(i) \in Allowed(D, turn, C) BY <1>2
<1>4. s = [i \in 1 .. n |-> F(i)] BY <1>2
<1> HIDE DEF F
<1> QED BY <1>3, <1>4

LEMMA AllowedRows ==
  ASSUME NEW D, NEW turn, NEW C, NEW s \in Seq(Allowed(D, turn, C))
  PROVE  s \in Seq(RowSet) /\ \A i \in DOMAIN s : s[i] \in Allowed(D, turn, C)
<1>1. PICK n \in Nat : n = Len(s) BY LenProperties
<1>2. DOMAIN s = 1 .. n BY <1>1, LenProperties
<1>3. \A i \in 1 .. n : s[i] \in Allowed(D, turn, C) BY <1>1, ElementOfSeq
<1>4. Allowed(D, turn, C) \subseteq RowSet BY DEF Allowed
<1> QED BY <1>2, <1>3, <1>4

\* The rows of a batch are allowed if its statuses are.
LEMMA BatchAllowed ==
  ASSUME NEW D, "none" \notin D, NEW turn \in Nat, NEW batch \in BatchSet, Without(batch, D),
         NEW C, batch.id \in C
  PROVE  /\ ScopedRows(turn, batch) \in Seq(Allowed(D, turn, C))
         /\ AdapterRows(turn, batch) \in Seq(Allowed(D, turn, C))
<1>1. batch.tools \in Seq(ToolStatuses) /\ batch.id \in CallId BY DEF BatchSet
<1>2. PICK n \in Nat : n = Len(batch.tools) BY <1>1, LenProperties
<1>3. PICK c, r : c = Calls(turn, batch) /\ r = Answers(turn, batch) /\ n = Len(batch.tools)
  BY <1>2
<1>4. c \in Seq(RowSet) /\ r \in Seq(RowSet) /\ Len(c) = n /\ Len(r) = n BY <1>3, BatchRows
<1>5. DOMAIN c = 1 .. n /\ DOMAIN r = 1 .. n /\ DOMAIN batch.tools = 1 .. n
  BY <1>1, <1>3, <1>4, LenProperties
<1>6. ASSUME NEW k \in 1 .. n PROVE c[k] \in Allowed(D, turn, C) /\ r[k] \in Allowed(D, turn, C)
  <2>1. /\ c[k] \in RowSet /\ r[k] \in RowSet /\ c[k].status = "none"
        /\ c[k].kind = "assistant_tool_call" /\ r[k].kind = "tool_result"
        /\ r[k].status = batch.tools[k] /\ c[k].turn = turn /\ r[k].turn = turn
        /\ c[k].id = batch.id /\ r[k].id = batch.id
        /\ c[k].group = "tool-loop" /\ r[k].group = "tool-loop"
    BY <1>3, BatchRow
  <2>2. batch.tools[k] \notin D BY <1>5 DEF Without
  <2> QED BY <2>1, <2>2 DEF Allowed
<1>7. c \in Seq(Allowed(D, turn, C)) /\ r \in Seq(Allowed(D, turn, C)) BY <1>4, <1>5, <1>6, AllowedSeq
<1>8. PICK first : first = Row(turn, "assistant_tool_call", batch.id,
                               IF Len(batch.tools) = 1 THEN 1 ELSE 0, "none")
  OBVIOUS
<1>9. first \in Allowed(D, turn, C)
  <2>1. PICK tool \in Nat : tool = IF Len(batch.tools) = 1 THEN 1 ELSE 0 OBVIOUS
  <2>2. "assistant_tool_call" \in Kinds /\ "none" \in StatusSet BY DEF Kinds, StatusSet
  <2>3. PICK id \in CallId : id = batch.id BY <1>1
  <2>4. first = Row(turn, "assistant_tool_call", id, tool, "none") BY <1>8, <2>1, <2>3
  <2>5. /\ first \in RowSet /\ first.kind = "assistant_tool_call" /\ first.status = "none"
        /\ first.turn = turn /\ first.id = id /\ first.group = "tool-loop"
    BY <2>2, <2>4, RowFields
  <2> QED BY <2>3, <2>5 DEF Allowed
<1>10. <<first>> \in Seq(Allowed(D, turn, C)) BY <1>9
<1>11. ScopedRows(turn, batch) = c \o r BY <1>3 DEF ScopedRows, Calls, Answers
<1>12. AdapterRows(turn, batch) = <<first>> \o r BY <1>3, <1>8 DEF AdapterRows, Answers
<1> QED BY <1>7, <1>10, <1>11, <1>12, ConcatProperties

LEMMA ToolLoopAllowed ==
  ASSUME NEW D, "none" \notin D, NEW turn \in Nat, NEW batches \in Seq(BatchSet),
         AllWithout(batches, D), NEW C, \A i \in DOMAIN batches : batches[i].id \in C
  PROVE  ToolLoopRows(turn, batches) \in Seq(Allowed(D, turn, C))
<1>1. PICK n \in Nat : n = Len(batches) BY LenProperties
<1>2. DOMAIN batches = 1 .. n BY <1>1, LenProperties
<1> DEFINE F(i) == IF batches[i].id.turn = 0 THEN AdapterRows(turn, batches[i])
                                             ELSE ScopedRows(turn, batches[i])
<1>3. ASSUME NEW i \in 1 .. n PROVE F(i) \in Seq(Allowed(D, turn, C))
  <2>1. batches[i] \in BatchSet /\ Without(batches[i], D) /\ batches[i].id \in C
    BY <1>1, <1>2, ElementOfSeq DEF AllWithout
  <2>2. /\ AdapterRows(turn, batches[i]) \in Seq(Allowed(D, turn, C))
        /\ ScopedRows(turn, batches[i]) \in Seq(Allowed(D, turn, C))
    BY <2>1, BatchAllowed
  <2> QED BY <2>2
<1>4. PICK f : f = FlattenSeq([i \in 1 .. n |-> F(i)]) OBVIOUS
<1>5. ToolLoopRows(turn, batches) = Grouped(f) BY <1>2, <1>4 DEF ToolLoopRows
<1> HIDE DEF F
<1>6. [i \in 1 .. n |-> F(i)] \in Seq(Seq(Allowed(D, turn, C))) BY <1>3
<1>7. f \in Seq(Allowed(D, turn, C)) BY <1>4, <1>6, FlatTyped
<1>8. f \in Seq(RowSet) /\ \A i \in DOMAIN f : f[i] \in Allowed(D, turn, C) BY <1>7, AllowedRows
<1>9. PICK g : g = Grouped(f) OBVIOUS
<1>10. g \in Seq(RowSet) /\ Said(f, g) BY <1>8, <1>9, GroupedSays
<1>11. ASSUME NEW i \in DOMAIN g PROVE g[i] \in Allowed(D, turn, C)
  <2>1. DOMAIN g = DOMAIN f BY <1>8, <1>10, LenProperties DEF Said
  <2>2. /\ g[i].kind = f[i].kind /\ g[i].status = f[i].status
        /\ g[i].turn = f[i].turn /\ g[i].id = f[i].id /\ g[i].group = f[i].group
    BY <1>10, <2>1 DEF Said
  <2>3. g[i] \in RowSet BY <1>10, ElementOfSeq, LenProperties
  <2>4. f[i] \in Allowed(D, turn, C) BY <1>8, <2>1
  <2> QED BY <2>2, <2>3, <2>4 DEF Allowed
<1> QED BY <1>5, <1>9, <1>10, <1>11, AllowedSeq

LoopFlat(turn, batches) == FlattenSeq([i \in DOMAIN batches |-> ScopedRows(turn, batches[i])])

\* The calls and results of accepted batches, before they are one group.
LEMMA LoopFlatTyped ==
  ASSUME NEW turn \in Nat, NEW batches \in Seq(BatchSet)
  PROVE  /\ [i \in DOMAIN batches |-> ScopedRows(turn, batches[i])] \in Seq(Seq(RowSet))
         /\ LoopFlat(turn, batches) \in Seq(RowSet)
<1>1. PICK n \in Nat : n = Len(batches) BY LenProperties
<1>2. DOMAIN batches = 1 .. n BY <1>1, LenProperties
<1> DEFINE F(i) == ScopedRows(turn, batches[i])
<1>3. \A i \in 1 .. n : F(i) \in Seq(RowSet) BY <1>1, ElementOfSeq, ScopedWhole
<1>4. PICK f : f = [i \in 1 .. n |-> F(i)] OBVIOUS
<1>5. f = [i \in DOMAIN batches |-> ScopedRows(turn, batches[i])] BY <1>2, <1>4
<1> HIDE DEF F
<1>6. f \in Seq(Seq(RowSet)) BY <1>3, <1>4
<1>7. FlattenSeq(f) \in Seq(RowSet) BY <1>6, FlatTyped
<1> QED BY <1>5, <1>6, <1>7 DEF LoopFlat

LEMMA LoopFlatAppend ==
  ASSUME NEW turn \in Nat, NEW batches \in Seq(BatchSet), NEW batch \in BatchSet
  PROVE  LoopFlat(turn, Append(batches, batch))
           = LoopFlat(turn, batches) \o ScopedRows(turn, batch)
<1>1. PICK n \in Nat : n = Len(batches) BY LenProperties
<1>2. PICK bs : bs = Append(batches, batch) /\ n = Len(batches) BY <1>1
<1>3. PICK f : f = [i \in DOMAIN batches |-> ScopedRows(turn, batches[i])] OBVIOUS
<1>4. PICK x : x = ScopedRows(turn, batch) OBVIOUS
<1>5. f \in Seq(Seq(RowSet)) /\ x \in Seq(RowSet) BY <1>3, <1>4, LoopFlatTyped, ScopedWhole
<1>6. /\ bs \in Seq(BatchSet) /\ Len(bs) = n + 1 /\ bs[n + 1] = batch
      /\ \A i \in 1 .. n : bs[i] = batches[i]
  BY <1>2, AppendProperties
<1>7. DOMAIN batches = 1 .. n /\ DOMAIN bs = 1 .. n + 1 BY <1>2, <1>6, LenProperties
<1>8. Len(f) = n BY <1>3, <1>7
<1>9. PICK g : g = [i \in 1 .. n + 1 |-> ScopedRows(turn, bs[i])] OBVIOUS
<1>10. Append(f, x) = g
  <2>1. PICK h : h = Append(f, x) OBVIOUS
  <2>2. h \in Seq(Seq(RowSet)) /\ Len(h) = n + 1 /\ h[n + 1] = x /\ \A i \in 1 .. n : h[i] = f[i]
    BY <1>5, <1>8, <2>1, AppendProperties
  <2>3. h = [i \in 1 .. n + 1 |-> h[i]] BY <2>2, LenProperties
  <2>4. ASSUME NEW i \in 1 .. n + 1 PROVE h[i] = g[i]
    <3>1. CASE i = n + 1
      <4>1. bs[i] = batch /\ h[i] = x BY <1>6, <2>2, <3>1
      <4>2. g[i] = ScopedRows(turn, bs[i]) BY <1>9
      <4> QED BY <1>4, <4>1, <4>2
    <3>2. CASE i # n + 1
      <4>1. i \in 1 .. n BY <3>2
      <4>2. h[i] = f[i] /\ bs[i] = batches[i] BY <1>6, <2>2, <4>1
      <4>3. f[i] = ScopedRows(turn, batches[i]) BY <1>3, <1>7, <4>1
      <4>4. g[i] = ScopedRows(turn, bs[i]) BY <1>9
      <4> QED BY <4>2, <4>3, <4>4
    <3> QED BY <3>1, <3>2
  <2>5. g = [i \in 1 .. n + 1 |-> g[i]] BY <1>9
  <2> QED BY <2>1, <2>3, <2>4, <2>5
<1>11. FlattenSeq(Append(f, x)) = FlattenSeq(f) \o x BY <1>5, FlatAppend
<1>12. LoopFlat(turn, batches) = FlattenSeq(f) BY <1>3 DEF LoopFlat
<1>13. LoopFlat(turn, bs) = FlattenSeq(g) BY <1>7, <1>9 DEF LoopFlat
<1> QED BY <1>2, <1>4, <1>10, <1>11, <1>12, <1>13

\* A further batch tells of its tools after what the earlier ones tell.
LEMMA LoopWholeAppend ==
  ASSUME NEW turn \in Nat, NEW batches \in Seq(BatchSet), NEW batch \in BatchSet,
         NEW u \in Seq(ToolStatuses), Whole(LoopFlat(turn, batches), u)
  PROVE  Whole(LoopFlat(turn, Append(batches, batch)), u \o batch.tools)
<1>1. PICK s, t : s = LoopFlat(turn, batches) /\ t = ScopedRows(turn, batch) OBVIOUS
<1>2. s \in Seq(RowSet) /\ t \in Seq(RowSet) /\ Whole(t, batch.tools)
  BY <1>1, LoopFlatTyped, ScopedWhole
<1>3. batch.tools \in Seq(ToolStatuses) BY DEF BatchSet
<1>4. Whole(s \o t, u \o batch.tools) BY <1>1, <1>2, <1>3, WholeConcat
<1> QED BY <1>1, <1>4, LoopFlatAppend

\* A turn without batches.
LEMMA LoopWholeEmpty == ASSUME NEW turn PROVE Whole(LoopFlat(turn, <<>>), <<>>)
<1>1. LoopFlat(turn, <<>>) = <<>>
  <2>1. [i \in DOMAIN <<>> |-> ScopedRows(turn, <<>>[i])] = <<>> OBVIOUS
  <2> QED BY <2>1, FlatEmpty DEF LoopFlat
<1>2. <<>> \in Seq(RowSet) /\ DOMAIN <<>> = {} OBVIOUS
<1>3. Whole(<<>>, <<>>) BY <1>2, WholeQuiet
<1> QED BY <1>1, <1>3

\* The group of accepted batches tells what they tell.
LEMMA ToolLoopWhole ==
  ASSUME NEW turn \in Nat, NEW batches \in Seq(BatchSet), NEW w,
         \A i \in DOMAIN batches : batches[i].id.turn # 0, Whole(LoopFlat(turn, batches), w)
  PROVE  Whole(ToolLoopRows(turn, batches), w)
<1>1. PICK f : f = LoopFlat(turn, batches) OBVIOUS
<1>2. f \in Seq(RowSet) /\ Whole(f, w) BY <1>1, LoopFlatTyped
<1>3. ToolLoopRows(turn, batches) = Grouped(f) BY <1>1 DEF ToolLoopRows, LoopFlat
<1>4. Grouped(f) \in Seq(RowSet) /\ Said(f, Grouped(f)) BY <1>2, GroupedSays
<1> QED BY <1>2, <1>3, <1>4, WholeSaid

-----------------------------------------------------------------------------
(* Groups of one row. *)

LEMMA OneRow ==
  ASSUME NEW turn \in Nat, NEW kind \in Kinds, NEW id \in CallId, NEW x,
         x = Grouped(<<Row(turn, kind, id, 0, "none")>>)
  PROVE  /\ x \in Seq(RowSet) /\ Len(x) = 1 /\ DOMAIN x = {1}
         /\ x[1].kind = kind /\ x[1].status = "none" /\ x[1].turn = turn /\ x[1].id = id
         /\ kind \notin {"assistant_tool_call", "tool_result"} => x[1].group = kind
<1>1. PICK r : r = Row(turn, kind, id, 0, "none") OBVIOUS
<1>2. /\ r \in RowSet /\ r.kind = kind /\ r.status = "none" /\ r.turn = turn /\ r.id = id
      /\ kind \notin {"assistant_tool_call", "tool_result"} => r.group = kind
  <2>1. "none" \in StatusSet BY DEF StatusSet
  <2> QED BY <1>1, <2>1, RowFields
<1>3. PICK s : s = <<r>> OBVIOUS
<1>4. s \in Seq(RowSet) /\ Len(s) = 1 /\ DOMAIN s = {1} /\ s[1] = r BY <1>2, <1>3
<1>5. x = Grouped(s) BY <1>1, <1>3
<1>6. x \in Seq(RowSet) /\ Said(s, x) BY <1>4, <1>5, GroupedSays
<1>7. /\ Len(x) = 1 /\ x[1].kind = s[1].kind /\ x[1].status = s[1].status
      /\ x[1].turn = s[1].turn /\ x[1].id = s[1].id /\ x[1].group = s[1].group
  BY <1>4, <1>6 DEF Said
<1>8. DOMAIN x = {1} BY <1>6, <1>7
<1> QED BY <1>2, <1>4, <1>6, <1>7, <1>8

\* Rows are only added: the first one stays.
LEMMA FirstStays ==
  ASSUME NEW s \in Seq(RowSet), NEW t \in Seq(RowSet), s # <<>>
  PROVE  s \o t \in Seq(RowSet) /\ s \o t # <<>> /\ (s \o t)[1] = s[1]
<1>1. PICK m \in Nat : m = Len(s) BY LenProperties
<1>2. m # 0 /\ DOMAIN s = 1 .. m BY <1>1, EmptySeq, LenProperties
<1>3. 1 \in DOMAIN s BY <1>2
<1>4. Joined(s, t, s \o t, m) BY <1>1, ConcatPlaces
<1>5. 1 \in DOMAIN (s \o t) /\ (s \o t)[1] = s[1] BY <1>3, <1>4 DEF Joined
<1>6. s \o t \in Seq(RowSet) BY ConcatProperties
<1>7. s \o t # <<>>
  <2>1. DOMAIN <<>> = {} OBVIOUS
  <2> QED BY <1>5, <2>1
<1> QED BY <1>5, <1>6, <1>7
-----------------------------------------------------------------------------
(* Whole groups. *)

\* The places of the group of a row.
Mates(u, i) == {j \in DOMAIN u : u[j].turn = u[i].turn /\ u[j].group = u[i].group}
GroupWhole(u, i) ==
    /\ {u[j].pos : j \in Mates(u, i)} = 0 .. u[i].size - 1
    /\ Cardinality(Mates(u, i)) = u[i].size

LEMMA CutIs ==
  ASSUME NEW u
  PROVE  CutValid(u) <=> (\A i \in DOMAIN u : GroupWhole(u, i)) /\ Paired(u)
BY DEF CutValid, GroupWhole, Mates

\* Two logs that share no group: both are whole, and so is one after the other.
Strangers(s, t) ==
    \A i \in DOMAIN s : \A j \in DOMAIN t : ~(s[i].turn = t[j].turn /\ s[i].group = t[j].group)

LEMMA CutConcat ==
  ASSUME NEW s \in Seq(RowSet), NEW t \in Seq(RowSet), CutValid(s), CutValid(t), Strangers(s, t)
  PROVE  CutValid(s \o t)
<1>1. PICK m \in Nat, n \in Nat : m = Len(s) /\ n = Len(t) BY LenProperties
<1>2. PICK u : u = s \o t /\ m = Len(s) /\ n = Len(t) BY <1>1
<1>3. Joined(s, t, u, m) BY <1>2, ConcatPlaces
<1>4. /\ \A i \in DOMAIN s : i \in DOMAIN u /\ u[i] = s[i]
      /\ \A j \in DOMAIN t : m + j \in DOMAIN u /\ u[m + j] = t[j]
      /\ \A i \in DOMAIN u : i \in DOMAIN s \/ \E j \in DOMAIN t : i = m + j
  BY <1>3 DEF Joined
<1>5. ASSUME NEW i \in DOMAIN s PROVE GroupWhole(u, i)
  <2>1. u[i] = s[i] /\ GroupWhole(s, i) BY <1>4, CutIs
  <2>2. ASSUME NEW j \in Mates(u, i) PROVE j \in Mates(s, i)
    <3>1. j \in DOMAIN u /\ u[j].turn = s[i].turn /\ u[j].group = s[i].group
      BY <2>1 DEF Mates
    <3>2. ASSUME NEW k \in DOMAIN t, j = m + k PROVE FALSE
      BY <1>4, <3>1, <3>2 DEF Strangers
    <3>3. j \in DOMAIN s BY <1>4, <3>1, <3>2
    <3> QED BY <1>4, <3>1, <3>3 DEF Mates
  <2>3. \A j \in Mates(s, i) : j \in Mates(u, i) BY <1>4, <2>1 DEF Mates
  <2>4. Mates(u, i) = Mates(s, i) BY <2>2, <2>3
  <2>5. \A j \in Mates(s, i) : u[j] = s[j] BY <1>4 DEF Mates
  <2>6. {u[j].pos : j \in Mates(u, i)} = {s[j].pos : j \in Mates(s, i)} BY <2>4, <2>5
  <2> QED BY <2>1, <2>4, <2>6 DEF GroupWhole
<1>6. ASSUME NEW q \in DOMAIN t PROVE GroupWhole(u, m + q)
  <2>1. u[m + q] = t[q] /\ GroupWhole(t, q) BY <1>4, CutIs
  <2>2. PICK T : T = Mates(t, q) OBVIOUS
  <2>3. ASSUME NEW j \in Mates(u, m + q) PROVE j \in {m + k : k \in T}
    <3>1. j \in DOMAIN u /\ u[j].turn = t[q].turn /\ u[j].group = t[q].group
      BY <2>1 DEF Mates
    <3>2. j \notin DOMAIN s BY <1>4, <3>1 DEF Strangers
    <3>3. PICK k \in DOMAIN t : j = m + k BY <1>4, <3>1, <3>2
    <3>4. k \in T BY <1>4, <2>2, <3>1, <3>3 DEF Mates
    <3> QED BY <3>3, <3>4
  <2>4. ASSUME NEW k \in T PROVE m + k \in Mates(u, m + q) /\ u[m + k] = t[k]
    <3>1. k \in DOMAIN t /\ t[k].turn = t[q].turn /\ t[k].group = t[q].group
      BY <2>2 DEF Mates
    <3> QED BY <1>4, <2>1, <3>1 DEF Mates
  <2>5. Mates(u, m + q) = {m + k : k \in T} BY <2>3, <2>4
  <2>6. {u[j].pos : j \in Mates(u, m + q)} = {t[k].pos : k \in T}
    <3>1. \A j \in Mates(u, m + q) : \E k \in T : u[j].pos = t[k].pos BY <2>4, <2>5
    <3>2. \A k \in T : \E j \in Mates(u, m + q) : u[j].pos = t[k].pos BY <2>4
    <3> QED BY <3>1, <3>2
  <2>7. T \subseteq Nat /\ IsFiniteSet(T)
    <3>1. DOMAIN t = 1 .. n BY <1>2, LenProperties
    <3>2. T \in SUBSET (1 .. n) BY <2>2, <3>1 DEF Mates
    <3>3. IsFiniteSet(1 .. n) BY FS_Interval
    <3>4. IsFiniteSet(T) BY <3>2, <3>3, FS_Subset
    <3>5. T \subseteq Nat BY <3>2
    <3> QED BY <3>4, <3>5
  <2>8. Cardinality(Mates(u, m + q)) = Cardinality(T) BY <2>5, <2>7, Moved
  <2> QED BY <2>1, <2>2, <2>6, <2>8 DEF GroupWhole
<1>7. \A i \in DOMAIN u : GroupWhole(u, i) BY <1>4, <1>5, <1>6
<1>8. Paired(u)
  <2>1. ASSUME NEW kind PROVE IdsOf(u, kind) = IdsOf(s, kind) \cup IdsOf(t, kind)
    BY <1>2, IdsConcat
  <2>2. Paired(s) /\ Paired(t) BY CutIs
  <2> QED BY <2>1, <2>2, PairedIs
<1> QED BY <1>2, <1>7, <1>8, CutIs

\* The rows of one append, all of one turn and of one group, are whole once numbered.
OfGroup(s, n, g) == \A i \in DOMAIN s : s[i].turn = n /\ s[i].group = g

LEMMA GroupedCut ==
  ASSUME NEW s \in Seq(RowSet), NEW n, NEW g, OfGroup(s, n, g), Paired(s)
  PROVE  CutValid(Grouped(s)) /\ OfGroup(Grouped(s), n, g)
<1>1. PICK m \in Nat : m = Len(s) BY LenProperties
<1>2. PICK t : t = Grouped(s) OBVIOUS
<1>3. t \in Seq(RowSet) /\ Said(s, t) BY <1>2, GroupedSays
<1>4. DOMAIN s = 1 .. m /\ DOMAIN t = 1 .. m BY <1>1, <1>3, LenProperties DEF Said
<1>5. \A i \in 1 .. m : /\ t[i].kind = s[i].kind /\ t[i].id = s[i].id
                        /\ t[i].tool = s[i].tool /\ t[i].turn = s[i].turn
                        /\ t[i].group = s[i].group
  BY <1>3, <1>4 DEF Said
<1>6. OfGroup(t, n, g) BY <1>4, <1>5 DEF OfGroup
<1>7. ASSUME NEW i \in 1 .. m PROVE t[i].pos = i - 1 /\ t[i].size = m
  <2>1. PICK r \in RowSet : r = s[i] BY <1>1, ElementOfSeq
  <2>2. t[i] = [r EXCEPT !.pos = i - 1, !.size = m] BY <1>1, <1>2, <1>4, <2>1 DEF Grouped
  <2> QED BY <2>2 DEF RowSet
<1>8. ASSUME NEW i \in 1 .. m PROVE GroupWhole(t, i)
  <2>1. Mates(t, i) = 1 .. m BY <1>4, <1>6 DEF Mates, OfGroup
  <2>2. Cardinality(1 .. m) = m BY FS_Interval
  <2>3. {t[j].pos : j \in 1 .. m} = 0 .. m - 1
    <3>1. \A j \in 1 .. m : t[j].pos \in 0 .. m - 1 BY <1>7
    <3>2. ASSUME NEW p \in 0 .. m - 1 PROVE \E j \in 1 .. m : t[j].pos = p
      <4>1. p + 1 \in 1 .. m /\ (p + 1) - 1 = p OBVIOUS
      <4> QED BY <1>7, <4>1
    <3> QED BY <3>1, <3>2
  <2> QED BY <1>7, <2>1, <2>2, <2>3 DEF GroupWhole
<1>9. Paired(t)
  <2>1. ASSUME NEW kind PROVE IdsOf(t, kind) = IdsOf(s, kind) BY <1>4, <1>5 DEF IdsOf
  <2> QED BY <2>1, PairedIs
<1> QED BY <1>2, <1>4, <1>6, <1>8, <1>9, CutIs

\* A batch of one tool pairs its call with its result, whoever named it.
LEMMA AdapterSingle ==
  ASSUME NEW turn \in Nat, NEW batch \in BatchSet, Len(batch.tools) = 1
  PROVE  AdapterRows(turn, batch) = ScopedRows(turn, batch)
<1>1. batch.tools \in Seq(ToolStatuses) BY DEF BatchSet
<1>2. PICK one \in Nat : one = 1 /\ one = Len(batch.tools) OBVIOUS
<1>3. DOMAIN batch.tools = 1 .. one BY <1>1, <1>2, LenProperties
<1>4. PICK c, r : c = Calls(turn, batch) /\ r = Answers(turn, batch) OBVIOUS
<1>5. PICK x : x = Row(turn, "assistant_tool_call", batch.id, 1, "none") OBVIOUS
<1>6. c = <<x>>
  <2>1. c = [k \in 1 .. 1 |-> Row(turn, "assistant_tool_call", batch.id, k, "none")]
    BY <1>2, <1>3, <1>4 DEF Calls
  <2>2. \A k \in 1 .. 1 : k = 1 OBVIOUS
  <2>3. c = [k \in 1 .. 1 |-> x] BY <1>5, <2>1, <2>2
  <2> QED BY <2>3
<1>7. ScopedRows(turn, batch) = c \o r BY <1>4 DEF ScopedRows, Calls, Answers
<1>8. AdapterRows(turn, batch) = <<x>> \o r BY <1>4, <1>5 DEF AdapterRows, Answers
<1> QED BY <1>6, <1>7, <1>8

\* Batches that the loop accepted pair their calls with their results, how many they be.
LEMMA LoopPaired ==
  ASSUME NEW turn \in Nat, NEW batches \in Seq(BatchSet)
  PROVE  Paired(LoopFlat(turn, batches))
<1>1. PICK T : T = {n \in Nat : \E bs \in Seq(BatchSet) :
                       Len(bs) = n /\ ~Paired(LoopFlat(turn, bs))}
  OBVIOUS
<1>2. ASSUME T # {} PROVE FALSE
  <2>1. T \subseteq Nat BY <1>1
  <2>2. PICK n \in T : \A k \in T : n <= k BY <1>2, <2>1, Least
  <2>3. n \in Nat BY <2>1
  <2>4. PICK bs \in Seq(BatchSet) : Len(bs) = n /\ ~Paired(LoopFlat(turn, bs)) BY <1>1, <2>2
  <2>5. CASE n = 0
    <3>1. bs = <<>> BY <2>4, <2>5, EmptySeq
    <3> QED BY <2>4, <3>1, LoopWholeEmpty DEF Whole
  <2>6. CASE n # 0
    <3>1. PICK m \in Nat : n = m + 1 /\ m < n
      <4>1. n - 1 \in Nat /\ n = (n - 1) + 1 /\ n - 1 < n BY <2>3, <2>6
      <4> QED BY <4>1
    <3> DEFINE F(i) == bs[i]
    <3>2. PICK front : front = [i \in 1 .. m |-> F(i)] OBVIOUS
    <3>3. \A i \in 1 .. m + 1 : F(i) \in BatchSet BY <2>4, <3>1, ElementOfSeq
    <3>4. PICK last : last = F(m + 1) /\ last \in BatchSet BY <3>3
    <3>5. bs = [i \in 1 .. m + 1 |-> F(i)] BY <2>4, <3>1, LenProperties
    <3> HIDE DEF F
    <3>6. front \in Seq(BatchSet) /\ Len(front) = m /\ \A i \in 1 .. m : front[i] = F(i)
      BY <3>2, <3>3
    <3>7. bs = Append(front, last)
      <4>1. PICK t : t = Append(front, last) OBVIOUS
      <4>2. /\ t \in Seq(BatchSet) /\ Len(t) = m + 1 /\ t[m + 1] = last
            /\ \A i \in 1 .. m : t[i] = F(i)
        BY <3>4, <3>6, <4>1, AppendProperties
      <4>3. ASSUME NEW i \in 1 .. m + 1 PROVE t[i] = F(i)
        <5>1. CASE i = m + 1 BY <3>4, <4>2, <5>1
        <5>2. CASE i # m + 1
          <6>1. i \in 1 .. m BY <5>2
          <6> QED BY <4>2, <6>1
        <5> QED BY <5>1, <5>2
      <4>4. t = [i \in 1 .. m + 1 |-> t[i]] BY <4>2, LenProperties
      <4>5. t = [i \in 1 .. m + 1 |-> F(i)] BY <4>3, <4>4
      <4> QED BY <3>5, <4>1, <4>5
    <3>8. Paired(LoopFlat(turn, front))
      <4>1. m \notin T BY <2>2, <2>3, <3>1
      <4> QED BY <1>1, <3>6, <4>1
    <3>9. PICK s, t : s = LoopFlat(turn, front) /\ t = ScopedRows(turn, last) OBVIOUS
    <3>10. s \in Seq(RowSet) /\ t \in Seq(RowSet) /\ Paired(s) /\ Paired(t)
      BY <3>4, <3>6, <3>8, <3>9, LoopFlatTyped, ScopedWhole DEF Whole
    <3>11. \A kind : IdsOf(s \o t, kind) = IdsOf(s, kind) \cup IdsOf(t, kind)
      BY <3>10, IdsConcat
    <3>12. Paired(s \o t) BY <3>10, <3>11, PairedIs
    <3> QED BY <2>4, <3>4, <3>6, <3>7, <3>9, <3>12, LoopFlatAppend
  <2> QED BY <2>5, <2>6
<1>3. Len(batches) \in Nat BY LenProperties
<1> QED BY <1>1, <1>2, <1>3

\* The tool-loop group of a turn is whole, if only a batch of a single tool has the
\* adapter's own id.
AdaptedSingly(batches) ==
    \A i \in DOMAIN batches : batches[i].id.turn = 0 => Len(batches[i].tools) = 1

LEMMA LoopCut ==
  ASSUME NEW turn \in Nat, NEW batches \in Seq(BatchSet), AdaptedSingly(batches)
  PROVE  /\ CutValid(ToolLoopRows(turn, batches))
         /\ OfGroup(ToolLoopRows(turn, batches), turn, "tool-loop")
<1>1. PICK f : f = LoopFlat(turn, batches) OBVIOUS
<1>2. f \in Seq(RowSet) /\ Paired(f) BY <1>1, LoopFlatTyped, LoopPaired
<1>3. ASSUME NEW i \in DOMAIN batches
      PROVE  (IF batches[i].id.turn = 0 THEN AdapterRows(turn, batches[i])
                                        ELSE ScopedRows(turn, batches[i]))
                = ScopedRows(turn, batches[i])
  <2>1. batches[i] \in BatchSet BY ElementOfSeq, LenProperties
  <2>2. batches[i].id.turn = 0 => Len(batches[i].tools) = 1 BY DEF AdaptedSingly
  <2> QED BY <2>1, <2>2, AdapterSingle
<1>4. [i \in DOMAIN batches |->
          IF batches[i].id.turn = 0 THEN AdapterRows(turn, batches[i])
                                    ELSE ScopedRows(turn, batches[i])]
        = [i \in DOMAIN batches |-> ScopedRows(turn, batches[i])]
  BY <1>3
<1>5. ToolLoopRows(turn, batches) = Grouped(f) BY <1>1, <1>4 DEF ToolLoopRows, LoopFlat
<1>6. OfGroup(f, turn, "tool-loop")
  <2>1. AllWithout(batches, {}) BY DEF AllWithout, Without
  <2>2. \A i \in DOMAIN batches : batches[i].id \in CallId
    <3>1. ASSUME NEW i \in DOMAIN batches PROVE batches[i].id \in CallId
      <4>1. batches[i] \in BatchSet BY ElementOfSeq, LenProperties
      <4> QED BY <4>1 DEF BatchSet
    <3> QED BY <3>1
  <2>3. PICK x : x = ToolLoopRows(turn, batches) OBVIOUS
  <2>4. x \in Seq(Allowed({}, turn, CallId)) BY <2>1, <2>2, <2>3, ToolLoopAllowed
  <2>5. \A i \in DOMAIN x : x[i] \in Allowed({}, turn, CallId) BY <2>4, AllowedRows
  <2>6. \A i \in DOMAIN x : x[i].turn = turn /\ x[i].group = "tool-loop"
    BY <2>5 DEF Allowed
  <2>7. Said(f, x) BY <1>2, <1>5, <2>3, GroupedSays
  <2>8. DOMAIN x = DOMAIN f
    <3>1. x \in Seq(RowSet) BY <2>4, AllowedRows
    <3> QED BY <1>2, <2>7, <3>1, LenProperties DEF Said
  <2> QED BY <2>6, <2>7, <2>8 DEF Said, OfGroup
<1>7. CutValid(Grouped(f)) /\ OfGroup(Grouped(f), turn, "tool-loop") BY <1>2, <1>6, GroupedCut
<1> QED BY <1>5, <1>7

\* A group of one row without a call is whole.
LEMMA OneRowCut ==
  ASSUME NEW turn \in Nat, NEW kind \in Kinds, NEW id \in CallId,
         kind \notin {"assistant_tool_call", "tool_result"},
         NEW x, x = Grouped(<<Row(turn, kind, id, 0, "none")>>)
  PROVE  x \in Seq(RowSet) /\ Len(x) = 1 /\ CutValid(x) /\ OfGroup(x, turn, kind)
<1>1. PICK r : r = Row(turn, kind, id, 0, "none") OBVIOUS
<1>2. r \in RowSet /\ r.kind = kind /\ r.turn = turn /\ r.group = kind
  <2>1. "none" \in StatusSet BY DEF StatusSet
  <2> QED BY <1>1, <2>1, RowFields
<1>3. PICK s : s = <<r>> OBVIOUS
<1>4. s \in Seq(RowSet) /\ DOMAIN s = {1} /\ s[1] = r BY <1>2, <1>3
<1>5. OfGroup(s, turn, kind) BY <1>2, <1>4 DEF OfGroup
<1>6. Paired(s)
  <2>1. \A i \in DOMAIN s : s[i].kind \notin {"assistant_tool_call", "tool_result"}
    BY <1>2, <1>4
  <2> QED BY <1>4, <2>1, WholeQuiet DEF Whole
<1>7. x = Grouped(s) BY <1>1, <1>3
<1>8. x \in Seq(RowSet) /\ Len(x) = 1 BY <1>1, OneRow
<1> QED BY <1>4, <1>5, <1>6, <1>7, <1>8, GroupedCut

\* A log to which a new group is added stays whole, and nothing else is new in it.
NewGroup(s, n, g) == \A i \in DOMAIN s : ~(s[i].turn = n /\ s[i].group = g)

LEMMA GroupAdded ==
  ASSUME NEW s \in Seq(RowSet), CutValid(s), NEW n, NEW g, NewGroup(s, n, g),
         NEW t \in Seq(RowSet), CutValid(t), OfGroup(t, n, g)
  PROVE  /\ s \o t \in Seq(RowSet) /\ CutValid(s \o t)
         /\ \A h : h # g /\ NewGroup(s, n, h) => NewGroup(s \o t, n, h)
<1>1. Strangers(s, t) BY DEF Strangers, NewGroup, OfGroup
<1>2. PICK u, m : u = s \o t /\ m = Len(s) OBVIOUS
<1>3. Joined(s, t, u, m) BY <1>2, ConcatPlaces
<1>4. ASSUME NEW h, h # g, NewGroup(s, n, h), NEW i \in DOMAIN u, u[i].turn = n, u[i].group = h
      PROVE  FALSE
  <2>1. CASE i \in DOMAIN s BY <1>3, <1>4, <2>1 DEF Joined, NewGroup
  <2>2. CASE i \notin DOMAIN s
    <3>1. PICK j \in DOMAIN t : i = m + j BY <1>3, <1>4, <2>2 DEF Joined
    <3>2. u[i] = t[j] BY <1>3, <3>1 DEF Joined
    <3> QED BY <1>4, <3>2 DEF OfGroup
  <2> QED BY <2>1, <2>2
<1>5. \A h : h # g /\ NewGroup(s, n, h) => NewGroup(u, n, h) BY <1>4 DEF NewGroup
<1> QED BY <1>1, <1>2, <1>5, CutConcat, ConcatProperties
=============================================================================
