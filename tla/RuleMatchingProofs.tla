------------------------- MODULE RuleMatchingProofs -------------------------
(***************************************************************************)
(* A rule fires exactly on the signals its documentation says: texts order *)
(* times, a condition is decided as it is meant, the clauses are gone      *)
(* through as they are meant.                                              *)
(***************************************************************************)
EXTENDS RuleMatching, GlobMatchProofs, FiniteSetTheorems

-----------------------------------------------------------------------------
(* Texts order times.                                                       *)

\* A time is a sequence of numbers.
LEMMA TimeTyping ==
  ASSUME NEW t, IsTime(t)
  PROVE  /\ t \in Seq(Nat) /\ Len(t) \in Nat \ {0} /\ DOMAIN t = 1..Len(t)
         /\ 1 \in DOMAIN t /\ \A j \in 1..Len(t) : t[j] \in Nat
<1>1. t \in Seq(Nat) /\ (Len(t) = 2 \/ Len(t) >= 4)
  BY DEF IsTime
<1>2. Len(t) \in Nat /\ DOMAIN t = 1..Len(t) /\ \A j \in 1..Len(t) : t[j] \in Nat
  BY <1>1
<1>3. QED
  BY <1>1, <1>2

\* A digit is behind no other place.
LEMMA DigitAt ==
  ASSUME NEW t, IsTime(t), NEW n \in 1..Len(t) - 3
  PROVE  n + 2 \in 3..Len(t) - 1 /\ Digit(t, n) = t[n + 2] - 48 /\ t[n + 2] \in 48..57
BY DEF IsTime, Digit

LEMMA NoDigit ==
  ASSUME NEW t, IsTime(t), NEW n \in Nat \ {0}, n \notin 1..Len(t) - 3
  PROVE  Digit(t, n) = 0
BY DEF IsTime, Digit

\* Two times of one length and one second differ in their digits alone.
LEMMA OneFrame ==
  ASSUME NEW a, NEW b, IsTime(a), IsTime(b), Len(a) = Len(b), a[1] = b[1],
         NEW j \in 1..Len(a), j \notin 3..Len(a) - 1
  PROVE  a[j] = b[j]
BY SMTT(30) DEF IsTime

\* Two texts of one length are in order as the times are.
LEMMA SameSecond ==
  ASSUME NEW a, NEW b, IsTime(a), IsTime(b), Len(a) = Len(b), a[1] = b[1]
  PROVE  Leq(a, b) <=> NoLater(a, b)
<1>0. /\ Len(a) \in Nat \ {0} /\ DOMAIN a = 1..Len(a) /\ DOMAIN b = 1..Len(a)
      /\ \A j \in 1..Len(a) : a[j] \in Nat /\ b[j] \in Nat
  BY TimeTyping
<1>1. ASSUME \A j \in 1..Len(a) : a[j] = b[j]
      PROVE  NoLater(a, b)
  BY <1>0, <1>1 DEF NoLater, Places, Digit
<1>2. ASSUME NEW n \in 1..Len(a), a[n] < b[n], \A j \in 1..n - 1 : a[j] = b[j]
      PROVE  NoLater(a, b)
  <2>1. n \in 3..Len(a) - 1
    BY <1>0, <1>2, OneFrame
  <2> DEFINE m == n - 2
  <2>2. m \in 1..Len(a) - 3 /\ m + 2 = n /\ m \in Places(a, b)
    BY <1>0, <2>1 DEF Places
  <2>3. Digit(a, m) < Digit(b, m)
    <3>1. Digit(a, m) = a[m + 2] - 48 /\ Digit(b, m) = b[m + 2] - 48
      BY <1>0, <2>2, DigitAt
    <3>2. a[m + 2] \in Nat /\ b[m + 2] \in Nat /\ a[m + 2] < b[m + 2]
      BY <1>0, <1>2, <2>2
    <3>3. QED
      BY <3>1, <3>2
  <2>4. \A l \in 1..m - 1 : Digit(a, l) = Digit(b, l)
    BY <1>0, <1>2, <2>1, <2>2 DEF Digit
  <2>5. QED
    BY <2>2, <2>3, <2>4 DEF NoLater
<1>3. ASSUME \A n \in Places(a, b) : Digit(a, n) = Digit(b, n), NEW j \in 1..Len(a)
      PROVE  a[j] = b[j]
  <2>1. CASE j \notin 3..Len(a) - 1
    BY <2>1, OneFrame
  <2>2. CASE j \in 3..Len(a) - 1
    <3> DEFINE m == j - 2
    <3>1. m \in 1..Len(a) - 3 /\ m + 2 = j /\ m \in Places(a, b)
      BY <1>0, <2>2 DEF Places
    <3>2. Digit(a, m) = Digit(b, m)
      BY <1>3, <3>1
    <3>3. Digit(a, m) = a[j] - 48 /\ Digit(b, m) = b[j] - 48
      BY <1>0, <3>1, DigitAt
    <3>4. QED
      BY <1>0, <3>2, <3>3
  <2>3. QED
    BY <2>1, <2>2
<1>4. ASSUME NEW n \in Places(a, b), Digit(a, n) < Digit(b, n),
             \A l \in 1..n - 1 : Digit(a, l) = Digit(b, l)
      PROVE  Leq(a, b)
  <2>1. n \in 1..Len(a) - 3
    BY <1>0, <1>4, NoDigit DEF Places
  <2>2. n + 2 \in 1..Len(a) /\ a[n + 2] < b[n + 2]
    <3>1. Digit(a, n) = a[n + 2] - 48 /\ Digit(b, n) = b[n + 2] - 48
      BY <1>0, <2>1, DigitAt
    <3>2. n + 2 \in 1..Len(a) /\ a[n + 2] \in Nat /\ b[n + 2] \in Nat
      BY <1>0, <2>1
    <3>3. QED
      BY <1>4, <3>1, <3>2
  <2>3. ASSUME NEW j \in 1..n + 1
        PROVE  a[j] = b[j]
    <3>1. CASE j \notin 3..Len(a) - 1
      BY <1>0, <2>1, <3>1, OneFrame
    <3>2. CASE j \in 3..Len(a) - 1
      <4> DEFINE m == j - 2
      <4>1. m \in 1..Len(a) - 3 /\ m + 2 = j /\ m \in 1..n - 1
        BY <1>0, <2>1, <3>2
      <4>2. Digit(a, m) = Digit(b, m)
        BY <1>4, <4>1
      <4>3. Digit(a, m) = a[j] - 48 /\ Digit(b, m) = b[j] - 48
        BY <1>0, <4>1, DigitAt
      <4>4. a[j] \in Nat /\ b[j] \in Nat
        BY <1>0, <3>2
      <4>5. QED
        BY <4>2, <4>3, <4>4
    <3>3. QED
      BY <3>1, <3>2
  <2>4. n + 2 \in DOMAIN a \cap DOMAIN b
    BY <1>0, <2>2
  <2> DEFINE m == n + 2
  <2>5. 1..m - 1 = 1..n + 1
    BY <2>1
  <2>6. m \in DOMAIN a \cap DOMAIN b /\ a[m] < b[m] /\ \A j \in 1..m - 1 : a[j] = b[j]
    BY <2>2, <2>3, <2>4, <2>5
  <2> HIDE DEF m
  <2>7. \E l \in DOMAIN a \cap DOMAIN b : a[l] < b[l] /\ \A j \in 1..l - 1 : a[j] = b[j]
    BY <2>6
  <2>8. QED
    BY <2>7 DEF Leq
<1>5. Leq(a, b) <=> \/ \A j \in 1..Len(a) : a[j] = b[j]
                    \/ \E n \in 1..Len(a) : a[n] < b[n] /\ \A j \in 1..n - 1 : a[j] = b[j]
  <2>1. DOMAIN a \cap DOMAIN b = 1..Len(a) /\ Len(a) <= Len(b)
    BY <1>0
  <2>2. QED
    BY <2>1 DEF Leq
<1>6. QED
  BY <1>1, <1>2, <1>3, <1>4, <1>5 DEF NoLater

\* Texts order times that are of different seconds, or written alike.
LEMMA TextsOrderTimes ==
  ASSUME NEW a, NEW b, IsTime(a), IsTime(b), a[1] # b[1] \/ Len(a) = Len(b)
  PROVE  Leq(a, b) <=> NoLater(a, b)
<1>0. a[1] \in Nat /\ b[1] \in Nat
  BY TimeTyping
<1>1. DOMAIN a = 1..Len(a) /\ DOMAIN b = 1..Len(b) /\ Len(a) \in Nat \ {0} /\ Len(b) \in Nat \ {0}
  BY TimeTyping
<1>2. /\ 1 \in DOMAIN a \cap DOMAIN b /\ 1 \in 1..Len(a)
      /\ \A n \in DOMAIN a \cap DOMAIN b : n \in Nat \ {0}
  <2>1. Len(a) \in Nat \ {0} /\ Len(b) \in Nat \ {0}
    BY <1>1
  <2>2. 1 \in 1..Len(a) /\ 1 \in 1..Len(b) /\ \A n \in 1..Len(a) : n \in Nat \ {0}
    BY <2>1
  <2>3. QED
    BY <1>1, <2>2
<1>3. CASE a[1] < b[1]
  <2>1. \A j \in 1..1 - 1 : a[j] = b[j]
    OBVIOUS
  <2>2. Leq(a, b)
    BY <1>2, <1>3, <2>1 DEF Leq
  <2>3. NoLater(a, b)
    BY <1>3 DEF NoLater
  <2>4. QED
    BY <2>2, <2>3
<1>4. CASE b[1] < a[1]
  <2>1. ~(a[1] < b[1]) /\ a[1] # b[1]
    BY <1>0, <1>4
  <2>2. ~NoLater(a, b)
    BY <2>1 DEF NoLater
  <2>3. ~\A j \in 1..Len(a) : a[j] = b[j]
    BY <1>2, <2>1
  <2>4. ASSUME NEW n \in DOMAIN a \cap DOMAIN b, a[n] < b[n], \A j \in 1..n - 1 : a[j] = b[j]
        PROVE  FALSE
    <3>1. n # 1
      BY <2>1, <2>4
    <3>2. 1 \in 1..n - 1
      BY <1>2, <3>1
    <3>3. QED
      BY <2>1, <2>4, <3>2
  <2>5. QED
    BY <2>2, <2>3, <2>4 DEF Leq
<1>5. CASE a[1] = b[1]
  <2>1. Len(a) = Len(b)
    BY <1>5
  <2>2. QED
    BY <1>5, <2>1, SameSecond
<1>6. QED
  BY <1>0, <1>3, <1>4, <1>5

\* utcBetween holds when the time is in the window.
LEMMA WithinIsBetween ==
  ASSUME NEW t, IsTime(t), NEW win, IsBound(win.start), IsBound(win.end), win.end # <<<<>>>>,
         \A b \in {win.start, win.end} : Open(b) \/ b[1][1] # t[1] \/ Len(b[1]) = Len(t)
  PROVE  Within(t, win) <=> /\ Open(win.start) \/ NoLater(win.start[1], t)
                            /\ Open(win.end) \/ NoLater(t, win.end[1])
<1>1. Leq(Bound(win.start, <<>>), t) <=> Open(win.start) \/ NoLater(win.start[1], t)
  <2>1. CASE Open(win.start)
    BY <2>1 DEF Open, Bound, Leq
  <2>2. CASE ~Open(win.start)
    <3>1. win.start # <<>> /\ IsTime(win.start[1])
      BY <2>2 DEF Open, IsBound
    <3>2. win.start[1][1] # t[1] \/ Len(win.start[1]) = Len(t)
      BY <2>2
    <3>3. QED
      BY <2>2, <3>1, <3>2, TextsOrderTimes DEF Bound
  <2>3. QED
    BY <2>1, <2>2
<1>2. Leq(t, Bound(win.end, <<Tilde>>)) <=> Open(win.end) \/ NoLater(t, win.end[1])
  <2>1. CASE Open(win.end)
    <3>1. win.end = <<>> /\ Bound(win.end, <<Tilde>>) = <<Tilde>>
      BY <2>1 DEF Open, Bound
    <3>2. t \in Seq(Nat) /\ 1 \in DOMAIN t /\ t[1] < Tilde
      BY DEF IsTime
    <3>3. Leq(t, <<Tilde>>)
      <4> DEFINE b == <<Tilde>>
      <4>1. 1 \in DOMAIN b /\ b[1] = Tilde
        OBVIOUS
      <4> HIDE DEF b
      <4>2. 1 \in DOMAIN t \cap DOMAIN b /\ t[1] < b[1] /\ \A j \in 1..1 - 1 : t[j] = b[j]
        BY <3>2, <4>1
      <4>3. Leq(t, b)
        BY <4>2 DEF Leq
      <4>4. QED
        BY <4>3 DEF b
    <3>4. QED
      BY <2>1, <3>1, <3>3
  <2>2. CASE ~Open(win.end)
    <3>1. win.end # <<>> /\ IsTime(win.end[1])
      BY <2>2 DEF Open, IsBound
    <3>2. t[1] # win.end[1][1] \/ Len(t) = Len(win.end[1])
      BY <2>2
    <3>3. QED
      BY <2>2, <3>1, <3>2, TextsOrderTimes DEF Bound
  <2>3. QED
    BY <2>1, <2>2
<1>3. QED
  BY <1>1, <1>2 DEF Within

-----------------------------------------------------------------------------
(* A condition is decided as it is meant.                                   *)

\* The field that decides is one that the condition and the signal have.
LEMMA FieldDecides ==
  ASSUME NEW c, Deciding(c) # {}
  PROVE  /\ Field(c) \in DOMAIN c \cap DOMAIN facts
         /\ Field(c) \in {"acquisitionSignalID", "command", "type", "upid", "utc"}
<1>1. Deciding(c) \subseteq 1..5 /\ DOMAIN Fields = 1..5
  BY DEF Deciding, Fields
<1>2. \E n \in Deciding(c) : \A l \in Deciding(c) : n <= l
  BY <1>1
<1>3. PICK n \in Deciding(c) : Field(c) = Fields[n]
  BY <1>2 DEF Field
<1>4. n \in {1, 2, 3, 4, 5}
  BY <1>1
<1>5. QED
  BY <1>3, <1>4 DEF Deciding, Fields

\* Of a condition on one field, that field decides, if the signal has it.
LEMMA OneField ==
  ASSUME NEW c, IsCondition(c), Cardinality(DOMAIN c) = 1
  PROVE  \E f \in FieldNames : /\ DOMAIN c = {f}
                               /\ f \in DOMAIN facts => Deciding(c) # {} /\ Field(c) = f
                               /\ f \notin DOMAIN facts => Deciding(c) = {}
<1>1. FieldNames = {"acquisitionSignalID", "command", "type", "upid", "utc"}
  <2>1. DOMAIN Fields = {1, 2, 3, 4, 5}
    BY DEF Fields
  <2>2. /\ Fields[1] = "acquisitionSignalID" /\ Fields[2] = "command" /\ Fields[3] = "type"
        /\ Fields[4] = "upid" /\ Fields[5] = "utc"
    BY DEF Fields
  <2>3. QED
    BY <2>1, <2>2 DEF FieldNames
<1>2. IsFiniteSet(FieldNames)
  <2> DEFINE s1 == {"acquisitionSignalID"}
             s2 == s1 \cup {"command"}
             s3 == s2 \cup {"type"}
             s4 == s3 \cup {"upid"}
             s5 == s4 \cup {"utc"}
  <2>1. IsFiniteSet(s1)
    BY FS_Singleton
  <2>2. FieldNames = s5
    BY <1>1
  <2> HIDE DEF s1
  <2>3. IsFiniteSet(s2)
    BY <2>1, FS_AddElement
  <2> HIDE DEF s2
  <2>4. IsFiniteSet(s3)
    BY <2>3, FS_AddElement
  <2> HIDE DEF s3
  <2>5. IsFiniteSet(s4)
    BY <2>4, FS_AddElement
  <2> HIDE DEF s4
  <2>6. IsFiniteSet(s5)
    BY <2>5, FS_AddElement
  <2>7. QED
    BY <2>2, <2>6
<1>3. DOMAIN c \in SUBSET FieldNames
  BY DEF IsCondition
<1>4. IsFiniteSet(DOMAIN c)
  BY <1>2, <1>3, FS_Subset
<1>5. PICK f : DOMAIN c = {f}
  BY <1>4, FS_Singleton
<1>6. f \in FieldNames
  BY <1>3, <1>5
<1>7. PICK n \in DOMAIN Fields : Fields[n] = f
  BY <1>6 DEF FieldNames
<1>8. f \in DOMAIN facts => n \in Deciding(c)
  BY <1>5, <1>7 DEF Deciding
<1>9. Deciding(c) # {} => Field(c) = f /\ f \in DOMAIN facts
  BY <1>5, FieldDecides
<1>10. QED
  BY <1>5, <1>6, <1>8, <1>9

\* What eval compares is what the condition asks for.
LEMMA ComparisonMeans ==
  ASSUME NEW c, IsCondition(c), IsFacts(facts), Cardinality(DOMAIN c) = 1, Sharp(c)
  PROVE  /\ Deciding(c) = {} => ~Meets(c)
         /\ Deciding(c) # {} /\ Field(c) \in {"command", "type"} =>
              (SameName(c[Field(c)], facts[Field(c)]) <=> Meets(c))
         /\ Deciding(c) # {} /\ Field(c) = "utc" =>
              (Within(facts["utc"], c["utc"]) <=> Meets(c))
         /\ Deciding(c) # {} /\ IsGlob(Field(c)) =>
              (Glob(c[Field(c)], facts[Field(c)])!Placeable(1, 0) <=> Meets(c))
<1>1. PICK f \in FieldNames : /\ DOMAIN c = {f}
                              /\ f \in DOMAIN facts => Deciding(c) # {} /\ Field(c) = f
                              /\ f \notin DOMAIN facts => Deciding(c) = {}
  BY OneField
<1>2. CASE f \notin DOMAIN facts
  <2>1. ~Meets(c)
    BY <1>1, <1>2 DEF Meets
  <2>2. QED
    BY <1>1, <1>2, <2>1
<1>3. CASE f \in DOMAIN facts
  <2>1. DOMAIN c \cap DOMAIN facts = {f} /\ Field(c) = f /\ Deciding(c) # {}
    BY <1>1, <1>3
  <2>2. CASE f \in {"command", "type"}
    <3>1. ~IsGlob(f) /\ f # "utc"
      BY <2>2 DEF IsGlob
    <3>2. Meets(c) <=> c[f].name = facts[f].name
      BY <2>1, <3>1 DEF Meets
    <3>3. QED
      BY <2>1, <3>1, <3>2 DEF SameName
  <2>3. CASE IsGlob(f)
    <3>1. f \notin {"command", "type", "utc"}
      BY <2>3 DEF IsGlob
    <3>2. Meets(c) <=> Glob(c[f], facts[f])!Placeable(1, 0)
      BY <2>1, <2>3, <3>1 DEF Meets
    <3>3. QED
      BY <2>1, <3>1, <3>2
  <2>4. CASE f = "utc"
    <3>1. ~IsGlob(f)
      BY <2>4 DEF IsGlob
    <3>2. Meets(c) <=> /\ Open(c["utc"].start) \/ NoLater(c["utc"].start[1], facts["utc"])
                       /\ Open(c["utc"].end) \/ NoLater(facts["utc"], c["utc"].end[1])
      BY <2>1, <2>4, <3>1 DEF Meets
    <3>3. /\ IsTime(facts["utc"]) /\ IsBound(c["utc"].start) /\ IsBound(c["utc"].end)
      BY <1>1, <1>3, <2>4 DEF IsFacts, IsCondition
    <3>4. /\ c["utc"].end # <<<<>>>>
          /\ \A b \in {c["utc"].start, c["utc"].end} :
               Open(b) \/ b[1][1] # facts["utc"][1] \/ Len(b[1]) = Len(facts["utc"])
      BY <1>1, <2>4 DEF Sharp
    <3>5. Within(facts["utc"], c["utc"]) <=> Meets(c)
      BY <3>2, <3>3, <3>4, WithinIsBetween
    <3>6. QED
      BY <2>1, <2>4, <3>1, <3>5
  <2>5. f \in {"command", "type", "utc"} \/ IsGlob(f)
    BY <2>1, FieldDecides DEF IsGlob
  <2>6. QED
    BY <2>2, <2>3, <2>4, <2>5
<1>4. QED
  BY <1>2, <1>3

\* The meaning of a glob condition that is under way.
LEMMA GlobMeans == Glob(parts, text)!Placeable(1, 0) <=> Placeable(1, 0)
BY DEF Glob!Placeable, Placeable, Glob!Placed, Placed, Glob!OccursAt, OccursAt

-----------------------------------------------------------------------------
(* The clauses are gone through as they are meant.                          *)

RulesTyped == IsClause(match.anyOf) /\ IsClause(match.allOf) /\ IsFacts(facts)

Control ==
    /\ clause \in {"any", "all"}
    /\ here \in Nat \ {0}
    /\ anyOk \in BOOLEAN
    /\ result \in {"open", "yes", "no"}

\* What the documentation is about: one field each, and no time too close to call.
Plain == \A c \in AllConditions : Cardinality(DOMAIN c) = 1 /\ Sharp(c)

AnyMeans == match.anyOf # <<>> /\ \E n \in DOMAIN match.anyOf[1] : Meets(match.anyOf[1][n])

AllMeans == match.allOf # <<>> /\ \A n \in DOMAIN match.allOf[1] : Meets(match.allOf[1][n])

\* The conditions passed over left their clause undecided, and the clause
\* behind is settled.
Passed ==
    result = "open" /\ Plain =>
      /\ \A n \in DOMAIN Conditions : n < here => (Meets(Conditions[n]) <=> clause = "all")
      /\ clause = "all" => (anyOk <=> AnyMeans)

\* glob_match has the field that decides the condition.
Called ==
    calling =>
      /\ result = "open" /\ here \in DOMAIN Conditions
      /\ Deciding(Conditions[here]) # {} /\ IsGlob(Field(Conditions[here]))
      /\ parts = Conditions[here][Field(Conditions[here])]
      /\ text = facts[Field(Conditions[here])]

Loop == RulesTyped /\ Control /\ Passed /\ RulesMean

RuleInv == Loop /\ calling \in BOOLEAN /\ Called /\ IInv

\* A clause is a list of conditions, all of them the rule's.
LEMMA ClauseTyping ==
  ASSUME RulesTyped, Control
  PROVE  /\ Given = <<>> => Conditions = <<>>
         /\ Given # <<>> => Conditions = Given[1]
         /\ Len(Conditions) \in Nat /\ DOMAIN Conditions = 1..Len(Conditions)
         /\ \A n \in DOMAIN Conditions :
              IsCondition(Conditions[n]) /\ Conditions[n] \in AllConditions
<1>1. IsClause(Given)
  BY DEF RulesTyped, Control, Given
<1>2. Conditions = Bound(match.anyOf, <<>>) \/ Conditions = Bound(match.allOf, <<>>)
  BY DEF Conditions, Given
<1>3. \A n \in DOMAIN Conditions : Conditions[n] \in AllConditions
  BY <1>2 DEF AllConditions
<1>4. CASE Given = <<>>
  <2>1. Conditions = <<>>
    BY <1>4 DEF Conditions, Bound
  <2>2. QED
    BY <1>4, <2>1
<1>5. CASE Given # <<>>
  <2>1. Conditions = Given[1]
    BY <1>5 DEF Conditions, Bound
  <2>2. /\ Conditions \in Seq({Conditions[n] : n \in DOMAIN Conditions})
        /\ \A n \in DOMAIN Conditions : IsCondition(Conditions[n])
    BY <1>1, <1>5, <2>1 DEF IsClause
  <2>3. Len(Conditions) \in Nat /\ DOMAIN Conditions = 1..Len(Conditions)
    BY <2>2
  <2>4. QED
    BY <1>3, <1>5, <2>1, <2>2, <2>3
<1>6. QED
  BY <1>4, <1>5

LEMMA MeetsKept ==
  ASSUME NEW c, facts' = facts
  PROVE  Meets(c)' <=> Meets(c)
BY DEF Meets, Glob!Placeable, Glob!Placed, Glob!OccursAt

\* What a rule means depends on its arguments alone.
LEMMA MeaningKept ==
  ASSUME UNCHANGED <<match, facts>>
  PROVE  /\ AnyMeans' <=> AnyMeans
         /\ AllMeans' <=> AllMeans
         /\ Meaning' <=> Meaning
         /\ Plain' <=> Plain
         /\ RulesTyped' <=> RulesTyped
<1>1. AnyMeans' <=> AnyMeans
  BY MeetsKept DEF AnyMeans
<1>2. AllMeans' <=> AllMeans
  BY MeetsKept DEF AllMeans
<1>3. Meaning' <=> Meaning
  BY MeetsKept DEF Meaning
<1>4. Plain' <=> Plain
  BY DEF Plain, AllConditions, Bound, Sharp, Open
<1>5. RulesTyped' <=> RulesTyped
  BY DEF RulesTyped
<1>6. QED
  BY <1>1, <1>2, <1>3, <1>4, <1>5

LEMMA MeaningOfClauses ==
  Meaning <=> (match.anyOf = <<>> /\ match.allOf = <<>>) \/ AnyMeans \/ AllMeans
BY DEF Meaning, AnyMeans, AllMeans

LEMMA StartOfGlob == Init' => IInv'
BY InitIInv, PTL

\* A clause that ends with what it means leaves the rest as it is meant.
LEMMA EndsKeepsLoop ==
  ASSUME Loop, result = "open", match.anyOf # <<>> \/ match.allOf # <<>>,
         NEW ok \in BOOLEAN, Ends(ok),
         Plain /\ Given # <<>> =>
           (ok <=> IF clause = "any" THEN \E n \in DOMAIN Conditions : Meets(Conditions[n])
                                     ELSE \A n \in DOMAIN Conditions : Meets(Conditions[n]))
  PROVE  Loop'
<1>1. UNCHANGED <<match, facts>> /\ here' = 1
  BY DEF Ends
<1>2. /\ AnyMeans' <=> AnyMeans
      /\ Meaning' <=> Meaning
      /\ Plain' <=> Plain
      /\ RulesTyped' <=> RulesTyped
  BY <1>1, MeaningKept
<1>3. RulesTyped /\ Control
  BY DEF Loop
<1>4. Control'
  <2>1. here' \in Nat \ {0}
    BY <1>1
  <2>2. clause' \in {"any", "all"} /\ result' \in {"open", "yes", "no"}
    BY <1>3 DEF Control, Ends
  <2>3. anyOk' \in BOOLEAN
    BY <1>3 DEF Control, Ends
  <2>4. QED
    BY <2>1, <2>2, <2>3 DEF Control
<1>5. CASE clause = "any"
  <2>1. clause' = "all" /\ result' = "open" /\ (anyOk' <=> ok /\ Given # <<>>)
    BY <1>5 DEF Ends
  <2>2. Given = match.anyOf
    BY <1>5 DEF Given
  <2>3. Plain => (anyOk' <=> AnyMeans)
    <3>1. CASE Given = <<>>
      BY <2>1, <2>2, <3>1 DEF AnyMeans
    <3>2. CASE Given # <<>>
      <4>1. Conditions = match.anyOf[1]
        BY <1>3, <2>2, <3>2, ClauseTyping
      <4>2. QED
        BY <1>5, <2>1, <2>2, <3>2, <4>1 DEF AnyMeans
    <3>3. QED
      BY <3>1, <3>2
  <2>4. \A n \in DOMAIN Conditions' : ~(n < here')
    <3>1. RulesTyped' /\ Control'
      BY <1>2, <1>3, <1>4
    <3>2. IsClause(match'.allOf) /\ Conditions' = Bound(match'.allOf, <<>>)
      BY <2>1, <3>1 DEF RulesTyped, Conditions, Given
    <3>3. DOMAIN Conditions' \subseteq Nat \ {0}
      <4>1. CASE match'.allOf = <<>>
        BY <3>2, <4>1 DEF Bound
      <4>2. CASE match'.allOf # <<>>
        <5>1. Conditions' = match'.allOf[1]
          BY <3>2, <4>2 DEF Bound
        <5>2. Conditions' \in Seq({match'.allOf[1][n] : n \in DOMAIN match'.allOf[1]})
          BY <3>2, <4>2, <5>1 DEF IsClause
        <5>3. QED
          BY <5>2
      <4>3. QED
        BY <4>1, <4>2
    <3>4. QED
      BY <1>1, <3>3
  <2>5. Passed'
    BY <1>2, <2>1, <2>3, <2>4 DEF Passed
  <2>6. RulesMean'
    BY <2>1 DEF RulesMean
  <2>7. QED
    BY <1>2, <1>3, <1>4, <2>5, <2>6 DEF Loop
<1>6. CASE clause = "all"
  <2>1. result' = (IF anyOk \/ (ok /\ Given # <<>>) THEN "yes" ELSE "no") /\ Given = match.allOf
    BY <1>6 DEF Ends, Given
  <2>2. Passed'
    BY <2>1 DEF Passed
  <2>3. Plain => (anyOk <=> AnyMeans)
    BY <1>6 DEF Loop, Passed
  <2>4. Plain => (ok /\ Given # <<>> <=> AllMeans)
    <3>1. CASE Given = <<>>
      BY <2>1, <3>1 DEF AllMeans
    <3>2. CASE Given # <<>>
      <4>1. Conditions = match.allOf[1]
        BY <1>3, <2>1, <3>2, ClauseTyping
      <4>2. QED
        BY <1>6, <2>1, <3>2, <4>1 DEF AllMeans
    <3>3. QED
      BY <3>1, <3>2
  <2>5. Plain => (result' = "yes" <=> Meaning)
    BY <2>1, <2>3, <2>4, MeaningOfClauses
  <2>6. RulesMean'
    BY <1>2, <2>5 DEF RulesMean, Plain
  <2>7. QED
    BY <1>2, <1>3, <1>4, <2>2, <2>6 DEF Loop
<1>7. QED
  BY <1>3, <1>5, <1>6 DEF Control

\* So does a condition that is decided as it is meant.
LEMMA DecidedKeepsLoop ==
  ASSUME Loop, result = "open", here \in DOMAIN Conditions,
         NEW holds \in BOOLEAN, Decided(holds), Plain => (holds <=> Meets(Conditions[here]))
  PROVE  Loop'
<1>1. RulesTyped /\ Control /\ Given # <<>>
  BY ClauseTyping DEF Loop
<1>2. match.anyOf # <<>> \/ match.allOf # <<>>
  BY <1>1 DEF Given
<1>3. CASE holds = (clause = "any")
  <2>1. Ends(holds)
    BY <1>3 DEF Decided
  <2>2. CASE clause = "any"
    BY <1>2, <1>3, <2>1, <2>2, EndsKeepsLoop
  <2>3. CASE clause # "any"
    BY <1>2, <1>3, <2>1, <2>3, EndsKeepsLoop
  <2>4. QED
    BY <2>2, <2>3
<1>4. CASE holds # (clause = "any")
  <2>1. here' = here + 1 /\ UNCHANGED <<match, facts, clause, anyOk, result>>
    BY <1>4 DEF Decided
  <2>2. /\ AnyMeans' <=> AnyMeans
        /\ Plain' <=> Plain
        /\ RulesTyped' <=> RulesTyped
    BY <2>1, MeaningKept
  <2>3. Control' /\ RulesMean'
    BY <1>1, <2>1 DEF Control, RulesMean
  <2>4. Conditions' = Conditions
    BY <2>1 DEF Conditions, Given
  <2>5. ASSUME Plain, NEW n \in DOMAIN Conditions, n < here + 1
        PROVE  Meets(Conditions[n]) <=> clause = "all"
    <3>1. CASE n < here
      BY <2>5, <3>1 DEF Loop, Passed
    <3>2. CASE n = here
      BY <1>1, <1>4, <2>5, <3>2 DEF Control
    <3>3. QED
      BY <1>1, <2>5, <3>1, <3>2, ClauseTyping DEF Control
  <2>6. \A n \in DOMAIN Conditions : Meets(Conditions[n])' <=> Meets(Conditions[n])
    BY <2>1, <2>4, MeetsKept
  <2>7. Passed'
    BY <2>1, <2>2, <2>4, <2>5, <2>6 DEF Loop, Passed
  <2>8. QED
    BY <1>1, <2>2, <2>3, <2>7 DEF Loop
<1>5. QED
  BY <1>3, <1>4

\* What touches no variable of the loop leaves it as it is.
LEMMA LoopKept ==
  ASSUME Loop, UNCHANGED <<match, facts, clause, here, anyOk, result>>
  PROVE  Loop'
<1>1. /\ AnyMeans' <=> AnyMeans
      /\ Meaning' <=> Meaning
      /\ Plain' <=> Plain
      /\ RulesTyped' <=> RulesTyped
  BY MeaningKept
<1>2. Control'
  BY DEF Loop, Control
<1>3. Conditions' = Conditions
  BY DEF Conditions, Given
<1>4. \A n \in DOMAIN Conditions : Meets(Conditions[n])' <=> Meets(Conditions[n])
  BY <1>3, MeetsKept
<1>5. Passed'
  BY <1>1, <1>3, <1>4 DEF Loop, Passed
<1>6. RulesMean'
  BY <1>1 DEF Loop, RulesMean, Plain
<1>7. QED
  BY <1>1, <1>2, <1>5, <1>6 DEF Loop

LEMMA InitRuleInv == RuleInit => RuleInv
<1> SUFFICES ASSUME RuleInit PROVE RuleInv
  OBVIOUS
<1>1. RulesTyped
  <2>1. PICK c \in Cases : match \in c[1] /\ facts \in c[2]
    BY DEF RuleInit
  <2>2. (\A m \in c[1] : IsClause(m.anyOf) /\ IsClause(m.allOf)) /\ \A s \in c[2] : IsFacts(s)
    BY RuleMatchingAssumption
  <2>3. QED
    BY <2>1, <2>2 DEF RulesTyped
<1>2. Control
  <2>1. clause \in {"any", "all"} /\ result \in {"open", "yes", "no"}
    BY DEF RuleInit
  <2>2. here \in Nat \ {0}
    BY DEF RuleInit
  <2>3. anyOk \in BOOLEAN
    BY DEF RuleInit
  <2>4. QED
    BY <2>1, <2>2, <2>3 DEF Control
<1>3. RulesMean
  BY DEF RuleInit, RulesMean
<1>4. Passed
  <2>1. DOMAIN Conditions = 1..Len(Conditions) /\ Len(Conditions) \in Nat
    BY <1>1, <1>2, ClauseTyping
  <2>2. \A n \in DOMAIN Conditions : ~(n < here)
    BY <2>1 DEF RuleInit
  <2>3. QED
    BY <2>2 DEF RuleInit, Passed
<1>5. IInv
  BY InitIInv, RuleMatchingAssumption DEF RuleInit, Init
<1>6. calling = FALSE
  BY DEF RuleInit
<1>7. QED
  BY <1>1, <1>2, <1>3, <1>4, <1>5, <1>6 DEF RuleInv, Loop, Called

LEMMA NextKeepsRuleInv == RuleInv /\ [RuleNext]_<<ruleVars, vars>> => RuleInv'
<1> SUFFICES ASSUME RuleInv, [RuleNext]_<<ruleVars, vars>> PROVE RuleInv'
  OBVIOUS
<1>0. Loop /\ RulesTyped /\ Control /\ IInv /\ calling \in BOOLEAN
  BY DEF RuleInv, Loop
<1>1. UNCHANGED vars => IInv'
  BY <1>0, NextKeepsIInv
<1>2. CASE CatchAll
  <2>1. UNCHANGED <<match, facts, calling>> /\ result' = "yes" /\ Meaning
    BY <1>2 DEF CatchAll, Meaning
  <2>2. RulesTyped' /\ Meaning'
    BY <1>0, <2>1, MeaningKept
  <2>3. Control' /\ Passed'
    BY <1>0, <1>2 DEF CatchAll, Control, Passed
  <2>4. RulesMean'
    BY <2>1, <2>2 DEF RulesMean
  <2>5. ~calling /\ calling' = calling
    BY <1>2, <1>0, <2>1, ClauseTyping DEF RuleInv, Called, CatchAll, Given
  <2>6. UNCHANGED vars
    BY <1>2 DEF CatchAll
  <2>7. QED
    BY <1>0, <1>1, <2>2, <2>3, <2>4, <2>5, <2>6 DEF RuleInv, Loop, Called
<1>3. CASE ListEnds
  <2>1. /\ result = "open"
        /\ match.anyOf # <<>> \/ match.allOf # <<>>
        /\ here \notin DOMAIN Conditions /\ Ends(clause = "all")
        /\ calling = FALSE /\ calling' = FALSE /\ UNCHANGED vars
    BY <1>0, <1>3 DEF ListEnds
  <2>2. \A n \in DOMAIN Conditions : n < here
    BY <1>0, <2>1, ClauseTyping DEF Control
  <2>3. ASSUME Plain, NEW n \in DOMAIN Conditions
        PROVE  Meets(Conditions[n]) <=> clause = "all"
    <3>1. Passed /\ result = "open" /\ n < here
      BY <1>0, <2>1, <2>2 DEF Loop
    <3>2. QED
      BY <2>3, <3>1 DEF Passed
  <2> DEFINE ok == clause = "all"
  <2>4. Plain /\ Given # <<>> =>
          (ok <=>
             IF clause = "any" THEN \E n \in DOMAIN Conditions : Meets(Conditions[n])
                               ELSE \A n \in DOMAIN Conditions : Meets(Conditions[n]))
    <3>1. CASE clause = "any"
      BY <2>3, <3>1
    <3>2. CASE clause = "all"
      BY <2>3, <3>2
    <3>3. QED
      BY <1>0, <3>1, <3>2 DEF Control
  <2>5. ok \in BOOLEAN /\ Ends(ok)
    BY <2>1
  <2> HIDE DEF ok
  <2>6. Loop'
    <3>1. result = "open" /\ (match.anyOf # <<>> \/ match.allOf # <<>>)
      BY <2>1
    <3>2. QED
      BY <1>0, <2>4, <2>5, <3>1, EndsKeepsLoop
  <2>7. QED
    BY <1>1, <2>1, <2>6 DEF RuleInv, Called
<1>4. CASE CallGlob
  <2>1. /\ result = "open" /\ here \in DOMAIN Conditions
        /\ Deciding(Conditions[here]) # {} /\ IsGlob(Field(Conditions[here]))
        /\ parts' = Conditions[here][Field(Conditions[here])]
        /\ text' = facts[Field(Conditions[here])]
        /\ calling' = TRUE /\ i' = 1 /\ pos' = 0 /\ verdict' = "open"
        /\ UNCHANGED <<match, facts, clause, here, anyOk, result>>
    BY <1>4 DEF CallGlob, Evaluating
  <2>2. Loop'
    BY <1>0, <2>1, LoopKept
  <2>3. Conditions' = Conditions
    BY <2>1 DEF Conditions, Given
  <2>4. Called'
    <3>1. Deciding(Conditions[here])' = Deciding(Conditions[here])
      BY <2>1, <2>3 DEF Deciding
    <3>2. Field(Conditions[here])' = Field(Conditions[here])
      BY <2>1, <2>3 DEF Field, Deciding
    <3>3. QED
      BY <2>1, <2>3, <3>1, <3>2 DEF Called
  <2>5. IInv'
    <3>1. Field(Conditions[here]) \in DOMAIN Conditions[here] \cap DOMAIN facts
      BY <2>1, FieldDecides
    <3>2. IsCondition(Conditions[here])
      BY <1>0, <2>1, ClauseTyping
    <3>3. parts' \in Patterns
      BY <2>1, <3>1, <3>2 DEF IsCondition
    <3>4. text' \in Texts
      BY <1>0, <2>1, <3>1 DEF RulesTyped, IsFacts
    <3>5. QED
      BY <2>1, <3>3, <3>4, StartOfGlob DEF Init
  <2>6. QED
    BY <2>1, <2>2, <2>4, <2>5 DEF RuleInv
<1>5. CASE GlobStep
  <2>1. calling /\ Next /\ UNCHANGED <<match, facts, clause, here, calling, anyOk, result>>
    BY <1>5 DEF GlobStep, ruleVars
  <2>2. IInv'
    BY <1>0, <2>1, NextKeepsIInv
  <2>3. UNCHANGED <<parts, text>>
    BY <2>1 DEF Next, Literal, Skip, Anchored, Final, Interior, Exhausted, Returned, vars,
                Return, Advance
  <2>4. Loop'
    BY <1>0, <2>1, LoopKept
  <2>5. Called'
    BY <2>1, <2>3 DEF RuleInv, Called, Deciding, Field, Conditions, Given
  <2>6. QED
    BY <1>0, <2>1, <2>2, <2>4, <2>5 DEF RuleInv
<1>6. CASE GlobReturns
  <2> DEFINE c == Conditions[here]
  <2>1. /\ calling /\ verdict # "open" /\ Decided(verdict = "yes") /\ calling' = FALSE
        /\ parts' = <<<<>>>> /\ text' = <<>> /\ i' = 1 /\ pos' = 0 /\ verdict' = "open"
    BY <1>6 DEF GlobReturns, Rest
  <2>2. /\ result = "open" /\ here \in DOMAIN Conditions
        /\ Deciding(c) # {} /\ IsGlob(Field(c))
        /\ parts = c[Field(c)] /\ text = facts[Field(c)]
    BY <2>1 DEF RuleInv, Called
  <2>3. (verdict = "yes") <=> Glob(c[Field(c)], facts[Field(c)])!Placeable(1, 0)
    <3>1. (verdict = "yes") <=> Placeable(1, 0)
      BY <1>0, <2>1 DEF IInv, GreedyIsExact
    <3>2. QED
      BY <2>2, <3>1, GlobMeans
  <2>4. IsCondition(c) /\ c \in AllConditions
    BY <1>0, <2>2, ClauseTyping
  <2>5. Plain => ((verdict = "yes") <=> Meets(c))
    <3>1. SUFFICES ASSUME Plain PROVE (verdict = "yes") <=> Meets(c)
      OBVIOUS
    <3>2. Cardinality(DOMAIN c) = 1 /\ Sharp(c)
      BY <2>4, <3>1 DEF Plain
    <3>3. IsFacts(facts)
      BY <1>0 DEF RulesTyped
    <3> HIDE DEF c
    <3>4. QED
      BY <2>2, <2>3, <2>4, <3>2, <3>3, ComparisonMeans
  <2>6. Loop'
    BY <1>0, <2>1, <2>2, <2>5, DecidedKeepsLoop
  <2>7. IInv'
    BY <2>1, RuleMatchingAssumption, StartOfGlob DEF Init
  <2>8. QED
    BY <2>1, <2>6, <2>7 DEF RuleInv, Called
<1>7. CASE Compare
  <2> DEFINE c == Conditions[here]
             f == Field(c)
  <2>1. /\ result = "open" /\ calling = FALSE /\ here \in DOMAIN Conditions
        /\ calling' = FALSE /\ UNCHANGED vars
    BY <1>0, <1>7 DEF Compare, Evaluating
  <2>2. \/ Deciding(c) = {} /\ Decided(FALSE)
        \/ Deciding(c) # {} /\ f \in {"command", "type"} /\ Decided(SameName(c[f], facts[f]))
        \/ Deciding(c) # {} /\ f = "utc" /\ Decided(Within(facts[f], c[f]))
    BY <1>7 DEF Compare
  <2>3. IsCondition(c) /\ c \in AllConditions /\ IsFacts(facts)
    BY <1>0, <2>1, ClauseTyping DEF RulesTyped
  <2>4. Plain => Cardinality(DOMAIN c) = 1 /\ Sharp(c)
    BY <2>3 DEF Plain
  <2> HIDE DEF c
  <2>5. PICK holds \in BOOLEAN : Decided(holds) /\ (Plain => (holds <=> Meets(c)))
    <3>1. CASE Deciding(c) = {} /\ Decided(FALSE)
      BY <2>3, <2>4, <3>1, ComparisonMeans
    <3>2. CASE Deciding(c) # {} /\ f \in {"command", "type"} /\ Decided(SameName(c[f], facts[f]))
      <4>1. SameName(c[f], facts[f]) \in BOOLEAN
        BY DEF SameName
      <4>2. Plain => (SameName(c[f], facts[f]) <=> Meets(c))
        BY <2>3, <2>4, <3>2, ComparisonMeans
      <4>3. QED
        BY <3>2, <4>1, <4>2
    <3>3. CASE Deciding(c) # {} /\ f = "utc" /\ Decided(Within(facts[f], c[f]))
      <4>1. Within(facts[f], c[f]) \in BOOLEAN
        BY DEF Within
      <4>2. Plain => (Within(facts[f], c[f]) <=> Meets(c))
        BY <2>3, <2>4, <3>3, ComparisonMeans
      <4>3. QED
        BY <3>3, <4>1, <4>2
    <3>4. QED
      BY <2>2, <3>1, <3>2, <3>3
  <2>6. Loop'
    BY <1>0, <2>1, <2>5, DecidedKeepsLoop DEF c
  <2>7. QED
    BY <1>1, <2>1, <2>6 DEF RuleInv, Called
<1>8. CASE UNCHANGED <<ruleVars, vars>>
  <2>1. UNCHANGED <<match, facts, clause, here, calling, anyOk, result>> /\ UNCHANGED vars
    BY <1>8 DEF ruleVars
  <2>2. Loop'
    BY <1>0, <2>1, LoopKept
  <2>3. Called'
    BY <2>1 DEF RuleInv, Called, Deciding, Field, Conditions, Given, vars
  <2>4. QED
    BY <1>0, <1>1, <2>1, <2>2, <2>3 DEF RuleInv
<1>9. QED
  BY <1>2, <1>3, <1>4, <1>5, <1>6, <1>7, <1>8 DEF RuleNext, Answered

LEMMA RuleInvHolds == RuleSpec => []RuleInv
BY InitRuleInv, NextKeepsRuleInv, PTL DEF RuleSpec

\* A rule fires exactly on the signals its documentation says, however many
\* conditions and wildcards it has and however long names and times are: of
\* times that are not too close to call, the order of their texts is theirs.
THEOREM RulesFireAsMeant == RuleSpec => []RulesMean
<1>1. RuleInv => RulesMean
  BY DEF RuleInv, Loop
<1>2. QED
  BY RuleInvHolds, <1>1, PTL

\* Every glob that a rule hands to glob_match gets the verdict it means.
THEOREM GlobsOfRulesAreExact == RuleSpec => []GreedyIsExact
<1>1. RuleInv => GreedyIsExact
  BY DEF RuleInv, IInv
<1>2. QED
  BY RuleInvHolds, <1>1, PTL

\* And no rule makes it read outside of its text or its pattern.
THEOREM RulesNeverPanic == RuleSpec => []TypeOK
<1>1. RuleInv => TypeOK
  BY DEF RuleInv, IInv
<1>2. QED
  BY RuleInvHolds, <1>1, PTL
=============================================================================
