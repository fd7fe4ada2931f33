--------------------------- MODULE DdlActionsProofs ---------------------------
(***************************************************************************)
(* Proofs about DdlActions, for statements with any number of items: which *)
(* items are reported, once and in order, what the actions reported for    *)
(* ALTER TABLE do to the columns of the table, and which comment and which *)
(* names COMMENT ON reports.                                               *)
(***************************************************************************)
EXTENDS DdlActions, LeastElement, SequenceTheorems, TLAPS

-------------------------------------------------------------------------------
(* Sequences and flags.                                                    *)

LEMMA Indices ==
  ASSUME NEW n \in Nat
  PROVE  /\ n + 1 \in Nat \ {0} /\ (n + 1) - 1 = n
         /\ \A k \in 1..n + 1 : k = n + 1 \/ k \in 1..n
         /\ n + 1 \in 1..n + 1 /\ \A k \in 1..n : k \in 1..n + 1 /\ k # n + 1 /\ k < n + 1
         /\ \A k \in 1..n + 1 : ~(n + 1 < k)
         /\ n = 0 => 1..n = {}
         /\ n # 0 => 1 \in 1..n
  OBVIOUS

LEMMA BeforeFirst == 1..1 - 1 = {} /\ 1 \in Nat \ {0}
  OBVIOUS

LEMMA FunctionOnIndices ==
  ASSUME NEW S, NEW n \in Nat, NEW f \in [1..n -> S]
  PROVE  f \in Seq(S) /\ Len(f) = n
  OBVIOUS

LEMMA Appended ==
  ASSUME NEW X, NEW seq \in Seq(X), NEW n \in Nat, n = Len(seq), NEW x
  PROVE  /\ \E Y : Append(seq, x) \in Seq(Y)
         /\ Len(Append(seq, x)) = n + 1 /\ DOMAIN Append(seq, x) = 1..n + 1
         /\ Append(seq, x)[n + 1] = x /\ \A k \in 1..n : Append(seq, x)[k] = seq[k]
<1>1. PICK Y : Y = X \cup {x}
  OBVIOUS
<1>2. seq \in Seq(Y) /\ x \in Y
  BY <1>1
<1>3. Append(seq, x) \in Seq(Y)
  BY <1>2
<1> QED BY <1>2, <1>3, AppendProperties

LEMMA OneElement ==
  ASSUME NEW S, NEW x \in S
  PROVE  /\ <<x>> \in Seq(S) /\ Len(<<x>>) = 1 /\ <<x>>[1] = x /\ <<x>> # << >>
         /\ << >> \in Seq(S) /\ Len(<< >>) = 0
  OBVIOUS

LEMMA FlagFacts ==
  ASSUME NEW S, NEW word \in S, NEW other
  PROVE  /\ Flag(word) \in Seq(S)
         /\ Contains(Flag(word), other) <=> word # "" /\ word = other
<1>1. CASE word = ""
  <2>1. PICK flag : flag = << >> /\ flag \in Seq(S) /\ Len(flag) = 0
    BY OneElement
  <2>2. Flag(word) = flag
    BY <1>1, <2>1 DEF Flag
  <2>3. ~Contains(flag, other)
    BY <2>1 DEF Contains
  <2> QED BY <1>1, <2>1, <2>2, <2>3
<1>2. CASE word # ""
  <2>1. PICK flag : flag = <<word>> /\ flag \in Seq(S) /\ Len(flag) = 1 /\ flag[1] = word
    BY OneElement
  <2>2. Flag(word) = flag
    BY <1>2, <2>1 DEF Flag
  <2>3. \A i \in 1..1 : i = 1
    OBVIOUS
  <2>4. Contains(flag, other) <=> word = other
    BY <2>1, <2>3, 1 \in 1..1 DEF Contains
  <2> QED BY <1>2, <2>1, <2>2, <2>4
<1> QED BY <1>1, <1>2

LEMMA ContainsConcat ==
  ASSUME NEW S, NEW s \in Seq(S), NEW t \in Seq(S), NEW x
  PROVE  s \o t \in Seq(S) /\ (Contains(s \o t, x) <=> Contains(s, x) \/ Contains(t, x))
<1>1. PICK m \in Nat, n \in Nat : m = Len(s) /\ n = Len(t)
  BY LenProperties
<1>2. PICK h : h = s \o t
  OBVIOUS
<1>3. h \in Seq(S) /\ Len(h) = m + n /\ \A i \in 1..m + n : h[i] = IF i <= m THEN s[i] ELSE t[i - m]
  BY <1>1, <1>2, ConcatProperties
<1>4. ASSUME NEW i \in 1..m + n, h[i] = x PROVE Contains(s, x) \/ Contains(t, x)
  <2>1. CASE i <= m
    <3>1. i \in 1..m /\ s[i] = x
      BY <1>3, <1>4, <2>1
    <3> QED BY <1>1, <3>1 DEF Contains
  <2>2. CASE ~(i <= m)
    <3>1. i - m \in 1..n /\ t[i - m] = x
      BY <1>3, <1>4, <2>2
    <3> QED BY <1>1, <3>1 DEF Contains
  <2> QED BY <2>1, <2>2
<1>5. ASSUME NEW i \in 1..m, s[i] = x PROVE Contains(h, x)
  <2>1. i \in 1..m + n /\ h[i] = x
    BY <1>3, <1>5
  <2> QED BY <1>3, <2>1 DEF Contains
<1>6. ASSUME NEW i \in 1..n, t[i] = x PROVE Contains(h, x)
  <2>1. m + i \in 1..m + n /\ ~(m + i <= m) /\ (m + i) - m = i
    BY <1>6
  <2>2. h[m + i] = x
    BY <1>3, <1>6, <2>1
  <2> QED BY <1>3, <2>1, <2>2 DEF Contains
<1>7. Contains(h, x) => Contains(s, x) \/ Contains(t, x)
  BY <1>3, <1>4 DEF Contains
<1>8. Contains(s, x) \/ Contains(t, x) => Contains(h, x)
  <2>1. Contains(s, x) => \E i \in 1..m : s[i] = x
    BY <1>1 DEF Contains
  <2>2. Contains(t, x) => \E i \in 1..n : t[i] = x
    BY <1>1 DEF Contains
  <2> QED BY <1>5, <1>6, <2>1, <2>2
<1> QED BY <1>2, <1>3, <1>7, <1>8

-------------------------------------------------------------------------------
(* collectAlterTableConstraintColumns.                                     *)

CollectsColumns(f, n, columns) ==
  f = [k \in 0..n |-> IF k = 0 THEN << >>
                      ELSE IF Contains(f[k - 1], columns[k]) THEN f[k - 1] ELSE Append(f[k - 1], columns[k])]

LEMMA ColumnsFunction ==
  ASSUME NEW n \in Nat, NEW columns
  PROVE  \E f : CollectsColumns(f, n, columns)
<1> DEFINE W == {columns[k] : k \in 1..n}
           Taken(k, x) == IF Contains(x, columns[k]) THEN x ELSE Append(x, columns[k])
           G == [p \in (1..n) \X Seq(W) |-> Taken(p[1], p[2])]
<1>1. \A k \in 1..n, x \in Seq(W) : Taken(k, x) \in Seq(W)
  <2> SUFFICES ASSUME NEW k \in 1..n, NEW x \in Seq(W) PROVE Taken(k, x) \in Seq(W)
    OBVIOUS
  <2>1. columns[k] \in W
    OBVIOUS
  <2> HIDE DEF W
  <2>2. Append(x, columns[k]) \in Seq(W)
    BY <2>1, AppendProperties
  <2> QED BY <2>2
<1> HIDE DEF W, Taken
<1>2. G \in [(1..n) \X Seq(W) -> Seq(W)] /\ \A k \in 1..n, x \in Seq(W) : G[<<k, x>>] = Taken(k, x)
  BY <1>1
<1> HIDE DEF G
<1>3. PICK base, T : base = << >> /\ T = Seq(W)
  OBVIOUS
<1>4. base \in T /\ G \in [(1..n) \X T -> T]
  <2>1. << >> \in Seq(W)
    OBVIOUS
  <2> QED BY <1>2, <1>3, <2>1
<1>5. PICK f : IsRecursion(f, n, base, G)
  BY <1>4, RecursionExists
<1>6. f[0] = base
  BY <1>5, 0 \in 0..n DEF IsRecursion
<1>7. \A k \in 1..n : f[k - 1] \in T /\ f[k] \in T /\ f[k] = G[<<k, f[k - 1]>>]
  BY <1>4, <1>5, RecursionValues
<1> DEFINE Step(k) == IF k = 0 THEN << >> ELSE Taken(k, f[k - 1])
<1>8. \A k \in 0..n : f[k] = Step(k)
  <2>1. \A k \in 0..n : k = 0 \/ k \in 1..n
    OBVIOUS
  <2> QED BY <1>2, <1>3, <1>6, <1>7, <2>1
<1>9. f = [k \in 0..n |-> f[k]]
  BY <1>5 DEF IsRecursion
<1>10. f = [k \in 0..n |-> Step(k)]
  <2> HIDE DEF Step
  <2> QED BY <1>8, <1>9
<1> QED BY <1>10 DEF CollectsColumns, Taken

(* seq has each of the first n columns once. *)
Each(seq, n, columns) ==
  /\ \E X : seq \in Seq(X)
  /\ IsInjective(seq) /\ Range(seq) = {columns[k] : k \in 1..n}

LEMMA OneMore ==
  ASSUME NEW n \in Nat \ {0}, NEW columns, NEW seq, Each(seq, n - 1, columns), ~Contains(seq, columns[n])
  PROVE  Each(Append(seq, columns[n]), n, columns)
<1>1. PICK X : seq \in Seq(X)
  BY DEF Each
<1>2. PICK m \in Nat : m = Len(seq) /\ DOMAIN seq = 1..m
  BY <1>1, LenProperties
<1>3. PICK longer : longer = Append(seq, columns[n])
  OBVIOUS
<1>4. /\ \E Y : longer \in Seq(Y)
      /\ DOMAIN longer = 1..m + 1 /\ longer[m + 1] = columns[n] /\ \A k \in 1..m : longer[k] = seq[k]
  BY <1>1, <1>2, <1>3, Appended
<1>5. \A k \in 1..m : seq[k] # columns[n]
  BY <1>2 DEF Contains
<1>6. \A k \in 1..m + 1 : k = m + 1 \/ k \in 1..m
  OBVIOUS
<1>7. IsInjective(longer)
  <2>1. \A k, l \in 1..m : seq[k] = seq[l] => k = l
    BY <1>2 DEF Each, IsInjective
  <2>2. \A k, l \in 1..m + 1 : longer[k] = longer[l] => k = l
    BY <1>4, <1>5, <1>6, <2>1
  <2> QED BY <1>4, <2>2 DEF IsInjective
<1>8. Range(longer) = {columns[k] : k \in 1..n}
  <2>1. {seq[k] : k \in 1..m} = {columns[k] : k \in 1..n - 1}
    BY <1>2 DEF Each, Range
  <2>2. Range(longer) = {longer[k] : k \in 1..m + 1}
    BY <1>4 DEF Range
  <2>3. \A k \in 1..n : k = n \/ k \in 1..n - 1
    OBVIOUS
  <2>4. {longer[k] : k \in 1..m + 1} = {seq[k] : k \in 1..m} \cup {columns[n]}
    BY <1>4, <1>6
  <2>5. {columns[k] : k \in 1..n} = {columns[k] : k \in 1..n - 1} \cup {columns[n]}
    BY <2>3
  <2> QED BY <2>1, <2>2, <2>4, <2>5
<1> QED BY <1>3, <1>4, <1>7, <1>8 DEF Each

LEMMA AlreadyThere ==
  ASSUME NEW n \in Nat \ {0}, NEW columns, NEW seq, Each(seq, n - 1, columns), Contains(seq, columns[n])
  PROVE  Each(seq, n, columns)
<1>1. PICK X : seq \in Seq(X)
  BY DEF Each
<1>2. PICK m \in Nat : m = Len(seq) /\ DOMAIN seq = 1..m
  BY <1>1, LenProperties
<1>3. PICK k \in 1..m : seq[k] = columns[n]
  BY <1>2 DEF Contains
<1>4. columns[n] \in Range(seq)
  BY <1>2, <1>3 DEF Range
<1>5. \A i \in 1..n : i = n \/ i \in 1..n - 1
  OBVIOUS
<1>6. {columns[i] : i \in 1..n} = {columns[i] : i \in 1..n - 1} \cup {columns[n]}
  BY <1>5
<1> QED BY <1>4, <1>6 DEF Each

(* Each column of a key is collected once. *)
LEMMA ColumnsCollected ==
  ASSUME NEW S, NEW columns \in Seq(S)
  PROVE  IsInjective(ConstraintColumns(columns)) /\ Range(ConstraintColumns(columns)) = Range(columns)
<1>1. PICK n \in Nat : n = Len(columns) /\ DOMAIN columns = 1..n
  BY LenProperties
<1> DEFINE Computes(f) == f = [k \in 0..Len(columns) |->
             IF k = 0 THEN << >>
             ELSE IF Contains(f[k - 1], columns[k]) THEN f[k - 1] ELSE Append(f[k - 1], columns[k])]
           Def == CHOOSE f : Computes(f)
<1>2. ConstraintColumns(columns) = Def[n]
  BY <1>1 DEF ConstraintColumns
<1>3. \E f : Computes(f)
  <2>1. PICK f : CollectsColumns(f, n, columns)
    BY ColumnsFunction
  <2> QED BY <1>1, <2>1 DEF CollectsColumns
<1>4. CollectsColumns(Def, n, columns)
  <2>1. Computes(Def)
    <3> HIDE DEF Computes
    <3> QED BY <1>3
  <2> HIDE DEF Def
  <2> QED BY <1>1, <2>1 DEF CollectsColumns
<1> HIDE DEF Def
<1>5. PICK f : f = Def
  OBVIOUS
<1>6. f[0] = << >>
  BY <1>4, <1>5, 0 \in 0..n DEF CollectsColumns
<1>7. \A k \in 1..n : f[k] = IF Contains(f[k - 1], columns[k]) THEN f[k - 1] ELSE Append(f[k - 1], columns[k])
  <2>1. \A k \in 1..n : k \in 0..n /\ k # 0
    OBVIOUS
  <2> QED BY <1>4, <1>5, <2>1 DEF CollectsColumns
<1>8. Each(f[0], 0, columns)
  <2>1. PICK empty : empty = << >>
    OBVIOUS
  <2>2. empty \in Seq({}) /\ DOMAIN empty = {}
    BY <2>1
  <2>3. {columns[k] : k \in 1..0} = {}
    OBVIOUS
  <2>4. Each(empty, 0, columns)
    BY <2>2, <2>3 DEF Each, IsInjective, Range
  <2> QED BY <1>6, <2>1, <2>4
<1> DEFINE Bad == {k \in 1..n : ~Each(f[k], k, columns)}
<1>9. Bad = {}
  <2> SUFFICES ASSUME Bad # {} PROVE FALSE
    OBVIOUS
  <2> DEFINE m == Min(Bad)
  <2>1. m \in Bad /\ \A y \in Bad : m <= y
    BY MinOfIndices
  <2> HIDE DEF m
  <2>2. m \in 1..n /\ m \in Nat \ {0}
    BY <2>1
  <2>3. Each(f[m - 1], m - 1, columns)
    <3>1. CASE m = 1
      BY <1>8, <3>1, m - 1 = 0
    <3>2. CASE m # 1
      <4>1. m - 1 \in 1..n /\ ~(m <= m - 1)
        BY <2>2, <3>2
      <4> QED BY <2>1, <4>1
    <3> QED BY <3>1, <3>2
  <2>4. Each(f[m], m, columns)
    <3>1. CASE Contains(f[m - 1], columns[m])
      <4>1. f[m] = f[m - 1]
        BY <1>7, <2>2, <3>1
      <4> QED BY <2>2, <2>3, <3>1, <4>1, AlreadyThere
    <3>2. CASE ~Contains(f[m - 1], columns[m])
      <4>1. f[m] = Append(f[m - 1], columns[m])
        BY <1>7, <2>2, <3>2
      <4> QED BY <2>2, <2>3, <3>2, <4>1, OneMore
    <3> QED BY <3>1, <3>2
  <2> QED BY <2>1, <2>4
<1>10. Each(f[n], n, columns)
  <2>1. CASE n = 0
    BY <1>8, <2>1
  <2>2. CASE n # 0
    <3>1. n \in 1..n /\ n \notin Bad
      BY <1>9, <2>2
    <3> QED BY <3>1
  <2> QED BY <2>1, <2>2
<1>11. Range(columns) = {columns[k] : k \in 1..n}
  BY <1>1 DEF Range
<1> QED BY <1>2, <1>5, <1>10, <1>11 DEF Each

-------------------------------------------------------------------------------
(* The columns of the table, replayed command by command and action by action. *)

LEMMA EffectsStay ==
  ASSUME NEW W, "failed" \in W, NEW had \in SUBSET W, NEW c \in W, NEW tolerant \in BOOLEAN
  PROVE  Added(had, c, tolerant) \in SUBSET W /\ Dropped(had, c, tolerant) \in SUBSET W
  BY DEF Added, Dropped, Failed

LEMMA CommandEffectStays ==
  ASSUME NEW W, "failed" \in W, NEW had \in SUBSET W, NEW command, command.columns[1] \in W
  PROVE  CommandEffect(had, command) \in SUBSET W
<1> DEFINE c == command.columns[1]
<1>1. \A tolerant \in BOOLEAN : Added(had, c, tolerant) \in SUBSET W /\ Dropped(had, c, tolerant) \in SUBSET W
  BY EffectsStay
<1> QED BY <1>1 DEF CommandEffect

LEMMA ActionEffectStays ==
  ASSUME NEW W, "failed" \in W, NEW had \in SUBSET W, NEW action, action.columns[1] \in W
  PROVE  ActionEffect(had, action) \in SUBSET W
<1> DEFINE c == action.columns[1]
<1>1. \A tolerant \in BOOLEAN : Added(had, c, tolerant) \in SUBSET W /\ Dropped(had, c, tolerant) \in SUBSET W
  BY EffectsStay
<1>2. \A word : Contains(action.flags, word) \in BOOLEAN
  BY DEF Contains
<1> QED BY <1>1, <1>2 DEF ActionEffect

IsCommandRun(f, n, commands, had) ==
  f = [k \in 0..n |-> IF k = 0 THEN had ELSE CommandEffect(f[k - 1], commands[k])]

IsActionRun(f, n, actions, had) ==
  f = [k \in 0..n |-> IF k = 0 THEN had ELSE ActionEffect(f[k - 1], actions[k])]

LEMMA CommandRunExists ==
  ASSUME NEW n \in Nat, NEW commands, NEW had
  PROVE  \E f : IsCommandRun(f, n, commands, had)
<1> DEFINE W == had \cup {"failed"} \cup {commands[k].columns[1] : k \in 1..n}
           T == SUBSET W
           G == [p \in (1..n) \X T |-> CommandEffect(p[2], commands[p[1]])]
<1>1. \A k \in 1..n, x \in T : CommandEffect(x, commands[k]) \in T
  <2>1. "failed" \in W /\ \A k \in 1..n : commands[k].columns[1] \in W
    OBVIOUS
  <2> HIDE DEF W
  <2> QED BY <2>1, CommandEffectStays
<1>2. had \in T
  OBVIOUS
<1> HIDE DEF T
<1>3. G \in [(1..n) \X T -> T] /\ \A k \in 1..n, x \in T : G[<<k, x>>] = CommandEffect(x, commands[k])
  BY <1>1
<1> HIDE DEF G
<1>4. PICK f : IsRecursion(f, n, had, G)
  BY <1>2, <1>3, RecursionExists
<1>5. f[0] = had /\ \A k \in 1..n : f[k - 1] \in T /\ f[k] = G[<<k, f[k - 1]>>]
  BY <1>2, <1>3, <1>4, RecursionValues
<1> DEFINE Step(k) == IF k = 0 THEN had ELSE CommandEffect(f[k - 1], commands[k])
<1>6. \A k \in 0..n : f[k] = Step(k)
  <2>1. \A k \in 0..n : k = 0 \/ k \in 1..n
    OBVIOUS
  <2> QED BY <1>3, <1>5, <2>1
<1>7. f = [k \in 0..n |-> f[k]]
  BY <1>4 DEF IsRecursion
<1>8. f = [k \in 0..n |-> Step(k)]
  <2> HIDE DEF Step
  <2> QED BY <1>6, <1>7
<1> QED BY <1>8 DEF IsCommandRun

LEMMA ActionRunExists ==
  ASSUME NEW n \in Nat, NEW actions, NEW had
  PROVE  \E f : IsActionRun(f, n, actions, had)
<1> DEFINE W == had \cup {"failed"} \cup {actions[k].columns[1] : k \in 1..n}
           T == SUBSET W
           G == [p \in (1..n) \X T |-> ActionEffect(p[2], actions[p[1]])]
<1>1. \A k \in 1..n, x \in T : ActionEffect(x, actions[k]) \in T
  <2>1. "failed" \in W /\ \A k \in 1..n : actions[k].columns[1] \in W
    OBVIOUS
  <2> HIDE DEF W
  <2> QED BY <2>1, ActionEffectStays
<1>2. had \in T
  OBVIOUS
<1> HIDE DEF T
<1>3. G \in [(1..n) \X T -> T] /\ \A k \in 1..n, x \in T : G[<<k, x>>] = ActionEffect(x, actions[k])
  BY <1>1
<1> HIDE DEF G
<1>4. PICK f : IsRecursion(f, n, had, G)
  BY <1>2, <1>3, RecursionExists
<1>5. f[0] = had /\ \A k \in 1..n : f[k - 1] \in T /\ f[k] = G[<<k, f[k - 1]>>]
  BY <1>2, <1>3, <1>4, RecursionValues
<1> DEFINE Step(k) == IF k = 0 THEN had ELSE ActionEffect(f[k - 1], actions[k])
<1>6. \A k \in 0..n : f[k] = Step(k)
  <2>1. \A k \in 0..n : k = 0 \/ k \in 1..n
    OBVIOUS
  <2> QED BY <1>3, <1>5, <2>1
<1>7. f = [k \in 0..n |-> f[k]]
  BY <1>4 DEF IsRecursion
<1>8. f = [k \in 0..n |-> Step(k)]
  <2> HIDE DEF Step
  <2> QED BY <1>6, <1>7
<1> QED BY <1>8 DEF IsActionRun

LEMMA CommandsRecursion ==
  ASSUME NEW n \in Nat, NEW commands, n = Len(commands), NEW had
  PROVE  /\ AfterCommands(commands, 0, had) = had
         /\ \A i \in 1..n : AfterCommands(commands, i, had) = CommandEffect(AfterCommands(commands, i - 1, had), commands[i])
<1> DEFINE Computes(f) == f = [k \in 0..Len(commands) |-> IF k = 0 THEN had ELSE CommandEffect(f[k - 1], commands[k])]
           Def == CHOOSE f : Computes(f)
<1>1. \A i : AfterCommands(commands, i, had) = Def[i]
  BY DEF AfterCommands
<1>2. \E f : Computes(f)
  <2>1. PICK f : IsCommandRun(f, n, commands, had)
    BY CommandRunExists
  <2> QED BY <2>1 DEF IsCommandRun
<1>3. IsCommandRun(Def, n, commands, had)
  <2>1. Computes(Def)
    <3> HIDE DEF Computes
    <3> QED BY <1>2
  <2> HIDE DEF Def
  <2> QED BY <2>1 DEF IsCommandRun
<1> HIDE DEF Def
<1>4. PICK f : f = Def
  OBVIOUS
<1>5. f[0] = had
  BY <1>3, <1>4, 0 \in 0..n DEF IsCommandRun
<1>6. \A k \in 1..n : f[k] = CommandEffect(f[k - 1], commands[k])
  <2>1. \A k \in 1..n : k \in 0..n /\ k # 0
    OBVIOUS
  <2> QED BY <1>3, <1>4, <2>1 DEF IsCommandRun
<1> QED BY <1>1, <1>4, <1>5, <1>6

(* What n actions do is the last value of their run. *)
LEMMA ActionsRun ==
  ASSUME NEW n \in Nat, NEW actions, n = Len(actions), NEW had
  PROVE  \E f : /\ f[0] = had /\ AfterActions(actions, had) = f[n]
                /\ \A k \in 1..n : f[k] = ActionEffect(f[k - 1], actions[k])
<1> DEFINE Computes(f) == f = [k \in 0..Len(actions) |-> IF k = 0 THEN had ELSE ActionEffect(f[k - 1], actions[k])]
           Def == CHOOSE f : Computes(f)
<1>1. AfterActions(actions, had) = Def[n]
  BY DEF AfterActions
<1>2. \E f : Computes(f)
  <2>1. PICK f : IsActionRun(f, n, actions, had)
    BY ActionRunExists
  <2> QED BY <2>1 DEF IsActionRun
<1>3. IsActionRun(Def, n, actions, had)
  <2>1. Computes(Def)
    <3> HIDE DEF Computes
    <3> QED BY <1>2
  <2> HIDE DEF Def
  <2> QED BY <2>1 DEF IsActionRun
<1> HIDE DEF Def
<1>4. PICK f : f = Def
  OBVIOUS
<1>5. f[0] = had
  BY <1>3, <1>4, 0 \in 0..n DEF IsActionRun
<1>6. \A k \in 1..n : f[k] = ActionEffect(f[k - 1], actions[k])
  <2>1. \A k \in 1..n : k \in 0..n /\ k # 0
    OBVIOUS
  <2> QED BY <1>3, <1>4, <2>1 DEF IsActionRun
<1> QED BY <1>1, <1>4, <1>5, <1>6

LEMMA ActionAppended ==
  ASSUME NEW X, NEW actions \in Seq(X), NEW action, NEW had
  PROVE  AfterActions(Append(actions, action), had) = ActionEffect(AfterActions(actions, had), action)
<1>1. PICK n \in Nat : n = Len(actions)
  BY LenProperties
<1>2. PICK longer : longer = Append(actions, action)
  OBVIOUS
<1>3. Len(longer) = n + 1 /\ longer[n + 1] = action /\ \A k \in 1..n : longer[k] = actions[k]
  BY <1>1, <1>2, Appended
<1>4. PICK f : /\ f[0] = had /\ AfterActions(actions, had) = f[n]
               /\ \A k \in 1..n : f[k] = ActionEffect(f[k - 1], actions[k])
  BY <1>1, ActionsRun
<1>5. PICK g : /\ g[0] = had /\ AfterActions(longer, had) = g[n + 1]
               /\ \A k \in 1..n + 1 : g[k] = ActionEffect(g[k - 1], longer[k])
  BY <1>1, <1>3, ActionsRun, n + 1 \in Nat
<1> DEFINE Bad == {k \in 1..n : g[k] # f[k]}
<1>6. Bad = {}
  <2> SUFFICES ASSUME Bad # {} PROVE FALSE
    OBVIOUS
  <2> DEFINE m == Min(Bad)
  <2>1. m \in Bad /\ \A y \in Bad : m <= y
    BY MinOfIndices
  <2> HIDE DEF m
  <2>2. m \in 1..n /\ m \in 1..n + 1
    BY <2>1
  <2>3. g[m - 1] = f[m - 1]
    <3>1. CASE m = 1
      BY <1>4, <1>5, <3>1, m - 1 = 0
    <3>2. CASE m # 1
      <4>1. m - 1 \in 1..n /\ ~(m <= m - 1)
        BY <2>2, <3>2
      <4> QED BY <2>1, <4>1
    <3> QED BY <3>1, <3>2
  <2>4. g[m] = ActionEffect(g[m - 1], actions[m]) /\ f[m] = ActionEffect(f[m - 1], actions[m])
    BY <1>3, <1>4, <1>5, <2>2
  <2> QED BY <2>1, <2>3, <2>4
<1>7. g[n] = f[n]
  <2>1. CASE n = 0
    BY <1>4, <1>5, <2>1
  <2>2. CASE n # 0
    <3>1. n \in 1..n /\ n \notin Bad
      BY <1>6, <2>2
    <3> QED BY <3>1
  <2> QED BY <2>1, <2>2
<1>8. g[n + 1] = ActionEffect(g[n], action)
  <2>1. n + 1 \in 1..n + 1 /\ (n + 1) - 1 = n
    OBVIOUS
  <2> QED BY <1>3, <1>5, <2>1
<1> QED BY <1>2, <1>4, <1>5, <1>7, <1>8

LEMMA NoActions ==
  ASSUME NEW had
  PROVE  AfterActions(<< >>, had) = had
<1>1. PICK empty : empty = << >> /\ 0 = Len(empty)
  OBVIOUS
<1>2. AfterActions(empty, had) = had
  BY <1>1, ActionsRun
<1> QED BY <1>1, <1>2

-------------------------------------------------------------------------------
(* The inductive invariant: the shape of the statement, and what of it has *)
(* been reported, besides OneActionPerItem.                                *)

(* Sub-commands that name no column. *)
WithoutColumns == {"ADD CHECK", "ADD EXCLUDE", "DROP CONSTRAINT", "ALTER CONSTRAINT", "OWNER TO"}

CommandOK(command) ==
  /\ command.kind \in Commands /\ command.behavior \in Behaviors
  /\ command.columns \in Seq(Columns)
  /\ command.columns = << >> <=> command.kind \in WithoutColumns

StatementOK ==
  /\ \E X : statement.items \in Seq(X)
  /\ statement.kind = "ALTER TABLE" => \A i \in 1..Len(statement.items) : CommandOK(statement.items[i])
  /\ statement.kind \in {"CREATE INDEX", "COMMENT"} => Len(statement.items) = 1
  /\ statement.modifiers[2] \in Behaviors

ActionsOK ==
  /\ next \in Nat \ {0}
  /\ \E X : ddlActions \in Seq(X)
  /\ \A k \in DOMAIN ddlActions : ddlActions[k].item \in 1..next - 1

IInv == StatementOK /\ ActionsOK /\ OneActionPerItem

LEMMA KindsByWords ==
  ASSUME NEW kind \in AlterKinds
  PROVE  /\ "DROP" \in Words(kind) <=> kind \in {"DROP COLUMN", "DROP COLUMN IF EXISTS", "DROP CONSTRAINT",
                                                 "DROP NOT NULL", "DROP IDENTITY", "DROP EXPRESSION"}
         /\ "CONSTRAINT" \in Words(kind) <=> kind \in {"DROP CONSTRAINT", "ALTER CONSTRAINT"}
         /\ "ADD" \in Words(kind) <=> kind \in TableConstraints \cup {"ADD COLUMN", "ADD COLUMN IF NOT EXISTS", "ADD GENERATED"}
         /\ "IF" \in Words(kind) <=> kind \in {"ADD COLUMN IF NOT EXISTS", "DROP COLUMN IF EXISTS"}
         /\ "EXISTS" \in Words(kind) <=> kind \in {"ADD COLUMN IF NOT EXISTS", "DROP COLUMN IF EXISTS"}
         /\ "ALTER" \in Words(kind) <=> kind \in {"SET DEFAULT", "DROP DEFAULT", "SET NOT NULL", "DROP NOT NULL", "DROP IDENTITY",
                                                  "DROP EXPRESSION", "ADD GENERATED", "ALTER CONSTRAINT"}
  BY DEF Words, AlterKinds, TableConstraints

LEMMA EmptyList ==
  ASSUME NEW empty, empty = << >>
  PROVE  empty \in Seq({}) /\ DOMAIN empty = {}
  OBVIOUS

LEMMA EmptyFunction ==
  ASSUME NEW f, f = [k \in {} |-> f[k]]
  PROVE  f = << >>
<1>1. f \in [1..0 -> {}]
  OBVIOUS
<1>2. f \in Seq({}) /\ Len(f) = 0
  BY <1>1
<1> QED BY <1>2, EmptySeq

LEMMA TwoElements ==
  ASSUME NEW S, NEW pair, \E x, y \in S : pair = <<x, y>>
  PROVE  pair \in Seq(S) /\ pair # << >> /\ pair[2] \in S
  OBVIOUS

LEMMA ListsAreSequences ==
  ASSUME NEW S, NEW list \in Lists(S)
  PROVE  list \in Seq(S) /\ \A i \in 1..Len(list) : list[i] \in S
<1>1. PICK n \in 1..MaxItems : list \in [1..n -> S]
  BY DEF Lists
<1>2. n \in Nat
  BY CommandsAssumption
<1> QED BY <1>1, <1>2

LEMMA CommandsAreOK ==
  ASSUME NEW kind \in Commands, NEW command \in CommandsOf(kind)
  PROVE  CommandOK(command)
<1>1. command.kind = kind /\ command.behavior \in Behaviors
  BY DEF CommandsOf, Behaviors
<1>2. kind \in AlterKinds
  BY CommandsAssumption
<1>3. CASE kind = "ADD KEY"
  <2>1. command.columns \in Columns \X Columns
    BY <1>3 DEF CommandsOf
  <2>2. \E x, y \in Columns : command.columns = <<x, y>>
    BY <2>1
  <2>3. command.columns \in Seq(Columns) /\ command.columns # << >>
    BY <2>2, TwoElements
  <2> QED BY <1>1, <1>3, <2>3 DEF CommandOK, WithoutColumns
<1>4. CASE kind \in WithoutColumns
  <2>1. command.columns = << >>
    BY <1>4 DEF CommandsOf, WithoutColumns
  <2>2. command.columns \in Seq(Columns)
    BY <2>1
  <2> QED BY <1>1, <1>4, <2>1, <2>2 DEF CommandOK
<1>5. CASE kind # "ADD KEY" /\ kind \notin WithoutColumns
  <2>1. command.columns \in {<<c>> : c \in Columns}
    BY <1>2, <1>5 DEF CommandsOf, WithoutColumns, AlterKinds
  <2>2. command.columns \in Seq(Columns) /\ command.columns # << >>
    BY <2>1, OneElement
  <2> QED BY <1>1, <1>5, <2>2 DEF CommandOK
<1> QED BY <1>3, <1>4, <1>5

LEMMA NoModifiers ==
  ASSUME NEW modifiers, modifiers = <<"", "">>
  PROVE  modifiers[2] \in Behaviors
  BY DEF Behaviors

LEMMA InitInv ==
  ASSUME Init
  PROVE  IInv
<1>1. PICK k \in Kinds \cup {"CREATE INDEX", "COMMENT"} : k = statement.kind
  BY DEF Init, Kinds
<1>2. StatementOK
  <2>1. CASE k = "ALTER TABLE"
    <3>1. /\ statement.items \in Lists(UNION {CommandsOf(c) : c \in Commands})
          /\ statement.modifiers = <<"", "">>
      BY <1>1, <2>1 DEF Init, Kinds
    <3>2. statement.modifiers[2] \in Behaviors
      BY <3>1, NoModifiers
    <3>3. /\ \E X : statement.items \in Seq(X)
          /\ \A i \in 1..Len(statement.items) : statement.items[i] \in UNION {CommandsOf(c) : c \in Commands}
      BY <3>1, ListsAreSequences
    <3> QED BY <1>1, <2>1, <3>2, <3>3, CommandsAreOK DEF StatementOK
  <2>2. CASE k \in Kinds /\ k # "ALTER TABLE"
    <3>1. /\ statement.items \in Lists(Names)
          /\ statement.modifiers \in {"", "FIRST"} \X Behaviors
      BY <1>1, <2>2 DEF Init, Kinds
    <3>2. \E X : statement.items \in Seq(X)
      BY <3>1, ListsAreSequences
    <3>3. k \notin {"CREATE INDEX", "COMMENT"}
      BY <2>2 DEF Kinds
    <3> QED BY <1>1, <2>2, <3>1, <3>2, <3>3 DEF StatementOK
  <2>3. CASE k \notin Kinds
    <3>1. /\ \E x : statement.items = <<x>>
          /\ statement.modifiers = <<"", "">>
      BY <1>1, <2>3 DEF Init, Kinds
    <3>2. statement.modifiers[2] \in Behaviors
      BY <3>1, NoModifiers
    <3>3. (\E X : statement.items \in Seq(X)) /\ Len(statement.items) = 1
      BY <3>1, OneElement
    <3> QED BY <1>1, <2>3, <3>2, <3>3 DEF StatementOK, Kinds
  <2> QED BY <2>1, <2>2, <2>3
<1>9. next = 1
  BY DEF Init
<1>3. ddlActions = << >> /\ (statement.kind # "ALTER TABLE" => tables = << >>)
  BY DEF Init
<1>4. (\E X : ddlActions \in Seq(X)) /\ DOMAIN ddlActions = {}
  BY <1>3, EmptyList
<1>5. 1..next - 1 = {} /\ next \in Nat \ {0}
  BY <1>9, BeforeFirst
<1> DEFINE item(i) == statement.items[ddlActions[i].item]
           dropped == [i \in DOMAIN ddlActions |-> item(i)]
           indexed == [i \in DOMAIN ddlActions |-> item(i).table]
<1>7. ActionsOK
  BY <1>4, <1>5 DEF ActionsOK
<1>8. dropped = << >> /\ indexed = << >>
  <2>1. dropped = [i \in {} |-> dropped[i]] /\ indexed = [i \in {} |-> indexed[i]]
    BY <1>4
  <2> HIDE DEF dropped, indexed
  <2> QED BY <2>1, EmptyFunction
<1>6. OneActionPerItem
  <2>1. statement.kind \in {"DROP TABLE", "TRUNCATE"} => tables = dropped
    BY <1>3, <1>8
  <2>2. statement.kind = "CREATE INDEX" => tables = indexed
    BY <1>3, <1>8
  <2>3. NoneTwice
    BY <1>4, <2>1, <2>2 DEF NoneTwice
  <2>4. CommandsReported
    BY <1>5 DEF CommandsReported
  <2> QED BY <2>3, <2>4 DEF OneActionPerItem
<1> QED BY <1>2, <1>6, <1>7 DEF IInv

-------------------------------------------------------------------------------
(* The invariant is kept when the item under way is reported, and when it  *)
(* is one that has no action.                                              *)

IsList(f, n) == f = [k \in 1..n |-> f[k]]

LongerBy(f, old, n, x) == IsList(f, n + 1) /\ f[n + 1] = x /\ \A k \in 1..n : f[k] = old[k]

LEMMA TablesAppended ==
  ASSUME NEW n \in Nat, NEW old, IsList(old, n), NEW x, NEW f, LongerBy(f, old, n, x)
  PROVE  Append(old, x) = f
<1>0. /\ old = [k \in 1..n |-> old[k]] /\ f = [k \in 1..n + 1 |-> f[k]]
      /\ f[n + 1] = x /\ \A k \in 1..n : f[k] = old[k]
  BY DEF IsList, LongerBy
<1>1. PICK S : S = {old[k] : k \in 1..n} \cup {x}
  OBVIOUS
<1>2. \A k \in 1..n : old[k] \in S
  BY <1>1
<1>3. old \in Seq(S) /\ Len(old) = n /\ x \in S
  <2>1. old \in [1..n -> S] /\ x \in S
    BY <1>0, <1>1, <1>2
  <2> QED BY <2>1, FunctionOnIndices
<1>4. PICK longer : longer = Append(old, x)
  OBVIOUS
<1>5. longer \in Seq(S) /\ Len(longer) = n + 1 /\ longer[n + 1] = x /\ \A k \in 1..n : longer[k] = old[k]
  BY <1>3, <1>4, AppendProperties
<1>6. longer = [k \in 1..n + 1 |-> longer[k]]
  BY <1>5
<1>7. \A k \in 1..n + 1 : longer[k] = f[k]
  <2>1. \A k \in 1..n + 1 : k = n + 1 \/ k \in 1..n
    OBVIOUS
  <2> QED BY <1>0, <1>5, <2>1
<1> QED BY <1>0, <1>4, <1>6, <1>7

(* The sub-commands that are not reported. *)
Skipped == {"DROP CONSTRAINT", "ADD EXCLUDE", "ADD GENERATED", "ALTER CONSTRAINT"}

LEMMA StatementStays ==
  ASSUME StatementOK, UNCHANGED statement
  PROVE  StatementOK'
  BY DEF StatementOK

(* A step that reports the item under way. *)
Reports(action) ==
  /\ next <= Len(statement.items) /\ Advance /\ Report(action) /\ action.item = next
  /\ statement.kind = "ALTER TABLE" => statement.items[next].kind \notin Skipped
  /\ Contains(action.flags, "ADD_CONSTRAINT") =>
       IsInjective(action.columns) /\ Range(action.columns) = Range(statement.items[next].columns)
  /\ statement.kind \in {"DROP TABLE", "TRUNCATE"} => tables' = Append(tables, statement.items[next])
  /\ statement.kind = "CREATE INDEX" =>
       /\ tables' = Append(tables, statement.items[next].table)
       /\ action.name[1] = IF statement.items[next].index[1] = "" THEN statement.items[next].table[1]
                           ELSE statement.items[next].index[1]

LEMMA Reported ==
  ASSUME IInv, NEW action, Reports(action)
  PROVE  IInv'
<1>1. statement' = statement /\ next' = next + 1
  BY DEF Reports, Advance
<1>19. PICK items : items = statement.items
  OBVIOUS
<1>2. PICK m \in Nat : items = statement.items /\ next = m + 1 /\ next' - 1 = m + 1 /\ next' \in Nat \ {0}
  <2>1. next \in Nat \ {0}
    BY DEF IInv, ActionsOK
  <2>2. PICK m : m = next - 1
    OBVIOUS
  <2>3. m \in Nat /\ next = m + 1 /\ next' - 1 = m + 1 /\ next' \in Nat \ {0}
    BY <1>1, <2>1, <2>2
  <2> QED BY <1>19, <2>3
<1>3. (\E X : ddlActions \in Seq(X)) /\ \A k \in DOMAIN ddlActions : ddlActions[k].item \in 1..m
  <2>1. next - 1 = m
    BY <1>2, Indices
  <2> QED BY <2>1 DEF IInv, ActionsOK
<1>4. PICK n \in Nat : n = Len(ddlActions) /\ DOMAIN ddlActions = 1..n
  BY <1>3, LenProperties
<1>5. PICK longer : longer = Append(ddlActions, action) /\ ddlActions' = longer
  BY DEF Reports, Report
<1>6. /\ \E Y : longer \in Seq(Y)
      /\ DOMAIN longer = 1..n + 1 /\ longer[n + 1] = action /\ \A k \in 1..n : longer[k] = ddlActions[k]
  <2>1. PICK X : ddlActions \in Seq(X)
    BY <1>3
  <2>2. n = Len(ddlActions) /\ longer = Append(ddlActions, action)
    BY <1>4, <1>5
  <2>3. /\ \E Y : Append(ddlActions, action) \in Seq(Y)
        /\ DOMAIN Append(ddlActions, action) = 1..n + 1
        /\ Append(ddlActions, action)[n + 1] = action
        /\ \A k \in 1..n : Append(ddlActions, action)[k] = ddlActions[k]
    BY <1>4, <2>1, Appended
  <2> QED BY <2>2, <2>3
<1>7. (\A k \in 1..n + 1 : k = n + 1 \/ k \in 1..n) /\ (\A i \in 1..m + 1 : i = m + 1 \/ i \in 1..m)
  BY Indices
<1>8. (\A k \in 1..n : ddlActions[k].item \in 1..m) /\ action.item = m + 1
  BY <1>2, <1>3, <1>4 DEF Reports
<1>9. ActionsOK'
  <2>1. \A k \in 1..n + 1 : longer[k].item \in 1..m + 1
    BY <1>6, <1>7, <1>8, Indices
  <2> QED BY <1>2, <1>5, <1>6, <2>1 DEF ActionsOK
<1>10. \A k, l \in DOMAIN longer : k < l => longer[k].item < longer[l].item
  <2>1. \A k, l \in 1..n : k < l => ddlActions[k].item < ddlActions[l].item
    BY <1>4 DEF IInv, OneActionPerItem, NoneTwice
  <2>2. \A k \in 1..n : ddlActions[k].item < m + 1
    BY <1>8, Indices
  <2>3. \A k \in 1..n + 1 : ~(n + 1 < k)
    BY Indices
  <2> QED BY <1>6, <1>7, <1>8, <2>1, <2>2, <2>3
<1>11. statement.kind \in {"DROP TABLE", "TRUNCATE"} => tables' = [k \in DOMAIN longer |-> items[longer[k].item]]
  <2> SUFFICES ASSUME statement.kind \in {"DROP TABLE", "TRUNCATE"}
               PROVE  tables' = [k \in DOMAIN longer |-> items[longer[k].item]]
    OBVIOUS
  <2> DEFINE f == [k \in 1..n + 1 |-> items[longer[k].item]]
  <2>1. tables = [k \in 1..n |-> items[ddlActions[k].item]]
    BY <1>2, <1>4 DEF IInv, OneActionPerItem, NoneTwice
  <2>2. f[n + 1] = items[m + 1] /\ \A k \in 1..n : f[k] = tables[k]
    BY <1>6, <1>8, <2>1, Indices
  <2>3. IsList(f, n + 1) /\ IsList(tables, n)
    BY <2>1 DEF IsList
  <2>4. tables' = Append(tables, items[m + 1])
    BY <1>2 DEF Reports
  <2> HIDE DEF f
  <2>5. Append(tables, items[m + 1]) = f
    <3>1. LongerBy(f, tables, n, items[m + 1])
      BY <2>2, <2>3 DEF LongerBy
    <3> QED BY <1>4, <2>3, <3>1, TablesAppended
  <2> QED BY <1>6, <2>4, <2>5 DEF f
<1>12. statement.kind = "CREATE INDEX" => tables' = [k \in DOMAIN longer |-> items[longer[k].item].table]
  <2> SUFFICES ASSUME statement.kind = "CREATE INDEX"
               PROVE  tables' = [k \in DOMAIN longer |-> items[longer[k].item].table]
    OBVIOUS
  <2> DEFINE f == [k \in 1..n + 1 |-> items[longer[k].item].table]
  <2>1. tables = [k \in 1..n |-> items[ddlActions[k].item].table]
    BY <1>2, <1>4 DEF IInv, OneActionPerItem, NoneTwice
  <2>2. f[n + 1] = items[m + 1].table /\ \A k \in 1..n : f[k] = tables[k]
    BY <1>6, <1>8, <2>1, Indices
  <2>3. IsList(f, n + 1) /\ IsList(tables, n)
    BY <2>1 DEF IsList
  <2>4. tables' = Append(tables, items[m + 1].table)
    BY <1>2 DEF Reports
  <2> HIDE DEF f
  <2>5. Append(tables, items[m + 1].table) = f
    <3>1. LongerBy(f, tables, n, items[m + 1].table)
      BY <2>2, <2>3 DEF LongerBy
    <3> QED BY <1>4, <2>3, <3>1, TablesAppended
  <2> QED BY <1>6, <2>4, <2>5 DEF f
<1>13. ASSUME statement.kind = "CREATE INDEX", NEW k \in DOMAIN longer
       PROVE  LET own == items[k].index[1] schema == longer[k].name[1] IN
              (schema # own => own = "") /\ (own = "" => schema = tables'[k][1])
  <2>1. m = 0 /\ n = 0
    <3>1. m + 1 <= 1
      BY <1>2, <1>13 DEF IInv, StatementOK, Reports
    <3>2. m = 0
      BY <3>1
    <3> QED BY <1>8, <3>2, Indices
  <2>2. 1..0 + 1 = {1} /\ 0 + 1 = 1
    OBVIOUS
  <2>3. k = 1 /\ longer[1] = action /\ next = 1
    <3>1. DOMAIN longer = {1} /\ longer[1] = action
      BY <1>6, <2>1, <2>2
    <3>2. next = 1
      BY <1>2, <2>1, <2>2
    <3> QED BY <1>13, <3>1, <3>2
  <2>4. tables'[1] = items[1].table
    <3>1. action.item = 1 /\ 1 \in DOMAIN longer
      BY <1>8, <1>13, <2>1, <2>2, <2>3
    <3> QED BY <1>12, <1>13, <2>3, <3>1
  <2>5. action.name[1] = IF items[1].index[1] = "" THEN items[1].table[1] ELSE items[1].index[1]
    BY <1>2, <1>13, <2>3 DEF Reports
  <2> QED BY <2>3, <2>4, <2>5
<1>14. ASSUME NEW k \in DOMAIN longer, Contains(longer[k].flags, "ADD_CONSTRAINT")
       PROVE  /\ IsInjective(longer[k].columns)
              /\ Range(longer[k].columns) = Range(items[longer[k].item].columns)
  <2>1. CASE k = n + 1
    <3>1. action.item = next /\ longer[k] = action
      BY <1>6, <2>1 DEF Reports
    <3> QED BY <1>2, <1>14, <3>1 DEF Reports
  <2>2. CASE k \in 1..n
    BY <1>2, <1>4, <1>6, <1>14, <2>2 DEF IInv, OneActionPerItem, NoneTwice
  <2> QED BY <1>6, <1>7, <2>1, <2>2
<1>15. NoneTwice'
  BY <1>1, <1>2, <1>5, <1>10, <1>11, <1>12, <1>13, <1>14 DEF NoneTwice
<1>16. ASSUME statement.kind = "ALTER TABLE", NEW i \in 1..m + 1
       PROVE  (\E k \in DOMAIN longer : longer[k].item = i) <=> items[i].kind \notin Skipped
  <2>1. CASE i = m + 1
    <3>1. n + 1 \in DOMAIN longer /\ longer[n + 1].item = i
      BY <1>6, <1>8, <2>1, Indices
    <3>2. items[i].kind \notin Skipped
      BY <1>2, <1>16, <2>1 DEF Reports
    <3> QED BY <3>1, <3>2
  <2>2. CASE i \in 1..m
    <3>1. (\E k \in 1..n : ddlActions[k].item = i) <=> items[i].kind \notin Skipped
      <4>1. next - 1 = m
        BY <1>2, Indices
      <4> QED BY <1>2, <1>4, <1>16, <2>2, <4>1 DEF IInv, OneActionPerItem, CommandsReported, Skipped
    <3>2. longer[n + 1].item # i
      BY <1>6, <1>8, <2>2, Indices
    <3>3. (\E k \in 1..n + 1 : longer[k].item = i) <=> \E k \in 1..n : ddlActions[k].item = i
      BY <1>6, <1>7, <3>2, Indices
    <3> QED BY <1>6, <3>1, <3>3
  <2> QED BY <1>7, <2>1, <2>2
<1>17. CommandsReported'
  <2>1. statement' = statement /\ next' - 1 = m + 1 /\ ddlActions' = longer
    BY <1>1, <1>2, <1>5
  <2>2. statement.kind = "ALTER TABLE" =>
          \A i \in 1..m + 1 : (\E k \in DOMAIN longer : longer[k].item = i) <=> statement.items[i].kind \notin Skipped
    BY <1>16, <1>19
  <2> QED BY <2>1, <2>2 DEF CommandsReported, Skipped
<1>18. StatementOK'
  BY <1>1, StatementStays DEF IInv
<1> QED BY <1>9, <1>15, <1>17, <1>18 DEF IInv, OneActionPerItem

(* A step that reports nothing. *)
PassesOver ==
  /\ next <= Len(statement.items) /\ Advance /\ UNCHANGED <<ddlActions, tables>>
  /\ statement.kind = "ALTER TABLE" => statement.items[next].kind \in Skipped
  /\ statement.kind \notin {"DROP TABLE", "TRUNCATE", "CREATE INDEX"}

LEMMA PassedOver ==
  ASSUME IInv, PassesOver
  PROVE  IInv'
<1>1. statement' = statement /\ next' = next + 1 /\ ddlActions' = ddlActions /\ tables' = tables
  BY DEF PassesOver, Advance
<1>2. PICK m \in Nat : next = m + 1 /\ next' - 1 = m + 1 /\ next' \in Nat \ {0} /\ next - 1 = m
  <2>1. next \in Nat \ {0}
    BY DEF IInv, ActionsOK
  <2>2. PICK m : m = next - 1
    OBVIOUS
  <2>3. m \in Nat /\ next = m + 1 /\ next' - 1 = m + 1 /\ next' \in Nat \ {0}
    BY <1>1, <2>1, <2>2
  <2> QED BY <2>2, <2>3
<1>3. \A k \in DOMAIN ddlActions : ddlActions[k].item \in 1..m
  BY <1>2 DEF IInv, ActionsOK
<1>4. (\A i \in 1..m + 1 : i = m + 1 \/ i \in 1..m) /\ (\A i \in 1..m : i \in 1..m + 1 /\ i # m + 1)
  BY Indices
<1>5. ActionsOK'
  BY <1>1, <1>2, <1>3, <1>4 DEF IInv, ActionsOK
<1>6. NoneTwice'
  BY <1>1 DEF IInv, OneActionPerItem, NoneTwice
<1>7. ASSUME statement.kind = "ALTER TABLE", NEW i \in 1..m + 1
      PROVE  (\E k \in DOMAIN ddlActions : ddlActions[k].item = i) <=> statement.items[i].kind \notin Skipped
  <2>1. CASE i = m + 1
    <3>1. statement.items[i].kind \in Skipped
      BY <1>2, <1>7, <2>1 DEF PassesOver
    <3> QED BY <1>3, <1>4, <2>1, <3>1
  <2>2. CASE i \in 1..m
    <3>1. \A j \in 1..next - 1 : (\E k \in DOMAIN ddlActions : ddlActions[k].item = j) <=> statement.items[j].kind \notin Skipped
      BY <1>7 DEF IInv, OneActionPerItem, CommandsReported, Skipped
    <3>2. 1..next - 1 = 1..m
      BY <1>2
    <3> QED BY <2>2, <3>1, <3>2
  <2> QED BY <1>4, <2>1, <2>2
<1>8. CommandsReported'
  <2>1. statement' = statement /\ next' - 1 = m + 1 /\ ddlActions' = ddlActions
    BY <1>1, <1>2
  <2>2. statement.kind = "ALTER TABLE" =>
          \A i \in 1..m + 1 : (\E k \in DOMAIN ddlActions : ddlActions[k].item = i) <=> statement.items[i].kind \notin Skipped
    BY <1>7
  <2> QED BY <2>1, <2>2 DEF CommandsReported, Skipped
<1>9. StatementOK'
  BY <1>1, StatementStays DEF IInv
<1> QED BY <1>5, <1>6, <1>8, <1>9 DEF IInv, OneActionPerItem

-------------------------------------------------------------------------------
(* The steps.                                                              *)

LEMMA ActionFields ==
  ASSUME NEW type, NEW columns, NEW flags, NEW action, action = Action(type, columns, flags)
  PROVE  action.type = type /\ action.item = next /\ action.columns = columns /\ action.flags = flags
  BY DEF Action

(* CREATE INDEX and COMMENT ON fill in other fields. *)
Renamed(action, name) == [action EXCEPT !.name = name]

LEMMA NamedFields ==
  ASSUME NEW type, NEW columns, NEW flags, NEW name, NEW action, action = Renamed(Action(type, columns, flags), name)
  PROVE  action.item = next /\ action.flags = flags /\ action.name = name
  BY DEF Action, Renamed

LEMMA CommentFields ==
  ASSUME NEW name, NEW comment, NEW action, action = CommentOn(name, comment)
  PROVE  action.item = next /\ action.flags = << >>
  BY DEF Action, CommentOn

OfColumns(action, columns) == [action EXCEPT !.columns = columns]

LEMMA ColumnFields ==
  ASSUME NEW name, NEW comment, NEW columns, NEW action, action = OfColumns(CommentOn(name, comment), columns)
  PROVE  action.item = next /\ action.flags = << >>
  BY DEF Action, CommentOn, OfColumns

LEMMA OneFlag ==
  ASSUME NEW word, word # "", NEW other
  PROVE  <<word>> = Flag(word) /\ (Contains(<<word>>, other) <=> word = other)
<1>1. Flag(word) = <<word>>
  BY DEF Flag
<1>2. PICK S : S = {word}
  OBVIOUS
<1>3. Contains(Flag(word), other) <=> word # "" /\ word = other
  BY <1>2, FlagFacts
<1> QED BY <1>1, <1>3

LEMMA NoFlag ==
  ASSUME NEW other
  PROVE  ~Contains(<< >>, other)
<1>1. Flag("") = << >>
  BY DEF Flag
<1>2. PICK word, S : word = "" /\ S = {word}
  OBVIOUS
<1>3. Contains(Flag(word), other) <=> word # "" /\ word = other
  BY <1>2, FlagFacts
<1> QED BY <1>1, <1>2, <1>3

LEMMA PlainFlags ==
  /\ ~Contains(<<"ADD_CONSTRAINT">>, "ADD_COLUMN")
  /\ ~Contains(<<"ALTER_COLUMN">>, "ADD_COLUMN") /\ ~Contains(<<"ALTER_COLUMN">>, "ADD_CONSTRAINT")
<1>1. PICK a, b, c : a = "ADD_CONSTRAINT" /\ b = "ADD_COLUMN" /\ c = "ALTER_COLUMN"
  OBVIOUS
<1>2. a # "" /\ c # "" /\ a # b /\ c # b /\ c # a
  BY <1>1
<1>3. ~Contains(<<a>>, b) /\ ~Contains(<<c>>, b) /\ ~Contains(<<c>>, a)
  BY <1>2, OneFlag
<1> QED BY <1>1, <1>3

LEMMA TwoFlags ==
  ASSUME NEW a, NEW b, NEW S, a \in S, b \in S, NEW other
  PROVE  /\ Flag(a) \o Flag(b) \in Seq(S)
         /\ Contains(Flag(a) \o Flag(b), other) <=> other # "" /\ (a = other \/ b = other)
<1>1. Flag(a) \in Seq(S) /\ Flag(b) \in Seq(S)
  BY FlagFacts
<1>2. /\ Flag(a) \o Flag(b) \in Seq(S)
      /\ Contains(Flag(a) \o Flag(b), other) <=> Contains(Flag(a), other) \/ Contains(Flag(b), other)
  BY <1>1, ContainsConcat
<1>3. (Contains(Flag(a), other) <=> a # "" /\ a = other) /\ (Contains(Flag(b), other) <=> b # "" /\ b = other)
  BY FlagFacts
<1> QED BY <1>2, <1>3

LEMMA PairOfFlags ==
  ASSUME NEW a, NEW b, NEW other
  PROVE  Contains(Flag(a) \o Flag(b), other) <=> other # "" /\ (a = other \/ b = other)
<1>1. PICK S : a \in S /\ b \in S
  <2>1. a \in {a, b} /\ b \in {a, b}
    OBVIOUS
  <2> QED BY <2>1
<1> QED BY <1>1, TwoFlags

LEMMA ThreeFlags ==
  ASSUME NEW a, NEW b, NEW c, NEW other
  PROVE  Contains(Flag(a) \o Flag(b) \o Flag(c), other) <=> other # "" /\ (a = other \/ b = other \/ c = other)
<1>1. PICK S : a \in S /\ b \in S /\ c \in S
  <2>1. a \in {a, b, c} /\ b \in {a, b, c} /\ c \in {a, b, c}
    OBVIOUS
  <2> QED BY <2>1
<1>2. Flag(a) \o Flag(b) \in Seq(S) /\ Flag(c) \in Seq(S)
  BY <1>1, FlagFacts, TwoFlags
<1>3. Contains(Flag(a) \o Flag(b) \o Flag(c), other) <=> Contains(Flag(a) \o Flag(b), other) \/ Contains(Flag(c), other)
  BY <1>2, ContainsConcat
<1>4. /\ Contains(Flag(a) \o Flag(b), other) <=> other # "" /\ (a = other \/ b = other)
      /\ Contains(Flag(c), other) <=> c # "" /\ c = other
  BY <1>1, FlagFacts, TwoFlags
<1> QED BY <1>3, <1>4

(* What replaying the action does, and the command. *)
SameEffect(action) == \A had : ActionEffect(had, action) = CommandEffect(had, statement.items[next])

NoEffect == \A had : CommandEffect(had, statement.items[next]) = had

ColumnKinds == {"ADD COLUMN", "ADD COLUMN IF NOT EXISTS", "DROP COLUMN", "DROP COLUMN IF EXISTS"}

LEMMA CommandHere ==
  ASSUME IInv, Altering
  PROVE  /\ CommandOK(Item) /\ Item = statement.items[next] /\ Item.kind \in AlterKinds
         /\ next <= Len(statement.items) /\ statement.kind = "ALTER TABLE"
         /\ Item.kind \notin ColumnKinds => NoEffect
<1>1. statement.kind = "ALTER TABLE" /\ next <= Len(statement.items)
  BY DEF Altering
<1>2. PICK n \in Nat : n = Len(statement.items)
  <2>1. PICK X : statement.items \in Seq(X)
    BY DEF IInv, StatementOK
  <2> QED BY <2>1, LenProperties
<1>3. next \in 1..Len(statement.items)
  <2>1. next \in Nat \ {0} /\ next <= n
    BY <1>1, <1>2 DEF IInv, ActionsOK
  <2>2. next \in 1..n
    BY <2>1
  <2> QED BY <1>2, <2>2
<1>4. CommandOK(Item) /\ Item = statement.items[next]
  BY <1>1, <1>3 DEF IInv, StatementOK, Item
<1>5. Item.kind \in AlterKinds
  BY <1>4, CommandsAssumption DEF CommandOK
<1>6. Item.kind \notin ColumnKinds => NoEffect
  BY <1>4 DEF NoEffect, CommandEffect, ColumnKinds
<1> QED BY <1>1, <1>4, <1>5, <1>6

(* An action of ALTER TABLE that names no column to add. *)
LEMMA OtherAction ==
  ASSUME NEW columns, NEW flags, ~Contains(flags, "ADD_COLUMN"), NoEffect
  PROVE  SameEffect(Action("ALTER_TABLE", columns, flags))
<1>1. PICK action : action = Action("ALTER_TABLE", columns, flags)
  OBVIOUS
<1>2. action.type = "ALTER_TABLE" /\ action.flags = flags
  BY <1>1, ActionFields
<1>3. \A had : ActionEffect(had, action) = had
  BY <1>2 DEF ActionEffect
<1> QED BY <1>1, <1>3 DEF SameEffect, NoEffect

LEMMA DropConstraintStep ==
  ASSUME IInv, AlterDropConstraint
  PROVE  PassesOver /\ NoEffect
<1>1. Altering /\ Has("DROP") /\ Has("CONSTRAINT") /\ Advance /\ UNCHANGED <<ddlActions, tables>>
  BY DEF AlterDropConstraint
<1>2. Item.kind = "DROP CONSTRAINT"
  BY <1>1, CommandHere, KindsByWords DEF Has
<1>3. Item.kind \in Skipped /\ Item.kind \notin ColumnKinds
  BY <1>2 DEF Skipped, ColumnKinds
<1> QED BY <1>1, <1>3, CommandHere DEF PassesOver

LEMMA DropStep ==
  ASSUME IInv, AlterDrop
  PROVE  \E action : /\ Reports(action)
                     /\ Commands \cap {"DROP NOT NULL", "DROP IDENTITY", "DROP EXPRESSION"} = {} => SameEffect(action)
<1>1. Altering /\ Has("DROP") /\ ~Has("CONSTRAINT") /\ Advance
  BY DEF AlterDrop
<1>2. CommandOK(Item) /\ Item = statement.items[next] /\ Item.kind \in AlterKinds
      /\ next <= Len(statement.items) /\ statement.kind = "ALTER TABLE"
  BY <1>1, CommandHere
<1>3. Item.kind \in {"DROP COLUMN", "DROP COLUMN IF EXISTS", "DROP NOT NULL", "DROP IDENTITY", "DROP EXPRESSION"}
  BY <1>1, <1>2, KindsByWords DEF Has
<1>4. PICK missing : missing = IF Has("IF") /\ Has("EXISTS") THEN "IF_EXISTS" ELSE ""
  OBVIOUS
<1>5. missing = IF Item.kind = "DROP COLUMN IF EXISTS" THEN "IF_EXISTS" ELSE ""
  <2>1. /\ "IF" \in Words(Item.kind) <=> Item.kind \in {"ADD COLUMN IF NOT EXISTS", "DROP COLUMN IF EXISTS"}
        /\ "EXISTS" \in Words(Item.kind) <=> Item.kind \in {"ADD COLUMN IF NOT EXISTS", "DROP COLUMN IF EXISTS"}
    BY <1>2, KindsByWords
  <2>2. Has("IF") /\ Has("EXISTS") <=> Item.kind = "DROP COLUMN IF EXISTS"
    BY <1>3, <2>1 DEF Has
  <2> QED BY <1>4, <2>2
<1>6. PICK flags : flags = Flag(Item.behavior) \o Flag(missing)
  OBVIOUS
<1>7. PICK action : action = Action("DROP_COLUMN", Item.columns, flags) /\ Report(action)
  BY <1>4, <1>6 DEF AlterDrop
<1>8. action.type = "DROP_COLUMN" /\ action.item = next /\ action.columns = Item.columns /\ action.flags = flags
  BY <1>7, ActionFields
<1>9. Item.behavior \in {"", "CASCADE", "RESTRICT"}
  BY <1>2 DEF CommandOK, Behaviors
<1>10. \A word : Contains(flags, word) <=> word # "" /\ (Item.behavior = word \/ missing = word)
  BY <1>6, PairOfFlags
<1>11. ~Contains(flags, "ADD_CONSTRAINT") /\ (Contains(flags, "IF_EXISTS") <=> Item.kind = "DROP COLUMN IF EXISTS")
  <2>1. PICK a, b : a = "ADD_CONSTRAINT" /\ b = "IF_EXISTS"
    OBVIOUS
  <2>2. /\ Contains(flags, a) <=> a # "" /\ (Item.behavior = a \/ missing = a)
        /\ Contains(flags, b) <=> b # "" /\ (Item.behavior = b \/ missing = b)
    BY <1>10
  <2> QED BY <1>5, <1>9, <2>1, <2>2
<1>12. Reports(action)
  <2>1. Item.kind \notin Skipped
    BY <1>3 DEF Skipped
  <2> QED BY <1>1, <1>2, <1>7, <1>8, <1>11, <2>1 DEF Reports
<1>13. ASSUME Commands \cap {"DROP NOT NULL", "DROP IDENTITY", "DROP EXPRESSION"} = {}
       PROVE  SameEffect(action)
  <2>1. Item.kind \in {"DROP COLUMN", "DROP COLUMN IF EXISTS"}
    BY <1>2, <1>3, <1>13 DEF CommandOK
  <2>2. \A had : ActionEffect(had, action) = Dropped(had, Item.columns[1], Item.kind = "DROP COLUMN IF EXISTS")
    <3>1. Contains(flags, "IF_EXISTS") = (Item.kind = "DROP COLUMN IF EXISTS")
      BY <1>11 DEF Contains
    <3> QED BY <1>8, <3>1 DEF ActionEffect
  <2>3. \A had : CommandEffect(had, Item) = Dropped(had, Item.columns[1], Item.kind = "DROP COLUMN IF EXISTS")
    BY <2>1 DEF CommandEffect
  <2> QED BY <1>2, <2>2, <2>3 DEF SameEffect
<1> QED BY <1>12, <1>13

LEMMA AddConstraintStep ==
  ASSUME IInv, AlterAddConstraint
  PROVE  NoEffect /\ (PassesOver \/ \E action : Reports(action) /\ SameEffect(action))
<1>1. Altering /\ Item.kind \in TableConstraints /\ Advance /\ UNCHANGED tables
  BY DEF AlterAddConstraint
<1>2. CommandOK(Item) /\ Item = statement.items[next] /\ next <= Len(statement.items) /\ statement.kind = "ALTER TABLE"
  BY <1>1, CommandHere
<1>3. NoEffect
  BY <1>1, CommandHere DEF TableConstraints, ColumnKinds
<1>4. CASE Item.kind = "ADD EXCLUDE"
  <2>1. UNCHANGED ddlActions /\ Item.kind \in Skipped
    BY <1>4 DEF AlterAddConstraint, Skipped
  <2> QED BY <1>1, <1>2, <1>3, <2>1 DEF PassesOver
<1>5. CASE Item.kind # "ADD EXCLUDE"
  <2>1. PICK columns, flags, action :
          /\ columns = ConstraintColumns(Item.columns) /\ flags = <<"ADD_CONSTRAINT">>
          /\ action = Action("ALTER_TABLE", columns, flags) /\ Report(action)
    BY <1>5 DEF AlterAddConstraint
  <2>2. action.item = next /\ action.columns = columns
    BY <2>1, ActionFields
  <2>3. IsInjective(columns) /\ Range(columns) = Range(Item.columns)
    BY <1>2, <2>1, ColumnsCollected DEF CommandOK
  <2>4. Item.kind \notin Skipped
    BY <1>1, <1>5 DEF TableConstraints, Skipped
  <2>5. Reports(action)
    BY <1>1, <1>2, <2>1, <2>2, <2>3, <2>4 DEF Reports
  <2>6. ~Contains(flags, "ADD_COLUMN")
    BY <2>1, PlainFlags
  <2>7. SameEffect(action)
    BY <1>3, <2>1, <2>6, OtherAction
  <2> QED BY <1>3, <2>5, <2>7
<1> QED BY <1>4, <1>5

LEMMA AddStep ==
  ASSUME IInv, AlterAdd
  PROVE  (PassesOver /\ NoEffect) \/ \E action : Reports(action) /\ SameEffect(action)
<1>1. Altering /\ ~Has("DROP") /\ Has("ADD") /\ Item.kind \notin TableConstraints /\ Advance /\ UNCHANGED tables
  BY DEF AlterAdd
<1>2. CommandOK(Item) /\ Item = statement.items[next] /\ Item.kind \in AlterKinds
      /\ next <= Len(statement.items) /\ statement.kind = "ALTER TABLE"
  BY <1>1, CommandHere
<1>3. Item.kind \in {"ADD COLUMN", "ADD COLUMN IF NOT EXISTS", "ADD GENERATED"}
  BY <1>1, <1>2, KindsByWords DEF Has
<1>4. CASE Item.kind = "ADD GENERATED"
  <2>1. ~DefinesColumn(Item.kind) /\ Item.kind \in Skipped /\ Item.kind \notin ColumnKinds
    BY <1>4 DEF DefinesColumn, Skipped, ColumnKinds
  <2>2. UNCHANGED ddlActions
    BY <2>1 DEF AlterAdd
  <2> QED BY <1>1, <1>2, <2>1, <2>2, CommandHere DEF PassesOver
<1>5. CASE Item.kind # "ADD GENERATED"
  <2>1. DefinesColumn(Item.kind) /\ Item.kind \notin Skipped
    BY <1>3, <1>5 DEF DefinesColumn, Skipped
  <2>2. PICK there : there = IF Has("IF") THEN "IF_NOT_EXISTS" ELSE ""
    OBVIOUS
  <2>3. there = IF Item.kind = "ADD COLUMN IF NOT EXISTS" THEN "IF_NOT_EXISTS" ELSE ""
    <3>1. "IF" \in Words(Item.kind) <=> Item.kind \in {"ADD COLUMN IF NOT EXISTS", "DROP COLUMN IF EXISTS"}
      BY <1>2, KindsByWords
    <3>2. Has("IF") <=> Item.kind = "ADD COLUMN IF NOT EXISTS"
      BY <1>3, <3>1 DEF Has
    <3> QED BY <2>2, <3>2
  <2>4. PICK flags : flags = <<"ADD_COLUMN">> \o Flag(there)
    OBVIOUS
  <2>5. PICK action : action = Action("ALTER_TABLE", Item.columns, flags) /\ Report(action)
    BY <2>1, <2>2, <2>4 DEF AlterAdd
  <2>6. action.type = "ALTER_TABLE" /\ action.item = next /\ action.columns = Item.columns /\ action.flags = flags
    BY <2>5, ActionFields
  <2>7. \A word : Contains(flags, word) <=> word # "" /\ ("ADD_COLUMN" = word \/ there = word)
    <3>1. <<"ADD_COLUMN">> = Flag("ADD_COLUMN")
      BY DEF Flag
    <3>2. flags = Flag("ADD_COLUMN") \o Flag(there)
      BY <2>4, <3>1
    <3> QED BY <3>2, PairOfFlags
  <2>8. /\ Contains(flags, "ADD_COLUMN") /\ ~Contains(flags, "ADD_CONSTRAINT")
        /\ Contains(flags, "IF_NOT_EXISTS") <=> Item.kind = "ADD COLUMN IF NOT EXISTS"
    <3>1. PICK a, b, c : a = "ADD_COLUMN" /\ b = "ADD_CONSTRAINT" /\ c = "IF_NOT_EXISTS"
      OBVIOUS
    <3>2. /\ Contains(flags, a) <=> a # "" /\ ("ADD_COLUMN" = a \/ there = a)
          /\ Contains(flags, b) <=> b # "" /\ ("ADD_COLUMN" = b \/ there = b)
          /\ Contains(flags, c) <=> c # "" /\ ("ADD_COLUMN" = c \/ there = c)
      BY <2>7
    <3> QED BY <2>3, <3>1, <3>2
  <2>9. Reports(action)
    BY <1>1, <1>2, <2>1, <2>5, <2>6, <2>8 DEF Reports
  <2>10. \A had : ActionEffect(had, action) = Added(had, Item.columns[1], Item.kind = "ADD COLUMN IF NOT EXISTS")
    <3>1. Contains(flags, "IF_NOT_EXISTS") = (Item.kind = "ADD COLUMN IF NOT EXISTS")
      BY <2>8 DEF Contains
    <3> QED BY <2>6, <2>8, <3>1 DEF ActionEffect
  <2>11. \A had : CommandEffect(had, Item) = Added(had, Item.columns[1], Item.kind = "ADD COLUMN IF NOT EXISTS")
    BY <1>3, <1>5 DEF CommandEffect
  <2> QED BY <1>2, <2>9, <2>10, <2>11 DEF SameEffect
<1> QED BY <1>4, <1>5

LEMMA ColumnStep ==
  ASSUME IInv, AlterColumn
  PROVE  NoEffect /\ (PassesOver \/ \E action : Reports(action) /\ SameEffect(action))
<1>1. Altering /\ ~Has("DROP") /\ ~Has("ADD") /\ Has("ALTER") /\ Advance /\ UNCHANGED tables
  BY DEF AlterColumn
<1>2. CommandOK(Item) /\ Item = statement.items[next] /\ Item.kind \in AlterKinds
      /\ next <= Len(statement.items) /\ statement.kind = "ALTER TABLE"
  BY <1>1, CommandHere
<1>3. Item.kind \in {"SET DEFAULT", "DROP DEFAULT", "SET NOT NULL", "ALTER CONSTRAINT"}
  BY <1>1, <1>2, KindsByWords DEF Has
<1>4. NoEffect
  BY <1>1, <1>3, CommandHere DEF ColumnKinds
<1>5. Item.columns = << >> <=> Item.kind \in Skipped
  BY <1>2, <1>3 DEF CommandOK, WithoutColumns, Skipped
<1>6. CASE Item.columns = << >>
  <2>1. UNCHANGED ddlActions
    BY <1>6 DEF AlterColumn
  <2> QED BY <1>1, <1>2, <1>4, <1>5, <1>6, <2>1 DEF PassesOver
<1>7. CASE Item.columns # << >>
  <2>1. PICK flags, action : /\ flags = <<"ALTER_COLUMN">>
                             /\ action = Action("ALTER_TABLE", Item.columns, flags) /\ Report(action)
    BY <1>7 DEF AlterColumn
  <2>2. ~Contains(flags, "ADD_COLUMN") /\ ~Contains(flags, "ADD_CONSTRAINT")
    BY <2>1, PlainFlags
  <2>3. action.item = next /\ action.flags = flags
    BY <2>1, ActionFields
  <2>4. Reports(action)
    BY <1>1, <1>2, <1>5, <1>7, <2>1, <2>2, <2>3 DEF Reports
  <2>5. SameEffect(action)
    BY <1>4, <2>1, <2>2, OtherAction
  <2> QED BY <1>4, <2>4, <2>5
<1> QED BY <1>6, <1>7

LEMMA OtherStep ==
  ASSUME IInv, AlterOther
  PROVE  \E action : Reports(action) /\ SameEffect(action)
<1>1. Altering /\ ~Has("DROP") /\ ~Has("ADD") /\ ~Has("ALTER") /\ Advance /\ UNCHANGED tables
  BY DEF AlterOther
<1>2. CommandOK(Item) /\ Item = statement.items[next] /\ Item.kind \in AlterKinds
      /\ next <= Len(statement.items) /\ statement.kind = "ALTER TABLE"
  BY <1>1, CommandHere
<1>3. Item.kind = "OWNER TO"
  BY <1>1, <1>2, KindsByWords DEF Has, AlterKinds, TableConstraints
<1>4. NoEffect /\ Item.kind \notin Skipped
  BY <1>1, <1>3, CommandHere DEF ColumnKinds, Skipped
<1>5. PICK flags, action : /\ flags = << >>
                           /\ action = Action("ALTER_TABLE", << >>, flags) /\ Report(action)
  BY DEF AlterOther
<1>6. ~Contains(flags, "ADD_COLUMN") /\ ~Contains(flags, "ADD_CONSTRAINT")
  BY <1>5, NoFlag
<1>7. action.item = next /\ action.flags = flags
  BY <1>5, ActionFields
<1>8. Reports(action)
  BY <1>1, <1>2, <1>4, <1>5, <1>6, <1>7 DEF Reports
<1>9. SameEffect(action)
  BY <1>4, <1>5, <1>6, OtherAction
<1> QED BY <1>8, <1>9

LEMMA SharedFlagsAre ==
  ASSUME IInv, NEW first, first # "ADD_CONSTRAINT", NEW last, last # "ADD_CONSTRAINT"
  PROVE  /\ ~Contains(SharedFlags(first), "ADD_CONSTRAINT")
         /\ ~Contains(SharedFlags(first) \o Flag(last), "ADD_CONSTRAINT")
<1>1. PICK a, b, other : /\ other = "ADD_CONSTRAINT" /\ b = statement.modifiers[2]
                         /\ a = IF statement.modifiers[1] = "" THEN "" ELSE first
  OBVIOUS
<1>2. b \in {"", "CASCADE", "RESTRICT"}
  BY <1>1 DEF IInv, StatementOK, Behaviors
<1>3. a # other /\ b # other /\ last # other
  BY <1>1, <1>2
<1>4. SharedFlags(first) = Flag(a) \o Flag(b)
  BY <1>1 DEF SharedFlags
<1>5. ~Contains(Flag(a) \o Flag(b), other) /\ ~Contains(Flag(a) \o Flag(b) \o Flag(last), other)
  <2>1. other # "" /\ ~(a = other \/ b = other) /\ ~(a = other \/ b = other \/ last = other)
    BY <1>1, <1>3
  <2>2. ~Contains(Flag(a) \o Flag(b), other)
    BY <2>1, PairOfFlags
  <2>3. ~Contains(Flag(a) \o Flag(b) \o Flag(last), other)
    BY <1>3, ThreeFlags
  <2> QED BY <2>2, <2>3
<1> QED BY <1>1, <1>4, <1>5

LEMMA DropTableStep ==
  ASSUME IInv, DropTable
  PROVE  \E action : Reports(action)
<1>1. statement.kind = "DROP TABLE" /\ next <= Len(statement.items) /\ Advance /\ tables' = Append(tables, statement.items[next])
  BY DEF DropTable, Naming, Item
<1>2. PICK flags, action : /\ flags = SharedFlags("IF_EXISTS")
                           /\ action = Action("DROP_TABLE", << >>, flags) /\ Report(action)
  BY DEF DropTable
<1>3. action.item = next /\ action.flags = flags
  BY <1>2, ActionFields
<1>4. ~Contains(flags, "ADD_CONSTRAINT")
  BY <1>2, SharedFlagsAre
<1> QED BY <1>1, <1>2, <1>3, <1>4 DEF Reports

LEMMA DropIndexStep ==
  ASSUME IInv, DropIndex
  PROVE  \E action : Reports(action)
<1>1. statement.kind \in {"DROP INDEX", "DROP INDEX CONCURRENTLY"} /\ next <= Len(statement.items) /\ Advance
  BY DEF DropIndex, Naming
<1>2. PICK last, flags, action :
        /\ last = IF statement.kind = "DROP INDEX" THEN "" ELSE "CONCURRENTLY"
        /\ flags = SharedFlags("IF_EXISTS") \o Flag(last)
        /\ action = Action("DROP_INDEX", << >>, flags) /\ Report(action)
  BY DEF DropIndex
<1>3. action.item = next /\ action.flags = flags
  <2>1. action = Action("DROP_INDEX", << >>, flags)
    BY <1>2
  <2> QED BY <2>1, ActionFields
<1>4. ~Contains(flags, "ADD_CONSTRAINT")
  <2>1. last # "ADD_CONSTRAINT"
    BY <1>2
  <2> QED BY <1>2, <2>1, SharedFlagsAre
<1> QED BY <1>1, <1>2, <1>3, <1>4 DEF Reports

LEMMA DropOtherStep ==
  ASSUME IInv, DropOther
  PROVE  PassesOver
  BY DEF DropOther, Naming, PassesOver

LEMMA TruncateStep ==
  ASSUME IInv, Truncate
  PROVE  \E action : Reports(action)
<1>1. statement.kind = "TRUNCATE" /\ next <= Len(statement.items) /\ Advance /\ tables' = Append(tables, statement.items[next])
  BY DEF Truncate, Naming, Item
<1>2. PICK flags, action : /\ flags = SharedFlags("RESTART_IDENTITY")
                           /\ action = Action("TRUNCATE", << >>, flags) /\ Report(action)
  BY DEF Truncate
<1>3. action.item = next /\ action.flags = flags
  BY <1>2, ActionFields
<1>4. ~Contains(flags, "ADD_CONSTRAINT")
  BY <1>2, SharedFlagsAre
<1> QED BY <1>1, <1>2, <1>3, <1>4 DEF Reports

LEMMA FirstOfTwo ==
  ASSUME NEW x, NEW y
  PROVE  <<x, y>>[1] = x
  OBVIOUS

LEMMA CreateIndexStep ==
  ASSUME IInv, CreateIndex
  PROVE  \E action : Reports(action)
<1>1. /\ statement.kind = "CREATE INDEX" /\ next <= Len(statement.items) /\ Advance
      /\ Item = statement.items[next] /\ tables' = Append(tables, Item.table)
  BY DEF CreateIndex, Naming, Item
<1>2. PICK a, b, c, schema, flags, name, action :
        /\ a = IF Item.concurrently THEN "CONCURRENTLY" ELSE ""
        /\ b = IF Item.unique THEN "UNIQUE" ELSE ""
        /\ c = IF Item.ifNotExists THEN "IF_NOT_EXISTS" ELSE ""
        /\ flags = Flag(a) \o Flag(b) \o Flag(c)
        /\ schema = IF Item.index[1] = "" THEN Item.table[1] ELSE Item.index[1]
        /\ name = <<schema, Item.index[2]>>
        /\ action = [Action("CREATE_INDEX", << >>, flags) EXCEPT !.name = name] /\ Report(action)
  BY DEF CreateIndex
<1>3. action.item = next /\ action.flags = flags /\ action.name = name
  <2>1. action = Renamed(Action("CREATE_INDEX", << >>, flags), name)
    BY <1>2 DEF Renamed
  <2> QED BY <2>1, NamedFields
<1>4. action.name[1] = schema
  <2>1. action.name = <<schema, Item.index[2]>>
    BY <1>2, <1>3
  <2> QED BY <2>1, FirstOfTwo
<1>5. ~Contains(flags, "ADD_CONSTRAINT")
  <2>1. PICK other : other = "ADD_CONSTRAINT"
    OBVIOUS
  <2>2. a # other /\ b # other /\ c # other
    BY <1>2, <2>1
  <2>3. ~Contains(Flag(a) \o Flag(b) \o Flag(c), other)
    BY <2>2, ThreeFlags
  <2> QED BY <1>2, <2>1, <2>3
<1> QED BY <1>1, <1>2, <1>3, <1>4, <1>5 DEF Reports

LEMMA CommentStep ==
  ASSUME IInv, CommentOnColumn \/ CommentOnObject \/ CommentOnOther
  PROVE  \E action : Reports(action)
<1>1. statement.kind = "COMMENT" /\ next <= Len(statement.items) /\ Advance
  BY DEF CommentOnColumn, CommentOnObject, CommentOnOther, Commenting, Naming
<1>2. PICK action : Report(action) /\ action.item = next /\ action.flags = << >>
  <2>1. CASE CommentOnColumn
    <3>1. PICK name, columns, action : action = [CommentOn(name, Decoded) EXCEPT !.columns = columns] /\ Report(action)
      BY <2>1 DEF CommentOnColumn
    <3>2. action.item = next /\ action.flags = << >>
      <4>1. action = OfColumns(CommentOn(name, Decoded), columns)
        BY <3>1 DEF OfColumns
      <4> QED BY <4>1, ColumnFields
    <3> QED BY <3>1, <3>2
  <2>2. CASE CommentOnObject \/ CommentOnOther
    <3>1. PICK name, action : action = CommentOn(name, Decoded) /\ Report(action)
      BY <2>2 DEF CommentOnObject, CommentOnOther
    <3>2. action.item = next /\ action.flags = << >>
      BY <3>1, CommentFields
    <3> QED BY <3>1, <3>2
  <2> QED BY <1>1, <2>1, <2>2
<1>3. ~Contains(action.flags, "ADD_CONSTRAINT")
  BY <1>2, NoFlag
<1> QED BY <1>1, <1>2, <1>3 DEF Reports

-------------------------------------------------------------------------------
(* What is reported.                                                       *)

LEMMA NextInv ==
  ASSUME IInv, [Next]_vars
  PROVE  IInv'
<1>1. CASE AlterDropConstraint
  BY <1>1, DropConstraintStep, PassedOver
<1>2. CASE AlterDrop
  BY <1>2, DropStep, Reported
<1>3. CASE AlterAddConstraint
  BY <1>3, AddConstraintStep, PassedOver, Reported
<1>4. CASE AlterAdd
  BY <1>4, AddStep, PassedOver, Reported
<1>5. CASE AlterColumn
  BY <1>5, ColumnStep, PassedOver, Reported
<1>6. CASE AlterOther
  BY <1>6, OtherStep, Reported
<1>7. CASE DropTable
  BY <1>7, DropTableStep, Reported
<1>8. CASE DropIndex
  BY <1>8, DropIndexStep, Reported
<1>9. CASE DropOther
  BY <1>9, DropOtherStep, PassedOver
<1>10. CASE Truncate
  BY <1>10, TruncateStep, Reported
<1>11. CASE CreateIndex
  BY <1>11, CreateIndexStep, Reported
<1>12. CASE CommentOnColumn \/ CommentOnObject \/ CommentOnOther
  BY <1>12, CommentStep, Reported
<1>13. CASE UNCHANGED vars
  BY <1>13 DEF vars, IInv, StatementOK, ActionsOK, OneActionPerItem, NoneTwice, CommandsReported
<1> QED BY <1>1, <1>2, <1>3, <1>4, <1>5, <1>6, <1>7, <1>8, <1>9, <1>10, <1>11, <1>12, <1>13 DEF Next

(* The inductive invariant holds throughout. *)
THEOREM Invariance == Spec => []IInv
<1>1. Init => IInv
  BY InitInv
<1>2. IInv /\ [Next]_vars => IInv'
  BY NextInv
<1> QED BY <1>1, <1>2, PTL DEF Spec

(* OneActionPerItem holds: every sub-command and every name of a list is   *)
(* reported by one action, in order, but for those that are skipped, and   *)
(* the tables registered are those of the actions (ddl.go:470-887).        *)
THEOREM ItemsReported == Spec => []OneActionPerItem
<1>1. IInv => OneActionPerItem
  BY DEF IInv
<1> QED BY <1>1, Invariance, PTL

-------------------------------------------------------------------------------
(* What the actions of ALTER TABLE do.                                     *)

LEMMA ReplayStarts ==
  ASSUME Init
  PROVE  ReplayGivesTheColumns
<1>1. ddlActions = << >> /\ next = 1 /\ next - 1 = 0
  <2>1. next = 1
    BY DEF Init
  <2>2. ddlActions = << >>
    BY DEF Init
  <2>3. 1 - 1 = 0
    OBVIOUS
  <2> QED BY <2>1, <2>2, <2>3
<1>2. PICK n \in Nat : n = Len(statement.items)
  <2>1. PICK X : statement.items \in Seq(X)
    BY InitInv DEF IInv, StatementOK
  <2> QED BY <2>1, LenProperties
<1>3. \A had : AfterActions(ddlActions, had) = had
  BY <1>1, NoActions
<1>4. \A had : AfterCommands(statement.items, 0, had) = had
  BY <1>2, CommandsRecursion
<1> QED BY <1>1, <1>3, <1>4 DEF ReplayGivesTheColumns

(* Whatever a step of ALTER TABLE reports, or does not, the commands go on *)
(* by the item under way.                                                  *)
LEMMA CommandsGoOn ==
  ASSUME IInv, Altering, Advance, NEW had
  PROVE  /\ next' - 1 = next
         /\ AfterCommands(statement.items, next, had)
              = CommandEffect(AfterCommands(statement.items, next - 1, had), statement.items[next])
<1>1. PICK n \in Nat : n = Len(statement.items)
  <2>1. PICK X : statement.items \in Seq(X)
    BY DEF IInv, StatementOK
  <2> QED BY <2>1, LenProperties
<1>2. PICK i, items : i = next /\ items = statement.items
  OBVIOUS
<1>3. next' = i + 1 /\ i \in Nat \ {0} /\ i <= n
  BY <1>1, <1>2 DEF Altering, Advance, IInv, ActionsOK
<1>4. (i + 1) - 1 = i /\ i \in 1..n
  BY <1>1, <1>3
<1>5. AfterCommands(items, i, had) = CommandEffect(AfterCommands(items, i - 1, had), items[i])
  <2>1. n \in Nat /\ n = Len(items) /\ i \in 1..n
    BY <1>1, <1>2, <1>4
  <2> QED BY <2>1, CommandsRecursion
<1>6. next' - 1 = next
  BY <1>2, <1>3, <1>4
<1> QED BY <1>2, <1>5, <1>6

LEMMA ReplayGoesOn ==
  ASSUME IInv, ReplayGivesTheColumns, statement.kind = "ALTER TABLE",
         NEW action, Reports(action), SameEffect(action)
  PROVE  ReplayGivesTheColumns'
<1>1. Altering /\ Advance /\ statement' = statement /\ ddlActions' = Append(ddlActions, action)
  BY DEF Reports, Report, Advance, Altering
<1>2. PICK X : ddlActions \in Seq(X)
  BY DEF IInv, ActionsOK
<1>3. ASSUME NEW had \in SUBSET Columns
      PROVE  AfterActions(Append(ddlActions, action), had) = AfterCommands(statement.items, next, had)
  <2>1. AfterActions(ddlActions, had) = AfterCommands(statement.items, next - 1, had)
    BY DEF ReplayGivesTheColumns
  <2>2. AfterActions(Append(ddlActions, action), had) = ActionEffect(AfterActions(ddlActions, had), action)
    BY <1>2, ActionAppended
  <2>3. AfterCommands(statement.items, next, had)
          = CommandEffect(AfterCommands(statement.items, next - 1, had), statement.items[next])
    BY <1>1, CommandsGoOn
  <2> QED BY <2>1, <2>2, <2>3 DEF SameEffect
<1>4. next' - 1 = next
  BY <1>1, CommandsGoOn
<1> QED BY <1>1, <1>3, <1>4 DEF ReplayGivesTheColumns

LEMMA ReplayStays ==
  ASSUME IInv, ReplayGivesTheColumns, statement.kind = "ALTER TABLE", PassesOver, NoEffect
  PROVE  ReplayGivesTheColumns'
<1>1. Altering /\ Advance /\ statement' = statement /\ ddlActions' = ddlActions
  BY DEF PassesOver, Advance, Altering
<1>2. ASSUME NEW had \in SUBSET Columns
      PROVE  AfterActions(ddlActions, had) = AfterCommands(statement.items, next, had)
  <2>1. AfterActions(ddlActions, had) = AfterCommands(statement.items, next - 1, had)
    BY DEF ReplayGivesTheColumns
  <2>2. AfterCommands(statement.items, next, had)
          = CommandEffect(AfterCommands(statement.items, next - 1, had), statement.items[next])
    BY <1>1, CommandsGoOn
  <2> QED BY <2>1, <2>2 DEF NoEffect
<1>3. next' - 1 = next
  BY <1>1, CommandsGoOn
<1> QED BY <1>1, <1>2, <1>3 DEF ReplayGivesTheColumns

(* ReplayGivesTheColumns holds of ALTER TABLE without the sub-commands that *)
(* drop something else of a column: replaying the actions on the columns of *)
(* a table, whatever they are, gives the columns that PostgreSQL leaves,    *)
(* and fails where it fails (ddl.go:592-748).                               *)
THEOREM Replayed ==
  ASSUME Commands \cap {"DROP NOT NULL", "DROP IDENTITY", "DROP EXPRESSION"} = {}
  PROVE  Spec => []ReplayGivesTheColumns
<1>1. Init => ReplayGivesTheColumns
  BY ReplayStarts
<1>2. IInv /\ ReplayGivesTheColumns /\ [Next]_vars => ReplayGivesTheColumns'
  <2> SUFFICES ASSUME IInv, ReplayGivesTheColumns, [Next]_vars PROVE ReplayGivesTheColumns'
    OBVIOUS
  <2>1. CASE statement.kind = "ALTER TABLE" /\ Next
    <3>1. CASE AlterDropConstraint
      BY <2>1, <3>1, DropConstraintStep, ReplayStays
    <3>2. CASE AlterDrop
      BY <2>1, <3>2, DropStep, ReplayGoesOn
    <3>3. CASE AlterAddConstraint
      BY <2>1, <3>3, AddConstraintStep, ReplayStays, ReplayGoesOn
    <3>4. CASE AlterAdd
      BY <2>1, <3>4, AddStep, ReplayStays, ReplayGoesOn
    <3>5. CASE AlterColumn
      BY <2>1, <3>5, ColumnStep, ReplayStays, ReplayGoesOn
    <3>6. CASE AlterOther
      BY <2>1, <3>6, OtherStep, ReplayGoesOn
    <3>7. ~(DropTable \/ DropIndex \/ DropOther \/ Truncate \/ CreateIndex
              \/ CommentOnColumn \/ CommentOnObject \/ CommentOnOther)
      BY <2>1 DEF DropTable, DropIndex, DropOther, Truncate, CreateIndex, CommentOnColumn, CommentOnObject,
                  CommentOnOther, Commenting, Naming
    <3> QED BY <2>1, <3>1, <3>2, <3>3, <3>4, <3>5, <3>6, <3>7 DEF Next
  <2>2. CASE statement.kind # "ALTER TABLE" /\ Next
    <3>1. statement' = statement
      BY <2>2 DEF Next, Advance, AlterDropConstraint, AlterDrop, AlterAddConstraint, AlterAdd, AlterColumn, AlterOther,
                  DropTable, DropIndex, DropOther, Truncate, CreateIndex, CommentOnColumn, CommentOnObject, CommentOnOther
    <3> QED BY <2>2, <3>1 DEF ReplayGivesTheColumns
  <2>3. CASE UNCHANGED vars
    BY <2>3 DEF vars, ReplayGivesTheColumns
  <2> QED BY <2>1, <2>2, <2>3
<1> QED BY <1>1, <1>2, Invariance, PTL DEF Spec

-------------------------------------------------------------------------------
(* Texts of characters: Replace, and the texts of literals as rows of the  *)
(* spellings of their units (ddl_comment.go:95-184).                        *)

(* What Replace reads at a place, and what it is from there on. *)
PairAt(text, pairs, i) == i < Len(text) /\ SubSeq(text, i, i + 1) \in DOMAIN pairs

Replaced(from, text, pairs) ==
  /\ from[Len(text) + 1] = << >>
  /\ \A i \in 1..Len(text) :
       from[i] = IF PairAt(text, pairs, i) THEN <<pairs[SubSeq(text, i, i + 1)]>> \o from[i + 2]
                 ELSE <<text[i]>> \o from[i + 1]

LEMMA ReplaceReads ==
  ASSUME NEW E, NEW text \in Seq(E), NEW pairs, \A p \in DOMAIN pairs : pairs[p] \in E
  PROVE  \E from : Replaced(from, text, pairs) /\ Replace(text, pairs) = from[1]
<1> DEFINE Step(i, near, far) ==
             IF PairAt(text, pairs, i) THEN <<pairs[SubSeq(text, i, i + 1)]>> \o far ELSE <<text[i]>> \o near
           Body(from, i) ==
             IF i > Len(text) THEN << >>
             ELSE IF i < Len(text) /\ SubSeq(text, i, i + 1) \in DOMAIN pairs THEN <<pairs[SubSeq(text, i, i + 1)]>> \o from[i + 2]
             ELSE <<text[i]>> \o from[i + 1]
<1>1. PICK n \in Nat : n = Len(text)
  OBVIOUS
<1>2. PICK T, base : T = Seq(E) \X Seq(E) /\ base = << << >>, << >> >>
  OBVIOUS
<1>3. ASSUME NEW i \in 1..n, NEW near \in Seq(E), NEW far \in Seq(E) PROVE Step(i, near, far) \in Seq(E)
  <2>1. text[i] \in E
    BY <1>1
  <2>2. PairAt(text, pairs, i) => pairs[SubSeq(text, i, i + 1)] \in E
    BY DEF PairAt
  <2>3. ASSUME NEW x \in E, NEW s \in Seq(E) PROVE <<x>> \o s \in Seq(E)
    OBVIOUS
  <2> QED BY <2>1, <2>2, <2>3
<1> HIDE DEF Step
<1> DEFINE G == [p \in (1..n) \X T |-> <<Step(n + 1 - p[1], p[2][1], p[2][2]), p[2][1]>>]
<1>4. base \in T /\ G \in [(1..n) \X T -> T]
  <2>1. base \in T
    <3>1. \A e \in Seq(E) : <<e, e>> \in Seq(E) \X Seq(E)
      OBVIOUS
    <3>2. << >> \in Seq(E)
      OBVIOUS
    <3> HIDE DEF G, Body
    <3> QED BY <1>2, <3>1, <3>2
  <2>2. \A p \in (1..n) \X T : <<Step(n + 1 - p[1], p[2][1], p[2][2]), p[2][1]>> \in T
    <3> SUFFICES ASSUME NEW p \in (1..n) \X T PROVE <<Step(n + 1 - p[1], p[2][1], p[2][2]), p[2][1]>> \in T
      OBVIOUS
    <3>1. p[2][1] \in Seq(E) /\ p[2][2] \in Seq(E) /\ n + 1 - p[1] \in 1..n
      BY <1>2
    <3>2. Step(n + 1 - p[1], p[2][1], p[2][2]) \in Seq(E)
      BY <1>3, <3>1
    <3> QED BY <1>2, <3>1, <3>2
  <2> QED BY <2>1, <2>2
<1>5. \A k \in 1..n, p \in T : G[<<k, p>>] = <<Step(n + 1 - k, p[1], p[2]), p[1]>>
  OBVIOUS
<1> HIDE DEF G
<1>6. PICK f : Iterates(f, n, base, G, T)
  BY <1>4, Iterated
<1> HIDE DEF Body
<1>7. f[0] = base /\ \A k \in 1..n : f[k - 1] \in T /\ f[k] = G[<<k, f[k - 1]>>]
  BY <1>6 DEF Iterates
<1> DEFINE g == [i \in 1..n + 2 |-> IF i = n + 2 THEN << >> ELSE f[n + 1 - i][1]]
<1>8. \A i \in 1..n + 2 : i # n + 2 => f[n + 1 - i][2] = g[i + 1]
  <2> SUFFICES ASSUME NEW i \in 1..n + 2, i # n + 2 PROVE f[n + 1 - i][2] = g[i + 1]
    OBVIOUS
  <2>1. CASE i = n + 1
    BY <1>2, <1>7, <2>1
  <2>2. CASE i # n + 1
    <3>1. n + 1 - i \in 1..n /\ i + 1 \in 1..n + 2 /\ i + 1 # n + 2 /\ n + 1 - (i + 1) = (n + 1 - i) - 1
      BY <2>2
    <3>2. f[n + 1 - i] = <<Step(n + 1 - (n + 1 - i), f[(n + 1 - i) - 1][1], f[(n + 1 - i) - 1][2]), f[(n + 1 - i) - 1][1]>>
      BY <1>5, <1>7, <3>1
    <3> QED BY <3>1, <3>2
  <2> QED BY <2>1, <2>2
<1>9. \A i \in 1..n : g[i] = Step(i, g[i + 1], g[i + 2])
  <2> SUFFICES ASSUME NEW i \in 1..n PROVE g[i] = Step(i, g[i + 1], g[i + 2])
    OBVIOUS
  <2>1. n + 1 - i \in 1..n /\ i + 1 \in 1..n + 2 /\ i + 1 # n + 2 /\ n + 1 - (i + 1) = (n + 1 - i) - 1 /\ n + 1 - (n + 1 - i) = i
        /\ (i + 1) + 1 = i + 2 /\ i # n + 2 /\ i \in 1..n + 2
    OBVIOUS
  <2>2. f[n + 1 - i] = <<Step(i, f[(n + 1 - i) - 1][1], f[(n + 1 - i) - 1][2]), f[(n + 1 - i) - 1][1]>>
    BY <1>5, <1>7, <2>1
  <2>3. g[i + 1] = f[n + 1 - (i + 1)][1] /\ g[i + 2] = f[n + 1 - (i + 1)][2] /\ g[i] = f[n + 1 - i][1]
    BY <1>8, <2>1
  <2> QED BY <2>1, <2>2, <2>3
<1>10. g[n + 1] = << >>
  BY <1>2, <1>7
<1>11. g = [i \in 1..n + 2 |-> Body(g, i)]
  <2>1. \A i \in 1..n + 2 : g[i] = Body(g, i)
    <3> SUFFICES ASSUME NEW i \in 1..n + 2 PROVE g[i] = Body(g, i)
      OBVIOUS
    <3>1. CASE i \in 1..n
      <4>1. g[i] = Step(i, g[i + 1], g[i + 2])
        BY <1>9, <3>1
      <4>2. ~(i > Len(text))
        BY <1>1, <3>1
      <4> HIDE DEF g
      <4> QED BY <4>1, <4>2 DEF Step, PairAt, Body
    <3>2. CASE i \notin 1..n
      <4>1. i = n + 1 \/ i = n + 2
        BY <3>2
      <4>2. g[n + 2] = << >>
        OBVIOUS
      <4>3. g[i] = << >> /\ i > Len(text)
        <5> HIDE DEF g
        <5> QED BY <1>1, <1>10, <4>1, <4>2
      <4> HIDE DEF g
      <4> QED BY <4>3 DEF Body
    <3> QED BY <3>1, <3>2
  <2>2. g = [i \in 1..n + 2 |-> g[i]]
    OBVIOUS
  <2> HIDE DEF g
  <2> QED BY <2>1, <2>2
<1> DEFINE from == CHOOSE h : h = [i \in 1..n + 2 |-> Body(h, i)]
<1>12. from = [i \in 1..n + 2 |-> Body(from, i)]
  <2> HIDE DEF g
  <2>1. \E h : h = [i \in 1..n + 2 |-> Body(h, i)]
    BY <1>11
  <2> QED BY <2>1
<1>13. Replace(text, pairs) = from[1]
  BY <1>1 DEF Replace, Body
<1> HIDE DEF from, g
<1>14. Replaced(from, text, pairs)
  <2>1. \A i \in 1..n + 2 : from[i] = Body(from, i)
    BY <1>12
  <2>2. n + 1 \in 1..n + 2 /\ n + 1 > n /\ \A i \in 1..n : i \in 1..n + 2 /\ ~(i > n)
    OBVIOUS
  <2> QED BY <1>1, <2>1, <2>2 DEF Replaced, PairAt, Body
<1> QED BY <1>13, <1>14

(* The characters of the constants, and units of all forms. *)
Characters == {"x", "n", "t", "E", "U", "&", "'", "\\", "$", "\n"}

AllUnits ==
  {"x", "n", "quote", "doubled quote", "escaped quote", "escaped backslash", "newline", "backslash", "dollar"}

(* What is left of a unit when doubled quotes are replaced. *)
Halved(unit) == IF unit = "doubled quote" THEN <<"'">> ELSE Spelling(unit)

(* The lengths of spellings, and which of them begin with a quote.          *)
LEMMA Spellings ==
  ASSUME NEW unit \in AllUnits
  PROVE  /\ Spelling(unit) \in Seq(Characters) /\ Spelling(unit) # << >> /\ Len(Spelling(unit)) \in {1, 2}
         /\ Len(Spelling(unit)) = 2 <=> unit \in {"doubled quote", "escaped quote", "escaped backslash", "newline"}
         /\ Halved(unit) \in Seq(Characters) /\ Halved(unit) # << >> /\ Len(Halved(unit)) \in {1, 2}
         /\ unit = "doubled quote" => Spelling(unit)[1] = "'" /\ Spelling(unit)[2] = "'" /\ Len(Halved(unit)) = 1 /\ Halved(unit)[1] = "'"
         /\ unit # "doubled quote" => Halved(unit) = Spelling(unit) /\ (unit # "quote" => Spelling(unit)[1] # "'")
<1>1. \A c, d \in Characters :
        /\ <<c>> \in Seq(Characters) /\ <<c>> # << >> /\ Len(<<c>>) = 1 /\ <<c>>[1] = c
        /\ <<c, d>> \in Seq(Characters) /\ <<c, d>> # << >> /\ Len(<<c, d>>) = 2 /\ <<c, d>>[1] = c /\ <<c, d>>[2] = d
  OBVIOUS
<1>2. {"x", "n", "'", "\\", "$"} \subseteq Characters
  BY DEF Characters
<1>3. CASE unit \in {"x", "n"}
  BY <1>1, <1>2, <1>3 DEF Spelling, Halved
<1>4. CASE unit \in {"quote", "backslash", "dollar"}
  BY <1>1, <1>2, <1>4 DEF Spelling, Halved
<1>5. CASE unit = "doubled quote"
  BY <1>1, <1>2, <1>5 DEF Spelling, Halved
<1>6. CASE unit \in {"escaped quote", "escaped backslash", "newline"}
  BY <1>1, <1>2, <1>6 DEF Spelling, Halved
<1> QED BY <1>3, <1>4, <1>5, <1>6 DEF AllUnits

(* Replacing doubled quotes, and escapes, at a place.                       *)
LEMMA DoubledAt ==
  ASSUME NEW text \in Seq(Characters), NEW from, Replaced(from, text, Doubled), NEW i \in 1..Len(text)
  PROVE  /\ text[i] # "'" => from[i] = <<text[i]>> \o from[i + 1]
         /\ i = Len(text) => from[i] = <<text[i]>> \o from[i + 1]
         /\ i < Len(text) /\ text[i + 1] # "'" => from[i] = <<text[i]>> \o from[i + 1]
         /\ i < Len(text) /\ text[i] = "'" /\ text[i + 1] = "'" => from[i] = <<"'">> \o from[i + 2]
<1>1. PairAt(text, Doubled, i) <=> i < Len(text) /\ text[i] = "'" /\ text[i + 1] = "'"
  <2>1. PairAt(text, Doubled, i) <=> i < Len(text) /\ SubSeq(text, i, i + 1) = <<"'", "'">>
    BY DEF PairAt, Doubled
  <2>2. i < Len(text) => SubSeq(text, i, i + 1) = <<text[i], text[i + 1]>>
    BY PairOfTwo
  <2>3. \A a, b : <<a, b>> = <<"'", "'">> <=> a = "'" /\ b = "'"
    OBVIOUS
  <2> QED BY <2>1, <2>2, <2>3
<1>2. PairAt(text, Doubled, i) => Doubled[SubSeq(text, i, i + 1)] = "'"
  BY DEF PairAt, Doubled
<1>3. from[i] = IF PairAt(text, Doubled, i) THEN <<Doubled[SubSeq(text, i, i + 1)]>> \o from[i + 2]
                ELSE <<text[i]>> \o from[i + 1]
  BY DEF Replaced
<1> QED BY <1>1, <1>2, <1>3

LEMMA EscapesAt ==
  ASSUME NEW text \in Seq(Characters), NEW from, Replaced(from, text, Escapes), NEW i \in 1..Len(text)
  PROVE  /\ text[i] # "\\" => from[i] = <<text[i]>> \o from[i + 1]
         /\ i < Len(text) /\ text[i] = "\\" /\ text[i + 1] \in {"\\", "'", "n"} =>
              from[i] = <<IF text[i + 1] = "n" THEN "\n" ELSE text[i + 1]>> \o from[i + 2]
<1>1. i < Len(text) => SubSeq(text, i, i + 1) = <<text[i], text[i + 1]>>
  BY PairOfTwo
<1>2. PairAt(text, Escapes, i) => text[i] = "\\"
  BY <1>1 DEF PairAt, Escapes
<1>3. i < Len(text) /\ text[i] = "\\" /\ text[i + 1] \in {"\\", "'", "n"} =>
        /\ PairAt(text, Escapes, i)
        /\ Escapes[SubSeq(text, i, i + 1)] = IF text[i + 1] = "n" THEN "\n" ELSE text[i + 1]
  BY <1>1 DEF PairAt, Escapes
<1>4. from[i] = IF PairAt(text, Escapes, i) THEN <<Escapes[SubSeq(text, i, i + 1)]>> \o from[i + 2]
                ELSE <<text[i]>> \o from[i + 1]
  BY DEF Replaced
<1> QED BY <1>2, <1>3, <1>4

Spelled(units) == FlattenSeq([i \in DOMAIN units |-> Spelling(units[i])])
SpelledHalved(units) == FlattenSeq([i \in DOMAIN units |-> Halved(units[i])])

(* Both as rows. *)
LEMMA SpelledRows ==
  ASSUME NEW units \in Seq(AllUnits)
  PROVE  /\ Spelled(units) \in Seq(Characters)
         /\ \E pos : IsRow(pos, [i \in DOMAIN units |-> Spelling(units[i])], Spelled(units))
         /\ SpelledHalved(units) \in Seq(Characters)
         /\ \E pos : IsRow(pos, [i \in DOMAIN units |-> Halved(units[i])], SpelledHalved(units))
<1>1. PICK n \in Nat : n = Len(units) /\ DOMAIN units = 1..n /\ \A i \in 1..n : units[i] \in AllUnits
  OBVIOUS
<1>2. PICK a : a = [i \in DOMAIN units |-> Spelling(units[i])]
  OBVIOUS
<1>3. PICK b : b = [i \in DOMAIN units |-> Halved(units[i])]
  OBVIOUS
<1>4. a \in Seq(Seq(Characters)) /\ \A i \in 1..Len(a) : a[i] # << >>
  <2>1. ASSUME NEW i \in 1..n PROVE a[i] \in Seq(Characters) /\ a[i] # << >>
    <3>1. a[i] = Spelling(units[i])
      BY <1>1, <1>2
    <3>2. units[i] \in AllUnits
      BY <1>1
    <3> QED BY <3>1, <3>2, Spellings
  <2>2. a = [i \in 1..n |-> a[i]]
    BY <1>1, <1>2
  <2>3. a \in [1..n -> Seq(Characters)]
    BY <2>1, <2>2
  <2>4. Len(a) = n
    BY <2>3
  <2> QED BY <2>1, <2>3, <2>4
<1>5. b \in Seq(Seq(Characters)) /\ \A i \in 1..Len(b) : b[i] # << >>
  <2>1. ASSUME NEW i \in 1..n PROVE b[i] \in Seq(Characters) /\ b[i] # << >>
    <3>1. b[i] = Halved(units[i])
      BY <1>1, <1>3
    <3>2. units[i] \in AllUnits
      BY <1>1
    <3> QED BY <3>1, <3>2, Spellings
  <2>2. b = [i \in 1..n |-> b[i]]
    BY <1>1, <1>3
  <2>3. b \in [1..n -> Seq(Characters)]
    BY <2>1, <2>2
  <2>4. Len(b) = n
    BY <2>3
  <2> QED BY <2>1, <2>3, <2>4
<1>6. FlattenSeq(a) \in Seq(Characters) /\ \E pos : IsRow(pos, a, FlattenSeq(a))
  BY <1>4, Rows
<1>7. FlattenSeq(b) \in Seq(Characters) /\ \E pos : IsRow(pos, b, FlattenSeq(b))
  BY <1>5, Rows
<1> QED BY <1>2, <1>3, <1>6, <1>7 DEF Spelled, SpelledHalved

(* What is put in the place of a pair is a character.                       *)
LEMMA DoubledExist == \A p \in DOMAIN Doubled : Doubled[p] \in Characters
BY DEF Doubled, Characters

LEMMA EscapesExist == \A p \in DOMAIN Escapes : Escapes[p] \in Characters
BY DEF Escapes, Characters

(* Where the spelling of each unit begins in a text, and what it is there. *)
BeginsAt(pos, k, text, seq) ==
  /\ pos[k] \in 1..Len(text) /\ pos[k + 1] \in 1..Len(text) + 1 /\ pos[k + 1] = pos[k] + Len(seq)
  /\ text[pos[k]] = seq[1]
  /\ Len(seq) = 2 => pos[k] + 1 \in 1..Len(text) /\ text[pos[k] + 1] = seq[2]

LEMMA RowBegins ==
  ASSUME NEW seqs, NEW n \in Nat, Len(seqs) = n, NEW text, Len(text) \in Nat, NEW pos, IsRow(pos, seqs, text),
         NEW k \in 1..n, Len(seqs[k]) \in {1, 2}
  PROVE  BeginsAt(pos, k, text, seqs[k])
<1>1. /\ pos[k] \in 1..Len(text) /\ pos[k + 1] \in 1..Len(text) + 1 /\ pos[k + 1] = pos[k] + Len(seqs[k])
      /\ \A j \in 1..Len(seqs[k]) : text[pos[k] + j - 1] = seqs[k][j]
  BY DEF IsRow
<1>2. text[pos[k]] = seqs[k][1]
  <2>0. \A L \in {1, 2} : L \in Int /\ L >= 1
    OBVIOUS
  <2>4. \A M \in Nat : \A p \in 1..M : p \in Int
    OBVIOUS
  <2>1. pos[k] \in Int /\ Len(seqs[k]) \in Int /\ Len(seqs[k]) >= 1
    BY <1>1, <2>0, <2>4, Zenon
  <2>3. 1 \in 1..Len(seqs[k]) /\ pos[k] + 1 - 1 = pos[k]
    BY <2>1
  <2>2. text[pos[k] + 1 - 1] = seqs[k][1]
    BY <1>1, <2>3, Zenon
  <2> QED BY <2>2, <2>3
<1>3. Len(seqs[k]) = 2 => pos[k] + 1 \in 1..Len(text) /\ text[pos[k] + 1] = seqs[k][2]
  <2> SUFFICES ASSUME Len(seqs[k]) = 2 PROVE pos[k] + 1 \in 1..Len(text) /\ text[pos[k] + 1] = seqs[k][2]
    OBVIOUS
  <2>1. 2 \in 1..Len(seqs[k]) /\ pos[k] + 2 - 1 = pos[k] + 1
    BY <1>1
  <2>2. text[pos[k] + 2 - 1] = seqs[k][2]
    BY <1>1, <2>1, Zenon
  <2> QED BY <1>1, <2>1, <2>2
<1> QED BY <1>1, <1>2, <1>3 DEF BeginsAt

(* The places of the units, in both texts.                                  *)
LEMMA UnitsBegin ==
  ASSUME NEW units \in Seq(AllUnits)
  PROVE  /\ \E pos : /\ pos[1] = 1 /\ pos[Len(units) + 1] = Len(Spelled(units)) + 1
                     /\ \A k \in 1..Len(units) : BeginsAt(pos, k, Spelled(units), Spelling(units[k]))
         /\ \E pos : /\ pos[1] = 1 /\ pos[Len(units) + 1] = Len(SpelledHalved(units)) + 1
                     /\ \A k \in 1..Len(units) : BeginsAt(pos, k, SpelledHalved(units), Halved(units[k]))
<1>1. PICK n \in Nat : n = Len(units) /\ DOMAIN units = 1..n /\ \A i \in 1..n : units[i] \in AllUnits
  OBVIOUS
<1>2. PICK a : a = [i \in DOMAIN units |-> Spelling(units[i])]
  OBVIOUS
<1>3. PICK b : b = [i \in DOMAIN units |-> Halved(units[i])]
  OBVIOUS
<1>4. Len(a) = n /\ Len(b) = n /\ \A k \in 1..n : a[k] = Spelling(units[k]) /\ b[k] = Halved(units[k])
  BY <1>1, <1>2, <1>3
<1>5. \A k \in 1..n : Len(a[k]) \in {1, 2} /\ Len(b[k]) \in {1, 2}
  <2> SUFFICES ASSUME NEW k \in 1..n PROVE Len(a[k]) \in {1, 2} /\ Len(b[k]) \in {1, 2}
    OBVIOUS
  <2>1. PICK unit : unit = units[k] /\ unit \in AllUnits
    BY <1>1
  <2>2. Len(Spelling(unit)) \in {1, 2} /\ Len(Halved(unit)) \in {1, 2}
    BY <2>1, Spellings
  <2> QED BY <1>4, <2>1, <2>2
<1>6. Len(Spelled(units)) \in Nat /\ Len(SpelledHalved(units)) \in Nat
  BY SpelledRows, LenProperties
<1>7. PICK pos : IsRow(pos, a, Spelled(units))
  BY <1>2, SpelledRows
<1>8. PICK place : IsRow(place, b, SpelledHalved(units))
  BY <1>3, SpelledRows
<1>9. \A k \in 1..n : BeginsAt(pos, k, Spelled(units), Spelling(units[k]))
  <2> SUFFICES ASSUME NEW k \in 1..n PROVE BeginsAt(pos, k, Spelled(units), Spelling(units[k]))
    OBVIOUS
  <2>1. BeginsAt(pos, k, Spelled(units), a[k])
    BY <1>4, <1>5, <1>6, <1>7, RowBegins
  <2> QED BY <1>4, <2>1
<1>10. \A k \in 1..n : BeginsAt(place, k, SpelledHalved(units), Halved(units[k]))
  <2> SUFFICES ASSUME NEW k \in 1..n PROVE BeginsAt(place, k, SpelledHalved(units), Halved(units[k]))
    OBVIOUS
  <2>1. BeginsAt(place, k, SpelledHalved(units), b[k])
    BY <1>4, <1>5, <1>6, <1>8, RowBegins
  <2> QED BY <1>4, <2>1
<1>11. pos[1] = 1 /\ pos[n + 1] = Len(Spelled(units)) + 1
  BY <1>4, <1>7 DEF IsRow
<1>12. place[1] = 1 /\ place[n + 1] = Len(SpelledHalved(units)) + 1
  BY <1>4, <1>8 DEF IsRow
<1>13. \E p : /\ p[1] = 1 /\ p[n + 1] = Len(Spelled(units)) + 1
              /\ \A k \in 1..n : BeginsAt(p, k, Spelled(units), Spelling(units[k]))
  BY <1>9, <1>11
<1>14. \E p : /\ p[1] = 1 /\ p[n + 1] = Len(SpelledHalved(units)) + 1
              /\ \A k \in 1..n : BeginsAt(p, k, SpelledHalved(units), Halved(units[k]))
  BY <1>10, <1>12
<1> QED BY <1>1, <1>13, <1>14

(* One character, or two, in front of what is read from the next place. *)
LEMMA OnwardsNext ==
  ASSUME NEW s \in Seq(Characters), NEW p \in 1..Len(s)
  PROVE  /\ <<s[p]>> \o Onwards(s, p + 1) = Onwards(s, p)
         /\ p + 1 \in 1..Len(s) => <<s[p]>> \o (<<s[p + 1]>> \o Onwards(s, p + 2)) = Onwards(s, p)
<1>1. \A i \in 1..Len(s) : Onwards(s, i) = <<s[i]>> \o Onwards(s, i + 1)
  BY OnwardsElement
<1>2. (p + 1) + 1 = p + 2
  OBVIOUS
<1> QED BY <1>1, <1>2

(* Doubled quotes are read alike from where they begin and from the quote   *)
(* of an escape before them.                                                *)
HalvedFrom(from, pos, place, text, mid, k) ==
  /\ from[pos[k]] = Onwards(mid, place[k])
  /\ pos[k] > 1 /\ text[pos[k] - 1] = "'" => from[pos[k] - 1] = <<"'">> \o Onwards(mid, place[k])

(* A unit before a place where the rest has been read.                      *)
LEMMA HalvedStep ==
  ASSUME NEW text \in Seq(Characters), NEW mid \in Seq(Characters), NEW from, Replaced(from, text, Doubled),
         NEW unit \in AllUnits \ {"quote"},
         NEW pos, NEW place, NEW k \in Nat,
         BeginsAt(pos, k, text, Spelling(unit)), BeginsAt(place, k, mid, Halved(unit)),
         HalvedFrom(from, pos, place, text, mid, k + 1)
  PROVE  HalvedFrom(from, pos, place, text, mid, k)
<1>1. PICK p, q, c : p = pos[k] /\ q = place[k] /\ c = Spelling(unit)[1]
  OBVIOUS
<1>2. /\ p \in 1..Len(text) /\ text[p] = c /\ q \in 1..Len(mid) /\ Len(text) \in Nat /\ Len(mid) \in Nat
      /\ pos[k + 1] = p + Len(Spelling(unit)) /\ pos[k + 1] \in 1..Len(text) + 1 /\ place[k + 1] = q + Len(Halved(unit))
  BY <1>1 DEF BeginsAt
<1>3. HalvedFrom(from, pos, place, text, mid, k + 1)
  OBVIOUS
<1>4. CASE unit = "doubled quote"
  <2>1. Len(Spelling(unit)) = 2 /\ Spelling(unit)[2] = "'" /\ c = "'" /\ Len(Halved(unit)) = 1 /\ Halved(unit)[1] = "'"
    BY <1>1, <1>4, Spellings
  <2>2. /\ pos[k + 1] = p + 2 /\ place[k + 1] = q + 1 /\ text[p] = "'" /\ text[p + 1] = "'" /\ mid[q] = "'"
        /\ p + 1 \in 1..Len(text)
    BY <1>1, <1>2, <2>1 DEF BeginsAt
  <2>3. Onwards(mid, q) = <<"'">> \o Onwards(mid, q + 1)
    BY <1>2, <2>2, OnwardsNext
  <2>4. from[p] = Onwards(mid, q)
    <3>0. p < Len(text)
      BY <1>2, <2>2
    <3>1. from[p] = <<"'">> \o from[p + 2]
      BY <1>2, <2>2, <3>0, DoubledAt
    <3> QED BY <1>3, <2>2, <2>3, <3>1 DEF HalvedFrom
  <2>5. ASSUME p > 1, text[p - 1] = "'" PROVE from[p - 1] = <<"'">> \o Onwards(mid, q)
    <3>1. p - 1 \in 1..Len(text) /\ p - 1 < Len(text) /\ (p - 1) + 1 = p /\ (p - 1) + 2 = p + 1 /\ (p + 2) - 1 = p + 1 /\ p + 2 > 1
      BY <1>2, <2>5
    <3>2. from[p - 1] = <<"'">> \o from[p + 1]
      <4>1. text[(p - 1) + 1] = "'"
        BY <2>2, <3>1
      <4>2. PICK i : i = p - 1
        OBVIOUS
      <4>3. i \in 1..Len(text) /\ i < Len(text) /\ text[i] = "'" /\ text[i + 1] = "'" /\ i + 2 = p + 1
        BY <2>5, <3>1, <4>1, <4>2
      <4>4. from[i] = <<"'">> \o from[i + 2]
        BY <4>3, DoubledAt
      <4> QED BY <4>2, <4>3, <4>4
    <3>3. from[p + 1] = <<"'">> \o Onwards(mid, q + 1)
      BY <1>3, <2>2, <3>1 DEF HalvedFrom
    <3> QED BY <2>3, <3>2, <3>3
  <2> QED BY <1>1, <2>4, <2>5 DEF HalvedFrom
<1>5. CASE unit # "doubled quote"
  <2>1. Halved(unit) = Spelling(unit) /\ c # "'" /\ Len(Spelling(unit)) \in {1, 2}
    BY <1>1, <1>5, Spellings
  <2>2. mid[q] = c /\ place[k + 1] = q + Len(Spelling(unit))
    BY <1>1, <1>2, <2>1 DEF BeginsAt
  <2>3. from[p] = <<c>> \o from[p + 1]
    BY <1>2, <2>1, DoubledAt
  <2>4. from[p] = Onwards(mid, q)
    <3>1. CASE Len(Spelling(unit)) = 1
      <4>1. from[p + 1] = Onwards(mid, q + 1)
        BY <1>2, <1>3, <2>2, <3>1 DEF HalvedFrom
      <4>2. <<mid[q]>> \o Onwards(mid, q + 1) = Onwards(mid, q)
        BY <1>2, OnwardsNext
      <4> QED BY <2>2, <2>3, <4>1, <4>2
    <3>2. CASE Len(Spelling(unit)) = 2
      <4>1. PICK d : d = Spelling(unit)[2]
        OBVIOUS
      <4>2. p + 1 \in 1..Len(text) /\ text[p + 1] = d /\ q + 1 \in 1..Len(mid) /\ mid[q + 1] = d
        BY <1>1, <2>1, <3>2, <4>1 DEF BeginsAt
      <4>3. from[p + 2] = Onwards(mid, q + 2)
        BY <1>2, <1>3, <2>2, <3>2 DEF HalvedFrom
      <4>4. from[p + 1] = <<d>> \o Onwards(mid, q + 2)
        <5>1. CASE d = "'"
          <6>1. (p + 2) - 1 = p + 1 /\ p + 2 > 1 /\ pos[k + 1] = p + 2 /\ place[k + 1] = q + 2
            BY <1>2, <2>2, <3>2
          <6> QED BY <1>3, <4>2, <5>1, <6>1 DEF HalvedFrom
        <5>2. CASE d # "'"
          <6>1. from[p + 1] = <<d>> \o from[(p + 1) + 1]
            <7>1. \A i \in 1..Len(text) : text[i] # "'" => from[i] = <<text[i]>> \o from[i + 1]
              BY DoubledAt
            <7> QED BY <4>2, <5>2, <7>1
          <6>2. (p + 1) + 1 = p + 2
            BY <1>2
          <6> QED BY <4>3, <6>1, <6>2
        <5> QED BY <5>1, <5>2
      <4>5. <<mid[q]>> \o (<<mid[q + 1]>> \o Onwards(mid, q + 2)) = Onwards(mid, q)
        BY <1>2, <4>2, OnwardsNext
      <4> QED BY <2>2, <2>3, <4>2, <4>4, <4>5
    <3> QED BY <2>1, <3>1, <3>2
  <2>5. ASSUME p > 1, text[p - 1] = "'" PROVE from[p - 1] = <<"'">> \o Onwards(mid, q)
    <3>1. p - 1 \in 1..Len(text) /\ p - 1 < Len(text) /\ (p - 1) + 1 = p
      BY <1>2, <2>5
    <3>2. text[(p - 1) + 1] # "'"
      BY <1>2, <2>1, <3>1
    <3>3. from[p - 1] = <<text[p - 1]>> \o from[(p - 1) + 1]
      BY <3>1, <3>2, DoubledAt
    <3> QED BY <2>4, <2>5, <3>1, <3>3
  <2> QED BY <1>1, <2>4, <2>5 DEF HalvedFrom
<1> QED BY <1>4, <1>5

(* DecodeSingleQuoted halves the doubled quotes and nothing else.           *)
LEMMA DoubledReplaced ==
  ASSUME NEW units \in Seq(AllUnits \ {"quote"})
  PROVE  Replace(Spelled(units), Doubled) = SpelledHalved(units)
<1>1. PICK text, mid : text = Spelled(units) /\ mid = SpelledHalved(units)
  OBVIOUS
<1>2. PICK n \in Nat : n = Len(units) /\ \A k \in 1..n : units[k] \in AllUnits \ {"quote"}
  OBVIOUS
<1>3. units \in Seq(AllUnits)
  OBVIOUS
<1>4. text \in Seq(Characters) /\ mid \in Seq(Characters)
  BY <1>1, <1>3, SpelledRows
<1>5. PICK pos : pos[1] = 1 /\ pos[n + 1] = Len(text) + 1 /\ \A k \in 1..n : BeginsAt(pos, k, text, Spelling(units[k]))
  BY <1>1, <1>2, <1>3, UnitsBegin
<1>6. PICK place : place[1] = 1 /\ place[n + 1] = Len(mid) + 1 /\ \A k \in 1..n : BeginsAt(place, k, mid, Halved(units[k]))
  BY <1>1, <1>2, <1>3, UnitsBegin
<1>7. PICK from : Replaced(from, text, Doubled) /\ Replace(text, Doubled) = from[1]
  BY <1>4, DoubledExist, ReplaceReads
<1> DEFINE S == {k \in 1..n + 1 : HalvedFrom(from, pos, place, text, mid, k)}
<1>8. n + 1 \in S
  <2>1. from[Len(text) + 1] = << >> /\ Onwards(mid, Len(mid) + 1) = << >>
    BY <1>4, <1>7, OnwardsEnds DEF Replaced
  <2>2. ASSUME Len(text) + 1 > 1, text[(Len(text) + 1) - 1] = "'" PROVE from[(Len(text) + 1) - 1] = <<"'">> \o << >>
    <3>1. Len(text) \in 1..Len(text) /\ (Len(text) + 1) - 1 = Len(text)
      BY <1>4, <2>2
    <3>2. from[Len(text)] = <<text[Len(text)]>> \o from[Len(text) + 1]
      BY <1>4, <1>7, <3>1, DoubledAt
    <3> QED BY <2>1, <2>2, <3>1, <3>2
  <2>3. HalvedFrom(from, pos, place, text, mid, n + 1)
    BY <1>5, <1>6, <2>1, <2>2 DEF HalvedFrom
  <2> QED BY <1>2, <2>3
<1>9. \A k \in 1..n : k + 1 \in S => k \in S
  <2> SUFFICES ASSUME NEW k \in 1..n, k + 1 \in S PROVE k \in S
    OBVIOUS
  <2>1. PICK unit : unit = units[k] /\ unit \in AllUnits \ {"quote"}
    BY <1>2
  <2>2. BeginsAt(pos, k, text, Spelling(unit)) /\ BeginsAt(place, k, mid, Halved(unit))
    BY <1>5, <1>6, <2>1
  <2>3. HalvedFrom(from, pos, place, text, mid, k)
    BY <1>4, <1>7, <2>1, <2>2, HalvedStep
  <2>4. k \in 1..n + 1
    BY <1>2
  <2> QED BY <2>3, <2>4
<1>10. 1 \in S
  <2> HIDE DEF S
  <2>1. S \in SUBSET (1..n + 1)
    BY DEF S
  <2>2. S = 1..n + 1
    BY <1>8, <1>9, <2>1, Backwards
  <2> QED BY <1>2, <2>2
<1>11. from[1] = Onwards(mid, 1)
  BY <1>5, <1>6, <1>10 DEF HalvedFrom
<1> QED BY <1>1, <1>4, <1>7, <1>11, OnwardsEnds

(* The character a unit stands for. *)
Stands(unit) ==
  CASE unit \in {"quote", "doubled quote", "escaped quote"} -> "'"
    [] unit \in {"backslash", "escaped backslash"} -> "\\"
    [] unit = "newline" -> "\n"
    [] unit = "dollar" -> "$"
    [] OTHER -> unit

MeaningOf(units) == [i \in DOMAIN units |-> Stands(units[i])]

(* How the characters that units stand for are spelled.                     *)
LEMMA StandsFor ==
  ASSUME NEW unit \in AllUnits
  PROVE  /\ Stands(unit) \in Characters
         /\ unit \in {"x", "n", "quote", "doubled quote", "backslash", "dollar"} => Halved(unit) = <<Stands(unit)>>
         /\ unit \in {"x", "n", "quote", "backslash", "dollar"} => Spelling(unit) = <<Stands(unit)>>
         /\ unit \in {"x", "n", "doubled quote"} => Stands(unit) # "\\"
         /\ unit \in {"escaped quote", "escaped backslash", "newline"} =>
              /\ Len(Halved(unit)) = 2 /\ Halved(unit)[1] = "\\" /\ Halved(unit)[2] \in {"\\", "'", "n"}
              /\ Stands(unit) = IF Halved(unit)[2] = "n" THEN "\n" ELSE Halved(unit)[2]
<1>1. \A c, d \in Characters : Len(<<c, d>>) = 2 /\ <<c, d>>[1] = c /\ <<c, d>>[2] = d
  OBVIOUS
<1>2. {"x", "n", "'", "\\", "$", "\n"} \subseteq Characters
  BY DEF Characters
<1>3. CASE unit \in {"x", "n"}
  BY <1>2, <1>3 DEF Spelling, Halved, Stands
<1>4. CASE unit \in {"quote", "backslash", "dollar", "doubled quote"}
  BY <1>2, <1>4 DEF Spelling, Halved, Stands
<1>5. CASE unit = "escaped quote"
  BY <1>1, <1>2, <1>5 DEF Spelling, Halved, Stands
<1>6. CASE unit = "escaped backslash"
  BY <1>1, <1>2, <1>6 DEF Spelling, Halved, Stands
<1>7. CASE unit = "newline"
  BY <1>1, <1>2, <1>7 DEF Spelling, Halved, Stands
<1> QED BY <1>3, <1>4, <1>5, <1>6, <1>7 DEF AllUnits

(* The meaning has one character for each unit.                             *)
LEMMA MeaningList ==
  ASSUME NEW units \in Seq(AllUnits)
  PROVE  /\ MeaningOf(units) \in Seq(Characters) /\ Len(MeaningOf(units)) = Len(units)
         /\ \A k \in 1..Len(units) : MeaningOf(units)[k] = Stands(units[k])
<1>1. PICK n \in Nat : n = Len(units) /\ DOMAIN units = 1..n /\ \A i \in 1..n : units[i] \in AllUnits
  OBVIOUS
<1>2. PICK m : m = MeaningOf(units)
  OBVIOUS
<1>3. m = [i \in 1..n |-> m[i]] /\ \A i \in 1..n : m[i] = Stands(units[i])
  BY <1>1, <1>2 DEF MeaningOf
<1>4. \A i \in 1..n : m[i] \in Characters
  <2> SUFFICES ASSUME NEW i \in 1..n PROVE m[i] \in Characters
    OBVIOUS
  <2>1. PICK unit : unit = units[i] /\ unit \in AllUnits
    BY <1>1
  <2> QED BY <1>3, <2>1, StandsFor
<1>5. m \in [1..n -> Characters]
  BY <1>3, <1>4
<1> QED BY <1>1, <1>2, <1>3, <1>5

(* Replacing the escapes of a text of which doubled quotes are replaced.    *)
LEMMA EscapeStep ==
  ASSUME NEW mid \in Seq(Characters), NEW m \in Seq(Characters), NEW from, Replaced(from, mid, Escapes),
         NEW unit \in AllUnits \ {"quote", "backslash", "dollar"}, NEW place, NEW k \in 1..Len(m),
         BeginsAt(place, k, mid, Halved(unit)), m[k] = Stands(unit),
         from[place[k + 1]] = Onwards(m, k + 1)
  PROVE  from[place[k]] = Onwards(m, k)
<1>1. PICK q : q = place[k]
  OBVIOUS
<1>2. q \in 1..Len(mid) /\ mid[q] = Halved(unit)[1] /\ place[k + 1] = q + Len(Halved(unit)) /\ Len(mid) \in Nat
  BY <1>1 DEF BeginsAt
<1>3. <<m[k]>> \o Onwards(m, k + 1) = Onwards(m, k)
  BY OnwardsNext
<1>4. CASE unit \in {"x", "n", "doubled quote"}
  <2>1. Halved(unit) = <<m[k]>> /\ m[k] # "\\"
    BY <1>4, StandsFor
  <2>2. mid[q] = m[k] /\ place[k + 1] = q + 1
    BY <1>2, <2>1
  <2>3. from[q] = <<m[k]>> \o from[q + 1]
    BY <1>2, <2>1, <2>2, EscapesAt
  <2> QED BY <1>1, <1>3, <2>2, <2>3
<1>5. CASE unit \in {"escaped quote", "escaped backslash", "newline"}
  <2>1. /\ Len(Halved(unit)) = 2 /\ Halved(unit)[1] = "\\" /\ Halved(unit)[2] \in {"\\", "'", "n"}
        /\ m[k] = IF Halved(unit)[2] = "n" THEN "\n" ELSE Halved(unit)[2]
    BY <1>5, StandsFor
  <2>2. mid[q] = "\\" /\ mid[q + 1] = Halved(unit)[2] /\ place[k + 1] = q + 2 /\ q + 1 \in 1..Len(mid)
    BY <1>1, <1>2, <2>1 DEF BeginsAt
  <2>3. q < Len(mid)
    BY <1>2, <2>2
  <2>4. from[q] = <<m[k]>> \o from[q + 2]
    <3>1. PICK d : d = mid[q + 1]
      OBVIOUS
    <3>2. d \in {"\\", "'", "n"} /\ m[k] = IF d = "n" THEN "\n" ELSE d
      BY <2>1, <2>2, <3>1
    <3>3. from[q] = <<IF d = "n" THEN "\n" ELSE d>> \o from[q + 2]
      BY <1>2, <2>2, <2>3, <3>1, <3>2, EscapesAt
    <3> QED BY <3>2, <3>3
  <2> QED BY <1>1, <1>3, <2>2, <2>4
<1> QED BY <1>4, <1>5 DEF AllUnits

(* Then DecodeEscaped leaves the meaning.                                   *)
LEMMA EscapesReplaced ==
  ASSUME NEW units \in Seq(AllUnits \ {"quote", "backslash", "dollar"})
  PROVE  Replace(SpelledHalved(units), Escapes) = MeaningOf(units)
<1>1. PICK mid, m : mid = SpelledHalved(units) /\ m = MeaningOf(units)
  OBVIOUS
<1>2. PICK n \in Nat : n = Len(units) /\ \A k \in 1..n : units[k] \in AllUnits \ {"quote", "backslash", "dollar"}
  OBVIOUS
<1>3. units \in Seq(AllUnits)
  OBVIOUS
<1>4. /\ mid \in Seq(Characters) /\ m \in Seq(Characters) /\ Len(m) = n
      /\ \A k \in 1..n : m[k] = Stands(units[k])
  BY <1>1, <1>2, <1>3, SpelledRows, MeaningList
<1>6. PICK place : place[1] = 1 /\ place[n + 1] = Len(mid) + 1 /\ \A k \in 1..n : BeginsAt(place, k, mid, Halved(units[k]))
  BY <1>1, <1>2, <1>3, UnitsBegin
<1>7. PICK from : Replaced(from, mid, Escapes) /\ Replace(mid, Escapes) = from[1]
  BY <1>4, EscapesExist, ReplaceReads
<1> DEFINE S == {k \in 1..n + 1 : from[place[k]] = Onwards(m, k)}
<1>8. n + 1 \in S
  <2>1. from[Len(mid) + 1] = << >> /\ Onwards(m, Len(m) + 1) = << >>
    BY <1>4, <1>7, OnwardsEnds DEF Replaced
  <2> QED BY <1>2, <1>4, <1>6, <2>1
<1>9. \A k \in 1..n : k + 1 \in S => k \in S
  <2> SUFFICES ASSUME NEW k \in 1..n, k + 1 \in S PROVE k \in S
    OBVIOUS
  <2>1. PICK unit : unit = units[k] /\ unit \in AllUnits \ {"quote", "backslash", "dollar"}
    BY <1>2
  <2>2. BeginsAt(place, k, mid, Halved(unit)) /\ m[k] = Stands(unit) /\ k \in 1..Len(m)
    BY <1>4, <1>6, <2>1
  <2>3. from[place[k]] = Onwards(m, k)
    BY <1>4, <1>7, <2>1, <2>2, EscapeStep
  <2>4. k \in 1..n + 1
    BY <1>2
  <2> QED BY <2>3, <2>4
<1>10. 1 \in S
  <2> HIDE DEF S
  <2>1. S \in SUBSET (1..n + 1)
    BY DEF S
  <2>2. S = 1..n + 1
    BY <1>8, <1>9, <2>1, Backwards
  <2> QED BY <1>2, <2>2
<1>11. from[1] = Onwards(m, 1)
  BY <1>6, <1>10
<1> QED BY <1>1, <1>4, <1>7, <1>11, OnwardsEnds

(* Units of one character each are the meaning.                             *)
LEMMA SinglesMean ==
  ASSUME NEW units \in Seq(AllUnits), NEW text \in Seq(Characters), NEW pos, pos[1] = 1, pos[Len(units) + 1] = Len(text) + 1,
         \A k \in 1..Len(units) : BeginsAt(pos, k, text, <<Stands(units[k])>>)
  PROVE  text = MeaningOf(units)
<1>1. PICK n \in Nat : n = Len(units)
  OBVIOUS
<1>2. \A k \in 1..n : pos[k + 1] = pos[k] + 1 /\ text[pos[k]] = Stands(units[k])
  BY <1>1 DEF BeginsAt
<1> DEFINE Bad == {k \in 1..n + 1 : pos[k] # k}
<1>3. Bad = {}
  <2> SUFFICES ASSUME Bad # {} PROVE FALSE
    OBVIOUS
  <2>1. PICK k : k \in Bad /\ \A y \in Bad : k <= y
    <3>1. Bad \in SUBSET (1..n + 1) /\ n + 1 \in Nat
      OBVIOUS
    <3> HIDE DEF Bad
    <3> QED BY <3>1, MinOfIndices
  <2>2. k - 1 \in 1..n /\ (k - 1) + 1 = k /\ ~(k <= k - 1)
    BY <2>1
  <2>3. pos[k - 1] = k - 1
    BY <2>1, <2>2
  <2>4. pos[(k - 1) + 1] = pos[k - 1] + 1
    BY <1>2, <2>2
  <2> QED BY <2>1, <2>2, <2>3, <2>4
<1>4. \A k \in 1..n + 1 : pos[k] = k
  BY <1>3
<1>5. Len(text) = n
  <2>1. n + 1 \in 1..n + 1 /\ pos[n + 1] = Len(text) + 1 /\ Len(text) \in Nat
    BY <1>1
  <2> QED BY <1>4, <2>1
<1>6. PICK m : m = MeaningOf(units) /\ m \in Seq(Characters) /\ Len(m) = n /\ \A k \in 1..n : m[k] = Stands(units[k])
  BY <1>1, MeaningList
<1>7. \A k \in 1..n : text[k] = m[k]
  <2> SUFFICES ASSUME NEW k \in 1..n PROVE text[k] = m[k]
    OBVIOUS
  <2>1. k \in 1..n + 1
    OBVIOUS
  <2> QED BY <1>2, <1>4, <1>6, <2>1
<1> QED BY <1>5, <1>6, <1>7, SeqEqual

(* Without escapes, halved quotes are the meaning; between dollars, the text is. *)
LEMMA HalvedMean ==
  ASSUME NEW units \in Seq({"x", "n", "doubled quote", "backslash"})
  PROVE  SpelledHalved(units) = MeaningOf(units)
<1>1. units \in Seq(AllUnits) /\ \A k \in 1..Len(units) : units[k] \in {"x", "n", "doubled quote", "backslash"}
  <2>1. {"x", "n", "doubled quote", "backslash"} \subseteq AllUnits
    BY DEF AllUnits
  <2> QED BY <2>1, InLarger
<1>2. PICK place : /\ place[1] = 1 /\ place[Len(units) + 1] = Len(SpelledHalved(units)) + 1
                   /\ \A k \in 1..Len(units) : BeginsAt(place, k, SpelledHalved(units), Halved(units[k]))
  BY <1>1, UnitsBegin
<1>3. \A k \in 1..Len(units) : Halved(units[k]) = <<Stands(units[k])>>
  BY <1>1, StandsFor DEF AllUnits
<1>4. SpelledHalved(units) \in Seq(Characters)
  BY <1>1, SpelledRows
<1> QED BY <1>1, <1>2, <1>3, <1>4, SinglesMean

LEMMA SpelledMean ==
  ASSUME NEW units \in Seq({"x", "n", "quote", "backslash", "dollar"})
  PROVE  Spelled(units) = MeaningOf(units)
<1>1. units \in Seq(AllUnits) /\ \A k \in 1..Len(units) : units[k] \in {"x", "n", "quote", "backslash", "dollar"}
  <2>1. {"x", "n", "quote", "backslash", "dollar"} \subseteq AllUnits
    BY DEF AllUnits
  <2> QED BY <2>1, InLarger
<1>2. PICK pos : /\ pos[1] = 1 /\ pos[Len(units) + 1] = Len(Spelled(units)) + 1
                 /\ \A k \in 1..Len(units) : BeginsAt(pos, k, Spelled(units), Spelling(units[k]))
  BY <1>1, UnitsBegin
<1>3. \A k \in 1..Len(units) : Spelling(units[k]) = <<Stands(units[k])>>
  BY <1>1, StandsFor DEF AllUnits
<1>4. Spelled(units) \in Seq(Characters)
  BY <1>1, SpelledRows
<1> QED BY <1>1, <1>2, <1>3, <1>4, SinglesMean

-------------------------------------------------------------------------------
(* What decodeCommentText makes of each form of literal.                   *)

(* What is between two quotes. *)
Quoted(body) == <<"'">> \o body \o <<"'">>

LEMMA QuotedText ==
  ASSUME NEW body \in Seq(Characters)
  PROVE  /\ Quoted(body) \in Seq(Characters) /\ Len(Quoted(body)) = Len(body) + 2 /\ Quoted(body)[1] = "'"
         /\ IsSingleQuoted(Quoted(body)) /\ Inner(Quoted(body), 1) = body
<1>1. PICK q, a : q = Quoted(body) /\ a = <<"'">>
  OBVIOUS
<1>2. "'" \in Characters
  BY DEF Characters
<1>3. a \in Seq(Characters) /\ Len(a) = 1 /\ a[1] = "'"
  BY <1>1, <1>2, ShortTexts
<1>4. q = a \o body \o a
  BY <1>1 DEF Quoted
<1>5. /\ q \in Seq(Characters) /\ Len(q) = Len(a) + Len(body) + Len(a)
      /\ \A i \in 1..Len(a) : q[i] = a[i]
      /\ \A i \in 1..Len(a) : q[Len(a) + Len(body) + i] = a[i]
      /\ SubSeq(q, Len(a) + 1, Len(q) - Len(a)) = body
  <2>1. IsBetween(q, a, body, a, Characters)
    BY <1>3, <1>4, Between
  <2> QED BY <2>1 DEF IsBetween
<1>6. PICK n \in Nat : n = Len(body)
  OBVIOUS
<1>7. Len(q) = n + 2 /\ 1 + n + 1 = n + 2 /\ 1 \in 1..1
  BY <1>3, <1>5, <1>6
<1>8. q[1] = "'" /\ q[n + 2] = "'"
  BY <1>3, <1>5, <1>6, <1>7
<1>9. IsSingleQuoted(q)
  BY <1>7, <1>8 DEF IsSingleQuoted, Last
<1>10. Inner(q, 1) = body
  BY <1>3, <1>5 DEF Inner
<1> QED BY <1>1, <1>5, <1>6, <1>7, <1>8, <1>9, <1>10

(* A body between quotes.                                                   *)
LEMMA QuotedDecoded ==
  ASSUME NEW units \in Seq(AllUnits \ {"quote"})
  PROVE  /\ DecodeSingleQuoted(Quoted(Spelled(units))) = SpelledHalved(units)
         /\ Spelled(units) \in Seq(Characters)
<1>1. units \in Seq(AllUnits)
  OBVIOUS
<1>2. Spelled(units) \in Seq(Characters)
  BY <1>1, SpelledRows
<1>3. Inner(Quoted(Spelled(units)), 1) = Spelled(units)
  BY <1>2, QuotedText
<1> QED BY <1>2, <1>3, DoubledReplaced DEF DecodeSingleQuoted

(* Which case of DecodeCommentText a text falls under. *)
LEMMA Cases ==
  ASSUME NEW text \in Seq(Characters), Len(text) >= 2
  PROVE  /\ text # <<"NULL">>
         /\ IsPrefix(<<"E", "'">>, text) <=> text[1] = "E" /\ text[2] = "'"
         /\ IsPrefix(<<"U", "&", "'">>, text) => text[1] = "U"
         /\ Len(text) >= 3 /\ text[1] = "U" /\ text[2] = "&" /\ text[3] = "'" => IsPrefix(<<"U", "&", "'">>, text)
         /\ IsSingleQuoted(text) => text[1] = "'"
<1>1. {"E", "U", "&", "'"} \subseteq Characters
  BY DEF Characters
<1>2. PICK n \in Nat : n = Len(text)
  OBVIOUS
<1>3. text # <<"NULL">>
  <2>1. Len(<<"NULL">>) = 1
    OBVIOUS
  <2>2. Len(text) # 1
    BY <1>2
  <2> QED BY <2>1, <2>2
<1>4. PICK a, b : a = <<"E", "'">> /\ b = <<"U", "&", "'">>
  OBVIOUS
<1>5. /\ a \in Seq(Characters) /\ Len(a) = 2 /\ a[1] = "E" /\ a[2] = "'"
      /\ b \in Seq(Characters) /\ Len(b) = 3 /\ b[1] = "U" /\ b[2] = "&" /\ b[3] = "'"
  BY <1>1, <1>4, ShortTexts
<1>6. IsPrefix(a, text) <=> text[1] = "E" /\ text[2] = "'"
  <2>1. IsPrefix(a, text) <=> Len(a) <= Len(text) /\ \A i \in 1..Len(a) : a[i] = text[i]
    BY <1>5, PrefixElements
  <2>2. 1..Len(a) = {1, 2} /\ Len(a) <= Len(text)
    BY <1>2, <1>5
  <2> QED BY <1>5, <2>1, <2>2
<1>7. IsPrefix(b, text) <=> Len(text) >= 3 /\ text[1] = "U" /\ text[2] = "&" /\ text[3] = "'"
  <2>1. IsPrefix(b, text) <=> Len(b) <= Len(text) /\ \A i \in 1..Len(b) : b[i] = text[i]
    BY <1>5, PrefixElements
  <2>2. 1..Len(b) = {1, 2, 3} /\ (Len(b) <= Len(text) <=> Len(text) >= 3)
    BY <1>2, <1>5
  <2> QED BY <1>5, <2>1, <2>2
<1>8. IsSingleQuoted(text) => text[1] = "'"
  BY DEF IsSingleQuoted
<1> QED BY <1>3, <1>4, <1>6, <1>7, <1>8

PlainUnits == {"x", "n", "doubled quote", "backslash"}

(* Plain constants, and those of E'' and U&''.                              *)
LEMMA PlainDecoded ==
  ASSUME NEW units \in Seq(PlainUnits)
  PROVE  DecodeCommentText(Quoted(Spelled(units))) = MeaningOf(units)
<1>1. units \in Seq(AllUnits \ {"quote"})
  <2>1. PICK S, T : S = PlainUnits /\ T = AllUnits \ {"quote"}
    OBVIOUS
  <2>2. S \subseteq T
    BY <2>1 DEF AllUnits, PlainUnits
  <2>3. units \in Seq(S)
    BY <2>1
  <2>4. units \in Seq(T)
    BY <2>2, <2>3, InLarger
  <2> QED BY <2>1, <2>4
<1>2. PICK text : text = Quoted(Spelled(units))
  OBVIOUS
<1>3. DecodeSingleQuoted(text) = MeaningOf(units) /\ Spelled(units) \in Seq(Characters)
  BY <1>1, <1>2, QuotedDecoded, HalvedMean DEF PlainUnits
<1>4. text \in Seq(Characters) /\ Len(text) >= 2 /\ text[1] = "'" /\ IsSingleQuoted(text)
  <2>1. PICK n \in Nat : n = Len(Spelled(units))
    BY <1>3, LenProperties
  <2>2. Len(text) = n + 2
    BY <1>2, <1>3, <2>1, QuotedText
  <2>4. n + 2 >= 2
    BY <2>1
  <2>3. Len(text) >= 2
    BY <2>2, <2>4
  <2> QED BY <1>2, <1>3, <2>3, QuotedText
<1>5. text # <<"NULL">> /\ ~IsPrefix(<<"E", "'">>, text) /\ ~IsPrefix(<<"U", "&", "'">>, text) /\ text[1] # "$"
  BY <1>4, Cases
<1>6. DecodeCommentText(text) = DecodeSingleQuoted(text)
  BY <1>4, <1>5 DEF DecodeCommentText
<1> QED BY <1>2, <1>3, <1>6

LEMMA SomeCharacters ==
  "E" \in Characters /\ "U" \in Characters /\ "&" \in Characters /\ "'" \in Characters /\ "$" \in Characters /\ "t" \in Characters
BY DEF Characters

LEMMA EscapeDecoded ==
  ASSUME NEW units \in Seq(AllUnits \ {"quote", "backslash", "dollar"})
  PROVE  DecodeCommentText(<<"E">> \o Quoted(Spelled(units))) = MeaningOf(units)
<1>1. units \in Seq(AllUnits \ {"quote"})
  <2>1. PICK S, T : S = AllUnits \ {"quote", "backslash", "dollar"} /\ T = AllUnits \ {"quote"} /\ S \subseteq T
    OBVIOUS
  <2> QED BY <2>1, InLarger
<1>2. PICK q, text : q = Quoted(Spelled(units)) /\ text = <<"E">> \o q
  OBVIOUS
<1>3. Spelled(units) \in Seq(Characters) /\ DecodeSingleQuoted(q) = SpelledHalved(units)
  BY <1>1, <1>2, QuotedDecoded
<1>4. q \in Seq(Characters) /\ Len(q) = Len(Spelled(units)) + 2 /\ q[1] = "'" /\ IsSingleQuoted(q)
  BY <1>2, <1>3, QuotedText
<1>5. PICK n \in Nat : n = Len(Spelled(units)) /\ Len(q) = n + 2
  BY <1>3, <1>4, LenProperties
<1>6. /\ text \in Seq(Characters) /\ Tail(text) = q /\ Len(text) = Len(q) + 1 /\ text[1] = "E"
      /\ \A i \in 1..Len(q) : text[i + 1] = q[i]
  BY <1>2, <1>4, SomeCharacters, TailOf
<1>7. Len(text) >= 2 /\ 1 \in 1..Len(q) /\ 1 + 1 = 2
  BY <1>5, <1>6
<1>8. text[2] = "'"
  BY <1>4, <1>6, <1>7
<1>9. text # <<"NULL">> /\ IsPrefix(<<"E", "'">>, text) /\ ~IsPrefix(<<"U", "&", "'">>, text) /\ ~IsSingleQuoted(text) /\ text[1] # "$"
  BY <1>6, <1>7, <1>8, Cases
<1>10. DecodeCommentText(text) = DecodeEscaped(text)
  BY <1>4, <1>6, <1>9 DEF DecodeCommentText
<1>11. DecodeEscaped(text) = Replace(SpelledHalved(units), Escapes)
  BY <1>3, <1>6 DEF DecodeEscaped
<1>12. Replace(SpelledHalved(units), Escapes) = MeaningOf(units)
  BY EscapesReplaced
<1> QED BY <1>2, <1>10, <1>11, <1>12

LEMMA UnicodeDecoded ==
  ASSUME NEW units \in Seq(PlainUnits)
  PROVE  DecodeCommentText(<<"U">> \o (<<"&">> \o Quoted(Spelled(units)))) = MeaningOf(units)
<1>1. units \in Seq(AllUnits \ {"quote"})
  <2>1. PICK S, T : S = PlainUnits /\ T = AllUnits \ {"quote"}
    OBVIOUS
  <2>2. S \subseteq T
    BY <2>1 DEF AllUnits, PlainUnits
  <2>3. units \in Seq(S)
    BY <2>1
  <2>4. units \in Seq(T)
    BY <2>2, <2>3, InLarger
  <2> QED BY <2>1, <2>4
<1>2. PICK q, r, text : q = Quoted(Spelled(units)) /\ r = <<"&">> \o q /\ text = <<"U">> \o r
  OBVIOUS
<1>3. Spelled(units) \in Seq(Characters) /\ DecodeSingleQuoted(q) = MeaningOf(units)
  BY <1>1, <1>2, QuotedDecoded, HalvedMean DEF PlainUnits
<1>4. q \in Seq(Characters) /\ Len(q) = Len(Spelled(units)) + 2 /\ q[1] = "'" /\ IsSingleQuoted(q)
  BY <1>2, <1>3, QuotedText
<1>5. PICK n \in Nat : n = Len(Spelled(units)) /\ Len(q) = n + 2
  BY <1>3, <1>4, LenProperties
<1>6. /\ r \in Seq(Characters) /\ Tail(r) = q /\ Len(r) = Len(q) + 1 /\ r[1] = "&"
      /\ \A i \in 1..Len(q) : r[i + 1] = q[i]
  BY <1>2, <1>4, SomeCharacters, TailOf
<1>7. /\ text \in Seq(Characters) /\ Tail(text) = r /\ Len(text) = Len(r) + 1 /\ text[1] = "U"
      /\ \A i \in 1..Len(r) : text[i + 1] = r[i]
  BY <1>2, <1>6, SomeCharacters, TailOf
<1>8. Len(text) >= 3 /\ 1 \in 1..Len(q) /\ 1 + 1 = 2 /\ 1 \in 1..Len(r) /\ 2 \in 1..Len(r) /\ 2 + 1 = 3 /\ Len(text) >= 2
  BY <1>5, <1>6, <1>7
<1>9. text[2] = "&" /\ text[3] = "'"
  BY <1>4, <1>6, <1>7, <1>8
<1>10. text # <<"NULL">> /\ ~IsPrefix(<<"E", "'">>, text) /\ IsPrefix(<<"U", "&", "'">>, text) /\ ~IsSingleQuoted(text) /\ text[1] # "$"
  BY <1>7, <1>8, <1>9, Cases
<1>11. DecodeCommentText(text) = DecodeSingleQuoted(q)
  BY <1>4, <1>6, <1>7, <1>10 DEF DecodeCommentText
<1> QED BY <1>2, <1>3, <1>11

(* Dollars, with or without a tag between them.                             *)
LEMMA DollarsDecoded ==
  ASSUME NEW d \in {<<"$", "$">>, <<"$", "t", "$">>}, NEW body \in Seq(Characters)
  PROVE  DecodeCommentText(d \o body \o d) = body
<1>1. /\ d \in Seq(Characters) /\ Len(d) \in {2, 3} /\ d[1] = "$" /\ d[Len(d)] = "$"
      /\ \A i \in 2..Len(d) : d[i] = "$" => i = Len(d)
  <2>1. CASE d = <<"$", "$">>
    BY <2>1, SomeCharacters
  <2>2. CASE d = <<"$", "t", "$">>
    BY <2>2, SomeCharacters
  <2> QED BY <2>1, <2>2
<1>2. PICK text : text = d \o body \o d
  OBVIOUS
<1>3. IsBetween(text, d, body, d, Characters)
  BY <1>1, <1>2, Between
<1>4. PICK k \in {2, 3}, n \in Nat : k = Len(d) /\ n = Len(body)
  BY <1>1, LenProperties
<1>5. /\ text \in Seq(Characters) /\ Len(text) = k + n + k
      /\ \A i \in 1..k : text[i] = d[i]
      /\ \A i \in 1..k : text[k + n + i] = d[i]
      /\ SubSeq(text, k + 1, Len(text) - k) = body
  BY <1>3, <1>4 DEF IsBetween
<1>6. Delimiter(text) = d
  <2>1. PICK S : S = {i \in 2..Len(text) : text[i] = "$"}
    OBVIOUS
  <2>2. k \in S
    <3>1. k \in 1..k /\ k \in 2..Len(text)
      BY <1>4, <1>5
    <3>2. text[k] = "$"
      BY <1>1, <1>4, <1>5, <3>1
    <3> QED BY <2>1, <3>1, <3>2
  <2>3. S \in SUBSET (1..Len(text)) /\ Len(text) \in Nat
    BY <1>4, <1>5, <2>1
  <2>4. Min(S) \in S /\ \A y \in S : Min(S) <= y
    BY <2>2, <2>3, MinOfIndices
  <2>5. PICK m : m = Min(S)
    OBVIOUS
  <2>6. m = k
    <3>1. m \in 2..Len(text) /\ text[m] = "$" /\ m <= k
      BY <2>1, <2>2, <2>4, <2>5
    <3>2. m \in 1..k /\ m \in 2..k
      BY <1>4, <3>1
    <3>3. d[m] = "$"
      BY <1>5, <3>1, <3>2
    <3> QED BY <1>1, <1>4, <3>2, <3>3
  <2>7. SubSeq(text, 1, k) = d
    <3>1. PICK s : s = SubSeq(text, 1, k)
      OBVIOUS
    <3>2. k \in Nat /\ 1 <= k /\ k <= Len(text)
      BY <1>4, <1>5
    <3>3. s \in Seq(Characters) /\ Len(s) = k /\ \A i \in 1..k : s[i] = text[i]
      BY <1>5, <3>1, <3>2
    <3>4. \A i \in 1..k : s[i] = d[i]
      BY <1>5, <3>3
    <3> QED BY <1>1, <1>4, <3>1, <3>3, <3>4, SeqEqual
  <2> QED BY <2>1, <2>5, <2>6, <2>7 DEF Delimiter
<1>7. IsSuffix(d, text)
  <2>1. Len(text) = (k + n) + Len(d) /\ k + n \in Nat /\ \A i \in 1..Len(d) : text[(k + n) + i] = d[i]
    BY <1>4, <1>5
  <2> QED BY <1>1, <1>5, <2>1, SuffixElements
<1>8. Len(text) >= 2 * Len(d) /\ Len(text) >= 2
  BY <1>4, <1>5
<1>9. text[1] = "$"
  <2>1. 1 \in 1..k
    BY <1>4
  <2> QED BY <1>1, <1>5, <2>1
<1>10. text # <<"NULL">> /\ ~IsPrefix(<<"E", "'">>, text) /\ ~IsPrefix(<<"U", "&", "'">>, text) /\ ~IsSingleQuoted(text)
  BY <1>5, <1>8, <1>9, Cases
<1>11. DecodeCommentText(text) = Inner(text, Len(d))
  BY <1>6, <1>7, <1>8, <1>9, <1>10 DEF DecodeCommentText
<1> QED BY <1>2, <1>4, <1>5, <1>11 DEF Inner

(* COMMENT ... IS NULL.                                                     *)
LEMMA NullDecoded == DecodeCommentText(<<"NULL">>) = << >>
<1>1. PICK text : text = <<"NULL">>
  OBVIOUS
<1>2. Len(text) = 1 /\ text[1] = "NULL"
  BY <1>1
<1>3. ~IsPrefix(<<"E", "'">>, text) /\ ~IsPrefix(<<"U", "&", "'">>, text) /\ ~IsSingleQuoted(text) /\ text[1] # "$"
  <2>1. PICK a : a = <<"E", "'">>
    OBVIOUS
  <2>2. PICK b : b = <<"U", "&", "'">>
    OBVIOUS
  <2>5. Len(a) = 2 /\ Len(b) = 3
    BY <2>1, <2>2, SomeCharacters, ShortTexts
  <2>3. ~(Len(a) <= Len(text)) /\ ~(Len(b) <= Len(text)) /\ ~(Len(text) >= 2) /\ text[1] # "$"
    BY <1>2, <2>5
  <2>4. ~IsPrefix(a, text) /\ ~IsPrefix(b, text)
    BY <2>3 DEF IsPrefix
  <2> QED BY <1>2, <2>1, <2>2, <2>3, <2>4 DEF IsSingleQuoted
<1>4. DecodeCommentText(text) = << >>
  BY <1>1, <1>3 DEF DecodeCommentText
<1> QED BY <1>1, <1>4

(* The units of the forms. *)
LEMMA UnitsOfForms ==
  /\ Unit("plain") \subseteq PlainUnits /\ Unit("unicode") \subseteq PlainUnits
  /\ Unit("escape") \subseteq AllUnits \ {"quote", "backslash", "dollar"}
  /\ Unit("dollar") \subseteq {"x", "n", "quote", "backslash", "dollar"}
  /\ Unit("tagged") \subseteq {"x", "n", "quote", "backslash", "dollar"}
BY DEF Unit, PlainUnits, AllUnits

(* These and the units of a literal are lists of units.                     *)
LEMMA InUnits ==
  /\ \A units \in Seq(PlainUnits) : units \in Seq(AllUnits)
  /\ \A units \in Seq(AllUnits \ {"quote", "backslash", "dollar"}) : units \in Seq(AllUnits)
<1>1. PlainUnits \subseteq AllUnits
  BY DEF PlainUnits, AllUnits
<1>2. PICK S : S = AllUnits \ {"quote", "backslash", "dollar"}
  OBVIOUS
<1>3. S \subseteq AllUnits
  BY <1>2
<1> QED BY <1>1, <1>2, <1>3, InLarger

LEMMA UnitsListed ==
  ASSUME NEW n \in Nat, NEW l \in Literals(n)
  PROVE  l.form \in Forms /\ l.units \in Seq(Unit(l.form))
<1>1. PICK form \in Forms : l \in [form : {form}, units : SeqOf(Unit(form), n)]
  BY DEF Literals
<1>2. l.form = form /\ l.units \in SeqOf(Unit(form), n)
  BY <1>1
<1>3. PICK m \in 0..n : l.units \in [1..m -> Unit(form)]
  BY <1>2 DEF SeqOf
<1>4. l.units \in Seq(Unit(form))
  BY <1>3
<1> QED BY <1>2, <1>4

LEMMA TextOfLiteral ==
  ASSUME NEW l, l # Null, NEW units, l.units = units
  PROVE  LiteralText(l) = Opening(l.form) \o Spelled(units) \o Closing(l.form) /\ Meaning(l) = MeaningOf(units)
<1>1. LiteralText(l) = Opening(l.form) \o Spelled(units) \o Closing(l.form)
  BY DEF LiteralText, Spelled
<1>2. Meaning(l) = MeaningOf(units)
  BY DEF Meaning, MeaningOf, Stands
<1> QED BY <1>1, <1>2

(* A letter before the quote. *)
LEMMA LetterBefore ==
  ASSUME NEW c \in Characters, NEW body \in Seq(Characters)
  PROVE  <<c, "'">> \o body \o <<"'">> = <<c>> \o Quoted(body)
<1>1. PICK q, s, t : q = <<"'">> /\ s = <<c>> /\ t = Quoted(body)
  OBVIOUS
<1>2. q \in Seq(Characters) /\ s \in Seq(Characters)
  BY <1>1, SomeCharacters, ShortTexts
<1>3. <<c, "'">> = s \o q
  BY <1>1
<1>4. t = q \o body \o q
  BY <1>1 DEF Quoted
<1>5. s \o q \o body \o q = s \o (q \o body \o q)
  <2>1. PICK before, after : before = s \o q /\ after = q \o body
    OBVIOUS
  <2> QED BY <1>2, <2>1, Regrouped
<1> QED BY <1>1, <1>3, <1>4, <1>5

LEMMA LettersBefore ==
  ASSUME NEW c \in Characters, NEW d \in Characters, NEW body \in Seq(Characters)
  PROVE  <<c, d, "'">> \o body \o <<"'">> = <<c>> \o (<<d>> \o Quoted(body))
<1>1. PICK q, s, o : q = <<"'">> /\ s = <<c>> /\ o = <<d, "'">>
  OBVIOUS
<1>2. q \in Seq(Characters) /\ s \in Seq(Characters) /\ o \in Seq(Characters)
  BY <1>1, SomeCharacters, ShortTexts
<1>3. <<c, d, "'">> = s \o o
  BY <1>1
<1>4. o \o body \o q = <<d>> \o Quoted(body)
  BY <1>1, LetterBefore
<1>5. s \o o \o body \o q = s \o (o \o body \o q)
  <2>1. PICK before, after : before = s \o o /\ after = o \o body
    OBVIOUS
  <2> QED BY <1>2, <2>1, Regrouped
<1> QED BY <1>1, <1>3, <1>4, <1>5

(* Whatever its form, a literal is decoded to its meaning.                  *)
LEMMA LiteralDecoded ==
  ASSUME NEW n \in Nat, NEW l \in Literals(n) \cup {Null}
  PROVE  DecodeCommentText(LiteralText(l)) = Meaning(l)
<1>1. CASE l = Null
  <2>1. LiteralText(l) = <<"NULL">>
    BY <1>1 DEF LiteralText
  <2>2. Meaning(l) = << >>
    <3>1. l.units = << >>
      BY <1>1 DEF Null
    <3>2. Meaning(l) = MeaningOf(<< >>)
      BY <3>1 DEF Meaning, MeaningOf, Stands
    <3>3. MeaningOf(<< >>) = << >>
      BY DEF MeaningOf
    <3> QED BY <3>2, <3>3
  <2> QED BY <2>1, <2>2, NullDecoded
<1>2. CASE l \in Literals(n)
  <2>1. PICK form, units, text : form = l.form /\ units = l.units /\ text = LiteralText(l)
    OBVIOUS
  <2>2. form \in Forms /\ units \in Seq(Unit(form))
    BY <1>2, <2>1, UnitsListed
  <2>3. l # Null
    BY <2>1, <2>2 DEF Forms, Null
  <2>4. text = Opening(form) \o Spelled(units) \o Closing(form) /\ Meaning(l) = MeaningOf(units)
    BY <2>1, <2>3, TextOfLiteral
  <2>5. CASE form = "plain"
    <3>1. units \in Seq(PlainUnits)
      BY <2>2, <2>5, UnitsOfForms, InLarger
    <3>2. text = Quoted(Spelled(units))
      BY <2>4, <2>5 DEF Quoted, Opening, Closing
    <3> QED BY <2>1, <2>4, <3>1, <3>2, PlainDecoded
  <2>6. CASE form = "escape"
    <3>1. units \in Seq(AllUnits \ {"quote", "backslash", "dollar"})
      BY <2>2, <2>6, UnitsOfForms, InLarger
    <3>2. text = <<"E", "'">> \o Spelled(units) \o <<"'">>
      BY <2>4, <2>6 DEF Opening, Closing
    <3>3. Spelled(units) \in Seq(Characters)
      BY <3>1, InUnits, SpelledRows
    <3>4. text = <<"E">> \o Quoted(Spelled(units))
      BY <3>2, <3>3, SomeCharacters, LetterBefore
    <3> QED BY <2>1, <2>4, <3>1, <3>4, EscapeDecoded
  <2>7. CASE form = "unicode"
    <3>1. units \in Seq(PlainUnits)
      BY <2>2, <2>7, UnitsOfForms, InLarger
    <3>2. text = <<"U", "&", "'">> \o Spelled(units) \o <<"'">>
      BY <2>4, <2>7 DEF Opening, Closing
    <3>3. Spelled(units) \in Seq(Characters)
      BY <3>1, InUnits, SpelledRows
    <3>4. text = <<"U">> \o (<<"&">> \o Quoted(Spelled(units)))
      BY <3>2, <3>3, SomeCharacters, LettersBefore
    <3> QED BY <2>1, <2>4, <3>1, <3>4, UnicodeDecoded
  <2>8. CASE form \in {"dollar", "tagged"}
    <3>1. PICK S : S = {"x", "n", "quote", "backslash", "dollar"}
      OBVIOUS
    <3>2. units \in Seq(S) /\ S \subseteq AllUnits
      BY <2>2, <2>8, <3>1, UnitsOfForms, InLarger DEF AllUnits
    <3>3. Spelled(units) \in Seq(Characters)
      BY <3>2, InLarger, SpelledRows
    <3>4. Spelled(units) = MeaningOf(units)
      BY <3>1, <3>2, SpelledMean
    <3>5. PICK d \in {<<"$", "$">>, <<"$", "t", "$">>} : d = Opening(form) /\ d = Closing(form)
      BY <2>8 DEF Opening, Closing
    <3>6. DecodeCommentText(d \o Spelled(units) \o d) = Spelled(units)
      BY <3>3, DollarsDecoded
    <3> QED BY <2>1, <2>4, <3>4, <3>5, <3>6
  <2> QED BY <2>2, <2>5, <2>6, <2>7, <2>8 DEF Forms
<1> QED BY <1>1, <1>2

-------------------------------------------------------------------------------
(* splitQuotedDot gives the identifiers of a name back.                    *)

(* splitQuotedDot's variables. *)
States(E) == [parts : Seq(Seq(E)), part : Seq(E), inQuote : BOOLEAN]

Start == [parts |-> << >>, part |-> << >>, inQuote |-> FALSE]

HasRead(s, parts, part, inQuote) == s.parts = parts /\ s.part = part /\ s.inQuote = inQuote

(* A character ends a part, or belongs to it.                               *)
LEMMA CharacterRead ==
  ASSUME NEW E, NEW s \in States(E), NEW ch \in E
  PROVE  /\ ReadName(s, ch) \in States(E)
         /\ ch = "." /\ s.inQuote = FALSE => HasRead(ReadName(s, ch), Append(s.parts, s.part), << >>, FALSE)
         /\ ch # "." \/ s.inQuote = TRUE =>
              HasRead(ReadName(s, ch), s.parts, Append(s.part, ch), IF ch = "\"" THEN ~s.inQuote ELSE s.inQuote)
<1>1. /\ s = [parts |-> s.parts, part |-> s.part, inQuote |-> s.inQuote]
      /\ s.parts \in Seq(Seq(E)) /\ s.part \in Seq(E) /\ s.inQuote \in BOOLEAN
  BY DEF States
<1>2. PICK longer, more, r : longer = Append(s.parts, s.part) /\ more = Append(s.part, ch) /\ r = ReadName(s, ch)
  OBVIOUS
<1>3. longer \in Seq(Seq(E)) /\ more \in Seq(E) /\ << >> \in Seq(E)
  BY <1>1, <1>2
<1>4. CASE ch = "." /\ s.inQuote = FALSE
  <2>1. r = [parts |-> longer, part |-> << >>, inQuote |-> s.inQuote]
    BY <1>1, <1>2, <1>4 DEF ReadName
  <2>2. r \in States(E)
    BY <1>1, <1>3, <2>1 DEF States
  <2>3. HasRead(r, longer, << >>, FALSE)
    BY <1>4, <2>1 DEF HasRead
  <2> QED BY <1>2, <1>4, <2>2, <2>3
<1>5. CASE ch # "." \/ s.inQuote = TRUE
  <2>1. PICK q \in BOOLEAN : q = IF ch = "\"" THEN ~s.inQuote ELSE s.inQuote
    BY <1>1
  <2>2. r = [parts |-> s.parts, part |-> more, inQuote |-> q]
    BY <1>1, <1>2, <1>5, <2>1 DEF ReadName
  <2>3. r \in States(E)
    BY <1>1, <1>3, <2>1, <2>2 DEF States
  <2>4. HasRead(r, s.parts, more, q)
    BY <2>2 DEF HasRead
  <2>5. ~(ch = "." /\ s.inQuote = FALSE)
    BY <1>5
  <2> QED BY <1>2, <2>1, <2>3, <2>4, <2>5
<1> QED BY <1>1, <1>4, <1>5

LEMMA StatesStay ==
  ASSUME NEW E
  PROVE  Start \in States(E) /\ \A s \in States(E), ch \in E : ReadName(s, ch) \in States(E)
<1>1. << >> \in Seq(Seq(E)) /\ << >> \in Seq(E) /\ FALSE \in BOOLEAN
  OBVIOUS
<1>2. Start \in States(E)
  BY <1>1 DEF States, Start
<1>3. ASSUME NEW s \in States(E), NEW ch \in E PROVE ReadName(s, ch) \in States(E)
  BY CharacterRead
<1> QED BY <1>2, <1>3

IsReading(f, n, text) ==
  f = [i \in 0..n |-> IF i = 0 THEN [parts |-> << >>, part |-> << >>, inQuote |-> FALSE] ELSE ReadName(f[i - 1], text[i])]

(* The loop is a recursion on the characters.                               *)
LEMMA ReadingExists ==
  ASSUME NEW E, NEW text \in Seq(E), NEW n \in Nat, n = Len(text)
  PROVE  \E f : IsReading(f, n, text)
<1> DEFINE T == States(E)
           G == [p \in (1..n) \X T |-> ReadName(p[2], text[p[1]])]
<1>1. \A k \in 1..n, x \in T : ReadName(x, text[k]) \in T
  <2>1. \A k \in 1..n : text[k] \in E
    OBVIOUS
  <2> QED BY <2>1, StatesStay
<1>2. PICK base : base = Start /\ base \in T
  BY StatesStay
<1> HIDE DEF T
<1>3. G \in [(1..n) \X T -> T] /\ \A k \in 1..n, x \in T : G[<<k, x>>] = ReadName(x, text[k])
  BY <1>1
<1> HIDE DEF G
<1>4. PICK f : IsRecursion(f, n, base, G) /\ Iterates(f, n, base, G, T)
  BY <1>2, <1>3, Iterated
<1>5. f[0] = base /\ \A k \in 1..n : f[k - 1] \in T /\ f[k] = G[<<k, f[k - 1]>>]
  BY <1>4 DEF Iterates
<1> DEFINE Step(k) == IF k = 0 THEN [parts |-> << >>, part |-> << >>, inQuote |-> FALSE] ELSE ReadName(f[k - 1], text[k])
<1>6. \A k \in 0..n : f[k] = Step(k)
  <2>1. \A k \in 0..n : k = 0 \/ k \in 1..n
    OBVIOUS
  <2>2. \A k \in 1..n : k # 0
    OBVIOUS
  <2>3. Step(0) = Start
    BY DEF Start
  <2>4. \A k \in 1..n : Step(k) = ReadName(f[k - 1], text[k])
    BY <2>2
  <2>5. \A k \in 1..n : f[k] = ReadName(f[k - 1], text[k])
    BY <1>3, <1>5
  <2> HIDE DEF Step
  <2> QED BY <1>2, <1>5, <2>1, <2>3, <2>4, <2>5
<1>7. f = [k \in 0..n |-> f[k]]
  BY <1>4 DEF IsRecursion
<1>8. f = [k \in 0..n |-> Step(k)]
  <2> HIDE DEF Step
  <2> QED BY <1>6, <1>7
<1> QED BY <1>8 DEF IsReading

(* What the loop does with the characters of a text. *)
Loops(f, text, n, E) ==
  /\ HasRead(f[0], << >>, << >>, FALSE) /\ \A k \in 0..n : f[k] \in States(E)
  /\ \A k \in 1..n : f[k] = ReadName(f[k - 1], text[k])

LEMMA NameReads ==
  ASSUME NEW E, NEW text \in Seq(E), NEW n \in Nat, n = Len(text)
  PROVE  \E f : Loops(f, text, n, E) /\ SplitQuotedDot(text) = Append(f[n].parts, f[n].part)
<1> DEFINE Computes(f) == f = [i \in 0..Len(text) |-> IF i = 0 THEN [parts |-> << >>, part |-> << >>, inQuote |-> FALSE]
                                                      ELSE ReadName(f[i - 1], text[i])]
           Def == CHOOSE f : Computes(f)
<1>1. SplitQuotedDot(text) = Append(Def[n].parts, Def[n].part)
  BY DEF SplitQuotedDot
<1>2. \E f : Computes(f)
  <2>1. PICK f : IsReading(f, n, text)
    BY ReadingExists
  <2> QED BY <2>1 DEF IsReading
<1>3. IsReading(Def, n, text)
  <2>1. Computes(Def)
    <3> HIDE DEF Computes
    <3> QED BY <1>2
  <2> HIDE DEF Def
  <2> QED BY <2>1 DEF IsReading
<1> HIDE DEF Def
<1>4. PICK f : f = Def
  OBVIOUS
<1>5. f[0] = Start
  BY <1>3, <1>4, 0 \in 0..n DEF IsReading, Start
<1>6. \A k \in 1..n : f[k] = ReadName(f[k - 1], text[k])
  <2>1. \A k \in 1..n : k \in 0..n /\ k # 0
    OBVIOUS
  <2> QED BY <1>3, <1>4, <2>1 DEF IsReading
<1>7. \A k \in 0..n : f[k] \in States(E)
  <2> DEFINE S == {k \in 0..n : f[k] \in States(E)}
  <2>1. 0 \in S
    BY <1>5, StatesStay
  <2>2. \A k \in 1..n : k - 1 \in S => k \in S
    <3>1. \A k \in 1..n : text[k] \in E /\ k \in 0..n
      OBVIOUS
    <3> QED BY <1>6, <3>1, StatesStay
  <2>3. \A k \in 0..n : k \in S
    <3> HIDE DEF S
    <3> QED BY <2>1, <2>2, Forwards
  <2> QED BY <2>3
<1>8. HasRead(f[0], << >>, << >>, FALSE)
  BY <1>5 DEF HasRead, Start
<1>9. Loops(f, text, n, E)
  BY <1>6, <1>7, <1>8 DEF Loops
<1> QED BY <1>1, <1>4, <1>9

(* The characters of an identifier go to one part. *)
LEMMA IdentifierRead ==
  ASSUME NEW E, NEW id \in Seq(E), IsIdentifier(id), NEW m \in Nat, m = Len(id), NEW g, NEW parts,
         \A k \in 0..m : g[k] \in States(E), \A k \in 1..m : g[k] = ReadName(g[k - 1], id[k]),
         HasRead(g[0], parts, << >>, FALSE)
  PROVE  HasRead(g[m], parts, id, FALSE)
<1>1. PICK inQuotes \in [0..m -> BOOLEAN] :
        /\ ~inQuotes[0] /\ ~inQuotes[m]
        /\ \A i \in 1..m : /\ inQuotes[i] = IF id[i] = "\"" THEN ~inQuotes[i - 1] ELSE inQuotes[i - 1]
                           /\ id[i] = "." => inQuotes[i - 1]
  BY DEF IsIdentifier
<1> DEFINE S == {k \in 0..m : HasRead(g[k], parts, SubSeq(id, 1, k), inQuotes[k])}
<1> DEFINE value(k) == inQuotes[k]
<1>6. value(0) = FALSE /\ value(m) = FALSE
  <2>1. inQuotes[0] \in BOOLEAN /\ inQuotes[m] \in BOOLEAN
    OBVIOUS
  <2>2. \A v \in BOOLEAN : ~v => v = FALSE
    OBVIOUS
  <2> QED BY <1>1, <2>1, <2>2, Zenon
<1>2. 0 \in S
  <2>1. SubSeq(id, 1, 0) = << >> /\ 0 \in 0..m
    BY OneLonger
  <2>2. HasRead(g[0], parts, SubSeq(id, 1, 0), inQuotes[0])
    BY <1>6, <2>1, Zenon
  <2> QED BY <2>1, <2>2
<1>3. ASSUME NEW k \in 1..m, k - 1 \in S PROVE k \in S
  <2>1. PICK s, ch, q, part : s = g[k - 1] /\ ch = id[k] /\ q = inQuotes[k - 1] /\ part = SubSeq(id, 1, k - 1)
    BY Zenon
  <2>2. k - 1 \in 0..m /\ k \in 0..m /\ ch \in E
    BY <2>1
  <2>3. s \in States(E) /\ q \in BOOLEAN /\ HasRead(s, parts, part, q)
    BY <1>1, <1>3, <2>1, <2>2
  <2>4. ch # "." \/ q = TRUE
    <3>1. id[k] = "." => inQuotes[k - 1]
      BY <1>1
    <3>2. \A v \in BOOLEAN : v => v = TRUE
      OBVIOUS
    <3> QED BY <2>1, <2>3, <3>1, <3>2, Zenon
  <2>5. HasRead(ReadName(s, ch), parts, Append(part, ch), IF ch = "\"" THEN ~q ELSE q)
    <3>1. s.parts = parts /\ s.part = part /\ s.inQuote = q
      BY <2>3 DEF HasRead
    <3>2. ch # "." \/ s.inQuote = TRUE
      BY <2>4, <3>1
    <3>3. HasRead(ReadName(s, ch), s.parts, Append(s.part, ch), IF ch = "\"" THEN ~s.inQuote ELSE s.inQuote)
      BY <2>2, <2>3, <3>2, CharacterRead
    <3> QED BY <3>1, <3>3, Zenon
  <2>6. g[k] = ReadName(s, ch) /\ Append(part, ch) = SubSeq(id, 1, k) /\ inQuotes[k] = IF ch = "\"" THEN ~q ELSE q
    BY <1>1, <2>1, OneLonger
  <2> QED BY <2>2, <2>5, <2>6
<1>4. m \in S
  <2>1. \A k \in 1..m : k - 1 \in S => k \in S
    BY <1>3
  <2> HIDE DEF S
  <2>2. \A k \in 0..m : k \in S
    BY <1>2, <2>1, Forwards
  <2> QED BY <2>2
<1>5. SubSeq(id, 1, m) = id /\ inQuotes[m] = FALSE
  <2>1. SubSeq(id, 1, m) = id
    BY OneLonger
  <2> QED BY <1>6, <2>1, Zenon
<1>7. HasRead(g[m], parts, SubSeq(id, 1, m), inQuotes[m])
  BY <1>4
<1> QED BY <1>5, <1>7, Zenon

(* A sequence stands after p characters of a text.                          *)
StandsAt(seq, text, p) == \A k \in 1..Len(seq) : text[p + k] = seq[k]

(* The same at a place of a text. *)
LEMMA IdentifierAt ==
  ASSUME NEW E, NEW id \in Seq(E), IsIdentifier(id), NEW m \in Nat, m = Len(id), NEW n \in Nat, NEW p \in Nat, p + m <= n,
         NEW text, StandsAt(id, text, p), NEW f, Loops(f, text, n, E), NEW parts, HasRead(f[p], parts, << >>, FALSE)
  PROVE  HasRead(f[p + m], parts, id, FALSE)
<1>1. PICK g : g = [k \in 0..m |-> f[p + k]]
  OBVIOUS
<1>2. g[0] = f[p] /\ g[m] = f[p + m] /\ \A k \in 0..m : g[k] = f[p + k] /\ p + k \in 0..n
  BY <1>1
<1>3. \A k \in 0..m : g[k] \in States(E)
  BY <1>2 DEF Loops
<1>4. \A k \in 1..m : g[k] = ReadName(g[k - 1], id[k])
  <2> SUFFICES ASSUME NEW k \in 1..m PROVE g[k] = ReadName(g[k - 1], id[k])
    OBVIOUS
  <2>1. p + k \in 1..n /\ (p + k) - 1 = p + (k - 1) /\ k - 1 \in 0..m /\ k \in 0..m
    OBVIOUS
  <2>2. f[p + k] = ReadName(f[(p + k) - 1], text[p + k])
    BY <2>1 DEF Loops
  <2>3. text[p + k] = id[k]
    BY DEF StandsAt
  <2> QED BY <1>2, <2>1, <2>2, <2>3
<1> QED BY <1>2, <1>3, <1>4, IdentifierRead

(* Identifiers are not empty.                                               *)
LEMMA IdentifierCharacters ==
  ASSUME NEW text, IsIdentifier(text)
  PROVE  text # << >>
BY DEF IsIdentifier

(* The identifiers of a name with the dots before them. *)
Chunk(ids, i) == IF i = 1 THEN ids[i] ELSE <<".">> \o ids[i]

IsName(ids, E) == ids \in Seq(Seq(E)) /\ ids # << >> /\ "." \in E /\ \A i \in 1..Len(ids) : IsIdentifier(ids[i])

(* The text of a name is the row of these.                                  *)
LEMMA NameRow ==
  ASSUME NEW E, NEW ids, IsName(ids, E)
  PROVE  /\ NameText(ids) \in Seq(E)
         /\ \E pos : IsRow(pos, [i \in DOMAIN ids |-> Chunk(ids, i)], NameText(ids))
<1>1. PICK n \in Nat : n = Len(ids) /\ DOMAIN ids = 1..n
  BY DEF IsName
<1>2. PICK chunks : chunks = [i \in 1..n |-> Chunk(ids, i)]
  OBVIOUS
<1>3. \A i \in 1..n : ids[i] \in Seq(E) /\ ids[i] # << >>
  BY <1>1, IdentifierCharacters DEF IsName
<1>4. \A i \in 1..n : Chunk(ids, i) \in Seq(E) /\ Chunk(ids, i) # << >>
  <2> SUFFICES ASSUME NEW i \in 1..n PROVE Chunk(ids, i) \in Seq(E) /\ Chunk(ids, i) # << >>
    OBVIOUS
  <2>1. PICK id, c : id = ids[i] /\ c = <<".">> \o id
    OBVIOUS
  <2>2. id \in Seq(E) /\ id # << >> /\ "." \in E
    BY <1>3, <2>1 DEF IsName
  <2>3. c \in Seq(E) /\ Len(c) = Len(id) + 1
    BY <2>1, <2>2, TailOf
  <2>4. Len(id) \in Nat /\ Len(id) + 1 # 0
    BY <2>2
  <2>5. c # << >>
    BY <2>3, <2>4
  <2> QED BY <2>1, <2>2, <2>3, <2>5 DEF Chunk
<1>5. chunks \in Seq(Seq(E)) /\ Len(chunks) = n /\ \A i \in 1..n : chunks[i] # << >>
  BY <1>2, <1>4
<1>6. NameText(ids) = FlattenSeq(chunks)
  BY <1>1, <1>2 DEF NameText, Chunk
<1>7. FlattenSeq(chunks) \in Seq(E) /\ \E pos : IsRow(pos, chunks, FlattenSeq(chunks))
  BY <1>5, Rows
<1> QED BY <1>1, <1>2, <1>6, <1>7

(* What has been read before identifier i ends. *)
ReadUpTo(f, pos, ids, i) == HasRead(f[pos[i + 1] - 1], SubSeq(ids, 1, i - 1), ids[i], FALSE)

(* The first identifier, and then one after another.                        *)
LEMMA FirstRead ==
  ASSUME NEW E, NEW ids, IsName(ids, E), NEW n \in Nat, n = Len(ids), NEW text \in Seq(E), NEW m \in Nat, m = Len(text),
         NEW pos, IsRow(pos, [i \in 1..n |-> Chunk(ids, i)], text),
         NEW f, Loops(f, text, m, E)
  PROVE  ReadUpTo(f, pos, ids, 1)
<1>1. PICK id : id = ids[1] /\ id \in Seq(E) /\ IsIdentifier(id) /\ 1 \in 1..n
  BY DEF IsName
<1>2. PICK l \in Nat : l = Len(id)
  BY <1>1
<1>3. /\ pos[1] = 1 /\ pos[1 + 1] \in 1..m + 1 /\ pos[1 + 1] = 1 + l
      /\ \A k \in 1..l : text[1 + k - 1] = id[k]
  <2>1. PICK chunks : chunks = [i \in 1..n |-> Chunk(ids, i)]
    OBVIOUS
  <2>2. Len(chunks) = n /\ chunks[1] = id
    BY <1>1, <2>1 DEF Chunk
  <2>3. IsRow(pos, chunks, text)
    BY <2>1
  <2>4. pos[1] = 1
    BY <2>3 DEF IsRow
  <2> QED BY <1>1, <1>2, <2>2, <2>3, <2>4, RowAt DEF Occupies
<1>4. 0 + l <= m /\ pos[1 + 1] - 1 = 0 + l
  BY <1>3
<1>5. \A k \in 1..l : text[0 + k] = id[k]
  <2>1. \A k \in 1..l : 0 + k = 1 + k - 1
    OBVIOUS
  <2> QED BY <1>3, <2>1
<1>8. StandsAt(id, text, 0) /\ HasRead(f[0], << >>, << >>, FALSE) /\ 0 \in Nat
  BY <1>2, <1>5 DEF StandsAt, Loops
<1>6. HasRead(f[0 + l], << >>, id, FALSE)
  BY <1>1, <1>2, <1>4, <1>8, IdentifierAt
<1>7. SubSeq(ids, 1, 1 - 1) = << >>
  BY OneLonger DEF IsName
<1> QED BY <1>1, <1>4, <1>6, <1>7 DEF ReadUpTo

LEMMA NextRead ==
  ASSUME NEW E, NEW ids, IsName(ids, E), NEW n \in Nat, n = Len(ids), NEW text \in Seq(E), NEW m \in Nat, m = Len(text),
         NEW pos, IsRow(pos, [i \in 1..n |-> Chunk(ids, i)], text),
         NEW f, Loops(f, text, m, E),
         NEW i \in 2..n, ReadUpTo(f, pos, ids, i - 1)
  PROVE  ReadUpTo(f, pos, ids, i)
<1>1. PICK id : id = ids[i] /\ id \in Seq(E) /\ IsIdentifier(id) /\ i \in 1..n /\ i - 1 \in 1..n /\ (i - 1) + 1 = i /\ i # 1
  BY DEF IsName
<1>2. PICK l \in Nat : l = Len(id)
  BY <1>1
<1>3. PICK p \in Nat : pos[i] = p /\ p # 0
  <2>1. Len([k \in 1..n |-> Chunk(ids, k)]) = n
    OBVIOUS
  <2>2. pos[i] \in 1..Len(text)
    BY <1>1, <2>1 DEF IsRow
  <2> QED BY <2>2
<1>11. PICK c : c = <<".">> \o id
  OBVIOUS
<1>4. Len(c) = l + 1 /\ c[1] = "." /\ \A k \in 1..l : c[k + 1] = id[k]
  <2>1. "." \in E
    BY DEF IsName
  <2> QED BY <1>1, <1>2, <1>11, <2>1, TailOf
<1>5. p \in 1..m /\ pos[i + 1] \in 1..m + 1 /\ pos[i + 1] = p + (l + 1) /\ \A k \in 1..l + 1 : text[p + k - 1] = c[k]
  <2>1. PICK chunks : chunks = [k \in 1..n |-> Chunk(ids, k)]
    OBVIOUS
  <2>2. Len(chunks) = n /\ chunks[i] = c
    BY <1>1, <1>11, <2>1 DEF Chunk
  <2>3. IsRow(pos, chunks, text)
    BY <2>1
  <2>4. PICK k \in Nat : k = l + 1
    OBVIOUS
  <2>5. Len(c) = k
    BY <1>4, <2>4
  <2>6. /\ pos[i] \in 1..m /\ pos[i + 1] \in 1..m + 1 /\ pos[i + 1] = pos[i] + k
        /\ \A j \in 1..k : text[pos[i] + j - 1] = c[j]
    <3>1. PICK h \in 1..n : h = i
      OBVIOUS
    <3>2. c = chunks[h] /\ Len(c) = k
      BY <2>2, <2>5, <3>1
    <3>3. Occupies(pos, h, text, m, c, k)
      BY <2>2, <2>3, <3>2, RowAt
    <3> QED BY <3>1, <3>3 DEF Occupies
  <2> QED BY <1>3, <2>4, <2>6
<1>6. p + l <= m /\ pos[i + 1] - 1 = p + l /\ 1 \in 1..l + 1 /\ p + 1 - 1 = p
  BY <1>3, <1>5
<1>7. text[p] = "." /\ \A k \in 1..l : text[p + k] = id[k]
  <2>1. text[p] = "."
    BY <1>4, <1>5, <1>6
  <2>2. \A k \in 1..l : k + 1 \in 1..l + 1 /\ p + (k + 1) - 1 = p + k
    BY <1>2, <1>3
  <2> QED BY <1>4, <1>5, <2>1, <2>2
<1>8. PICK parts : parts = SubSeq(ids, 1, i - 1)
  OBVIOUS
<1>9. HasRead(f[p], parts, << >>, FALSE)
  <2>1. PICK s : s = f[p - 1] /\ s \in States(E) /\ f[p] = ReadName(s, ".")
    BY <1>5, <1>7 DEF Loops
  <2>2. HasRead(s, SubSeq(ids, 1, i - 1 - 1), ids[i - 1], FALSE)
    BY <1>1, <1>3, <2>1 DEF ReadUpTo
  <2>3. Append(SubSeq(ids, 1, i - 1 - 1), ids[i - 1]) = parts
    BY <1>1, <1>8, OneLonger DEF IsName
  <2>4. s.parts = SubSeq(ids, 1, i - 1 - 1) /\ s.part = ids[i - 1] /\ s.inQuote = FALSE
    BY <2>2 DEF HasRead
  <2>5. HasRead(ReadName(s, "."), Append(s.parts, s.part), << >>, FALSE)
    BY <2>1, <2>4, CharacterRead DEF IsName
  <2> QED BY <2>1, <2>3, <2>4, <2>5
<1>12. StandsAt(id, text, p)
  BY <1>2, <1>7 DEF StandsAt
<1>10. HasRead(f[p + l], parts, id, FALSE)
  BY <1>1, <1>2, <1>6, <1>9, <1>12, IdentifierAt
<1> QED BY <1>1, <1>6, <1>8, <1>10 DEF ReadUpTo

(* splitQuotedDot gives the identifiers back. *)
LEMMA NameSplit ==
  ASSUME NEW E, NEW ids, IsName(ids, E)
  PROVE  SplitQuotedDot(NameText(ids)) = ids
<1>0. PICK text : text = NameText(ids)
  OBVIOUS
<1>1. PICK n \in Nat : n = Len(ids) /\ DOMAIN ids = 1..n /\ 1 \in 1..n /\ n # 0
  BY DEF IsName
<1>2. text \in Seq(E)
  BY <1>0, NameRow
<1>3. PICK pos : IsRow(pos, [i \in 1..n |-> Chunk(ids, i)], text)
  BY <1>0, <1>1, NameRow
<1>4. PICK m \in Nat : m = Len(text)
  BY <1>2
<1>5. PICK f : Loops(f, text, m, E) /\ SplitQuotedDot(text) = Append(f[m].parts, f[m].part)
  BY <1>2, <1>4, NameReads
<1> DEFINE S == {i \in 0..n : i = 0 \/ ReadUpTo(f, pos, ids, i)}
<1>6. \A i \in 1..n : i - 1 \in S => i \in S
  <2> SUFFICES ASSUME NEW i \in 1..n, i - 1 \in S PROVE i \in S
    OBVIOUS
  <2>1. CASE i = 1
    <3>1. ReadUpTo(f, pos, ids, 1)
      BY <1>1, <1>2, <1>3, <1>4, <1>5, FirstRead
    <3> QED BY <2>1, <3>1
  <2>2. CASE i # 1
    <3>1. i \in 2..n /\ ReadUpTo(f, pos, ids, i - 1)
      BY <2>2
    <3>2. ReadUpTo(f, pos, ids, i)
      BY <1>1, <1>2, <1>3, <1>4, <1>5, <3>1, NextRead
    <3> QED BY <3>2
  <2> QED BY <2>1, <2>2
<1>7. n \in S
  <2>1. 0 \in S
    OBVIOUS
  <2> HIDE DEF S
  <2>2. \A i \in 0..n : i \in S
    BY <1>6, <2>1, Forwards
  <2> QED BY <2>2
<1>8. pos[n + 1] - 1 = m
  <2>1. Len([i \in 1..n |-> Chunk(ids, i)]) = n
    OBVIOUS
  <2>2. pos[n + 1] = m + 1
    BY <1>3, <1>4, <2>1 DEF IsRow
  <2> QED BY <2>2
<1>9. HasRead(f[m], SubSeq(ids, 1, n - 1), ids[n], FALSE)
  BY <1>1, <1>7, <1>8 DEF ReadUpTo
<1>10. Append(SubSeq(ids, 1, n - 1), ids[n]) = ids
  BY <1>1, OneLonger DEF IsName
<1> QED BY <1>0, <1>5, <1>9, <1>10 DEF HasRead

LEMMA NoParts == NameText(<< >>) = << >>
<1>1. PICK s : s = << >>
  OBVIOUS
<1>2. Len(s) = 0 /\ DOMAIN s = {}
  BY <1>1
<1>3. FlattenSeq(s) = s
  BY <1>2 DEF FlattenSeq
<1>4. [i \in DOMAIN s |-> IF i = 1 THEN s[i] ELSE <<".">> \o s[i]] = s
  BY <1>1, <1>2
<1> QED BY <1>1, <1>3, <1>4 DEF NameText

(* What splitQualifiedColumnName and splitQualifiedName make of a name. *)
LEMMA ColumnSplit ==
  ASSUME NEW E, NEW ids, IsName(ids, E), NEW name, name = SplitQualifiedColumnName(NameText(ids)), NEW named, named = Front(ids)
  PROVE  /\ name.column = Last(ids)
         /\ named = << >> => name.table = << >>
         /\ named # << >> => name.table # << >> /\ name.table = Last(named) /\ name.schema = NameText(Front(named))
<1>1. SplitQuotedDot(NameText(ids)) = ids
  BY NameSplit
<1>2. name = [ column |-> Last(ids),
               table  |-> IF Len(ids) = 1 THEN << >> ELSE Last(Front(ids)),
               schema |-> IF Len(ids) < 3 THEN << >> ELSE NameText(Front(Front(ids))) ]
  BY <1>1 DEF SplitQualifiedColumnName
<1>3. name.column = Last(ids) /\ (named = << >> => name.table = << >>)
  BY <1>2, FrontFacts DEF IsName
<1>4. ASSUME named # << >>
      PROVE  name.table # << >> /\ name.table = Last(named) /\ name.schema = NameText(Front(named))
  <2>1. Len(ids) # 1
    BY <1>4, FrontFacts DEF IsName
  <2>2. name.table = Last(named)
    BY <1>2, <2>1
  <2>3. PICK i \in 1..Len(ids) : Last(named) = ids[i]
    BY <1>4, FrontFacts DEF IsName
  <2>4. Last(named) # << >>
    BY <2>3, IdentifierCharacters DEF IsName
  <2>5. name.schema = NameText(Front(named))
    <3>1. CASE Len(ids) < 3
      <4>1. Len(ids) = 2
        <5>1. Len(ids) \in Nat \ {0}
          BY DEF IsName
        <5>2. \A n \in Nat \ {0} : n # 1 /\ n < 3 => n = 2
          OBVIOUS
        <5> QED BY <2>1, <3>1, <5>1, <5>2
      <4>2. Front(named) = << >>
        BY <4>1, FrontFacts DEF IsName
      <4>3. name.schema = << >>
        BY <1>2, <3>1
      <4> QED BY <4>2, <4>3, NoParts
    <3>2. CASE ~(Len(ids) < 3)
      BY <1>2, <3>2
    <3> QED BY <3>1, <3>2
  <2> QED BY <2>2, <2>4, <2>5
<1> QED BY <1>3, <1>4

(* The same for the names of other objects.                                 *)
LEMMA ObjectSplit ==
  ASSUME NEW E, NEW ids, IsName(ids, E), NEW name, name = SplitQualifiedName(NameText(ids))
  PROVE  name.schema = NameText(Front(ids)) /\ name.name = Last(ids)
<1>1. SplitQuotedDot(NameText(ids)) = ids
  BY NameSplit
<1>2. name = [schema |-> NameText(Front(ids)), name |-> Last(ids)]
  BY <1>1 DEF SplitQualifiedName
<1> QED BY <1>2

-------------------------------------------------------------------------------
(* COMMENT ON reports what is written.                                     *)

(* What CommentAsWritten says of the comment when it has been reported.    *)
Named(comment) ==
  CASE comment.object = "COLUMN" -> Front(comment.name)
    [] comment.object \in {"TABLE", "FOREIGN TABLE"} -> comment.name
    [] OTHER -> << >>

SaysWhatIsWritten(action, registered, comment) ==
  /\ action.comment = Meaning(comment.literal)
  /\ comment.object = "COLUMN" => action.columns = <<Last(comment.name)>>
  /\ registered = IF Named(comment) = << >> THEN << >> ELSE << <<NameText(Front(Named(comment))), Last(Named(comment))>> >>
  /\ Named(comment) # << >> => Tail(action.name) = registered[1]

(* The inductive invariant of COMMENT ON: nothing reported before its step. *)
CommentInv ==
  statement.kind = "COMMENT" =>
    /\ statement.items[1] \in Comment /\ Len(statement.items) = 1 /\ next \in {1, 2}
    /\ next = 1 => ddlActions = << >> /\ tables = << >>
    /\ next = 2 => SaysWhatIsWritten(ddlActions[1], tables, statement.items[1])

(* It holds at first.                                                       *)
LEMMA CommentInit ==
  ASSUME Init
  PROVE  CommentInv
<1> SUFFICES ASSUME statement.kind = "COMMENT" PROVE CommentInv
  BY DEF CommentInv
<1>1. PICK c \in Comment : statement.items = <<c>>
  BY DEF Init, Kinds
<1>2. Len(statement.items) = 1 /\ statement.items[1] = c
  BY <1>1, OneElement
<1>3. next = 1 /\ ddlActions = << >> /\ tables = << >>
  BY DEF Init
<1> QED BY <1>2, <1>3 DEF CommentInv

(* The comment of a statement: its literal and its name are read as written. *)
LEMMA CommentRead ==
  ASSUME NEW comment \in Comment
  PROVE  /\ DecodeCommentText(LiteralText(comment.literal)) = Meaning(comment.literal)
         /\ \E E : IsName(comment.name, E)
         /\ comment.object \in {"COLUMN", "TABLE", "FOREIGN TABLE", "INDEX", "SCHEMA", "TYPE", "DOMAIN", "FUNCTION"}
<1>1. /\ comment.object \in {"COLUMN", "TABLE", "FOREIGN TABLE", "INDEX", "SCHEMA", "TYPE", "DOMAIN", "FUNCTION"}
      /\ comment.name \in SeqOf(Identifiers, MaxParts) \ {<< >>} /\ comment.literal \in Literals(MaxUnits) \cup {Null}
  BY DEF Comment
<1>2. MaxUnits \in Nat /\ MaxParts \in Nat
  BY CommandsAssumption
<1>3. DecodeCommentText(LiteralText(comment.literal)) = Meaning(comment.literal)
  BY <1>1, <1>2, LiteralDecoded
<1>4. PICK E : E = STRING \cup {"."}
  OBVIOUS
<1>5. PICK ids : ids = comment.name
  OBVIOUS
<1>6. \A id \in Identifiers : id \in Seq(E) /\ IsIdentifier(id)
  <2>1. STRING \subseteq E
    BY <1>4
  <2>2. \A id \in Identifiers : id \in Seq(STRING) /\ IsIdentifier(id)
    BY IdentifiersAssumption
  <2>3. \A id \in Seq(STRING) : id \in Seq(E)
    BY <2>1, InLarger
  <2> QED BY <2>2, <2>3
<1>7. PICK m \in 0..MaxParts : ids \in [1..m -> Identifiers]
  BY <1>1, <1>5 DEF SeqOf
<1>8. ids \in Seq(Identifiers) /\ Len(ids) = m /\ ids # << >>
  <2>1. m \in Nat
    BY <1>2
  <2>2. ids # << >>
    BY <1>1, <1>5
  <2> QED BY <1>7, <2>1, <2>2, FunctionOnIndices
<1>9. ids \in Seq(Seq(E)) /\ \A i \in 1..Len(ids) : IsIdentifier(ids[i])
  BY <1>2, <1>6, <1>7, <1>8
<1>10. "." \in E
  BY <1>4
<1>11. IsName(ids, E)
  BY <1>8, <1>9, <1>10 DEF IsName
<1> QED BY <1>1, <1>3, <1>5, <1>11

(* The fields of the actions.                                               *)
LEMMA CommentAction ==
  ASSUME NEW name, NEW comment, NEW action, action = CommentOn(name, comment)
  PROVE  action.name = name /\ action.comment = comment
  BY DEF Action, CommentOn

LEMMA ColumnAction ==
  ASSUME NEW name, NEW comment, NEW columns, NEW action, action = OfColumns(CommentOn(name, comment), columns)
  PROVE  action.name = name /\ action.comment = comment /\ action.columns = columns
  BY DEF Action, CommentOn, OfColumns

(* Lists of names.                                                          *)
LEMMA NameOfThree ==
  ASSUME NEW kind, NEW schema, NEW table
  PROVE  Tail(<<kind, schema, table>>) = <<schema, table>> /\ << <<schema, table>> >>[1] = <<schema, table>>
  OBVIOUS

LEMMA FirstOfAll ==
  ASSUME NEW x
  PROVE  Append(<< >>, x) = <<x>> /\ <<x>>[1] = x
  OBVIOUS

(* A step of COMMENT ON. *)
Commented(action, registered) ==
  /\ ddlActions' = Append(ddlActions, action) /\ Advance /\ tables' = registered
  /\ SaysWhatIsWritten(action, registered, statement.items[1])

(* Such a step keeps the invariant; and each of the three is one.           *)
LEMMA CommentKept ==
  ASSUME CommentInv, statement.kind = "COMMENT", next = 1, NEW action, NEW registered, Commented(action, registered)
  PROVE  CommentInv'
<1>1. statement' = statement /\ next' = 2 /\ ddlActions' = <<action>> /\ tables' = registered
  BY FirstOfAll DEF Commented, Advance, CommentInv
<1>2. ddlActions'[1] = action
  BY <1>1, FirstOfAll
<1>3. SaysWhatIsWritten(ddlActions'[1], tables', statement'.items[1])
  BY <1>1, <1>2 DEF Commented
<1> QED BY <1>1, <1>3 DEF CommentInv

LEMMA CommentHere ==
  ASSUME CommentInv, NEW objects, Commenting(objects)
  PROVE  /\ statement.kind = "COMMENT" /\ next = 1 /\ Item = statement.items[1] /\ Item \in Comment
         /\ Item.object \in objects /\ ddlActions = << >> /\ tables = << >>
<1>1. statement.kind = "COMMENT" /\ next <= Len(statement.items) /\ Item.object \in objects
  BY DEF Commenting, Naming
<1>2. next = 1
  <2>1. next \in {1, 2} /\ Len(statement.items) = 1
    BY <1>1 DEF CommentInv
  <2>2. PICK n, l : n \in {1, 2} /\ n = next /\ l = Len(statement.items)
    BY <2>1
  <2>3. l = 1 /\ n <= l
    BY <1>1, <2>1, <2>2
  <2> QED BY <2>2, <2>3
<1> QED BY <1>1, <1>2 DEF CommentInv, Item

LEMMA ColumnCommented ==
  ASSUME CommentInv, CommentOnColumn
  PROVE  CommentInv'
<1>1. PICK item : item = Item
  OBVIOUS
<1>2. /\ statement.kind = "COMMENT" /\ next = 1 /\ item = statement.items[1] /\ item \in Comment
      /\ item.object = "COLUMN" /\ tables = << >>
  BY <1>1, CommentHere DEF CommentOnColumn
<1>3. PICK name : name = SplitQualifiedColumnName(NameText(item.name))
  OBVIOUS
<1>4. PICK action, registered :
        /\ action = OfColumns(CommentOn(<<"COLUMN", name.schema, name.table>>, Decoded), <<name.column>>)
        /\ registered = IF name.table = << >> THEN tables ELSE Append(tables, <<name.schema, name.table>>)
  OBVIOUS
<1>5. ddlActions' = Append(ddlActions, action) /\ Advance /\ tables' = registered
  BY <1>1, <1>3, <1>4 DEF CommentOnColumn, Report, OfColumns
<1>6. action.name = <<"COLUMN", name.schema, name.table>> /\ action.comment = Decoded /\ action.columns = <<name.column>>
  BY <1>4, ColumnAction
<1>7. Decoded = Meaning(item.literal)
  BY <1>1, <1>2, CommentRead DEF Decoded
<1>8. PICK named : named = Front(item.name)
  OBVIOUS
<1>9. /\ name.column = Last(item.name) /\ (named = << >> => name.table = << >>)
      /\ named # << >> => name.table # << >> /\ name.table = Last(named) /\ name.schema = NameText(Front(named))
  <2>1. PICK ids, E : ids = item.name /\ IsName(ids, E)
    BY <1>2, CommentRead
  <2>2. name = SplitQualifiedColumnName(NameText(ids)) /\ named = Front(ids)
    BY <1>3, <1>8, <2>1
  <2>3. /\ name.column = Last(ids) /\ (named = << >> => name.table = << >>)
        /\ named # << >> => name.table # << >> /\ name.table = Last(named) /\ name.schema = NameText(Front(named))
    BY <2>1, <2>2, ColumnSplit
  <2> QED BY <2>1, <2>3
<1>10. Named(item) = named
  BY <1>2, <1>8 DEF Named
<1>11. registered = IF named = << >> THEN << >> ELSE << <<NameText(Front(named)), Last(named)>> >>
  BY <1>2, <1>4, <1>9, FirstOfAll
<1>12. named # << >> => Tail(action.name) = registered[1]
  BY <1>6, <1>9, <1>11, NameOfThree
<1>13. SaysWhatIsWritten(action, registered, item)
  BY <1>6, <1>7, <1>9, <1>10, <1>11, <1>12 DEF SaysWhatIsWritten
<1>14. Commented(action, registered)
  BY <1>2, <1>5, <1>13 DEF Commented
<1> QED BY <1>2, <1>14, CommentKept

LEMMA ObjectCommented ==
  ASSUME CommentInv, CommentOnObject
  PROVE  CommentInv'
<1>1. PICK item : item = Item
  OBVIOUS
<1>2. /\ statement.kind = "COMMENT" /\ next = 1 /\ item = statement.items[1] /\ item \in Comment
      /\ item.object \in {"TABLE", "FOREIGN TABLE", "INDEX", "SCHEMA", "TYPE", "DOMAIN"} /\ tables = << >>
  BY <1>1, CommentHere DEF CommentOnObject
<1>3. PICK name : name = SplitQualifiedName(NameText(item.name))
  OBVIOUS
<1>4. PICK action, registered :
        /\ action = CommentOn(<<item.object, name.schema, name.name>>, Decoded)
        /\ registered = IF item.object \in {"TABLE", "FOREIGN TABLE"} THEN Append(tables, <<name.schema, name.name>>) ELSE tables
  OBVIOUS
<1>5. ddlActions' = Append(ddlActions, action) /\ Advance /\ tables' = registered
  BY <1>1, <1>3, <1>4 DEF CommentOnObject, Report
<1>6. action.name = <<item.object, name.schema, name.name>> /\ action.comment = Decoded
  <2>1. PICK words, said : words = <<item.object, name.schema, name.name>> /\ said = Decoded
    OBVIOUS
  <2>2. action = CommentOn(words, said)
    BY <1>4, <2>1
  <2>3. action.name = words /\ action.comment = said
    BY <2>2, CommentAction
  <2> QED BY <2>1, <2>3
<1>7. Decoded = Meaning(item.literal)
  BY <1>1, <1>2, CommentRead DEF Decoded
<1>8. PICK E : IsName(item.name, E)
  BY <1>2, CommentRead
<1>9. name.schema = NameText(Front(item.name)) /\ name.name = Last(item.name) /\ item.name # << >>
  BY <1>3, <1>8, ObjectSplit DEF IsName
<1>10. CASE item.object \in {"TABLE", "FOREIGN TABLE"}
  <2>1. Named(item) = item.name
    BY <1>10 DEF Named
  <2>2. registered = << <<NameText(Front(item.name)), Last(item.name)>> >>
    BY <1>2, <1>4, <1>9, <1>10, FirstOfAll
  <2>3. Tail(action.name) = registered[1]
    BY <1>6, <1>9, <2>2, NameOfThree
  <2>4. SaysWhatIsWritten(action, registered, item)
    BY <1>6, <1>7, <1>9, <1>10, <2>1, <2>2, <2>3 DEF SaysWhatIsWritten
  <2> QED BY <1>2, <1>5, <2>4, CommentKept DEF Commented
<1>11. CASE item.object \in {"INDEX", "SCHEMA", "TYPE", "DOMAIN"}
  <2>1. Named(item) = << >> /\ item.object # "COLUMN"
    BY <1>11 DEF Named
  <2>2. registered = << >>
    BY <1>2, <1>4, <1>11
  <2>3. SaysWhatIsWritten(action, registered, item)
    BY <1>6, <1>7, <2>1, <2>2 DEF SaysWhatIsWritten
  <2> QED BY <1>2, <1>5, <2>3, CommentKept DEF Commented
<1> QED BY <1>2, <1>10, <1>11

LEMMA OtherCommented ==
  ASSUME CommentInv, CommentOnOther
  PROVE  CommentInv'
<1>1. PICK item : item = Item
  OBVIOUS
<1>2. /\ statement.kind = "COMMENT" /\ next = 1 /\ item = statement.items[1] /\ item \in Comment
      /\ item.object = "FUNCTION" /\ tables = << >>
  BY <1>1, CommentHere DEF CommentOnOther
<1>3. PICK action : action = CommentOn(<<"UNKNOWN", << >>, << >> >>, Decoded)
  OBVIOUS
<1>4. ddlActions' = Append(ddlActions, action) /\ Advance /\ tables' = << >>
  BY <1>2, <1>3 DEF CommentOnOther, Report
<1>5. action.comment = Meaning(item.literal)
  <2>1. PICK words, said : words = <<"UNKNOWN", << >>, << >> >> /\ said = Decoded
    OBVIOUS
  <2>2. action.comment = said
    BY <1>3, <2>1, CommentAction
  <2>3. Decoded = Meaning(item.literal)
    BY <1>1, <1>2, CommentRead DEF Decoded
  <2> QED BY <2>1, <2>2, <2>3
<1>6. Named(item) = << >>
  BY <1>2 DEF Named
<1>7. SaysWhatIsWritten(action, << >>, item)
  BY <1>2, <1>5, <1>6 DEF SaysWhatIsWritten
<1> QED BY <1>2, <1>4, <1>7, CommentKept DEF Commented

(* CommentAsWritten holds of every COMMENT ON, however long its literal and *)
(* its name are: what is reported is the comment as PostgreSQL reads it, in *)
(* each form of string constant, and the object that is named, with its     *)
(* dots in and out of quotes (ddl_comment.go:23-203, helpers.go:366-396).   *)
THEOREM CommentsReported == Spec => []CommentAsWritten
<1>1. Init => CommentInv
  BY CommentInit
<1>2. CommentInv /\ [Next]_vars => CommentInv'
  <2> SUFFICES ASSUME CommentInv, [Next]_vars PROVE CommentInv'
    OBVIOUS
  <2>1. CASE CommentOnColumn \/ CommentOnObject \/ CommentOnOther
    BY <2>1, ColumnCommented, ObjectCommented, OtherCommented
  <2>2. CASE AlterDropConstraint \/ AlterDrop \/ AlterAddConstraint \/ AlterAdd \/ AlterColumn \/ AlterOther
             \/ DropTable \/ DropIndex \/ DropOther \/ Truncate \/ CreateIndex
    <3>1. statement' = statement /\ statement.kind # "COMMENT"
      BY <2>2 DEF Advance, Altering, Naming, AlterDropConstraint, AlterDrop, AlterAddConstraint, AlterAdd, AlterColumn,
                  AlterOther, DropTable, DropIndex, DropOther, Truncate, CreateIndex
    <3> QED BY <3>1 DEF CommentInv
  <2>3. CASE UNCHANGED vars
    BY <2>3 DEF vars, CommentInv
  <2> QED BY <2>1, <2>2, <2>3 DEF Next
<1>3. CommentInv => CommentAsWritten
  BY DEF CommentInv, SaysWhatIsWritten, Named, CommentAsWritten
<1> QED BY <1>1, <1>2, <1>3, PTL DEF Spec

===============================================================================
