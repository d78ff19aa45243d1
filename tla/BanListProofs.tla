--------------------------- MODULE BanListProofs ----------------------------
(***************************************************************************)
(* The row that CreateBan answers with is in force on its instance, for    *)
(* every number of operators, instances and identifiers, and whatever the  *)
(* unique key's collation takes for equal.                                 *)
(***************************************************************************)
EXTENDS BanList, TLAPS

\* Normalising and folding stay within the values, and a stored hostname is
\* lower-case (normalizeBanValue, match).
LEMMA ValueTypes ==
    ASSUME NEW v \in Values
    PROVE  /\ NormalizeBanValue(v) \in Values
           /\ NormalizeBanValue(v) \in Hostnames =>
                  ToLower[NormalizeBanValue(v)] = NormalizeBanValue(v)
           /\ MapKey(v) \in Values
BY BanAssumption DEF Values, NormalizeBanValue, MapKey

\* The end of a request touches nothing of the others.
LEMMA RequestEndsSteps ==
    ASSUME IInv, NEW a \in Admins, RequestEnds(a),
           UNCHANGED <<table, nextId, restarts>>,
           snapshot' \in [Instances -> SUBSET Values]
    PROVE  IInv'
<1> USE BanAssumption DEF IInv, Reloaders
<1>1. TypeOK'
    BY DEF TypeOK, RequestEnds
<1>2. RowsWellFormed'
    BY DEF TypeOK, RowsWellFormed, RequestEnds, Banned
<1>3. SelectSeesOwnRow'
    BY DEF TypeOK, SelectSeesOwnRow, RequestEnds
<1>4. QED
    BY <1>1, <1>2, <1>3

\* CreateBan keeps the invariant: the id it gives out is new.
LEMMA CreateSteps ==
    ASSUME IInv, NEW a \in Admins, NEW i \in Instances, NEW v \in Values, CreateBan(a, i, v)
    PROVE  IInv'
<1> USE BanAssumption DEF IInv, Reloaders
<1> DEFINE n == NormalizeBanValue(v)
<1>1. n \in Values /\ (n \in Hostnames => ToLower[n] = n)
    BY ValueTypes
<1> HIDE DEF n
<1>2. CASE \E w \in SameKey(n) : row' = [row EXCEPT ![a] = table[w]] /\ UNCHANGED <<table, nextId>>
    <2>1. PICK w \in SameKey(n) : row' = [row EXCEPT ![a] = table[w]]
        BY <1>2
    <2>2. w \in Values /\ table[w] # 0 /\ UNCHANGED <<table, nextId>>
        BY <1>2 DEF SameKey, Banned
    <2>3. TypeOK'
        BY <2>1, <2>2 DEF TypeOK, CreateBan
    <2>4. RowsWellFormed'
        BY <2>1, <2>2 DEF TypeOK, RowsWellFormed, CreateBan, Banned
    <2>5. SelectSeesOwnRow'
        BY <2>1, <2>2 DEF TypeOK, SelectSeesOwnRow, CreateBan
    <2>6. QED
        BY <2>3, <2>4, <2>5
<1>3. CASE SameKey(n) = {} /\ InsertRow(a, n)
    <2>1. \A w \in Banned : Collation[w] # Collation[n]
        BY <1>3 DEF SameKey
    <2>2. TypeOK'
        BY <1>1, <1>3 DEF TypeOK, CreateBan, InsertRow
    <2>3. \A w \in Values : table'[w] = IF w = n THEN nextId ELSE table[w]
        BY <1>1, <1>3 DEF TypeOK, InsertRow
    <2>4. Banned' = Banned \cup {n}
        BY <1>1, <2>3 DEF Banned, TypeOK
    <2>5. RowsWellFormed'
        BY <1>1, <1>3, <2>1, <2>3, <2>4 DEF TypeOK, RowsWellFormed, InsertRow, Banned
    <2>6. SelectSeesOwnRow'
        BY <1>1, <1>3, <2>3 DEF TypeOK, RowsWellFormed, SelectSeesOwnRow, CreateBan, InsertRow
    <2>7. QED
        BY <2>2, <2>5, <2>6
<1>4. QED
    BY <1>2, <1>3 DEF CreateBan, n

\* Rows keep their ids, and a request that has read the list has seen its own
\* row in it (CreateBan, Reload).
THEOREM BanInvariant == SafetySpec => []IInv
<1>1. Init => IInv
    BY BanAssumption DEF Init, IInv, TypeOK, RowsWellFormed, SelectSeesOwnRow, Reloaders, Banned
<1>2. IInv /\ [Next]_vars => IInv'
    <2> SUFFICES ASSUME IInv, [Next]_vars PROVE IInv'
        OBVIOUS
    <2> USE BanAssumption DEF IInv, Reloaders
    <2>1. ASSUME NEW a \in Admins, NEW i \in Instances, NEW v \in Values, CreateBan(a, i, v)
          PROVE  IInv'
        BY <2>1, CreateSteps
    <2>2. ASSUME NEW a \in Admins, NEW i \in Instances, NEW v \in Values, DeleteBan(a, i, v)
          PROVE  IInv'
        BY <2>2 DEF DeleteBan, TypeOK, RowsWellFormed, SelectSeesOwnRow, Banned
    <2>3. ASSUME NEW a \in Admins, ReadBack(a) PROVE IInv'
        <3>1. CASE \E v \in Values : table[v] = row[a]
            BY <2>3, <3>1 DEF ReadBack, TypeOK, RowsWellFormed, SelectSeesOwnRow, Banned
        <3>2. CASE ~\E v \in Values : table[v] = row[a]
            BY <2>3, <3>2, RequestEndsSteps DEF ReadBack, TypeOK
        <3>3. QED
            BY <3>1, <3>2
    <2>4. ASSUME NEW a \in Admins, DeleteRow(a) PROVE IInv'
        <3>1. TypeOK'
            BY <2>4 DEF DeleteRow, TypeOK
        <3>2. RowsWellFormed'
            BY <2>4 DEF DeleteRow, TypeOK, RowsWellFormed, Banned
        <3>3. SelectSeesOwnRow'
            BY <2>4 DEF DeleteRow, TypeOK, SelectSeesOwnRow
        <3>4. QED
            BY <3>1, <3>2, <3>3
    <2>5. ASSUME NEW a \in Admins, RequestFails(a) PROVE IInv'
        BY <2>5, RequestEndsSteps DEF RequestFails, TypeOK
    <2>6. ASSUME NEW i \in Instances, Refresh(i) \/ RefreshFails(i) PROVE IInv'
        BY <2>6 DEF Refresh, RefreshFails, TypeOK, RowsWellFormed, SelectSeesOwnRow, Banned
    <2>7. ASSUME NEW i \in Instances, Restart(i) PROVE IInv'
        <3>1. TypeOK'
            BY <2>7, ValueTypes DEF Restart, TypeOK, Banned
        <3>2. RowsWellFormed'
            BY <2>7 DEF Restart, TypeOK, RowsWellFormed, Banned
        <3>3. SelectSeesOwnRow'
            BY <2>7 DEF Restart, TypeOK, SelectSeesOwnRow, Target
        <3>4. QED
            BY <3>1, <3>2, <3>3
    <2>8. ASSUME NEW p \in Reloaders, ReloadSelect(p) PROVE IInv'
        <3>1. TypeOK' /\ RowsWellFormed'
            BY <2>8, ValueTypes DEF ReloadSelect, TypeOK, RowsWellFormed, Banned
        <3>2. SelectSeesOwnRow'
            BY <2>8 DEF ReloadSelect, TypeOK, SelectSeesOwnRow, Banned
        <3>3. QED
            BY <3>1, <3>2
    <2>9. ASSUME NEW p \in Reloaders, ReloadSwap(p) PROVE IInv'
        <3>1. snapshot' \in [Instances -> SUBSET Values]
            BY <2>9 DEF ReloadSwap, TypeOK, Installed
        <3>2. CASE p \in Admins
            BY <2>9, <3>1, <3>2, RequestEndsSteps DEF ReloadSwap
        <3>3. CASE p \notin Admins
            BY <2>9, <3>1, <3>3 DEF ReloadSwap, TypeOK, RowsWellFormed, SelectSeesOwnRow, Banned
        <3>4. QED
            BY <3>2, <3>3
    <2>10. CASE UNCHANGED vars
        BY <2>10 DEF vars, TypeOK, RowsWellFormed, SelectSeesOwnRow, Banned
    <2>11. QED
        BY <2>1, <2>2, <2>3, <2>4, <2>5, <2>6, <2>7, <2>8, <2>9, <2>10 DEF Next
<1>3. QED
    BY <1>1, <1>2, PTL DEF SafetySpec

\* When CreateBan answers after its Reload, its instance refuses whoever matches
\* the row of the answer, unless the row is gone again: a slower Reload can only
\* come later.
THEOREM CreateBanTakesEffect == SafetySpec => CreatedBanInForce
<1> DEFINE Step == \A a \in Admins :
               pc[a] = "swap" /\ pc'[a] = "idle" /\ restarts' = restarts =>
                   \A w \in Values : table[w] = row[a] =>
                       \A v \in Values : MapKey(v) = MapKey(w) => Blocks(snapshot'[at[a]], v)
<1>1. IInv /\ [Next]_vars => Step
    <2> SUFFICES ASSUME IInv, [Next]_vars, NEW a \in Admins, pc[a] = "swap", pc'[a] = "idle",
                        restarts' = restarts, NEW w \in Values, table[w] = row[a],
                        NEW v \in Values, MapKey(v) = MapKey(w)
                 PROVE  Blocks(snapshot'[at[a]], v)
        OBVIOUS
    <2> USE BanAssumption DEF IInv, TypeOK, Reloaders
    <2>1. ReloadSwap(a)
        <3>1. \A b \in Admins, i \in Instances, x \in Values :
                  ~CreateBan(b, i, x) /\ ~DeleteBan(b, i, x)
            BY DEF CreateBan, DeleteBan
        <3>2. \A b \in Admins : ~ReadBack(b) /\ ~DeleteRow(b) /\ ~RequestFails(b)
            BY DEF ReadBack, DeleteRow, RequestFails, RequestEnds
        <3>3. \A i \in Instances : ~Refresh(i) /\ ~RefreshFails(i) /\ ~Restart(i)
            BY DEF Refresh, RefreshFails, Restart
        <3>4. \A p \in Reloaders : ~ReloadSelect(p)
            BY DEF ReloadSelect
        <3>5. \A p \in Reloaders : ReloadSwap(p) => p = a
            BY DEF ReloadSwap, RequestEnds
        <3>6. QED
            BY <3>1, <3>2, <3>3, <3>4, <3>5 DEF Next, vars
    <2>2. at[a] \in Instances /\ MapKey(v) \in view[a]
        BY DEF SelectSeesOwnRow
    <2>3. snapshot'[at[a]] = view[a]
        BY <2>1, <2>2 DEF ReloadSwap, Installed, Target
    <2>4. QED
        BY <2>2, <2>3 DEF Blocks
<1>2. QED
    BY <1>1, BanInvariant, PTL DEF SafetySpec, CreatedBanInForce
=============================================================================
