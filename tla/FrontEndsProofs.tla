---------------------------- MODULE FrontEndsProofs ----------------------------
(***************************************************************************)
(* Theorems about FrontEnds, for any handles, texts, tasks, workers and    *)
(* versions: what get_autocommit says of the C interface's connection, and *)
(* the order in which run_migrations applies and records versions.         *)
(***************************************************************************)
EXTENDS FrontEnds, Extrema, SequenceTheorems, FiniteSetTheorems

-----------------------------------------------------------------------------
(* What an INSERT of one and of two keys does. *)

\* A row that is there changes nothing, so that the content is the same.
LEMMA InsertOne ==
    ASSUME NEW D, NEW k
    PROVE  /\ ApplyDml("INSERT", <<k>>, D).content = D \cup {k}
           /\ ApplyDml("INSERT", <<k>>, D).ok <=> k \notin D
<1> DEFINE bad == {i \in 1..1 : <<k>>[i] \in D \cup {<<k>>[j] : j \in 1..(i - 1)}}
           upto == IF bad = {} THEN 1 ELSE (CHOOSE i \in bad : \A j \in bad : i <= j) - 1
<1>1. Len(<<k>>) = 1 /\ <<k>>[1] = k
  OBVIOUS
<1>2. /\ ApplyDml("INSERT", <<k>>, D).content = D \cup {<<k>>[i] : i \in 1..upto}
      /\ ApplyDml("INSERT", <<k>>, D).ok <=> bad = {}
  BY <1>1 DEF ApplyDml
<1>3. CASE k \in D
  <2>1. bad = {1}
    BY <1>3
  <2>2. (CHOOSE i \in bad : \A j \in bad : i <= j) = 1
    BY <2>1
  <2>3. upto = 0
    BY <2>1, <2>2
  <2>4. {<<k>>[i] : i \in 1..upto} = {}
    BY <2>3
  <2>5. D \cup {} = D \cup {k}
    BY <1>3
  <2> QED  BY <1>2, <1>3, <2>1, <2>4, <2>5, Zenon
<1>4. CASE k \notin D
  <2>1. bad = {}
    BY <1>4
  <2>2. {<<k>>[i] : i \in 1..upto} = {k}
    BY <2>1
  <2> QED  BY <1>2, <1>4, <2>1, <2>2, Zenon
<1> QED  BY <1>3, <1>4

LEMMA InsertTwo ==
    ASSUME NEW D, NEW f, NEW s
    PROVE  ApplyDml("INSERT", <<f, s>>, D).content = IF f \in D THEN D ELSE D \cup {f, s}
<1> DEFINE K == <<f, s>>
           bad == {i \in 1..2 : K[i] \in D \cup {K[j] : j \in 1..(i - 1)}}
           upto == IF bad = {} THEN 2 ELSE (CHOOSE i \in bad : \A j \in bad : i <= j) - 1
<1>1. Len(K) = 2 /\ K[1] = f /\ K[2] = s
  OBVIOUS
<1>2. ApplyDml("INSERT", K, D).content = D \cup {K[i] : i \in 1..upto}
  BY <1>1 DEF ApplyDml
<1> HIDE DEF K
<1>3. /\ 1 \in bad <=> f \in D
      /\ 2 \in bad <=> s \in D \cup {f}
  BY <1>1
<1>4. CASE f \in D
  <2>1. (CHOOSE i \in bad : \A j \in bad : i <= j) = 1
    <3>1. 1 \in bad /\ \A j \in bad : j \in 1..2
      BY <1>3, <1>4
    <3> QED  BY <3>1
  <2>2. upto = 0
    BY <1>3, <1>4, <2>1
  <2>3. {K[i] : i \in 1..upto} = {}
    BY <2>2
  <2> QED  BY <1>2, <1>4, <2>3 DEF K
<1>5. CASE f \notin D /\ s \in D \cup {f}
  <2>1. bad = {2}
    BY <1>3, <1>5
  <2>2. (CHOOSE i \in bad : \A j \in bad : i <= j) = 2
    BY <2>1
  <2>3. upto = 1
    BY <2>1, <2>2
  <2>4. {K[i] : i \in 1..upto} = {f}
    BY <2>3, <1>1
  <2> QED  BY <1>2, <1>5, <2>4 DEF K
<1>6. CASE f \notin D /\ s \notin D \cup {f}
  <2>1. bad = {}
    BY <1>3, <1>6
  <2>2. {K[i] : i \in 1..upto} = {f, s}
    BY <2>1, <1>1
  <2> QED  BY <1>2, <1>6, <2>2 DEF K
<1> QED  BY <1>4, <1>5, <1>6

LEMMA ApplyDmlShape ==
    ASSUME NEW kw, NEW keys, NEW D
    PROVE  ApplyDml(kw, keys, D) = [content |-> ApplyDml(kw, keys, D).content,
                                    ok |-> ApplyDml(kw, keys, D).ok]
<1> DEFINE bad == {i \in 1..Len(keys) :
                     keys[i] \in D \cup {keys[j] : j \in 1..(i - 1)}}
           upto == IF bad = {} THEN Len(keys) ELSE (CHOOSE i \in bad : \A j \in bad : i <= j) - 1
           removed == D \ ToSet(keys)
           added == D \cup {keys[i] : i \in 1..upto}
           fits == bad = {}
<1>1. CASE kw = "DELETE"
  <2>1. ApplyDml(kw, keys, D) = [content |-> removed, ok |-> TRUE]
    BY <1>1, Zenon DEF ApplyDml
  <2> HIDE DEF removed
  <2> QED  BY <2>1
<1>2. CASE kw # "DELETE"
  <2>1. ApplyDml(kw, keys, D) = [content |-> added, ok |-> fits]
    BY <1>2, Zenon DEF ApplyDml
  <2> HIDE DEF added, fits
  <2> QED  BY <2>1
<1> QED  BY <1>1, <1>2

\* A statement of its own either takes effect or leaves everything as it was.
LEMMA AutocommitIsAtomic ==
    ASSUME NEW kw, NEW keys, NEW D
    PROVE  /\ Autocommit(kw, keys, D).ok = ApplyDml(kw, keys, D).ok
           /\ Autocommit(kw, keys, D).content =
                IF ApplyDml(kw, keys, D).ok THEN ApplyDml(kw, keys, D).content ELSE D
<1> DEFINE r == ApplyDml(kw, keys, D)
<1>1. r = [content |-> r.content, ok |-> r.ok]
  BY ApplyDmlShape
<1>2. Autocommit(kw, keys, D) = IF r.ok THEN r ELSE [r EXCEPT !.content = D]
  BY Zenon DEF Autocommit
<1> HIDE DEF r
<1>3. CASE r.ok
  BY <1>2, <1>3, Zenon DEF r
<1>4. CASE ~r.ok
  <2>1. /\ [r EXCEPT !.content = D].content = D
        /\ [r EXCEPT !.content = D].ok = r.ok
    BY <1>1
  <2> QED  BY <1>2, <1>4, <2>1, Zenon DEF r
<1> QED  BY <1>3, <1>4

\* An INSERT of one key leaves it there, whether or not it was.
LEMMA InsertOneAlone ==
    ASSUME NEW D, NEW k
    PROVE  /\ Autocommit("INSERT", <<k>>, D).ok <=> k \notin D
           /\ Autocommit("INSERT", <<k>>, D).content = D \cup {k}
<1> DEFINE r == ApplyDml("INSERT", <<k>>, D)
           a == Autocommit("INSERT", <<k>>, D)
<1>1. a.ok = r.ok /\ a.content = IF r.ok THEN r.content ELSE D
  BY AutocommitIsAtomic
<1>2. r.content = D \cup {k} /\ (r.ok <=> k \notin D)
  BY InsertOne
<1> HIDE DEF r, a
<1>3. k \in D => D = D \cup {k}
  OBVIOUS
<1>4. (a.ok <=> k \notin D) /\ a.content = D \cup {k}
  BY <1>1, <1>2, <1>3
<1> QED  BY <1>4 DEF a

\* sqlite3_exec of two INSERTs ends where one INSERT of both keys would have
\* stopped inside a transaction.
LEMMA ExecIsPrefix ==
    ASSUME NEW D, NEW f, NEW s
    PROVE  (IF Autocommit("INSERT", <<f>>, D).ok
            THEN Autocommit("INSERT", <<s>>, Autocommit("INSERT", <<f>>, D).content).content ELSE D)
           = ApplyDml("INSERT", <<f, s>>, D).content
<1> DEFINE one == Autocommit("INSERT", <<f>>, D)
           both == ApplyDml("INSERT", <<f, s>>, D).content
<1>1. (one.ok <=> f \notin D) /\ one.content = D \cup {f}
  BY InsertOneAlone
<1>2. Autocommit("INSERT", <<s>>, one.content).content = one.content \cup {s}
  BY InsertOneAlone
<1>3. both = IF f \in D THEN D ELSE D \cup {f, s}
  BY InsertTwo
<1> HIDE DEF one, both
<1>4. (IF one.ok THEN one.content \cup {s} ELSE D) = both
  BY <1>1, <1>3
<1> QED  BY <1>2, <1>4 DEF one, both

-----------------------------------------------------------------------------
(* The connection of the C interface.                                      *)

\* A closed connection has nothing open and nothing prepared, and only the C
\* library opens one.  Together with the property this is inductive.
Connected ==
    /\ conn = [open |-> conn.open, tx |-> conn.tx]
    /\ conn.tx = <<>> \/ conn.tx = <<conn.tx[1]>>
    /\ ~conn.open => /\ conn.tx = <<>> /\ ~hung
                     /\ front = "c" => gate = Free
                     /\ \A h \in Handles : ~Live(h)
    /\ front = "async" => ~conn.open

CInv == Connected /\ AutocommitIsTruthful

LEMMA CInvInit == Init => CInv
BY DEF Init, HostInit, CInit, CInv, Connected, AutocommitIsTruthful, Live, NoStmt

\* Steps that leave the connection, the database and the ghosts alone.
LEMMA CInvSame ==
    ASSUME CInv, conn.open, UNCHANGED <<hostVars, conn, hung, told, saved, front>>
    PROVE  CInv'
BY DEF CInv, Connected, AutocommitIsTruthful, hostVars

LEMMA CInvHandles ==
    ASSUME CInv, ~hung, UNCHANGED front, front = "c",
           \/ Open \/ Close
           \/ \E h \in Handles :
                 \/ \E text \in Texts : Prepare(h, text)
                 \/ \E key \in Rows : Bind(h, key)
                 \/ Finalize(h) \/ ClearBindings(h) \/ Reset(h)
    PROVE  CInv'
<1>1. CASE Open
  BY <1>1 DEF Open, CInv, Connected, AutocommitIsTruthful, hostVars, Live
<1>2. CASE Close
  BY <1>2 DEF Close, CInv, Connected, AutocommitIsTruthful, hostVars, Live
<1>3. ASSUME NEW h \in Handles,
             \/ \E text \in Texts : Prepare(h, text)
             \/ \E key \in Rows : Bind(h, key)
             \/ Finalize(h) \/ ClearBindings(h) \/ Reset(h)
      PROVE  CInv'
  <2>1. conn.open
    BY <1>3 DEF CInv, Connected, Prepare, Bind, Finalize, ClearBindings, Reset
  <2>2. UNCHANGED <<hostVars, conn, hung, told, saved>>
    BY <1>3 DEF Prepare, Bind, Finalize, ClearBindings, Reset
  <2> QED  BY <2>1, <2>2, CInvSame DEF hostVars
<1> QED  BY <1>1, <1>2, <1>3

LEMMA CInvStep ==
    ASSUME CInv, ~hung, UNCHANGED front, front = "c", NEW h \in Handles, Step(h)
    PROVE  CInv'
<1>1. conn.open
  BY DEF CInv, Connected, Step, StepOn, RunBegin, RunCommit, RunRollback, RunQuery,
         RunDml, RunOther, Runs
<1>2. CASE StepOn(h) \/ RunQuery(h)
  <2>1. UNCHANGED <<hostVars, conn, hung, told, saved>>
    BY <1>2 DEF StepOn, RunQuery
  <2> QED  BY <1>1, <2>1, CInvSame DEF hostVars
<1>3. CASE RunBegin(h)
  BY <1>1, <1>3 DEF RunBegin, CInv, Connected, AutocommitIsTruthful, hostVars
<1>4. CASE RunCommit(h)
  BY <1>1, <1>4 DEF RunCommit, CInv, Connected, AutocommitIsTruthful, hostVars
<1>5. CASE RunRollback(h)
  BY <1>1, <1>5 DEF RunRollback, CInv, Connected, AutocommitIsTruthful, hostVars
<1>6. CASE RunDml(h)
  <2> DEFINE kw == stmts[h].text.kw
             keys == Keys(stmts[h])
             r == ApplyDml(kw, keys, conn.tx[1])
             a == Autocommit(kw, keys, db)
             t == ApplyDml(kw, keys, told)
  <2>1. UNCHANGED <<hung, saved>>
    BY <1>6 DEF RunDml
  <2>2. CASE keys = <<>>
    <3>1. UNCHANGED <<hostVars, conn, told>>
      BY <1>6, <2>2, Zenon DEF RunDml
    <3> QED  BY <1>1, <2>1, <3>1, CInvSame DEF hostVars
  <2>3. CASE keys # <<>> /\ conn.tx # <<>>
    <3>1. /\ conn' = [conn EXCEPT !.tx = <<r.content>>]
          /\ told' = t.content
          /\ UNCHANGED hostVars
      BY <1>6, <2>3, Zenon DEF RunDml
    <3>2. told = conn.tx[1]
      BY <1>1, <2>3 DEF CInv, AutocommitIsTruthful
    <3>3. told' = r.content
      BY <3>1, <3>2, Zenon
    <3> HIDE DEF r
    <3> QED  BY <1>1, <2>1, <2>3, <3>1, <3>3
               DEF CInv, Connected, AutocommitIsTruthful, hostVars
  <2>4. CASE keys # <<>> /\ conn.tx = <<>>
    <3>1. /\ db' = a.content
          /\ told' = IF a.ok THEN t.content ELSE told
          /\ UNCHANGED <<gate, faults, conn>>
      BY <1>6, <2>4, Zenon DEF RunDml
    <3>2. told = db
      BY <1>1, <2>4 DEF CInv, AutocommitIsTruthful
    <3> DEFINE d == ApplyDml(kw, keys, db)
    <3>3. a.ok = d.ok /\ a.content = IF d.ok THEN d.content ELSE db
      BY AutocommitIsAtomic
    <3>4. told' = db'
      <4>1. t = d
        BY <3>2, Zenon
      <4> HIDE DEF a, t, d
      <4> QED  BY <3>1, <3>2, <3>3, <4>1
    <3> QED  BY <1>1, <2>1, <2>4, <3>1, <3>4
               DEF CInv, Connected, AutocommitIsTruthful, hostVars
  <2> QED  BY <2>2, <2>3, <2>4
<1>7. CASE RunOther(h)
  <2> DEFINE new == ToSet(Keys(stmts[h]))
  <2>1. /\ IF conn.tx # <<>> THEN hung' = TRUE /\ UNCHANGED <<db, told>>
           ELSE /\ db' = db \cup new /\ told' = told \cup new
                /\ UNCHANGED hung
        /\ UNCHANGED <<gate, faults, conn, saved>>
    BY <1>7, Zenon DEF RunOther
  <2> HIDE DEF new
  <2> QED  BY <1>1, <2>1 DEF CInv, Connected, AutocommitIsTruthful, hostVars
<1> QED  BY <1>2, <1>3, <1>4, <1>5, <1>6, <1>7 DEF Step

LEMMA CInvExec ==
    ASSUME CInv, ~hung, UNCHANGED front, front = "c", NEW f, NEW s, Exec(f, s)
    PROVE  CInv'
<1> DEFINE one == Autocommit("INSERT", <<f>>, db)
           two == Autocommit("INSERT", <<s>>, one.content)
           both == ApplyDml("INSERT", <<f, s>>, told).content
           after == IF one.ok THEN two.content ELSE db
<1>1. /\ conn.open
      /\ IF conn.tx # <<>> THEN hung' = TRUE /\ UNCHANGED <<db, told>>
         ELSE /\ db' = after /\ told' = both
              /\ UNCHANGED hung
      /\ UNCHANGED <<gate, faults, conn, saved>>
  BY Zenon DEF Exec
<1>2. told = db => after = both
  BY ExecIsPrefix
<1> HIDE DEF after, both
<1> QED  BY <1>1, <1>2 DEF CInv, Connected, AutocommitIsTruthful, hostVars

\* The async interface has no connection of this kind.
LEMMA CInvAsync ==
    ASSUME CInv, front = "async", UNCHANGED <<cVars, front>>
    PROVE  CInv'
BY DEF CInv, Connected, AutocommitIsTruthful, cVars, Live

LEMMA CInvNext == ASSUME CInv, [Next]_vars PROVE CInv'
<1>1. CASE UNCHANGED vars
  BY <1>1 DEF vars, hostVars, cVars, CInv, Connected, AutocommitIsTruthful, Live
<1>2. CASE front = "c" /\ CNext /\ UNCHANGED <<aVars, front>>
  BY <1>2, CInvHandles, CInvStep, CInvExec DEF CNext
<1>3. CASE front = "async" /\ ANext /\ UNCHANGED <<cVars, front>>
  BY <1>3, CInvAsync
<1> QED  BY <1>1, <1>2, <1>3 DEF Next

\* get_autocommit tells where the writes are that the host was told of: they are
\* committed while it is 1, and in the open transaction, over the database as it
\* was at BEGIN, while it is 0 (state.rs run, exec.rs, meta.rs).
THEOREM ConnectionIsTruthful == Spec => []AutocommitIsTruthful
<1>1. Init => CInv
  BY CInvInit
<1>2. CInv /\ [Next]_vars => CInv'
  BY CInvNext
<1>3. CInv => AutocommitIsTruthful
  BY DEF CInv
<1> QED  BY <1>1, <1>2, <1>3, PTL DEF Spec

-----------------------------------------------------------------------------
(* The cursors of the C interface.                                         *)

\* The table that a SELECT returns is a sequence.
LEMMA SelectAllIs ==
    ASSUME NEW D, IsFiniteSet(D)
    PROVE  \E S : SelectAll(D) \in Seq(S)
<1> DEFINE n == Cardinality(D)
           q == SelectAll(D)
           S == {q[i] : i \in 1..n}
<1>1. n \in Nat
  BY FS_CardinalityType
<1> DEFINE row(i) == CHOOSE k \in D : Cardinality({j \in D : j < k}) = i - 1
<1>2. q = [i \in 1..n |-> row(i)]
  BY Zenon DEF SelectAll
<1> HIDE DEF n, q, row
<1>3. DOMAIN q = 1..n /\ q = [i \in 1..n |-> q[i]]
  BY <1>2
<1>4. q \in [1..n -> S]
  BY <1>3
<1> HIDE DEF S
<1>5. q \in Seq(S)
  BY <1>1, <1>4
<1> QED  BY <1>5 DEF q

\* One row more of a sequence.
LEMMA OneMore ==
    ASSUME NEW S, NEW q \in Seq(S), NEW n \in 0..Len(q), n < Len(q)
    PROVE  Append(SubSeq(q, 1, n), q[n + 1]) = SubSeq(q, 1, n + 1)
<1>1. n \in Nat /\ Len(q) \in Nat /\ n + 1 \in 1..Len(q) /\ (n + 1) - 1 = n
      /\ 1 \in 1..Len(q)
  OBVIOUS
<1>2. SubSeq(q, 1, n + 1) = SubSeq(q, 1, n) \o <<q[n + 1]>>
  BY <1>1, SubSeqRecursiveSecond
<1>3. \A i \in 1..n : q[i] \in S
  BY <1>1
<1>4. SubSeq(q, 1, n) \in Seq(S) /\ q[n + 1] \in S
  BY <1>1, <1>3, SubSeqProperties
<1>5. Append(SubSeq(q, 1, n), q[n + 1]) = SubSeq(q, 1, n) \o <<q[n + 1]>>
  BY <1>4, AppendIsConcat
<1> QED  BY <1>2, <1>5

\* The fields of StmtState; a statement that was not run stands at the start.
Shaped(s) ==
    /\ DOMAIN s = {"state", "text", "params", "executed", "is_query", "rows",
                   "cursor", "current", "busy"}
    /\ s.text \in Texts /\ s.params \in Seq(Rows)
    /\ ~s.executed => s.cursor = 0

\* Statement s has given the first cursor rows of content D, and stands on the
\* last of them unless there are no more.
Gives(s, D, got) ==
    /\ IsFiniteSet(D)
    /\ s.rows = SelectAll(D)
    /\ s.cursor \in 0..Len(s.rows)
    /\ got = SubSeq(s.rows, 1, s.cursor)

\* A statement that was run as a query reads what the host believed in then, and
\* every other has read nothing.
Reads(s, r) ==
    IF s.executed /\ s.is_query
    THEN /\ r.source = <<r.source[1]>>
         /\ Gives(s, r.source[1], r.got)
         /\ ~s.busy => s.cursor = Len(s.rows)
    ELSE r.source = <<>>

Cursors ==
    /\ DOMAIN stmts = Handles /\ DOMAIN seen = Handles
    /\ \A h \in Handles :
          /\ DOMAIN seen[h] = {"source", "got"}
          /\ Live(h) => Shaped(stmts[h]) /\ Reads(stmts[h], seen[h])

\* The C interface only ever sees finite tables.
Contents ==
    front = "c" =>
        /\ IsFiniteSet(db) /\ IsFiniteSet(told) /\ IsFiniteSet(saved)
        /\ conn.tx # <<>> => IsFiniteSet(conn.tx[1])

KInv == CInv /\ Cursors /\ Contents

LEMMA KeysFinite ==
    ASSUME NEW keys \in Seq(Rows)
    PROVE  IsFiniteSet(ToSet(keys))
<1>1. Len(keys) \in Nat /\ DOMAIN keys = 1..Len(keys)
  OBVIOUS
<1>2. IsFiniteSet(DOMAIN keys)
  BY <1>1, FS_Interval
<1>3. keys \in Surjection(DOMAIN keys, ToSet(keys))
  BY DEF Surjection, ToSet
<1> QED  BY <1>2, <1>3, FS_Surjection

\* A statement leaves a finite table finite.
LEMMA ApplyDmlFinite ==
    ASSUME NEW kw, NEW keys \in Seq(Rows), NEW D, IsFiniteSet(D)
    PROVE  IsFiniteSet(ApplyDml(kw, keys, D).content)
<1> DEFINE bad == {i \in 1..Len(keys) :
                     keys[i] \in D \cup {keys[j] : j \in 1..(i - 1)}}
           upto == IF bad = {} THEN Len(keys) ELSE (CHOOSE i \in bad : \A j \in bad : i <= j) - 1
           added == {keys[i] : i \in 1..upto}
           r == ApplyDml(kw, keys, D)
<1>1. CASE kw = "DELETE"
  <2>1. r.content = D \ ToSet(keys)
    BY <1>1, Zenon DEF ApplyDml
  <2>2. r.content \in SUBSET D
    BY <2>1
  <2> QED  BY <2>2, FS_Subset
<1>2. CASE kw # "DELETE"
  <2> DEFINE fits == bad = {}
  <2>1. r = [content |-> D \cup added, ok |-> fits]
    BY <1>2, Zenon DEF ApplyDml
  <2>2. upto <= Len(keys) /\ upto \in Int
    <3>1. bad \subseteq 1..Len(keys) /\ Len(keys) \in Nat
      OBVIOUS
    <3> HIDE DEF bad
    <3>2. CASE bad = {}
      BY <3>1, <3>2
    <3>3. CASE bad # {}
      <4>1. bad \subseteq Nat
        BY <3>1
      <4>2. \E i \in bad : \A j \in bad : i <= j
        BY <3>3, <4>1, LeastExists
      <4>3. (CHOOSE i \in bad : \A j \in bad : i <= j) \in bad
        BY <4>2, Zenon
      <4> HIDE DEF upto
      <4>4. \E i \in bad : upto = i - 1
        BY <3>3, <4>3 DEF upto
      <4> QED  BY <3>1, <4>4
    <3> QED  BY <3>2, <3>3
  <2> HIDE DEF upto, fits
  <2>3. added \subseteq ToSet(keys)
    <3>1. \A i \in 1..upto : i \in DOMAIN keys
      BY <2>2
    <3> QED  BY <3>1 DEF ToSet
  <2> HIDE DEF added
  <2>4. r.content = D \cup added
    BY <2>1
  <2>5. IsFiniteSet(added)
    BY <2>3, KeysFinite, FS_Subset
  <2> QED  BY <2>4, <2>5, FS_Union
<1> QED  BY <1>1, <1>2

LEMMA AutocommitFinite ==
    ASSUME NEW kw, NEW keys \in Seq(Rows), NEW D, IsFiniteSet(D)
    PROVE  IsFiniteSet(Autocommit(kw, keys, D).content)
<1>1. Autocommit(kw, keys, D).content = IF ApplyDml(kw, keys, D).ok
                                        THEN ApplyDml(kw, keys, D).content ELSE D
  BY AutocommitIsAtomic
<1>2. IsFiniteSet(ApplyDml(kw, keys, D).content)
  BY ApplyDmlFinite
<1> QED  BY <1>1, <1>2, Zenon

-----------------------------------------------------------------------------
(* What a step leaves of the rows.                                         *)

\* The keys of a statement, from its text or from its parameters.
LEMMA KeysAre ==
    ASSUME NEW s, Shaped(s)
    PROVE  Keys(s) \in Seq(Rows)
BY TextsAssumption DEF Shaped, Keys

LEMMA ContentsStep ==
    ASSUME KInv, ~hung, UNCHANGED front, front = "c", CNext
    PROVE  Contents'
<1>1. /\ IsFiniteSet(db) /\ IsFiniteSet(told) /\ IsFiniteSet(saved)
      /\ conn.tx # <<>> => IsFiniteSet(conn.tx[1])
      /\ conn = [open |-> conn.open, tx |-> conn.tx]
      /\ conn.tx # <<>> => conn.tx = <<conn.tx[1]>>
  BY DEF KInv, Contents, CInv, Connected
<1>2. CASE Open \/ Close
  BY <1>1, <1>2 DEF Open, Close, Contents, hostVars
<1>3. ASSUME NEW h \in Handles,
             \/ \E text \in Texts : Prepare(h, text)
             \/ \E key \in Rows : Bind(h, key)
             \/ Finalize(h) \/ ClearBindings(h) \/ Reset(h) \/ StepOn(h) \/ RunQuery(h)
      PROVE  Contents'
  <2>1. UNCHANGED <<hostVars, conn, told, saved>>
    BY <1>3, Zenon DEF Prepare, Bind, Finalize, ClearBindings, Reset, StepOn, RunQuery
  <2> QED  BY <1>1, <2>1 DEF Contents, hostVars
<1>4. ASSUME NEW h \in Handles, RunBegin(h) \/ RunCommit(h) \/ RunRollback(h)
      PROVE  Contents'
  BY <1>1, <1>4 DEF RunBegin, RunCommit, RunRollback, Contents, hostVars
<1>5. ASSUME NEW h \in Handles, RunDml(h) PROVE Contents'
  <2> DEFINE kw == stmts[h].text.kw
             keys == Keys(stmts[h])
             r == ApplyDml(kw, keys, conn.tx[1])
             a == Autocommit(kw, keys, db)
             t == ApplyDml(kw, keys, told)
  <2>1. Live(h)
    BY <1>5 DEF RunDml, Runs
  <2>2. keys \in Seq(Rows)
    BY <2>1, KeysAre DEF KInv, Cursors
  <2>3. /\ UNCHANGED saved
        /\ \/ UNCHANGED <<db, conn, told>>
           \/ /\ conn.tx # <<>> /\ conn' = [conn EXCEPT !.tx = <<r.content>>]
              /\ told' = t.content /\ UNCHANGED db
           \/ /\ conn' = conn /\ db' = a.content
              /\ told' = t.content \/ told' = told
    BY <1>5, Zenon DEF RunDml, hostVars
  <2>4. IsFiniteSet(t.content) /\ IsFiniteSet(a.content)
    BY <1>1, <2>2, ApplyDmlFinite, AutocommitFinite
  <2>5. conn.tx # <<>> => IsFiniteSet(r.content)
    BY <1>1, <2>2, ApplyDmlFinite
  <2> HIDE DEF r, a, t
  <2> QED  BY <1>1, <2>3, <2>4, <2>5 DEF Contents
<1>6. ASSUME NEW h \in Handles, RunOther(h) PROVE Contents'
  <2> DEFINE new == ToSet(Keys(stmts[h]))
  <2>1. Live(h)
    BY <1>6 DEF RunOther, Runs
  <2>2. IsFiniteSet(new)
    BY <2>1, KeysAre, KeysFinite DEF KInv, Cursors
  <2>3. /\ UNCHANGED <<conn, saved>>
        /\ \/ UNCHANGED <<db, told>>
           \/ db' = db \cup new /\ told' = told \cup new
    BY <1>6, Zenon DEF RunOther
  <2> HIDE DEF new
  <2>4. IsFiniteSet(db') /\ IsFiniteSet(told')
    BY <1>1, <2>2, <2>3, FS_Union
  <2> QED  BY <1>1, <2>3, <2>4 DEF Contents
<1>7. ASSUME NEW f \in Rows, NEW s \in Rows, Exec(f, s) PROVE Contents'
  <2> DEFINE one == Autocommit("INSERT", <<f>>, db)
             two == Autocommit("INSERT", <<s>>, one.content)
             both == ApplyDml("INSERT", <<f, s>>, told)
  <2>1. /\ UNCHANGED <<conn, saved>>
        /\ \/ UNCHANGED <<db, told>>
           \/ /\ db' = two.content \/ db' = db
              /\ told' = both.content
    BY <1>7, Zenon DEF Exec
  <2>2. <<f>> \in Seq(Rows) /\ <<s>> \in Seq(Rows) /\ <<f, s>> \in Seq(Rows)
    OBVIOUS
  <2>3. IsFiniteSet(one.content)
    BY <1>1, <2>2, AutocommitFinite
  <2>4. IsFiniteSet(two.content) /\ IsFiniteSet(both.content)
    BY <1>1, <2>2, <2>3, AutocommitFinite, ApplyDmlFinite
  <2> HIDE DEF two, both
  <2> QED  BY <1>1, <2>1, <2>4 DEF Contents
<1> QED  BY <1>2, <1>3, <1>4, <1>5, <1>6, <1>7 DEF CNext, Step

-----------------------------------------------------------------------------
(* What a step leaves of a statement.                                      *)

\* StmtState::step returns the next row, or says that there is none.
LEMMA AdvancedIs ==
    ASSUME NEW s, Shaped(s)
    PROVE  /\ DOMAIN Advanced(s) = DOMAIN s
           /\ \A f \in {"state", "text", "params", "executed", "is_query", "rows"} :
                 Advanced(s)[f] = s[f]
           /\ IF s.is_query /\ s.cursor < Len(s.rows)
              THEN /\ Advanced(s).busy /\ Advanced(s).cursor = s.cursor + 1
                   /\ Advanced(s).current = <<s.cursor>>
              ELSE ~Advanced(s).busy /\ Advanced(s).cursor = s.cursor
<1>1. CASE s.is_query /\ s.cursor < Len(s.rows)
  BY <1>1 DEF Advanced, Shaped
<1>2. CASE ~(s.is_query /\ s.cursor < Len(s.rows))
  BY <1>2 DEF Advanced, Shaped
<1> QED  BY <1>1, <1>2

\* The row it returns is the one that was due.
LEMMA AdvancedGives ==
    ASSUME NEW s, Shaped(s), s.is_query, NEW D, NEW got, Gives(s, D, got)
    PROVE  /\ Gives(Advanced(s), D, Given(s, got))
           /\ ~Advanced(s).busy => Advanced(s).cursor = Len(Advanced(s).rows)
<1> DEFINE a == Advanced(s)
           q == s.rows
<1>1. PICK S : q \in Seq(S)
  BY SelectAllIs DEF Gives
<1>2. Len(q) \in Nat /\ s.cursor \in 0..Len(q) /\ s.cursor \in Nat
  BY <1>1 DEF Gives
<1>3. /\ a.rows = q
      /\ IF s.cursor < Len(q)
         THEN a.busy /\ a.cursor = s.cursor + 1 /\ a.current = <<s.cursor>>
         ELSE ~a.busy /\ a.cursor = s.cursor
  BY AdvancedIs
<1>4. Given(s, got) = IF a.busy THEN Append(got, value_at(a)) ELSE got
  BY Zenon DEF Given
<1>5. value_at(a) = a.rows[a.current[1] + 1]
  BY Zenon DEF value_at
<1>6. IsFiniteSet(D) /\ q = SelectAll(D) /\ got = SubSeq(q, 1, s.cursor)
  BY DEF Gives
<1> HIDE DEF a, q
<1>7. CASE s.cursor < Len(q)
  <2>1. value_at(a) = q[s.cursor + 1]
    BY <1>3, <1>5, <1>7
  <2>2. Append(got, q[s.cursor + 1]) = SubSeq(q, 1, s.cursor + 1)
    BY <1>1, <1>2, <1>6, <1>7, OneMore
  <2>3. Given(s, got) = SubSeq(a.rows, 1, a.cursor)
    BY <1>3, <1>4, <1>7, <2>1, <2>2
  <2>4. a.cursor \in 0..Len(a.rows)
    BY <1>2, <1>3, <1>7
  <2> QED  BY <1>3, <1>6, <1>7, <2>3, <2>4 DEF Gives, a
<1>8. CASE ~(s.cursor < Len(q))
  <2>1. a.cursor = Len(q) /\ ~a.busy
    BY <1>2, <1>3, <1>8
  <2>2. Given(s, got) = SubSeq(a.rows, 1, a.cursor) /\ a.cursor \in 0..Len(a.rows)
    BY <1>2, <1>3, <1>4, <1>6, <1>8, <2>1
  <2> QED  BY <1>3, <1>6, <2>1, <2>2 DEF Gives, a
<1> QED  BY <1>7, <1>8

\* Steps that change one statement and its run, and leave both in order.
LEMMA CursorKeeps ==
    ASSUME Cursors, NEW h \in Handles, NEW s, NEW r,
           stmts' = [stmts EXCEPT ![h] = s],
           seen' = [seen EXCEPT ![h] = r] \/ (seen' = seen /\ seen[h] = r),
           DOMAIN r = {"source", "got"},
           s.state = "live" => Shaped(s) /\ Reads(s, r)
    PROVE  Cursors'
<1>1. \A g \in Handles : g # h => stmts'[g] = stmts[g] /\ seen'[g] = seen[g]
  BY DEF Cursors
<1>2. stmts'[h] = s /\ seen'[h] = r
  BY DEF Cursors
<1>3. \A g \in Handles :
         /\ DOMAIN seen'[g] = {"source", "got"}
         /\ stmts'[g].state = "live" => Shaped(stmts'[g]) /\ Reads(stmts'[g], seen'[g])
  BY <1>1, <1>2 DEF Cursors, Live
<1> QED  BY <1>3 DEF Cursors, Live

\* A first step of anything that is not a query leaves the statement executed.
LEMMA RanKeeps ==
    ASSUME KInv, NEW h \in Handles, Live(h), ~stmts[h].executed, Ran(h), UNCHANGED seen
    PROVE  Cursors'
<1> DEFINE s == [stmts[h] EXCEPT !.executed = TRUE, !.is_query = FALSE]
<1>1. Shaped(stmts[h]) /\ Reads(stmts[h], seen[h]) /\ DOMAIN seen[h] = {"source", "got"}
  BY DEF KInv, Cursors
<1>2. /\ DOMAIN s = DOMAIN stmts[h] /\ s.executed /\ ~s.is_query
      /\ s.text = stmts[h].text /\ s.params = stmts[h].params
  BY <1>1 DEF Shaped
<1>3. stmts' = [stmts EXCEPT ![h] = s]
  BY DEF Ran
<1> HIDE DEF s
<1>4. Shaped(s) /\ Reads(s, seen[h])
  BY <1>1, <1>2 DEF Shaped, Reads
<1> QED  BY <1>1, <1>3, <1>4, CursorKeeps DEF KInv

LEMMA CursorsQuery ==
    ASSUME KInv, front = "c", NEW h \in Handles, RunQuery(h)
    PROVE  Cursors'
<1> DEFINE s == [stmts[h] EXCEPT !.executed = TRUE, !.is_query = TRUE,
                                 !.rows = SelectAll(ReadSource)]
           r == [source |-> <<told>>, got |-> Given(s, <<>>)]
<1>1. /\ Live(h) /\ ~stmts[h].executed
      /\ stmts' = [stmts EXCEPT ![h] = Advanced(s)]
      /\ seen' = [seen EXCEPT ![h] = r]
  BY Zenon DEF RunQuery, Runs
<1>2. Shaped(stmts[h])
  BY <1>1 DEF KInv, Cursors
<1>3. conn.open
  BY <1>1 DEF KInv, CInv, Connected
<1>4. ReadSource = told /\ IsFiniteSet(told)
  BY <1>3 DEF KInv, CInv, AutocommitIsTruthful, Contents, ReadSource
<1>5. /\ DOMAIN s = DOMAIN stmts[h] /\ s.executed /\ s.is_query /\ s.rows = SelectAll(told)
      /\ s.cursor = 0 /\ s.text = stmts[h].text /\ s.params = stmts[h].params
  BY <1>1, <1>2, <1>4 DEF Shaped
<1> HIDE DEF s
<1>6. Shaped(s)
  BY <1>2, <1>5 DEF Shaped
<1>7. Gives(s, told, <<>>)
  <2>1. PICK S : s.rows \in Seq(S)
    BY <1>4, <1>5, SelectAllIs
  <2>2. SubSeq(s.rows, 1, 0) = <<>>
    BY SubSeqEmpty
  <2>3. 0 \in 0..Len(s.rows)
    BY <2>1
  <2> QED  BY <1>4, <1>5, <2>2, <2>3 DEF Gives
<1>8. /\ Gives(Advanced(s), told, Given(s, <<>>))
      /\ ~Advanced(s).busy => Advanced(s).cursor = Len(Advanced(s).rows)
  BY <1>5, <1>6, <1>7, AdvancedGives
<1>9. /\ DOMAIN Advanced(s) = DOMAIN s
      /\ Advanced(s).executed /\ Advanced(s).is_query
      /\ Advanced(s).text = s.text /\ Advanced(s).params = s.params
  BY <1>5, <1>6, AdvancedIs
<1>10. DOMAIN r = {"source", "got"} /\ r.source = <<told>> /\ r.got = Given(s, <<>>)
  OBVIOUS
<1> HIDE DEF r
<1>11. Shaped(Advanced(s)) /\ Reads(Advanced(s), r)
  BY <1>6, <1>8, <1>9, <1>10 DEF Shaped, Reads
<1> QED  BY <1>1, <1>10, <1>11, CursorKeeps DEF KInv

LEMMA CursorsStepOn ==
    ASSUME KInv, NEW h \in Handles, StepOn(h)
    PROVE  Cursors'
<1> DEFINE s == stmts[h]
           a == Advanced(s)
           r == [seen[h] EXCEPT !.got = Given(s, @)]
<1>1. /\ Live(h) /\ s.executed
      /\ stmts' = [stmts EXCEPT ![h] = a]
      /\ seen' = [seen EXCEPT ![h].got = Given(stmts[h], @)]
  BY Zenon DEF StepOn
<1>2. Shaped(s) /\ Reads(s, seen[h]) /\ DOMAIN seen[h] = {"source", "got"}
  BY <1>1 DEF KInv, Cursors
<1>3. seen' = [seen EXCEPT ![h] = r]
  BY <1>1, Zenon
<1>4. DOMAIN r = {"source", "got"} /\ r.source = seen[h].source /\ r.got = Given(s, seen[h].got)
  BY <1>2
<1>5. /\ DOMAIN a = DOMAIN s
      /\ a.executed = s.executed /\ a.is_query = s.is_query
      /\ a.text = s.text /\ a.params = s.params
  BY <1>2, AdvancedIs
<1>6. s.is_query => /\ Gives(a, seen[h].source[1], Given(s, seen[h].got))
                    /\ ~a.busy => a.cursor = Len(a.rows)
  BY <1>1, <1>2, AdvancedGives DEF Reads
<1> HIDE DEF s, a, r
<1>7. Shaped(a) /\ Reads(a, r)
  BY <1>1, <1>2, <1>4, <1>5, <1>6 DEF Shaped, Reads
<1> QED  BY <1>1, <1>3, <1>4, <1>7, CursorKeeps DEF KInv

LEMMA CursorsHandles ==
    ASSUME KInv, NEW h \in Handles,
           \/ \E text \in Texts : Prepare(h, text)
           \/ \E key \in Rows : Bind(h, key)
           \/ Finalize(h) \/ ClearBindings(h) \/ Reset(h)
    PROVE  Cursors'
<1>1. DOMAIN NotRun = {"source", "got"} /\ NotRun.source = <<>>
  BY DEF NotRun
<1>2. ASSUME NEW text \in Texts, Prepare(h, text) PROVE Cursors'
  <2> DEFINE s == NewStmt(text)
  <2>1. stmts' = [stmts EXCEPT ![h] = s] /\ seen' = [seen EXCEPT ![h] = NotRun]
    BY <1>2, Zenon DEF Prepare
  <2>2. Shaped(s) /\ ~s.executed
    BY DEF NewStmt, Shaped
  <2> HIDE DEF s
  <2>3. Reads(s, NotRun)
    BY <1>1, <2>2 DEF Reads
  <2> QED  BY <1>1, <2>1, <2>2, <2>3, CursorKeeps DEF KInv
<1>3. CASE Finalize(h)
  <2>1. stmts' = [stmts EXCEPT ![h] = NoStmt] /\ seen' = [seen EXCEPT ![h] = NotRun]
    BY <1>3, Zenon DEF Finalize
  <2>2. NoStmt.state # "live"
    BY DEF NoStmt
  <2> QED  BY <1>1, <2>1, <2>2, CursorKeeps DEF KInv
<1>4. ASSUME NEW ps \in Seq(Rows), Live(h), UNCHANGED seen,
             stmts' = [stmts EXCEPT ![h].params = ps]
      PROVE  Cursors'
  <2> DEFINE s == [stmts[h] EXCEPT !.params = ps]
  <2>1. Shaped(stmts[h]) /\ Reads(stmts[h], seen[h]) /\ DOMAIN seen[h] = {"source", "got"}
    BY <1>4 DEF KInv, Cursors
  <2>2. stmts' = [stmts EXCEPT ![h] = s] /\ seen' = seen
    BY <1>4, Zenon
  <2>3. /\ DOMAIN s = DOMAIN stmts[h] /\ s.params = ps
        /\ \A f \in DOMAIN s : f # "params" => s[f] = stmts[h][f]
    BY <2>1 DEF Shaped
  <2> HIDE DEF s
  <2>4. Shaped(s) /\ Reads(s, seen[h])
    BY <2>1, <2>3 DEF Shaped, Reads, Gives
  <2> QED  BY <2>1, <2>2, <2>4, CursorKeeps DEF KInv
<1>5. CASE \E key \in Rows : Bind(h, key)
  <2>1. \A key \in Rows : <<key>> \in Seq(Rows)
    OBVIOUS
  <2> QED  BY <1>4, <1>5, <2>1, Zenon DEF Bind
<1>6. CASE ClearBindings(h)
  <2>1. <<>> \in Seq(Rows)
    OBVIOUS
  <2> QED  BY <1>4, <1>6, <2>1, Zenon DEF ClearBindings
<1>7. CASE Reset(h)
  <2> DEFINE s == Rewound(stmts[h])
  <2>1. Live(h) /\ stmts' = [stmts EXCEPT ![h] = s] /\ seen' = [seen EXCEPT ![h] = NotRun]
    BY <1>7, Zenon DEF Reset
  <2>2. Shaped(stmts[h])
    BY <2>1 DEF KInv, Cursors
  <2>3. Shaped(s) /\ ~s.executed
    BY <2>2 DEF Rewound, Shaped
  <2> HIDE DEF s
  <2>4. Reads(s, NotRun)
    BY <1>1, <2>3 DEF Reads
  <2> QED  BY <1>1, <2>1, <2>3, <2>4, CursorKeeps DEF KInv
<1> QED  BY <1>2, <1>3, <1>5, <1>6, <1>7

LEMMA CursorsStep ==
    ASSUME KInv, front = "c", CNext
    PROVE  Cursors'
<1>1. ASSUME UNCHANGED <<stmts, seen>> PROVE Cursors'
  BY <1>1 DEF KInv, Cursors, Live
<1>2. CASE Open \/ Close \/ \E f, s \in Rows : Exec(f, s)
  <2>1. UNCHANGED <<stmts, seen>>
    BY <1>2, Zenon DEF Open, Close, Exec
  <2> QED  BY <1>1, <2>1
<1>3. ASSUME NEW h \in Handles,
             \/ \E text \in Texts : Prepare(h, text)
             \/ \E key \in Rows : Bind(h, key)
             \/ Finalize(h) \/ ClearBindings(h) \/ Reset(h)
      PROVE  Cursors'
  BY <1>3, CursorsHandles
<1>4. ASSUME NEW h \in Handles,
             RunBegin(h) \/ RunCommit(h) \/ RunRollback(h) \/ RunDml(h)
      PROVE  Cursors'
  <2>1. Live(h) /\ ~stmts[h].executed /\ Ran(h) /\ UNCHANGED seen
    BY <1>4, Zenon DEF RunBegin, RunCommit, RunRollback, RunDml, Runs
  <2> QED  BY <2>1, RanKeeps
<1>5. ASSUME NEW h \in Handles, RunOther(h) PROVE Cursors'
  <2>1. /\ Live(h) /\ ~stmts[h].executed /\ UNCHANGED seen
        /\ Ran(h) \/ UNCHANGED stmts
    BY <1>5, Zenon DEF RunOther, Runs
  <2> QED  BY <1>1, <2>1, RanKeeps
<1> QED
  BY <1>2, <1>3, <1>4, <1>5, CursorsQuery, CursorsStepOn DEF CNext, Step

\* The rows that sqlite3_step yields are those of the one state in which the
\* statement was first stepped, in order and without a gap, whatever is written,
\* committed, rebound or reset between two steps.
THEOREM CursorsKeepTheirState == Spec => []CursorReadsOneState
<1>1. Init => KInv
  <2>1. Init => Cursors
    BY DEF Init, CInit, Cursors, Live, NoStmt, NotRun
  <2>2. Init => Contents
    BY FS_EmptySet DEF Init, HostInit, CInit, Contents
  <2> QED  BY <2>1, <2>2, CInvInit DEF KInv
<1>2. KInv /\ [Next]_vars => KInv'
  <2> SUFFICES ASSUME KInv, [Next]_vars PROVE KInv'
    OBVIOUS
  <2>1. CInv'
    BY CInvNext DEF KInv
  <2>2. CASE UNCHANGED vars
    <3>1. Cursors' /\ Contents'
      BY <2>2 DEF vars, cVars, hostVars, KInv, Cursors, Contents, Live
    <3> QED  BY <2>1, <3>1 DEF KInv
  <2>3. CASE front = "c" /\ CNext /\ UNCHANGED <<aVars, front>>
    <3>1. ~hung
      BY <2>3 DEF CNext
    <3> QED  BY <2>1, <2>3, <3>1, CursorsStep, ContentsStep DEF KInv
  <2>4. CASE front = "async" /\ ANext /\ UNCHANGED <<cVars, front>>
    <3>1. Cursors' /\ Contents'
      BY <2>4 DEF cVars, KInv, Cursors, Contents, Live
    <3> QED  BY <2>1, <3>1 DEF KInv
  <2> QED  BY <2>2, <2>3, <2>4 DEF Next
<1>3. KInv => CursorReadsOneState
  <2> SUFFICES ASSUME KInv, NEW h \in Handles, Live(h), seen[h].source # <<>>
               PROVE  LET due == SelectAll(seen[h].source[1])
                          got == seen[h].got
                      IN  /\ Len(got) <= Len(due) /\ got = SubSeq(due, 1, Len(got))
                          /\ ~stmts[h].busy => got = due
    BY DEF CursorReadsOneState
  <2> DEFINE s == stmts[h]
             q == SelectAll(seen[h].source[1])
             got == seen[h].got
  <2>1. /\ Gives(s, seen[h].source[1], got)
        /\ ~s.busy => s.cursor = Len(s.rows)
    BY DEF KInv, Cursors, Reads
  <2>2. /\ IsFiniteSet(seen[h].source[1]) /\ s.rows = q
        /\ s.cursor \in 0..Len(q) /\ got = SubSeq(q, 1, s.cursor)
    BY <2>1 DEF Gives
  <2>3. PICK S : q \in Seq(S)
    BY <2>2, SelectAllIs
  <2> HIDE DEF s, q, got
  <2>4. s.cursor \in Nat /\ Len(q) \in Nat /\ s.cursor <= Len(q)
        /\ \A i \in 1..s.cursor : q[i] \in S
    BY <2>2, <2>3
  <2>5. Len(got) = s.cursor
    BY <2>2, <2>4, SubSeqProperties
  <2>6. ~s.busy => got = q
    BY <2>1, <2>2, <2>3, SubSeqFull
  <2>7. Len(got) <= Len(q) /\ got = SubSeq(q, 1, Len(got)) /\ (~s.busy => got = q)
    BY <2>2, <2>4, <2>5, <2>6
  <2> QED  BY <2>7 DEF s, q, got
<1> QED  BY <1>1, <1>2, <1>3, PTL DEF Spec

-----------------------------------------------------------------------------
(* run_migrations.                                                         *)

\* What the steps of a task keep is stated of two parts of its record.
At(t) == task[t].at
Done(t) == task[t].applied

Stepping == {"migrate", "read"}

Records == [t \in Tasks |-> [at |-> task[t].at, tx |-> task[t].tx, applied |-> task[t].applied]]
MTyped ==
    /\ task = Records
    /\ book = [table |-> book.table, recorded |-> book.recorded, effects |-> book.effects]
    /\ book.recorded \subseteq Versions
    /\ book.effects \in [Versions -> Nat]
    /\ disturbed \in BOOLEAN

\* Who waits for a handle is in the queue at most once, and does nothing else.
Queued ==
    /\ queue \in Seq(Tasks)
    /\ \A i \in 1..Len(queue) : task[queue[i]].at = "get"
    /\ \A i, j \in 1..Len(queue) : queue[i] = queue[j] => i = j

\* A run knows of no record that is not there.  The one migration it has run and
\* not recorded has taken effect, and is the next after those that are recorded.
RunsInStep ==
    \A t \in Tasks : At(t) = "migrate" =>
        \A v \in Versions :
            /\ v \in Done(t) => v \in book.recorded
            /\ -v \in Done(t) => /\ book.effects[v] > 0 /\ v \notin Done(t)
                                 /\ \A u \in Versions : u < v => u \in Done(t)

\* As long as nothing was cut short there is one run at a time, it knows of
\* every record, and what has taken effect is recorded or about to be.
Undisturbed ==
    ~disturbed =>
        /\ \A t, u \in Tasks : At(t) \in Stepping /\ At(u) \in Stepping => t = u
        /\ \A t \in Tasks : At(t) = "migrate" => book.recorded \subseteq Done(t)
        /\ \A v \in Versions : book.effects[v] > 0 =>
              \/ v \in book.recorded
              \/ \E t \in Tasks : At(t) = "migrate" /\ -v \in Done(t)

MInv == MTyped /\ Queued /\ RunsInStep /\ Undisturbed /\ MigrationsInOrder

LEMMA MInvInit == Init => MInv
<1> SUFFICES ASSUME Init PROVE MInv
  OBVIOUS
<1> USE DEF Init, AInit, Idle
<1>1. MTyped
  BY DEF MTyped, Records
<1>2. Queued
  BY DEF Queued
<1>3. RunsInStep /\ Undisturbed /\ MigrationsInOrder
  <2>1. \A t \in Tasks : At(t) = "idle"
    BY DEF At
  <2>2. book.recorded = {} /\ \A v \in Versions : book.effects[v] = 0
    OBVIOUS
  <2> QED  BY <2>1, <2>2 DEF RunsInStep, Undisturbed, MigrationsInOrder, Stepping
<1> QED  BY <1>1, <1>2, <1>3 DEF MInv

\* The record of one task is replaced.
Moved(t, p, x, a) ==
    [u \in Tasks |-> IF u = t THEN [at |-> p, tx |-> x, applied |-> a] ELSE task[u]]

LEMMA Moves ==
    ASSUME MTyped, NEW t \in Tasks, NEW p, NEW a
    PROVE  /\ Go(t, p) = Moved(t, p, task[t].tx, Done(t))
           /\ [Go(t, p) EXCEPT ![t].tx = a] = Moved(t, p, a, Done(t))
           /\ [task EXCEPT ![t].applied = a] = Moved(t, At(t), task[t].tx, a)
           /\ [task EXCEPT ![t].tx = a] = Moved(t, At(t), a, Done(t))
           /\ Ended(t) = Moved(t, "have", {}, Done(t))
           /\ [Ended(t) EXCEPT ![t].at = p] = Moved(t, p, {}, Done(t))
<1>1. /\ task = [u \in Tasks |-> task[u]]
      /\ task[t] = [at |-> At(t), tx |-> task[t].tx, applied |-> Done(t)]
  <2>1. task = Records
    BY DEF MTyped
  <2> QED  BY <2>1 DEF Records, At, Done
<1> DEFINE tx == task[t].tx
           done == Done(t)
           at == At(t)
<1> HIDE DEF tx, done, at
<1>2. /\ task = [u \in Tasks |-> task[u]]
      /\ task[t] = [at |-> at, tx |-> tx, applied |-> done]
  BY <1>1 DEF tx, done, at
<1>3. [task EXCEPT ![t].applied = a] = Moved(t, at, tx, a)
  BY <1>2 DEF Moved
<1>4. [task EXCEPT ![t].tx = a] = Moved(t, at, a, done)
  BY <1>2 DEF Moved
<1>5. ASSUME NEW q PROVE Go(t, q) = Moved(t, q, tx, done)
  BY <1>2 DEF Go, Moved
<1>6. [Go(t, p) EXCEPT ![t].tx = a] = Moved(t, p, a, done)
  <2> DEFINE g == Go(t, p)
  <2>1. g = Moved(t, p, tx, done)
    BY <1>5
  <2> HIDE DEF g
  <2>2. /\ g = [u \in Tasks |-> g[u]]
        /\ g[t] = [at |-> p, tx |-> tx, applied |-> done]
        /\ \A u \in Tasks : u # t => g[u] = task[u]
    BY <2>1 DEF Moved
  <2>3. [g EXCEPT ![t].tx = a] = Moved(t, p, a, done)
    BY <2>2 DEF Moved
  <2> QED  BY <2>3 DEF g
<1>7. Ended(t) = Moved(t, "have", {}, done)
  <2> DEFINE g == Go(t, "have")
  <2>1. g = Moved(t, "have", tx, done)
    BY <1>5
  <2> HIDE DEF g
  <2>2. /\ g = [u \in Tasks |-> g[u]]
        /\ g[t] = [at |-> "have", tx |-> tx, applied |-> done]
        /\ \A u \in Tasks : u # t => g[u] = task[u]
    BY <2>1 DEF Moved
  <2>3. [g EXCEPT ![t].tx = {}] = Moved(t, "have", {}, done)
    BY <2>2 DEF Moved
  <2> QED  BY <2>3 DEF g, Ended
<1>8. [Ended(t) EXCEPT ![t].at = p] = Moved(t, p, {}, done)
  <2> DEFINE g == Ended(t)
  <2>1. g = Moved(t, "have", {}, done)
    BY <1>7
  <2> HIDE DEF g
  <2>2. /\ g = [u \in Tasks |-> g[u]]
        /\ g[t] = [at |-> "have", tx |-> {}, applied |-> done]
        /\ \A u \in Tasks : u # t => g[u] = task[u]
    BY <2>1 DEF Moved
  <2>3. [g EXCEPT ![t].at = p] = Moved(t, p, {}, done)
    BY <2>2 DEF Moved
  <2> QED  BY <2>3 DEF g
<1> QED  BY <1>3, <1>4, <1>5, <1>6, <1>7, <1>8 DEF tx, done, at

LEMMA MovesDone ==
    ASSUME MTyped, NEW t \in Tasks, NEW p, NEW a
    PROVE  [Go(t, p) EXCEPT ![t].applied = a] = Moved(t, p, task[t].tx, a)
<1> DEFINE g == Go(t, p)
           tx == task[t].tx
           done == Done(t)
<1>1. g = Moved(t, p, tx, done)
  BY Moves, Zenon
<1> HIDE DEF g, tx, done
<1>2. /\ g = [u \in Tasks |-> g[u]]
      /\ g[t] = [at |-> p, tx |-> tx, applied |-> done]
      /\ \A u \in Tasks : u # t => g[u] = task[u]
  BY <1>1 DEF Moved
<1>3. [g EXCEPT ![t].applied = a] = Moved(t, p, tx, a)
  BY <1>2 DEF Moved
<1> QED  BY <1>3 DEF g, tx

LEMMA MovesDoneHere ==
    ASSUME MTyped, NEW t \in Tasks, NEW a
    PROVE  [task EXCEPT ![t].applied = a] = Moved(t, At(t), task[t].tx, a)
BY Moves, Zenon

LEMMA MovedParts ==
    ASSUME MTyped, NEW t \in Tasks, NEW p, NEW x, NEW a, task' = Moved(t, p, x, a)
    PROVE  /\ task' = Records'
           /\ At(t)' = p /\ Done(t)' = a
           /\ \A u \in Tasks \ {t} : At(u)' = At(u) /\ Done(u)' = Done(u)
BY DEF MTyped, Records, Moved, At, Done

LEMMA WhereMoved ==
    ASSUME NEW t \in Tasks, NEW p, NEW x, NEW a, task' = Moved(t, p, x, a)
    PROVE  task'[t].at = p /\ \A u \in Tasks \ {t} : task'[u].at = task[u].at
BY DEF Moved

\* Steps that neither enter nor leave a run of the migrations, nor change what
\* one has done.
LEMMA QuietKeeps ==
    ASSUME MInv, task' = Records', UNCHANGED <<book, disturbed>>,
           \A u \in Tasks : At(u) \in Stepping \/ At(u)' \in Stepping
                               => At(u)' = At(u) /\ Done(u)' = Done(u)
    PROVE  (MTyped /\ RunsInStep /\ Undisturbed /\ MigrationsInOrder)'
<1>1. MTyped'
  BY DEF MInv, MTyped
<1>2. MigrationsInOrder'
  BY DEF MInv, MigrationsInOrder
<1>3. RunsInStep'
  BY DEF MInv, RunsInStep, Stepping
<1>4. Undisturbed'
  BY DEF MInv, Undisturbed, Stepping
<1> QED  BY <1>1, <1>2, <1>3, <1>4

LEMMA QueueKeeps ==
    ASSUME Queued, UNCHANGED queue, \A u \in Tasks : At(u) = "get" => At(u)' = "get"
    PROVE  Queued'
<1>1. \A i \in 1..Len(queue) : queue[i] \in Tasks
  BY DEF Queued
<1>2. \A u \in Tasks : task[u].at = "get" => task'[u].at = "get"
  BY DEF At
<1> QED  BY <1>1, <1>2 DEF Queued

LEMMA SimpleMove ==
    ASSUME MInv, NEW t \in Tasks, NEW p, NEW x, NEW a, task' = Moved(t, p, x, a),
           At(t) \notin Stepping, At(t) # "get", p \notin Stepping,
           UNCHANGED <<book, disturbed, queue>>
    PROVE  MInv'
<1>1. /\ task' = Records'
      /\ At(t)' = p /\ Done(t)' = a
      /\ \A u \in Tasks \ {t} : At(u)' = At(u) /\ Done(u)' = Done(u)
  BY MovedParts DEF MInv
<1>2. Queued'
  BY <1>1, QueueKeeps DEF MInv
<1>3. (MTyped /\ RunsInStep /\ Undisturbed /\ MigrationsInOrder)'
  BY <1>1, QuietKeeps
<1> QED  BY <1>2, <1>3 DEF MInv

LEMMA MInvSimple ==
    ASSUME MInv, NEW t \in Tasks,
           Resume(t) \/ Release(t) \/ Begin(t) \/ (\E key \in Rows : Write(t, key))
           \/ Wake(t) \/ Commit(t) \/ Rollback(t) \/ Drop(t) \/ Uses(t)
    PROVE  MInv'
<1>0. MTyped
  BY DEF MInv
<1>1. CASE \/ Resume(t) \/ Release(t) \/ (\E key \in Rows : Write(t, key)) \/ Wake(t)
           \/ (\E place \in {"begin", "write", "start"} : Want(t, place)) \/ Suspend(t)
  <2>1. PICK p : /\ task' = Go(t, p) /\ p \notin Stepping
                 /\ At(t) \notin Stepping /\ At(t) # "get"
                 /\ UNCHANGED <<book, disturbed, queue>>
    BY <1>1 DEF Resume, Release, Write, Wake, Want, Suspend, Calls, Is, At, Stepping
  <2>2. task' = Moved(t, p, task[t].tx, Done(t))
    BY <1>0, <2>1, Moves, Zenon
  <2> QED  BY <2>1, <2>2, SimpleMove
<1>2. CASE Commit(t) \/ Rollback(t)
  <2>1. /\ task' = Ended(t) /\ "have" \notin Stepping
        /\ At(t) \notin Stepping /\ At(t) # "get"
        /\ UNCHANGED <<book, disturbed, queue>>
    BY <1>2 DEF Commit, Rollback, Is, At, Stepping
  <2>2. task' = Moved(t, "have", {}, Done(t))
    BY <1>0, <2>1, Moves, Zenon
  <2> QED  BY <2>1, <2>2, SimpleMove
<1>3. CASE Begin(t)
  <2>1. /\ task' = [Go(t, "tx") EXCEPT ![t].tx = db] /\ "tx" \notin Stepping
        /\ At(t) \notin Stepping /\ At(t) # "get"
        /\ UNCHANGED <<book, disturbed, queue>>
    BY <1>3 DEF Begin, Is, At, Stepping
  <2>2. task' = Moved(t, "tx", db, Done(t))
    BY <1>0, <2>1, Moves, Zenon
  <2> QED  BY <2>1, <2>2, SimpleMove
<1>4. CASE Drop(t)
  <2>1. /\ task' = [Ended(t) EXCEPT ![t].at = "idle"] /\ "idle" \notin Stepping
        /\ At(t) \notin Stepping /\ At(t) # "get"
        /\ UNCHANGED <<book, disturbed, queue>>
    BY <1>4 DEF Drop, Is, At, Stepping
  <2>2. task' = Moved(t, "idle", {}, Done(t))
    BY <1>0, <2>1, Moves, Zenon
  <2> QED  BY <2>1, <2>2, SimpleMove
<1>5. ASSUME NEW first, NEW second, Execute(t, first, second) PROVE MInv'
  <2> DEFINE x == ApplyDml("INSERT", <<first, second>>, task[t].tx).content
  <2>1. /\ task' = [task EXCEPT ![t].tx = x] /\ At(t) \notin Stepping /\ At(t) # "get"
        /\ UNCHANGED <<book, disturbed, queue>>
    BY <1>5 DEF Execute, Is, At, Stepping
  <2> HIDE DEF x
  <2>2. task' = Moved(t, At(t), x, Done(t))
    BY <1>0, <2>1, Moves, Zenon
  <2> QED  BY <2>1, <2>2, SimpleMove
<1> QED  BY <1>1, <1>2, <1>3, <1>4, <1>5 DEF Uses

\* A step of the pool: what waits and what runs are different tasks.
LEMMA PoolMove ==
    ASSUME MInv, NEW t \in Tasks, NEW p, task' = Go(t, p),
           At(t) \notin Stepping, p \notin Stepping, UNCHANGED <<book, disturbed>>, Queued'
    PROVE  MInv'
<1>1. task' = Moved(t, p, task[t].tx, Done(t))
  BY Moves, Zenon DEF MInv
<1>2. /\ task' = Records'
      /\ At(t)' = p
      /\ \A u \in Tasks \ {t} : At(u)' = At(u) /\ Done(u)' = Done(u)
  BY <1>1, MovedParts DEF MInv
<1>3. (MTyped /\ RunsInStep /\ Undisturbed /\ MigrationsInOrder)'
  BY <1>2, QuietKeeps
<1> QED  BY <1>3 DEF MInv

LEMMA MInvGet ==
    ASSUME MInv, NEW t \in Tasks, Get(t)
    PROVE  MInv'
<1>1. /\ At(t) = "idle" /\ task' = Go(t, "get") /\ queue' = Append(queue, t)
      /\ UNCHANGED <<book, disturbed>>
  BY DEF Get, Calls, Is, At
<1>2. task' = Moved(t, "get", task[t].tx, Done(t))
  BY <1>1, Moves, Zenon DEF MInv
<1>3. task'[t].at = "get" /\ \A u \in Tasks \ {t} : task'[u].at = task[u].at
  BY <1>2, WhereMoved
<1>4. queue \in Seq(Tasks) /\ \A i \in 1..Len(queue) : queue[i] # t
  BY <1>1 DEF MInv, Queued, At
<1>5. Queued'
  <2>1. queue' \in Seq(Tasks) /\ Len(queue') = Len(queue) + 1
    BY <1>1, <1>4
  <2>2. \A i \in 1..Len(queue') : queue'[i] = IF i = Len(queue') THEN t ELSE queue[i]
    BY <1>1, <1>4
  <2>3. \A i \in 1..Len(queue) : queue[i] \in Tasks \ {t} /\ task'[queue[i]].at = "get"
    BY <1>3, <1>4 DEF MInv, Queued
  <2>4. ASSUME NEW i \in 1..Len(queue') PROVE task'[queue'[i]].at = "get"
    <3>1. CASE i = Len(queue')
      BY <3>1, <2>2, <1>3
    <3>2. CASE i # Len(queue')
      <4>1. i \in 1..Len(queue) /\ queue'[i] = queue[i]
        BY <3>2, <1>4, <2>1, <2>2
      <4> QED  BY <4>1, <2>3
    <3> QED  BY <3>1, <3>2
  <2>5. \A i, j \in 1..Len(queue') : queue'[i] = queue'[j] => i = j
    BY <1>4, <2>1, <2>2 DEF MInv, Queued
  <2> QED  BY <2>1, <2>4, <2>5 DEF Queued
<1> QED  BY <1>1, <1>5, PoolMove DEF Stepping

LEMMA MInvGrant ==
    ASSUME MInv, Grant
    PROVE  MInv'
<1> DEFINE t == Head(queue)
<1>1. /\ queue # <<>> /\ queue \in Seq(Tasks)
      /\ task' = Go(t, "granted") /\ queue' = Tail(queue)
      /\ UNCHANGED <<book, disturbed>>
  BY DEF Grant, MInv, Queued
<1>2. /\ t = queue[1] /\ t \in Tasks /\ Len(queue) \in Nat \ {0}
      /\ queue' \in Seq(Tasks) /\ Len(queue') = Len(queue) - 1
      /\ \A i \in 1..Len(queue') : queue'[i] = queue[i + 1]
  BY <1>1
<1>3. At(t) = "get"
  BY <1>2 DEF MInv, Queued, At
<1> HIDE DEF t
<1>4. task' = Moved(t, "granted", task[t].tx, Done(t))
  BY <1>1, <1>2, Moves, Zenon DEF MInv
<1>5. \A u \in Tasks \ {t} : task'[u].at = task[u].at
  BY <1>2, <1>4, WhereMoved
<1>6. \A i \in 1..Len(queue') : queue'[i] \in Tasks \ {t} /\ task[queue'[i]].at = "get"
  BY <1>2 DEF MInv, Queued
<1>7. Queued'
  <2>1. \A i, j \in 1..Len(queue') : queue'[i] = queue'[j] => i = j
    BY <1>2 DEF MInv, Queued
  <2>2. \A i \in 1..Len(queue') : task'[queue'[i]].at = "get"
    BY <1>5, <1>6
  <2> QED  BY <1>2, <2>1, <2>2 DEF Queued
<1> QED  BY <1>1, <1>2, <1>3, <1>7, PoolMove DEF Stepping

LEMMA MInvCancelGet ==
    ASSUME MInv, NEW t \in Tasks, CancelGet(t)
    PROVE  MInv'
<1>1. task' = Go(t, "idle") /\ UNCHANGED <<book, disturbed>>
  BY DEF CancelGet
<1>2. task' = Moved(t, "idle", task[t].tx, Done(t))
  BY <1>1, Moves, Zenon DEF MInv
<1>3. CASE Is(t, "granted") /\ UNCHANGED queue
  <2>1. At(t) = "granted"
    BY <1>3 DEF Is, At
  <2> QED  BY <1>1, <1>2, <1>3, <2>1, SimpleMove DEF Stepping
<1>4. ASSUME NEW i \in 1..Len(queue), queue[i] = t, queue' = RemoveAt(queue, i)
      PROVE  MInv'
  <2>1. queue \in Seq(Tasks) /\ Len(queue) \in Nat
    BY DEF MInv, Queued
  <2>2. /\ queue' \in Seq(Tasks) /\ Len(queue') = Len(queue) - 1
        /\ \A k \in 1..Len(queue') : queue'[k] = queue[IF k < i THEN k ELSE k + 1]
    <3> DEFINE front_part == SubSeq(queue, 1, i - 1)
               back_part == SubSeq(queue, i + 1, Len(queue))
    <3>1. /\ front_part \in Seq(Tasks) /\ Len(front_part) = i - 1
          /\ \A k \in 1..(i - 1) : front_part[k] = queue[k]
      BY <1>4, <2>1
    <3>2. /\ back_part \in Seq(Tasks) /\ Len(back_part) = Len(queue) - i
          /\ \A k \in 1..(Len(queue) - i) : back_part[k] = queue[i + k]
      BY <1>4, <2>1
    <3>3. queue' = front_part \o back_part
      BY <1>4 DEF RemoveAt
    <3> HIDE DEF front_part, back_part
    <3>4. /\ queue' \in Seq(Tasks) /\ Len(queue') = Len(queue) - 1
          /\ \A k \in 1..(Len(queue) - 1) :
                queue'[k] = IF k <= i - 1 THEN front_part[k] ELSE back_part[k - (i - 1)]
      <4>1. /\ queue' \in Seq(Tasks) /\ Len(queue') = Len(front_part) + Len(back_part)
            /\ \A k \in 1..(Len(front_part) + Len(back_part)) :
                  queue'[k] = IF k <= Len(front_part) THEN front_part[k]
                              ELSE back_part[k - Len(front_part)]
        BY <3>1, <3>2, <3>3, ConcatProperties
      <4> QED  BY <1>4, <2>1, <3>1, <3>2, <4>1
    <3>5. ASSUME NEW k \in 1..Len(queue')
          PROVE  queue'[k] = queue[IF k < i THEN k ELSE k + 1]
      <4>1. CASE k < i
        <5>1. queue'[k] = front_part[k]
          BY <2>1, <3>4, <4>1
        <5> QED  BY <3>1, <3>4, <4>1, <5>1, <2>1
      <4>2. CASE ~(k < i)
        <5>1. queue'[k] = back_part[k - (i - 1)]
          BY <2>1, <3>4, <4>2
        <5>2. k - (i - 1) \in 1..(Len(queue) - i) /\ i + (k - (i - 1)) = k + 1
          BY <2>1, <3>4, <4>2
        <5> QED  BY <3>2, <4>2, <5>1, <5>2
      <4> QED  BY <4>1, <4>2
    <3> QED  BY <3>4, <3>5
  <2>3. At(t) = "get"
    BY <1>4 DEF MInv, Queued, At
  <2>4. \A u \in Tasks \ {t} : task'[u].at = task[u].at
    BY <1>2, WhereMoved
  <2>5. ASSUME NEW k \in 1..Len(queue')
        PROVE  queue'[k] \in Tasks \ {t} /\ task[queue'[k]].at = "get"
    <3> DEFINE m == IF k < i THEN k ELSE k + 1
    <3>1. m \in 1..Len(queue) /\ m # i /\ queue'[k] = queue[m]
      BY <2>1, <2>2
    <3> HIDE DEF m
    <3> QED  BY <1>4, <2>1, <3>1 DEF MInv, Queued
  <2>6. Queued'
    <3>1. \A k, j \in 1..Len(queue') : queue'[k] = queue'[j] => k = j
      <4> SUFFICES ASSUME NEW k \in 1..Len(queue'), NEW j \in 1..Len(queue'), queue'[k] = queue'[j]
                   PROVE  k = j
        OBVIOUS
      <4>1. (IF k < i THEN k ELSE k + 1) = (IF j < i THEN j ELSE j + 1)
        BY <2>1, <2>2 DEF MInv, Queued
      <4> QED  BY <2>1, <2>2, <4>1
    <3>2. \A k \in 1..Len(queue') : task'[queue'[k]].at = "get"
      BY <2>4, <2>5
    <3> QED  BY <2>2, <3>1, <3>2 DEF Queued
  <2> QED  BY <1>1, <2>3, <2>6, PoolMove DEF Stepping
<1> QED  BY <1>3, <1>4 DEF CancelGet

LEMMA Refused ==
    ASSUME MTyped, NEW u \in Tasks
    PROVE  [task[u] EXCEPT !.at = "idle"] = [at |-> "idle", tx |-> task[u].tx, applied |-> Done(u)]
<1>1. task[u] = [at |-> At(u), tx |-> task[u].tx, applied |-> Done(u)]
  BY DEF MTyped, Records, At, Done
<1> QED  BY <1>1

LEMMA MInvClosePool ==
    ASSUME MInv, ClosePool
    PROVE  MInv'
<1> DEFINE refused == {t \in Tasks : task[t].at \in {"get", "granted"}}
<1>1. /\ task' = [t \in Tasks |-> IF t \in refused THEN [task[t] EXCEPT !.at = "idle"] ELSE task[t]]
      /\ queue' = <<>> /\ UNCHANGED <<book, disturbed>>
  BY DEF ClosePool
<1>2. ASSUME NEW u \in Tasks
      PROVE  task'[u] = [at |-> IF u \in refused THEN "idle" ELSE At(u),
                         tx |-> task[u].tx, applied |-> Done(u)]
  <2>1. task'[u] = IF u \in refused THEN [task[u] EXCEPT !.at = "idle"] ELSE task[u]
    BY <1>1
  <2>2. task[u] = [at |-> At(u), tx |-> task[u].tx, applied |-> Done(u)]
    BY DEF MInv, MTyped, Records, At, Done
  <2>3. [task[u] EXCEPT !.at = "idle"] = [at |-> "idle", tx |-> task[u].tx, applied |-> Done(u)]
    BY Refused DEF MInv
  <2>4. CASE u \in refused
    BY <2>1, <2>3, <2>4
  <2>5. CASE u \notin refused
    BY <2>1, <2>2, <2>5
  <2> QED  BY <2>4, <2>5
<1>3. task' = Records'
  BY <1>1, <1>2 DEF Records
<1>5. \A u \in refused : At(u) \notin Stepping
  BY DEF At, Stepping
<1> HIDE DEF refused
<1>4. ASSUME NEW u \in Tasks
      PROVE  /\ u \in refused => At(u)' = "idle"
             /\ u \notin refused => At(u)' = At(u)
             /\ Done(u)' = Done(u)
  <2> DEFINE here == At(u)
             done == Done(u)
  <2>0. task'[u] = [at |-> IF u \in refused THEN "idle" ELSE here,
                    tx |-> task[u].tx, applied |-> done]
    BY <1>2
  <2> HIDE DEF here, done
  <2>1. task'[u].at = (IF u \in refused THEN "idle" ELSE here) /\ task'[u].applied = done
    BY <2>0
  <2>2. At(u)' = task'[u].at /\ Done(u)' = task'[u].applied
    BY DEF At, Done
  <2> QED  BY <2>1, <2>2 DEF here, done
<1>6. (MTyped /\ RunsInStep /\ Undisturbed /\ MigrationsInOrder)'
  BY <1>1, <1>3, <1>4, <1>5, QuietKeeps DEF Stepping
<1>7. Queued'
  BY <1>1 DEF Queued
<1> QED  BY <1>6, <1>7 DEF MInv

LEMMA MInvRestart ==
    ASSUME MInv, Restart
    PROVE  MInv'
<1>1. /\ task' = [t \in Tasks |-> [task[t] EXCEPT !.at = "idle", !.tx = {}, !.applied = {}]]
      /\ queue' = <<>> /\ UNCHANGED book
      /\ disturbed' = (disturbed \/ Migrating # {})
  BY DEF Restart
<1>2. ASSUME NEW u \in Tasks PROVE task'[u] = [at |-> "idle", tx |-> {}, applied |-> {}]
  <2>1. task[u] = [at |-> At(u), tx |-> task[u].tx, applied |-> Done(u)]
    BY DEF MInv, MTyped, Records, At, Done
  <2> QED  BY <1>1, <2>1
<1>3. MTyped'
  <2>1. task' = Records'
    BY <1>1, <1>2 DEF Records
  <2>2. disturbed' \in BOOLEAN
    BY <1>1 DEF MInv, MTyped
  <2> QED  BY <1>1, <2>1, <2>2 DEF MInv, MTyped
<1>4. \A u \in Tasks : At(u)' = "idle"
  BY <1>2 DEF At
<1>5. Queued' /\ RunsInStep'
  <2>1. Queued'
    <3>1. queue' = <<>>
      BY <1>1
    <3> QED  BY <3>1 DEF Queued
  <2>2. RunsInStep'
    BY <1>4 DEF RunsInStep
  <2> QED  BY <2>1, <2>2
<1>6. ~disturbed' => ~disturbed /\ \A u \in Tasks : At(u) \notin Stepping
  BY <1>1 DEF Migrating, At, Stepping
<1>7. MigrationsInOrder'
  BY <1>1, <1>6 DEF MInv, MigrationsInOrder
<1>8. Undisturbed'
  BY <1>1, <1>4, <1>6 DEF MInv, Undisturbed, Stepping
<1> QED  BY <1>3, <1>5, <1>7, <1>8 DEF MInv

-----------------------------------------------------------------------------
(* The steps of a run.                                                     *)

\* The next version is the least that is pending.
LEMMA NextIsLeast ==
    ASSUME NEW t \in Tasks, Pending(t) # {}
    PROVE  /\ NextVersion(t) \in Pending(t)
           /\ \A u \in Pending(t) : NextVersion(t) <= u
<1>1. Pending(t) \subseteq Nat
  BY AsyncAssumption DEF Pending
<1>2. \E v \in Pending(t) : \A u \in Pending(t) : v <= u
  BY <1>1, LeastExists
<1> QED  BY <1>2, Zenon DEF NextVersion

\* Only the next version can be run and not recorded.
LEMMA HalfwayIsNext ==
    ASSUME MInv, NEW t \in Tasks, At(t) = "migrate", NEW v \in Versions, -v \in Done(t)
    PROVE  Pending(t) # {} /\ v = NextVersion(t)
<1>1. v \notin Done(t) /\ \A u \in Versions : u < v => u \in Done(t)
  BY DEF MInv, RunsInStep
<1>2. v \in Pending(t) /\ \A u \in Pending(t) : ~(u < v)
  BY <1>1 DEF Pending, Done
<1>3. NextVersion(t) \in Pending(t) /\ NextVersion(t) <= v /\ ~(NextVersion(t) < v)
  BY <1>2, NextIsLeast
<1>4. Pending(t) \subseteq Nat
  BY AsyncAssumption DEF Pending
<1> QED  BY <1>2, <1>3, <1>4

LEMMA RunnerMove ==
    ASSUME MInv, NEW t \in Tasks, NEW p, NEW x, NEW a, task' = Moved(t, p, x, a),
           At(t) # "get", UNCHANGED queue
    PROVE  /\ task' = Records' /\ Queued'
           /\ At(t)' = p /\ Done(t)' = a
           /\ \A u \in Tasks \ {t} : At(u)' = At(u) /\ Done(u)' = Done(u)
<1>1. /\ task' = Records'
      /\ At(t)' = p /\ Done(t)' = a
      /\ \A u \in Tasks \ {t} : At(u)' = At(u) /\ Done(u)' = Done(u)
  BY MovedParts DEF MInv
<1>2. Queued'
  BY <1>1, QueueKeeps DEF MInv
<1> QED  BY <1>1, <1>2

LEMMA MInvStart ==
    ASSUME MInv, NEW t \in Tasks, StartMigrating(t)
    PROVE  MInv'
<1>1. /\ At(t) = "start" /\ task' = Go(t, "read") /\ UNCHANGED queue
      /\ book' = [book EXCEPT !.table = TRUE]
      /\ disturbed' = (disturbed \/ Migrating # {})
  BY DEF StartMigrating, Is, At
<1>2. task' = Moved(t, "read", task[t].tx, Done(t))
  BY <1>1, Moves, Zenon DEF MInv
<1>3. /\ task' = Records' /\ Queued'
      /\ At(t)' = "read"
      /\ \A u \in Tasks \ {t} : At(u)' = At(u) /\ Done(u)' = Done(u)
  BY <1>1, <1>2, RunnerMove
<1>4. /\ book'.recorded = book.recorded /\ book'.effects = book.effects
      /\ book' = [table |-> book'.table, recorded |-> book'.recorded, effects |-> book'.effects]
  BY <1>1 DEF MInv, MTyped
<1>5. MTyped'
  BY <1>1, <1>3, <1>4 DEF MInv, MTyped
<1>6. MigrationsInOrder'
  BY <1>1, <1>4 DEF MInv, MigrationsInOrder
<1>7. RunsInStep'
  BY <1>3, <1>4 DEF MInv, RunsInStep
<1>8. Undisturbed'
  <2>1. ~disturbed' => ~disturbed /\ \A u \in Tasks : At(u) \notin Stepping
    BY <1>1 DEF Migrating, At, Stepping
  <2> QED  BY <2>1, <1>3, <1>4 DEF MInv, Undisturbed, Stepping
<1> QED  BY <1>3, <1>5, <1>6, <1>7, <1>8 DEF MInv

LEMMA MInvRead ==
    ASSUME MInv, NEW t \in Tasks, ReadApplied(t)
    PROVE  MInv'
<1>1. /\ At(t) = "read" /\ UNCHANGED <<queue, book, disturbed>>
      /\ task' = [Go(t, "migrate") EXCEPT ![t].applied = book.recorded]
  BY DEF ReadApplied, Is, At
<1> DEFINE a == book.recorded
<1> HIDE DEF a
<1>2. task' = Moved(t, "migrate", task[t].tx, a)
  <2>1. task' = [Go(t, "migrate") EXCEPT ![t].applied = a]
    BY <1>1 DEF a
  <2> QED  BY <2>1, MovesDone, Zenon DEF MInv
<1>3. /\ task' = Records' /\ Queued'
      /\ At(t)' = "migrate" /\ Done(t)' = book.recorded
      /\ \A u \in Tasks \ {t} : At(u)' = At(u) /\ Done(u)' = Done(u)
  BY <1>1, <1>2, RunnerMove DEF a
<1>4. MTyped' /\ MigrationsInOrder'
  BY <1>1, <1>3 DEF MInv, MTyped, MigrationsInOrder
<1>5. RunsInStep'
  <2>1. \A v \in Versions : -v \notin book.recorded
    BY AsyncAssumption DEF MInv, MTyped
  <2> QED  BY <1>1, <1>3, <2>1 DEF MInv, RunsInStep
<1>6. Undisturbed'
  BY <1>1, <1>3 DEF MInv, Undisturbed, Stepping
<1> QED  BY <1>3, <1>4, <1>5, <1>6 DEF MInv

\* A run that stops between two migrations, at the end or because one fails.
LEMMA MInvStop ==
    ASSUME MInv, NEW t \in Tasks, At(t) = "migrate",
           \A v \in Versions : -v \notin Done(t),
           task' = [Go(t, "have") EXCEPT ![t].applied = {}],
           UNCHANGED <<queue, book, disturbed>>
    PROVE  MInv'
<1>1. task' = Moved(t, "have", task[t].tx, {})
  BY MovesDone, Zenon DEF MInv
<1>2. /\ task' = Records' /\ Queued'
      /\ At(t)' = "have"
      /\ \A u \in Tasks \ {t} : At(u)' = At(u) /\ Done(u)' = Done(u)
  BY <1>1, RunnerMove
<1>3. MTyped' /\ MigrationsInOrder'
  BY <1>2 DEF MInv, MTyped, MigrationsInOrder
<1>4. RunsInStep'
  BY <1>2 DEF MInv, RunsInStep
<1>5. Undisturbed'
  BY <1>2 DEF MInv, Undisturbed, Stepping
<1> QED  BY <1>2, <1>3, <1>4, <1>5 DEF MInv

LEMMA MInvEnd ==
    ASSUME MInv, NEW t \in Tasks, EndMigrating(t)
    PROVE  MInv'
<1>1. /\ At(t) = "migrate" /\ Pending(t) = {} /\ UNCHANGED <<queue, book, disturbed>>
      /\ task' = [Go(t, "have") EXCEPT ![t].applied = {}]
  BY DEF EndMigrating, Is, At
<1>2. \A v \in Versions : -v \notin Done(t)
  BY <1>1, HalfwayIsNext
<1> QED  BY <1>1, <1>2, MInvStop

LEMMA NextFacts ==
    ASSUME NEW t \in Tasks, Pending(t) # {}, NEW v, v = NextVersion(t)
    PROVE  /\ v \in Versions /\ v \notin Done(t)
           /\ \A u \in Versions : u < v => u \in Done(t)
<1>1. v \in Pending(t) /\ \A u \in Pending(t) : v <= u
  BY NextIsLeast
<1>2. v \in Versions /\ v \notin Done(t)
  BY <1>1 DEF Pending, Done
<1>3. ASSUME NEW u \in Versions, u < v PROVE u \in Done(t)
  <2>1. CASE u \in Pending(t)
    <3>1. v <= u
      BY <1>1, <2>1
    <3> QED  BY <1>2, <1>3, <3>1, AsyncAssumption
  <2>2. CASE u \notin Pending(t)
    BY <2>2 DEF Pending, Done
  <2> QED  BY <2>1, <2>2
<1> QED  BY <1>2, <1>3

LEMMA MInvRun ==
    ASSUME MInv, NEW t \in Tasks, RunMigration(t)
    PROVE  MInv'
<1> DEFINE v == NextVersion(t)
           a == Done(t) \cup {-v}
<1>1. /\ At(t) = "migrate" /\ Pending(t) # {} /\ UNCHANGED <<queue, disturbed>>
      /\ -v \notin Done(t)
      /\ \/ /\ book' = [book EXCEPT !.effects[v] = @ + 1]
            /\ task' = [task EXCEPT ![t].applied = a]
         \/ /\ task' = [Go(t, "have") EXCEPT ![t].applied = {}]
            /\ UNCHANGED book
  BY DEF RunMigration, Is, At, Halfway, Done
<1>2. /\ v \in Versions /\ v \notin Done(t)
      /\ \A u \in Versions : u < v => u \in Done(t)
  BY <1>1, NextFacts
<1>3. \A w \in Versions : -w \notin Done(t)
  BY <1>1, HalfwayIsNext
<1> HIDE DEF v, a
<1>4. CASE task' = [Go(t, "have") EXCEPT ![t].applied = {}] /\ UNCHANGED book
  BY <1>1, <1>3, <1>4, MInvStop
<1>5. CASE /\ book' = [book EXCEPT !.effects[v] = @ + 1]
           /\ task' = [task EXCEPT ![t].applied = a]
  <2>1. task' = Moved(t, At(t), task[t].tx, a)
    BY <1>5, MovesDoneHere, Zenon DEF MInv
  <2>2. /\ task' = Records' /\ Queued'
        /\ At(t)' = "migrate" /\ Done(t)' = a
        /\ \A u \in Tasks \ {t} : At(u)' = At(u) /\ Done(u)' = Done(u)
    BY <1>1, <2>1, RunnerMove
  <2>3. /\ book'.recorded = book.recorded
        /\ book' = [table |-> book'.table, recorded |-> book'.recorded, effects |-> book'.effects]
        /\ book'.effects \in [Versions -> Nat]
        /\ \A w \in Versions : book'.effects[w] = IF w = v THEN book.effects[w] + 1 ELSE book.effects[w]
    BY <1>2, <1>5 DEF MInv, MTyped
  <2>4. ~disturbed => book.effects[v] = 0
    <3>1. ASSUME ~disturbed, book.effects[v] > 0 PROVE FALSE
      <4>1. v \notin book.recorded
        BY <1>1, <1>2, <3>1 DEF MInv, Undisturbed
      <4>2. PICK u \in Tasks : At(u) = "migrate" /\ -v \in Done(u)
        BY <1>2, <3>1, <4>1 DEF MInv, Undisturbed
      <4>3. u = t
        BY <1>1, <3>1, <4>2 DEF MInv, Undisturbed, Stepping
      <4> QED  BY <1>1, <4>2, <4>3
    <3> QED  BY <1>2, <3>1 DEF MInv, MTyped
  <2>5. MTyped'
    BY <1>1, <2>2, <2>3 DEF MInv, MTyped
  <2>6. \A w \in Versions : (w \in a <=> w \in Done(t)) /\ (-w \in a <=> w = v)
    <3> SUFFICES ASSUME NEW w \in Versions
                 PROVE  (w \in a <=> w \in Done(t)) /\ (-w \in a <=> w = v)
      OBVIOUS
    <3>1. w \in Nat \ {0} /\ v \in Nat \ {0}
      BY <1>2, AsyncAssumption
    <3> QED  BY <1>3, <3>1 DEF a
  <2>7. \A u \in Versions : u < v => u \in book.recorded
    BY <1>1, <1>2 DEF MInv, RunsInStep
  <2>8. MigrationsInOrder'
    <3> SUFFICES ASSUME NEW w \in Versions
                 PROVE  /\ w \in book'.recorded => book'.effects[w] > 0
                        /\ book'.effects[w] > 0 => \A u \in Versions : u < w => u \in book'.recorded
                        /\ ~disturbed' => book'.effects[w] <= 1
      BY DEF MigrationsInOrder
    <3>1. book.effects[w] \in Nat
      BY DEF MInv, MTyped
    <3>2. CASE w = v
      BY <1>1, <2>3, <2>4, <2>7, <3>1, <3>2
    <3>3. CASE w # v
      BY <1>1, <2>3, <3>1, <3>3 DEF MInv, MigrationsInOrder
    <3> QED  BY <3>2, <3>3
  <2>9. RunsInStep'
    <3> SUFFICES ASSUME NEW u \in Tasks, At(u)' = "migrate", NEW w \in Versions
                 PROVE  /\ w \in Done(u)' => w \in book'.recorded
                        /\ -w \in Done(u)' => /\ book'.effects[w] > 0 /\ w \notin Done(u)'
                                              /\ \A y \in Versions : y < w => y \in Done(u)'
      BY DEF RunsInStep
    <3>1. book.effects[w] \in Nat
      BY DEF MInv, MTyped
    <3>2. CASE u = t
      BY <1>1, <1>2, <2>2, <2>3, <2>6, <3>1, <3>2 DEF MInv, RunsInStep
    <3>3. CASE u # t
      BY <2>2, <2>3, <3>1, <3>3 DEF MInv, RunsInStep
    <3> QED  BY <3>2, <3>3
  <2>10. Undisturbed'
    <3> SUFFICES ASSUME ~disturbed
                 PROVE  /\ \A x, y \in Tasks : At(x)' \in Stepping /\ At(y)' \in Stepping => x = y
                        /\ \A x \in Tasks : At(x)' = "migrate" => book'.recorded \subseteq Done(x)'
                        /\ \A w \in Versions : book'.effects[w] > 0 =>
                              \/ w \in book'.recorded
                              \/ \E x \in Tasks : At(x)' = "migrate" /\ -w \in Done(x)'
      BY <1>1 DEF Undisturbed, Stepping
    <3>1. \A x \in Tasks : At(x)' = At(x)
      BY <1>1, <2>2
    <3>2. \A x, y \in Tasks : At(x)' \in Stepping /\ At(y)' \in Stepping => x = y
      BY <3>1 DEF MInv, Undisturbed
    <3>3. \A x \in Tasks : At(x)' = "migrate" => book'.recorded \subseteq Done(x)'
      BY <2>2, <2>3, <3>1 DEF MInv, Undisturbed, a
    <3>4. ASSUME NEW w \in Versions, book'.effects[w] > 0
          PROVE  \/ w \in book'.recorded
                 \/ \E x \in Tasks : At(x)' = "migrate" /\ -w \in Done(x)'
      <4>1. CASE w = v
        BY <2>2, <2>6, <4>1
      <4>2. CASE w # v
        <5>1. \/ w \in book.recorded
              \/ \E x \in Tasks : At(x) = "migrate" /\ -w \in Done(x)
          BY <2>3, <3>4, <4>2 DEF MInv, Undisturbed
        <5> QED  BY <1>3, <2>2, <2>3, <5>1
      <4> QED  BY <4>1, <4>2
    <3> QED  BY <3>2, <3>3, <3>4
  <2> QED  BY <2>2, <2>5, <2>8, <2>9, <2>10 DEF MInv
<1> QED  BY <1>1, <1>4, <1>5

LEMMA MInvRecord ==
    ASSUME MInv, NEW t \in Tasks, RecordMigration(t)
    PROVE  MInv'
<1> DEFINE v == NextVersion(t)
           a == (Done(t) \ {-v}) \cup {v}
<1>1. /\ At(t) = "migrate" /\ Pending(t) # {} /\ UNCHANGED queue
      /\ -v \in Done(t)
      /\ \/ /\ book' = [book EXCEPT !.recorded = @ \cup {v}]
            /\ task' = [task EXCEPT ![t].applied = a]
            /\ UNCHANGED disturbed
         \/ /\ task' = [Go(t, "have") EXCEPT ![t].applied = {}]
            /\ disturbed' = TRUE /\ UNCHANGED book
  BY DEF RecordMigration, Is, At, Halfway, Done
<1>2. /\ v \in Versions /\ v \notin Done(t)
      /\ \A u \in Versions : u < v => u \in Done(t)
  BY <1>1, NextFacts
<1>3. \A w \in Versions : -w \in Done(t) => w = v
  BY <1>1, HalfwayIsNext
<1> HIDE DEF v, a
<1>4. CASE /\ task' = [Go(t, "have") EXCEPT ![t].applied = {}]
           /\ disturbed' = TRUE /\ UNCHANGED book
  <2>1. task' = Moved(t, "have", task[t].tx, {})
    BY <1>4, MovesDone, Zenon DEF MInv
  <2>2. /\ task' = Records' /\ Queued'
        /\ At(t)' = "have"
        /\ \A u \in Tasks \ {t} : At(u)' = At(u) /\ Done(u)' = Done(u)
    BY <1>1, <2>1, RunnerMove
  <2>3. MTyped'
    BY <1>4, <2>2 DEF MInv, MTyped
  <2>4. MigrationsInOrder' /\ Undisturbed'
    BY <1>4 DEF MInv, MigrationsInOrder, Undisturbed
  <2>5. RunsInStep'
    BY <1>4, <2>2 DEF MInv, RunsInStep
  <2> QED  BY <2>2, <2>3, <2>4, <2>5 DEF MInv
<1>5. CASE /\ book' = [book EXCEPT !.recorded = @ \cup {v}]
           /\ task' = [task EXCEPT ![t].applied = a]
           /\ UNCHANGED disturbed
  <2>1. task' = Moved(t, At(t), task[t].tx, a)
    BY <1>5, MovesDoneHere, Zenon DEF MInv
  <2>2. /\ task' = Records' /\ Queued'
        /\ At(t)' = "migrate" /\ Done(t)' = a
        /\ \A u \in Tasks \ {t} : At(u)' = At(u) /\ Done(u)' = Done(u)
    BY <1>1, <2>1, RunnerMove
  <2>3. /\ book'.recorded = book.recorded \cup {v} /\ book'.effects = book.effects
        /\ book' = [table |-> book'.table, recorded |-> book'.recorded, effects |-> book'.effects]
    BY <1>5 DEF MInv, MTyped
  <2>4. MTyped'
    BY <1>2, <1>5, <2>2, <2>3 DEF MInv, MTyped
  <2>5. \A w \in Versions : (w \in a <=> w \in Done(t) \/ w = v) /\ -w \notin a
    <3> SUFFICES ASSUME NEW w \in Versions
                 PROVE  (w \in a <=> w \in Done(t) \/ w = v) /\ -w \notin a
      OBVIOUS
    <3>1. w \in Nat \ {0} /\ v \in Nat \ {0}
      BY <1>2, AsyncAssumption
    <3> QED  BY <1>3, <3>1 DEF a
  <2>6. book.effects[v] > 0
    BY <1>1, <1>2 DEF MInv, RunsInStep
  <2>7. MigrationsInOrder'
    BY <1>5, <2>3, <2>6 DEF MInv, MigrationsInOrder
  <2>8. RunsInStep'
    <3> SUFFICES ASSUME NEW u \in Tasks, At(u)' = "migrate", NEW w \in Versions
                 PROVE  /\ w \in Done(u)' => w \in book'.recorded
                        /\ -w \in Done(u)' => /\ book'.effects[w] > 0 /\ w \notin Done(u)'
                                              /\ \A y \in Versions : y < w => y \in Done(u)'
      BY DEF RunsInStep
    <3>1. CASE u = t
      BY <1>1, <2>2, <2>3, <2>5, <3>1 DEF MInv, RunsInStep
    <3>2. CASE u # t
      BY <2>2, <2>3, <3>2 DEF MInv, RunsInStep
    <3> QED  BY <3>1, <3>2
  <2>9. Undisturbed'
    <3> SUFFICES ASSUME ~disturbed
                 PROVE  /\ \A x, y \in Tasks : At(x)' \in Stepping /\ At(y)' \in Stepping => x = y
                        /\ \A x \in Tasks : At(x)' = "migrate" => book'.recorded \subseteq Done(x)'
                        /\ \A w \in Versions : book'.effects[w] > 0 =>
                              \/ w \in book'.recorded
                              \/ \E x \in Tasks : At(x)' = "migrate" /\ -w \in Done(x)'
      BY <1>5 DEF Undisturbed, Stepping
    <3>1. \A x \in Tasks : At(x)' = At(x)
      BY <1>1, <2>2
    <3>2. \A x, y \in Tasks : At(x)' \in Stepping /\ At(y)' \in Stepping => x = y
      BY <3>1 DEF MInv, Undisturbed
    <3>3. ASSUME NEW x \in Tasks, At(x)' = "migrate"
          PROVE  book'.recorded \subseteq Done(x)'
      <4>1. x = t
        BY <1>1, <3>1, <3>3 DEF MInv, Undisturbed, Stepping
      <4>2. book.recorded \subseteq Done(t) /\ book.recorded \subseteq Versions
        BY <1>1 DEF MInv, Undisturbed, MTyped
      <4> QED  BY <1>2, <2>2, <2>3, <2>5, <4>1, <4>2
    <3>4. ASSUME NEW w \in Versions, book'.effects[w] > 0
          PROVE  \/ w \in book'.recorded
                 \/ \E x \in Tasks : At(x)' = "migrate" /\ -w \in Done(x)'
      <4>1. \/ w \in book.recorded
            \/ \E x \in Tasks : At(x) = "migrate" /\ -w \in Done(x)
        BY <2>3, <3>4 DEF MInv, Undisturbed
      <4> QED  BY <1>3, <2>2, <2>3, <4>1
    <3> QED  BY <3>2, <3>3, <3>4
  <2> QED  BY <2>2, <2>4, <2>7, <2>8, <2>9 DEF MInv
<1> QED  BY <1>1, <1>4, <1>5

\* A version is recorded only once its migration has taken effect, no migration
\* takes effect before all smaller versions are recorded, and none twice unless a
\* run was cut short or two overlapped (migrate.rs run_migrations).
THEOREM MigrationsAreOrdered == Spec => []MigrationsInOrder
<1>1. Init => MInv
  BY MInvInit
<1>2. MInv /\ [Next]_vars => MInv'
  <2> SUFFICES ASSUME MInv, [Next]_vars PROVE MInv'
    OBVIOUS
  <2>1. CASE UNCHANGED aVars
    BY <2>1 DEF aVars, MInv, MTyped, Records, Queued, RunsInStep, Undisturbed,
                MigrationsInOrder, At, Done
  <2>2. CASE ANext
    BY <2>2, MInvSimple, MInvGet, MInvGrant, MInvCancelGet, MInvClosePool, MInvRestart,
       MInvStart, MInvRead, MInvRun, MInvRecord, MInvEnd DEF ANext, GetsOn
  <2> QED  BY <2>1, <2>2 DEF Next, vars
<1>3. MInv => MigrationsInOrder
  BY DEF MInv
<1> QED  BY <1>1, <1>2, <1>3, PTL DEF Spec
=============================================================================
